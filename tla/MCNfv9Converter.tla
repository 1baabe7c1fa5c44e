--------------------------- MODULE MCNfv9Converter ---------------------------
(* Files of up to six units: plain packets, several templates in a          *)
(* flowset, several flowsets in a packet, templates that end too early,     *)
(* reserved ids, files that are cut off, a packet whose records make the    *)
(* counter wrap.                                                            *)
EXTENDS Nfv9Converter

Packet(source, n) == [kind |-> "packet", source |-> source, count |-> n]
Templates(id, declared, size) ==
  [kind |-> "templates", id |-> id, declared |-> declared, size |-> size]
Data(id) == [kind |-> "data", id |-> id]
Reserved == [kind |-> "reserved"]
Cut == [kind |-> "cut"]

\* A record of two fields; the same with a second record of one field behind it;
\* a record that announces three fields and holds one; an empty flowset; a record that
\* lacks three bytes, and one that lacks five; two records of no field.
One == Templates(256, 2, 12)
Two == Templates(256, 2, 20)
Short == Templates(257, 3, 8)
Empty == Templates(257, 1, 0)
Clipped == Templates(259, 2, 9)
Halved == Templates(260, 2, 7)
Bare == Templates(258, 0, 8)

Files ==
  {<<>>,
   <<Packet(1, 3), One, Data(256), Packet(1, 2), Data(256)>>,
   <<Packet(2, 1), One, Packet(1, 0), Packet(2, 4), Data(257)>>,
   <<Packet(1, 4), Two, Data(256), Packet(1, 1), Data(256)>>,
   <<Packet(1, 3), Short, One, Data(257)>>,
   <<Packet(1, 2), Empty, Data(256)>>,
   <<Packet(1, 5), One, Data(256), Data(256), Cut>>,
   <<Packet(2, 2), One, Reserved>>,
   <<Packet(2, 2), One, Packet(2, 1), One>>,
   <<Packet(1, 2), One, Cut>>,
   <<Packet(2, 1), One, Cut>>,
   <<Packet(1, 7), Bare, Bare, Bare, Bare, Data(258)>>,
   <<Packet(1, 1), Templates(258, 0, 4)>>,
   <<Packet(1, 2), Clipped, Data(259)>>,
   <<Packet(2, 2), Halved, Templates(258, 0, 2)>>}
=============================================================================
