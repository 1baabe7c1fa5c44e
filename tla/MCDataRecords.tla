---------------------------- MODULE MCDataRecords ----------------------------
(* Data sets of one or two records: times in milliseconds and              *)
(* microseconds, addresses of both families, elements that are not           *)
(* supported or not known, values that are too long.                         *)
EXTENDS DataRecords, TLC

ElementNames == 1 :> "octetDeltaCount" @@ 8 :> "sourceIPv4Address"
                @@ 12 :> "destinationIPv4Address" @@ 27 :> "sourceIPv6Address"
                @@ 96 :> "applicationName" @@ 152 :> "flowStartMilliseconds"
                @@ 155 :> "flowEndMicroseconds"

\* Every id that 16 bits can hold, those with the enterprise bit among them.
AllIds == 0..(2^16 - 1)

F(id, size, value) == [id |-> id, size |-> size, value |-> value]
Start(value) == F(152, 8, value)
End(value) == F(155, 8, value)
Src(value) == F(8, 4, value)
Dst(value) == F(12, 4, value)
Octets(value) == F(1, 4, value)
Enterprise == F(EnterpriseBit + 8, 4, 3)
App == F(96, 4, 0)
Long == F(8, 16, 0)
Unassigned == F(500, 4, 6)
Src6(length) == F(27, 16, length)

Records == {<<Start(s), Src(a), Octets(9)>> : s \in {2123, 4000}, a \in {1, 2}}
           \cup {<<Octets(1), Src(1), Unassigned, Long, End(2001456), Src6(31)>>,
                 <<Octets(5), Enterprise, Dst(2), Src6(11), Src6(39), App>>,
                 <<Start(3999), Octets(3), Start(2000), End(9000000)>>}

Batches == {<<>>} \cup {<<r>> : r \in Records} \cup {<<r, s>> : r \in Records, s \in Records}

Map(mapped, d) ==
  [version |-> 10, name |-> "flowStartMilliseconds", mapped |-> mapped, div |-> d]
MapEnd == [version |-> 10, name |-> "flowEndMicroseconds", mapped |-> FLOW_END, div |-> 1000000]
MapNine == [version |-> 9, name |-> "octetDeltaCount", mapped |-> FLOW_START, div |-> 1]
MapOctets == [version |-> 10, name |-> "octetDeltaCount", mapped |-> "octets", div |-> 7]

Conf(mappings, template, start, stop, src, dst, dateAdd, unprintable) ==
  [mappings |-> mappings, template |-> template, start |-> start, stop |-> stop,
   src |-> src, dst |-> dst, dateAdd |-> dateAdd, unprintable |-> unprintable]

Confs ==
  {Conf(<<Map(FLOW_START, 1000), MapEnd>>,
        <<FLOW_START, FLOW_END, "octetDeltaCount", FLOW_START>>, 0, 4, 1, 0, "msec", {9}),
   Conf(<<MapNine, MapOctets, Map(FLOW_START, 1000), Map("again", 0)>>,
        <<"octets", "sourceIPv4Address">>, 3, 0, 0, 2, "", {}),
   Conf(<<Map(FLOW_START, 1)>>, <<>>, 2124, 0, 0, 0, "usec", {2}),
   Conf(<<Map(FLOW_START, 0)>>, <<"sourceIPv4Address">>, 0, 0, 2, 0, "sec", {}),
   Conf(<<Map(FLOW_START, 1000)>>, <<"applicationName">>, 2, NotGiven, 0, 0, "usec", {}),
   Conf(<<>>, <<"sourceIPv6Address", "flowStartMilliseconds", "flowEndMicroseconds">>,
        0, 0, 0, 0, "usec", {2}),
   Conf(<<>>, <<"sourceIPv6Address", "flowEndMicroseconds">>, 0, 0, 0, 2, "minutes", {})}
=============================================================================
