---------------------------- MODULE MCIpfixParser ----------------------------
(* Messages with one to three sets: templates of fields one to three bytes   *)
(* wide, with an enterprise number, redefined, incomplete; data sets with    *)
(* and without padding, of a template not yet known; reserved set ids;       *)
(* bytes behind the last set; a template whose fields have no width; a last  *)
(* set that is its header only; sets of every kind that are shorter than a   *)
(* header, of no length, or longer than the message.                         *)
EXTENDS IpfixParser

Plain(width) == [size |-> 4, width |-> width]
Enterprise(width) == [size |-> 8, width |-> width]

Specifiers(fields) == Sum([k \in DOMAIN fields |-> fields[k].size])

TemplateOf(id, fields, length) ==
  [id |-> TemplateSetId, template |-> id, fields |-> fields, length |-> length]
TemplateSet(id, fields, padding) ==
  TemplateOf(id, fields, SetHeaderSize + RecordHeaderSize + Specifiers(fields) + padding)
DataSet(id, bytes) == [id |-> id, length |-> SetHeaderSize + bytes]
OptionSet(bytes) == [id |-> OptionSetId, length |-> SetHeaderSize + bytes]
ReservedSet == [id |-> 17, length |-> SetHeaderSize + 2]
Short(id, length) == [id |-> id, length |-> length]

\* What zero bytes look like.
Zeros == [id |-> 0, length |-> 0]

\* The sets one behind the other, cut off or followed by zeros.
Message(sets, rest) ==
  LET lengths == [i \in DOMAIN sets |-> sets[i].length]
      size == Sum(lengths) + rest
      begins(o) == {i \in DOMAIN sets : SumTo(lengths, i - 1) = o}
  IN  [size |-> size,
       set |-> [o \in 0..(size - 1) |->
                  IF begins(o) = {} THEN Zeros ELSE sets[CHOOSE i \in begins(o) : TRUE]]]

Pair == TemplateSet(256, <<Plain(1), Plain(2)>>, 0)
Wide == TemplateSet(256, <<Enterprise(3)>>, 0)
Padded == TemplateSet(257, <<Plain(2)>>, 4)
Cut == TemplateSet(256, <<Plain(2), Plain(2), Plain(2)>>, -4)

WellFormedMessages ==
  {Message(<<Pair, DataSet(256, 6)>>, 0),
   Message(<<DataSet(256, 5), OptionSet(2)>>, 0),
   Message(<<Wide>>, 0),
   Message(<<Cut, Padded, DataSet(257, 3)>>, 0),
   Message(<<>>, 0)}

RefusedMessages ==
  {Message(<<DataSet(256, 4), ReservedSet, DataSet(257, 2)>>, 0),
   Message(<<Pair, DataSet(257, 2)>>, 6)}

Empty == TemplateSet(257, <<Plain(0), Plain(0)>>, 0)

EndlessMessages ==
  {Message(<<Empty, DataSet(257, 2)>>, 0),
   Message(<<OptionSet(2), OptionSet(0)>>, 0),
   Message(<<DataSet(257, 2)>>, 3),
   Message(<<OptionSet(2), Short(OptionSetId, 0)>>, 5),
   Message(<<Short(256, 0)>>, 6)}

\* Sets that are longer or shorter than what they hold.
LyingMessages ==
  {Message(<<Pair, DataSet(256, 9)>>, -4),
   Message(<<OptionSet(9)>>, -4),
   Message(<<TemplateOf(256, <<Plain(2), Plain(1)>>, 16)>>, -6),
   Message(<<TemplateOf(257, <<Plain(2)>>, 6)>>, 0),
   Message(<<Short(OptionSetId, 2), DataSet(256, 2)>>, 0),
   Message(<<Pair, Short(256, 2)>>, 6)}

SomeMessages == WellFormedMessages \cup RefusedMessages \cup EndlessMessages \cup LyingMessages

\* A message with three bytes behind its last set.
PaddedMessages == {Message(<<Pair, DataSet(256, 3)>>, 3)}
=============================================================================
