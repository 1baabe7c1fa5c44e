---------------------------- MODULE IpfixDictionary ----------------------------
(***************************************************************************)
(* The dictionary of IPFIX information elements (ipfix_dictionary.cpp) and *)
(* the IANA table that main fills it with (ipfix_dict_iana.cpp).  It is a  *)
(* std::map whose keys are single ids or ranges of ids, and a field is     *)
(* looked up as a single id: a range is found by any id within it.  The    *)
(* order of the keys is no order among ranges, so that what is found       *)
(* depends on the shape of the tree; the module has the tree as the        *)
(* library builds it.                                                      *)
(***************************************************************************)
EXTENDS Integers, SequencesExt

CONSTANT Ids  \* the ids that are looked up

ASSUME IdsAssumption == Ids \subseteq 0..(2^16 - 1)

\* SIPFIXDictKey.  A single id has no second number.
DictKey(first, second, number) == [first |-> first, second |-> second, number |-> number]

Single(id, number) == DictKey(id, 0, number)

-----------------------------------------------------------------------------
(* ipfix_dict_iana_init: the keys in the order in which they are added, and *)
(* the types of the elements.  Every enterprise number is 0.                *)

Singles(a, b) == [i \in 1..(b - a + 1) |-> Single(a + i - 1, 0)]

\* Mutant: the reserved element 0 is left out.
AncientElementsFromOne == Singles(1, 64) \o <<DictKey(65, 69, 0)>>

AncientElements == Singles(0, 64) \o <<DictKey(65, 69, 0)>>
MiddleElements == Singles(70, 104) \o <<DictKey(105, 127, 0)>>
LaterElements == Singles(128, 482) \o <<DictKey(483, 32767, 0)>>

Table == AncientElements \o MiddleElements \o LaterElements

\* The types that ipfix_dict_get_value converts, and "unsupported" for the others:
\* none, float, boolean, string, octet array, MAC address and the lists.
Seconds == {150, 151, 260, 261, 264, 265, 322}
Milliseconds == {152, 153, 160, 258, 269, 272, 323, 359, 360}
Microseconds == {154, 155, 268, 271, 324}
Nanoseconds == {156, 157, 270, 273, 325}

Ipv4Elements == {8, 12, 15, 18, 43, 44, 45, 47, 130, 211, 225, 226, 366, 403, 432, 438}
Ipv6Elements == {27, 28, 62, 63, 131, 140, 169, 170, 212, 281, 282, 404}

NotConverted ==
  {0, 56, 57, 90, 94, 95, 96, 97, 100, 104, 147, 210, 236, 247, 262, 266, 284,
   300, 311, 333, 335, 347, 365, 367, 411, 414, 415, 416, 419, 482}
  \cup 65..84 \cup 105..127 \cup 274..276 \cup 288..293 \cup 313..317 \cup 320..321
  \cup 336..338 \cup 340..341 \cup 347..350 \cup 371..374 \cup 388..389 \cup 435..437
  \cup 443..445 \cup 449..456 \cup 459..462 \cup 464..465 \cup 468..470 \cup 483..32767

\* The units of a second that an element counts in.
TimeUnit(id) == IF id \in Seconds THEN 1
                ELSE IF id \in Milliseconds THEN 1000
                ELSE IF id \in Microseconds THEN 1000000
                ELSE 1000000000

TimeElements == Seconds \cup Milliseconds \cup Microseconds \cup Nanoseconds

TypeOf(id) == IF id \in NotConverted THEN "unsupported"
              ELSE IF id \in TimeElements THEN "time"
              ELSE IF id \in Ipv4Elements THEN "ipv4"
              ELSE IF id \in Ipv6Elements THEN "ipv6"
              ELSE "integer"
-----------------------------------------------------------------------------
(* operator <.                                                             *)

\* Of two ranges of different length, each is less than the other.
Precedes(l, r) ==
  IF l.number # r.number THEN l.number < r.number
  ELSE CASE l.second = 0 /\ r.second = 0 -> l.first < r.first
         [] l.second # 0 /\ r.second = 0 -> l.second < r.first
         [] l.second = 0 /\ r.second # 0 -> l.first < r.first
         [] OTHER -> \/ l.second - l.first # r.second - r.first
                     \/ l.first < r.first

-----------------------------------------------------------------------------
(* g_mapDict, the red-black tree of the C++ library.  A node is the number  *)
(* of its key in Table; 0 is the header, whose left child is the root, and  *)
(* stands for no child.                                                     *)

VARIABLES dict,   \* the nodes: left, right, parent, red
          added,  \* the keys handed to ipfix_dictionary_add
          refused \* ipfix_dict_iana_init has ended with EALREADY

dictVars == <<dict, added, refused>>

Leaf(parent, red) == [left |-> 0, right |-> 0, parent |-> parent, red |-> red]

DictInit == dict = [n \in {0} |-> Leaf(0, FALSE)] /\ added = 0 /\ refused = FALSE

Nodes == DOMAIN dict \ {0}

\* The nodes on the way down from the root; goesLeft tells for each node whether
\* it goes left there.
Way(goesLeft) ==
  LET from[n \in DOMAIN dict] ==
        IF n = 0 THEN <<>>
        ELSE <<n>> \o from[IF goesLeft[n] THEN dict[n].left ELSE dict[n].right]
  IN  from[dict[0].left]

\* The last of them at which it goes left, or does not.
LastTurn(way, goesLeft, is) ==
  LET i == SelectLastInSeq(way, LAMBDA n : goesLeft[n] = is)
  IN  IF i = 0 THEN 0 ELSE way[i]

\* std::map::find: the first node that is not less than the key, unless the key
\* is less than it.
Find(k) == LET notLess == [n \in Nodes |-> ~Precedes(Table[n], k)]
               n == LastTurn(Way(notLess), notLess, TRUE)
           IN  IF n = 0 \/ Precedes(k, Table[n]) THEN 0 ELSE n

Side(t, n) == IF t[t[n].parent].left = n THEN "left" ELSE "right"
Other(side) == IF side = "left" THEN "right" ELSE "left"

\* The child of x on the other side takes the place of x, and x goes to its side.
Rotated(t, x, side) ==
  LET up    == t[x].parent
      y     == t[x][Other(side)]
      inner == t[y][side]
  IN  [n \in DOMAIN t |->
         CASE n = x -> [t[n] EXCEPT ![Other(side)] = inner, !.parent = y]
           [] n = y -> [t[n] EXCEPT ![side] = x, !.parent = up]
           [] n = inner /\ n # 0 -> [t[n] EXCEPT !.parent = x]
           [] n = up -> [t[n] EXCEPT ![Side(t, x)] = y]
           [] OTHER -> t[n]]

\* One round of _Rb_tree_insert_and_rebalance for the red node x: the tree and the
\* node to go on with.
Rebalanced(s) ==
  LET t == s.tree
      p == t[s.node].parent
      g == t[p].parent
      side == Side(t, p)
      uncle == t[g][Other(side)]
      straight == IF Side(t, s.node) = side THEN t ELSE Rotated(t, p, side)
  IN  IF ~t[p].red THEN s
      ELSE IF t[uncle].red
      THEN [tree |-> [t EXCEPT ![p].red = FALSE, ![uncle].red = FALSE, ![g].red = TRUE],
            node |-> g]
      ELSE [tree |-> Rotated([straight EXCEPT ![straight[g][side]].red = FALSE,
                                              ![g].red = TRUE], g, Other(side)),
            node |-> IF Side(t, s.node) = side THEN s.node ELSE p]

\* The tree with a node under parent, rebalanced in at most as many rounds as the
\* way down was long; the root is black.
Grown(node, parent, side, rounds) ==
  LET leaf == [n \in DOMAIN dict \cup {node} |->
                 CASE n = node -> Leaf(parent, TRUE)
                   [] n = parent -> [dict[n] EXCEPT ![side] = node]
                   [] OTHER -> dict[n]]
      after[i \in Nat] == IF i = 0 THEN [tree |-> leaf, node |-> node]
                          ELSE Rebalanced(after[i - 1])
      t == after[rounds].tree
  IN  [t EXCEPT ![t[0].left].red = FALSE]

\* ipfix_dictionary_add: std::map::insert compares the key with the nodes on its
\* way down, and then with the one before its place.  If one of them is no different
\* the element is deleted, and with it the table ends.
AddElement ==
  /\ added < Len(Table) /\ ~refused
  /\ added' = added + 1
  /\ LET k      == Table[added']
         left   == [n \in Nodes |-> Precedes(k, Table[n])]
         way    == Way(left)
         parent == IF way = <<>> THEN 0 ELSE Last(way)
         before == LastTurn(way, left, FALSE)
     IN  IF before = 0 \/ Precedes(Table[before], k)
         THEN /\ dict' = Grown(added', parent, IF parent = 0 \/ left[parent] THEN "left"
                                               ELSE "right", Len(way))
              /\ UNCHANGED refused
         ELSE refused' = TRUE /\ UNCHANGED dict

DictReady == refused \/ added = Len(Table)

\* The number of a field's enterprise as ipfix_extract_template_field reads it:
\* for an id with the enterprise bit the id itself, because the number is taken
\* from the first bytes of the specifier and by ntohs.
EnterpriseBit == 2^15
EnterpriseNumber(id) == IF id < EnterpriseBit THEN 0 ELSE id

\* The entry that ipfix_dictionary_convert_value finds, or 0.
Entry(id) == Find(Single(id, EnterpriseNumber(id)))

-----------------------------------------------------------------------------
(* Properties.                                                             *)

Covers(k, id) == IF k.second = 0 THEN k.first = id ELSE id \in k.first..k.second

\* Once the dictionary is filled, every element of the IANA table is found under
\* its own id or range, and no enterprise's element is taken for one of them: the
\* tree is such that a range never meets another one on its way in, although two
\* ranges have no order (ipfix_dictionary.cpp:166-181).
EveryElementFound ==
  added = Len(Table) =>
    /\ ~refused
    /\ \A id \in Ids :
         LET n == Entry(id)
         IN  IF id < EnterpriseBit THEN n # 0 /\ Covers(Table[n], id) ELSE n = 0
=============================================================================
