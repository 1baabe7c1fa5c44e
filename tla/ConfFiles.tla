------------------------------ MODULE ConfFiles ------------------------------
(***************************************************************************)
(* The files that the lexer of the configuration reads from                *)
(* (config/conf.l): an include directive is a pattern for glob, the files  *)
(* that it finds are read one after the other in the place of the          *)
(* directive, and they may include others, down to a limit.                *)
(*                                                                         *)
(* A file is a sequence of items [name, value]: statements, which are the  *)
(* parser's, and directives [name |-> "include", value |-> pattern].  The  *)
(* file that conf_handle opens may hold any items; its items are chosen as *)
(* they are read.                                                          *)
(***************************************************************************)
EXTENDS Integers, Sequences, SequencesExt

CONSTANTS Statements,     \* what may stand in a configuration file
          Offered,        \* what the file that conf_handle opens is chosen from
          MaxStatements,  \* bound: items of that file
          Found,          \* pattern -> the files that glob finds, in its order
          Contents,       \* file that can be opened -> its items
          ABORTED         \* glob could not read a directory

\* MAX_NESTED_CONF_FILES
MaxNested == 5

Directives == {[name |-> "include", value |-> p] : p \in DOMAIN Found}

ASSUME ConfFilesAssumption ==
  /\ MaxStatements \in Nat
  /\ \A s \in Statements : s.name # "include"
  /\ Offered \subseteq Statements \cup Directives
  /\ \A f \in DOMAIN Contents :
       f # "conffile" /\ Contents[f] \in Seq(Statements \cup Directives)
  /\ \A p \in DOMAIN Found :
       Found[p] = ABORTED \/ Found[p] \in Seq({Found[p][k] : k \in DOMAIN Found[p]})

VARIABLES
  buffer,   \* the file that is read and the place in it: YY_CURRENT_BUFFER
  level,    \* current_nested_level
  nested,   \* nested_conffiles: parent_level_state, filelist, current_file
  root      \* history: the items of the file that conf_handle opened

files == <<buffer, level, nested, root>>

Opened(file) == [file |-> file, at |-> 1]

FilesInit ==
  /\ buffer = Opened("conffile")
  /\ level = 0
  /\ nested = [l \in 0..(MaxNested - 1) |->
                 [parent |-> Opened("conffile"), filelist |-> <<>>, current |-> 0]]
  /\ root = <<>>

InRoot == buffer.file = "conffile"

\* What the lexer finds at its place.
Items == IF InRoot THEN IF Len(root) < MaxStatements THEN Offered ELSE {}
         ELSE IF buffer.at <= Len(Contents[buffer.file])
              THEN {Contents[buffer.file][buffer.at]} ELSE {}

Passed == [buffer EXCEPT !.at = @ + 1]
Noted(item) == root' = IF InRoot THEN Append(root, item) ELSE root

\* A statement goes to the parser.
PassStatement(item) == /\ item \in Statements
                       /\ buffer' = Passed
                       /\ Noted(item)
                       /\ UNCHANGED <<level, nested>>

-----------------------------------------------------------------------------
(* The rule of the name behind "include".                                  *)

\* Mutant: one level more than there is room for.
TooDeepByOne == level > MaxNested

TooDeep == level >= MaxNested

Refused(item) == TooDeep \/ Found[item.value] = ABORTED

\* The first file cannot be opened: yyin is NULL.
FirstMissing(item) == /\ ~ Refused(item)
                      /\ Found[item.value] # <<>>
                      /\ Head(Found[item.value]) \notin DOMAIN Contents

\* GLOB_NOMATCH is no error.
IncludeNothing(item) == /\ ~ Refused(item) /\ Found[item.value] = <<>>
                        /\ buffer' = Passed
                        /\ Noted(item)
                        /\ UNCHANGED <<level, nested>>

IncludeFirst(item) ==
  /\ ~ Refused(item) /\ ~ FirstMissing(item) /\ Found[item.value] # <<>>
  /\ nested' = [nested EXCEPT ![level] =
                  [parent |-> Passed, filelist |-> Found[item.value], current |-> 1]]
  /\ buffer' = Opened(Head(Found[item.value]))
  /\ level' = level + 1
  /\ Noted(item)

-----------------------------------------------------------------------------
(* The rule of the end of a file below the first level.                    *)

EndOfIncluded == level > 0 /\ Items = {}

Entry == nested[level - 1]
IsLast == Entry.current = Len(Entry.filelist)
Following == Entry.filelist[Entry.current + 1]

NextMissing == EndOfIncluded /\ ~ IsLast /\ Following \notin DOMAIN Contents

\* Mutant: the level is left lower while the list of files goes on.
IncludeNextBelow ==
  /\ EndOfIncluded /\ ~ IsLast /\ Following \in DOMAIN Contents
  /\ nested' = [nested EXCEPT ![level - 1].current = @ + 1]
  /\ buffer' = Opened(Following)
  /\ level' = level - 1
  /\ UNCHANGED root

IncludeNext ==
  /\ EndOfIncluded /\ ~ IsLast /\ Following \in DOMAIN Contents
  /\ nested' = [nested EXCEPT ![level - 1].current = @ + 1]
  /\ buffer' = Opened(Following)
  /\ UNCHANGED <<level, root>>

BackToParent ==
  /\ EndOfIncluded /\ IsLast
  /\ nested' = [nested EXCEPT ![level - 1].current = @ + 1]
  /\ buffer' = Entry.parent
  /\ level' = level - 1
  /\ UNCHANGED root

\* yyterminate
AtEnd == level = 0 /\ (InRoot \/ Items = {})

-----------------------------------------------------------------------------
(* The reference: a directive stands for the text of the files it finds.   *)

TooMuch == <<[name |-> "too deep"]>>

TextOf(found, text) == FlattenSeq([k \in DOMAIN found |-> text[found[k]]])

ItemText(item, text) == IF item.name = "include" THEN TextOf(Found[item.value], text)
                        ELSE <<item>>

Expand(items, text) == FlattenSeq([i \in DOMAIN items |-> ItemText(items[i], text)])

\* The texts of the files, which may include others over so many levels.
TextOver[levels \in 0..MaxNested] ==
  [f \in DOMAIN Contents |->
     IF levels = 0 THEN TooMuch ELSE Expand(Contents[f], TextOver[levels - 1])]

Expanded(items) == Expand(items, TextOver[MaxNested])
=============================================================================
