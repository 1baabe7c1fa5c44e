------------------------------- MODULE Options -------------------------------
(***************************************************************************)
(* How the program comes by its settings (main.cpp, util/options.cpp,      *)
(* config/conf.y): the command line is read first, then the configuration  *)
(* file with those it includes, whose statements are applied only where    *)
(* the setting still has the value that stands for "not given".  Times are *)
(* read in the format that is set at that moment.                          *)
(*                                                                         *)
(* An argument or a statement is [name, value].  The value of a time is    *)
(* [format, time]: it can be read in that format only.  BAD is an address  *)
(* that inet_aton refuses.                                                 *)
(***************************************************************************)
EXTENDS ConfFiles

CONSTANTS Arguments,      \* what may stand on the command line
          MaxArguments,   \* bound: arguments
          DefaultFormat,  \* OPTIONS_DEFAULT_TIME_FORMAT
          BAD

\* OPTIONS_DEFAULT_THREAD_COUNT
DefaultThreadCount == 1

TimeSettings == {"filterTimeStart", "filterTimeStop"}
AddressSettings == {"filterAddrSrc", "filterAddrDst"}
NumberSettings == {"filterTimeToleranceBefore", "filterTimeToleranceAfter",
                   "converterVerbosity", "converterThreadCount", "dataDirRecursive"}
TextSettings == {"filterTimeFormat", "outputFormatDate", "outputFormatDateAdd",
                 "converterResultFile"}
Settings == TimeSettings \cup AddressSettings \cup NumberSettings \cup TextSettings

\* The words that the lexer knows and the grammar takes; converterOutputTemplate
\* and converterMapper set no option.
Keywords == (Settings \ {"converterResultFile"}) \cup {"dataDir"}

ASSUME OptionsAssumption ==
  /\ MaxArguments \in Nat
  /\ DefaultFormat # ""
  /\ \A s \in Statements : s.name \in Settings \cup {"dataDir"}
  /\ \A a \in Arguments : a.name \in Settings \cup {"dataDir", "converterConf", "help"}
  /\ \A x \in Arguments \cup Statements :
       /\ x.name \in TimeSettings => x.value.time \in Int
       /\ x.name \in AddressSettings => x.value \in {BAD} \cup Int
       /\ x.name \in NumberSettings => x.value \in Int

Empty == ""

\* options_init
Initial == [s \in Settings |->
              IF s \in {"filterTimeStop", "dataDirRecursive"} THEN -1
              ELSE IF s = "outputFormatDate" THEN DefaultFormat
              ELSE IF s \in TextSettings THEN Empty ELSE 0]

\* The value that the configuration parser takes for a setting not given.
Absent == [s \in Settings |-> IF s = "dataDirRecursive" THEN -1
                              ELSE IF s \in TextSettings THEN Empty ELSE 0]

VARIABLES
  phase,     \* "arguments", "statements", "start", "running", "exit" or "crashed"
  opt,       \* the settings of g_soOptions
  dirs,      \* m_setDirList
  inCLI,     \* m_iDefinedInCLI
  confFile,  \* a configuration file was named
  given,     \* history: the arguments read
  stated     \* history: the statements read

vars == <<phase, opt, dirs, inCLI, confFile, given, stated, files>>

Init == /\ phase = "arguments"
        /\ opt = Initial
        /\ dirs = {} /\ inCLI = FALSE
        /\ confFile = FALSE
        /\ given = <<>> /\ stated = <<>>
        /\ FilesInit

FormatOf(text) == IF text = Empty THEN DefaultFormat ELSE text

\* options_str_to_time and options_str_to_addr: what they make of the text, in
\* the format now set.  The empty set: the text cannot be read.
Reading(x, format) ==
  IF x.name \in TimeSettings
  THEN IF x.value.format = FormatOf(format) THEN {x.value.time} ELSE {}
  ELSE IF x.name \in AddressSettings THEN {x.value} \ {BAD}
  ELSE {x.value}

Set(name, value) == opt' = [opt EXCEPT ![name] = value]
SetDir(dir) == dirs' = dirs \cup {dir}

-----------------------------------------------------------------------------
(* options_read_options                                                    *)

GetSetting(a) ==
  /\ a.name \in Settings
  /\ \E v \in Reading(a, opt["filterTimeFormat"]) : Set(a.name, v)
  /\ UNCHANGED <<phase, dirs, inCLI, confFile>>

GetDataDir(a) == /\ a.name = "dataDir"
                 /\ SetDir(a.value)
                 /\ inCLI' = TRUE
                 /\ UNCHANGED <<phase, opt, confFile>>

GetConfFile(a) == /\ a.name = "converterConf"
                  /\ confFile' = TRUE
                  /\ UNCHANGED <<phase, opt, dirs, inCLI>>

\* An error ends the loop and the program.
GiveUp(a) == /\ \/ a.name = "help"
                \/ Reading(a, opt["filterTimeFormat"]) = {}
             /\ phase' = "exit"
             /\ UNCHANGED <<opt, dirs, inCLI, confFile>>

ReadArgument ==
  /\ phase = "arguments" /\ Len(given) < MaxArguments
  /\ \E a \in Arguments :
       /\ GetSetting(a) \/ GetDataDir(a) \/ GetConfFile(a) \/ GiveUp(a)
       /\ given' = Append(given, a)
  /\ UNCHANGED <<stated, files>>

\* main calls conf_handle if a file was named; it may not be there.
EndOfArguments ==
  /\ phase = "arguments"
  /\ IF confFile THEN phase' \in {"statements", "exit"} ELSE phase' = "start"
  /\ UNCHANGED <<opt, dirs, inCLI, confFile, given, stated, files>>

-----------------------------------------------------------------------------
(* conf_handle and the actions of the grammar.                             *)

\* Mutant: the file goes before the command line.
TakeSettingAlways(s) ==
  /\ s.name \in Settings \cap Keywords
  /\ LET values == Reading(s, opt["filterTimeFormat"])
     IN  IF values # {} THEN \E v \in values : Set(s.name, v) ELSE UNCHANGED opt
  /\ UNCHANGED <<phase, dirs>>

\* A text that cannot be read changes nothing, and is no error.
TakeSetting(s) ==
  /\ s.name \in Settings \cap Keywords
  /\ LET values == Reading(s, opt["filterTimeFormat"])
     IN  IF opt[s.name] = Absent[s.name] /\ values # {}
         THEN \E v \in values : Set(s.name, v)
         ELSE UNCHANGED opt
  /\ UNCHANGED <<phase, dirs>>

TakeDataDir(s) == /\ s.name = "dataDir"
                  /\ IF inCLI THEN UNCHANGED dirs ELSE SetDir(s.value)
                  /\ UNCHANGED <<phase, opt>>

\* LEX_ERROR: conf_handle fails and main returns.
Unrecognized(s) == /\ s.name \notin Keywords
                   /\ phase' = "exit"
                   /\ UNCHANGED <<opt, dirs>>

ReadStatement ==
  /\ phase = "statements"
  /\ \E s \in Items :
       /\ PassStatement(s)
       /\ TakeSetting(s) \/ TakeDataDir(s) \/ Unrecognized(s)
       /\ stated' = Append(stated, s)
  /\ UNCHANGED <<inCLI, confFile, given>>

\* The parser sees nothing of the change from file to file.
ChangeFile ==
  /\ phase = "statements"
  /\ \/ \E d \in Items \cap Directives : IncludeNothing(d) \/ IncludeFirst(d)
     \/ IncludeNext
     \/ BackToParent
  /\ UNCHANGED <<phase, opt, dirs, inCLI, confFile, given, stated>>

\* LEX_ERROR; conf_handle closes yyin, which is NULL after a failed fopen.
FailToInclude ==
  /\ phase = "statements"
  /\ \/ /\ \E d \in Items \cap Directives : Refused(d)
        /\ phase' = "exit"
     \/ /\ NextMissing \/ \E d \in Items \cap Directives : FirstMissing(d)
        /\ phase' = "crashed"
  /\ UNCHANGED <<opt, dirs, inCLI, confFile, given, stated, files>>

EndOfStatements == /\ phase = "statements" /\ AtEnd
                   /\ phase' = "start"
                   /\ UNCHANGED <<opt, dirs, inCLI, confFile, given, stated, files>>

\* The result file may not open; else filter_time_init and the threads start.
Start ==
  /\ phase = "start"
  /\ \/ /\ opt["converterResultFile"] # Empty
        /\ phase' = "exit"
        /\ UNCHANGED opt
     \/ /\ phase' = "running"
        /\ IF opt["converterThreadCount"] = 0
           THEN Set("converterThreadCount", DefaultThreadCount)
           ELSE UNCHANGED opt
  /\ UNCHANGED <<dirs, inCLI, confFile, given, stated, files>>

Settled == phase \in {"running", "exit", "crashed"} /\ UNCHANGED vars

Next == \/ ReadArgument \/ EndOfArguments
        \/ ReadStatement \/ ChangeFile \/ FailToInclude \/ EndOfStatements
        \/ Start \/ Settled

Spec == Init /\ [][Next]_vars

-----------------------------------------------------------------------------
(* Properties.                                                             *)

\* The options are of their types; the lexer stays within its array of nested
\* files, and is at level 0 in the first file only: elsewhere the end of a file
\* would end the configuration.
TypeOK ==
  /\ phase \in {"arguments", "statements", "start", "running", "exit", "crashed"}
  /\ \A s \in TimeSettings \cup AddressSettings \cup NumberSettings : opt[s] \in Int
  /\ level \in 0..MaxNested /\ (level = 0 <=> InRoot)
  /\ inCLI \in BOOLEAN /\ confFile \in BOOLEAN
  /\ given \in Seq(Arguments) /\ stated \in Seq(Statements)

\* What is said of a name on the command line and in the file, and what it says.
Naming(s, xs) == {i \in DOMAIN xs : xs[i].name = s}
ValuesOf(s, xs) == {xs[i].value : i \in Naming(s, xs)}
Said(x) == IF x.name \in TimeSettings THEN x.value.time ELSE x.value

\* The last value on the command line, or the one that options_init sets.
LastGiven(s) == IF Naming(s, given) = {} THEN Initial[s]
                ELSE Said(given[Max(Naming(s, given))])

\* Those of the statements at these places that say something else than "not given".
Telling(s, at) == {i \in at : Said(stated[i]) # Absent[s]}

\* The value of s when the statements of that name at these places can be read: the
\* first one that tells it, where the command line left "not given".
Resolved(s, at) ==
  IF LastGiven(s) # Absent[s] \/ Telling(s, at) = {} THEN LastGiven(s)
  ELSE Said(stated[Min(Telling(s, at))])

\* The time format before the i-th statement.
FormatBefore(i) ==
  Resolved("filterTimeFormat", {j \in Naming("filterTimeFormat", stated) : j < i})

\* The statements of s that can be read where they stand.
Readable(s) == {i \in Naming(s, stated) : Reading(stated[i], FormatBefore(i)) # {}}

Running == phase = "running"

\* The first readable value of the file, or else the other one.
FromFileOr(s, other) == LET telling == Telling(s, Readable(s))
                        IN  IF telling = {} THEN other ELSE Said(stated[Min(telling)])

\* What the help text says (options.cpp:201, 241-254): a parameter of the command line
\* overrides the file, and all of them may stand in the file instead.
Documented(s) == IF Naming(s, given) # {} THEN LastGiven(s) ELSE FromFileOr(s, Initial[s])

\* Not so: what the file says of these two is never used, since they begin with
\* another value than the one that the parser takes for "not given".
Overlooked(s) == s \in {"filterTimeStop", "outputFormatDate"} /\ Naming(s, given) = {}

\* Nor so: a value of the command line that happens to be the one for "not given"
\* (a tolerance or a verbosity of 0, the beginning of 1970) does not override.
Overruled(s) == Naming(s, given) # {} /\ LastGiven(s) = Absent[s]

\* The default number of threads is filled in at last.
Final(s, value) == IF s = "converterThreadCount" /\ value = 0 THEN DefaultThreadCount
                   ELSE value

\* The program runs with what the help text promises, with the two exceptions that
\* the code makes: the last value of the command line, else the first of the file
\* that can be read in the time format in force there, else the default
\* (options.cpp:201, 241-254).  The directories are those of the command line or
\* those of the file, never some of each.
SettingsResolved ==
  Running =>
    /\ \A s \in Settings :
         opt[s] = Final(s, IF Overlooked(s) THEN Initial[s]
                           ELSE IF Overruled(s) THEN FromFileOr(s, LastGiven(s))
                           ELSE Documented(s))
    /\ dirs = IF Naming("dataDir", given) # {}
              THEN ValuesOf("dataDir", given) ELSE ValuesOf("dataDir", stated)

\* What the parser was given is the text of the whole file with every directive
\* replaced by the text of the files it finds: none is left out, read twice or
\* read after what follows the directive, and no program runs whose files
\* include one another without end (conf.l:113-218).
IncludesInPlace == Running /\ confFile => InRoot /\ stated = Expanded(root)

\* All parameters of the command line are supported in the configuration file
\* (nfc_issue.txt:19): a time in the right format counts.
FileTimesUsed ==
  Running => \A s \in TimeSettings :
    Naming(s, given) = {} /\ Readable(s) # {} => opt[s] = Said(stated[Min(Readable(s))])
=============================================================================
