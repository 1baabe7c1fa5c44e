------------------------------ MODULE MCOptions ------------------------------
(* Times in the default format and in another, an address that can be read   *)
(* and one that cannot, tolerances with and without effect, directories,     *)
(* included files.                                                           *)
EXTENDS Options, TLC

CONSTANTS d1, d2

Is(name, value) == [name |-> name, value |-> value]
Default == "dmy"
Iso == "ymd"

Shared == {Is("filterTimeFormat", Iso),
           Is("filterTimeStart", [format |-> Iso, time |-> 7]),
           Is("filterTimeStop", [format |-> Default, time |-> 8]),
           Is("filterTimeToleranceAfter", 60)}

SomeArguments == Shared \cup
  {Is("converterConf", "nfc.conf"), Is("dataDir", d1), Is("help", ""),
   Is("filterTimeToleranceAfter", 0),
   Is("filterAddrSrc", BAD), Is("converterResultFile", "out")}

SomeStatements == Shared \cup
  {Is("dataDir", d1), Is("dataDir", d2), Is("filterAddrSrc", 5), Is("filterAddrSrc", BAD),
   Is("converterThreadCount", 4), Is("outputFormatDate", Iso),
   Is("converterResultFile", "out")}

Include(pattern) == Is("include", pattern)

\* Two files and more below the first, down to the last level; a file that
\* includes itself; a file that cannot be opened, alone and behind another; a
\* pattern that finds none.
SomeFound == ("conf.d/*" :> <<"1", "format">>) @@ ("2" :> <<"2">>) @@ ("3" :> <<"3">>)
             @@ ("4" :> <<"4">>) @@ ("5*" :> <<"5", "format">>)
             @@ ("again" :> <<"again">>) @@ ("both*" :> <<"5", "sealed">>)
             @@ ("sealed" :> <<"sealed">>) @@ ("none*" :> <<>>) @@ ("shut/*" :> ABORTED)

SomeContents == ("1" :> <<Include("2"), Is("dataDir", d2)>>)
                @@ ("2" :> <<Include("3")>>) @@ ("3" :> <<Include("4")>>)
                @@ ("4" :> <<Include("5*")>>) @@ ("5" :> <<Is("dataDir", d1)>>)
                @@ ("format" :> <<Is("filterTimeFormat", Iso)>>)
                @@ ("again" :> <<Is("dataDir", d2), Include("again")>>)

SomeOffered == (SomeStatements \ {Is("dataDir", d1)}) \cup
  {Include(p) : p \in {"conf.d/*", "again", "both*", "sealed", "none*", "shut/*"}}
=============================================================================
