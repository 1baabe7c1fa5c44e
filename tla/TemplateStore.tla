---------------------------- MODULE TemplateStore ----------------------------
(***************************************************************************)
(* What the decoder expects of a template cache: a template that was       *)
(* learned is found from then on, in its latest definition, and a key      *)
(* under which nothing was learned has no template.  A store that refuses  *)
(* may also answer that there is no template when there is one, but never  *)
(* with an earlier one.                                                    *)
(***************************************************************************)
CONSTANTS Readers,      \* who asks for templates
          Keys,         \* observation domain and template id
          Definitions,  \* what a template says
          NONE          \* no template

VARIABLES template,     \* the latest definition under each key
          answer,       \* the last question of each reader and its answer
          refusing      \* whether a question may be refused

vars == <<template, answer, refusing>>

Init == /\ template = [k \in Keys |-> NONE]
        /\ answer = [r \in Readers |-> <<>>]
        /\ refusing \in BOOLEAN

Learn(k, d) == /\ template' = [template EXCEPT ![k] = d]
               /\ UNCHANGED <<answer, refusing>>

Ask(r, k) == /\ \/ answer' = [answer EXCEPT ![r] = <<k, template[k]>>]
                \/ refusing /\ answer' = [answer EXCEPT ![r] = <<k, NONE>>]
             /\ UNCHANGED <<template, refusing>>

Next == \/ \E k \in Keys, d \in Definitions : Learn(k, d)
        \/ \E r \in Readers, k \in Keys : Ask(r, k)

Spec == Init /\ [][Next]_vars
=============================================================================
