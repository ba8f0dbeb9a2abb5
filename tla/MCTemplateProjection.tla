------------------------ MODULE MCTemplateProjection ------------------------
(* Two executions that know two exporters, one of them with two templates.  *)
EXTENDS TemplateProjection, TLC

CONSTANTS e1, e2

OneExec == {e1}
TwoExecs == {e1, e2}
TwoKeys == {Key(1, 0, 256), Key(2, 0, 256)}
ThreeKeys == TwoKeys \cup {Key(1, 0, 257)}

DataLayout == [kind |-> "data", fields |-> 1]
OptionsLayout == [kind |-> "options", fields |-> 2]

OneLayout == [key \in Keys |-> {DataLayout}]
\* The first key is also redefined as an options template.
Redefined ==
  [key \in Keys |->
     IF key = Key(1, 0, 256) THEN {DataLayout, OptionsLayout} ELSE {DataLayout}]

\* Executions are interchangeable.
ExecSymmetry == Permutations(Execs)
=============================================================================
