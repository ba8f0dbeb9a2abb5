---------------------------- MODULE FlowPromise ----------------------------
(***************************************************************************)
(* What a scan promises about the data sets it is given (README.md,        *)
(* "Template priming"): each is answered when it arrives or owed an        *)
(* answer; an owed one is decoded, or dropped by the row's mode, when its  *)
(* template shows up, and is answered "missing" when the scan closes.      *)
(* Nothing here says how templates are cached or data is buffered.         *)
(***************************************************************************)
CONSTANT Sets   \* identities of data sets

VARIABLES
  fate,    \* data set |-> "owed" or the answer given for it
  closed   \* has the scan ended?

vars == <<fate, closed>>

Answers == {"decoded", "filtered", "missing", "rejected", "stateless"}

Owed == {id \in DOMAIN fate : fate[id] = "owed"}

Init == fate = <<>> /\ closed = FALSE

\* A data set arrives and is answered at once or owed an answer.
Arrive(id) ==
  /\ ~closed /\ id \notin DOMAIN fate
  /\ fate' \in {[x \in DOMAIN fate \cup {id} |-> IF x = id THEN f ELSE fate[x]] :
                 f \in Answers \cup {"owed"}}
  /\ UNCHANGED closed

\* A template arrives: some owed data sets get the answer it allows.
Resolve ==
  /\ ~closed
  /\ \E S \in (SUBSET Owed) \ {{}}, f \in {"decoded", "filtered"} :
       fate' = [x \in DOMAIN fate |-> IF x \in S THEN f ELSE fate[x]]
  /\ UNCHANGED closed

\* The scan ends: whatever is owed is answered "missing".
Close ==
  /\ ~closed
  /\ fate' = [x \in DOMAIN fate |-> IF x \in Owed THEN "missing" ELSE fate[x]]
  /\ closed' = TRUE

Next == (\E id \in Sets \ DOMAIN fate : Arrive(id)) \/ Resolve \/ Close

Spec == Init /\ [][Next]_vars /\ WF_vars(Close)
=============================================================================
