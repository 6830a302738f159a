------------------------- MODULE ReleasePlanLifecycle -------------------------
(* What a release plan promises whatever happens to its document: a grant     *)
(* comes before its first workflow begins, a workflow begins before it        *)
(* passes, and passes before it is shown as done.                             *)
EXTENDS Integers

CONSTANTS Jobs, TaskIDs

VARIABLES granted, begun, passed, shown

vars == <<granted, begun, passed, shown>>

Init ==
  /\ granted \in BOOLEAN
  /\ begun = {} /\ passed = {} /\ shown = {}

\* A grant is never taken back from the workflows that wait for it.
Grant ==
  /\ granted' = TRUE
  /\ UNCHANGED <<begun, passed, shown>>

Begin(j, t) ==
  /\ granted
  /\ begun' = begun \cup {<<j, t>>}
  /\ UNCHANGED <<granted, passed, shown>>

Pass(j) ==
  /\ \E t \in TaskIDs : <<j, t>> \in begun
  /\ passed' = passed \cup {j}
  /\ UNCHANGED <<granted, begun, shown>>

\* What is shown may also be withdrawn, and shown again.
Show(S) ==
  /\ S \subseteq passed
  /\ shown' = S
  /\ UNCHANGED <<granted, begun, passed>>

Next ==
  \/ Grant
  \/ \E j \in Jobs : Pass(j) \/ \E t \in TaskIDs : Begin(j, t)
  \/ \E S \in SUBSET Jobs : Show(S)

Spec == Init /\ [][Next]_vars
=============================================================================
