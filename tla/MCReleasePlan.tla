---------------------------- MODULE MCReleasePlan ----------------------------
(* Small instances of ReleasePlan for TLC.                                   *)
EXTENDS ReleasePlan

CONSTANT h1

\* The statuses that take a plan to its execution.
Usual == {"finish_planning", "wait_for_approval", "executing"}
=============================================================================
