----------------------------- MODULE MCStageRun -----------------------------
(* Small instances of StageRun for TLC.                                     *)
EXTENDS StageRun

CONSTANTS g1, g2

\* A parallel stage with the policies that try again or wait for a user, and a
\* serial stage; the jobs of a stage are a group.
FourJobs == 1..4
Pairs == <<1, 1, 2, 2>>
PairGroups == <<g1, g1, g2, g2>>
AllPolicies == <<"retry", "manual", "stop", "ignore">>
OneRetry == <<1, 0, 0, 0>>
=============================================================================
