---------------------------- MODULE MCVMAgentJobs ----------------------------
(* Small instances of VMAgentJobs for TLC.                                   *)
EXTENDS VMAgentJobs

CONSTANTS j1, a1, a2, r1, r2
=============================================================================
