----------------------------- MODULE MCCronTimers -----------------------------
(* An instance of CronTimers for TLC: which cronjob belongs to what. *)
EXTENDS CronTimers, TLC

CONSTANTS c1, c2, w, t

WorkflowAndTest == (c1 :> w) @@ (c2 :> t)
=============================================================================
