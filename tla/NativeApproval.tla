--------------------------- MODULE NativeApproval ---------------------------
(* The approval of an approval job inside zadig: the job's goroutine keeps  *)
(* the approval in redis and polls it, requests of the approvers change it  *)
(* under a redis lock from any replica.  Each redis call is a step.         *)
EXTENDS Integers, FiniteSets

CONSTANTS
  Approvers,       \* users listed in ApproveUsers
  Admins,          \* system administrators not listed, allowed for AI jobs
  NeededApprovers,
  Requests,        \* ApproveStage requests in progress at a time
  None,
  KeyMayExpire,    \* the approval has a Timeout: redis drops the key after it
  MaxRuns          \* bound on the runs of the job

Users == Approvers \cup Admins

ASSUME ApproverAssumption ==
  IsFiniteSet(Users) /\ Approvers \cap Admins = {} /\ None \notin Users \cup Requests
ASSUME NeededAssumption == NeededApprovers \in Nat
ASSUME ModeAssumption ==
  KeyMayExpire \in BOOLEAN /\ MaxRuns \in Nat \ {0}

VARIABLES
  key,    \* redis: the approval's decisions, NoKey when there is none
  lock,   \* redis: holder of the approval's lock
  job,    \* the job's goroutine: its step, its result, the users of its spec
  req,    \* requests
  ctx,    \* the workflow's context is cancelled
  acked,  \* decisions reported as accepted since the approval was registered
  given,  \* every decision ever reported as accepted: user and verdict
  runs

vars == <<key, lock, job, req, ctx, acked, given, runs>>

-----------------------------------------------------------------------------
Verdicts == {"approve", "reject"}
Blank == [u \in Users |-> ""]
NoKey == [u \in Users |-> "none"]
Decisions == [Users -> Verdicts \cup {""}]
IdleReq == [pc |-> "idle", user |-> None, verdict |-> "approve", seen |-> Blank]

Init ==
  /\ key = NoKey /\ lock = None /\ ctx = FALSE
  /\ job = [pc |-> "register", result |-> "", users |-> Blank]
  /\ req = [h \in Requests |-> IdleReq]
  /\ acked = Blank /\ given = {} /\ runs = 1

-----------------------------------------------------------------------------
(* waitForNativeApproveWithCallback.                                        *)

\* SetApproval, with the decisions the spec already has.
SetApproval ==
  /\ job.pc = "register"
  /\ key' = job.users
  /\ job' = [job EXCEPT !.pc = "poll"]
  /\ acked' = job.users
  /\ UNCHANGED <<lock, req, ctx, given, runs>>

\* Mutants: one approval too few is enough; a rejection does not count.
Approved_fewer(d) == Cardinality({u \in Users : d[u] = "approve"}) + 1 >= NeededApprovers
Rejected_never(d) == FALSE

Rejected(d) == \E u \in Users : d[u] = "reject"
Approved(d) == Cardinality({u \in Users : d[u] = "approve"}) >= NeededApprovers

End(result) == [job EXCEPT !.pc = "delete", !.result = result]

\* A round of the loop: the context or the timeout ends the wait ...
WaitCancelled ==
  /\ job.pc = "poll" /\ ctx
  /\ job' = End("cancelled")
  /\ UNCHANGED <<key, lock, req, ctx, acked, given, runs>>

WaitTimeout ==
  /\ job.pc = "poll"
  /\ job' = End("timeout")
  /\ UNCHANGED <<key, lock, req, ctx, acked, given, runs>>

\* ... or else IsApproval is asked and the spec's users take the decisions.
IsApproval ==
  /\ job.pc = "poll" /\ ~ctx
  /\ job' = IF key = NoKey THEN End("failed")
            ELSE [job EXCEPT !.users = [u \in Users |->
                                          IF u \in Approvers THEN key[u] ELSE job.users[u]],
                             !.pc = IF Rejected(key) \/ Approved(key) THEN "delete" ELSE "poll",
                             !.result = IF Rejected(key) THEN "reject"
                                        ELSE IF Approved(key) THEN "passed" ELSE job.result]
  /\ UNCHANGED <<key, lock, req, ctx, acked, given, runs>>

\* The deferred DeleteApproval.
DeleteApproval ==
  /\ job.pc = "delete"
  /\ key' = NoKey
  /\ job' = [job EXCEPT !.pc = "done"]
  /\ UNCHANGED <<lock, req, ctx, acked, given, runs>>

Cancel ==
  /\ job.pc # "done" /\ ~ctx
  /\ ctx' = TRUE
  /\ UNCHANGED <<key, lock, job, req, acked, given, runs>>

\* retryJob runs a job that failed or timed out again with the same spec, a retry
\* of the task comes with a new one.  Requests may still be on their way.
RunAgain ==
  /\ job.pc = "done" /\ runs < MaxRuns
  /\ \/ /\ job.result \in {"failed", "timeout"} /\ ~ctx
        /\ job' = [job EXCEPT !.pc = "register", !.result = ""]
     \/ /\ job.result # "passed"
        /\ job' = [pc |-> "register", result |-> "", users |-> Blank]
  /\ ctx' = FALSE /\ runs' = runs + 1
  /\ UNCHANGED <<key, lock, req, acked, given>>

-----------------------------------------------------------------------------
(* doApproval.                                                              *)

\* The lock is taken.
Lock(h, u, v) ==
  /\ req[h].pc = "idle" /\ lock = None
  /\ lock' = h
  /\ req' = [req EXCEPT ![h] = [pc |-> "get", user |-> u, verdict |-> v, seen |-> Blank]]
  /\ UNCHANGED <<key, job, ctx, acked, given, runs>>

Return(h) == [req EXCEPT ![h].pc = "unlock"]

\* GetApproval and applyApprovalDecision: no approval, or no second decision.
GetApproval(h) ==
  /\ req[h].pc = "get"
  /\ req' = IF key = NoKey \/ key[req[h].user] # "" THEN Return(h)
            ELSE [req EXCEPT ![h] = [req[h] EXCEPT !.pc = "set", !.seen = key]]
  /\ UNCHANGED <<key, lock, job, ctx, acked, given, runs>>

\* Mutants: the decision is not written into the approval that was read, whose
\* other users lose their decisions or disappear.
Decided_alone(h) == [u \in {req[h].user} |-> req[h].verdict]
Decided_only(h) == [Blank EXCEPT ![req[h].user] = req[h].verdict]
Decided(h) == [req[h].seen EXCEPT ![req[h].user] = req[h].verdict]

\* SetApproval of what was read and the decision.
PutApproval(h) ==
  /\ req[h].pc = "set"
  /\ key' = Decided(h)
  /\ acked' = [acked EXCEPT ![req[h].user] = req[h].verdict]
  /\ given' = given \cup {<<req[h].user, req[h].verdict>>}
  /\ req' = Return(h)
  /\ UNCHANGED <<lock, job, ctx, runs>>

Unlock(h) ==
  /\ req[h].pc = "unlock"
  /\ lock' = None
  /\ req' = [req EXCEPT ![h] = IdleReq]
  /\ UNCHANGED <<key, job, ctx, acked, given, runs>>

\* The key reaches the end of its time to live.
KeyExpires ==
  /\ KeyMayExpire /\ key # NoKey
  /\ key' = NoKey
  /\ UNCHANGED <<lock, job, req, ctx, acked, given, runs>>

-----------------------------------------------------------------------------
JobStep == SetApproval \/ WaitCancelled \/ IsApproval \/ DeleteApproval

RequestStep(h) == GetApproval(h) \/ PutApproval(h) \/ Unlock(h)

Next ==
  \/ JobStep \/ WaitTimeout \/ Cancel \/ RunAgain \/ KeyExpires
  \/ \E h \in Requests : RequestStep(h) \/ \E u \in Users, v \in Verdicts : Lock(h, u, v)

Spec == Init /\ [][Next]_vars

\* The goroutines run.  The timeout, an hour away, is not counted on.
Fairness ==
  /\ WF_vars(JobStep)
  /\ \A h \in Requests : WF_vars(RequestStep(h))

FairSpec == Spec /\ Fairness

-----------------------------------------------------------------------------
JobRec == [pc : {"register", "poll", "delete", "done"},
           result : {"", "passed", "reject", "failed", "timeout", "cancelled"},
           users : Decisions]
ReqRec == [pc : {"idle", "get", "set", "unlock"}, user : Users \cup {None},
           verdict : Verdicts, seen : Decisions]

\* The approval holds decisions, and every process is at one of its steps.
TypeOK ==
  /\ key \in Decisions \cup {NoKey}
  /\ lock \in Requests \cup {None}
  /\ job \in JobRec /\ req \in [Requests -> ReqRec]
  /\ ctx \in BOOLEAN
  /\ acked \in Decisions /\ given \subseteq Users \X Verdicts
  /\ runs \in Nat

\* doApproval: two approvers never overwrite each other's decision.  What was
\* acknowledged stays in the approval until the job deletes it or it expires.
DecisionsKept ==
  job.pc \in {"poll", "delete"} /\ key # NoKey =>
    \A u \in Users : acked[u] # "" => key[u] = acked[u]

\* IsApproval: a job only passes when enough approvals were given to it and no
\* rejection was acknowledged before the poll that decides; it is only rejected
\* when somebody rejected it.  The decisions may be those of an earlier run:
\* a request that writes late brings them back.
OutcomeIsDecided ==
  [][job'.pc = "delete" /\ job.pc = "poll" =>
      /\ job'.result = "passed" =>
           /\ Cardinality({u \in Users : <<u, "approve">> \in given}) >= NeededApprovers
           /\ \A u \in Users : acked[u] # "reject"
      /\ job'.result = "reject" => \E u \in Users : <<u, "reject">> \in given]_vars

\* The poll: enough approvals, or one rejection, that reach the approval of a
\* waiting job end its wait without the help of the timeout.
ApprovalEnds ==
  (/\ job.pc = "poll" /\ key # NoKey
   /\ \/ Cardinality({u \in Users : key[u] = "approve"}) >= NeededApprovers
      \/ \E u \in Users : key[u] = "reject") ~> (job.pc = "done")
=============================================================================
