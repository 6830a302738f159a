------------------------ MODULE NativeApprovalProofs ------------------------
(* The native approval, for any approvers, any number of requests at a time *)
(* and any number of runs of the job.                                       *)
EXTENDS NativeApproval, FiniteSetTheorems, TLAPS

\* Every decision of d is in k.
Below(d, k) == \A u \in Users : d[u] # "" => k[u] = d[u]

\* Every decision of d is in g.
Accepted(d, g) == \A u \in Users : d[u] # "" => <<u, d[u]>> \in g

\* The redis lock: a request between Lock and Unlock holds it.
Locked == \A h \in Requests : req[h].pc # "idle" => lock = h /\ req[h].user \in Users

\* The approval has what was acknowledged and what the job's spec shows.
KeyKept == key # NoKey => Below(acked, key) /\ Below(job.users, key)

\* What a request has read is not behind: only the job writes before it does.
ReadKept == \A h \in Requests : req[h].pc = "set" =>
  /\ Below(acked, req[h].seen) /\ Below(job.users, req[h].seen)
  /\ key # NoKey => Below(key, req[h].seen)
  /\ req[h].seen[req[h].user] = ""

\* Decisions come from requests, by whatever way.
KeyGiven == key # NoKey => Accepted(key, given)
JobGiven == Accepted(job.users, given)
SeenGiven == \A h \in Requests : req[h].pc = "set" => Accepted(req[h].seen, given)

IInv == TypeOK /\ Locked /\ KeyKept /\ ReadKept /\ KeyGiven /\ JobGiven /\ SeenGiven

-----------------------------------------------------------------------------
(* Records.                                                                 *)

LEMMA BlankDecides == Blank \in Decisions /\ \A u \in Users : Blank[u] = ""
BY DEF Blank, Decisions

LEMMA IdleRecord == IdleReq \in ReqRec /\ IdleReq.pc = "idle"
BY BlankDecides DEF IdleReq, ReqRec, Verdicts

LEMMA JobFields ==
  ASSUME NEW x \in JobRec
  PROVE  /\ x.pc \in {"register", "poll", "delete", "done"} /\ x.users \in Decisions
         /\ x.result \in {"", "passed", "reject", "failed", "timeout", "cancelled"}
BY DEF JobRec

LEMMA ReqFields ==
  ASSUME NEW x \in ReqRec
  PROVE  /\ x.pc \in {"idle", "get", "set", "unlock"} /\ x.user \in Users \cup {None}
         /\ x.verdict \in Verdicts /\ x.seen \in Decisions
BY DEF ReqRec

\* The results of a poll that ends the wait.
LEMMA EndJob ==
  ASSUME job \in JobRec,
         NEW r \in {"", "passed", "reject", "failed", "timeout", "cancelled"}
  PROVE  End(r) \in JobRec /\ End(r).users = job.users /\ End(r).result = r
BY DEF End, JobRec

-----------------------------------------------------------------------------
(* Steps.                                                                   *)

LEMMA InitHolds == Init => IInv
<1> SUFFICES ASSUME Init PROVE IInv OBVIOUS
<1>1. TypeOK
  <2>1. job \in JobRec BY BlankDecides DEF Init, JobRec
  <2>2. req \in [Requests -> ReqRec] BY IdleRecord DEF Init
  <2> QED BY <2>1, <2>2, BlankDecides DEF Init, TypeOK
<1>2. \A h \in Requests : req[h].pc = "idle" BY IdleRecord DEF Init
<1>3. Locked /\ ReadKept BY <1>2 DEF Locked, ReadKept
<1>4. KeyKept /\ KeyGiven /\ JobGiven /\ SeenGiven
  BY <1>2, BlankDecides DEF Init, KeyKept, KeyGiven, JobGiven, SeenGiven, Accepted
<1> QED BY <1>1, <1>3, <1>4 DEF IInv

LEMMA SetApprovalKeeps == IInv /\ SetApproval => IInv'
<1> SUFFICES ASSUME IInv, SetApproval PROVE IInv' OBVIOUS
<1>1. job \in JobRec /\ req \in [Requests -> ReqRec] BY DEF IInv, TypeOK
<1>2. job.users \in Decisions BY <1>1, JobFields
<1>3. job' \in JobRec /\ job'.users = job.users BY <1>1 DEF SetApproval, JobRec
<1>4. TypeOK' BY <1>2, <1>3 DEF SetApproval, IInv, TypeOK
<1>5. Locked' BY DEF SetApproval, IInv, Locked
<1>6. KeyKept' BY <1>3 DEF SetApproval, KeyKept, Below
<1>7. ReadKept' BY <1>3 DEF SetApproval, IInv, ReadKept, Below
<1>8. KeyGiven' /\ JobGiven' /\ SeenGiven'
  <2>1. KeyGiven' BY <1>3 DEF SetApproval, IInv, Accepted, KeyGiven, JobGiven, SeenGiven
  <2>0. given' = given BY DEF SetApproval
  <2>2. JobGiven' BY <1>3, <2>0 DEF IInv, Accepted, JobGiven
  <2>3. SeenGiven' BY <1>3 DEF SetApproval, IInv, Accepted, KeyGiven, SeenGiven
  <2> QED BY <2>1, <2>2, <2>3
<1> QED BY <1>4, <1>5, <1>6, <1>7, <1>8 DEF IInv

\* Steps of the job after which its spec's users are what they were or less,
\* and the approval is what it was or gone.
LEMMA QuietStep ==
  ASSUME IInv, UNCHANGED <<lock, req, acked, given>>,
         key' \in {key, NoKey}, job' \in JobRec,
         \A u \in Users : job'.users[u] \in {job.users[u], ""},
         ctx' \in BOOLEAN, runs' \in Nat
  PROVE  IInv'
<1>1. TypeOK' BY DEF IInv, TypeOK
<1>2. Locked' BY DEF IInv, Locked
<1>3. KeyKept' BY DEF IInv, KeyKept, Below
<1>4. ReadKept'
  <2> SUFFICES ASSUME NEW h \in Requests, req[h].pc = "set"
               PROVE  /\ Below(acked, req[h].seen) /\ Below(job'.users, req[h].seen)
                      /\ key' # NoKey => Below(key', req[h].seen)
                      /\ req[h].seen[req[h].user] = ""
    BY DEF ReadKept
  <2>1. /\ Below(acked, req[h].seen) /\ Below(job.users, req[h].seen)
        /\ key # NoKey => Below(key, req[h].seen)
        /\ req[h].seen[req[h].user] = ""
    BY DEF IInv, ReadKept
  <2>2. Below(job'.users, req[h].seen) BY <2>1 DEF Below
  <2> QED BY <2>1, <2>2
<1>5. KeyGiven' /\ JobGiven' /\ SeenGiven'
  <2>1. KeyGiven' BY DEF IInv, Accepted, KeyGiven, JobGiven, SeenGiven
  <2>2. JobGiven' BY DEF IInv, Accepted, KeyGiven, JobGiven
  <2>3. SeenGiven' BY DEF IInv, Accepted, KeyGiven, SeenGiven
  <2> QED BY <2>1, <2>2, <2>3
<1> QED BY <1>1, <1>2, <1>3, <1>4, <1>5 DEF IInv

LEMMA IsApprovalKeeps == IInv /\ IsApproval => IInv'
<1> SUFFICES ASSUME IInv, IsApproval PROVE IInv' OBVIOUS
<1>1. job \in JobRec /\ job.users \in Decisions /\ job.result \in {"", "passed", "reject", "failed", "timeout", "cancelled"}
  BY JobFields DEF IInv, TypeOK
<1>2. CASE key = NoKey
  <2>1. job' = End("failed") BY <1>2 DEF IsApproval
  <2>2. job' \in JobRec /\ job'.users = job.users BY <1>1, <2>1, EndJob
  <2> QED BY <2>2, QuietStep DEF IsApproval, IInv, TypeOK
<1>3. CASE key # NoKey
  <2>1. key \in Decisions BY <1>3 DEF IInv, TypeOK
  <2> DEFINE w == [u \in Users |-> IF u \in Approvers THEN key[u] ELSE job.users[u]]
  <2>2. w \in Decisions BY <1>1, <2>1 DEF Decisions
  <2>3. job' \in JobRec /\ job'.users = w BY <1>1, <1>3, <2>2 DEF IsApproval, JobRec
  <2>4. \A u \in Users : w[u] \in {key[u], job.users[u]} OBVIOUS
  <2> HIDE DEF w
  <2>5. TypeOK' BY <2>3 DEF IsApproval, IInv, TypeOK
  <2>6. Locked' BY DEF IsApproval, IInv, Locked
  <2>7. KeyKept' BY <2>3, <2>4 DEF IsApproval, IInv, KeyKept, Below
  <2>8. ReadKept' BY <1>3, <2>3, <2>4, ZenonT(30) DEF IsApproval, IInv, ReadKept, Below
  <2>9. KeyGiven' /\ JobGiven' /\ SeenGiven'
    <3>1. KeyGiven' BY <1>3, <2>3, <2>4 DEF IsApproval, IInv, Accepted, KeyGiven, JobGiven, SeenGiven
    <3>0. given' = given BY DEF IsApproval
    <3>2. JobGiven' BY <1>3, <2>3, <2>4, <3>0 DEF IInv, Accepted, KeyGiven, JobGiven
    <3>3. SeenGiven' BY <1>3, <2>3, <2>4 DEF IsApproval, IInv, Accepted, KeyGiven, SeenGiven
    <3> QED BY <3>1, <3>2, <3>3
  <2> QED BY <2>5, <2>6, <2>7, <2>8, <2>9 DEF IInv
<1> QED BY <1>2, <1>3

\* The other steps of the job, the end of the key and a cancelled context.
LEMMA QuietSteps ==
  IInv /\ (WaitCancelled \/ WaitTimeout \/ DeleteApproval \/ Cancel \/ RunAgain \/ KeyExpires)
    => IInv'
<1> SUFFICES ASSUME IInv PROVE
      (WaitCancelled \/ WaitTimeout \/ DeleteApproval \/ Cancel \/ RunAgain \/ KeyExpires) => IInv'
  OBVIOUS
<1>0. job \in JobRec /\ ctx \in BOOLEAN /\ runs \in Nat /\ job.users \in Decisions
  BY JobFields DEF IInv, TypeOK
<1>1. CASE WaitCancelled \/ WaitTimeout
  <2>1. job' \in JobRec /\ job'.users = job.users
    BY <1>0, <1>1, EndJob DEF WaitCancelled, WaitTimeout
  <2> QED BY <1>0, <1>1, <2>1, QuietStep DEF WaitCancelled, WaitTimeout
<1>2. CASE DeleteApproval
  <2>1. job' \in JobRec /\ job'.users = job.users BY <1>0, <1>2 DEF DeleteApproval, JobRec
  <2> QED BY <1>0, <1>2, <2>1, QuietStep DEF DeleteApproval
<1>3. CASE Cancel BY <1>0, <1>3, QuietStep DEF Cancel
<1>4. CASE RunAgain
  <2>1. job' \in JobRec /\ (job'.users = job.users \/ job'.users = Blank)
    <3>1. CASE job' = [job EXCEPT !.pc = "register", !.result = ""] BY <1>0, <3>1 DEF JobRec
    <3>2. CASE job' = [pc |-> "register", result |-> "", users |-> Blank]
      BY <3>2, BlankDecides DEF JobRec
    <3> QED BY <1>4, <3>1, <3>2 DEF RunAgain
  <2>2. \A u \in Users : job'.users[u] \in {job.users[u], ""} BY <2>1, BlankDecides
  <2>3. /\ UNCHANGED <<key, lock, req, acked, given>>
        /\ ctx' \in BOOLEAN /\ runs' = runs + 1
    BY <1>4 DEF RunAgain
  <2>4. runs' \in Nat BY <1>0, <2>3
  <2> QED BY <2>1, <2>2, <2>3, <2>4, QuietStep
<1>5. CASE KeyExpires BY <1>0, <1>5, QuietStep DEF KeyExpires
<1> QED BY <1>1, <1>2, <1>3, <1>4, <1>5

LEMMA LockKeeps ==
  ASSUME IInv, NEW h \in Requests, NEW u \in Users, NEW v \in Verdicts, Lock(h, u, v)
  PROVE  IInv'
<1> DEFINE x == [pc |-> "get", user |-> u, verdict |-> v, seen |-> Blank]
<1>1. x \in ReqRec /\ x.pc = "get" /\ x.user = u BY BlankDecides DEF ReqRec
<1> HIDE DEF x
<1>2. req \in [Requests -> ReqRec] BY DEF IInv, TypeOK
<1>3. req' = [req EXCEPT ![h] = x] BY DEF Lock, x
<1>4. req' \in [Requests -> ReqRec] BY <1>1, <1>2, <1>3
<1>5. \A g \in Requests : req'[g] = IF g = h THEN x ELSE req[g] BY <1>2, <1>3
<1>6. TypeOK' BY <1>4 DEF IInv, TypeOK, Lock
<1>7. Locked' BY <1>1, <1>5, ApproverAssumption DEF IInv, Locked, Lock
<1>8. KeyKept' BY DEF IInv, KeyKept, Lock
<1>9. ReadKept' BY <1>1, <1>5 DEF IInv, ReadKept, Lock
<1>10. KeyGiven' /\ JobGiven' /\ SeenGiven'
  <2>1. KeyGiven' BY <1>1, <1>5 DEF IInv, Lock, Accepted, KeyGiven, JobGiven, SeenGiven
  <2>2. JobGiven' BY <1>1, <1>5 DEF IInv, Lock, Accepted, KeyGiven, JobGiven
  <2>0. given' = given BY DEF Lock
  <2>3. SeenGiven' BY <1>1, <1>5, <2>0 DEF IInv, SeenGiven
  <2> QED BY <2>1, <2>2, <2>3
<1> QED BY <1>6, <1>7, <1>8, <1>9, <1>10 DEF IInv

LEMMA Returned ==
  ASSUME req \in [Requests -> ReqRec], NEW h \in Requests
  PROVE  /\ Return(h) \in [Requests -> ReqRec]
         /\ \A g \in Requests : Return(h)[g] = IF g = h THEN [req[h] EXCEPT !.pc = "unlock"]
                                               ELSE req[g]
         /\ Return(h)[h].pc = "unlock" /\ Return(h)[h].user = req[h].user
BY DEF Return, ReqRec

LEMMA GetApprovalKeeps ==
  ASSUME IInv, NEW h \in Requests, GetApproval(h)
  PROVE  IInv'
<1>1. req \in [Requests -> ReqRec] /\ req[h] \in ReqRec BY DEF IInv, TypeOK
<1>2. CASE key = NoKey \/ key[req[h].user] # ""
  <2>1. req' = Return(h) BY <1>2 DEF GetApproval
  <2>2. \A g \in Requests \ {h} : req'[g] = req[g] BY <1>1, <2>1, Returned
  <2>3. req'[h].pc = "unlock" /\ req'[h].user = req[h].user BY <1>1, <2>1, Returned
  <2>4. TypeOK' BY <1>1, <2>1, Returned DEF IInv, TypeOK, GetApproval
  <2>5. Locked' BY <2>2, <2>3 DEF IInv, Locked, GetApproval
  <2>6. KeyKept' BY DEF IInv, KeyKept, GetApproval
  <2>7. ReadKept' BY <2>2, <2>3 DEF IInv, ReadKept, GetApproval
  <2>8. KeyGiven' /\ JobGiven' /\ SeenGiven'
    <3>1. KeyGiven' BY <2>2, <2>3 DEF IInv, GetApproval, Accepted, KeyGiven, JobGiven, SeenGiven
    <3>2. JobGiven' BY <2>2, <2>3 DEF IInv, GetApproval, Accepted, KeyGiven, JobGiven
    <3>0. given' = given BY DEF GetApproval
    <3>3. SeenGiven' BY <2>2, <2>3, <3>0 DEF IInv, SeenGiven
    <3> QED BY <3>1, <3>2, <3>3
  <2> QED BY <2>4, <2>5, <2>6, <2>7, <2>8 DEF IInv
<1>3. CASE key # NoKey /\ key[req[h].user] = ""
  <2> DEFINE x == [req[h] EXCEPT !.pc = "set", !.seen = key]
  <2>1. key \in Decisions BY <1>3 DEF IInv, TypeOK
  <2>2. x \in ReqRec /\ x.pc = "set" /\ x.seen = key /\ x.user = req[h].user
    BY <1>1, <2>1 DEF ReqRec
  <2>3. req' = [req EXCEPT ![h] = x] BY <1>3 DEF GetApproval
  <2> HIDE DEF x
  <2>4. req' \in [Requests -> ReqRec] BY <1>1, <2>2, <2>3
  <2>5. \A g \in Requests : req'[g] = IF g = h THEN x ELSE req[g] BY <1>1, <2>3
  <2>6. TypeOK' BY <2>4 DEF IInv, TypeOK, GetApproval
  <2>7. Locked' BY <2>2, <2>5 DEF IInv, Locked, GetApproval
  <2>8. KeyKept' BY DEF IInv, KeyKept, GetApproval
  <2>9. ReadKept'
    <3>1. UNCHANGED <<key, job, acked>> BY DEF GetApproval
    <3>2. Below(acked, key) /\ Below(job.users, key) /\ Below(key, key)
      BY <1>3 DEF IInv, KeyKept, Below
    <3> QED BY <1>3, <2>2, <2>5, <3>1, <3>2 DEF IInv, ReadKept
  <2>10. KeyGiven' /\ JobGiven' /\ SeenGiven'
    <3>1. KeyGiven' BY <1>3, <2>2, <2>5 DEF IInv, GetApproval, Accepted, KeyGiven, JobGiven, SeenGiven
    <3>2. JobGiven' BY <1>3, <2>2, <2>5 DEF IInv, GetApproval, Accepted, KeyGiven, JobGiven
    <3>0. given' = given BY DEF GetApproval
    <3>3. SeenGiven' BY <1>3, <2>2, <2>5, <3>0 DEF IInv, KeyGiven, SeenGiven
    <3> QED BY <3>1, <3>2, <3>3
  <2> QED BY <2>6, <2>7, <2>8, <2>9, <2>10 DEF IInv
<1> QED BY <1>2, <1>3

\* The lock is what makes the read and the write of a request one step for the
\* other requests; the job's registration in between only repeats older decisions.
LEMMA PutApprovalKeeps ==
  ASSUME IInv, NEW h \in Requests, PutApproval(h)
  PROVE  IInv'
<1> DEFINE n == req[h].user
           v == req[h].verdict
           d == Decided(h)
<1>1. req \in [Requests -> ReqRec] /\ req[h] \in ReqRec BY DEF IInv, TypeOK
<1>2. n \in Users /\ v \in Verdicts /\ req[h].seen \in Decisions
  BY <1>1, ReqFields DEF IInv, Locked, PutApproval
<1>3. d \in Decisions /\ \A u \in Users : d[u] = IF u = n THEN v ELSE req[h].seen[u]
  BY <1>2 DEF Decided, Decisions, Verdicts
<1>4. req' = Return(h) /\ key' = d /\ given' = given \cup {<<n, v>>} BY DEF PutApproval
<1>5. /\ acked' \in Decisions
      /\ \A u \in Users : acked'[u] = IF u = n THEN v ELSE acked[u]
  BY <1>2 DEF IInv, TypeOK, Decisions, Verdicts, PutApproval
<1>6. \A g \in Requests \ {h} : req'[g] = req[g] BY <1>1, <1>4, Returned
<1>7. req'[h].pc = "unlock" /\ req'[h].user = n BY <1>1, <1>4, Returned
<1>8. \A g \in Requests \ {h} : req[g].pc = "idle" BY DEF IInv, Locked, PutApproval
<1>9. /\ Below(acked, req[h].seen) /\ Below(job.users, req[h].seen)
      /\ req[h].seen[n] = "" /\ Accepted(req[h].seen, given)
  BY DEF IInv, ReadKept, SeenGiven, PutApproval
<1> HIDE DEF n, v, d
<1>10. TypeOK'
  <2>1. given' \subseteq Users \X Verdicts BY <1>2, <1>4 DEF IInv, TypeOK
  <2>2. req' \in [Requests -> ReqRec] BY <1>1, <1>4, Returned
  <2> QED BY <1>3, <1>4, <1>5, <2>1, <2>2 DEF IInv, TypeOK, PutApproval
<1>11. Locked' BY <1>2, <1>6, <1>7 DEF IInv, Locked, PutApproval
<1>12. KeyKept' BY <1>3, <1>4, <1>5, <1>9, ZenonT(30) DEF KeyKept, Below, PutApproval
<1>13. ReadKept' BY <1>6, <1>7, <1>8 DEF ReadKept
<1>14. KeyGiven' /\ JobGiven' /\ SeenGiven'
  <2>1. Accepted(d, given')
    BY <1>3, <1>4, <1>9 DEF Accepted
  <2>2. Accepted(job.users, given')
    BY <1>4 DEF IInv, JobGiven, Accepted
  <2> QED BY <1>4, <1>6, <1>7, <1>8, <2>1, <2>2 DEF KeyGiven, JobGiven, SeenGiven, PutApproval
<1> QED BY <1>10, <1>11, <1>12, <1>13, <1>14 DEF IInv

LEMMA UnlockKeeps ==
  ASSUME IInv, NEW h \in Requests, Unlock(h)
  PROVE  IInv'
<1>1. req \in [Requests -> ReqRec] BY DEF IInv, TypeOK
<1>2. req' \in [Requests -> ReqRec] BY <1>1, IdleRecord DEF Unlock
<1>3. \A g \in Requests : req'[g] = IF g = h THEN IdleReq ELSE req[g] BY <1>1 DEF Unlock
<1>4. \A g \in Requests : req'[g].pc = "idle" BY <1>3, IdleRecord DEF IInv, Locked, Unlock
<1>5. TypeOK' BY <1>2 DEF IInv, TypeOK, Unlock
<1>6. KeyKept' BY DEF IInv, KeyKept, Unlock
<1>7. Locked' /\ ReadKept' BY <1>4 DEF Locked, ReadKept
<1>8. KeyGiven' /\ JobGiven' /\ SeenGiven'
  <2>1. KeyGiven' BY <1>4 DEF IInv, Unlock, Accepted, KeyGiven, JobGiven, SeenGiven
  <2>2. JobGiven' BY <1>4 DEF IInv, Unlock, Accepted, KeyGiven, JobGiven
  <2>3. SeenGiven' BY <1>4 DEF IInv, Unlock, Accepted, KeyGiven, SeenGiven
  <2> QED BY <2>1, <2>2, <2>3
<1> QED BY <1>5, <1>6, <1>7, <1>8 DEF IInv

LEMMA NextKeeps == IInv /\ [Next]_vars => IInv'
<1> SUFFICES ASSUME IInv, [Next]_vars PROVE IInv' OBVIOUS
<1>1. CASE UNCHANGED vars
  BY <1>1 DEF vars, IInv, TypeOK, Locked, KeyKept, ReadKept, KeyGiven, JobGiven, SeenGiven
<1>2. CASE JobStep \/ WaitTimeout \/ Cancel \/ RunAgain \/ KeyExpires
  BY <1>2, SetApprovalKeeps, IsApprovalKeeps, QuietSteps DEF JobStep
<1>3. ASSUME NEW h \in Requests, RequestStep(h) PROVE IInv'
  BY <1>3, GetApprovalKeeps, PutApprovalKeeps, UnlockKeeps DEF RequestStep
<1>4. ASSUME NEW h \in Requests, NEW u \in Users, NEW v \in Verdicts, Lock(h, u, v) PROVE IInv'
  BY <1>4, LockKeeps
<1> QED BY <1>1, <1>2, <1>3, <1>4 DEF Next

LEMMA IInvHolds == Spec => []IInv
BY InitHolds, NextKeeps, PTL DEF Spec

-----------------------------------------------------------------------------
(* Theorems.                                                                *)

\* The type invariant of the approval, its lock, the job and the requests.
THEOREM ApprovalTyped == Spec => []TypeOK
<1>1. IInv => TypeOK BY DEF IInv
<1> QED BY <1>1, IInvHolds, PTL

\* doApproval never loses a decision it acknowledged, for any number of approvers
\* that decide at the same time on any replicas.
THEOREM DecisionsAreKept == Spec => []DecisionsKept
<1>1. IInv => DecisionsKept BY DEF IInv, KeyKept, Below, DecisionsKept
<1> QED BY <1>1, IInvHolds, PTL

\* What OutcomeIsDecided says of a step.
Decides ==
  job'.pc = "delete" /\ job.pc = "poll" =>
    /\ job'.result = "passed" =>
         /\ Cardinality({u \in Users : <<u, "approve">> \in given}) >= NeededApprovers
         /\ \A u \in Users : acked[u] # "reject"
    /\ job'.result = "reject" => \E u \in Users : <<u, "reject">> \in given

LEMMA PollDecides ==
  ASSUME IInv, IsApproval, key # NoKey, job'.pc = "delete"
  PROVE  Decides
<1>1. job \in JobRec /\ key \in Decisions BY DEF IInv, TypeOK
<1>2. Rejected(key) \/ Approved(key) BY <1>1 DEF IsApproval, JobRec
<1>3. job'.result = IF Rejected(key) THEN "reject" ELSE "passed"
  BY <1>1, <1>2 DEF IsApproval, JobRec
<1>4. CASE Rejected(key)
  BY <1>3, <1>4 DEF Rejected, Decides, IInv, KeyGiven, Accepted
<1>5. CASE ~Rejected(key)
  <2> DEFINE A == {u \in Users : key[u] = "approve"}
             B == {u \in Users : <<u, "approve">> \in given}
  <2>1. A \subseteq B BY DEF IInv, KeyGiven, Accepted
  <2>2. IsFiniteSet(B) BY ApproverAssumption, FS_Subset
  <2>3. Cardinality(A) <= Cardinality(B) /\ Cardinality(A) \in Nat /\ Cardinality(B) \in Nat
    <3>1. IsFiniteSet(A) BY <2>1, <2>2, FS_Subset
    <3> QED BY <2>1, <2>2, <3>1, FS_Subset, FS_CardinalityType
  <2>4. Cardinality(A) >= NeededApprovers BY <1>2, <1>5 DEF Approved
  <2>5. Cardinality(B) >= NeededApprovers BY <2>3, <2>4, NeededAssumption
  <2>6. \A u \in Users : acked[u] # "reject"
    BY <1>5 DEF Rejected, IInv, KeyKept, Below
  <2> QED BY <1>3, <1>5, <2>5, <2>6 DEF Decides
<1> QED BY <1>4, <1>5

LEMMA StepDecides == IInv /\ [Next]_vars => Decides
<1> SUFFICES ASSUME IInv, [Next]_vars, job'.pc = "delete", job.pc = "poll" PROVE Decides
  BY DEF Decides
<1>1. job \in JobRec BY DEF IInv, TypeOK
<1>2. CASE IsApproval /\ key # NoKey BY <1>2, PollDecides
<1>3. CASE WaitCancelled \/ WaitTimeout \/ (IsApproval /\ key = NoKey)
  BY <1>1, <1>3, EndJob DEF WaitCancelled, WaitTimeout, IsApproval, Decides
<1>4. CASE \/ UNCHANGED job \/ SetApproval \/ DeleteApproval \/ RunAgain
  BY <1>1, <1>4 DEF SetApproval, DeleteApproval, RunAgain, JobRec
<1>5. \/ UNCHANGED job \/ SetApproval \/ DeleteApproval \/ RunAgain
      \/ WaitCancelled \/ WaitTimeout \/ IsApproval
  BY DEF Next, vars, JobStep, RequestStep, Cancel, KeyExpires, GetApproval, PutApproval,
         Unlock, Lock
<1> QED BY <1>2, <1>3, <1>4, <1>5

\* IsApproval: for every number of approvers that are needed, a job passes only
\* with that many approvals that were given and with no rejection acknowledged,
\* and is rejected only when somebody rejected it.
THEOREM OutcomeDecided == Spec => OutcomeIsDecided
<1>1. IInv /\ [Next]_vars =>
  [job'.pc = "delete" /\ job.pc = "poll" =>
      /\ job'.result = "passed" =>
           /\ Cardinality({u \in Users : <<u, "approve">> \in given}) >= NeededApprovers
           /\ \A u \in Users : acked[u] # "reject"
      /\ job'.result = "reject" => \E u \in Users : <<u, "reject">> \in given]_vars
  BY StepDecides DEF Decides
<1> QED BY <1>1, IInvHolds, PTL DEF Spec, OutcomeIsDecided
=============================================================================
