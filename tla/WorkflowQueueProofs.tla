------------------------ MODULE WorkflowQueueProofs ------------------------
(* Proofs about WorkflowQueue, for every set of tasks, workflows, replicas, *)
(* requests and controllers.                                                *)
EXTENDS WorkflowQueue, FiniteSetTheorems, TLAPS

Typed == TypeOK /\ Shape

USE DEF Procs, Threads, Absent, NoDoc, Doc, TaskStatus, EndStatus,
        IdleSender, IdleReq, FreeCtl, NoAck, Alive

\* The record of a request that has just read a task.
LEMMA FoundType ==
  ASSUME TypeOK, NEW h \in Procs, NEW t \in Tasks,
         NEW pc \in {"update", "touch", "remove"}
  PROVE  Found(h, t, pc) \in [Procs -> ReqRec]
<1>1. doc[t] \in Doc BY DEF TypeOK
<1>2. [IdleReq EXCEPT !.pc = pc, !.task = t, !.seen = doc[t]] \in ReqRec
  BY <1>1 DEF ReqRec
<1> QED BY <1>2 DEF TypeOK, Found

\* A request that reads a task for a later step keeps the records well formed.
LEMMA TypedFound ==
  ASSUME Typed, NEW h \in Handlers, NEW t \in Tasks,
         NEW pc \in {"update", "touch", "remove"},
         req' = Found(h, t, pc), used' \in Counters,
         UNCHANGED <<doc, queue, defs, lock, sender, rep, ctl, ack, notified, resub, undecided>>
  PROVE  Typed'
<1>1. req' \in [Procs -> ReqRec] BY FoundType DEF Typed
<1>2. TypeOK' BY <1>1 DEF Typed, TypeOK
<1>3. req'[h].task = t /\ \A p \in Procs \ {h} : req'[p] = req[p]
  BY DEF Found, Typed, TypeOK
<1>4. Shape' BY <1>3 DEF Typed, Shape
<1> QED BY <1>2, <1>4 DEF Typed

\* Requests keep every record well formed.
LEMMA TypedHandler ==
  ASSUME Typed, NEW h \in Handlers, HandlerStep(h)
  PROVE  Typed'
<1>u. used \in Counters BY DEF Typed, TypeOK
<1>1. ASSUME NEW t \in Tasks, CreateTask(h, t) PROVE Typed'
  <2>1. [IdleReq EXCEPT !.pc = "push", !.task = t] \in ReqRec BY DEF ReqRec
  <2>2. req' \in [Procs -> ReqRec] BY <1>1, <2>1 DEF Typed, TypeOK, CreateTask
  <2>3. TypeOK' BY <1>1, <2>2 DEF Typed, TypeOK, CreateTask
  <2>4. Shape' BY <1>1 DEF Typed, TypeOK, Shape, CreateTask
  <2> QED BY <2>3, <2>4 DEF Typed
<1>2. ASSUME NEW t \in Tasks, Resubmit(h, t) PROVE Typed'
  <2>1. used' = [used EXCEPT !.resubmits = @ + 1] BY <1>2 DEF Resubmit
  <2>2. used' \in Counters BY <1>u, <2>1 DEF Counters
  <2> QED BY <1>2, <2>2, TypedFound DEF Resubmit
<1>3. ASSUME NEW t \in Tasks, CancelFind(h, t) PROVE Typed'
  <2>1. used' = [used EXCEPT !.cancels = @ + 1] BY <1>3 DEF CancelFind
  <2>2. used' \in Counters BY <1>u, <2>1 DEF Counters
  <2> QED BY <1>3, <2>2, TypedFound DEF CancelFind
<1>4. ASSUME NEW t \in Tasks, TouchFind(h, t) PROVE Typed'
  <2>1. used' = [used EXCEPT !.touches = @ + 1] BY <1>4 DEF TouchFind
  <2>2. used' \in Counters BY <1>u, <2>1 DEF Counters
  <2> QED BY <1>4, <2>2, TypedFound DEF TouchFind
<1>5. ASSUME NEW w \in Workflows, DeleteWorkflowV4(h, w) PROVE Typed'
  <2> DEFINE listed == {t \in Tasks : WorkflowOf[t] = w /\ queue[t] # Absent}
  <2>1. [IdleReq EXCEPT !.pc = "loop", !.wf = w, !.todo = listed] \in ReqRec BY DEF ReqRec
  <2>2. req' \in [Procs -> ReqRec] BY <1>5, <2>1 DEF Typed, TypeOK, DeleteWorkflowV4
  <2>3. TypeOK' BY <1>5, <2>2 DEF Typed, TypeOK, DeleteWorkflowV4
  <2>4. Shape' BY <1>5 DEF Typed, TypeOK, Shape, DeleteWorkflowV4
  <2> QED BY <2>3, <2>4 DEF Typed
<1> QED BY <1>1, <1>2, <1>3, <1>4, <1>5
    DEF HandlerStep, RetryWorkflowTaskV4, ManualExecWorkflowTaskV4

\* So do the later steps of a request.
LEMMA TypedRequest ==
  ASSUME Typed, NEW h \in Handlers, RequestStep(h)
  PROVE  Typed'
<1>i. IdleReq \in ReqRec BY DEF ReqRec
<1>r. req[h] \in ReqRec BY DEF Typed, TypeOK
<1>1. CASE Push(h)
  <2>1. req' \in [Procs -> ReqRec] BY <1>1, <1>i DEF Typed, TypeOK, Push
  <2>2. TypeOK' BY <1>1, <2>1 DEF Typed, TypeOK, Shape, Push, QueueCreate
  <2>3. Shape' BY <1>1 DEF Typed, TypeOK, Shape, Push
  <2> QED BY <2>2, <2>3 DEF Typed
<1>2. CASE ResubmitUpdate(h)
  <2>1. [req[h] EXCEPT !.pc = "push"] \in ReqRec BY <1>r DEF ReqRec
  <2>2. req' \in [Procs -> ReqRec] BY <1>2, <2>1 DEF Typed, TypeOK, ResubmitUpdate
  <2>3. req[h].seen.deleted \in BOOLEAN BY <1>r DEF ReqRec
  <2>4. TypeOK' BY <1>2, <2>2, <2>3 DEF Typed, TypeOK, Shape, ResubmitUpdate
  <2>5. req'[h].task = req[h].task /\ \A p \in Procs \ {h} : req'[p] = req[p]
    BY <1>2, <1>r DEF Typed, TypeOK, ResubmitUpdate, ReqRec
  <2>6. Shape' BY <1>2, <2>5 DEF Typed, Shape, ResubmitUpdate
  <2> QED BY <2>4, <2>6 DEF Typed
<1>3. CASE TouchUpdate(h)
  <2>1. req' \in [Procs -> ReqRec] BY <1>3, <1>i DEF Typed, TypeOK, TouchUpdate
  <2>2. req[h].seen \in Doc BY <1>r DEF ReqRec
  <2>3. TypeOK' BY <1>3, <2>1, <2>2 DEF Typed, TypeOK, Shape, TouchUpdate
  <2>4. Shape' BY <1>3 DEF Typed, TypeOK, Shape, TouchUpdate
  <2> QED BY <2>3, <2>4 DEF Typed
<1>4. CASE DeleteByID(h)
  <2>1. [req[h] EXCEPT !.pc = "archive"] \in ReqRec BY <1>r DEF ReqRec
  <2>2. req' \in [Procs -> ReqRec] BY <1>4, <2>1, <1>i DEF Typed, TypeOK, DeleteByID
  <2>3. TypeOK' BY <1>4, <2>2 DEF Typed, TypeOK, DeleteByID
  <2>4. req'[h].pc \in {"idle", "archive"} /\ \A p \in Procs \ {h} : req'[p] = req[p]
    BY <1>4, <1>r DEF Typed, TypeOK, DeleteByID, ReqRec
  <2>5. Shape' BY <1>4, <2>4 DEF Typed, Shape, DeleteByID
  <2> QED BY <2>3, <2>5 DEF Typed
<1>5. CASE DeleteByWorkflowName(h)
  <2>1. req' \in [Procs -> ReqRec] BY <1>5, <1>i DEF Typed, TypeOK, DeleteByWorkflowName
  <2>2. ASSUME NEW t \in Tasks PROVE [doc[t] EXCEPT !.deleted = TRUE] \in Doc
    <3>1. doc[t] \in Doc BY DEF Typed, TypeOK
    <3> QED BY <3>1
  <2>3. doc' \in [Tasks -> Doc]
    <3>1. doc' = [t \in Tasks |-> IF WorkflowOf[t] = req[h].wf /\ doc[t] # NoDoc
                                  THEN [doc[t] EXCEPT !.deleted = TRUE] ELSE doc[t]]
      BY <1>5 DEF DeleteByWorkflowName
    <3> HIDE DEF Doc
    <3> QED BY <3>1, <2>2 DEF Typed, TypeOK
  <2>4. TypeOK' BY <1>5, <2>1, <2>3 DEF Typed, TypeOK, DeleteByWorkflowName
  <2>5. Shape' BY <1>5 DEF Typed, TypeOK, Shape, DeleteByWorkflowName
  <2> QED BY <2>4, <2>5 DEF Typed
<1> QED BY <1>1, <1>2, <1>3, <1>4, <1>5 DEF RequestStep

\* What a cancellation leaves behind when it returns.
LEMMA CancelReturnType ==
  ASSUME NEW p \in Procs, req[p] \in ReqRec
  PROVE  CancelReturn(p) \in ReqRec /\ CancelReturn(p).pc \in {"idle", "loop"}
<1>1. IdleReq \in ReqRec BY DEF ReqRec
<1>2. [IdleReq EXCEPT !.pc = "loop", !.todo = req[p].todo, !.wf = req[p].wf] \in ReqRec
  BY DEF ReqRec
<1>3. CASE Looping(p) BY <1>2, <1>3 DEF CancelReturn
<1>4. CASE ~Looping(p) BY <1>1, <1>4 DEF CancelReturn
<1> QED BY <1>3, <1>4

\* So do the steps of a cancellation.
LEMMA TypedCancel ==
  ASSUME Typed, NEW p \in Procs, CancelStep(p)
  PROVE  Typed'
<1>r. req[p] \in ReqRec BY DEF Typed, TypeOK
<1>e. CancelReturn(p) \in ReqRec /\ CancelReturn(p).pc \in {"idle", "loop"}
  BY <1>r, CancelReturnType
<1>1. CASE CancelRemove(p)
  <2>1. [req[p] EXCEPT !.pc = "save"] \in ReqRec BY <1>r DEF ReqRec
  <2>2. req' \in [Procs -> ReqRec] BY <1>1, <2>1, <1>e DEF Typed, TypeOK, CancelRemove
  <2>3. TypeOK' BY <1>1, <2>2 DEF Typed, TypeOK, Shape, CancelRemove, QueueDelete
  <2>4. /\ req'[p].pc \in {"idle", "loop"} \/ req'[p].task = req[p].task
        /\ \A q \in Procs \ {p} : req'[q] = req[q]
    <3>1. [req[p] EXCEPT !.pc = "save"].task = req[p].task BY <1>r DEF ReqRec
    <3> QED BY <1>1, <1>e, <3>1 DEF Typed, TypeOK, CancelRemove
  <2>5. Shape' BY <1>1, <2>4 DEF Typed, Shape, CancelRemove
  <2> QED BY <2>3, <2>5 DEF Typed
<1>2. CASE CancelUpdate(p)
  <2>1. [req[p] EXCEPT !.pc = "publish"] \in ReqRec BY <1>r DEF ReqRec
  <2>2. req' \in [Procs -> ReqRec] BY <1>2, <2>1 DEF Typed, TypeOK, CancelUpdate
  <2>3. [req[p].seen EXCEPT !.status = "cancelled"] \in Doc BY <1>r DEF ReqRec
  <2>4. TypeOK' BY <1>2, <2>2, <2>3 DEF Typed, TypeOK, Shape, CancelUpdate
  <2>5. req'[p].task = req[p].task /\ \A q \in Procs \ {p} : req'[q] = req[q]
    BY <1>2, <1>r DEF Typed, TypeOK, CancelUpdate, ReqRec
  <2>6. Shape' BY <1>2, <2>5 DEF Typed, Shape, CancelUpdate
  <2> QED BY <2>4, <2>6 DEF Typed
<1>3. CASE CancelPublish(p)
  <2>1. req' \in [Procs -> ReqRec] BY <1>3, <1>e DEF Typed, TypeOK, CancelPublish
  <2>2. ASSUME NEW c \in Ctls PROVE [ctl[c] EXCEPT !.sig = TRUE] \in CtlRec
    <3>1. ctl[c] \in CtlRec BY DEF Typed, TypeOK
    <3> QED BY <3>1 DEF CtlRec
  <2>3. ctl' \in [Ctls -> CtlRec] BY <1>3, <2>2 DEF Typed, TypeOK, CancelPublish
  <2>4. TypeOK' BY <1>3, <2>1, <2>3 DEF Typed, TypeOK, CancelPublish
  <2>5. \A c \in Ctls : /\ ctl'[c].pc = ctl[c].pc /\ ctl'[c].task = ctl[c].task
                        /\ ctl'[c].host = ctl[c].host /\ ctl'[c].sub = ctl[c].sub
    BY <1>3 DEF Typed, TypeOK, CancelPublish, CtlRec
  <2>6. req'[p].pc \in {"idle", "loop"} /\ \A q \in Procs \ {p} : req'[q] = req[q]
    BY <1>3, <1>e DEF Typed, TypeOK, CancelPublish
  <2>7. Shape' BY <1>3, <2>5, <2>6 DEF Typed, Shape, CancelPublish
  <2> QED BY <2>4, <2>7 DEF Typed
<1>4. ASSUME NEW t \in Tasks, CancelNext(p, t) PROVE Typed'
  <2>1. doc[t] \in Doc BY DEF Typed, TypeOK
  <2>2. [req[p] EXCEPT !.pc = "remove", !.task = t, !.seen = doc[t],
                       !.todo = req[p].todo \ {t}] \in ReqRec
    BY <1>r, <2>1 DEF ReqRec
  <2>3. req' \in [Procs -> ReqRec] BY <1>4, <2>2 DEF Typed, TypeOK, CancelNext
  <2>4. TypeOK' BY <1>4, <2>3 DEF Typed, TypeOK, CancelNext
  <2>5. req'[p].task = t /\ \A q \in Procs \ {p} : req'[q] = req[q]
    BY <1>4, <1>r DEF Typed, TypeOK, CancelNext, ReqRec
  <2>6. Shape' BY <1>4, <2>5 DEF Typed, Shape, CancelNext
  <2> QED BY <2>4, <2>6 DEF Typed
<1> QED BY <1>1, <1>2, <1>3, <1>4 DEF CancelStep

\* So does the sender.
LEMMA TypedSender ==
  ASSUME Typed, NEW r \in Replicas, SenderStep(r)
  PROVE  Typed'
<1>1. CASE SenderLock(r)
  <2>10. sender[r] \in SenderRec BY DEF Typed, TypeOK
  <2>11. [sender[r] EXCEPT !.pc = "list"] \in SenderRec BY <2>10 DEF SenderRec
  <2>12. sender' \in [Replicas -> SenderRec] BY <1>1, <2>11 DEF Typed, TypeOK, SenderLock
  <2>8. TypeOK' BY <1>1, <2>12 DEF Typed, TypeOK, Shape, SenderLock
  <2>9. Shape' BY <1>1 DEF Typed, TypeOK, Shape, SenderLock, SenderRec, ReqRec, CtlRec, AckRec
  <2> QED BY <2>8, <2>9 DEF Typed
<1>2. CASE SenderList(r)
  <2>10. IdleSender \in SenderRec BY <1>2, ProcessAssumption DEF Typed, TypeOK, Shape, SenderList, SenderRec
  <2>11. sender[r] \in SenderRec BY DEF Typed, TypeOK
  <2>12. [sender[r] EXCEPT !.pc = "scan", !.todo = {t \in Tasks : queue[t] = "waiting"}] \in SenderRec BY <2>11 DEF SenderRec
  <2>13. sender' \in [Replicas -> SenderRec] BY <1>2, <2>10, <2>12 DEF Typed, TypeOK, SenderList
  <2>8. TypeOK' BY <1>2, ProcessAssumption, <2>13 DEF Typed, TypeOK, Shape, SenderList, Unlocked
  <2>17. sender'[r] = IdleSender \/ sender'[r].pc = "scan"
    <3>1. CASE {t \in Tasks : queue[t] = "waiting"} = {} BY <1>2, <3>1 DEF Typed, TypeOK, SenderList
    <3>2. CASE {t \in Tasks : queue[t] = "waiting"} # {}
      <4>1. sender' = [sender EXCEPT ![r] = [sender[r] EXCEPT
                         !.pc = "scan", !.todo = {t \in Tasks : queue[t] = "waiting"}]]
        BY <1>2, <3>2 DEF SenderList
      <4> QED BY <4>1, <2>11 DEF Typed, TypeOK, SenderRec
    <3> QED BY <3>1, <3>2
  <2>14. sender'[r].pc \in {"idle", "list"} => sender'[r].todo = {} /\ sender'[r].pick = None
    BY <2>17
  <2>15. sender'[r].pc \notin {"find", "dispatch"} BY <2>17
  <2>16. \A q \in Replicas \ {r} : sender'[q] = sender[q] BY <1>2 DEF Typed, TypeOK, SenderList
  <2>9. Shape' BY <1>2, <2>14, <2>15, <2>16 DEF Typed, Shape, SenderList
  <2> QED BY <2>8, <2>9 DEF Typed
<1>3. CASE SenderGiveUp(r)
  <2>10. IdleSender \in SenderRec BY <1>3, ProcessAssumption DEF Typed, TypeOK, Shape, SenderGiveUp, SenderRec
  <2>11. sender' \in [Replicas -> SenderRec] BY <1>3, <2>10 DEF Typed, TypeOK, SenderGiveUp
  <2>8. TypeOK' BY <1>3, ProcessAssumption, <2>11 DEF Typed, TypeOK, Shape, SenderGiveUp, Unlocked
  <2>9. Shape' BY <1>3, ProcessAssumption DEF Typed, TypeOK, Shape, SenderGiveUp, Unlocked, SenderRec, ReqRec, CtlRec, AckRec
  <2> QED BY <2>8, <2>9 DEF Typed
<1>4. CASE SenderFind(r)
  <2>10. sender[r] \in SenderRec BY DEF Typed, TypeOK
  <2>13. doc[sender[r].pick] \in Doc BY <1>4 DEF Typed, TypeOK, Shape, SenderFind
  <2>11. [sender[r] EXCEPT !.pc = "dispatch", !.seen = doc[sender[r].pick]] \in SenderRec
    BY <2>10, <2>13 DEF SenderRec
  <2>12. sender' \in [Replicas -> SenderRec] BY <1>4, <2>11 DEF Typed, TypeOK, SenderFind
  <2>8. TypeOK' BY <1>4, <2>12 DEF Typed, TypeOK, Shape, SenderFind
  <2>9. Shape' BY <1>4 DEF Typed, TypeOK, Shape, SenderFind, SenderRec, ReqRec, CtlRec, AckRec
  <2> QED BY <2>8, <2>9 DEF Typed
<1>5. ASSUME NEW t \in Tasks, SenderScan(r, t) PROVE Typed'
  <2>10. sender[r] \in SenderRec BY DEF Typed, TypeOK
  <2>11. [sender[r] EXCEPT !.pc = "find", !.pick = t, !.todo = {}] \in SenderRec BY <2>10 DEF SenderRec
  <2>12. sender[r] \in SenderRec BY DEF Typed, TypeOK
  <2>13. [sender[r] EXCEPT !.todo = sender[r].todo \ {t}] \in SenderRec BY <2>12 DEF SenderRec
  <2>14. sender' \in [Replicas -> SenderRec]
    <3>1. CASE ~Undefined(t) /\ MayRun(t) BY <1>5, <2>11, <3>1 DEF Typed, TypeOK, SenderScan
    <3>2. CASE ~(~Undefined(t) /\ MayRun(t))
      <4>1. sender' = [sender EXCEPT ![r] = [sender[r] EXCEPT !.todo = sender[r].todo \ {t}]]
        BY <1>5, <3>2 DEF SenderScan
      <4> QED BY <4>1, <2>13 DEF Typed, TypeOK
    <3> QED BY <3>1, <3>2
  <2>8. TypeOK' BY <1>5, <2>14 DEF Typed, TypeOK, Shape, SenderScan, QueueDelete, IsOldest
  <2>9. Shape' BY <1>5 DEF Typed, TypeOK, Shape, SenderScan, QueueDelete, IsOldest, SenderRec, ReqRec, CtlRec, AckRec
  <2> QED BY <2>8, <2>9 DEF Typed
<1>6. ASSUME NEW c \in Ctls, SenderDispatch(r, c) PROVE Typed'
  <2>10. IdleSender \in SenderRec BY <1>6, ProcessAssumption DEF Typed, TypeOK, Shape, SenderDispatch, SenderRec
  <2>11. [FreeCtl EXCEPT !.pc = "subscribe", !.task = sender[r].pick, !.host = r,
                   !.ended = sender[r].seen.ended, !.deleted = sender[r].seen.deleted] \in CtlRec
    <3>1. sender[r].pick \in Tasks /\ sender[r].seen \in Doc
      BY <1>6 DEF Typed, TypeOK, Shape, SenderDispatch, SenderRec
    <3> QED BY <3>1 DEF CtlRec
  <2>12. [NoAck EXCEPT !.pc = "find"] \in AckRec BY <1>6, ProcessAssumption DEF Typed, TypeOK, Shape, SenderDispatch, AckRec
  <2>13. sender' \in [Replicas -> SenderRec] BY <1>6, <2>10 DEF Typed, TypeOK, SenderDispatch
  <2>14. ctl' \in [Ctls -> CtlRec] BY <1>6, <2>11 DEF Typed, TypeOK, SenderDispatch
  <2>15. ack' \in [Ctls \X Threads -> AckRec] BY <1>6, <2>12 DEF Typed, TypeOK, SenderDispatch
  <2>8. TypeOK' BY <1>6, ProcessAssumption, <2>13, <2>14, <2>15 DEF Typed, TypeOK, Shape, SenderDispatch, QueueUpdate, Unlocked
  <2>9. Shape' BY <1>6, ProcessAssumption DEF Typed, TypeOK, Shape, SenderDispatch, QueueUpdate, Unlocked, SenderRec, ReqRec, CtlRec, AckRec
  <2> QED BY <2>8, <2>9 DEF Typed
<1> QED BY <1>1, <1>2, <1>3, <1>4, <1>5, <1>6 DEF SenderStep

\* So do the acks.
LEMMA TypedAck ==
  ASSUME Typed, NEW c \in Ctls, NEW th \in Threads, AckStep(c, th)
  PROVE  Typed'
<1>1. CASE AckFind(c, th)
  <2>10. NoAck \in AckRec BY <1>1 DEF Typed, TypeOK, Shape, AckFind, AckRec
  <2>11. [NoAck EXCEPT !.pc = "queue", !.seen = doc[ctl[c].task]] \in AckRec BY <1>1 DEF Typed, TypeOK, Shape, AckFind, AckRec
  <2>12. ctl[c] \in CtlRec BY DEF Typed, TypeOK
  <2>13. [ctl[c] EXCEPT !.status = "cancelled"] \in CtlRec BY <2>12 DEF CtlRec
  <2>14. ack' \in [Ctls \X Threads -> AckRec] BY <1>1, <2>10, <2>11 DEF Typed, TypeOK, AckFind
  <2>15. ctl' \in [Ctls -> CtlRec]
    <3>1. CASE doc[ctl[c].task].status = "cancelled"
      <4>1. ctl' = [ctl EXCEPT ![c].status = "cancelled"] \/ ctl' = ctl
        BY <1>1, <3>1 DEF AckFind
      <4> QED BY <4>1, <2>13 DEF Typed, TypeOK
    <3>2. CASE doc[ctl[c].task].status # "cancelled"
      <4>1. ctl' = [ctl EXCEPT ![c].status = ctl[c].status] \/ ctl' = ctl
        BY <1>1, <3>2 DEF AckFind
      <4>2. [ctl[c] EXCEPT !.status = ctl[c].status] \in CtlRec BY <2>12 DEF CtlRec
      <4> QED BY <4>1, <4>2 DEF Typed, TypeOK
    <3> QED BY <3>1, <3>2
  <2>8. TypeOK' BY <1>1, <2>14, <2>15 DEF Typed, TypeOK, Shape, AckFind
  <2>16. \A d \in Ctls : /\ ctl'[d].pc = ctl[d].pc /\ ctl'[d].task = ctl[d].task
                         /\ ctl'[d].host = ctl[d].host /\ ctl'[d].sub = ctl[d].sub
    <3>1. \A d \in Ctls \ {c} : ctl'[d] = ctl[d] BY <1>1 DEF Typed, TypeOK, AckFind
    <3>2. ctl'[c] = ctl[c] \/ \E st \in EndStatus \cup {"running"} : ctl'[c] = [ctl[c] EXCEPT !.status = st]
      <4>1. CASE doc[ctl[c].task].status = "cancelled"
        BY <1>1, <4>1 DEF Typed, TypeOK, AckFind
      <4>2. CASE doc[ctl[c].task].status # "cancelled"
        <5>1. ctl[c].status \in EndStatus \cup {"running"} BY <2>12 DEF CtlRec
        <5>2. ctl'[c] = ctl[c] \/ ctl'[c] = [ctl[c] EXCEPT !.status = ctl[c].status]
          BY <1>1, <4>2 DEF Typed, TypeOK, AckFind
        <5> QED BY <5>1, <5>2
      <4> QED BY <4>1, <4>2
    <3> QED BY <3>1, <3>2, <2>12 DEF CtlRec
  <2>17. \A a \in Ctls \X Threads : ack'[a].pc # "none" => ack[a].pc # "none"
    BY <1>1 DEF Typed, TypeOK, AckFind, AckRec
  <2>9. Shape' BY <1>1, <2>16, <2>17 DEF Typed, Shape, AckFind
  <2> QED BY <2>8, <2>9 DEF Typed
<1>2. CASE AckQueue(c, th)
  <2>10. ack[<<c, th>>] \in AckRec BY DEF Typed, TypeOK
  <2>11. [ack[<<c, th>>] EXCEPT !.pc = "save"] \in AckRec BY <2>10 DEF AckRec
  <2>12. ack' \in [Ctls \X Threads -> AckRec] BY <1>2, <2>11 DEF Typed, TypeOK, AckQueue
  <2>8. TypeOK' BY <1>2, <2>12 DEF Typed, TypeOK, Shape, AckQueue, QueueUpdate, CtlRec
  <2>9. Shape' BY <1>2 DEF Typed, TypeOK, Shape, AckQueue, QueueUpdate, SenderRec, ReqRec, CtlRec, AckRec
  <2> QED BY <2>8, <2>9 DEF Typed
<1>3. CASE AckSave(c, th)
  <2>10. NoAck \in AckRec BY <1>3 DEF Typed, TypeOK, Shape, AckSave, AckRec
  <2>11. ack[<<c, th>>] \in AckRec BY DEF Typed, TypeOK
  <2>12. [ack[<<c, th>>] EXCEPT !.pc = "finish", !.note = isFirstComplete(c, ack[<<c, th>>].seen) \/ isNewRejectOrPause(c, ack[<<c, th>>].seen)] \in AckRec BY <2>11 DEF AckRec, isFirstComplete, isNewRejectOrPause, Finished, CtlRec, Typed, TypeOK
  <2>13. ack' \in [Ctls \X Threads -> AckRec] BY <1>3, <2>10, <2>12 DEF Typed, TypeOK, AckSave
  <2>8. TypeOK' BY <1>3, <2>13 DEF Typed, TypeOK, Shape, AckSave, isFirstComplete, isNewRejectOrPause, Finished, CtlRec
  <2>9. Shape' BY <1>3 DEF Typed, TypeOK, Shape, AckSave, isFirstComplete, isNewRejectOrPause, Finished, SenderRec, ReqRec, CtlRec, AckRec
  <2> QED BY <2>8, <2>9 DEF Typed
<1>4. CASE AckFinish(c, th)
  <2>1. notified \in [Tasks -> Nat] BY DEF Typed, TypeOK
  <2>2. ctl[c].task \in Tasks BY <1>4 DEF Typed, Shape, AckFinish
  <2>3. notified' = [notified EXCEPT ![ctl[c].task] = IF ack[<<c, th>>].note THEN @ + 1 ELSE @] BY <1>4 DEF AckFinish
  <2>4. notified' \in [Tasks -> Nat] BY <2>1, <2>2, <2>3
  <2>10. NoAck \in AckRec BY <1>4 DEF Typed, TypeOK, Shape, AckFinish, AckRec
  <2>11. ack' \in [Ctls \X Threads -> AckRec] BY <1>4, <2>10 DEF Typed, TypeOK, AckFinish
  <2>8. TypeOK' BY <1>4, <2>4, <2>11 DEF Typed, TypeOK, Shape, AckFinish, QueueDelete
  <2>9. Shape' BY <1>4 DEF Typed, TypeOK, Shape, AckFinish, QueueDelete, SenderRec, ReqRec, CtlRec, AckRec
  <2> QED BY <2>8, <2>9 DEF Typed
<1> QED BY <1>1, <1>2, <1>3, <1>4 DEF AckStep

\* So do the controllers.
LEMMA TypedCtl ==
  ASSUME Typed, NEW c \in Ctls, CtlStep(c)
  PROVE  Typed'
<1>1. CASE Subscribe(c)
  <2>10. ctl[c] \in CtlRec BY DEF Typed, TypeOK
  <2>11. [ctl[c] EXCEPT !.pc = "run", !.sub = TRUE] \in CtlRec BY <2>10 DEF CtlRec
  <2>12. ctl' \in [Ctls -> CtlRec] BY <1>1, <2>11 DEF Typed, TypeOK, Subscribe
  <2>8. TypeOK' BY <1>1, <2>12 DEF Typed, TypeOK, Shape, Subscribe
  <2>9. Shape' BY <1>1 DEF Typed, TypeOK, Shape, Subscribe, SenderRec, ReqRec, CtlRec, AckRec
  <2> QED BY <2>8, <2>9 DEF Typed
<1>2. CASE StageAck(c)
  <2>10. [NoAck EXCEPT !.pc = "find"] \in AckRec BY <1>2 DEF Typed, TypeOK, Shape, StageAck, AckRec
  <2>11. ack' \in [Ctls \X Threads -> AckRec] BY <1>2, <2>10 DEF Typed, TypeOK, StageAck
  <2>8. TypeOK' BY <1>2, <2>11 DEF Typed, TypeOK, Shape, StageAck
  <2>9. Shape' BY <1>2 DEF Typed, TypeOK, Shape, StageAck, SenderRec, ReqRec, CtlRec, AckRec
  <2> QED BY <2>8, <2>9 DEF Typed
<1>3. CASE DebugEvent(c)
  <2>10. [NoAck EXCEPT !.pc = "find"] \in AckRec BY <1>3 DEF Typed, TypeOK, Shape, DebugEvent, AckRec
  <2>11. ack' \in [Ctls \X Threads -> AckRec] BY <1>3, <2>10 DEF Typed, TypeOK, DebugEvent
  <2>8. TypeOK' BY <1>3, <2>11 DEF Typed, TypeOK, Shape, DebugEvent
  <2>9. Shape' BY <1>3 DEF Typed, TypeOK, Shape, DebugEvent, SenderRec, ReqRec, CtlRec, AckRec
  <2> QED BY <2>8, <2>9 DEF Typed
<1>4. CASE ReceiveCancel(c)
  <2>10. ctl[c] \in CtlRec BY DEF Typed, TypeOK
  <2>11. [ctl[c] EXCEPT !.ctx = TRUE] \in CtlRec BY <2>10 DEF CtlRec
  <2>12. ctl' \in [Ctls -> CtlRec] BY <1>4, <2>11 DEF Typed, TypeOK, ReceiveCancel
  <2>8. TypeOK' BY <1>4, <2>12 DEF Typed, TypeOK, Shape, ReceiveCancel
  <2>9. Shape' BY <1>4 DEF Typed, TypeOK, Shape, ReceiveCancel, SenderRec, ReqRec, CtlRec, AckRec
  <2> QED BY <2>8, <2>9 DEF Typed
<1>5. ASSUME NEW o \in Outcomes, FinishStages(c, o) PROVE Typed'
  <2>10. ctl[c] \in CtlRec BY DEF Typed, TypeOK
  <2>11. [ctl[c] EXCEPT !.pc = "clean", !.status = o] \in CtlRec BY <2>10, OutcomeAssumption DEF CtlRec
  <2>12. ctl' \in [Ctls -> CtlRec] BY <1>5, <2>11 DEF Typed, TypeOK, FinishStages
  <2>8. TypeOK' BY <1>5, OutcomeAssumption, <2>12 DEF Typed, TypeOK, Shape, FinishStages
  <2>9. Shape' BY <1>5, OutcomeAssumption DEF Typed, TypeOK, Shape, FinishStages, SenderRec, ReqRec, CtlRec, AckRec
  <2> QED BY <2>8, <2>9 DEF Typed
<1>6. CASE FinishRun(c)
  <2>10. ctl[c] \in CtlRec BY DEF Typed, TypeOK
  <2>11. [ctl[c] EXCEPT !.pc = "end", !.ended = TRUE, !.sub = FALSE, !.ctx = TRUE] \in CtlRec BY <2>10 DEF CtlRec
  <2>12. [NoAck EXCEPT !.pc = "find"] \in AckRec BY <1>6 DEF Typed, TypeOK, Shape, FinishRun, AckRec
  <2>13. ctl' \in [Ctls -> CtlRec] BY <1>6, <2>11 DEF Typed, TypeOK, FinishRun
  <2>14. ack' \in [Ctls \X Threads -> AckRec] BY <1>6, <2>12 DEF Typed, TypeOK, FinishRun
  <2>8. TypeOK' BY <1>6, <2>13, <2>14 DEF Typed, TypeOK, Shape, FinishRun
  <2>9. Shape' BY <1>6 DEF Typed, TypeOK, Shape, FinishRun, SenderRec, ReqRec, CtlRec, AckRec
  <2> QED BY <2>8, <2>9 DEF Typed
<1>7. CASE CtlExit(c)
  <2>10. FreeCtl \in CtlRec BY <1>7 DEF Typed, TypeOK, Shape, CtlExit, CtlRec
  <2>11. ctl' \in [Ctls -> CtlRec] BY <1>7, <2>10 DEF Typed, TypeOK, CtlExit
  <2>8. TypeOK' BY <1>7, <2>11 DEF Typed, TypeOK, Shape, CtlExit, Quiet
  <2>12. \A th \in Threads : ack'[<<c, th>>].pc = "none" BY <1>7 DEF CtlExit, Quiet
  <2>13. ctl'[c] = FreeCtl /\ \A d \in Ctls \ {c} : ctl'[d] = ctl[d]
    BY <1>7 DEF Typed, TypeOK, CtlExit
  <2>9. Shape' BY <1>7, <2>12, <2>13 DEF Typed, Shape, CtlExit
  <2> QED BY <2>8, <2>9 DEF Typed
<1> QED BY <1>1, <1>2, <1>3, <1>4, <1>5, <1>6, <1>7 DEF CtlStep

\* So do crashes and restarts.
LEMMA TypedReplica ==
  ASSUME Typed, NEW r \in Replicas, ReplicaStep(r)
  PROVE  Typed'
<1>1. CASE LockExpire(r)
  <2>8. TypeOK' BY <1>1 DEF Typed, TypeOK, Shape, LockExpire
  <2>9. Shape' BY <1>1 DEF Typed, TypeOK, Shape, LockExpire, SenderRec, ReqRec, CtlRec, AckRec
  <2> QED BY <2>8, <2>9 DEF Typed
<1>2. CASE Crash(r)
  <2>1. used \in Counters BY DEF Typed, TypeOK, Counters
  <2>2. used' = [used EXCEPT !.crashes = @ + 1] BY <1>2 DEF Crash
  <2>3. used' \in Counters BY <2>1, <2>2 DEF Counters
  <2>10. IdleSender \in SenderRec BY <1>2 DEF Typed, TypeOK, Shape, Crash, SenderRec
  <2>11. IdleReq \in ReqRec BY <1>2 DEF Typed, TypeOK, Shape, Crash, ReqRec
  <2>12. FreeCtl \in CtlRec BY <1>2 DEF Typed, TypeOK, Shape, Crash, CtlRec
  <2>13. NoAck \in AckRec BY <1>2 DEF Typed, TypeOK, Shape, Crash, AckRec
  <2>14. sender' \in [Replicas -> SenderRec] BY <1>2, <2>10 DEF Typed, TypeOK, Crash
  <2>15. req' \in [Procs -> ReqRec] BY <1>2, <2>11 DEF Typed, TypeOK, Crash
  <2>16. ctl' \in [Ctls -> CtlRec] BY <1>2, <2>12 DEF Typed, TypeOK, Crash
  <2>17. ack' \in [Ctls \X Threads -> AckRec] BY <1>2, <2>13 DEF Typed, TypeOK, Crash
  <2>8. TypeOK' BY <1>2, <2>3, <2>14, <2>15, <2>16, <2>17 DEF Typed, TypeOK, Shape, Crash, Counters
  <2>9. Shape' BY <1>2 DEF Typed, TypeOK, Shape, Crash, SenderRec, ReqRec, CtlRec, AckRec
  <2> QED BY <2>8, <2>9 DEF Typed
<1>3. CASE Restart(r)
  <2> DEFINE left == {t \in Tasks : doc[t].status \in InCompletedStatus /\ ~doc[t].deleted}
  <2>1. [IdleReq EXCEPT !.pc = "loop", !.todo = left] \in ReqRec BY DEF ReqRec
  <2>2. req' \in [Procs -> ReqRec] BY <1>3, <2>1 DEF Typed, TypeOK, Restart
  <2>3. TypeOK' BY <1>3, <2>2 DEF Typed, TypeOK, Restart
  <2>4. Shape' BY <1>3 DEF Typed, TypeOK, Shape, Restart
  <2> QED BY <2>3, <2>4 DEF Typed
<1>4. CASE BootDone(r)
  <2>1. IdleReq \in ReqRec BY DEF ReqRec
  <2>2. req' \in [Procs -> ReqRec] BY <1>4, <2>1 DEF Typed, TypeOK, BootDone
  <2>3. TypeOK' BY <1>4, <2>2 DEF Typed, TypeOK, BootDone
  <2>4. Shape' BY <1>4 DEF Typed, TypeOK, Shape, BootDone
  <2> QED BY <2>3, <2>4 DEF Typed
<1> QED BY <1>1, <1>2, <1>3, <1>4 DEF ReplicaStep, BootStep

\* The initial records are well formed.
LEMMA TypedInit == ASSUME Init PROVE Typed
<1>1. IdleSender \in SenderRec BY DEF SenderRec
<1>2. IdleReq \in ReqRec BY DEF ReqRec
<1>3. FreeCtl \in CtlRec BY DEF CtlRec
<1>4. NoAck \in AckRec BY DEF AckRec
<1>5. Init => used \in Counters BY DEF Init, Counters
<1>6. TypeOK BY <1>1, <1>2, <1>3, <1>4, <1>5 DEF Init, TypeOK
<1>7. Shape BY DEF Init, Shape
<1> QED BY <1>6, <1>7 DEF Typed

\* Typing is an inductive invariant.
LEMMA TypedNext ==
  ASSUME Typed, [Next]_vars
  PROVE  Typed'
<1>1. ASSUME NEW w \in Workflows, DeleteTestModule(w) PROVE Typed'
  BY <1>1 DEF Typed, TypeOK, Shape, DeleteTestModule
<1>2. CASE UNCHANGED vars
  BY <1>2 DEF Typed, TypeOK, Shape, vars
<1> QED
  BY <1>1, <1>2, TypedHandler, TypedRequest, TypedCancel, TypedSender, TypedAck, TypedCtl, TypedReplica
  DEF Next

\* Every behaviour keeps the collections and the processes well typed.
THEOREM TypeCorrect == Spec => []TypeOK
<1>1. Init => Typed BY TypedInit
<1>2. Typed /\ [Next]_vars => Typed' BY TypedNext
<1>3. Typed => TypeOK BY DEF Typed
<1> QED BY <1>1, <1>2, <1>3, PTL DEF Spec

-----------------------------------------------------------------------------
(* The single controller, for every instance in which                       *)
(* the sender's lock does not expire while it is held.  Most steps are      *)
(* calm: they may only take away what the invariant speaks of.  The others  *)
(* get a proof of their own.                                                *)

CalmDoc == \A t \in Tasks : doc'[t] = NoDoc => doc[t] = NoDoc
CalmReq ==
  \A p \in Procs :
    /\ req'[p].pc = "push" => req[p].pc = "push" /\ req'[p].task = req[p].task
    /\ req'[p].pc = "touch" => req'[p].seen # NoDoc
CalmSender ==
  \A r \in Replicas :
    /\ sender'[r].pc # "idle" => sender[r].pc # "idle" /\ lock' = r
    /\ \A t \in Tasks : t \in sender'[r].todo \/ sender'[r].pick = t => Chosen(r, t)
CalmCtl ==
  \A c \in Ctls : ctl'[c].pc # "free" =>
    ctl[c].pc # "free" /\ ctl'[c].task = ctl[c].task
CalmQueue == \A t \in Tasks : queue'[t] \in {queue[t], Absent}
Calm == CalmDoc /\ CalmReq /\ CalmSender /\ CalmCtl /\ CalmQueue /\ resub' = resub

\* The tasks that occupy a slot are finitely many.
LEMMA OccupiedFinite ==
  /\ IsFiniteSet(Occupied \ resub) /\ Cardinality(Occupied \ resub) \in Nat
  /\ IsFiniteSet(Occupied) /\ Cardinality(Occupied) \in Nat
  /\ Cardinality(Occupied \ resub) <= Cardinality(Occupied)
<1>1. IsFiniteSet(Tasks) BY TaskAssumption
<1>2. Occupied \subseteq Tasks BY DEF Occupied
<1>3. IsFiniteSet(Occupied) BY <1>1, <1>2, FS_Subset
<1>4. Occupied \ resub \subseteq Occupied OBVIOUS
<1>5. IsFiniteSet(Occupied \ resub) /\ Cardinality(Occupied \ resub) <= Cardinality(Occupied)
  BY <1>3, <1>4, FS_Subset
<1> QED BY <1>3, <1>5, FS_CardinalityType

\* A step that frees slots or keeps them does not raise the count.
LEMMA FewerOccupied ==
  ASSUME Occupied' \ resub' \subseteq Occupied \ resub
  PROVE  /\ Cardinality(Occupied' \ resub') <= Cardinality(Occupied \ resub)
         /\ Cardinality(Occupied' \ resub') \in Nat
<1>1. IsFiniteSet(Occupied \ resub) BY OccupiedFinite
<1>2. IsFiniteSet(Occupied' \ resub') BY <1>1, FS_Subset
<1> QED BY <1>1, <1>2, FS_Subset, FS_CardinalityType

\* Calm steps preserve the inductive invariant.
LEMMA CalmPreserves ==
  ASSUME IInv, Typed', Calm
  PROVE  IInv'
<1>1. TypeOK' /\ Shape' BY DEF Typed
<1>2. LockInv' BY DEF LockInv, Calm, CalmSender
<1>3. TouchInv' BY DEF TouchInv, Calm, CalmReq
<1>p. \A p \in Procs, t \in Tasks : Pushing(p, t)' => Pushing(p, t)
  BY DEF Calm, CalmReq, Pushing
<1>c. \A r \in Replicas, t \in Tasks : Chosen(r, t)' => Chosen(r, t)
  BY DEF Calm, CalmSender, Chosen
<1>o. \A t \in Tasks : Owned(t)' => Owned(t) BY DEF Calm, CalmCtl, Owned
<1>q. \A t \in Tasks : queue'[t] \in {queue[t], Absent} BY DEF Calm, CalmQueue
<1>s. resub' = resub BY DEF Calm
<1>4. DocInv' BY <1>p, <1>c, <1>o, <1>q DEF IInv, DocInv, Calm, CalmDoc
<1>5. PushInv' BY <1>p, <1>c, <1>o, <1>q, <1>s DEF IInv, PushInv
<1>6. ChosenInv' BY <1>c, <1>o, <1>q, <1>s DEF IInv, ChosenInv
<1>t. \A c \in Ctls : Alive(c)' => ctl'[c].task \in Tasks BY <1>1 DEF Shape
<1>7. OwnedInv' BY <1>q, <1>s, <1>t DEF IInv, OwnedInv, Calm, CalmCtl
<1>8. SingleController' BY <1>s DEF IInv, SingleController, Calm, CalmCtl
<1> QED BY <1>1, <1>2, <1>3, <1>4, <1>5, <1>6, <1>7, <1>8 DEF IInv

\* What is left alone is calm.
LEMMA Still ==
  ASSUME IInv
  PROVE  /\ doc' = doc => CalmDoc
         /\ req' = req => CalmReq
         /\ sender' = sender /\ lock' = lock => CalmSender
         /\ ctl' = ctl => CalmCtl
         /\ queue' = queue => CalmQueue
BY DEF IInv, TouchInv, LockInv, Chosen, CalmDoc, CalmReq, CalmSender, CalmCtl, CalmQueue

\* A request is calm unless it is going to push.
LEMMA CalmRequest ==
  ASSUME IInv, NEW p \in Procs, NEW new \in ReqRec, req' = [req EXCEPT ![p] = new],
         new.pc # "push", new.pc = "touch" => new.seen # NoDoc
  PROVE  CalmReq
<1>1. req'[p] = new /\ \A q \in Procs \ {p} : req'[q] = req[q] BY DEF IInv, TypeOK
<1> QED BY <1>1 DEF IInv, TouchInv, CalmReq

\* Writing a document is calm.
LEMMA CalmWrite ==
  ASSUME IInv, NEW t \in Tasks, NEW d \in Doc, doc' = [doc EXCEPT ![t] = d], d # NoDoc
  PROVE  CalmDoc
BY DEF IInv, TypeOK, CalmDoc

\* Removing an entry is calm.
LEMMA CalmDelete ==
  ASSUME IInv, NEW t, queue' = QueueDelete(t)
  PROVE  CalmQueue
BY DEF IInv, TypeOK, QueueDelete, CalmQueue

\* A sender that gives up is calm: the others are idle or hold the lock.
LEMMA CalmGiveUp ==
  ASSUME IInv, NEW r \in Replicas, sender' = [sender EXCEPT ![r] = IdleSender],
         lock' = Unlocked(r)
  PROVE  CalmSender
<1>1. sender'[r] = IdleSender /\ \A q \in Replicas \ {r} : sender'[q] = sender[q]
  BY DEF IInv, TypeOK
<1>2. \A q \in Replicas \ {r} : sender[q].pc # "idle" => lock' = q
  BY DEF IInv, LockInv, Unlocked
<1> QED BY <1>1, <1>2, ProcessAssumption DEF CalmSender, Chosen

\* A controller that goes on with its task, or leaves it, is calm.
LEMMA CalmController ==
  ASSUME IInv, NEW c \in Ctls, NEW new \in CtlRec, ctl' = [ctl EXCEPT ![c] = new],
         new.pc # "free" => ctl[c].pc # "free" /\ new.task = ctl[c].task
  PROVE  CalmCtl
<1>1. ctl'[c] = new /\ \A d \in Ctls \ {c} : ctl'[d] = ctl[d] BY DEF IInv, TypeOK
<1> QED BY <1>1 DEF CalmCtl

\* Requests other than CreateTask are calm until they push.
LEMMA CalmHandler ==
  ASSUME IInv, NEW h \in Handlers, HandlerStep(h)
  PROVE  Calm \/ \E t \in Tasks : CreateTask(h, t)
<1>1. ASSUME NEW t \in Tasks, NEW pc \in {"update", "touch", "remove"},
             req' = Found(h, t, pc), doc[t] # NoDoc
      PROVE  CalmReq
  <2>1. doc[t] \in Doc BY DEF IInv, TypeOK
  <2> DEFINE new == [IdleReq EXCEPT !.pc = pc, !.task = t, !.seen = doc[t]]
  <2>2. new \in ReqRec /\ new.pc = pc /\ new.seen = doc[t] BY <2>1 DEF ReqRec
  <2>3. req' = [req EXCEPT ![h] = new] BY <1>1 DEF Found
  <2> HIDE DEF new
  <2> QED BY <1>1, <2>2, <2>3, CalmRequest
<1>2. ASSUME NEW t \in Tasks, RetryWorkflowTaskV4(h, t) \/ ManualExecWorkflowTaskV4(h, t)
      PROVE  Calm
  <2>1. doc[t] # NoDoc
    BY <1>2 DEF RetryWorkflowTaskV4, ManualExecWorkflowTaskV4, RetryableStatus
  <2>2. Resubmit(h, t) BY <1>2 DEF RetryWorkflowTaskV4, ManualExecWorkflowTaskV4
  <2> QED BY <2>1, <2>2, <1>1, Still DEF Resubmit, Calm
<1>3. ASSUME NEW t \in Tasks, CancelFind(h, t) PROVE Calm
  BY <1>3, <1>1, Still DEF CancelFind, Calm
<1>4. ASSUME NEW t \in Tasks, TouchFind(h, t) PROVE Calm
  BY <1>4, <1>1, Still DEF TouchFind, Calm
<1>5. ASSUME NEW w \in Workflows, DeleteWorkflowV4(h, w) PROVE Calm
  <2> DEFINE listed == {t \in Tasks : WorkflowOf[t] = w /\ queue[t] # Absent}
             new == [IdleReq EXCEPT !.pc = "loop", !.wf = w, !.todo = listed]
  <2>1. new \in ReqRec /\ new.pc = "loop" BY DEF ReqRec
  <2>2. req' = [req EXCEPT ![h] = new] BY <1>5 DEF DeleteWorkflowV4
  <2> HIDE DEF new
  <2>3. CalmReq BY <2>1, <2>2, CalmRequest
  <2> QED BY <1>5, <2>3, Still DEF DeleteWorkflowV4, Calm
<1> QED BY <1>2, <1>3, <1>4, <1>5 DEF HandlerStep

\* So is the rest of a request, but for its Push and for UpdateTask.
LEMMA CalmRequestStep ==
  ASSUME IInv, NEW h \in Handlers, RequestStep(h)
  PROVE  Calm \/ Push(h) \/ ResubmitUpdate(h)
<1>i. IdleReq \in ReqRec BY DEF ReqRec
<1>r. req[h] \in ReqRec BY DEF IInv, TypeOK
<1>1. CASE TouchUpdate(h)
  <2>1. CalmReq BY <1>1, <1>i, CalmRequest DEF TouchUpdate
  <2>2. req[h].task \in Tasks /\ req[h].seen \in Doc /\ req[h].seen # NoDoc
    BY <1>1, <1>r DEF TouchUpdate, IInv, Shape, TouchInv, ReqRec
  <2>3. CalmDoc BY <1>1, <2>2, CalmWrite DEF TouchUpdate
  <2> QED BY <1>1, <2>1, <2>3, Still DEF TouchUpdate, Calm
<1>2. CASE DeleteByID(h)
  <2> DEFINE new == IF req[h].wf \in defs THEN [req[h] EXCEPT !.pc = "archive"] ELSE IdleReq
  <2>1. [req[h] EXCEPT !.pc = "archive"] \in ReqRec
        /\ [req[h] EXCEPT !.pc = "archive"].pc = "archive"
    BY <1>r DEF ReqRec
  <2>2. new \in ReqRec /\ new.pc \in {"idle", "archive"} BY <2>1, <1>i
  <2>3. req' = [req EXCEPT ![h] = new] BY <1>2 DEF DeleteByID
  <2> HIDE DEF new
  <2>4. CalmReq BY <2>2, <2>3, CalmRequest
  <2> QED BY <1>2, <2>4, Still DEF DeleteByID, Calm
<1>3. CASE DeleteByWorkflowName(h)
  <2>1. CalmReq BY <1>3, <1>i, CalmRequest DEF DeleteByWorkflowName
  <2>2. CalmDoc BY <1>3 DEF IInv, TypeOK, DeleteByWorkflowName, CalmDoc
  <2> QED BY <1>3, <2>1, <2>2, Still DEF DeleteByWorkflowName, Calm
<1> QED BY <1>1, <1>2, <1>3 DEF RequestStep

\* Cancellations are calm.
LEMMA CalmCancel ==
  ASSUME IInv, NEW p \in Procs, CancelStep(p)
  PROVE  Calm
<1>r. req[p] \in ReqRec BY DEF IInv, TypeOK
<1>e. CancelReturn(p) \in ReqRec /\ CancelReturn(p).pc \in {"idle", "loop"}
  BY <1>r, CancelReturnType
<1>1. CASE CancelRemove(p)
  <2> DEFINE new == IF req[p].seen.status = "passed" THEN CancelReturn(p)
                    ELSE [req[p] EXCEPT !.pc = "save"]
  <2>1. [req[p] EXCEPT !.pc = "save"] \in ReqRec /\ [req[p] EXCEPT !.pc = "save"].pc = "save"
    BY <1>r DEF ReqRec
  <2>2. new \in ReqRec /\ new.pc \in {"idle", "loop", "save"} BY <2>1, <1>e
  <2>3. req' = [req EXCEPT ![p] = new] BY <1>1 DEF CancelRemove
  <2> HIDE DEF new
  <2>4. CalmReq BY <2>2, <2>3, CalmRequest
  <2>5. CalmQueue BY <1>1, CalmDelete DEF CancelRemove
  <2> QED BY <1>1, <2>4, <2>5, Still DEF CancelRemove, Calm
<1>2. CASE CancelUpdate(p)
  <2>1. [req[p] EXCEPT !.pc = "publish"] \in ReqRec
        /\ [req[p] EXCEPT !.pc = "publish"].pc = "publish"
    BY <1>r DEF ReqRec
  <2>2. CalmReq BY <1>2, <2>1, CalmRequest DEF CancelUpdate
  <2>3. req[p].task \in Tasks BY <1>2 DEF CancelUpdate, IInv, Shape
  <2>4. req[p].seen \in Doc BY <1>r DEF ReqRec
  <2>5. [req[p].seen EXCEPT !.status = "cancelled"] \in Doc
        /\ [req[p].seen EXCEPT !.status = "cancelled"] # NoDoc
    BY <2>4
  <2>6. CalmDoc BY <1>2, <2>3, <2>5, CalmWrite DEF CancelUpdate
  <2> QED BY <1>2, <2>2, <2>6, Still DEF CancelUpdate, Calm
<1>3. CASE CancelPublish(p)
  <2>1. CalmReq BY <1>3, <1>e, CalmRequest DEF CancelPublish
  <2>2. CalmCtl BY <1>3 DEF IInv, TypeOK, CancelPublish, CalmCtl, CtlRec
  <2> QED BY <1>3, <2>1, <2>2, Still DEF CancelPublish, Calm
<1>4. ASSUME NEW t \in Tasks, CancelNext(p, t) PROVE Calm
  <2> DEFINE new == [req[p] EXCEPT !.pc = "remove", !.task = t, !.seen = doc[t],
                                   !.todo = req[p].todo \ {t}]
  <2>1. doc[t] \in Doc BY DEF IInv, TypeOK
  <2>2. new \in ReqRec /\ new.pc = "remove" BY <1>r, <2>1 DEF ReqRec
  <2>3. req' = [req EXCEPT ![p] = new] BY <1>4 DEF CancelNext
  <2> HIDE DEF new
  <2>4. CalmReq BY <2>2, <2>3, CalmRequest
  <2> QED BY <1>4, <2>4, Still DEF CancelNext, Calm
<1> QED BY <1>1, <1>2, <1>3, <1>4 DEF CancelStep

\* The sender is calm once it has listed the waiting tasks, until it dispatches.
LEMMA CalmSenderStep ==
  ASSUME IInv, NEW r \in Replicas, SenderStep(r)
  PROVE  \/ Calm \/ SenderLock(r) \/ SenderList(r)
         \/ \E c \in Ctls : SenderDispatch(r, c)
<1>s. sender[r] \in SenderRec BY DEF IInv, TypeOK
<1>1. CASE SenderGiveUp(r)
  <2>1. CalmSender BY <1>1, CalmGiveUp DEF SenderGiveUp
  <2> QED BY <1>1, <2>1, Still DEF SenderGiveUp, Calm
<1>2. ASSUME NEW new \in SenderRec, sender' = [sender EXCEPT ![r] = new], lock' = lock,
             sender[r].pc # "idle",
             \A t \in Tasks : t \in new.todo \/ new.pick = t => Chosen(r, t)
      PROVE  CalmSender
  <2>1. sender'[r] = new /\ \A q \in Replicas \ {r} : sender'[q] = sender[q]
    BY <1>2 DEF IInv, TypeOK
  <2>2. \A q \in Replicas \ {r} :
          /\ sender'[q].pc # "idle" => sender[q].pc # "idle" /\ lock' = q
          /\ \A t \in Tasks : t \in sender'[q].todo \/ sender'[q].pick = t => Chosen(q, t)
    BY <2>1, <1>2 DEF IInv, LockInv, Chosen
  <2>3. /\ lock' = r
        /\ \A t \in Tasks : t \in sender'[r].todo \/ sender'[r].pick = t => Chosen(r, t)
    BY <2>1, <1>2 DEF IInv, LockInv
  <2> QED BY <1>2, <2>2, <2>3 DEF CalmSender
<1>3. CASE SenderFind(r)
  <2> DEFINE new == [sender[r] EXCEPT !.pc = "dispatch", !.seen = doc[sender[r].pick]]
  <2>1. doc[sender[r].pick] \in Doc BY <1>3 DEF IInv, TypeOK, Shape, SenderFind
  <2>2. new \in SenderRec /\ new.todo = sender[r].todo /\ new.pick = sender[r].pick
    BY <1>s, <2>1 DEF SenderRec
  <2>3. sender' = [sender EXCEPT ![r] = new] /\ lock' = lock /\ sender[r].pc # "idle"
    BY <1>3 DEF SenderFind
  <2> HIDE DEF new
  <2>4. CalmSender BY <2>2, <2>3, <1>2 DEF Chosen
  <2> QED BY <1>3, <2>4, Still DEF SenderFind, Calm
<1>4. ASSUME NEW t \in Tasks, SenderScan(r, t) PROVE Calm
  <2> DEFINE found == [sender[r] EXCEPT !.pc = "find", !.pick = t, !.todo = {}]
             skip == [sender[r] EXCEPT !.todo = sender[r].todo \ {t}]
  <2>1. found \in SenderRec /\ found.todo = {} /\ found.pick = t BY <1>s DEF SenderRec
  <2>2. skip \in SenderRec /\ skip.todo \subseteq sender[r].todo /\ skip.pick = sender[r].pick
    BY <1>s DEF SenderRec
  <2>3. t \in sender[r].todo /\ sender[r].pc # "idle" /\ lock' = lock
    BY <1>4 DEF SenderScan, IsOldest
  <2>4. ASSUME sender' = [sender EXCEPT ![r] = found] PROVE CalmSender
    <3> HIDE DEF found
    <3> QED BY <2>1, <2>3, <2>4, <1>2 DEF Chosen
  <2>5. ASSUME sender' = [sender EXCEPT ![r] = skip] PROVE CalmSender
    <3> HIDE DEF skip
    <3> QED BY <2>2, <2>3, <2>5, <1>2 DEF Chosen
  <2>6. sender' = [sender EXCEPT ![r] = found] \/ sender' = [sender EXCEPT ![r] = skip]
    <3>1. CASE ~Undefined(t) /\ MayRun(t) BY <1>4, <3>1 DEF SenderScan
    <3>2. CASE ~(~Undefined(t) /\ MayRun(t)) BY <1>4, <3>2 DEF SenderScan
    <3> QED BY <3>1, <3>2
  <2>7. CalmSender BY <2>4, <2>5, <2>6
  <2>8. CalmQueue
    <3>1. CASE Undefined(t)
      <4>1. queue' = QueueDelete(t) BY <1>4, <3>1 DEF SenderScan
      <4> QED BY <4>1, CalmDelete
    <3>2. CASE ~Undefined(t)
      <4>1. queue' = queue BY <1>4, <3>2 DEF SenderScan
      <4> QED BY <4>1, Still
    <3> QED BY <3>1, <3>2
  <2> QED BY <1>4, <2>7, <2>8, Still DEF SenderScan, Calm
<1> QED BY <1>1, <1>3, <1>4 DEF SenderStep

\* An ack is calm but for UpdateQueue.
LEMMA CalmAck ==
  ASSUME IInv, NEW c \in Ctls, NEW th \in Threads, AckStep(c, th)
  PROVE  Calm \/ AckQueue(c, th)
<1>c. ctl[c] \in CtlRec BY DEF IInv, TypeOK
<1>a. ack[<<c, th>>].pc # "none" => ctl[c].pc # "free" /\ ctl[c].task \in Tasks
  BY DEF IInv, Shape
<1>1. CASE AckFind(c, th)
  <2>1. \A st \in EndStatus \cup {"running"} :
          LET new == [ctl[c] EXCEPT !.status = st]
          IN  new \in CtlRec /\ new.pc = ctl[c].pc /\ new.task = ctl[c].task /\ new.status = st
    BY <1>c DEF CtlRec
  <2>2. ASSUME ctl' = ctl PROVE CalmCtl BY <2>2, Still
  <2>3. ASSUME ctl' = [ctl EXCEPT ![c] = [ctl[c] EXCEPT !.status = "cancelled"]] PROVE CalmCtl
    <3> DEFINE new == [ctl[c] EXCEPT !.status = "cancelled"]
    <3>1. new \in CtlRec /\ new.task = ctl[c].task /\ new.status = "cancelled" BY <2>1
    <3>2. ctl[c].pc # "free" BY <1>1, <1>a DEF AckFind
    <3>3. ctl' = [ctl EXCEPT ![c] = new] BY <2>3
    <3> HIDE DEF new
    <3> QED BY <3>1, <3>2, <3>3, CalmController
  <2>4. ctl' = ctl \/ ctl' = [ctl EXCEPT ![c] = [ctl[c] EXCEPT !.status = "cancelled"]]
    <3>1. CASE doc[ctl[c].task].status = "cancelled" BY <1>1, <3>1 DEF AckFind
    <3>2. CASE doc[ctl[c].task].status # "cancelled"
      <4>1. ctl' = ctl \/ ctl' = [ctl EXCEPT ![c].status = ctl[c].status]
        BY <1>1, <3>2 DEF AckFind
      <4>2. [ctl[c] EXCEPT !.status = ctl[c].status] = ctl[c] BY <1>c DEF CtlRec
      <4>3. [ctl EXCEPT ![c].status = ctl[c].status] = ctl BY <4>2 DEF IInv, TypeOK
      <4> QED BY <4>1, <4>3
    <3> QED BY <3>1, <3>2
  <2>5. CalmCtl BY <2>2, <2>3, <2>4
  <2> QED BY <1>1, <2>5, Still DEF AckFind, Calm
<1>2. CASE AckSave(c, th)
  <2> DEFINE d == [status |-> ctl[c].status, ended |-> ctl[c].ended, deleted |-> ctl[c].deleted]
  <2>1. d \in Doc /\ d # NoDoc BY <1>c DEF CtlRec
  <2>2. ctl[c].task \in Tasks BY <1>2, <1>a DEF AckSave
  <2>3. doc' = [doc EXCEPT ![ctl[c].task] = d] BY <1>2 DEF AckSave
  <2> HIDE DEF d
  <2>4. CalmDoc BY <2>1, <2>2, <2>3, CalmWrite
  <2> QED BY <1>2, <2>4, Still DEF AckSave, Calm
<1>3. CASE AckFinish(c, th)
  <2>1. CalmQueue BY <1>3, CalmDelete DEF AckFinish
  <2> QED BY <1>3, <2>1, Still DEF AckFinish, Calm
<1> QED BY <1>1, <1>2, <1>3 DEF AckStep

\* Controllers are calm.
LEMMA CalmCtlStep ==
  ASSUME IInv, NEW c \in Ctls, CtlStep(c)
  PROVE  Calm
<1>c. ctl[c] \in CtlRec BY DEF IInv, TypeOK
<1>1. CASE Subscribe(c)
  <2> DEFINE new == [ctl[c] EXCEPT !.pc = "run", !.sub = TRUE]
  <2>1. new \in CtlRec /\ new.task = ctl[c].task /\ new.status = ctl[c].status
    BY <1>c DEF CtlRec
  <2>2. ctl' = [ctl EXCEPT ![c] = new] /\ ctl[c].pc # "free" BY <1>1 DEF Subscribe
  <2> HIDE DEF new
  <2>3. CalmCtl BY <2>1, <2>2, CalmController
  <2> QED BY <1>1, <2>3, Still DEF Subscribe, Calm
<1>2. CASE StageAck(c) BY <1>2, Still DEF StageAck, Calm
<1>3. CASE DebugEvent(c) BY <1>3, Still DEF DebugEvent, Calm
<1>4. CASE ReceiveCancel(c)
  <2> DEFINE new == [ctl[c] EXCEPT !.ctx = TRUE]
  <2>1. /\ new \in CtlRec /\ new.task = ctl[c].task /\ new.status = ctl[c].status
        /\ new.pc = ctl[c].pc
    BY <1>c DEF CtlRec
  <2>2. ctl' = [ctl EXCEPT ![c] = new] BY <1>4 DEF ReceiveCancel
  <2> HIDE DEF new
  <2>3. CalmCtl BY <2>1, <2>2, CalmController
  <2> QED BY <1>4, <2>3, Still DEF ReceiveCancel, Calm
<1>5. ASSUME NEW o \in Outcomes, FinishStages(c, o) PROVE Calm
  <2> DEFINE new == [ctl[c] EXCEPT !.pc = "clean", !.status = o]
  <2>1. o \in EndStatus \cup {"running"} BY OutcomeAssumption
  <2>2. new \in CtlRec /\ new.task = ctl[c].task
    BY <1>c, <2>1 DEF CtlRec
  <2>3. ctl' = [ctl EXCEPT ![c] = new] /\ ctl[c].pc # "free" BY <1>5 DEF FinishStages
  <2> HIDE DEF new
  <2>4. CalmCtl BY <2>1, <2>2, <2>3, CalmController
  <2> QED BY <1>5, <2>4, Still DEF FinishStages, Calm
<1>6. CASE FinishRun(c)
  <2> DEFINE new == [ctl[c] EXCEPT !.pc = "end", !.ended = TRUE, !.sub = FALSE, !.ctx = TRUE]
  <2>1. new \in CtlRec /\ new.task = ctl[c].task /\ new.status = ctl[c].status
    BY <1>c DEF CtlRec
  <2>2. ctl' = [ctl EXCEPT ![c] = new] /\ ctl[c].pc # "free" BY <1>6 DEF FinishRun
  <2> HIDE DEF new
  <2>3. CalmCtl BY <2>1, <2>2, CalmController
  <2> QED BY <1>6, <2>3, Still DEF FinishRun, Calm
<1>7. CASE CtlExit(c)
  <2>1. FreeCtl \in CtlRec BY DEF CtlRec
  <2>2. CalmCtl BY <1>7, <2>1, CalmController DEF CtlExit
  <2> QED BY <1>7, <2>2, Still DEF CtlExit, Calm
<1> QED BY <1>1, <1>2, <1>3, <1>4, <1>5, <1>6, <1>7 DEF CtlStep

\* Crashes, restarts and the expiry of a lock nobody uses are calm.
LEMMA CalmReplica ==
  ASSUME IInv, ~LockMayExpire, NEW r \in Replicas, ReplicaStep(r)
  PROVE  Calm
<1>1. CASE LockExpire(r)
  <2>1. CalmSender BY <1>1 DEF LockExpire, CalmSender, IInv, LockInv, Chosen
  <2> QED BY <1>1, <2>1, Still DEF LockExpire, Calm
<1>2. CASE Crash(r)
  <2>1. CalmReq BY <1>2 DEF Crash, CalmReq, IInv, TypeOK, TouchInv
  <2>2. CalmCtl BY <1>2 DEF Crash, CalmCtl, IInv, TypeOK
  <2>3. sender'[r] = IdleSender /\ lock' = lock /\ \A q \in Replicas \ {r} : sender'[q] = sender[q]
    BY <1>2 DEF Crash, IInv, TypeOK
  <2>4. CalmSender BY <2>3, ProcessAssumption DEF CalmSender, IInv, LockInv, Chosen
  <2> QED BY <1>2, <2>1, <2>2, <2>4, Still DEF Crash, Calm
<1>3. CASE Restart(r)
  <2> DEFINE left == {t \in Tasks : doc[t].status \in InCompletedStatus /\ ~doc[t].deleted}
             new == [IdleReq EXCEPT !.pc = "loop", !.todo = left]
  <2>1. new \in ReqRec /\ new.pc = "loop" BY DEF ReqRec
  <2>2. req' = [req EXCEPT ![r] = new] BY <1>3 DEF Restart
  <2> HIDE DEF new
  <2>3. CalmReq BY <2>1, <2>2, CalmRequest
  <2> QED BY <1>3, <2>3, Still DEF Restart, Calm
<1>4. CASE BootDone(r)
  <2>1. IdleReq \in ReqRec BY DEF ReqRec
  <2>2. CalmReq BY <1>4, <2>1, CalmRequest DEF BootDone
  <2> QED BY <1>4, <2>2, Still DEF BootDone, Calm
<1> QED BY <1>1, <1>2, <1>3, <1>4 DEF ReplicaStep, BootStep

\* A new task is known to its request only.
LEMMA CreateKeeps ==
  ASSUME IInv, Typed', NEW h \in Handlers, NEW t \in Tasks, CreateTask(h, t)
  PROVE  IInv'
<1>u. UNCHANGED <<queue, lock, sender, ctl, resub>> BY DEF CreateTask
<1>1. TypeOK' /\ Shape' BY DEF Typed
<1>2. LockInv' /\ ChosenInv' /\ OwnedInv' /\ SingleController'
  BY <1>u DEF IInv, LockInv, ChosenInv, OwnedInv, SingleController, Chosen, Owned
<1>3. /\ req'[h].pc = "push" /\ req'[h].task = t
      /\ \A p \in Procs \ {h} : req'[p] = req[p]
  BY DEF CreateTask, IInv, TypeOK
<1>4. TouchInv' BY <1>3 DEF IInv, TouchInv
<1>5. /\ doc[t] = NoDoc /\ doc'[t] # NoDoc
      /\ \A u \in Tasks \ {t} : doc'[u] = doc[u]
  BY DEF CreateTask, IInv, TypeOK
<1>6. /\ queue[t] = Absent /\ ~Owned(t)
      /\ \A p \in Procs : ~Pushing(p, t)
      /\ \A r \in Replicas : ~Chosen(r, t)
  BY <1>5 DEF IInv, DocInv
<1>7. \A p \in Procs, u \in Tasks : Pushing(p, u)' => (p = h /\ u = t) \/ (p # h /\ Pushing(p, u))
  BY <1>3 DEF Pushing
<1>8. \A u \in Tasks : (Owned(u)' <=> Owned(u)) /\ \A r \in Replicas : Chosen(r, u)' <=> Chosen(r, u)
  BY <1>u DEF Owned, Chosen
<1>9. DocInv' BY <1>5, <1>7, <1>8, <1>u DEF IInv, DocInv
<1>10. PushInv' BY <1>6, <1>7, <1>8, <1>u DEF IInv, PushInv
<1> QED BY <1>1, <1>2, <1>4, <1>9, <1>10 DEF IInv

\* Push makes a fresh task wait before anything else knows it.
LEMMA PushKeeps ==
  ASSUME IInv, Typed', NEW h \in Handlers, Push(h)
  PROVE  IInv'
<1> DEFINE t == req[h].task
<1>u. UNCHANGED <<doc, lock, sender, ctl, resub>> BY DEF Push
<1>1. TypeOK' /\ Shape' BY DEF Typed
<1>2. LockInv' /\ SingleController' BY <1>u DEF IInv, LockInv, SingleController
<1>3. t \in Tasks /\ Pushing(h, t) BY DEF Push, IInv, Shape, Pushing
<1>4. /\ queue'[t] = queue[t] \/ queue'[t] = "waiting"
      /\ \A u \in Tasks \ {t} : queue'[u] = queue[u]
  BY <1>3 DEF Push, QueueCreate, IInv, TypeOK
<1>5. req'[h].pc = "idle" /\ \A p \in Procs \ {h} : req'[p] = req[p] BY DEF Push, IInv, TypeOK
<1>6. TouchInv' BY <1>5 DEF IInv, TouchInv
<1> HIDE DEF t
<1>7. \A p \in Procs, u \in Tasks : Pushing(p, u)' => p # h /\ Pushing(p, u)
  BY <1>5 DEF Pushing
<1>8. \A u \in Tasks : (Owned(u)' <=> Owned(u)) /\ \A r \in Replicas : Chosen(r, u)' <=> Chosen(r, u)
  BY <1>u DEF Owned, Chosen
<1>9. doc[t] # NoDoc BY <1>3 DEF IInv, DocInv
<1>10. DocInv' BY <1>4, <1>7, <1>8, <1>9, <1>u DEF IInv, DocInv
<1>11. t \notin resub => ~Owned(t) /\ (\A r \in Replicas : ~Chosen(r, t))
                         /\ \A p \in Procs : Pushing(p, t) => p = h
  BY <1>3 DEF IInv, PushInv
<1>12. PushInv' BY <1>4, <1>7, <1>8, <1>11, <1>u DEF IInv, PushInv
<1>13. ChosenInv' BY <1>4, <1>8, <1>11, <1>u DEF IInv, ChosenInv
<1>14. OwnedInv'
  <2> SUFFICES ASSUME NEW c \in Ctls, Alive(c), ctl[c].task \notin resub
               PROVE  queue'[ctl[c].task] # "waiting"
    BY <1>u DEF OwnedInv
  <2>1. ctl[c].task \in Tasks BY DEF IInv, Shape
  <2>2. ctl[c].task # t BY <1>11, <1>3 DEF Owned
  <2>3. queue'[ctl[c].task] = queue[ctl[c].task] BY <2>1, <2>2, <1>4
  <2> QED BY <2>3 DEF IInv, OwnedInv
<1> QED BY <1>1, <1>2, <1>6, <1>10, <1>12, <1>13, <1>14 DEF IInv

\* UpdateTask takes its task out of what the invariant speaks of.
LEMMA ResubmitKeeps ==
  ASSUME IInv, Typed', NEW h \in Handlers, ResubmitUpdate(h)
  PROVE  IInv'
<1> DEFINE t == req[h].task
<1>u. UNCHANGED <<queue, lock, sender, ctl>> /\ resub' = resub \cup {t} BY DEF ResubmitUpdate
<1>1. TypeOK' /\ Shape' BY DEF Typed
<1>2. t \in Tasks BY DEF ResubmitUpdate, IInv, Shape
<1>3. req[h] \in ReqRec BY DEF IInv, TypeOK
<1>4. req'[h].pc = "push" /\ req'[h].task = t
  BY <1>3 DEF ResubmitUpdate, IInv, TypeOK, ReqRec
<1>5. \A p \in Procs \ {h} : req'[p] = req[p] BY DEF ResubmitUpdate, IInv, TypeOK
<1>6. doc'[t] # NoDoc /\ \A u \in Tasks \ {t} : doc'[u] = doc[u]
  BY <1>2 DEF ResubmitUpdate, IInv, TypeOK
<1> HIDE DEF t
<1>7. LockInv' BY <1>u DEF IInv, LockInv
<1>8. TouchInv' BY <1>4, <1>5 DEF IInv, TouchInv
<1>9. \A p \in Procs, u \in Tasks : Pushing(p, u)' => u = t \/ Pushing(p, u)
  BY <1>4, <1>5 DEF Pushing
<1>10. \A u \in Tasks : (Owned(u)' <=> Owned(u)) /\ \A r \in Replicas : Chosen(r, u)' <=> Chosen(r, u)
  BY <1>u DEF Owned, Chosen
<1>11. DocInv' BY <1>6, <1>9, <1>10, <1>u DEF IInv, DocInv
<1>12. PushInv' BY <1>9, <1>10, <1>u DEF IInv, PushInv
<1>13. ChosenInv' BY <1>10, <1>u DEF IInv, ChosenInv
<1>14. OwnedInv' /\ SingleController' BY <1>u DEF IInv, OwnedInv, SingleController
<1> QED BY <1>1, <1>7, <1>8, <1>11, <1>12, <1>13, <1>14 DEF IInv

\* The sender enters its loop alone, and only when a slot is free.
LEMMA LockKeeps ==
  ASSUME IInv, Typed', NEW r \in Replicas, SenderLock(r)
  PROVE  IInv'
<1>u. UNCHANGED <<doc, queue, req, ctl, resub>> /\ lock = None /\ lock' = r BY DEF SenderLock
<1>1. TypeOK' /\ Shape' BY DEF Typed
<1>2. sender[r] \in SenderRec BY DEF IInv, TypeOK
<1>3. sender'[r].todo = sender[r].todo /\ sender'[r].pick = sender[r].pick
  BY <1>2 DEF SenderLock, IInv, TypeOK, SenderRec
<1>4. \A q \in Replicas \ {r} : sender'[q] = sender[q] /\ sender[q].pc = "idle"
  BY <1>u, ProcessAssumption DEF SenderLock, IInv, TypeOK, LockInv
<1>5. LockInv' BY <1>u, <1>4 DEF LockInv
<1>6. TouchInv' BY <1>u DEF IInv, TouchInv
<1>7. \A q \in Replicas, t \in Tasks : Chosen(q, t)' <=> Chosen(q, t) BY <1>3, <1>4 DEF Chosen
<1>8. DocInv' /\ PushInv' /\ ChosenInv'
  BY <1>7, <1>u DEF IInv, DocInv, PushInv, ChosenInv, Pushing, Owned
<1>9. OwnedInv' /\ SingleController' BY <1>u DEF IInv, OwnedInv, SingleController
<1> QED BY <1>1, <1>5, <1>6, <1>8, <1>9 DEF IInv

\* The sender lists tasks that wait, hence have no controller.
LEMMA ListKeeps ==
  ASSUME IInv, Typed', NEW r \in Replicas, SenderList(r)
  PROVE  IInv'
<1> DEFINE waiting == {t \in Tasks : queue[t] = "waiting"}
<1>u. UNCHANGED <<doc, queue, req, ctl, resub>> BY DEF SenderList
<1>1. CASE waiting = {}
  <2>1. CalmSender BY <1>1, CalmGiveUp DEF SenderList
  <2>2. Calm BY <1>u, <2>1, Still DEF Calm
  <2> QED BY <2>2, CalmPreserves
<1>2. CASE waiting # {}
  <2>1. TypeOK' /\ Shape' BY DEF Typed
  <2>2. sender[r] \in SenderRec /\ sender[r].pc = "list" /\ sender[r].pick = None
    BY DEF SenderList, IInv, TypeOK, Shape
  <2>3. sender'[r].todo = waiting /\ sender'[r].pick = None /\ lock' = lock
    <3>1. /\ sender' = [sender EXCEPT ![r] = [sender[r] EXCEPT !.pc = "scan", !.todo = waiting]]
          /\ lock' = lock
      BY <1>2 DEF SenderList
    <3>2. sender'[r] = [sender[r] EXCEPT !.pc = "scan", !.todo = waiting]
      BY <3>1 DEF IInv, TypeOK
    <3> HIDE DEF waiting
    <3> QED BY <3>1, <3>2, <2>2 DEF SenderRec
  <2>4. \A q \in Replicas \ {r} : sender'[q] = sender[q] BY <1>2 DEF SenderList, IInv, TypeOK
  <2>5. LockInv' BY <2>2, <2>3, <2>4 DEF IInv, LockInv
  <2>6. TouchInv' BY <1>u DEF IInv, TouchInv
  <2>7. \A q \in Replicas, t \in Tasks : Chosen(q, t)' => Chosen(q, t) \/ queue[t] = "waiting"
    BY <2>3, <2>4, ProcessAssumption DEF Chosen
  <2>8. \A t \in Tasks \ resub : queue[t] = "waiting" => ~Owned(t) BY DEF IInv, OwnedInv, Owned
  <2>9. DocInv' BY <2>7, <1>u DEF IInv, DocInv, Pushing, Owned
  <2>10. PushInv' BY <2>7, <1>u DEF IInv, PushInv, Pushing, Owned
  <2>11. ChosenInv' BY <2>7, <2>8, <1>u DEF IInv, ChosenInv, Owned
  <2>12. OwnedInv' /\ SingleController' BY <1>u DEF IInv, OwnedInv, SingleController
  <2> QED BY <2>1, <2>5, <2>6, <2>9, <2>10, <2>11, <2>12 DEF IInv
<1> QED BY <1>1, <1>2

\* The dispatch takes the slot the sender has found free.
LEMMA DispatchKeeps ==
  ASSUME IInv, Typed', NEW r \in Replicas, NEW c \in Ctls, SenderDispatch(r, c)
  PROVE  IInv'
<1> DEFINE t == sender[r].pick
<1>u. UNCHANGED <<doc, req, resub>> BY DEF SenderDispatch
<1>1. TypeOK' /\ Shape' BY DEF Typed
<1>2. t \in Tasks /\ Chosen(r, t) /\ sender[r].pc # "idle"
  BY DEF SenderDispatch, IInv, Shape, Chosen
<1>3. /\ queue'[t] \in {Absent, "queued"}
      /\ \A u \in Tasks \ {t} : queue'[u] = queue[u]
  BY <1>2 DEF SenderDispatch, QueueUpdate, IInv, TypeOK
<1>4. /\ ctl'[c].task = t /\ ctl'[c].pc # "free" /\ ctl[c].pc = "free"
      /\ \A d \in Ctls \ {c} : ctl'[d] = ctl[d]
  BY DEF SenderDispatch, IInv, TypeOK
<1>5. \A q \in Replicas : sender'[q].pc = "idle"
  <2>1. sender'[r].pc = "idle" /\ \A q \in Replicas \ {r} : sender'[q] = sender[q]
    BY DEF SenderDispatch, IInv, TypeOK
  <2> QED BY <1>2, <2>1 DEF IInv, LockInv
<1> HIDE DEF t
<1>6. \A q \in Replicas, u \in Tasks : ~Chosen(q, u)'
  BY <1>1, <1>5, ProcessAssumption DEF Shape, Chosen
<1>7. \A u \in Tasks : Owned(u)' => u = t \/ Owned(u) BY <1>4 DEF Owned
<1>8. LockInv' /\ ChosenInv' BY <1>5, <1>6 DEF LockInv, ChosenInv
<1>9. TouchInv' BY <1>u DEF IInv, TouchInv
<1>10. doc[t] # NoDoc BY <1>2 DEF IInv, DocInv
<1>11. DocInv' BY <1>3, <1>6, <1>7, <1>10, <1>u DEF IInv, DocInv, Pushing
<1>12. PushInv'
  <2>1. \A p \in Procs, u \in Tasks \ resub : Pushing(p, u) => u # t BY <1>2 DEF IInv, PushInv
  <2> QED BY <2>1, <1>3, <1>6, <1>7, <1>u DEF IInv, PushInv, Pushing
<1>13. t \notin resub => queue[t] \in {"waiting", Absent} /\ ~Owned(t)
  BY <1>2 DEF IInv, ChosenInv
<1>14. OwnedInv'
  <2> SUFFICES ASSUME NEW d \in Ctls, ctl'[d].pc # "free", ctl'[d].task \notin resub
               PROVE  queue'[ctl'[d].task] # "waiting"
    BY <1>u DEF OwnedInv
  <2>1. CASE d = c BY <2>1, <1>3, <1>4
  <2>2. CASE d # c
    <3>1. ctl'[d] = ctl[d] BY <2>2, <1>4
    <3>2. ctl[d].task \in Tasks BY <3>1 DEF IInv, Shape
    <3>3. ctl[d].task # t BY <3>1, <1>13, <1>2 DEF Owned
    <3>4. queue'[ctl[d].task] = queue[ctl[d].task] BY <3>2, <3>3, <1>3
    <3> QED BY <3>1, <3>4 DEF IInv, OwnedInv
  <2> QED BY <2>1, <2>2
<1>15. SingleController'
  <2> SUFFICES ASSUME NEW d \in Ctls, NEW e \in Ctls, ctl'[d].pc # "free", ctl'[e].pc # "free",
                      ctl'[d].task = ctl'[e].task, ctl'[d].task \notin resub
               PROVE  d = e
    BY <1>u DEF SingleController
  <2>1. ASSUME NEW f \in Ctls, f # c, ctl'[f].pc # "free", ctl'[f].task \notin resub
        PROVE  ctl'[f].task # t
    BY <2>1, <1>4, <1>13 DEF Owned
  <2>2. CASE d = c BY <2>1, <2>2, <1>4
  <2>3. CASE e = c BY <2>1, <2>3, <1>4
  <2>4. CASE d # c /\ e # c BY <2>4, <1>4 DEF IInv, SingleController
  <2> QED BY <2>2, <2>3, <2>4
<1> QED BY <1>1, <1>8, <1>9, <1>11, <1>12, <1>14, <1>15 DEF IInv

\* UpdateQueue of an ack: only the one controller of a fresh task writes its entry.
LEMMA AckQueueKeeps ==
  ASSUME IInv, Typed', NEW c \in Ctls, NEW th \in Threads, AckQueue(c, th)
  PROVE  IInv'
<1> DEFINE t == ctl[c].task
<1>u. UNCHANGED <<doc, lock, sender, req, ctl, resub>> BY DEF AckQueue
<1>1. TypeOK' /\ Shape' BY DEF Typed
<1>2. ctl[c].pc # "free" /\ t \in Tasks BY DEF AckQueue, IInv, Shape
<1>3. ctl[c].status \in EndStatus \cup {"running"} BY DEF IInv, TypeOK, CtlRec
<1>4. /\ queue'[t] = IF queue[t] = Absent THEN Absent ELSE ctl[c].status
      /\ \A u \in Tasks \ {t} : queue'[u] = queue[u]
  BY <1>2 DEF AckQueue, QueueUpdate, IInv, TypeOK
<1>5. Owned(t) BY <1>2 DEF Owned
<1>7. \A d \in Ctls : ctl[d].pc # "free" /\ ctl[d].task = t /\ t \notin resub => d = c
  BY <1>2 DEF IInv, SingleController
<1> HIDE DEF t
<1>8. LockInv' /\ TouchInv' /\ SingleController'
  BY <1>u DEF IInv, LockInv, TouchInv, SingleController
<1>9. doc[t] # NoDoc BY <1>2, <1>5 DEF IInv, DocInv
<1>10. DocInv' BY <1>4, <1>9, <1>u DEF IInv, DocInv, Pushing, Chosen, Owned
<1>11. PushInv'
  <2>1. \A p \in Procs, u \in Tasks \ resub : Pushing(p, u) => u # t BY <1>5 DEF IInv, PushInv
  <2> QED BY <2>1, <1>4, <1>u DEF IInv, PushInv, Pushing, Chosen, Owned
<1>12. ChosenInv'
  <2>1. \A r \in Replicas, u \in Tasks \ resub : Chosen(r, u) => u # t BY <1>5 DEF IInv, ChosenInv
  <2> QED BY <2>1, <1>4, <1>u DEF IInv, ChosenInv, Chosen, Owned
<1>13. OwnedInv'
  <2> SUFFICES ASSUME NEW d \in Ctls, ctl[d].pc # "free", ctl[d].task \notin resub
               PROVE  queue'[ctl[d].task] # "waiting"
    BY <1>u DEF OwnedInv
  <2>1. ctl[d].task \in Tasks BY DEF IInv, Shape
  <2>2. CASE ctl[d].task = t BY <2>2, <1>3, <1>4, <1>7
  <2>3. CASE ctl[d].task # t BY <2>1, <2>3, <1>4 DEF IInv, OwnedInv
  <2> QED BY <2>2, <2>3
<1> QED BY <1>1, <1>8, <1>10, <1>11, <1>12, <1>13 DEF IInv

\* In the initial state the queue is empty and nobody works.
LEMMA IInvInit == Init => IInv
<1> SUFFICES ASSUME Init PROVE IInv OBVIOUS
<1>1. TypeOK /\ Shape BY TypedInit DEF Typed
<1>2. LockInv /\ TouchInv /\ OwnedInv /\ SingleController
  BY DEF Init, LockInv, TouchInv, OwnedInv, SingleController
<1>3. DocInv /\ PushInv /\ ChosenInv
  BY ProcessAssumption DEF Init, DocInv, PushInv, ChosenInv, Pushing, Chosen, Owned
<1> QED BY <1>1, <1>2, <1>3 DEF IInv

\* Every step preserves the inductive invariant.
LEMMA IInvNext ==
  ASSUME ~LockMayExpire, IInv, [Next]_vars
  PROVE  IInv'
<1>t. Typed' BY TypedNext DEF IInv, Typed
<1>1. ASSUME NEW h \in Handlers, HandlerStep(h) PROVE IInv'
  BY <1>1, <1>t, CalmHandler, CalmPreserves, CreateKeeps
<1>2. ASSUME NEW h \in Handlers, RequestStep(h) PROVE IInv'
  BY <1>2, <1>t, CalmRequestStep, CalmPreserves, PushKeeps, ResubmitKeeps
<1>3. ASSUME NEW p \in Procs, CancelStep(p) PROVE IInv'
  BY <1>3, <1>t, CalmCancel, CalmPreserves
<1>4. ASSUME NEW w \in Workflows, DeleteTestModule(w) PROVE IInv'
  <2>1. Calm BY <1>4, Still DEF DeleteTestModule, Calm
  <2> QED BY <2>1, <1>t, CalmPreserves
<1>5. ASSUME NEW r \in Replicas, SenderStep(r) PROVE IInv'
  BY <1>5, <1>t, CalmSenderStep, CalmPreserves, LockKeeps, ListKeeps, DispatchKeeps
<1>6. ASSUME NEW r \in Replicas, ReplicaStep(r) PROVE IInv'
  BY <1>6, <1>t, CalmReplica, CalmPreserves
<1>7. ASSUME NEW c \in Ctls, CtlStep(c) PROVE IInv'
  BY <1>7, <1>t, CalmCtlStep, CalmPreserves
<1>8. ASSUME NEW c \in Ctls, NEW th \in Threads, AckStep(c, th) PROVE IInv'
  BY <1>8, <1>t, CalmAck, CalmPreserves, AckQueueKeeps
<1>9. CASE UNCHANGED vars
  <2>1. Calm BY <1>9, Still DEF vars, Calm
  <2> QED BY <2>1, <1>t, CalmPreserves
<1> QED BY <1>1, <1>2, <1>3, <1>4, <1>5, <1>6, <1>7, <1>8, <1>9 DEF Next

\* As long as the redis lock outlives the round of the sender that took it,
\* updateQueueAndRunTask never has two controllers at work on one task, unless the task
\* was retried or manually executed: for any number of replicas, tasks, requests,
\* deletions and crashes.
THEOREM OneController ==
  ASSUME ~LockMayExpire
  PROVE  Spec => []SingleController
<1>1. Init => IInv BY IInvInit
<1>2. IInv /\ [Next]_vars => IInv' BY IInvNext
<1>3. IInv => SingleController BY DEF IInv
<1> QED BY <1>1, <1>2, <1>3, PTL DEF Spec

-----------------------------------------------------------------------------
(* The slot bound.  A run that ends with status running would take a slot   *)
(* back if a debug event's ack had taken its entry out of the count, so     *)
(* either there are no such acks or no such ends.                           *)

Decisive == ~SideAcks \/ "running" \notin Outcomes

\* Steps that give no slot away, let no sender in and leave the controllers alone.
SlotCalm ==
  /\ \A t \in Tasks : queue'[t] \in {queue[t], Absent, "waiting"}
  /\ resub \subseteq resub'
  /\ \A r \in Replicas : sender'[r].pc # "idle" => sender[r].pc # "idle"
  /\ \A c \in Ctls :
       \/ ctl'[c].pc = "free" /\ ack'[<<c, "side">>].pc = "none"
       \/ /\ ctl'[c].pc = ctl[c].pc /\ ctl'[c].task = ctl[c].task
          /\ ctl'[c].status = ctl[c].status
          /\ \A th \in Threads : ack'[<<c, th>>].pc = ack[<<c, th>>].pc

\* When no slot is taken the count stays within the bound.
LEMMA FewerSlots ==
  ASSUME SInv, Occupied' \ resub' \subseteq Occupied \ resub,
         \A r \in Replicas : sender'[r].pc # "idle" => sender[r].pc # "idle"
  PROVE  SlotInv' /\ RunningBound'
<1>1. SlotInv'
  <2> SUFFICES ASSUME NEW r \in Replicas, sender'[r].pc # "idle"
               PROVE  Cardinality(Occupied' \ resub') < WorkflowConcurrency
    BY DEF SlotInv
  <2>1. Cardinality(Occupied \ resub) < WorkflowConcurrency BY DEF SInv, SlotInv
  <2> QED BY <2>1, FewerOccupied, OccupiedFinite, ConcurrencyAssumption
<1>2. RunningBound'
  BY FewerOccupied, OccupiedFinite, ConcurrencyAssumption DEF SInv, RunningBound
<1> QED BY <1>1, <1>2

\* Such steps keep the slots.
LEMMA SlotCalmKeeps ==
  ASSUME IInv, IInv', SInv, SlotCalm
  PROVE  SInv'
<1>1. ASSUME NEW c \in Ctls, ctl'[c].pc # "free", ctl'[c].task \notin resub', KeepsSlot(c)
      PROVE  KeepsSlot(c)'
  <2>1. ctl'[c].task = ctl[c].task BY <1>1 DEF SlotCalm
  <2>2. ctl'[c].task \in Tasks BY <1>1 DEF IInv, Shape
  <2>3. queue'[ctl'[c].task] # "waiting" BY <1>1 DEF IInv, OwnedInv
  <2> QED BY <1>1, <2>1, <2>2, <2>3 DEF SlotCalm, KeepsSlot
<1>2. RunInv' BY <1>1 DEF SlotCalm, SInv, RunInv
<1>3. BusyInv'
  <2> SUFFICES ASSUME ~SideAcks, NEW c \in Ctls
               PROVE  /\ ack'[<<c, "side">>].pc = "none"
                      /\ ctl'[c].pc \in {"subscribe", "run"} =>
                           /\ ctl'[c].status \in {"running", "cancelled"}
                           /\ ctl'[c].task \notin resub' /\ ack'[<<c, "main">>].pc \notin {"save", "finish"}
                                => KeepsSlot(c)'
    BY DEF BusyInv, Quiet
  <2>1. CASE ctl'[c].pc = "free" /\ ack'[<<c, "side">>].pc = "none" BY <2>1
  <2>2. CASE /\ ctl'[c].pc = ctl[c].pc /\ ctl'[c].task = ctl[c].task
             /\ ctl'[c].status = ctl[c].status
             /\ \A th \in Threads : ack'[<<c, th>>].pc = ack[<<c, th>>].pc
    BY <2>2, <1>1 DEF SlotCalm, SInv, BusyInv, Quiet
  <2> QED BY <2>1, <2>2 DEF SlotCalm
<1>4. Occupied' \ resub' \subseteq Occupied \ resub BY DEF SlotCalm, Occupied
<1>5. SlotInv' /\ RunningBound' BY <1>4, FewerSlots DEF SlotCalm
<1> QED BY <1>2, <1>3, <1>5 DEF SInv

\* Requests and cancellations do.
LEMMA SlotRequests ==
  ASSUME IInv, NEW p \in Procs,
         \/ p \in Handlers /\ (HandlerStep(p) \/ RequestStep(p))
         \/ CancelStep(p)
  PROVE  SlotCalm
<1>1. CASE UNCHANGED <<queue, sender, ctl, ack>> /\ resub \subseteq resub'
  BY <1>1 DEF SlotCalm
<1>2. CASE p \in Handlers /\ HandlerStep(p)
  BY <1>1, <1>2 DEF HandlerStep, CreateTask, CancelFind, TouchFind, RetryWorkflowTaskV4,
                    ManualExecWorkflowTaskV4, Resubmit, DeleteWorkflowV4
<1>3. CASE p \in Handlers /\ RequestStep(p)
  <2>1. CASE Push(p)
    BY <2>1 DEF Push, QueueCreate, SlotCalm, IInv, TypeOK
  <2>2. CASE ResubmitUpdate(p) \/ TouchUpdate(p) \/ DeleteByID(p) \/ DeleteByWorkflowName(p)
    BY <1>1, <2>2 DEF ResubmitUpdate, TouchUpdate, DeleteByID, DeleteByWorkflowName
  <2> QED BY <1>3, <2>1, <2>2 DEF RequestStep
<1>4. CASE CancelStep(p)
  <2>1. CASE CancelRemove(p)
    BY <2>1 DEF CancelRemove, QueueDelete, SlotCalm, IInv, TypeOK
  <2>2. CASE CancelPublish(p)
    <3>1. \A c \in Ctls : ctl'[c] = ctl[c] \/ ctl'[c] = [ctl[c] EXCEPT !.sig = TRUE]
      BY <2>2 DEF CancelPublish
    <3>2. \A c \in Ctls : /\ ctl'[c].pc = ctl[c].pc /\ ctl'[c].task = ctl[c].task
                          /\ ctl'[c].status = ctl[c].status
      <4>1. \A c \in Ctls : ctl[c] \in CtlRec BY DEF IInv, TypeOK
      <4> QED BY <3>1, <4>1 DEF CtlRec
    <3> QED BY <2>2, <3>2 DEF CancelPublish, SlotCalm
  <2>3. CASE CancelUpdate(p) \/ \E t \in Tasks : CancelNext(p, t)
    BY <1>1, <2>3 DEF CancelUpdate, CancelNext
  <2> QED BY <1>4, <2>1, <2>2, <2>3 DEF CancelStep
<1> QED BY <1>2, <1>3, <1>4

\* So do crashes, restarts and the expiry of the lock.
LEMMA SlotReplica ==
  ASSUME IInv, NEW r \in Replicas, ReplicaStep(r)
  PROVE  SlotCalm
<1>1. CASE Crash(r)
  <2>1. \A q \in Replicas : sender'[q].pc # "idle" => sender[q].pc # "idle"
    BY <1>1 DEF Crash, IInv, TypeOK
  <2>2. ASSUME NEW c \in Ctls
        PROVE  \/ ctl'[c].pc = "free" /\ ack'[<<c, "side">>].pc = "none"
               \/ /\ ctl'[c].pc = ctl[c].pc /\ ctl'[c].task = ctl[c].task
                  /\ ctl'[c].status = ctl[c].status
                  /\ \A th \in Threads : ack'[<<c, th>>].pc = ack[<<c, th>>].pc
    BY <1>1 DEF Crash, IInv, TypeOK
  <2> QED BY <1>1, <2>1, <2>2 DEF Crash, SlotCalm
<1>2. CASE LockExpire(r) \/ BootStep(r)
  BY <1>2 DEF LockExpire, BootStep, Restart, BootDone, SlotCalm
<1> QED BY <1>1, <1>2 DEF ReplicaStep

\* The sender takes a slot it has counted free.
LEMMA SlotSender ==
  ASSUME IInv, IInv', SInv, NEW r \in Replicas, SenderStep(r)
  PROVE  SInv'
<1>s. sender[r] \in SenderRec BY DEF IInv, TypeOK
<1>1. CASE SenderLock(r)
  <2>u. UNCHANGED <<queue, ctl, ack, resub>> BY <1>1 DEF SenderLock
  <2>1. RunInv' /\ BusyInv' /\ RunningBound'
    BY <2>u DEF SInv, RunInv, BusyInv, RunningBound, KeepsSlot, Quiet, Occupied
  <2>2. Cardinality(Occupied) < WorkflowConcurrency BY <1>1 DEF SenderLock, hasAgentAvaiable
  <2>3. Cardinality(Occupied \ resub) < WorkflowConcurrency
    BY <2>2, OccupiedFinite, ConcurrencyAssumption
  <2>4. SlotInv' BY <2>3, <2>u DEF SlotInv, Occupied
  <2> QED BY <2>1, <2>4 DEF SInv
<1>2. CASE SenderList(r) \/ SenderGiveUp(r) \/ SenderFind(r)
  <2>1. \A q \in Replicas : sender'[q].pc # "idle" => sender[q].pc # "idle"
    BY <1>2 DEF SenderList, SenderGiveUp, SenderFind, IInv, TypeOK
  <2>2. UNCHANGED <<queue, ctl, ack, resub>> BY <1>2 DEF SenderList, SenderGiveUp, SenderFind
  <2>3. SlotCalm BY <2>1, <2>2 DEF SlotCalm
  <2> QED BY <2>3, SlotCalmKeeps
<1>3. ASSUME NEW t \in Tasks, SenderScan(r, t) PROVE SInv'
  <2>1. \A q \in Replicas : sender'[q].pc # "idle" => sender[q].pc # "idle"
    BY <1>3 DEF SenderScan, IInv, TypeOK
  <2>2. UNCHANGED <<ctl, ack, resub>> /\ \A u \in Tasks : queue'[u] \in {queue[u], Absent}
    BY <1>3 DEF SenderScan, QueueDelete, IInv, TypeOK
  <2>3. SlotCalm BY <2>1, <2>2 DEF SlotCalm
  <2> QED BY <2>3, SlotCalmKeeps
<1>4. ASSUME NEW c \in Ctls, SenderDispatch(r, c) PROVE SInv'
  <2> DEFINE t == sender[r].pick
  <2>u. UNCHANGED resub BY <1>4 DEF SenderDispatch
  <2>1. t \in Tasks /\ Chosen(r, t) /\ sender[r].pc # "idle"
    BY <1>4 DEF SenderDispatch, IInv, Shape, Chosen
  <2>2. /\ queue'[t] \in {Absent, "queued"}
        /\ \A u \in Tasks \ {t} : queue'[u] = queue[u]
    BY <1>4, <2>1 DEF SenderDispatch, QueueUpdate, IInv, TypeOK
  <2>3. /\ ctl'[c].task = t /\ ctl'[c].status = "running" /\ ctl[c].pc = "free"
        /\ \A d \in Ctls \ {c} : ctl'[d] = ctl[d]
    BY <1>4 DEF SenderDispatch, IInv, TypeOK
  <2>4. \A a \in Ctls \X Threads : a # <<c, "main">> => ack'[a] = ack[a]
    BY <1>4 DEF SenderDispatch, IInv, TypeOK
  <2>5. \A q \in Replicas : sender'[q].pc = "idle"
    <3>1. sender'[r].pc = "idle" /\ \A q \in Replicas \ {r} : sender'[q] = sender[q]
      BY <1>4 DEF SenderDispatch, IInv, TypeOK
    <3> QED BY <2>1, <3>1 DEF IInv, LockInv
  <2>6. t \notin resub => ~Owned(t) BY <2>1 DEF IInv, ChosenInv
  <2> HIDE DEF t
  <2>7. KeepsSlot(c)' BY <2>2, <2>3 DEF KeepsSlot
  <2>8. ASSUME NEW d \in Ctls \ {c}, ctl[d].pc # "free", ctl[d].task \notin resub, KeepsSlot(d)
        PROVE  KeepsSlot(d)'
    <3>1. ctl[d].task \in Tasks /\ ctl[d].task # t BY <2>8, <2>6 DEF IInv, Shape, Owned
    <3> QED BY <3>1, <2>2, <2>3, <2>8 DEF KeepsSlot
  <2>9. RunInv'
    <3> SUFFICES ASSUME NEW d \in Ctls, ctl'[d].pc # "free", ctl'[d].task \notin resub',
                        ctl'[d].status = "running"
                 PROVE  KeepsSlot(d)'
      BY DEF RunInv
    <3>1. CASE d = c BY <3>1, <2>7
    <3>2. CASE d # c BY <3>2, <2>3, <2>8, <2>u DEF SInv, RunInv
    <3> QED BY <3>1, <3>2
  <2>10. BusyInv'
    <3> SUFFICES ASSUME ~SideAcks, NEW d \in Ctls
                 PROVE  /\ ack'[<<d, "side">>].pc = "none"
                        /\ ctl'[d].pc \in {"subscribe", "run"} =>
                             /\ ctl'[d].status \in {"running", "cancelled"}
                             /\ ctl'[d].task \notin resub' /\ ack'[<<d, "main">>].pc \notin {"save", "finish"}
                                  => KeepsSlot(d)'
      BY DEF BusyInv, Quiet
    <3>1. ack'[<<d, "side">>].pc = "none" BY <2>4 DEF SInv, BusyInv, Quiet
    <3>2. CASE d = c BY <3>1, <3>2, <2>3, <2>7
    <3>3. CASE d # c
      <4>1. ctl'[d] = ctl[d] /\ ack'[<<d, "main">>] = ack[<<d, "main">>] BY <3>3, <2>3, <2>4
      <4>2. ctl[d].pc \in {"subscribe", "run"} =>
              /\ ctl[d].status \in {"running", "cancelled"}
              /\ ctl[d].task \notin resub /\ ack[<<d, "main">>].pc \notin {"save", "finish"}
                   => KeepsSlot(d)
        BY DEF SInv, BusyInv
      <4> QED BY <3>1, <3>3, <4>1, <4>2, <2>8, <2>u
    <3> QED BY <3>2, <3>3
  <2>11. SlotInv' BY <2>5 DEF SlotInv
  <2>12. RunningBound'
    <3> DEFINE S == Occupied \ resub
               S2 == Occupied' \ resub'
    <3>1. Cardinality(S) < WorkflowConcurrency BY <2>1 DEF SInv, SlotInv
    <3>2. IsFiniteSet(S) /\ Cardinality(S) \in Nat BY OccupiedFinite
    <3>3. IsFiniteSet(S \cup {t}) /\ Cardinality(S \cup {t}) \in {Cardinality(S), Cardinality(S) + 1}
      BY <3>2, FS_AddElement
    <3>4. S2 \subseteq S \cup {t} BY <2>2, <2>u DEF Occupied
    <3> HIDE DEF S, S2
    <3>5. IsFiniteSet(S2) /\ Cardinality(S2) <= Cardinality(S \cup {t}) BY <3>3, <3>4, FS_Subset
    <3>6. Cardinality(S2) \in Nat BY <3>5, FS_CardinalityType
    <3>7. Cardinality(S2) <= WorkflowConcurrency
      BY <3>1, <3>2, <3>3, <3>5, <3>6, ConcurrencyAssumption
    <3> QED BY <3>7 DEF RunningBound, S2
  <2> QED BY <2>9, <2>10, <2>11, <2>12 DEF SInv
<1> QED BY <1>1, <1>2, <1>3, <1>4 DEF SenderStep

\* A step of a controller that leaves the queue alone keeps the slots when what it says
\* of its own run does.
LEMMA SlotOwn ==
  ASSUME SInv, NEW c \in Ctls, UNCHANGED <<queue, sender, resub>>,
         \A d \in Ctls \ {c} :
           ctl'[d] = ctl[d] /\ \A th \in Threads : ack'[<<d, th>>] = ack[<<d, th>>],
         ctl'[c].pc # "free" /\ ctl'[c].task \notin resub /\ ctl'[c].status = "running"
           => KeepsSlot(c)',
         SideAcks \/
           /\ ack'[<<c, "side">>].pc = "none"
           /\ ctl'[c].pc \in {"subscribe", "run"} =>
                /\ ctl'[c].status \in {"running", "cancelled"}
                /\ ctl'[c].task \notin resub /\ ack'[<<c, "main">>].pc \notin {"save", "finish"}
                     => KeepsSlot(c)'
  PROVE  SInv'
<1>1. \A d \in Ctls \ {c} : KeepsSlot(d)' <=> KeepsSlot(d) BY DEF KeepsSlot
<1>2. RunInv' BY <1>1 DEF SInv, RunInv
<1>3. BusyInv'
  <2> SUFFICES ASSUME ~SideAcks, NEW d \in Ctls
               PROVE  /\ ack'[<<d, "side">>].pc = "none"
                      /\ ctl'[d].pc \in {"subscribe", "run"} =>
                           /\ ctl'[d].status \in {"running", "cancelled"}
                           /\ ctl'[d].task \notin resub' /\ ack'[<<d, "main">>].pc \notin {"save", "finish"}
                                => KeepsSlot(d)'
    BY DEF BusyInv, Quiet
  <2>1. CASE d = c BY <2>1
  <2>2. CASE d # c BY <2>2, <1>1 DEF SInv, BusyInv, Quiet
  <2> QED BY <2>1, <2>2
<1>4. SlotInv' /\ RunningBound' BY DEF SInv, SlotInv, RunningBound, Occupied
<1> QED BY <1>2, <1>3, <1>4 DEF SInv

\* A controller takes no slot: when its stages end with status running, its entry has
\* kept the slot it had.
LEMMA SlotCtl ==
  ASSUME Decisive, IInv, SInv, NEW c \in Ctls, CtlStep(c)
  PROVE  SInv'
<1>c. ctl[c] \in CtlRec BY DEF IInv, TypeOK
<1>u. UNCHANGED <<queue, sender, resub>>
  BY DEF CtlStep, Subscribe, StageAck, DebugEvent, ReceiveCancel, FinishStages, FinishRun, CtlExit
<1>o. \A d \in Ctls \ {c} :
        ctl'[d] = ctl[d] /\ \A th \in Threads : ack'[<<d, th>>] = ack[<<d, th>>]
  BY DEF CtlStep, Subscribe, StageAck, DebugEvent, ReceiveCancel, FinishStages, FinishRun, CtlExit,
         IInv, TypeOK
<1>r. ctl[c].pc # "free" /\ ctl[c].task \notin resub /\ ctl[c].status = "running" => KeepsSlot(c)
  BY DEF SInv, RunInv
<1>b. SideAcks \/
        /\ ack[<<c, "side">>].pc = "none"
        /\ ctl[c].pc \in {"subscribe", "run"} =>
             /\ ctl[c].status \in {"running", "cancelled"}
             /\ ctl[c].task \notin resub /\ ack[<<c, "main">>].pc \notin {"save", "finish"}
                  => KeepsSlot(c)
  BY DEF SInv, BusyInv, Quiet
<1>k. ctl'[c].task = ctl[c].task => (KeepsSlot(c)' <=> KeepsSlot(c)) BY <1>u DEF KeepsSlot
<1>1. CASE Subscribe(c)
  <2>1. /\ ctl[c].pc = "subscribe" /\ ctl'[c].task = ctl[c].task
        /\ ctl'[c].status = ctl[c].status /\ ack' = ack
    BY <1>1, <1>c DEF Subscribe, IInv, TypeOK, CtlRec
  <2> QED BY <1>u, <1>o, <1>r, <1>b, <1>k, <2>1, SlotOwn
<1>2. CASE StageAck(c)
  <2>1. /\ ctl' = ctl /\ ack[<<c, "main">>].pc = "none" /\ ack'[<<c, "side">>] = ack[<<c, "side">>]
    BY <1>2 DEF StageAck, Quiet, IInv, TypeOK
  <2> QED BY <1>u, <1>o, <1>r, <1>b, <1>k, <2>1, SlotOwn
<1>3. CASE DebugEvent(c)
  <2>1. ctl' = ctl /\ SideAcks BY <1>3 DEF DebugEvent
  <2> QED BY <1>u, <1>o, <1>r, <1>k, <2>1, SlotOwn
<1>4. CASE ReceiveCancel(c)
  <2>1. /\ ctl'[c].pc = ctl[c].pc /\ ctl'[c].task = ctl[c].task
        /\ ctl'[c].status = ctl[c].status /\ ack' = ack
    BY <1>4, <1>c DEF ReceiveCancel, IInv, TypeOK, CtlRec
  <2> QED BY <1>u, <1>o, <1>r, <1>b, <1>k, <2>1, SlotOwn
<1>5. ASSUME NEW o \in Outcomes, FinishStages(c, o) PROVE SInv'
  <2>1. /\ ctl[c].pc = "run" /\ ack[<<c, "main">>].pc = "none" /\ ack' = ack
        /\ ctl'[c].pc = "clean" /\ ctl'[c].task = ctl[c].task /\ ctl'[c].status = o
    BY <1>5, <1>c DEF FinishStages, Quiet, IInv, TypeOK, CtlRec
  <2>2. o = "running" /\ ctl[c].task \notin resub => KeepsSlot(c)
    BY <1>b, <2>1 DEF Decisive
  <2> QED BY <1>u, <1>o, <1>b, <1>k, <2>1, <2>2, SlotOwn
<1>6. CASE FinishRun(c)
  <2>1. /\ ctl[c].pc = "clean" /\ ack'[<<c, "side">>] = ack[<<c, "side">>]
        /\ ctl'[c].pc = "end" /\ ctl'[c].task = ctl[c].task /\ ctl'[c].status = ctl[c].status
    BY <1>6, <1>c DEF FinishRun, IInv, TypeOK, CtlRec
  <2> QED BY <1>u, <1>o, <1>r, <1>b, <1>k, <2>1, SlotOwn
<1>7. CASE CtlExit(c)
  <2>1. ack' = ack /\ ctl'[c].pc = "free" BY <1>7 DEF CtlExit, IInv, TypeOK
  <2> QED BY <1>u, <1>o, <1>b, <2>1, SlotOwn
<1> QED BY <1>1, <1>2, <1>3, <1>4, <1>5, <1>6, <1>7 DEF CtlStep

\* An ack takes no slot: it writes running only over an entry that has one.
LEMMA SlotAck ==
  ASSUME IInv, IInv', SInv, NEW c \in Ctls, NEW th \in Threads, AckStep(c, th)
  PROVE  SInv'
<1> DEFINE t == ctl[c].task
<1>c. ctl[c] \in CtlRec BY DEF IInv, TypeOK
<1>a. ctl[c].pc # "free" /\ t \in Tasks /\ ack[<<c, th>>].pc # "none"
  BY DEF AckStep, AckFind, AckQueue, AckSave, AckFinish, IInv, Shape
<1>d. \A d \in Ctls \ {c} :
        ctl'[d] = ctl[d] /\ \A h \in Threads : ack'[<<d, h>>] = ack[<<d, h>>]
  BY DEF AckStep, AckFind, AckQueue, AckSave, AckFinish, IInv, TypeOK
<1>m. SideAcks \/ th = "main" BY <1>a DEF SInv, BusyInv, Quiet
<1>s. \A h \in Threads : h # th => ack'[<<c, h>>] = ack[<<c, h>>]
  BY DEF AckStep, AckFind, AckQueue, AckSave, AckFinish, IInv, TypeOK
<1>r. t \notin resub /\ ctl[c].status = "running" => KeepsSlot(c) BY <1>a DEF SInv, RunInv
<1>b. SideAcks \/
        /\ ack[<<c, "side">>].pc = "none"
        /\ ctl[c].pc \in {"subscribe", "run"} =>
             /\ ctl[c].status \in {"running", "cancelled"}
             /\ t \notin resub /\ ack[<<c, "main">>].pc \notin {"save", "finish"} => KeepsSlot(c)
  BY DEF SInv, BusyInv, Quiet
<1>g. SideAcks \/ ack'[<<c, "side">>].pc = "none" BY <1>b, <1>m, <1>s
<1>1. CASE AckFind(c, th)
  <2>1. UNCHANGED <<queue, sender, resub>> BY <1>1 DEF AckFind
  <2>2. /\ ctl'[c].pc = ctl[c].pc /\ ctl'[c].task = t
        /\ ctl'[c].status \in {ctl[c].status, "cancelled"}
    BY <1>1, <1>c DEF AckFind, IInv, TypeOK, CtlRec
  <2>3. ack[<<c, th>>].pc = "find" BY <1>1 DEF AckFind
  <2>4. KeepsSlot(c)' <=> KeepsSlot(c) BY <2>1, <2>2 DEF KeepsSlot
  <2>5. SideAcks \/ ack[<<c, "main">>].pc = "find" BY <2>3, <1>m
  <2> QED BY <1>d, <1>r, <1>b, <1>g, <2>1, <2>2, <2>4, <2>5, SlotOwn
<1>2. CASE AckSave(c, th)
  <2>1. UNCHANGED <<queue, sender, resub>> /\ ctl' = ctl BY <1>2 DEF AckSave
  <2>2. KeepsSlot(c)' <=> KeepsSlot(c) BY <2>1 DEF KeepsSlot
  <2>3. SideAcks \/ ack'[<<c, "main">>].pc = "finish" \/ ctl[c].status \notin DoneStatus
    BY <1>2, <1>m DEF AckSave, IInv, TypeOK, AckRec
  <2>4. ctl[c].status = "cancelled" => ctl[c].status \in DoneStatus BY DEF DoneStatus
  <2> QED BY <1>d, <1>r, <1>b, <1>g, <2>1, <2>2, <2>3, <2>4, SlotOwn
<1>3. CASE AckQueue(c, th) \/ AckFinish(c, th)
  <2>1. UNCHANGED <<sender, ctl, resub>> BY <1>3 DEF AckQueue, AckFinish
  <2>2. /\ queue'[t] \in {Absent, ctl[c].status}
        /\ queue[t] = Absent => queue'[t] = Absent
        /\ \A u \in Tasks \ {t} : queue'[u] = queue[u]
    BY <1>3, <1>a DEF AckQueue, AckFinish, QueueUpdate, QueueDelete, IInv, TypeOK
  <2>3. AckFinish(c, th) => queue'[t] = Absent
    BY <1>a DEF AckFinish, QueueDelete, IInv, TypeOK
  <2>4. AckQueue(c, th) => ack'[<<c, th>>].pc = "save"
    <3>1. ack[<<c, th>>] \in AckRec BY DEF IInv, TypeOK
    <3> QED BY <3>1 DEF AckQueue, IInv, TypeOK, AckRec
  <2>5. \A d \in Ctls : ctl[d].pc # "free" /\ ctl[d].task = t /\ t \notin resub => d = c
    BY <1>a DEF IInv, SingleController
  <2>6. ctl[c].status \in EndStatus \cup {"running"} BY <1>c DEF CtlRec
  <2> HIDE DEF t
  <2>7. ASSUME NEW d \in Ctls \ {c}, ctl[d].pc # "free", ctl[d].task \notin resub, KeepsSlot(d)
        PROVE  KeepsSlot(d)'
    <3>1. ctl[d].task \in Tasks /\ ctl[d].task # t BY <2>7, <2>5 DEF IInv, Shape
    <3> QED BY <3>1, <2>1, <2>2, <2>7 DEF KeepsSlot
  <2>8. ctl[c].status = "running" \/ AckFinish(c, th) => KeepsSlot(c)'
    BY <2>1, <2>2, <2>3 DEF KeepsSlot, t
  <2>9. RunInv' BY <2>1, <2>7, <2>8 DEF SInv, RunInv
  <2>10. BusyInv'
    <3> SUFFICES ASSUME ~SideAcks, NEW d \in Ctls
                 PROVE  /\ ack'[<<d, "side">>].pc = "none"
                        /\ ctl'[d].pc \in {"subscribe", "run"} =>
                             /\ ctl'[d].status \in {"running", "cancelled"}
                             /\ ctl'[d].task \notin resub' /\ ack'[<<d, "main">>].pc \notin {"save", "finish"}
                                  => KeepsSlot(d)'
      BY DEF BusyInv, Quiet
    <3>1. CASE d = c BY <3>1, <1>3, <1>b, <1>g, <1>m, <2>1, <2>4, <2>8
    <3>2. CASE d # c
      <4>1. ack'[<<d, "main">>] = ack[<<d, "main">>] /\ ack'[<<d, "side">>] = ack[<<d, "side">>]
        BY <3>2, <1>d
      <4>2. /\ ack[<<d, "side">>].pc = "none"
            /\ ctl[d].pc \in {"subscribe", "run"} =>
                 /\ ctl[d].status \in {"running", "cancelled"}
                 /\ ctl[d].task \notin resub /\ ack[<<d, "main">>].pc \notin {"save", "finish"}
                      => KeepsSlot(d)
        BY DEF SInv, BusyInv, Quiet
      <4> QED BY <3>2, <4>1, <4>2, <2>1, <2>7
    <3> QED BY <3>1, <3>2
  <2>11. Occupied' \ resub' \subseteq Occupied \ resub
    <3>1. t \notin resub /\ ctl[c].status = "running" => queue[t] \in {Absent, "queued", "running"}
      BY <1>r DEF KeepsSlot, t
    <3> QED BY <3>1, <1>a, <2>1, <2>2, <2>6 DEF Occupied
  <2>12. SlotInv' /\ RunningBound' BY <2>1, <2>11, FewerSlots
  <2> QED BY <2>9, <2>10, <2>12 DEF SInv
<1> QED BY <1>1, <1>2, <1>3 DEF AckStep

\* In the initial state all slots are free.
LEMMA SInvInit == Init => SInv
<1> SUFFICES ASSUME Init PROVE SInv OBVIOUS
<1>1. RunInv /\ BusyInv /\ SlotInv BY DEF Init, RunInv, BusyInv, SlotInv, Quiet
<1>2. Occupied \ resub = {} BY DEF Init, Occupied
<1>3. Cardinality({}) = 0 BY FS_EmptySet
<1>4. RunningBound BY <1>2, <1>3, ConcurrencyAssumption DEF RunningBound
<1> QED BY <1>1, <1>4 DEF SInv

\* Every step keeps the slots within the bound.
LEMMA SInvNext ==
  ASSUME Decisive, IInv, IInv', SInv, [Next]_vars
  PROVE  SInv'
<1>1. ASSUME NEW h \in Handlers, HandlerStep(h) \/ RequestStep(h) PROVE SInv'
  BY <1>1, SlotRequests, SlotCalmKeeps
<1>2. ASSUME NEW p \in Procs, CancelStep(p) PROVE SInv'
  BY <1>2, SlotRequests, SlotCalmKeeps
<1>3. ASSUME NEW w \in Workflows, DeleteTestModule(w) PROVE SInv'
  <2>1. SlotCalm BY <1>3 DEF DeleteTestModule, SlotCalm
  <2> QED BY <2>1, SlotCalmKeeps
<1>4. ASSUME NEW r \in Replicas, ReplicaStep(r) PROVE SInv'
  BY <1>4, SlotReplica, SlotCalmKeeps
<1>5. CASE UNCHANGED vars
  <2>1. SlotCalm BY <1>5 DEF vars, SlotCalm
  <2> QED BY <2>1, SlotCalmKeeps
<1> QED BY <1>1, <1>2, <1>3, <1>4, <1>5, SlotSender, SlotCtl, SlotAck DEF Next

\* The check hasAgentAvaiable of WorfklowTaskSender bounds the tasks that occupy
\* a slot and were never resubmitted by WorkflowConcurrency, for any number of
\* replicas, tasks, requests, deletions and crashes, as long as the redis lock
\* outlives the round of the sender that took it, and either no debug event makes
\* a second goroutine ack or no run ends with status running.
THEOREM SlotsBounded ==
  ASSUME ~LockMayExpire, Decisive
  PROVE  Spec => []RunningBound
<1>1. Init => IInv /\ SInv BY IInvInit, SInvInit
<1>2. (IInv /\ SInv) /\ [Next]_vars => (IInv /\ SInv)' BY IInvNext, SInvNext
<1>3. IInv /\ SInv => RunningBound BY DEF SInv
<1> QED BY <1>1, <1>2, <1>3, PTL DEF Spec
=============================================================================
