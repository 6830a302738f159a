---------------------- MODULE WorkflowQueueEntryProofs ----------------------
(* What becomes of a task's entry, document and announcement, for every     *)
(* instance of WorkflowQueue in which the sender's lock does not expire     *)
(* while it is held.  Each theorem says which requests it leaves out.       *)
EXTENDS WorkflowQueueProofs

USE DEF Procs, Threads, Absent, NoDoc, Doc, TaskStatus, EndStatus,
        IdleSender, IdleReq, FreeCtl, NoAck, Alive

-----------------------------------------------------------------------------
(* Announcements and entries.  A controller makes its last ack after its     *)
(* stages; what it saves then shows in the document, and nothing works on    *)
(* the task again unless it is resubmitted.                                  *)

Main(c) == ack[<<c, "main">>]

\* The task has a document, and will not get another controller.
Spent(t) ==
  /\ doc[t] # NoDoc /\ queue[t] # "waiting"
  /\ \A p \in Procs : ~Pushing(p, t)
  /\ \A r \in Replicas : ~Chosen(r, t)

\* Only the controller itself acks, and after its stages only once.
Orderly(c) ==
  /\ ack[<<c, "side">>] = NoAck
  /\ ctl[c].pc \in {"free", "subscribe", "run"} => ctl[c].status \in {"running", "cancelled"}
  /\ ctl[c].pc \in {"free", "clean"} => Main(c).pc = "none"
  /\ Main(c).note => Main(c).pc = "finish" /\ (ctl[c].task \notin resub => ctl[c].pc = "end")
AckInv == \A c \in Ctls : Orderly(c)

\* The document of a last ack, and whether a request may yet write it back.
Over(d) == d.ended \/ d.status \in AckedStatus \cup {"pause"}
Closed(t) == Over(doc[t]) \/ \E p \in Procs : req[p].task = t /\ Over(req[p].seen)

Closing(c) == ctl[c].pc = "end" /\ Main(c).pc \in {"finish", "none"}

ClosedInv ==
  /\ \A t \in Tasks \ resub : Closed(t) =>
       Spent(t) /\ \A c \in Ctls : Alive(c) /\ ctl[c].task = t => Closing(c)
  /\ \A r \in Replicas :
       sender[r].pc = "dispatch" /\ sender[r].pick \notin resub => ~sender[r].seen.ended
  /\ \A c \in Ctls :
       Alive(c) /\ ctl[c].task \notin resub /\ ctl[c].pc # "end" => ~ctl[c].ended

Announced(t) ==
  Spent(t) /\ \A c \in Ctls : Alive(c) /\ ctl[c].task = t => ctl[c].pc = "end" /\ Main(c).pc = "none"

NoteInv == \A t \in Tasks \ resub : notified[t] = 0 \/ (notified[t] = 1 /\ Announced(t))

EndInv == AckInv /\ ClosedInv /\ NoteInv

-----------------------------------------------------------------------------
\* The steps that are not calm.
LEMMA StepKinds ==
  ASSUME ~LockMayExpire, IInv, [Next]_vars
  PROVE  \/ Calm
         \/ \E h \in Handlers : (\E t \in Tasks : CreateTask(h, t)) \/ Push(h) \/ ResubmitUpdate(h)
         \/ \E r \in Replicas : SenderLock(r) \/ SenderList(r) \/ \E c \in Ctls : SenderDispatch(r, c)
         \/ \E c \in Ctls, th \in Threads : AckQueue(c, th)
<1>1. ASSUME NEW w \in Workflows, DeleteTestModule(w) PROVE Calm
  BY <1>1, Still DEF DeleteTestModule, Calm
<1>2. CASE UNCHANGED vars BY <1>2, Still DEF vars, Calm
<1> QED BY <1>1, <1>2, CalmHandler, CalmRequestStep, CalmCancel, CalmSenderStep, CalmReplica,
           CalmCtlStep, CalmAck DEF Next

\* A task that will not get another controller stays so until it is resubmitted.
LEMMA SpentStays ==
  ASSUME ~LockMayExpire, IInv, IInv', [Next]_vars, NEW t \in Tasks, t \notin resub', Spent(t)
  PROVE  Spent(t)'
<1>1. CASE Calm
  BY <1>1 DEF Spent, Calm, CalmDoc, CalmQueue, CalmReq, CalmSender, Pushing, Chosen
<1>2. ASSUME NEW h \in Handlers, NEW u \in Tasks, CreateTask(h, u) PROVE Spent(t)'
  <2>1. u # t BY <1>2 DEF CreateTask, Spent
  <2>2. /\ doc'[t] = doc[t] /\ UNCHANGED <<queue, sender>> BY <1>2, <2>1 DEF CreateTask, IInv, TypeOK
  <2>3. \A p \in Procs : req'[p] = req[p] \/ req'[p].task = u
    BY <1>2 DEF CreateTask, IInv, TypeOK
  <2> QED BY <2>1, <2>2, <2>3 DEF Spent, Pushing, Chosen
<1>3. ASSUME NEW h \in Handlers, Push(h) PROVE Spent(t)'
  <2>1. req[h].task # t BY <1>3 DEF Push, Spent, Pushing
  <2>2. queue'[t] = queue[t] /\ UNCHANGED <<doc, sender>>
    BY <1>3, <2>1 DEF Push, QueueCreate, IInv, TypeOK
  <2>3. \A p \in Procs : req'[p] = req[p] \/ req'[p].pc = "idle"
    BY <1>3 DEF Push, IInv, TypeOK
  <2> QED BY <2>2, <2>3 DEF Spent, Pushing, Chosen
<1>4. ASSUME NEW h \in Handlers, ResubmitUpdate(h) PROVE Spent(t)'
  <2>1. req[h].task # t BY <1>4 DEF ResubmitUpdate
  <2>2. doc'[t] = doc[t] /\ UNCHANGED <<queue, sender>>
    BY <1>4, <2>1 DEF ResubmitUpdate, IInv, TypeOK
  <2>3. \A p \in Procs : req'[p] = req[p] \/ req'[p].task = req[h].task
    BY <1>4 DEF ResubmitUpdate, IInv, TypeOK, ReqRec
  <2> QED BY <2>1, <2>2, <2>3 DEF Spent, Pushing, Chosen
<1>5. ASSUME NEW r \in Replicas, SenderLock(r) PROVE Spent(t)'
  <2>1. UNCHANGED <<doc, queue, req>> BY <1>5 DEF SenderLock
  <2>2. \A q \in Replicas : sender'[q].todo = sender[q].todo /\ sender'[q].pick = sender[q].pick
    BY <1>5 DEF SenderLock, IInv, TypeOK, SenderRec
  <2> QED BY <2>1, <2>2 DEF Spent, Pushing, Chosen
<1>6. ASSUME NEW r \in Replicas, SenderList(r) PROVE Spent(t)'
  <2>1. UNCHANGED <<doc, queue, req>> BY <1>6 DEF SenderList
  <2>2. \A q \in Replicas : q # r => sender'[q] = sender[q]
    BY <1>6 DEF SenderList, IInv, TypeOK
  <2> DEFINE waiting == {u \in Tasks : queue[u] = "waiting"}
  <2>3. t \notin sender'[r].todo /\ sender'[r].pick \in {None, sender[r].pick}
    <3>1. sender[r] \in SenderRec BY DEF IInv, TypeOK
    <3>2. CASE waiting = {}
      <4>1. sender'[r] = IdleSender BY <1>6, <3>2 DEF SenderList, IInv, TypeOK
      <4> QED BY <4>1
    <3>3. CASE waiting # {}
      <4>1. sender'[r] = [sender[r] EXCEPT !.pc = "scan", !.todo = waiting]
        BY <1>6, <3>3 DEF SenderList, IInv, TypeOK
      <4>2. sender'[r].todo = waiting /\ sender'[r].pick = sender[r].pick
        BY <3>1, <4>1 DEF SenderRec
      <4> QED BY <4>2 DEF Spent
    <3> QED BY <3>2, <3>3
  <2> QED BY <2>1, <2>2, <2>3, ProcessAssumption DEF Spent, Pushing, Chosen
<1>7. ASSUME NEW r \in Replicas, NEW c \in Ctls, SenderDispatch(r, c) PROVE Spent(t)'
  <2>1. UNCHANGED <<doc, req>> /\ sender[r].pick # t BY <1>7 DEF SenderDispatch, Spent, Chosen
  <2>2. queue'[t] = queue[t] BY <1>7, <2>1 DEF SenderDispatch, QueueUpdate, IInv, TypeOK
  <2>3. \A q \in Replicas : sender'[q] = sender[q] \/ sender'[q] = IdleSender
    BY <1>7 DEF SenderDispatch, IInv, TypeOK
  <2> QED BY <2>1, <2>2, <2>3, ProcessAssumption DEF Spent, Pushing, Chosen
<1>8. ASSUME NEW c \in Ctls, NEW th \in Threads, AckQueue(c, th) PROVE Spent(t)'
  <2>1. UNCHANGED <<doc, req, sender>> BY <1>8 DEF AckQueue
  <2>2. ctl[c].status # "waiting" BY DEF IInv, TypeOK, CtlRec
  <2>3. queue'[t] \in {queue[t], ctl[c].status, Absent}
    BY <1>8 DEF AckQueue, QueueUpdate, IInv, TypeOK
  <2> QED BY <2>1, <2>2, <2>3 DEF Spent, Pushing, Chosen
<1> QED BY <1>1, <1>2, <1>3, <1>4, <1>5, <1>6, <1>7, <1>8, StepKinds

-----------------------------------------------------------------------------
(* What a step may do to a task that is over.                                *)

DocBack == \A t \in Tasks : t \notin resub' /\ Over(doc'[t]) => Closed(t)
ReqBack ==
  \A p \in Procs, t \in Tasks :
    t \notin resub' /\ req'[p].task = t /\ Over(req'[p].seen) => Closed(t)
SeenBack ==
  \A r \in Replicas :
    sender'[r].pc = "dispatch" /\ sender'[r].pick \notin resub' => ~sender'[r].seen.ended
Onward(c) ==
  /\ Alive(c) /\ ctl'[c].task = ctl[c].task
  /\ Closing(c) => Closing(c)'
  /\ ctl[c].pc = "end" /\ Main(c).pc = "none" => ctl'[c].pc = "end" /\ Main(c)'.pc = "none"
  /\ ctl'[c].pc # "end" => ctl[c].pc # "end" /\ ctl'[c].ended = ctl[c].ended
CtlBack == \A c \in Ctls : Alive(c)' => Onward(c)
Back == DocBack /\ ReqBack /\ SeenBack /\ resub \subseteq resub'

\* A step that brings no new closed task keeps the closed ones.
LEMMA ClosedKeeps ==
  ASSUME ~LockMayExpire, IInv, IInv', [Next]_vars, ClosedInv, Back, CtlBack
  PROVE  ClosedInv'
<1>1. ASSUME NEW t \in Tasks, t \notin resub', Closed(t)'
      PROVE  Spent(t)' /\ \A c \in Ctls : Alive(c)' /\ ctl'[c].task = t => Closing(c)'
  <2>1. Closed(t) BY <1>1 DEF Closed, Back, DocBack, ReqBack
  <2>2. Spent(t) /\ \A c \in Ctls : Alive(c) /\ ctl[c].task = t => Closing(c)
    BY <1>1, <2>1 DEF ClosedInv, Back
  <2>3. Spent(t)' BY <1>1, <2>2, SpentStays
  <2> QED BY <2>2, <2>3 DEF CtlBack, Onward
<1>2. ASSUME NEW c \in Ctls, Alive(c)', ctl'[c].task \notin resub', ctl'[c].pc # "end"
      PROVE  ~ctl'[c].ended
  BY <1>2 DEF ClosedInv, CtlBack, Onward, Back
<1> QED BY <1>1, <1>2 DEF ClosedInv, Back, SeenBack

\* A step that announces nothing keeps the announced tasks.
LEMMA NoteKeeps ==
  ASSUME ~LockMayExpire, IInv, IInv', [Next]_vars, NoteInv, CtlBack,
         notified' = notified, resub \subseteq resub'
  PROVE  NoteInv'
<1> SUFFICES ASSUME NEW t \in Tasks, t \notin resub', notified[t] = 1, Announced(t)
             PROVE  Announced(t)'
  BY DEF NoteInv
<1>1. Spent(t)' BY SpentStays DEF Announced
<1> QED BY <1>1 DEF Announced, CtlBack, Onward

-----------------------------------------------------------------------------
(* Steps that are not a controller's: requests, senders before they dispatch, *)
(* the lock and a replica that starts.                                       *)

Aside ==
  /\ \A c \in Ctls : /\ ctl'[c].pc = ctl[c].pc /\ ctl'[c].task = ctl[c].task
                     /\ ctl'[c].status = ctl[c].status /\ ctl'[c].ended = ctl[c].ended
  /\ ack' = ack /\ notified' = notified

\* A step that leaves the controllers at work keeps what they know.
LEMMA AsideKeeps ==
  ASSUME ~LockMayExpire, IInv, IInv', [Next]_vars, EndInv, Back, Aside
  PROVE  EndInv'
<1>1. AckInv' BY DEF EndInv, AckInv, Orderly, Main, Aside, Back
<1>2. CtlBack BY DEF CtlBack, Onward, Closing, Main, Aside
<1>3. ClosedInv' BY <1>2, ClosedKeeps DEF EndInv
<1>4. NoteInv' BY <1>2, NoteKeeps DEF EndInv, Aside, Back
<1> QED BY <1>1, <1>3, <1>4 DEF EndInv

\* What a step leaves alone.
LEMMA BackStill ==
  ASSUME EndInv
  PROVE  /\ doc' = doc => DocBack
         /\ req' = req => ReqBack
         /\ sender' = sender /\ resub' = resub => SeenBack
         /\ ctl' = ctl /\ ack' = ack /\ notified' = notified => Aside
BY DEF EndInv, ClosedInv, Closed, DocBack, ReqBack, SeenBack, Aside

\* A request goes on with a document it has, or finds.
LEMMA RequestBack ==
  ASSUME IInv, NEW p \in Procs, NEW new, req' = [req EXCEPT ![p] = new],
         resub \subseteq resub',
         \/ new.seen = NoDoc
         \/ new.task = req[p].task /\ new.seen = req[p].seen
         \/ new.task \in Tasks /\ new.seen = doc[new.task]
  PROVE  ReqBack
<1>1. req'[p] = new /\ \A q \in Procs \ {p} : req'[q] = req[q] BY DEF IInv, TypeOK
<1>2. ~Over(NoDoc) BY DEF Over, AckedStatus
<1>3. ASSUME NEW t \in Tasks, req'[p].task = t, Over(req'[p].seen) PROVE Closed(t)
  <2>1. CASE new.seen = NoDoc BY <1>1, <1>2, <1>3, <2>1
  <2>2. CASE new.task = req[p].task /\ new.seen = req[p].seen BY <1>1, <1>3, <2>2 DEF Closed
  <2>3. CASE new.task \in Tasks /\ new.seen = doc[new.task] BY <1>1, <1>3, <2>3 DEF Closed
  <2> QED BY <2>1, <2>2, <2>3
<1> QED BY <1>1, <1>3 DEF ReqBack, Closed

\* The document that a step writes for t is not over, or was known to be.
LEMMA WriteBack ==
  ASSUME IInv, NEW t \in Tasks, NEW d, doc' = [doc EXCEPT ![t] = d], Over(d) => Closed(t)
  PROVE  DocBack
<1>1. doc'[t] = d /\ \A u \in Tasks \ {t} : doc'[u] = doc[u] BY DEF IInv, TypeOK
<1> QED BY <1>1 DEF DocBack, Closed

\* A request that starts reads documents as they are.
LEMMA HandlerAside ==
  ASSUME IInv, EndInv, NEW h \in Handlers, HandlerStep(h)
  PROVE  Back /\ Aside
<1>1. ASSUME NEW t \in Tasks, NEW pc, req' = Found(h, t, pc), resub' = resub PROVE ReqBack
  <2> DEFINE new == [IdleReq EXCEPT !.pc = pc, !.task = t, !.seen = doc[t]]
  <2>1. new.task = t /\ new.seen = doc[t] OBVIOUS
  <2>2. req' = [req EXCEPT ![h] = new] BY <1>1 DEF Found
  <2> HIDE DEF new
  <2> QED BY <1>1, <2>1, <2>2, RequestBack
<1>2. ASSUME NEW t \in Tasks, CreateTask(h, t) PROVE Back /\ Aside
  <2> DEFINE new == [IdleReq EXCEPT !.pc = "push", !.task = t]
             d == [NoDoc EXCEPT !.status = "waiting"]
  <2>1. new.seen = NoDoc /\ ~Over(d) BY DEF Over, AckedStatus
  <2>2. req' = [req EXCEPT ![h] = new] /\ doc' = [doc EXCEPT ![t] = d] BY <1>2 DEF CreateTask
  <2>3. UNCHANGED <<sender, ctl, ack, notified, resub>> BY <1>2 DEF CreateTask
  <2> HIDE DEF new, d
  <2>4. ReqBack BY <2>1, <2>2, <2>3, RequestBack
  <2>5. DocBack BY <2>1, <2>2, WriteBack
  <2> QED BY <2>3, <2>4, <2>5, BackStill DEF Back
<1>3. ASSUME NEW t \in Tasks, CancelFind(h, t) \/ TouchFind(h, t) \/ Resubmit(h, t)
      PROVE  Back /\ Aside
  <2>1. UNCHANGED <<doc, sender, ctl, ack, notified, resub>>
    BY <1>3 DEF CancelFind, TouchFind, Resubmit
  <2>2. ReqBack BY <1>1, <1>3, <2>1 DEF CancelFind, TouchFind, Resubmit
  <2> QED BY <2>1, <2>2, BackStill DEF Back
<1>4. ASSUME NEW w \in Workflows, DeleteWorkflowV4(h, w) PROVE Back /\ Aside
  <2> DEFINE new == [IdleReq EXCEPT !.pc = "loop", !.wf = w,
                       !.todo = {t \in Tasks : WorkflowOf[t] = w /\ queue[t] # Absent}]
  <2>1. new.seen = NoDoc OBVIOUS
  <2>2. req' = [req EXCEPT ![h] = new] BY <1>4 DEF DeleteWorkflowV4
  <2>3. UNCHANGED <<doc, sender, ctl, ack, notified, resub>> BY <1>4 DEF DeleteWorkflowV4
  <2> HIDE DEF new
  <2>4. ReqBack BY <2>1, <2>2, <2>3, RequestBack
  <2> QED BY <2>3, <2>4, BackStill DEF Back
<1> QED BY <1>2, <1>3, <1>4 DEF HandlerStep, RetryWorkflowTaskV4, ManualExecWorkflowTaskV4

\* A request that goes on writes back what it read.
LEMMA RequestAside ==
  ASSUME IInv, EndInv, NEW h \in Handlers, RequestStep(h)
  PROVE  Back /\ Aside
<1>i. IdleReq.seen = NoDoc OBVIOUS
<1>q. req[h] \in ReqRec BY DEF IInv, TypeOK
<1>t. req[h].pc \in {"push", "update", "touch"} => req[h].task \in Tasks BY DEF IInv, Shape
<1>1. CASE Push(h)
  <2>1. UNCHANGED <<doc, sender, ctl, ack, notified, resub>> BY <1>1 DEF Push
  <2>2. ReqBack BY <1>1, <1>i, <2>1, RequestBack DEF Push
  <2> QED BY <2>1, <2>2, BackStill DEF Back
<1>2. CASE ResubmitUpdate(h)
  <2> DEFINE t == req[h].task
             d == [NoDoc EXCEPT !.status = "waiting", !.deleted = req[h].seen.deleted]
             new == [req[h] EXCEPT !.pc = "push"]
  <2>1. ~Over(d) BY DEF Over, AckedStatus
  <2>2. new.task = req[h].task /\ new.seen = req[h].seen BY <1>q DEF ReqRec
  <2>3. doc' = [doc EXCEPT ![t] = d] /\ req' = [req EXCEPT ![h] = new] /\ t \in Tasks
    BY <1>2, <1>t DEF ResubmitUpdate
  <2>4. UNCHANGED <<sender, ctl, ack, notified>> /\ resub \subseteq resub'
    BY <1>2 DEF ResubmitUpdate
  <2> HIDE DEF d, new, t
  <2>5. DocBack BY <2>1, <2>3, WriteBack
  <2>6. ReqBack BY <2>2, <2>3, <2>4, RequestBack
  <2>7. SeenBack BY <2>4 DEF SeenBack, EndInv, ClosedInv
  <2> QED BY <2>4, <2>5, <2>6, <2>7, BackStill DEF Back
<1>3. CASE TouchUpdate(h)
  <2> DEFINE t == req[h].task
  <2>1. UNCHANGED <<sender, ctl, ack, notified, resub>> BY <1>3 DEF TouchUpdate
  <2>2. ReqBack BY <1>3, <1>i, <2>1, RequestBack DEF TouchUpdate
  <2>3. Over(req[h].seen) => Closed(t) BY DEF Closed
  <2>4. doc' = [doc EXCEPT ![t] = req[h].seen] /\ t \in Tasks BY <1>3, <1>t DEF TouchUpdate
  <2> HIDE DEF t
  <2>5. DocBack BY <2>3, <2>4, WriteBack
  <2> QED BY <2>1, <2>2, <2>5, BackStill DEF Back
<1>4. CASE DeleteByID(h)
  <2>1. UNCHANGED <<doc, sender, ctl, ack, notified, resub>> BY <1>4 DEF DeleteByID
  <2> DEFINE new == [req[h] EXCEPT !.pc = "archive"]
  <2>2. new.task = req[h].task /\ new.seen = req[h].seen BY <1>q DEF ReqRec
  <2>3. req' = [req EXCEPT ![h] = new] \/ req' = [req EXCEPT ![h] = IdleReq] BY <1>4 DEF DeleteByID
  <2> HIDE DEF new
  <2>4. ReqBack BY <1>i, <2>1, <2>2, <2>3, RequestBack
  <2> QED BY <2>1, <2>4, BackStill DEF Back
<1>5. CASE DeleteByWorkflowName(h)
  <2>1. UNCHANGED <<sender, ctl, ack, notified, resub>> BY <1>5 DEF DeleteByWorkflowName
  <2>2. ReqBack BY <1>5, <1>i, <2>1, RequestBack DEF DeleteByWorkflowName
  <2>3. \A t \in Tasks : doc'[t].ended = doc[t].ended /\ doc'[t].status = doc[t].status
    BY <1>5 DEF DeleteByWorkflowName, IInv, TypeOK
  <2>4. DocBack BY <2>3 DEF DocBack, Closed, Over
  <2> QED BY <2>1, <2>2, <2>4, BackStill DEF Back
<1> QED BY <1>1, <1>2, <1>3, <1>4, <1>5 DEF RequestStep

\* A cancellation writes back the EndTime it found.
LEMMA CancelAside ==
  ASSUME IInv, EndInv, NEW p \in Procs, CancelStep(p)
  PROVE  Back /\ Aside
<1>q. req[p] \in ReqRec BY DEF IInv, TypeOK
<1>t. req[p].pc = "save" => req[p].task \in Tasks BY DEF IInv, Shape
<1>r. CancelReturn(p).seen = NoDoc BY DEF CancelReturn
<1>1. CASE CancelRemove(p)
  <2>1. UNCHANGED <<doc, sender, ctl, ack, notified, resub>> BY <1>1 DEF CancelRemove
  <2> DEFINE new == [req[p] EXCEPT !.pc = "save"]
  <2>2. new.task = req[p].task /\ new.seen = req[p].seen BY <1>q DEF ReqRec
  <2>3. req' = [req EXCEPT ![p] = new] \/ req' = [req EXCEPT ![p] = CancelReturn(p)]
    BY <1>1 DEF CancelRemove
  <2> HIDE DEF new
  <2>4. ReqBack BY <1>r, <2>1, <2>2, <2>3, RequestBack
  <2> QED BY <2>1, <2>4, BackStill DEF Back
<1>2. CASE CancelUpdate(p)
  <2> DEFINE t == req[p].task
             d == [req[p].seen EXCEPT !.status = "cancelled"]
             new == [req[p] EXCEPT !.pc = "publish"]
  <2>1. Over(d) => Closed(t) BY <1>q DEF ReqRec, Over, AckedStatus, Closed
  <2>2. new.task = req[p].task /\ new.seen = req[p].seen BY <1>q DEF ReqRec
  <2>3. doc' = [doc EXCEPT ![t] = d] /\ req' = [req EXCEPT ![p] = new] /\ t \in Tasks
    BY <1>2, <1>t DEF CancelUpdate
  <2>4. UNCHANGED <<sender, ctl, ack, notified, resub>> BY <1>2 DEF CancelUpdate
  <2> HIDE DEF d, new, t
  <2>5. DocBack BY <2>1, <2>3, WriteBack
  <2>6. ReqBack BY <2>2, <2>3, <2>4, RequestBack
  <2> QED BY <2>4, <2>5, <2>6, BackStill DEF Back
<1>3. CASE CancelPublish(p)
  <2>1. UNCHANGED <<doc, sender, ack, notified, resub>> BY <1>3 DEF CancelPublish
  <2>2. req' = [req EXCEPT ![p] = CancelReturn(p)] BY <1>3 DEF CancelPublish
  <2>3. ReqBack BY <1>r, <2>1, <2>2, RequestBack
  <2>4. \A c \in Ctls : ctl'[c] = ctl[c] \/ ctl'[c] = [ctl[c] EXCEPT !.sig = TRUE]
    BY <1>3 DEF CancelPublish
  <2>5. ASSUME NEW c \in Ctls
        PROVE  /\ ctl'[c].pc = ctl[c].pc /\ ctl'[c].task = ctl[c].task
               /\ ctl'[c].status = ctl[c].status /\ ctl'[c].ended = ctl[c].ended
    <3>1. ctl[c] \in CtlRec BY DEF IInv, TypeOK
    <3>2. CASE ctl'[c] = ctl[c] BY <3>2
    <3>3. CASE ctl'[c] = [ctl[c] EXCEPT !.sig = TRUE] BY <3>1, <3>3 DEF CtlRec
    <3> QED BY <2>4, <3>2, <3>3
  <2>6. Aside BY <2>1, <2>5 DEF Aside
  <2> QED BY <2>1, <2>3, <2>6, BackStill DEF Back
<1>4. ASSUME NEW t \in Tasks, CancelNext(p, t) PROVE Back /\ Aside
  <2> DEFINE new == [req[p] EXCEPT !.pc = "remove", !.task = t, !.seen = doc[t],
                                   !.todo = req[p].todo \ {t}]
  <2>1. UNCHANGED <<doc, sender, ctl, ack, notified, resub>> BY <1>4 DEF CancelNext
  <2>2. new.task = t /\ new.seen = doc[t] BY <1>q DEF ReqRec
  <2>3. req' = [req EXCEPT ![p] = new] BY <1>4 DEF CancelNext
  <2> HIDE DEF new
  <2>4. ReqBack BY <2>1, <2>2, <2>3, RequestBack
  <2> QED BY <2>1, <2>4, BackStill DEF Back
<1> QED BY <1>1, <1>2, <1>3, <1>4 DEF CancelStep

\* A sender never finds the document of a closed task.
LEMMA SenderAside ==
  ASSUME IInv, EndInv, NEW r \in Replicas, SenderStep(r)
  PROVE  (Back /\ Aside) \/ \E c \in Ctls : SenderDispatch(r, c)
<1>s. sender[r] \in SenderRec BY DEF IInv, TypeOK
<1>b. ASSUME UNCHANGED <<doc, req, ctl, ack, notified, resub>>,
             \A q \in Replicas \ {r} : sender'[q] = sender[q],
             sender'[r].pc = "dispatch" /\ sender'[r].pick \notin resub => ~sender'[r].seen.ended
      PROVE  Back /\ Aside
  <2>1. SeenBack BY <1>b DEF SeenBack, EndInv, ClosedInv
  <2> QED BY <1>b, <2>1, BackStill DEF Back
<1>1. CASE SenderLock(r)
  <2>1. sender'[r].pc = "list" BY <1>1, <1>s DEF SenderLock, IInv, TypeOK, SenderRec
  <2>2. \A q \in Replicas \ {r} : sender'[q] = sender[q] BY <1>1 DEF SenderLock, IInv, TypeOK
  <2> QED BY <1>1, <1>b, <2>1, <2>2 DEF SenderLock
<1>2. CASE SenderList(r)
  <2> DEFINE waiting == {u \in Tasks : queue[u] = "waiting"}
             found == [sender[r] EXCEPT !.pc = "scan", !.todo = waiting]
  <2>3. sender'[r] = IdleSender \/ sender'[r] = found BY <1>2 DEF SenderList, IInv, TypeOK
  <2>4. found.pc = "scan" BY <1>s DEF SenderRec
  <2> HIDE DEF found
  <2>1. sender'[r].pc \in {"idle", "scan"} BY <2>3, <2>4
  <2>2. \A q \in Replicas \ {r} : sender'[q] = sender[q] BY <1>2 DEF SenderList, IInv, TypeOK
  <2> QED BY <1>2, <1>b, <2>1, <2>2 DEF SenderList
<1>3. CASE SenderGiveUp(r)
  <2>1. sender'[r].pc = "idle" BY <1>3, <1>s DEF SenderGiveUp, IInv, TypeOK
  <2>2. \A q \in Replicas \ {r} : sender'[q] = sender[q] BY <1>3 DEF SenderGiveUp, IInv, TypeOK
  <2> QED BY <1>3, <1>b, <2>1, <2>2 DEF SenderGiveUp
<1>4. CASE SenderFind(r)
  <2> DEFINE t == sender[r].pick
  <2>1. t \in Tasks BY <1>4 DEF SenderFind, IInv, Shape
  <2>2. ~Spent(t) BY DEF Spent, Chosen
  <2>3. t \notin resub => ~doc[t].ended BY <2>1, <2>2 DEF EndInv, ClosedInv, Closed, Over
  <2>4. sender'[r] = [sender[r] EXCEPT !.pc = "dispatch", !.seen = doc[t]]
    BY <1>4 DEF SenderFind, IInv, TypeOK
  <2>5. sender'[r].seen = doc[t] /\ sender'[r].pick = t BY <2>4, <1>s DEF SenderRec
  <2>6. \A q \in Replicas \ {r} : sender'[q] = sender[q] BY <1>4 DEF SenderFind, IInv, TypeOK
  <2> QED BY <1>4, <1>b, <2>3, <2>5, <2>6 DEF SenderFind
<1>5. ASSUME NEW t \in Tasks, SenderScan(r, t) PROVE Back /\ Aside
  <2>1. sender'[r].pc \in {"scan", "find"}
    BY <1>5, <1>s DEF SenderScan, IInv, TypeOK, SenderRec
  <2>2. \A q \in Replicas \ {r} : sender'[q] = sender[q] BY <1>5 DEF SenderScan, IInv, TypeOK
  <2> QED BY <1>5, <1>b, <2>1, <2>2 DEF SenderScan
<1> QED BY <1>1, <1>2, <1>3, <1>4, <1>5 DEF SenderStep

\* The lock and the start of a replica touch no controller.
LEMMA ReplicaAside ==
  ASSUME IInv, EndInv, NEW r \in Replicas, ReplicaStep(r)
  PROVE  (Back /\ Aside) \/ Crash(r)
<1>1. CASE LockExpire(r) BY <1>1, BackStill DEF LockExpire, Back
<1>2. CASE Restart(r)
  <2> DEFINE new == [IdleReq EXCEPT !.pc = "loop",
               !.todo = {t \in Tasks : doc[t].status \in InCompletedStatus /\ ~doc[t].deleted}]
  <2>1. new.seen = NoDoc OBVIOUS
  <2>2. req' = [req EXCEPT ![r] = new] BY <1>2 DEF Restart
  <2>3. UNCHANGED <<doc, sender, ctl, ack, notified, resub>> BY <1>2 DEF Restart
  <2> HIDE DEF new
  <2>4. ReqBack BY <2>1, <2>2, <2>3, RequestBack
  <2> QED BY <2>3, <2>4, BackStill DEF Back
<1>3. CASE BootDone(r)
  <2>1. IdleReq.seen = NoDoc OBVIOUS
  <2>2. UNCHANGED <<doc, sender, ctl, ack, notified, resub>> BY <1>3 DEF BootDone
  <2>3. ReqBack BY <1>3, <2>1, <2>2, RequestBack DEF BootDone
  <2> QED BY <2>2, <2>3, BackStill DEF Back
<1> QED BY <1>1, <1>2, <1>3 DEF ReplicaStep, BootStep

-----------------------------------------------------------------------------
(* The steps of controllers.                                                 *)

\* A crash frees the controllers of a replica and takes their acks with them.
LEMMA CrashEnds ==
  ASSUME ~LockMayExpire, IInv, IInv', [Next]_vars, EndInv, NEW r \in Replicas, Crash(r)
  PROVE  EndInv'
<1>1. UNCHANGED <<doc, notified, resub>> BY DEF Crash
<1>2. \A q \in Replicas : sender'[q] = sender[q] \/ sender'[q] = IdleSender
  BY DEF Crash, IInv, TypeOK
<1>3. \A p \in Procs : req'[p] = req[p] \/ req'[p] = IdleReq BY DEF Crash
<1>4. ~Over(NoDoc) BY DEF Over, AckedStatus
<1>5. Back
  <2>1. SeenBack BY <1>1, <1>2 DEF SeenBack, EndInv, ClosedInv
  <2>2. ReqBack
    <3> SUFFICES ASSUME NEW p \in Procs, Over(req'[p].seen) PROVE Closed(req'[p].task)
      BY DEF ReqBack
    <3>1. req'[p] # IdleReq
      <4>1. req'[p] = IdleReq => req'[p].seen = NoDoc OBVIOUS
      <4> QED BY <4>1, <1>4
    <3>2. req'[p] = req[p] BY <1>3, <3>1
    <3> QED BY <3>2 DEF Closed
  <2> QED BY <1>1, <2>1, <2>2, BackStill DEF Back
<1>6. \A c \in Ctls :
        \/ ctl'[c] = ctl[c] /\ Main(c)' = Main(c) /\ ack'[<<c, "side">>] = ack[<<c, "side">>]
        \/ ctl'[c] = FreeCtl /\ Main(c)' = NoAck /\ ack'[<<c, "side">>] = NoAck
  BY DEF Crash, Main
<1>7. AckInv'
  <2> SUFFICES ASSUME NEW c \in Ctls PROVE Orderly(c)' BY DEF AckInv
  <2> QED BY <1>1, <1>6 DEF EndInv, AckInv, Orderly
<1>8. CtlBack
  <2>1. ASSUME NEW c \in Ctls, Alive(c)' PROVE ctl'[c] = ctl[c] /\ Main(c)' = Main(c)
    <3>1. ctl'[c] # FreeCtl BY <2>1
    <3> QED BY <3>1, <1>6
  <2>2. \A c \in Ctls : Alive(c)' => (Closing(c) => Closing(c)') BY <2>1 DEF Closing
  <2> QED BY <2>1, <2>2 DEF CtlBack, Onward
<1>9. ClosedInv' BY <1>5, <1>8, ClosedKeeps DEF EndInv
<1>10. NoteInv' BY <1>1, <1>8, NoteKeeps DEF EndInv
<1> QED BY <1>7, <1>9, <1>10 DEF EndInv

\* One controller takes a step that leaves the collections and the others alone.
Turn(c) ==
  /\ UNCHANGED <<doc, req, sender, notified, resub>>
  /\ \A d \in Ctls \ {c} : /\ ctl'[d] = ctl[d] /\ Main(d)' = Main(d)
                           /\ ack'[<<d, "side">>] = ack[<<d, "side">>]

\* What is left to show for the step of one controller.
LEMMA TurnBack ==
  ASSUME EndInv, NEW c \in Ctls, Turn(c), Orderly(c)', Alive(c)' => Onward(c)
  PROVE  AckInv' /\ CtlBack /\ Back
<1>1. \A d \in Ctls \ {c} : Orderly(d)' BY ZenonT(30) DEF Turn, EndInv, AckInv, Orderly
<1>2. \A d \in Ctls \ {c} : Alive(d)' => Onward(d)
  <2> SUFFICES ASSUME NEW d \in Ctls \ {c}, Alive(d)' PROVE Onward(d) OBVIOUS
  <2>1. ctl'[d] = ctl[d] /\ Main(d)' = Main(d) BY DEF Turn
  <2>2. Closing(d)' = Closing(d) BY <2>1 DEF Closing
  <2> QED BY <2>1, <2>2 DEF Onward
<1>3. AckInv' /\ CtlBack BY <1>1, <1>2 DEF AckInv, CtlBack
<1> QED BY <1>3, BackStill DEF Turn, Back

\* The step of one controller that is orderly and goes onward.
LEMMA TurnKeeps ==
  ASSUME ~LockMayExpire, IInv, IInv', [Next]_vars, EndInv,
         NEW c \in Ctls, Turn(c), Orderly(c)', Alive(c)' => Onward(c)
  PROVE  EndInv'
<1>1. AckInv' /\ CtlBack /\ Back BY TurnBack
<1>2. ClosedInv' BY <1>1, ClosedKeeps DEF EndInv
<1>3. NoteInv' BY <1>1, NoteKeeps DEF EndInv, Turn
<1> QED BY <1>1, <1>2, <1>3 DEF EndInv

\* The records of one controller after its step.
LEMMA TurnOf ==
  ASSUME IInv, NEW c \in Ctls, NEW new, NEW a,
         ctl' = ctl \/ ctl' = [ctl EXCEPT ![c] = new],
         ack' = ack \/ ack' = [ack EXCEPT ![<<c, "main">>] = a],
         UNCHANGED <<doc, req, sender, notified, resub>>
  PROVE  /\ Turn(c) /\ ack'[<<c, "side">>] = ack[<<c, "side">>]
         /\ ctl' # ctl => ctl'[c] = new
         /\ ack' # ack => Main(c)' = a
<1>1. \A d \in Ctls, th \in Threads :
        <<d, th>> # <<c, "main">> => ack'[<<d, th>>] = ack[<<d, th>>]
  BY DEF IInv, TypeOK
<1>2. \A d \in Ctls \ {c} : ctl'[d] = ctl[d] BY DEF IInv, TypeOK
<1>3. ctl' # ctl => ctl'[c] = new BY DEF IInv, TypeOK
<1>4. ack' # ack => ack'[<<c, "main">>] = a BY DEF IInv, TypeOK
<1> QED BY <1>1, <1>2, <1>3, <1>4 DEF Turn, Main

\* The steps of Run besides its acks.
LEMMA CtlEnds ==
  ASSUME ~LockMayExpire, ~SideAcks, IInv, IInv', [Next]_vars, EndInv, NEW c \in Ctls, CtlStep(c)
  PROVE  EndInv'
<1>o. Orderly(c) BY DEF EndInv, AckInv
<1>r. ctl[c] \in CtlRec BY DEF IInv, TypeOK
<1>s. CtlStep(c) => UNCHANGED <<doc, req, sender, notified, resub>>
  BY DEF CtlStep, Subscribe, StageAck, DebugEvent, ReceiveCancel, FinishStages, FinishRun, CtlExit
<1>f. ASSUME NEW new, ctl' = [ctl EXCEPT ![c] = new] PROVE ctl'[c] = new
  BY <1>f DEF IInv, TypeOK
<1>1. CASE Subscribe(c)
  <2> DEFINE new == [ctl[c] EXCEPT !.pc = "run", !.sub = TRUE]
  <2>1. ctl[c].pc = "subscribe" /\ ctl' = [ctl EXCEPT ![c] = new] /\ ack' = ack
    BY <1>1 DEF Subscribe
  <2>2. /\ new.pc = "run" /\ new.task = ctl[c].task /\ new.status = ctl[c].status
        /\ new.ended = ctl[c].ended
    BY <1>r DEF CtlRec
  <2> HIDE DEF new
  <2>3. Turn(c) /\ ctl'[c] = new /\ Main(c)' = Main(c) BY <2>1, <1>f, <1>s, TurnOf DEF Main
  <2>4. Orderly(c)' BY <1>o, <1>s, <2>1, <2>2, <2>3 DEF Orderly
  <2>5. Onward(c) BY <2>1, <2>2, <2>3 DEF Onward, Closing
  <2> QED BY <2>3, <2>4, <2>5, TurnKeeps
<1>2. CASE StageAck(c)
  <2> DEFINE a == [NoAck EXCEPT !.pc = "find"]
  <2>1. ctl[c].pc = "run" /\ ack' = [ack EXCEPT ![<<c, "main">>] = a] /\ ctl' = ctl
    BY <1>2 DEF StageAck
  <2>2. a.pc = "find" /\ a.note = FALSE OBVIOUS
  <2>3. ack'[<<c, "main">>] = a BY <2>1 DEF IInv, TypeOK
  <2> HIDE DEF a
  <2>4. Turn(c) /\ ack'[<<c, "side">>] = ack[<<c, "side">>] BY <2>1, <1>s, TurnOf
  <2>5. Orderly(c)' BY <1>o, <1>s, <2>1, <2>2, <2>3, <2>4 DEF Orderly, Main
  <2>6. Onward(c) BY <2>1 DEF Onward, Closing
  <2> QED BY <2>4, <2>5, <2>6, TurnKeeps
<1>3. CASE DebugEvent(c) BY <1>3 DEF DebugEvent
<1>4. CASE ReceiveCancel(c)
  <2> DEFINE new == [ctl[c] EXCEPT !.ctx = TRUE]
  <2>1. ctl' = [ctl EXCEPT ![c] = new] /\ ack' = ack BY <1>4 DEF ReceiveCancel
  <2>2. /\ new.pc = ctl[c].pc /\ new.task = ctl[c].task /\ new.status = ctl[c].status
        /\ new.ended = ctl[c].ended
    BY <1>r DEF CtlRec
  <2> HIDE DEF new
  <2>3. Turn(c) /\ ctl'[c] = new /\ Main(c)' = Main(c) BY <2>1, <1>f, <1>s, TurnOf DEF Main
  <2>4. Orderly(c)' BY <1>o, <1>s, <2>1, <2>2, <2>3 DEF Orderly
  <2>5. Alive(c)' => Onward(c) BY <2>1, <2>2, <2>3 DEF Onward, Closing
  <2> QED BY <2>3, <2>4, <2>5, TurnKeeps
<1>5. ASSUME NEW o \in Outcomes, FinishStages(c, o) PROVE EndInv'
  <2> DEFINE new == [ctl[c] EXCEPT !.pc = "clean", !.status = o]
  <2>1. /\ ctl[c].pc = "run" /\ ctl' = [ctl EXCEPT ![c] = new] /\ ack' = ack
        /\ Main(c).pc = "none"
    BY <1>5 DEF FinishStages, Quiet, Main
  <2>2. /\ new.pc = "clean" /\ new.task = ctl[c].task /\ new.status = o
        /\ new.ended = ctl[c].ended
    BY <1>r DEF CtlRec
  <2> HIDE DEF new
  <2>3. Turn(c) /\ ctl'[c] = new /\ Main(c)' = Main(c) BY <2>1, <1>f, <1>s, <1>5, TurnOf DEF Main, CtlStep
  <2>4. Orderly(c)' BY <1>o, <1>s, <2>1, <2>2, <2>3 DEF Orderly
  <2>5. Onward(c) BY <2>1, <2>2, <2>3 DEF Onward, Closing
  <2> QED BY <2>3, <2>4, <2>5, TurnKeeps
<1>6. CASE FinishRun(c)
  <2> DEFINE new == [ctl[c] EXCEPT !.pc = "end", !.ended = TRUE, !.sub = FALSE, !.ctx = TRUE]
             a == [NoAck EXCEPT !.pc = "find"]
  <2>1. /\ ctl[c].pc = "clean" /\ ctl' = [ctl EXCEPT ![c] = new]
        /\ ack' = [ack EXCEPT ![<<c, "main">>] = a]
    BY <1>6 DEF FinishRun
  <2>2. new.pc = "end" /\ new.task = ctl[c].task /\ new.status = ctl[c].status BY <1>r DEF CtlRec
  <2>3. a.pc = "find" /\ a.note = FALSE OBVIOUS
  <2>4. ack'[<<c, "main">>] = a BY <2>1 DEF IInv, TypeOK
  <2> HIDE DEF new, a
  <2>5. Turn(c) /\ ctl'[c] = new /\ ack'[<<c, "side">>] = ack[<<c, "side">>]
    BY <2>1, <1>f, <1>s, TurnOf
  <2>6. Orderly(c)' BY <1>o, <1>s, <2>1, <2>2, <2>3, <2>4, <2>5 DEF Orderly, Main
  <2>7. Onward(c) BY <2>1, <2>2, <2>5 DEF Onward, Closing
  <2> QED BY <2>5, <2>6, <2>7, TurnKeeps
<1>7. CASE CtlExit(c)
  <2>1. ctl' = [ctl EXCEPT ![c] = FreeCtl] /\ ack' = ack /\ Main(c).pc = "none"
    BY <1>7 DEF CtlExit, Quiet, Main
  <2>2. Turn(c) /\ ctl'[c] = FreeCtl /\ Main(c)' = Main(c) BY <2>1, <1>f, <1>s, TurnOf DEF Main
  <2>3. FreeCtl.pc = "free" /\ FreeCtl.status = "running" OBVIOUS
  <2>4. Main(c).note = FALSE
    <3>1. ack[<<c, "main">>] \in AckRec BY DEF IInv, TypeOK
    <3> QED BY <1>o, <2>1, <3>1 DEF Orderly, Main, AckRec
  <2>5. Orderly(c)' BY <1>o, <1>s, <2>1, <2>2, <2>3, <2>4 DEF Orderly
  <2>6. ~Alive(c)' BY <2>2, <2>3
  <2> QED BY <2>2, <2>5, <2>6, TurnKeeps
<1> QED BY <1>1, <1>2, <1>3, <1>4, <1>5, <1>6, <1>7 DEF CtlStep

\* A task with a controller has been dispatched for good.
LEMMA OwnedSpent ==
  ASSUME IInv, NEW c \in Ctls, Alive(c), ctl[c].task \notin resub
  PROVE  Spent(ctl[c].task)
<1> DEFINE t == ctl[c].task
<1>1. t \in Tasks /\ Owned(t) BY DEF IInv, Shape, Owned
<1>2. queue[t] # "waiting" BY DEF IInv, OwnedInv
<1>3. doc[t] # NoDoc BY <1>1 DEF IInv, DocInv
<1>4. \A p \in Procs : ~Pushing(p, t) BY <1>1 DEF IInv, PushInv
<1>5. \A r \in Replicas : ~Chosen(r, t) BY <1>1 DEF IInv, ChosenInv
<1> QED BY <1>2, <1>3, <1>4, <1>5 DEF Spent

\* Find and the update of the entry: a closed task has no ack at this point.
LEMMA AckEnds ==
  ASSUME ~LockMayExpire, IInv, IInv', [Next]_vars, EndInv, NEW c \in Ctls,
         AckFind(c, "main") \/ AckQueue(c, "main")
  PROVE  EndInv'
<1>o. Orderly(c) BY DEF EndInv, AckInv
<1>r. ctl[c] \in CtlRec BY DEF IInv, TypeOK
<1>a. Main(c) \in AckRec BY DEF IInv, TypeOK, Main
<1>s. UNCHANGED <<doc, req, sender, notified, resub>> BY DEF AckFind, AckQueue
<1>p. Main(c).pc \in {"find", "queue"} BY DEF AckFind, AckQueue, Main
<1>e. ctl[c].pc # "clean" BY <1>o, <1>p DEF Orderly
<1>n. Main(c).note = FALSE BY <1>o, <1>p, <1>a DEF Orderly, AckRec
<1>1. \E a : ack' = [ack EXCEPT ![<<c, "main">>] = a] /\ a.note = FALSE
  <2>1. CASE AckFind(c, "main")
    <3> DEFINE a == [NoAck EXCEPT !.pc = "queue", !.seen = doc[ctl[c].task]]
    <3>1. a.note = FALSE /\ NoAck.note = FALSE OBVIOUS
    <3>2. ack' = [ack EXCEPT ![<<c, "main">>] = NoAck] \/ ack' = [ack EXCEPT ![<<c, "main">>] = a]
      BY <2>1 DEF AckFind
    <3> HIDE DEF a
    <3> QED BY <3>1, <3>2
  <2>2. CASE AckQueue(c, "main")
    <3> DEFINE a == [Main(c) EXCEPT !.pc = "save"]
    <3>1. a.note = FALSE BY <1>a, <1>n DEF AckRec
    <3>2. ack' = [ack EXCEPT ![<<c, "main">>] = a] BY <2>2 DEF AckQueue, Main
    <3> HIDE DEF a
    <3> QED BY <3>1, <3>2
  <2> QED BY <2>1, <2>2
<1>2. PICK a : ack' = [ack EXCEPT ![<<c, "main">>] = a] /\ a.note = FALSE BY <1>1
<1>3. \E new : /\ ctl' = [ctl EXCEPT ![c] = new]
               /\ new.pc = ctl[c].pc /\ new.task = ctl[c].task /\ new.ended = ctl[c].ended
               /\ new.status \in {ctl[c].status, "cancelled"}
  <2>1. ctl = [ctl EXCEPT ![c] = ctl[c]] BY DEF IInv, TypeOK
  <2> DEFINE new == [ctl[c] EXCEPT !.status = "cancelled"]
  <2>2. ctl' = ctl \/ ctl' = [ctl EXCEPT ![c] = new]
    <3>1. CASE AckQueue(c, "main") BY <3>1 DEF AckQueue
    <3>2. [ctl[c] EXCEPT !.status = ctl[c].status] = ctl[c] BY <1>r DEF CtlRec
    <3>3. CASE AckFind(c, "main")
      <4>1. CASE doc[ctl[c].task].status = "cancelled" BY <3>3, <4>1 DEF AckFind
      <4>2. CASE doc[ctl[c].task].status # "cancelled"
        <5>1. ctl' = ctl \/ ctl' = [ctl EXCEPT ![c].status = ctl[c].status]
          BY <3>3, <4>2 DEF AckFind
        <5>2. [ctl EXCEPT ![c].status = ctl[c].status] = ctl BY <3>2 DEF IInv, TypeOK
        <5> QED BY <5>1, <5>2
      <4> QED BY <4>1, <4>2
    <3> QED BY <3>1, <3>3
  <2>3. /\ new.pc = ctl[c].pc /\ new.task = ctl[c].task /\ new.ended = ctl[c].ended
        /\ new.status = "cancelled"
    BY <1>r DEF CtlRec
  <2> HIDE DEF new
  <2>4. CASE ctl' = ctl
    <3>1. ctl' = [ctl EXCEPT ![c] = ctl[c]] BY <2>1, <2>4
    <3> QED BY <3>1
  <2>5. CASE ctl' = [ctl EXCEPT ![c] = new] BY <2>3, <2>5
  <2> QED BY <2>2, <2>4, <2>5
<1>4. PICK new : /\ ctl' = [ctl EXCEPT ![c] = new]
                 /\ new.pc = ctl[c].pc /\ new.task = ctl[c].task /\ new.ended = ctl[c].ended
                 /\ new.status \in {ctl[c].status, "cancelled"}
  BY <1>3
<1>5. ctl'[c] = new /\ ack'[<<c, "main">>] = a BY <1>2, <1>4 DEF IInv, TypeOK
<1>6. Turn(c) /\ ack'[<<c, "side">>] = ack[<<c, "side">>] BY <1>2, <1>4, <1>s, TurnOf
<1>7. Alive(c) BY <1>p DEF IInv, Shape, Main
<1>8. Orderly(c)' BY <1>o, <1>s, <1>e, <1>2, <1>4, <1>5, <1>6, <1>7 DEF Orderly, Main
<1>9. Onward(c) BY <1>p, <1>4, <1>5, <1>7 DEF Onward, Closing
<1> QED BY <1>6, <1>8, <1>9, TurnKeeps

\* Save: the document of a task whose stages have ended is over from here on.
LEMMA SaveEnds ==
  ASSUME ~LockMayExpire, IInv, IInv', [Next]_vars, EndInv, NEW c \in Ctls, AckSave(c, "main")
  PROVE  EndInv'
<1> DEFINE t == ctl[c].task
           d == [status |-> ctl[c].status, ended |-> ctl[c].ended, deleted |-> ctl[c].deleted]
           seen == Main(c).seen
           a == [Main(c) EXCEPT !.pc = "finish",
                                !.note = isFirstComplete(c, seen) \/ isNewRejectOrPause(c, seen)]
<1>o. Orderly(c) BY DEF EndInv, AckInv
<1>r. ctl[c] \in CtlRec BY DEF IInv, TypeOK
<1>a. Main(c) \in AckRec BY DEF IInv, TypeOK, Main
<1>p. Main(c).pc = "save" BY DEF AckSave, Main
<1>l. Alive(c) BY <1>p DEF IInv, Shape, Main
<1>e. ctl[c].pc # "clean" BY <1>o, <1>p DEF Orderly
<1>t. t \in Tasks BY <1>l DEF IInv, Shape
<1>u. UNCHANGED <<req, sender, ctl, notified, resub>> BY DEF AckSave
<1>d. doc' = [doc EXCEPT ![t] = d] BY DEF AckSave
<1>1. doc'[t] = d /\ \A u \in Tasks \ {t} : doc'[u] = doc[u] BY <1>d, <1>t DEF IInv, TypeOK
<1>2. ack' = [ack EXCEPT ![<<c, "main">>] = a] \/ ack' = [ack EXCEPT ![<<c, "main">>] = NoAck]
  BY DEF AckSave, Main
<1>3. /\ a.pc = "finish" /\ NoAck.pc = "none" /\ NoAck.note = FALSE
      /\ a.note = (isFirstComplete(c, seen) \/ isNewRejectOrPause(c, seen))
  BY <1>a DEF AckRec
<1> HIDE DEF a
<1>4. /\ \A b \in Ctls \ {c} : Main(b)' = Main(b) /\ ack'[<<b, "side">>] = ack[<<b, "side">>]
      /\ ack'[<<c, "side">>] = ack[<<c, "side">>]
      /\ Main(c)' \in {a, NoAck}
  BY <1>2 DEF IInv, TypeOK, Main
<1>x. t \notin resub /\ (ctl[c].ended \/ ctl[c].status \in AckedStatus \/ ctl[c].status = "pause")
        => ctl[c].pc = "end"
  BY <1>o, <1>l, <1>e, <1>r DEF Orderly, EndInv, ClosedInv, AckedStatus, CtlRec
<1>m. isFirstComplete(c, seen) \/ isNewRejectOrPause(c, seen) =>
        ctl[c].ended \/ ctl[c].status \in AckedStatus \/ ctl[c].status = "pause"
  BY DEF isFirstComplete, isNewRejectOrPause, AckedStatus
<1>n. a.note /\ t \notin resub => ctl[c].pc = "end" BY <1>3, <1>x, <1>m
<1>5. Main(c)'.pc \in {"finish", "none"} BY <1>4, <1>3
<1>6. AckInv'
  <2>1. Orderly(c)' BY <1>o, <1>u, <1>4, <1>3, <1>n, <1>e, <1>l DEF Orderly
  <2>2. \A b \in Ctls \ {c} : Orderly(b)' BY <1>u, <1>4 DEF EndInv, AckInv, Orderly
  <2> QED BY <2>1, <2>2 DEF AckInv
<1>7. CtlBack
  <2>1. Onward(c) BY <1>u, <1>l, <1>p, <1>5 DEF Onward, Closing
  <2>2. ASSUME NEW b \in Ctls \ {c}, Alive(b)' PROVE Onward(b)
    <3>1. ctl'[b] = ctl[b] /\ Main(b)' = Main(b) BY <1>u, <1>4
    <3>2. Closing(b)' = Closing(b) BY <3>1 DEF Closing
    <3> QED BY <2>2, <3>1, <3>2 DEF Onward
  <2> QED BY <2>1, <2>2 DEF CtlBack
<1>8. NoteInv' BY <1>u, <1>7, NoteKeeps DEF EndInv
<1>9. ClosedInv'
  <2>1. ASSUME NEW u \in Tasks, u \notin resub', Closed(u)'
        PROVE  Spent(u)' /\ \A b \in Ctls : Alive(b)' /\ ctl'[b].task = u => Closing(b)'
    <3>1. CASE Closed(u)
      <4>1. Spent(u) /\ \A b \in Ctls : Alive(b) /\ ctl[b].task = u => Closing(b)
        BY <1>u, <2>1, <3>1 DEF EndInv, ClosedInv
      <4>2. Spent(u)' BY <2>1, <4>1, SpentStays
      <4> QED BY <4>1, <4>2, <1>7 DEF CtlBack, Onward
    <3>2. CASE ~Closed(u)
      <4>1. Over(doc'[u]) BY <2>1, <3>2, <1>u DEF Closed
      <4>2. u = t BY <4>1, <3>2, <1>1 DEF Closed
      <4>3. ctl[c].ended \/ ctl[c].status \in AckedStatus \/ ctl[c].status = "pause"
        BY <4>1, <4>2, <1>1 DEF Over
      <4>4. Closing(c)' BY <4>2, <4>3, <1>x, <1>u, <1>5, <2>1 DEF Closing
      <4>5. Spent(u)'
        <5>1. Spent(u) BY <4>2, <2>1, <1>u, <1>l, OwnedSpent
        <5> QED BY <5>1, <2>1, SpentStays
      <4>6. ASSUME NEW b \in Ctls, Alive(b)', ctl'[b].task = u PROVE b = c
        BY <4>6, <4>2, <1>u, <1>l, <2>1 DEF IInv, SingleController
      <4> QED BY <4>4, <4>5, <4>6
    <3> QED BY <3>1, <3>2
  <2> QED BY <2>1, <1>u DEF EndInv, ClosedInv
<1> QED BY <1>6, <1>8, <1>9 DEF EndInv

\* Finish: the announcement of a task that was never resubmitted is the first.
LEMMA FinishEnds ==
  ASSUME ~LockMayExpire, IInv, IInv', [Next]_vars, EndInv, NEW c \in Ctls, AckFinish(c, "main")
  PROVE  EndInv'
<1> DEFINE t == ctl[c].task
<1>o. Orderly(c) BY DEF EndInv, AckInv
<1>p. Main(c).pc = "finish" BY DEF AckFinish, Main
<1>l. Alive(c) BY <1>p DEF IInv, Shape, Main
<1>t. t \in Tasks BY <1>l DEF IInv, Shape
<1>u. UNCHANGED <<doc, req, sender, ctl, resub>> BY DEF AckFinish
<1>1. ack' = [ack EXCEPT ![<<c, "main">>] = NoAck] BY DEF AckFinish
<1>2. /\ \A b \in Ctls \ {c} : Main(b)' = Main(b) /\ ack'[<<b, "side">>] = ack[<<b, "side">>]
      /\ ack'[<<c, "side">>] = ack[<<c, "side">>]
      /\ Main(c)' = NoAck
  BY <1>1 DEF IInv, TypeOK, Main
<1>3. NoAck.pc = "none" /\ NoAck.note = FALSE OBVIOUS
<1>4. AckInv'
  <2>1. Orderly(c)' BY <1>o, <1>u, <1>2, <1>3 DEF Orderly
  <2>2. \A b \in Ctls \ {c} : Orderly(b)' BY <1>u, <1>2 DEF EndInv, AckInv, Orderly
  <2> QED BY <2>1, <2>2 DEF AckInv
<1>5. CtlBack
  <2>1. Onward(c) BY <1>u, <1>l, <1>p, <1>2, <1>3 DEF Onward, Closing
  <2>2. ASSUME NEW b \in Ctls \ {c}, Alive(b)' PROVE Onward(b)
    <3>1. ctl'[b] = ctl[b] /\ Main(b)' = Main(b) BY <1>u, <1>2
    <3>2. Closing(b)' = Closing(b) BY <3>1 DEF Closing
    <3> QED BY <2>2, <3>1, <3>2 DEF Onward
  <2> QED BY <2>1, <2>2 DEF CtlBack
<1>6. ClosedInv'
  <2>1. Back BY <1>u, BackStill DEF Back
  <2> QED BY <2>1, <1>5, ClosedKeeps DEF EndInv
<1>7. NoteInv'
  <2>n. /\ notified'[t] = IF Main(c).note THEN notified[t] + 1 ELSE notified[t]
        /\ \A u \in Tasks \ {t} : notified'[u] = notified[u]
    BY <1>t DEF AckFinish, Main, IInv, TypeOK
  <2> SUFFICES ASSUME NEW u \in Tasks, u \notin resub'
               PROVE  notified'[u] = 0 \/ (notified'[u] = 1 /\ Announced(u)')
    BY DEF NoteInv
  <2>1. CASE notified'[u] = notified[u]
    <3>1. Announced(u) => Announced(u)'
      <4>1. Announced(u) => Spent(u)' BY <1>u, SpentStays DEF Announced
      <4> QED BY <4>1, <1>5 DEF Announced, CtlBack, Onward
    <3> QED BY <2>1, <3>1, <1>u DEF EndInv, NoteInv
  <2>2. CASE notified'[u] # notified[u]
    <3>1. u = t /\ Main(c).note /\ notified'[t] = notified[t] + 1 BY <2>2, <2>n
    <3>2. ~Announced(t) BY <1>l, <1>p DEF Announced
    <3>3. notified[t] = 0 BY <3>1, <3>2, <1>u, <1>t DEF EndInv, NoteInv
    <3>4. ctl[c].pc = "end" BY <3>1, <1>o, <1>u DEF Orderly
    <3>5. Spent(u)'
      <4>1. Spent(u) BY <3>1, <1>u, <1>l, OwnedSpent
      <4> QED BY <4>1, SpentStays
    <3>6. ASSUME NEW b \in Ctls, Alive(b)', ctl'[b].task = u PROVE b = c
      BY <3>6, <3>1, <1>u, <1>l DEF IInv, SingleController
    <3>7. Announced(u)' BY <3>4, <3>5, <3>6, <1>u, <1>2, <1>3 DEF Announced
    <3> QED BY <3>1, <3>3, <3>7
  <2> QED BY <2>1, <2>2
<1> QED BY <1>4, <1>6, <1>7 DEF EndInv

\* A dispatched task is neither over nor announced.
LEMMA DispatchEnds ==
  ASSUME ~LockMayExpire, IInv, IInv', [Next]_vars, EndInv,
         NEW r \in Replicas, NEW c \in Ctls, SenderDispatch(r, c)
  PROVE  EndInv'
<1> DEFINE t == sender[r].pick
           new == [FreeCtl EXCEPT !.pc = "subscribe", !.task = t, !.host = r,
                     !.ended = sender[r].seen.ended, !.deleted = sender[r].seen.deleted]
           a == [NoAck EXCEPT !.pc = "find"]
<1>1. /\ ctl' = [ctl EXCEPT ![c] = new] /\ ack' = [ack EXCEPT ![<<c, "main">>] = a]
      /\ sender' = [sender EXCEPT ![r] = IdleSender] /\ sender[r].pc = "dispatch"
  BY DEF SenderDispatch
<1>u. UNCHANGED <<doc, req, notified, resub>> BY DEF SenderDispatch
<1>2. /\ new.pc = "subscribe" /\ new.task = t /\ new.status = "running"
      /\ new.ended = sender[r].seen.ended /\ a.pc = "find" /\ a.note = FALSE
  OBVIOUS
<1> HIDE DEF new, a
<1>3. /\ ctl'[c] = new /\ Main(c)' = a /\ ack'[<<c, "side">>] = ack[<<c, "side">>]
      /\ \A b \in Ctls \ {c} : /\ ctl'[b] = ctl[b] /\ Main(b)' = Main(b)
                               /\ ack'[<<b, "side">>] = ack[<<b, "side">>]
  BY <1>1 DEF IInv, TypeOK, Main
<1>4. \A q \in Replicas : sender'[q] = sender[q] \/ sender'[q].pc = "idle"
  BY <1>1 DEF IInv, TypeOK
<1>5. AckInv'
  <2>1. Orderly(c)' BY <1>u, <1>2, <1>3 DEF EndInv, AckInv, Orderly
  <2>2. \A b \in Ctls \ {c} : Orderly(b)' BY <1>u, <1>3, ZenonT(30) DEF EndInv, AckInv, Orderly
  <2> QED BY <2>1, <2>2 DEF AckInv
<1>6. ASSUME NEW u \in Tasks, Spent(u), NEW b \in Ctls, ctl'[b].task = u PROVE b # c
  BY <1>2, <1>3, <1>6 DEF Spent, Chosen
<1>7. ClosedInv'
  <2>1. ASSUME NEW u \in Tasks, u \notin resub', Closed(u)'
        PROVE  Spent(u)' /\ \A b \in Ctls : Alive(b)' /\ ctl'[b].task = u => Closing(b)'
    <3>1. Closed(u) BY <2>1, <1>u DEF Closed
    <3>2. Spent(u) /\ \A b \in Ctls : Alive(b) /\ ctl[b].task = u => Closing(b)
      BY <1>u, <2>1, <3>1 DEF EndInv, ClosedInv
    <3>3. Spent(u)' BY <2>1, <3>2, SpentStays
    <3>4. ASSUME NEW b \in Ctls, Alive(b)', ctl'[b].task = u PROVE Closing(b)'
      <4>1. b # c BY <1>6, <3>2, <3>4
      <4> QED BY <4>1, <1>3, <3>2, <3>4 DEF Closing
    <3> QED BY <3>3, <3>4
  <2>2. \A q \in Replicas :
          sender'[q].pc = "dispatch" /\ sender'[q].pick \notin resub' => ~sender'[q].seen.ended
    BY <1>4, <1>u DEF EndInv, ClosedInv
  <2>3. t \notin resub => ~new.ended BY <1>1, <1>2 DEF EndInv, ClosedInv
  <2>4. ASSUME NEW b \in Ctls, Alive(b)', ctl'[b].task \notin resub', ctl'[b].pc # "end"
        PROVE  ~ctl'[b].ended
    <3>1. CASE b = c BY <3>1, <2>3, <2>4, <1>2, <1>3, <1>u
    <3>2. CASE b # c BY <3>2, <2>4, <1>3, <1>u DEF EndInv, ClosedInv
    <3> QED BY <3>1, <3>2
  <2> QED BY <2>1, <2>2, <2>4 DEF ClosedInv
<1>8. NoteInv'
  <2> SUFFICES ASSUME NEW u \in Tasks, u \notin resub', Announced(u) PROVE Announced(u)'
    BY <1>u DEF EndInv, NoteInv
  <2>1. Spent(u) /\ Spent(u)' BY SpentStays DEF Announced
  <2>2. ASSUME NEW b \in Ctls, Alive(b)', ctl'[b].task = u
        PROVE  ctl'[b].pc = "end" /\ Main(b)'.pc = "none"
    <3>1. b # c BY <1>6, <2>1, <2>2
    <3> QED BY <3>1, <1>3, <2>2 DEF Announced
  <2> QED BY <2>1, <2>2 DEF Announced
<1> QED BY <1>5, <1>7, <1>8 DEF EndInv

\* Nothing is over at the start.
LEMMA EndInit == Init => EndInv
<1> SUFFICES ASSUME Init PROVE EndInv OBVIOUS
<1>1. AckInv BY DEF Init, AckInv, Orderly, Main
<1>2. \A t \in Tasks : ~Over(doc[t]) BY DEF Init, Over, AckedStatus
<1>3. \A p \in Procs : ~Over(req[p].seen) BY DEF Init, Over, AckedStatus
<1>4. ClosedInv BY <1>2, <1>3 DEF Init, ClosedInv, Closed
<1>5. NoteInv BY DEF Init, NoteInv
<1> QED BY <1>1, <1>4, <1>5 DEF EndInv

\* Every step keeps announcements and documents in line.
LEMMA EndNext ==
  ASSUME ~LockMayExpire, ~SideAcks, IInv, IInv', EndInv, [Next]_vars
  PROVE  EndInv'
<1>1. ASSUME NEW h \in Handlers, HandlerStep(h) \/ RequestStep(h) PROVE EndInv'
  BY <1>1, HandlerAside, RequestAside, AsideKeeps
<1>2. ASSUME NEW p \in Procs, CancelStep(p) PROVE EndInv' BY <1>2, CancelAside, AsideKeeps
<1>3. ASSUME NEW w \in Workflows, DeleteTestModule(w) PROVE EndInv'
  <2>1. Back /\ Aside BY <1>3, BackStill DEF DeleteTestModule, Back
  <2> QED BY <2>1, AsideKeeps
<1>4. ASSUME NEW r \in Replicas, SenderStep(r) PROVE EndInv'
  BY <1>4, SenderAside, AsideKeeps, DispatchEnds
<1>5. ASSUME NEW r \in Replicas, ReplicaStep(r) PROVE EndInv'
  BY <1>5, ReplicaAside, AsideKeeps, CrashEnds
<1>6. ASSUME NEW c \in Ctls, CtlStep(c) PROVE EndInv' BY <1>6, CtlEnds
<1>7. ASSUME NEW c \in Ctls, NEW th \in Threads, AckStep(c, th) PROVE EndInv'
  <2>1. ack[<<c, "side">>].pc = "none" BY DEF EndInv, AckInv, Orderly
  <2>2. th = "main" BY <1>7, <2>1 DEF AckStep, AckFind, AckQueue, AckSave, AckFinish
  <2> QED BY <1>7, <2>2, AckEnds, SaveEnds, FinishEnds DEF AckStep
<1>8. CASE UNCHANGED vars
  <2>1. Back /\ Aside BY <1>8, BackStill DEF vars, Back
  <2> QED BY <2>1, AsideKeeps
<1> QED BY <1>1, <1>2, <1>3, <1>4, <1>5, <1>6, <1>7, <1>8 DEF Next

\* updateWorkflowTask announces a task that was never resubmitted at most once,
\* whatever requests write back in between, as long as the sender's lock outlives
\* its round and no debug event makes a second goroutine ack.
THEOREM AnnouncedOnce ==
  ASSUME ~LockMayExpire, ~SideAcks
  PROVE  Spec => []NotifiedOnce
<1>1. Init => IInv /\ EndInv BY IInvInit, EndInit
<1>2. (IInv /\ EndInv) /\ [Next]_vars => (IInv /\ EndInv)' BY IInvNext, EndNext
<1>3. IInv /\ EndInv => NotifiedOnce BY DEF EndInv, NoteInv, NotifiedOnce
<1> QED BY <1>1, <1>2, <1>3, PTL DEF Spec

-----------------------------------------------------------------------------
(* Runs whose stages end with status running.                                *)

\* After its stages a controller has status running only when they left it undecided.
DecidedInv ==
  \A c \in Ctls : ctl[c].pc \in {"clean", "end"} /\ ctl[c].status = "running"
    => ctl[c].task \in undecided

\* Nothing takes a task out of the undecided ones.
LEMMA UndecidedNext ==
  ASSUME [Next]_vars
  PROVE  undecided \subseteq undecided'
<1>1. ASSUME NEW h \in Handlers, HandlerStep(h) \/ RequestStep(h) PROVE undecided' = undecided
  BY <1>1 DEF HandlerStep, RequestStep, CreateTask, CancelFind, TouchFind, RetryWorkflowTaskV4,
    ManualExecWorkflowTaskV4, Resubmit, DeleteWorkflowV4, Push, ResubmitUpdate, TouchUpdate,
    DeleteByID, DeleteByWorkflowName
<1>2. ASSUME NEW p \in Procs, CancelStep(p) PROVE undecided' = undecided
  BY <1>2 DEF CancelStep, CancelRemove, CancelUpdate, CancelPublish, CancelNext
<1>3. ASSUME NEW r \in Replicas, SenderStep(r) \/ ReplicaStep(r) PROVE undecided' = undecided
  BY <1>3 DEF SenderStep, ReplicaStep, BootStep, SenderLock, SenderList, SenderGiveUp, SenderFind,
    SenderScan, SenderDispatch, LockExpire, Crash, Restart, BootDone
<1>4. ASSUME NEW c \in Ctls, CtlStep(c) PROVE undecided \subseteq undecided'
  BY <1>4 DEF CtlStep, Subscribe, StageAck, DebugEvent, ReceiveCancel, FinishStages,
    FinishRun, CtlExit
<1>5. ASSUME NEW c \in Ctls, NEW th \in Threads, AckStep(c, th) PROVE undecided' = undecided
  BY <1>5 DEF AckStep, AckFind, AckQueue, AckSave, AckFinish
<1> QED BY <1>1, <1>2, <1>3, <1>4, <1>5 DEF Next, DeleteTestModule, vars

\* Only FinishStages brings a controller past its stages.
LEMMA DecidedNext ==
  ASSUME IInv, EndInv, DecidedInv, [Next]_vars
  PROVE  DecidedInv'
<1>u. undecided \subseteq undecided' BY UndecidedNext
<1>r. \A c \in Ctls : ctl[c] \in CtlRec BY DEF IInv, TypeOK
<1>a. ASSUME Aside PROVE DecidedInv' BY <1>a, <1>u DEF Aside, DecidedInv
<1>o. ASSUME NEW c \in Ctls, \A d \in Ctls \ {c} : ctl'[d] = ctl[d],
             ctl'[c].pc \in {"clean", "end"} /\ ctl'[c].status = "running"
               => ctl'[c].task \in undecided'
      PROVE  DecidedInv'
  BY <1>o, <1>u DEF DecidedInv
<1>1. ASSUME NEW h \in Handlers, HandlerStep(h) \/ RequestStep(h) PROVE DecidedInv'
  BY <1>a, <1>1, HandlerAside, RequestAside
<1>2. ASSUME NEW p \in Procs, CancelStep(p) PROVE DecidedInv' BY <1>a, <1>2, CancelAside
<1>3. ASSUME NEW w \in Workflows, DeleteTestModule(w) PROVE DecidedInv'
  BY <1>a, <1>3, BackStill DEF DeleteTestModule
<1>4. ASSUME NEW r \in Replicas, SenderStep(r) PROVE DecidedInv'
  <2>1. ASSUME NEW c \in Ctls, SenderDispatch(r, c) PROVE DecidedInv'
    <3>1. ctl'[c].pc = "subscribe" /\ \A d \in Ctls \ {c} : ctl'[d] = ctl[d]
      BY <2>1 DEF SenderDispatch, IInv, TypeOK
    <3> QED BY <1>o, <3>1
  <2> QED BY <1>a, <1>4, <2>1, SenderAside
<1>5. ASSUME NEW r \in Replicas, ReplicaStep(r) PROVE DecidedInv'
  <2>1. CASE Crash(r)
    <3>1. \A c \in Ctls : ctl'[c] = ctl[c] \/ ctl'[c].pc = "free" BY <2>1 DEF Crash
    <3> QED BY <1>u, <3>1 DEF DecidedInv
  <2> QED BY <1>a, <1>5, <2>1, ReplicaAside
<1>6. ASSUME NEW c \in Ctls, CtlStep(c) PROVE DecidedInv'
  <2>1. \A d \in Ctls \ {c} : ctl'[d] = ctl[d]
    BY <1>6 DEF CtlStep, Subscribe, StageAck, DebugEvent, ReceiveCancel, FinishStages, FinishRun,
                CtlExit, IInv, TypeOK
  <2>2. CASE StageAck(c) \/ DebugEvent(c)
    <3>1. ctl' = ctl BY <2>2 DEF StageAck, DebugEvent
    <3> QED BY <1>u, <3>1 DEF DecidedInv
  <2>3. CASE Subscribe(c) \/ CtlExit(c)
    <3>c. ctl[c] \in CtlRec BY <1>r
    <3>1. Subscribe(c) => ctl'[c].pc = "run" BY <3>c DEF Subscribe, IInv, TypeOK, CtlRec
    <3>2. CtlExit(c) => ctl'[c].pc = "free" BY DEF CtlExit, IInv, TypeOK
    <3> QED BY <1>o, <2>1, <2>3, <3>1, <3>2
  <2>4. CASE ReceiveCancel(c) \/ FinishRun(c)
    <3>c. ctl[c] \in CtlRec BY <1>r
    <3>1. /\ ctl'[c].task = ctl[c].task /\ ctl'[c].status = ctl[c].status
          /\ ctl'[c].pc = ctl[c].pc \/ ctl[c].pc = "clean"
      <4>1. CASE ReceiveCancel(c) BY <4>1, <3>c DEF ReceiveCancel, IInv, TypeOK, CtlRec
      <4>2. CASE FinishRun(c) BY <4>2, <3>c DEF FinishRun, IInv, TypeOK, CtlRec
      <4> QED BY <2>4, <4>1, <4>2
    <3> QED BY <1>o, <1>u, <2>1, <3>1 DEF DecidedInv
  <2>5. ASSUME NEW o \in Outcomes, FinishStages(c, o) PROVE DecidedInv'
    <3>1. ctl'[c].task = ctl[c].task /\ ctl'[c].status = o
      BY <2>5, <1>r DEF FinishStages, IInv, TypeOK, CtlRec
    <3>2. o = "running" => ctl[c].task \in undecided' BY <2>5 DEF FinishStages
    <3> QED BY <1>o, <2>1, <3>1, <3>2
  <2> QED BY <1>6, <2>2, <2>3, <2>4, <2>5 DEF CtlStep
<1>7. ASSUME NEW c \in Ctls, NEW th \in Threads, AckStep(c, th) PROVE DecidedInv'
  <2>1. CASE AckFind(c, th)
    <3>1. \A d \in Ctls \ {c} : ctl'[d] = ctl[d] BY <2>1 DEF AckFind, IInv, TypeOK
    <3>2. /\ ctl'[c].pc = ctl[c].pc /\ ctl'[c].task = ctl[c].task
          /\ ctl'[c].status \in {ctl[c].status, "cancelled"}
      BY <2>1, <1>r DEF AckFind, IInv, TypeOK, CtlRec
    <3> QED BY <1>o, <1>u, <3>1, <3>2 DEF DecidedInv
  <2>2. CASE AckQueue(c, th) \/ AckSave(c, th) \/ AckFinish(c, th)
    <3>1. ctl' = ctl BY <2>2 DEF AckQueue, AckSave, AckFinish
    <3> QED BY <1>u, <3>1 DEF DecidedInv
  <2> QED BY <1>7, <2>1, <2>2 DEF AckStep
<1>8. CASE UNCHANGED vars BY <1>8 DEF vars, DecidedInv
<1> QED BY <1>1, <1>2, <1>3, <1>4, <1>5, <1>6, <1>7, <1>8 DEF Next

-----------------------------------------------------------------------------
(* Entries.  Until a controller exits its task's entry is its own; the last  *)
(* ack finds a document that is not over yet, removes the entry unless the    *)
(* status is skipped or running, and announces the completion.               *)

Untold(d) == ~d.ended /\ d.status \notin {"reject", "pause"}

\* A controller after its stages, step by step through the last ack.
LeaveInv(c) ==
  LET t == ctl[c].task IN
  ctl[c].pc = "end" /\ t \notin resub =>
    /\ ctl[c].ended
    /\ \/ Main(c).pc = "find"
       \/ Main(c).pc = "queue" /\ Untold(Main(c).seen)
       \/ Main(c).pc = "save" /\ Untold(Main(c).seen) /\ queue[t] \in {Absent, ctl[c].status}
       \/ Main(c).pc = "finish" /\ Main(c).note
       \/ /\ Main(c).pc = "none" /\ (queue[t] \in {Absent, "skipped"} \/ t \in undecided)
          /\ ctl[c].status \in DoneStatus => notified[t] >= 1

Kept(t) == queue[t] \in {Absent, "waiting", "skipped"} \/ t \in undecided \/ Owned(t)

\* L: the tasks whose entry lost its controller.
LastInv(L) ==
  /\ \A c \in Ctls : LeaveInv(c)
  /\ \A t \in Tasks \ resub : t \in L \/ Kept(t)

\* Entries of other tasks than those a step has in hand are left or removed.
QueueBack ==
  \A t \in Tasks : t \notin resub' =>
    queue'[t] \in {queue[t], Absent} \/ (queue'[t] = "waiting" /\ ~Owned(t))

\* Only a dispatch and an ack give an entry another status than waiting.
LEMMA QueueAside ==
  ASSUME ~LockMayExpire, IInv, [Next]_vars
  PROVE  \/ QueueBack
         \/ \E r \in Replicas, c \in Ctls : SenderDispatch(r, c)
         \/ \E c \in Ctls, th \in Threads : AckQueue(c, th)
<1>1. CASE Calm BY <1>1 DEF Calm, CalmQueue, QueueBack
<1>2. ASSUME queue' = queue PROVE QueueBack BY <1>2 DEF QueueBack
<1>3. ASSUME NEW h \in Handlers, NEW t \in Tasks, CreateTask(h, t) PROVE QueueBack
  BY <1>2, <1>3 DEF CreateTask
<1>4. ASSUME NEW h \in Handlers, Push(h) PROVE QueueBack
  <2> SUFFICES ASSUME NEW t \in Tasks, t \notin resub', queue'[t] # queue[t]
               PROVE  queue'[t] = "waiting" /\ ~Owned(t)
    BY DEF QueueBack
  <2>1. req[h].task = t /\ queue'[t] = "waiting" /\ resub' = resub
    BY <1>4 DEF Push, QueueCreate, IInv, TypeOK
  <2>2. Pushing(h, t) BY <1>4, <2>1 DEF Push, Pushing
  <2> QED BY <2>1, <2>2 DEF IInv, PushInv
<1>5. ASSUME NEW h \in Handlers, ResubmitUpdate(h) PROVE QueueBack
  BY <1>2, <1>5 DEF ResubmitUpdate
<1>6. ASSUME NEW r \in Replicas, SenderLock(r) \/ SenderList(r) PROVE QueueBack
  BY <1>2, <1>6 DEF SenderLock, SenderList
<1> QED BY <1>1, <1>3, <1>4, <1>5, <1>6, StepKinds

\* A step that is not a controller's leaves the last acks alone.
LEMMA AsideLast ==
  ASSUME NEW L, IInv, LastInv(L), Aside, Back, QueueBack, undecided \subseteq undecided'
  PROVE  LastInv(L)'
<1>1. ASSUME NEW t \in Tasks PROVE Owned(t)' = Owned(t) BY DEF Owned, Aside
<1>2. ASSUME NEW t \in Tasks, t \notin resub', t \notin L PROVE Kept(t)'
  <2>1. Kept(t) BY <1>2 DEF LastInv, Back
  <2> QED BY <1>1, <1>2, <2>1 DEF Kept, QueueBack
<1>3. ASSUME NEW c \in Ctls PROVE LeaveInv(c)'
  <2> SUFFICES ASSUME ctl'[c].pc = "end", ctl'[c].task \notin resub' PROVE LeaveInv(c)'
    BY DEF LeaveInv
  <2> DEFINE t == ctl[c].task
  <2>1. /\ ctl'[c].pc = ctl[c].pc /\ ctl'[c].task = t
        /\ ctl'[c].status = ctl[c].status /\ ctl'[c].ended = ctl[c].ended
        /\ Main(c)' = Main(c) /\ notified' = notified
    BY DEF Aside, Main
  <2>2. t \in Tasks /\ Owned(t) /\ t \notin resub BY <2>1 DEF IInv, Shape, Owned, Back
  <2>3. queue'[t] \in {queue[t], Absent} BY <2>1, <2>2 DEF QueueBack
  <2>4. LeaveInv(c) BY DEF LastInv
  <2> QED BY <2>1, <2>2, <2>3, <2>4 DEF LeaveInv
<1> QED BY <1>2, <1>3 DEF LastInv

\* A controller on another task than the step's is not touched.
LEMMA OtherLeaves ==
  ASSUME IInv, NEW d \in Ctls, LeaveInv(d), NEW u, ctl'[d] = ctl[d], Main(d)' = Main(d),
         resub' = resub, undecided \subseteq undecided',
         ctl[d].pc = "end" /\ ctl[d].task \notin resub => ctl[d].task # u,
         \A t \in Tasks : t # u => queue'[t] = queue[t] /\ notified'[t] = notified[t]
  PROVE  LeaveInv(d)'
<1> SUFFICES ASSUME ctl[d].pc = "end", ctl[d].task \notin resub PROVE LeaveInv(d)'
  BY DEF LeaveInv
<1>2. ctl[d].task \in Tasks BY DEF IInv, Shape
<1>3. queue'[ctl[d].task] = queue[ctl[d].task] /\ notified'[ctl[d].task] = notified[ctl[d].task]
  BY <1>2
<1> QED BY <1>3 DEF LeaveInv

\* The step of a controller that has its task for itself.
LEMMA OwnLast ==
  ASSUME NEW L, IInv, LastInv(L), NEW c \in Ctls, Alive(c), resub' = resub,
         undecided \subseteq undecided',
         \A d \in Ctls \ {c} : ctl'[d] = ctl[d] /\ Main(d)' = Main(d),
         \A t \in Tasks : t # ctl[c].task => queue'[t] = queue[t] /\ notified'[t] = notified[t],
         LeaveInv(c)', Alive(c)' => ctl'[c].task = ctl[c].task,
         ~Alive(c)' => /\ \/ ctl[c].task \in resub \cup undecided
                          \/ queue[ctl[c].task] \in {Absent, "skipped"}
                       /\ queue' = queue
  PROVE  LastInv(L)'
<1>1. ASSUME NEW d \in Ctls \ {c} PROVE LeaveInv(d)'
  <2>1. ctl[d].pc = "end" /\ ctl[d].task \notin resub => ctl[d].task # ctl[c].task
    BY DEF IInv, SingleController
  <2>2. LeaveInv(d) BY DEF LastInv
  <2> QED BY <2>1, <2>2, OtherLeaves
<1>2. ASSUME NEW t \in Tasks, t \notin resub, t \notin L PROVE Kept(t)'
  <2>1. Kept(t) BY <1>2 DEF LastInv
  <2>2. CASE Alive(c)'
    <3>1. CASE t = ctl[c].task BY <2>2, <3>1 DEF Kept, Owned
    <3>2. CASE t # ctl[c].task
      <4>1. Owned(t) => Owned(t)' BY <2>2 DEF Owned
      <4> QED BY <2>1, <3>2, <4>1 DEF Kept
    <3> QED BY <3>1, <3>2
  <2>3. CASE ~Alive(c)'
    <3>1. CASE t = ctl[c].task BY <1>2, <2>3, <3>1 DEF Kept
    <3>2. CASE t # ctl[c].task
      <4>1. Owned(t) => Owned(t)' BY <3>2 DEF Owned
      <4> QED BY <2>1, <3>2, <4>1 DEF Kept
    <3> QED BY <3>1, <3>2
  <2> QED BY <2>2, <2>3
<1> QED BY <1>1, <1>2 DEF LastInv

\* Run returns only after its last ack.
LEMMA CtlLast ==
  ASSUME NEW L, ~SideAcks, IInv, LastInv(L), NEW c \in Ctls, CtlStep(c)
  PROVE  LastInv(L)'
<1>r. ctl[c] \in CtlRec BY DEF IInv, TypeOK
<1>v. LeaveInv(c) BY DEF LastInv
<1>u. UNCHANGED <<queue, notified, resub>> /\ undecided \subseteq undecided'
  BY DEF CtlStep, Subscribe, StageAck, DebugEvent, ReceiveCancel, FinishStages, FinishRun, CtlExit
<1>f. ASSUME NEW new, ctl' = [ctl EXCEPT ![c] = new]
      PROVE  ctl'[c] = new /\ \A d \in Ctls \ {c} : ctl'[d] = ctl[d]
  BY <1>f DEF IInv, TypeOK
<1>1. CASE Subscribe(c)
  <2> DEFINE new == [ctl[c] EXCEPT !.pc = "run", !.sub = TRUE]
  <2>1. ctl[c].pc = "subscribe" /\ ctl' = [ctl EXCEPT ![c] = new] /\ ack' = ack
    BY <1>1 DEF Subscribe
  <2>2. new.pc = "run" /\ new.task = ctl[c].task BY <1>r DEF CtlRec
  <2> HIDE DEF new
  <2>3. LeaveInv(c)' BY <2>1, <2>2, <1>f DEF LeaveInv
  <2> QED BY <1>u, <1>f, <2>1, <2>2, <2>3, OwnLast DEF Main
<1>2. CASE StageAck(c)
  <2>1. ctl[c].pc = "run" /\ ctl' = ctl BY <1>2 DEF StageAck
  <2>2. \A d \in Ctls \ {c} : Main(d)' = Main(d) BY <1>2 DEF StageAck, Main, IInv, TypeOK
  <2>3. LeaveInv(c)' BY <2>1 DEF LeaveInv
  <2> QED BY <1>u, <2>1, <2>2, <2>3, OwnLast
<1>3. CASE DebugEvent(c) BY <1>3 DEF DebugEvent
<1>4. CASE ReceiveCancel(c)
  <2> DEFINE new == [ctl[c] EXCEPT !.ctx = TRUE]
  <2>1. ctl' = [ctl EXCEPT ![c] = new] /\ ack' = ack /\ Alive(c)
    BY <1>4 DEF ReceiveCancel, IInv, Shape
  <2>2. /\ new.pc = ctl[c].pc /\ new.task = ctl[c].task /\ new.status = ctl[c].status
        /\ new.ended = ctl[c].ended
    BY <1>r DEF CtlRec
  <2> HIDE DEF new
  <2>3. LeaveInv(c)' BY <1>u, <1>v, <2>1, <2>2, <1>f DEF LeaveInv, Main
  <2> QED BY <1>u, <1>f, <2>1, <2>2, <2>3, OwnLast DEF Main
<1>5. ASSUME NEW o \in Outcomes, FinishStages(c, o) PROVE LastInv(L)'
  <2> DEFINE new == [ctl[c] EXCEPT !.pc = "clean", !.status = o]
  <2>1. ctl[c].pc = "run" /\ ctl' = [ctl EXCEPT ![c] = new] /\ ack' = ack
    BY <1>5 DEF FinishStages
  <2>2. new.pc = "clean" /\ new.task = ctl[c].task BY <1>r DEF CtlRec
  <2> HIDE DEF new
  <2>3. LeaveInv(c)' BY <2>1, <2>2, <1>f DEF LeaveInv
  <2> QED BY <1>u, <1>f, <2>1, <2>2, <2>3, OwnLast DEF Main
<1>6. CASE FinishRun(c)
  <2> DEFINE new == [ctl[c] EXCEPT !.pc = "end", !.ended = TRUE, !.sub = FALSE, !.ctx = TRUE]
             a == [NoAck EXCEPT !.pc = "find"]
  <2>1. /\ ctl[c].pc = "clean" /\ ctl' = [ctl EXCEPT ![c] = new]
        /\ ack' = [ack EXCEPT ![<<c, "main">>] = a]
    BY <1>6 DEF FinishRun
  <2>2. new.pc = "end" /\ new.task = ctl[c].task /\ new.ended = TRUE BY <1>r DEF CtlRec
  <2>3. a.pc = "find" OBVIOUS
  <2>4. Main(c)' = a /\ \A d \in Ctls \ {c} : Main(d)' = Main(d) BY <2>1 DEF IInv, TypeOK, Main
  <2> HIDE DEF new, a
  <2>5. LeaveInv(c)' BY <2>1, <2>2, <2>3, <2>4, <1>f DEF LeaveInv
  <2> QED BY <1>u, <1>f, <2>1, <2>2, <2>4, <2>5, OwnLast
<1>7. CASE CtlExit(c)
  <2>1. /\ ctl' = [ctl EXCEPT ![c] = FreeCtl] /\ ack' = ack /\ Main(c).pc = "none"
        /\ ctl[c].pc = "end"
    BY <1>7 DEF CtlExit, Quiet, Main
  <2>2. FreeCtl.pc = "free" OBVIOUS
  <2>3. ctl'[c].pc = "free" BY <2>1, <2>2, <1>f
  <2>4. LeaveInv(c)' BY <2>3 DEF LeaveInv
  <2>5. ctl[c].task \in resub \cup undecided \/ queue[ctl[c].task] \in {Absent, "skipped"}
    BY <1>v, <2>1 DEF LeaveInv
  <2> QED BY <1>u, <1>f, <2>1, <2>3, <2>4, <2>5, OwnLast DEF Main
<1> QED BY <1>1, <1>2, <1>3, <1>4, <1>5, <1>6, <1>7 DEF CtlStep

\* The acks of a controller after its stages, in their order.
LEMMA AckLast ==
  ASSUME NEW L, IInv, EndInv, DecidedInv, LastInv(L), NEW c \in Ctls, AckStep(c, "main")
  PROVE  LastInv(L)'
<1> DEFINE t == ctl[c].task
<1>r. ctl[c] \in CtlRec BY DEF IInv, TypeOK
<1>a. Main(c) \in AckRec BY DEF IInv, TypeOK, Main
<1>o. Orderly(c) BY DEF EndInv, AckInv
<1>v. LeaveInv(c) BY DEF LastInv
<1>p. Main(c).pc # "none" BY DEF AckStep, AckFind, AckQueue, AckSave, AckFinish, Main
<1>l. Alive(c) /\ t \in Tasks BY <1>p DEF IInv, Shape, Main
<1>s. resub' = resub /\ undecided' = undecided BY DEF AckStep, AckFind, AckQueue, AckSave, AckFinish
<1>m. \A d \in Ctls \ {c} : Main(d)' = Main(d)
  BY DEF AckStep, AckFind, AckQueue, AckSave, AckFinish, Main, IInv, TypeOK
<1>g. ASSUME NEW a, ack' = [ack EXCEPT ![<<c, "main">>] = a] PROVE Main(c)' = a
  BY <1>g DEF IInv, TypeOK, Main
<1>1. CASE AckFind(c, "main")
  <2>u. UNCHANGED <<queue, notified>> BY <1>1 DEF AckFind
  <2>1. \A d \in Ctls \ {c} : ctl'[d] = ctl[d] BY <1>1 DEF AckFind, IInv, TypeOK
  <2>2. ctl'[c].pc = ctl[c].pc /\ ctl'[c].task = t /\ ctl'[c].ended = ctl[c].ended
    BY <1>1, <1>r DEF AckFind, IInv, TypeOK, CtlRec
  <2>3. LeaveInv(c)'
    <3> SUFFICES ASSUME ctl[c].pc = "end", t \notin resub
                 PROVE  Main(c)'.pc = "queue" /\ Untold(Main(c)'.seen)
      BY <1>s, <1>v, <2>2 DEF LeaveInv
    <3>1. Main(c).pc = "find" BY <1>1 DEF AckFind, Main
    <3>2. ~Closed(t) BY <3>1, <1>l DEF EndInv, ClosedInv, Closing
    <3>3. ~Over(doc[t]) BY <3>2 DEF Closed
    <3> DEFINE a == [NoAck EXCEPT !.pc = "queue", !.seen = doc[t]]
    <3>4. ack' = [ack EXCEPT ![<<c, "main">>] = a] BY <1>1, <3>3 DEF AckFind, Over
    <3>5. a.pc = "queue" /\ a.seen = doc[t] OBVIOUS
    <3>6. Untold(doc[t]) BY <3>3 DEF Untold, Over, AckedStatus
    <3> HIDE DEF a
    <3> QED BY <3>4, <3>5, <3>6, <1>g
  <2> QED BY <1>l, <1>m, <1>s, <2>u, <2>1, <2>2, <2>3, OwnLast
<1>2. CASE AckQueue(c, "main")
  <2>u. UNCHANGED <<ctl, notified>> BY <1>2 DEF AckQueue
  <2> DEFINE a == [Main(c) EXCEPT !.pc = "save"]
  <2>1. ack' = [ack EXCEPT ![<<c, "main">>] = a] /\ Main(c).pc = "queue" BY <1>2 DEF AckQueue, Main
  <2>2. a.pc = "save" /\ a.seen = Main(c).seen BY <1>a DEF AckRec
  <2> HIDE DEF a
  <2>3. Main(c)' = a BY <2>1, <1>g
  <2>4. queue'[t] \in {Absent, ctl[c].status} /\ \A u \in Tasks \ {t} : queue'[u] = queue[u]
    BY <1>2, <1>l DEF AckQueue, QueueUpdate, IInv, TypeOK
  <2>5. LeaveInv(c)' BY <1>s, <1>v, <2>u, <2>1, <2>2, <2>3, <2>4 DEF LeaveInv
  <2> QED BY <1>l, <1>m, <1>s, <2>u, <2>4, <2>5, OwnLast
<1>3. CASE AckSave(c, "main")
  <2>u. UNCHANGED <<ctl, queue, notified>> BY <1>3 DEF AckSave
  <2> DEFINE seen == Main(c).seen
             a == [Main(c) EXCEPT !.pc = "finish",
                     !.note = isFirstComplete(c, seen) \/ isNewRejectOrPause(c, seen)]
  <2>1. Main(c).pc = "save" BY <1>3 DEF AckSave, Main
  <2>2. a.pc = "finish" /\ a.note = (isFirstComplete(c, seen) \/ isNewRejectOrPause(c, seen))
    BY <1>a DEF AckRec
  <2>3. ack' = [ack EXCEPT ![<<c, "main">>] = IF ctl[c].status \in DoneStatus THEN a ELSE NoAck]
    BY <1>3 DEF AckSave, Main
  <2> HIDE DEF a
  <2>4. Main(c)' = IF ctl[c].status \in DoneStatus THEN a ELSE NoAck BY <2>3, <1>g
  <2>5. LeaveInv(c)'
    <3> SUFFICES ASSUME ctl[c].pc = "end", t \notin resub PROVE LeaveInv(c)'
      BY <1>s, <2>u DEF LeaveInv
    <3>1. ctl[c].ended /\ Untold(seen) /\ queue[t] \in {Absent, ctl[c].status}
      BY <1>v, <2>1 DEF LeaveInv
    <3>2. CASE ctl[c].status \in DoneStatus
      <4>1. isFirstComplete(c, seen) \/ isNewRejectOrPause(c, seen)
        BY <3>1, <3>2 DEF DoneStatus, Untold, isFirstComplete, isNewRejectOrPause, Finished
      <4> QED BY <1>s, <2>u, <2>2, <2>4, <3>1, <3>2, <4>1 DEF LeaveInv
    <3>3. CASE ctl[c].status \notin DoneStatus
      <4>1. ctl[c].status = "skipped" \/ t \in undecided
        BY <3>3, <1>r DEF CtlRec, DoneStatus, DecidedInv
      <4>2. NoAck.pc = "none" OBVIOUS
      <4> QED BY <1>s, <2>u, <2>4, <3>1, <3>3, <4>1, <4>2 DEF LeaveInv
    <3> QED BY <3>2, <3>3
  <2> QED BY <1>l, <1>m, <1>s, <2>u, <2>5, OwnLast
<1>4. CASE AckFinish(c, "main")
  <2>u. ctl' = ctl BY <1>4 DEF AckFinish
  <2>1. Main(c).pc = "finish" /\ ack' = [ack EXCEPT ![<<c, "main">>] = NoAck]
    BY <1>4 DEF AckFinish, Main
  <2>2. NoAck.pc = "none" OBVIOUS
  <2>3. Main(c)'.pc = "none" BY <2>1, <2>2, <1>g
  <2>4. /\ queue'[t] = Absent /\ notified'[t] = IF Main(c).note THEN notified[t] + 1 ELSE notified[t]
        /\ \A u \in Tasks : u # t => queue'[u] = queue[u] /\ notified'[u] = notified[u]
    BY <1>4, <1>l DEF AckFinish, QueueDelete, Main, IInv, TypeOK
  <2>5. notified[t] \in Nat BY <1>l DEF IInv, TypeOK
  <2>6. LeaveInv(c)'
    <3> SUFFICES ASSUME ctl[c].pc = "end", t \notin resub PROVE LeaveInv(c)'
      BY <1>s, <2>u DEF LeaveInv
    <3>1. ctl[c].ended /\ Main(c).note BY <1>v, <2>1 DEF LeaveInv
    <3>2. notified'[t] >= 1 BY <2>4, <2>5, <3>1
    <3> QED BY <1>s, <2>u, <2>3, <2>4, <3>1, <3>2 DEF LeaveInv
  <2> QED BY <1>l, <1>m, <1>s, <2>u, <2>4, <2>6, OwnLast
<1> QED BY <1>1, <1>2, <1>3, <1>4 DEF AckStep

\* A dispatched entry has an owner.
LEMMA DispatchLast ==
  ASSUME NEW L, IInv, LastInv(L), NEW r \in Replicas, NEW c \in Ctls, SenderDispatch(r, c)
  PROVE  LastInv(L)'
<1> DEFINE t == sender[r].pick
           new == [FreeCtl EXCEPT !.pc = "subscribe", !.task = t, !.host = r,
                     !.ended = sender[r].seen.ended, !.deleted = sender[r].seen.deleted]
<1>1. ctl' = [ctl EXCEPT ![c] = new] /\ ctl[c].pc = "free" BY DEF SenderDispatch
<1>u. UNCHANGED <<notified, resub, undecided>> /\ t \in Tasks
  BY DEF SenderDispatch, IInv, Shape
<1>2. new.pc = "subscribe" /\ new.task = t OBVIOUS
<1> HIDE DEF new
<1>3. ctl'[c] = new /\ \A d \in Ctls \ {c} : ctl'[d] = ctl[d] BY <1>1 DEF IInv, TypeOK
<1>4. \A d \in Ctls \ {c} : Main(d)' = Main(d) BY DEF SenderDispatch, Main, IInv, TypeOK
<1>5. \A u \in Tasks : u # t => queue'[u] = queue[u]
  BY DEF SenderDispatch, QueueUpdate, IInv, TypeOK
<1>6. t \notin resub => ~Owned(t) BY <1>u DEF IInv, ChosenInv, Chosen
<1>7. ASSUME NEW d \in Ctls PROVE LeaveInv(d)'
  <2>1. CASE d = c BY <1>2, <1>3, <2>1 DEF LeaveInv
  <2>2. CASE d # c
    <3>1. ctl[d].pc = "end" /\ ctl[d].task \notin resub => ctl[d].task # t BY <1>6 DEF Owned
    <3>2. LeaveInv(d) BY DEF LastInv
    <3> QED BY <1>3, <1>4, <1>5, <1>u, <2>2, <3>1, <3>2, OtherLeaves
  <2> QED BY <2>1, <2>2
<1>8. ASSUME NEW u \in Tasks, u \notin resub, u \notin L PROVE Kept(u)'
  <2>1. Kept(u) BY <1>8 DEF LastInv
  <2>2. CASE u = t BY <1>2, <1>3, <2>2 DEF Kept, Owned
  <2>3. CASE u # t
    <3>1. Owned(u) => Owned(u)' BY <1>1, <1>3 DEF Owned
    <3> QED BY <1>5, <1>u, <2>1, <2>3, <3>1 DEF Kept
  <2> QED BY <2>2, <2>3
<1> QED BY <1>7, <1>8, <1>u DEF LastInv

\* There are no entries at the start.
LEMMA LastInit == Init => LastInv({})
BY DEF Init, LastInv, LeaveInv, Kept

\* Every step but a crash keeps the entries with their controllers.
LEMMA LastNext ==
  ASSUME NEW L, ~LockMayExpire, ~SideAcks, IInv, EndInv, DecidedInv, LastInv(L), [Next]_vars,
         \A r \in Replicas : ~Crash(r)
  PROVE  LastInv(L)'
<1>1. ASSUME QueueBack, Back, Aside PROVE LastInv(L)' BY <1>1, AsideLast, UndecidedNext
<1>2. ASSUME NEW r \in Replicas, NEW c \in Ctls, SenderDispatch(r, c) PROVE LastInv(L)'
  BY <1>2, DispatchLast
<1>3. ASSUME NEW c \in Ctls, NEW th \in Threads, AckStep(c, th) PROVE LastInv(L)'
  <2>1. ack[<<c, "side">>].pc = "none" BY DEF EndInv, AckInv, Orderly
  <2>2. th = "main" BY <1>3, <2>1 DEF AckStep, AckFind, AckQueue, AckSave, AckFinish
  <2> QED BY <1>3, <2>2, AckLast
<1>4. ASSUME NEW c \in Ctls, CtlStep(c) PROVE LastInv(L)' BY <1>4, CtlLast
<1>5. ASSUME Back, Aside PROVE LastInv(L)'
  BY <1>1, <1>2, <1>3, <1>5, QueueAside DEF AckStep
<1>6. ASSUME NEW h \in Handlers, HandlerStep(h) \/ RequestStep(h) PROVE LastInv(L)'
  BY <1>5, <1>6, HandlerAside, RequestAside
<1>7. ASSUME NEW p \in Procs, CancelStep(p) PROVE LastInv(L)' BY <1>5, <1>7, CancelAside
<1>8. ASSUME NEW w \in Workflows, DeleteTestModule(w) PROVE LastInv(L)'
  BY <1>5, <1>8, BackStill DEF DeleteTestModule, Back
<1>9. ASSUME NEW r \in Replicas, SenderStep(r) PROVE LastInv(L)'
  BY <1>2, <1>5, <1>9, SenderAside
<1>10. ASSUME NEW r \in Replicas, ReplicaStep(r) PROVE LastInv(L)'
  BY <1>5, <1>10, ReplicaAside
<1>11. CASE UNCHANGED vars BY <1>5, <1>11, BackStill DEF vars, Back
<1> QED BY <1>3, <1>4, <1>6, <1>7, <1>8, <1>9, <1>10, <1>11 DEF Next

\* Without retries and manual executions no task is ever resubmitted.
NoResub == resub = {} /\ \A p \in Procs : req[p].pc # "update"

\* No step resubmits a task when none may.
LEMMA NoResubNext ==
  ASSUME MaxResubmits = 0, IInv, NoResub, [Next]_vars
  PROVE  NoResub'
<1>1. resub' = resub
  <2>1. ASSUME NEW h \in Handlers, HandlerStep(h) \/ RequestStep(h) PROVE resub' = resub
    BY <2>1 DEF HandlerStep, RequestStep, CreateTask, CancelFind, TouchFind, RetryWorkflowTaskV4,
      ManualExecWorkflowTaskV4, Resubmit, DeleteWorkflowV4, Push, ResubmitUpdate, TouchUpdate,
      DeleteByID, DeleteByWorkflowName, NoResub
  <2>2. ASSUME NEW p \in Procs, CancelStep(p) PROVE resub' = resub
    BY <2>2 DEF CancelStep, CancelRemove, CancelUpdate, CancelPublish, CancelNext
  <2>3. ASSUME NEW r \in Replicas, SenderStep(r) \/ ReplicaStep(r) PROVE resub' = resub
    BY <2>3 DEF SenderStep, ReplicaStep, BootStep, SenderLock, SenderList, SenderGiveUp, SenderFind,
      SenderScan, SenderDispatch, LockExpire, Crash, Restart, BootDone
  <2>4. ASSUME NEW c \in Ctls, CtlStep(c) \/ \E th \in Threads : AckStep(c, th)
        PROVE  resub' = resub
    BY <2>4 DEF CtlStep, AckStep, Subscribe, StageAck, DebugEvent, ReceiveCancel, FinishStages,
      FinishRun, CtlExit, AckFind, AckQueue, AckSave, AckFinish
  <2> QED BY <2>1, <2>2, <2>3, <2>4 DEF Next, DeleteTestModule, vars
<1>r. \A p \in Procs : req[p] \in ReqRec BY DEF IInv, TypeOK
<1>2. ASSUME NEW p \in Procs, NEW new, req' = [req EXCEPT ![p] = new],
             new.pc = "update" => req[p].pc = "update"
      PROVE  \A q \in Procs : req'[q].pc # "update"
  BY <1>2 DEF NoResub, IInv, TypeOK
<1>3. ASSUME req' = req PROVE \A q \in Procs : req'[q].pc # "update" BY <1>3 DEF NoResub
<1>i. IdleReq.pc = "idle" OBVIOUS
<1>g. ASSUME NEW p \in Procs, NEW pc, pc # "update", req' = [req EXCEPT ![p] = [@ EXCEPT !.pc = pc]]
      PROVE  \A q \in Procs : req'[q].pc # "update"
  <2> DEFINE new == [req[p] EXCEPT !.pc = pc]
  <2>1. new.pc = pc BY <1>r DEF ReqRec
  <2>2. req' = [req EXCEPT ![p] = new] BY <1>g
  <2> HIDE DEF new
  <2> QED BY <1>2, <1>g, <2>1, <2>2
<1>4. ASSUME NEW h \in Handlers, HandlerStep(h) PROVE \A q \in Procs : req'[q].pc # "update"
  <2>1. ASSUME NEW t \in Tasks PROVE ~Resubmit(h, t) BY DEF Resubmit, IInv, TypeOK, Counters
  <2>f. ASSUME NEW t \in Tasks, NEW pc, pc # "update", req' = Found(h, t, pc)
        PROVE  \A q \in Procs : req'[q].pc # "update"
    <3> DEFINE new == [IdleReq EXCEPT !.pc = pc, !.task = t, !.seen = doc[t]]
    <3>1. new.pc = pc OBVIOUS
    <3>2. req' = [req EXCEPT ![h] = new] BY <2>f DEF Found
    <3> HIDE DEF new
    <3> QED BY <1>2, <2>f, <3>1, <3>2
  <2>2. ASSUME NEW t \in Tasks, CancelFind(h, t) \/ TouchFind(h, t)
        PROVE  \A q \in Procs : req'[q].pc # "update"
    BY <2>2, <2>f DEF CancelFind, TouchFind
  <2>3. ASSUME NEW t \in Tasks, CreateTask(h, t) PROVE \A q \in Procs : req'[q].pc # "update"
    <3> DEFINE new == [IdleReq EXCEPT !.pc = "push", !.task = t]
    <3>1. new.pc = "push" OBVIOUS
    <3>2. req' = [req EXCEPT ![h] = new] BY <2>3 DEF CreateTask
    <3> HIDE DEF new
    <3> QED BY <1>2, <3>1, <3>2
  <2>4. ASSUME NEW w \in Workflows, DeleteWorkflowV4(h, w)
        PROVE  \A q \in Procs : req'[q].pc # "update"
    <3> DEFINE new == [IdleReq EXCEPT !.pc = "loop", !.wf = w,
                         !.todo = {t \in Tasks : WorkflowOf[t] = w /\ queue[t] # Absent}]
    <3>1. new.pc = "loop" OBVIOUS
    <3>2. req' = [req EXCEPT ![h] = new] BY <2>4 DEF DeleteWorkflowV4
    <3> HIDE DEF new
    <3> QED BY <1>2, <3>1, <3>2
  <2> QED BY <1>4, <2>1, <2>2, <2>3, <2>4
          DEF HandlerStep, RetryWorkflowTaskV4, ManualExecWorkflowTaskV4
<1>5. ASSUME NEW h \in Handlers, RequestStep(h) PROVE \A q \in Procs : req'[q].pc # "update"
  <2>1. ASSUME req' = [req EXCEPT ![h] = IdleReq] PROVE \A q \in Procs : req'[q].pc # "update"
    BY <1>2, <1>i, <2>1
  <2>2. CASE Push(h) \/ TouchUpdate(h) \/ DeleteByWorkflowName(h)
    BY <2>1, <2>2 DEF Push, TouchUpdate, DeleteByWorkflowName
  <2>3. CASE DeleteByID(h) BY <1>g, <2>1, <2>3 DEF DeleteByID
  <2>4. CASE ResubmitUpdate(h) BY <2>4 DEF ResubmitUpdate, NoResub
  <2> QED BY <1>5, <2>2, <2>3, <2>4 DEF RequestStep
<1>6. ASSUME NEW p \in Procs, CancelStep(p) PROVE \A q \in Procs : req'[q].pc # "update"
  <2>1. CancelReturn(p).pc # "update" BY DEF CancelReturn
  <2>2. ASSUME req' = [req EXCEPT ![p] = CancelReturn(p)]
        PROVE  \A q \in Procs : req'[q].pc # "update"
    BY <1>2, <2>1, <2>2
  <2>3. CASE CancelRemove(p) \/ CancelUpdate(p) \/ CancelPublish(p)
    BY <1>g, <2>2, <2>3 DEF CancelRemove, CancelUpdate, CancelPublish
  <2>4. ASSUME NEW t \in Tasks, CancelNext(p, t) PROVE \A q \in Procs : req'[q].pc # "update"
    <3> DEFINE new == [req[p] EXCEPT !.pc = "remove", !.task = t, !.seen = doc[t],
                                     !.todo = req[p].todo \ {t}]
    <3>1. new.pc = "remove" BY <1>r DEF ReqRec
    <3>2. req' = [req EXCEPT ![p] = new] BY <2>4 DEF CancelNext
    <3> HIDE DEF new
    <3> QED BY <1>2, <3>1, <3>2
  <2> QED BY <1>6, <2>3, <2>4 DEF CancelStep
<1>7. ASSUME NEW r \in Replicas, SenderStep(r) \/ LockExpire(r) PROVE req' = req
  BY <1>7 DEF SenderStep, LockExpire, SenderLock, SenderList, SenderGiveUp, SenderFind,
              SenderScan, SenderDispatch
<1>8. ASSUME NEW r \in Replicas, BootStep(r) PROVE \A q \in Procs : req'[q].pc # "update"
  <2> DEFINE new == [IdleReq EXCEPT !.pc = "loop",
               !.todo = {t \in Tasks : doc[t].status \in InCompletedStatus /\ ~doc[t].deleted}]
  <2>1. new.pc = "loop" OBVIOUS
  <2>2. req' = [req EXCEPT ![r] = new] \/ req' = [req EXCEPT ![r] = IdleReq]
    BY <1>8 DEF BootStep, Restart, BootDone
  <2> HIDE DEF new
  <2> QED BY <1>2, <1>i, <2>1, <2>2
<1>9. ASSUME NEW r \in Replicas, Crash(r) PROVE \A q \in Procs : req'[q].pc # "update"
  BY <1>9 DEF Crash, NoResub
<1>10. ASSUME NEW c \in Ctls, CtlStep(c) \/ \E th \in Threads : AckStep(c, th) PROVE req' = req
  BY <1>10 DEF CtlStep, AckStep, Subscribe, StageAck, DebugEvent, ReceiveCancel, FinishStages,
      FinishRun, CtlExit, AckFind, AckQueue, AckSave, AckFinish
<1>11. \A q \in Procs : req'[q].pc # "update"
  BY <1>3, <1>4, <1>5, <1>6, <1>7, <1>8, <1>9, <1>10 DEF Next, ReplicaStep, DeleteTestModule, vars
<1> QED BY <1>1, <1>11 DEF NoResub

\* Without crashes a controller goes only when Run returns.
LEMMA GoneIsExit ==
  ASSUME MaxCrashes = 0, IInv, EndInv, [Next]_vars, NEW c \in Ctls, Alive(c), ~Alive(c)'
  PROVE  CtlExit(c)
<1>a. ~Aside BY DEF Aside
<1>b. \A d \in Ctls : ctl[d] \in CtlRec BY DEF IInv, TypeOK
<1>1. ASSUME NEW h \in Handlers PROVE ~HandlerStep(h) /\ ~RequestStep(h)
  BY <1>a, HandlerAside, RequestAside
<1>2. ASSUME NEW p \in Procs PROVE ~CancelStep(p) BY <1>a, CancelAside
<1>3. ctl' # ctl OBVIOUS
<1>4. ASSUME NEW r \in Replicas, NEW d \in Ctls PROVE ~SenderDispatch(r, d)
  <2> SUFFICES ASSUME SenderDispatch(r, d) PROVE FALSE OBVIOUS
  <2>1. ctl[d].pc = "free" /\ d # c BY DEF SenderDispatch
  <2> QED BY <2>1 DEF SenderDispatch, IInv, TypeOK
<1>5. ASSUME NEW r \in Replicas PROVE ~SenderStep(r) BY <1>a, <1>4, SenderAside
<1>6. ASSUME NEW r \in Replicas PROVE ~ReplicaStep(r)
  <2>1. ~Crash(r) BY DEF Crash, IInv, TypeOK, Counters
  <2> QED BY <1>a, <2>1, ReplicaAside
<1>7. ASSUME NEW d \in Ctls, NEW th \in Threads PROVE ~AckStep(d, th)
  <2> SUFFICES ASSUME AckStep(d, th) PROVE FALSE OBVIOUS
  <2>1. AckFind(d, th) BY <1>3 DEF AckStep, AckQueue, AckSave, AckFinish
  <2>2. \A b \in Ctls : ctl'[b].pc = ctl[b].pc BY <2>1, <1>b DEF AckFind, IInv, TypeOK, CtlRec
  <2> QED BY <2>2
<1>8. ASSUME NEW d \in Ctls, CtlStep(d) PROVE CtlExit(c)
  <2>1. \A b \in Ctls \ {d} : ctl'[b] = ctl[b]
    BY <1>8 DEF CtlStep, Subscribe, StageAck, DebugEvent, ReceiveCancel, FinishStages, FinishRun,
                CtlExit, IInv, TypeOK
  <2>2. d = c BY <2>1
  <2>3. ASSUME NEW new, new.pc # "free" PROVE ctl' # [ctl EXCEPT ![c] = new]
    BY <2>3 DEF IInv, TypeOK
  <2>4. ~Subscribe(c)
    <3> DEFINE new == [ctl[c] EXCEPT !.pc = "run", !.sub = TRUE]
    <3>1. new.pc = "run" BY <1>b DEF CtlRec
    <3>2. Subscribe(c) => ctl' = [ctl EXCEPT ![c] = new] BY DEF Subscribe
    <3> HIDE DEF new
    <3> QED BY <2>3, <3>1, <3>2
  <2>5. ~StageAck(c) /\ ~DebugEvent(c) BY <1>3 DEF StageAck, DebugEvent
  <2>6. ~ReceiveCancel(c)
    <3> DEFINE new == [ctl[c] EXCEPT !.ctx = TRUE]
    <3>1. new.pc # "free" BY <1>b DEF CtlRec
    <3>2. ReceiveCancel(c) => ctl' = [ctl EXCEPT ![c] = new] BY DEF ReceiveCancel
    <3> HIDE DEF new
    <3> QED BY <2>3, <3>1, <3>2
  <2>7. ASSUME NEW o \in Outcomes PROVE ~FinishStages(c, o)
    <3> DEFINE new == [ctl[c] EXCEPT !.pc = "clean", !.status = o]
    <3>1. new.pc # "free" BY <1>b DEF CtlRec
    <3>2. FinishStages(c, o) => ctl' = [ctl EXCEPT ![c] = new] BY DEF FinishStages
    <3> HIDE DEF new
    <3> QED BY <2>3, <3>1, <3>2
  <2>8. ~FinishRun(c)
    <3> DEFINE new == [ctl[c] EXCEPT !.pc = "end", !.ended = TRUE, !.sub = FALSE, !.ctx = TRUE]
    <3>1. new.pc # "free" BY <1>b DEF CtlRec
    <3>2. FinishRun(c) => ctl' = [ctl EXCEPT ![c] = new] BY DEF FinishRun
    <3> HIDE DEF new
    <3> QED BY <2>3, <3>1, <3>2
  <2> QED BY <1>8, <2>2, <2>4, <2>5, <2>6, <2>7, <2>8 DEF CtlStep
<1> QED BY <1>1, <1>2, <1>3, <1>5, <1>6, <1>7, <1>8 DEF Next, DeleteTestModule, vars

-----------------------------------------------------------------------------
\* All that is known of tasks that are neither retried nor hit by a crash.
EntryInv == IInv /\ EndInv /\ DecidedInv /\ LastInv({}) /\ NoResub

\* The start.
LEMMA EntryInit == Init => EntryInv
<1>1. Init => NoResub BY DEF Init, NoResub
<1>2. Init => DecidedInv BY DEF Init, DecidedInv
<1> QED BY <1>1, <1>2, IInvInit, EndInit, LastInit DEF EntryInv

\* Every step.
LEMMA EntryNext ==
  ASSUME ~LockMayExpire, ~SideAcks, MaxCrashes = 0, MaxResubmits = 0, EntryInv, [Next]_vars
  PROVE  EntryInv'
<1>1. IInv' BY IInvNext DEF EntryInv
<1>2. \A r \in Replicas : ~Crash(r) BY DEF Crash, EntryInv, IInv, TypeOK, Counters
<1>3. LastInv({})' BY <1>2, LastNext DEF EntryInv
<1> QED BY <1>1, <1>3, EndNext, DecidedNext, NoResubNext DEF EntryInv

\* Without retries and crashes, updateWorkflowTask and CancelWorkflowTask leave
\* no queued, running or done entry behind when the controller of a task exits,
\* unless its stages left it with status running, however cancellations, deletions and other writers of the document interleave
\* with the acks.
THEOREM NoEntryOrphaned ==
  ASSUME ~LockMayExpire, ~SideAcks, MaxCrashes = 0, MaxResubmits = 0
  PROVE  Spec => []NoOrphanEntry
<1>1. Init => EntryInv BY EntryInit
<1>2. EntryInv /\ [Next]_vars => EntryInv' BY EntryNext
<1>3. EntryInv => NoOrphanEntry BY DEF EntryInv, LastInv, NoResub, Kept, NoOrphanEntry
<1> QED BY <1>1, <1>2, <1>3, PTL DEF Spec

\* Under the same assumptions Run does not return with a done status before the
\* completion was announced: the last ack never takes the early return of
\* updateWorkflowTask, and finds the completion to be the first.
THEOREM ExitAnnounced ==
  ASSUME ~LockMayExpire, ~SideAcks, MaxCrashes = 0, MaxResubmits = 0
  PROVE  Spec => CompletionAnnounced
<1>1. Init => EntryInv BY EntryInit
<1>2. EntryInv /\ [Next]_vars => EntryInv' BY EntryNext
<1>3. EntryInv /\ [Next]_vars
        => [\A c \in Ctls : Alive(c) /\ ~Alive(c)' /\ ctl[c].status \in DoneStatus
              => notified[ctl[c].task] >= 1]_vars
  <2> SUFFICES ASSUME EntryInv, [Next]_vars, NEW c \in Ctls, Alive(c), ~Alive(c)',
                      ctl[c].status \in DoneStatus
               PROVE  notified[ctl[c].task] >= 1
    OBVIOUS
  <2>1. CtlExit(c) BY GoneIsExit DEF EntryInv
  <2>2. ctl[c].pc = "end" /\ Main(c).pc = "none" BY <2>1 DEF CtlExit, Quiet, Main
  <2> QED BY <2>2 DEF EntryInv, LastInv, LeaveInv, NoResub
<1> QED BY <1>1, <1>2, <1>3, PTL DEF Spec, CompletionAnnounced

-----------------------------------------------------------------------------
(* Waiting tasks.  Without retries, deletions, crashes and requests that     *)
(* write a document back, a task waits only once: who takes its entry has it *)
(* in hand until the document says otherwise.                                *)

Begun(t) == doc[t].status \notin {"waiting", "none"}

\* A request that lets go of a task leaves it begun.
ReqHand(p) ==
  /\ req[p].pc \in {"idle", "push", "remove", "save", "publish"} /\ req[p].wf = None
  /\ p \in Replicas \/ req[p].pc = "idle" => req[p] = IdleReq
  /\ req[p].pc = "publish" \/ req[p].seen.status = "passed" => Begun(req[p].task)

\* A controller past its first ack has begun its task.
CtlHand(c) ==
  Alive(c) => \/ ctl[c].pc = "subscribe" /\ Main(c).pc \in {"find", "queue", "save"}
              \/ Begun(ctl[c].task)

InHand(t) ==
  \/ Owned(t)
  \/ \E p \in Procs : req[p].task = t
  \/ \E r \in Replicas : sender[r].pick = t
TaskHand(t) == doc[t].status = "waiting" /\ queue[t] = Absent => InHand(t)

HandInv ==
  /\ defs = Workflows /\ \A r \in Replicas : rep[r] = "up"
  /\ \A r \in Replicas : sender[r].pc = "scan" => sender[r].pick = None
  /\ \A p \in Procs : ReqHand(p)
  /\ \A c \in Ctls : CtlHand(c)
  /\ \A t \in Tasks : TaskHand(t)

Settles == \A t \in Tasks : Begun(t) => Begun(t)'

\* A request that does not move keeps its task begun.
LEMMA ReqHandKept ==
  ASSUME IInv, Settles, NEW p \in Procs, req'[p] = req[p], ReqHand(p)
  PROVE  ReqHand(p)'
<1> SUFFICES ASSUME req[p].pc = "publish" \/ req[p].seen.status = "passed"
             PROVE  Begun(req[p].task)'
  BY DEF ReqHand
<1>1. req[p].pc # "idle"
  <2>1. req[p] # IdleReq OBVIOUS
  <2> QED BY <2>1 DEF ReqHand
<1>2. req[p].task \in Tasks BY <1>1 DEF ReqHand, IInv, Shape
<1>3. Begun(req[p].task) BY DEF ReqHand
<1> QED BY <1>2, <1>3 DEF Settles

\* A controller that does not move keeps its task begun.
LEMMA CtlHandKept ==
  ASSUME IInv, Settles, NEW c \in Ctls, ctl'[c].pc = ctl[c].pc, ctl'[c].task = ctl[c].task,
         Main(c)' = Main(c), CtlHand(c)
  PROVE  CtlHand(c)'
<1>1. Alive(c) => ctl[c].task \in Tasks BY DEF IInv, Shape
<1>2. PICK t : t = ctl[c].task OBVIOUS
<1>3. Begun(t) /\ Alive(c) => Begun(t)' BY <1>1, <1>2 DEF Settles
<1>4. Begun(ctl[c].task)' = Begun(t)' BY <1>2 DEF Begun
<1> QED BY <1>2, <1>3, <1>4 DEF CtlHand

\* A task stays in hand unless someone lets it go.
LEMMA TaskHandKept ==
  ASSUME NEW t \in Tasks, TaskHand(t),
         doc'[t].status = "waiting" => doc[t].status = "waiting",
         queue'[t] = Absent /\ doc'[t].status = "waiting" => queue[t] = Absent,
         doc'[t].status = "waiting" /\ queue'[t] = Absent =>
           /\ Owned(t) => Owned(t)'
           /\ \A p \in Procs : req[p].task = t => req'[p].task = t
           /\ \A r \in Replicas : sender[r].pick = t => sender'[r].pick = t \/ Owned(t)'
  PROVE  TaskHand(t)'
<1> SUFFICES ASSUME doc'[t].status = "waiting", queue'[t] = Absent PROVE InHand(t)'
  BY DEF TaskHand
<1>1. InHand(t) BY DEF TaskHand
<1> QED BY <1>1 DEF InHand

Bounds == MaxTouches = 0 /\ MaxResubmits = 0 /\ MaxCrashes = 0 /\ ~MayDelete

\* Requests: only creations, pushes and cancellations are left.
LEMMA HandlerHand ==
  ASSUME Bounds, IInv, HandInv, NEW h \in Handlers, HandlerStep(h) \/ RequestStep(h)
  PROVE  HandInv'
<1>h. h \notin Replicas /\ h \in Procs BY ProcessAssumption
<1>r. ReqHand(h) /\ req[h] \in ReqRec BY <1>h DEF HandInv, IInv, TypeOK
<1>i. Ready(h) => req[h] = IdleReq BY <1>r DEF Ready, ReqHand
<1>n. IdleReq.task = None /\ IdleReq.pc = "idle" /\ IdleReq.wf = None /\ IdleReq.seen = NoDoc
  OBVIOUS
<1>o. \A t \in Tasks : t # None BY ProcessAssumption
<1>f. ASSUME NEW new, req' = [req EXCEPT ![h] = new]
      PROVE  req'[h] = new /\ \A q \in Procs \ {h} : req'[q] = req[q]
  BY <1>f, <1>h DEF IInv, TypeOK
<1>1. ASSUME NEW t \in Tasks, CreateTask(h, t) PROVE HandInv'
  <2> DEFINE new == [IdleReq EXCEPT !.pc = "push", !.task = t]
  <2>1. /\ req' = [req EXCEPT ![h] = new] /\ req[h] = IdleReq /\ doc[t] = NoDoc
        /\ UNCHANGED <<queue, defs, sender, rep, ctl, ack>>
    BY <1>1, <1>i DEF CreateTask
  <2>2. new.pc = "push" /\ new.task = t /\ new.wf = None /\ new.seen = NoDoc OBVIOUS
  <2> HIDE DEF new
  <2>3. req'[h] = new /\ \A q \in Procs \ {h} : req'[q] = req[q] BY <2>1, <1>f
  <2>4. \A u \in Tasks \ {t} : doc'[u] = doc[u] BY <1>1 DEF CreateTask, IInv, TypeOK
  <2>5. Settles BY <2>1, <2>4 DEF Settles, Begun
  <2>6. \A p \in Procs : ReqHand(p)'
    <3>1. ReqHand(h)' BY <1>h, <2>2, <2>3 DEF ReqHand
    <3> QED BY <2>3, <2>5, <3>1, ReqHandKept DEF HandInv
  <2>7. \A c \in Ctls : CtlHand(c)' BY <2>1, <2>5, CtlHandKept DEF HandInv, Main
  <2>8. ASSUME NEW u \in Tasks PROVE TaskHand(u)'
    <3>1. CASE u = t BY <1>h, <2>2, <2>3, <3>1 DEF TaskHand, InHand
    <3>2. CASE u # t
      <4>1. doc'[u] = doc[u] BY <2>4, <3>2
      <4>2. \A p \in Procs : req[p].task = u => req'[p].task = u BY <2>1, <2>3, <1>n, <1>o
      <4>3. Owned(u) => Owned(u)' BY <2>1 DEF Owned
      <4> QED BY <2>1, <4>1, <4>2, <4>3, TaskHandKept DEF HandInv
    <3> QED BY <3>1, <3>2
  <2> QED BY <2>1, <2>6, <2>7, <2>8 DEF HandInv
<1>2. ASSUME NEW t \in Tasks, CancelFind(h, t) PROVE HandInv'
  <2> DEFINE new == [IdleReq EXCEPT !.pc = "remove", !.task = t, !.seen = doc[t]]
  <2>1. /\ req' = [req EXCEPT ![h] = new] /\ req[h] = IdleReq
        /\ UNCHANGED <<doc, queue, defs, sender, rep, ctl, ack>>
    BY <1>2, <1>i DEF CancelFind, Found
  <2>2. new.pc = "remove" /\ new.task = t /\ new.wf = None /\ new.seen = doc[t] OBVIOUS
  <2> HIDE DEF new
  <2>3. req'[h] = new /\ \A q \in Procs \ {h} : req'[q] = req[q] BY <2>1, <1>f
  <2>5. Settles BY <2>1 DEF Settles, Begun
  <2>6. \A p \in Procs : ReqHand(p)'
    <3>1. ReqHand(h)' BY <1>h, <2>1, <2>2, <2>3 DEF ReqHand, Begun
    <3> QED BY <2>3, <2>5, <3>1, ReqHandKept DEF HandInv
  <2>7. \A c \in Ctls : CtlHand(c)' BY <2>1, <2>5, CtlHandKept DEF HandInv, Main
  <2>8. ASSUME NEW u \in Tasks PROVE TaskHand(u)'
    <3>2. \A p \in Procs : req[p].task = u => req'[p].task = u BY <2>1, <2>3, <1>n, <1>o
    <3>3. Owned(u) => Owned(u)' BY <2>1 DEF Owned
    <3> QED BY <2>1, <3>2, <3>3, TaskHandKept DEF HandInv
  <2> QED BY <2>1, <2>6, <2>7, <2>8 DEF HandInv
<1>3. CASE Push(h)
  <2>1. /\ req' = [req EXCEPT ![h] = IdleReq] /\ UNCHANGED <<doc, defs, sender, rep, ctl, ack>>
        /\ queue' = QueueCreate(req[h].task) /\ req[h].task \in Tasks
    BY <1>3, <1>h DEF Push, IInv, Shape
  <2>3. req'[h] = IdleReq /\ \A q \in Procs \ {h} : req'[q] = req[q] BY <2>1, <1>f
  <2>4. queue'[req[h].task] # Absent /\ \A u \in Tasks : queue'[u] = Absent => queue[u] = Absent
    BY <2>1 DEF QueueCreate, IInv, TypeOK
  <2>5. Settles BY <2>1 DEF Settles, Begun
  <2>6. \A p \in Procs : ReqHand(p)'
    <3>1. NoDoc.status = "none" OBVIOUS
    <3>2. ReqHand(h)' BY <1>n, <2>3, <3>1 DEF ReqHand
    <3> QED BY <2>3, <2>5, <3>2, ReqHandKept DEF HandInv
  <2>7. \A c \in Ctls : CtlHand(c)' BY <2>1, <2>5, CtlHandKept DEF HandInv, Main
  <2>8. ASSUME NEW u \in Tasks PROVE TaskHand(u)'
    <3>2. queue'[u] = Absent => \A p \in Procs : req[p].task = u => req'[p].task = u
      BY <2>3, <2>4
    <3>3. Owned(u) => Owned(u)' BY <2>1 DEF Owned
    <3> QED BY <2>1, <2>4, <3>2, <3>3, TaskHandKept DEF HandInv
  <2> QED BY <2>1, <2>6, <2>7, <2>8 DEF HandInv
<1>4. ASSUME NEW t \in Tasks PROVE ~TouchFind(h, t) /\ ~Resubmit(h, t)
  BY DEF TouchFind, Resubmit, Bounds, IInv, TypeOK, Counters
<1>5. ASSUME NEW w \in Workflows PROVE ~DeleteWorkflowV4(h, w) BY DEF DeleteWorkflowV4, Bounds
<1>6. ~ResubmitUpdate(h) /\ ~TouchUpdate(h) /\ ~DeleteByID(h) /\ ~DeleteByWorkflowName(h)
  BY <1>r DEF ReqHand, ResubmitUpdate, TouchUpdate, DeleteByID, DeleteByWorkflowName
<1> QED BY <1>1, <1>2, <1>3, <1>4, <1>5, <1>6
        DEF HandlerStep, RequestStep, RetryWorkflowTaskV4, ManualExecWorkflowTaskV4

\* Cancellations: the entry is removed while the request has the task, and the
\* document is written before the request lets go of it.
LEMMA CancelHand ==
  ASSUME Bounds, IInv, HandInv, NEW p \in Procs, CancelStep(p)
  PROVE  HandInv'
<1>r. ReqHand(p) /\ req[p] \in ReqRec BY DEF HandInv, IInv, TypeOK
<1>n. IdleReq.task = None /\ IdleReq.pc = "idle" /\ IdleReq.wf = None /\ IdleReq.seen = NoDoc
      /\ NoDoc.status = "none"
  OBVIOUS
<1>f. ASSUME NEW new, req' = [req EXCEPT ![p] = new]
      PROVE  req'[p] = new /\ \A q \in Procs \ {p} : req'[q] = req[q]
  BY <1>f DEF IInv, TypeOK
<1>x. ASSUME NEW t \in Tasks PROVE ~CancelNext(p, t) BY <1>r DEF ReqHand, CancelNext
<1>i. req[p].pc # "idle" /\ req[p] # IdleReq
  <2>1. req[p].pc \in {"remove", "save", "publish"}
    BY <1>x DEF CancelStep, CancelRemove, CancelUpdate, CancelPublish
  <2> QED BY <2>1, <1>n
<1>p. p \notin Replicas BY <1>r, <1>i DEF ReqHand
<1>c. CancelReturn(p) = IdleReq BY <1>r, <1>p DEF ReqHand, CancelReturn, Looping
<1>t. req[p].task \in Tasks BY <1>r, <1>i DEF ReqHand, IInv, Shape
<1>d. ReqHand(p) /\ req'[p] = IdleReq => ReqHand(p)' BY <1>n DEF ReqHand
<1>1. CASE CancelRemove(p)
  <2> DEFINE new == [req[p] EXCEPT !.pc = "save"]
  <2>1. /\ UNCHANGED <<doc, defs, sender, rep, ctl, ack>> /\ queue' = QueueDelete(req[p].task)
        /\ req' = [req EXCEPT ![p] = IF req[p].seen.status = "passed" THEN IdleReq ELSE new]
    BY <1>1, <1>c DEF CancelRemove
  <2>2. /\ new.pc = "save" /\ new.task = req[p].task /\ new.wf = req[p].wf
        /\ new.seen = req[p].seen
    BY <1>r DEF ReqRec
  <2> HIDE DEF new
  <2>3. /\ req'[p] = IF req[p].seen.status = "passed" THEN IdleReq ELSE new
        /\ \A q \in Procs \ {p} : req'[q] = req[q]
    BY <2>1, <1>f
  <2>4. \A u \in Tasks : u # req[p].task => queue'[u] = queue[u]
    BY <2>1 DEF QueueDelete, IInv, TypeOK
  <2>5. Settles BY <2>1 DEF Settles, Begun
  <2>6. \A q \in Procs : ReqHand(q)'
    <3>1. ReqHand(p)'
      <4>1. CASE req[p].seen.status = "passed" BY <1>r, <1>d, <2>3, <4>1
      <4>2. CASE req[p].seen.status # "passed" BY <1>r, <1>p, <2>2, <2>3, <4>2 DEF ReqHand
      <4> QED BY <4>1, <4>2
    <3> QED BY <2>3, <2>5, <3>1, ReqHandKept DEF HandInv
  <2>7. \A c \in Ctls : CtlHand(c)' BY <2>1, <2>5, CtlHandKept DEF HandInv, Main
  <2>8. ASSUME NEW u \in Tasks PROVE TaskHand(u)'
    <3>o. Owned(u) => Owned(u)' BY <2>1 DEF Owned
    <3>1. CASE u # req[p].task
      <4>1. \A q \in Procs : req[q].task = u => req'[q].task = u BY <2>3, <3>1
      <4> QED BY <2>1, <2>4, <3>1, <3>o, <4>1, TaskHandKept DEF HandInv
    <3>2. CASE u = req[p].task /\ req[p].seen.status = "passed"
      <4>1. Begun(u) BY <1>r, <3>2 DEF ReqHand
      <4> QED BY <2>1, <4>1 DEF TaskHand, Begun
    <3>3. CASE u = req[p].task /\ req[p].seen.status # "passed"
      BY <2>2, <2>3, <3>3 DEF TaskHand, InHand
    <3> QED BY <3>1, <3>2, <3>3
  <2> QED BY <2>1, <2>6, <2>7, <2>8 DEF HandInv
<1>2. CASE CancelUpdate(p)
  <2> DEFINE new == [req[p] EXCEPT !.pc = "publish"]
  <2>1. /\ UNCHANGED <<queue, defs, sender, rep, ctl, ack>>
        /\ req' = [req EXCEPT ![p] = new]
    BY <1>2 DEF CancelUpdate
  <2>2. /\ new.pc = "publish" /\ new.task = req[p].task /\ new.wf = req[p].wf
        /\ new.seen = req[p].seen
    BY <1>r DEF ReqRec
  <2> HIDE DEF new
  <2>3. req'[p] = new /\ \A q \in Procs \ {p} : req'[q] = req[q] BY <2>1, <1>f
  <2>4. /\ \A u \in Tasks : u # req[p].task => doc'[u] = doc[u]
        /\ doc'[req[p].task].status = "cancelled"
    BY <1>2, <1>t, <1>r DEF CancelUpdate, IInv, TypeOK, ReqRec
  <2>5. Settles BY <2>4 DEF Settles, Begun
  <2>6. \A q \in Procs : ReqHand(q)'
    <3>1. Begun(req[p].task)' BY <2>2, <2>3, <2>4 DEF Begun
    <3>2. ReqHand(p)' BY <1>r, <1>p, <2>2, <2>3, <3>1 DEF ReqHand
    <3> QED BY <2>3, <2>5, <3>2, ReqHandKept DEF HandInv
  <2>7. \A c \in Ctls : CtlHand(c)' BY <2>1, <2>5, CtlHandKept DEF HandInv, Main
  <2>8. ASSUME NEW u \in Tasks PROVE TaskHand(u)'
    <3>o. Owned(u) => Owned(u)' BY <2>1 DEF Owned
    <3>1. \A q \in Procs : req[q].task = u => req'[q].task = u BY <2>2, <2>3
    <3>2. doc'[u].status = "waiting" => doc[u].status = "waiting" BY <2>4
    <3> QED BY <2>1, <3>o, <3>1, <3>2, TaskHandKept DEF HandInv
  <2> QED BY <2>1, <2>6, <2>7, <2>8 DEF HandInv
<1>3. CASE CancelPublish(p)
  <2>1. /\ UNCHANGED <<doc, queue, defs, sender, rep, ack>>
        /\ req' = [req EXCEPT ![p] = IdleReq] /\ req[p].pc = "publish"
    BY <1>3, <1>c DEF CancelPublish
  <2>2. ASSUME NEW c \in Ctls PROVE ctl'[c].pc = ctl[c].pc /\ ctl'[c].task = ctl[c].task
    <3>1. ctl[c] \in CtlRec BY DEF IInv, TypeOK
    <3>2. ctl'[c] = ctl[c] \/ ctl'[c] = [ctl[c] EXCEPT !.sig = TRUE] BY <1>3 DEF CancelPublish
    <3> QED BY <3>1, <3>2 DEF CtlRec
  <2>3. req'[p] = IdleReq /\ \A q \in Procs \ {p} : req'[q] = req[q] BY <2>1, <1>f
  <2>5. Settles BY <2>1 DEF Settles, Begun
  <2>6. \A q \in Procs : ReqHand(q)'
    <3>1. ReqHand(p)' BY <1>r, <1>d, <2>3
    <3> QED BY <2>3, <2>5, <3>1, ReqHandKept DEF HandInv
  <2>7. \A c \in Ctls : CtlHand(c)' BY <2>1, <2>2, <2>5, CtlHandKept DEF HandInv, Main
  <2>8. ASSUME NEW u \in Tasks PROVE TaskHand(u)'
    <3>o. Owned(u) => Owned(u)' BY <2>2 DEF Owned
    <3>1. CASE u # req[p].task
      <4>1. \A q \in Procs : req[q].task = u => req'[q].task = u BY <2>3, <3>1
      <4> QED BY <2>1, <3>o, <4>1, TaskHandKept DEF HandInv
    <3>2. CASE u = req[p].task
      <4>1. Begun(u) BY <1>r, <2>1, <3>2 DEF ReqHand
      <4> QED BY <2>1, <4>1 DEF TaskHand, Begun
    <3> QED BY <3>1, <3>2
  <2> QED BY <2>1, <2>6, <2>7, <2>8 DEF HandInv
<1> QED BY <1>1, <1>2, <1>3, <1>x DEF CancelStep

\* The sender hands a task over to a controller, or had none in hand.
LEMMA SenderHand ==
  ASSUME Bounds, IInv, HandInv, NEW r \in Replicas, SenderStep(r)
  PROVE  HandInv'
<1>s. sender[r] \in SenderRec BY DEF IInv, TypeOK
<1>z. SenderStep(r) => UNCHANGED <<doc, defs, req, rep>>
  BY DEF SenderStep, SenderLock, SenderList, SenderGiveUp, SenderFind, SenderScan, SenderDispatch
<1>o. \A t \in Tasks : t # None BY ProcessAssumption
<1>1. Settles /\ UNCHANGED <<doc, defs, req, rep>> BY <1>z DEF Settles, Begun
<1>2. \A p \in Procs : ReqHand(p)' BY <1>1, ReqHandKept DEF HandInv
<1>3. ASSUME UNCHANGED <<queue, ctl, ack>>,
             \A q \in Replicas \ {r} : sender'[q] = sender[q],
             sender'[r].pc = "scan" => sender'[r].pick = None,
             sender[r].pick = None \/ sender'[r].pick = sender[r].pick
      PROVE  HandInv'
  <2>1. \A c \in Ctls : CtlHand(c)' BY <1>1, <1>3, CtlHandKept DEF HandInv, Main
  <2>2. ASSUME NEW u \in Tasks PROVE TaskHand(u)'
    <3>1. Owned(u) => Owned(u)' BY <1>3 DEF Owned
    <3>2. \A q \in Replicas : sender[q].pick = u => sender'[q].pick = u BY <1>3, <1>o
    <3> QED BY <1>1, <1>3, <3>1, <3>2, TaskHandKept DEF HandInv
  <2>3. \A q \in Replicas : sender'[q].pc = "scan" => sender'[q].pick = None
    BY <1>3 DEF HandInv
  <2> QED BY <1>1, <1>2, <2>1, <2>2, <2>3 DEF HandInv
<1>f. ASSUME NEW new, sender' = [sender EXCEPT ![r] = new]
      PROVE  sender'[r] = new /\ \A q \in Replicas \ {r} : sender'[q] = sender[q]
  BY <1>f DEF IInv, TypeOK
<1>e. sender[r].pc \in {"idle", "list", "scan"} => sender[r].pick = None
  BY DEF IInv, Shape, HandInv
<1>i. IdleSender.pc = "idle" OBVIOUS
<1>4. CASE SenderLock(r)
  <2> DEFINE new == [sender[r] EXCEPT !.pc = "list"]
  <2>1. sender' = [sender EXCEPT ![r] = new] /\ sender[r].pc = "idle" BY <1>4 DEF SenderLock
  <2>2. new.pc = "list" BY <1>s DEF SenderRec
  <2> HIDE DEF new
  <2> QED BY <1>3, <1>4, <1>e, <1>f, <2>1, <2>2 DEF SenderLock
<1>5. CASE SenderList(r)
  <2> DEFINE waiting == {t \in Tasks : queue[t] = "waiting"}
             new == [sender[r] EXCEPT !.pc = "scan", !.todo = waiting]
  <2>1. /\ sender' = [sender EXCEPT ![r] = IdleSender] \/ sender' = [sender EXCEPT ![r] = new]
        /\ sender[r].pc = "list"
    BY <1>5 DEF SenderList
  <2>2. new.pick = sender[r].pick BY <1>s DEF SenderRec
  <2> HIDE DEF new
  <2> QED BY <1>3, <1>5, <1>e, <1>f, <1>i, <2>1, <2>2 DEF SenderList
<1>6. CASE SenderGiveUp(r)
  BY <1>3, <1>6, <1>e, <1>f, <1>i DEF SenderGiveUp
<1>7. CASE SenderFind(r)
  <2> DEFINE new == [sender[r] EXCEPT !.pc = "dispatch", !.seen = doc[sender[r].pick]]
  <2>1. sender' = [sender EXCEPT ![r] = new] BY <1>7 DEF SenderFind
  <2>2. new.pc = "dispatch" /\ new.pick = sender[r].pick BY <1>s DEF SenderRec
  <2> HIDE DEF new
  <2> QED BY <1>3, <1>7, <1>f, <2>1, <2>2 DEF SenderFind
<1>8. ASSUME NEW t \in Tasks, SenderScan(r, t) PROVE HandInv'
  <2>1. ~Undefined(t) BY WorkflowAssumption DEF HandInv, Undefined
  <2> DEFINE a == [sender[r] EXCEPT !.pc = "find", !.pick = t, !.todo = {}]
             b == [sender[r] EXCEPT !.todo = sender[r].todo \ {t}]
  <2>2. /\ sender' = [sender EXCEPT ![r] = a] \/ sender' = [sender EXCEPT ![r] = b]
        /\ sender[r].pc = "scan"
    BY <1>8 DEF SenderScan
  <2>3. a.pc = "find" /\ b.pick = sender[r].pick BY <1>s DEF SenderRec
  <2> HIDE DEF a, b
  <2>4. queue' = queue BY <1>8, <2>1 DEF SenderScan
  <2> QED BY <1>3, <1>8, <1>e, <1>f, <2>2, <2>3, <2>4 DEF SenderScan
<1>9. ASSUME NEW c \in Ctls, SenderDispatch(r, c) PROVE HandInv'
  <2> DEFINE t == sender[r].pick
             new == [FreeCtl EXCEPT !.pc = "subscribe", !.task = t, !.host = r,
                       !.ended = sender[r].seen.ended, !.deleted = sender[r].seen.deleted]
             a == [NoAck EXCEPT !.pc = "find"]
  <2>1. /\ ctl' = [ctl EXCEPT ![c] = new] /\ ack' = [ack EXCEPT ![<<c, "main">>] = a]
        /\ sender' = [sender EXCEPT ![r] = IdleSender] /\ ctl[c].pc = "free"
    BY <1>9 DEF SenderDispatch
  <2>2. new.pc = "subscribe" /\ new.task = t /\ a.pc = "find" OBVIOUS
  <2> HIDE DEF new, a
  <2>3. /\ ctl'[c] = new /\ Main(c)' = a
        /\ \A d \in Ctls \ {c} : ctl'[d] = ctl[d] /\ Main(d)' = Main(d)
    BY <2>1 DEF IInv, TypeOK, Main
  <2>4. \A d \in Ctls : CtlHand(d)'
    <3>1. CtlHand(c)' BY <2>2, <2>3 DEF CtlHand
    <3> QED BY <1>1, <2>3, <3>1, CtlHandKept DEF HandInv
  <2>5. ASSUME NEW u \in Tasks PROVE TaskHand(u)'
    <3>1. Owned(u) => Owned(u)' BY <2>1, <2>3 DEF Owned
    <3>2. u = t => Owned(u)' BY <2>2, <2>3 DEF Owned
    <3>3. u # t => queue'[u] = queue[u] BY <1>9 DEF SenderDispatch, QueueUpdate, IInv, TypeOK
    <3>4. CASE u = t BY <3>2, <3>4 DEF TaskHand, InHand
    <3>5. CASE u # t BY <1>1, <1>f, <2>1, <3>1, <3>3, <3>5, TaskHandKept DEF HandInv
    <3> QED BY <3>4, <3>5
  <2>6. \A q \in Replicas : sender'[q].pc = "scan" => sender'[q].pick = None
    BY <1>f, <1>i, <2>1 DEF HandInv
  <2> QED BY <1>1, <1>2, <2>4, <2>5, <2>6 DEF HandInv
<1> QED BY <1>4, <1>5, <1>6, <1>7, <1>8, <1>9 DEF SenderStep

\* The step of a controller that stays with its task, or leaves it begun.
LEMMA OwnHand ==
  ASSUME IInv, HandInv, NEW c \in Ctls, Alive(c), UNCHANGED <<defs, rep, sender, req>>, Settles,
         \A d \in Ctls \ {c} : ctl'[d] = ctl[d] /\ Main(d)' = Main(d),
         \A t \in Tasks : t # ctl[c].task => queue'[t] = queue[t] /\ doc'[t] = doc[t],
         CtlHand(c)', Alive(c)' => ctl'[c].task = ctl[c].task,
         ~Alive(c)' => Begun(ctl[c].task)
  PROVE  HandInv'
<1>1. \A p \in Procs : ReqHand(p)' BY ReqHandKept DEF HandInv
<1>2. \A d \in Ctls : CtlHand(d)' BY CtlHandKept DEF HandInv
<1>3. ASSUME NEW u \in Tasks PROVE TaskHand(u)'
  <2>1. CASE u # ctl[c].task
    <3>1. Owned(u) => Owned(u)' BY <2>1 DEF Owned
    <3> QED BY <2>1, <3>1, TaskHandKept DEF HandInv
  <2>2. CASE u = ctl[c].task /\ Alive(c)' BY <2>2 DEF TaskHand, InHand, Owned
  <2>3. CASE u = ctl[c].task /\ ~Alive(c)'
    <3>1. Begun(u)' BY <2>3 DEF Settles
    <3> QED BY <3>1 DEF TaskHand, Begun
  <2> QED BY <2>1, <2>2, <2>3
<1> QED BY <1>1, <1>2, <1>3 DEF HandInv

\* A controller exits only with its task begun.
LEMMA CtlStepHand ==
  ASSUME IInv, HandInv, NEW c \in Ctls, CtlStep(c)
  PROVE  HandInv'
<1>r. ctl[c] \in CtlRec BY DEF IInv, TypeOK
<1>v. CtlHand(c) BY DEF HandInv
<1>u. UNCHANGED <<doc, queue, defs, rep, sender, req>>
  BY DEF CtlStep, Subscribe, StageAck, DebugEvent, ReceiveCancel, FinishStages, FinishRun, CtlExit
<1>s. Settles BY <1>u DEF Settles, Begun
<1>f. ASSUME NEW new, ctl' = [ctl EXCEPT ![c] = new]
      PROVE  ctl'[c] = new /\ \A d \in Ctls \ {c} : ctl'[d] = ctl[d]
  BY <1>f DEF IInv, TypeOK
<1>b. ASSUME NEW new, ctl' = [ctl EXCEPT ![c] = new], new.task = ctl[c].task, new.pc # "free",
             Alive(c), Begun(ctl[c].task), \A d \in Ctls \ {c} : Main(d)' = Main(d)
      PROVE  HandInv'
  <2>1. Begun(ctl[c].task)' BY <1>b, <1>f, <1>u DEF Begun
  <2>2. CtlHand(c)' BY <2>1 DEF CtlHand
  <2> QED BY <1>b, <1>f, <1>s, <1>u, <2>2, OwnHand
<1>1. CASE Subscribe(c)
  <2> DEFINE new == [ctl[c] EXCEPT !.pc = "run", !.sub = TRUE]
  <2>1. /\ ctl[c].pc = "subscribe" /\ ctl' = [ctl EXCEPT ![c] = new] /\ ack' = ack
        /\ Main(c).pc = "none"
    BY <1>1 DEF Subscribe, Quiet, Main
  <2>2. new.pc = "run" /\ new.task = ctl[c].task BY <1>r DEF CtlRec
  <2>3. Begun(ctl[c].task) BY <1>v, <2>1 DEF CtlHand
  <2> HIDE DEF new
  <2> QED BY <1>b, <2>1, <2>2, <2>3 DEF Main
<1>2. CASE StageAck(c)
  <2>1. ctl[c].pc = "run" /\ ctl' = ctl BY <1>2 DEF StageAck
  <2>2. \A d \in Ctls \ {c} : Main(d)' = Main(d) BY <1>2 DEF StageAck, Main, IInv, TypeOK
  <2>3. CtlHand(c)' BY <1>v, <1>u, <2>1 DEF CtlHand, Begun
  <2> QED BY <1>s, <1>u, <2>1, <2>2, <2>3, OwnHand
<1>3. CASE DebugEvent(c)
  <2>1. Alive(c) /\ ctl' = ctl BY <1>3 DEF DebugEvent, IInv, Shape
  <2>2. \A d \in Ctls : Main(d)' = Main(d) BY <1>3 DEF DebugEvent, Main, IInv, TypeOK
  <2>3. CtlHand(c)' BY <1>s, <1>v, <2>1, <2>2, CtlHandKept
  <2> QED BY <1>s, <1>u, <2>1, <2>2, <2>3, OwnHand
<1>4. CASE ReceiveCancel(c)
  <2> DEFINE new == [ctl[c] EXCEPT !.ctx = TRUE]
  <2>1. ctl' = [ctl EXCEPT ![c] = new] /\ ack' = ack /\ Alive(c)
    BY <1>4 DEF ReceiveCancel, IInv, Shape
  <2>2. new.pc = ctl[c].pc /\ new.task = ctl[c].task BY <1>r DEF CtlRec
  <2> HIDE DEF new
  <2>3. CtlHand(c)' BY <1>f, <1>s, <1>v, <2>1, <2>2, CtlHandKept DEF Main
  <2> QED BY <1>f, <1>s, <1>u, <2>1, <2>2, <2>3, OwnHand DEF Main
<1>5. ASSUME NEW o \in Outcomes, FinishStages(c, o) PROVE HandInv'
  <2> DEFINE new == [ctl[c] EXCEPT !.pc = "clean", !.status = o]
  <2>1. ctl[c].pc = "run" /\ ctl' = [ctl EXCEPT ![c] = new] /\ ack' = ack
    BY <1>5 DEF FinishStages
  <2>2. new.pc = "clean" /\ new.task = ctl[c].task BY <1>r DEF CtlRec
  <2>3. Begun(ctl[c].task) BY <1>v, <2>1 DEF CtlHand
  <2> HIDE DEF new
  <2> QED BY <1>b, <2>1, <2>2, <2>3 DEF Main
<1>6. CASE FinishRun(c)
  <2> DEFINE new == [ctl[c] EXCEPT !.pc = "end", !.ended = TRUE, !.sub = FALSE, !.ctx = TRUE]
  <2>1. ctl[c].pc = "clean" /\ ctl' = [ctl EXCEPT ![c] = new] BY <1>6 DEF FinishRun
  <2>2. new.pc = "end" /\ new.task = ctl[c].task BY <1>r DEF CtlRec
  <2>3. Begun(ctl[c].task) BY <1>v, <2>1 DEF CtlHand
  <2>4. \A d \in Ctls \ {c} : Main(d)' = Main(d) BY <1>6 DEF FinishRun, Main, IInv, TypeOK
  <2> HIDE DEF new
  <2> QED BY <1>b, <2>1, <2>2, <2>3, <2>4
<1>7. CASE CtlExit(c)
  <2>1. ctl[c].pc = "end" /\ ctl' = [ctl EXCEPT ![c] = FreeCtl] /\ ack' = ack BY <1>7 DEF CtlExit
  <2>2. FreeCtl.pc = "free" OBVIOUS
  <2>3. ctl'[c].pc = "free" BY <2>1, <2>2, <1>f
  <2>4. Begun(ctl[c].task) BY <1>v, <2>1 DEF CtlHand
  <2>5. CtlHand(c)' BY <2>3 DEF CtlHand
  <2> QED BY <1>f, <1>s, <1>u, <2>1, <2>3, <2>4, <2>5, OwnHand DEF Main
<1> QED BY <1>1, <1>2, <1>3, <1>4, <1>5, <1>6, <1>7 DEF CtlStep

\* Every ack ends with a document that has begun.
LEMMA AckHand ==
  ASSUME IInv, HandInv, NEW c \in Ctls, NEW th \in Threads, AckStep(c, th)
  PROVE  HandInv'
<1> DEFINE t == ctl[c].task
<1>r. ctl[c] \in CtlRec BY DEF IInv, TypeOK
<1>a. ack[<<c, th>>] \in AckRec BY DEF IInv, TypeOK
<1>v. CtlHand(c) BY DEF HandInv
<1>p. ack[<<c, th>>].pc # "none" BY DEF AckStep, AckFind, AckQueue, AckSave, AckFinish
<1>l. Alive(c) /\ t \in Tasks BY <1>p DEF IInv, Shape
<1>u. UNCHANGED <<defs, rep, sender, req>> BY DEF AckStep, AckFind, AckQueue, AckSave, AckFinish
<1>m. \A d \in Ctls \ {c} : Main(d)' = Main(d)
  BY DEF AckStep, AckFind, AckQueue, AckSave, AckFinish, Main, IInv, TypeOK
<1>n. th # "main" => Main(c)' = Main(c)
  BY DEF AckStep, AckFind, AckQueue, AckSave, AckFinish, Main, IInv, TypeOK
<1>c. /\ ctl'[c].pc = ctl[c].pc /\ ctl'[c].task = t
      /\ \A d \in Ctls \ {c} : ctl'[d] = ctl[d]
  BY <1>r DEF AckStep, AckFind, AckQueue, AckSave, AckFinish, IInv, TypeOK, CtlRec
<1>q. \A u \in Tasks : u # t => queue'[u] = queue[u] /\ doc'[u] = doc[u]
  BY DEF AckStep, AckFind, AckQueue, AckSave, AckFinish, QueueUpdate, QueueDelete, IInv, TypeOK
<1>s. Settles
  <2>1. doc' = doc \/ AckSave(c, th) BY DEF AckStep, AckFind, AckQueue, AckFinish
  <2>2. AckSave(c, th) => doc'[t].status = ctl[c].status BY <1>l DEF AckSave, IInv, TypeOK
  <2>3. ctl[c].status \notin {"waiting", "none"} BY <1>r DEF CtlRec
  <2> QED BY <1>q, <2>1, <2>2, <2>3 DEF Settles, Begun
<1>b. ASSUME Begun(t) \/ doc'[t].status \notin {"waiting", "none"} PROVE CtlHand(c)'
  <2>1. doc'[t].status \notin {"waiting", "none"}
    <3>1. PICK u : u = t OBVIOUS
    <3>2. Begun(u) => Begun(u)' BY <1>l, <1>s, <3>1 DEF Settles
    <3> QED BY <1>b, <3>1, <3>2 DEF Begun
  <2> QED BY <1>c, <2>1 DEF CtlHand, Begun
<1>1. CASE th # "main"
  <2>1. CtlHand(c)' BY <1>1, <1>c, <1>n, <1>s, <1>v, CtlHandKept
  <2> QED BY <1>c, <1>l, <1>m, <1>q, <1>s, <1>u, <2>1, OwnHand
<1>2. CASE th = "main"
  <2>g. ASSUME NEW a, ack' = [ack EXCEPT ![<<c, "main">>] = a] PROVE Main(c)' = a
    BY <2>g DEF IInv, TypeOK, Main
  <2>0. Main(c).pc # "none" BY <1>2, <1>p DEF Main
  <2>1. ASSUME AckFind(c, "main") PROVE CtlHand(c)'
    <3>1. CASE doc[t].status \in AckedStatus BY <1>b, <3>1 DEF Begun, AckedStatus
    <3>2. CASE doc[t].status \notin AckedStatus
      <4> DEFINE a == [NoAck EXCEPT !.pc = "queue", !.seen = doc[t]]
      <4>1. ack' = [ack EXCEPT ![<<c, "main">>] = a] BY <2>1, <3>2 DEF AckFind
      <4>2. a.pc = "queue" OBVIOUS
      <4> HIDE DEF a
      <4>3. Main(c)'.pc = "queue" BY <2>g, <4>1, <4>2
      <4>4. CASE Begun(t) BY <1>b, <4>4
      <4>5. CASE ~Begun(t) BY <1>v, <1>l, <1>c, <4>3, <4>5 DEF CtlHand
      <4> QED BY <4>4, <4>5
    <3> QED BY <3>1, <3>2
  <2>2. ASSUME AckQueue(c, "main") PROVE CtlHand(c)'
    <3> DEFINE a == [Main(c) EXCEPT !.pc = "save"]
    <3>1. ack' = [ack EXCEPT ![<<c, "main">>] = a] BY <2>2 DEF AckQueue, Main
    <3>2. a.pc = "save" BY <1>a, <1>2 DEF AckRec, Main
    <3> HIDE DEF a
    <3>3. Main(c)'.pc = "save" BY <2>g, <3>1, <3>2
    <3>4. CASE Begun(t) BY <1>b, <3>4
    <3>5. CASE ~Begun(t) BY <1>v, <1>l, <1>c, <3>3, <3>5 DEF CtlHand
    <3> QED BY <3>4, <3>5
  <2>3. ASSUME AckSave(c, "main") PROVE CtlHand(c)'
    <3>1. doc'[t].status = ctl[c].status BY <2>3, <1>l DEF AckSave, IInv, TypeOK
    <3>2. ctl[c].status \notin {"waiting", "none"} BY <1>r DEF CtlRec
    <3> QED BY <1>b, <3>1, <3>2
  <2>4. ASSUME AckFinish(c, "main") PROVE CtlHand(c)'
    <3>1. Main(c).pc = "finish" BY <2>4 DEF AckFinish, Main
    <3>2. Begun(t) BY <1>v, <1>l, <3>1 DEF CtlHand
    <3> QED BY <1>b, <3>2
  <2>5. CtlHand(c)' BY <1>2, <2>1, <2>2, <2>3, <2>4 DEF AckStep
  <2> QED BY <1>c, <1>l, <1>m, <1>q, <1>s, <1>u, <2>5, OwnHand
<1> QED BY <1>1, <1>2

\* Nothing waits at the start.
LEMMA HandInit == Init => HandInv
<1> SUFFICES ASSUME Init PROVE HandInv OBVIOUS
<1>1. \A p \in Procs : req[p] = IdleReq BY DEF Init
<1>2. IdleReq.pc = "idle" /\ IdleReq.wf = None /\ IdleReq.seen = NoDoc /\ NoDoc.status = "none"
  OBVIOUS
<1>3. \A p \in Procs : ReqHand(p) BY <1>1, <1>2 DEF ReqHand
<1>4. \A c \in Ctls : CtlHand(c) BY DEF Init, CtlHand
<1>5. \A t \in Tasks : TaskHand(t) BY DEF Init, TaskHand
<1> QED BY <1>3, <1>4, <1>5 DEF Init, HandInv

\* Every step leaves waiting tasks in somebody's hands.
LEMMA HandNext ==
  ASSUME Bounds, IInv, HandInv, [Next]_vars
  PROVE  HandInv'
<1>1. ASSUME UNCHANGED <<doc, queue, defs, sender, rep, req, ctl, ack>> PROVE HandInv'
  <2>1. Settles BY <1>1 DEF Settles, Begun
  <2>2. \A p \in Procs : ReqHand(p)' BY <1>1, <2>1, ReqHandKept DEF HandInv
  <2>3. \A c \in Ctls : CtlHand(c)' BY <1>1, <2>1, CtlHandKept DEF HandInv, Main
  <2>4. \A t \in Tasks : TaskHand(t)' BY <1>1 DEF HandInv, TaskHand, InHand, Owned
  <2> QED BY <1>1, <2>2, <2>3, <2>4 DEF HandInv
<1>2. ASSUME NEW r \in Replicas, ReplicaStep(r) PROVE HandInv'
  <2>1. ~Crash(r) BY DEF Crash, Bounds, IInv, TypeOK, Counters
  <2>2. ~BootStep(r) BY DEF BootStep, Restart, BootDone, HandInv
  <2> QED BY <1>1, <1>2, <2>1, <2>2 DEF ReplicaStep, LockExpire
<1>3. ASSUME NEW w \in Workflows PROVE ~DeleteTestModule(w) BY DEF DeleteTestModule, Bounds
<1>4. CASE UNCHANGED vars BY <1>1, <1>4 DEF vars
<1> QED BY <1>2, <1>3, <1>4, HandlerHand, CancelHand, SenderHand, CtlStepHand, AckHand DEF Next

\* Without retries, deletions, crashes and requests that write an old document
\* back, a task that waits and has no entry is in the hands of the request that
\* pushes or cancels it, of a sender or of a controller: Push, Remove and the
\* dispatch of updateQueueAndRunTask never drop a waiting task between them.
THEOREM WaitingInHand ==
  ASSUME ~LockMayExpire, MaxTouches = 0, MaxResubmits = 0, MaxCrashes = 0, ~MayDelete
  PROVE  Spec => []NoStranded
<1>b. Bounds BY DEF Bounds
<1>1. Init => IInv /\ HandInv BY IInvInit, HandInit
<1>2. (IInv /\ HandInv) /\ [Next]_vars => (IInv /\ HandInv)' BY <1>b, IInvNext, HandNext
<1>3. IInv /\ HandInv => NoStranded
  BY DEF HandInv, TaskHand, InHand, NoStranded, Waits
<1> QED BY <1>1, <1>2, <1>3, PTL DEF Spec
-----------------------------------------------------------------------------
(* Requests when nobody cancels: neither CancelWorkflowTask nor, for lack of  *)
(* workflows to delete, DeleteWorkflowV4, nor a job of the task itself.       *)

NoCancelling ==
  /\ MaxCancels = 0 /\ "cancelled" \notin Outcomes
  /\ MayDelete => \A w \in Workflows : TypeOf[w] # "workflow"

PlainPc == {"idle", "push", "update", "touch"}
Plain == \A h \in Handlers : req[h].pc \in PlainPc

\* A request that neither cancels nor deletes goes on with what it has read.
LEMMA PlainStep ==
  ASSUME NoCancelling, IInv, Plain, NEW h \in Handlers, HandlerStep(h) \/ RequestStep(h)
  PROVE  \E new : /\ req' = [req EXCEPT ![h] = new] /\ new.pc \in PlainPc
                  /\ \/ new.seen \in {NoDoc, req[h].seen}
                     \/ \E t \in Tasks : new.seen = doc[t]
<1>r. req[h] \in ReqRec /\ req[h].pc \in PlainPc BY DEF IInv, TypeOK, Plain
<1>1. ASSUME NEW t \in Tasks, CreateTask(h, t) PROVE \E new :
        req' = [req EXCEPT ![h] = new] /\ new.pc = "push" /\ new.seen = NoDoc
  <2>1. WITNESS [IdleReq EXCEPT !.pc = "push", !.task = t]
  <2> QED BY <1>1 DEF CreateTask
<1>2. ASSUME NEW t \in Tasks, NEW pc, req' = Found(h, t, pc) PROVE \E new :
        req' = [req EXCEPT ![h] = new] /\ new.pc = pc /\ new.seen = doc[t]
  <2>1. WITNESS [IdleReq EXCEPT !.pc = pc, !.task = t, !.seen = doc[t]]
  <2> QED BY <1>2 DEF Found
<1>3. ASSUME NEW t \in Tasks PROVE ~CancelFind(h, t)
  BY DEF CancelFind, NoCancelling, IInv, TypeOK, Counters
<1>4. ASSUME NEW w \in Workflows PROVE ~DeleteWorkflowV4(h, w)
  BY DEF DeleteWorkflowV4, NoCancelling
<1>5. ASSUME NEW t \in Tasks, TouchFind(h, t) \/ RetryWorkflowTaskV4(h, t) \/ ManualExecWorkflowTaskV4(h, t)
      PROVE  req' = Found(h, t, "touch") \/ req' = Found(h, t, "update")
  BY <1>5 DEF TouchFind, RetryWorkflowTaskV4, ManualExecWorkflowTaskV4, Resubmit
<1>6. CASE HandlerStep(h)
  BY <1>1, <1>2, <1>3, <1>4, <1>5, <1>6 DEF HandlerStep, PlainPc
<1>7. CASE Push(h) \/ TouchUpdate(h)
  <2>1. req' = [req EXCEPT ![h] = IdleReq] BY <1>7 DEF Push, TouchUpdate
  <2>2. IdleReq.pc = "idle" /\ IdleReq.seen = NoDoc OBVIOUS
  <2> QED BY <2>1, <2>2 DEF PlainPc
<1>8. CASE ResubmitUpdate(h)
  <2> DEFINE new == [req[h] EXCEPT !.pc = "push"]
  <2>1. req' = [req EXCEPT ![h] = new] BY <1>8 DEF ResubmitUpdate
  <2>2. new.pc = "push" /\ new.seen = req[h].seen BY <1>r DEF ReqRec
  <2> HIDE DEF new
  <2> QED BY <2>1, <2>2 DEF PlainPc
<1>9. ~DeleteByID(h) /\ ~DeleteByWorkflowName(h)
  BY <1>r DEF DeleteByID, DeleteByWorkflowName, PlainPc
<1> QED BY <1>6, <1>7, <1>8, <1>9 DEF RequestStep

\* Only a replica that starts cancels.
LEMMA PlainCancel ==
  ASSUME IInv, Plain, NEW p \in Procs, CancelStep(p)
  PROVE  p \in Replicas /\ p \notin Handlers /\ \A h \in Handlers : req'[h] = req[h]
<1>1. p \notin Handlers
  BY DEF Plain, PlainPc, CancelStep, CancelRemove, CancelUpdate, CancelPublish, CancelNext
<1>2. \A q \in Procs \ {p} : req'[q] = req[q]
  BY DEF CancelStep, CancelRemove, CancelUpdate, CancelPublish, CancelNext, IInv, TypeOK
<1> QED BY <1>1, <1>2

\* Requests stay plain.
LEMMA PlainNext ==
  ASSUME NoCancelling, IInv, Plain, [Next]_vars
  PROVE  Plain'
<1>1. ASSUME NEW h \in Handlers, HandlerStep(h) \/ RequestStep(h) PROVE Plain'
  <2>1. PICK new : req' = [req EXCEPT ![h] = new] /\ new.pc \in PlainPc BY <1>1, PlainStep
  <2> QED BY <2>1 DEF Plain, IInv, TypeOK
<1>2. ASSUME NEW p \in Procs, CancelStep(p) PROVE Plain' BY <1>2, PlainCancel DEF Plain
<1>3. ASSUME req' = req PROVE Plain' BY <1>3 DEF Plain
<1>4. ASSUME NEW r \in Replicas, SenderStep(r) \/ LockExpire(r) PROVE req' = req
  BY <1>4 DEF SenderStep, LockExpire, SenderLock, SenderList, SenderGiveUp, SenderFind,
              SenderScan, SenderDispatch
<1>5. ASSUME NEW r \in Replicas, BootStep(r) PROVE Plain'
  <2>1. \A h \in Handlers : h # r BY ProcessAssumption
  <2>2. \A h \in Handlers : req'[h] = req[h]
    BY <1>5, <2>1 DEF BootStep, Restart, BootDone, IInv, TypeOK
  <2> QED BY <2>2 DEF Plain
<1>6. ASSUME NEW r \in Replicas, Crash(r) PROVE Plain'
  BY <1>6 DEF Crash, Plain, PlainPc
<1>7. ASSUME NEW c \in Ctls, CtlStep(c) \/ \E th \in Threads : AckStep(c, th) PROVE req' = req
  BY <1>7 DEF CtlStep, AckStep, Subscribe, StageAck, DebugEvent, ReceiveCancel, FinishStages,
      FinishRun, CtlExit, AckFind, AckQueue, AckSave, AckFinish
<1> QED BY <1>1, <1>2, <1>3, <1>4, <1>5, <1>6, <1>7 DEF Next, ReplicaStep, DeleteTestModule, vars
-----------------------------------------------------------------------------
(* Slots, when nobody cancels and nothing crashes: also with retries and      *)
(* manual executions at a time, and writers of old documents.                 *)

\* No trace of a cancellation.
Uncancelled ==
  /\ Plain
  /\ \A h \in Handlers : req[h].seen.status # "cancelled"
  /\ \A r \in Replicas : rep[r] = "up" /\ req[r].pc = "idle"
  /\ \A t \in Tasks : doc[t].status # "cancelled"
  /\ \A c \in Ctls : /\ ctl[c].status # "cancelled" /\ ~ctl[c].sig
                     /\ ctl[c].ctx => ctl[c].pc = "end"

\* The steps of requests.
LEMMA UncancelledRequest ==
  ASSUME NoCancelling, IInv, Uncancelled, NEW h \in Handlers, HandlerStep(h) \/ RequestStep(h)
  PROVE  Uncancelled' /\ UNCHANGED <<ctl, ack, sender, lock>> /\ (queue' = queue \/ Push(h))
<1>d. Plain BY DEF Uncancelled
<1>1. PICK new : /\ req' = [req EXCEPT ![h] = new] /\ new.pc \in PlainPc
                 /\ \/ new.seen \in {NoDoc, req[h].seen}
                    \/ \E t \in Tasks : new.seen = doc[t]
  BY <1>d, PlainStep
<1>2. new.seen.status # "cancelled" BY <1>1 DEF Uncancelled
<1>3. req'[h] = new /\ \A q \in Procs \ {h} : req'[q] = req[q] BY <1>1 DEF IInv, TypeOK
<1>4. Plain' /\ \A g \in Handlers : req'[g].seen.status # "cancelled"
  BY <1>1, <1>2, <1>3 DEF Plain, Uncancelled
<1>5. /\ UNCHANGED <<rep, ctl, ack, sender, lock>> /\ (queue' = queue \/ Push(h))
  <2>1. ~DeleteByID(h) /\ ~DeleteByWorkflowName(h)
    BY <1>d DEF Plain, PlainPc, DeleteByID, DeleteByWorkflowName
  <2> QED BY <2>1 DEF HandlerStep, RequestStep, CreateTask, CancelFind, TouchFind,
       RetryWorkflowTaskV4, ManualExecWorkflowTaskV4, Resubmit, DeleteWorkflowV4, Push,
       ResubmitUpdate, TouchUpdate
<1>6. \A r \in Replicas : rep'[r] = "up" /\ req'[r].pc = "idle"
  <2>1. \A r \in Replicas : r # h BY ProcessAssumption
  <2> QED BY <1>3, <1>5, <2>1 DEF Uncancelled
<1>7. \A t \in Tasks : doc'[t].status # "cancelled"
  <2>1. ASSUME NEW t, NEW d, d.status # "cancelled", doc' = [doc EXCEPT ![t] = d]
        PROVE  \A u \in Tasks : doc'[u].status # "cancelled"
    BY <2>1 DEF IInv, TypeOK, Uncancelled
  <2>2. ASSUME NEW t, CreateTask(h, t) PROVE \A u \in Tasks : doc'[u].status # "cancelled"
    <3> DEFINE d == [NoDoc EXCEPT !.status = "waiting"]
    <3>1. d.status = "waiting" OBVIOUS
    <3>2. doc' = [doc EXCEPT ![t] = d] BY <2>2 DEF CreateTask
    <3> HIDE DEF d
    <3> QED BY <2>1, <3>1, <3>2
  <2>3. CASE ResubmitUpdate(h)
    <3> DEFINE d == [NoDoc EXCEPT !.status = "waiting", !.deleted = req[h].seen.deleted]
    <3>1. d.status = "waiting" OBVIOUS
    <3>2. doc' = [doc EXCEPT ![req[h].task] = d] BY <2>3 DEF ResubmitUpdate
    <3> HIDE DEF d
    <3> QED BY <2>1, <3>1, <3>2
  <2>4. CASE TouchUpdate(h) BY <2>1, <2>4 DEF TouchUpdate, Uncancelled
  <2>5. CASE doc' = doc BY <2>5 DEF Uncancelled
  <2>6. ~DeleteByID(h) /\ ~DeleteByWorkflowName(h)
    BY <1>d DEF Plain, PlainPc, DeleteByID, DeleteByWorkflowName
  <2> QED BY <2>2, <2>3, <2>4, <2>5, <2>6 DEF HandlerStep, RequestStep, CancelFind, TouchFind,
       RetryWorkflowTaskV4, ManualExecWorkflowTaskV4, Resubmit, DeleteWorkflowV4, Push
<1> QED BY <1>4, <1>5, <1>6, <1>7 DEF Uncancelled

\* A controller that does not become cancelled.
LEMMA UncancelledCtl ==
  ASSUME IInv, Uncancelled, NEW c \in Ctls, NEW new, ctl' = [ctl EXCEPT ![c] = new],
         new.status # "cancelled", ~new.sig, new.ctx => new.pc = "end",
         UNCHANGED <<doc, req, rep>>
  PROVE  Uncancelled'
<1>1. ctl'[c] = new /\ \A d \in Ctls \ {c} : ctl'[d] = ctl[d] BY DEF IInv, TypeOK
<1>2. \A d \in Ctls : ctl'[d].status # "cancelled" /\ ~ctl'[d].sig /\ (ctl'[d].ctx => ctl'[d].pc = "end")
  BY <1>1 DEF Uncancelled
<1> QED BY <1>2 DEF Uncancelled, Plain

\* Nothing is read or written that was left alone.
LEMMA UncancelledStill ==
  ASSUME Uncancelled, UNCHANGED <<doc, req, rep, ctl>>
  PROVE  Uncancelled'
BY DEF Uncancelled, Plain

\* The steps of the controllers.
LEMMA UncancelledRun ==
  ASSUME NoCancelling, IInv, Uncancelled, NEW c \in Ctls, CtlStep(c)
  PROVE  Uncancelled'
<1>r. ctl[c] \in CtlRec BY DEF IInv, TypeOK
<1>c. ctl[c].status # "cancelled" /\ ~ctl[c].sig /\ (ctl[c].ctx => ctl[c].pc = "end") BY DEF Uncancelled
<1>u. UNCHANGED <<doc, req, rep>>
  BY DEF CtlStep, Subscribe, StageAck, DebugEvent, ReceiveCancel, FinishStages, FinishRun, CtlExit
<1>1. CASE Subscribe(c)
  <2> DEFINE new == [ctl[c] EXCEPT !.pc = "run", !.sub = TRUE]
  <2>1. ctl' = [ctl EXCEPT ![c] = new] /\ ctl[c].pc = "subscribe" BY <1>1 DEF Subscribe
  <2>2. new.status = ctl[c].status /\ new.sig = ctl[c].sig /\ new.ctx = ctl[c].ctx BY <1>r DEF CtlRec
  <2> HIDE DEF new
  <2> QED BY <1>c, <1>u, <2>1, <2>2, UncancelledCtl
<1>2. CASE StageAck(c) \/ DebugEvent(c) BY <1>2, <1>u, UncancelledStill DEF StageAck, DebugEvent
<1>3. ~ReceiveCancel(c) BY <1>c DEF ReceiveCancel
<1>4. ASSUME NEW o \in Outcomes, FinishStages(c, o) PROVE Uncancelled'
  <2> DEFINE new == [ctl[c] EXCEPT !.pc = "clean", !.status = o]
  <2>1. ctl' = [ctl EXCEPT ![c] = new] /\ ctl[c].pc = "run" /\ o # "cancelled"
    BY <1>4 DEF FinishStages, NoCancelling
  <2>2. new.status = o /\ new.sig = ctl[c].sig /\ new.ctx = ctl[c].ctx BY <1>r DEF CtlRec
  <2> HIDE DEF new
  <2> QED BY <1>c, <1>u, <2>1, <2>2, UncancelledCtl
<1>5. CASE FinishRun(c)
  <2> DEFINE new == [ctl[c] EXCEPT !.pc = "end", !.ended = TRUE, !.sub = FALSE, !.ctx = TRUE]
  <2>1. ctl' = [ctl EXCEPT ![c] = new] BY <1>5 DEF FinishRun
  <2>2. new.status = ctl[c].status /\ new.sig = ctl[c].sig /\ new.pc = "end" BY <1>r DEF CtlRec
  <2> HIDE DEF new
  <2> QED BY <1>c, <1>u, <2>1, <2>2, UncancelledCtl
<1>6. CASE CtlExit(c)
  <2>1. ctl' = [ctl EXCEPT ![c] = FreeCtl] BY <1>6 DEF CtlExit
  <2>2. FreeCtl.status = "running" /\ ~FreeCtl.sig /\ ~FreeCtl.ctx OBVIOUS
  <2> QED BY <1>u, <2>1, <2>2, UncancelledCtl
<1> QED BY <1>1, <1>2, <1>3, <1>4, <1>5, <1>6 DEF CtlStep

\* The acks.
LEMMA UncancelledAck ==
  ASSUME IInv, Uncancelled, NEW c \in Ctls, NEW th \in Threads, AckStep(c, th)
  PROVE  Uncancelled'
<1>r. ctl[c] \in CtlRec BY DEF IInv, TypeOK
<1>1. CASE AckFind(c, th)
  <2>1. ctl[c].task \in Tasks BY <1>1 DEF AckFind, IInv, Shape
  <2>2. doc[ctl[c].task].status # "cancelled" BY <2>1 DEF Uncancelled
  <2>3. ctl' = ctl BY <1>1, <1>r, <2>2 DEF AckFind, CtlRec, IInv, TypeOK
  <2> QED BY <1>1, <2>3, UncancelledStill DEF AckFind
<1>2. CASE AckQueue(c, th) \/ AckFinish(c, th) BY <1>2, UncancelledStill DEF AckQueue, AckFinish
<1>3. CASE AckSave(c, th)
  <2>1. UNCHANGED <<req, rep, ctl>> /\ ctl[c].status # "cancelled" BY <1>3 DEF AckSave, Uncancelled
  <2>2. \A t \in Tasks : doc'[t].status \in {doc[t].status, ctl[c].status}
    BY <1>3 DEF AckSave, IInv, TypeOK
  <2>3. \A t \in Tasks : doc'[t].status # "cancelled" BY <2>1, <2>2 DEF Uncancelled
  <2> QED BY <2>1, <2>3 DEF Uncancelled, Plain
<1> QED BY <1>1, <1>2, <1>3 DEF AckStep

\* The senders, and replicas that do not crash.
LEMMA UncancelledReplica ==
  ASSUME MaxCrashes = 0, IInv, Uncancelled, NEW r \in Replicas, SenderStep(r) \/ ReplicaStep(r)
  PROVE  Uncancelled' /\ (SenderStep(r) \/ LockExpire(r))
<1>1. ~Crash(r) BY DEF Crash, IInv, TypeOK, Counters
<1>2. ~Restart(r) /\ ~BootDone(r) BY DEF Uncancelled, Restart, BootDone
<1>3. ASSUME NEW c \in Ctls, SenderDispatch(r, c) PROVE Uncancelled'
  <2> DEFINE new == [FreeCtl EXCEPT !.pc = "subscribe", !.task = sender[r].pick, !.host = r,
                       !.ended = sender[r].seen.ended, !.deleted = sender[r].seen.deleted]
  <2>1. ctl' = [ctl EXCEPT ![c] = new] /\ UNCHANGED <<doc, req, rep>> BY <1>3 DEF SenderDispatch
  <2>2. new.status = "running" /\ ~new.sig /\ ~new.ctx OBVIOUS
  <2> HIDE DEF new
  <2> QED BY <2>1, <2>2, UncancelledCtl
<1>4. CASE \E c \in Ctls : SenderDispatch(r, c) BY <1>3, <1>4 DEF SenderStep
<1>5. CASE UNCHANGED <<doc, req, rep, ctl>>
  BY <1>1, <1>2, <1>5, UncancelledStill DEF ReplicaStep, BootStep
<1> QED BY <1>1, <1>2, <1>4, <1>5 DEF SenderStep, ReplicaStep, BootStep, SenderLock, SenderList,
         SenderGiveUp, SenderFind, SenderScan, LockExpire
\* A controller that may yet write its task's entry.
Working(c) == Alive(c) /\ ~(ctl[c].pc = "end" /\ Main(c).pc = "none")

Early == {"subscribe", "run", "clean"}
Busy(c) == ctl[c].pc \in Early \/ ctl[c].status = "running"

\* The entry of a task that is worked on is neither absent nor waiting, and occupies a slot until the
\* last ack, which alone removes it: a task gets the next controller when the last is done. A last
\* ack of status running finds the slot it keeps.
WorkInv ==
  \A c \in Ctls : Working(c) =>
    /\ queue[ctl[c].task] \notin {Absent, "waiting"}
    /\ Busy(c) => queue[ctl[c].task] \in {"queued", "running"}
    /\ ctl[c].pc \in Early => Main(c).pc # "finish"
    /\ \A d \in Ctls : Working(d) /\ ctl[d].task = ctl[c].task => d = c

\* What the sender has in hand waits.
PickInv ==
  \A r \in Replicas :
    /\ sender[r].pc = "scan" => sender[r].pick = None
    /\ \A t \in Tasks : Chosen(r, t) => queue[t] = "waiting"

\* The sender that passed hasAgentAvaiable has a slot to give.
FreeInv ==
  \A r \in Replicas : sender[r].pc # "idle" => Cardinality(Occupied) < WorkflowConcurrency

SlotsInv == WorkInv /\ PickInv /\ FreeInv /\ SlotBound

\* Entries change between absent and waiting, or not.
LEMMA SameSlots ==
  ASSUME \A t \in Tasks : \/ queue'[t] = queue[t]
                          \/ queue'[t] \notin {"queued", "running"}
                          \/ queue[t] \in {"queued", "running"}
  PROVE  /\ Cardinality(Occupied') <= Cardinality(Occupied)
         /\ Cardinality(Occupied') \in Nat /\ Cardinality(Occupied) \in Nat
<1>1. Occupied' \subseteq Occupied BY DEF Occupied
<1>2. IsFiniteSet(Occupied) BY OccupiedFinite
<1> QED BY <1>1, <1>2, FS_Subset, FS_CardinalityType

\* A step that takes no slot and gives none keeps the bound.
LEMMA SlotsKept ==
  ASSUME IInv, SlotsInv,
         \A t \in Tasks : \/ queue'[t] = queue[t]
                          \/ queue'[t] \notin {"queued", "running"}
                          \/ queue[t] \in {"queued", "running"},
         \A r \in Replicas : sender'[r].pc # "idle" => sender[r].pc # "idle",
         WorkInv', PickInv'
  PROVE  SlotsInv'
<1>1. /\ Cardinality(Occupied') <= Cardinality(Occupied)
      /\ Cardinality(Occupied') \in Nat /\ Cardinality(Occupied) \in Nat
  BY SameSlots
<1>2. FreeInv' BY <1>1, ConcurrencyAssumption DEF SlotsInv, FreeInv
<1>3. SlotBound' BY <1>1, ConcurrencyAssumption DEF SlotsInv, SlotBound
<1> QED BY <1>2, <1>3 DEF SlotsInv

\* Controllers that go on or are done, while the entries they work on are left alone.
LEMMA WorkKept ==
  ASSUME IInv', WorkInv,
         \A c \in Ctls : Working(c)' =>
           /\ Working(c) /\ ctl'[c].task = ctl[c].task
           /\ Busy(c)' => Busy(c)
           /\ ctl'[c].pc \in Early => Main(c)'.pc # "finish",
         \A t \in Tasks : queue'[t] = queue[t] \/ queue[t] \in {Absent, "waiting"}
  PROVE  WorkInv'
<1> SUFFICES ASSUME NEW c \in Ctls, Working(c)'
             PROVE  /\ queue'[ctl'[c].task] \notin {Absent, "waiting"}
                    /\ Busy(c)' => queue'[ctl'[c].task] \in {"queued", "running"}
                    /\ ctl'[c].pc \in Early => Main(c)'.pc # "finish"
                    /\ \A d \in Ctls : Working(d)' /\ ctl'[d].task = ctl'[c].task => d = c
  BY DEF WorkInv
<1>1. ctl[c].task \in Tasks /\ ctl'[c].task = ctl[c].task BY DEF IInv, Shape, Working
<1>2. queue[ctl[c].task] \notin {Absent, "waiting"} BY DEF WorkInv
<1>3. queue'[ctl[c].task] = queue[ctl[c].task] BY <1>1, <1>2
<1> QED BY <1>1, <1>2, <1>3 DEF WorkInv

\* The same, when the controllers are left alone.
LEMMA WorkStill ==
  ASSUME IInv', WorkInv, UNCHANGED <<ctl, ack>>,
         \A t \in Tasks : queue'[t] = queue[t] \/ queue[t] \in {Absent, "waiting"}
  PROVE  WorkInv'
<1>1. ASSUME NEW c \in Ctls, Working(c)'
      PROVE  /\ Working(c) /\ ctl'[c].task = ctl[c].task
             /\ Busy(c)' => Busy(c)
             /\ ctl'[c].pc \in Early => Main(c)'.pc # "finish"
  <2>1. ctl'[c] = ctl[c] /\ Main(c)' = Main(c) BY DEF Main
  <2>2. Working(c) BY <1>1, <2>1 DEF Working
  <2> QED BY <2>1, <2>2 DEF WorkInv, Busy
<1> QED BY <1>1, WorkKept

\* Requests: Push makes a waiting entry where there was none.
LEMMA SlotsRequest ==
  ASSUME IInv, IInv', SlotsInv, NEW h \in Handlers, UNCHANGED <<ctl, ack, sender, lock>>,
         queue' = queue \/ Push(h)
  PROVE  SlotsInv'
<1>1. \A t \in Tasks : queue'[t] = queue[t] \/ (queue[t] = Absent /\ queue'[t] = "waiting")
  BY DEF Push, QueueCreate, IInv, TypeOK
<1>2. WorkInv' BY <1>1, WorkStill DEF SlotsInv
<1>3. PickInv' BY <1>1 DEF SlotsInv, PickInv, Chosen
<1> QED BY <1>1, <1>2, <1>3, SlotsKept

\* Nothing changes for the slots.
LEMMA SlotsStill ==
  ASSUME IInv, IInv', SlotsInv, UNCHANGED <<ctl, ack, sender, queue>>
  PROVE  SlotsInv'
<1>1. WorkInv' BY WorkStill DEF SlotsInv
<1>2. PickInv' BY DEF SlotsInv, PickInv, Chosen
<1> QED BY <1>1, <1>2, SlotsKept

\* The sender's round up to the dispatch.
LEMMA SlotsSender ==
  ASSUME IInv, IInv', SlotsInv, NEW r \in Replicas, SenderStep(r)
  PROVE  SlotsInv' \/ \E c \in Ctls : SenderDispatch(r, c)
<1>r. sender[r] \in SenderRec BY DEF IInv, TypeOK
<1>f. ASSUME NEW new, sender' = [sender EXCEPT ![r] = new]
      PROVE  sender'[r] = new /\ \A q \in Replicas \ {r} : sender'[q] = sender[q]
  BY <1>f DEF IInv, TypeOK
<1>k. ASSUME NEW new, sender' = [sender EXCEPT ![r] = new], UNCHANGED <<ctl, ack, queue>>,
             new.pc # "idle" => sender[r].pc # "idle",
             new.pc = "scan" => new.pick = None,
             \A t \in Tasks : t \in new.todo \/ new.pick = t => queue[t] = "waiting"
      PROVE  SlotsInv'
  <2>1. WorkInv' BY <1>k, WorkStill DEF SlotsInv
  <2>2. PickInv' BY <1>k, <1>f DEF SlotsInv, PickInv, Chosen
  <2> QED BY <1>k, <1>f, <2>1, <2>2, SlotsKept
<1>i. /\ IdleSender.pc = "idle" /\ IdleSender.todo = {} /\ IdleSender.pick = None
      /\ None \notin Tasks
  BY ProcessAssumption
<1>c. /\ sender[r].pc = "scan" => sender[r].pick = None
      /\ \A t \in Tasks : t \in sender[r].todo \/ sender[r].pick = t => queue[t] = "waiting"
  BY DEF SlotsInv, PickInv, Chosen
<1>1. CASE SenderLock(r)
  <2> DEFINE new == [sender[r] EXCEPT !.pc = "list"]
  <2>1. sender' = [sender EXCEPT ![r] = new] /\ UNCHANGED <<ctl, ack, queue>> /\ hasAgentAvaiable
    BY <1>1 DEF SenderLock
  <2>2. new.pc = "list" /\ new.todo = sender[r].todo /\ new.pick = sender[r].pick BY <1>r DEF SenderRec
  <2> HIDE DEF new
  <2>3. WorkInv' BY <2>1, WorkStill DEF SlotsInv
  <2>4. PickInv' BY <1>f, <2>1, <2>2 DEF SlotsInv, PickInv, Chosen
  <2>5. Cardinality(Occupied) < WorkflowConcurrency BY <2>1 DEF hasAgentAvaiable
  <2>6. Occupied' = Occupied BY <2>1 DEF Occupied
  <2>7. FreeInv' /\ SlotBound' BY <2>5, <2>6 DEF FreeInv, SlotBound, SlotsInv
  <2> QED BY <2>3, <2>4, <2>7 DEF SlotsInv
<1>2. CASE SenderList(r)
  <2> DEFINE waiting == {t \in Tasks : queue[t] = "waiting"}
             new == [sender[r] EXCEPT !.pc = "scan", !.todo = waiting]
  <2>1. UNCHANGED <<ctl, ack, queue>> /\ sender[r].pc = "list" BY <1>2 DEF SenderList
  <2>2. sender' = [sender EXCEPT ![r] = IdleSender] \/ sender' = [sender EXCEPT ![r] = new]
    BY <1>2 DEF SenderList
  <2>3. new.pc = "scan" /\ new.todo = waiting /\ new.pick = sender[r].pick BY <1>r DEF SenderRec
  <2>4. sender[r].pick = None BY <2>1 DEF IInv, Shape
  <2> HIDE DEF new
  <2> QED BY <1>k, <1>i, <2>1, <2>2, <2>3, <2>4
<1>3. CASE SenderGiveUp(r) BY <1>3, <1>k, <1>i DEF SenderGiveUp
<1>4. CASE SenderFind(r)
  <2> DEFINE new == [sender[r] EXCEPT !.pc = "dispatch", !.seen = doc[sender[r].pick]]
  <2>1. sender' = [sender EXCEPT ![r] = new] /\ UNCHANGED <<ctl, ack, queue>> /\ sender[r].pc = "find"
    BY <1>4 DEF SenderFind
  <2>2. new.pc = "dispatch" /\ new.todo = sender[r].todo /\ new.pick = sender[r].pick
    BY <1>r DEF SenderRec
  <2> HIDE DEF new
  <2> QED BY <1>k, <1>c, <2>1, <2>2
<1>5. ASSUME NEW t \in Tasks, SenderScan(r, t) PROVE SlotsInv'
  <2> DEFINE pick == [sender[r] EXCEPT !.pc = "find", !.pick = t, !.todo = {}]
             skip == [sender[r] EXCEPT !.todo = sender[r].todo \ {t}]
  <2>1. sender[r].pc = "scan" /\ t \in sender[r].todo /\ UNCHANGED <<ctl, ack>>
    BY <1>5 DEF SenderScan, IsOldest
  <2>2. \/ Undefined(t) /\ queue' = QueueDelete(t) /\ sender' = [sender EXCEPT ![r] = skip]
        \/ queue' = queue /\ sender' = [sender EXCEPT ![r] = pick]
        \/ queue' = queue /\ sender' = [sender EXCEPT ![r] = skip]
    BY <1>5 DEF SenderScan
  <2>3. /\ pick.pc = "find" /\ pick.pick = t /\ pick.todo = {}
        /\ skip.pc = "scan" /\ skip.pick = sender[r].pick /\ skip.todo = sender[r].todo \ {t}
    BY <1>r, <2>1 DEF SenderRec
  <2> HIDE DEF pick, skip
  <2>4. CASE queue' = queue BY <1>k, <1>c, <2>1, <2>2, <2>3, <2>4
  <2>5. CASE queue' = QueueDelete(t) /\ sender' = [sender EXCEPT ![r] = skip]
    <3>1. queue'[t] = Absent /\ \A u \in Tasks \ {t} : queue'[u] = queue[u]
      BY <2>5 DEF QueueDelete, IInv, TypeOK
    <3>2. queue[t] = "waiting" BY <1>c, <2>1
    <3>3. WorkInv' BY <2>1, <3>1, <3>2, WorkStill DEF SlotsInv
    <3>4. \A q \in Replicas \ {r} : sender[q].pc = "idle" BY <2>1 DEF IInv, LockInv
    <3>5. \A q \in Replicas, u \in Tasks : Chosen(q, u)' => Chosen(q, u) /\ u # t
      <4>1. \A u \in Tasks : Chosen(r, u)' => Chosen(r, u) /\ u # t
        <5>1. /\ sender'[r].pick = None /\ None \notin Tasks
              /\ sender'[r].todo = sender[r].todo \ {t}
          BY <1>f, <1>c, <1>i, <2>1, <2>3, <2>5
        <5> QED BY <5>1 DEF Chosen
      <4>2. \A q \in Replicas \ {r}, u \in Tasks : ~Chosen(q, u)'
        BY <1>f, <1>i, <2>5, <3>4 DEF Chosen, IInv, Shape
      <4> QED BY <4>1, <4>2
    <3>6. PickInv'
      <4>1. \A q \in Replicas : sender'[q].pc = "scan" => sender'[q].pick = None
        BY <1>f, <1>c, <2>1, <2>3, <2>5 DEF SlotsInv, PickInv
      <4> QED BY <3>1, <3>5, <4>1 DEF SlotsInv, PickInv
    <3>7. \A q \in Replicas : sender'[q].pc # "idle" => sender[q].pc # "idle"
      BY <1>f, <2>1, <2>5
    <3>8. \A u \in Tasks : queue'[u] = queue[u] \/ queue'[u] \notin {"queued", "running"} BY <3>1
    <3> QED BY <3>3, <3>6, <3>7, <3>8, SlotsKept
  <2> QED BY <2>2, <2>4, <2>5
<1> QED BY <1>1, <1>2, <1>3, <1>4, <1>5 DEF SenderStep
\* The dispatch takes the slot that the sender has found free.
LEMMA SlotsDispatch ==
  ASSUME IInv, IInv', SlotsInv, NEW r \in Replicas, NEW c \in Ctls, SenderDispatch(r, c)
  PROVE  SlotsInv'
<1> DEFINE t == sender[r].pick
           new == [FreeCtl EXCEPT !.pc = "subscribe", !.task = t, !.host = r,
                     !.ended = sender[r].seen.ended, !.deleted = sender[r].seen.deleted]
           a == [NoAck EXCEPT !.pc = "find"]
<1>1. /\ ctl' = [ctl EXCEPT ![c] = new] /\ ack' = [ack EXCEPT ![<<c, "main">>] = a]
      /\ queue' = QueueUpdate(t, "queued") /\ sender' = [sender EXCEPT ![r] = IdleSender]
      /\ sender[r].pc = "dispatch"
  BY DEF SenderDispatch
<1>2. new.pc = "subscribe" /\ new.task = t /\ a.pc = "find" OBVIOUS
<1>3. t \in Tasks /\ queue[t] = "waiting" BY <1>1 DEF IInv, Shape, SlotsInv, PickInv, Chosen
<1> HIDE DEF t, new, a
<1>4. queue'[t] = "queued" /\ \A u \in Tasks \ {t} : queue'[u] = queue[u]
  BY <1>1, <1>3 DEF QueueUpdate, IInv, TypeOK
<1>5. ctl'[c] = new /\ \A d \in Ctls \ {c} : ctl'[d] = ctl[d] BY <1>1 DEF IInv, TypeOK
<1>6. Main(c)' = a /\ \A d \in Ctls \ {c} : Main(d)' = Main(d) BY <1>1 DEF IInv, TypeOK, Main
<1>7. \A d \in Ctls \ {c} : Working(d)' <=> Working(d) BY <1>5, <1>6 DEF Working
<1>8. \A d \in Ctls : Working(d) => ctl[d].task \in Tasks /\ ctl[d].task # t
  BY <1>3 DEF IInv, Shape, Working, SlotsInv, WorkInv
<1>9. WorkInv'
  <2> SUFFICES ASSUME NEW d \in Ctls, Working(d)'
               PROVE  /\ queue'[ctl'[d].task] \notin {Absent, "waiting"}
                      /\ Busy(d)' => queue'[ctl'[d].task] \in {"queued", "running"}
                      /\ ctl'[d].pc \in Early => Main(d)'.pc # "finish"
                      /\ \A e \in Ctls : Working(e)' /\ ctl'[e].task = ctl'[d].task => e = d
    BY DEF WorkInv
  <2>1. CASE d = c BY <1>2, <1>4, <1>5, <1>6, <1>7, <1>8, <2>1
  <2>2. CASE d # c
    <3>1. Working(d) /\ ctl'[d] = ctl[d] /\ Main(d)' = Main(d) BY <1>5, <1>6, <1>7, <2>2
    <3>2. queue'[ctl[d].task] = queue[ctl[d].task] BY <1>4, <1>8, <3>1
    <3>3. \A e \in Ctls : Working(e)' /\ ctl'[e].task = ctl'[d].task => e = d
      BY <1>2, <1>5, <1>7, <1>8, <3>1 DEF SlotsInv, WorkInv
    <3> QED BY <3>1, <3>2, <3>3 DEF SlotsInv, WorkInv, Busy
  <2> QED BY <2>1, <2>2
<1>10. \A q \in Replicas : sender'[q].pc = "idle"
  <2>1. IdleSender.pc = "idle" OBVIOUS
  <2>2. \A q \in Replicas \ {r} : sender[q].pc = "idle" BY <1>1 DEF IInv, LockInv
  <2> QED BY <1>1, <2>1, <2>2 DEF IInv, TypeOK
<1>11. PickInv'
  <2>1. \A q \in Replicas : sender'[q].todo = {} /\ sender'[q].pick = None BY <1>10 DEF IInv, Shape
  <2> QED BY <1>10, <2>1, ProcessAssumption DEF PickInv, Chosen
<1>12. FreeInv' BY <1>10 DEF FreeInv
<1>13. SlotBound'
  <2>1. Cardinality(Occupied) < WorkflowConcurrency BY <1>1 DEF SlotsInv, FreeInv
  <2>2. IsFiniteSet(Occupied) /\ Cardinality(Occupied) \in Nat BY OccupiedFinite
  <2>3. Occupied' \subseteq Occupied \cup {t} BY <1>4 DEF Occupied
  <2> DEFINE S == Occupied
             S2 == Occupied'
  <2> HIDE DEF S, S2
  <2>4. /\ IsFiniteSet(S \cup {t})
        /\ Cardinality(S \cup {t}) \in {Cardinality(S), Cardinality(S) + 1}
    BY <2>2, FS_AddElement DEF S
  <2>5. IsFiniteSet(S2) /\ Cardinality(S2) <= Cardinality(S \cup {t})
    BY <2>3, <2>4, FS_Subset DEF S, S2
  <2>6. Cardinality(S2) \in Nat BY <2>5, FS_CardinalityType
  <2>7. Cardinality(S2) <= WorkflowConcurrency
    BY <2>1, <2>2, <2>4, <2>5, <2>6, ConcurrencyAssumption DEF S
  <2> QED BY <2>7 DEF SlotBound, S2
<1> QED BY <1>9, <1>11, <1>12, <1>13 DEF SlotsInv

\* The step of one controller that goes on or is done, and leaves the entries alone.
LEMMA WorkTurn ==
  ASSUME IInv, IInv', SlotsInv, NEW c \in Ctls, UNCHANGED <<queue, sender>>,
         \A d \in Ctls \ {c} : ctl'[d] = ctl[d] /\ Main(d)' = Main(d),
         Working(c)' =>
           /\ Working(c) /\ ctl'[c].task = ctl[c].task
           /\ Busy(c)' => Busy(c)
           /\ ctl'[c].pc \in Early => Main(c)'.pc # "finish"
  PROVE  SlotsInv'
<1>1. ASSUME NEW d \in Ctls \ {c}, Working(d)'
      PROVE  /\ Working(d) /\ ctl'[d].task = ctl[d].task
             /\ Busy(d)' => Busy(d)
             /\ ctl'[d].pc \in Early => Main(d)'.pc # "finish"
  <2>1. ctl'[d] = ctl[d] /\ Main(d)' = Main(d) OBVIOUS
  <2>2. Working(d) BY <1>1, <2>1 DEF Working
  <2> QED BY <2>1, <2>2 DEF SlotsInv, WorkInv, Busy
<1>2. WorkInv' BY <1>1, WorkKept DEF SlotsInv
<1>3. PickInv' BY DEF SlotsInv, PickInv, Chosen
<1> QED BY <1>2, <1>3, SlotsKept

\* The steps of Run besides its acks.
LEMMA SlotsRun ==
  ASSUME ~SideAcks, IInv, IInv', EndInv, SlotsInv, NEW c \in Ctls, CtlStep(c)
  PROVE  SlotsInv'
<1>r. ctl[c] \in CtlRec BY DEF IInv, TypeOK
<1>u. UNCHANGED <<queue, sender>>
  BY DEF CtlStep, Subscribe, StageAck, DebugEvent, ReceiveCancel, FinishStages, FinishRun, CtlExit
<1>o. /\ \A d \in Ctls \ {c} : ctl'[d] = ctl[d] /\ Main(d)' = Main(d)
      /\ ack' = ack => Main(c)' = Main(c)
  <2>1. \A d \in Ctls \ {c} : ctl'[d] = ctl[d]
    BY DEF CtlStep, Subscribe, StageAck, DebugEvent, ReceiveCancel, FinishStages, FinishRun, CtlExit,
           IInv, TypeOK
  <2>2. ack' = ack \/ \E a : ack' = [ack EXCEPT ![<<c, "main">>] = a]
    BY DEF CtlStep, Subscribe, StageAck, DebugEvent, ReceiveCancel, FinishStages, FinishRun, CtlExit
  <2>3. \A d \in Ctls \ {c} : ack'[<<d, "main">>] = ack[<<d, "main">>]
    <3>1. ASSUME NEW a, ack' = [ack EXCEPT ![<<c, "main">>] = a], NEW d \in Ctls \ {c}
          PROVE  ack'[<<d, "main">>] = ack[<<d, "main">>]
      BY <3>1 DEF IInv, TypeOK
    <3> QED BY <2>2, <3>1
  <2> QED BY <2>1, <2>3 DEF Main
<1>f. ASSUME NEW new, ctl' = [ctl EXCEPT ![c] = new] PROVE ctl'[c] = new
  BY <1>f DEF IInv, TypeOK
<1>w. Working(c) /\ ctl[c].pc \in Early => Main(c).pc # "finish" BY DEF SlotsInv, WorkInv
<1>k. ASSUME ack' = ack, NEW new, ctl' = [ctl EXCEPT ![c] = new], new.task = ctl[c].task,
             \/ new.pc = ctl[c].pc /\ new.status = ctl[c].status
             \/ new.pc \in Early /\ ctl[c].pc \in Early
      PROVE  SlotsInv'
  <2>1. ctl'[c] = new /\ Main(c)' = Main(c) BY <1>k, <1>f, <1>o
  <2>2. Working(c)' => Working(c) BY <1>k, <2>1 DEF Working, Early
  <2>3. Busy(c)' => Busy(c) BY <1>k, <2>1 DEF Busy
  <2> QED BY <1>k, <1>o, <1>u, <1>w, <2>1, <2>2, <2>3, WorkTurn
<1>1. CASE Subscribe(c)
  <2> DEFINE new == [ctl[c] EXCEPT !.pc = "run", !.sub = TRUE]
  <2>1. ctl[c].pc = "subscribe" /\ ctl' = [ctl EXCEPT ![c] = new] /\ ack' = ack BY <1>1 DEF Subscribe
  <2>2. new.pc = "run" /\ new.task = ctl[c].task BY <1>r DEF CtlRec
  <2> HIDE DEF new
  <2> QED BY <1>k, <2>1, <2>2 DEF Early
<1>2. CASE StageAck(c)
  <2> DEFINE a == [NoAck EXCEPT !.pc = "find"]
  <2>1. ctl[c].pc = "run" /\ ctl' = ctl /\ ack' = [ack EXCEPT ![<<c, "main">>] = a] BY <1>2 DEF StageAck
  <2>2. a.pc = "find" OBVIOUS
  <2> HIDE DEF a
  <2>3. Main(c)' = a BY <2>1 DEF Main, IInv, TypeOK
  <2>4. Working(c) /\ Busy(c) BY <2>1 DEF Working, Busy, Early
  <2> QED BY <1>o, <1>u, <2>1, <2>2, <2>3, <2>4, WorkTurn
<1>3. ~DebugEvent(c) BY DEF DebugEvent
<1>4. CASE ReceiveCancel(c)
  <2> DEFINE new == [ctl[c] EXCEPT !.ctx = TRUE]
  <2>1. ctl' = [ctl EXCEPT ![c] = new] /\ ack' = ack BY <1>4 DEF ReceiveCancel
  <2>2. new.pc = ctl[c].pc /\ new.task = ctl[c].task /\ new.status = ctl[c].status
    BY <1>r DEF CtlRec
  <2> HIDE DEF new
  <2> QED BY <1>k, <2>1, <2>2
<1>5. ASSUME NEW o \in Outcomes, FinishStages(c, o) PROVE SlotsInv'
  <2> DEFINE new == [ctl[c] EXCEPT !.pc = "clean", !.status = o]
  <2>1. ctl[c].pc = "run" /\ ctl' = [ctl EXCEPT ![c] = new] /\ ack' = ack BY <1>5 DEF FinishStages
  <2>2. new.pc = "clean" /\ new.task = ctl[c].task BY <1>r DEF CtlRec
  <2> HIDE DEF new
  <2> QED BY <1>k, <2>1, <2>2 DEF Early
<1>6. CASE FinishRun(c)
  <2> DEFINE new == [ctl[c] EXCEPT !.pc = "end", !.ended = TRUE, !.sub = FALSE, !.ctx = TRUE]
  <2>1. ctl[c].pc = "clean" /\ ctl' = [ctl EXCEPT ![c] = new] BY <1>6 DEF FinishRun
  <2>2. new.pc = "end" /\ new.task = ctl[c].task BY <1>r DEF CtlRec
  <2> HIDE DEF new
  <2>3. ctl'[c] = new /\ Working(c) /\ Busy(c) BY <1>f, <2>1 DEF Working, Busy, Early
  <2> QED BY <1>o, <1>u, <2>2, <2>3, WorkTurn DEF Early
<1>7. CASE CtlExit(c)
  <2>1. ctl' = [ctl EXCEPT ![c] = FreeCtl] BY <1>7 DEF CtlExit
  <2>2. FreeCtl.pc = "free" OBVIOUS
  <2>3. ~Working(c)' BY <1>f, <2>1, <2>2 DEF Working
  <2> QED BY <1>o, <1>u, <2>3, WorkTurn
<1> QED BY <1>1, <1>2, <1>3, <1>4, <1>5, <1>6, <1>7 DEF CtlStep
\* The acks: the controller that works on a task has the entry for itself, and takes no slot
\* which the entry did not have.
LEMMA SlotsAck ==
  ASSUME IInv, IInv', EndInv, Uncancelled, SlotsInv, NEW c \in Ctls, AckStep(c, "main")
  PROVE  SlotsInv'
<1> DEFINE t == ctl[c].task
<1>r. ctl[c] \in CtlRec BY DEF IInv, TypeOK
<1>a. Main(c) \in AckRec BY DEF IInv, TypeOK, Main
<1>p. Main(c).pc # "none" BY DEF AckStep, AckFind, AckQueue, AckSave, AckFinish, Main
<1>l. Alive(c) /\ t \in Tasks BY <1>p DEF IInv, Shape, Main
<1>w. /\ Working(c) /\ queue[t] \notin {Absent, "waiting"}
      /\ Busy(c) => queue[t] \in {"queued", "running"}
      /\ ctl[c].pc \in Early => Main(c).pc # "finish"
      /\ \A d \in Ctls : Working(d) /\ ctl[d].task = t => d = c
  BY <1>p, <1>l DEF Working, SlotsInv, WorkInv
<1>s. IF ctl[c].pc \in Early THEN ctl[c].status = "running"
                             ELSE ctl[c].pc = "end" /\ ctl[c].status \in EndStatus \cup {"running"}
  BY <1>p, <1>l, <1>r DEF EndInv, AckInv, Orderly, Uncancelled, Early, CtlRec
<1>n. \A r \in Replicas : ~Chosen(r, t) BY <1>l, <1>w DEF SlotsInv, PickInv
<1>c. ctl' = ctl
  <2>1. doc[t].status # "cancelled" BY <1>l DEF Uncancelled
  <2>2. AckFind(c, "main") => ctl' = ctl BY <1>r, <2>1 DEF AckFind, CtlRec, IInv, TypeOK
  <2> QED BY <2>2 DEF AckStep, AckQueue, AckSave, AckFinish
<1>m. \A d \in Ctls \ {c} : Main(d)' = Main(d)
  BY DEF AckStep, AckFind, AckQueue, AckSave, AckFinish, Main, IInv, TypeOK
<1>u. sender' = sender BY DEF AckStep, AckFind, AckQueue, AckSave, AckFinish
<1>b. \A d \in Ctls : Busy(d)' <=> Busy(d) BY <1>c DEF Busy
<1>g. ASSUME NEW a, ack' = [ack EXCEPT ![<<c, "main">>] = a] PROVE Main(c)' = a
  BY <1>g DEF IInv, TypeOK, Main
<1> HIDE DEF t
<1>o. ASSUME NEW d \in Ctls \ {c}, Working(d)' PROVE Working(d) /\ ctl[d].task \in Tasks \ {t}
  <2>1. Working(d) BY <1>o, <1>c, <1>m DEF Working
  <2> QED BY <2>1, <1>w DEF Working, IInv, Shape
<1>1. CASE AckFind(c, "main")
  <2>1. ack' = [ack EXCEPT ![<<c, "main">>] = NoAck]
        \/ ack' = [ack EXCEPT ![<<c, "main">>] = [NoAck EXCEPT !.pc = "queue", !.seen = doc[ctl[c].task]]]
    BY <1>1 DEF AckFind
  <2>2. Main(c)'.pc # "finish"
    <3> DEFINE a == [NoAck EXCEPT !.pc = "queue", !.seen = doc[ctl[c].task]]
    <3>1. a.pc = "queue" /\ NoAck.pc = "none" OBVIOUS
    <3> HIDE DEF a
    <3>2. Main(c)' = a \/ Main(c)' = NoAck BY <2>1, <1>g DEF a
    <3> QED BY <3>1, <3>2
  <2>3. queue' = queue BY <1>1 DEF AckFind
  <2> QED BY <1>b, <1>c, <1>m, <1>u, <1>w, <2>2, <2>3, WorkTurn
<1>2. CASE AckQueue(c, "main")
  <2> DEFINE a == [Main(c) EXCEPT !.pc = "save"]
  <2>1. ack' = [ack EXCEPT ![<<c, "main">>] = a] BY <1>2 DEF AckQueue, Main
  <2>2. a.pc = "save" BY <1>a DEF AckRec
  <2> HIDE DEF a
  <2>3. Main(c)'.pc = "save" BY <2>1, <2>2, <1>g
  <2>4. queue'[t] = ctl[c].status /\ \A u \in Tasks \ {t} : queue'[u] = queue[u]
    BY <1>2, <1>l, <1>w DEF AckQueue, QueueUpdate, IInv, TypeOK, t
  <2>5. /\ queue'[t] \notin {Absent, "waiting"}
        /\ Busy(c) => queue'[t] = "running"
        /\ queue'[t] \in {"queued", "running"} => queue[t] \in {"queued", "running"}
    BY <2>4, <1>s, <1>w DEF Busy
  <2>6. WorkInv'
    <3> SUFFICES ASSUME NEW d \in Ctls, Working(d)'
                 PROVE  /\ queue'[ctl[d].task] \notin {Absent, "waiting"}
                        /\ Busy(d) => queue'[ctl[d].task] \in {"queued", "running"}
                        /\ ctl[d].pc \in Early => Main(d)'.pc # "finish"
                        /\ \A e \in Ctls : Working(e)' /\ ctl[e].task = ctl[d].task => e = d
      BY <1>b, <1>c DEF WorkInv
    <3>1. CASE d = c BY <1>o, <2>3, <2>5, <3>1 DEF t
    <3>2. CASE d # c
      <4>1. Working(d) /\ ctl[d].task \in Tasks \ {t} BY <1>o, <3>2
      <4>2. queue'[ctl[d].task] = queue[ctl[d].task] BY <2>4, <4>1
      <4>3. \A e \in Ctls : Working(e)' /\ ctl[e].task = ctl[d].task => e = d
        BY <1>o, <4>1 DEF SlotsInv, WorkInv, t
      <4> QED BY <1>m, <3>2, <4>1, <4>2, <4>3 DEF SlotsInv, WorkInv
    <3> QED BY <3>1, <3>2
  <2>7. PickInv' BY <1>u, <1>n, <2>4 DEF SlotsInv, PickInv, Chosen
  <2>8. \A u \in Tasks : \/ queue'[u] = queue[u]
                         \/ queue'[u] \notin {"queued", "running"}
                         \/ queue[u] \in {"queued", "running"}
    BY <2>4, <2>5
  <2> QED BY <1>u, <2>6, <2>7, <2>8, SlotsKept
<1>3. CASE AckSave(c, "main")
  <2>1. queue' = queue BY <1>3 DEF AckSave
  <2>2. ctl[c].pc \in Early => Main(c)'.pc # "finish"
    <3> SUFFICES ASSUME ctl[c].pc \in Early PROVE Main(c)'.pc # "finish" OBVIOUS
    <3>1. ctl[c].status \notin DoneStatus BY <1>s DEF DoneStatus
    <3>2. ack' = [ack EXCEPT ![<<c, "main">>] = NoAck] BY <1>3, <3>1 DEF AckSave
    <3>3. NoAck.pc = "none" OBVIOUS
    <3> QED BY <3>2, <3>3, <1>g
  <2> QED BY <1>b, <1>c, <1>m, <1>u, <1>w, <2>1, <2>2, WorkTurn
<1>4. CASE AckFinish(c, "main")
  <2>1. Main(c).pc = "finish" /\ ack' = [ack EXCEPT ![<<c, "main">>] = NoAck]
    BY <1>4 DEF AckFinish, Main
  <2>2. NoAck.pc = "none" OBVIOUS
  <2>3. Main(c)'.pc = "none" BY <2>1, <2>2, <1>g
  <2>4. queue'[t] = Absent /\ \A u \in Tasks \ {t} : queue'[u] = queue[u]
    BY <1>4, <1>l DEF AckFinish, QueueDelete, IInv, TypeOK, t
  <2>5. ctl[c].pc = "end" BY <1>w, <1>s, <2>1
  <2>6. ~Working(c)' BY <1>c, <2>3, <2>5 DEF Working
  <2>7. WorkInv'
    <3> SUFFICES ASSUME NEW d \in Ctls, Working(d)'
                 PROVE  /\ queue'[ctl[d].task] \notin {Absent, "waiting"}
                        /\ Busy(d) => queue'[ctl[d].task] \in {"queued", "running"}
                        /\ ctl[d].pc \in Early => Main(d)'.pc # "finish"
                        /\ \A e \in Ctls : Working(e)' /\ ctl[e].task = ctl[d].task => e = d
      BY <1>b, <1>c DEF WorkInv
    <3>1. d # c BY <2>6
    <3>2. Working(d) /\ ctl[d].task \in Tasks \ {t} BY <1>o, <3>1
    <3>3. queue'[ctl[d].task] = queue[ctl[d].task] BY <2>4, <3>2
    <3>4. \A e \in Ctls : Working(e)' /\ ctl[e].task = ctl[d].task => e = d
      BY <1>o, <2>6, <3>2 DEF SlotsInv, WorkInv
    <3> QED BY <1>m, <3>1, <3>2, <3>3, <3>4 DEF SlotsInv, WorkInv
  <2>8. PickInv' BY <1>u, <1>n, <2>4 DEF SlotsInv, PickInv, Chosen
  <2>9. \A u \in Tasks : queue'[u] = queue[u] \/ queue'[u] \notin {"queued", "running"} BY <2>4
  <2> QED BY <1>u, <2>7, <2>8, <2>9, SlotsKept
<1> QED BY <1>1, <1>2, <1>3, <1>4 DEF AckStep

\* All that is known of the slots when nobody cancels.
RetryInv == IInv /\ EndInv /\ DecidedInv /\ Uncancelled /\ SlotsInv

\* The start.
LEMMA RetryInit == Init => RetryInv
<1> SUFFICES ASSUME Init PROVE RetryInv OBVIOUS
<1>1. IInv /\ EndInv /\ DecidedInv BY IInvInit, EndInit DEF Init, DecidedInv
<1>2. Uncancelled
  BY DEF Init, Uncancelled, Plain, PlainPc
<1>3. WorkInv /\ PickInv /\ FreeInv
  BY ProcessAssumption DEF Init, WorkInv, Working, PickInv, FreeInv, Chosen
<1>4. SlotBound
  <2>1. Occupied = {} BY DEF Init, Occupied
  <2>2. Cardinality({}) = 0 BY FS_EmptySet
  <2> QED BY <2>1, <2>2, ConcurrencyAssumption DEF SlotBound
<1> QED BY <1>1, <1>2, <1>3, <1>4 DEF RetryInv, SlotsInv

\* Every step.
LEMMA RetryNext ==
  ASSUME ~LockMayExpire, ~SideAcks, NoCancelling, MaxCrashes = 0, RetryInv, [Next]_vars
  PROVE  RetryInv'
<1>1. IInv /\ EndInv /\ DecidedInv /\ Uncancelled /\ SlotsInv BY DEF RetryInv
<1>2. IInv' /\ EndInv' /\ DecidedInv' BY <1>1, IInvNext, EndNext, DecidedNext
<1> SUFFICES Uncancelled' /\ SlotsInv' BY <1>2 DEF RetryInv
<1>3. ASSUME NEW h \in Handlers, HandlerStep(h) \/ RequestStep(h) PROVE Uncancelled' /\ SlotsInv'
  BY <1>1, <1>2, <1>3, UncancelledRequest, SlotsRequest
<1>4. ASSUME NEW p \in Procs PROVE ~CancelStep(p)
  <2> SUFFICES ASSUME CancelStep(p) PROVE FALSE OBVIOUS
  <2>1. p \in Replicas BY <1>1, PlainCancel DEF Uncancelled
  <2>2. req[p].pc = "idle" BY <1>1, <2>1 DEF Uncancelled
  <2> QED BY <2>2 DEF CancelStep, CancelRemove, CancelUpdate, CancelPublish, CancelNext
<1>5. ASSUME UNCHANGED <<doc, queue, sender, rep, req, ctl, ack>> PROVE Uncancelled' /\ SlotsInv'
  BY <1>1, <1>2, <1>5, UncancelledStill, SlotsStill
<1>6. ASSUME NEW r \in Replicas, SenderStep(r) \/ ReplicaStep(r) PROVE Uncancelled' /\ SlotsInv'
  <2>1. Uncancelled' /\ (SenderStep(r) \/ LockExpire(r)) BY <1>1, <1>6, UncancelledReplica
  <2>2. CASE SenderStep(r) BY <1>1, <1>2, <2>1, <2>2, SlotsSender, SlotsDispatch
  <2>3. CASE LockExpire(r) BY <1>1, <1>2, <2>1, <2>3, SlotsStill DEF LockExpire
  <2> QED BY <2>1, <2>2, <2>3
<1>7. ASSUME NEW c \in Ctls, CtlStep(c) PROVE Uncancelled' /\ SlotsInv'
  BY <1>1, <1>2, <1>7, UncancelledRun, SlotsRun
<1>8. ASSUME NEW c \in Ctls, NEW th \in Threads, AckStep(c, th) PROVE Uncancelled' /\ SlotsInv'
  <2>1. ack[<<c, "side">>].pc = "none" BY <1>1 DEF EndInv, AckInv, Orderly
  <2>2. th = "main" BY <1>8, <2>1 DEF AckStep, AckFind, AckQueue, AckSave, AckFinish
  <2> QED BY <1>1, <1>2, <1>8, <2>2, UncancelledAck, SlotsAck
<1> QED BY <1>3, <1>4, <1>5, <1>6, <1>7, <1>8 DEF Next, DeleteTestModule, vars

\* hasAgentAvaiable bounds all tasks that occupy a slot by WorkflowConcurrency, retried and
\* manually executed ones too, although any number of such requests and writers of old documents
\* run at a time: the entry that Push creates is never taken up by the previous controller of the
\* task. It takes that nobody cancels, nothing crashes and no debug event acks.
THEOREM AllSlotsBounded ==
  ASSUME ~LockMayExpire, ~SideAcks, NoCancelling, MaxCrashes = 0
  PROVE  Spec => []SlotBound
<1>1. Init => RetryInv BY RetryInit
<1>2. RetryInv /\ [Next]_vars => RetryInv' BY RetryNext
<1>3. RetryInv => SlotBound BY DEF RetryInv, SlotsInv
<1> QED BY <1>1, <1>2, <1>3, PTL DEF Spec
\* No two controllers at work on one task at a time.
OneWorker ==
  \A c, d \in Ctls : Working(c) /\ Working(d) /\ ctl[c].task = ctl[d].task => c = d

\* Under the same assumptions updateQueueAndRunTask starts a controller for a task, a retried or
\* manually executed one too, only when the last controller of it has made its last ack.
THEOREM OneWorkerPerTask ==
  ASSUME ~LockMayExpire, ~SideAcks, NoCancelling, MaxCrashes = 0
  PROVE  Spec => []OneWorker
<1>1. Init => RetryInv BY RetryInit
<1>2. RetryInv /\ [Next]_vars => RetryInv' BY RetryNext
<1>3. RetryInv => OneWorker BY DEF RetryInv, SlotsInv, WorkInv, OneWorker
<1> QED BY <1>1, <1>2, <1>3, PTL DEF Spec

-----------------------------------------------------------------------------
(* Slots after a crash.  The controllers of a replica die with it; its       *)
(* restart cancels every task that is not completed, and so frees the slots  *)
(* they held.                                                                *)

\* The only crash, and what replicas do that are not starting.
Crashed ==
  /\ used.crashes <= MaxCrashes
  /\ \A r \in Replicas : rep[r] # "up" => used.crashes = 1
  /\ \A q, r \in Replicas : rep[q] # "up" /\ rep[r] # "up" => q = r
  /\ \A r \in Replicas : rep[r] # "booting" => req[r].pc = "idle"

\* InitQueue has not begun, and until then no document is cancelled or deleted.
Unswept == used.crashes = 0 \/ \E r \in Replicas : rep[r] = "down"

Sound(d) == d.status \notin {"none", "cancelled"} /\ ~d.deleted /\ (d.status = "skipped" => d.ended)

Intact ==
  /\ \A t \in Tasks : doc[t] = NoDoc \/ Sound(doc[t])
  /\ \A h \in Handlers : req[h].pc = "touch" => Sound(req[h].seen)
  /\ \A r \in Replicas : sender[r].pc = "dispatch" => ~sender[r].seen.deleted
  /\ \A c \in Ctls : /\ ctl[c].status # "cancelled" /\ ~ctl[c].deleted /\ ~ctl[c].sig
                     /\ ctl[c].ctx => ctl[c].pc = "end"

\* The document of a last ack is saved after the entry has left its slot, if it says how the
\* run ended.
Vacant == \A t \in Tasks \ (resub \cup undecided) : Closed(t) => t \notin Occupied

\* InitQueue of r will remove the entry of t.
Swept(r, t) ==
  \/ rep[r] = "down" /\ doc[t].status \in InCompletedStatus /\ ~doc[t].deleted
  \/ rep[r] = "booting" /\ (t \in req[r].todo \/ (req[r].pc = "remove" /\ req[r].task = t))

Doomed == \A t \in Occupied \ undecided : Owned(t) \/ \E r \in Replicas : Swept(r, t)

SweepInv ==
  /\ NoResub /\ Plain /\ Crashed /\ (Unswept => Intact) /\ Vacant
  /\ \A c \in Ctls : LeaveInv(c)
  /\ Doomed

\* Replicas go down and start only by their own steps.
LEMMA RepSteps ==
  ASSUME IInv, [Next]_vars
  PROVE  \/ rep' = rep /\ used'.crashes = used.crashes
         \/ \E r \in Replicas : Crash(r) \/ Restart(r) \/ BootDone(r)
<1>r. used \in Counters BY DEF IInv, TypeOK
<1>1. ASSUME NEW h \in Handlers, NEW t \in Tasks, CancelFind(h, t) \/ TouchFind(h, t) \/ Resubmit(h, t)
      PROVE  rep' = rep /\ used'.crashes = used.crashes
  BY <1>r, <1>1 DEF CancelFind, TouchFind, Resubmit, Counters
<1>2. ASSUME NEW h \in Handlers, HandlerStep(h) PROVE rep' = rep /\ used'.crashes = used.crashes
  BY <1>1, <1>2 DEF HandlerStep, CreateTask, RetryWorkflowTaskV4, ManualExecWorkflowTaskV4, DeleteWorkflowV4
<1>3. ASSUME NEW h \in Handlers, RequestStep(h) PROVE rep' = rep /\ used' = used
  BY <1>3 DEF RequestStep, Push, ResubmitUpdate, TouchUpdate, DeleteByID, DeleteByWorkflowName
<1>4. ASSUME NEW p \in Procs, CancelStep(p) PROVE rep' = rep /\ used' = used
  BY <1>4 DEF CancelStep, CancelRemove, CancelUpdate, CancelPublish, CancelNext
<1>5. ASSUME NEW r \in Replicas, SenderStep(r) \/ LockExpire(r) PROVE rep' = rep /\ used' = used
  BY <1>5 DEF SenderStep, SenderLock, SenderList, SenderGiveUp, SenderFind, SenderScan,
              SenderDispatch, LockExpire
<1>6. ASSUME NEW c \in Ctls, CtlStep(c) PROVE rep' = rep /\ used' = used
  BY <1>6 DEF CtlStep, Subscribe, StageAck, DebugEvent, ReceiveCancel, FinishStages, FinishRun, CtlExit
<1>7. ASSUME NEW c \in Ctls, NEW th \in Threads, AckStep(c, th) PROVE rep' = rep /\ used' = used
  BY <1>7 DEF AckStep, AckFind, AckQueue, AckSave, AckFinish
<1> QED BY <1>2, <1>3, <1>4, <1>5, <1>6, <1>7
       DEF Next, ReplicaStep, BootStep, DeleteTestModule, vars

\* Only requests change what a handler does, and only a starting replica cancels.
LEMMA ReplicaRequests ==
  ASSUME IInv, Plain, Crashed, [Next]_vars, NEW r \in Replicas,
         ~Crash(r), ~Restart(r), ~BootDone(r)
  PROVE  \/ req'[r] = req[r]
         \/ \E q \in Replicas : Crash(q)
         \/ CancelStep(r) /\ rep[r] = "booting"
<1>1. ASSUME NEW h \in Handlers, HandlerStep(h) \/ RequestStep(h) PROVE req'[r] = req[r]
  <2>1. h # r BY ProcessAssumption
  <2> QED BY <1>1, <2>1 DEF HandlerStep, CreateTask, CancelFind, TouchFind, RetryWorkflowTaskV4,
       ManualExecWorkflowTaskV4, Resubmit, Found, DeleteWorkflowV4, RequestStep, Push,
       ResubmitUpdate, TouchUpdate, DeleteByID, DeleteByWorkflowName, IInv, TypeOK
<1>2. ASSUME NEW p \in Procs, CancelStep(p), p # r PROVE req'[r] = req[r]
  BY <1>2 DEF CancelStep, CancelRemove, CancelUpdate, CancelPublish, CancelNext, IInv, TypeOK
<1>3. CancelStep(r) => rep[r] = "booting"
  BY DEF Crashed, CancelStep, CancelRemove, CancelUpdate, CancelPublish, CancelNext
<1>4. ASSUME NEW q \in Replicas, SenderStep(q) \/ LockExpire(q) PROVE req' = req
  BY <1>4 DEF SenderStep, SenderLock, SenderList, SenderGiveUp, SenderFind, SenderScan,
              SenderDispatch, LockExpire
<1>5. ASSUME NEW q \in Replicas, q # r, BootStep(q) PROVE req'[r] = req[r]
  BY <1>5 DEF BootStep, Restart, BootDone, IInv, TypeOK
<1>6. ASSUME NEW c \in Ctls, CtlStep(c) PROVE req' = req
  BY <1>6 DEF CtlStep, Subscribe, StageAck, DebugEvent, ReceiveCancel, FinishStages, FinishRun, CtlExit
<1>7. ASSUME NEW c \in Ctls, NEW th \in Threads, AckStep(c, th) PROVE req' = req
  BY <1>7 DEF AckStep, AckFind, AckQueue, AckSave, AckFinish
<1> QED BY <1>1, <1>2, <1>3, <1>4, <1>5, <1>6, <1>7
       DEF Next, ReplicaStep, BootStep, DeleteTestModule, vars

\* A crash is the first.
LEMMA FirstCrash ==
  ASSUME MaxCrashes <= 1, IInv, NEW r \in Replicas, Crash(r)
  PROVE  used.crashes = 0 /\ MaxCrashes = 1
<1>1. used.crashes < MaxCrashes BY DEF Crash
<1>2. used.crashes \in Nat BY DEF IInv, TypeOK, Counters
<1>3. MaxCrashes \in Nat BY SwitchAssumption
<1> QED BY <1>1, <1>2, <1>3

\* There is one crash, and InitQueue runs after it only.
LEMMA CrashedNext ==
  ASSUME MaxCrashes <= 1, IInv, Plain, Crashed, [Next]_vars
  PROVE  Crashed'
<1>n. used \in Counters /\ used.crashes \in Nat BY DEF IInv, TypeOK, Counters
<1>r. rep \in [Replicas -> {"down", "booting", "up"}] BY DEF IInv, TypeOK
<1>1. ASSUME NEW r \in Replicas, Crash(r) PROVE Crashed'
  <2>1. used.crashes = 0 /\ MaxCrashes = 1 BY <1>1, FirstCrash
  <2>2. \A q \in Replicas : rep[q] = "up" BY <2>1 DEF Crashed
  <2>3. used'.crashes = 1 BY <1>1, <1>n, <2>1 DEF Crash, Counters
  <2>4. used'.crashes <= MaxCrashes BY <2>1, <2>3
  <2>5. \A q \in Replicas : rep'[q] = IF q = r THEN "down" ELSE "up" BY <1>1, <1>r, <2>2 DEF Crash
  <2>6. \A q \in Replicas : req'[q].pc = "idle"
    <3>1. IdleReq.pc = "idle" OBVIOUS
    <3>2. \A q \in Replicas : req[q].pc = "idle" BY <2>2 DEF Crashed
    <3> QED BY <1>1, <3>1, <3>2 DEF Crash
  <2> QED BY <2>3, <2>4, <2>5, <2>6 DEF Crashed
<1>2. ASSUME NEW r \in Replicas, Restart(r) \/ BootDone(r) PROVE Crashed'
  <2>1. rep[r] # "up" /\ used' = used BY <1>2 DEF Restart, BootDone
  <2>2. \A q \in Replicas \ {r} : rep'[q] = rep[q] /\ req'[q] = req[q]
    BY <1>2 DEF Restart, BootDone, IInv, TypeOK
  <2>3. \A q \in Replicas \ {r} : rep'[q] = "up" /\ req'[q].pc = "idle"
    BY <2>1, <2>2 DEF Crashed
  <2>4. rep'[r] = "booting" \/ req'[r].pc = "idle"
    <3>1. IdleReq.pc = "idle" OBVIOUS
    <3> QED BY <1>2, <1>r, <3>1 DEF Restart, BootDone, IInv, TypeOK
  <2>5. used.crashes = 1 /\ used.crashes <= MaxCrashes BY <2>1 DEF Crashed
  <2> QED BY <2>1, <2>3, <2>4, <2>5 DEF Crashed
<1>3. CASE rep' = rep /\ used'.crashes = used.crashes
  <2>1. ASSUME NEW r \in Replicas, rep[r] # "booting" PROVE req'[r].pc = "idle"
    <3>1. req[r].pc = "idle" BY <2>1 DEF Crashed
    <3>2. CASE \E q \in Replicas : Crash(q) \/ Restart(q) \/ BootDone(q)
      BY <1>1, <1>2, <1>3, <2>1, <3>2 DEF Crashed
    <3>3. CASE ~\E q \in Replicas : Crash(q) \/ Restart(q) \/ BootDone(q)
      BY <2>1, <3>1, <3>3, ReplicaRequests
    <3> QED BY <3>2, <3>3
  <2> QED BY <1>3, <2>1 DEF Crashed
<1> QED BY <1>1, <1>2, <1>3, RepSteps

\* Before InitQueue no replica has requests.
LEMMA UnsweptIdle ==
  ASSUME Crashed, Unswept
  PROVE  \A r \in Replicas : rep[r] # "booting" /\ req[r].pc = "idle"
BY DEF Crashed, Unswept

\* InitQueue is not undone.
LEMMA UnsweptBack ==
  ASSUME MaxCrashes <= 1, IInv, Crashed, [Next]_vars, Unswept'
  PROVE  Unswept /\ \A r \in Replicas : ~Restart(r) /\ ~BootDone(r)
<1>1. ASSUME NEW r \in Replicas PROVE ~Restart(r) /\ ~BootDone(r)
  <2> SUFFICES ASSUME Restart(r) \/ BootDone(r) PROVE FALSE OBVIOUS
  <2>1. rep[r] # "up" /\ used' = used /\ rep'[r] # "down"
    BY DEF Restart, BootDone, IInv, TypeOK
  <2>2. \A q \in Replicas \ {r} : rep'[q] = "up"
    <3>1. \A q \in Replicas \ {r} : rep'[q] = rep[q] BY DEF Restart, BootDone, IInv, TypeOK
    <3> QED BY <2>1, <3>1 DEF Crashed
  <2>3. used.crashes = 1 BY <2>1 DEF Crashed
  <2> QED BY <2>1, <2>2, <2>3 DEF Unswept
<1>2. ASSUME NEW r \in Replicas, Crash(r) PROVE Unswept
  BY <1>2, FirstCrash DEF Unswept
<1>3. rep' = rep /\ used'.crashes = used.crashes => Unswept BY DEF Unswept
<1> QED BY <1>1, <1>2, <1>3, RepSteps

\* Only a dispatch and an ack occupy a slot, and not for a closed task.
LEMMA VacantKept ==
  ASSUME ~LockMayExpire, IInv, EndInv, NoResub, Vacant, [Next]_vars,
         \A t \in Tasks : Closed(t)' => Closed(t)
  PROVE  Vacant'
<1> SUFFICES ASSUME NEW t \in Tasks, Closed(t), t \notin resub', t \notin undecided'
             PROVE  t \notin Occupied'
  BY DEF Vacant
<1>u. t \notin undecided BY UndecidedNext
<1>1. t \notin resub /\ t \notin Occupied BY <1>u DEF NoResub, Vacant
<1>2. queue[t] \notin {"running", "queued"} BY <1>1 DEF Occupied
<1>3. Spent(t) /\ \A c \in Ctls : Alive(c) /\ ctl[c].task = t => Closing(c)
  BY <1>1 DEF EndInv, ClosedInv
<1>4. CASE QueueBack BY <1>2, <1>4 DEF QueueBack, Occupied
<1>5. ASSUME NEW r \in Replicas, NEW c \in Ctls, SenderDispatch(r, c) PROVE t \notin Occupied'
  <2>1. t # sender[r].pick BY <1>3 DEF Spent, Chosen
  <2>2. queue'[t] = queue[t] BY <1>5, <2>1 DEF SenderDispatch, QueueUpdate, IInv, TypeOK
  <2> QED BY <1>2, <2>2 DEF Occupied
<1>6. ASSUME NEW c \in Ctls, NEW th \in Threads, AckQueue(c, th) PROVE t \notin Occupied'
  <2>1. ack[<<c, "side">>].pc = "none" BY DEF EndInv, AckInv, Orderly
  <2>2. th = "main" BY <1>6, <2>1 DEF AckQueue
  <2>3. Main(c).pc = "queue" /\ Alive(c) BY <1>6, <2>2 DEF AckQueue, Main, IInv, Shape
  <2>4. ctl[c].task # t BY <1>3, <2>3 DEF Closing
  <2>5. queue'[t] = queue[t] BY <1>6, <2>4 DEF AckQueue, QueueUpdate, IInv, TypeOK
  <2> QED BY <1>2, <2>5 DEF Occupied
<1> QED BY <1>4, <1>5, <1>6, QueueAside

\* Save of a last ack comes after the entry got its last status.
LEMMA VacantSave ==
  ASSUME IInv, EndInv, DecidedInv, NoResub, Vacant, NEW c \in Ctls, LeaveInv(c), AckSave(c, "main")
  PROVE  Vacant'
<1> DEFINE t == ctl[c].task
           d == [status |-> ctl[c].status, ended |-> ctl[c].ended, deleted |-> ctl[c].deleted]
<1>o. Orderly(c) BY DEF EndInv, AckInv
<1>r. ctl[c] \in CtlRec BY DEF IInv, TypeOK
<1>p. Main(c).pc = "save" BY DEF AckSave, Main
<1>l. Alive(c) /\ t \in Tasks BY <1>p DEF IInv, Shape, Main
<1>u. UNCHANGED <<queue, req, resub, undecided>> /\ t \notin resub BY DEF AckSave, NoResub
<1>1. doc' = [doc EXCEPT ![t] = d] BY DEF AckSave
<1>2. d.ended = ctl[c].ended /\ d.status = ctl[c].status OBVIOUS
<1> HIDE DEF d
<1>3. doc'[t] = d /\ \A u \in Tasks \ {t} : doc'[u] = doc[u] BY <1>1, <1>l DEF IInv, TypeOK
<1>4. \A u \in Tasks \ {t} : Closed(u)' => Closed(u) BY <1>3, <1>u DEF Closed
<1>5. ~Closed(t) BY <1>l, <1>p, <1>u DEF EndInv, ClosedInv, Closing
<1>6. ASSUME NEW u \in Tasks, u = t, Closed(u)' PROVE Over(d) BY <1>3, <1>5, <1>6, <1>u DEF Closed
<1>7. ASSUME Over(d), t \notin undecided PROVE queue[t] \notin {"running", "queued"}
  <2>1. ctl[c].pc = "end"
    <3>1. ctl[c].ended => ctl[c].pc = "end" BY <1>l, <1>u DEF EndInv, ClosedInv
    <3>2. ctl[c].status \in AckedStatus \cup {"pause"} => ctl[c].pc = "end"
      BY <1>o, <1>p, <1>r DEF Orderly, AckedStatus, CtlRec
    <3> QED BY <1>2, <1>7, <3>1, <3>2 DEF Over
  <2>2. queue[t] \in {Absent, ctl[c].status} BY <1>p, <1>u, <2>1 DEF LeaveInv
  <2>3. ctl[c].status \notin {"running", "queued"} BY <1>r, <1>7, <2>1 DEF DecidedInv, CtlRec
  <2> QED BY <2>2, <2>3
<1>8. ASSUME NEW u \in Tasks, u \notin undecided, Closed(u)' PROVE u \notin Occupied'
  <2>1. CASE u = t
    <3>1. queue[t] \notin {"running", "queued"} BY <1>6, <1>7, <1>8, <2>1
    <3> QED BY <1>u, <2>1, <3>1 DEF Occupied
  <2>2. CASE u # t BY <1>4, <1>8, <1>u, <2>2 DEF Occupied, Vacant, NoResub
  <2> QED BY <2>1, <2>2
<1> QED BY <1>8, <1>u DEF Vacant

\* Every step.
LEMMA VacantNext ==
  ASSUME ~LockMayExpire, IInv, EndInv, DecidedInv, NoResub, NoResub', Vacant, [Next]_vars,
         \A c \in Ctls : LeaveInv(c)
  PROVE  Vacant'
<1>1. ASSUME DocBack, ReqBack PROVE Vacant'
  <2>1. \A t \in Tasks : Closed(t)' => Closed(t) BY <1>1 DEF DocBack, ReqBack, Closed, NoResub
  <2> QED BY <2>1, VacantKept
<1>2. ASSUME UNCHANGED <<doc, req>> PROVE Vacant' BY <1>1, <1>2, BackStill
<1>3. ASSUME NEW h \in Handlers, HandlerStep(h) \/ RequestStep(h) PROVE Vacant'
  BY <1>1, <1>3, HandlerAside, RequestAside DEF Back
<1>4. ASSUME NEW p \in Procs, CancelStep(p) PROVE Vacant' BY <1>1, <1>4, CancelAside DEF Back
<1>5. ASSUME NEW r \in Replicas, SenderStep(r) PROVE Vacant'
  BY <1>2, <1>5 DEF SenderStep, SenderLock, SenderList, SenderGiveUp, SenderFind, SenderScan, SenderDispatch
<1>6. ASSUME NEW r \in Replicas, Crash(r) PROVE Vacant'
  <2>1. doc' = doc BY <1>6 DEF Crash
  <2>2. \A p \in Procs : req'[p] = req[p] \/ req'[p] = IdleReq BY <1>6 DEF Crash
  <2>3. ~Over(IdleReq.seen) BY DEF Over, AckedStatus
  <2>4. ReqBack BY <2>2, <2>3 DEF ReqBack, Closed
  <2> QED BY <1>1, <2>1, <2>4, BackStill
<1>7. ASSUME NEW r \in Replicas, ReplicaStep(r) PROVE Vacant'
  BY <1>1, <1>6, <1>7, ReplicaAside DEF Back
<1>8. ASSUME NEW c \in Ctls, CtlStep(c) PROVE Vacant'
  BY <1>2, <1>8 DEF CtlStep, Subscribe, StageAck, DebugEvent, ReceiveCancel, FinishStages, FinishRun, CtlExit
<1>9. ASSUME NEW c \in Ctls, NEW th \in Threads, AckStep(c, th) PROVE Vacant'
  <2>1. ack[<<c, "side">>].pc = "none" BY DEF EndInv, AckInv, Orderly
  <2>2. AckSave(c, th) => th = "main" BY <2>1 DEF AckSave
  <2> QED BY <1>2, <1>9, <2>2, VacantSave DEF AckStep, AckFind, AckQueue, AckFinish
<1>10. ASSUME NEW w \in Workflows, DeleteTestModule(w) PROVE Vacant'
  BY <1>2, <1>10 DEF DeleteTestModule
<1>11. CASE UNCHANGED vars BY <1>2, <1>11 DEF vars
<1> QED BY <1>3, <1>4, <1>5, <1>7, <1>8, <1>9, <1>10, <1>11 DEF Next

\* A document is written, or none.
LEMMA IntactDoc ==
  ASSUME IInv, Intact, NEW t, NEW d, doc' = [doc EXCEPT ![t] = d], t \in Tasks => Sound(d)
  PROVE  \A u \in Tasks : doc'[u] = NoDoc \/ Sound(doc'[u])
<1>1. \A u \in Tasks : doc'[u] = doc[u] \/ (u = t /\ doc'[u] = d) BY DEF IInv, TypeOK
<1> QED BY <1>1 DEF Intact

\* The steps of requests.
LEMMA IntactRequest ==
  ASSUME NoCancelling, IInv, Plain, NoResub, Intact, NEW h \in Handlers, HandlerStep(h) \/ RequestStep(h)
  PROVE  Intact'
<1>p. req[h].pc \in PlainPc /\ req[h].pc # "update" BY DEF Plain, NoResub
<1>d. ~DeleteByID(h) /\ ~DeleteByWorkflowName(h) /\ ~ResubmitUpdate(h)
  BY <1>p DEF PlainPc, DeleteByID, DeleteByWorkflowName, ResubmitUpdate
<1>u. UNCHANGED <<sender, ctl>>
  BY <1>d DEF HandlerStep, RequestStep, CreateTask, CancelFind, TouchFind,
       RetryWorkflowTaskV4, ManualExecWorkflowTaskV4, Resubmit, DeleteWorkflowV4, Push, TouchUpdate
<1>k. ASSUME \A t \in Tasks : doc'[t] = NoDoc \/ Sound(doc'[t]),
             \A g \in Handlers : req'[g].pc = "touch" => Sound(req'[g].seen)
      PROVE  Intact'
  BY <1>k, <1>u DEF Intact
<1>q. ASSUME NEW new, req' = [req EXCEPT ![h] = new], new.pc = "touch" => Sound(new.seen)
      PROVE  \A g \in Handlers : req'[g].pc = "touch" => Sound(req'[g].seen)
  <2>1. req'[h] = new /\ \A g \in Handlers \ {h} : req'[g] = req[g] BY <1>q DEF IInv, TypeOK
  <2> QED BY <1>q, <2>1 DEF Intact
<1>s. ASSUME doc' = doc PROVE \A t \in Tasks : doc'[t] = NoDoc \/ Sound(doc'[t])
  BY <1>s DEF Intact
<1>1. ASSUME NEW t \in Tasks, CreateTask(h, t) PROVE Intact'
  <2> DEFINE d == [NoDoc EXCEPT !.status = "waiting"]
             new == [IdleReq EXCEPT !.pc = "push", !.task = t]
  <2>1. doc' = [doc EXCEPT ![t] = d] /\ req' = [req EXCEPT ![h] = new] BY <1>1 DEF CreateTask
  <2>2. Sound(d) BY DEF Sound
  <2>3. new.pc = "push" OBVIOUS
  <2> HIDE DEF d, new
  <2> QED BY <1>k, <1>q, <2>1, <2>2, <2>3, IntactDoc
<1>2. ASSUME NEW t \in Tasks, TouchFind(h, t) PROVE Intact'
  <2> DEFINE new == [IdleReq EXCEPT !.pc = "touch", !.task = t, !.seen = doc[t]]
  <2>1. req' = [req EXCEPT ![h] = new] /\ doc' = doc /\ doc[t] # NoDoc BY <1>2 DEF TouchFind, Found
  <2>2. new.seen = doc[t] OBVIOUS
  <2> HIDE DEF new
  <2>3. Sound(doc[t]) BY <2>1 DEF Intact
  <2> QED BY <1>k, <1>q, <1>s, <2>1, <2>2, <2>3
<1>3. ASSUME NEW t \in Tasks, RetryWorkflowTaskV4(h, t) \/ ManualExecWorkflowTaskV4(h, t) PROVE Intact'
  <2> DEFINE new == [IdleReq EXCEPT !.pc = "update", !.task = t, !.seen = doc[t]]
  <2>1. req' = [req EXCEPT ![h] = new] /\ doc' = doc
    BY <1>3 DEF RetryWorkflowTaskV4, ManualExecWorkflowTaskV4, Resubmit, Found
  <2>2. new.pc = "update" OBVIOUS
  <2> HIDE DEF new
  <2> QED BY <1>k, <1>q, <1>s, <2>1, <2>2
<1>4. ASSUME NEW t \in Tasks PROVE ~CancelFind(h, t)
  BY DEF CancelFind, NoCancelling, IInv, TypeOK, Counters
<1>5. ASSUME NEW w \in Workflows PROVE ~DeleteWorkflowV4(h, w)
  BY DEF DeleteWorkflowV4, NoCancelling
<1>i. IdleReq.pc # "touch" OBVIOUS
<1>6. CASE Push(h)
  <2>1. doc' = doc /\ req' = [req EXCEPT ![h] = IdleReq] BY <1>6 DEF Push
  <2> QED BY <1>i, <1>k, <1>q, <1>s, <2>1
<1>7. CASE TouchUpdate(h)
  <2>1. doc' = [doc EXCEPT ![req[h].task] = req[h].seen] /\ req' = [req EXCEPT ![h] = IdleReq]
    BY <1>7 DEF TouchUpdate
  <2>2. Sound(req[h].seen) BY <1>7 DEF TouchUpdate, Intact
  <2> QED BY <1>i, <1>k, <1>q, <2>1, <2>2, IntactDoc
<1> QED BY <1>1, <1>2, <1>3, <1>4, <1>5, <1>6, <1>7, <1>d DEF HandlerStep, RequestStep

\* A controller that is not cancelled.
LEMMA IntactCtl ==
  ASSUME IInv, Intact, NEW c \in Ctls, NEW new, ctl' = [ctl EXCEPT ![c] = new],
         new.status # "cancelled", ~new.deleted, ~new.sig, new.ctx => new.pc = "end",
         UNCHANGED <<doc, req>>,
         \A r \in Replicas : sender'[r] = sender[r] \/ sender'[r].pc = "idle"
  PROVE  Intact'
<1>1. ctl'[c] = new /\ \A d \in Ctls \ {c} : ctl'[d] = ctl[d] BY DEF IInv, TypeOK
<1>2. \A d \in Ctls : /\ ctl'[d].status # "cancelled" /\ ~ctl'[d].deleted /\ ~ctl'[d].sig
                      /\ ctl'[d].ctx => ctl'[d].pc = "end"
  BY <1>1 DEF Intact
<1>3. \A r \in Replicas : sender'[r].pc = "dispatch" => ~sender'[r].seen.deleted BY DEF Intact
<1> QED BY <1>2, <1>3 DEF Intact

\* Nothing is read or written.
LEMMA IntactStill ==
  ASSUME Intact, UNCHANGED <<doc, req, sender, ctl>>
  PROVE  Intact'
BY DEF Intact

\* The steps of the controllers.
LEMMA IntactRun ==
  ASSUME NoCancelling, IInv, Intact, NEW c \in Ctls, CtlStep(c)
  PROVE  Intact'
<1>r. ctl[c] \in CtlRec BY DEF IInv, TypeOK
<1>c. /\ ctl[c].status # "cancelled" /\ ~ctl[c].deleted /\ ~ctl[c].sig
      /\ ctl[c].ctx => ctl[c].pc = "end"
  BY DEF Intact
<1>u. UNCHANGED <<doc, req, sender>>
  BY DEF CtlStep, Subscribe, StageAck, DebugEvent, ReceiveCancel, FinishStages, FinishRun, CtlExit
<1>1. CASE Subscribe(c)
  <2> DEFINE new == [ctl[c] EXCEPT !.pc = "run", !.sub = TRUE]
  <2>1. ctl' = [ctl EXCEPT ![c] = new] /\ ctl[c].pc = "subscribe" BY <1>1 DEF Subscribe
  <2>2. /\ new.status = ctl[c].status /\ new.deleted = ctl[c].deleted
        /\ new.sig = ctl[c].sig /\ new.ctx = ctl[c].ctx
    BY <1>r DEF CtlRec
  <2> HIDE DEF new
  <2> QED BY <1>c, <1>u, <2>1, <2>2, IntactCtl
<1>2. CASE StageAck(c) \/ DebugEvent(c) BY <1>2, <1>u, IntactStill DEF StageAck, DebugEvent
<1>3. ~ReceiveCancel(c) BY <1>c DEF ReceiveCancel
<1>4. ASSUME NEW o \in Outcomes, FinishStages(c, o) PROVE Intact'
  <2> DEFINE new == [ctl[c] EXCEPT !.pc = "clean", !.status = o]
  <2>1. ctl' = [ctl EXCEPT ![c] = new] /\ ctl[c].pc = "run" /\ o # "cancelled"
    BY <1>4 DEF FinishStages, NoCancelling
  <2>2. /\ new.status = o /\ new.deleted = ctl[c].deleted
        /\ new.sig = ctl[c].sig /\ new.ctx = ctl[c].ctx
    BY <1>r DEF CtlRec
  <2> HIDE DEF new
  <2> QED BY <1>c, <1>u, <2>1, <2>2, IntactCtl
<1>5. CASE FinishRun(c)
  <2> DEFINE new == [ctl[c] EXCEPT !.pc = "end", !.ended = TRUE, !.sub = FALSE, !.ctx = TRUE]
  <2>1. ctl' = [ctl EXCEPT ![c] = new] BY <1>5 DEF FinishRun
  <2>2. /\ new.status = ctl[c].status /\ new.deleted = ctl[c].deleted
        /\ new.sig = ctl[c].sig /\ new.pc = "end"
    BY <1>r DEF CtlRec
  <2> HIDE DEF new
  <2> QED BY <1>c, <1>u, <2>1, <2>2, IntactCtl
<1>6. CASE CtlExit(c)
  <2>1. ctl' = [ctl EXCEPT ![c] = FreeCtl] BY <1>6 DEF CtlExit
  <2>2. FreeCtl.status = "running" /\ ~FreeCtl.deleted /\ ~FreeCtl.sig /\ ~FreeCtl.ctx OBVIOUS
  <2> QED BY <1>u, <2>1, <2>2, IntactCtl
<1> QED BY <1>1, <1>2, <1>3, <1>4, <1>5, <1>6 DEF CtlStep

\* An ack saves what its controller has; skipped is the status of a last ack only.
LEMMA IntactAck ==
  ASSUME IInv, EndInv, NoResub, Intact, NEW c \in Ctls, LeaveInv(c), AckStep(c, "main")
  PROVE  Intact'
<1>r. ctl[c] \in CtlRec BY DEF IInv, TypeOK
<1>l. ctl[c].task \in Tasks
  BY DEF AckStep, AckFind, AckQueue, AckSave, AckFinish, IInv, Shape
<1>1. CASE AckFind(c, "main")
  <2>1. doc[ctl[c].task].status # "cancelled"
    <3>1. NoDoc.status # "cancelled" OBVIOUS
    <3> QED BY <1>l, <3>1 DEF Intact, Sound
  <2>2. ctl' = ctl BY <1>1, <1>r, <2>1 DEF AckFind, CtlRec, IInv, TypeOK
  <2> QED BY <1>1, <2>2, IntactStill DEF AckFind
<1>2. CASE AckQueue(c, "main") \/ AckFinish(c, "main") BY <1>2, IntactStill DEF AckQueue, AckFinish
<1>3. CASE AckSave(c, "main")
  <2> DEFINE d == [status |-> ctl[c].status, ended |-> ctl[c].ended, deleted |-> ctl[c].deleted]
  <2>1. UNCHANGED <<req, sender, ctl>> /\ doc' = [doc EXCEPT ![ctl[c].task] = d]
    BY <1>3 DEF AckSave
  <2>2. d.status = ctl[c].status /\ d.ended = ctl[c].ended /\ d.deleted = ctl[c].deleted OBVIOUS
  <2> HIDE DEF d
  <2>3. Main(c).pc = "save" /\ Alive(c) BY <1>3 DEF AckSave, Main, IInv, Shape
  <2>4. Orderly(c) BY DEF EndInv, AckInv
  <2>5. ctl[c].status = "skipped" => ctl[c].pc = "end" BY <1>r, <2>3, <2>4 DEF Orderly, CtlRec
  <2>6. ctl[c].pc = "end" => ctl[c].ended BY DEF LeaveInv, NoResub
  <2>7. ctl[c].status \notin {"none", "cancelled"} /\ ~ctl[c].deleted BY <1>r DEF CtlRec, Intact
  <2>8. Sound(d) BY <2>2, <2>5, <2>6, <2>7 DEF Sound
  <2>9. \A u \in Tasks : doc'[u] = NoDoc \/ Sound(doc'[u]) BY <2>1, <2>8, IntactDoc
  <2> QED BY <2>1, <2>9 DEF Intact
<1> QED BY <1>1, <1>2, <1>3 DEF AckStep

\* A sender finds documents that are not deleted.
LEMMA IntactSender ==
  ASSUME IInv, Intact, NEW r \in Replicas, SenderStep(r)
  PROVE  Intact'
<1>s. sender[r] \in SenderRec BY DEF IInv, TypeOK
<1>b. ASSUME UNCHANGED <<doc, req, ctl>>, NEW new, sender' = [sender EXCEPT ![r] = new],
             new.pc = "dispatch" => ~new.seen.deleted
      PROVE  Intact'
  <2>1. sender'[r] = new /\ \A q \in Replicas \ {r} : sender'[q] = sender[q] BY <1>b DEF IInv, TypeOK
  <2>2. \A q \in Replicas : sender'[q].pc = "dispatch" => ~sender'[q].seen.deleted
    BY <1>b, <2>1 DEF Intact
  <2> QED BY <1>b, <2>2 DEF Intact
<1>i. IdleSender.pc = "idle" OBVIOUS
<1>1. ASSUME NEW c \in Ctls, SenderDispatch(r, c) PROVE Intact'
  <2> DEFINE new == [FreeCtl EXCEPT !.pc = "subscribe", !.task = sender[r].pick, !.host = r,
                       !.ended = sender[r].seen.ended, !.deleted = sender[r].seen.deleted]
  <2>1. ctl' = [ctl EXCEPT ![c] = new] /\ UNCHANGED <<doc, req>> /\ sender[r].pc = "dispatch"
    BY <1>1 DEF SenderDispatch
  <2>2. new.status = "running" /\ new.deleted = sender[r].seen.deleted /\ ~new.sig /\ ~new.ctx
    OBVIOUS
  <2> HIDE DEF new
  <2>3. ~sender[r].seen.deleted BY <2>1 DEF Intact
  <2>4. \A q \in Replicas : sender'[q] = sender[q] \/ sender'[q].pc = "idle"
    BY <1>1, <1>i DEF SenderDispatch, IInv, TypeOK
  <2> QED BY <2>1, <2>2, <2>3, <2>4, IntactCtl
<1>2. CASE SenderFind(r)
  <2> DEFINE new == [sender[r] EXCEPT !.pc = "dispatch", !.seen = doc[sender[r].pick]]
  <2>1. UNCHANGED <<doc, req, ctl>> /\ sender' = [sender EXCEPT ![r] = new] BY <1>2 DEF SenderFind
  <2>2. new.seen = doc[sender[r].pick] BY <1>s DEF SenderRec
  <2> HIDE DEF new
  <2>3. sender[r].pick \in Tasks BY <1>2 DEF SenderFind, IInv, Shape
  <2>4. ~doc[sender[r].pick].deleted
    <3>1. ~NoDoc.deleted OBVIOUS
    <3> QED BY <2>3, <3>1 DEF Intact, Sound
  <2> QED BY <1>b, <2>1, <2>2, <2>4
<1>3. CASE SenderLock(r) \/ SenderList(r) \/ SenderGiveUp(r) \/ \E t \in Tasks : SenderScan(r, t)
  <2>1. UNCHANGED <<doc, req, ctl>>
    BY <1>3 DEF SenderLock, SenderList, SenderGiveUp, SenderScan
  <2>f. ASSUME NEW new, sender' = [sender EXCEPT ![r] = new], new.pc # "dispatch"
        PROVE  sender'[r].pc # "dispatch" /\ \A q \in Replicas \ {r} : sender'[q] = sender[q]
    BY <2>f DEF IInv, TypeOK
  <2>g. ASSUME SenderLock(r) \/ SenderList(r) \/ SenderGiveUp(r)
        PROVE  sender'[r].pc # "dispatch" /\ \A q \in Replicas \ {r} : sender'[q] = sender[q]
    <3> DEFINE lis == [sender[r] EXCEPT !.pc = "list"]
               sca == [sender[r] EXCEPT !.pc = "scan", !.todo = {t \in Tasks : queue[t] = "waiting"}]
    <3>1. lis.pc = "list" /\ sca.pc = "scan" BY <1>s DEF SenderRec
    <3>2. \/ sender' = [sender EXCEPT ![r] = lis] \/ sender' = [sender EXCEPT ![r] = sca]
          \/ sender' = [sender EXCEPT ![r] = IdleSender]
      BY <2>g DEF SenderLock, SenderList, SenderGiveUp
    <3> HIDE DEF lis, sca
    <3> QED BY <1>i, <2>f, <3>1, <3>2
  <2>h. ASSUME NEW t \in Tasks, SenderScan(r, t)
        PROVE  sender'[r].pc # "dispatch" /\ \A q \in Replicas \ {r} : sender'[q] = sender[q]
    <3> DEFINE new == IF ~Undefined(t) /\ MayRun(t)
                      THEN [sender[r] EXCEPT !.pc = "find", !.pick = t, !.todo = {}]
                      ELSE [sender[r] EXCEPT !.todo = sender[r].todo \ {t}]
    <3>1. sender' = [sender EXCEPT ![r] = new] /\ sender[r].pc = "scan" BY <2>h DEF SenderScan
    <3>2. new.pc # "dispatch" BY <1>s, <3>1 DEF SenderRec
    <3> HIDE DEF new
    <3> QED BY <2>f, <3>1, <3>2
  <2>2. sender'[r].pc # "dispatch" /\ \A q \in Replicas \ {r} : sender'[q] = sender[q]
    BY <1>3, <2>g, <2>h
  <2>3. \A q \in Replicas : sender'[q].pc = "dispatch" => ~sender'[q].seen.deleted
    BY <2>2 DEF Intact
  <2> QED BY <2>1, <2>3 DEF Intact
<1> QED BY <1>1, <1>2, <1>3 DEF SenderStep

\* Until InitQueue begins, nothing is cancelled or deleted.
LEMMA IntactNext ==
  ASSUME ~SideAcks, NoCancelling, MaxCrashes <= 1, IInv, EndInv, NoResub, Plain, Crashed,
         \A c \in Ctls : LeaveInv(c), Unswept => Intact, [Next]_vars
  PROVE  Unswept' => Intact'
<1> SUFFICES ASSUME Unswept' PROVE Intact' OBVIOUS
<1>1. Unswept /\ \A r \in Replicas : ~Restart(r) /\ ~BootDone(r) BY UnsweptBack
<1>2. Intact /\ \A r \in Replicas : req[r].pc = "idle" BY <1>1, UnsweptIdle
<1>3. ASSUME NEW h \in Handlers, HandlerStep(h) \/ RequestStep(h) PROVE Intact'
  BY <1>2, <1>3, IntactRequest
<1>4. ASSUME NEW p \in Procs PROVE ~CancelStep(p)
  <2> SUFFICES ASSUME CancelStep(p) PROVE FALSE OBVIOUS
  <2>1. p \in Replicas BY PlainCancel
  <2>2. req[p].pc = "idle" BY <1>2, <2>1
  <2> QED BY <2>2 DEF CancelStep, CancelRemove, CancelUpdate, CancelPublish, CancelNext
<1>5. ASSUME NEW r \in Replicas, Crash(r) PROVE Intact'
  <2>1. doc' = doc /\ \A q \in Replicas : sender'[q] = sender[q] \/ sender'[q] = IdleSender
    BY <1>5 DEF Crash, IInv, TypeOK
  <2>2. \A p \in Procs : req'[p] = req[p] \/ req'[p] = IdleReq BY <1>5 DEF Crash
  <2>3. \A c \in Ctls : ctl'[c] = ctl[c] \/ ctl'[c] = FreeCtl BY <1>5 DEF Crash
  <2>4. /\ FreeCtl.status = "running" /\ ~FreeCtl.deleted /\ ~FreeCtl.sig /\ ~FreeCtl.ctx
        /\ IdleReq.pc = "idle" /\ IdleSender.pc = "idle"
    OBVIOUS
  <2>5. \A c \in Ctls : /\ ctl'[c].status # "cancelled" /\ ~ctl'[c].deleted /\ ~ctl'[c].sig
                        /\ ctl'[c].ctx => ctl'[c].pc = "end"
    BY <1>2, <2>3, <2>4 DEF Intact
  <2>6. \A h \in Handlers : req'[h].pc = "touch" => Sound(req'[h].seen)
    BY <1>2, <2>2, <2>4 DEF Intact
  <2>7. \A q \in Replicas : sender'[q].pc = "dispatch" => ~sender'[q].seen.deleted
    BY <1>2, <2>1, <2>4 DEF Intact
  <2> QED BY <1>2, <2>1, <2>5, <2>6, <2>7 DEF Intact
<1>6. ASSUME NEW r \in Replicas, SenderStep(r) \/ ReplicaStep(r) PROVE Intact'
  BY <1>1, <1>2, <1>5, <1>6, IntactSender, IntactStill DEF ReplicaStep, BootStep, LockExpire
<1>7. ASSUME NEW c \in Ctls, CtlStep(c) PROVE Intact' BY <1>2, <1>7, IntactRun
<1>8. ASSUME NEW c \in Ctls, NEW th \in Threads, AckStep(c, th) PROVE Intact'
  <2>1. ack[<<c, "side">>].pc = "none" BY DEF EndInv, AckInv, Orderly
  <2>2. th = "main" BY <1>8, <2>1 DEF AckStep, AckFind, AckQueue, AckSave, AckFinish
  <2> QED BY <1>2, <1>8, <2>2, IntactAck
<1>9. CASE UNCHANGED vars \/ \E w \in Workflows : DeleteTestModule(w)
  BY <1>2, <1>9, IntactStill DEF vars, DeleteTestModule
<1> QED BY <1>3, <1>4, <1>6, <1>7, <1>8, <1>9 DEF Next

\* Only a crash takes a controller away from an entry that holds a slot.
LEMMA DoomedBack ==
  ASSUME ~LockMayExpire, ~SideAcks, IInv, EndInv, DecidedInv, NoResub, NoResub',
         \A c \in Ctls : LeaveInv(c), [Next]_vars, \A r \in Replicas : ~Crash(r)
  PROVE  /\ \A c \in Ctls : LeaveInv(c)'
         /\ \A t \in Tasks : t \in Occupied' \ undecided' /\ ~Owned(t)'
                             => t \in Occupied /\ ~Owned(t)
<1>1. PICK L : L = {t \in Tasks : ~Kept(t)} OBVIOUS
<1>2. LastInv(L) BY <1>1 DEF LastInv
<1>3. LastInv(L)' BY <1>2, LastNext
<1>4. ASSUME NEW t \in Tasks, t \in Occupied', t \notin undecided', ~Owned(t)'
      PROVE  t \in Occupied /\ ~Owned(t)
  <2>q. queue'[t] \in {"running", "queued"} BY <1>4 DEF Occupied
  <2>1. ~Kept(t)' BY <1>4, <2>q DEF Kept
  <2>2. t \in L BY <1>3, <2>1 DEF LastInv, NoResub
  <2>3. ~Kept(t) BY <1>1, <2>2
  <2>4. ~Owned(t) BY <2>3 DEF Kept
  <2>5. CASE QueueBack BY <2>4, <2>5, <2>q DEF QueueBack, Occupied, NoResub
  <2>6. ASSUME NEW r \in Replicas, NEW c \in Ctls, SenderDispatch(r, c) PROVE t \in Occupied
    <3> DEFINE u == sender[r].pick
               new == [FreeCtl EXCEPT !.pc = "subscribe", !.task = u, !.host = r,
                         !.ended = sender[r].seen.ended, !.deleted = sender[r].seen.deleted]
    <3>1. ctl' = [ctl EXCEPT ![c] = new] BY <2>6 DEF SenderDispatch
    <3>2. new.pc = "subscribe" /\ new.task = u OBVIOUS
    <3> HIDE DEF new
    <3>3. ctl'[c] = new BY <3>1 DEF IInv, TypeOK
    <3>4. t # u BY <1>4, <3>2, <3>3 DEF Owned
    <3>5. queue'[t] = queue[t] BY <2>6, <3>4 DEF SenderDispatch, QueueUpdate, IInv, TypeOK
    <3> QED BY <2>q, <3>5 DEF Occupied
  <2>7. ASSUME NEW c \in Ctls, NEW th \in Threads, AckQueue(c, th) PROVE t \in Occupied
    <3>1. Alive(c) BY <2>7 DEF AckQueue, IInv, Shape
    <3>2. t # ctl[c].task BY <2>4, <3>1 DEF Owned
    <3>3. queue'[t] = queue[t] BY <2>7, <3>2 DEF AckQueue, QueueUpdate, IInv, TypeOK
    <3> QED BY <2>q, <3>3 DEF Occupied
  <2> QED BY <2>4, <2>5, <2>6, <2>7, QueueAside
<1> QED BY <1>3, <1>4 DEF LastInv

\* What a task that is neither done nor cancelled has as its status.
LEMMA OpenDoc ==
  ASSUME NEW d \in Doc, Sound(d), ~Over(d)
  PROVE  d.status \in InCompletedStatus /\ ~d.deleted
BY DEF Sound, Over, AckedStatus, InCompletedStatus

\* While a replica is down, the document of a task that lost its controller stays incomplete.
LEMMA DownDoc ==
  ASSUME NoCancelling, MaxCrashes <= 1, IInv, EndInv, NoResub, Plain, Crashed, Vacant, Intact, Unswept,
         [Next]_vars, NEW t \in Occupied \ undecided, ~Owned(t)
  PROVE  doc'[t] = doc[t] \/ (doc'[t].status \in InCompletedStatus /\ ~doc'[t].deleted)
<1>t. t \in Tasks /\ ~Closed(t) BY DEF Occupied, Vacant, NoResub
<1>1. doc[t] # NoDoc BY <1>t DEF IInv, DocInv, Occupied
<1>2. ASSUME NEW h \in Handlers, HandlerStep(h) PROVE doc'[t] = doc[t]
  <2>1. ASSUME NEW u \in Tasks, CreateTask(h, u) PROVE doc'[t] = doc[t]
    BY <1>1, <1>t, <2>1 DEF CreateTask, IInv, TypeOK
  <2> QED BY <1>2, <2>1 DEF HandlerStep, CancelFind, TouchFind, RetryWorkflowTaskV4,
       ManualExecWorkflowTaskV4, Resubmit, DeleteWorkflowV4
<1>3. ASSUME NEW h \in Handlers, TouchUpdate(h), req[h].task = t
      PROVE  doc'[t].status \in InCompletedStatus /\ ~doc'[t].deleted
  <2>1. doc'[t] = req[h].seen BY <1>3, <1>t DEF TouchUpdate, IInv, TypeOK
  <2>2. Sound(req[h].seen) BY <1>3 DEF TouchUpdate, Intact
  <2>3. ~Over(req[h].seen) BY <1>3, <1>t DEF Closed
  <2>4. req[h].seen \in Doc BY DEF IInv, TypeOK, ReqRec
  <2> QED BY <2>1, <2>2, <2>3, <2>4, OpenDoc
<1>4. ASSUME NEW h \in Handlers, TouchUpdate(h), req[h].task # t PROVE doc'[t] = doc[t]
  BY <1>4, <1>t DEF TouchUpdate, IInv, TypeOK
<1>5. ASSUME NEW h \in Handlers PROVE ~ResubmitUpdate(h) /\ ~DeleteByID(h) /\ ~DeleteByWorkflowName(h)
  BY DEF ResubmitUpdate, DeleteByID, DeleteByWorkflowName, NoResub, Plain, PlainPc
<1>6. ASSUME NEW p \in Procs PROVE ~CancelStep(p)
  <2> SUFFICES ASSUME CancelStep(p) PROVE FALSE OBVIOUS
  <2>1. p \in Replicas BY PlainCancel
  <2>2. req[p].pc = "idle" BY <2>1, UnsweptIdle
  <2> QED BY <2>2 DEF CancelStep, CancelRemove, CancelUpdate, CancelPublish, CancelNext
<1>7. ASSUME NEW r \in Replicas, SenderStep(r) \/ ReplicaStep(r) PROVE doc' = doc
  BY <1>7 DEF SenderStep, ReplicaStep, BootStep, SenderLock, SenderList, SenderGiveUp, SenderFind,
      SenderScan, SenderDispatch, LockExpire, Crash, Restart, BootDone
<1>8. ASSUME NEW c \in Ctls, CtlStep(c) PROVE doc' = doc
  BY <1>8 DEF CtlStep, Subscribe, StageAck, DebugEvent, ReceiveCancel, FinishStages, FinishRun, CtlExit
<1>9. ASSUME NEW c \in Ctls, NEW th \in Threads, AckStep(c, th) PROVE doc'[t] = doc[t]
  <2>1. CASE AckSave(c, th)
    <3>1. Alive(c) BY <2>1 DEF AckSave, IInv, Shape
    <3>2. ctl[c].task # t BY <3>1 DEF Owned
    <3> QED BY <1>t, <2>1, <3>2 DEF AckSave, IInv, TypeOK
  <2> QED BY <1>9, <2>1 DEF AckStep, AckFind, AckQueue, AckFinish
<1>10. CASE UNCHANGED vars \/ \E w \in Workflows : DeleteTestModule(w)
  BY <1>10 DEF vars, DeleteTestModule
<1>11. ASSUME NEW h \in Handlers, RequestStep(h)
       PROVE  doc'[t] = doc[t] \/ (doc'[t].status \in InCompletedStatus /\ ~doc'[t].deleted)
  BY <1>3, <1>4, <1>5, <1>11 DEF RequestStep, Push
<1> QED BY <1>2, <1>6, <1>7, <1>8, <1>9, <1>10, <1>11 DEF Next

\* InitQueue keeps the tasks it has listed until it has removed their entries.
LEMMA SweptCancel ==
  ASSUME IInv, NEW r \in Replicas, CancelStep(r), NEW t \in Tasks, t \in Occupied',
         t \in req[r].todo \/ (req[r].pc = "remove" /\ req[r].task = t)
  PROVE  t \in req'[r].todo \/ (req'[r].pc = "remove" /\ req'[r].task = t)
<1>r. req[r] \in ReqRec BY DEF IInv, TypeOK
<1>f. ASSUME NEW new, req' = [req EXCEPT ![r] = new] PROVE req'[r] = new
  BY <1>f DEF IInv, TypeOK
<1>c. CancelReturn(r).todo = req[r].todo BY DEF CancelReturn, Looping
<1>e. \A pc : [req[r] EXCEPT !.pc = pc].todo = req[r].todo BY <1>r DEF ReqRec
<1>1. CASE CancelRemove(r)
  <2>1. req[r].task = t => queue'[t] = Absent BY <1>1 DEF CancelRemove, QueueDelete, IInv, TypeOK
  <2>2. t \in req[r].todo BY <2>1 DEF Occupied
  <2> DEFINE new == [req[r] EXCEPT !.pc = "save"]
  <2>3. new.todo = req[r].todo BY <1>e
  <2>4. req' = [req EXCEPT ![r] = CancelReturn(r)] \/ req' = [req EXCEPT ![r] = new]
    BY <1>1 DEF CancelRemove
  <2> HIDE DEF new
  <2> QED BY <1>c, <1>f, <2>2, <2>3, <2>4
<1>2. CASE CancelUpdate(r)
  <2> DEFINE new == [req[r] EXCEPT !.pc = "publish"]
  <2>1. req' = [req EXCEPT ![r] = new] /\ req[r].pc = "save" BY <1>2 DEF CancelUpdate
  <2>2. new.todo = req[r].todo BY <1>e
  <2> HIDE DEF new
  <2> QED BY <1>f, <2>1, <2>2
<1>3. CASE CancelPublish(r)
  <2>1. req' = [req EXCEPT ![r] = CancelReturn(r)] /\ req[r].pc = "publish" BY <1>3 DEF CancelPublish
  <2> QED BY <1>c, <1>f, <2>1
<1>4. ASSUME NEW u \in Tasks, CancelNext(r, u)
      PROVE  t \in req'[r].todo \/ (req'[r].pc = "remove" /\ req'[r].task = t)
  <2> DEFINE new == [req[r] EXCEPT !.pc = "remove", !.task = u, !.seen = doc[u],
                                   !.todo = req[r].todo \ {u}]
  <2>1. req' = [req EXCEPT ![r] = new] /\ req[r].pc = "loop" BY <1>4 DEF CancelNext
  <2>2. new.pc = "remove" /\ new.task = u /\ new.todo = req[r].todo \ {u} BY <1>r DEF ReqRec
  <2> HIDE DEF new
  <2> QED BY <1>f, <2>1, <2>2
<1> QED BY <1>1, <1>2, <1>3, <1>4 DEF CancelStep

\* A slot that InitQueue will free stays so until it is free.
LEMMA SweptStays ==
  ASSUME NoCancelling, MaxCrashes <= 1, IInv, EndInv, NoResub, Plain, Crashed, Vacant,
         Unswept => Intact, [Next]_vars, \A q \in Replicas : ~Crash(q),
         NEW t \in Occupied \ undecided, t \in Occupied', ~Owned(t), NEW r \in Replicas, Swept(r, t)
  PROVE  Swept(r, t)'
<1>t. t \in Tasks BY DEF Occupied
<1>y. rep \in [Replicas -> {"down", "booting", "up"}] /\ req \in [Procs -> ReqRec] BY DEF IInv, TypeOK
<1>u. rep[r] # "up" BY DEF Swept
<1>n. ASSUME NEW q \in Replicas, Restart(q) \/ BootDone(q) PROVE q = r
  BY <1>n, <1>u DEF Restart, BootDone, Crashed
<1>1. CASE rep[r] = "down"
  <2>1. doc[t].status \in InCompletedStatus /\ ~doc[t].deleted BY <1>1 DEF Swept
  <2>2. CASE Restart(r)
    <3> DEFINE new == [IdleReq EXCEPT !.pc = "loop",
                 !.todo = {u \in Tasks : doc[u].status \in InCompletedStatus /\ ~doc[u].deleted}]
    <3>1. rep'[r] = "booting" /\ req' = [req EXCEPT ![r] = new] BY <1>y, <2>2 DEF Restart
    <3>2. new.todo = {u \in Tasks : doc[u].status \in InCompletedStatus /\ ~doc[u].deleted} OBVIOUS
    <3> HIDE DEF new
    <3>3. req'[r] = new BY <3>1, <1>y
    <3>4. t \in req'[r].todo BY <1>t, <2>1, <3>2, <3>3
    <3> QED BY <3>1, <3>4 DEF Swept
  <2>3. CASE ~Restart(r)
    <3>1. ~BootDone(r) BY <1>1 DEF BootDone
    <3>2. rep' = rep BY <1>n, <2>3, <3>1, RepSteps
    <3>3. Unswept BY <1>1 DEF Unswept
    <3>4. doc'[t] = doc[t] \/ (doc'[t].status \in InCompletedStatus /\ ~doc'[t].deleted)
      BY <3>3, DownDoc
    <3> QED BY <1>1, <2>1, <3>2, <3>4 DEF Swept
  <2> QED BY <2>2, <2>3
<1>2. CASE rep[r] = "booting"
  <2>1. t \in req[r].todo \/ (req[r].pc = "remove" /\ req[r].task = t) BY <1>2 DEF Swept
  <2>2. ~Restart(r) /\ ~BootDone(r) BY <1>2, <2>1 DEF Restart, BootDone
  <2>3. rep' = rep BY <1>n, <2>2, RepSteps
  <2>4. req'[r] = req[r] \/ CancelStep(r) BY <2>2, ReplicaRequests
  <2>5. t \in req'[r].todo \/ (req'[r].pc = "remove" /\ req'[r].task = t)
    BY <1>t, <2>1, <2>4, SweptCancel
  <2> QED BY <1>2, <2>3, <2>5 DEF Swept
<1> QED BY <1>1, <1>2 DEF Swept

\* The slots held on a replica that goes down are those of incomplete tasks.
LEMMA DoomedCrash ==
  ASSUME MaxCrashes <= 1, IInv, EndInv, NoResub, Crashed, Vacant, Unswept => Intact, Doomed,
         \A c \in Ctls : LeaveInv(c), NEW r \in Replicas, Crash(r)
  PROVE  Doomed' /\ \A c \in Ctls : LeaveInv(c)'
<1>1. used.crashes = 0 BY FirstCrash
<1>2. (\A q \in Replicas : rep[q] = "up") /\ Intact BY <1>1 DEF Crashed, Unswept
<1>3. UNCHANGED <<doc, queue, notified, resub, undecided>> BY DEF Crash
<1>4. rep'[r] = "down" BY DEF Crash, IInv, TypeOK
<1>5. ASSUME NEW t \in Occupied \ undecided PROVE Swept(r, t)'
  <2>1. t \in Tasks /\ ~Closed(t) BY <1>5 DEF Occupied, Vacant, NoResub
  <2>2. doc[t] # NoDoc BY <1>5, <2>1 DEF IInv, DocInv, Occupied
  <2>3. Sound(doc[t]) /\ ~Over(doc[t]) BY <1>2, <2>1, <2>2 DEF Intact, Closed
  <2>4. doc[t] \in Doc BY <2>1 DEF IInv, TypeOK
  <2>5. doc[t].status \in InCompletedStatus /\ ~doc[t].deleted BY <2>3, <2>4, OpenDoc
  <2> QED BY <1>3, <1>4, <2>5 DEF Swept
<1>6. Doomed' BY <1>3, <1>5 DEF Doomed, Occupied
<1>7. ASSUME NEW c \in Ctls PROVE LeaveInv(c)'
  <2>1. \/ ctl'[c] = ctl[c] /\ Main(c)' = Main(c)
        \/ ctl'[c] = FreeCtl
    BY DEF Crash, Main
  <2>2. FreeCtl.pc # "end" OBVIOUS
  <2>3. LeaveInv(c) OBVIOUS
  <2> QED BY <1>3, <2>1, <2>2, <2>3 DEF LeaveInv
<1> QED BY <1>6, <1>7

-----------------------------------------------------------------------------
\* All that is known of the slots when one replica may crash.
CrashInv == IInv /\ EndInv /\ DecidedInv /\ SweepInv

\* The start.
LEMMA CrashInit == Init => CrashInv
<1> SUFFICES ASSUME Init PROVE CrashInv OBVIOUS
<1>1. IInv /\ EndInv /\ DecidedInv BY IInvInit, EndInit DEF Init, DecidedInv
<1>2. NoResub /\ Plain BY DEF Init, NoResub, Plain, PlainPc
<1>3. Crashed BY SwitchAssumption DEF Init, Crashed
<1>4. Intact BY ProcessAssumption DEF Init, Intact
<1>5. Occupied = {} BY DEF Init, Occupied
<1>6. \A c \in Ctls : LeaveInv(c) BY DEF Init, LeaveInv
<1> QED BY <1>1, <1>2, <1>3, <1>4, <1>5, <1>6 DEF CrashInv, SweepInv, Vacant, Doomed

\* Every step.
LEMMA CrashNext ==
  ASSUME ~LockMayExpire, ~SideAcks, NoCancelling, MaxCrashes <= 1, MaxResubmits = 0,
         CrashInv, [Next]_vars
  PROVE  CrashInv'
<1>1. /\ IInv /\ EndInv /\ DecidedInv /\ NoResub /\ Plain /\ Crashed /\ (Unswept => Intact) /\ Vacant
      /\ \A c \in Ctls : LeaveInv(c)
      /\ Doomed
  BY DEF CrashInv, SweepInv
<1>2. IInv' /\ EndInv' /\ DecidedInv' BY <1>1, IInvNext, EndNext, DecidedNext
<1>3. NoResub' /\ Plain' BY <1>1, NoResubNext, PlainNext
<1>4. Crashed' BY <1>1, CrashedNext
<1>5. Unswept' => Intact' BY <1>1, IntactNext
<1>6. Vacant' BY <1>1, <1>3, VacantNext
<1>7. Doomed' /\ \A c \in Ctls : LeaveInv(c)'
  <2>1. CASE \E r \in Replicas : Crash(r) BY <1>1, <2>1, DoomedCrash
  <2>2. CASE \A r \in Replicas : ~Crash(r)
    <3>1. /\ \A c \in Ctls : LeaveInv(c)'
          /\ \A t \in Tasks : t \in Occupied' \ undecided' /\ ~Owned(t)'
                              => t \in Occupied /\ ~Owned(t)
      BY <1>1, <1>3, <2>2, DoomedBack
    <3>2. ASSUME NEW t \in Occupied', t \notin undecided', ~Owned(t)'
          PROVE  \E r \in Replicas : Swept(r, t)'
      <4>1. t \in Tasks BY <3>2 DEF Occupied
      <4>2. t \in Occupied \ undecided /\ ~Owned(t) BY <3>1, <3>2, <4>1, UndecidedNext
      <4>3. PICK r \in Replicas : Swept(r, t) BY <1>1, <4>2 DEF Doomed
      <4>4. Swept(r, t)' BY <1>1, <2>2, <3>2, <4>2, <4>3, SweptStays
      <4> QED BY <4>4
    <3> QED BY <3>1, <3>2 DEF Doomed
  <2> QED BY <2>1, <2>2
<1> QED BY <1>2, <1>3, <1>4, <1>5, <1>6, <1>7 DEF CrashInv, SweepInv

\* After one crash, and however the restart's InitQueue interleaves with the other replicas' senders,
\* controllers and requests: once all replicas are up, every queued or running entry has a live
\* controller, but for those whose run ended with status running. A slot whose controller died with its replica belongs to a task InCompletedTasks
\* lists, and CancelWorkflowTask removes its entry before InitWorkflowController returns. It takes
\* that tasks are not cancelled or retried by requests or cancelled by their own jobs, and no debug
\* event acks.
THEOREM SlotsOwnedAfterCrash ==
  ASSUME ~LockMayExpire, ~SideAcks, NoCancelling, MaxCrashes <= 1, MaxResubmits = 0
  PROVE  Spec => []SlotHasOwner
<1>1. Init => CrashInv BY CrashInit
<1>2. CrashInv /\ [Next]_vars => CrashInv' BY CrashNext
<1>3. CrashInv => SlotHasOwner
  BY DEF CrashInv, SweepInv, Doomed, Swept, SlotHasOwner, AllUp
<1> QED BY <1>1, <1>2, <1>3, PTL DEF Spec
-----------------------------------------------------------------------------
(* Entries of retried tasks, when requests come one at a time.  A request     *)
(* that found the task failed or paused pushes it before the next request can *)
(* find it: no controller at work on the task meets the document of an end.   *)

OneRequest == \A g, h \in Handlers : g = h

\* A document that may be resubmitted or makes an ack return early.
Dead(d) == d.status \in AckedStatus \cup {"pause"}

\* The task has ended, or a request is about to write that or to push the task.
Ending(t) ==
  \/ Dead(doc[t])
  \/ \E h \in Handlers : \/ Pushing(h, t)
                         \/ /\ req[h].pc \in {"touch", "update"} /\ req[h].task = t
                            /\ Dead(req[h].seen)

\* The entry has left its slot, and a controller has but to remove it.
Left(t) ==
  /\ queue[t] \notin {"waiting", "queued", "running"}
  /\ \A c \in Ctls : Working(c) /\ ctl[c].task = t => ctl[c].pc = "end" /\ Main(c).pc = "finish"

Worked(t) == \E c \in Ctls : Working(c) /\ ctl[c].task = t

\* An entry that is neither waiting nor skipped has a controller that is not done, unless a run
\* of the task ended with status running.
KeepTask(t) ==
  /\ Ending(t) => Left(t)
  /\ queue[t] \notin {Absent, "waiting", "skipped"} => Worked(t) \/ t \in undecided

\* The last ack saves after it has set the status of the entry.
SetInv ==
  \A c \in Ctls : ctl[c].pc = "end" /\ Main(c).pc = "save" => queue[ctl[c].task] = ctl[c].status

\* Only tasks that ended are resubmitted, and pushed as waiting ones.
AgainInv ==
  \A h \in Handlers :
    /\ req[h].pc = "update" => Dead(req[h].seen)
    /\ \A t \in Tasks : Pushing(h, t) => ~Dead(doc[t])

KeepInv == (\A t \in Tasks : KeepTask(t)) /\ SetInv /\ AgainInv

\* A controller's step on t leaves the other tasks alone.
LEMMA KeepElsewhere ==
  ASSUME NEW c \in Ctls, NEW t, \A d \in Ctls \ {c} : ctl'[d] = ctl[d] /\ Main(d)' = Main(d),
         Alive(c) => ctl[c].task = t, Alive(c)' => ctl'[c].task = t,
         NEW u \in Tasks, u # t, queue'[u] = queue[u], doc'[u] = doc[u], req' = req, KeepTask(u),
         undecided \subseteq undecided'
  PROVE  KeepTask(u)'
<1>1. \A d \in Ctls : Working(d)' /\ ctl'[d].task = u
                      <=> Working(d) /\ ctl[d].task = u
  BY DEF Working
<1>2. \A d \in Ctls : Working(d) /\ ctl[d].task = u => ctl'[d] = ctl[d] /\ Main(d)' = Main(d)
  BY DEF Working
<1>3. Left(u) => Left(u)' BY <1>1, <1>2 DEF Left
<1>4. Worked(u) => Worked(u)' BY <1>1 DEF Worked
<1>5. Ending(u)' => Ending(u) BY DEF Ending, Pushing
<1> QED BY <1>3, <1>4, <1>5 DEF KeepTask

\* A step that leaves the controllers alone and takes entries only from waiting tasks.
LEMMA KeepStill ==
  ASSUME KeepInv, IInv, undecided \subseteq undecided', UNCHANGED <<doc, req, ctl, ack>>,
         \A t \in Tasks : queue'[t] = queue[t] \/ (queue[t] = "waiting" /\ queue'[t] = Absent)
  PROVE  KeepInv'
<1>1. \A c \in Ctls : Working(c)' = Working(c) /\ Main(c)' = Main(c) BY DEF Working, Main
<1>2. ASSUME NEW t \in Tasks PROVE KeepTask(t)'
  <2>1. KeepTask(t) BY <1>2 DEF KeepInv
  <2>2. Ending(t)' = Ending(t) BY DEF Ending, Pushing
  <2>3. Left(t) => Left(t)' BY <1>1, <1>2 DEF Left
  <2>4. Worked(t) => Worked(t)' BY <1>1 DEF Worked
  <2> QED BY <1>2, <2>1, <2>2, <2>3, <2>4 DEF KeepTask
<1>3. SetInv'
  <2> SUFFICES ASSUME NEW c \in Ctls, ctl[c].pc = "end", Main(c).pc = "save"
               PROVE  queue'[ctl[c].task] = ctl[c].status
    BY <1>1 DEF SetInv
  <2>1. ctl[c].task \in Tasks /\ ctl[c] \in CtlRec BY DEF IInv, Shape, TypeOK
  <2>2. queue[ctl[c].task] = ctl[c].status BY DEF KeepInv, SetInv
  <2> QED BY <2>1, <2>2 DEF CtlRec
<1>4. AgainInv' BY DEF KeepInv, AgainInv, Pushing
<1> QED BY <1>2, <1>3, <1>4 DEF KeepInv

\* A request that starts, or goes on, with one task and leaves the queue alone.
LEMMA KeepRead ==
  ASSUME OneRequest, KeepInv, undecided \subseteq undecided', NEW h \in Handlers,
         UNCHANGED <<queue, ctl, ack>>,
         \A t \in Tasks : Ending(t)' => Left(t),
         req'[h].pc = "update" => Dead(req'[h].seen),
         \A t \in Tasks : Pushing(h, t)' => ~Dead(doc'[t])
  PROVE  KeepInv'
<1>1. \A c \in Ctls : Working(c)' = Working(c) /\ Main(c)' = Main(c) BY DEF Working, Main
<1>2. ASSUME NEW t \in Tasks PROVE KeepTask(t)'
  <2>1. KeepTask(t) BY <1>2 DEF KeepInv
  <2>2. Left(t)' = Left(t) BY <1>1, <1>2 DEF Left
  <2>3. Worked(t)' = Worked(t) BY <1>1 DEF Worked
  <2> QED BY <1>2, <2>1, <2>2, <2>3 DEF KeepTask
<1>3. SetInv' BY <1>1 DEF KeepInv, SetInv
<1>4. AgainInv' BY DEF OneRequest, AgainInv
<1> QED BY <1>2, <1>3, <1>4 DEF KeepInv

\* The steps of requests.
LEMMA KeepRequest ==
  ASSUME OneRequest, NoCancelling, RetryInv, KeepInv, undecided \subseteq undecided', NEW h \in Handlers,
         HandlerStep(h) \/ RequestStep(h)
  PROVE  KeepInv'
<1>i. IInv /\ Uncancelled /\ Plain /\ WorkInv BY DEF RetryInv, Uncancelled, SlotsInv
<1>r. req[h] \in ReqRec /\ req[h].pc \in PlainPc BY <1>i DEF IInv, TypeOK, Plain
<1>o. \A g \in Handlers : g = h BY DEF OneRequest
<1>f. ASSUME NEW new, req' = [req EXCEPT ![h] = new] PROVE req'[h] = new
  BY <1>f, <1>i DEF IInv, TypeOK
<1>k. ASSUME NEW t \in Tasks, Ending(t) PROVE Left(t) BY <1>k DEF KeepInv, KeepTask
<1>e. ASSUME NEW t, \A u \in Tasks : doc'[u] = doc[u] \/ ~Dead(doc'[u]) \/ (u = t /\ Left(t)),
             req'[h].pc # "idle" => req'[h].task = t,
             req'[h].pc = "push" \/ (req'[h].pc \in {"touch", "update"} /\ Dead(req'[h].seen)) => Left(t)
      PROVE  \A u \in Tasks : Ending(u)' => Left(u)
  <2> SUFFICES ASSUME NEW u \in Tasks, Ending(u)' PROVE Left(u) OBVIOUS
  <2>1. CASE Dead(doc'[u])
    <3>1. Dead(doc[u]) => Left(u) BY <1>k DEF Ending
    <3> QED BY <1>e, <2>1, <3>1
  <2>2. CASE ~Dead(doc'[u])
    <3>1. /\ req'[h].task = u
          /\ req'[h].pc = "push" \/ (req'[h].pc \in {"touch", "update"} /\ Dead(req'[h].seen))
      BY <1>o, <2>2 DEF Ending, Pushing
    <3> QED BY <1>e, <3>1
  <2> QED BY <2>1, <2>2
<1>1. ASSUME NEW t \in Tasks, CreateTask(h, t) PROVE KeepInv'
  <2> DEFINE d == [NoDoc EXCEPT !.status = "waiting"]
             new == [IdleReq EXCEPT !.pc = "push", !.task = t]
  <2>1. /\ doc' = [doc EXCEPT ![t] = d] /\ req' = [req EXCEPT ![h] = new] /\ doc[t] = NoDoc
        /\ UNCHANGED <<queue, ctl, ack>>
    BY <1>1 DEF CreateTask
  <2>2. d.status = "waiting" /\ new.pc = "push" /\ new.task = t OBVIOUS
  <2> HIDE DEF d, new
  <2>3. ~Dead(d) BY <2>2 DEF Dead, AckedStatus
  <2>4. doc'[t] = d /\ \A u \in Tasks \ {t} : doc'[u] = doc[u] BY <1>i, <2>1 DEF IInv, TypeOK
  <2>5. queue[t] = Absent /\ ~Owned(t) BY <1>i, <2>1 DEF IInv, DocInv
  <2>6. Left(t) BY <2>5 DEF Left, Working, Owned
  <2>7. req'[h] = new BY <1>f, <2>1
  <2>8. \A u \in Tasks : Ending(u)' => Left(u) BY <1>e, <2>2, <2>3, <2>4, <2>6, <2>7
  <2>9. \A u \in Tasks : Pushing(h, u)' => ~Dead(doc'[u]) BY <2>2, <2>3, <2>4, <2>7 DEF Pushing
  <2> QED BY <2>1, <2>2, <2>7, <2>8, <2>9, KeepRead
<1>2. ASSUME NEW t \in Tasks, NEW pc \in {"touch", "update"}, req' = Found(h, t, pc),
             UNCHANGED <<doc, queue, ctl, ack>>, pc = "update" => Dead(doc[t])
      PROVE  KeepInv'
  <2> DEFINE new == [IdleReq EXCEPT !.pc = pc, !.task = t, !.seen = doc[t]]
  <2>1. req' = [req EXCEPT ![h] = new] BY <1>2 DEF Found
  <2>2. new.pc = pc /\ new.task = t /\ new.seen = doc[t] OBVIOUS
  <2> HIDE DEF new
  <2>3. req'[h] = new BY <1>f, <2>1
  <2>4. Dead(doc[t]) => Left(t) BY <1>k DEF Ending
  <2>5. \A u \in Tasks : Ending(u)' => Left(u) BY <1>2, <1>e, <2>2, <2>3, <2>4
  <2>6. \A u \in Tasks : ~Pushing(h, u)' BY <1>2, <2>2, <2>3 DEF Pushing
  <2> QED BY <1>2, <2>2, <2>3, <2>5, <2>6, KeepRead
<1>3. ASSUME NEW t \in Tasks, TouchFind(h, t) PROVE KeepInv' BY <1>2, <1>3 DEF TouchFind
<1>4. ASSUME NEW t \in Tasks, RetryWorkflowTaskV4(h, t) \/ ManualExecWorkflowTaskV4(h, t) PROVE KeepInv'
  <2>1. req' = Found(h, t, "update") /\ UNCHANGED <<doc, queue, ctl, ack>>
    BY <1>4 DEF RetryWorkflowTaskV4, ManualExecWorkflowTaskV4, Resubmit
  <2>2. doc[t].status # "cancelled" BY <1>i DEF Uncancelled
  <2>3. Dead(doc[t])
    BY <1>4, <2>2 DEF RetryWorkflowTaskV4, ManualExecWorkflowTaskV4, RetryableStatus, Dead, AckedStatus
  <2> QED BY <1>2, <2>1, <2>3
<1>5. ASSUME NEW t \in Tasks PROVE ~CancelFind(h, t)
  BY <1>i DEF CancelFind, NoCancelling, IInv, TypeOK, Counters
<1>6. ASSUME NEW w \in Workflows PROVE ~DeleteWorkflowV4(h, w)
  BY DEF DeleteWorkflowV4, NoCancelling
<1>p. IdleReq.pc = "idle" OBVIOUS
<1>7. CASE TouchUpdate(h)
  <2>1. /\ doc' = [doc EXCEPT ![req[h].task] = req[h].seen] /\ req' = [req EXCEPT ![h] = IdleReq]
        /\ req[h].pc = "touch" /\ UNCHANGED <<queue, ctl, ack>>
    BY <1>7 DEF TouchUpdate
  <2>2. req[h].task \in Tasks BY <1>i, <2>1 DEF IInv, Shape
  <2>3. Dead(req[h].seen) => Left(req[h].task) BY <1>k, <2>1, <2>2 DEF Ending
  <2>4. req'[h].pc = "idle" BY <1>f, <1>p, <2>1
  <2>5. \A u \in Tasks : doc'[u] = doc[u] \/ (u = req[h].task /\ doc'[u] = req[h].seen)
    BY <1>i, <2>1 DEF IInv, TypeOK
  <2>6. \A u \in Tasks : Ending(u)' => Left(u)
    <3> SUFFICES ASSUME NEW u \in Tasks, Ending(u)' PROVE Left(u) OBVIOUS
    <3>1. Dead(doc'[u]) BY <1>o, <2>4 DEF Ending, Pushing
    <3>2. Dead(doc[u]) => Left(u) BY <1>k DEF Ending
    <3> QED BY <2>3, <2>5, <3>1, <3>2
  <2>7. \A u \in Tasks : ~Pushing(h, u)' BY <2>4 DEF Pushing
  <2> QED BY <2>1, <2>4, <2>6, <2>7, KeepRead
<1>8. CASE ResubmitUpdate(h)
  <2> DEFINE t == req[h].task
             d == [NoDoc EXCEPT !.status = "waiting", !.deleted = req[h].seen.deleted]
             new == [req[h] EXCEPT !.pc = "push"]
  <2>1. /\ doc' = [doc EXCEPT ![t] = d] /\ req' = [req EXCEPT ![h] = new]
        /\ req[h].pc = "update" /\ UNCHANGED <<queue, ctl, ack>>
    BY <1>8 DEF ResubmitUpdate
  <2>2. d.status = "waiting" OBVIOUS
  <2>3. new.pc = "push" /\ new.task = t BY <1>r DEF ReqRec
  <2> HIDE DEF d, new
  <2>4. t \in Tasks /\ Dead(req[h].seen) BY <1>i, <2>1 DEF IInv, Shape, KeepInv, AgainInv
  <2>5. Left(t) BY <1>k, <2>1, <2>4 DEF Ending
  <2>6. ~Dead(d) BY <2>2 DEF Dead, AckedStatus
  <2>7. doc'[t] = d /\ \A u \in Tasks \ {t} : doc'[u] = doc[u] BY <1>i, <2>1, <2>4 DEF IInv, TypeOK
  <2>8. req'[h] = new BY <1>f, <2>1
  <2>9. \A u \in Tasks : Ending(u)' => Left(u)
    <3> HIDE DEF t
    <3> QED BY <1>e, <2>3, <2>5, <2>6, <2>7, <2>8
  <2>10. \A u \in Tasks : Pushing(h, u)' => ~Dead(doc'[u]) BY <2>3, <2>6, <2>7, <2>8 DEF Pushing
  <2> QED BY <2>1, <2>3, <2>8, <2>9, <2>10, KeepRead
<1>9. CASE Push(h)
  <2> DEFINE t == req[h].task
  <2>1. /\ queue' = QueueCreate(t) /\ req' = [req EXCEPT ![h] = IdleReq]
        /\ UNCHANGED <<doc, ctl, ack>> /\ req[h].pc = "push"
    BY <1>9 DEF Push
  <2>2. t \in Tasks BY <1>i, <2>1 DEF IInv, Shape
  <2>3. Pushing(h, t) BY <2>1 DEF Pushing
  <2>4. ~Dead(doc[t]) BY <2>2, <2>3 DEF KeepInv, AgainInv
  <2>5. req'[h].pc = "idle" BY <1>f, <1>p, <2>1
  <2>6. /\ queue'[t] = IF queue[t] = Absent THEN "waiting" ELSE queue[t]
        /\ \A u \in Tasks \ {t} : queue'[u] = queue[u]
    BY <1>i, <2>1, <2>2 DEF QueueCreate, IInv, TypeOK
  <2>7. \A c \in Ctls : Working(c)' = Working(c) /\ Main(c)' = Main(c) BY <2>1 DEF Working, Main
  <2> HIDE DEF t
  <2>8. ASSUME NEW u \in Tasks PROVE KeepTask(u)'
    <3>1. Ending(u)' => Dead(doc[u]) BY <1>o, <2>1, <2>5 DEF Ending, Pushing
    <3>2. u # t /\ Left(u) => Left(u)' BY <2>1, <2>6, <2>7 DEF Left
    <3>3. Worked(u) => Worked(u)' BY <2>1, <2>7 DEF Worked
    <3>4. KeepTask(u) BY DEF KeepInv
    <3>5. Ending(u)' => Left(u)' BY <1>k, <2>4, <3>1, <3>2 DEF Ending
    <3> QED BY <2>6, <3>3, <3>4, <3>5 DEF KeepTask
  <2>9. SetInv'
    <3> SUFFICES ASSUME NEW c \in Ctls, ctl[c].pc = "end", Main(c).pc = "save"
                 PROVE  queue'[ctl[c].task] = ctl[c].status
      BY <2>1, <2>7 DEF SetInv
    <3>1. ctl[c].task \in Tasks /\ ctl[c] \in CtlRec BY <1>i DEF IInv, Shape, TypeOK
    <3>2. queue[ctl[c].task] = ctl[c].status BY DEF KeepInv, SetInv
    <3>3. queue[ctl[c].task] # Absent BY <3>1, <3>2 DEF CtlRec
    <3> QED BY <2>6, <3>1, <3>2, <3>3
  <2>10. AgainInv' BY <1>o, <2>5 DEF AgainInv, Pushing
  <2> QED BY <2>8, <2>9, <2>10 DEF KeepInv
<1>10. ~DeleteByID(h) /\ ~DeleteByWorkflowName(h)
  BY <1>r DEF DeleteByID, DeleteByWorkflowName, PlainPc
<1> QED BY <1>1, <1>3, <1>4, <1>5, <1>6, <1>7, <1>8, <1>9, <1>10 DEF HandlerStep, RequestStep

\* The step of one controller, or its start, on task t.
LEMMA KeepOwn ==
  ASSUME KeepInv, undecided \subseteq undecided', NEW c \in Ctls, NEW t \in Tasks, req' = req,
         \A d \in Ctls \ {c} : ctl'[d] = ctl[d] /\ Main(d)' = Main(d),
         Alive(c) => ctl[c].task = t, Alive(c)' => ctl'[c].task = t,
         \A u \in Tasks \ {t} : queue'[u] = queue[u] /\ doc'[u] = doc[u],
         KeepTask(t)', ~Left(t) \/ doc'[t] = doc[t],
         \A d \in Ctls : ctl'[d].pc = "end" /\ Main(d)'.pc = "save" =>
           ctl'[d].task \in Tasks /\ (ctl'[d].task = t => queue'[t] = ctl'[d].status)
  PROVE  KeepInv'
<1>1. ASSUME NEW u \in Tasks PROVE KeepTask(u)'
  <2>1. CASE u = t BY <2>1
  <2>2. CASE u # t
    <3>1. KeepTask(u) BY DEF KeepInv
    <3> QED BY <2>2, <3>1, KeepElsewhere
  <2> QED BY <2>1, <2>2
<1>2. SetInv'
  <2> SUFFICES ASSUME NEW d \in Ctls, ctl'[d].pc = "end", Main(d)'.pc = "save"
               PROVE  queue'[ctl'[d].task] = ctl'[d].status
    BY DEF SetInv
  <2>1. CASE ctl'[d].task = t BY <2>1
  <2>2. CASE ctl'[d].task # t
    <3>1. d # c /\ ctl'[d].task \in Tasks BY <2>2
    <3>2. queue[ctl[d].task] = ctl[d].status BY <3>1 DEF KeepInv, SetInv
    <3> QED BY <2>2, <3>1, <3>2
  <2> QED BY <2>1, <2>2
<1>3. AgainInv'
  <2> SUFFICES ASSUME NEW h \in Handlers, NEW u \in Tasks, Pushing(h, u) PROVE ~Dead(doc'[u])
    BY DEF KeepInv, AgainInv, Pushing
  <2>1. Left(u) BY DEF KeepInv, KeepTask, Ending
  <2>2. doc'[u] = doc[u] BY <2>1
  <2> QED BY <2>2 DEF KeepInv, AgainInv
<1> QED BY <1>1, <1>2, <1>3 DEF KeepInv

\* Only waiting entries are removed or dispatched by a sender.
LEMMA KeepSender ==
  ASSUME RetryInv, KeepInv, undecided \subseteq undecided', NEW r \in Replicas, SenderStep(r)
  PROVE  KeepInv'
<1>i. IInv /\ PickInv BY DEF RetryInv, SlotsInv
<1>1. CASE SenderLock(r) \/ SenderList(r) \/ SenderGiveUp(r) \/ SenderFind(r)
  BY <1>1, <1>i, KeepStill DEF SenderLock, SenderList, SenderGiveUp, SenderFind
<1>2. ASSUME NEW t \in Tasks, SenderScan(r, t) PROVE KeepInv'
  <2>1. queue[t] = "waiting" BY <1>2, <1>i DEF SenderScan, IsOldest, PickInv, Chosen
  <2>2. UNCHANGED <<doc, req, ctl, ack>> BY <1>2 DEF SenderScan
  <2>3. \A u \in Tasks : queue'[u] = queue[u] \/ (queue[u] = "waiting" /\ queue'[u] = Absent)
    BY <1>2, <1>i, <2>1 DEF SenderScan, QueueDelete, IInv, TypeOK
  <2> QED BY <1>i, <2>2, <2>3, KeepStill
<1>3. ASSUME NEW c \in Ctls, SenderDispatch(r, c) PROVE KeepInv'
  <2> DEFINE t == sender[r].pick
             new == [FreeCtl EXCEPT !.pc = "subscribe", !.task = t, !.host = r,
                       !.ended = sender[r].seen.ended, !.deleted = sender[r].seen.deleted]
  <2>1. ctl' = [ctl EXCEPT ![c] = new] /\ ctl[c].pc = "free" /\ UNCHANGED <<doc, req>>
    BY <1>3 DEF SenderDispatch
  <2>2. new.pc = "subscribe" /\ new.task = t OBVIOUS
  <2> HIDE DEF new
  <2>3. ctl'[c] = new /\ \A d \in Ctls \ {c} : ctl'[d] = ctl[d] BY <1>i, <2>1 DEF IInv, TypeOK
  <2>4. \A d \in Ctls \ {c} : Main(d)' = Main(d) BY <1>3, <1>i DEF SenderDispatch, Main, IInv, TypeOK
  <2>5. t \in Tasks /\ queue[t] = "waiting"
    BY <1>3, <1>i DEF SenderDispatch, IInv, Shape, PickInv, Chosen
  <2>6. queue'[t] = "queued" /\ \A u \in Tasks \ {t} : queue'[u] = queue[u]
    BY <1>3, <1>i, <2>5 DEF SenderDispatch, QueueUpdate, IInv, TypeOK
  <2>7. Working(c)' BY <2>2, <2>3 DEF Working
  <2> HIDE DEF t
  <2>8. ~Ending(t) BY <2>5 DEF KeepInv, KeepTask, Left
  <2>9. PICK u : u = t OBVIOUS
  <2>10. KeepTask(u)'
    <3>1. ~Ending(u)' BY <2>1, <2>8, <2>9 DEF Ending, Pushing
    <3>2. Worked(u)' BY <2>2, <2>3, <2>7, <2>9 DEF Worked
    <3> QED BY <3>1, <3>2 DEF KeepTask
  <2>11. ASSUME NEW d \in Ctls, ctl'[d].pc = "end", Main(d)'.pc = "save"
         PROVE  ctl'[d].task \in Tasks /\ ctl'[d].task # u
    <3>1. d # c BY <2>2, <2>3, <2>11
    <3>2. ctl[d].pc = "end" /\ Main(d).pc = "save" BY <2>3, <2>4, <2>11, <3>1
    <3>3. queue[ctl[d].task] = ctl[d].status BY <3>2 DEF KeepInv, SetInv
    <3>4. ctl[d] \in CtlRec /\ ctl[d].task \in Tasks BY <1>i, <3>2 DEF IInv, TypeOK, Shape
    <3>5. ctl[d].status # "waiting" BY <3>4 DEF CtlRec
    <3> QED BY <2>3, <2>5, <2>9, <3>1, <3>3, <3>4, <3>5
  <2> QED BY <2>1, <2>2, <2>3, <2>4, <2>5, <2>6, <2>9, <2>10, <2>11, KeepOwn
<1> QED BY <1>1, <1>2, <1>3 DEF SenderStep

\* The steps of Run besides its acks: the task of a controller before its last ack has not ended.
LEMMA KeepRun ==
  ASSUME ~SideAcks, RetryInv, KeepInv, undecided \subseteq undecided', NEW c \in Ctls, CtlStep(c)
  PROVE  KeepInv'
<1>i. IInv /\ AckInv /\ WorkInv /\ Uncancelled BY DEF RetryInv, SlotsInv, EndInv
<1>r. ctl[c] \in CtlRec BY <1>i DEF IInv, TypeOK
<1>u. UNCHANGED <<doc, queue, req>>
  BY DEF CtlStep, Subscribe, StageAck, DebugEvent, ReceiveCancel, FinishStages, FinishRun, CtlExit
<1>a. Alive(c)
  BY DEF CtlStep, Subscribe, StageAck, DebugEvent, ReceiveCancel, FinishStages, FinishRun, CtlExit,
         Uncancelled, RetryInv
<1>t. PICK t \in Tasks : t = ctl[c].task BY <1>a, <1>i DEF IInv, Shape
<1>d. \A d \in Ctls \ {c} : ctl'[d] = ctl[d]
  BY <1>i DEF CtlStep, Subscribe, StageAck, DebugEvent, ReceiveCancel, FinishStages, FinishRun,
              CtlExit, IInv, TypeOK
<1>m. \A d \in Ctls \ {c} : Main(d)' = Main(d)
  <2>1. ack' = ack \/ \E a : ack' = [ack EXCEPT ![<<c, "main">>] = a]
    BY DEF CtlStep, Subscribe, StageAck, DebugEvent, ReceiveCancel, FinishStages, FinishRun, CtlExit
  <2>2. ASSUME NEW a, ack' = [ack EXCEPT ![<<c, "main">>] = a], NEW d \in Ctls \ {c}
        PROVE  ack'[<<d, "main">>] = ack[<<d, "main">>]
    BY <1>i, <2>2 DEF IInv, TypeOK
  <2> QED BY <2>1, <2>2 DEF Main
<1>f. ASSUME NEW new, ctl' = [ctl EXCEPT ![c] = new] PROVE ctl'[c] = new
  BY <1>f, <1>i DEF IInv, TypeOK
<1>g. ASSUME NEW a, ack' = [ack EXCEPT ![<<c, "main">>] = a] PROVE Main(c)' = a
  BY <1>g, <1>i DEF IInv, TypeOK, Main
<1>e. Ending(t)' = Ending(t) BY <1>u DEF Ending, Pushing
<1>s. ASSUME ctl'[c].pc = "end" => Main(c)'.pc # "save", KeepTask(t)', Alive(c)' => ctl'[c].task = t
      PROVE  KeepInv'
  <2>1. ASSUME NEW d \in Ctls, ctl'[d].pc = "end", Main(d)'.pc = "save"
        PROVE  ctl'[d].task \in Tasks /\ (ctl'[d].task = t => queue'[t] = ctl'[d].status)
    <3>1. d # c BY <1>s, <2>1
    <3>2. ctl'[d] = ctl[d] /\ Main(d)' = Main(d) BY <1>d, <1>m, <3>1
    <3>3. ctl[d].task \in Tasks BY <1>i, <2>1, <3>2 DEF IInv, Shape
    <3>4. queue[ctl[d].task] = ctl[d].status BY <2>1, <3>2 DEF KeepInv, SetInv
    <3> QED BY <1>u, <3>2, <3>3, <3>4
  <2> QED BY <1>a, <1>d, <1>m, <1>s, <1>t, <1>u, <2>1, KeepOwn
<1>w. ASSUME ctl[c].pc \in Early, Working(c)', ctl'[c].task = t PROVE KeepTask(t)'
  <2>1. Working(c) BY <1>w DEF Working, Early
  <2>2. ~Ending(t) BY <1>t, <1>w, <2>1 DEF KeepInv, KeepTask, Left, Early
  <2>3. Worked(t)' BY <1>w DEF Worked
  <2> QED BY <1>e, <2>2, <2>3 DEF KeepTask
<1>1. CASE Subscribe(c)
  <2> DEFINE new == [ctl[c] EXCEPT !.pc = "run", !.sub = TRUE]
  <2>1. ctl' = [ctl EXCEPT ![c] = new] /\ ctl[c].pc = "subscribe" BY <1>1 DEF Subscribe
  <2>2. new.pc = "run" /\ new.task = ctl[c].task BY <1>r DEF CtlRec
  <2> HIDE DEF new
  <2>3. ctl'[c].pc = "run" /\ ctl'[c].task = t BY <1>f, <1>t, <2>1, <2>2
  <2>4. Working(c)' BY <2>3 DEF Working
  <2> QED BY <1>s, <1>w, <2>1, <2>3, <2>4 DEF Early
<1>2. CASE StageAck(c)
  <2>1. ctl' = ctl /\ ctl[c].pc = "run" BY <1>2 DEF StageAck
  <2>2. Working(c)' BY <2>1 DEF Working
  <2> QED BY <1>s, <1>t, <1>w, <2>1, <2>2 DEF Early
<1>3. ~DebugEvent(c) /\ ~ReceiveCancel(c) BY <1>i DEF DebugEvent, ReceiveCancel, Uncancelled
<1>4. ASSUME NEW o \in Outcomes, FinishStages(c, o) PROVE KeepInv'
  <2> DEFINE new == [ctl[c] EXCEPT !.pc = "clean", !.status = o]
  <2>1. ctl' = [ctl EXCEPT ![c] = new] /\ ctl[c].pc = "run" BY <1>4 DEF FinishStages
  <2>2. new.pc = "clean" /\ new.task = ctl[c].task BY <1>r DEF CtlRec
  <2> HIDE DEF new
  <2>3. ctl'[c].pc = "clean" /\ ctl'[c].task = t BY <1>f, <1>t, <2>1, <2>2
  <2>4. Working(c)' BY <2>3 DEF Working
  <2> QED BY <1>s, <1>w, <2>1, <2>3, <2>4 DEF Early
<1>5. CASE FinishRun(c)
  <2> DEFINE new == [ctl[c] EXCEPT !.pc = "end", !.ended = TRUE, !.sub = FALSE, !.ctx = TRUE]
             a == [NoAck EXCEPT !.pc = "find"]
  <2>1. /\ ctl' = [ctl EXCEPT ![c] = new] /\ ctl[c].pc = "clean"
        /\ ack' = [ack EXCEPT ![<<c, "main">>] = a]
    BY <1>5 DEF FinishRun
  <2>2. new.pc = "end" /\ new.task = ctl[c].task BY <1>r DEF CtlRec
  <2>3. a.pc = "find" OBVIOUS
  <2> HIDE DEF new, a
  <2>4. ctl'[c].pc = "end" /\ ctl'[c].task = t /\ Main(c)'.pc = "find"
    BY <1>f, <1>g, <1>t, <2>1, <2>2, <2>3
  <2>5. Working(c)' BY <2>4 DEF Working
  <2> QED BY <1>s, <1>w, <2>1, <2>4, <2>5 DEF Early
<1>6. CASE CtlExit(c)
  <2>1. /\ ctl' = [ctl EXCEPT ![c] = FreeCtl] /\ ack' = ack
        /\ ctl[c].pc = "end" /\ Main(c).pc = "none"
    BY <1>6 DEF CtlExit, Quiet, Main
  <2>2. FreeCtl.pc = "free" OBVIOUS
  <2>3. ctl'[c].pc = "free" BY <1>f, <2>1, <2>2
  <2>4. ~Working(c) /\ ~Working(c)' BY <2>1, <2>3 DEF Working
  <2>5. \A d \in Ctls \ {c} : Working(d)' = Working(d) BY <1>d, <1>m DEF Working
  <2>6. Left(t)' = Left(t) BY <1>d, <1>m, <1>u, <2>4, <2>5 DEF Left
  <2>7. Worked(t) => Worked(t)' BY <1>d, <2>4, <2>5 DEF Worked
  <2>8. KeepTask(t)' BY <1>e, <1>u, <2>6, <2>7 DEF KeepInv, KeepTask
  <2> QED BY <1>s, <2>3, <2>8
<1> QED BY <1>1, <1>2, <1>3, <1>4, <1>5, <1>6 DEF CtlStep

\* The acks: none of them meets the document of an end, and the last one removes the entry.
LEMMA KeepAck ==
  ASSUME RetryInv, KeepInv, undecided \subseteq undecided', NEW c \in Ctls, AckStep(c, "main")
  PROVE  KeepInv'
<1>i. IInv /\ WorkInv /\ Uncancelled BY DEF RetryInv, SlotsInv
<1>r. ctl[c] \in CtlRec BY <1>i DEF IInv, TypeOK
<1>n. Main(c) \in AckRec BY <1>i DEF IInv, TypeOK, Main
<1>o. Orderly(c) BY DEF RetryInv, EndInv, AckInv
<1>p. Main(c).pc # "none" BY DEF AckStep, AckFind, AckQueue, AckSave, AckFinish, Main
<1>a. Alive(c) /\ Working(c) BY <1>i, <1>p DEF IInv, Shape, Main, Working
<1>t. PICK t \in Tasks : t = ctl[c].task BY <1>a, <1>i DEF IInv, Shape
<1>q. req' = req BY DEF AckStep, AckFind, AckQueue, AckSave, AckFinish
<1>c. ctl' = ctl
  <2>1. doc[t].status # "cancelled" BY <1>i DEF Uncancelled
  <2>2. AckFind(c, "main") => ctl' = ctl BY <1>i, <1>r, <1>t, <2>1 DEF AckFind, CtlRec, IInv, TypeOK
  <2> QED BY <2>2 DEF AckStep, AckQueue, AckSave, AckFinish
<1>m. \A d \in Ctls \ {c} : Main(d)' = Main(d)
  <2>1. \E a : ack' = [ack EXCEPT ![<<c, "main">>] = a]
    BY DEF AckStep, AckFind, AckQueue, AckSave, AckFinish
  <2>2. ASSUME NEW a, ack' = [ack EXCEPT ![<<c, "main">>] = a], NEW d \in Ctls \ {c}
        PROVE  ack'[<<d, "main">>] = ack[<<d, "main">>]
    BY <1>i, <2>2 DEF IInv, TypeOK
  <2> QED BY <2>1, <2>2 DEF Main
<1>g. ASSUME NEW a, ack' = [ack EXCEPT ![<<c, "main">>] = a] PROVE Main(c)' = a
  BY <1>g, <1>i DEF IInv, TypeOK, Main
<1>w. ASSUME NEW d \in Ctls, Working(d) \/ Working(d)', ctl[d].task = t PROVE d = c
  <2>1. d # c => Working(d) BY <1>c, <1>m, <1>w DEF Working
  <2> QED BY <1>a, <1>i, <1>t, <1>w, <2>1 DEF WorkInv
<1>v. queue[t] \notin {Absent, "waiting"} BY <1>a, <1>i, <1>t DEF WorkInv
<1>l. Main(c).pc # "finish" => ~Left(t) /\ ~Ending(t)
  BY <1>a, <1>t DEF Left, KeepInv, KeepTask
<1>s. ASSUME KeepTask(t)', \A u \in Tasks \ {t} : queue'[u] = queue[u] /\ doc'[u] = doc[u],
             ~Left(t) \/ doc'[t] = doc[t],
             ctl[c].pc = "end" /\ Main(c)'.pc = "save" => queue'[t] = ctl[c].status
      PROVE  KeepInv'
  <2>1. ASSUME NEW d \in Ctls, ctl'[d].pc = "end", Main(d)'.pc = "save"
        PROVE  ctl'[d].task \in Tasks /\ (ctl'[d].task = t => queue'[t] = ctl'[d].status)
    <3>1. Working(d)' /\ ctl[d].pc = "end" BY <1>c, <2>1 DEF Working
    <3>2. ctl[d].task \in Tasks BY <1>i, <3>1 DEF IInv, Shape
    <3>3. ctl[d].task = t => d = c BY <1>w, <3>1
    <3> QED BY <1>c, <1>s, <2>1, <3>2, <3>3
  <2> QED BY <1>a, <1>c, <1>m, <1>q, <1>s, <1>t, <2>1, KeepOwn
<1>e. ASSUME ~Ending(t), Dead(doc'[t]) => Left(t)' PROVE Ending(t)' => Left(t)'
  BY <1>e, <1>q DEF Ending, Pushing
<1>1. CASE AckFind(c, "main")
  <2>1. UNCHANGED <<doc, queue>> /\ Main(c).pc = "find" BY <1>1 DEF AckFind, Main
  <2>2. ~Ending(t) BY <1>l, <2>1
  <2>3. ~Dead(doc[t]) BY <2>2 DEF Ending
  <2>4. doc[t].status \notin AckedStatus BY <2>3 DEF Dead
  <2> DEFINE a == [NoAck EXCEPT !.pc = "queue", !.seen = doc[t]]
  <2>5. ack' = [ack EXCEPT ![<<c, "main">>] = a] BY <1>1, <1>t, <2>4 DEF AckFind
  <2>6. a.pc = "queue" OBVIOUS
  <2> HIDE DEF a
  <2>7. Main(c)'.pc = "queue" BY <1>g, <2>5, <2>6
  <2>8. Worked(t)' BY <1>a, <1>c, <1>t, <2>7 DEF Worked, Working
  <2>9. KeepTask(t)' BY <1>e, <2>1, <2>2, <2>3, <2>8 DEF KeepTask
  <2> QED BY <1>s, <2>1, <2>7, <2>9
<1>2. CASE AckQueue(c, "main")
  <2> DEFINE a == [Main(c) EXCEPT !.pc = "save"]
  <2>1. /\ ack' = [ack EXCEPT ![<<c, "main">>] = a] /\ Main(c).pc = "queue" /\ doc' = doc
        /\ queue' = QueueUpdate(t, ctl[c].status)
    BY <1>2, <1>t DEF AckQueue, Main
  <2>2. a.pc = "save" BY <1>n DEF AckRec
  <2> HIDE DEF a
  <2>3. Main(c)'.pc = "save" BY <1>g, <2>1, <2>2
  <2>4. queue'[t] = ctl[c].status /\ \A u \in Tasks \ {t} : queue'[u] = queue[u]
    BY <1>i, <1>v, <2>1 DEF QueueUpdate, IInv, TypeOK
  <2>5. Worked(t)' BY <1>a, <1>c, <1>t, <2>3 DEF Worked, Working
  <2>6. ~Ending(t) BY <1>l, <2>1
  <2>7. ~Dead(doc'[t]) BY <2>1, <2>6 DEF Ending
  <2>8. KeepTask(t)' BY <1>e, <2>5, <2>6, <2>7 DEF KeepTask
  <2> QED BY <1>s, <2>1, <2>4, <2>8
<1>3. CASE AckSave(c, "main")
  <2> DEFINE seen == Main(c).seen
             d == [status |-> ctl[c].status, ended |-> ctl[c].ended, deleted |-> ctl[c].deleted]
             a == [Main(c) EXCEPT !.pc = "finish",
                     !.note = isFirstComplete(c, seen) \/ isNewRejectOrPause(c, seen)]
  <2>1. /\ ack' = [ack EXCEPT ![<<c, "main">>] = IF ctl[c].status \in DoneStatus THEN a ELSE NoAck]
        /\ Main(c).pc = "save" /\ queue' = queue /\ doc' = [doc EXCEPT ![t] = d]
    BY <1>3, <1>t DEF AckSave, Main
  <2>2. a.pc = "finish" BY <1>n DEF AckRec
  <2>3. d.status = ctl[c].status /\ NoAck.pc = "none" OBVIOUS
  <2> HIDE DEF a, d
  <2>4. Main(c)'.pc = IF ctl[c].status \in DoneStatus THEN "finish" ELSE "none"
    BY <1>g, <2>1, <2>2, <2>3
  <2>5. doc'[t] = d /\ \A u \in Tasks \ {t} : doc'[u] = doc[u] BY <1>i, <2>1 DEF IInv, TypeOK
  <2>6. ~Ending(t) /\ ~Left(t) BY <1>l, <2>1
  <2>7. ctl[c].pc \in {"subscribe", "run", "end"} BY <1>a, <1>o, <1>r, <2>1 DEF Orderly, CtlRec
  <2>8. CASE ctl[c].status \in DoneStatus
    <3>1. ctl[c].status # "cancelled" BY <1>i DEF Uncancelled
    <3>2. ctl[c].pc = "end" BY <1>o, <2>7, <2>8, <3>1 DEF Orderly, DoneStatus
    <3>3. queue[t] = ctl[c].status BY <1>t, <2>1, <3>2 DEF KeepInv, SetInv
    <3>4. queue'[t] \notin {"waiting", "queued", "running"} BY <2>1, <2>8, <3>3 DEF DoneStatus
    <3>5. Left(t)' BY <1>c, <1>w, <2>4, <2>8, <3>2, <3>4 DEF Left
    <3>6. Worked(t)' BY <1>a, <1>c, <1>t, <2>4, <2>8 DEF Worked, Working
    <3>7. KeepTask(t)' BY <3>5, <3>6 DEF KeepTask
    <3> QED BY <1>s, <2>1, <2>4, <2>5, <2>6, <2>8, <3>7
  <2>9. CASE ctl[c].status \notin DoneStatus
    <3>1. ctl[c].status \in {"running", "skipped"} BY <1>r, <2>9 DEF CtlRec, DoneStatus
    <3>2. ~Dead(doc'[t]) BY <2>3, <2>5, <3>1 DEF Dead, AckedStatus
    <3>3. ctl[c].pc = "end" => queue'[t] = "skipped" \/ t \in undecided'
      <4>1. ctl[c].pc = "end" => queue[t] = ctl[c].status BY <1>t, <2>1 DEF KeepInv, SetInv
      <4>2. ctl[c].pc = "end" /\ ctl[c].status = "running" => t \in undecided
        BY <1>t DEF RetryInv, DecidedInv
      <4> QED BY <2>1, <3>1, <4>1, <4>2
    <3>4. ctl[c].pc # "end" => Worked(t)' BY <1>a, <1>c, <1>t DEF Worked, Working
    <3>5. KeepTask(t)' BY <1>e, <2>6, <3>2, <3>3, <3>4 DEF KeepTask
    <3> QED BY <1>s, <2>1, <2>4, <2>5, <2>6, <2>9, <3>5
  <2> QED BY <2>8, <2>9
<1>4. CASE AckFinish(c, "main")
  <2>1. /\ ack' = [ack EXCEPT ![<<c, "main">>] = NoAck] /\ Main(c).pc = "finish" /\ doc' = doc
        /\ queue' = QueueDelete(t)
    BY <1>4, <1>t DEF AckFinish, Main
  <2>2. NoAck.pc = "none" OBVIOUS
  <2>3. Main(c)'.pc = "none" BY <1>g, <2>1, <2>2
  <2>4. queue'[t] = Absent /\ \A u \in Tasks \ {t} : queue'[u] = queue[u]
    BY <1>i, <2>1 DEF QueueDelete, IInv, TypeOK
  <2>5. ctl[c].pc = "end" BY <1>a, <1>i, <1>r, <2>1 DEF WorkInv, Early, CtlRec
  <2>6. ~Working(c)' BY <1>c, <2>3, <2>5 DEF Working
  <2>7. Left(t)' BY <1>c, <1>w, <2>4, <2>6 DEF Left
  <2>8. KeepTask(t)' BY <2>4, <2>7 DEF KeepTask
  <2> QED BY <1>s, <2>1, <2>3, <2>4, <2>8
<1> QED BY <1>1, <1>2, <1>3, <1>4 DEF AckStep

\* The start.
LEMMA KeepInit == Init => KeepInv
<1> SUFFICES ASSUME Init PROVE KeepInv OBVIOUS
<1>1. ASSUME NEW t \in Tasks PROVE KeepTask(t)
  <2>1. queue[t] = Absent /\ \A c \in Ctls : ~Working(c) BY <1>1 DEF Init, Working
  <2> QED BY <2>1 DEF KeepTask, Left
<1>2. SetInv BY DEF Init, SetInv
<1>3. AgainInv BY DEF Init, AgainInv, Pushing
<1> QED BY <1>1, <1>2, <1>3 DEF KeepInv

\* Every step.
LEMMA KeepNext ==
  ASSUME OneRequest, ~SideAcks, NoCancelling, MaxCrashes = 0, RetryInv, KeepInv, [Next]_vars
  PROVE  KeepInv'
<1>1. IInv /\ EndInv /\ Uncancelled BY DEF RetryInv
<1>u. undecided \subseteq undecided' BY UndecidedNext
<1>2. ASSUME UNCHANGED <<doc, queue, req, ctl, ack>> PROVE KeepInv' BY <1>1, <1>2, <1>u, KeepStill
<1>3. ASSUME NEW h \in Handlers, HandlerStep(h) \/ RequestStep(h) PROVE KeepInv'
  BY <1>3, <1>u, KeepRequest
<1>4. ASSUME NEW p \in Procs PROVE ~CancelStep(p)
  <2> SUFFICES ASSUME CancelStep(p) PROVE FALSE OBVIOUS
  <2>1. p \in Replicas BY <1>1, PlainCancel DEF Uncancelled
  <2>2. req[p].pc = "idle" BY <1>1, <2>1 DEF Uncancelled
  <2> QED BY <2>2 DEF CancelStep, CancelRemove, CancelUpdate, CancelPublish, CancelNext
<1>5. ASSUME NEW r \in Replicas, SenderStep(r) \/ ReplicaStep(r) PROVE KeepInv'
  <2>1. SenderStep(r) \/ LockExpire(r) BY <1>1, <1>5, UncancelledReplica
  <2> QED BY <1>2, <1>u, <2>1, KeepSender DEF LockExpire
<1>6. ASSUME NEW c \in Ctls, CtlStep(c) PROVE KeepInv' BY <1>6, <1>u, KeepRun
<1>7. ASSUME NEW c \in Ctls, NEW th \in Threads, AckStep(c, th) PROVE KeepInv'
  <2>1. ack[<<c, "side">>].pc = "none" BY <1>1 DEF EndInv, AckInv, Orderly
  <2>2. th = "main" BY <1>7, <2>1 DEF AckStep, AckFind, AckQueue, AckSave, AckFinish
  <2> QED BY <1>7, <1>u, <2>2, KeepAck
<1> QED BY <1>2, <1>3, <1>4, <1>5, <1>6, <1>7 DEF Next, DeleteTestModule, vars

\* Retries and manual executions that come one at a time leave no queued, running or done entry
\* behind either, but for a task one of whose runs ended with status running: the early return of updateWorkflowTask is never taken by a controller that has
\* yet to remove the entry.
THEOREM NoRetriedOrphan ==
  ASSUME ~LockMayExpire, ~SideAcks, NoCancelling, MaxCrashes = 0, OneRequest
  PROVE  Spec => []NoOrphanEntry
<1>1. Init => RetryInv /\ KeepInv BY RetryInit, KeepInit
<1>2. RetryInv /\ KeepInv /\ [Next]_vars => (RetryInv /\ KeepInv)' BY RetryNext, KeepNext
<1>3. RetryInv /\ KeepInv => NoOrphanEntry
  BY DEF KeepInv, KeepTask, Worked, Working, NoOrphanEntry, Owned
<1> QED BY <1>1, <1>2, <1>3, PTL DEF Spec
=============================================================================
