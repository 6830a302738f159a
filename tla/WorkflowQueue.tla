--------------------------- MODULE WorkflowQueue ---------------------------
(* The life of workflow tasks in aslan's workflow controller: the documents *)
(* of the workflow_task collection, the workflow_queue collection, the      *)
(* sender loop that every replica runs under one redis lock, the controller *)
(* goroutine started for every dispatched task, the API requests that       *)
(* create, cancel, retry and manually execute tasks, and the restart of a   *)
(* replica.  Every MongoDB or redis call is a step of its own: nothing in   *)
(* the code makes two of them atomic.                                       *)
EXTENDS Integers, FiniteSets

CONSTANTS
  Tasks,               \* task numbers; the order of the numbers is create_time
  Workflows,           \* workflow names
  WorkflowOf,          \* [Tasks -> Workflows]
  TypeOf,              \* [Workflows -> TaskTypes]
  LimitOf,             \* [Workflows -> Int], ConcurrencyLimit (-1: none)
  WorkflowConcurrency, \* system setting: tasks queued or running at a time
  Replicas,            \* aslan processes
  Handlers,            \* API requests in progress at a time
  HostOf,              \* [Handlers -> Replicas]
  Ctls,                \* controllers alive at a time
  Outcomes,            \* what updateworkflowStatus may compute for the tasks
  None,
  SideAcks,            \* debug events may make the event goroutine ack
  LockMayExpire,       \* a sender may outlive the expiry of its redis lock
  MayDelete,           \* workflow definitions may be deleted
  MaxCancels, MaxResubmits, MaxTouches, MaxCrashes  \* bounds on requests, crashes

EndStatus == {"passed", "failed", "timeout", "cancelled", "reject", "pause", "skipped"}
TaskTypes == {"workflow", "test", "scan", "delivery"}

ASSUME TaskAssumption == Tasks \subseteq Nat /\ IsFiniteSet(Tasks)
ASSUME WorkflowAssumption ==
  /\ WorkflowOf \in [Tasks -> Workflows]
  /\ TypeOf \in [Workflows -> TaskTypes]
  /\ LimitOf \in [Workflows -> Int]
ASSUME ConcurrencyAssumption == WorkflowConcurrency \in Nat
ASSUME ProcessAssumption ==
  /\ HostOf \in [Handlers -> Replicas]
  /\ Handlers \cap Replicas = {}
  /\ None \notin Tasks \cup Replicas \cup Workflows
\* running, when no stage has a status that updateworkflowStatus knows.
ASSUME OutcomeAssumption == Outcomes \subseteq EndStatus \cup {"running"}
ASSUME SwitchAssumption ==
  /\ SideAcks \in BOOLEAN /\ LockMayExpire \in BOOLEAN /\ MayDelete \in BOOLEAN
  /\ MaxCancels \in Nat /\ MaxResubmits \in Nat
  /\ MaxTouches \in Nat /\ MaxCrashes \in Nat

VARIABLES
  doc,      \* workflow_task: status, whether EndTime is set, is_deleted
  queue,    \* workflow_queue: the entry's status, "absent" when there is none
  defs,     \* workflows whose definition (or test, or scan) exists
  lock,     \* holder of redis lock "workflow-task-sender"
  sender,   \* WorfklowTaskSender of each replica
  rep,      \* each replica is down, booting (InitQueue) or up
  req,      \* API requests, and InitQueue of a replica that starts
  ctl,      \* workflow controllers
  ack,      \* updateWorkflowTask calls of the controllers' goroutines
  notified, \* terminal notifications sent for each task
  resub,    \* tasks that were retried or manually executed
  undecided,\* tasks one of whose runs ended with a status that says nothing
  used      \* requests and crashes so far

vars == <<doc, queue, defs, lock, sender, rep, req, ctl, ack, notified, resub, undecided, used>>

-----------------------------------------------------------------------------
Threads == {"main", "side"}
Procs == Handlers \cup Replicas
Host(p) == IF p \in Replicas THEN p ELSE HostOf[p]

Absent == "absent"
TaskStatus == EndStatus \cup {"waiting", "running"}
NoDoc == [status |-> "none", ended |-> FALSE, deleted |-> FALSE]
Doc == [status : TaskStatus \cup {"none"}, ended : BOOLEAN, deleted : BOOLEAN]

\* Mutants: a restart that forgets the tasks still waiting, and acks that do not
\* clean up after a passed or a paused task.
InCompletedStatus_running == {"running"}
DoneStatus_nopassed == {"failed", "timeout", "cancelled", "reject", "pause"}
DoneStatus_nopause == {"passed", "failed", "timeout", "cancelled", "reject"}

InCompletedStatus == {"running", "waiting", "queued"}
RetryableStatus == {"failed", "timeout", "cancelled", "reject"}
AckedStatus == {"passed", "failed", "timeout", "reject"}
DoneStatus == {"passed", "failed", "timeout", "cancelled", "reject", "pause"}
Finished(status) == status \in {"passed", "failed", "timeout", "cancelled"}

IsOldest(t, S) == t \in S /\ \A u \in S : t <= u

IdleSender == [pc |-> "idle", todo |-> {}, pick |-> None, seen |-> NoDoc]
IdleReq == [pc |-> "idle", task |-> None, seen |-> NoDoc, todo |-> {}, wf |-> None]
FreeCtl == [pc |-> "free", task |-> None, host |-> None, status |-> "running",
            ended |-> FALSE, deleted |-> FALSE,
            sub |-> FALSE, sig |-> FALSE, ctx |-> FALSE]
NoAck == [pc |-> "none", seen |-> NoDoc, note |-> FALSE]

Init ==
  /\ doc = [t \in Tasks |-> NoDoc]
  /\ queue = [t \in Tasks |-> Absent]
  /\ defs = Workflows
  /\ lock = None
  /\ sender = [r \in Replicas |-> IdleSender]
  /\ rep = [r \in Replicas |-> "up"]
  /\ req = [p \in Procs |-> IdleReq]
  /\ ctl = [c \in Ctls |-> FreeCtl]
  /\ ack = [a \in Ctls \X Threads |-> NoAck]
  /\ notified = [t \in Tasks |-> 0]
  /\ resub = {}
  /\ undecided = {}
  /\ used = [cancels |-> 0, resubmits |-> 0, touches |-> 0, crashes |-> 0]

-----------------------------------------------------------------------------
(* The collections' operations.                                             *)

\* Mutants: an update that does not set the status, a delete that matches
\* nothing, an entry without status, an entry that is not created.
QueueUpdate_nostatus(t, status) == queue
QueueDelete_nomatch(t) == queue
QueueCreate_lost(t) == queue
QueueCreate_nostatus(t) == [queue EXCEPT ![t] = IF @ = Absent THEN "" ELSE @]

\* WorkflowQueueColl.Update: UpdateOne without upsert, no match is no error.
QueueUpdate(t, status) ==
  [queue EXCEPT ![t] = IF @ = Absent THEN Absent ELSE status]

QueueDelete(t) == [queue EXCEPT ![t] = Absent]

\* WorkflowQueueColl.Create under the unique index: a duplicate is refused.
QueueCreate(t) == [queue EXCEPT ![t] = IF @ = Absent THEN "waiting" ELSE @]

Occupied == {t \in Tasks : queue[t] \in {"running", "queued"}}

-----------------------------------------------------------------------------
(* API requests.  A request runs on one replica and stops with it.          *)

Ready(h) == req[h].pc = "idle" /\ rep[HostOf[h]] = "up"

\* CreateWorkflowTaskV4 up to the insertion of the document.  The definition was
\* read some time before: it may have been deleted since.
CreateTask(h, t) ==
  /\ Ready(h)
  /\ doc[t] = NoDoc
  /\ \A u \in Tasks : u < t => doc[u] # NoDoc
  /\ doc' = [doc EXCEPT ![t] = [NoDoc EXCEPT !.status = "waiting"]]
  /\ req' = [req EXCEPT ![h] = [IdleReq EXCEPT !.pc = "push", !.task = t]]
  /\ UNCHANGED <<queue, defs, lock, sender, rep, ctl, ack, notified, resub, undecided, used>>

\* Push, the last call of CreateTask and of UpdateTask.
Push(h) ==
  /\ req[h].pc = "push"
  /\ queue' = QueueCreate(req[h].task)
  /\ req' = [req EXCEPT ![h] = IdleReq]
  /\ UNCHANGED <<doc, defs, lock, sender, rep, ctl, ack, notified, resub, undecided, used>>

\* A request that reads a task and goes on at pc with what it read.
Found(h, t, pc) == [req EXCEPT ![h] = [IdleReq EXCEPT !.pc = pc, !.task = t, !.seen = doc[t]]]

Resubmit(h, t) ==
  /\ Ready(h)
  /\ used.resubmits < MaxResubmits
  /\ req' = Found(h, t, "update")
  /\ used' = [used EXCEPT !.resubmits = @ + 1]
  /\ UNCHANGED <<doc, queue, defs, lock, sender, rep, ctl, ack, notified, resub, undecided>>

\* The retry of a task and the manual execution of a paused stage read and check
\* the task, prepare it at length ...
RetryWorkflowTaskV4(h, t) == doc[t].status \in RetryableStatus /\ Resubmit(h, t)

ManualExecWorkflowTaskV4(h, t) == doc[t].status = "pause" /\ Resubmit(h, t)

\* ... and UpdateTask writes it back, whatever happened to it since.
ResubmitUpdate(h) ==
  LET t == req[h].task IN
  /\ req[h].pc = "update"
  /\ doc' = [doc EXCEPT ![t] = [NoDoc EXCEPT !.status = "waiting", !.deleted = req[h].seen.deleted]]
  /\ resub' = resub \cup {t}
  /\ req' = [req EXCEPT ![h] = [@ EXCEPT !.pc = "push"]]
  /\ UNCHANGED <<queue, defs, lock, sender, rep, ctl, ack, notified, undecided, used>>

\* UpdateWorkflowV4TaskRemark and RevertWorkflowTaskV4Job read the task ...
TouchFind(h, t) ==
  /\ Ready(h)
  /\ used.touches < MaxTouches
  /\ doc[t] # NoDoc
  /\ req' = Found(h, t, "touch")
  /\ used' = [used EXCEPT !.touches = @ + 1]
  /\ UNCHANGED <<doc, queue, defs, lock, sender, rep, ctl, ack, notified, resub, undecided>>

\* ... and write the whole document back with a new remark or the revert mark.
TouchUpdate(h) ==
  /\ req[h].pc = "touch"
  /\ doc' = [doc EXCEPT ![req[h].task] = req[h].seen]
  /\ req' = [req EXCEPT ![h] = IdleReq]
  /\ UNCHANGED <<queue, defs, lock, sender, rep, ctl, ack, notified, resub, undecided, used>>

\* CancelWorkflowTask: Find ...
CancelFind(h, t) ==
  /\ Ready(h)
  /\ used.cancels < MaxCancels
  /\ doc[t] # NoDoc
  /\ req' = Found(h, t, "remove")
  /\ used' = [used EXCEPT !.cancels = @ + 1]
  /\ UNCHANGED <<doc, queue, defs, lock, sender, rep, ctl, ack, notified, resub, undecided>>

\* The cancellations of InitQueue and of DeleteWorkflowV4 are made in a loop.
Looping(p) == p \in Replicas \/ req[p].wf # None
CancelReturn(p) == IF Looping(p)
                   THEN [IdleReq EXCEPT !.pc = "loop", !.todo = req[p].todo, !.wf = req[p].wf]
                   ELSE IdleReq

\* ... Remove, before the status is looked at ...
CancelRemove(p) ==
  /\ req[p].pc = "remove"
  /\ queue' = QueueDelete(req[p].task)
  /\ req' = [req EXCEPT ![p] = IF req[p].seen.status = "passed" THEN CancelReturn(p)
                               ELSE [@ EXCEPT !.pc = "save"]]
  /\ UNCHANGED <<doc, defs, lock, sender, rep, ctl, ack, notified, resub, undecided, used>>

\* ... Update, of the whole document as it was found ...
CancelUpdate(p) ==
  /\ req[p].pc = "save"
  /\ doc' = [doc EXCEPT ![req[p].task] = [req[p].seen EXCEPT !.status = "cancelled"]]
  /\ req' = [req EXCEPT ![p] = [@ EXCEPT !.pc = "publish"]]
  /\ UNCHANGED <<queue, defs, lock, sender, rep, ctl, ack, notified, resub, undecided, used>>

\* ... and Publish, which reaches the controllers subscribed at this moment.
CancelPublish(p) ==
  /\ req[p].pc = "publish"
  /\ ctl' = [c \in Ctls |->
               IF ctl[c].task = req[p].task /\ ctl[c].sub
               THEN [ctl[c] EXCEPT !.sig = TRUE] ELSE ctl[c]]
  /\ req' = [req EXCEPT ![p] = CancelReturn(p)]
  /\ UNCHANGED <<doc, queue, defs, lock, sender, rep, ack, notified, resub, undecided, used>>

\* The next CancelWorkflowTask of a loop, up to its Find.
CancelNext(p, t) ==
  /\ req[p].pc = "loop" /\ IsOldest(t, req[p].todo)
  /\ req' = [req EXCEPT ![p] = [@ EXCEPT !.pc = "remove", !.task = t, !.seen = doc[t],
                                         !.todo = req[p].todo \ {t}]]
  /\ UNCHANGED <<doc, queue, defs, lock, sender, rep, ctl, ack, notified, resub, undecided, used>>

\* DeleteWorkflowV4 lists the entries of the workflow, cancels their tasks ...
DeleteWorkflowV4(h, w) ==
  /\ Ready(h) /\ MayDelete
  /\ TypeOf[w] = "workflow" /\ w \in defs
  /\ req' = [req EXCEPT ![h] = [IdleReq EXCEPT !.pc = "loop", !.wf = w,
               !.todo = {t \in Tasks : WorkflowOf[t] = w /\ queue[t] # Absent}]]
  /\ UNCHANGED <<doc, queue, defs, lock, sender, rep, ctl, ack, notified, resub, undecided, used>>

\* ... deletes the definition, unless another request was faster ...
DeleteByID(h) ==
  /\ req[h].pc = "loop" /\ req[h].todo = {}
  /\ req' = [req EXCEPT ![h] = IF req[h].wf \in defs THEN [@ EXCEPT !.pc = "archive"]
                               ELSE IdleReq]
  /\ defs' = defs \ {req[h].wf}
  /\ UNCHANGED <<doc, queue, lock, sender, rep, ctl, ack, notified, resub, undecided, used>>

\* ... and marks the documents of its tasks deleted.
DeleteByWorkflowName(h) ==
  /\ req[h].pc = "archive"
  /\ doc' = [t \in Tasks |-> IF WorkflowOf[t] = req[h].wf /\ doc[t] # NoDoc
                             THEN [doc[t] EXCEPT !.deleted = TRUE] ELSE doc[t]]
  /\ req' = [req EXCEPT ![h] = IdleReq]
  /\ UNCHANGED <<queue, defs, lock, sender, rep, ctl, ack, notified, resub, undecided, used>>

\* DeleteTestModule and DeleteScanningModuleByID do not look at this queue.
DeleteTestModule(w) ==
  /\ MayDelete /\ TypeOf[w] \in {"test", "scan"} /\ w \in defs
  /\ defs' = defs \ {w}
  /\ UNCHANGED <<doc, queue, lock, sender, rep, req, ctl, ack, notified, resub, undecided, used>>

-----------------------------------------------------------------------------
(* WorfklowTaskSender.                                                      *)

\* mutex.Unlock deletes the key only when it still holds this sender's value.
Unlocked(r) == IF lock = r THEN None ELSE lock

\* Mutant: one task too many.
hasAgentAvaiable_offbyone == Cardinality(Occupied) <= WorkflowConcurrency

hasAgentAvaiable == Cardinality(Occupied) < WorkflowConcurrency

\* TryLock and hasAgentAvaiable; without a free agent the lock is given back.
SenderLock(r) ==
  /\ rep[r] = "up" /\ sender[r].pc = "idle"
  /\ lock = None
  /\ hasAgentAvaiable
  /\ lock' = r
  /\ sender' = [sender EXCEPT ![r] = [@ EXCEPT !.pc = "list"]]
  /\ UNCHANGED <<doc, queue, defs, rep, req, ctl, ack, notified, resub, undecided, used>>

\* WaitingTasks.
SenderList(r) ==
  LET waiting == {t \in Tasks : queue[t] = "waiting"} IN
  /\ sender[r].pc = "list"
  /\ IF waiting = {}
     THEN /\ sender' = [sender EXCEPT ![r] = IdleSender]
          /\ lock' = Unlocked(r)
     ELSE /\ sender' = [sender EXCEPT ![r] = [@ EXCEPT !.pc = "scan", !.todo = waiting]]
          /\ UNCHANGED lock
  /\ UNCHANGED <<doc, queue, defs, rep, req, ctl, ack, notified, resub, undecided, used>>

\* Mutant: 0 is not taken as "no limit" for tests and scans.
EffectiveLimit_raw(w) == IF TypeOf[w] = "delivery" THEN -1 ELSE LimitOf[w]

\* ConcurrencyLimit as the loop normalises it for each type of task.
EffectiveLimit(w) ==
  CASE TypeOf[w] = "workflow" -> LimitOf[w]
    [] TypeOf[w] = "delivery" -> -1
    [] OTHER -> IF LimitOf[w] = 0 THEN -1 ELSE LimitOf[w]

RunningWorkflowTasks(w) ==
  {t \in Tasks : WorkflowOf[t] = w /\ queue[t] = "running"}

\* WaitForApproveWorkflowTasks adds the entries of a status no task ever has.
MayRun(t) ==
  LET w == WorkflowOf[t] IN
  \/ EffectiveLimit(w) = -1
  \/ Cardinality(RunningWorkflowTasks(w)) < EffectiveLimit(w)

Undefined(t) == WorkflowOf[t] \notin defs /\ TypeOf[WorkflowOf[t]] # "delivery"

\* One round of the loop over the waiting tasks, oldest first.
SenderScan(r, t) ==
  /\ sender[r].pc = "scan" /\ IsOldest(t, sender[r].todo)
  /\ queue' = IF Undefined(t) THEN QueueDelete(t) ELSE queue
  /\ sender' = [sender EXCEPT ![r] =
                  IF ~Undefined(t) /\ MayRun(t)
                  THEN [@ EXCEPT !.pc = "find", !.pick = t, !.todo = {}]
                  ELSE [@ EXCEPT !.todo = sender[r].todo \ {t}]]
  /\ UNCHANGED <<doc, defs, lock, rep, req, ctl, ack, notified, resub, undecided, used>>

\* No task to run.
SenderGiveUp(r) ==
  /\ sender[r].pc = "scan" /\ sender[r].todo = {}
  /\ sender' = [sender EXCEPT ![r] = IdleSender]
  /\ lock' = Unlocked(r)
  /\ UNCHANGED <<doc, queue, defs, rep, req, ctl, ack, notified, resub, undecided, used>>

\* updateQueueAndRunTask: Find ...
SenderFind(r) ==
  /\ sender[r].pc = "find"
  /\ sender' = [sender EXCEPT ![r] =
                  [@ EXCEPT !.pc = "dispatch", !.seen = doc[sender[r].pick]]]
  /\ UNCHANGED <<doc, queue, defs, lock, rep, req, ctl, ack, notified, resub, undecided, used>>

\* ... UpdateQueue, and the controller starts: Run sets the status to running
\* and makes its first ack.
SenderDispatch(r, c) ==
  LET t == sender[r].pick IN
  /\ sender[r].pc = "dispatch" /\ ctl[c].pc = "free"
  /\ queue' = QueueUpdate(t, "queued")
  /\ ctl' = [ctl EXCEPT ![c] = [FreeCtl EXCEPT !.pc = "subscribe", !.task = t,
                                  !.host = r, !.ended = sender[r].seen.ended,
                                  !.deleted = sender[r].seen.deleted]]
  /\ ack' = [ack EXCEPT ![<<c, "main">>] = [NoAck EXCEPT !.pc = "find"]]
  /\ sender' = [sender EXCEPT ![r] = IdleSender]
  /\ lock' = Unlocked(r)
  /\ UNCHANGED <<doc, defs, rep, req, notified, resub, undecided, used>>

\* The redis key expires: after its holder crashed, or while it is at work.
LockExpire(r) ==
  /\ lock = r
  /\ LockMayExpire \/ sender[r].pc = "idle"
  /\ lock' = None
  /\ UNCHANGED <<doc, queue, defs, sender, rep, req, ctl, ack, notified, resub, undecided, used>>

-----------------------------------------------------------------------------
(* updateWorkflowTask (ack), called by the controller's own goroutine       *)
(* ("main") and by the one that handles debug events ("side").  Both write  *)
(* the one WorkflowTask in memory, ctl[c].                                  *)

AckFind(c, th) ==
  LET d == doc[ctl[c].task] IN
  /\ ack[<<c, th>>].pc = "find"
  /\ IF d.status \in AckedStatus
     THEN /\ ack' = [ack EXCEPT ![<<c, th>>] = NoAck]
          /\ UNCHANGED ctl
     ELSE /\ ack' = [ack EXCEPT ![<<c, th>>] = [NoAck EXCEPT !.pc = "queue", !.seen = d]]
          /\ ctl' = [ctl EXCEPT ![c].status =
                       IF d.status = "cancelled" THEN "cancelled" ELSE @]
  /\ UNCHANGED <<doc, queue, defs, lock, sender, rep, req, notified, resub, undecided, used>>

AckQueue(c, th) ==
  /\ ack[<<c, th>>].pc = "queue"
  /\ queue' = QueueUpdate(ctl[c].task, ctl[c].status)
  /\ ack' = [ack EXCEPT ![<<c, th>>] = [@ EXCEPT !.pc = "save"]]
  /\ UNCHANGED <<doc, defs, lock, sender, rep, req, ctl, notified, resub, undecided, used>>

\* Mutants: every ack of a finished task completes it; a negation is lost.
isFirstComplete_always(c, seen) == Finished(ctl[c].status)
isFirstComplete_later(c, seen) == Finished(ctl[c].status) /\ seen.ended /\ ctl[c].ended

isFirstComplete(c, seen) == Finished(ctl[c].status) /\ ~seen.ended /\ ctl[c].ended

isNewRejectOrPause(c, seen) ==
  ctl[c].status \in {"reject", "pause"} /\ ctl[c].status # seen.status

AckSave(c, th) ==
  LET seen == ack[<<c, th>>].seen IN
  /\ ack[<<c, th>>].pc = "save"
  /\ doc' = [doc EXCEPT ![ctl[c].task] = 
               [status |-> ctl[c].status, ended |-> ctl[c].ended, deleted |-> ctl[c].deleted]]
  /\ ack' = [ack EXCEPT ![<<c, th>>] =
               IF ctl[c].status \in DoneStatus
               THEN [@ EXCEPT !.pc = "finish",
                              !.note = isFirstComplete(c, seen) \/ isNewRejectOrPause(c, seen)]
               ELSE NoAck]
  /\ UNCHANGED <<queue, defs, lock, sender, rep, req, ctl, notified, resub, undecided, used>>

\* The notifications, and the removal of the queue entry.
AckFinish(c, th) ==
  /\ ack[<<c, th>>].pc = "finish"
  /\ notified' = [notified EXCEPT ![ctl[c].task] = IF ack[<<c, th>>].note THEN @ + 1 ELSE @]
  /\ queue' = QueueDelete(ctl[c].task)
  /\ ack' = [ack EXCEPT ![<<c, th>>] = NoAck]
  /\ UNCHANGED <<doc, defs, lock, sender, rep, req, ctl, resub, undecided, used>>

-----------------------------------------------------------------------------
(* workflowCtl.Run after its first ack.                                     *)

Quiet(c, th) == ack[<<c, th>>].pc = "none"

Subscribe(c) ==
  /\ ctl[c].pc = "subscribe" /\ Quiet(c, "main")
  /\ ctl' = [ctl EXCEPT ![c] = [@ EXCEPT !.pc = "run", !.sub = TRUE]]
  /\ UNCHANGED <<doc, queue, defs, lock, sender, rep, req, ack, notified, resub, undecided, used>>

\* RunStages acks whenever a stage or a job changes.
StageAck(c) ==
  /\ ctl[c].pc = "run" /\ Quiet(c, "main")
  /\ ack' = [ack EXCEPT ![<<c, "main">>] = [NoAck EXCEPT !.pc = "find"]]
  /\ UNCHANGED <<doc, queue, defs, lock, sender, rep, req, ctl, notified, resub, undecided, used>>

\* A debug event: its handler ends with an ack.
DebugEvent(c) ==
  /\ SideAcks
  /\ ctl[c].sub /\ ~ctl[c].ctx /\ Quiet(c, "side")
  /\ ack' = [ack EXCEPT ![<<c, "side">>] = [NoAck EXCEPT !.pc = "find"]]
  /\ UNCHANGED <<doc, queue, defs, lock, sender, rep, req, ctl, notified, resub, undecided, used>>

\* The event goroutine takes the cancel message and cancels the context.
ReceiveCancel(c) ==
  /\ ctl[c].sub /\ ctl[c].sig /\ ~ctl[c].ctx /\ Quiet(c, "side")
  /\ ctl' = [ctl EXCEPT ![c].ctx = TRUE]
  /\ UNCHANGED <<doc, queue, defs, lock, sender, rep, req, ack, notified, resub, undecided, used>>

\* RunStages returns and updateworkflowStatus sets the status of the task.
FinishStages(c, outcome) ==
  /\ ctl[c].pc = "run" /\ Quiet(c, "main")
  /\ ctl' = [ctl EXCEPT ![c] = [@ EXCEPT !.pc = "clean", !.status = outcome]]
  /\ undecided' = IF outcome = "running" THEN undecided \cup {ctl[c].task} ELSE undecided
  /\ UNCHANGED <<doc, queue, defs, lock, sender, rep, req, ack, notified, resub, used>>

\* The deferred calls: CleanWorkflowJobs, close of the subscriptions, cancel,
\* EndTime and the last ack.
FinishRun(c) ==
  /\ ctl[c].pc = "clean"
  /\ ctl' = [ctl EXCEPT ![c] = [@ EXCEPT !.pc = "end", !.ended = TRUE,
                                         !.sub = FALSE, !.ctx = TRUE]]
  /\ ack' = [ack EXCEPT ![<<c, "main">>] = [NoAck EXCEPT !.pc = "find"]]
  /\ UNCHANGED <<doc, queue, defs, lock, sender, rep, req, notified, resub, undecided, used>>

CtlExit(c) ==
  /\ ctl[c].pc = "end" /\ Quiet(c, "main") /\ Quiet(c, "side")
  /\ ctl' = [ctl EXCEPT ![c] = FreeCtl]
  /\ UNCHANGED <<doc, queue, defs, lock, sender, rep, req, ack, notified, resub, undecided, used>>

-----------------------------------------------------------------------------
(* A replica crashes with its sender, requests and controllers; when it     *)
(* starts again, InitQueue cancels every task that is not completed.        *)

Crash(r) ==
  /\ rep[r] # "down" /\ used.crashes < MaxCrashes
  /\ rep' = [rep EXCEPT ![r] = "down"]
  /\ sender' = [sender EXCEPT ![r] = IdleSender]
  /\ req' = [p \in Procs |-> IF Host(p) = r THEN IdleReq ELSE req[p]]
  /\ ctl' = [c \in Ctls |-> IF ctl[c].host = r THEN FreeCtl ELSE ctl[c]]
  /\ ack' = [a \in Ctls \X Threads |-> IF ctl[a[1]].host = r THEN NoAck ELSE ack[a]]
  /\ used' = [used EXCEPT !.crashes = @ + 1]
  /\ UNCHANGED <<doc, queue, defs, lock, notified, resub, undecided>>

\* InitQueue starts with InCompletedTasks, and cancels them in a loop.
Restart(r) ==
  /\ rep[r] = "down"
  /\ rep' = [rep EXCEPT ![r] = "booting"]
  /\ req' = [req EXCEPT ![r] = [IdleReq EXCEPT !.pc = "loop",
               !.todo = {t \in Tasks : doc[t].status \in InCompletedStatus /\ ~doc[t].deleted}]]
  /\ UNCHANGED <<doc, queue, defs, lock, sender, ctl, ack, notified, resub, undecided, used>>

\* InitWorkflowController returns: the sender runs and requests are served.
BootDone(r) ==
  /\ rep[r] = "booting" /\ req[r].pc = "loop" /\ req[r].todo = {}
  /\ rep' = [rep EXCEPT ![r] = "up"]
  /\ req' = [req EXCEPT ![r] = IdleReq]
  /\ UNCHANGED <<doc, queue, defs, lock, sender, ctl, ack, notified, resub, undecided, used>>

-----------------------------------------------------------------------------
HandlerStep(h) ==
  \/ \E t \in Tasks : CreateTask(h, t) \/ CancelFind(h, t) \/ TouchFind(h, t)
  \/ \E t \in Tasks : RetryWorkflowTaskV4(h, t) \/ ManualExecWorkflowTaskV4(h, t)
  \/ \E w \in Workflows : DeleteWorkflowV4(h, w)

\* What a request still has to do once it is under way.
RequestStep(h) ==
  Push(h) \/ ResubmitUpdate(h) \/ TouchUpdate(h) \/ DeleteByID(h) \/ DeleteByWorkflowName(h)

CancelStep(p) ==
  CancelRemove(p) \/ CancelUpdate(p) \/ CancelPublish(p) \/ \E t \in Tasks : CancelNext(p, t)

SenderStep(r) ==
  \/ SenderLock(r) \/ SenderList(r) \/ SenderGiveUp(r) \/ SenderFind(r)
  \/ \E t \in Tasks : SenderScan(r, t)
  \/ \E c \in Ctls : SenderDispatch(r, c)

AckStep(c, th) == AckFind(c, th) \/ AckQueue(c, th) \/ AckSave(c, th) \/ AckFinish(c, th)

CtlStep(c) ==
  \/ Subscribe(c) \/ StageAck(c) \/ DebugEvent(c) \/ ReceiveCancel(c)
  \/ \E o \in Outcomes : FinishStages(c, o)
  \/ FinishRun(c) \/ CtlExit(c)

BootStep(r) == Restart(r) \/ BootDone(r)

ReplicaStep(r) == LockExpire(r) \/ Crash(r) \/ BootStep(r)

Next ==
  \/ \E h \in Handlers : HandlerStep(h) \/ RequestStep(h)
  \/ \E p \in Procs : CancelStep(p)
  \/ \E w \in Workflows : DeleteTestModule(w)
  \/ \E r \in Replicas : SenderStep(r) \/ ReplicaStep(r)
  \/ \E c \in Ctls : CtlStep(c) \/ \E th \in Threads : AckStep(c, th)

Spec == Init /\ [][Next]_vars

\* Goroutines that were started run, redis keys expire and a crashed replica is
\* restarted.  Stages end although they may ack in between, hence SF there.
Fairness ==
  /\ \A h \in Handlers : WF_vars(RequestStep(h))
  /\ \A p \in Procs : WF_vars(CancelStep(p))
  /\ \A r \in Replicas :
       /\ WF_vars(SenderStep(r))
       /\ WF_vars(lock = r /\ sender[r].pc = "idle" /\ LockExpire(r))
       /\ WF_vars(BootStep(r))
  /\ \A c \in Ctls :
       /\ \A th \in Threads : WF_vars(AckStep(c, th))
       /\ WF_vars(Subscribe(c)) /\ WF_vars(ReceiveCancel(c))
       /\ SF_vars(\E o \in Outcomes : FinishStages(c, o))
       /\ WF_vars(FinishRun(c)) /\ WF_vars(CtlExit(c))

FairSpec == Spec /\ Fairness

-----------------------------------------------------------------------------
(* Properties.                                                              *)

SenderRec == [pc : {"idle", "list", "scan", "find", "dispatch"},
              todo : SUBSET Tasks, pick : Tasks \cup {None}, seen : Doc]
ReqRec == [pc : {"idle", "push", "update", "touch", "remove", "save", "publish", "loop", "archive"},
           task : Tasks \cup {None}, seen : Doc,
           todo : SUBSET Tasks, wf : Workflows \cup {None}]
CtlRec == [pc : {"free", "subscribe", "run", "clean", "end"},
           task : Tasks \cup {None}, host : Replicas \cup {None},
           status : EndStatus \cup {"running"}, ended : BOOLEAN, deleted : BOOLEAN,
           sub : BOOLEAN, sig : BOOLEAN, ctx : BOOLEAN]
AckRec == [pc : {"none", "find", "queue", "save", "finish"}, seen : Doc, note : BOOLEAN]
Counters == [cancels : Nat, resubmits : Nat, touches : Nat, crashes : Nat]

\* The collections hold the statuses the code writes, and every process is at
\* one of its steps.
TypeOK ==
  /\ doc \in [Tasks -> Doc]
  /\ queue \in [Tasks -> TaskStatus \cup {Absent, "queued"}]
  /\ defs \subseteq Workflows
  /\ lock \in Replicas \cup {None}
  /\ sender \in [Replicas -> SenderRec]
  /\ rep \in [Replicas -> {"down", "booting", "up"}]
  /\ req \in [Procs -> ReqRec]
  /\ ctl \in [Ctls -> CtlRec]
  /\ ack \in [Ctls \X Threads -> AckRec]
  /\ notified \in [Tasks -> Nat]
  /\ resub \subseteq Tasks
  /\ undecided \subseteq Tasks
  /\ used \in Counters

Alive(c) == ctl[c].pc # "free"

\* hasAgentAvaiable is checked some calls before the entry becomes queued, by
\* one of several replicas: still, the tasks that occupy a slot and were never
\* resubmitted stay within the system's WorkflowConcurrency.
RunningBound == Cardinality(Occupied \ resub) <= WorkflowConcurrency

\* The same for all tasks, when no cancellation comes between: retries and
\* manual executions wait for a slot like a new task.
SlotBound == Cardinality(Occupied) <= WorkflowConcurrency

\* updateQueueAndRunTask starts at most one controller for a task that was never
\* resubmitted, however senders, cancellations and restarts interleave.
SingleController ==
  \A c, d \in Ctls :
    Alive(c) /\ Alive(d) /\ ctl[c].task = ctl[d].task /\ ctl[c].task \notin resub => c = d

AllUp == \A r \in Replicas : rep[r] = "up"
Owned(t) == \E c \in Ctls : Alive(c) /\ ctl[c].task = t

\* A queued or running entry takes a slot from every other task: once all
\* replicas are up, a live controller will give it back, but for an entry whose run
\* ended with status running, which the last ack takes for a run that goes on. After
\* one crash: a task cancelled by a restart before it is pushed is not listed by the
\* next restart.
SlotHasOwner == AllUp => \A t \in Occupied \ undecided : Owned(t)

\* updateWorkflowTask and CancelWorkflowTask leave no entry behind: without a
\* live controller an entry is waiting, or skipped (which no ack removes), or its run
\* ended with status running (which no ack removes either).
NoOrphanEntry ==
  \A t \in Tasks \ undecided : queue[t] \notin {Absent, "waiting", "skipped"} => Owned(t)

Waits(t) == doc[t].status = "waiting" /\ ~doc[t].deleted

\* A waiting task is never forgotten: its entry is in the queue, or a request, a
\* sender or a controller still has it in hand.
NoStranded ==
  \A t \in Tasks : Waits(t) /\ queue[t] = Absent =>
    \/ Owned(t)
    \/ \E p \in Procs : req[p].task = t
    \/ \E r \in Replicas : t = sender[r].pick

\* "notify only on the first completion" (updateWorkflowTask): a task that was
\* never resubmitted is announced at most once.
NotifiedOnce == \A t \in Tasks \ resub : notified[t] <= 1

\* A controller does not exit with a done status unless the task was announced.
CompletionAnnounced ==
  [][\A c \in Ctls : Alive(c) /\ ~Alive(c)' /\ ctl[c].status \in DoneStatus
       => notified[ctl[c].task] >= 1]_vars

\* updateWorkflowTask: "never let workflow status leave cancelled".  Only a
\* resubmission may.
CancelledIsFinal ==
  [][\A t \in Tasks : doc[t].status = "cancelled" /\ doc'[t].status # "cancelled"
       => \E h \in Handlers : ResubmitUpdate(h) /\ req[h].task = t]_vars

Settled(t) == doc[t].status \in EndStatus

\* A run that ended with status running keeps the slot of its task, and counts against the
\* limit of its workflow: a task may wait behind it for ever.
Held(t) ==
  \/ Cardinality(Occupied \cap undecided) >= WorkflowConcurrency
  \/ \E u \in undecided : WorkflowOf[u] = WorkflowOf[t]

\* Every task that waits is eventually completed, cancelled or paused, as long as its
\* definition exists, unless runs that ended with status running hold it up.
WaitingSettles ==
  \A t \in Tasks : doc[t].status = "waiting" ~> (Settled(t) \/ Undefined(t) \/ Held(t))

\* Entries of a deleted workflow, test or scan leave the queue, also those pushed after
\* DeleteWorkflowV4 listed it. Only the entry of a task that ended skipped stays, since no
\* ack and no sender removes it, and those that runs ended with status running hold up.
DeletedDrains ==
  \A t \in Tasks :
    (queue[t] # Absent /\ Undefined(t)) ~> (queue[t] \in {Absent, "skipped"} \/ Held(t))

-----------------------------------------------------------------------------
(* The inductive invariants behind SingleController (IInv) and behind       *)
(* RunningBound (SInv, on top of it) when the sender's lock does not expire *)
(* while it is held.  They speak of the tasks that were never resubmitted:  *)
(* their entry is created once, and once a controller has it the entry is   *)
(* never waiting again.                                                     *)

\* The records of idle processes are empty, those of the others name a task.
Shape ==
  /\ \A p \in Procs : req[p].pc \notin {"idle", "loop", "archive"} => req[p].task \in Tasks
  /\ \A r \in Replicas :
       /\ sender[r].pc \in {"idle", "list"} => sender[r].todo = {} /\ sender[r].pick = None
       /\ sender[r].pc \in {"find", "dispatch"} => sender[r].pick \in Tasks
  /\ \A c \in Ctls : Alive(c) => ctl[c].task \in Tasks /\ ctl[c].host \in Replicas
  /\ \A c \in Ctls : ctl[c].sub => Alive(c)
  /\ \A c \in Ctls, th \in Threads : ack[<<c, th>>].pc # "none" => Alive(c)

\* Only the holder of the lock is inside the sender's loop.
LockInv == \A r \in Replicas : sender[r].pc # "idle" => lock = r

\* A request writes back only documents it has found.
TouchInv == \A p \in Procs : req[p].pc = "touch" => req[p].seen # NoDoc

Pushing(p, t) == req[p].pc = "push" /\ req[p].task = t
Chosen(r, t) == t \in sender[r].todo \/ sender[r].pick = t

\* A task without a document is nowhere.
DocInv ==
  \A t \in Tasks : doc[t] = NoDoc =>
    /\ queue[t] = Absent /\ ~Owned(t)
    /\ \A p \in Procs : ~Pushing(p, t)
    /\ \A r \in Replicas : ~Chosen(r, t)

\* While a fresh task is being pushed nothing else knows it.
PushInv ==
  \A p \in Procs, t \in Tasks \ resub : Pushing(p, t) =>
    /\ queue[t] = Absent /\ ~Owned(t)
    /\ \A q \in Procs : Pushing(q, t) => q = p
    /\ \A r \in Replicas : ~Chosen(r, t)

\* A fresh task the sender has in hand still waits, or was removed meanwhile.
ChosenInv ==
  \A r \in Replicas, t \in Tasks \ resub :
    Chosen(r, t) => queue[t] \in {"waiting", Absent} /\ ~Owned(t)

\* A fresh task with a controller does not wait.
OwnedInv ==
  \A c \in Ctls : Alive(c) /\ ctl[c].task \notin resub => queue[ctl[c].task] # "waiting"

IInv ==
  /\ TypeOK /\ Shape /\ LockInv /\ TouchInv /\ DocInv /\ PushInv /\ ChosenInv /\ OwnedInv
  /\ SingleController

\* An ack that writes status running gives the entry of a fresh task no slot it did not
\* have.
KeepsSlot(c) == queue[ctl[c].task] \in {Absent, "queued", "running"}
RunInv ==
  \A c \in Ctls :
    Alive(c) /\ ctl[c].task \notin resub /\ ctl[c].status = "running" => KeepsSlot(c)

\* Without debug events only the controller's own goroutine acks. Until its stages end the
\* entry loses its slot only to an ack that goes on to remove it, so that a run which ends
\* with status running takes no slot back.
BusyInv ==
  SideAcks \/ \A c \in Ctls :
    /\ Quiet(c, "side")
    /\ ctl[c].pc \in {"subscribe", "run"} =>
         /\ ctl[c].status \in {"running", "cancelled"}
         /\ ctl[c].task \notin resub /\ ack[<<c, "main">>].pc \notin {"save", "finish"}
              => KeepsSlot(c)

\* The sender that passed hasAgentAvaiable still has a slot to give.
SlotInv ==
  \A r \in Replicas : sender[r].pc # "idle" =>
    Cardinality(Occupied \ resub) < WorkflowConcurrency

SInv == RunInv /\ BusyInv /\ SlotInv /\ RunningBound
=============================================================================
