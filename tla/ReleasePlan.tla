----------------------------- MODULE ReleasePlan -----------------------------
(* A release plan: a document in MongoDB that requests, the watchers and the *)
(* cron service read, change and write back as a whole. Most requests do not *)
(* mind whether they got the plan's redis lock, the lock may expire before   *)
(* the plan is saved, and the callback of an external check takes none: any  *)
(* of them may overwrite what another one has saved since it read the plan.  *)
EXTENDS Integers, FiniteSets, Functions

CONSTANTS
  Jobs,            \* release jobs of the plan
  TextJobs,        \* those that are not workflows
  EditedJobs,      \* those that users edit
  Handlers,        \* requests and watchers in progress at a time
  None,
  ApprovalEnabled,
  Events,          \* hook events with a callback: finish_planning, start_execute, all_job_done
  Scheduled,       \* ScheduleExecuteTime is set
  Windowed,        \* StartTime and EndTime are set
  FirstClock,      \* the plan is created before its window (1) or in it (2)
  Requested,       \* target statuses that requests ask for
  MaxStarts, MaxVersion, MaxReturns, MaxFailures  \* bounds

ASSUME PlanJobAssumption == IsFiniteSet(Jobs) /\ TextJobs \cup EditedJobs \subseteq Jobs /\ None \notin Handlers
ASSUME PlanModeAssumption ==
  /\ {ApprovalEnabled, Scheduled, Windowed} \subseteq BOOLEAN
  /\ FirstClock \in {1, 2}
  /\ Events \subseteq {"finish_planning", "start_execute", "all_job_done"}
ASSUME PlanRequestAssumption == "planning" \notin Requested
ASSUME PlanBoundAssumption ==
  MaxStarts \in Nat /\ MaxVersion \in Nat /\ MaxReturns \in Nat /\ MaxFailures \in Nat

VARIABLES
  plan,      \* MongoDB: the document of the plan
  cron,      \* MongoDB: the plan has a cron job
  tasks,     \* MongoDB: status of the workflow tasks that were started for each job
  lock,      \* redis: holder of release-plan-lock-<id>
  req,       \* requests: what they will save
  cb,        \* the callback in progress: what it will save, None when there is none
  hooks,     \* hooks sent: what a callback answers
  clock,     \* 1 before, 2 in, 3 after the window
  starts, returns, failures,  \* bounded counters
  granted,   \* history: an approver has approved the plan
  passed     \* history: workflow jobs a task of which has passed

vars == <<plan, cron, tasks, lock, req, cb, hooks, clock, starts, returns, failures, granted, passed>>

-----------------------------------------------------------------------------
(* The document.                                                             *)

\* ReleasePlanStatusMap.
StatusMap ==
  [planning        |-> {"finish_planning"},
   finish_planning |-> {"planning", "wait_for_approval", "executing", "wait_finish_check",
                        "wait_execute_check"},
   wait_for_approval |-> {"planning", "executing", "wait_done_check", "cancel"},
   executing       |-> {"planning", "success", "cancel", "wait_execute_check"},
   timeout         |-> {"planning", "cancel"},
   denied          |-> {"planning", "cancel"},
   wait_finish_check  |-> {"finish_planning", "finish_check_failed", "planning", "cancel"},
   wait_execute_check |-> {"executing", "execute_check_failed", "planning", "cancel"},
   wait_done_check    |-> {"success", "done_check_failed", "planning", "cancel"},
   finish_check_failed  |-> {"planning", "cancel"},
   execute_check_failed |-> {"planning", "cancel"},
   done_check_failed    |-> {"planning", "cancel"}]

Statuses == DOMAIN StatusMap \cup {"success", "cancel"}

\* What each hook event makes a plan wait in, and where a failed check leaves it.
WaitStatus == [finish_planning |-> "wait_finish_check", start_execute |-> "wait_execute_check",
               all_job_done |-> "wait_done_check"]
FailedStatus == [finish_planning |-> "finish_check_failed", start_execute |-> "execute_check_failed",
                 all_job_done |-> "done_check_failed"]

WorkflowJobs == Jobs \ TextJobs
TaskIDs == 1..MaxStarts
JobStatuses == {"todo", "running", "done", "skipped", "failed"}
JobDoc == [status : JobStatuses, last : JobStatuses \cup {""}, updated : BOOLEAN,
           task : 0..MaxStarts]
Code == [version : Nat, approval : {"", "passed", "reject"}, jobs : [Jobs -> JobDoc]]
Doc == [status : Statuses, approval : {"", "passed", "reject"}, version : Nat,
        jobs : [Jobs -> JobDoc], code : Code]

\* generateInstanceCode: a digest of the plan without its status and its times.
Coded(d) == [d EXCEPT !.code = [version |-> d.version, approval |-> d.approval, jobs |-> d.jobs]]

\* The status of a new job is empty, which nothing tells from todo.
NewJob == [status |-> "todo", last |-> "", updated |-> FALSE, task |-> 0]

\* waitForExternalCheck: the plan waits for the callback of the event, if there is one.
Checked(d, event) ==
  IF event \in Events THEN [d EXCEPT !.status = WaitStatus[event]] ELSE d

\* Mutant: a failed job does not count as over.
AllDone_nofailed(d) == \A j \in Jobs : d.jobs[j].status \in {"done", "skipped"}

\* checkReleasePlanJobsAllDone.
AllDone(d) == \A j \in Jobs : d.jobs[j].status \in {"done", "skipped", "failed"}

Finished(d) == IF AllDone(d) THEN Checked([d EXCEPT !.status = "success"], "all_job_done") ELSE d

\* setReleaseJobsForExecuting.
SetJobs(d) ==
  [d EXCEPT !.jobs = [j \in Jobs |->
     [d.jobs[j] EXCEPT !.status = IF d.jobs[j].last = "done" /\ ~d.jobs[j].updated
                                  THEN "done" ELSE "todo"]]]

Approved(d) == ApprovalEnabled => d.approval = "passed"

SetJob(d, j, status, task) == [d EXCEPT !.jobs[j].status = status, !.jobs[j].task = task]

InWindow == Windowed => clock = 2

\* upsertReleasePlanCron.
Cron(d) == d.status = "executing" /\ Scheduled

-----------------------------------------------------------------------------
\* A request: what it will save and do then, and the workflow jobs whose tasks it has yet
\* to look at and has found to cancel.
IdleReq == [pc |-> "idle", doc |-> None, then |-> {}, left |-> {}, found |-> {}]

Init ==
  /\ plan = Coded([status |-> "planning", approval |-> "", version |-> 1,
                   jobs |-> [j \in Jobs |-> NewJob],
                   code |-> [version |-> 1, approval |-> "", jobs |-> [j \in Jobs |-> NewJob]]])
  /\ cron = FALSE /\ lock = None /\ cb = None /\ hooks = {} /\ clock = FirstClock
  /\ tasks = [j \in WorkflowJobs |-> [t \in TaskIDs |-> "none"]]
  /\ req = [h \in Handlers |-> IdleReq]
  /\ starts = 0 /\ returns = 0 /\ failures = 0
  /\ granted = FALSE /\ passed = {}

\* A handler takes the plan's lock if it can and reads the plan: when it waits for the
\* lock in vain it goes on all the same.
Take(h, r) ==
  /\ req[h].pc = "idle"
  /\ lock' = IF lock = None THEN h ELSE lock
  /\ req' = [req EXCEPT ![h] = r]
  /\ UNCHANGED <<plan, cb, hooks, clock, failures, passed>>

\* It will save d, then update the cron job or send the hook.
Request(h, d, then) ==
  Take(h, [pc |-> "save", doc |-> d, then |-> then, left |-> {}, found |-> {}])

-----------------------------------------------------------------------------
(* Requests on a plan in planning and on its status.                         *)

\* UpdateReleasePlan, which does not go on without the lock: a job or the approval is
\* edited; an edit of anything else looks like that of an approval nobody has given yet.
UpdateReleasePlan(h) ==
  /\ lock = None /\ plan.status = "planning" /\ plan.version < MaxVersion
  /\ \E d \in {[plan EXCEPT !.jobs[j].updated = TRUE] : j \in EditedJobs}
              \cup {[plan EXCEPT !.approval = ""]} :
       Request(h, Coded([d EXCEPT !.version = @ + 1]), {})
  /\ UNCHANGED <<cron, tasks, starts, returns, granted>>

Replanned(d) ==
  Coded([d EXCEPT !.status = "planning",
                  !.jobs = [j \in Jobs |-> [status |-> "todo", last |-> d.jobs[j].status,
                                            updated |-> FALSE, task |-> d.jobs[j].task]]])

MayBecome(target) ==
  plan.status \in DOMAIN StatusMap /\ target \in StatusMap[plan.status]

\* UpdateReleasePlanStatus, to planning: the jobs start anew, and their tasks are
\* looked up and cancelled one by one before the plan is saved.
BackToPlanning(h) ==
  /\ MayBecome("planning") /\ returns < MaxReturns
  /\ Take(h, [pc |-> "save", doc |-> Replanned(plan), then |-> {"cron"},
              left |-> {j \in WorkflowJobs : plan.jobs[j].task # 0}, found |-> {}])
  /\ returns' = returns + 1
  /\ UNCHANGED <<cron, tasks, starts, granted>>

\* A task that has passed is kept ...
FindTask(h) ==
  /\ req[h].pc = "save" /\ req[h].found = {}
  /\ \E j \in req[h].left :
     /\ \A i \in req[h].left : j <= i
     /\ req' = [req EXCEPT ![h].left = @ \ {j},
                           ![h].found = IF tasks[j][req[h].doc.jobs[j].task] = "passed"
                                        THEN {} ELSE {j}]
  /\ UNCHANGED <<plan, cron, tasks, lock, cb, hooks, clock, starts, returns, failures, granted, passed>>

\* ... any other is written as cancelled, by then maybe over the status it has ended with.
CancelTask(h) ==
  /\ req[h].pc = "save"
  /\ \E j \in req[h].found :
     /\ tasks' = [tasks EXCEPT ![j][req[h].doc.jobs[j].task] =
                    IF @ \in {"running", "revoked"} THEN "revoked" ELSE "failed"]
     /\ req' = [req EXCEPT ![h].doc = Coded(SetJob(@, j, "todo", 0)), ![h].found = {}]
  /\ UNCHANGED <<plan, cron, lock, cb, hooks, clock, starts, returns, failures, granted, passed>>

\* The document for a target status: none when the request is refused.
TargetDoc(target) ==
  CASE target = "finish_planning" -> {Checked([plan EXCEPT !.status = target], "finish_planning")}
    [] target = "executing" ->
         {d \in {SetJobs(Checked([plan EXCEPT !.status = target], "start_execute"))} : Approved(plan)}
    [] target = "wait_for_approval" ->
         IF ApprovalEnabled THEN {[plan EXCEPT !.status = target, !.approval = ""]} ELSE {}
    [] OTHER -> {[plan EXCEPT !.status = target]}

\* UpdateReleasePlanStatus, to any other status: a plan that waits for a check,
\* or whose check failed, is only cancelled.
UpdateReleasePlanStatus(h, target) ==
  /\ target \in Requested /\ MayBecome(target)
  /\ plan.status \in Range(WaitStatus) \cup Range(FailedStatus) => target = "cancel"
  /\ \E d \in TargetDoc(target) :
       Request(h, d, IF target \in {"finish_planning", "executing"} THEN {"cron", "hook"}
                                                                  ELSE {"cron"})
  /\ UNCHANGED <<cron, tasks, starts, returns, granted>>

\* Mutant: whatever an approver decides counts as an approval.
ApproveReleasePlan_any(h, verdict) ==
  /\ plan.status = "wait_for_approval"
  /\ LET d == [plan EXCEPT !.approval = "passed"] IN
     Request(h, SetJobs(Checked([d EXCEPT !.status = "executing"], "start_execute")), {"hook"})
  /\ cron' = Scheduled
  /\ granted' = (granted \/ verdict = "passed")
  /\ UNCHANGED <<tasks, starts, returns>>

\* ApproveReleasePlan and, for Lark, DingTalk and WorkWX, updatePlanApproval: the
\* cron job is put in place before the plan is saved, maybe to wait for a check.
ApproveReleasePlan(h, verdict) ==
  /\ plan.status = "wait_for_approval"
  /\ LET d == [plan EXCEPT !.approval = verdict] IN
     /\ Request(h, IF verdict = "passed"
                   THEN SetJobs(Checked([d EXCEPT !.status = "executing"], "start_execute"))
                   ELSE [d EXCEPT !.status = "denied"], {"hook"})
     /\ cron' = IF verdict = "passed" THEN Scheduled ELSE cron
  /\ granted' = (granted \/ verdict = "passed")
  /\ UNCHANGED <<tasks, starts, returns>>

-----------------------------------------------------------------------------
(* Execution.                                                                *)

\* WorkflowReleaseJobExecutor: CreateWorkflowTaskV4.
CreateTask(j) ==
  /\ starts < MaxStarts
  /\ starts' = starts + 1
  /\ tasks' = [tasks EXCEPT ![j][starts + 1] = "running"]

MayExecute(d, j) ==
  d.jobs[j].status \in (IF j \in TextJobs THEN {"todo"} ELSE {"todo", "failed"})

ExecuteReleaseJob(h, j) ==
  /\ plan.status = "executing" /\ InWindow /\ MayExecute(plan, j)
  /\ \/ /\ j \in TextJobs
        /\ Request(h, Finished(SetJob(plan, j, "done", 0)), {"hook"})
        /\ UNCHANGED <<tasks, starts>>
     \/ /\ j \in WorkflowJobs
        /\ CreateTask(j)
        /\ Request(h, SetJob(plan, j, "running", starts + 1), {})
  /\ UNCHANGED <<cron, returns, granted>>

\* RetryReleaseJob, of a plan that is over too: RetryWorkflowTaskV4.
RetryReleaseJob(h, j) ==
  /\ plan.status \in {"executing", "success"} /\ InWindow
  /\ j \in WorkflowJobs /\ plan.jobs[j].status = "failed" /\ plan.jobs[j].task # 0
  /\ tasks[j][plan.jobs[j].task] \in {"failed", "revoked"}
  /\ starts < MaxStarts /\ starts' = starts + 1
  /\ tasks' = [tasks EXCEPT ![j][plan.jobs[j].task] = "running"]
  /\ Request(h, [SetJob(plan, j, "running", plan.jobs[j].task) EXCEPT !.status = "executing"],
             {})
  /\ UNCHANGED <<cron, returns, granted>>

\* ExecuteReleaseJob and RetryReleaseJob after the end of the window.
ReleaseWindowMissed(h) ==
  /\ plan.status \in {"executing", "success"} /\ Windowed /\ clock = 3
  /\ Request(h, [plan EXCEPT !.status = "timeout"], {})
  /\ UNCHANGED <<cron, tasks, starts, returns, granted>>

SkipReleaseJob(h, j) ==
  /\ plan.status = "executing" /\ InWindow /\ plan.jobs[j].status = "todo"
  /\ Request(h, Finished([plan EXCEPT !.jobs[j].status = "skipped"]), {"hook"})
  /\ UNCHANGED <<cron, tasks, starts, returns, granted>>

\* ScheduleExecuteReleasePlan: the cron job is deleted first, whatever follows ...
ScheduleExecute(h) ==
  /\ req[h].pc = "idle" /\ cron
  /\ cron' = FALSE
  /\ IF plan.status = "executing" /\ InWindow /\ Approved(plan)
     THEN Take(h, [pc |-> "schedule", doc |-> plan, then |-> {}, left |-> {}, found |-> {}])
     ELSE UNCHANGED <<plan, lock, req, cb, hooks, clock, failures, passed>>
  /\ UNCHANGED <<tasks, starts, returns, granted>>

ToSchedule(d) == {j \in WorkflowJobs : d.jobs[j].status \in {"todo", "failed"}}

Unlock(h) ==
  /\ lock' = IF lock = h THEN None ELSE lock
  /\ req' = [req EXCEPT ![h] = IdleReq]

\* The task has passed when CancelWorkflowTask reads it again: nothing is saved.
CancelRefused(h) ==
  /\ req[h].pc = "save"
  /\ \E j \in req[h].found : tasks[j][req[h].doc.jobs[j].task] = "passed"
  /\ Unlock(h)
  /\ UNCHANGED <<plan, cron, tasks, cb, hooks, clock, starts, returns, failures, granted, passed>>

\* ... and the workflows are started one by one, the plan saved after each.
ScheduleJob(h) ==
  /\ req[h].pc = "schedule"
  /\ \/ /\ ToSchedule(req[h].doc) = {} \/ starts = MaxStarts
        /\ Unlock(h)
        /\ UNCHANGED <<tasks, starts>>
     \/ \E j \in ToSchedule(req[h].doc) :
        /\ \A i \in ToSchedule(req[h].doc) : j <= i
        /\ CreateTask(j)
        /\ req' = [req EXCEPT ![h].pc = "scheduled", ![h].doc = SetJob(@, j, "running", starts + 1)]
        /\ UNCHANGED lock
  /\ UNCHANGED <<plan, cron, cb, hooks, clock, returns, failures, granted, passed>>

-----------------------------------------------------------------------------
(* updatePlanWorkflowReleaseJob: the outcome of the tasks reaches the plan.   *)

\* The watcher knows failed, timeout, cancelled and reject, and passed: a job whose task
\* is skipped or paused, or has no status of its own, goes on as running.
Ended(d, j) ==
  /\ j \in WorkflowJobs /\ d.jobs[j].status = "running" /\ d.jobs[j].task # 0
  /\ tasks[j][d.jobs[j].task] \in {"passed", "failed", "revoked"}

\* Mutant: the job takes the status of its task.
Observed_raw(d) ==
  [d EXCEPT !.jobs = [j \in Jobs |->
     IF Ended(d, j) THEN [d.jobs[j] EXCEPT !.status = tasks[j][d.jobs[j].task]] ELSE d.jobs[j]]]

\* Mutant: a job is done when its task is over.
Observed_over(d) ==
  [d EXCEPT !.jobs = [j \in Jobs |->
     IF Ended(d, j) THEN [d.jobs[j] EXCEPT !.status = "done"] ELSE d.jobs[j]]]

Observed(d) ==
  [d EXCEPT !.jobs = [j \in Jobs |->
     IF Ended(d, j)
     THEN [d.jobs[j] EXCEPT !.status =
             IF tasks[j][d.jobs[j].task] = "passed" THEN "done" ELSE "failed"]
     ELSE d.jobs[j]]]

\* The end of the window overrides the success of the plan.
Watched(d) ==
  LET seen == Observed(d)
      over == (\E j \in WorkflowJobs : Ended(d, j)) /\ AllDone(seen) IN
  IF Windowed /\ clock = 3 THEN [seen EXCEPT !.status = "timeout"]
  ELSE IF over THEN Checked([seen EXCEPT !.status = "success"], "all_job_done") ELSE seen

\* It only works with the lock, and sends the hook of the end even if the save fails.
WatchExecutingWorkflow(h) ==
  /\ lock = None /\ plan.status = "executing" /\ Watched(plan) # plan
  /\ Request(h, Watched(plan), {"hook", "anyway"})
  /\ UNCHANGED <<cron, tasks, starts, returns, granted>>

-----------------------------------------------------------------------------
(* UpdateByID, the hook and the cron job.                                    *)

\* sendReleasePlanHook, where a callback is expected.
Hook(d) ==
  {[code |-> d.code, event |-> e] : e \in {x \in Events : WaitStatus[x] = d.status}}

Save(h) ==
  /\ req[h].pc \in {"save", "scheduled"} /\ req[h].left = {} /\ req[h].found = {}
  /\ plan' = req[h].doc
  /\ cron' = IF "cron" \in req[h].then THEN Cron(req[h].doc) ELSE cron
  /\ hooks' = hooks \cup (IF "hook" \in req[h].then THEN Hook(req[h].doc) ELSE {})
  /\ IF req[h].pc = "save" THEN Unlock(h)
     ELSE req' = [req EXCEPT ![h].pc = "schedule"] /\ UNCHANGED lock
  /\ UNCHANGED <<tasks, cb, clock, starts, returns, failures, granted, passed>>

\* A call on the way fails, the database refuses the document, or the replica dies and
\* leaves the lock behind.
SaveFails(h) ==
  /\ req[h].pc # "idle" /\ failures < MaxFailures
  /\ failures' = failures + 1
  /\ \/ /\ Unlock(h)
        /\ hooks' = hooks \cup (IF "anyway" \in req[h].then THEN Hook(req[h].doc) ELSE {})
     \/ req' = [req EXCEPT ![h] = IdleReq] /\ UNCHANGED <<lock, hooks>>
  /\ UNCHANGED <<plan, cron, tasks, cb, clock, starts, returns, granted, passed>>

\* The lock expires after eight seconds, maybe before its holder is done.
LockExpires ==
  /\ lock # None
  /\ lock' = None
  /\ UNCHANGED <<plan, cron, tasks, req, cb, hooks, clock, starts, returns, failures, granted, passed>>

-----------------------------------------------------------------------------
(* ReleasePlanHookCallback: reads and writes the plan without its lock.      *)

\* Mutant: a plan goes on to its execution whether or not it asks for an approval.
NextDoc_straight(d, event) ==
  CASE event \in {"finish_planning", "start_execute"} -> {SetJobs([d EXCEPT !.status = "executing"])}
    [] event = "all_job_done" -> {[d EXCEPT !.status = "success"]}

\* The document after a check that succeeded: none when the approval is missing.
NextDoc(d, event) ==
  CASE event = "finish_planning" ->
         {IF ApprovalEnabled THEN [d EXCEPT !.status = "finish_planning"]
          ELSE SetJobs([d EXCEPT !.status = "executing"])}
    [] event = "start_execute" ->
         {x \in {SetJobs([d EXCEPT !.status = "executing"])} : Approved(d)}
    [] event = "all_job_done" -> {[d EXCEPT !.status = "success"]}

CallbackDoc(d, event, result) ==
  CASE result = "success" -> NextDoc(d, event)
    [] result = "failed" -> {[d EXCEPT !.status = FailedStatus[event]]}
    [] result = "executing" -> {d}

\* A callback is for this content of the plan, and the plan waits for it.
Callback(m) == m.code = plan.code /\ plan.status = WaitStatus[m.event]

HookCallback(m, result) ==
  /\ cb = None
  /\ Callback(m)
  /\ \E d \in CallbackDoc(plan, m.event, result) : cb' = d
  /\ UNCHANGED <<plan, cron, tasks, lock, req, hooks, clock, starts, returns, failures, granted, passed>>

SaveCallback ==
  /\ cb # None
  /\ plan' = cb /\ cron' = Cron(cb)
  /\ cb' = None
  /\ UNCHANGED <<tasks, lock, req, hooks, clock, starts, returns, failures, granted, passed>>

-----------------------------------------------------------------------------
(* The workflow tasks. A revoked task reads as cancelled while its controller *)
(* is alive; a resting one is skipped, paused, or left without a status of    *)
(* its own; a failed one has failed, timed out, or been rejected or cancelled. *)

\* A workflow task comes to its end, a cancelled one too, whatever the end.
TaskEnds(j, t) ==
  /\ tasks[j][t] \in {"running", "revoked"}
  /\ \E s \in {"passed", "failed", "resting"} :
       /\ tasks' = [tasks EXCEPT ![j][t] = s]
       /\ passed' = IF s = "passed" THEN passed \cup {j} ELSE passed
  /\ UNCHANGED <<plan, cron, lock, req, cb, hooks, clock, starts, returns, failures, granted>>

\* An ack of the controller writes running over the cancellation.
TaskAcks(j, t) ==
  /\ tasks[j][t] = "revoked"
  /\ tasks' = [tasks EXCEPT ![j][t] = "running"]
  /\ UNCHANGED <<plan, cron, lock, req, cb, hooks, clock, starts, returns, failures, granted, passed>>

\* A user retries or manually executes the task on the page of its workflow.
TaskResumes(j, t) ==
  /\ tasks[j][t] \in {"failed", "resting"} /\ starts < MaxStarts
  /\ starts' = starts + 1
  /\ tasks' = [tasks EXCEPT ![j][t] = "running"]
  /\ UNCHANGED <<plan, cron, lock, req, cb, hooks, clock, returns, failures, granted, passed>>

Tick ==
  /\ Windowed /\ clock < 3
  /\ clock' = clock + 1
  /\ UNCHANGED <<plan, cron, tasks, lock, req, cb, hooks, starts, returns, failures, granted, passed>>

Step(h) == Save(h) \/ ScheduleJob(h) \/ FindTask(h) \/ CancelTask(h)

Next ==
  \/ \E h \in Handlers :
       \/ UpdateReleasePlan(h) \/ BackToPlanning(h) \/ CancelRefused(h)
       \/ \E s \in Statuses : UpdateReleasePlanStatus(h, s)
       \/ \E v \in {"passed", "reject"} : ApproveReleasePlan(h, v)
       \/ \E j \in Jobs : ExecuteReleaseJob(h, j) \/ RetryReleaseJob(h, j) \/ SkipReleaseJob(h, j)
       \/ ReleaseWindowMissed(h) \/ ScheduleExecute(h) \/ WatchExecutingWorkflow(h)
       \/ Step(h) \/ SaveFails(h)
  \/ \E m \in hooks, r \in {"success", "failed", "executing"} : HookCallback(m, r)
  \/ SaveCallback \/ LockExpires \/ Tick
  \/ \E j \in WorkflowJobs, t \in TaskIDs : TaskEnds(j, t) \/ TaskAcks(j, t) \/ TaskResumes(j, t)

Spec == Init /\ [][Next]_vars

\* Requests complete, the watcher comes back every three seconds, workflows end, and a
\* lock that nobody releases expires.
Fairness ==
  /\ \A h \in Handlers : WF_vars(Step(h)) /\ WF_vars(WatchExecutingWorkflow(h))
  /\ \A j \in WorkflowJobs, t \in TaskIDs : WF_vars(TaskEnds(j, t))
  /\ WF_vars(LockExpires)

FairSpec == Spec /\ Fairness

-----------------------------------------------------------------------------
TaskTable ==
  [WorkflowJobs -> [TaskIDs -> {"none", "running", "revoked", "passed", "failed", "resting"}]]
ReqDoc == [pc : {"idle", "save", "schedule", "scheduled"}, doc : Doc \cup {None},
           then : SUBSET {"cron", "hook", "anyway"},
           left : SUBSET WorkflowJobs, found : SUBSET WorkflowJobs]

TypeOK ==
  /\ plan \in Doc
  /\ cron \in BOOLEAN
  /\ tasks \in TaskTable
  /\ lock \in Handlers \cup {None}
  /\ req \in [Handlers -> ReqDoc]
  /\ \A h \in Handlers : req[h].pc # "idle" => req[h].doc \in Doc
  /\ cb \in {None} \cup Doc
  /\ hooks \subseteq [code : Code, event : Events]
  /\ clock \in 1..3 /\ starts \in 0..MaxStarts /\ returns \in 0..MaxReturns
  /\ failures \in 0..MaxFailures /\ granted \in BOOLEAN /\ passed \subseteq WorkflowJobs

\* A plan executes, and its workflows run, only with the approval it asks for: no
\* request, callback, watcher or cron job gets round it, in whatever order they
\* overwrite each other's document (UpdateReleasePlanStatus, ReleasePlanHookCallback,
\* ScheduleExecuteReleasePlan, ApproveReleasePlan).
NothingBeforeApproval ==
  plan.status = "executing" \/ (\E j \in Jobs : plan.jobs[j].status = "running")
    => Approved(plan)

\* A workflow job of the plan is done only when a task that was started for it has
\* passed, through retries, cancellations that come too late, returns to planning, and
\* saves that fail or overwrite each other (updatePlanWorkflowReleaseJob,
\* setReleaseJobsForExecuting).
DoneMeansPassed == \A j \in WorkflowJobs : plan.jobs[j].status = "done" => j \in passed

\* All jobs of the plan are started or over, and nobody is about to overwrite it with
\* what it was before.
Underway ==
  /\ plan.status = "executing"
  /\ \A j \in Jobs : plan.jobs[j].status # "todo"
  /\ \E j \in Jobs : plan.jobs[j].status = "running"
  /\ cb = None /\ \A h \in Handlers : req[h].pc = "idle"

\* The watcher makes nothing of what the task of a running job has come to.
Unresolved ==
  \E j \in WorkflowJobs : /\ plan.jobs[j].status = "running" /\ plan.jobs[j].task # 0
                          /\ tasks[j][plan.jobs[j].task] = "resting"

\* A plan that is underway does not stay executing: the watcher takes the end of the last
\* workflow to the plan, whatever saves fail and locks are left behind on the way, unless
\* a workflow is skipped or paused or ends without a status (WatchExecutingWorkflow).
PlanSettles == Underway ~> plan.status # "executing" \/ Unresolved

Lifecycle ==
  INSTANCE ReleasePlanLifecycle WITH
    Jobs <- WorkflowJobs,
    granted <- (ApprovalEnabled => granted),
    begun <- {t \in WorkflowJobs \X TaskIDs : tasks[t[1]][t[2]] # "none"},
    shown <- {j \in WorkflowJobs : plan.jobs[j].status = "done"}

\* The plan implements ReleasePlanLifecycle: it starts no workflow before an approver has
\* approved it, and shows no workflow as done that has not passed, although its requests,
\* watchers, callbacks and cron job decide on documents others have replaced meanwhile.
Implements == Lifecycle!Spec

\* A job done before a return to planning, and not edited since, is remembered as done
\* (LastStatus).
DoneRemembered ==
  [][\A j \in Jobs : plan.jobs[j].last = "done" /\ ~plan.jobs[j].updated
       => plan'.jobs[j].last = "done" \/ plan'.jobs[j].updated]_vars

-----------------------------------------------------------------------------
(* The inductive invariant behind NothingBeforeApproval. It holds of every   *)
(* document, saved or about to be saved.                                     *)

\* Statuses in which the approval may be missing or be asked for anew.
Early == {"planning", "finish_planning", "wait_finish_check", "finish_check_failed",
          "wait_for_approval", "denied"}

Started(d) == \E j \in Jobs : d.jobs[j].status \in {"running", "failed"}

\* What has started is approved, and nothing has started before.
DocInv(d) ==
  /\ d.status = "executing" \/ Started(d) => Approved(d)
  /\ d.status \in Early => ~Started(d)

IInv ==
  /\ TypeOK
  /\ DocInv(plan)
  /\ \A h \in Handlers :
       /\ req[h].pc # "idle" => DocInv(req[h].doc)
       /\ req[h].pc \in {"schedule", "scheduled"} => req[h].doc.status = "executing"
  /\ cb # None => DocInv(cb)
=============================================================================
