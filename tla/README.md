# Verification of zadig's workflow engine, release plans, VM jobs and timers

zadig is a CI/CD platform. Its core is the workflow engine inside the `aslan`
service: API requests turn a workflow definition into a *workflow task*, a queue
in MongoDB holds the tasks that wait, every replica of aslan runs a *sender*
that takes tasks from the queue, and a *controller* goroutine takes each task
through its stages and jobs. Requests to cancel, retry, approve or delete come at
any moment and on any replica. Around the engine, *release plans* start workflow
tasks once they are approved, *VM agents* on customers' machines poll the server for
jobs, and the *cron service* starts workflows and tests on time. Nothing but a few redis locks and MongoDB's single-document updates orders these
processes, so the questions worth asking are about
interleavings, stale reads, crashes and lost messages: exactly what unit tests do
not reach. This directory models that core in TLA+, checks it with TLC and
proves the central safety results with TLAPS.

All paths below are relative to `src/`; `WC/` stands for
`pkg/microservice/aslan/core/common/service/workflowcontroller/`, and `aslan/`
for `pkg/microservice/aslan/`.

## 1. Inventory

### Parts with a protocol of their own

| Part | State it keeps | Operations | Hard behaviour | Correct when |
|---|---|---|---|---|
| Task queue and dispatch (`WC/queue.go`, collections `workflow_queue`, `workflow_task`) | one document and at most one queue entry per task; a redis lock | `CreateTask`, `UpdateTask`, `Push`, `Remove`, `InitQueue`, `WorfklowTaskSender`, `updateQueueAndRunTask` | a sender per replica; count of slots and use of a slot are several calls apart; whole-document writes | slots are never exceeded, a task has one controller, no entry or task is forgotten |
| Workflow controller (`WC/workflow.go`) | the task in memory, a redis subscription, a context | `Run`, `updateWorkflowTask` (ack), `CancelWorkflowTask`, debug events | acks of two goroutines, cancellation over pub/sub, restart | cancelled stays cancelled, passed stays passed, the end is announced once, the entry leaves the queue |
| Stages and jobs (`WC/stage.go`, `stage_custom.go`, `jobcontroller/job.go`, `manual_error_handling.go`) | status of stages and jobs, the `jobNotifier`, decisions in redis | `RunStages`, `RunJobs`, `Pool`, `runJob`, `retryJob`, `waitForManualErrorHandling`, `updateStageStatus`, `updateworkflowStatus` | parallel jobs, error policies, cancellation and retries between any two steps | order of stages and jobs, completed jobs are not run again, passed means done, one report per group |
| Native approval (`aslan/core/common/service/approval/approval.go`, `jobcontroller/job_approval.go`) | the approval in redis, a redis lock | `SetApproval`, `IsApproval`, `doApproval`, `DeleteApproval` | concurrent approvers, expiry, deletion racing with a late decision | no acknowledged decision is lost, the outcome follows from decisions, sufficient decisions end the wait |
| Requests on tasks (`aslan/core/workflow/service/workflow/workflow_task_v4.go`, `workflow_v4.go`, `workflow_manual_exec_openapi.go`, `aslan/core/common/service/testing.go`) | none of their own | create, retry, manual execution, cancel, remark, revert, deletion of workflows and tests, decision about a failed job | they read, prepare at length and write the whole document | they respect what the controller does meanwhile |
| Release plans (`aslan/core/release_plan/service/`: `release_plan.go`, `execute.go`, `retry.go`, `skip.go`, `update.go`, `watcher.go`, `lock.go`) | a plan document with a status, an approval, jobs and the digest of its content; a cron job; a redis lock per plan | edits, status changes, approval, execution, retry and skip of jobs, scheduled execution, the watcher, external checks and their callbacks | callbacks write without the lock, the lock's errors are ignored, tasks start before the plan is saved, a save may fail | nothing runs before the approval, done means passed, a plan underway comes to its end |
| VM agents and their jobs (`aslan/core/vm/service/vm.go`, `jobcontroller/job_freestyle.go`, `pkg/cli/zadig-agent/`) | jobs in `vm_job`, the job getter of each replica, the job in the agent | create, poll, execute, report, cancel, time out, complete | several pollers on several replicas, whole-document writes, lost requests and answers, an agent that dies | a verdict is one an agent reached, a finished job is not offered, no agent takes a job twice, the wait ends |
| Cron service (`pkg/microservice/cron/`, `aslan/core/cron/`) | timers in memory; the collections `cronjob` and `msg_queue_common` | edits of timers by requests on aslan, messages handled in batches, disabling through aslan, initialization | messages deleted before they are handled, batches given up at an error, a restart that reads two lists while users go on | each timer is what its user asked for last, and a restart restores it |

How they interact: requests write `workflow_task` and `workflow_queue`; the sender
reads the queue and starts controllers in its own process; a controller writes the
task and its entry with every ack and hears of cancellations through the redis
channel of its task; the stage and job layer runs inside the controller's goroutine and calls ack;
an approval job inside that layer polls redis, where approval requests write. A
freestyle job inside it may run on a virtual machine: its controller writes `vm_job` and
polls it, and so do agents through the API. A release plan creates, retries and cancels
workflow tasks and reads their status; users may cancel and retry these tasks behind its back. The cron service learns of edits through messages in
MongoDB that aslan writes after the documents, and calls aslan when a timer fires.

### Parts not modelled

Approvals in Lark, DingTalk and WorkWX (their state is kept outside zadig), the
job controllers other than that of VM jobs (each drives Kubernetes, Helm, Jenkins or another
external system; `StageRun` models their `Run` by its outcomes), webhooks, notifications (when they
are sent is modelled, not what), environments, delivery versions, collaboration
modes, sprints, the hub server and agent, the job executor and the reaper, users and
permissions, picket, pod terminals and the upgrade assistant. `PROJECT.json` lists
each with its sources and reason. The common reasons: sequential data
transformation, or a thin layer over an external system whose behaviour is not
in this repository.

### Hazards

`PROJECT.json` lists the hazards with the line where each bites and the
properties that would notice. The main ones: whole-document writes of stale
reads (`workflow.go:593`, `:130`, `workflow_task_v4.go:3664`), pub/sub that forgets
(`workflow.go:226`), check-then-act on the slots (`queue.go:153`), an unrenewed lock
(`queue.go:143`), a replica dying between two writes (`queue.go:81`, `:345`),
resubmission while the previous run is still alive (`queue.go:90`), a late approval that
brings a deleted approval back (`approval.go:98`), a release plan's task that runs
although its plan was not saved (`execute.go`), callbacks that answer for a plan edited
since (`release_plan.go`), polls and reports that write a VM job back as they read it
(`vm.go:624`), messages to the cron service deleted before they are handled
(`scheduler.go:186`). A few hazards have no property because the code has nothing that would
keep one; their notes say so.

## 2. Modules

| Module | Role |
|---|---|
| `WorkflowQueue` | documents, queue, sender, controllers, acks, requests, crash and restart |
| `MCWorkflowQueue` | instances of `WorkflowQueue` for TLC |
| `WorkflowQueueProofs` | theorems `TypeCorrect`, `SlotsBounded` and `OneController` |
| `WorkflowQueueEntryProofs` | theorems `AnnouncedOnce`, `NoEntryOrphaned`, `ExitAnnounced`, `WaitingInHand`, `AllSlotsBounded`, `OneWorkerPerTask`, `SlotsOwnedAfterCrash` and `NoRetriedOrphan` |
| `StageRun` | stages, jobs, error policies, notifier, retries and manual executions of one task |
| `MCStageRun` | instances of `StageRun` for TLC |
| `StageRunProofs` | theorems `StageRunTyped`, `StagesInOrder`, `JobsInOrder`, `PassedTaskIsDone`, `GroupsAreReported` and `CompletedStays` |
| `NativeApproval` | the approval of a native approval job |
| `MCNativeApproval` | instances of `NativeApproval` for TLC |
| `NativeApprovalProofs` | theorems `ApprovalTyped`, `DecisionsAreKept` and `OutcomeDecided` |
| `ReleasePlan` | the document of a plan, requests, watcher, cron job, hooks and callbacks |
| `ReleasePlanLifecycle` | abstract specification: what a plan promises its users |
| `MCReleasePlan` | instances of `ReleasePlan` for TLC |
| `ReleasePlanProofs` | theorems `PlanTyped` and `ApprovalFirst` |
| `ReleasePlanOrderProofs` | theorems `DoneHasPassed` and `PlanImplements` |
| `VMAgentJobs` | jobs on virtual machines: controller, server, agents |
| `VMAgentJobsProofs` | theorems `VMTyped`, `VerdictIsReal`, `FinishedNotOffered` and `TakenOnce` |
| `MCVMAgentJobs` | instances of `VMAgentJobs` for TLC |
| `CronTimers` | timers of workflows and tests: requests, messages, the cron service |
| `MCCronTimers` | instances of `CronTimers` for TLC |
| `CronTimersProofs` | theorems `CronTyped`, `TimersFollow` and `RestartsRestore` |

Definitions named with a suffix (`hasAgentAvaiable_offbyone`,
`DoneStatus_nopassed`, ...) are mutants: plausible bugs that `PROJECT.json`
pairs with the property that must then fail. No specification uses them.

### WorkflowQueue

Every MongoDB or redis call is a step of its own; code between two of them is
part of the earlier or the later step.

| Variable | Code |
|---|---|
| `doc` | documents of `workflow_task`: status, whether `EndTime` is set, `is_deleted` |
| `queue` | status of the entry in `workflow_queue`, `"absent"` without one |
| `defs` | workflow, test and scan definitions that exist |
| `lock` | holder of the redis lock `workflow-task-sender` |
| `sender` | the sender goroutine of each replica: step, waiting tasks still to look at, the chosen task, the document it read |
| `rep` | each replica is down, in `InitQueue`, or up |
| `req` | API requests in progress, and `InitQueue` of a starting replica: step, task, the document they read, tasks still to cancel |
| `ctl` | live controllers: the task in memory, the subscription, a delivered cancel message, the context |
| `ack` | `updateWorkflowTask` calls in progress, of the controller's goroutine (`main`) and the event goroutine (`side`) |
| `notified`, `resub`, `undecided`, `used` | history: announcements of the end, resubmitted tasks, tasks one of whose runs ended with status `running`, requests and crashes so far |

| Actions | Code |
|---|---|
| `CreateTask`, `Push` | `CreateWorkflowTaskV4` → `CreateTask` → `Push` |
| `RetryWorkflowTaskV4`, `ManualExecWorkflowTaskV4`, `ResubmitUpdate`, `Push` | the two resubmissions up to `UpdateTask` and its `Push` |
| `TouchFind`, `TouchUpdate` | `UpdateWorkflowV4TaskRemark`, `RevertWorkflowTaskV4Job`: read and write back |
| `CancelFind`, `CancelRemove`, `CancelUpdate`, `CancelPublish` | `CancelWorkflowTask`, also inside the loops of `InitQueue` and `DeleteWorkflowV4` (`CancelNext`) |
| `DeleteWorkflowV4`, `DeleteByID`, `DeleteByWorkflowName`, `DeleteTestModule` | deletion of definitions |
| `SenderLock`, `SenderList`, `SenderScan`, `SenderGiveUp`, `SenderFind`, `SenderDispatch` | one round of `WorfklowTaskSender` and `updateQueueAndRunTask` |
| `AckFind`, `AckQueue`, `AckSave`, `AckFinish` | `updateWorkflowTask` |
| `Subscribe`, `StageAck`, `ReceiveCancel`, `DebugEvent`, `FinishStages`, `FinishRun`, `CtlExit` | `workflowCtl.Run` |
| `Crash`, `Restart`, `BootDone`, `LockExpire` | death and start of a replica, expiry of the redis key |

Abstractions worth knowing:

* `SenderLock` joins `TryLock` with the count of free slots. A round that finds
  no free slot changes nothing and is left out; between the two calls of a
  successful round only entries leave or enter the occupied set through processes
  that do not need the lock, which the later steps of the round meet anyway.
* The stages of a task are `StageAck`s of any number followed by `FinishStages`
  with an outcome of `Outcomes`; `StageRun` models what happens in between. A run may end
  `cancelled` without a cancelled context, because a job did
  (`jobcontroller/job_sae_deploy.go:213-216`, `job_approval.go`). It may also end with status
  `running`: `updateworkflowStatus` begins with it (`workflow.go:523`) and keeps it when no stage
  has a status it knows. The last ack then finds a task that goes on, removes no entry and announces
  nothing, and the controller exits. `undecided` collects these tasks.
* `ctl[c].status` is the one `WorkflowTask` in memory that all goroutines of a
  controller share.
* A status `"queued"` is written only to queue entries, never to documents, as
  in the code. `WaitForApproveWorkflowTasks` looks for a status that no entry ever gets
  and contributes nothing.
* Failing database and redis calls are left out. Crashes between the calls are in.

### StageRun

`main` is the goroutine that runs `RunStages` and feeds the jobs of a stage;
`worker` are the goroutines that call `runJob`: those of the `Pool`, or one that stands
for the serial loop of `RunJobs` (concurrency 1, where the loop stops at the first
failed job). `job`, `stage` and `status` are the statuses in the task; `group`, `snap` and
`sent` are the `jobNotifier` of the current stage and what it has sent; `decision`
is what redis holds about failed jobs.
`Cancel`, `CancelPaused`, `HandleJobError`, `RetryWorkflowTaskV4` and
`ManualExecWorkflowTaskV4` are the requests; the latter two join the reset of stages and
jobs with the next dispatch, whose own interleavings are the business of
`WorkflowQueue`. A job controller's `Run` returns with any status of `Outcomes` at any time. Among
them are ends that are none: some controllers return with the job still at `prepare`
(`job_freestyle.go:313-316`, `:332-334`: an informer or the spec cannot be had, and no status is set)
or at a status of work, for which `running` stands (`job_workflow_trigger.go:126-127`,
`job_approval.go:88-92`). Nobody takes such a job for failed. `cancelled` may come from the job itself
as well as from the context. An empty status is not an outcome: the one branch that could leave it, an
approval of unknown type, is refused when the task is made (`job_approval.go:334` of the
workflow service). `Run`'s panic, recovered by `runJob`, is `Panic`.
The priorities of the statuses (`jobPriority`, `stagePriority`) are the maps of
`updateStageStatus` and `updateworkflowStatus`; a status outside the map counts for
nothing, and the status of no jobs is `skipped`, as in the code.

### NativeApproval

`key` is the approval in redis (the decision of each user), `lock` its redis
lock, `job` the goroutine of the approval job with the users of its spec, `req` the
requests, `ctx` the workflow's context. `SetApproval`, `IsApproval`,
`WaitCancelled`, `WaitTimeout` and `DeleteApproval` are
`waitForNativeApproveWithCallback`; `Lock`, `GetApproval`, `PutApproval` and `Unlock`
are `doApproval` with `applyApprovalDecision`; `KeyExpires` is redis; `RunAgain` is the
retry of the job by `retryJob` (which keeps the decisions in the spec) or of the
task (which does not). `acked` and `given` record what users were told. An
unlisted administrator is in `Admins`: he may be added to the approval of
an AI job. Each poll is one step: the read of the approval and its
evaluation; the ack after it belongs to `WorkflowQueue`.

### ReleasePlan

| Variable | Code |
|---|---|
| `plan` | the document in `release_plan`: status, status of the approval, version, jobs (status, `LastStatus`, `Updated`, task) and the instance code, a digest of the content |
| `cron` | whether the plan has a cron job |
| `tasks` | the status of workflow tasks the plan started (those of `WorkflowQueue`, seen from outside): `revoked` is cancelled with a controller still alive; `failed` stands for `FailedStatus()` of `consts.go:131`, `resting` for skipped, paused or without a status of its own |
| `lock` | holder of `release-plan-lock-<id>` |
| `req` | requests and watchers in progress: the document they will save, whether they then update the cron job or send the hook (`anyway`: even if the save fails, as the watcher does), and the tasks a return to planning has still to look up or cancel |
| `cb` | the callback in progress |
| `hooks` | hooks sent, which a callback may answer any number of times |
| `clock` | before, in, after the release window |
| `granted`, `passed` | history: an approver has approved the plan; jobs a task of which has passed |

| Actions | Code |
|---|---|
| `UpdateReleasePlan` | edits in planning: new version and instance code |
| `UpdateReleasePlanStatus` | `UpdateReleasePlanStatus` with `ReleasePlanStatusMap` |
| `BackToPlanning`, `FindTask`, `CancelTask`, `CancelRefused` | the same, to planning: each task is looked up, then cancelled by `CancelWorkflowTask`, before the plan is saved |
| `ApproveReleasePlan` | `ApproveReleasePlan`, `updatePlanApproval` |
| `ExecuteReleaseJob`, `RetryReleaseJob`, `SkipReleaseJob`, `ReleaseWindowMissed` | the requests on jobs; a missed window makes the plan time out |
| `ScheduleExecute`, `ScheduleJob` | `ScheduleExecuteReleasePlan`: the cron job is deleted, then one workflow after the other is started and the plan saved |
| `WatchExecutingWorkflow` | the watcher: `updatePlanWorkflowReleaseJob` |
| `Save`, `SaveFails`, `LockExpires` | `UpdateByID`, hook, cron job, unlock; a call on the way that fails or a dead replica; the lock runs out |
| `HookCallback`, `SaveCallback` | `ReleasePlanHookCallback`, which takes no lock |
| `TaskEnds`, `TaskAcks`, `TaskResumes` | a workflow ends, in any way; its ack writes `running` over a cancellation (`cancelled_left`); a user retries or executes it on its own page |
| `Tick` | time passes |

A request reads the plan and starts a task if it has to, then it saves. Between the two anybody
else may read and save: the handlers go on when they did not get their lock (`Take`), the lock expires
while they work, and the callback takes none. Only `UpdateReleasePlan` and the watcher need the
lock to begin. The instance code is the content itself rather than its digest, so equal codes
mean equal content. The empty status of a new job is `todo`, which the code never tells
from it. `Requested` is the set of statuses that requests ask for, `EditedJobs` the jobs that users edit,
`FirstClock` the side of the window on which the plan is created.

### ReleasePlanLifecycle

What remains true of a plan whatever is overwritten: its approver has granted it before its first
workflow begins, a workflow begins before it passes, and passes before it is shown as done; what is
shown may be withdrawn. `ReleasePlan` implements it (`Implements`) under the mapping of `Lifecycle`:
`granted` is the history of `ApproveReleasePlan` (or that no approval is asked for), `begun` the
tasks that were created, `shown` the jobs that are done in the saved document. So the grant is a user's
act and not a field of a document, and a workflow counts as begun when its task exists, whether or not
the plan knows it.

### VMAgentJobs

`jobs` is `vm_job`; `ctl` the job controllers (`runVMJob`, `vmJobWait`, `vmComplete`); `poll`
the poll of each agent on the server and `getter` the in-memory `jobGetter` of each replica
(`PollingAgentJob`); `run` what an agent does with a job and `reports` the reports on their
way, one at a time for the periodic reporter and one for the goroutine that runs the job.
`PollList`, `AddGetter`, `PollUpdate` and `ReportFind`, `ReportUpdate` separate
reading the job from writing it back as a whole; `EndStops` and `VMComplete` write its status
only. `ReportLost`, and the alternatives of `PollUpdate` and `ReportUpdate`, lose a request or an
answer; `Failed` is the loop that sends the last report again; `Crash` kills an agent, which
forgets its jobs. The database calls of the controller may fail (`DBMayFail`): a read ends the wait with
`failed` (`FindFails`, `vm.go:25-27`, `:47-53`), so do outputs that cannot be read
(`VMComplete`, `job_freestyle.go:1287-1290`), and a failed status update or deletion is only logged. An agent whose job is stopped hears of it in the answer to a report
(`ReportStopped`).

### CronTimers

| Variable | Code |
|---|---|
| `docs`, `scheduled`, `queue` | the collection `cronjob`, `schedule_enabled` of tests, `msg_queue_common` in order |
| `calls` | requests under way on aslan: the database calls each has still to make |
| `cron`, `timers` | the cron service: its step, the lists it has read, the batch it handles; its timers in memory |
| `disabling` | `DisableCronjob` on aslan: documents read and not yet written back |
| `asked`, `clean` | history: the timer each user asked for last; no message given up since the start |

| Actions | Code |
|---|---|
| `CreateCronForWorkflowV4`, `UpdateCronForWorkflowV4`, `DeleteCronForWorkflowV4`, `DeleteWorkflowV4` | timers of workflows |
| `UpdateTesting` | `CreateTesting` and `UpdateTesting` with `HandleCronjob` and `UpdateCronjob` |
| `Call` | the next database call of a request |
| `CronStart`, `ListActiveCronjob`, `ListWithScheduleEnabled`, `ListActiveCronjobFailsafe`, `InitExistedCronjob` | `NewCronClient` and `InitExistedCronjob` with the two lists aslan answers |
| `ListQueue`, `DeleteMsg`, `updateCronjob`, `stopCronjob`, `DisableRequest`, `DisableAnswer` | the loop and `HandleMessage` |
| `DisableCronjob` | aslan writes the listed documents back, one by one |
| `Crash` | the cron service dies and forgets its timers |

A request reads first and then writes; its first action is the reads, the sequence in `calls`
the writes in their order. The contents of a cronjob are a member of `Revs`; a cron expression
that `cronlib` refuses is one of `BadRevs`. `NewCronjobHandler` initializes
before `NewCronClient` starts the loop, so the two are one process in this order.
Two requests on one workflow or test do not overlap: their writes could
end in any order, and no order of the timers would be right. `SlowRestart` lets
requests under way end before the cron service is up again (a restart of its pod takes
seconds, a request milliseconds).

## 3. Runs

All runs go through the MC module of their specification; run one with
`tlc -workers 2 -config X.cfg MCX`, where `X` is `WorkflowQueue`, `StageRun`,
`NativeApproval`, `ReleasePlan`, `VMAgentJobs` or `CronTimers`.

| Run (cfg) | Checks | Instance | Distinct states |
|---|---|---|---|
| `queue_core` (`WorkflowQueue_core.cfg`) | `TypeOK`, `RunningBound`, `SingleController`, `NoOrphanEntry`, `NoStranded`, `NotifiedOnce`, `CompletionAnnounced` | 2 tasks of 2 workflows (a custom workflow with limit 1, a test with limit 0), one slot, 2 replicas with a request each, 2 controllers, 1 cancellation, 4 ends of runs | 363,001 |
| `queue_retry` (`WorkflowQueue_retry.cfg`) | `SlotBound`, `NoOrphanEntry` | the same tasks, 1 replica and request, 3 controllers, tasks fail, pause, end cancelled or undecided, 2 resubmissions, 1 remark | 340,991 |
| `queue_crash` (`WorkflowQueue_crash.cfg`) | `SlotHasOwner` | 2 replicas with a request each, 1 crash and restart at any point, 4 ends of runs | 948,118 |
| `queue_live` (`WorkflowQueue_live.cfg`) | `WaitingSettles`, `DeletedDrains` | 1 replica, request and controller, acks by the event goroutine, deletions of the workflow and the test, 4 ends of runs, fairness | 299,864 |
| `stage_core` (`StageRun_core.cfg`) | `TypeOK`, `StageOrder`, `SerialOrder`, `PassedMeansDone`, `GroupsReported`, `DoneStays`, `CancelWins`, `RunComesToEnd` | 4 jobs in 2 groups with all four error policies: a parallel stage on 2 goroutines and a serial one, both manually executed; 5 outcomes (`prepare` among them), 1 retry, 1 decision, 4 dispatches, fairness | 380,804 |
| `approval` (`NativeApproval_core.cfg`) | `TypeOK`, `DecisionsKept`, `OutcomeIsDecided`, `ApprovalEnds` | 2 approvers and an administrator, 2 approvals needed, 2 requests, 2 runs of the job, expiry, fairness | 597,274 |
| `plan_core` (`ReleasePlan_core.cfg`) | `TypeOK`, `NothingBeforeApproval`, `DoneMeansPassed`, `Implements`, `PlanSettles` | a workflow job and a text job, approval, checks of all three events, window, scheduled execution, 1 request or watcher at a time beside a callback, 2 starts or resumptions, 1 return to planning, 1 edit, 1 failure, fairness | 1,061,760 |
| `vm_core` (`VMAgentJobs_core.cfg`) | `TypeOK`, `VerdictReported`, `NotOffered`, `OncePerAgent`, `JobSettles` | 1 job, 2 agents, 2 replicas, 2 tries of the last report, 1 loss, 1 crash, failing database calls of the controller, fairness of controllers | 1,477,759 |
| `cron_core` (`CronTimers_core.cfg`) | `TypeOK`, `Synced`, `RestartRestores`, `QueueDrains` | a timer of a workflow and one of a test, 3 contents of which one is refused, 3 requests, 1 crash, 1 failing call, 1 failing deletion, fairness | 1,410,016 |
| `cancelled_left` (`WorkflowQueue_cancelled.cfg`) | `CancelledIsFinal`: violated | 1 replica and request, 1 cancellation | |
| `plan_forgotten` (`ReleasePlan_forgotten.cfg`) | `DoneRemembered`: violated | 2 jobs, 2 returns to planning, no checks | |
| `vm_cancel` (`VMAgentJobs_stop.cfg`) | `StoppedStops`: violated | 1 job, 1 agent, 1 replica, nothing lost, fairness of agents too | |

What the passing runs show:

* `RunningBound`, `SlotBound`: although the sender counts occupied slots several calls
  before it takes one, and entries change without its lock, the entries queued or
  running stay within `WorkflowConcurrency`, because only the sender turns an entry from
  waiting to occupied. `SlotBound` includes retried tasks and holds as long as no request
  cancels, nothing crashes and no debug event acks; the run has one request at a time, the theorem
  (section 4) any number.
* `SingleController`: a task that was never resubmitted has one live controller.
* `NoOrphanEntry`, `SlotHasOwner`: every entry that takes a slot has a live controller;
  after one crash this is restored by the time the replica is up again. With a second crash it is
  not (`MaxCrashes = 2` shows it in 18 steps): a booting replica cancels the document of a task
  whose request has still to push the entry, the entry is pushed and dispatched, its replica
  crashes, and `InCompletedTasks` no longer lists the cancelled document. Two
  kinds of entries are exceptions the code makes, and the only ones. `updateWorkflowTask` does not
  list `skipped` among the done statuses and leaves the entry of a task that ended so, which takes
  no slot. And a run that ended with status `running` (`undecided`) keeps its entry and its slot
  with no controller; a cancellation, or the restart of a replica, frees it.
* `NoStranded`: a waiting task is in the queue or in somebody's hands.
* `NotifiedOnce`, `CompletionAnnounced`: the end of a task is announced once and not
  zero times, whichever of the last ack and a cancellation is first.
* `WaitingSettles`, `DeletedDrains`: waiting tasks come to an end, and entries of deleted
  definitions leave the queue by the sender's scan, also while debug events ack. Excepted are
  tasks that undecided runs hold up (`Held`): when these occupy all slots, or count against
  the limit of the workflow, nothing is dispatched behind them. An entry of a deleted definition whose
  task ended `skipped` stays, as the sender looks at waiting entries only.
* `StageOrder`, `SerialOrder`, `DoneStays`, `PassedMeansDone`: over failures,
  ignored errors, cancellations, pauses, retries and manual executions, jobs run in
  order, completed jobs are not repeated, and the final status says what happened. Jobs that
  their controller left at `prepare` or `running` (`Left`) are passed over: the next job and the next
  stage start behind them, and a task may pass with them (`updateStageStatus` gives them -1). So
  `Returned` asks that an earlier job is completed or was left so, and that no goroutine has it; no
  failed, cancelled, rejected or unstarted job is ever passed over. Two
  exceptions to `DoneStays` are the code's own: `retryJob` goes on until a job passes, so one
  that ended `unstable`, which counts as completed, is tried again; and a manual execution marks
  the jobs it leaves out as `skipped`, from which another one of the same stage takes them up again.
  Both are proved to be the only ones, and the four properties for any workflow (section 4).
* `GroupsReported`: each group of jobs gets its final notification once, after its start. Also
  proved (section 4).
* `CancelWins`, `RunComesToEnd`: a cancellation wins over ends that race with it; a
  run ends, with a status that says how, unless it waits for a user or every job of the task was
  left without an end (`NoVerdict`), when its status stays `running`.
* `DecisionsKept`, `OutcomeIsDecided`, `ApprovalEnds`: approvers do not overwrite each
  other; a job passes only with enough approvals and is rejected only by a
  rejection; a sufficient set of decisions is noticed. A late request may carry decisions of an
  earlier run into the next one; the property allows exactly that. The first two are also proved.
* `NothingBeforeApproval`: no request, callback, cron job or watcher gets a plan past its
  approval, in whatever order they overwrite each other. Also proved.
* `DoneMeansPassed`: through execution, retry, window, return to planning, late cancellations and
  failed saves, a workflow job is done only when a task started for it has passed. A cancellation
  that comes too late may overwrite the passed task itself, so the property remembers. Also proved.
* `PlanSettles`: a plan all of whose jobs are started or over, one of them running, leaves `executing`,
  when nobody is about to overwrite it. The exception (`Unresolved`) is the watcher's: it
  knows passed and the statuses of `FailedStatus()` (`watcher.go:99-106`), and a workflow that is
  skipped, paused or left without a status keeps its job running. A plan brought back to executing
  with all jobs remembered as done has no running job; it stays as it is until its manager acts, which the
  property does not cover.
* `Implements`: the plan keeps what `ReleasePlanLifecycle` promises. Also proved.
* `VerdictReported`, `NotOffered`, `OncePerAgent`: reads and writes of polls, reports and the
  controller that overtake each other produce no verdict that no agent reached, bring
  no finished job back, and give no agent a job twice. When a database call of the controller
  itself fails, it calls the job failed, and it may leave a job on offer that it could not mark; `err`
  remembers this, and the properties allow nothing else. Two agents on two replicas may both
  get one job, since the getter is a map in memory; the one that no longer owns it is refused
  at its next report, and until then either may set the verdict. Also proved (section 4).
* `JobSettles`: the controller's wait ends whatever agents do.
* `Synced`: documents and messages are written separately, messages of several users come in
  one batch, and aslan rewrites the documents of a disabled test late; while nothing fails
  each timer still ends as its user asked for last. Also proved.
* `RestartRestores`: whatever the cron service had deleted, given up or forgotten, the next
  start registers every timer that should run. A timer whose user last asked
  for an expression that `cronlib` refuses is excepted. For timers of tests this needs the second list: the
  first one misses those that a late `DisableCronjob` has disabled again. Also proved.
* `QueueDrains`: a failing call, a refused cron expression or a failing deletion does not
  block the queue. Later messages of a failing one's batch are dropped with it, not handled
  (`cronjob_handler.go:136-140`).

Bounds. Two tasks compete for one slot, so that waiting, occupying and finishing overlap;
two replicas give two senders and a crash with a survivor; one cancellation, crash or
remark and two resubmissions suffice to meet every other step in every order.
Two or three controllers leave room for a controller of the previous run that is still
exiting (`queue_live` has one: there the next dispatch waits for it). Four
dispatches let a task pause, be executed at both stages and be retried. In the runs with no liveness
property of `WorkflowQueue` the controllers are a symmetry set. A release plan with one job of
each kind meets every order of its jobs' ends; two starts allow a retry or a second execution after
a return to planning; one edit makes a check's answer stale. The run has one
request or watcher at a time (`Handlers`) beside a callback, since a second one multiplies the states; with two
handlers, one workflow job, one event and no window, schedule or failure TLC finds the same in 725,453
states, and the safety theorems hold for any number. `Requested` has the three statuses
the pages ask for on the way to execution (`Usual`); the theorems allow every status of the map but
planning, which is `BackToPlanning`, also `wait_execute_check` of a plan that executes, after which a repeated callback resets
running jobs to `todo`. Only the workflow job is edited, and the plan is created in its window, which may end at
any moment. One VM job is
enough since nothing relates two; two agents and two replicas are what
a doubly taken job needs. Three edits let a timer be registered, changed and removed, or disabled
and enabled again; crash, failing call and failing deletion happen once each, at any point. One retry and one decision still meet every
other step of `StageRun`; `timeout` stands for the statuses that stop a stage, `prepare` for those that
a controller leaves. The runs of `WorkflowQueue` may stop when undecided runs occupy all slots,
a run of `StageRun`, the job of `NativeApproval`, a plan and a VM job really end, and the cron service is
idle without messages (`CHECK_DEADLOCK FALSE`).

Fairness. `WorkflowQueue`: goroutines that were started make their next call (weak
fairness of requests under way, cancellation, sender, ack, controller), redis keys of
idle holders expire, a replica that went down is started again by Kubernetes.
`FinishStages` gets strong fairness: jobs end, by their timeouts at the latest, although
acks of the running stage disable the action again and again. New requests, crashes and
debug events are never forced. `StageRun`: the goroutines run and job controllers return;
user decisions are not forced. `NativeApproval`: the poll and requests under way
run; timeout, cancellation and expiry are not counted on. `ReleasePlan`: requests under way
save, the watcher comes back every three seconds, workflows end, an abandoned lock expires;
no user or callback is counted on. `VMAgentJobs`: `CtlFairness` forces only the controller's
own steps and its timeout, which is its own timer, and no database error; `AgentFairness`, used for the violation
`vm_cancel`, adds that polls and reports are answered and that a job told to stop does, so
that the counterexample is not an agent that idles. `CronTimers`: requests under way make their
calls, the loop of the cron service comes back every three seconds and is started again after a
crash, aslan goes on with what it was asked; edits, crashes and failures are never forced.

### Disagreements between code and comments

1. `cancelled_left`: `updateWorkflowTask` checks the status it read and later replaces
   the whole document; a cancellation written in between is overwritten, against "never let
   workflow status leave cancelled" (`WC/workflow.go`).
2. `plan_forgotten`: a return to planning records the status of each job; a second return
   before the plan executes again overwrites the record with `todo`, and jobs that were done are
   executed again, against the comment on `LastStatus` that it records them.
3. `vm_cancel`: a poll or report that read a VM job writes it back over the cancellation or the
   timeout; no later report finds it and the agent is never told, against "if job is cancelled or
   timeout, stop agent job" (`vm.go`).

Limits of other guarantees, found on the same models. `WorkflowQueue`: with two concurrent
resubmissions of one task `NoOrphanEntry` fails, and with debug events `NotifiedOnce` does; a cancel
message published before the controller subscribes is lost and all stages run; the limit of a
workflow is compared with its running entries only, so that a dispatched, still queued run is not
counted and more runs than `ConcurrencyLimit` can be alive. `StageRun`: a decision
that nobody reads stays in redis and settles a later failure of the job. `ReleasePlan`: a
callback, which takes no lock, or a request that lost its lock may overwrite another's save, a cancel among them; a late
save puts jobs that run back to `todo`, and their tasks run on unknown to the plan, as does one whose plan could not be saved; the end of the
window overrides a success that the same round of the watcher found; a plan that comes to
`executing` with all jobs already done is not finished by the watcher; the approval
of a plan survives its return to planning unless the edit concerns the approval. `CronTimers`: when
`stopCronjob` cannot list the jobs it logs that it is "reconsuming", but the message is deleted
already and the timers of the disabled test run on until the next edit; a
crash or failing call between stopping the timers of a test and disabling its documents brings
them back at the next start, as the FIXME above `stopCronjob` says; `DisableCronjob` may write back
contents older than the last edit; a message whose deletion failed is handled once more and may undo
a newer one; a document deleted after a restart has listed it leaves its timer running
(`SlowRestart` excludes this one).

## 4. Proofs

TLAPS proves the following for every value of the constants that satisfies the named
assumptions of the modules.

`WorkflowQueue` (`TaskAssumption`, `WorkflowAssumption`, `ConcurrencyAssumption`,
`ProcessAssumption`, `OutcomeAssumption`, `SwitchAssumption`):

* `TypeCorrect` (`WorkflowQueueProofs`): `Spec => []TypeOK`. One lemma per group of
  actions (`TypedHandler`, `TypedRequest`, `TypedCancel`, `TypedSender`, `TypedAck`,
  `TypedCtl`, `TypedReplica`). `TypeOK` alone is not inductive: a step that writes the
  record of a request needs a task in it, so the lemmas carry `Typed`, which adds
  this shape.
* `OneController` (`WorkflowQueueProofs`): when `~LockMayExpire`, `Spec => []SingleController`.
* `SlotsBounded` (`WorkflowQueueProofs`): when besides `Decisive`, `Spec => []RunningBound`. `Decisive`
  says that no debug event acks or that no run ends with status `running`. Otherwise the bound is
  false of the code: an ack of the event goroutine writes `cancelled` to the entry, which gives up its slot,
  and when the run then ends with status `running` its last ack takes the slot back.

The invariants are not inductive by themselves. The entry a sender has chosen must not have been
dispatched already: `LockInv` (who is in the loop holds the lock), `ChosenInv` and `OwnedInv` (the
entry of a task with a controller is never waiting again). For that the entry of a fresh task must
be pushed only once and before anyone else knows it: `PushInv`, `DocInv`, `TouchInv`. `IInv` is
their conjunction with `TypeOK`, `Shape` and `SingleController`. `SInv` adds what the bound needs: a
sender that has counted a free slot still has it when it dispatches (`SlotInv`), so nobody
else occupies one meanwhile, an ack that writes `running` least of all: the entry it writes has a slot or is
gone (`RunInv`), and keeps it until the stages end unless an ack is about to remove it (`BusyInv`). Most steps are *calm*: they occupy no slot,
start no controller, choose no task and push nothing; lemmas such as `CalmPreserves` handle all of them at
once, and others treat the rest (`CreateKeeps`, `PushKeeps`, `ResubmitKeeps`,
`LockKeeps`, `ListKeeps`, `DispatchKeeps`, `AckQueueKeeps`, ...). Cardinalities come
from `FiniteSetTheorems`.

Both theorems speak of tasks that were never resubmitted. With resubmission the claims are
false of the code: a cancelled task can be resubmitted while its old controller is
alive, and that controller's ack turns the new waiting entry into a running one. The
assumption that no sender outlives its eight-second lock is needed too: nothing renews it,
and two senders that both counted the last slot would both use it.

`WorkflowQueueEntryProofs` follows a task's document, entry and announcement to the end. All
its theorems assume `~LockMayExpire` and rest on `IInv`.

* `AnnouncedOnce`: `Spec => []NotifiedOnce`, when no debug event acks (`~SideAcks`), with any crashes,
  deletions, resubmissions and stale writers. The invariant is `EndInv`: after its stages a
  controller acks once (`AckInv`); a document that shows the end, or that a request may still write
  back (`Closed`), belongs to a task that will not get another controller (`Spent`) and whose live
  controller, if any, is past its save (`ClosedInv`); an announced task has only a controller that is
  about to exit (`NoteInv`).
* `NoEntryOrphaned`: `Spec => []NoOrphanEntry`, and `ExitAnnounced`: `Spec => CompletionAnnounced`, an
  action property, when besides there are no crashes and resubmissions. `LastInv` takes the
  controller through its last ack step by step: what that ack has read never makes it return early
  (`LeaveInv`), so the entry is gone and the end announced when it exits with a status that is done, and until then the entry has
  an owner (`Kept`). Runs that end with status `running` are in the model; the property names their entries
  as its exception. `LastInv(L)` leaves out a set `L` of tasks, empty here, so that its lemmas also
  serve after a crash.
* `WaitingInHand`: `Spec => []NoStranded`, without crashes, resubmissions, deletions and requests that
  write an old document back (`MaxTouches = 0`). `HandInv`: a controller beyond its first ack, and a
  request that lets go of a task, have left the document begun (`CtlHand`, `ReqHand`), and a waiting
  task without an entry is in somebody's hands (`TaskHand`).
* `AllSlotsBounded`: `Spec => []SlotBound`, and `OneWorkerPerTask`: `Spec => []OneWorker`, when no
  debug event acks, nothing crashes and nobody cancels (`NoCancelling`: no `CancelWorkflowTask`, no
  workflow that `DeleteWorkflowV4` could delete, no run that ends cancelled by itself), with any number of resubmissions and stale writers at
  a time. The invariant is `RetryInv`. Nothing is ever cancelled (`Uncancelled`), so only the last ack of
  a controller removes the entry of its task: the entry of a task that is worked on is neither absent
  nor waiting (`WorkInv`), a `Push` in between is refused by the unique index, and what the sender has
  in hand waits (`PickInv`) and so is not worked on. Hence only the sender takes slots, and it has
  one to give (`FreeInv`).
* `NoRetriedOrphan`: `Spec => []NoOrphanEntry` under the same assumptions, with any number of
  resubmissions and stale writes, when requests come one at a time (`OneRequest`). The invariant is
  `RetryInv /\ KeepInv`. A document that shows an end, or a request that has read one or is about to
  push, means that the entry has left its slot and its controller has but to remove it (`Left`), so an
  ack of a task at work never returns early (`KeepTask`); the last ack sets the entry before it saves
  (`SetInv`); and a resubmission has pushed the task before another request reads or writes its old
  document (`AgainInv`).
* `SlotsOwnedAfterCrash`: `Spec => []SlotHasOwner`, with `NoCancelling`, no resubmissions, no
  debug acks, and at most one crash (`MaxCrashes <= 1`), on any number of replicas. The invariant is
  `CrashInv`: a slot without a controller is one that `InitQueue` of the crashed replica will free
  (`Doomed`): while the replica is down the task's document is incomplete and not deleted, which is what
  `InCompletedTasks` lists, and while it boots the task is in the loop's list or about to be
  removed (`Swept`). That the document stays so needs three facts: before the restart nothing is
  cancelled or deleted (`Intact`), there is one crash and only a booting replica cancels
  (`Crashed`), and a task whose document may show an end, also by a stale write, has left its slot
  before (`Vacant`). Steps other than the crash orphan no further entry, by `LastInv(L)` with the
  entries already orphaned as `L`.

The requests left out really break the claims, or call for another: after a crash the entry is
repaired only when the replica is up again; with two resubmissions
at a time an entry is orphaned; a second goroutine that acks announces twice; a stale write may turn
a task that ended back to waiting; a cancellation removes the entry under a controller, so that a
retry pushes it again and the old controller's ack makes it running without a free slot; and
a second crash finds a cancelled document that is not listed (section 3).

`StageRun` (`ShapeAssumption`, `PolicyAssumption`, `BuildAssumption`, `EndAssumption`, `BoundAssumption`),
in `StageRunProofs`, for any stages, jobs, policies, pool sizes, numbers of retries, decisions and
dispatches:

* `StageRunTyped`: `Spec => []TypeOK`. `StagesInOrder`: `Spec => []StageOrder`. `JobsInOrder`:
  `Spec => []SerialOrder`. `PassedTaskIsDone`: `Spec => []PassedMeansDone`. `CompletedStays`:
  `Spec => DoneStays`, an action property. `GroupsAreReported`: `Spec => []GroupsReported`.

None is inductive alone, since the order of jobs follows from what `RunStages` has found of stages.
`EndAssumption` admits every status a controller's `Run` may return with, those without an end too.
`IInv` says that it goes on only behind completed stages (`MainInv`), that a completed stage has only
jobs that are completed or left without an end (`StageDone`), and that a passed task has only completed stages (`PassedInv`). For
`StageDone` the status of a stage must be the worst of jobs that are all settled (`StatusInv`): what was
handed out is at work or settled, and in order (`TodoInv`), a worker has a job of its own of the
current stage whose status fits the worker's step (`WorkerInv`), and a serial loop has only completed jobs
behind it (`SerialInv`). Manual executions reset stages: behind a stage that was not executed no job has
run (`ManualInv`).

`GroupsReported` counts goroutines that report at any time and in any order. `ReportInv` bounds the
count: `finished` of a group and its members that may yet report (`Open`) are never more than the
members (`CountInv`), so the goroutine that completes the count is the last one open, and finds
the snapshot of every member current (`SnapInv`). The start is announced by the one goroutine that set
`prepared`, before any end (`StartInv`, `EndInv`). The cardinalities use the library's theorems on finite sets.

`NativeApproval` (`ApproverAssumption`, `NeededAssumption`, `ModeAssumption`), in `NativeApprovalProofs`, for any approvers, administrators,
requests and runs of the job:

* `ApprovalTyped`: `Spec => []TypeOK`. `DecisionsAreKept`: `Spec => []DecisionsKept`. `OutcomeDecided`:
  `Spec => OutcomeIsDecided`, an action property.

Between a request's read and its write only the job and redis touch the approval. So `IInv` says that
whoever is between the two holds the lock (`Locked`), that what it has read is not behind the key, the
acknowledged decisions and the job's spec (`ReadKept`), that the key is not behind the latter two
(`KeyKept`), and that every decision in key, spec or a request's memory was given (`KeyGiven`,
`JobGiven`, `SeenGiven`); the last three give the count of approvals.

`ReleasePlan` (`PlanJobAssumption`, `PlanModeAssumption`, `PlanRequestAssumption`,
`PlanBoundAssumption`), in `ReleasePlanProofs`:

* `PlanTyped`: `Spec => []TypeOK`.
* `ApprovalFirst`: `Spec => []NothingBeforeApproval`, for any number of jobs and of concurrent requests,
  any events and any requested statuses; locks are lost and documents overwrite each other in any order.

`NothingBeforeApproval` alone is not inductive: a plan may become `executing` from a document
read long ago. `DocInv` is a property of a single document: what executes or has started is
approved, and in the statuses before and during the approval (`Early`), where the
approval may be withdrawn or asked for again, nothing has started. `IInv` asks it of the saved
document and of every document about to be saved by a request or a callback; since every
step derives its document from one that satisfies it, the lock is not needed. A
scheduled execution saves several times and keeps its document `executing`, the last conjunct.
The lemmas first say what each function on documents returns (`CheckedDoc`, `SetJobsDoc`,
`ReplannedDoc`, `WatchedDoc`, ...), then that each action preserves `IInv`; all requests share
`RequestKeeps` and `StepKeeps`.

`ReleasePlanOrderProofs` goes on from there:

* `DoneHasPassed`: `Spec => []DoneMeansPassed`.
* `PlanImplements`: `Spec => Implements`, the refinement of `ReleasePlanLifecycle`.

Neither needs an assumption beyond those of the module. `SoundInv` is once more a property of every
document that is saved or about to be saved (`Live`): jobs that are done, or remembered as done before a return
to planning, have passed; a task it names was created; what is approved was granted (`Sound`). A
document is compared with histories that only grow (`passed`, `granted`, the created tasks), so that it
stays sound however long its request waits and whatever is saved meanwhile (`Grows`, `SoundStep`); each
request derives its document from a sound one (`Derived`). For the refinement each save is a `Show`, the
approval a `Grant`, the creation of a task a `Begin`, which by `DocInv` and `Sound` comes after the grant,
the end of a task a `Pass` or nothing, and all other actions, failed saves and late
cancellations among them, are stutters.

`VMAgentJobs` (`VMNameAssumption`, `VMBoundAssumption`), in `VMAgentJobsProofs`:

* `VMTyped`: `Spec => []TypeOK`.
* `VerdictIsReal`: `Spec => []VerdictReported`; `FinishedNotOffered`: `Spec => []NotOffered`;
  `TakenOnce`: `Spec => OncePerAgent`, an action property.

`IInv` is `TypeOK` with `CtlInv` and `VerdictInv` for every job and `AgentInv` for every agent
and job. Only the controller's `RunVMJob` writes `created`, once, and the controller leaves no job
`created` when it is done (`CtlInv`); until somebody has taken the job there are no runs and no
reports of it, and an agent with a poll under way for it has not run it yet (`AgentInv`). A report
says `running` or the outcome its agent reached, which never changes once it is set (`AgentInv`);
so an outcome in the document or in the controller is some agent's, or a failure after a failed
call of the controller (`Real`, `VerdictInv`).
Most agent steps change one agent's records and at most the status of one document; `MovesKeep`
and `AgentStep` treat them together. Neither the getter map nor
any lock is used, and any number of lost answers and crashes is allowed.

`CronTimers` (`CronOwnerAssumption`, `CronNameAssumption`, `CronFiniteAssumption`, `CronBoundAssumption`), in `CronTimersProofs`, for any
cronjobs, requests at a time, contents, crashes and failures:

* `CronTyped`: `Spec => []TypeOK`.
* `TimersFollow`: `Spec => []Synced`, with no further assumption.
* `RestartsRestore`: `Spec => []RestartRestores`, when `SlowRestart`: requests under way end before the
  cron service is up again.

Both results speak of a quiet system; the invariants say what messages under way will make of it.
For each cronjob, `Meets`: a request still owes a message about it, or the last message about it
in the queue brings the timer to what its user asked for, or the queue is silent and the last one that
is deleted and not yet handled (`Rest`) does, or nobody speaks of it and a base fact holds. The
base is that the timer is right, or, while the service starts, that the lists it has read are
(`FirstBase`, `RestartBase`). `Meets` is preserved by requests, calls, deletions and the handling of a
message (`RequestMeets`, `CallMeets`, `MoveMeets`, `ServedMeets`, `DroppedMeets`), whatever the base; two
further invariants make it fit the code: the queue begins with what is left of the batch (`Aligned`),
and each database call of a request agrees with what its user asked for and with the message that
follows it (`CallInv`, `OwnerInv`, `DocInv`). Restarts read documents, so `DocsInv` relates these to the
users' wishes: the document of a workflow's timer is right or about to be rewritten (`Flow`), and one of a
test differs only by what `DisableCronjob` wrote back (`Test`). That a user's message is not in sight
before its documents are written is why `TimersFollow` needs no assumption on when the first start
happens, and `RestartsRestore` does: a document deleted after a restart has listed it keeps its timer.

What the attempts to prove showed. `DoneStays` at first had no exceptions; no proof was possible and
TLC, given an unstable outcome, a second manual stage and a second retry, showed both.
`RunningBound` was taken to need no assumption on debug events until runs could end with status
`running`; the proof of `RunInv` then failed at `FinishStages`, and showed the case that `Decisive`
excludes. An earlier `ReleasePlanLifecycle` promised that no workflow runs unless the plan counts
it; that holds only while nobody overwrites anybody, which the code does not ensure, so that it
now promises less and is proved without assumptions. `RestartRestores` spoke of refused expressions too, and is false of them
after two crashes, where the run has one; so is `SlotHasOwner` (section 3). `NoStranded` and `NoOrphanEntry` needed the assumptions above,
which the runs' bounds already made.

Only model-checked:

* liveness under fairness (`WaitingSettles`, `DeletedDrains`, `CancelWins`, `RunComesToEnd`,
  `ApprovalEnds`, `PlanSettles`, `JobSettles`, `QueueDrains`) and everything with `ENABLED`, which the
  prover does not handle; induction over data and RECURSIVE operators are out of its reach as well
  and not used.

Every other invariant and action property of a passing run is stated by a theorem.

## 5. Not modelled

* Failing MongoDB and redis calls of the queue and of approvals: a database error read as an
  empty list, missing settings, an ignored error of the approval's redis lock. The hazards name
  the places. `ReleasePlan` models failing saves and lost locks, `VMAgentJobs` the failing calls of the
  job's controller.
* The contents of tasks, arguments and notifications, breakpoints and debug shells, the body of
  job controllers, approvals kept by external services, the webhook matching that creates and
  cancels tasks.
* Of release plans: the update through the OpenAPI, versions, diffs, logs, copies, templates, collaboration on drafts, the
  creation of approvals in external systems, and a crash between the save of a plan and the
  update of its cron job.
* Of VM agents: registration, the heartbeat and the detection of offline machines, labels and
  platforms, upgrades, log files, and the agent's counter of concurrent jobs (`agent.go`).
* Of the cron service: the timers of environments (`UpsertEnvSleepCron`, `UpsertEnvAnalysisCron`),
  which send the same messages, the one-time timers of release plans, the built-in periodic jobs
  (`scheduler.go`), failing database calls of requests, the call a timer makes, and the deletions of a
  workflow by its page and of a test, which push no message.
* The components that section 1 lists as planned or left out.

## 6. Plan

Done: the six components and the abstract specification of release plans, with the proofs of
section 4. Next, in order of importance:

1. `TaskLifecycle`: an abstract specification of what a client of a task may observe
   (waiting, running, ended, resubmitted), and `WorkflowQueue` without stale writes
   shown to implement it.
2. Heartbeat and registration of VM agents; breakpoints and debug shells of jobs; timers of
   environments and of release plans; the tunnels of the hub server; the path algorithm of the upgrade assistant against a reference definition.
3. `StageRun` composed under `WorkflowQueue`, in place of `StageAck` and `FinishStages`.
