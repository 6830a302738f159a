------------------------------ MODULE StageRun ------------------------------
(* One workflow task from its dispatch to its final status: RunStages goes  *)
(* through the stages, RunJobs through the jobs of a stage, one after the   *)
(* other or with the goroutines of a Pool; runJob applies the execute and   *)
(* the error policy of a job, and the jobNotifier announces groups of jobs. *)
(* The cancellation of the context, decisions of users about failed jobs,   *)
(* retries of the task and manual executions of stages come at any moment.  *)
EXTENDS Integers, FiniteSets, Sequences

CONSTANTS
  Jobs,             \* job numbers, in the order of their stage
  NumStages,
  StageOf,          \* [Jobs -> 1..NumStages]
  GroupOf,          \* [Jobs -> Groups], OriginName: jobs made from one job
  Groups,
  Parallel,         \* stages whose jobs run in parallel
  ManualStages,     \* stages with manual execution enabled
  Policy,           \* [Jobs -> Policies], what happens to a failed job
  MaximumRetry,     \* [Jobs -> Nat]
  Conditional,      \* jobs whose execute policy may say no
  SkipRun,          \* jobs a manual execution may set to skipped
  BuildConcurrency, \* system setting: jobs of a task at a time
  Outcomes,         \* statuses the job controllers' Run may return with
  None,
  MaxDecisions, MaxRuns  \* bounds: decisions taken, dispatches of the task

Policies == {"stop", "ignore", "retry", "manual"}
Stages == 1..NumStages

ASSUME ShapeAssumption ==
  /\ Jobs \subseteq Nat /\ IsFiniteSet(Jobs) /\ NumStages \in Nat
  /\ StageOf \in [Jobs -> Stages]
  /\ GroupOf \in [Jobs -> Groups]
  /\ \A j, k \in Jobs : GroupOf[j] = GroupOf[k] => StageOf[j] = StageOf[k]
  /\ \A j, k \in Jobs : StageOf[j] < StageOf[k] => j < k
ASSUME PolicyAssumption ==
  /\ Policy \in [Jobs -> Policies]
  /\ MaximumRetry \in [Jobs -> Nat]
  /\ Parallel \subseteq Stages /\ ManualStages \subseteq Stages
  /\ Conditional \subseteq Jobs /\ SkipRun \subseteq Jobs
\* The handler of the concurrency setting refuses values below 1.
ASSUME BuildAssumption == BuildConcurrency \in Nat \ {0}
\* Run may return without an end: prepare, from runJob, or running, which stands for all
\* statuses of a job at work.
ASSUME EndAssumption ==
  Outcomes \subseteq {"prepare", "running", "passed", "failed", "timeout", "cancelled",
                       "reject", "unstable"}
ASSUME BoundAssumption == MaxDecisions \in Nat /\ MaxRuns \in Nat \ {0}

VARIABLES
  job,      \* status of each job; "" before it runs
  stage,    \* status of each stage, and ManualExec.Excuted
  status,   \* status of the task
  main,     \* the goroutine of the controller: its step, its stage, jobs to feed
  worker,   \* the goroutines that call runJob
  ctx,      \* the context of the run is cancelled
  decision, \* redis: the decision about a job that nobody has read yet
  group,    \* jobNotifier: prepared, finished, notified of each group
  snap,     \* jobNotifier: the snapshots of the jobs
  sent,     \* notifications sent for each group by the current notifier
  used      \* decisions and dispatches so far

vars == <<job, stage, status, main, worker, ctx, decision, group, snap, sent, used>>

-----------------------------------------------------------------------------
JobStatus == {"", "prepare", "running", "wait", "passed", "failed", "timeout", "cancelled",
              "reject", "skipped", "unstable"}
StageStatus == JobStatus \cup {"pause"}

\* Mutants: a timeout does not stop the stages, a cancelled job does not stop the
\* serial loop.
statusStopped_notimeout(s) == s \in {"cancelled", "failed", "reject", "pause"}
jobStatusFailed_nocancel(s) == s \in {"failed", "timeout", "reject"}

\* Statuses runJob, RunStages and a retry take as completed.
Done(s) == s \in {"passed", "skipped", "unstable"}
statusStopped(s) == s \in {"cancelled", "failed", "timeout", "reject", "pause"}
jobStatusFailed(s) == s \in {"cancelled", "failed", "timeout", "reject"}

JobsOf(s) == {j \in Jobs : StageOf[j] = s}
Members(g) == {j \in Jobs : GroupOf[j] = g}
IsFirst(j, S) == j \in S /\ \A k \in S : j <= k

\* The priorities of updateStageStatus and aggregateJobNotifyStatus, lowest first.
jobPriority == <<"skipped", "unstable", "passed", "reject", "pause", "failed", "timeout", "cancelled">>
\* Those of updateworkflowStatus.
stagePriority == <<"skipped", "unstable", "passed", "failed", "timeout", "cancelled", "reject", "pause">>

\* Mutant: the lowest code wins.
worst_best(priority, S) ==
  IF \E i \in DOMAIN priority : priority[i] \in S
  THEN priority[CHOOSE i \in DOMAIN priority :
                  priority[i] \in S /\ \A k \in DOMAIN priority : priority[k] \in S => i <= k]
  ELSE "running"

\* The status of highest priority; other statuses count for nothing, and the
\* highest code of no jobs is 0, that is skipped.
worst(priority, S) ==
  IF S = {} THEN "skipped"
  ELSE IF \E i \in DOMAIN priority : priority[i] \in S
  THEN priority[CHOOSE i \in DOMAIN priority :
                  priority[i] \in S /\ \A k \in DOMAIN priority : priority[k] \in S => k <= i]
  ELSE "running"

\* workerConcurrency: with 1 the controller's goroutine runs the jobs itself,
\* and stops at the first that fails.
concurrency(s) ==
  IF s \notin Parallel THEN 1
  ELSE IF Cardinality(JobsOf(s)) > BuildConcurrency THEN BuildConcurrency
  ELSE Cardinality(JobsOf(s))
Workers == 1..BuildConcurrency

IdleWorker == [pc |-> "idle", job |-> None, orig |-> "", n |-> 0]
NoDecision == "none"
\* Mutant: the counter of finished jobs starts too low.
FreshGroup_minus == [prepared |-> FALSE, finished |-> -1, notified |-> FALSE]
FreshGroup == [prepared |-> FALSE, finished |-> 0, notified |-> FALSE]

Init ==
  /\ job = [j \in Jobs |-> ""]
  /\ stage = [s \in Stages |-> [status |-> "", executed |-> FALSE]]
  /\ status = "running"
  /\ main = [pc |-> "next", stage |-> 1, todo |-> {}]
  /\ worker = [w \in Workers |-> IdleWorker]
  /\ ctx = FALSE
  /\ decision = [j \in Jobs |-> NoDecision]
  /\ group = [g \in Groups |-> FreshGroup]
  /\ snap = [j \in Jobs |-> ""]
  /\ sent = [g \in Groups |-> <<>>]
  /\ used = [decisions |-> 0, runs |-> 1]

-----------------------------------------------------------------------------
(* The controller's goroutine.                                              *)

SetMain(m) == main' = m
NextOf(s) == [pc |-> "next", stage |-> s + 1, todo |-> {}]
At(pc) == [main EXCEPT !.pc = pc]

\* RunStages: a completed stage is not run again.
SkipStage ==
  /\ main.pc = "next" /\ main.stage \in Stages
  /\ Done(stage[main.stage].status)
  /\ SetMain(NextOf(main.stage))
  /\ UNCHANGED <<job, stage, status, worker, ctx, decision, group, snap, sent, used>>

\* waitForManualExec: the stage pauses, and with it the task.
PauseStage ==
  LET s == main.stage IN
  /\ main.pc = "next" /\ s \in Stages /\ ~Done(stage[s].status)
  /\ s \in ManualStages /\ ~stage[s].executed
  /\ stage' = [stage EXCEPT ![s].status = "pause"]
  /\ SetMain(At("finish"))
  /\ UNCHANGED <<job, status, worker, ctx, decision, group, snap, sent, used>>

\* runStage up to RunJobs, with a new jobNotifier for the jobs of the stage.
RunStage ==
  LET s == main.stage IN
  /\ main.pc = "next" /\ s \in Stages /\ ~Done(stage[s].status)
  /\ s \in ManualStages => stage[s].executed
  /\ stage' = [stage EXCEPT ![s].status = "running"]
  /\ SetMain([main EXCEPT !.pc = "jobs", !.todo = JobsOf(s)])
  /\ group' = [g \in Groups |-> FreshGroup]
  /\ snap' = job
  /\ sent' = [g \in Groups |-> <<>>]
  /\ UNCHANGED <<job, status, worker, ctx, decision, used>>

Idle(w) == worker[w].pc = "idle"

\* The serial loop of RunJobs has met a failed job.
Aborted ==
  /\ concurrency(main.stage) = 1
  /\ \E j \in JobsOf(main.stage) \ main.todo : jobStatusFailed(job[j])

\* The next job is handed to a worker that waits for one.
Feed(w) ==
  /\ main.pc = "jobs" /\ ~Aborted
  /\ Idle(w) /\ w <= concurrency(main.stage)
  /\ \E j \in Jobs :
       /\ IsFirst(j, main.todo)
       /\ worker' = [worker EXCEPT ![w] = [IdleWorker EXCEPT !.pc = "begin", !.job = j]]
       /\ SetMain([main EXCEPT !.todo = main.todo \ {j}])
  /\ UNCHANGED <<job, stage, status, ctx, decision, group, snap, sent, used>>

\* aggregateJobNotifyStatus: without a status that counts, that of the first job.
aggregate(g, s) ==
  LET result == worst(jobPriority, {s[j] : j \in Members(g)}) IN
  IF result = "running" THEN s[CHOOSE j \in Members(g) : IsFirst(j, Members(g))] ELSE result

\* Mutant: only groups without a finished job are flushed.
Unreported_none(g) == ~group[g].notified /\ group[g].finished = 0

Unreported(g) == ~group[g].notified /\ group[g].finished # 0

\* RunJobs returns: the workers have returned, and flush announces the groups
\* that are not complete.
Flush ==
  /\ main.pc = "jobs" /\ (main.todo = {} \/ Aborted)
  /\ \A w \in Workers : Idle(w)
  /\ group' = [g \in Groups |->
                 IF Unreported(g) THEN [group[g] EXCEPT !.notified = TRUE] ELSE group[g]]
  /\ sent' = [g \in Groups |->
                IF Unreported(g) THEN Append(sent[g], aggregate(g, snap)) ELSE sent[g]]
  /\ SetMain(At("status"))
  /\ UNCHANGED <<job, stage, status, worker, ctx, decision, snap, used>>

\* Mutant: the context is not looked at.
FinishStage_noctx ==
  LET s == main.stage
      result == worst(jobPriority, {job[j] : j \in JobsOf(s)})
  IN
  /\ main.pc = "status"
  /\ stage' = [stage EXCEPT ![s].status = result]
  /\ SetMain(IF statusStopped(result) THEN At("finish") ELSE NextOf(s))
  /\ UNCHANGED <<job, status, worker, ctx, decision, group, snap, sent, used>>

\* updateStageStatus, and the end of the round of RunStages.
FinishStage ==
  LET s == main.stage
      result == IF ctx THEN "cancelled" ELSE worst(jobPriority, {job[j] : j \in JobsOf(s)})
  IN
  /\ main.pc = "status"
  /\ stage' = [stage EXCEPT ![s].status = result]
  /\ SetMain(IF statusStopped(result) THEN At("finish") ELSE NextOf(s))
  /\ UNCHANGED <<job, status, worker, ctx, decision, group, snap, sent, used>>

\* updateworkflowStatus: unstable stages make a passed task.
FinishTask ==
  LET result == worst(stagePriority, {stage[s].status : s \in Stages}) IN
  /\ main.pc = "finish" \/ (main.pc = "next" /\ main.stage \notin Stages)
  /\ status' = IF result = "unstable" THEN "passed" ELSE result
  /\ SetMain([pc |-> "idle", stage |-> 1, todo |-> {}])
  /\ UNCHANGED <<job, stage, worker, ctx, decision, group, snap, sent, used>>

-----------------------------------------------------------------------------
(* runJob.                                                                  *)

Step(w, from, to) == worker[w].pc = from /\ worker' = [worker EXCEPT ![w].pc = to]
Write(j, s) == job' = [job EXCEPT ![j] = s]
OnlyJob == UNCHANGED <<stage, status, main, ctx, decision, group, snap, sent, used>>

\* A job completed in an earlier run is left alone.
SkipDone(w) ==
  /\ worker[w].pc = "begin" /\ Done(job[worker[w].job])
  /\ worker' = [worker EXCEPT ![w] = IdleWorker]
  /\ UNCHANGED job /\ OnlyJob

\* The variables cannot be rendered, or the execute policy says no ...
RenderFails(w) ==
  /\ Step(w, "begin", "end") /\ ~Done(job[worker[w].job])
  /\ Write(worker[w].job, "failed") /\ OnlyJob

PolicySkips(w) ==
  /\ Step(w, "begin", "end") /\ ~Done(job[worker[w].job])
  /\ worker[w].job \in Conditional
  /\ Write(worker[w].job, "skipped") /\ OnlyJob

\* ... or the job is prepared.
Prepare(w) ==
  /\ Step(w, "begin", "started") /\ ~Done(job[worker[w].job])
  /\ Write(worker[w].job, "prepare") /\ OnlyJob

\* jobNotifier.jobStarted, under its mutex ...
jobStarted(w) ==
  LET j == worker[w].job
      g == GroupOf[j] IN
  /\ Step(w, "started", IF group[g].prepared THEN "run" ELSE "announce")
  /\ IF group[g].prepared THEN UNCHANGED <<group, snap>>
     ELSE /\ group' = [group EXCEPT ![g].prepared = TRUE]
          /\ snap' = [snap EXCEPT ![j] = job[j]]
  /\ UNCHANGED <<job, stage, status, main, ctx, decision, sent, used>>

\* ... and the notification after it is unlocked.
Announce(w) ==
  /\ Step(w, "announce", "run")
  /\ sent' = [sent EXCEPT ![GroupOf[worker[w].job]] = Append(@, "prepare")]
  /\ UNCHANGED <<job, stage, status, main, ctx, decision, group, snap, used>>

Failed(o) == o \in {"failed", "timeout"}

\* The job controller's Run returns.
RunEnds(w, o) ==
  LET j == worker[w].job IN
  /\ Step(w, "run", "end")
  /\ ~(Failed(o) /\ Policy[j] \in {"retry", "manual"})
  /\ Write(j, IF Failed(o) /\ Policy[j] = "ignore" THEN "unstable" ELSE o)
  /\ OnlyJob

\* A panic is recovered: the error policy is not applied.
Panic(w) == Step(w, "run", "end") /\ Write(worker[w].job, "failed") /\ OnlyJob

RunFails(w, o) ==
  LET j == worker[w].job IN
  /\ worker[w].pc = "run" /\ Failed(o)
  /\ \/ /\ Policy[j] = "retry"
        /\ worker' = [worker EXCEPT ![w] = [@ EXCEPT !.pc = "retry", !.n = 1]]
        /\ Write(j, o)
     \/ /\ Policy[j] = "manual"
        /\ worker' = [worker EXCEPT ![w] = [@ EXCEPT !.pc = "wait", !.orig = o]]
        /\ Write(j, "wait")
  /\ OnlyJob

MayRetry(w) == worker[w].n <= MaximumRetry[worker[w].job]

\* retryJob.
RetryOver(w) ==
  Step(w, "retry", "end") /\ ~MayRetry(w) /\ UNCHANGED job /\ OnlyJob

RetryCancelled(w) ==
  /\ Step(w, "retry", "end") /\ MayRetry(w) /\ ctx
  /\ Write(worker[w].job, "cancelled") /\ OnlyJob

RetryAgain(w) ==
  /\ Step(w, "retry", "rerun") /\ MayRetry(w) /\ ~ctx
  /\ Write(worker[w].job, "prepare") /\ OnlyJob

\* Mutant: the retry is not counted.
RerunEnds_nocount(w, o) ==
  /\ worker[w].pc = "rerun"
  /\ worker' = [worker EXCEPT ![w].pc = IF o = "passed" THEN "end" ELSE "retry"]
  /\ Write(worker[w].job, o) /\ OnlyJob

RerunEnds(w, o) ==
  /\ worker[w].pc = "rerun"
  /\ worker' = [worker EXCEPT ![w] = [@ EXCEPT !.pc = IF o = "passed" THEN "end" ELSE "retry",
                                               !.n = worker[w].n + 1]]
  /\ Write(worker[w].job, o) /\ OnlyJob

\* waitForManualErrorHandling: once a second the context is looked at ...
WaitCancelled(w) ==
  ctx /\ Step(w, "wait", "end") /\ Write(worker[w].job, "cancelled") /\ OnlyJob

\* ... and the decision is read ...
GetDecision(w) ==
  LET d == decision[worker[w].job] IN
  /\ Step(w, "wait", "decided") /\ ~ctx /\ d # NoDecision
  /\ Write(worker[w].job, IF d = "ignore" THEN "unstable" ELSE worker[w].orig)
  /\ OnlyJob

\* ... and deleted once it is read.
DeleteDecision(w) ==
  /\ Step(w, "decided", "end")
  /\ decision' = [decision EXCEPT ![worker[w].job] = NoDecision]
  /\ UNCHANGED <<job, stage, status, main, ctx, group, snap, sent, used>>

\* The job that finishes now is the last of its group.
Complete(g) == group[g].finished + 1 >= Cardinality(Members(g))

\* The deferred calls of runJob: jobNotifier.jobFinished under its mutex ...
jobFinished(w) ==
  LET j == worker[w].job
      g == GroupOf[j]
      report == ~group[g].notified /\ Complete(g) IN
  /\ worker[w].pc = "end"
  /\ IF group[g].notified THEN UNCHANGED <<group, snap>>
     ELSE /\ group' = [group EXCEPT ![g] =
                         [@ EXCEPT !.finished = group[g].finished + 1, !.notified = Complete(g)]]
          /\ snap' = [snap EXCEPT ![j] = job[j]]
  /\ worker' = [worker EXCEPT ![w] =
                  IF report THEN [@ EXCEPT !.pc = "report", !.orig = aggregate(g, snap')]
                  ELSE IdleWorker]
  /\ UNCHANGED <<job, stage, status, main, ctx, decision, sent, used>>

\* ... and the last notification of the group.
Report(w) ==
  /\ worker[w].pc = "report"
  /\ sent' = [sent EXCEPT ![GroupOf[worker[w].job]] = Append(@, worker[w].orig)]
  /\ worker' = [worker EXCEPT ![w] = IdleWorker]
  /\ UNCHANGED <<job, stage, status, main, ctx, decision, group, snap, used>>

-----------------------------------------------------------------------------
(* Requests.                                                                *)

\* The event goroutine of the controller has received the cancellation.
Cancel ==
  /\ main.pc # "idle" /\ ~ctx
  /\ ctx' = TRUE
  /\ UNCHANGED <<job, stage, status, main, worker, decision, group, snap, sent, used>>

\* CancelWorkflowTask of a task that is paused or has no end: nothing runs.
CancelPaused ==
  /\ main.pc = "idle" /\ status \in {"pause", "running"}
  /\ status' = "cancelled"
  /\ UNCHANGED <<job, stage, main, worker, ctx, decision, group, snap, sent, used>>

\* HandleJobError does not look at the status of the job.
HandleJobError(j, verdict) ==
  /\ Policy[j] = "manual" /\ used.decisions < MaxDecisions
  /\ decision' = [decision EXCEPT ![j] = verdict]
  /\ used' = [used EXCEPT !.decisions = @ + 1]
  /\ UNCHANGED <<job, stage, status, main, worker, ctx, group, snap, sent>>

\* The task is dispatched again.
Dispatch ==
  /\ main.pc = "idle" /\ used.runs < MaxRuns
  /\ status' = "running" /\ ctx' = FALSE
  /\ SetMain([pc |-> "next", stage |-> 1, todo |-> {}])
  /\ used' = [used EXCEPT !.runs = @ + 1]
  /\ UNCHANGED <<worker, decision, group, snap, sent>>

\* Mutant: completed jobs of an incomplete stage are reset as well.
RetryWorkflowTaskV4_all ==
  /\ status \in {"failed", "timeout", "cancelled", "reject"}
  /\ stage' = [s \in Stages |->
                 IF Done(stage[s].status) THEN stage[s] ELSE [stage[s] EXCEPT !.status = ""]]
  /\ job' = [j \in Jobs |-> IF Done(stage[StageOf[j]].status) THEN job[j] ELSE ""]
  /\ Dispatch

\* RetryWorkflowTaskV4 resets what is not completed.
RetryWorkflowTaskV4 ==
  /\ status \in {"failed", "timeout", "cancelled", "reject"}
  /\ stage' = [s \in Stages |->
                 IF Done(stage[s].status) THEN stage[s] ELSE [stage[s] EXCEPT !.status = ""]]
  /\ job' = [j \in Jobs |->
               IF Done(stage[StageOf[j]].status) \/ Done(job[j]) THEN job[j] ELSE ""]
  /\ Dispatch

\* ManualExecWorkflowTaskV4 makes the jobs of the paused stage and of the
\* following ones anew; the request says which of them are skipped.
ManualExecWorkflowTaskV4(s, skipped) ==
  /\ status = "pause" /\ stage[s].status = "pause"
  /\ stage' = [u \in Stages |->
                 IF u < s \/ stage[u].status \in {"passed", "skipped"} THEN stage[u]
                 ELSE [status |-> "", executed |-> u = s \/ stage[u].executed]]
  /\ job' = [j \in Jobs |->
               IF StageOf[j] < s \/ stage[StageOf[j]].status \in {"passed", "skipped"} THEN job[j]
               ELSE IF j \in skipped THEN "skipped" ELSE ""]
  /\ Dispatch

-----------------------------------------------------------------------------
MainStep ==
  \/ SkipStage \/ PauseStage \/ RunStage \/ Flush \/ FinishStage \/ FinishTask
  \/ \E w \in Workers : Feed(w)

WorkerStep(w) ==
  \/ SkipDone(w) \/ RenderFails(w) \/ PolicySkips(w) \/ Prepare(w)
  \/ jobStarted(w) \/ Announce(w) \/ Panic(w)
  \/ \E o \in Outcomes : RunEnds(w, o) \/ RunFails(w, o) \/ RerunEnds(w, o)
  \/ RetryOver(w) \/ RetryCancelled(w) \/ RetryAgain(w)
  \/ WaitCancelled(w) \/ GetDecision(w) \/ DeleteDecision(w)
  \/ jobFinished(w) \/ Report(w)

Request ==
  \/ Cancel \/ CancelPaused \/ RetryWorkflowTaskV4
  \/ \E s \in Stages, skipped \in SUBSET SkipRun : ManualExecWorkflowTaskV4(s, skipped)
  \/ \E j \in Jobs, verdict \in {"ignore", "reject"} : HandleJobError(j, verdict)

Next == MainStep \/ Request \/ \E w \in Workers : WorkerStep(w)

Spec == Init /\ [][Next]_vars

\* The goroutines run, and a job controller's Run returns.
Fairness == WF_vars(MainStep) /\ \A w \in Workers : WF_vars(WorkerStep(w))

FairSpec == Spec /\ Fairness

-----------------------------------------------------------------------------
(* Properties.                                                              *)

StageRec == [status : StageStatus, executed : BOOLEAN]
MainRec == [pc : {"idle", "next", "jobs", "status", "finish"},
            stage : 1..(NumStages + 1), todo : SUBSET Jobs]
WorkerRec == [pc : {"idle", "begin", "started", "announce", "run", "retry", "rerun",
                    "wait", "decided", "end", "report"},
              job : Jobs \cup {None}, orig : StageStatus, n : Nat]
GroupRec == [prepared : BOOLEAN, finished : Nat, notified : BOOLEAN]

\* Every job, stage and goroutine is at one of its steps.
TypeOK ==
  /\ job \in [Jobs -> JobStatus]
  /\ stage \in [Stages -> StageRec]
  /\ status \in StageStatus
  /\ main \in MainRec
  /\ worker \in [Workers -> WorkerRec]
  /\ ctx \in BOOLEAN
  /\ decision \in [Jobs -> {"none", "ignore", "reject"}]
  /\ group \in [Groups -> GroupRec]
  /\ snap \in [Jobs -> JobStatus]
  /\ sent \in [Groups -> Seq(StageStatus)]
  /\ used \in [decisions : Nat, runs : Nat]

\* A job executes in some worker.
Active(j) == \E w \in Workers : worker[w].job = j /\ worker[w].pc \notin {"idle", "begin"}

\* Run may leave a job that it has not completed with such a status: nobody takes it for a
\* failure.
Left(s) == s \in {"prepare", "running"} \cap Outcomes
Over(s) == Done(s) \/ Left(s)

\* A job is completed, or was left, and no goroutine has it.
Returned(j) == Over(job[j]) /\ \A w \in Workers : worker[w].job = j => Idle(w)

\* RunStages: a job is only executed behind earlier stages whose jobs are completed, over
\* all retries and manual executions of the task; none of them failed, is at work or was
\* not started. Only jobs whose own controller left them at prepare or running, without an
\* error status, are passed over.
StageOrder ==
  \A j, k \in Jobs : StageOf[k] < StageOf[j] /\ Active(j) => Returned(k)

\* RunJobs without a pool: a job is only executed behind earlier jobs of the stage that are
\* completed, or left as above.
SerialOrder ==
  \A j, k \in Jobs :
    /\ StageOf[k] = StageOf[j] /\ k < j /\ concurrency(StageOf[j]) = 1
    /\ Active(j)
    => Returned(k)

\* A passed task has completed all its jobs, whatever was cancelled, retried or ignored on
\* the way, but for those that their controller left without an end (updateStageStatus
\* counts them for nothing).
PassedMeansDone == status = "passed" => \A j \in Jobs : Over(job[j])

\* retryJob tries a job again that ended unstable: only passed ends its loop.
Retried(j) ==
  job[j] = "unstable" /\ \E w \in Workers : worker[w].job = j /\ worker[w].pc = "retry"

\* A manual execution marked the job as skipped, and its stage waits for another.
Remade(j) ==
  job[j] = "skipped" /\ \E s \in Stages : s <= StageOf[j] /\ stage[s].status = "pause"

\* A completed job is never executed again and keeps its status in every later
\* run of the task; the exceptions are the two above.
DoneStays == [][\A j \in Jobs : Done(job[j]) /\ job'[j] # job[j] => Retried(j) \/ Remade(j)]_vars

\* A job of the group was executed under the current notifier.
Ran(g) == group[g].finished > 0

\* jobNotifier: when RunJobs has returned, every group of the stage with an
\* executed job got one final notification, after its start was announced, with
\* the worst of the final statuses of its jobs, however their ends interleaved.
GroupsReported ==
  main.pc = "status" =>
    \A g \in Groups :
      LET final == aggregate(g, job) IN
      sent[g] \in IF Ran(g) THEN {<<final>>, <<"prepare", final>>} ELSE {<<>>}

\* A cancellation that finds the jobs of a stage at work ends in a cancelled
\* task.
CancelWins == (ctx /\ main.pc = "jobs") ~> (main.pc = "idle" /\ status = "cancelled")

Waiting == \E w \in Workers : worker[w].pc = "wait"

\* The statuses updateWorkflowTask knows how to finish, and skipped.
Final == {"passed", "failed", "timeout", "cancelled", "reject", "pause", "skipped"}

\* Every job of the task was left without an end.
NoVerdict == status = "running" /\ \A j \in Jobs : Left(job[j])

\* A run comes to its end, with a status that says how unless no job of the task has one
\* (updateStageStatus and updateworkflowStatus), or a job waits for the decision of a user.
RunComesToEnd ==
  (main.pc # "idle") ~> ((main.pc = "idle" /\ (status \in Final \/ NoVerdict)) \/ Waiting)
=============================================================================
