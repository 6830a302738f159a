--------------------------- MODULE StageRunProofs ---------------------------
(* The run of a workflow task, for any stages, jobs and policies, any number *)
(* of workers, and any number of retries and manual executions.              *)
EXTENDS StageRun, FiniteSetTheorems, SequenceTheorems, WellFoundedInduction, TLAPS

\* The statuses runJob leaves a job with.
Settled(s) == Done(s) \/ jobStatusFailed(s) \/ Left(s)

\* The statuses of a stage behind which RunStages goes on: running, when every job of it was
\* left, stops it as little as a completed one.
Behind(s) == Done(s) \/ s = "running"

\* The stage whose jobs are run.
Current(s) == main.pc \in {"jobs", "status"} /\ main.stage = s

\* The status of a job and the step of the goroutine that executes it.
WorkerOk(pc, orig, v) ==
  /\ pc \in {"started", "announce", "run", "rerun"} => v = "prepare"
  /\ pc = "wait" => v = "wait" /\ orig \in {"failed", "timeout"}
  /\ pc \in {"retry", "decided", "end", "report"} => Settled(v)
  /\ pc = "retry" => v \notin {"passed", "skipped"}

\* RunStages goes on only behind completed stages, or left ones.
MainInv ==
  /\ main.pc \in {"jobs", "status", "finish"} => main.stage \in Stages
  /\ main.pc # "idle" =>
       /\ status = "running"
       /\ \A s \in Stages : s < main.stage => Behind(stage[s].status)
  /\ main.pc \in {"jobs", "status"} =>
       /\ stage[main.stage].status = "running"
       /\ main.stage \in ManualStages => stage[main.stage].executed
  /\ main.pc = "finish" => statusStopped(stage[main.stage].status)

\* A stage that was passed has only jobs that are completed or left.
StageDone ==
  \A j \in Jobs : Behind(stage[StageOf[j]].status) /\ ~Current(StageOf[j]) => Over(job[j])

PassedInv == status = "passed" => \A s \in Stages : Behind(stage[s].status)

\* Behind a stage that was never executed by hand no job has run.
ManualInv ==
  /\ \A s \in ManualStages : Behind(stage[s].status) => stage[s].executed
  /\ \A s \in Stages : stage[s].status = "pause" => s \in ManualStages /\ ~stage[s].executed
  /\ \A s \in ManualStages, j \in Jobs :
       ~stage[s].executed /\ s <= StageOf[j] => job[j] \in {"", "skipped"}

\* A worker has a job of the stage that was handed out, and nobody else has it.
WorkerInv ==
  /\ \A w \in Workers : ~Idle(w) =>
       /\ main.pc = "jobs" /\ w <= concurrency(main.stage)
       /\ worker[w].job \in JobsOf(main.stage) \ main.todo
       /\ WorkerOk(worker[w].pc, worker[w].orig, job[worker[w].job])
  /\ \A w, x \in Workers : w # x /\ ~Idle(w) /\ ~Idle(x) => worker[w].job # worker[x].job

\* Jobs are handed out in order, and what was handed out is at work or settled.
TodoInv ==
  main.pc = "jobs" =>
    /\ main.todo \subseteq JobsOf(main.stage)
    /\ \A k \in main.todo, j \in JobsOf(main.stage) \ main.todo : j < k
    /\ \A j \in JobsOf(main.stage) \ main.todo :
         Settled(job[j]) \/ \E w \in Workers : ~Idle(w) /\ worker[w].job = j

\* RunJobs returns when all jobs are settled or, without a pool, one failed.
StatusInv ==
  main.pc = "status" =>
    \/ \A j \in JobsOf(main.stage) : Settled(job[j])
    \/ \E j \in JobsOf(main.stage) : jobStatusFailed(job[j])

SerialInv ==
  concurrency(main.stage) = 1 =>
    \A w \in Workers : ~Idle(w) =>
      \A k \in JobsOf(main.stage) : k < worker[w].job => Over(job[k])

IInv ==
  /\ TypeOK /\ MainInv /\ StageDone /\ PassedInv /\ ManualInv
  /\ WorkerInv /\ TodoInv /\ StatusInv /\ SerialInv

\* What DoneStays says of a step.
Stays == \A j \in Jobs : Done(job[j]) /\ job'[j] # job[j] => Retried(j) \/ Remade(j)

-----------------------------------------------------------------------------
(* The status of highest priority.                                           *)

\* The completed statuses come first, then those that stop the stages.
Ranks(p) ==
  /\ DOMAIN p = 1..8
  /\ \A i \in 1..8 : /\ p[i] \in StageStatus
                      /\ IF i <= 3 THEN Done(p[i]) /\ ~statusStopped(p[i])
                         ELSE ~Done(p[i]) /\ statusStopped(p[i])
  /\ \A s : Done(s) \/ statusStopped(s) => \E i \in 1..8 : s = p[i]

LEMMA Ranked ==
  ASSUME NEW p, DOMAIN p = 1..8,
         p[1] = "skipped", p[2] = "unstable", p[3] = "passed",
         {p[4], p[5], p[6], p[7], p[8]} = {"reject", "pause", "failed", "timeout", "cancelled"}
  PROVE  Ranks(p)
<1>1. ASSUME NEW i \in 1..8, i <= 3
      PROVE  p[i] \in StageStatus /\ Done(p[i]) /\ ~statusStopped(p[i])
  <2>1. i = 1 \/ i = 2 \/ i = 3 BY <1>1
  <2>2. p[i] \in {"skipped", "unstable", "passed"} BY <2>1
  <2> QED BY <2>2 DEF StageStatus, JobStatus, Done, statusStopped
<1>2. ASSUME NEW i \in 1..8, ~(i <= 3)
      PROVE  p[i] \in StageStatus /\ ~Done(p[i]) /\ statusStopped(p[i])
  <2>1. i = 4 \/ i = 5 \/ i = 6 \/ i = 7 \/ i = 8 BY <1>2
  <2>2. p[i] \in {p[4], p[5], p[6], p[7], p[8]} BY <2>1
  <2> QED BY <2>2 DEF StageStatus, JobStatus, Done, statusStopped
<1>3. ASSUME NEW s, Done(s) \/ statusStopped(s)
      PROVE  \E i \in 1..8 : s = p[i]
  <2>1. s \in {p[1], p[2], p[3]} \/ s \in {p[4], p[5], p[6], p[7], p[8]}
    BY <1>3 DEF Done, statusStopped
  <2> QED BY <2>1
<1> QED BY <1>1, <1>2, <1>3 DEF Ranks

LEMMA Priorities == Ranks(jobPriority) /\ Ranks(stagePriority)
<1>1. Ranks(jobPriority)
  <2>1. DOMAIN jobPriority = 1..8 BY DEF jobPriority
  <2>2. /\ jobPriority[1] = "skipped" /\ jobPriority[2] = "unstable" /\ jobPriority[3] = "passed"
        /\ jobPriority[4] = "reject" /\ jobPriority[5] = "pause" /\ jobPriority[6] = "failed"
        /\ jobPriority[7] = "timeout" /\ jobPriority[8] = "cancelled"
    BY DEF jobPriority
  <2> QED BY <2>1, <2>2, Ranked
<1>2. Ranks(stagePriority)
  <2>1. DOMAIN stagePriority = 1..8 BY DEF stagePriority
  <2>2. /\ stagePriority[1] = "skipped" /\ stagePriority[2] = "unstable"
        /\ stagePriority[3] = "passed" /\ stagePriority[4] = "failed"
        /\ stagePriority[5] = "timeout" /\ stagePriority[6] = "cancelled"
        /\ stagePriority[7] = "reject" /\ stagePriority[8] = "pause"
    BY DEF stagePriority
  <2>3. {stagePriority[4], stagePriority[5], stagePriority[6], stagePriority[7], stagePriority[8]}
          = {"reject", "pause", "failed", "timeout", "cancelled"}
    BY <2>2
  <2> QED BY <2>1, <2>2, <2>3, Ranked
<1> QED BY <1>1, <1>2

\* A set of places in the list has a last one.
LEMMA HasLast ==
  ASSUME NEW A, \E i \in 1..8 : i \in A
  PROVE  \E i \in 1..8 : i \in A /\ \A k \in 1..8 : k \in A => k <= i
<1>1. CASE 8 \in A BY <1>1
<1>2. CASE 8 \notin A /\ 7 \in A BY <1>2
<1>3. CASE 8 \notin A /\ 7 \notin A /\ 6 \in A BY <1>3
<1>4. CASE 8 \notin A /\ 7 \notin A /\ 6 \notin A /\ 5 \in A BY <1>4
<1>5. CASE 8 \notin A /\ 7 \notin A /\ 6 \notin A /\ 5 \notin A /\ 4 \in A BY <1>5
<1>6. CASE 8 \notin A /\ 7 \notin A /\ 6 \notin A /\ 5 \notin A /\ 4 \notin A /\ 3 \in A BY <1>6
<1>7. CASE /\ 8 \notin A /\ 7 \notin A /\ 6 \notin A /\ 5 \notin A /\ 4 \notin A /\ 3 \notin A
           /\ 2 \in A
  BY <1>7
<1>8. CASE /\ 8 \notin A /\ 7 \notin A /\ 6 \notin A /\ 5 \notin A /\ 4 \notin A /\ 3 \notin A
           /\ 2 \notin A
  BY <1>8
<1> QED BY <1>1, <1>2, <1>3, <1>4, <1>5, <1>6, <1>7, <1>8

\* The result is a status of the set that none exceeds.
LEMMA WorstIsLast ==
  ASSUME NEW p, DOMAIN p = 1..8, NEW S, \E i \in 1..8 : p[i] \in S
  PROVE  \E i \in 1..8 : /\ worst(p, S) = p[i] /\ p[i] \in S
                         /\ \A k \in 1..8 : p[k] \in S => k <= i
<1> DEFINE Last(i) == p[i] \in S /\ \A k \in 1..8 : p[k] \in S => k <= i
<1>1. \E i \in 1..8 : Last(i)
  <2> DEFINE A == {i \in 1..8 : p[i] \in S}
  <2>1. \E i \in 1..8 : i \in A OBVIOUS
  <2>2. \E i \in 1..8 : i \in A /\ \A k \in 1..8 : k \in A => k <= i BY <2>1, HasLast
  <2> QED BY <2>2
<1>2. S # {} OBVIOUS
<1>3. worst(p, S) = p[CHOOSE i \in 1..8 : Last(i)] BY <1>2 DEF worst
<1> HIDE DEF Last
<1>4. (CHOOSE i \in 1..8 : Last(i)) \in 1..8 /\ Last(CHOOSE i \in 1..8 : Last(i)) BY <1>1
<1> QED BY <1>3, <1>4 DEF Last

\* What updateStageStatus, updateworkflowStatus and aggregateJobNotifyStatus rely on:
\* a status that counts as completed hides no other.
LEMMA WorstOf ==
  ASSUME NEW p \in {jobPriority, stagePriority}, NEW S
  PROVE  /\ worst(p, S) \in StageStatus
         /\ worst(p, S) \in S \cup {"skipped", "running"}
         /\ Done(worst(p, S)) => \A s \in S : ~statusStopped(s)
         /\ (S = {} \/ \E s \in S : Done(s) \/ statusStopped(s))
              => Done(worst(p, S)) \/ statusStopped(worst(p, S))
         /\ worst(p, S) = "running" \/ Done(worst(p, S)) \/ statusStopped(worst(p, S))
<1>0. Ranks(p) BY Priorities
<1>1. CASE S = {}
  <2>1. worst(p, S) = "skipped" BY <1>1 DEF worst
  <2> QED BY <1>1, <2>1 DEF StageStatus, JobStatus, Done
<1>2. CASE S # {} /\ ~\E i \in 1..8 : p[i] \in S
  <2>1. worst(p, S) = "running" BY <1>0, <1>2 DEF worst, Ranks
  <2>2. ~\E s \in S : Done(s) \/ statusStopped(s) BY <1>0, <1>2 DEF Ranks
  <2> QED BY <1>2, <2>1, <2>2 DEF StageStatus, JobStatus, Done
<1>3. CASE \E i \in 1..8 : p[i] \in S
  <2>1. PICK i \in 1..8 : /\ worst(p, S) = p[i] /\ p[i] \in S
                          /\ \A k \in 1..8 : p[k] \in S => k <= i
    BY <1>0, <1>3, WorstIsLast DEF Ranks
  <2>2. /\ p[i] \in StageStatus /\ (Done(p[i]) => i <= 3)
        /\ Done(p[i]) \/ statusStopped(p[i])
    BY <1>0 DEF Ranks
  <2>3. ASSUME Done(p[i]), NEW s \in S, statusStopped(s) PROVE FALSE
    <3>1. PICK k \in 1..8 : s = p[k] BY <1>0, <2>3 DEF Ranks
    <3>2. ~(k <= 3) BY <1>0, <2>3, <3>1 DEF Ranks
    <3>3. k <= i /\ i <= 3 BY <2>1, <2>2, <2>3, <3>1
    <3> QED BY <3>2, <3>3
  <2> QED BY <2>1, <2>2, <2>3
<1> QED BY <1>1, <1>2, <1>3

-----------------------------------------------------------------------------
(* Steps of the workers.                                                     *)

LEMMA WorkerFields ==
  ASSUME NEW x \in WorkerRec
  PROVE  /\ x.pc \in {"idle", "begin", "started", "announce", "run", "retry", "rerun",
                       "wait", "decided", "end", "report"}
         /\ x.job \in Jobs \cup {None} /\ x.orig \in StageStatus /\ x.n \in Nat
BY DEF WorkerRec

LEMMA IdleRecord == IdleWorker \in WorkerRec /\ IdleWorker.pc = "idle"
BY DEF IdleWorker, WorkerRec, StageStatus, JobStatus

\* The job of a worker that is not idle, and what the invariant says of the two.
LEMMA WorkerJob ==
  ASSUME IInv, NEW w \in Workers, worker[w].pc # "idle"
  PROVE  /\ worker[w] \in WorkerRec /\ main.pc = "jobs" /\ main.stage \in Stages
         /\ w <= concurrency(main.stage)
         /\ worker[w].job \in Jobs /\ StageOf[worker[w].job] = main.stage
         /\ worker[w].job \in JobsOf(main.stage) \ main.todo
         /\ job[worker[w].job] \in JobStatus
         /\ WorkerOk(worker[w].pc, worker[w].orig, job[worker[w].job])
BY DEF IInv, TypeOK, WorkerInv, MainInv, Idle, JobsOf

\* A step of worker w, which then is x, that leaves its job with status v.
WorkerMove(w, x, v) ==
  /\ worker[w].pc # "idle"
  /\ x \in WorkerRec /\ v \in JobStatus
  /\ worker' = [worker EXCEPT ![w] = x]
  /\ job' = [job EXCEPT ![worker[w].job] = v]
  /\ x.pc = "idle" => Settled(v)
  /\ x.pc # "idle" => x.job = worker[w].job
  /\ WorkerOk(x.pc, x.orig, v)
  /\ Done(job[worker[w].job]) /\ v # job[worker[w].job] =>
       job[worker[w].job] = "unstable" /\ worker[w].pc = "retry"
  /\ UNCHANGED <<stage, status, main, ctx, used>>
  /\ decision' \in [Jobs -> {"none", "ignore", "reject"}]
  /\ group' \in [Groups -> GroupRec] /\ snap' \in [Jobs -> JobStatus]
  /\ sent' \in [Groups -> Seq(StageStatus)]

LEMMA WorkerMoves ==
  ASSUME IInv, NEW w \in Workers, NEW x, NEW v, WorkerMove(w, x, v)
  PROVE  IInv' /\ Stays
<1> DEFINE j == worker[w].job
<1>1. /\ worker[w].pc # "idle" /\ x \in WorkerRec /\ v \in JobStatus
      /\ worker' = [worker EXCEPT ![w] = x] /\ job' = [job EXCEPT ![j] = v]
      /\ x.pc = "idle" => Settled(v)
      /\ x.pc # "idle" => x.job = j
      /\ WorkerOk(x.pc, x.orig, v)
      /\ UNCHANGED <<stage, status, main, ctx, used>>
  BY DEF WorkerMove
<1>2. /\ main.pc = "jobs" /\ main.stage \in Stages /\ w <= concurrency(main.stage)
      /\ j \in Jobs /\ StageOf[j] = main.stage /\ j \in JobsOf(main.stage) \ main.todo
  BY <1>1, WorkerJob
<1>3. /\ \A y \in Workers : worker'[y] = IF y = w THEN x ELSE worker[y]
      /\ \A k \in Jobs : job'[k] = IF k = j THEN v ELSE job[k]
  BY <1>1, <1>2 DEF IInv, TypeOK
<1>4. TypeOK' BY <1>1, <1>2 DEF IInv, TypeOK, WorkerMove
<1>5. MainInv' /\ PassedInv' BY <1>1 DEF IInv, MainInv, PassedInv
<1>6. stage[main.stage].status = "running" /\ (main.stage \in ManualStages => stage[main.stage].executed)
  BY <1>2 DEF IInv, MainInv
<1> HIDE DEF j
<1>7. StageDone' BY <1>1, <1>2, <1>3 DEF IInv, StageDone, Current
<1>8. ManualInv'
  <2>1. \A s \in ManualStages : s <= StageOf[j] => stage[s].executed
    <3> SUFFICES ASSUME NEW s \in ManualStages, s <= StageOf[j] PROVE stage[s].executed OBVIOUS
    <3>1. s \in Stages /\ (s = main.stage \/ s < main.stage)
      BY <1>2, PolicyAssumption DEF Stages
    <3> QED BY <1>2, <1>6, <3>1 DEF IInv, MainInv, ManualInv
  <2> QED BY <1>1, <1>3, <2>1 DEF IInv, ManualInv
<1>9. WorkerInv'
  <2>1. \A y \in Workers : y # w /\ worker[y].pc # "idle" => worker[y].job \in Jobs /\ worker[y].job # j
    BY <1>1, WorkerJob DEF IInv, WorkerInv, Idle, j
  <2>2. \A y \in Workers : ~Idle(y)' =>
         /\ main.pc = "jobs" /\ y <= concurrency(main.stage)
         /\ worker'[y].job \in JobsOf(main.stage) \ main.todo
         /\ WorkerOk(worker'[y].pc, worker'[y].orig, job'[worker'[y].job])
    <3> SUFFICES ASSUME NEW y \in Workers, worker'[y].pc # "idle"
                 PROVE  /\ main.pc = "jobs" /\ y <= concurrency(main.stage)
                        /\ worker'[y].job \in JobsOf(main.stage) \ main.todo
                        /\ WorkerOk(worker'[y].pc, worker'[y].orig, job'[worker'[y].job])
      BY DEF Idle
    <3>1. CASE y = w BY <1>1, <1>2, <1>3, <3>1
    <3>2. CASE y # w
      <4>1. worker'[y] = worker[y] /\ job'[worker[y].job] = job[worker[y].job]
        BY <1>3, <2>1, <3>2
      <4> QED BY <4>1, WorkerJob
    <3> QED BY <3>1, <3>2
  <2>3. \A y, z \in Workers : y # z /\ ~Idle(y)' /\ ~Idle(z)' => worker'[y].job # worker'[z].job
    BY <1>1, <1>3, <2>1 DEF Idle, IInv, WorkerInv
  <2> QED BY <1>1, <2>2, <2>3 DEF WorkerInv, Idle
<1>10. TodoInv'
  <2>1. /\ main.todo \subseteq JobsOf(main.stage)
        /\ \A k \in main.todo, i \in JobsOf(main.stage) \ main.todo : i < k
        /\ \A i \in JobsOf(main.stage) \ main.todo :
             Settled(job[i]) \/ \E y \in Workers : worker[y].pc # "idle" /\ worker[y].job = i
    BY <1>2 DEF IInv, TodoInv, Idle
  <2>2. ASSUME NEW i \in JobsOf(main.stage) \ main.todo
        PROVE  Settled(job'[i]) \/ \E y \in Workers : worker'[y].pc # "idle" /\ worker'[y].job = i
    <3>1. i \in Jobs BY DEF JobsOf
    <3>2. CASE i = j BY <1>1, <1>3, <3>1, <3>2
    <3>3. CASE i # j BY <1>3, <2>1, <3>1, <3>3 DEF j
    <3> QED BY <3>2, <3>3
  <2> QED BY <1>1, <2>1, <2>2 DEF TodoInv, Idle
<1>11. StatusInv' BY <1>1, <1>2 DEF StatusInv
<1>12. SerialInv'
  <2> SUFFICES ASSUME concurrency(main.stage) = 1, NEW y \in Workers, worker'[y].pc # "idle",
                      NEW k \in JobsOf(main.stage), k < worker'[y].job
               PROVE  Over(job'[k])
    BY <1>1 DEF SerialInv, Idle
  <2>1. y = w
    <3>1. y # w => worker[y].pc # "idle" BY <1>3
    <3>2. y # w => y <= 1 BY <3>1, WorkerJob
    <3> QED BY <1>2, <3>2, BuildAssumption DEF Workers
  <2>2. worker'[y].job = j /\ k \in Jobs /\ j \in Nat
    BY <1>1, <1>2, <1>3, <2>1, ShapeAssumption DEF JobsOf
  <2>3. k # j BY <2>2
  <2>4. Over(job[k]) BY <1>1, <2>2 DEF IInv, SerialInv, Idle, j
  <2> QED BY <1>3, <2>2, <2>3, <2>4
<1>13. Stays
  <2> SUFFICES ASSUME NEW k \in Jobs, Done(job[k]), job'[k] # job[k] PROVE Retried(k)
    BY DEF Stays
  <2>1. k = j /\ v # job[j] BY <1>3
  <2> QED BY <2>1 DEF WorkerMove, Retried, j
<1> QED BY <1>4, <1>5, <1>7, <1>8, <1>9, <1>10, <1>11, <1>12, <1>13 DEF IInv

Pcs == {"idle", "begin", "started", "announce", "run", "retry", "rerun",
        "wait", "decided", "end", "report"}

\* Step as a WorkerMove.
LEMMA Stepped ==
  ASSUME IInv, NEW w \in Workers, NEW from, NEW to \in Pcs, Step(w, from, to), from # "idle"
  PROVE  LET x == [worker[w] EXCEPT !.pc = to] IN
         /\ worker[w].pc = from /\ worker[w].pc # "idle"
         /\ worker' = [worker EXCEPT ![w] = x]
         /\ x \in WorkerRec /\ x.pc = to /\ x.job = worker[w].job /\ x.orig = worker[w].orig
BY DEF IInv, TypeOK, Step, WorkerRec, Pcs

\* runJob's steps that write the job's status, or leave it, and nothing else.
LEMMA OnlyJobMoves ==
  ASSUME IInv, NEW w \in Workers, NEW from, NEW to \in Pcs \ {"idle"}, Step(w, from, to),
         from # "idle", NEW v \in JobStatus,
         job' = [job EXCEPT ![worker[w].job] = v],
         WorkerOk(to, worker[w].orig, v),
         Done(job[worker[w].job]) /\ v # job[worker[w].job] =>
           job[worker[w].job] = "unstable" /\ from = "retry",
         OnlyJob
  PROVE  IInv' /\ Stays
<1> DEFINE x == [worker[w] EXCEPT !.pc = to]
<1>1. /\ worker[w].pc = from /\ worker[w].pc # "idle"
      /\ worker' = [worker EXCEPT ![w] = x]
      /\ x \in WorkerRec /\ x.pc = to /\ x.job = worker[w].job /\ x.orig = worker[w].orig
  BY Stepped
<1>2. WorkerOk(x.pc, x.orig, v) BY <1>1
<1> HIDE DEF x
<1>3. WorkerMove(w, x, v) BY <1>1, <1>2 DEF WorkerMove, OnlyJob, IInv, TypeOK
<1> QED BY <1>3, WorkerMoves

\* A status that is not written.
LEMMA SameJob ==
  ASSUME IInv, NEW w \in Workers, worker[w].pc # "idle", UNCHANGED job
  PROVE  job' = [job EXCEPT ![worker[w].job] = job[worker[w].job]]
BY WorkerJob DEF IInv, TypeOK

\* runJob is left, with a status a job can be left with.
LEMMA EndMoves ==
  ASSUME IInv, NEW w \in Workers, NEW from, Step(w, from, "end"), from # "idle",
         NEW v \in JobStatus, Settled(v),
         job' = [job EXCEPT ![worker[w].job] = v],
         Done(job[worker[w].job]) /\ v # job[worker[w].job] =>
           job[worker[w].job] = "unstable" /\ from = "retry",
         OnlyJob
  PROVE  IInv' /\ Stays
<1>1. WorkerOk("end", worker[w].orig, v) BY DEF WorkerOk
<1>2. "end" \in Pcs \ {"idle"} BY DEF Pcs
<1> QED BY <1>1, <1>2, OnlyJobMoves

LEMMA EndStatuses ==
  \A s \in {"failed", "skipped", "unstable", "cancelled", "timeout"} : s \in JobStatus /\ Settled(s)
BY DEF JobStatus, Settled, Done, jobStatusFailed

LEMMA BeginMoves ==
  ASSUME IInv, NEW w \in Workers, RenderFails(w) \/ PolicySkips(w) \/ Prepare(w)
  PROVE  IInv' /\ Stays
<1>1. CASE RenderFails(w)
  <2>1. /\ Step(w, "begin", "end") /\ OnlyJob /\ ~Done(job[worker[w].job])
        /\ job' = [job EXCEPT ![worker[w].job] = "failed"]
    BY <1>1 DEF RenderFails, Write
  <2> QED BY <2>1, EndStatuses, EndMoves
<1>2. CASE PolicySkips(w)
  <2>1. /\ Step(w, "begin", "end") /\ OnlyJob /\ ~Done(job[worker[w].job])
        /\ job' = [job EXCEPT ![worker[w].job] = "skipped"]
    BY <1>2 DEF PolicySkips, Write
  <2> QED BY <2>1, EndStatuses, EndMoves
<1>3. CASE Prepare(w)
  <2>1. /\ Step(w, "begin", "started") /\ OnlyJob /\ ~Done(job[worker[w].job])
        /\ job' = [job EXCEPT ![worker[w].job] = "prepare"]
    BY <1>3 DEF Prepare, Write
  <2>2. WorkerOk("started", worker[w].orig, "prepare") BY DEF WorkerOk
  <2>3. "started" \in Pcs \ {"idle"} /\ "prepare" \in JobStatus BY DEF Pcs, JobStatus
  <2> QED BY <2>1, <2>2, <2>3, OnlyJobMoves
<1> QED BY <1>1, <1>2, <1>3

LEMMA OutcomeSettled ==
  ASSUME NEW o \in Outcomes
  PROVE  o \in JobStatus /\ o \in StageStatus /\ Settled(o) /\ o # "skipped"
BY EndAssumption DEF JobStatus, StageStatus, Settled, Done, jobStatusFailed, Left

LEMMA RunMoves ==
  ASSUME IInv, NEW w \in Workers,
         Panic(w) \/ WaitCancelled(w) \/ RetryOver(w) \/ RetryCancelled(w) \/ RetryAgain(w)
  PROVE  IInv' /\ Stays
<1> DEFINE j == worker[w].job
<1>1. CASE Panic(w)
  <2>1. Step(w, "run", "end") /\ OnlyJob /\ job' = [job EXCEPT ![j] = "failed"]
    BY <1>1 DEF Panic, Write
  <2>2. worker[w].pc = "run" BY <2>1 DEF Step
  <2>3. ~Done(job[j]) BY <2>2, WorkerJob DEF WorkerOk, Done
  <2> QED BY <2>1, <2>3, EndStatuses, EndMoves
<1>2. CASE WaitCancelled(w)
  <2>1. Step(w, "wait", "end") /\ OnlyJob /\ job' = [job EXCEPT ![j] = "cancelled"]
    BY <1>2 DEF WaitCancelled, Write
  <2>2. worker[w].pc = "wait" BY <2>1 DEF Step
  <2>3. ~Done(job[j]) BY <2>2, WorkerJob DEF WorkerOk, Done
  <2> QED BY <2>1, <2>3, EndStatuses, EndMoves
<1>3. CASE RetryOver(w)
  <2>1. Step(w, "retry", "end") /\ OnlyJob /\ UNCHANGED job BY <1>3 DEF RetryOver
  <2>2. worker[w].pc = "retry" BY <2>1 DEF Step
  <2>3. Settled(job[j]) /\ job[j] \in JobStatus BY <2>2, WorkerJob DEF WorkerOk
  <2>4. job' = [job EXCEPT ![j] = job[j]] BY <2>1, <2>2, SameJob
  <2> QED BY <2>1, <2>3, <2>4, EndMoves
<1>4. CASE RetryCancelled(w) \/ RetryAgain(w)
  <2>1. worker[w].pc = "retry" BY <1>4 DEF RetryCancelled, RetryAgain, Step
  <2>2. job[j] \notin {"passed", "skipped"} BY <2>1, WorkerJob DEF WorkerOk
  <2>3. Done(job[j]) => job[j] = "unstable" BY <2>2 DEF Done
  <2>4. CASE RetryCancelled(w)
    <3>1. Step(w, "retry", "end") /\ OnlyJob /\ job' = [job EXCEPT ![j] = "cancelled"]
      BY <2>4 DEF RetryCancelled, Write
    <3> QED BY <2>3, <3>1, EndStatuses, EndMoves
  <2>5. CASE RetryAgain(w)
    <3>1. Step(w, "retry", "rerun") /\ OnlyJob /\ job' = [job EXCEPT ![j] = "prepare"]
      BY <2>5 DEF RetryAgain, Write
    <3>2. WorkerOk("rerun", worker[w].orig, "prepare") BY DEF WorkerOk
    <3>3. "rerun" \in Pcs \ {"idle"} /\ "prepare" \in JobStatus BY DEF Pcs, JobStatus
    <3> QED BY <2>3, <3>1, <3>2, <3>3, OnlyJobMoves
  <2> QED BY <1>4, <2>4, <2>5
<1> QED BY <1>1, <1>2, <1>3, <1>4

LEMMA RunEndsMoves ==
  ASSUME IInv, NEW w \in Workers, NEW o \in Outcomes, RunEnds(w, o)
  PROVE  IInv' /\ Stays
<1> DEFINE v == IF Failed(o) /\ Policy[worker[w].job] = "ignore" THEN "unstable" ELSE o
<1>1. /\ Step(w, "run", "end") /\ OnlyJob /\ job' = [job EXCEPT ![worker[w].job] = v]
  BY DEF RunEnds, Write
<1>2. worker[w].pc = "run" BY <1>1 DEF Step
<1>3. ~Done(job[worker[w].job]) BY <1>2, WorkerJob DEF WorkerOk, Done
<1>4. v \in JobStatus /\ Settled(v) BY OutcomeSettled, EndStatuses
<1> HIDE DEF v
<1> QED BY <1>1, <1>3, <1>4, EndMoves

LEMMA RunFailsMoves ==
  ASSUME IInv, NEW w \in Workers, NEW o \in Outcomes, RunFails(w, o)
  PROVE  IInv' /\ Stays
<1> DEFINE j == worker[w].job
<1>1. worker[w].pc = "run" /\ worker[w].pc # "idle" /\ o \in {"failed", "timeout"}
  BY DEF RunFails, Failed
<1>2. job[j] = "prepare" /\ worker[w] \in WorkerRec BY <1>1, WorkerJob DEF WorkerOk
<1>3. OnlyJob BY DEF RunFails
<1>4. CASE Policy[j] = "retry"
  <2> DEFINE x == [worker[w] EXCEPT !.pc = "retry", !.n = 1]
  <2>1. worker' = [worker EXCEPT ![w] = x] /\ job' = [job EXCEPT ![j] = o]
    BY <1>4 DEF RunFails, Write, IInv, TypeOK
  <2>2. x \in WorkerRec /\ x.pc = "retry" /\ x.job = j BY <1>2 DEF WorkerRec
  <2>3. WorkerOk(x.pc, x.orig, o) /\ o \in JobStatus BY <1>1, <2>2, OutcomeSettled DEF WorkerOk
  <2> HIDE DEF x
  <2>4. WorkerMove(w, x, o)
    BY <1>1, <1>2, <1>3, <2>1, <2>2, <2>3 DEF WorkerMove, OnlyJob, IInv, TypeOK, Done
  <2> QED BY <2>4, WorkerMoves
<1>5. CASE Policy[j] # "retry"
  <2> DEFINE x == [worker[w] EXCEPT !.pc = "wait", !.orig = o]
  <2>1. worker' = [worker EXCEPT ![w] = x] /\ job' = [job EXCEPT ![j] = "wait"]
    BY <1>5 DEF RunFails, Write, IInv, TypeOK
  <2>2. x \in WorkerRec /\ x.pc = "wait" /\ x.job = j /\ x.orig = o
    BY <1>2, OutcomeSettled DEF WorkerRec
  <2>3. WorkerOk(x.pc, x.orig, "wait") /\ "wait" \in JobStatus BY <1>1, <2>2 DEF WorkerOk, JobStatus
  <2> HIDE DEF x
  <2>4. WorkerMove(w, x, "wait")
    BY <1>1, <1>2, <1>3, <2>1, <2>2, <2>3 DEF WorkerMove, OnlyJob, IInv, TypeOK, Done
  <2> QED BY <2>4, WorkerMoves
<1> QED BY <1>4, <1>5

LEMMA RerunEndsMoves ==
  ASSUME IInv, NEW w \in Workers, NEW o \in Outcomes, RerunEnds(w, o)
  PROVE  IInv' /\ Stays
<1> DEFINE j == worker[w].job
           to == IF o = "passed" THEN "end" ELSE "retry"
           m == worker[w].n + 1
           x == [worker[w] EXCEPT !.pc = to, !.n = m]
<1>1. worker[w].pc = "rerun" /\ worker[w].pc # "idle" BY DEF RerunEnds
<1>2. job[j] = "prepare" /\ worker[w] \in WorkerRec /\ worker[w].n \in Nat
  BY <1>1, WorkerJob, WorkerFields DEF WorkerOk
<1>3. OnlyJob BY DEF RerunEnds
<1>4. worker' = [worker EXCEPT ![w] = x] /\ job' = [job EXCEPT ![j] = o]
  BY DEF RerunEnds, Write, IInv, TypeOK
<1>5. to \in {"end", "retry"} /\ (to = "retry" => o # "passed") OBVIOUS
<1>10. m \in Nat BY <1>2
<1> HIDE DEF to, m
<1>6. x \in WorkerRec /\ x.pc = to /\ x.job = j BY <1>2, <1>5, <1>10 DEF WorkerRec
<1> HIDE DEF x
<1>7. WorkerOk(x.pc, x.orig, o) /\ o \in JobStatus BY <1>5, <1>6, OutcomeSettled DEF WorkerOk
<1>8. x.pc # "idle" BY <1>5, <1>6
<1>9. WorkerMove(w, x, o)
  BY <1>1, <1>2, <1>3, <1>4, <1>6, <1>7, <1>8 DEF WorkerMove, OnlyJob, IInv, TypeOK, Done
<1> QED BY <1>9, WorkerMoves

LEMMA DecisionMoves ==
  ASSUME IInv, NEW w \in Workers, GetDecision(w) \/ DeleteDecision(w)
  PROVE  IInv' /\ Stays
<1> DEFINE j == worker[w].job
<1>1. CASE GetDecision(w)
  <2> DEFINE v == IF decision[j] = "ignore" THEN "unstable" ELSE worker[w].orig
  <2>1. worker[w].pc = "wait" BY <1>1 DEF GetDecision, Step
  <2>2. job[j] = "wait" /\ worker[w].orig \in {"failed", "timeout"}
    BY <2>1, WorkerJob DEF WorkerOk
  <2>3. v \in JobStatus /\ Settled(v) BY <2>2 DEF JobStatus, Settled, Done, jobStatusFailed
  <2>4. Step(w, "wait", "decided") /\ OnlyJob /\ job' = [job EXCEPT ![j] = v]
    BY <1>1 DEF GetDecision, Write
  <2> HIDE DEF v
  <2>5. WorkerOk("decided", worker[w].orig, v) BY <2>3 DEF WorkerOk
  <2>6. "decided" \in Pcs \ {"idle"} BY DEF Pcs
  <2>7. ~Done(job[j]) BY <2>2 DEF Done
  <2> QED BY <2>3, <2>4, <2>5, <2>6, <2>7, OnlyJobMoves
<1>2. CASE DeleteDecision(w)
  <2> DEFINE x == [worker[w] EXCEPT !.pc = "end"]
  <2>1. /\ worker[w].pc = "decided" /\ worker[w].pc # "idle"
        /\ worker' = [worker EXCEPT ![w] = x]
        /\ x \in WorkerRec /\ x.pc = "end" /\ x.job = j
    <3>1. Step(w, "decided", "end") /\ "end" \in Pcs BY <1>2 DEF DeleteDecision, Pcs
    <3> QED BY <3>1, Stepped
  <2>2. Settled(job[j]) /\ job[j] \in JobStatus /\ j \in Jobs BY <2>1, WorkerJob DEF WorkerOk
  <2>3. job' = [job EXCEPT ![j] = job[j]] BY <1>2, <2>1, SameJob DEF DeleteDecision
  <2>4. decision' \in [Jobs -> {"none", "ignore", "reject"}]
    BY <1>2 DEF DeleteDecision, NoDecision, IInv, TypeOK
  <2> HIDE DEF x
  <2>5. WorkerOk(x.pc, x.orig, job[j]) BY <2>1, <2>2 DEF WorkerOk
  <2>6. WorkerMove(w, x, job[j])
    BY <1>2, <2>1, <2>2, <2>3, <2>4, <2>5 DEF WorkerMove, DeleteDecision, IInv, TypeOK
  <2> QED BY <2>6, WorkerMoves
<1> QED BY <1>1, <1>2

\* The worker returns from runJob: its job is settled.
LEMMA IdleMoves ==
  ASSUME IInv, NEW w \in Workers, worker[w].pc # "idle", Settled(job[worker[w].job]),
         worker' = [worker EXCEPT ![w] = IdleWorker],
         UNCHANGED <<job, stage, status, main, ctx, decision, used>>,
         group' \in [Groups -> GroupRec], snap' \in [Jobs -> JobStatus],
         sent' \in [Groups -> Seq(StageStatus)]
  PROVE  IInv' /\ Stays
<1> DEFINE v == job[worker[w].job]
<1>1. v \in JobStatus BY WorkerJob
<1>2. job' = [job EXCEPT ![worker[w].job] = v] BY SameJob
<1>3. WorkerOk(IdleWorker.pc, IdleWorker.orig, v) BY IdleRecord DEF WorkerOk
<1>4. decision' \in [Jobs -> {"none", "ignore", "reject"}] BY DEF IInv, TypeOK
<1> HIDE DEF v
<1>5. Settled(v) BY DEF v
<1>6. WorkerMove(w, IdleWorker, v)
  BY <1>1, <1>2, <1>3, <1>4, <1>5, IdleRecord DEF WorkerMove, v
<1> QED BY <1>6, WorkerMoves

LEMMA SkipDoneMoves ==
  ASSUME IInv, NEW w \in Workers, SkipDone(w)
  PROVE  IInv' /\ Stays
<1>1. worker[w].pc # "idle" /\ Settled(job[worker[w].job]) BY DEF SkipDone, Settled
<1>2. /\ worker' = [worker EXCEPT ![w] = IdleWorker]
      /\ UNCHANGED <<job, stage, status, main, ctx, decision, used>>
      /\ UNCHANGED <<group, snap, sent>>
  BY DEF SkipDone, OnlyJob
<1>3. /\ group' \in [Groups -> GroupRec] /\ snap' \in [Jobs -> JobStatus]
      /\ sent' \in [Groups -> Seq(StageStatus)]
  BY <1>2 DEF IInv, TypeOK
<1> QED BY <1>1, <1>2, <1>3, IdleMoves

LEMMA GroupFields ==
  ASSUME NEW x \in GroupRec
  PROVE  /\ x.finished \in Nat /\ x.notified \in BOOLEAN
         /\ [x EXCEPT !.prepared = TRUE] \in GroupRec
         /\ [x EXCEPT !.notified = TRUE] \in GroupRec
BY DEF GroupRec

LEMMA GroupOfJob ==
  ASSUME IInv, NEW w \in Workers, worker[w].pc # "idle"
  PROVE  GroupOf[worker[w].job] \in Groups /\ group[GroupOf[worker[w].job]] \in GroupRec
BY WorkerJob, ShapeAssumption DEF IInv, TypeOK

\* The steps of jobNotifier in a worker that goes on.
LEMMA NotifierMoves ==
  ASSUME IInv, NEW w \in Workers, NEW from, NEW to \in Pcs \ {"idle"}, Step(w, from, to),
         from # "idle", WorkerOk(to, worker[w].orig, job[worker[w].job]),
         UNCHANGED <<job, stage, status, main, ctx, decision, used>>,
         group' \in [Groups -> GroupRec], snap' \in [Jobs -> JobStatus],
         sent' \in [Groups -> Seq(StageStatus)]
  PROVE  IInv' /\ Stays
<1> DEFINE x == [worker[w] EXCEPT !.pc = to]
           v == job[worker[w].job]
<1>1. /\ worker[w].pc = from /\ worker[w].pc # "idle"
      /\ worker' = [worker EXCEPT ![w] = x]
      /\ x \in WorkerRec /\ x.pc = to /\ x.job = worker[w].job /\ x.orig = worker[w].orig
  BY Stepped
<1>2. WorkerOk(x.pc, x.orig, v) BY <1>1
<1>3. v \in JobStatus BY <1>1, WorkerJob
<1>4. job' = [job EXCEPT ![worker[w].job] = v] BY <1>1, SameJob
<1>5. decision' \in [Jobs -> {"none", "ignore", "reject"}] BY DEF IInv, TypeOK
<1> HIDE DEF x
<1>6. WorkerMove(w, x, v) BY <1>1, <1>2, <1>3, <1>4, <1>5 DEF WorkerMove
<1> QED BY <1>6, WorkerMoves

LEMMA StartMoves ==
  ASSUME IInv, NEW w \in Workers, jobStarted(w) \/ Announce(w)
  PROVE  IInv' /\ Stays
<1> DEFINE j == worker[w].job
           g == GroupOf[j]
<1>1. worker[w].pc \in {"started", "announce"} BY DEF jobStarted, Announce, Step
<1>2. /\ j \in Jobs /\ job[j] \in JobStatus /\ job[j] = "prepare"
      /\ g \in Groups /\ group[g] \in GroupRec
  BY <1>1, WorkerJob, GroupOfJob DEF WorkerOk
<1>3. \A to \in {"run", "announce"} : to \in Pcs \ {"idle"} /\ WorkerOk(to, worker[w].orig, job[j])
  BY <1>2 DEF Pcs, WorkerOk
<1>4. CASE jobStarted(w)
  <2> DEFINE to == IF group[g].prepared THEN "run" ELSE "announce"
  <2>1. /\ Step(w, "started", to)
        /\ UNCHANGED <<job, stage, status, main, ctx, decision, used>> /\ UNCHANGED sent
    BY <1>4 DEF jobStarted
  <2>2. group' \in [Groups -> GroupRec] /\ snap' \in [Jobs -> JobStatus]
    <3>1. CASE group[g].prepared BY <1>4, <3>1 DEF jobStarted, IInv, TypeOK
    <3>2. CASE ~group[g].prepared
      <4>1. group' = [group EXCEPT ![g] = [group[g] EXCEPT !.prepared = TRUE]]
        BY <1>2, <1>4, <3>2 DEF jobStarted, IInv, TypeOK
      <4>2. snap' = [snap EXCEPT ![j] = job[j]] BY <1>4, <3>2 DEF jobStarted
      <4> QED BY <1>2, <4>1, <4>2, GroupFields DEF IInv, TypeOK
    <3> QED BY <3>1, <3>2
  <2>3. sent' \in [Groups -> Seq(StageStatus)] BY <2>1 DEF IInv, TypeOK
  <2>4. to \in {"run", "announce"} OBVIOUS
  <2> HIDE DEF to
  <2> QED BY <1>3, <2>1, <2>2, <2>3, <2>4, NotifierMoves
<1>5. CASE Announce(w)
  <2>1. /\ Step(w, "announce", "run")
        /\ UNCHANGED <<job, stage, status, main, ctx, decision, used>> /\ UNCHANGED <<group, snap>>
        /\ sent' = [sent EXCEPT ![g] = Append(sent[g], "prepare")]
    BY <1>5 DEF Announce
  <2>2. Append(sent[g], "prepare") \in Seq(StageStatus)
    <3>1. sent[g] \in Seq(StageStatus) BY <1>2 DEF IInv, TypeOK
    <3>2. "prepare" \in StageStatus BY DEF StageStatus, JobStatus
    <3> QED BY <3>1, <3>2
  <2>3. sent' \in [Groups -> Seq(StageStatus)] BY <2>1, <2>2 DEF IInv, TypeOK
  <2>4. group' \in [Groups -> GroupRec] /\ snap' \in [Jobs -> JobStatus]
    BY <2>1 DEF IInv, TypeOK
  <2> QED BY <1>3, <2>1, <2>3, <2>4, NotifierMoves
<1> QED BY <1>4, <1>5

\* Jobs are numbers: a group that is not empty has a first one.
LEMMA HasFirst ==
  ASSUME NEW S, S \subseteq Jobs, S # {}
  PROVE  \E j \in S : IsFirst(j, S)
<1>1. S \subseteq Nat BY ShapeAssumption
<1>2. IsWellFoundedOn(OpToRel(<, Nat), Nat) BY NatLessThanWellFounded
<1>3. \E x \in S : \A y \in S : ~(<<y, x>> \in OpToRel(<, Nat)) BY <1>1, <1>2, WFMin
<1>4. PICK x \in S : \A y \in S : ~(<<y, x>> \in OpToRel(<, Nat)) BY <1>3
<1>5. \A y \in S : ~(y < x) BY <1>1, <1>4 DEF OpToRel
<1> QED BY <1>1, <1>5 DEF IsFirst

LEMMA AggregateTyped ==
  ASSUME NEW g, NEW f \in [Jobs -> JobStatus]
  PROVE  aggregate(g, f) \in StageStatus
<1> DEFINE W == worst(jobPriority, {f[j] : j \in Members(g)})
           j == CHOOSE i \in Members(g) : IsFirst(i, Members(g))
<1>1. W \in StageStatus BY WorstOf
<1>2. CASE W # "running" BY <1>1, <1>2 DEF aggregate
<1>3. CASE W = "running"
  <2>1. Members(g) \subseteq Jobs BY DEF Members
  <2>2. Members(g) # {}
    <3>1. Members(g) = {} => W = "skipped" BY DEF worst
    <3> QED BY <1>3, <3>1
  <2>3. \E i \in Members(g) : IsFirst(i, Members(g)) BY <2>1, <2>2, HasFirst
  <2>4. j \in Members(g) BY <2>3
  <2> HIDE DEF j
  <2>5. f[j] \in JobStatus BY <2>1, <2>4
  <2> QED BY <1>3, <2>5 DEF aggregate, j, StageStatus
<1> QED BY <1>2, <1>3

LEMMA FinishMoves ==
  ASSUME IInv, NEW w \in Workers, jobFinished(w)
  PROVE  IInv' /\ Stays
<1> DEFINE j == worker[w].job
           g == GroupOf[j]
           report == ~group[g].notified /\ Complete(g)
           x == [worker[w] EXCEPT !.pc = "report", !.orig = aggregate(g, snap')]
<1>1. worker[w].pc = "end" /\ worker[w].pc # "idle" BY DEF jobFinished
<1>2. /\ j \in Jobs /\ job[j] \in JobStatus /\ Settled(job[j]) /\ worker[w] \in WorkerRec
      /\ g \in Groups /\ group[g] \in GroupRec
  BY <1>1, WorkerJob, GroupOfJob DEF WorkerOk
<1>3. /\ UNCHANGED <<job, stage, status, main, ctx, decision, used>> /\ UNCHANGED sent
      /\ worker' = [worker EXCEPT ![w] = IF report THEN x ELSE IdleWorker]
  BY <1>1 DEF jobFinished, IInv, TypeOK
<1>4. group' \in [Groups -> GroupRec] /\ snap' \in [Jobs -> JobStatus]
  <2>1. CASE group[g].notified BY <2>1 DEF jobFinished, IInv, TypeOK
  <2>2. CASE ~group[g].notified
    <3> DEFINE n == group[g].finished + 1
               b == Complete(g)
               y == [group[g] EXCEPT !.finished = n, !.notified = b]
    <3>1. group' = [group EXCEPT ![g] = y] /\ snap' = [snap EXCEPT ![j] = job[j]]
      BY <1>2, <2>2 DEF jobFinished, IInv, TypeOK
    <3>2. b \in BOOLEAN
      <4>1. CASE Complete(g) BY <4>1 DEF Complete
      <4>2. CASE ~Complete(g) BY <4>2 DEF Complete
      <4> QED BY <4>1, <4>2
    <3>3. n \in Nat BY <1>2 DEF GroupRec
    <3> HIDE DEF n, b
    <3>4. y \in GroupRec BY <1>2, <3>2, <3>3 DEF GroupRec
    <3> QED BY <1>2, <3>1, <3>4 DEF IInv, TypeOK
  <2> QED BY <2>1, <2>2
<1>5. sent' \in [Groups -> Seq(StageStatus)] BY <1>3 DEF IInv, TypeOK
<1>6. CASE report
  <2> DEFINE a == aggregate(g, snap')
  <2>1. a \in StageStatus BY <1>4, AggregateTyped
  <2> HIDE DEF a
  <2>2. x \in WorkerRec /\ x.pc = "report" /\ x.job = j BY <1>2, <2>1 DEF WorkerRec, a
  <2>3. worker' = [worker EXCEPT ![w] = x] BY <1>3, <1>6
  <2> HIDE DEF x
  <2>4. WorkerOk(x.pc, x.orig, job[j]) BY <1>2, <2>2 DEF WorkerOk
  <2>5. job' = [job EXCEPT ![j] = job[j]] BY <1>1, <1>3, SameJob
  <2>6. decision' \in [Jobs -> {"none", "ignore", "reject"}] BY <1>3 DEF IInv, TypeOK
  <2>7. WorkerMove(w, x, job[j])
    BY <1>1, <1>2, <1>3, <1>4, <1>5, <2>2, <2>3, <2>4, <2>5, <2>6 DEF WorkerMove
  <2> QED BY <2>7, WorkerMoves
<1>7. CASE ~report
  <2>1. worker' = [worker EXCEPT ![w] = IdleWorker] BY <1>3, <1>7
  <2> QED BY <1>1, <1>2, <1>3, <1>4, <1>5, <2>1, IdleMoves
<1> QED BY <1>6, <1>7

LEMMA ReportMoves ==
  ASSUME IInv, NEW w \in Workers, Report(w)
  PROVE  IInv' /\ Stays
<1> DEFINE g == GroupOf[worker[w].job]
           a == worker[w].orig
<1>1. worker[w].pc = "report" /\ worker[w].pc # "idle" BY DEF Report
<1>2. Settled(job[worker[w].job]) /\ g \in Groups /\ a \in StageStatus
  BY <1>1, WorkerJob, GroupOfJob, WorkerFields DEF WorkerOk
<1>3. /\ worker' = [worker EXCEPT ![w] = IdleWorker]
      /\ sent' = [sent EXCEPT ![g] = Append(sent[g], a)]
      /\ UNCHANGED <<job, stage, status, main, ctx, decision, used>> /\ UNCHANGED <<group, snap>>
  BY DEF Report
<1>4. Append(sent[g], a) \in Seq(StageStatus) BY <1>2 DEF IInv, TypeOK
<1>5. /\ sent' \in [Groups -> Seq(StageStatus)]
      /\ group' \in [Groups -> GroupRec] /\ snap' \in [Jobs -> JobStatus]
  BY <1>3, <1>4 DEF IInv, TypeOK
<1> QED BY <1>1, <1>2, <1>3, <1>5, IdleMoves

LEMMA WorkerKeeps ==
  ASSUME IInv, NEW w \in Workers, WorkerStep(w)
  PROVE  IInv' /\ Stays
BY SkipDoneMoves, BeginMoves, RunMoves, RunEndsMoves, RunFailsMoves, RerunEndsMoves,
   DecisionMoves, StartMoves, FinishMoves, ReportMoves DEF WorkerStep

-----------------------------------------------------------------------------
(* Steps of the controller's goroutine.                                      *)

LEMMA InitHolds == Init => IInv
<1> SUFFICES ASSUME Init PROVE IInv OBVIOUS
<1>1. \A w \in Workers : worker[w] = IdleWorker /\ Idle(w) BY IdleRecord DEF Init, Idle
<1>2. \A s \in Stages : stage[s].status = "" /\ stage[s].executed = FALSE BY DEF Init
<1>3. main = [pc |-> "next", stage |-> 1, todo |-> {}] /\ status = "running" BY DEF Init
<1>4. TypeOK
  <2>1. worker \in [Workers -> WorkerRec] BY IdleRecord DEF Init
  <2>2. stage \in [Stages -> StageRec] BY DEF Init, StageRec, StageStatus, JobStatus
  <2>3. main \in MainRec
    <3>1. 1 \in 1..(NumStages + 1) BY ShapeAssumption
    <3> QED BY <1>3, <3>1 DEF MainRec
  <2>4. group \in [Groups -> GroupRec] BY DEF Init, FreshGroup, GroupRec
  <2>5. sent \in [Groups -> Seq(StageStatus)]
    <3>1. <<>> \in Seq(StageStatus) OBVIOUS
    <3> QED BY <3>1 DEF Init
  <2>6. job \in [Jobs -> JobStatus] /\ snap \in [Jobs -> JobStatus] BY DEF Init, JobStatus
  <2>7. used \in [decisions : Nat, runs : Nat] BY DEF Init
  <2>8. decision \in [Jobs -> {"none", "ignore", "reject"}] BY DEF Init, NoDecision
  <2>9. status \in StageStatus /\ ctx \in BOOLEAN BY DEF Init, StageStatus, JobStatus
  <2> QED BY <2>1, <2>2, <2>3, <2>4, <2>5, <2>6, <2>7, <2>8, <2>9 DEF TypeOK
<1>5. MainInv /\ PassedInv BY <1>3 DEF MainInv, PassedInv, Stages
<1>6. StageDone
  <2>1. \A j \in Jobs : StageOf[j] \in Stages BY ShapeAssumption
  <2> QED BY <1>2, <2>1 DEF StageDone, Done, Behind
<1>7. ManualInv BY <1>2, PolicyAssumption DEF ManualInv, Init, Done, Behind
<1>8. WorkerInv /\ SerialInv BY <1>1 DEF WorkerInv, SerialInv
<1>9. TodoInv /\ StatusInv BY <1>3 DEF TodoInv, StatusInv
<1> QED BY <1>4, <1>5, <1>6, <1>7, <1>8, <1>9 DEF IInv

LEMMA MainFields ==
  ASSUME IInv
  PROVE  /\ main \in MainRec /\ main.stage \in 1..(NumStages + 1) /\ main.todo \subseteq Jobs
         /\ main.pc \in {"idle", "next", "jobs", "status", "finish"}
BY DEF IInv, TypeOK, MainRec

\* Only when RunJobs is in progress are there workers that are not idle.
LEMMA AllIdle ==
  ASSUME IInv, main.pc # "jobs"
  PROVE  \A w \in Workers : Idle(w)
BY DEF IInv, WorkerInv

LEMMA IdleInvs ==
  ASSUME \A w \in Workers : Idle(w)'
  PROVE  WorkerInv' /\ SerialInv'
BY DEF WorkerInv, SerialInv

LEMMA SkipStageKeeps == ASSUME IInv, SkipStage PROVE IInv' /\ Stays
<1> DEFINE s == main.stage
<1>1. main' = NextOf(s) /\ s \in Stages /\ Done(stage[s].status) /\ main.pc = "next"
  BY DEF SkipStage, SetMain
<1>2. UNCHANGED <<job, stage, status, worker, ctx, decision, group, snap, sent, used>>
  BY DEF SkipStage
<1>3. main'.pc = "next" /\ main'.stage = s + 1 /\ main' \in MainRec
  <2>1. s + 1 \in 1..(NumStages + 1) BY <1>1, ShapeAssumption DEF Stages
  <2> QED BY <1>1, <2>1 DEF NextOf, MainRec
<1>4. TypeOK' BY <1>2, <1>3 DEF IInv, TypeOK
<1>5. \A w \in Workers : Idle(w)' BY <1>1, <1>2, AllIdle DEF Idle
<1>6. \A u \in Stages : u < s + 1 => Behind(stage[u].status)
  BY <1>1 DEF IInv, MainInv, Stages, Behind
<1>7. MainInv' BY <1>1, <1>2, <1>3, <1>6 DEF IInv, MainInv
<1>8. StageDone' /\ PassedInv' /\ ManualInv'
  BY <1>1, <1>2, <1>3 DEF IInv, StageDone, PassedInv, ManualInv, Current
<1>9. TodoInv' /\ StatusInv' BY <1>3 DEF TodoInv, StatusInv
<1>10. Stays BY <1>2 DEF Stays
<1> QED BY <1>4, <1>5, <1>7, <1>8, <1>9, <1>10, IdleInvs DEF IInv

\* The status of one stage is written.
LEMMA StageWrite ==
  ASSUME IInv, NEW s \in Stages, NEW r \in StageStatus,
         stage' = [stage EXCEPT ![s].status = r]
  PROVE  /\ stage' \in [Stages -> StageRec]
         /\ \A u \in Stages : /\ stage'[u].status = IF u = s THEN r ELSE stage[u].status
                              /\ stage'[u].executed = stage[u].executed
<1>1. stage[s] \in StageRec BY DEF IInv, TypeOK
<1> DEFINE y == [stage[s] EXCEPT !.status = r]
<1>2. y \in StageRec /\ y.status = r /\ y.executed = stage[s].executed BY <1>1 DEF StageRec
<1>3. stage' = [stage EXCEPT ![s] = y] OBVIOUS
<1> HIDE DEF y
<1> QED BY <1>2, <1>3 DEF IInv, TypeOK

LEMMA PauseStageKeeps == ASSUME IInv, PauseStage PROVE IInv' /\ Stays
<1> DEFINE s == main.stage
<1>1. /\ main.pc = "next" /\ s \in Stages /\ ~Done(stage[s].status)
      /\ s \in ManualStages /\ ~stage[s].executed
      /\ stage' = [stage EXCEPT ![s].status = "pause"] /\ main' = At("finish")
  BY DEF PauseStage, SetMain
<1>2. UNCHANGED <<job, status, worker, ctx, decision, group, snap, sent, used>>
  BY DEF PauseStage
<1>3. main'.pc = "finish" /\ main'.stage = s /\ main' \in MainRec
  BY <1>1, MainFields DEF At, MainRec
<1>4. /\ stage' \in [Stages -> StageRec]
      /\ \A u \in Stages : /\ stage'[u].status = IF u = s THEN "pause" ELSE stage[u].status
                           /\ stage'[u].executed = stage[u].executed
  BY <1>1, StageWrite DEF StageStatus
<1>5. TypeOK' BY <1>2, <1>3, <1>4 DEF IInv, TypeOK
<1>6. \A w \in Workers : Idle(w)' BY <1>1, <1>2, AllIdle DEF Idle
<1>7. MainInv'
  <2>1. \A u \in Stages : u < s => u # s BY <1>1 DEF Stages
  <2> QED BY <1>1, <1>2, <1>3, <1>4, <2>1 DEF IInv, MainInv, statusStopped
<1>8. StageDone'
  <2>1. \A j \in Jobs : StageOf[j] \in Stages BY ShapeAssumption
  <2> QED BY <1>1, <1>2, <1>3, <1>4, <2>1 DEF IInv, StageDone, Done, Behind, Current
<1>9. PassedInv' BY <1>1, <1>2 DEF IInv, MainInv, PassedInv
<1>10. ManualInv'
  <2>1. \A u \in ManualStages : u \in Stages BY PolicyAssumption
  <2>2. /\ \A u \in ManualStages : Behind(stage[u].status) => stage[u].executed
        /\ \A u \in Stages : stage[u].status = "pause" => u \in ManualStages /\ ~stage[u].executed
        /\ \A u \in ManualStages, j \in Jobs :
             ~stage[u].executed /\ u <= StageOf[j] => job[j] \in {"", "skipped"}
    BY DEF IInv, ManualInv
  <2>3. \A u \in ManualStages : Behind(stage'[u].status) => stage'[u].executed
    <3> SUFFICES ASSUME NEW u \in ManualStages, Behind(stage'[u].status) PROVE stage'[u].executed
      OBVIOUS
    <3>1. Behind(stage[u].status) BY <1>4, <2>1 DEF Done, Behind
    <3>2. stage[u].executed BY <2>2, <3>1
    <3>3. stage'[u].executed = stage[u].executed BY <1>4, <2>1
    <3> QED BY <3>2, <3>3
  <2>4. \A u \in Stages : stage'[u].status = "pause" => u \in ManualStages /\ ~stage'[u].executed
    BY <1>1, <1>2, <1>4, <2>2
  <2>5. job' = job /\ \A u \in ManualStages : stage'[u].executed = stage[u].executed
    BY <1>2, <1>4, <2>1
  <2> QED BY <2>2, <2>3, <2>4, <2>5 DEF ManualInv
<1>11. TodoInv' /\ StatusInv' BY <1>3 DEF TodoInv, StatusInv
<1>12. Stays BY <1>2 DEF Stays
<1> QED BY <1>5, <1>6, <1>7, <1>8, <1>9, <1>10, <1>11, <1>12, IdleInvs DEF IInv

LEMMA RunStageKeeps == ASSUME IInv, RunStage PROVE IInv' /\ Stays
<1> DEFINE s == main.stage
<1>1. /\ main.pc = "next" /\ s \in Stages /\ ~Done(stage[s].status)
      /\ s \in ManualStages => stage[s].executed
      /\ stage' = [stage EXCEPT ![s].status = "running"]
      /\ main' = [main EXCEPT !.pc = "jobs", !.todo = JobsOf(s)]
      /\ group' = [g \in Groups |-> FreshGroup] /\ snap' = job
      /\ sent' = [g \in Groups |-> <<>>]
      /\ UNCHANGED <<job, status, worker, ctx, decision, used>>
  BY DEF RunStage, SetMain
<1>2. main'.pc = "jobs" /\ main'.stage = s /\ main'.todo = JobsOf(s) /\ main' \in MainRec
  <2>1. JobsOf(s) \in SUBSET Jobs BY DEF JobsOf
  <2> QED BY <1>1, <2>1, MainFields DEF MainRec
<1>3. /\ stage' \in [Stages -> StageRec]
      /\ \A u \in Stages : /\ stage'[u].status = IF u = s THEN "running" ELSE stage[u].status
                           /\ stage'[u].executed = stage[u].executed
  BY <1>1, StageWrite DEF StageStatus, JobStatus
<1>4. TypeOK'
  <2>1. group' \in [Groups -> GroupRec] BY <1>1 DEF FreshGroup, GroupRec
  <2>2. sent' \in [Groups -> Seq(StageStatus)] BY <1>1
  <2> QED BY <1>1, <1>2, <1>3, <2>1, <2>2 DEF IInv, TypeOK
<1>5. \A w \in Workers : Idle(w)' BY <1>1, AllIdle DEF Idle
<1>6. MainInv'
  <2>1. \A u \in Stages : u < s => u # s BY <1>1 DEF Stages
  <2> QED BY <1>1, <1>2, <1>3, <2>1 DEF IInv, MainInv
<1>7. StageDone'
  <2>1. \A j \in Jobs : StageOf[j] \in Stages BY ShapeAssumption
  <2> QED BY <1>1, <1>2, <1>3, <2>1 DEF IInv, StageDone, Current
<1>8. PassedInv' BY <1>1 DEF IInv, MainInv, PassedInv
<1>9. ManualInv'
  <2>1. \A u \in ManualStages : u \in Stages BY PolicyAssumption
  <2>2. /\ \A u \in ManualStages : Behind(stage[u].status) => stage[u].executed
        /\ \A u \in Stages : stage[u].status = "pause" => u \in ManualStages /\ ~stage[u].executed
        /\ \A u \in ManualStages, j \in Jobs :
             ~stage[u].executed /\ u <= StageOf[j] => job[j] \in {"", "skipped"}
    BY DEF IInv, ManualInv
  <2>3. \A u \in ManualStages : Behind(stage'[u].status) => stage'[u].executed
    <3> SUFFICES ASSUME NEW u \in ManualStages, Behind(stage'[u].status) PROVE stage'[u].executed
      OBVIOUS
    <3>1. u # s => Behind(stage[u].status) BY <1>3, <2>1
    <3>2. stage[u].executed BY <1>1, <2>2, <3>1
    <3>3. stage'[u].executed = stage[u].executed BY <1>3, <2>1
    <3> QED BY <3>2, <3>3
  <2>4. \A u \in Stages : stage'[u].status = "pause" => u \in ManualStages /\ ~stage'[u].executed
    BY <1>3, <2>2
  <2>5. job' = job /\ \A u \in ManualStages : stage'[u].executed = stage[u].executed
    BY <1>1, <1>3, <2>1
  <2> QED BY <2>2, <2>3, <2>4, <2>5 DEF ManualInv
<1>10. TodoInv' /\ StatusInv' BY <1>2 DEF TodoInv, StatusInv
<1>11. Stays BY <1>1 DEF Stays
<1> QED BY <1>4, <1>5, <1>6, <1>7, <1>8, <1>9, <1>10, <1>11, IdleInvs DEF IInv

\* The serial loop goes on only behind completed jobs.
LEMMA FedInOrder ==
  ASSUME IInv, NEW w \in Workers, Feed(w), NEW j \in Jobs, IsFirst(j, main.todo),
         concurrency(main.stage) = 1, NEW k \in JobsOf(main.stage), k < j
  PROVE  Over(job[k])
<1>1. main.pc = "jobs" /\ ~Aborted /\ Idle(w) /\ w <= 1 BY DEF Feed
<1>2. k \in Jobs /\ k \in Nat /\ j \in Nat BY ShapeAssumption DEF JobsOf
<1>3. k \notin main.todo BY <1>2 DEF IsFirst
<1>4. ~\E y \in Workers : ~Idle(y) /\ worker[y].job = k
  <2> SUFFICES ASSUME NEW y \in Workers, ~Idle(y) PROVE FALSE OBVIOUS
  <2>1. y <= 1 BY DEF IInv, WorkerInv
  <2>2. y = w BY <1>1, <2>1, BuildAssumption DEF Workers
  <2> QED BY <1>1, <2>2
<1>5. Settled(job[k]) BY <1>1, <1>3, <1>4 DEF IInv, TodoInv
<1>6. ~jobStatusFailed(job[k]) BY <1>1, <1>3 DEF Aborted
<1> QED BY <1>5, <1>6 DEF Settled, Over

LEMMA FeedKeeps == ASSUME IInv, NEW w \in Workers, Feed(w) PROVE IInv' /\ Stays
<1> DEFINE s == main.stage
<1>1. PICK j \in Jobs :
        /\ IsFirst(j, main.todo)
        /\ worker' = [worker EXCEPT ![w] = [IdleWorker EXCEPT !.pc = "begin", !.job = j]]
        /\ main' = [main EXCEPT !.todo = main.todo \ {j}]
  BY DEF Feed, SetMain
<1> DEFINE y == [IdleWorker EXCEPT !.pc = "begin", !.job = j]
<1>2. /\ UNCHANGED <<job, stage, status, ctx, decision, group, snap, sent, used>>
      /\ main.pc = "jobs" /\ Idle(w) /\ w <= concurrency(s)
  BY DEF Feed
<1>3. y \in WorkerRec /\ y.pc = "begin" /\ y.job = j
  BY DEF IdleWorker, WorkerRec, StageStatus, JobStatus
<1>4. worker' = [worker EXCEPT ![w] = y] BY <1>1
<1> HIDE DEF y
<1>5. \A z \in Workers : worker'[z] = IF z = w THEN y ELSE worker[z] BY <1>4 DEF IInv, TypeOK
<1>6. /\ main'.pc = "jobs" /\ main'.stage = s /\ main'.todo = main.todo \ {j} /\ main' \in MainRec
      /\ j \in main.todo
  BY <1>1, <1>2, MainFields DEF MainRec, IsFirst
<1>7. TypeOK' BY <1>2, <1>3, <1>4, <1>6 DEF IInv, TypeOK
<1>8. MainInv' BY <1>2, <1>6 DEF IInv, MainInv
<1>9. StageDone' /\ PassedInv' /\ ManualInv'
  BY <1>2, <1>6 DEF IInv, StageDone, PassedInv, ManualInv, Current
<1>10. /\ main.todo \subseteq JobsOf(s)
       /\ \A k \in main.todo, i \in JobsOf(s) \ main.todo : i < k
       /\ \A i \in JobsOf(s) \ main.todo :
            Settled(job[i]) \/ \E z \in Workers : worker[z].pc # "idle" /\ worker[z].job = i
  BY <1>2 DEF IInv, TodoInv, Idle
<1>11. WorkerInv'
  <2>1. \A z \in Workers : worker[z].pc # "idle" =>
          /\ main.pc = "jobs" /\ z <= concurrency(s)
          /\ worker[z].job \in JobsOf(s) \ main.todo
          /\ WorkerOk(worker[z].pc, worker[z].orig, job[worker[z].job])
    BY DEF IInv, WorkerInv, Idle
  <2>2. WorkerOk("begin", y.orig, job[j]) BY DEF WorkerOk
  <2>3. j \in JobsOf(s) \ main'.todo BY <1>6, <1>10
  <2>4. \A z \in Workers : worker'[z].pc # "idle" =>
          /\ main'.pc = "jobs" /\ z <= concurrency(main'.stage)
          /\ worker'[z].job \in JobsOf(main'.stage) \ main'.todo
          /\ WorkerOk(worker'[z].pc, worker'[z].orig, job'[worker'[z].job])
    <3> SUFFICES ASSUME NEW z \in Workers, worker'[z].pc # "idle"
                 PROVE  /\ main'.pc = "jobs" /\ z <= concurrency(main'.stage)
                        /\ worker'[z].job \in JobsOf(main'.stage) \ main'.todo
                        /\ WorkerOk(worker'[z].pc, worker'[z].orig, job'[worker'[z].job])
      OBVIOUS
    <3>1. CASE z = w BY <1>2, <1>3, <1>5, <1>6, <2>2, <2>3, <3>1
    <3>2. CASE z # w BY <1>2, <1>5, <1>6, <2>1, <3>2
    <3> QED BY <3>1, <3>2
  <2>5. \A z, v \in Workers : z # v /\ worker'[z].pc # "idle" /\ worker'[v].pc # "idle"
           => worker'[z].job # worker'[v].job
    BY <1>3, <1>5, <1>6, <2>1 DEF IInv, WorkerInv, Idle
  <2> QED BY <2>4, <2>5 DEF WorkerInv, Idle
<1>12. TodoInv'
  <2>1. main'.todo \subseteq JobsOf(s) BY <1>6, <1>10
  <2>2. \A k \in main'.todo, i \in JobsOf(s) \ main'.todo : i < k
    <3> SUFFICES ASSUME NEW k \in main'.todo, NEW i \in JobsOf(s) \ main'.todo PROVE i < k
      OBVIOUS
    <3>1. CASE i = j
      <4>1. k \in main.todo /\ k # j /\ j <= k BY <1>1, <1>6 DEF IsFirst
      <4>2. k \in Nat /\ j \in Nat BY <4>1, MainFields, ShapeAssumption
      <4> QED BY <3>1, <4>1, <4>2
    <3>2. CASE i # j BY <1>6, <1>10, <3>2
    <3> QED BY <3>1, <3>2
  <2>3. \A i \in JobsOf(s) \ main'.todo :
          Settled(job[i]) \/ \E z \in Workers : worker'[z].pc # "idle" /\ worker'[z].job = i
    <3> SUFFICES ASSUME NEW i \in JobsOf(s) \ main'.todo, ~Settled(job[i])
                 PROVE  \E z \in Workers : worker'[z].pc # "idle" /\ worker'[z].job = i
      OBVIOUS
    <3>1. CASE i = j BY <1>3, <1>5, <3>1
    <3>2. CASE i # j
      <4>1. PICK z \in Workers : worker[z].pc # "idle" /\ worker[z].job = i
        BY <1>6, <1>10, <3>2
      <4>2. z # w BY <1>2, <4>1 DEF Idle
      <4> QED BY <1>5, <4>1, <4>2
    <3> QED BY <3>1, <3>2
  <2> QED BY <1>2, <1>6, <2>1, <2>2, <2>3 DEF TodoInv, Idle
<1>13. StatusInv' BY <1>6 DEF StatusInv
<1>14. SerialInv'
  <2> SUFFICES ASSUME concurrency(s) = 1, NEW z \in Workers, worker'[z].pc # "idle",
                      NEW k \in JobsOf(s), k < worker'[z].job
               PROVE  Over(job[k])
    BY <1>2, <1>6 DEF SerialInv, Idle
  <2>1. CASE z = w
    <3>1. k < j BY <1>3, <1>5, <2>1
    <3> QED BY <1>1, <3>1, FedInOrder
  <2>2. CASE z # w BY <1>5, <2>2 DEF IInv, SerialInv, Idle
  <2> QED BY <2>1, <2>2
<1>15. Stays BY <1>2 DEF Stays
<1> QED BY <1>7, <1>8, <1>9, <1>11, <1>12, <1>13, <1>14, <1>15 DEF IInv

LEMMA FlushKeeps == ASSUME IInv, Flush PROVE IInv' /\ Stays
<1>1. /\ main.pc = "jobs" /\ (main.todo = {} \/ Aborted) /\ main' = At("status")
      /\ UNCHANGED <<job, stage, status, worker, ctx, decision, snap, used>>
      /\ \A w \in Workers : Idle(w)
  BY DEF Flush, SetMain
<1>2. main'.pc = "status" /\ main'.stage = main.stage /\ main' \in MainRec
  BY <1>1, MainFields DEF At, MainRec
<1>3. TypeOK'
  <2>1. group' \in [Groups -> GroupRec]
    <3>1. \A g \in Groups : group[g] \in GroupRec BY DEF IInv, TypeOK
    <3>2. \A g \in Groups : [group[g] EXCEPT !.notified = TRUE] \in GroupRec BY <3>1, GroupFields
    <3> QED BY <3>1, <3>2 DEF Flush
  <2>2. sent' \in [Groups -> Seq(StageStatus)]
    <3>1. \A g \in Groups : sent[g] \in Seq(StageStatus) BY DEF IInv, TypeOK
    <3>2. \A g \in Groups : Append(sent[g], aggregate(g, snap)) \in Seq(StageStatus)
      <4> SUFFICES ASSUME NEW g \in Groups
                   PROVE  Append(sent[g], aggregate(g, snap)) \in Seq(StageStatus)
        OBVIOUS
      <4>1. aggregate(g, snap) \in StageStatus BY AggregateTyped DEF IInv, TypeOK
      <4> QED BY <3>1, <4>1
    <3> QED BY <3>1, <3>2 DEF Flush
  <2> QED BY <1>1, <1>2, <2>1, <2>2 DEF IInv, TypeOK
<1>4. \A w \in Workers : Idle(w)' BY <1>1 DEF Idle
<1>5. MainInv' BY <1>1, <1>2 DEF IInv, MainInv
<1>6. StageDone' /\ PassedInv' /\ ManualInv'
  BY <1>1, <1>2 DEF IInv, StageDone, PassedInv, ManualInv, Current
<1>7. TodoInv' BY <1>2 DEF TodoInv
<1>8. StatusInv'
  <2>1. CASE main.todo = {} BY <1>1, <1>2, <2>1 DEF IInv, TodoInv, StatusInv
  <2>2. CASE Aborted BY <1>1, <1>2, <2>2 DEF Aborted, StatusInv
  <2> QED BY <1>1, <2>1, <2>2
<1>9. Stays BY <1>1 DEF Stays
<1> QED BY <1>3, <1>4, <1>5, <1>6, <1>7, <1>8, <1>9, IdleInvs DEF IInv

\* updateStageStatus only completes a stage whose jobs are all completed.
LEMMA FinishStageKeeps == ASSUME IInv, FinishStage PROVE IInv' /\ Stays
<1> DEFINE s == main.stage
           W == worst(jobPriority, {job[j] : j \in JobsOf(s)})
           r == IF ctx THEN "cancelled" ELSE W
<1>1. /\ main.pc = "status" /\ stage' = [stage EXCEPT ![s].status = r]
      /\ main' = (IF statusStopped(r) THEN At("finish") ELSE NextOf(s))
      /\ UNCHANGED <<job, status, worker, ctx, decision, group, snap, sent, used>>
  BY DEF FinishStage, SetMain
<1>2. s \in Stages BY <1>1 DEF IInv, MainInv
<1>3. /\ W \in StageStatus /\ W \in {job[j] : j \in JobsOf(s)} \cup {"skipped", "running"}
      /\ Done(W) => \A v \in {job[j] : j \in JobsOf(s)} : ~statusStopped(v)
  BY WorstOf
<1>4. r \in StageStatus /\ r # "pause"
  <2>1. \A j \in JobsOf(s) : job[j] \in JobStatus BY DEF IInv, TypeOK, JobsOf
  <2> QED BY <1>3, <2>1 DEF StageStatus, JobStatus
<1>5. ~statusStopped(r) => Behind(r) /\ \A j \in JobsOf(s) : Over(job[j])
  <2> SUFFICES ASSUME ~statusStopped(r) PROVE Behind(r) /\ \A j \in JobsOf(s) : Over(job[j])
    OBVIOUS
  <2>1. r = W BY DEF statusStopped
  <2>2. W = "running" \/ Done(W) BY <2>1, WorstOf
  <2>3. \A v \in {job[j] : j \in JobsOf(s)} : ~statusStopped(v)
    <3>1. CASE W = "running"
      <4>1. W # "skipped" /\ ~Done(W) BY <3>1 DEF Done
      <4> QED BY <2>1, <4>1, WorstOf
    <3>2. CASE Done(W) BY <1>3, <3>2
    <3> QED BY <2>2, <3>1, <3>2
  <2>4. \A k \in JobsOf(s) : ~jobStatusFailed(job[k])
    BY <2>3 DEF statusStopped, jobStatusFailed
  <2>5. \A j \in JobsOf(s) : Settled(job[j]) BY <1>1, <2>4 DEF IInv, StatusInv
  <2> QED BY <2>1, <2>2, <2>4, <2>5 DEF Settled, Over, Behind
<1>6. statusStopped(r) => ~Behind(r) BY DEF statusStopped, Behind, Done
<1> HIDE DEF r
<1>7. /\ stage' \in [Stages -> StageRec]
      /\ \A u \in Stages : /\ stage'[u].status = IF u = s THEN r ELSE stage[u].status
                           /\ stage'[u].executed = stage[u].executed
  BY <1>1, <1>2, <1>4, StageWrite
<1>8. /\ main' \in MainRec
      /\ main'.pc = (IF statusStopped(r) THEN "finish" ELSE "next")
      /\ main'.stage = (IF statusStopped(r) THEN s ELSE s + 1)
  <2>1. s + 1 \in 1..(NumStages + 1) BY <1>2, ShapeAssumption DEF Stages
  <2>2. CASE statusStopped(r) BY <1>1, <2>2, MainFields DEF At, MainRec
  <2>3. CASE ~statusStopped(r) BY <1>1, <2>1, <2>3 DEF NextOf, MainRec
  <2> QED BY <2>2, <2>3
<1>9. TypeOK' BY <1>1, <1>7, <1>8 DEF IInv, TypeOK
<1>10. \A w \in Workers : Idle(w)' BY <1>1, AllIdle DEF Idle
<1>11. MainInv'
  <2>0. status' = "running" BY <1>1 DEF IInv, MainInv
  <2>1. \A u \in Stages : u < s => u # s /\ Behind(stage[u].status)
    BY <1>1, <1>2 DEF IInv, MainInv, Stages
  <2>2. CASE statusStopped(r) BY <1>2, <1>7, <1>8, <2>0, <2>1, <2>2 DEF MainInv
  <2>3. CASE ~statusStopped(r)
    <3>1. \A u \in Stages : u < s + 1 => u < s \/ u = s BY <1>2 DEF Stages
    <3>2. \A u \in Stages : u < s + 1 => Behind(stage'[u].status)
      BY <1>5, <1>7, <2>1, <2>3, <3>1
    <3> QED BY <1>8, <2>0, <2>3, <3>2 DEF MainInv
  <2> QED BY <2>2, <2>3
<1>12. StageDone'
  <2> SUFFICES ASSUME NEW j \in Jobs, Behind(stage'[StageOf[j]].status) PROVE Over(job[j])
    BY <1>1 DEF StageDone
  <2>1. StageOf[j] \in Stages BY ShapeAssumption
  <2>2. CASE StageOf[j] = s BY <1>5, <1>6, <1>7, <2>1, <2>2 DEF JobsOf
  <2>3. CASE StageOf[j] # s BY <1>7, <2>1, <2>3 DEF IInv, StageDone, Current
  <2> QED BY <2>2, <2>3
<1>13. PassedInv' BY <1>1 DEF IInv, MainInv, PassedInv
<1>14. ManualInv'
  <2>1. \A u \in ManualStages : u \in Stages BY PolicyAssumption
  <2>2. /\ \A u \in ManualStages : Behind(stage[u].status) => stage[u].executed
        /\ \A u \in Stages : stage[u].status = "pause" => u \in ManualStages /\ ~stage[u].executed
        /\ \A u \in ManualStages, j \in Jobs :
             ~stage[u].executed /\ u <= StageOf[j] => job[j] \in {"", "skipped"}
    BY DEF IInv, ManualInv
  <2>3. \A u \in ManualStages : Behind(stage'[u].status) => stage'[u].executed
    <3> SUFFICES ASSUME NEW u \in ManualStages, Behind(stage'[u].status) PROVE stage'[u].executed
      OBVIOUS
    <3>1. stage[u].executed
      <4>1. CASE u = s BY <1>1, <4>1 DEF IInv, MainInv
      <4>2. CASE u # s BY <1>7, <2>1, <2>2, <4>2
      <4> QED BY <4>1, <4>2
    <3>2. stage'[u].executed = stage[u].executed BY <1>7, <2>1
    <3> QED BY <3>1, <3>2
  <2>4. \A u \in Stages : stage'[u].status = "pause" => u \in ManualStages /\ ~stage'[u].executed
    BY <1>4, <1>7, <2>2
  <2>5. job' = job /\ \A u \in ManualStages : stage'[u].executed = stage[u].executed
    BY <1>1, <1>7, <2>1
  <2> QED BY <2>2, <2>3, <2>4, <2>5 DEF ManualInv
<1>15. TodoInv' /\ StatusInv' BY <1>8 DEF TodoInv, StatusInv
<1>16. Stays BY <1>1 DEF Stays
<1> QED BY <1>9, <1>10, <1>11, <1>12, <1>13, <1>14, <1>15, <1>16, IdleInvs DEF IInv

\* updateworkflowStatus only passes a task whose stages are all completed.
LEMMA FinishTaskKeeps == ASSUME IInv, FinishTask PROVE IInv' /\ Stays
<1> DEFINE S == {stage[s].status : s \in Stages}
           W == worst(stagePriority, S)
<1>1. /\ main.pc = "finish" \/ (main.pc = "next" /\ main.stage \notin Stages)
      /\ status' = (IF W = "unstable" THEN "passed" ELSE W)
      /\ main' = [pc |-> "idle", stage |-> 1, todo |-> {}]
      /\ UNCHANGED <<job, stage, worker, ctx, decision, group, snap, sent, used>>
  BY DEF FinishTask, SetMain
<1>2. W \in StageStatus /\ (Done(W) => \A v \in S : ~statusStopped(v)) BY WorstOf
<1>3. main'.pc = "idle" /\ main' \in MainRec
  <2>1. 1 \in 1..(NumStages + 1) BY ShapeAssumption
  <2> QED BY <1>1, <2>1 DEF MainRec
<1>4. PassedInv'
  <2> SUFFICES ASSUME status' = "passed" PROVE \A s \in Stages : Behind(stage[s].status)
    BY <1>1 DEF PassedInv
  <2>1. Done(W) BY <1>1 DEF Done
  <2>2. main.pc # "finish" BY <1>2, <2>1 DEF IInv, MainInv
  <2>3. main.pc = "next" /\ main.stage \notin Stages BY <1>1, <2>2
  <2>4. \A s \in Stages : s < main.stage BY <2>3, MainFields, ShapeAssumption DEF Stages
  <2> QED BY <2>3, <2>4 DEF IInv, MainInv
<1>5. TypeOK'
  <2>1. status' \in StageStatus BY <1>1, <1>2 DEF StageStatus, JobStatus
  <2> QED BY <1>1, <1>3, <2>1 DEF IInv, TypeOK
<1>6. \A w \in Workers : Idle(w)' BY <1>1, AllIdle DEF Idle
<1>7. MainInv' /\ TodoInv' /\ StatusInv' BY <1>3 DEF MainInv, TodoInv, StatusInv
<1>8. StageDone' /\ ManualInv' BY <1>1, <1>3 DEF IInv, StageDone, ManualInv, Current
<1>9. Stays BY <1>1 DEF Stays
<1> QED BY <1>4, <1>5, <1>6, <1>7, <1>8, <1>9, IdleInvs DEF IInv

-----------------------------------------------------------------------------
(* Requests.                                                                 *)

LEMMA CancelKeeps == ASSUME IInv, Cancel PROVE IInv' /\ Stays
<1>1. /\ ctx' = TRUE
      /\ UNCHANGED <<job, stage, status, main, worker, decision, group, snap, sent, used>>
  BY DEF Cancel
<1>2. TypeOK' BY <1>1 DEF IInv, TypeOK
<1>3. MainInv' /\ StageDone' /\ PassedInv' /\ ManualInv'
  BY <1>1 DEF IInv, MainInv, StageDone, PassedInv, ManualInv, Current
<1>4. WorkerInv' /\ TodoInv' /\ StatusInv' /\ SerialInv'
  BY <1>1 DEF IInv, WorkerInv, TodoInv, StatusInv, SerialInv, Idle
<1>5. Stays BY <1>1 DEF Stays
<1> QED BY <1>2, <1>3, <1>4, <1>5 DEF IInv

LEMMA HandleJobErrorKeeps ==
  ASSUME IInv, NEW j \in Jobs, NEW verdict \in {"ignore", "reject"}, HandleJobError(j, verdict)
  PROVE  IInv' /\ Stays
<1>1. /\ decision' = [decision EXCEPT ![j] = verdict]
      /\ used' = [used EXCEPT !.decisions = used.decisions + 1]
      /\ UNCHANGED <<job, stage, status, main, worker, ctx, group, snap, sent>>
  BY DEF HandleJobError
<1>2. TypeOK'
  <2>1. used' \in [decisions : Nat, runs : Nat] BY <1>1 DEF IInv, TypeOK
  <2>2. decision' \in [Jobs -> {"none", "ignore", "reject"}] BY <1>1 DEF IInv, TypeOK
  <2> QED BY <1>1, <2>1, <2>2 DEF IInv, TypeOK
<1>3. MainInv' /\ StageDone' /\ PassedInv' /\ ManualInv'
  BY <1>1 DEF IInv, MainInv, StageDone, PassedInv, ManualInv, Current
<1>4. WorkerInv' /\ TodoInv' /\ StatusInv' /\ SerialInv'
  BY <1>1 DEF IInv, WorkerInv, TodoInv, StatusInv, SerialInv, Idle
<1>5. Stays BY <1>1 DEF Stays
<1> QED BY <1>2, <1>3, <1>4, <1>5 DEF IInv

LEMMA CancelPausedKeeps == ASSUME IInv, CancelPaused PROVE IInv' /\ Stays
<1>1. /\ main.pc = "idle" /\ status' = "cancelled"
      /\ UNCHANGED <<job, stage, main, worker, ctx, decision, group, snap, sent, used>>
  BY DEF CancelPaused
<1>2. TypeOK' BY <1>1 DEF IInv, TypeOK, StageStatus, JobStatus
<1>3. \A w \in Workers : Idle(w)' BY <1>1, AllIdle DEF Idle
<1>4. MainInv' /\ PassedInv' /\ TodoInv' /\ StatusInv'
  BY <1>1 DEF MainInv, PassedInv, TodoInv, StatusInv
<1>5. StageDone' /\ ManualInv' BY <1>1 DEF IInv, StageDone, ManualInv, Current
<1>6. Stays BY <1>1 DEF Stays
<1> QED BY <1>2, <1>3, <1>4, <1>5, <1>6, IdleInvs DEF IInv

\* What a new run of the task finds.
LEMMA DispatchKeeps ==
  ASSUME IInv, Dispatch, job' \in [Jobs -> JobStatus], stage' \in [Stages -> StageRec],
         StageDone', ManualInv'
  PROVE  IInv'
<1>1. /\ main.pc = "idle" /\ status' = "running" /\ ctx' = FALSE
      /\ main' = [pc |-> "next", stage |-> 1, todo |-> {}]
      /\ used' = [used EXCEPT !.runs = used.runs + 1]
      /\ UNCHANGED <<worker, decision, group, snap, sent>>
  BY DEF Dispatch, SetMain
<1>2. main'.pc = "next" /\ main'.stage = 1 /\ main' \in MainRec
  <2>1. 1 \in 1..(NumStages + 1) BY ShapeAssumption
  <2> QED BY <1>1, <2>1 DEF MainRec
<1>3. TypeOK'
  <2>1. used' \in [decisions : Nat, runs : Nat]
    <3> DEFINE n == used.runs + 1
    <3>1. used \in [decisions : Nat, runs : Nat] BY DEF IInv, TypeOK
    <3>2. n \in Nat BY <3>1
    <3>3. used' = [used EXCEPT !.runs = n] BY <1>1
    <3> HIDE DEF n
    <3> QED BY <3>1, <3>2, <3>3
  <2> QED BY <1>1, <1>2, <2>1 DEF IInv, TypeOK, StageStatus, JobStatus
<1>4. \A w \in Workers : Idle(w)' BY <1>1, AllIdle DEF Idle
<1>5. MainInv' BY <1>1, <1>2 DEF MainInv, Stages
<1>6. PassedInv' /\ TodoInv' /\ StatusInv' BY <1>1, <1>2 DEF PassedInv, TodoInv, StatusInv
<1> QED BY <1>3, <1>4, <1>5, <1>6, IdleInvs DEF IInv

LEMMA RetryKeeps == ASSUME IInv, RetryWorkflowTaskV4 PROVE IInv' /\ Stays
<1>1. Dispatch BY DEF RetryWorkflowTaskV4
<1>2. /\ stage' \in [Stages -> StageRec]
      /\ \A s \in Stages :
           /\ stage'[s].status = IF Done(stage[s].status) THEN stage[s].status ELSE ""
           /\ stage'[s].executed = stage[s].executed
  <2>1. stage' = [s \in Stages |->
                   IF Done(stage[s].status) THEN stage[s] ELSE [stage[s] EXCEPT !.status = ""]]
    BY DEF RetryWorkflowTaskV4
  <2>2. ASSUME NEW s \in Stages
        PROVE  LET x == [stage[s] EXCEPT !.status = ""] IN
               x \in StageRec /\ x.status = "" /\ x.executed = stage[s].executed
    BY DEF IInv, TypeOK, StageRec, StageStatus, JobStatus
  <2>3. \A s \in Stages : stage[s] \in StageRec BY DEF IInv, TypeOK
  <2> QED BY <2>1, <2>2, <2>3
<1>3. /\ job' \in [Jobs -> JobStatus]
      /\ \A j \in Jobs : job'[j] = IF Done(stage[StageOf[j]].status) \/ Done(job[j]) THEN job[j] ELSE ""
  BY DEF RetryWorkflowTaskV4, IInv, TypeOK, JobStatus
<1>4. StageDone'
  <2> SUFFICES ASSUME NEW j \in Jobs, Behind(stage'[StageOf[j]].status) PROVE Over(job'[j])
    BY DEF StageDone
  <2>1. StageOf[j] \in Stages BY ShapeAssumption
  <2>2. Done(stage[StageOf[j]].status) BY <1>2, <2>1 DEF Done, Behind
  <2>3. ~Current(StageOf[j]) BY <1>1 DEF Dispatch, Current
  <2> QED BY <1>3, <2>2, <2>3 DEF IInv, StageDone, Behind
<1>5. ManualInv'
  <2>1. \A u \in ManualStages : u \in Stages BY PolicyAssumption
  <2>2. /\ \A u \in ManualStages : Behind(stage[u].status) => stage[u].executed
        /\ \A u \in Stages : stage[u].status = "pause" => u \in ManualStages /\ ~stage[u].executed
        /\ \A u \in ManualStages, j \in Jobs :
             ~stage[u].executed /\ u <= StageOf[j] => job[j] \in {"", "skipped"}
    BY DEF IInv, ManualInv
  <2>3. \A u \in ManualStages : Behind(stage'[u].status) => stage'[u].executed
    <3> SUFFICES ASSUME NEW u \in ManualStages, Behind(stage'[u].status) PROVE stage'[u].executed
      OBVIOUS
    <3>1. Behind(stage[u].status) BY <1>2, <2>1 DEF Done, Behind
    <3>2. stage[u].executed BY <2>2, <3>1
    <3>3. stage'[u].executed = stage[u].executed BY <1>2, <2>1
    <3> QED BY <3>2, <3>3
  <2>4. \A u \in Stages : stage'[u].status # "pause" BY <1>2 DEF Done
  <2>5. ASSUME NEW u \in ManualStages, NEW j \in Jobs, ~stage'[u].executed, u <= StageOf[j]
        PROVE  job'[j] \in {"", "skipped"}
    <3>1. stage'[u].executed = stage[u].executed BY <1>2, <2>1
    <3>2. ~stage[u].executed BY <2>5, <3>1
    <3>3. job[j] \in {"", "skipped"} BY <2>2, <2>5, <3>2
    <3> QED BY <1>3, <3>3
  <2> QED BY <2>3, <2>4, <2>5 DEF ManualInv
<1>6. Stays BY <1>3 DEF Stays
<1> QED BY <1>1, <1>2, <1>3, <1>4, <1>5, <1>6, DispatchKeeps

LEMMA ManualExecKeeps ==
  ASSUME IInv, NEW s \in Stages, NEW skipped \in SUBSET SkipRun,
         ManualExecWorkflowTaskV4(s, skipped)
  PROVE  IInv' /\ Stays
<1> DEFINE Kept(u) == u < s \/ stage[u].status \in {"passed", "skipped"}
<1>1. Dispatch /\ stage[s].status = "pause" BY DEF ManualExecWorkflowTaskV4
<1>2. /\ stage' \in [Stages -> StageRec]
      /\ \A u \in Stages : Kept(u) => stage'[u] = stage[u]
      /\ \A u \in Stages : ~Kept(u) =>
           /\ stage'[u].status = ""
           /\ stage[u].executed => stage'[u].executed
  <2>1. stage' = [u \in Stages |->
                   IF Kept(u) THEN stage[u]
                   ELSE [status |-> "", executed |-> u = s \/ stage[u].executed]]
    BY DEF ManualExecWorkflowTaskV4
  <2>2. ASSUME NEW u \in Stages
        PROVE  LET x == [status |-> "", executed |-> u = s \/ stage[u].executed] IN
               x \in StageRec /\ x.status = "" /\ (stage[u].executed => x.executed)
    BY DEF StageRec, StageStatus, JobStatus
  <2>3. \A u \in Stages : stage[u] \in StageRec BY DEF IInv, TypeOK
  <2> HIDE DEF Kept
  <2> QED BY <2>1, <2>2, <2>3
<1>3. /\ job' \in [Jobs -> JobStatus]
      /\ \A j \in Jobs : IF Kept(StageOf[j]) THEN job'[j] = job[j] ELSE job'[j] \in {"", "skipped"}
  <2>1. job' = [j \in Jobs |->
                 IF Kept(StageOf[j]) THEN job[j] ELSE IF j \in skipped THEN "skipped" ELSE ""]
    BY DEF ManualExecWorkflowTaskV4
  <2> HIDE DEF Kept
  <2> QED BY <2>1 DEF IInv, TypeOK, JobStatus
<1>4. /\ \A u \in ManualStages : Behind(stage[u].status) => stage[u].executed
      /\ \A u \in Stages : stage[u].status = "pause" => u \in ManualStages /\ ~stage[u].executed
      /\ \A u \in ManualStages, j \in Jobs :
           ~stage[u].executed /\ u <= StageOf[j] => job[j] \in {"", "skipped"}
  BY DEF IInv, ManualInv
<1>5. Stays
  <2> SUFFICES ASSUME NEW j \in Jobs, Done(job[j]), job'[j] # job[j] PROVE Remade(j)
    BY DEF Stays
  <2>1. ~Kept(StageOf[j])
    <3> HIDE DEF Kept
    <3> QED BY <1>3
  <2>2. s <= StageOf[j] BY <2>1, ShapeAssumption DEF Stages
  <2>3. job[j] \in {"", "skipped"} BY <1>1, <1>4, <2>2
  <2> QED BY <1>1, <2>2, <2>3 DEF Remade, Done
<1> HIDE DEF Kept
<1>6. StageDone'
  <2> SUFFICES ASSUME NEW j \in Jobs, Behind(stage'[StageOf[j]].status) PROVE Over(job'[j])
    BY DEF StageDone
  <2>1. StageOf[j] \in Stages BY ShapeAssumption
  <2>2. Kept(StageOf[j]) BY <1>2, <2>1 DEF Done, Behind
  <2>3. Behind(stage[StageOf[j]].status) BY <1>2, <2>1, <2>2
  <2>4. ~Current(StageOf[j]) BY <1>1 DEF Dispatch, Current
  <2> QED BY <1>3, <2>2, <2>3, <2>4 DEF IInv, StageDone
<1>7. ManualInv'
  <2>1. \A u \in ManualStages : u \in Stages BY PolicyAssumption
  <2>3. \A u \in ManualStages : Behind(stage'[u].status) => stage'[u].executed
    <3> SUFFICES ASSUME NEW u \in ManualStages, Behind(stage'[u].status) PROVE stage'[u].executed
      OBVIOUS
    <3>1. Kept(u) BY <1>2, <2>1 DEF Done, Behind
    <3>2. stage'[u] = stage[u] BY <1>2, <2>1, <3>1
    <3> QED BY <1>4, <3>2
  <2>4. \A u \in Stages : stage'[u].status = "pause" => u \in ManualStages /\ ~stage'[u].executed
    <3> SUFFICES ASSUME NEW u \in Stages, stage'[u].status = "pause"
                 PROVE  u \in ManualStages /\ ~stage'[u].executed
      OBVIOUS
    <3>1. Kept(u) BY <1>2
    <3>2. stage'[u] = stage[u] BY <1>2, <3>1
    <3> QED BY <1>4, <3>2
  <2>5. ASSUME NEW u \in ManualStages, NEW j \in Jobs, ~stage'[u].executed, u <= StageOf[j]
        PROVE  job'[j] \in {"", "skipped"}
    <3>1. ~stage[u].executed
      <4>1. CASE Kept(u)
        <5>1. stage'[u] = stage[u] BY <1>2, <2>1, <4>1
        <5> QED BY <2>5, <5>1
      <4>2. CASE ~Kept(u) BY <1>2, <2>1, <2>5, <4>2
      <4> QED BY <4>1, <4>2
    <3>2. job[j] \in {"", "skipped"} BY <1>4, <2>5, <3>1
    <3> QED BY <1>3, <3>2
  <2> QED BY <2>3, <2>4, <2>5 DEF ManualInv
<1> QED BY <1>1, <1>2, <1>3, <1>5, <1>6, <1>7, DispatchKeeps

-----------------------------------------------------------------------------
(* Theorems.                                                                 *)

LEMMA NextKeeps == IInv /\ Next => IInv' /\ Stays
<1> SUFFICES ASSUME IInv, Next PROVE IInv' /\ Stays OBVIOUS
<1>1. CASE MainStep
  BY <1>1, SkipStageKeeps, PauseStageKeeps, RunStageKeeps, FlushKeeps, FinishStageKeeps,
     FinishTaskKeeps, FeedKeeps DEF MainStep
<1>2. CASE Request
  BY <1>2, CancelKeeps, CancelPausedKeeps, RetryKeeps, ManualExecKeeps, HandleJobErrorKeeps
     DEF Request
<1>3. CASE \E w \in Workers : WorkerStep(w) BY <1>3, WorkerKeeps
<1> QED BY <1>1, <1>2, <1>3 DEF Next

LEMMA StutterKeeps == IInv /\ UNCHANGED vars => IInv'
<1> SUFFICES ASSUME IInv, UNCHANGED vars PROVE IInv' OBVIOUS
<1>1. UNCHANGED <<job, stage, status, main, worker, ctx, decision, group, snap, sent, used>>
  BY DEF vars
<1>2. TypeOK' BY <1>1 DEF IInv, TypeOK
<1>3. MainInv' /\ StageDone' /\ PassedInv' /\ ManualInv'
  BY <1>1 DEF IInv, MainInv, StageDone, PassedInv, ManualInv, Current
<1>4. WorkerInv' /\ TodoInv' /\ StatusInv' /\ SerialInv'
  BY <1>1 DEF IInv, WorkerInv, TodoInv, StatusInv, SerialInv, Idle
<1> QED BY <1>2, <1>3, <1>4 DEF IInv

LEMMA IInvHolds == Spec => []IInv
<1>1. IInv /\ [Next]_vars => IInv' BY NextKeeps, StutterKeeps
<1> QED BY <1>1, InitHolds, PTL DEF Spec

\* Jobs, stages, the controller's goroutine, the workers and the notifier stay well
\* typed, whatever cancellations, decisions, retries and manual executions come.
THEOREM StageRunTyped == Spec => []TypeOK
<1>1. IInv => TypeOK BY DEF IInv
<1> QED BY <1>1, IInvHolds, PTL

LEMMA OrderOfStages == IInv => StageOrder
<1> SUFFICES ASSUME IInv, NEW j \in Jobs, NEW k \in Jobs, StageOf[k] < StageOf[j], Active(j)
             PROVE  Returned(k)
  BY DEF StageOrder
<1>1. PICK w \in Workers : worker[w].job = j /\ worker[w].pc # "idle" BY DEF Active
<1>2. main.pc = "jobs" /\ StageOf[j] = main.stage BY <1>1, WorkerJob
<1>3. StageOf[k] \in Stages BY ShapeAssumption
<1>4. Behind(stage[StageOf[k]].status) BY <1>2, <1>3 DEF IInv, MainInv
<1>5. StageOf[k] # main.stage BY <1>2, <1>3, ShapeAssumption DEF Stages
<1>6. Over(job[k]) BY <1>4, <1>5 DEF IInv, StageDone, Current
<1>7. \A x \in Workers : worker[x].job = k => Idle(x) BY <1>5, WorkerJob DEF Idle
<1> QED BY <1>6, <1>7 DEF Returned

\* RunStages: whatever the shape of the workflow and however the controllers of jobs
\* return, no job is executed before every job of the earlier stages is completed or was
\* left by its controller, in any run of the task.
THEOREM StagesInOrder == Spec => []StageOrder
BY OrderOfStages, IInvHolds, PTL

LEMMA OrderOfJobs == IInv => SerialOrder
<1> SUFFICES ASSUME IInv, NEW j \in Jobs, NEW k \in Jobs, StageOf[k] = StageOf[j], k < j,
                    concurrency(StageOf[j]) = 1, Active(j)
             PROVE  Returned(k)
  BY DEF SerialOrder
<1>1. PICK w \in Workers : worker[w].job = j /\ worker[w].pc # "idle" BY DEF Active
<1>2. StageOf[j] = main.stage BY <1>1, WorkerJob
<1>3. k \in JobsOf(main.stage) BY <1>2 DEF JobsOf
<1>4. Over(job[k]) BY <1>1, <1>2, <1>3 DEF IInv, SerialInv, Idle
<1>5. k # j BY ShapeAssumption
<1>6. \A x \in Workers : worker[x].pc # "idle" => x = w
  <2> SUFFICES ASSUME NEW x \in Workers, worker[x].pc # "idle" PROVE x = w OBVIOUS
  <2>1. x <= 1 /\ w <= 1 BY <1>1, <1>2, WorkerJob
  <2> QED BY <2>1, BuildAssumption DEF Workers
<1>7. \A x \in Workers : worker[x].job = k => Idle(x) BY <1>1, <1>5, <1>6 DEF Idle
<1> QED BY <1>4, <1>7 DEF Returned

\* RunJobs: the jobs of a stage without a pool run in their order, each behind
\* jobs that are completed or were left by their controller.
THEOREM JobsInOrder == Spec => []SerialOrder
BY OrderOfJobs, IInvHolds, PTL

LEMMA PassedIsDone == IInv => PassedMeansDone
<1> SUFFICES ASSUME IInv, status = "passed", NEW j \in Jobs PROVE Over(job[j])
  BY DEF PassedMeansDone
<1>1. StageOf[j] \in Stages BY ShapeAssumption
<1>2. main.pc = "idle" BY DEF IInv, MainInv
<1> QED BY <1>1, <1>2 DEF IInv, PassedInv, StageDone, Current

\* updateStageStatus and updateworkflowStatus: no task passes with a job that failed, was
\* cancelled or never ran, in this run or an earlier one.
THEOREM PassedTaskIsDone == Spec => []PassedMeansDone
BY PassedIsDone, IInvHolds, PTL

\* No step of the controller, of a worker or of a request takes the status of a
\* completed job away, except retryJob's and the manual execution's, as stated.
THEOREM CompletedStays == Spec => DoneStays
<1>1. IInv /\ [Next]_vars =>
        [\A j \in Jobs : Done(job[j]) /\ job'[j] # job[j] => Retried(j) \/ Remade(j)]_vars
  BY NextKeeps DEF Stays
<1> QED BY <1>1, IInvHolds, PTL DEF Spec, DoneStays
-----------------------------------------------------------------------------
(* jobNotifier: what a group has heard of, while RunJobs is at work.         *)

\* The goroutine executes a job of the group and is at one of the steps.
Serves(w, g, pcs) == worker[w].pc \in pcs /\ GroupOf[worker[w].job] = g

\* Between runJob's checks and its deferred calls: started, or on the way to its end.
Busy == {"announce", "run", "retry", "rerun", "wait", "decided", "end"}

\* The goroutine has still to call jobFinished for the job.
Holds(w, j) == worker[w].job = j /\ worker[w].pc \notin {"idle", "report"}

\* Members of the group that may yet call jobFinished.
Open(g) == {j \in Members(g) : j \in main.todo \/ \E w \in Workers : Holds(w, j)}

\* A snapshot is behind only while a goroutine executes the job.
SnapInv ==
  \A j \in Jobs : snap[j] = job[j] \/ \E w \in Workers : Holds(w, j) /\ worker[w].pc # "begin"

\* finished never runs ahead: the job that completes the count is the last one open.
CountInv(g) ==
  /\ group[g].finished + Cardinality(Open(g)) <= Cardinality(Members(g))
  /\ group[g].notified => Open(g) = {} /\ group[g].finished > 0
  /\ group[g].prepared /\ group[g].finished = 0 => \E w \in Workers : Serves(w, g, Busy)

\* The start is announced once, by the goroutine that set prepared.
StartInv(g) ==
  /\ \A w \in Workers : Serves(w, g, {"announce"}) =>
       /\ group[g].prepared /\ sent[g] = <<>>
       /\ \A x \in Workers : Serves(x, g, {"announce"}) => x = w
  /\ ~group[g].prepared /\ ~group[g].notified => sent[g] = <<>>

Before(g) == sent[g] \in {<<>>, <<"prepare">>}
After(g) == sent[g] \in {<<aggregate(g, job)>>, <<"prepare", aggregate(g, job)>>}
NoReport(g) == \A w \in Workers : ~Serves(w, g, {"report"})

\* The end is announced once, with the status the jobs of the group then have.
EndInv(g) ==
  \/ ~group[g].notified /\ Before(g) /\ NoReport(g)
  \/ /\ group[g].notified /\ Before(g)
     /\ \E w \in Workers : /\ Serves(w, g, {"report"}) /\ worker[w].orig = aggregate(g, job)
                           /\ \A x \in Workers : Serves(x, g, {"report"}) => x = w
  \/ group[g].notified /\ After(g) /\ NoReport(g)

GroupInv(g) == CountInv(g) /\ StartInv(g) /\ EndInv(g)

ReportInv ==
  /\ main.pc = "jobs" => SnapInv /\ \A g \in Groups : GroupInv(g)
  /\ GroupsReported

-----------------------------------------------------------------------------
(* The steps of jobNotifier and of the goroutines around it.                 *)

LEMMA OpenFacts ==
  ASSUME NEW g
  PROVE  /\ IsFiniteSet(Members(g)) /\ IsFiniteSet(Open(g)) /\ Open(g) \subseteq Members(g)
         /\ Cardinality(Open(g)) \in Nat /\ Cardinality(Members(g)) \in Nat
<1>1. Members(g) \subseteq Jobs /\ Open(g) \subseteq Members(g) BY DEF Members, Open
<1>2. IsFiniteSet(Members(g)) /\ IsFiniteSet(Open(g)) BY <1>1, ShapeAssumption, FS_Subset
<1> QED BY <1>1, <1>2, FS_CardinalityType

\* Statuses that agree on the group aggregate to the same.
LEMMA AggregateSame ==
  ASSUME NEW g, NEW f, NEW h, \A j \in Members(g) : f[j] = h[j]
  PROVE  aggregate(g, f) = aggregate(g, h)
<1>1. {f[j] : j \in Members(g)} = {h[j] : j \in Members(g)} OBVIOUS
<1> DEFINE W == worst(jobPriority, {f[j] : j \in Members(g)})
<1>2. CASE W # "running" BY <1>1, <1>2 DEF aggregate
<1>3. CASE W = "running"
  <2>1. Members(g) # {}
    <3>1. Members(g) = {} => W = "skipped" BY DEF worst
    <3> QED BY <1>3, <3>1
  <2>2. \E i \in Members(g) : IsFirst(i, Members(g)) BY <2>1, HasFirst DEF Members
  <2>3. (CHOOSE i \in Members(g) : IsFirst(i, Members(g))) \in Members(g) BY <2>2
  <2> QED BY <1>1, <1>3, <2>3 DEF aggregate
<1> QED BY <1>2, <1>3

\* A goroutine at work, its job and its group: nobody else has the job.
LEMMA AtWork ==
  ASSUME IInv, ReportInv, NEW w \in Workers, worker[w].pc # "idle"
  PROVE  /\ main.pc = "jobs" /\ SnapInv /\ \A g \in Groups : GroupInv(g)
         /\ worker[w].job \in Jobs /\ GroupOf[worker[w].job] \in Groups
         /\ worker[w].job \in Members(GroupOf[worker[w].job]) /\ worker[w].job \notin main.todo
         /\ \A x \in Workers : x # w /\ worker[x].pc # "idle" => worker[x].job # worker[w].job
         /\ worker[w].pc # "report" => worker[w].job \in Open(GroupOf[worker[w].job])
<1>1. /\ main.pc = "jobs" /\ worker[w].job \in Jobs /\ worker[w].job \notin main.todo
      /\ GroupOf[worker[w].job] \in Groups
  BY WorkerJob, GroupOfJob
<1>2. worker[w].job \in Members(GroupOf[worker[w].job]) BY <1>1 DEF Members
<1>3. \A x \in Workers : x # w /\ worker[x].pc # "idle" => worker[x].job # worker[w].job
  BY DEF IInv, WorkerInv, Idle
<1>4. SnapInv /\ \A g \in Groups : GroupInv(g) BY <1>1 DEF ReportInv
<1>5. worker[w].pc # "report" => worker[w].job \in Open(GroupOf[worker[w].job])
  BY <1>2 DEF Open, Holds
<1> QED BY <1>1, <1>2, <1>3, <1>4, <1>5

\* A group whose end is announced, or about to be, has no job at work.
LEMMA NotifiedIsOver ==
  ASSUME IInv, ReportInv, NEW w \in Workers, worker[w].pc \notin {"idle", "report"}
  PROVE  ~group[GroupOf[worker[w].job]].notified
BY AtWork DEF GroupInv, CountInv

\* One goroutine moves on inside runJob, and writes at most its own job.
LEMMA BusyReports ==
  ASSUME IInv, ReportInv, NEW w \in Workers, NEW x,
         worker[w].pc \notin {"idle", "announce", "report"},
         x.pc \notin {"idle", "begin", "announce", "report"}, x.job = worker[w].job,
         worker[w].pc \in Busy => x.pc \in Busy,
         worker' = [worker EXCEPT ![w] = x],
         \A j \in Jobs : j # worker[w].job => job'[j] = job[j],
         UNCHANGED <<main, group, snap, sent>>
  PROVE  ReportInv'
<1>1. /\ main.pc = "jobs" /\ SnapInv /\ \A g \in Groups : GroupInv(g)
      /\ worker[w].job \in Jobs /\ worker[w].job \in Open(GroupOf[worker[w].job])
  BY AtWork
<1>2. worker'[w] = x /\ \A y \in Workers : y # w => worker'[y] = worker[y]
  BY DEF IInv, TypeOK
<1>3. \A y \in Workers : \A j : Holds(y, j)' <=> Holds(y, j) BY <1>2 DEF Holds
<1>4. \A g : Open(g)' = Open(g) BY <1>3 DEF Open, Members
<1>5. SnapInv'
  <2> SUFFICES ASSUME NEW j \in Jobs
               PROVE  snap'[j] = job'[j] \/ \E y \in Workers : Holds(y, j)' /\ worker'[y].pc # "begin"
    BY DEF SnapInv
  <2>1. CASE j = worker[w].job BY <1>2, <2>1 DEF Holds
  <2>2. CASE j # worker[w].job BY <1>1, <1>2, <1>3, <2>2 DEF SnapInv, Holds
  <2> QED BY <2>1, <2>2
<1>6. ASSUME NEW g \in Groups PROVE GroupInv(g)'
  <2>1. CountInv(g) /\ StartInv(g) /\ EndInv(g) BY <1>1 DEF GroupInv
  <2>2. \A y \in Workers : Serves(y, g, Busy) => Serves(y, g, Busy)' BY <1>2 DEF Serves
  <2>3. \A y \in Workers : /\ Serves(y, g, {"announce"})' <=> Serves(y, g, {"announce"})
                           /\ Serves(y, g, {"report"})' <=> Serves(y, g, {"report"})
                           /\ Serves(y, g, {"report"}) => worker'[y].orig = worker[y].orig
    BY <1>2 DEF Serves
  <2>4. CountInv(g)' BY <1>4, <2>1, <2>2 DEF CountInv, Members
  <2>5. StartInv(g)' BY <2>1, <2>3 DEF StartInv
  <2>6. group[g].notified => aggregate(g, job') = aggregate(g, job)
    <3> SUFFICES ASSUME group[g].notified PROVE aggregate(g, job') = aggregate(g, job) OBVIOUS
    <3>1. worker[w].job \notin Members(g) BY <1>1, <2>1 DEF CountInv, Members
    <3>2. \A j \in Members(g) : job'[j] = job[j] BY <3>1 DEF Members
    <3> QED BY <3>2, AggregateSame
  <2>7. EndInv(g)'
    <3>1. NoReport(g)' <=> NoReport(g) BY <2>3 DEF NoReport
    <3>2. (Before(g)' <=> Before(g)) /\ (group[g].notified => (After(g)' <=> After(g)))
      BY <2>6 DEF Before, After
    <3> QED BY <2>1, <2>3, <2>6, <3>1, <3>2 DEF EndInv
  <2> QED BY <2>4, <2>5, <2>7 DEF GroupInv
<1>7. main'.pc = "jobs" BY <1>1
<1> QED BY <1>5, <1>6, <1>7 DEF ReportInv, GroupsReported

\* The steps of runJob between its start and its deferred calls.
LEMMA StepReports ==
  ASSUME IInv, ReportInv, NEW w \in Workers, NEW from, NEW to, Step(w, from, to),
         from \notin {"idle", "announce", "report"}, to \notin {"idle", "begin", "announce", "report"},
         from \in Busy => to \in Busy,
         \A j \in Jobs : j # worker[w].job => job'[j] = job[j],
         UNCHANGED <<main, group, snap, sent>>
  PROVE  ReportInv'
<1> DEFINE x == [worker[w] EXCEPT !.pc = to]
<1>1. worker[w] \in WorkerRec BY DEF IInv, TypeOK
<1>2. worker[w].pc = from /\ worker' = [worker EXCEPT ![w] = x] BY DEF Step, IInv, TypeOK
<1>3. x.pc = to /\ x.job = worker[w].job BY <1>1 DEF WorkerRec
<1> HIDE DEF x
<1> QED BY <1>2, <1>3, BusyReports

LEMMA RunReports ==
  ASSUME IInv, ReportInv, NEW w \in Workers,
         \/ RenderFails(w) \/ PolicySkips(w) \/ Prepare(w) \/ Panic(w)
         \/ \E o \in Outcomes : RunEnds(w, o) \/ RunFails(w, o) \/ RerunEnds(w, o)
         \/ RetryOver(w) \/ RetryCancelled(w) \/ RetryAgain(w)
         \/ WaitCancelled(w) \/ GetDecision(w) \/ DeleteDecision(w)
  PROVE  ReportInv'
<1> USE DEF Busy
<1>1. worker[w] \in WorkerRec /\ job \in [Jobs -> JobStatus] BY DEF IInv, TypeOK
<1>2. \A s : Write(worker[w].job, s) => \A j \in Jobs : j # worker[w].job => job'[j] = job[j]
  BY <1>1 DEF Write
<1>3. CASE RenderFails(w) \/ PolicySkips(w)
  <2>1. Step(w, "begin", "end") /\ OnlyJob /\ \E s : Write(worker[w].job, s)
    BY <1>3 DEF RenderFails, PolicySkips
  <2> QED BY <2>1, <1>2, StepReports DEF OnlyJob
<1>4. CASE Prepare(w)
  <2>1. Step(w, "begin", "started") /\ OnlyJob /\ \E s : Write(worker[w].job, s)
    BY <1>4 DEF Prepare
  <2> QED BY <2>1, <1>2, StepReports DEF OnlyJob
<1>5. ASSUME NEW o \in Outcomes, RunEnds(w, o) PROVE ReportInv'
  <2>1. Step(w, "run", "end") /\ OnlyJob /\ \E s : Write(worker[w].job, s) BY <1>5 DEF RunEnds
  <2> QED BY <2>1, <1>2, StepReports DEF OnlyJob
<1>6. CASE Panic(w)
  <2>1. Step(w, "run", "end") /\ OnlyJob /\ \E s : Write(worker[w].job, s) BY <1>6 DEF Panic
  <2> QED BY <2>1, <1>2, StepReports DEF OnlyJob
<1>7. ASSUME NEW o \in Outcomes, RunFails(w, o) PROVE ReportInv'
  <2>1. PICK x \in {[worker[w] EXCEPT !.pc = "retry", !.n = 1],
                    [worker[w] EXCEPT !.pc = "wait", !.orig = o]} :
          worker' = [worker EXCEPT ![w] = x]
    BY <1>7 DEF RunFails, IInv, TypeOK
  <2>2. worker[w].pc = "run" /\ OnlyJob /\ \E s : Write(worker[w].job, s) BY <1>7 DEF RunFails
  <2>3. x.pc \in {"retry", "wait"} /\ x.job = worker[w].job BY <1>1 DEF WorkerRec
  <2> QED BY <2>1, <2>2, <2>3, <1>2, BusyReports DEF OnlyJob
<1>8. ASSUME NEW o \in Outcomes, RerunEnds(w, o) PROVE ReportInv'
  <2> DEFINE x == [worker[w] EXCEPT !.pc = IF o = "passed" THEN "end" ELSE "retry",
                                    !.n = worker[w].n + 1]
  <2>1. /\ worker[w].pc = "rerun" /\ worker' = [worker EXCEPT ![w] = x]
        /\ OnlyJob /\ \E s : Write(worker[w].job, s)
    BY <1>8 DEF RerunEnds, IInv, TypeOK
  <2>2. x.pc \in {"end", "retry"} /\ x.job = worker[w].job BY <1>1 DEF WorkerRec
  <2> HIDE DEF x
  <2> QED BY <2>1, <2>2, <1>2, BusyReports DEF OnlyJob
<1>9. CASE RetryOver(w)
  <2>1. Step(w, "retry", "end") /\ OnlyJob /\ UNCHANGED job BY <1>9 DEF RetryOver
  <2> QED BY <2>1, StepReports DEF OnlyJob
<1>10. CASE RetryCancelled(w)
  <2>1. Step(w, "retry", "end") /\ OnlyJob /\ \E s : Write(worker[w].job, s)
    BY <1>10 DEF RetryCancelled
  <2> QED BY <2>1, <1>2, StepReports DEF OnlyJob
<1>11. CASE RetryAgain(w)
  <2>1. Step(w, "retry", "rerun") /\ OnlyJob /\ \E s : Write(worker[w].job, s)
    BY <1>11 DEF RetryAgain
  <2> QED BY <2>1, <1>2, StepReports DEF OnlyJob
<1>12. CASE WaitCancelled(w)
  <2>1. Step(w, "wait", "end") /\ OnlyJob /\ \E s : Write(worker[w].job, s)
    BY <1>12 DEF WaitCancelled
  <2> QED BY <2>1, <1>2, StepReports DEF OnlyJob
<1>13. CASE GetDecision(w)
  <2>1. Step(w, "wait", "decided") /\ OnlyJob /\ \E s : Write(worker[w].job, s)
    BY <1>13 DEF GetDecision
  <2> QED BY <2>1, <1>2, StepReports DEF OnlyJob
<1>14. CASE DeleteDecision(w)
  <2>1. Step(w, "decided", "end") /\ UNCHANGED <<job, main, group, snap, sent>>
    BY <1>14 DEF DeleteDecision
  <2> QED BY <2>1, StepReports
<1> QED BY <1>3, <1>4, <1>5, <1>6, <1>7, <1>8, <1>9, <1>10, <1>11, <1>12, <1>13, <1>14

\* runJob returns for a job that is completed already.
LEMMA SkipReports ==
  ASSUME IInv, ReportInv, NEW w \in Workers, SkipDone(w)
  PROVE  ReportInv'
<1>1. /\ worker[w].pc = "begin" /\ worker' = [worker EXCEPT ![w] = IdleWorker]
      /\ UNCHANGED <<job, main, group, snap, sent>>
  BY DEF SkipDone, OnlyJob
<1>2. main.pc = "jobs" /\ SnapInv /\ \A g \in Groups : GroupInv(g) BY <1>1, AtWork
<1>3. worker'[w].pc = "idle" /\ \A y \in Workers : y # w => worker'[y] = worker[y]
  BY <1>1, IdleRecord DEF IInv, TypeOK
<1>4. \A y \in Workers : \A j : Holds(y, j)' => Holds(y, j) BY <1>3 DEF Holds
<1>5. SnapInv'
  BY <1>1, <1>2, <1>3 DEF SnapInv, Holds
<1>6. ASSUME NEW g \in Groups PROVE GroupInv(g)'
  <2>1. CountInv(g) /\ StartInv(g) /\ EndInv(g) BY <1>2 DEF GroupInv
  <2>2. Open(g)' \subseteq Open(g) /\ Members(g)' = Members(g) BY <1>1, <1>4 DEF Open, Members
  <2>3. Cardinality(Open(g)') <= Cardinality(Open(g)) /\ Cardinality(Open(g)') \in Nat
    BY <2>2, OpenFacts, FS_Subset, FS_CardinalityType
  <2>4. \A y \in Workers : /\ Serves(y, g, Busy) => Serves(y, g, Busy)'
                           /\ Serves(y, g, {"announce"})' <=> Serves(y, g, {"announce"})
                           /\ Serves(y, g, {"report"})' <=> Serves(y, g, {"report"})
                           /\ Serves(y, g, {"report"}) => worker'[y].orig = worker[y].orig
    BY <1>1, <1>3 DEF Serves, Busy
  <2>5. group[g].finished \in Nat BY DEF IInv, TypeOK, GroupRec
  <2>6. CountInv(g)'
    BY <1>1, <2>1, <2>2, <2>3, <2>4, <2>5, OpenFacts DEF CountInv
  <2>7. StartInv(g)' BY <1>1, <2>1, <2>4 DEF StartInv
  <2>8. EndInv(g)'
    BY <1>1, <2>1, <2>4 DEF EndInv, NoReport, Before, After, aggregate, Members
  <2> QED BY <2>6, <2>7, <2>8 DEF GroupInv
<1> QED BY <1>1, <1>2, <1>5, <1>6 DEF ReportInv, GroupsReported

\* A group that a step of jobNotifier is not about keeps what it has heard.
LEMMA OtherGroup ==
  ASSUME NEW g \in Groups, GroupInv(g), UNCHANGED job,
         group'[g] = group[g], sent'[g] = sent[g], Open(g)' = Open(g),
         \A y \in Workers : \A pcs \in {Busy, {"announce"}, {"report"}} :
           Serves(y, g, pcs) \/ Serves(y, g, pcs)' => worker'[y] = worker[y]
  PROVE  GroupInv(g)'
<1>1. \A y \in Workers : \A pcs \in {Busy, {"announce"}, {"report"}} :
        Serves(y, g, pcs)' <=> Serves(y, g, pcs)
  BY DEF Serves, Busy
<1>2. CountInv(g)' BY <1>1 DEF GroupInv, CountInv, Members
<1>3. StartInv(g)' BY <1>1 DEF GroupInv, StartInv
<1>4. NoReport(g)' <=> NoReport(g) BY <1>1 DEF NoReport
<1>5. (Before(g)' <=> Before(g)) /\ (After(g)' <=> After(g))
  BY DEF Before, After, aggregate, Members
<1>6. \A y \in Workers : Serves(y, g, {"report"}) => worker'[y].orig = worker[y].orig OBVIOUS
<1>7. aggregate(g, job') = aggregate(g, job) OBVIOUS
<1>8. EndInv(g)' BY <1>1, <1>4, <1>5, <1>6, <1>7 DEF GroupInv, EndInv
<1> QED BY <1>2, <1>3, <1>8 DEF GroupInv

LEMMA StartedReports ==
  ASSUME IInv, ReportInv, NEW w \in Workers, jobStarted(w)
  PROVE  ReportInv'
<1> DEFINE j == worker[w].job
           g == GroupOf[j]
<1>1. worker[w].pc = "started" /\ UNCHANGED <<job, main, sent>> BY DEF jobStarted, Step
<1>2. /\ main.pc = "jobs" /\ SnapInv /\ \A h \in Groups : GroupInv(h)
      /\ j \in Jobs /\ g \in Groups
  BY <1>1, AtWork
<1>3. CASE group[g].prepared
  <2>1. Step(w, "started", "run") /\ UNCHANGED <<group, snap>> BY <1>3 DEF jobStarted
  <2> QED BY <1>1, <2>1, StepReports DEF Busy
<1>4. CASE ~group[g].prepared
  <2> DEFINE x == [worker[w] EXCEPT !.pc = "announce"]
  <2>1. /\ worker' = [worker EXCEPT ![w] = x]
        /\ group' = [group EXCEPT ![g].prepared = TRUE] /\ snap' = [snap EXCEPT ![j] = job[j]]
    BY <1>4 DEF jobStarted, Step, IInv, TypeOK
  <2>2. worker[w] \in WorkerRec /\ group[g] \in GroupRec BY <1>2 DEF IInv, TypeOK
  <2>3. x.pc = "announce" /\ x.job = j BY <2>2 DEF WorkerRec
  <2> HIDE DEF x
  <2>4. worker'[w] = x /\ \A y \in Workers : y # w => worker'[y] = worker[y]
    BY <2>1 DEF IInv, TypeOK
  <2>5. \A y \in Workers : \A i : Holds(y, i)' <=> Holds(y, i) BY <1>1, <2>3, <2>4 DEF Holds
  <2>6. \A h : Open(h)' = Open(h) BY <1>1, <2>5 DEF Open, Members
  <2>7. SnapInv'
    <3>1. \A i \in Jobs : snap'[i] = job[i] \/ snap'[i] = snap[i]
      BY <2>1, <1>2 DEF IInv, TypeOK
    <3>2. \A y \in Workers : worker[y].pc # "begin" => worker'[y].pc # "begin" BY <2>3, <2>4
    <3> QED BY <1>1, <1>2, <2>5, <3>1, <3>2 DEF SnapInv
  <2>8. ASSUME NEW h \in Groups, h # g PROVE GroupInv(h)'
    <3>1. group'[h] = group[h] /\ sent'[h] = sent[h] BY <1>1, <2>1, <2>8 DEF IInv, TypeOK
    <3>2. \A y \in Workers : \A pcs :
            Serves(y, h, pcs) \/ Serves(y, h, pcs)' => worker'[y] = worker[y]
      BY <2>3, <2>4, <2>8 DEF Serves
    <3> QED BY <1>1, <1>2, <2>6, <3>1, <3>2, OtherGroup
  <2>9. ASSUME NEW h \in Groups, h = g PROVE GroupInv(h)'
    <3>1. CountInv(h) /\ StartInv(h) /\ EndInv(h) BY <1>2 DEF GroupInv
    <3>2. /\ group'[h].prepared /\ group'[h].finished = group[h].finished
          /\ group'[h].notified = group[h].notified
      BY <2>1, <2>2, <2>9, <1>2 DEF IInv, TypeOK, GroupRec
    <3>3. ~group[h].notified /\ sent[h] = <<>> BY <1>1, <1>4, <2>9, <3>1, NotifiedIsOver DEF StartInv
    <3>4. Serves(w, h, Busy)' BY <2>3, <2>4, <2>9 DEF Serves, Busy
    <3>5. CountInv(h)' BY <2>6, <3>1, <3>2, <3>3, <3>4 DEF CountInv, Members
    <3>6. \A y \in Workers : Serves(y, h, {"announce"})' => y = w
      BY <1>4, <2>4, <2>9, <3>1 DEF StartInv, Serves
    <3>7. StartInv(h)' BY <1>1, <3>2, <3>3, <3>6 DEF StartInv
    <3>8. NoReport(h)' BY <1>1, <2>3, <2>4, <3>1, <3>3 DEF EndInv, NoReport, Serves
    <3>9. EndInv(h)' BY <1>1, <3>2, <3>3, <3>8 DEF EndInv, Before
    <3> QED BY <3>5, <3>7, <3>9 DEF GroupInv
  <2> QED BY <1>1, <1>2, <2>7, <2>8, <2>9 DEF ReportInv, GroupsReported
<1> QED BY <1>3, <1>4

LEMMA AnnounceReports ==
  ASSUME IInv, ReportInv, NEW w \in Workers, Announce(w)
  PROVE  ReportInv'
<1> DEFINE j == worker[w].job
           g == GroupOf[j]
           x == [worker[w] EXCEPT !.pc = "run"]
<1>1. /\ worker[w].pc = "announce" /\ worker' = [worker EXCEPT ![w] = x]
      /\ sent' = [sent EXCEPT ![g] = Append(@, "prepare")]
      /\ UNCHANGED <<job, main, group, snap>>
  BY DEF Announce, Step, IInv, TypeOK
<1>2. /\ main.pc = "jobs" /\ SnapInv /\ \A h \in Groups : GroupInv(h)
      /\ j \in Jobs /\ g \in Groups
  BY <1>1, AtWork
<1>3. worker[w] \in WorkerRec BY DEF IInv, TypeOK
<1>4. x.pc = "run" /\ x.job = j BY <1>3 DEF WorkerRec
<1> HIDE DEF x
<1>5. worker'[w] = x /\ \A y \in Workers : y # w => worker'[y] = worker[y]
  BY <1>1 DEF IInv, TypeOK
<1>6. \A y \in Workers : \A i : Holds(y, i)' <=> Holds(y, i) BY <1>1, <1>4, <1>5 DEF Holds
<1>7. \A h : Open(h)' = Open(h) BY <1>1, <1>6 DEF Open, Members
<1>8. SnapInv'
  <2>1. \A y \in Workers : worker[y].pc # "begin" => worker'[y].pc # "begin" BY <1>4, <1>5
  <2> QED BY <1>1, <1>2, <1>6, <2>1 DEF SnapInv
<1>9. ASSUME NEW h \in Groups, h # g PROVE GroupInv(h)'
  <2>1. group'[h] = group[h] /\ sent'[h] = sent[h] BY <1>1, <1>9 DEF IInv, TypeOK
  <2>2. \A y \in Workers : \A pcs :
          Serves(y, h, pcs) \/ Serves(y, h, pcs)' => worker'[y] = worker[y]
    BY <1>4, <1>5, <1>9 DEF Serves
  <2> QED BY <1>1, <1>2, <1>7, <2>1, <2>2, OtherGroup
<1>10. ASSUME NEW h \in Groups, h = g PROVE GroupInv(h)'
  <2>1. CountInv(h) /\ StartInv(h) /\ EndInv(h) BY <1>2 DEF GroupInv
  <2>2. group[h].prepared /\ sent[h] = <<>> /\ ~group[h].notified
    BY <1>1, <1>10, <2>1, NotifiedIsOver DEF StartInv, Serves
  <2>3. sent'[h] = <<"prepare">>
    <3>1. sent'[h] = Append(sent[h], "prepare") BY <1>1, <1>10 DEF IInv, TypeOK
    <3> QED BY <2>2, <3>1
  <2>4. Serves(w, h, Busy)' BY <1>4, <1>5, <1>10 DEF Serves, Busy
  <2>5. CountInv(h)' BY <1>1, <1>7, <2>1, <2>2, <2>4 DEF CountInv, Members
  <2>6. \A y \in Workers : ~Serves(y, h, {"announce"})'
    BY <1>1, <1>4, <1>5, <1>10, <2>1 DEF StartInv, Serves
  <2>7. StartInv(h)' BY <1>1, <2>2, <2>6 DEF StartInv
  <2>8. NoReport(h)' BY <1>4, <1>5, <2>1, <2>2 DEF EndInv, NoReport, Serves
  <2>9. EndInv(h)' BY <1>1, <2>2, <2>3, <2>8 DEF EndInv, Before
  <2> QED BY <2>5, <2>7, <2>9 DEF GroupInv
<1> QED BY <1>1, <1>2, <1>8, <1>9, <1>10 DEF ReportInv, GroupsReported

LEMMA Appended ==
  ASSUME NEW S, NEW a \in S, NEW b \in S
  PROVE  Append(<<b>>, a) = <<b, a>>
<1>1. <<b>> \in Seq(S) /\ <<b, a>> \in Seq(S) OBVIOUS
<1>2. Append(<<b>>, a) \in Seq(S) /\ Len(Append(<<b>>, a)) = 2 BY <1>1
<1>3. Append(<<b>>, a)[1] = b /\ Append(<<b>>, a)[2] = a BY <1>1
<1>4. Len(<<b, a>>) = 2 /\ <<b, a>>[1] = b /\ <<b, a>>[2] = a OBVIOUS
<1>5. \A i \in 1..2 : i = 1 \/ i = 2 OBVIOUS
<1>6. \A i \in 1..2 : Append(<<b>>, a)[i] = <<b, a>>[i] BY <1>3, <1>4, <1>5
<1> QED BY <1>1, <1>2, <1>4, <1>6, SeqEqual

\* The last notification of a group, behind that of its start or alone.
LEMMA LastSent ==
  ASSUME NEW a \in StageStatus, NEW s \in {<<>>, <<"prepare">>}
  PROVE  Append(s, a) \in {<<a>>, <<"prepare", a>>}
<1>1. "prepare" \in StageStatus BY DEF StageStatus, JobStatus
<1>2. Append(<<"prepare">>, a) = <<"prepare", a>> BY <1>1, Appended
<1>3. Append(<<>>, a) = <<a>> OBVIOUS
<1> QED BY <1>2, <1>3

\* jobFinished counts the job; the one that completes the count finds every snapshot current.
LEMMA FinishedReports ==
  ASSUME IInv, ReportInv, NEW w \in Workers, jobFinished(w)
  PROVE  ReportInv'
<1> DEFINE j == worker[w].job
           g == GroupOf[j]
           x == IF Complete(g) THEN [worker[w] EXCEPT !.pc = "report", !.orig = aggregate(g, snap')]
                ELSE IdleWorker
<1>1. worker[w].pc = "end" /\ UNCHANGED <<job, main, sent>> BY DEF jobFinished
<1>2. /\ main.pc = "jobs" /\ SnapInv /\ \A h \in Groups : GroupInv(h)
      /\ j \in Jobs /\ g \in Groups /\ j \notin main.todo /\ j \in Open(g)
      /\ \A y \in Workers : y # w /\ worker[y].pc # "idle" => worker[y].job # j
  BY <1>1, AtWork
<1>3. ~group[g].notified BY <1>1, NotifiedIsOver
<1>4. /\ worker' = [worker EXCEPT ![w] = x] /\ snap' = [snap EXCEPT ![j] = job[j]]
      /\ group' = [group EXCEPT ![g] = [@ EXCEPT !.finished = group[g].finished + 1,
                                                 !.notified = Complete(g)]]
  BY <1>3 DEF jobFinished, IInv, TypeOK
<1>5. worker[w] \in WorkerRec /\ group[g] \in GroupRec BY <1>2 DEF IInv, TypeOK
<1>6. /\ Complete(g) => x.pc = "report" /\ x.job = j /\ x.orig = aggregate(g, snap')
      /\ ~Complete(g) => x.pc = "idle"
  BY <1>5, IdleRecord DEF WorkerRec
<1> HIDE DEF x
<1>7. worker'[w] = x /\ \A y \in Workers : y # w => worker'[y] = worker[y]
  BY <1>4 DEF IInv, TypeOK
<1>8. \A y \in Workers : \A i : Holds(y, i)' <=> Holds(y, i) /\ y # w BY <1>6, <1>7 DEF Holds
<1>9. \A y \in Workers : Holds(y, j) => y = w BY <1>2 DEF Holds
<1>10. \A h : Open(h)' = Open(h) \ {j}
  <2>1. \A i : i # j => \A y \in Workers : Holds(y, i)' <=> Holds(y, i) BY <1>8 DEF Holds
  <2>2. \A i : i = j => \A y \in Workers : ~Holds(y, i)' BY <1>8, <1>9
  <2> QED BY <1>1, <1>2, <2>1, <2>2 DEF Open, Members
<1>11. SnapInv'
  <2> SUFFICES ASSUME NEW i \in Jobs
               PROVE  snap'[i] = job'[i] \/ \E y \in Workers : Holds(y, i)' /\ worker'[y].pc # "begin"
    BY DEF SnapInv
  <2>1. CASE i = j BY <1>1, <1>2, <1>4, <2>1 DEF IInv, TypeOK
  <2>2. CASE i # j
    <3>1. snap'[i] = snap[i] /\ job'[i] = job[i] BY <1>1, <1>4, <2>2 DEF IInv, TypeOK
    <3>2. \A y \in Workers : Holds(y, i) => y # w /\ worker'[y] = worker[y] /\ Holds(y, i)'
      BY <1>7, <1>8, <2>2 DEF Holds
    <3> QED BY <1>2, <3>1, <3>2 DEF SnapInv
  <2> QED BY <2>1, <2>2
<1>12. ASSUME NEW h \in Groups, h # g PROVE GroupInv(h)'
  <2>1. group'[h] = group[h] /\ sent'[h] = sent[h] BY <1>1, <1>4, <1>12 DEF IInv, TypeOK
  <2>2. j \notin Open(h) BY <1>12 DEF Open, Members
  <2>3. Open(h)' = Open(h) BY <1>10, <2>2
  <2>4. \A y \in Workers : \A pcs \in {Busy, {"announce"}, {"report"}} :
          Serves(y, h, pcs) \/ Serves(y, h, pcs)' => worker'[y] = worker[y]
    BY <1>6, <1>7, <1>12 DEF Serves, Busy
  <2> QED BY <1>1, <1>2, <2>1, <2>3, <2>4, OtherGroup
<1>13. ASSUME NEW h \in Groups, h = g PROVE GroupInv(h)'
  <2>1. CountInv(h) /\ StartInv(h) /\ EndInv(h) BY <1>2 DEF GroupInv
  <2>2. /\ group'[h].prepared = group[h].prepared /\ group'[h].finished = group[h].finished + 1
        /\ group'[h].notified = Complete(h) /\ group[h].finished \in Nat
    BY <1>4, <1>5, <1>13 DEF IInv, TypeOK, GroupRec
  <2>3. Before(h) /\ NoReport(h) BY <1>3, <1>13, <2>1 DEF EndInv
  <2>4. Open(h)' = Open(h) \ {j} /\ j \in Open(h) BY <1>2, <1>10, <1>13
  <2>5. Cardinality(Open(h)') = Cardinality(Open(h)) - 1 /\ IsFiniteSet(Open(h)')
    <3>1. IsFiniteSet(Open(h)) BY OpenFacts
    <3>2. /\ IsFiniteSet(Open(h) \ {j})
          /\ Cardinality(Open(h) \ {j}) =
               IF j \in Open(h) THEN Cardinality(Open(h)) - 1 ELSE Cardinality(Open(h))
      BY <3>1, FS_RemoveElement
    <3> QED BY <2>4, <3>2
  <2>6. Complete(h) => Open(h)' = {}
    <3>1. Complete(h) => Cardinality(Open(h)) <= 1 BY <2>1, <2>2, OpenFacts DEF CountInv, Complete
    <3>2. Cardinality(Open(h)') \in Nat BY <2>5, FS_CardinalityType
    <3>3. Complete(h) => Cardinality(Open(h)') = 0 BY <2>5, <3>1, <3>2, OpenFacts
    <3> QED BY <2>5, <3>3, FS_EmptySet
  <2>7. CountInv(h)'
    <3>1. Cardinality(Open(h)) \in Nat /\ Cardinality(Members(h)) \in Nat BY OpenFacts
    <3>2. group'[h].finished + Cardinality(Open(h)') <= Cardinality(Members(h))
      BY <2>1, <2>2, <2>5, <3>1 DEF CountInv
    <3>3. group'[h].finished > 0 BY <2>2
    <3>4. Members(h)' = Members(h) BY DEF Members
    <3> QED BY <2>2, <2>6, <3>2, <3>3, <3>4 DEF CountInv
  <2>8. \A y \in Workers : Serves(y, h, {"announce"})' => Serves(y, h, {"announce"})
    BY <1>6, <1>7 DEF Serves
  <2>9. StartInv(h)' BY <1>1, <1>3, <1>13, <2>1, <2>2, <2>8 DEF StartInv
  <2>10. \A y \in Workers : y # w => ~Serves(y, h, {"report"})' BY <1>7, <2>3 DEF NoReport, Serves
  <2>11. Before(h)' BY <1>1, <2>3 DEF Before
  <2>12. CASE Complete(h)
    <3>1. worker'[w].pc = "report" /\ worker'[w].job = j /\ worker'[w].orig = aggregate(h, snap')
      BY <1>6, <1>7, <1>13, <2>12
    <3>2. Serves(w, h, {"report"})' BY <1>13, <3>1 DEF Serves
    <3>3. \A i \in Members(h) : snap'[i] = job'[i]
      <4>1. \A i \in Members(h) : i \in Jobs /\ \A y \in Workers : ~Holds(y, i)'
        BY <2>6, <2>12 DEF Open, Members
      <4> QED BY <1>11, <4>1 DEF SnapInv
    <3>4. aggregate(h, snap') = aggregate(h, job') BY <3>3, AggregateSame
    <3> QED BY <2>2, <2>7, <2>9, <2>10, <2>11, <2>12, <3>1, <3>2, <3>4 DEF GroupInv, EndInv
  <2>13. CASE ~Complete(h)
    <3>1. NoReport(h)' BY <1>6, <1>7, <1>13, <2>10, <2>13 DEF NoReport, Serves
    <3> QED BY <2>2, <2>7, <2>9, <2>11, <2>13, <3>1 DEF GroupInv, EndInv
  <2> QED BY <2>12, <2>13
<1> QED BY <1>1, <1>2, <1>11, <1>12, <1>13 DEF ReportInv, GroupsReported

LEMMA LastReports ==
  ASSUME IInv, ReportInv, NEW w \in Workers, Report(w)
  PROVE  ReportInv'
<1> DEFINE j == worker[w].job
           g == GroupOf[j]
<1>1. /\ worker[w].pc = "report" /\ worker' = [worker EXCEPT ![w] = IdleWorker]
      /\ sent' = [sent EXCEPT ![g] = Append(@, worker[w].orig)]
      /\ UNCHANGED <<job, main, group, snap>>
  BY DEF Report
<1>2. /\ main.pc = "jobs" /\ SnapInv /\ \A h \in Groups : GroupInv(h)
      /\ j \in Jobs /\ g \in Groups
  BY <1>1, AtWork
<1>3. worker'[w].pc = "idle" /\ \A y \in Workers : y # w => worker'[y] = worker[y]
  BY <1>1, IdleRecord DEF IInv, TypeOK
<1>4. \A y \in Workers : \A i : Holds(y, i)' <=> Holds(y, i) BY <1>1, <1>3 DEF Holds
<1>5. \A h : Open(h)' = Open(h) BY <1>1, <1>4 DEF Open, Members
<1>6. SnapInv'
  <2>1. \A y \in Workers : worker[y].pc # "begin" => worker'[y].pc # "begin" BY <1>3
  <2> QED BY <1>1, <1>2, <1>4, <2>1 DEF SnapInv
<1>7. ASSUME NEW h \in Groups, h # g PROVE GroupInv(h)'
  <2>1. group'[h] = group[h] /\ sent'[h] = sent[h] BY <1>1, <1>7 DEF IInv, TypeOK
  <2>2. \A y \in Workers : \A pcs \in {Busy, {"announce"}, {"report"}} :
          Serves(y, h, pcs) \/ Serves(y, h, pcs)' => worker'[y] = worker[y]
    BY <1>3, <1>7 DEF Serves, Busy
  <2> QED BY <1>1, <1>2, <1>5, <2>1, <2>2, OtherGroup
<1>8. ASSUME NEW h \in Groups, h = g PROVE GroupInv(h)'
  <2>1. CountInv(h) /\ StartInv(h) /\ EndInv(h) BY <1>2 DEF GroupInv
  <2>2. Serves(w, h, {"report"}) BY <1>1, <1>8 DEF Serves
  <2>3. /\ group[h].notified /\ Before(h) /\ worker[w].orig = aggregate(h, job)
        /\ \A y \in Workers : Serves(y, h, {"report"}) => y = w
    BY <2>1, <2>2 DEF EndInv, NoReport
  <2>4. Open(h) = {} /\ group[h].finished > 0 BY <2>1, <2>3 DEF CountInv
  <2>5. CountInv(h)'
    <3>1. group[h].finished \in Nat BY GroupFields DEF IInv, TypeOK
    <3>2. Members(h)' = Members(h) BY DEF Members
    <3>3. group'[h].finished + Cardinality(Open(h)') <= Cardinality(Members(h))
      BY <1>1, <1>5, <2>1 DEF CountInv
    <3>4. group'[h].finished > 0 /\ Open(h)' = {} BY <1>1, <1>5, <2>4
    <3> QED BY <1>1, <3>1, <3>2, <3>3, <3>4 DEF CountInv
  <2>6. \A y \in Workers : ~Serves(y, h, {"announce"})'
    <3> SUFFICES ASSUME NEW y \in Workers, Serves(y, h, {"announce"})' PROVE FALSE OBVIOUS
    <3>1. worker[y].pc = "announce" /\ GroupOf[worker[y].job] = h BY <1>3 DEF Serves
    <3>2. worker[y].job \in Open(h) BY <3>1, AtWork
    <3> QED BY <2>4, <3>2
  <2>7. StartInv(h)' BY <1>1, <2>3, <2>6 DEF StartInv
  <2>8. NoReport(h)' BY <1>3, <2>3 DEF NoReport, Serves
  <2>9. sent'[h] = Append(sent[h], aggregate(h, job)) BY <1>1, <1>8, <2>3 DEF IInv, TypeOK
  <2>10. sent'[h] \in {<<aggregate(h, job)>>, <<"prepare", aggregate(h, job)>>}
    BY <2>3, <2>9, LastSent, AggregateTyped DEF Before, IInv, TypeOK
  <2>11. aggregate(h, job') = aggregate(h, job) BY <1>1
  <2>12. After(h)' BY <2>10, <2>11 DEF After
  <2> QED BY <1>1, <2>3, <2>5, <2>7, <2>8, <2>12 DEF GroupInv, EndInv
<1> QED BY <1>1, <1>2, <1>6, <1>7, <1>8 DEF ReportInv, GroupsReported

LEMMA FeedReports ==
  ASSUME IInv, ReportInv, NEW w \in Workers, Feed(w)
  PROVE  ReportInv'
<1>1. PICK j \in Jobs :
        /\ IsFirst(j, main.todo)
        /\ worker' = [worker EXCEPT ![w] = [IdleWorker EXCEPT !.pc = "begin", !.job = j]]
        /\ main' = [main EXCEPT !.todo = main.todo \ {j}]
  BY DEF Feed, SetMain
<1>2. /\ main.pc = "jobs" /\ worker[w].pc = "idle" /\ j \in main.todo
      /\ UNCHANGED <<job, group, snap, sent>>
  BY <1>1 DEF Feed, Idle, IsFirst
<1>3. SnapInv /\ \A g \in Groups : GroupInv(g) BY <1>2 DEF ReportInv
<1>4. main'.pc = "jobs" /\ main'.todo = main.todo \ {j} BY <1>1, <1>2, MainFields DEF MainRec
<1>5. /\ worker'[w].pc = "begin" /\ worker'[w].job = j
      /\ \A y \in Workers : y # w => worker'[y] = worker[y]
  BY <1>1 DEF IInv, TypeOK, IdleWorker
<1>6. \A y \in Workers : \A i : Holds(y, i)' <=> Holds(y, i) \/ (y = w /\ i = j)
  BY <1>2, <1>5 DEF Holds
<1>7. \A g : Open(g)' = Open(g) BY <1>2, <1>4, <1>6 DEF Open, Members
<1>8. SnapInv'
  <2>1. \A y \in Workers : \A i : Holds(y, i) /\ worker[y].pc # "begin" =>
          Holds(y, i)' /\ worker'[y].pc # "begin"
    BY <1>2, <1>5, <1>6 DEF Holds
  <2> QED BY <1>2, <1>3, <2>1 DEF SnapInv
<1>9. ASSUME NEW g \in Groups PROVE GroupInv(g)'
  <2>1. \A y \in Workers : \A pcs \in {Busy, {"announce"}, {"report"}} :
          Serves(y, g, pcs) \/ Serves(y, g, pcs)' => worker'[y] = worker[y]
    BY <1>2, <1>5 DEF Serves, Busy
  <2> QED BY <1>2, <1>3, <1>7, <2>1, OtherGroup
<1> QED BY <1>4, <1>8, <1>9 DEF ReportInv, GroupsReported

\* runStage makes a new notifier while no job is executed.
LEMMA RunStageReports ==
  ASSUME IInv, RunStage
  PROVE  ReportInv'
<1>1. /\ main.pc = "next" /\ main' = [main EXCEPT !.pc = "jobs", !.todo = JobsOf(main.stage)]
      /\ group' = [g \in Groups |-> FreshGroup] /\ sent' = [g \in Groups |-> <<>>]
      /\ snap' = job /\ UNCHANGED <<job, worker>>
  BY DEF RunStage, SetMain
<1>2. main'.pc = "jobs" BY <1>1, MainFields DEF MainRec
<1>3. \A w \in Workers : worker'[w].pc = "idle" BY <1>1, AllIdle DEF Idle
<1>4. \A w \in Workers : \A g : \A pcs \in {Busy, {"announce"}, {"report"}} : ~Serves(w, g, pcs)'
  BY <1>3 DEF Serves, Busy
<1>5. SnapInv' BY <1>1 DEF SnapInv
<1>6. ASSUME NEW g \in Groups PROVE GroupInv(g)'
  <2>1. group'[g] = FreshGroup /\ sent'[g] = <<>> BY <1>1
  <2>2. ~group'[g].prepared /\ group'[g].finished = 0 /\ ~group'[g].notified
    BY <2>1 DEF FreshGroup
  <2>3. Open(g)' \subseteq Members(g) /\ Members(g)' = Members(g) BY DEF Open, Members
  <2>4. /\ Cardinality(Open(g)') <= Cardinality(Members(g)) /\ Cardinality(Open(g)') \in Nat
        /\ Cardinality(Members(g)) \in Nat
    BY <2>3, OpenFacts, FS_Subset, FS_CardinalityType
  <2>5. CountInv(g)' BY <2>2, <2>3, <2>4 DEF CountInv
  <2>6. StartInv(g)' BY <1>4, <2>1 DEF StartInv
  <2>7. EndInv(g)' BY <1>4, <2>1, <2>2 DEF EndInv, Before, NoReport
  <2> QED BY <2>5, <2>6, <2>7 DEF GroupInv
<1> QED BY <1>2, <1>5, <1>6 DEF ReportInv, GroupsReported

\* flush finds every snapshot current, and no group without its last notification twice.
LEMMA FlushReports ==
  ASSUME IInv, ReportInv, Flush
  PROVE  ReportInv'
<1>1. /\ main.pc = "jobs" /\ main' = At("status") /\ UNCHANGED <<job, worker, snap>>
      /\ \A w \in Workers : worker[w].pc = "idle"
  BY DEF Flush, SetMain, Idle
<1>2. main'.pc = "status" BY <1>1, MainFields DEF At, MainRec
<1>3. SnapInv /\ \A g \in Groups : GroupInv(g) BY <1>1 DEF ReportInv
<1>4. \A j \in Jobs : snap[j] = job[j] BY <1>1, <1>3 DEF SnapInv, Holds
<1>5. ASSUME NEW g \in Groups
      PROVE  LET final == aggregate(g, job') IN
             sent'[g] \in IF Ran(g)' THEN {<<final>>, <<"prepare", final>>} ELSE {<<>>}
  <2>1. CountInv(g) /\ StartInv(g) /\ EndInv(g) BY <1>3 DEF GroupInv
  <2>2. \A w \in Workers : \A pcs \in {Busy, {"announce"}, {"report"}} : ~Serves(w, g, pcs)
    BY <1>1 DEF Serves, Busy
  <2>3. group[g].finished \in Nat /\ group[g] \in GroupRec BY GroupFields DEF IInv, TypeOK
  <2>4. group'[g].finished = group[g].finished
    BY <2>3 DEF Flush, GroupRec
  <2>5. sent'[g] = IF Unreported(g) THEN Append(sent[g], aggregate(g, snap)) ELSE sent[g]
    BY DEF Flush
  <2>6. aggregate(g, snap) = aggregate(g, job)
    <3>1. \A j \in Members(g) : snap[j] = job[j] BY <1>4 DEF Members
    <3> QED BY <3>1, AggregateSame
  <2>7. CASE Unreported(g)
    <3>1. Before(g) /\ group[g].finished > 0 BY <2>1, <2>3, <2>7 DEF EndInv, Unreported
    <3>2. sent'[g] \in {<<aggregate(g, job)>>, <<"prepare", aggregate(g, job)>>}
      BY <2>5, <2>6, <2>7, <3>1, LastSent, AggregateTyped DEF Before, IInv, TypeOK
    <3> QED BY <1>1, <2>4, <3>1, <3>2 DEF Ran
  <2>8. CASE ~Unreported(g) /\ group[g].notified
    <3>1. After(g) /\ group[g].finished > 0 BY <2>1, <2>2, <2>8 DEF EndInv, CountInv
    <3> QED BY <1>1, <2>4, <2>5, <2>8, <3>1 DEF Ran, After
  <2>9. CASE ~Unreported(g) /\ ~group[g].notified
    <3>1. group[g].finished = 0 /\ ~group[g].prepared
      BY <2>1, <2>2, <2>9 DEF CountInv, Unreported
    <3>2. sent[g] = <<>> BY <2>1, <2>9, <3>1 DEF StartInv
    <3> QED BY <2>4, <2>5, <2>9, <3>1, <3>2 DEF Ran
  <2> QED BY <2>7, <2>8, <2>9
<1>6. GroupsReported' BY <1>5 DEF GroupsReported, Ran, aggregate, Members
<1> QED BY <1>2, <1>6 DEF ReportInv

\* The other steps leave the notifier alone, or come when RunJobs is not in progress.
LEMMA OtherReports ==
  ASSUME IInv, ReportInv,
         \/ SkipStage \/ PauseStage \/ FinishStage \/ FinishTask \/ Request \/ UNCHANGED vars
  PROVE  ReportInv'
<1>1. CASE UNCHANGED <<main, worker, job, group, snap, sent>>
  <2>1. \A j : \A w \in Workers : Holds(w, j)' <=> Holds(w, j) BY <1>1 DEF Holds
  <2>2. SnapInv => SnapInv' BY <1>1, <2>1 DEF SnapInv
  <2>3. \A g : Open(g)' = Open(g) BY <1>1, <2>1 DEF Open, Members
  <2>4. \A g \in Groups : GroupInv(g) => GroupInv(g)' BY <1>1, <2>3, OtherGroup
  <2>5. GroupsReported => GroupsReported' BY <1>1 DEF GroupsReported, Ran, aggregate, Members
  <2> QED BY <1>1, <2>2, <2>4, <2>5 DEF ReportInv
<1>2. CASE main'.pc \notin {"jobs", "status"} BY <1>2 DEF ReportInv, GroupsReported
<1>3. CASE SkipStage \/ PauseStage \/ FinishStage \/ FinishTask
  <2>1. main'.pc \in {"next", "finish", "idle"}
    BY <1>3, MainFields DEF SkipStage, PauseStage, FinishStage, FinishTask, SetMain, NextOf, At, MainRec
  <2> QED BY <1>2, <2>1
<1>4. CASE Request
  <2>1. CASE Cancel \/ \E j \in Jobs, v \in {"ignore", "reject"} : HandleJobError(j, v)
    BY <1>1, <2>1 DEF Cancel, HandleJobError
  <2>2. CASE CancelPaused BY <1>1, <2>2 DEF CancelPaused
  <2>3. CASE Dispatch BY <1>2, <2>3 DEF Dispatch, SetMain
  <2> QED BY <1>4, <2>1, <2>2, <2>3 DEF Request, RetryWorkflowTaskV4, ManualExecWorkflowTaskV4
<1>5. CASE UNCHANGED vars BY <1>1, <1>5 DEF vars
<1> QED BY <1>3, <1>4, <1>5

LEMMA ReportNext ==
  ASSUME IInv, ReportInv, [Next]_vars
  PROVE  ReportInv'
<1>1. CASE MainStep BY <1>1, RunStageReports, FlushReports, FeedReports, OtherReports DEF MainStep
<1>2. ASSUME NEW w \in Workers, WorkerStep(w) PROVE ReportInv'
  BY <1>2, RunReports, SkipReports, StartedReports, AnnounceReports, FinishedReports, LastReports
     DEF WorkerStep
<1> QED BY <1>1, <1>2, OtherReports DEF Next

\* jobNotifier: when RunJobs has returned, every group with an executed job has one last
\* notification, with the worst status of its jobs, for any groups, pools and retries.
THEOREM GroupsAreReported == Spec => []GroupsReported
<1>1. Init => ReportInv
  <2> SUFFICES ASSUME Init PROVE ReportInv OBVIOUS
  <2>1. main = [pc |-> "next", stage |-> 1, todo |-> {}] BY DEF Init
  <2>2. main.pc = "next" BY <2>1
  <2> QED BY <2>2 DEF ReportInv, GroupsReported
<1>2. IInv /\ ReportInv /\ [Next]_vars => ReportInv' BY ReportNext
<1>3. ReportInv => GroupsReported BY DEF ReportInv
<1> QED BY <1>1, <1>2, <1>3, IInvHolds, PTL DEF Spec
=============================================================================
