----------------------------- MODULE VMAgentJobs -----------------------------
(* Jobs that run on virtual machines. The job controller of a workflow puts a *)
(* job into MongoDB and waits; the agents of the machines poll the replicas   *)
(* of the server for it, run it and report its status, every second and once  *)
(* at its end. A poll and a report read the job and later write it back as a  *)
(* whole; the controller writes only its status.  The database calls of the   *)
(* controller may fail.                                                      *)
EXTENDS Integers, FiniteSets

CONSTANTS
  Jobs, Agents, Replicas,
  None,
  DBMayFail,     \* database calls of the controllers may fail
  MaxTries,      \* tries of the last report (three in the code)
  MaxLosses,     \* bound: requests or answers that are lost
  MaxCrashes     \* bound: agents that die

ASSUME VMNameAssumption == None \notin Agents \cup Jobs /\ DBMayFail \in BOOLEAN
ASSUME VMBoundAssumption == MaxTries \in Nat \ {0} /\ MaxLosses \in Nat /\ MaxCrashes \in Nat

VARIABLES
  jobs,      \* MongoDB: vm_job
  ctl,       \* job controllers: where they are, the status of the job, and whether
             \* a read or the deletion of theirs has failed
  poll,      \* the poll of each agent on the server
  getter,    \* per replica: jobGetter
  run,       \* agents: the job they run
  reports,   \* reports on their way, per agent, job and goroutine
  losses, crashes

vars == <<jobs, ctl, poll, getter, run, reports, losses, crashes>>

Waiting == {"created", "prepare", "distributed", "running"}
Stopped == {"cancelled", "timeout"}
Outcomes == {"passed", "failed"}
JobDoc == [status : {"none"} \cup Waiting \cup Stopped \cup Outcomes, vm : Agents \cup {None}]

\* The reporter's goroutine and the one that runs the job each have a report at a time.
Senders == {"reporter", "main"}
NoReport == [pc |-> "idle", status |-> ""]
NoPoll == [pc |-> "idle", job |-> None, replica |-> None]
Over(x) == [x EXCEPT !.pc = "over", !.cancel = FALSE, !.tries = 0]
NoRun == [pc |-> "none", outcome |-> "", cancel |-> FALSE, tries |-> 0]

Init ==
  /\ jobs = [j \in Jobs |-> [status |-> "none", vm |-> None]]
  /\ ctl = [j \in Jobs |-> [pc |-> "idle", status |-> "", err |-> FALSE]]
  /\ poll = [a \in Agents |-> NoPoll]
  /\ getter = [r \in Replicas |-> {}]
  /\ run = [a \in Agents |-> [j \in Jobs |-> NoRun]]
  /\ reports = [a \in Agents |-> [j \in Jobs |-> [s \in Senders |-> NoReport]]]
  /\ losses = 0 /\ crashes = 0

agentVars == <<poll, getter, run, reports, losses, crashes>>

-----------------------------------------------------------------------------
(* The job controller: runVMJob, vmJobWait, vmComplete.                       *)

RunVMJob(j) ==
  /\ ctl[j].pc = "idle"
  /\ jobs' = [jobs EXCEPT ![j].status = "created"]
  /\ ctl' = [ctl EXCEPT ![j].pc = "start"]
  /\ UNCHANGED agentVars

\* waitVMJobStart: an agent has taken the job.
WaitVMJobStart(j) ==
  /\ ctl[j].pc = "start" /\ jobs[j].vm # None
  /\ ctl' = [ctl EXCEPT ![j].pc = "end"]
  /\ UNCHANGED <<jobs, agentVars>>

\* The wait is over with status s.
Completed(c, s, ok) == [pc |-> "complete", status |-> s, err |-> c.err \/ ~ok]

\* A database call of the controller succeeds or not.
Ok == IF DBMayFail THEN BOOLEAN ELSE {TRUE}

\* FindByID fails in waitVMJobStart or waitVMJobEndByCheckStatus: the job has failed.
FindFails(j) ==
  /\ ctl[j].pc \in {"start", "end"} /\ FALSE \in Ok
  /\ ctl' = [ctl EXCEPT ![j] = Completed(@, "failed", FALSE)]
  /\ UNCHANGED <<jobs, agentVars>>

\* Mutant: the timeout is not looked at.
Stops_cancel == {"cancelled"}

\* What stops a wait: the context, when the task is cancelled, and the timeout.
Stops == Stopped

\* The wait for the start stops: the job in the database is left as it is.
StartStops(j, s) ==
  /\ ctl[j].pc = "start" /\ s \in Stops
  /\ ctl' = [ctl EXCEPT ![j] = Completed(@, s, TRUE)]
  /\ UNCHANGED <<jobs, agentVars>>

\* waitVMJobEndByCheckStatus: any other status than passed is a failure.
Verdict(status) == IF status = "passed" THEN "passed" ELSE "failed"

\* Mutant: prepare is not among the statuses that are waited through.
WaitVMJobEnd_noprepare(j) ==
  /\ ctl[j].pc = "end" /\ jobs[j].status \notin Waiting \ {"prepare"}
  /\ ctl' = [ctl EXCEPT ![j] = Completed(@, Verdict(jobs[j].status), TRUE)]
  /\ UNCHANGED <<jobs, agentVars>>

WaitVMJobEnd(j) ==
  /\ ctl[j].pc = "end" /\ jobs[j].status \notin Waiting
  /\ ctl' = [ctl EXCEPT ![j] = Completed(@, Verdict(jobs[j].status), TRUE)]
  /\ UNCHANGED <<jobs, agentVars>>

\* The wait for the end stops: UpdateStatus, whose error is only logged.
EndStops(j, s) ==
  /\ ctl[j].pc = "end" /\ s \in Stops
  /\ ctl' = [ctl EXCEPT ![j] = Completed(@, s, TRUE)]
  /\ \E ok \in Ok :
       jobs' = IF ok THEN [jobs EXCEPT ![j].status = s] ELSE jobs
  /\ UNCHANGED agentVars

\* Mutant: the job is marked as deleted and keeps its status.
VMComplete_nostatus(j) ==
  /\ ctl[j].pc = "complete"
  /\ ctl' = [ctl EXCEPT ![j].pc = "done"]
  /\ UNCHANGED <<jobs, agentVars>>

\* vmComplete: without the outputs of the job it has failed. A goroutine marks the job as
\* deleted: DeleteByID sets the status as well, and nothing looks at is_deleted.
VMComplete(j) ==
  /\ ctl[j].pc = "complete"
  /\ \E found, deleted \in Ok :
       LET status == IF found THEN ctl[j].status ELSE "failed" IN
       /\ ctl' = [ctl EXCEPT ![j] = [pc |-> "done", status |-> status,
                                     err |-> ctl[j].err \/ ~found \/ ~deleted]]
       /\ jobs' = IF deleted THEN [jobs EXCEPT ![j].status = status] ELSE jobs
  /\ UNCHANGED agentVars

-----------------------------------------------------------------------------
(* PollingAgentJob.                                                          *)

\* The agent asks a replica, which finds a job that nobody has taken.
PollList(a, r, j) ==
  /\ poll[a].pc = "idle" /\ jobs[j].status = "created"
  /\ poll' = [poll EXCEPT ![a] = [pc |-> "listed", job |-> j, replica |-> r]]
  /\ UNCHANGED <<jobs, ctl, getter, run, reports, losses, crashes>>

\* AddGetter: another poll on this replica is taking the job, look for one again.
PollAgain(a) ==
  /\ poll[a].pc = "listed" /\ poll[a].job \in getter[poll[a].replica]
  /\ poll' = [poll EXCEPT ![a] = NoPoll]
  /\ UNCHANGED <<jobs, ctl, getter, run, reports, losses, crashes>>

AddGetter(a) ==
  /\ poll[a].pc = "listed" /\ poll[a].job \notin getter[poll[a].replica]
  /\ getter' = [getter EXCEPT ![poll[a].replica] = @ \cup {poll[a].job}]
  /\ poll' = [poll EXCEPT ![a].pc = "got"]
  /\ UNCHANGED <<jobs, ctl, run, reports, losses, crashes>>

\* Mutant: the job keeps the status it was listed with.
Taken_nostatus(a) == [status |-> "created", vm |-> a]

\* The whole job, as it was listed but for these two.
Taken(a) == [status |-> "prepare", vm |-> a]

\* The job is written, whatever it has become since; RemoveGetter follows, and the answer,
\* which the agent may not get.
PollUpdate(a) ==
  /\ poll[a].pc = "got"
  /\ jobs' = [jobs EXCEPT ![poll[a].job] = Taken(a)]
  /\ getter' = [getter EXCEPT ![poll[a].replica] = @ \ {poll[a].job}]
  /\ poll' = [poll EXCEPT ![a] = NoPoll]
  /\ \/ /\ run' = [run EXCEPT ![a][poll[a].job].pc = "taken"]
        /\ UNCHANGED losses
     \/ /\ losses < MaxLosses /\ losses' = losses + 1
        /\ UNCHANGED run
  /\ UNCHANGED <<ctl, reports, crashes>>

-----------------------------------------------------------------------------
(* The agent: RunSingleJob, JobExecutor, JobReporter.                         *)

Sent(status) == [pc |-> "sent", status |-> status]

\* BeforeExecute: the directories of the job are prepared, or the job has failed.
BeforeExecute(a, j) ==
  /\ run[a][j].pc = "taken"
  /\ \/ /\ run' = [run EXCEPT ![a][j].pc = "running"]
        /\ UNCHANGED reports
     \/ /\ run' = [run EXCEPT ![a][j].pc = "final", ![a][j].outcome = "failed",
                              ![a][j].tries = MaxTries]
        /\ reports' = [reports EXCEPT ![a][j]["main"] = Sent("failed")]
  /\ UNCHANGED <<jobs, ctl, poll, getter, losses, crashes>>

\* JobReporter.Report, every second while the job runs.
Report(a, j) ==
  /\ run[a][j].pc = "running"
  /\ reports[a][j]["reporter"].pc = "idle"
  /\ reports' = [reports EXCEPT ![a][j]["reporter"] = Sent("running")]
  /\ UNCHANGED <<jobs, ctl, poll, getter, run, losses, crashes>>

\* Between its steps the executor looks at the cancel flag, which makes the job fail.
Result(cancel) == IF cancel THEN {"failed"} ELSE Outcomes

\* Execute ends, and the periodic reports with it; AfterExecute reports the rest of the
\* log, unless it cannot be read or the cache is missing.
Execute(a, j) ==
  /\ run[a][j].pc = "running"
  /\ \E o \in Result(run[a][j].cancel) : run' = [run EXCEPT ![a][j].outcome = o, ![a][j].pc = "after"]
  /\ reports' \in {reports, [reports EXCEPT ![a][j]["main"] = Sent("running")]}
  /\ UNCHANGED <<jobs, ctl, poll, getter, losses, crashes>>

\* FinishedJobReport, after the report of the log.
FinishedJobReport(a, j) ==
  /\ run[a][j].pc = "after" /\ reports[a][j]["main"].pc = "idle"
  /\ run' = [run EXCEPT ![a][j].pc = "final", ![a][j].tries = MaxTries]
  /\ reports' = [reports EXCEPT ![a][j]["main"] = Sent(run[a][j].outcome)]
  /\ UNCHANGED <<jobs, ctl, poll, getter, losses, crashes>>

\* The loop of RunSingleJob has seen the cancel flag first: no last report.
StopRun(a, j) ==
  /\ run[a][j].pc = "after" /\ reports[a][j]["main"].pc = "idle" /\ run[a][j].cancel
  /\ run' = [run EXCEPT ![a][j] = Over(@)]
  /\ UNCHANGED <<jobs, ctl, poll, getter, reports, losses, crashes>>

EndRun(a, j) ==
  /\ run[a][j].pc = "final" /\ reports[a][j]["main"].pc = "idle"
  /\ run' = [run EXCEPT ![a][j] = Over(@)]
  /\ UNCHANGED <<jobs, ctl, poll, getter, reports, losses, crashes>>

\* Mutant: the tries that are left are not looked at.
Failed_untilsent(a, j, s) ==
  IF s = "main" /\ run[a][j].pc = "final"
  THEN /\ run' = [run EXCEPT ![a][j].tries = @ - 1]
       /\ reports' = [reports EXCEPT ![a][j][s] = Sent(run[a][j].outcome)]
  ELSE /\ reports' = [reports EXCEPT ![a][j][s] = NoReport]
       /\ UNCHANGED run

\* A report that failed: only the last one is sent again.
Failed(a, j, s) ==
  IF s = "main" /\ run[a][j].pc = "final" /\ run[a][j].tries > 1
  THEN /\ run' = [run EXCEPT ![a][j].tries = @ - 1]
       /\ reports' = [reports EXCEPT ![a][j][s] = Sent(run[a][j].outcome)]
  ELSE /\ reports' = [reports EXCEPT ![a][j][s] = NoReport]
       /\ UNCHANGED run

\* ReportAgentJob reads the job: it is another agent's ...
ReportRefused(a, j, s) ==
  /\ reports[a][j][s].pc = "sent" /\ jobs[j].vm # a
  /\ Failed(a, j, s)
  /\ UNCHANGED <<jobs, ctl, poll, getter, losses, crashes>>

\* ... it is cancelled or timed out, and the agent is told ...
ReportStopped(a, j, s) ==
  /\ reports[a][j][s].pc = "sent" /\ jobs[j].vm = a /\ jobs[j].status \in Stopped
  /\ reports' = [reports EXCEPT ![a][j][s] = NoReport]
  /\ run' = [run EXCEPT ![a][j].cancel = @ \/ run[a][j].pc \in {"running", "after"}]
  /\ UNCHANGED <<jobs, ctl, poll, getter, losses, crashes>>

\* ... or it will get the reported status,
ReportFind(a, j, s) ==
  /\ reports[a][j][s].pc = "sent" /\ jobs[j].vm = a /\ jobs[j].status \notin Stopped
  /\ reports' = [reports EXCEPT ![a][j][s].pc = "found"]
  /\ UNCHANGED <<jobs, ctl, poll, getter, run, losses, crashes>>

\* whatever happened to it in between: it is written as a whole, as this agent's. The
\* answer may be lost.
ReportUpdate(a, j, s) ==
  /\ reports[a][j][s].pc = "found"
  /\ jobs' = [jobs EXCEPT ![j] = [status |-> reports[a][j][s].status, vm |-> a]]
  /\ \/ /\ reports' = [reports EXCEPT ![a][j][s] = NoReport]
        /\ UNCHANGED <<run, losses>>
     \/ /\ losses < MaxLosses /\ losses' = losses + 1
        /\ Failed(a, j, s)
  /\ UNCHANGED <<ctl, poll, getter, crashes>>

ReportLost(a, j, s) ==
  /\ reports[a][j][s].pc = "sent" /\ losses < MaxLosses
  /\ losses' = losses + 1
  /\ Failed(a, j, s)
  /\ UNCHANGED <<jobs, ctl, poll, getter, crashes>>

\* An agent that dies forgets its jobs; what it has sent still arrives.
Crash(a) ==
  /\ crashes < MaxCrashes
  /\ \E j \in Jobs : run[a][j].pc \in {"taken", "running", "after", "final"}
  /\ run' = [run EXCEPT ![a] = [j \in Jobs |->
               IF run[a][j].pc = "none" THEN NoRun ELSE Over(run[a][j])]]
  /\ crashes' = crashes + 1
  /\ UNCHANGED <<jobs, ctl, poll, getter, reports, losses>>

-----------------------------------------------------------------------------
CtlStep(j) ==
  RunVMJob(j) \/ WaitVMJobStart(j) \/ WaitVMJobEnd(j) \/ VMComplete(j)

StopStep(j, s) == StartStops(j, s) \/ EndStops(j, s)

PollStep(a) == PollAgain(a) \/ AddGetter(a) \/ PollUpdate(a)

ReportStep(a, j, s) ==
  ReportRefused(a, j, s) \/ ReportStopped(a, j, s) \/ ReportFind(a, j, s) \/ ReportUpdate(a, j, s)

AgentEnds(a, j) == FinishedJobReport(a, j) \/ StopRun(a, j) \/ EndRun(a, j)

Next ==
  \/ \E j \in Jobs : CtlStep(j) \/ FindFails(j) \/ (\E s \in Stopped : StopStep(j, s))
  \/ \E a \in Agents : PollStep(a) \/ Crash(a)
  \/ \E a \in Agents, r \in Replicas, j \in Jobs : PollList(a, r, j)
  \/ \E a \in Agents, j \in Jobs : BeforeExecute(a, j) \/ Report(a, j) \/ Execute(a, j) \/ AgentEnds(a, j)
  \/ \E a \in Agents, j \in Jobs, s \in Senders : ReportStep(a, j, s) \/ ReportLost(a, j, s)

Spec == Init /\ [][Next]_vars

\* Controllers go on and timeouts fire, whatever agents do; no database error is counted on.
CtlFairness == \A j \in Jobs : WF_vars(CtlStep(j)) /\ WF_vars(StopStep(j, "timeout"))

CtlFairSpec == Spec /\ CtlFairness

\* Polls and reports are answered; a job ends by itself or not, but it does when it is
\* told to stop.
AgentFairness ==
  /\ \A a \in Agents : WF_vars(PollStep(a))
  /\ \A a \in Agents, j \in Jobs :
       /\ WF_vars(BeforeExecute(a, j)) /\ WF_vars(Report(a, j)) /\ WF_vars(AgentEnds(a, j))
       /\ WF_vars(run[a][j].cancel /\ Execute(a, j))
       /\ \A s \in Senders : WF_vars(ReportStep(a, j, s))

FairSpec == CtlFairSpec /\ AgentFairness

-----------------------------------------------------------------------------
RunRec == [pc : {"none", "taken", "running", "after", "final", "over"},
           outcome : {""} \cup Outcomes, cancel : BOOLEAN, tries : 0..MaxTries]
ReportRec == [pc : {"idle", "sent", "found"}, status : {"", "running"} \cup Outcomes]

TypeOK ==
  /\ jobs \in [Jobs -> JobDoc]
  /\ ctl \in [Jobs -> [pc : {"idle", "start", "end", "complete", "done"},
                       status : {""} \cup Stopped \cup Outcomes, err : BOOLEAN]]
  /\ poll \in [Agents -> {NoPoll} \cup [pc : {"listed", "got"}, job : Jobs, replica : Replicas]]
  /\ getter \in [Replicas -> SUBSET Jobs]
  /\ run \in [Agents -> [Jobs -> RunRec]]
  /\ reports \in [Agents -> [Jobs -> [Senders -> ReportRec]]]
  /\ losses \in 0..MaxLosses /\ crashes \in 0..MaxCrashes

\* The controller calls a job passed only when an agent has run it to that end, and failed
\* only then or when a database call of its own failed: polls, reports and the
\* controller's writes that overtake each other do not make a verdict up
\* (waitVMJobEndByCheckStatus, ReportAgentJob).
VerdictReported ==
  \A j \in Jobs :
    ctl[j].status = "passed" \/ (ctl[j].status = "failed" /\ ~ctl[j].err)
      => \E a \in Agents : run[a][j].outcome = ctl[j].status

\* A job whose controller has gone, also one that was cancelled before an agent took it,
\* is not offered to agents any more, unless it could not be marked in the database
\* (vmComplete, PollingAgentJob).
NotOffered ==
  \A j \in Jobs : ctl[j].pc = "done" /\ jobs[j].status = "created" => ctl[j].err

\* An agent never takes the same job twice, whatever the reports of other agents write
\* back (PollingAgentJob).
OncePerAgent ==
  [][\A a \in Agents, j \in Jobs :
       run[a][j].pc # "none" /\ run'[a][j].pc = "taken" => run[a][j].pc = "taken"]_vars

\* The wait of a controller ends although no agent takes the job, its agent dies, or its
\* last report is lost or overwritten (vmJobWait).
JobSettles == \A j \in Jobs : ctl[j].pc = "start" ~> ctl[j].pc = "done"

\* The agent of a job that was cancelled or has timed out stops it (ReportAgentJob).
StoppedStops ==
  \A a \in Agents, j \in Jobs :
    ctl[j].status \in Stopped /\ run[a][j].pc = "running" ~> run[a][j].pc # "running"

-----------------------------------------------------------------------------
(* The inductive invariant, of each job on its own.                          *)

Reached(j, status) == \E a \in Agents : run[a][j].outcome = status

\* The controller and the document: nothing but the controller stops a job.
CtlInv(j) ==
  /\ ctl[j].pc = "idle" <=> jobs[j].status = "none"
  /\ ctl[j].pc \in {"start", "end"} => jobs[j].status \notin Stopped
  /\ IF ctl[j].pc \in {"complete", "done"} THEN ctl[j].status \in Stopped \cup Outcomes
                                            ELSE ctl[j].status = ""
  /\ ctl[j].pc = "done" /\ jobs[j].status = "created" => ctl[j].err

\* An agent and the job: until somebody has taken it there are no runs and no reports.
AgentInv(a, j) ==
  /\ jobs[j].status \in {"none", "created"} =>
       run[a][j].pc = "none" /\ \A s \in Senders : reports[a][j][s].pc = "idle"
  /\ poll[a].pc # "idle" /\ poll[a].job = j => run[a][j].pc = "none" /\ ctl[j].pc # "idle"
  /\ run[a][j].pc \in {"none", "taken", "running"} => run[a][j].outcome = ""
  /\ run[a][j].pc \in {"after", "final"} => run[a][j].outcome \in Outcomes
  /\ \A s \in Senders : reports[a][j][s].pc # "idle" =>
       reports[a][j][s].status \in {"running", run[a][j].outcome} \ {""}

\* Outcomes, in the document and in the controller, are some agent's, but for failures
\* that are the database's.
Real(j, status) == Reached(j, status) \/ (status = "failed" /\ ctl[j].err)

VerdictInv(j) ==
  /\ jobs[j].status \in Outcomes => Real(j, jobs[j].status)
  /\ ctl[j].status \in Outcomes => Real(j, ctl[j].status)

IInv ==
  /\ TypeOK
  /\ \A j \in Jobs : CtlInv(j) /\ VerdictInv(j)
  /\ \A a \in Agents, j \in Jobs : AgentInv(a, j)
=============================================================================
