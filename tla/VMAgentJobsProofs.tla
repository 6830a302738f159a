-------------------------- MODULE VMAgentJobsProofs --------------------------
(* Jobs on virtual machines, for any number of jobs, agents and replicas, any *)
(* number of lost messages and of agents that die.                            *)
EXTENDS VMAgentJobs, TLAPS

\* What OncePerAgent says of a step: an agent that takes a job had not taken it before.
Once == \A a \in Agents, j \in Jobs : run'[a][j].pc = "taken" => run[a][j].pc \in {"none", "taken"}

-----------------------------------------------------------------------------
(* Records.                                                                  *)

LEMMA RunFields ==
  ASSUME NEW x \in RunRec
  PROVE  /\ x.pc \in {"none", "taken", "running", "after", "final", "over"}
         /\ x.outcome \in {""} \cup Outcomes /\ x.cancel \in BOOLEAN /\ x.tries \in 0..MaxTries
BY DEF RunRec

LEMMA OverRun ==
  ASSUME NEW x \in RunRec
  PROVE  Over(x) \in RunRec /\ Over(x).pc = "over" /\ Over(x).outcome = x.outcome
<1>1. 0 \in 0..MaxTries BY VMBoundAssumption
<1> QED BY <1>1 DEF Over, RunRec

LEMMA EmptyRun == NoRun \in RunRec /\ NoRun.pc = "none" /\ NoRun.outcome = ""
BY VMBoundAssumption DEF NoRun, RunRec

LEMMA ReportRecords ==
  /\ NoReport \in ReportRec /\ NoReport.pc = "idle"
  /\ \A t \in {"running"} \cup Outcomes :
       Sent(t) \in ReportRec /\ Sent(t).pc = "sent" /\ Sent(t).status = t
BY DEF NoReport, ReportRec, Sent, Outcomes

LEMMA Typed ==
  ASSUME IInv
  PROVE  /\ jobs \in [Jobs -> JobDoc]
         /\ run \in [Agents -> [Jobs -> RunRec]]
         /\ reports \in [Agents -> [Jobs -> [Senders -> ReportRec]]]
         /\ losses \in 0..MaxLosses /\ crashes \in 0..MaxCrashes
BY DEF IInv, TypeOK

-----------------------------------------------------------------------------
(* Steps of an agent and of the server that handles its reports.             *)

\* Only what concerns agent a and job j changes ...
OnlyAt(a, j) ==
  /\ run' \in [Agents -> [Jobs -> RunRec]]
  /\ reports' \in [Agents -> [Jobs -> [Senders -> ReportRec]]]
  /\ jobs' \in [Jobs -> JobDoc]
  /\ \A b \in Agents, i \in Jobs :
       ~(b = a /\ i = j) => run'[b][i] = run[b][i] /\ reports'[b][i] = reports[b][i]
  /\ \A i \in Jobs \ {j} : jobs'[i] = jobs[i]
  /\ UNCHANGED <<ctl, poll, getter>>
  /\ losses' \in 0..MaxLosses /\ crashes' \in 0..MaxCrashes

\* ... the run goes on in order and keeps the outcome it has ...
RunOn(x, y) ==
  /\ y.outcome = x.outcome \/ x.outcome = ""
  /\ y.pc = x.pc \/ (x.pc # "none" /\ y.pc \notin {"none", "taken"})
  /\ y.pc \in {"none", "taken", "running"} => y.outcome = ""
  /\ y.pc \in {"after", "final"} => y.outcome \in Outcomes

\* ... and reports say what the run does.
Honest(x, r) == r.pc # "idle" => r.status \in {"running", x.outcome} \ {""}

\* VerdictInv of the next state.
Reaches(j, t) == \E a \in Agents : run'[a][j].outcome = t
RealAfter(j, t) == Reaches(j, t) \/ (t = "failed" /\ ctl'[j].err)

LEMMA VerdictAfter ==
  ASSUME NEW j \in Jobs,
         jobs'[j].status \in Outcomes => RealAfter(j, jobs'[j].status),
         ctl'[j].status \in Outcomes => RealAfter(j, ctl'[j].status)
  PROVE  VerdictInv(j)'
BY DEF VerdictInv, Real, Reached, RealAfter, Reaches

LEMMA AgentStep ==
  ASSUME IInv, NEW a \in Agents, NEW j \in Jobs, OnlyAt(a, j),
         jobs[j].status \notin {"none", "created"},
         RunOn(run[a][j], run'[a][j]),
         \A s \in Senders : Honest(run'[a][j], reports'[a][j][s]),
         jobs'[j].status = jobs[j].status
           \/ jobs'[j].status \in {"running", run'[a][j].outcome} \ {""}
  PROVE  IInv' /\ Once
<1> DEFINE x == run'[a][j]
<1>1. x \in RunRec /\ x.outcome \in {""} \cup Outcomes BY RunFields, ZenonT(30) DEF OnlyAt
<1>2. TypeOK' BY DEF IInv, TypeOK, OnlyAt
<1>3. \A i \in Jobs : CtlInv(i)'
  <2> SUFFICES ASSUME NEW i \in Jobs PROVE CtlInv(i)' OBVIOUS
  <2>1. CtlInv(i) BY DEF IInv
  <2> QED BY <1>1, <2>1 DEF CtlInv, Stopped, Outcomes, OnlyAt
<1>4. ctl' = ctl /\ \A i \in Jobs, t \in Outcomes : Reached(i, t) => Reaches(i, t)
  BY DEF Reached, Reaches, Outcomes, OnlyAt, RunOn
<1>5. \A i \in Jobs : VerdictInv(i)'
  <2> SUFFICES ASSUME NEW i \in Jobs PROVE VerdictInv(i)' OBVIOUS
  <2>1. VerdictInv(i) BY DEF IInv
  <2>2. ASSUME jobs'[i].status \in Outcomes PROVE RealAfter(i, jobs'[i].status)
    <3>1. CASE jobs'[i].status = jobs[i].status
      BY <1>4, <2>1, <2>2, <3>1 DEF VerdictInv, Real, RealAfter
    <3>2. CASE i = j /\ jobs'[j].status \in {"running", x.outcome} \ {""}
      BY <2>2, <3>2 DEF Outcomes, Reaches, RealAfter
    <3> QED BY <3>1, <3>2 DEF OnlyAt
  <2>3. ASSUME ctl'[i].status \in Outcomes PROVE RealAfter(i, ctl'[i].status)
    BY <1>4, <2>1, <2>3 DEF VerdictInv, Real, RealAfter
  <2> QED BY <2>2, <2>3, VerdictAfter
<1>6. \A b \in Agents, i \in Jobs : AgentInv(b, i)'
  <2> SUFFICES ASSUME NEW b \in Agents, NEW i \in Jobs PROVE AgentInv(b, i)' OBVIOUS
  <2>1. AgentInv(b, i) BY DEF IInv
  <2>2. CASE b = a /\ i = j
    <3>1. jobs'[j].status \notin {"none", "created"} BY <1>1 DEF Outcomes
    <3>2. poll[a].pc # "idle" /\ poll[a].job = j => x.pc = "none" /\ ctl[j].pc # "idle"
      BY <2>1, <2>2 DEF AgentInv, RunOn
    <3> QED BY <2>2, <3>1, <3>2 DEF AgentInv, OnlyAt, RunOn, Honest
  <2>3. CASE ~(b = a /\ i = j)
    <3>1. run'[b][i] = run[b][i] /\ reports'[b][i] = reports[b][i]
          /\ poll' = poll /\ ctl' = ctl
      BY <2>3 DEF OnlyAt
    <3>2. jobs'[i].status \in {"none", "created"} => jobs'[i] = jobs[i]
      BY <1>1 DEF OnlyAt, Outcomes
    <3> QED BY <2>1, <3>1, <3>2 DEF AgentInv
  <2> QED BY <2>2, <2>3
<1>7. Once BY DEF Once, OnlyAt, RunOn
<1> QED BY <1>2, <1>3, <1>5, <1>6, <1>7 DEF IInv

\* Facts about the job of an agent that has taken it or has a report of it on its way.
LEMMA AgentFacts ==
  ASSUME IInv, NEW a \in Agents, NEW j \in Jobs
  PROVE  /\ run[a][j] \in RunRec
         /\ run[a][j].outcome \in {""} \cup Outcomes
         /\ run[a][j].pc \in {"none", "taken", "running"} => run[a][j].outcome = ""
         /\ run[a][j].pc \in {"after", "final"} => run[a][j].outcome \in Outcomes
         /\ \A s \in Senders :
              /\ reports[a][j][s] \in ReportRec
              /\ Honest(run[a][j], reports[a][j][s])
              /\ reports[a][j][s].pc # "idle" => jobs[j].status \notin {"none", "created"}
         /\ run[a][j].pc # "none" => jobs[j].status \notin {"none", "created"}
<1>1. AgentInv(a, j) BY DEF IInv
<1>2. run[a][j] \in RunRec /\ \A s \in Senders : reports[a][j][s] \in ReportRec BY Typed
<1> QED BY <1>1, <1>2, RunFields DEF AgentInv, Honest

\* An update of one report of agent a and job j.
LEMMA ReportSet ==
  ASSUME IInv, NEW a \in Agents, NEW j \in Jobs, NEW s \in Senders, NEW r \in ReportRec,
         reports' = [reports EXCEPT ![a][j][s] = r]
  PROVE  /\ reports' \in [Agents -> [Jobs -> [Senders -> ReportRec]]]
         /\ reports'[a][j][s] = r
         /\ \A t \in Senders \ {s} : reports'[a][j][t] = reports[a][j][t]
         /\ \A b \in Agents, i \in Jobs : ~(b = a /\ i = j) => reports'[b][i] = reports[b][i]
<1>1. reports \in [Agents -> [Jobs -> [Senders -> ReportRec]]] BY Typed
<1> DEFINE p == [reports[a][j] EXCEPT ![s] = r]
<1>2. p \in [Senders -> ReportRec] /\ p[s] = r /\ \A t \in Senders \ {s} : p[t] = reports[a][j][t]
  BY <1>1
<1>3. reports' = [reports EXCEPT ![a][j] = p] BY <1>1
<1> HIDE DEF p
<1>4. /\ reports' \in [Agents -> [Jobs -> [Senders -> ReportRec]]] /\ reports'[a][j] = p
      /\ \A b \in Agents, i \in Jobs : ~(b = a /\ i = j) => reports'[b][i] = reports[b][i]
  BY <1>1, <1>2, <1>3
<1> QED BY <1>2, <1>4

\* The reports stay honest when one is replaced by an honest one and the outcome is kept.
LEMMA StillHonest ==
  ASSUME IInv, NEW a \in Agents, NEW j \in Jobs, NEW s \in Senders,
         RunOn(run[a][j], run'[a][j]),
         Honest(run'[a][j], reports'[a][j][s]),
         \A t \in Senders \ {s} : reports'[a][j][t] = reports[a][j][t]
  PROVE  \A t \in Senders : Honest(run'[a][j], reports'[a][j][t])
<1> SUFFICES ASSUME NEW t \in Senders PROVE Honest(run'[a][j], reports'[a][j][t])
  OBVIOUS
<1>1. CASE t = s BY <1>1
<1>2. CASE t # s
  <2>1. reports'[a][j][t] = reports[a][j][t] BY <1>2
  <2>2. Honest(run[a][j], reports[a][j][t]) BY AgentFacts
  <2>3. run'[a][j].outcome = run[a][j].outcome \/ run[a][j].outcome = "" BY DEF RunOn
  <2> QED BY <2>1, <2>2, <2>3 DEF Honest
<1> QED BY <1>1, <1>2

\* A step of agent a on job j: its run becomes x and one of its reports r, and the
\* document may take over the report.
Moves(a, j, s, x, r) ==
  /\ run' = [run EXCEPT ![a][j] = x]
  /\ reports' = [reports EXCEPT ![a][j][s] = r]
  /\ UNCHANGED <<ctl, poll, getter, crashes>> /\ losses' \in 0..MaxLosses
  /\ run[a][j].pc # "none" \/ reports[a][j][s].pc # "idle"
  /\ x \in RunRec /\ r \in ReportRec
  /\ RunOn(run[a][j], x) /\ Honest(x, r)
  /\ \/ UNCHANGED jobs
     \/ \E t \in {"running", x.outcome} \ {""} : jobs' = [jobs EXCEPT ![j] = [status |-> t, vm |-> a]]

LEMMA MovesKeep ==
  ASSUME IInv, NEW a \in Agents, NEW j \in Jobs, NEW s \in Senders, NEW x, NEW r,
         Moves(a, j, s, x, r)
  PROVE  IInv' /\ Once
<1>1. /\ run' \in [Agents -> [Jobs -> RunRec]] /\ run'[a][j] = x
      /\ \A b \in Agents, i \in Jobs : ~(b = a /\ i = j) => run'[b][i] = run[b][i]
  BY Typed DEF Moves
<1>2. /\ reports' \in [Agents -> [Jobs -> [Senders -> ReportRec]]]
      /\ reports'[a][j][s] = r
      /\ \A t \in Senders \ {s} : reports'[a][j][t] = reports[a][j][t]
      /\ \A b \in Agents, i \in Jobs : ~(b = a /\ i = j) => reports'[b][i] = reports[b][i]
  <2>1. r \in ReportRec /\ reports' = [reports EXCEPT ![a][j][s] = r] BY DEF Moves
  <2> QED BY <2>1, ReportSet, ZenonT(30)
<1>3. /\ jobs' \in [Jobs -> JobDoc] /\ \A i \in Jobs \ {j} : jobs'[i] = jobs[i]
      /\ \/ jobs'[j].status = jobs[j].status
         \/ jobs'[j].status \in {"running", x.outcome} \ {""}
  <2>1. CASE UNCHANGED jobs BY <2>1, Typed
  <2>2. ASSUME NEW t \in {"running", x.outcome} \ {""},
               jobs' = [jobs EXCEPT ![j] = [status |-> t, vm |-> a]]
        PROVE  /\ jobs' \in [Jobs -> JobDoc] /\ \A i \in Jobs \ {j} : jobs'[i] = jobs[i]
               /\ jobs'[j].status = t
    <3>1. t \in {"running"} \cup Outcomes BY RunFields DEF Moves
    <3>2. [status |-> t, vm |-> a] \in JobDoc BY <3>1 DEF JobDoc, Waiting
    <3> QED BY <2>2, <3>2, Typed
  <2> QED BY <2>1, <2>2 DEF Moves
<1>4. RunOn(run[a][j], run'[a][j]) /\ Honest(run'[a][j], reports'[a][j][s])
  BY <1>1, <1>2 DEF Moves
<1>5. OnlyAt(a, j)
  <2>1. UNCHANGED <<ctl, poll, getter>> /\ losses' \in 0..MaxLosses /\ crashes' \in 0..MaxCrashes
    BY Typed DEF Moves
  <2> QED BY <1>1, <1>2, <1>3, <2>1 DEF OnlyAt
<1>6. jobs[j].status \notin {"none", "created"} BY AgentFacts DEF Moves
<1>7. \A t \in Senders : Honest(run'[a][j], reports'[a][j][t]) BY <1>2, <1>4, StillHonest
<1> QED BY <1>1, <1>3, <1>4, <1>5, <1>6, <1>7, AgentStep

\* A run, or a report, that stays as it is.
LEMMA Stays ==
  ASSUME IInv, NEW a \in Agents, NEW j \in Jobs, NEW s \in Senders
  PROVE  /\ run = [run EXCEPT ![a][j] = run[a][j]]
         /\ reports = [reports EXCEPT ![a][j][s] = reports[a][j][s]]
         /\ RunOn(run[a][j], run[a][j])
         /\ run[a][j] \in RunRec /\ reports[a][j][s] \in ReportRec
         /\ Honest(run[a][j], reports[a][j][s])
         /\ Honest(run[a][j], NoReport)
         /\ NoReport \in ReportRec
<1>1. run = [run EXCEPT ![a][j] = run[a][j]] BY Typed
<1>2. reports = [reports EXCEPT ![a][j][s] = reports[a][j][s]] BY Typed
<1> QED BY <1>1, <1>2, AgentFacts, ReportRecords DEF RunOn, Honest

LEMMA MainSender == "main" \in Senders /\ "reporter" \in Senders
BY DEF Senders

LEMMA BeforeExecuteKeeps ==
  ASSUME IInv, NEW a \in Agents, NEW j \in Jobs, BeforeExecute(a, j)
  PROVE  IInv' /\ Once
<1> DEFINE y == run[a][j]
<1>1. y.pc = "taken" /\ UNCHANGED <<jobs, ctl, poll, getter, losses, crashes>>
  BY DEF BeforeExecute
<1>2. y \in RunRec /\ y.outcome = "" BY <1>1, AgentFacts
<1>3. CASE run' = [run EXCEPT ![a][j].pc = "running"] /\ UNCHANGED reports
  <2> DEFINE x == [y EXCEPT !.pc = "running"]
             r == reports[a][j]["main"]
  <2>1. run' = [run EXCEPT ![a][j] = x] BY <1>3
  <2>2. x \in RunRec /\ x.pc = "running" /\ x.outcome = "" BY <1>2 DEF RunRec
  <2>3. r \in ReportRec /\ Honest(y, r) /\ reports' = [reports EXCEPT ![a][j]["main"] = r]
    BY <1>3, Stays, MainSender
  <2> HIDE DEF x, r
  <2>4. RunOn(y, x) /\ Honest(x, r) BY <1>1, <1>2, <2>2, <2>3 DEF RunOn, Honest
  <2>5. Moves(a, j, "main", x, r) BY <1>1, <2>1, <2>2, <2>3, <2>4, Typed DEF Moves
  <2> QED BY <2>5, MovesKeep, MainSender
<1>4. CASE /\ run' = [run EXCEPT ![a][j].pc = "final", ![a][j].outcome = "failed",
                                 ![a][j].tries = MaxTries]
           /\ reports' = [reports EXCEPT ![a][j]["main"] = Sent("failed")]
  <2> DEFINE x == [y EXCEPT !.pc = "final", !.outcome = "failed", !.tries = MaxTries]
             r == Sent("failed")
  <2>1. run' = [run EXCEPT ![a][j] = x] BY <1>4, Typed
  <2>2. MaxTries \in 0..MaxTries BY VMBoundAssumption
  <2>3. x \in RunRec /\ x.pc = "final" /\ x.outcome = "failed"
    BY <1>2, <2>2 DEF RunRec, Outcomes
  <2>4. r \in ReportRec /\ r.status = "failed" BY ReportRecords DEF Outcomes
  <2>5. reports' = [reports EXCEPT ![a][j]["main"] = r] BY <1>4
  <2> HIDE DEF x, r
  <2>6. RunOn(y, x) /\ Honest(x, r) BY <1>1, <1>2, <2>3, <2>4 DEF RunOn, Outcomes, Honest
  <2>7. Moves(a, j, "main", x, r) BY <1>1, <2>1, <2>3, <2>4, <2>5, <2>6, Typed DEF Moves
  <2> QED BY <2>7, MovesKeep, MainSender
<1> QED BY <1>1, <1>3, <1>4 DEF BeforeExecute

LEMMA ReportKeeps ==
  ASSUME IInv, NEW a \in Agents, NEW j \in Jobs, Report(a, j)
  PROVE  IInv' /\ Once
<1> DEFINE y == run[a][j]
           r == Sent("running")
<1>1. /\ y.pc = "running" /\ UNCHANGED <<jobs, ctl, poll, getter, run, losses, crashes>>
      /\ reports' = [reports EXCEPT ![a][j]["reporter"] = r]
  BY DEF Report
<1>2. r \in ReportRec /\ r.status = "running" BY ReportRecords
<1> HIDE DEF r
<1>3. Honest(y, r) BY <1>2 DEF Honest
<1>4. Moves(a, j, "reporter", y, r) BY <1>1, <1>2, <1>3, Typed, Stays, MainSender DEF Moves
<1> QED BY <1>4, MovesKeep, MainSender

LEMMA ExecuteKeeps ==
  ASSUME IInv, NEW a \in Agents, NEW j \in Jobs, Execute(a, j)
  PROVE  IInv' /\ Once
<1> DEFINE y == run[a][j]
<1>1. y.pc = "running" /\ UNCHANGED <<jobs, ctl, poll, getter, losses, crashes>>
  BY DEF Execute
<1>2. PICK o \in Outcomes : run' = [run EXCEPT ![a][j].outcome = o, ![a][j].pc = "after"]
  BY DEF Execute, Result, Outcomes
<1>3. PICK r \in ReportRec : /\ reports' = [reports EXCEPT ![a][j]["main"] = r]
                             /\ Honest(y, r) \/ r.status = "running"
  BY Stays, ReportRecords, MainSender DEF Execute
<1> DEFINE x == [y EXCEPT !.outcome = o, !.pc = "after"]
<1>4. y \in RunRec /\ y.outcome = "" BY <1>1, AgentFacts
<1>5. run' = [run EXCEPT ![a][j] = x] BY <1>2, Typed
<1>6. x \in RunRec /\ x.pc = "after" /\ x.outcome = o BY <1>4 DEF RunRec
<1> HIDE DEF x
<1>7. RunOn(y, x) /\ Honest(x, r) BY <1>1, <1>3, <1>4, <1>6 DEF RunOn, Honest
<1>8. Moves(a, j, "main", x, r) BY <1>1, <1>3, <1>5, <1>6, <1>7, Typed DEF Moves
<1> QED BY <1>8, MovesKeep, MainSender

LEMMA FinishedJobReportKeeps ==
  ASSUME IInv, NEW a \in Agents, NEW j \in Jobs, FinishedJobReport(a, j)
  PROVE  IInv' /\ Once
<1> DEFINE y == run[a][j]
           x == [y EXCEPT !.pc = "final", !.tries = MaxTries]
           r == Sent(y.outcome)
<1>1. /\ y.pc = "after" /\ UNCHANGED <<jobs, ctl, poll, getter, losses, crashes>>
      /\ reports' = [reports EXCEPT ![a][j]["main"] = r]
  BY DEF FinishedJobReport
<1>2. run' = [run EXCEPT ![a][j] = x] BY Typed DEF FinishedJobReport
<1>3. y \in RunRec /\ y.outcome \in Outcomes BY <1>1, AgentFacts
<1>4. MaxTries \in 0..MaxTries BY VMBoundAssumption
<1>5. x \in RunRec /\ x.pc = "final" /\ x.outcome = y.outcome BY <1>3, <1>4 DEF RunRec
<1>6. r \in ReportRec /\ r.status = y.outcome BY <1>3, ReportRecords
<1> HIDE DEF x, r
<1>7. RunOn(y, x) /\ Honest(x, r) BY <1>1, <1>3, <1>5, <1>6 DEF RunOn, Honest, Outcomes
<1>8. Moves(a, j, "main", x, r) BY <1>1, <1>2, <1>5, <1>6, <1>7, Typed DEF Moves
<1> QED BY <1>8, MovesKeep, MainSender

LEMMA EndRunKeeps ==
  ASSUME IInv, NEW a \in Agents, NEW j \in Jobs, StopRun(a, j) \/ EndRun(a, j)
  PROVE  IInv' /\ Once
<1> DEFINE y == run[a][j]
           x == Over(y)
           r == reports[a][j]["main"]
<1>1. /\ y.pc \in {"after", "final"} /\ r.pc = "idle"
      /\ UNCHANGED <<jobs, ctl, poll, getter, reports, losses, crashes>>
      /\ run' = [run EXCEPT ![a][j] = x]
  BY DEF StopRun, EndRun
<1>2. x \in RunRec /\ x.pc = "over" /\ x.outcome = y.outcome BY AgentFacts, OverRun
<1>3. r \in ReportRec /\ reports' = [reports EXCEPT ![a][j]["main"] = r]
  BY <1>1, Stays, MainSender
<1> HIDE DEF x, r
<1>4. RunOn(y, x) /\ Honest(x, r) BY <1>1, <1>2 DEF RunOn, Honest
<1>5. Moves(a, j, "main", x, r) BY <1>1, <1>2, <1>3, <1>4, Typed DEF Moves
<1> QED BY <1>5, MovesKeep, MainSender

\* A report that failed is dropped, or sent again while it is the last one.
LEMMA FailedMoves ==
  ASSUME IInv, NEW a \in Agents, NEW j \in Jobs, NEW s \in Senders, Failed(a, j, s),
         reports[a][j][s].pc # "idle"
  PROVE  \E x \in RunRec, r \in ReportRec :
           /\ run' = [run EXCEPT ![a][j] = x]
           /\ reports' = [reports EXCEPT ![a][j][s] = r]
           /\ RunOn(run[a][j], x) /\ Honest(x, r) /\ x.outcome = run[a][j].outcome
<1> DEFINE y == run[a][j]
<1>1. CASE s = "main" /\ y.pc = "final" /\ y.tries > 1
  <2> DEFINE x == [y EXCEPT !.tries = y.tries - 1]
             r == Sent(y.outcome)
  <2>1. run' = [run EXCEPT ![a][j] = x] /\ reports' = [reports EXCEPT ![a][j][s] = r]
    BY <1>1, Typed DEF Failed
  <2>2. y \in RunRec /\ y.outcome \in Outcomes BY <1>1, AgentFacts
  <2>3. y.tries \in 0..MaxTries BY <2>2, RunFields
  <2>4. y.tries - 1 \in 0..MaxTries BY <1>1, <2>3, VMBoundAssumption
  <2>5. x \in RunRec /\ x.pc = y.pc /\ x.outcome = y.outcome
    <3> DEFINE n == y.tries - 1
    <3> HIDE DEF n
    <3>1. [y EXCEPT !.tries = n] \in RunRec /\ [y EXCEPT !.tries = n].pc = y.pc
          /\ [y EXCEPT !.tries = n].outcome = y.outcome
      BY <2>2, <2>4 DEF RunRec, n
    <3> QED BY <3>1 DEF n
  <2>6. r \in ReportRec /\ r.status = y.outcome BY <2>2, ReportRecords
  <2> HIDE DEF x, r
  <2>7. RunOn(y, x) /\ Honest(x, r) BY <1>1, <2>2, <2>5, <2>6 DEF RunOn, Honest, Outcomes
  <2> QED BY <2>1, <2>5, <2>6, <2>7
<1>2. CASE ~(s = "main" /\ y.pc = "final" /\ y.tries > 1)
  <2>1. run' = run /\ reports' = [reports EXCEPT ![a][j][s] = NoReport] BY <1>2 DEF Failed
  <2> QED BY <2>1, Stays
<1> QED BY <1>1, <1>2

LEMMA ReportStepKeeps ==
  ASSUME IInv, NEW a \in Agents, NEW j \in Jobs, NEW s \in Senders,
         ReportStep(a, j, s) \/ ReportLost(a, j, s)
  PROVE  IInv' /\ Once
<1> DEFINE y == run[a][j]
           q == reports[a][j][s]
<1>1. /\ q.pc # "idle" /\ UNCHANGED <<ctl, poll, getter, crashes>>
      /\ losses' \in 0..MaxLosses
  BY Typed, VMBoundAssumption
     DEF ReportStep, ReportRefused, ReportStopped, ReportFind, ReportUpdate, ReportLost
<1>2. CASE ReportRefused(a, j, s) \/ ReportLost(a, j, s)
  <2>1. Failed(a, j, s) /\ UNCHANGED jobs BY <1>2 DEF ReportRefused, ReportLost
  <2>2. PICK x \in RunRec, r \in ReportRec :
           /\ run' = [run EXCEPT ![a][j] = x]
           /\ reports' = [reports EXCEPT ![a][j][s] = r]
           /\ RunOn(y, x) /\ Honest(x, r)
    BY <1>1, <2>1, FailedMoves
  <2>3. Moves(a, j, s, x, r) BY <1>1, <2>1, <2>2 DEF Moves
  <2> QED BY <2>3, MovesKeep
<1>3. CASE ReportStopped(a, j, s)
  <2> DEFINE c == y.cancel \/ y.pc \in {"running", "after"}
             x == [y EXCEPT !.cancel = c]
  <2>1. run' = [run EXCEPT ![a][j] = x] /\ reports' = [reports EXCEPT ![a][j][s] = NoReport]
        /\ UNCHANGED jobs
    BY <1>3, Typed DEF ReportStopped
  <2>2. c \in BOOLEAN OBVIOUS
  <2> HIDE DEF c
  <2>3. x \in RunRec /\ x.pc = y.pc /\ x.outcome = y.outcome BY <2>2, AgentFacts DEF RunRec
  <2> HIDE DEF x
  <2>4. RunOn(y, x) /\ Honest(x, NoReport) /\ NoReport \in ReportRec
    BY <2>3, Stays DEF RunOn, Honest
  <2>5. Moves(a, j, s, x, NoReport) BY <1>1, <2>1, <2>3, <2>4 DEF Moves
  <2> QED BY <2>5, MovesKeep
<1>4. CASE ReportFind(a, j, s)
  <2> DEFINE r == [q EXCEPT !.pc = "found"]
  <2>1. reports' = [reports EXCEPT ![a][j][s] = r] /\ UNCHANGED <<run, jobs>>
    BY <1>4, Typed DEF ReportFind
  <2>2. q \in ReportRec /\ Honest(y, q) BY AgentFacts
  <2>3. r \in ReportRec /\ r.status = q.status BY <2>2 DEF ReportRec
  <2> HIDE DEF r
  <2>4. Honest(y, r) BY <1>1, <2>2, <2>3 DEF Honest
  <2>5. Moves(a, j, s, y, r) BY <1>1, <2>1, <2>3, <2>4, Stays DEF Moves
  <2> QED BY <2>5, MovesKeep
<1>5. CASE ReportUpdate(a, j, s)
  <2>1. jobs' = [jobs EXCEPT ![j] = [status |-> q.status, vm |-> a]]
        /\ \/ reports' = [reports EXCEPT ![a][j][s] = NoReport] /\ UNCHANGED run
           \/ Failed(a, j, s)
    BY <1>5 DEF ReportUpdate
  <2>2. PICK x \in RunRec, r \in ReportRec :
           /\ run' = [run EXCEPT ![a][j] = x]
           /\ reports' = [reports EXCEPT ![a][j][s] = r]
           /\ RunOn(y, x) /\ Honest(x, r) /\ x.outcome = y.outcome
    BY <1>1, <2>1, FailedMoves, Stays
  <2>3. q.status \in {"running", x.outcome} \ {""} BY <1>1, <2>2, AgentFacts DEF Honest
  <2>4. Moves(a, j, s, x, r) BY <1>1, <2>1, <2>2, <2>3 DEF Moves
  <2> QED BY <2>4, MovesKeep
<1> QED BY <1>2, <1>3, <1>4, <1>5 DEF ReportStep

-----------------------------------------------------------------------------
(* Steps of the controller and of polls, and the death of an agent.          *)

CtlRec == [pc : {"idle", "start", "end", "complete", "done"},
           status : {""} \cup Stopped \cup Outcomes, err : BOOLEAN]

LEMMA CtlFields ==
  ASSUME NEW c \in CtlRec, NEW pc \in {"idle", "start", "end", "complete", "done"}
  PROVE  LET x == [c EXCEPT !.pc = pc] IN
         x \in CtlRec /\ x.pc = pc /\ x.status = c.status /\ x.err = c.err
BY DEF CtlRec

LEMMA JobFields ==
  ASSUME NEW d \in JobDoc, NEW t \in {"none"} \cup Waiting \cup Stopped \cup Outcomes
  PROVE  LET x == [d EXCEPT !.status = t] IN x \in JobDoc /\ x.status = t
BY DEF JobDoc

LEMMA CtlEnds ==
  ASSUME NEW c \in CtlRec, NEW pc \in {"complete", "done"}, NEW t \in Stopped \cup Outcomes,
         NEW e \in BOOLEAN
  PROVE  LET x == [pc |-> pc, status |-> t, err |-> e] IN
         x \in CtlRec /\ x.pc = pc /\ x.status = t /\ x.err = e /\ c.err \in BOOLEAN
BY DEF CtlRec

\* What a step of the controller of j does: it invents no outcome, unless a call failed.
CtlChange(j) ==
  /\ jobs' \in [Jobs -> JobDoc] /\ ctl' \in [Jobs -> CtlRec]
  /\ \A i \in Jobs \ {j} : jobs'[i] = jobs[i] /\ ctl'[i] = ctl[i]
  /\ CtlInv(j)'
  /\ jobs[j].status \notin {"none", "created"} => jobs'[j].status \notin {"none", "created"}
  /\ ctl[j].pc # "idle" => ctl'[j].pc # "idle"
  /\ ctl[j].err => ctl'[j].err
  /\ \A t \in {jobs'[j].status, ctl'[j].status} \cap Outcomes :
       t \in {jobs[j].status, ctl[j].status} \/ (t = "failed" /\ ctl'[j].err)

LEMMA CtlChanges ==
  ASSUME IInv, NEW j \in Jobs, CtlStep(j) \/ FindFails(j) \/ \E s \in Stopped : StopStep(j, s)
  PROVE  CtlChange(j)
<1> USE DEF Stopped, Outcomes, Waiting
<1> DEFINE c == ctl[j]
           d == jobs[j]
<1>1. CtlInv(j) BY DEF IInv
<1>2. ctl \in [Jobs -> CtlRec] /\ jobs \in [Jobs -> JobDoc] BY DEF IInv, TypeOK, CtlRec
<1>3. c \in CtlRec /\ d \in JobDoc BY <1>2
<1>4. c.status \in {""} \cup Stopped \cup Outcomes BY <1>3 DEF CtlRec
<1>5. d.status \in {"none"} \cup Waiting \cup Stopped \cup Outcomes BY <1>3 DEF JobDoc
<1>6. CASE RunVMJob(j)
  <2> DEFINE x == [c EXCEPT !.pc = "start"]
             e == [d EXCEPT !.status = "created"]
  <2>1. x \in CtlRec /\ x.pc = "start" /\ x.status = c.status /\ x.err = c.err BY <1>3, CtlFields
  <2>2. e \in JobDoc /\ e.status = "created" BY <1>3, JobFields
  <2>3. ctl' = [ctl EXCEPT ![j] = x] /\ jobs' = [jobs EXCEPT ![j] = e] /\ c.pc = "idle"
    BY <1>6, <1>2 DEF RunVMJob
  <2> HIDE DEF x, e
  <2>4. ctl'[j] = x /\ jobs'[j] = e /\ d.status = "none" /\ c.status = ""
    BY <1>1, <1>2, <2>3 DEF CtlInv
  <2>5. CtlInv(j)' BY <2>1, <2>2, <2>4 DEF CtlInv
  <2> QED BY <1>2, <2>1, <2>2, <2>3, <2>4, <2>5 DEF CtlChange
<1>7. CASE WaitVMJobStart(j)
  <2> DEFINE x == [c EXCEPT !.pc = "end"]
  <2>1. x \in CtlRec /\ x.pc = "end" /\ x.status = c.status /\ x.err = c.err BY <1>3, CtlFields
  <2>2. ctl' = [ctl EXCEPT ![j] = x] /\ jobs' = jobs /\ c.pc = "start"
    BY <1>7, <1>2 DEF WaitVMJobStart
  <2> HIDE DEF x
  <2>3. ctl'[j] = x BY <1>2, <2>2
  <2>4. CtlInv(j)' BY <1>1, <2>1, <2>2, <2>3 DEF CtlInv
  <2> QED BY <1>2, <2>1, <2>2, <2>3, <2>4 DEF CtlChange
<1>8. CASE FindFails(j) \/ WaitVMJobEnd(j) \/ \E s \in Stopped : StartStops(j, s)
  <2>1. PICK t \in Stopped \cup Outcomes, ok \in BOOLEAN :
          /\ ctl' = [ctl EXCEPT ![j] = Completed(c, t, ok)] /\ jobs' = jobs
          /\ c.pc \in {"start", "end"}
          /\ t \in Outcomes => t = d.status \/ (t = "failed" /\ ~ok)
    BY <1>1, <1>5, <1>8 DEF FindFails, WaitVMJobEnd, StartStops, Verdict, CtlInv
  <2> DEFINE x == Completed(c, t, ok)
  <2>2. x \in CtlRec /\ x.pc = "complete" /\ x.status = t /\ x.err = (c.err \/ ~ok)
    BY <1>3, CtlEnds DEF Completed
  <2>3. ctl' = [ctl EXCEPT ![j] = x] BY <2>1
  <2> HIDE DEF x
  <2>4. ctl'[j] = x BY <1>2, <2>3
  <2>5. CtlInv(j)' BY <1>1, <2>1, <2>2, <2>4 DEF CtlInv
  <2> QED BY <1>2, <2>1, <2>2, <2>3, <2>4, <2>5 DEF CtlChange
<1>9. ASSUME NEW s \in Stopped, EndStops(j, s) PROVE CtlChange(j)
  <2>1. PICK ok \in BOOLEAN :
          /\ ctl' = [ctl EXCEPT ![j] = Completed(c, s, TRUE)] /\ c.pc = "end"
          /\ jobs' = IF ok THEN [jobs EXCEPT ![j].status = s] ELSE jobs
    BY <1>9 DEF EndStops, Ok
  <2> DEFINE x == Completed(c, s, TRUE)
             e == IF ok THEN [d EXCEPT !.status = s] ELSE d
  <2>2. x \in CtlRec /\ x.pc = "complete" /\ x.status = s /\ x.err = c.err
    BY <1>3, CtlEnds DEF Completed
  <2>3. e \in JobDoc /\ e.status = IF ok THEN s ELSE d.status BY <1>3, JobFields
  <2>4. ctl' = [ctl EXCEPT ![j] = x] /\ jobs' = [jobs EXCEPT ![j] = e] BY <1>2, <2>1
  <2> HIDE DEF x, e
  <2>5. ctl'[j] = x /\ jobs'[j] = e BY <1>2, <2>4
  <2>6. CtlInv(j)' BY <1>1, <2>1, <2>2, <2>3, <2>5 DEF CtlInv
  <2> QED BY <1>2, <2>1, <2>2, <2>3, <2>4, <2>5, <2>6 DEF CtlChange
<1>10. CASE VMComplete(j)
  <2>1. c.pc = "complete" /\ c.status \in Stopped \cup Outcomes
    BY <1>1, <1>10 DEF VMComplete, CtlInv
  <2>2. PICK found \in BOOLEAN, deleted \in BOOLEAN :
          LET status == IF found THEN c.status ELSE "failed" IN
          /\ ctl' = [ctl EXCEPT ![j] = [pc |-> "done", status |-> status,
                                        err |-> c.err \/ ~found \/ ~deleted]]
          /\ jobs' = IF deleted THEN [jobs EXCEPT ![j].status = status] ELSE jobs
    BY <1>10 DEF VMComplete, Ok
  <2> DEFINE t == IF found THEN c.status ELSE "failed"
             f == c.err \/ ~found \/ ~deleted
             x == [pc |-> "done", status |-> t, err |-> f]
             e == IF deleted THEN [d EXCEPT !.status = t] ELSE d
  <2>3. t \in Stopped \cup Outcomes /\ f \in BOOLEAN BY <2>1
  <2>4. x \in CtlRec /\ x.pc = "done" /\ x.status = t /\ x.err = f BY <1>3, <2>3, CtlEnds
  <2>5. e \in JobDoc /\ e.status = IF deleted THEN t ELSE d.status BY <1>3, <2>3, JobFields
  <2>6. ctl' = [ctl EXCEPT ![j] = x] /\ jobs' = [jobs EXCEPT ![j] = e] BY <1>2, <2>2
  <2>7. (t = c.status \/ (t = "failed" /\ f)) /\ (c.err => f) /\ (~deleted => f) OBVIOUS
  <2> HIDE DEF x, e, t, f
  <2>8. ctl'[j] = x /\ jobs'[j] = e BY <1>2, <2>6
  <2>9. CtlInv(j)' BY <1>1, <2>1, <2>3, <2>4, <2>5, <2>7, <2>8 DEF CtlInv
  <2> QED BY <1>2, <2>1, <2>3, <2>4, <2>5, <2>6, <2>7, <2>8, <2>9 DEF CtlChange
<1> QED BY <1>6, <1>7, <1>8, <1>9, <1>10 DEF CtlStep, StopStep

LEMMA CtlStepKeeps ==
  ASSUME IInv, NEW j \in Jobs, CtlStep(j) \/ FindFails(j) \/ \E s \in Stopped : StopStep(j, s)
  PROVE  IInv' /\ Once
<1>1. UNCHANGED <<poll, getter, run, reports, losses, crashes>>
  BY DEF CtlStep, StopStep, RunVMJob, WaitVMJobStart, WaitVMJobEnd, FindFails, VMComplete,
         StartStops, EndStops, agentVars
<1>2. CtlChange(j) BY CtlChanges
<1>3. TypeOK' BY <1>1, <1>2 DEF IInv, TypeOK, CtlChange, CtlRec
<1>4. \A i \in Jobs : CtlInv(i)'
  <2>1. ASSUME NEW i \in Jobs \ {j} PROVE CtlInv(i)'
    <3>1. jobs'[i] = jobs[i] /\ ctl'[i] = ctl[i] BY <1>2 DEF CtlChange
    <3>2. CtlInv(i) BY DEF IInv
    <3> QED BY <3>1, <3>2 DEF CtlInv
  <2> QED BY <1>2, <2>1 DEF CtlChange
<1>5. \A i \in Jobs : VerdictInv(i)'
  <2> SUFFICES ASSUME NEW i \in Jobs PROVE VerdictInv(i)' OBVIOUS
  <2>1. VerdictInv(i) BY DEF IInv
  <2>2. \A t : Reached(i, t) => Reaches(i, t) BY <1>1 DEF Reached, Reaches
  <2>3. \A t \in {jobs'[i].status, ctl'[i].status} \cap Outcomes : RealAfter(i, t)
    <3>1. CASE i = j BY <1>2, <2>1, <2>2, <3>1 DEF VerdictInv, Real, RealAfter, CtlChange
    <3>2. CASE i # j BY <1>2, <2>1, <2>2, <3>2 DEF VerdictInv, Real, RealAfter, CtlChange
    <3> QED BY <3>1, <3>2
  <2> QED BY <2>3, VerdictAfter
<1>6. \A a \in Agents, i \in Jobs : AgentInv(a, i)'
  <2> SUFFICES ASSUME NEW a \in Agents, NEW i \in Jobs PROVE AgentInv(a, i)' OBVIOUS
  <2>1. AgentInv(a, i) BY DEF IInv
  <2>2. jobs'[i].status \in {"none", "created"} => jobs[i].status \in {"none", "created"}
    BY <1>2 DEF CtlChange
  <2>3. ctl[i].pc # "idle" => ctl'[i].pc # "idle" BY <1>2 DEF CtlChange
  <2> QED BY <1>1, <2>1, <2>2, <2>3 DEF AgentInv
<1>7. Once BY <1>1 DEF Once
<1> QED BY <1>3, <1>4, <1>5, <1>6, <1>7 DEF IInv

LEMMA PollRecords ==
  /\ NoPoll.pc = "idle"
  /\ \A k \in Jobs, r \in Replicas, pc \in {"listed", "got"} :
       LET x == [pc |-> pc, job |-> k, replica |-> r] IN
       /\ x \in [pc : {"listed", "got"}, job : Jobs, replica : Replicas]
       /\ x.pc = pc /\ x.job = k
BY DEF NoPoll

LEMMA PollFacts ==
  ASSUME IInv, NEW a \in Agents
  PROVE  /\ poll \in [Agents -> {NoPoll} \cup [pc : {"listed", "got"}, job : Jobs, replica : Replicas]]
         /\ getter \in [Replicas -> SUBSET Jobs]
         /\ poll[a].pc # "idle" =>
              /\ poll[a] \in [pc : {"listed", "got"}, job : Jobs, replica : Replicas]
              /\ poll[a].job \in Jobs /\ poll[a].replica \in Replicas
<1>1. poll[a] \in {NoPoll} \cup [pc : {"listed", "got"}, job : Jobs, replica : Replicas]
  BY DEF IInv, TypeOK
<1> QED BY <1>1, PollRecords DEF IInv, TypeOK

\* A poll that has not written yet: the job it may look at has not been taken by its agent.
LEMMA PollReads ==
  ASSUME IInv, NEW a \in Agents,
         NEW x \in {NoPoll} \cup [pc : {"listed", "got"}, job : Jobs, replica : Replicas],
         poll' = [poll EXCEPT ![a] = x],
         getter' \in [Replicas -> SUBSET Jobs],
         UNCHANGED <<jobs, ctl, run, reports, losses, crashes>>,
         x.pc # "idle" => run[a][x.job].pc = "none" /\ ctl[x.job].pc # "idle"
  PROVE  IInv' /\ Once
<1>1. /\ poll' \in [Agents -> {NoPoll} \cup [pc : {"listed", "got"}, job : Jobs, replica : Replicas]]
      /\ poll'[a] = x /\ \A b \in Agents \ {a} : poll'[b] = poll[b]
  BY PollFacts
<1>2. TypeOK' BY <1>1 DEF IInv, TypeOK
<1>3. \A i \in Jobs : CtlInv(i)' /\ VerdictInv(i)' BY ZenonT(30) DEF IInv, CtlInv, VerdictInv, Real, Reached
<1>4. \A b \in Agents, i \in Jobs : AgentInv(b, i)'
  <2> SUFFICES ASSUME NEW b \in Agents, NEW i \in Jobs PROVE AgentInv(b, i)' OBVIOUS
  <2>1. AgentInv(b, i) BY DEF IInv
  <2>2. CASE b = a BY <1>1, <2>1, <2>2 DEF AgentInv
  <2>3. CASE b # a BY <1>1, <2>1, <2>3 DEF AgentInv
  <2> QED BY <2>2, <2>3
<1> QED BY <1>2, <1>3, <1>4 DEF IInv, Once

LEMMA PollListKeeps ==
  ASSUME IInv, NEW a \in Agents, NEW r \in Replicas, NEW j \in Jobs, PollList(a, r, j)
  PROVE  IInv' /\ Once
<1> DEFINE x == [pc |-> "listed", job |-> j, replica |-> r]
<1>1. /\ jobs[j].status = "created" /\ poll' = [poll EXCEPT ![a] = x]
      /\ UNCHANGED <<jobs, ctl, getter, run, reports, losses, crashes>>
  BY DEF PollList
<1>2. run[a][j].pc = "none" /\ ctl[j].pc # "idle" BY <1>1 DEF IInv, AgentInv, CtlInv
<1>3. x \in [pc : {"listed", "got"}, job : Jobs, replica : Replicas] /\ x.job = j
  BY PollRecords
<1> HIDE DEF x
<1>4. getter' \in [Replicas -> SUBSET Jobs] BY <1>1, PollFacts
<1> QED BY <1>1, <1>2, <1>3, <1>4, PollReads

LEMMA PollWaitKeeps ==
  ASSUME IInv, NEW a \in Agents, PollAgain(a) \/ AddGetter(a)
  PROVE  IInv' /\ Once
<1> DEFINE y == poll[a]
<1>1. y.pc = "listed" /\ UNCHANGED <<jobs, ctl, run, reports, losses, crashes>>
  BY DEF PollAgain, AddGetter
<1>2. /\ y \in [pc : {"listed", "got"}, job : Jobs, replica : Replicas]
      /\ y.job \in Jobs /\ y.replica \in Replicas
  BY <1>1, PollFacts
<1>3. run[a][y.job].pc = "none" /\ ctl[y.job].pc # "idle"
  <2>1. AgentInv(a, y.job) BY <1>2 DEF IInv
  <2> QED BY <1>1, <2>1 DEF AgentInv
<1>4. CASE PollAgain(a)
  <2>1. poll' = [poll EXCEPT ![a] = NoPoll] /\ getter' = getter BY <1>4 DEF PollAgain
  <2>2. getter' \in [Replicas -> SUBSET Jobs] BY <2>1, PollFacts
  <2> QED BY <1>1, <2>1, <2>2, PollRecords, PollReads
<1>5. CASE AddGetter(a)
  <2> DEFINE x == [y EXCEPT !.pc = "got"]
  <2>1. poll' = [poll EXCEPT ![a] = x] BY <1>5, PollFacts DEF AddGetter
  <2>2. getter' \in [Replicas -> SUBSET Jobs] BY <1>2, <1>5, PollFacts DEF AddGetter
  <2>3. x \in [pc : {"listed", "got"}, job : Jobs, replica : Replicas] /\ x.job = y.job
    BY <1>2
  <2> HIDE DEF x
  <2> QED BY <1>1, <1>3, <2>1, <2>2, <2>3, PollReads
<1> QED BY <1>4, <1>5

LEMMA PollUpdateKeeps ==
  ASSUME IInv, NEW a \in Agents, PollUpdate(a)
  PROVE  IInv' /\ Once
<1> DEFINE y == poll[a]
           j == y.job
           x == [run[a][j] EXCEPT !.pc = "taken"]
<1>1. /\ y.pc = "got" /\ poll' = [poll EXCEPT ![a] = NoPoll]
      /\ jobs' = [jobs EXCEPT ![j] = Taken(a)]
      /\ getter' = [getter EXCEPT ![y.replica] = @ \ {j}]
      /\ UNCHANGED <<ctl, reports, crashes>>
  BY DEF PollUpdate
<1>2. j \in Jobs /\ y.replica \in Replicas BY <1>1, PollFacts
<1>3. run[a][j].pc = "none" /\ ctl[j].pc # "idle" /\ run[a][j].outcome = ""
  <2>1. AgentInv(a, j) BY <1>2 DEF IInv
  <2> QED BY <1>1, <2>1 DEF AgentInv
<1>4. run[a][j] \in RunRec BY <1>2, AgentFacts
<1>5. x \in RunRec /\ x.pc = "taken" /\ x.outcome = "" BY <1>3, <1>4 DEF RunRec
<1>6. losses' \in 0..MaxLosses BY Typed, VMBoundAssumption DEF PollUpdate
<1>7. run' = [run EXCEPT ![a][j] = x] \/ run' = run BY Typed DEF PollUpdate
<1> HIDE DEF x
<1>8. /\ run' \in [Agents -> [Jobs -> RunRec]]
      /\ \A b \in Agents, i \in Jobs : ~(b = a /\ i = j) => run'[b][i] = run[b][i]
      /\ run'[a][j].outcome = "" /\ run'[a][j].pc \in {"none", "taken"}
  <2>1. CASE run' = run BY <1>2, <1>3, <2>1, Typed
  <2>2. CASE run' = [run EXCEPT ![a][j] = x]
    <3> HIDE DEF j
    <3> QED BY <1>2, <1>5, <2>2, Typed
  <2> QED BY <1>7, <2>1, <2>2
<1>9. Taken(a) \in JobDoc /\ Taken(a).status = "prepare" BY DEF Taken, JobDoc, Waiting
<1>10. /\ jobs' \in [Jobs -> JobDoc] /\ jobs'[j].status = "prepare"
       /\ \A i \in Jobs \ {j} : jobs'[i] = jobs[i]
  BY <1>1, <1>2, <1>9, Typed
<1>11. /\ poll' \in [Agents -> {NoPoll} \cup [pc : {"listed", "got"}, job : Jobs, replica : Replicas]]
       /\ poll'[a].pc = "idle" /\ \A b \in Agents \ {a} : poll'[b] = poll[b]
  BY <1>1, PollFacts, PollRecords
<1>12. getter' \in [Replicas -> SUBSET Jobs] BY <1>1, <1>2, PollFacts
<1> HIDE DEF j, y
<1>13. TypeOK' BY <1>1, <1>6, <1>8, <1>10, <1>11, <1>12 DEF IInv, TypeOK
<1>14. \A i \in Jobs : CtlInv(i)'
  <2> SUFFICES ASSUME NEW i \in Jobs PROVE CtlInv(i)' OBVIOUS
  <2>1. CtlInv(i) BY DEF IInv
  <2> QED BY <1>1, <1>3, <1>10, <2>1 DEF CtlInv, Stopped
<1>15. \A i \in Jobs : VerdictInv(i)'
  <2> SUFFICES ASSUME NEW i \in Jobs PROVE VerdictInv(i)' OBVIOUS
  <2>1. VerdictInv(i) BY DEF IInv
  <2>2. \A t \in Outcomes : Reached(i, t) => Reaches(i, t)
    BY <1>3, <1>8 DEF Reached, Reaches, Outcomes
  <2>3. ctl'[i].status \in Outcomes => RealAfter(i, ctl'[i].status)
    BY <1>1, <2>1, <2>2 DEF VerdictInv, Real, RealAfter
  <2>4. jobs'[i].status \in Outcomes => jobs'[i] = jobs[i] BY <1>10 DEF Outcomes
  <2>5. jobs'[i].status \in Outcomes => RealAfter(i, jobs'[i].status)
    BY <1>1, <2>1, <2>2, <2>4 DEF VerdictInv, Real, RealAfter
  <2> QED BY <2>3, <2>5, VerdictAfter
<1>16. \A b \in Agents, i \in Jobs : AgentInv(b, i)'
  <2> SUFFICES ASSUME NEW b \in Agents, NEW i \in Jobs PROVE AgentInv(b, i)' OBVIOUS
  <2>1. AgentInv(b, i) BY DEF IInv
  <2>2. jobs'[i].status \in {"none", "created"} => jobs'[i] = jobs[i] /\ i # j BY <1>10
  <2>3. CASE b = a /\ i = j
    <3>1. \A s \in Senders : Honest(run[a][j], reports[a][j][s]) BY <1>2, AgentFacts
    <3> QED BY <1>1, <1>3, <1>8, <1>11, <2>2, <2>3, <3>1 DEF AgentInv, Honest
  <2>4. CASE ~(b = a /\ i = j) BY <1>1, <1>8, <1>11, <2>1, <2>2, <2>4, ZenonT(30) DEF AgentInv
  <2> QED BY <2>3, <2>4
<1>17. Once BY <1>2, <1>3, <1>8 DEF Once
<1> QED BY <1>13, <1>14, <1>15, <1>16, <1>17 DEF IInv

LEMMA CrashKeeps ==
  ASSUME IInv, NEW a \in Agents, Crash(a)
  PROVE  IInv' /\ Once
<1> DEFINE F == [j \in Jobs |-> IF run[a][j].pc = "none" THEN NoRun ELSE Over(run[a][j])]
<1>1. /\ run' = [run EXCEPT ![a] = F]
      /\ crashes < MaxCrashes /\ crashes' = crashes + 1
      /\ UNCHANGED <<jobs, ctl, poll, getter, reports, losses>>
  BY DEF Crash
<1>2. crashes' \in 0..MaxCrashes BY <1>1, Typed, VMBoundAssumption
<1>3. \A j \in Jobs : /\ F[j] \in RunRec /\ F[j].outcome = run[a][j].outcome
                      /\ IF run[a][j].pc = "none" THEN F[j].pc = "none" ELSE F[j].pc = "over"
  BY AgentFacts, EmptyRun, OverRun
<1>4. F \in [Jobs -> RunRec] BY <1>3
<1> HIDE DEF F
<1>5. /\ run' \in [Agents -> [Jobs -> RunRec]]
      /\ \A b \in Agents, j \in Jobs :
           /\ run'[b][j].outcome = run[b][j].outcome
           /\ run'[b][j].pc = run[b][j].pc \/ (run[b][j].pc # "none" /\ run'[b][j].pc = "over")
  BY <1>1, <1>3, <1>4, Typed
<1>6. TypeOK' BY <1>1, <1>2, <1>5 DEF IInv, TypeOK
<1>7. \A i \in Jobs : CtlInv(i)' /\ VerdictInv(i)'
  <2> SUFFICES ASSUME NEW i \in Jobs PROVE CtlInv(i)' /\ VerdictInv(i)' OBVIOUS
  <2>1. CtlInv(i) /\ VerdictInv(i) BY DEF IInv
  <2>2. CtlInv(i)' BY <1>1, <2>1 DEF CtlInv
  <2>3. VerdictInv(i)' BY <1>1, <1>5, <2>1 DEF VerdictInv, Real, Reached
  <2> QED BY <2>2, <2>3
<1>8. \A b \in Agents, i \in Jobs : AgentInv(b, i)'
  <2> SUFFICES ASSUME NEW b \in Agents, NEW i \in Jobs PROVE AgentInv(b, i)' OBVIOUS
  <2>1. AgentInv(b, i) BY DEF IInv
  <2> QED BY <1>1, <1>5, <2>1 DEF AgentInv
<1>9. Once BY <1>5 DEF Once
<1> QED BY <1>6, <1>7, <1>8, <1>9 DEF IInv

-----------------------------------------------------------------------------
LEMMA InitIInv == Init => IInv
<1> SUFFICES ASSUME Init PROVE IInv OBVIOUS
<1>1. /\ \A j \in Jobs : jobs[j].status = "none" /\ ctl[j].pc = "idle" /\ ctl[j].status = ""
      /\ jobs \in [Jobs -> JobDoc]
      /\ ctl \in [Jobs -> [pc : {"idle", "start", "end", "complete", "done"},
                           status : {""} \cup Stopped \cup Outcomes, err : BOOLEAN]]
  BY DEF Init, JobDoc
<1>2. /\ \A a \in Agents : poll[a] = NoPoll
      /\ poll \in [Agents -> {NoPoll} \cup [pc : {"listed", "got"}, job : Jobs, replica : Replicas]]
      /\ getter \in [Replicas -> SUBSET Jobs]
  BY DEF Init
<1>3. /\ \A a \in Agents, j \in Jobs : run[a][j] = NoRun
      /\ run \in [Agents -> [Jobs -> RunRec]]
  BY EmptyRun DEF Init
<1>4. /\ \A a \in Agents, j \in Jobs, s \in Senders : reports[a][j][s] = NoReport
      /\ reports \in [Agents -> [Jobs -> [Senders -> ReportRec]]]
  BY ReportRecords DEF Init
<1>5. losses \in 0..MaxLosses /\ crashes \in 0..MaxCrashes
  <2>1. losses = 0 /\ crashes = 0 BY DEF Init
  <2> QED BY <2>1, VMBoundAssumption
<1>6. TypeOK BY <1>1, <1>2, <1>3, <1>4, <1>5 DEF TypeOK
<1>7. \A j \in Jobs : CtlInv(j) /\ VerdictInv(j)
  BY <1>1 DEF CtlInv, VerdictInv, Stopped, Outcomes
<1>8. \A a \in Agents, j \in Jobs : AgentInv(a, j)
  <2> SUFFICES ASSUME NEW a \in Agents, NEW j \in Jobs PROVE AgentInv(a, j) OBVIOUS
  <2>1. run[a][j].pc = "none" /\ run[a][j].outcome = "" BY <1>3, EmptyRun
  <2>2. \A s \in Senders : reports[a][j][s].pc = "idle" BY <1>4, ReportRecords
  <2>3. poll[a].pc = "idle" BY <1>2, PollRecords
  <2> QED BY <2>1, <2>2, <2>3 DEF AgentInv
<1> QED BY <1>6, <1>7, <1>8 DEF IInv

LEMMA StepIInv == IInv /\ [Next]_vars => IInv' /\ Once
<1> SUFFICES ASSUME IInv, [Next]_vars PROVE IInv' /\ Once OBVIOUS
<1>1. CASE UNCHANGED vars
  <2>1. TypeOK' BY <1>1 DEF vars, IInv, TypeOK
  <2>2. \A j \in Jobs : CtlInv(j)' /\ VerdictInv(j)'
    BY <1>1 DEF vars, IInv, CtlInv, VerdictInv, Real, Reached
  <2>3. ASSUME NEW a \in Agents, NEW j \in Jobs PROVE AgentInv(a, j)'
    <3>1. AgentInv(a, j) BY DEF IInv
    <3> QED BY <1>1, <3>1 DEF vars, AgentInv
  <2> QED BY <1>1, <2>1, <2>2, <2>3 DEF vars, IInv, Once
<1>2. ASSUME NEW j \in Jobs, CtlStep(j) \/ FindFails(j) \/ \E s \in Stopped : StopStep(j, s)
      PROVE  IInv' /\ Once
  BY <1>2, CtlStepKeeps
<1>3. ASSUME NEW a \in Agents, PollStep(a) \/ Crash(a) PROVE IInv' /\ Once
  BY <1>3, PollWaitKeeps, PollUpdateKeeps, CrashKeeps DEF PollStep
<1>4. ASSUME NEW a \in Agents, NEW r \in Replicas, NEW j \in Jobs, PollList(a, r, j)
      PROVE  IInv' /\ Once
  BY <1>4, PollListKeeps
<1>5. ASSUME NEW a \in Agents, NEW j \in Jobs,
             BeforeExecute(a, j) \/ Report(a, j) \/ Execute(a, j) \/ AgentEnds(a, j)
      PROVE  IInv' /\ Once
  BY <1>5, BeforeExecuteKeeps, ReportKeeps, ExecuteKeeps, FinishedJobReportKeeps, EndRunKeeps
     DEF AgentEnds
<1>6. ASSUME NEW a \in Agents, NEW j \in Jobs, NEW s \in Senders,
             ReportStep(a, j, s) \/ ReportLost(a, j, s)
      PROVE  IInv' /\ Once
  BY <1>6, ReportStepKeeps
<1> QED BY <1>1, <1>2, <1>3, <1>4, <1>5, <1>6 DEF Next

\* The jobs, controllers, polls, runs and reports stay well typed, whatever runVMJob,
\* PollingAgentJob, ReportAgentJob and the agents do.
THEOREM VMTyped == Spec => []TypeOK
<1>1. IInv => TypeOK BY DEF IInv
<1> QED BY InitIInv, StepIInv, <1>1, PTL DEF Spec

\* A verdict of the controller is one that an agent reached (waitVMJobEndByCheckStatus),
\* although PollingAgentJob and ReportAgentJob write back what they read before; only a
\* failed call to the database makes the controller fail a job of its own.
THEOREM VerdictIsReal == Spec => []VerdictReported
<1>1. IInv => VerdictReported BY DEF IInv, VerdictInv, VerdictReported, Real, Reached, Outcomes
<1> QED BY InitIInv, StepIInv, <1>1, PTL DEF Spec

\* No job is offered to agents once its controller has completed it (vmComplete), unless
\* a database call of the controller failed.
THEOREM FinishedNotOffered == Spec => []NotOffered
<1>1. IInv => NotOffered BY DEF IInv, CtlInv, NotOffered
<1> QED BY InitIInv, StepIInv, <1>1, PTL DEF Spec

\* No agent takes a job twice (PollingAgentJob), however many replicas it polls.
THEOREM TakenOnce == Spec => OncePerAgent
<1>1. IInv /\ [Next]_vars =>
        [\A a \in Agents, j \in Jobs :
           run[a][j].pc # "none" /\ run'[a][j].pc = "taken" => run[a][j].pc = "taken"]_vars
  BY StepIInv DEF Once
<1> QED BY InitIInv, StepIInv, <1>1, PTL DEF Spec, OncePerAgent
=============================================================================
