------------------------- MODULE ReleasePlanProofs -------------------------
(* No plan executes before its approval: proved for every plan, any number  *)
(* of requests and any order in which they overwrite each other's document. *)
EXTENDS ReleasePlan, TLAPS

-----------------------------------------------------------------------------
(* What the functions on documents return.                                  *)

\* The targets that keep a plan before its approval are reached from there only.
LEMMA EarlyTargets ==
  ASSUME NEW s \in DOMAIN StatusMap, NEW t \in StatusMap[s], t \in Early, t # "planning"
  PROVE  s \in Early
BY DEF StatusMap, Early

LEMMA MapTargets ==
  ASSUME NEW s \in DOMAIN StatusMap, NEW t \in StatusMap[s]
  PROVE  t \in Statuses
BY DEF StatusMap, Statuses

LEMMA StatusValues ==
  Statuses = {"planning", "finish_planning", "wait_for_approval", "executing", "timeout",
              "denied", "wait_finish_check", "wait_execute_check", "wait_done_check",
              "finish_check_failed", "execute_check_failed", "done_check_failed",
              "success", "cancel"}
BY DEF StatusMap, Statuses

\* A new status keeps the type of a document.
LEMMA WithStatus ==
  ASSUME NEW d \in Doc, NEW s \in Statuses
  PROVE  LET x == [d EXCEPT !.status = s] IN
         x \in Doc /\ x.status = s /\ x.jobs = d.jobs /\ x.approval = d.approval
BY DEF Doc

LEMMA CheckedDoc ==
  ASSUME NEW d \in Doc, NEW event \in {"finish_planning", "start_execute", "all_job_done"}
  PROVE  LET x == Checked(d, event) IN
         /\ x \in Doc /\ x.jobs = d.jobs /\ x.approval = d.approval
         /\ x.status \in {d.status, WaitStatus[event]}
<1>1. WaitStatus[event] \in Statuses BY StatusValues DEF WaitStatus
<1> QED BY <1>1, WithStatus DEF Checked

\* After setReleaseJobsForExecuting nothing runs or has failed.
LEMMA SetJobsDoc ==
  ASSUME NEW d \in Doc
  PROVE  LET x == SetJobs(d) IN
         /\ x \in Doc /\ x.status = d.status /\ x.approval = d.approval
         /\ ~Started(x)
<1> DEFINE J == [j \in Jobs |-> [d.jobs[j] EXCEPT !.status =
                   IF d.jobs[j].last = "done" /\ ~d.jobs[j].updated THEN "done" ELSE "todo"]]
<1>1. \A j \in Jobs : d.jobs[j] \in JobDoc BY DEF Doc
<1>2. \A j \in Jobs : J[j] \in JobDoc /\ J[j].status \in {"done", "todo"}
  BY <1>1 DEF JobDoc, JobStatuses
<1>3. J \in [Jobs -> JobDoc] BY <1>2
<1>4. SetJobs(d) = [d EXCEPT !.jobs = J] BY DEF SetJobs
<1> HIDE DEF J
<1>5. SetJobs(d) \in Doc /\ SetJobs(d).status = d.status /\ SetJobs(d).approval = d.approval
      /\ SetJobs(d).jobs = J
  BY <1>3, <1>4 DEF Doc
<1>6. ~Started(SetJobs(d)) BY <1>2, <1>5 DEF Started
<1> QED BY <1>5, <1>6

LEMMA CodedDoc ==
  ASSUME NEW d \in Doc
  PROVE  LET x == Coded(d) IN
         x \in Doc /\ x.status = d.status /\ x.jobs = d.jobs /\ x.approval = d.approval
<1>1. [version |-> d.version, approval |-> d.approval, jobs |-> d.jobs] \in Code
  BY DEF Doc, Code
<1> QED BY <1>1 DEF Coded, Doc

LEMMA SetJobDoc ==
  ASSUME NEW d \in Doc, NEW j \in Jobs, NEW s \in JobStatuses, NEW t \in 0..MaxStarts
  PROVE  LET x == SetJob(d, j, s, t) IN
         /\ x \in Doc /\ x.status = d.status /\ x.approval = d.approval
         /\ \A i \in Jobs : x.jobs[i].status = IF i = j THEN s ELSE d.jobs[i].status
<1>1. d.jobs \in [Jobs -> JobDoc] BY DEF Doc
<1> DEFINE J == [d.jobs EXCEPT ![j] = [d.jobs[j] EXCEPT !.status = s, !.task = t]]
<1>2. J \in [Jobs -> JobDoc] BY <1>1 DEF JobDoc
<1>3. \A i \in Jobs : J[i].status = IF i = j THEN s ELSE d.jobs[i].status
  BY <1>1 DEF JobDoc
<1>4. SetJob(d, j, s, t) = [d EXCEPT !.jobs = J] BY <1>1 DEF SetJob, Doc, JobDoc
<1> HIDE DEF J
<1> QED BY <1>2, <1>3, <1>4 DEF Doc

\* checkReleasePlanJobsAllDone may end the plan, and changes nothing else.
LEMMA FinishedDoc ==
  ASSUME NEW d \in Doc
  PROVE  LET x == Finished(d) IN
         /\ x \in Doc /\ x.jobs = d.jobs /\ x.approval = d.approval
         /\ x.status \in {d.status, "success", "wait_done_check"}
<1> DEFINE e == [d EXCEPT !.status = "success"]
<1>1. e \in Doc /\ e.status = "success" /\ e.jobs = d.jobs /\ e.approval = d.approval
  BY WithStatus, StatusValues
<1> HIDE DEF e
<1>2. LET x == Checked(e, "all_job_done") IN
      /\ x \in Doc /\ x.jobs = e.jobs /\ x.approval = e.approval
      /\ x.status \in {e.status, "wait_done_check"}
  BY <1>1, CheckedDoc DEF WaitStatus
<1>3. Finished(d) = IF AllDone(d) THEN Checked(e, "all_job_done") ELSE d BY DEF Finished, e
<1> QED BY <1>1, <1>2, <1>3

LEMMA TodoJob ==
  ASSUME NEW l \in JobStatuses, NEW t \in 0..MaxStarts
  PROVE  LET x == [status |-> "todo", last |-> l, updated |-> FALSE, task |-> t] IN
         x \in JobDoc /\ x.status = "todo"
BY DEF JobDoc, JobStatuses

\* A return to planning leaves nothing started.
LEMMA ReplannedDoc ==
  ASSUME NEW d \in Doc
  PROVE  LET x == Replanned(d) IN
         x \in Doc /\ x.status = "planning" /\ ~Started(x)
<1> DEFINE J == [j \in Jobs |->
                   [status |-> "todo", last |-> d.jobs[j].status, updated |-> FALSE,
                    task |-> d.jobs[j].task]]
           e == [d EXCEPT !.status = "planning", !.jobs = J]
<1>1. \A j \in Jobs : d.jobs[j] \in JobDoc BY DEF Doc
<1>2. \A j \in Jobs : J[j] \in JobDoc /\ J[j].status = "todo"
  <2> SUFFICES ASSUME NEW j \in Jobs PROVE J[j] \in JobDoc /\ J[j].status = "todo"
    OBVIOUS
  <2> DEFINE t == d.jobs[j].task
  <2>1. d.jobs[j].status \in JobStatuses /\ d.jobs[j].task \in 0..MaxStarts
    BY <1>1 DEF JobDoc
  <2>2. t \in 0..MaxStarts BY <2>1
  <2>3. J[j] = [status |-> "todo", last |-> d.jobs[j].status, updated |-> FALSE, task |-> t]
    OBVIOUS
  <2> HIDE DEF t, J
  <2> QED BY <2>1, <2>2, <2>3, TodoJob
<1>3. J \in [Jobs -> JobDoc] BY <1>2
<1> HIDE DEF J
<1>4. e \in Doc /\ e.status = "planning" /\ e.jobs = J
  BY <1>3, StatusValues DEF Doc
<1>5. Replanned(d) = Coded(e) BY DEF Replanned, e, J
<1> HIDE DEF e
<1>6. Replanned(d) \in Doc /\ Replanned(d).status = "planning" /\ Replanned(d).jobs = J
  BY <1>4, <1>5, CodedDoc
<1> QED BY <1>2, <1>6 DEF Started

\* A new version, with its instance code.
LEMMA VersionedDoc ==
  ASSUME NEW d \in Doc
  PROVE  LET x == Coded([d EXCEPT !.version = @ + 1]) IN
         x \in Doc /\ x.status = d.status /\ x.jobs = d.jobs
<1> DEFINE f == [d EXCEPT !.version = @ + 1]
<1>1. f \in Doc /\ f.status = d.status /\ f.jobs = d.jobs
  <2>0. d.version \in Nat BY DEF Doc
  <2>1. d.version + 1 \in Nat BY <2>0
  <2>2. \A v \in Nat : LET x == [d EXCEPT !.version = v] IN
          x \in Doc /\ x.status = d.status /\ x.jobs = d.jobs
    BY DEF Doc
  <2> QED BY <2>1, <2>2, Zenon
<1> HIDE DEF f
<1>2. Coded(f) \in Doc /\ Coded(f).status = f.status /\ Coded(f).jobs = f.jobs
  BY <1>1, CodedDoc
<1>3. Coded([d EXCEPT !.version = @ + 1]) = Coded(f) BY DEF f
<1> QED BY <1>1, <1>2, <1>3

LEMMA TouchedDoc ==
  ASSUME NEW d \in Doc, NEW j \in Jobs
  PROVE  LET x == [d EXCEPT !.jobs[j].updated = TRUE] IN
         /\ x \in Doc /\ x.status = d.status
         /\ \A i \in Jobs : x.jobs[i].status = d.jobs[i].status
<1> DEFINE J == [d.jobs EXCEPT ![j] = [d.jobs[j] EXCEPT !.updated = TRUE]]
<1>1. d.jobs \in [Jobs -> JobDoc] BY DEF Doc
<1>2. J \in [Jobs -> JobDoc] /\ \A i \in Jobs : J[i].status = d.jobs[i].status
  BY <1>1 DEF JobDoc
<1>3. [d EXCEPT !.jobs[j].updated = TRUE] = [d EXCEPT !.jobs = J] BY <1>1 DEF Doc, JobDoc
<1> HIDE DEF J
<1> QED BY <1>2, <1>3 DEF Doc

LEMMA UnapprovedDoc ==
  ASSUME NEW d \in Doc
  PROVE  LET x == [d EXCEPT !.approval = ""] IN
         x \in Doc /\ x.status = d.status /\ x.jobs = d.jobs
BY DEF Doc

\* The documents an edit in planning may save.
LEMMA EditedDoc ==
  ASSUME NEW d \in Doc, ~Started(d),
         NEW e \in {[d EXCEPT !.jobs[j].updated = TRUE] : j \in EditedJobs}
                  \cup {[d EXCEPT !.approval = ""]}
  PROVE  LET x == Coded([e EXCEPT !.version = @ + 1]) IN
         x \in Doc /\ x.status = d.status /\ ~Started(x)
<1>1. \/ \E j \in Jobs : e = [d EXCEPT !.jobs[j].updated = TRUE]
      \/ e = [d EXCEPT !.approval = ""]
  BY PlanJobAssumption, Zenon
<1>2. e \in Doc /\ e.status = d.status /\ \A i \in Jobs : e.jobs[i].status = d.jobs[i].status
  <2>1. ASSUME NEW j \in Jobs, e = [d EXCEPT !.jobs[j].updated = TRUE] 
        PROVE  e \in Doc /\ e.status = d.status /\ \A i \in Jobs : e.jobs[i].status = d.jobs[i].status
    BY <2>1, TouchedDoc, ZenonT(30)
  <2>2. CASE e = [d EXCEPT !.approval = ""] BY <2>2, UnapprovedDoc, Zenon
  <2> QED BY <1>1, <2>1, <2>2, Zenon
<1>3. ~Started(e) BY <1>2 DEF Started
<1> DEFINE x == Coded([e EXCEPT !.version = @ + 1])
<1>4. x \in Doc /\ x.status = e.status /\ x.jobs = e.jobs BY <1>2, VersionedDoc, Zenon
<1> HIDE DEF x
<1>5. x \in Doc /\ x.status = d.status /\ ~Started(x) BY <1>2, <1>3, <1>4 DEF Started
<1> QED BY <1>5, Zenon DEF x

\* What the watcher may save of a plan that executes.
LEMMA WatchedDoc ==
  ASSUME NEW d \in Doc
  PROVE  LET x == Watched(d) IN
         /\ x \in Doc /\ x.approval = d.approval
         /\ x.status \in {d.status, "timeout", "success", "wait_done_check"}
<1> DEFINE J == [j \in Jobs |->
                   IF Ended(d, j)
                   THEN [d.jobs[j] EXCEPT !.status =
                           IF tasks[j][d.jobs[j].task] = "passed" THEN "done" ELSE "failed"]
                   ELSE d.jobs[j]]
           seen == Observed(d)
<1>1. \A j \in Jobs : d.jobs[j] \in JobDoc BY DEF Doc
<1>2. \A j \in Jobs : J[j] \in JobDoc BY <1>1 DEF JobDoc, JobStatuses
<1>3. J \in [Jobs -> JobDoc] BY <1>2
<1>4. seen = [d EXCEPT !.jobs = J] BY DEF Observed
<1> HIDE DEF J
<1>5. seen \in Doc /\ seen.status = d.status /\ seen.approval = d.approval
  BY <1>3, <1>4 DEF Doc
<1> DEFINE success == [seen EXCEPT !.status = "success"]
           late == [seen EXCEPT !.status = "timeout"]
           checked == Checked(success, "all_job_done")
<1>6. Watched(d) \in {seen, late, checked} BY DEF Watched
<1> HIDE DEF seen
<1>7. late \in Doc /\ late.status = "timeout" /\ late.approval = seen.approval
  BY <1>5, WithStatus, StatusValues
<1>8. success \in Doc /\ success.status = "success" /\ success.approval = seen.approval
  BY <1>5, WithStatus, StatusValues
<1> HIDE DEF success, late
<1>9. /\ checked \in Doc /\ checked.approval = success.approval
      /\ checked.status \in {success.status, "wait_done_check"}
  BY <1>8, CheckedDoc DEF WaitStatus
<1> QED BY <1>5, <1>6, <1>7, <1>8, <1>9

-----------------------------------------------------------------------------
(* The invariant is inductive.                                              *)

\* With the approval, a plan that is past it satisfies the invariant of documents.
LEMMA PastApproval ==
  ASSUME NEW d, Approved(d), d.status \notin Early
  PROVE  DocInv(d)
BY DEF DocInv

\* So does one in which nothing has started, unless it executes without approval.
LEMMA NotStarted ==
  ASSUME NEW d, ~Started(d), d.status = "executing" => Approved(d)
  PROVE  DocInv(d)
BY DEF DocInv

LEMMA ApprovedSame ==
  ASSUME NEW d, NEW e, e.approval = d.approval
  PROVE  Approved(e) <=> Approved(d)
BY DEF Approved

\* A handler that takes up a good document keeps the invariant.
LEMMA TakeKeeps ==
  ASSUME IInv, NEW h \in Handlers, NEW r \in ReqDoc, r.pc # "idle", r.doc \in Doc, DocInv(r.doc),
         r.pc \in {"schedule", "scheduled"} => r.doc.status = "executing",
         Take(h, r), cron' \in BOOLEAN, tasks' \in TaskTable, granted' \in BOOLEAN,
         starts' \in 0..MaxStarts, returns' \in 0..MaxReturns
  PROVE  IInv'
<1>1. req' = [req EXCEPT ![h] = r] /\ UNCHANGED <<plan, cb, hooks, clock, failures, passed>>
  BY DEF Take
<1>2. lock' \in Handlers \cup {None} BY DEF Take, IInv, TypeOK
<1>3. req \in [Handlers -> ReqDoc] BY DEF IInv, TypeOK
<1>4. req' \in [Handlers -> ReqDoc] BY <1>1, <1>3
<1>5. \A x \in Handlers : req'[x] = req[x] \/ req'[x] = r BY <1>1, <1>3
<1>6. TypeOK'
  <2>1. \A x \in Handlers : req'[x].pc # "idle" => req'[x].doc \in Doc
    BY <1>5 DEF IInv, TypeOK
  <2> QED BY <1>1, <1>2, <1>4, <2>1 DEF IInv, TypeOK
<1>7. DocInv(plan') /\ (cb' # None => DocInv(cb')) BY <1>1 DEF IInv
<1>8. \A x \in Handlers :
        /\ req'[x].pc # "idle" => DocInv(req'[x].doc)
        /\ req'[x].pc \in {"schedule", "scheduled"} => req'[x].doc.status = "executing"
  BY <1>5 DEF IInv
<1> QED BY <1>6, <1>7, <1>8 DEF IInv

LEMMA RequestKeeps ==
  ASSUME IInv, NEW h \in Handlers, NEW d \in Doc,
         NEW then \in SUBSET {"cron", "hook", "anyway"}, DocInv(d), Request(h, d, then),
         cron' \in BOOLEAN, tasks' \in TaskTable, granted' \in BOOLEAN,
         starts' \in 0..MaxStarts, returns' \in 0..MaxReturns
  PROVE  IInv'
<1> DEFINE r == [pc |-> "save", doc |-> d, then |-> then, left |-> {}, found |-> {}]
<1>1. r \in ReqDoc BY DEF ReqDoc
<1>2. r.pc = "save" /\ r.doc = d OBVIOUS
<1>3. Take(h, r) BY DEF Request
<1> HIDE DEF r
<1> QED BY <1>1, <1>2, <1>3, TakeKeeps

\* What the invariant says of the variables that requests write themselves.
LEMMA Facts ==
  ASSUME IInv
  PROVE  /\ plan \in Doc /\ DocInv(plan)
         /\ cron \in BOOLEAN /\ granted \in BOOLEAN
         /\ starts \in 0..MaxStarts /\ returns \in 0..MaxReturns
         /\ tasks \in TaskTable
BY DEF IInv, TypeOK

LEMMA EditKeeps ==
  ASSUME IInv, NEW h \in Handlers, UpdateReleasePlan(h)
  PROVE  IInv'
<1>1. plan.status = "planning" /\ ~Started(plan)
  BY Facts DEF UpdateReleasePlan, DocInv, Early
<1>2. PICK e \in {[plan EXCEPT !.jobs[j].updated = TRUE] : j \in EditedJobs}
                  \cup {[plan EXCEPT !.approval = ""]} :
        Request(h, Coded([e EXCEPT !.version = @ + 1]), {})
  BY Zenon DEF UpdateReleasePlan
<1> DEFINE x == Coded([e EXCEPT !.version = @ + 1])
<1>3. x \in Doc /\ x.status = plan.status /\ ~Started(x)
  BY <1>1, Facts, EditedDoc, Zenon
<1>4. Request(h, x, {}) BY <1>2
<1>5. UNCHANGED <<cron, tasks, starts, returns, granted>> BY DEF UpdateReleasePlan
<1> HIDE DEF x
<1>6. DocInv(x) BY <1>1, <1>3, NotStarted
<1> QED BY <1>3, <1>4, <1>5, <1>6, Facts, RequestKeeps

LEMMA ReplanKeeps ==
  ASSUME IInv, NEW h \in Handlers, BackToPlanning(h)
  PROVE  IInv'
<1> DEFINE x == Replanned(plan)
           r == [pc |-> "save", doc |-> x, then |-> {"cron"},
                 left |-> {j \in WorkflowJobs : plan.jobs[j].task # 0}, found |-> {}]
<1>1. x \in Doc /\ x.status = "planning" /\ ~Started(x) BY Facts, ReplannedDoc
<1>2. /\ Take(h, r) /\ UNCHANGED <<cron, tasks, starts, granted>>
      /\ returns' = returns + 1 /\ returns < MaxReturns
  BY DEF BackToPlanning
<1> HIDE DEF x
<1>3. DocInv(x) BY <1>1, NotStarted
<1>4. r \in ReqDoc BY <1>1 DEF ReqDoc
<1>5. r.pc = "save" /\ r.doc = x OBVIOUS
<1>6. returns' \in 0..MaxReturns BY <1>2, Facts, PlanBoundAssumption
<1> HIDE DEF r
<1> QED BY <1>1, <1>2, <1>3, <1>4, <1>5, <1>6, Facts, TakeKeeps

\* The document a request for a new status saves.
LEMMA TargetKeeps ==
  ASSUME plan \in Doc, DocInv(plan), NEW target, target # "planning", MayBecome(target),
         NEW x \in TargetDoc(target)
  PROVE  x \in Doc /\ DocInv(x)
<1>1. target \in Statuses /\ (target \in Early => plan.status \in Early)
  BY MapTargets, EarlyTargets DEF MayBecome
<1> DEFINE p == [plan EXCEPT !.status = target]
<1>2. p \in Doc /\ p.status = target /\ p.jobs = plan.jobs /\ p.approval = plan.approval
  BY <1>1, WithStatus
<1>3. p = [plan EXCEPT !.status = target] OBVIOUS
<1> HIDE DEF p
<1>4. CASE target = "finish_planning"
  <2>1. x = Checked(p, "finish_planning") BY <1>3, <1>4 DEF TargetDoc
  <2>2. x \in Doc /\ x.jobs = plan.jobs /\ x.status \in {target, "wait_finish_check"}
    BY <1>2, <2>1, CheckedDoc DEF WaitStatus
  <2>3. ~Started(x) BY <1>1, <1>4, <2>2 DEF DocInv, Early, Started
  <2> QED BY <1>4, <2>2, <2>3, NotStarted
<1>5. CASE target = "executing"
  <2> DEFINE c == Checked(p, "start_execute")
  <2>1. x = SetJobs(c) /\ Approved(plan) BY <1>3, <1>5 DEF TargetDoc
  <2>2. c \in Doc /\ c.approval = plan.approval BY <1>2, CheckedDoc
  <2> HIDE DEF c
  <2>3. x \in Doc /\ x.approval = plan.approval /\ ~Started(x) BY <2>1, <2>2, SetJobsDoc
  <2> QED BY <2>1, <2>3, NotStarted, ApprovedSame
<1>6. CASE target = "wait_for_approval"
  <2>1. x = [plan EXCEPT !.status = target, !.approval = ""] BY <1>6 DEF TargetDoc
  <2>2. x \in Doc /\ x.jobs = plan.jobs /\ x.status = target BY <1>1, <2>1 DEF Doc
  <2>3. ~Started(x) BY <1>1, <1>6, <2>2 DEF DocInv, Early, Started
  <2> QED BY <1>6, <2>2, <2>3, NotStarted
<1>7. CASE target \notin {"finish_planning", "executing", "wait_for_approval"}
  <2>1. x = p BY <1>3, <1>7 DEF TargetDoc
  <2>2. Started(x) => Started(plan) BY <1>2, <2>1 DEF Started
  <2>3. Approved(x) <=> Approved(plan) BY <1>2, <2>1, ApprovedSame
  <2> QED BY <1>1, <1>2, <1>7, <2>1, <2>2, <2>3 DEF DocInv
<1> QED BY <1>4, <1>5, <1>6, <1>7

LEMMA StatusKeeps ==
  ASSUME IInv, NEW h \in Handlers, NEW target \in Statuses, UpdateReleasePlanStatus(h, target)
  PROVE  IInv'
<1> DEFINE then == IF target \in {"finish_planning", "executing"} THEN {"cron", "hook"}
                                                                 ELSE {"cron"}
<1>1. PICK x \in TargetDoc(target) : Request(h, x, then) BY DEF UpdateReleasePlanStatus
<1>2. then \in SUBSET {"cron", "hook", "anyway"} OBVIOUS
<1>3. target # "planning" /\ MayBecome(target) /\ UNCHANGED <<cron, tasks, starts, returns, granted>>
  BY PlanRequestAssumption DEF UpdateReleasePlanStatus
<1>4. x \in Doc /\ DocInv(x) BY <1>3, Facts, TargetKeeps
<1> HIDE DEF then
<1> QED BY <1>1, <1>2, <1>3, <1>4, Facts, RequestKeeps

LEMMA ApproveKeeps ==
  ASSUME IInv, NEW h \in Handlers, NEW verdict \in {"passed", "reject"},
         ApproveReleasePlan(h, verdict)
  PROVE  IInv'
<1> DEFINE d == [plan EXCEPT !.approval = verdict]
           e == [d EXCEPT !.status = "executing"]
           c == Checked(e, "start_execute")
           n == [d EXCEPT !.status = "denied"]
           x == IF verdict = "passed" THEN SetJobs(c) ELSE n
<1>1. Request(h, x, {"hook"}) /\ UNCHANGED <<tasks, starts, returns>>
  BY DEF ApproveReleasePlan
<1>2. cron' \in BOOLEAN /\ granted' \in BOOLEAN
  BY Facts, PlanModeAssumption DEF ApproveReleasePlan
<1>3. ~Started(plan) BY Facts DEF ApproveReleasePlan, DocInv, Early
<1>4. d \in Doc /\ d.approval = verdict /\ d.jobs = plan.jobs BY Facts DEF Doc
<1> HIDE DEF d
<1>5. e \in Doc /\ e.approval = verdict BY <1>4, WithStatus, StatusValues
<1>6. n \in Doc /\ n.status = "denied" /\ n.jobs = plan.jobs
  BY <1>4, WithStatus, StatusValues
<1> HIDE DEF e, n
<1>7. c \in Doc /\ c.approval = verdict BY <1>5, CheckedDoc
<1> HIDE DEF c
<1>8. CASE verdict = "passed"
  <2>1. x \in Doc /\ x.approval = "passed" /\ ~Started(x) BY <1>7, <1>8, SetJobsDoc
  <2>2. DocInv(x) BY <2>1, NotStarted DEF Approved
  <2> HIDE DEF x
  <2> QED BY <1>1, <1>2, <2>1, <2>2, Facts, RequestKeeps
<1>9. CASE verdict # "passed"
  <2>1. x = n BY <1>9
  <2>2. ~Started(x) BY <1>3, <1>6, <2>1 DEF Started
  <2>3. DocInv(x) BY <1>6, <2>1, <2>2, NotStarted
  <2> HIDE DEF x
  <2> QED BY <1>1, <1>2, <1>6, <2>1, <2>3, Facts, RequestKeeps
<1> QED BY <1>8, <1>9

\* A workflow task that starts keeps the types of the tasks and their number.
LEMMA TaskTypes ==
  ASSUME NEW j, CreateTask(j),
         starts \in 0..MaxStarts,
         tasks \in TaskTable
  PROVE  /\ starts' \in 0..MaxStarts /\ starts + 1 \in 0..MaxStarts
         /\ tasks' \in TaskTable
<1>1. /\ starts < MaxStarts /\ starts' = starts + 1
      /\ tasks' = [tasks EXCEPT ![j][starts + 1] = "running"]
  BY DEF CreateTask
<1>2. starts' \in 0..MaxStarts /\ starts + 1 \in 0..MaxStarts BY <1>1, PlanBoundAssumption
<1>3. tasks' \in TaskTable BY <1>1 DEF TaskTable
<1> QED BY <1>2, <1>3

LEMMA ExecuteKeeps ==
  ASSUME IInv, NEW h \in Handlers, NEW j \in Jobs, ExecuteReleaseJob(h, j)
  PROVE  IInv'
<1>1. plan.status = "executing" /\ UNCHANGED <<cron, returns, granted>> BY DEF ExecuteReleaseJob
<1>2. Approved(plan) BY <1>1, Facts DEF DocInv
<1>3. CASE /\ Request(h, Finished(SetJob(plan, j, "done", 0)), {"hook"})
           /\ UNCHANGED <<tasks, starts>>
  <2> DEFINE e == SetJob(plan, j, "done", 0)
             x == Finished(e)
  <2>1. 0 \in 0..MaxStarts /\ "done" \in JobStatuses BY PlanBoundAssumption DEF JobStatuses
  <2>2. e \in Doc /\ e.status = plan.status /\ e.approval = plan.approval
    BY <2>1, Facts, SetJobDoc
  <2> HIDE DEF e
  <2>3. /\ x \in Doc /\ x.approval = plan.approval
        /\ x.status \in {plan.status, "success", "wait_done_check"}
    BY <2>2, FinishedDoc
  <2>4. Request(h, x, {"hook"}) /\ UNCHANGED <<tasks, starts>> BY <1>3 DEF e
  <2> HIDE DEF x
  <2>5. Approved(x) BY <1>2, <2>3, ApprovedSame
  <2>6. DocInv(x) BY <1>1, <2>3, <2>5, PastApproval DEF Early
  <2> QED BY <1>1, <2>3, <2>4, <2>6, Facts, RequestKeeps
<1>4. CASE CreateTask(j) /\ Request(h, SetJob(plan, j, "running", starts + 1), {})
  <2> DEFINE x == SetJob(plan, j, "running", starts + 1)
  <2>1. /\ starts' \in 0..MaxStarts /\ starts + 1 \in 0..MaxStarts
        /\ tasks' \in TaskTable
    BY <1>4, Facts, TaskTypes
  <2>2. "running" \in JobStatuses BY DEF JobStatuses
  <2>3. x \in Doc /\ x.status = plan.status /\ x.approval = plan.approval
    BY <2>1, <2>2, Facts, SetJobDoc
  <2>4. Request(h, x, {}) BY <1>4
  <2> HIDE DEF x
  <2>5. Approved(x) BY <1>2, <2>3, ApprovedSame
  <2>6. DocInv(x) BY <1>1, <2>3, <2>5, PastApproval DEF Early
  <2> QED BY <1>1, <2>1, <2>3, <2>4, <2>6, Facts, RequestKeeps
<1> QED BY <1>3, <1>4 DEF ExecuteReleaseJob

LEMMA RetryKeeps ==
  ASSUME IInv, NEW h \in Handlers, NEW j \in Jobs, RetryReleaseJob(h, j)
  PROVE  IInv'
<1> DEFINE e == SetJob(plan, j, "running", plan.jobs[j].task)
           x == [e EXCEPT !.status = "executing"]
<1>1. Request(h, x, {}) /\ UNCHANGED <<cron, returns, granted>> BY DEF RetryReleaseJob
<1>2. /\ starts < MaxStarts /\ starts' = starts + 1
      /\ tasks' = [tasks EXCEPT ![j][plan.jobs[j].task] = "running"]
      /\ plan.jobs[j].status = "failed"
  BY DEF RetryReleaseJob
<1>3. starts' \in 0..MaxStarts BY <1>2, Facts, PlanBoundAssumption
<1>4. tasks' \in TaskTable BY <1>2, Facts DEF TaskTable
<1>5. Approved(plan) BY <1>2, Facts DEF DocInv, Started
<1>6. plan.jobs[j].task \in 0..MaxStarts /\ "running" \in JobStatuses
  BY Facts DEF Doc, JobDoc, JobStatuses
<1>7. e \in Doc /\ e.approval = plan.approval BY <1>6, Facts, SetJobDoc
<1> HIDE DEF e
<1>8. x \in Doc /\ x.approval = plan.approval /\ x.status = "executing"
  BY <1>7, WithStatus, StatusValues, ZenonT(30)
<1> HIDE DEF x
<1>9. Approved(x) BY <1>5, <1>8, ApprovedSame
<1>10. DocInv(x) BY <1>8, <1>9, PastApproval DEF Early
<1> QED BY <1>1, <1>3, <1>4, <1>8, <1>10, Facts, RequestKeeps

LEMMA MissedKeeps ==
  ASSUME IInv, NEW h \in Handlers, ReleaseWindowMissed(h)
  PROVE  IInv'
<1> DEFINE x == [plan EXCEPT !.status = "timeout"]
<1>1. Request(h, x, {}) /\ UNCHANGED <<cron, tasks, starts, returns, granted>>
  BY DEF ReleaseWindowMissed
<1>2. x \in Doc /\ x.status = "timeout" /\ x.jobs = plan.jobs /\ x.approval = plan.approval
  BY Facts, WithStatus, StatusValues
<1> HIDE DEF x
<1>3. Approved(x) <=> Approved(plan) BY <1>2, ApprovedSame
<1>4. DocInv(x) BY <1>2, <1>3, Facts DEF DocInv, Started, Early
<1> QED BY <1>1, <1>2, <1>4, Facts, RequestKeeps

LEMMA SkippedDoc ==
  ASSUME NEW d \in Doc, NEW j \in Jobs
  PROVE  LET x == [d EXCEPT !.jobs[j].status = "skipped"] IN
         x \in Doc /\ x.status = d.status /\ x.approval = d.approval
<1> DEFINE J == [d.jobs EXCEPT ![j] = [d.jobs[j] EXCEPT !.status = "skipped"]]
<1>1. d.jobs \in [Jobs -> JobDoc] BY DEF Doc
<1>2. J \in [Jobs -> JobDoc] BY <1>1 DEF JobDoc, JobStatuses
<1>3. [d EXCEPT !.jobs[j].status = "skipped"] = [d EXCEPT !.jobs = J] BY <1>1 DEF Doc, JobDoc
<1> HIDE DEF J
<1> QED BY <1>2, <1>3 DEF Doc

LEMMA SkipKeeps ==
  ASSUME IInv, NEW h \in Handlers, NEW j \in Jobs, SkipReleaseJob(h, j)
  PROVE  IInv'
<1> DEFINE e == [plan EXCEPT !.jobs[j].status = "skipped"]
           x == Finished(e)
<1>1. Request(h, x, {"hook"}) /\ UNCHANGED <<cron, tasks, starts, returns, granted>>
  BY DEF SkipReleaseJob
<1>2. plan.status = "executing" BY DEF SkipReleaseJob
<1>3. e \in Doc /\ e.status = plan.status /\ e.approval = plan.approval
  BY Facts, SkippedDoc
<1> HIDE DEF e
<1>4. /\ x \in Doc /\ x.approval = plan.approval
      /\ x.status \in {plan.status, "success", "wait_done_check"}
  BY <1>3, FinishedDoc
<1> HIDE DEF x
<1>5. Approved(x) BY <1>2, <1>4, Facts, ApprovedSame DEF DocInv
<1>6. DocInv(x) BY <1>2, <1>4, <1>5, PastApproval DEF Early
<1> QED BY <1>1, <1>4, <1>6, Facts, RequestKeeps

LEMMA WatchKeeps ==
  ASSUME IInv, NEW h \in Handlers, WatchExecutingWorkflow(h)
  PROVE  IInv'
<1> DEFINE x == Watched(plan)
<1>1. Request(h, x, {"hook", "anyway"}) /\ UNCHANGED <<cron, tasks, starts, returns, granted>>
      /\ plan.status = "executing"
  BY DEF WatchExecutingWorkflow
<1>2. /\ x \in Doc /\ x.approval = plan.approval
      /\ x.status \in {plan.status, "timeout", "success", "wait_done_check"}
  BY Facts, WatchedDoc
<1> HIDE DEF x
<1>3. Approved(x) BY <1>1, <1>2, Facts, ApprovedSame DEF DocInv
<1>4. DocInv(x) BY <1>1, <1>2, <1>3, PastApproval DEF Early
<1> QED BY <1>1, <1>2, <1>4, Facts, RequestKeeps

\* Steps of a request under way: it goes on with the record r, or is over.
LEMMA StepKeeps ==
  ASSUME IInv, NEW h \in Handlers,
         NEW r \in ReqDoc,
         req' = [req EXCEPT ![h] = r],
         r.pc # "idle" => r.doc \in Doc /\ DocInv(r.doc),
         r.pc \in {"schedule", "scheduled"} => r.doc.status = "executing",
         plan' \in Doc, DocInv(plan'), cron' \in BOOLEAN,
         hooks' \subseteq [code : Code, event : Events],
         tasks' \in TaskTable,
         starts' \in 0..MaxStarts, failures' \in 0..MaxFailures,
         lock' \in Handlers \cup {None}, UNCHANGED <<cb, clock, returns, granted, passed>>
  PROVE  IInv'
<1>1. req \in [Handlers -> ReqDoc] BY DEF IInv, TypeOK
<1>2. req' \in [Handlers -> ReqDoc] BY <1>1
<1>3. \A x \in Handlers : req'[x] = r \/ req'[x] = req[x] BY <1>1
<1>4. TypeOK'
  <2>1. \A x \in Handlers : req'[x].pc # "idle" => req'[x].doc \in Doc
    BY <1>3 DEF IInv, TypeOK
  <2> QED BY <1>2, <2>1 DEF IInv, TypeOK
<1>5. cb' # None => DocInv(cb') BY DEF IInv
<1>6. \A x \in Handlers :
        /\ req'[x].pc # "idle" => DocInv(req'[x].doc)
        /\ req'[x].pc \in {"schedule", "scheduled"} => req'[x].doc.status = "executing"
  BY <1>3 DEF IInv
<1> QED BY <1>4, <1>5, <1>6 DEF IInv

LEMMA IdleRecord ==
  /\ IdleReq \in ReqDoc
  /\ IdleReq.pc = "idle"
BY DEF IdleReq, ReqDoc

LEMMA MoreFacts ==
  ASSUME IInv, NEW h \in Handlers
  PROVE  /\ hooks \subseteq [code : Code, event : Events]
         /\ failures \in 0..MaxFailures /\ lock \in Handlers \cup {None}
         /\ req \in [Handlers -> ReqDoc]
         /\ req[h].pc # "idle" => req[h].doc \in Doc /\ DocInv(req[h].doc)
         /\ req[h].pc \in {"schedule", "scheduled"} => req[h].doc.status = "executing"
BY DEF IInv, TypeOK

LEMMA ScheduleExecuteKeeps ==
  ASSUME IInv, NEW h \in Handlers, ScheduleExecute(h)
  PROVE  IInv'
<1> DEFINE r == [pc |-> "schedule", doc |-> plan, then |-> {}, left |-> {}, found |-> {}]
<1>1. cron' = FALSE /\ UNCHANGED <<tasks, starts, returns, granted>> BY DEF ScheduleExecute
<1>2. CASE UNCHANGED <<plan, lock, req, cb, hooks, clock, failures, passed>>
  BY <1>1, <1>2 DEF IInv, TypeOK
<1>3. CASE plan.status = "executing" /\ Take(h, r)
  <2>1. r \in ReqDoc BY Facts DEF ReqDoc
  <2>2. r.doc = plan /\ r.pc = "schedule" OBVIOUS
  <2> HIDE DEF r
  <2> QED BY <1>1, <1>3, <2>1, <2>2, Facts, TakeKeeps
<1> QED BY <1>2, <1>3 DEF ScheduleExecute

LEMMA UnlockRecord ==
  ASSUME IInv, NEW h \in Handlers, Unlock(h)
  PROVE  lock' \in Handlers \cup {None} /\ req' = [req EXCEPT ![h] = IdleReq]
BY MoreFacts DEF Unlock

LEMMA ScheduleJobKeeps ==
  ASSUME IInv, NEW h \in Handlers, ScheduleJob(h)
  PROVE  IInv'
<1>1. req[h].pc = "schedule" /\ UNCHANGED <<plan, cron, cb, hooks, clock, returns, failures, granted, passed>>
  BY DEF ScheduleJob
<1>2. CASE Unlock(h) /\ UNCHANGED <<tasks, starts>>
  BY <1>1, <1>2, UnlockRecord, IdleRecord, Facts, MoreFacts, StepKeeps
<1>3. ASSUME NEW j \in ToSchedule(req[h].doc), CreateTask(j), UNCHANGED lock,
             req' = [req EXCEPT ![h].pc = "scheduled",
                                ![h].doc = SetJob(@, j, "running", starts + 1)]
      PROVE  IInv'
  <2> DEFINE d == req[h].doc
             x == SetJob(d, j, "running", starts + 1)
             r == [req[h] EXCEPT !.pc = "scheduled", !.doc = x]
  <2>1. d \in Doc /\ DocInv(d) /\ d.status = "executing" BY <1>1, MoreFacts
  <2>2. /\ starts' \in 0..MaxStarts /\ starts + 1 \in 0..MaxStarts
        /\ tasks' \in TaskTable
    BY <1>3, Facts, TaskTypes
  <2>3. j \in Jobs /\ "running" \in JobStatuses
    BY <1>3 DEF ToSchedule, WorkflowJobs, JobStatuses
  <2>4. req[h] \in ReqDoc
    BY MoreFacts
  <2>5. req' = [req EXCEPT ![h] = r] /\ UNCHANGED lock BY <1>3, MoreFacts
  <2> HIDE DEF d
  <2>6. x \in Doc /\ x.status = d.status /\ x.approval = d.approval
    BY <2>1, <2>2, <2>3, SetJobDoc
  <2> HIDE DEF x
  <2>7. Approved(x) BY <2>1, <2>6, ApprovedSame DEF DocInv
  <2>8. DocInv(x) BY <2>1, <2>6, <2>7, PastApproval DEF Early
  <2>9. /\ r.doc = x /\ r.pc = "scheduled"
        /\ r \in ReqDoc
    BY <2>4, <2>6 DEF ReqDoc
  <2> HIDE DEF r
  <2> QED BY <1>1, <2>1, <2>2, <2>5, <2>6, <2>8, <2>9, Facts, MoreFacts, StepKeeps
<1> QED BY <1>2, <1>3, Zenon DEF ScheduleJob

LEMMA HookType ==
  ASSUME NEW d \in Doc
  PROVE  Hook(d) \subseteq [code : Code, event : Events]
<1>1. d.code \in Code BY DEF Doc
<1> QED BY <1>1 DEF Hook

\* The return to planning goes through the tasks of its jobs.
LEMMA FindKeeps ==
  ASSUME IInv, NEW h \in Handlers, FindTask(h)
  PROVE  IInv'
<1>1. /\ req[h].pc = "save"
      /\ UNCHANGED <<plan, cron, tasks, lock, cb, hooks, clock, starts, returns, failures, granted, passed>>
  BY DEF FindTask
<1>2. PICK j \in req[h].left : \E F \in {{}, {j}} :
        req' = [req EXCEPT ![h].left = @ \ {j}, ![h].found = F]
  BY DEF FindTask
<1>3. PICK F \in {{}, {j}} : req' = [req EXCEPT ![h].left = @ \ {j}, ![h].found = F] BY <1>2
<1> DEFINE r == [req[h] EXCEPT !.left = @ \ {j}, !.found = F]
<1>4. req[h] \in ReqDoc BY MoreFacts
<1>5. F \in SUBSET WorkflowJobs BY <1>4 DEF ReqDoc
<1>6. r \in ReqDoc /\ r.pc = "save" /\ r.doc = req[h].doc BY <1>1, <1>4, <1>5 DEF ReqDoc
<1>7. req' = [req EXCEPT ![h] = r] BY <1>3, MoreFacts
<1> HIDE DEF r
<1> QED BY <1>1, <1>6, <1>7, Facts, MoreFacts, StepKeeps

LEMMA CancelKeeps ==
  ASSUME IInv, NEW h \in Handlers, CancelTask(h)
  PROVE  IInv'
<1> DEFINE d == req[h].doc
<1>1. /\ req[h].pc = "save"
      /\ UNCHANGED <<plan, cron, lock, cb, hooks, clock, starts, returns, failures, granted, passed>>
  BY DEF CancelTask
<1>2. PICK j \in req[h].found :
        /\ tasks' = [tasks EXCEPT ![j][d.jobs[j].task] =
                       IF @ \in {"running", "revoked"} THEN "revoked" ELSE "failed"]
        /\ req' = [req EXCEPT ![h].doc = Coded(SetJob(@, j, "todo", 0)), ![h].found = {}]
  BY DEF CancelTask
<1>3. tasks' \in TaskTable BY <1>2, Facts DEF TaskTable
<1>4. req[h] \in ReqDoc BY MoreFacts
<1>5. d \in Doc /\ DocInv(d) BY <1>1, MoreFacts
<1>6. j \in Jobs /\ "todo" \in JobStatuses /\ 0 \in 0..MaxStarts
  BY <1>2, <1>4, PlanBoundAssumption DEF ReqDoc, WorkflowJobs, JobStatuses
<1> DEFINE e == SetJob(d, j, "todo", 0)
           x == Coded(e)
           r == [req[h] EXCEPT !.doc = x, !.found = {}]
<1>7. req' = [req EXCEPT ![h] = r] BY <1>2, MoreFacts
<1> HIDE DEF d
<1>8. /\ e \in Doc /\ e.status = d.status /\ e.approval = d.approval
      /\ \A i \in Jobs : e.jobs[i].status = IF i = j THEN "todo" ELSE d.jobs[i].status
  BY <1>5, <1>6, SetJobDoc
<1> HIDE DEF e
<1>9. x \in Doc /\ x.status = d.status /\ x.jobs = e.jobs /\ x.approval = d.approval
  BY <1>8, CodedDoc
<1> HIDE DEF x
<1>10. Started(x) => Started(d) BY <1>8, <1>9 DEF Started
<1>11. DocInv(x) BY <1>5, <1>9, <1>10, ApprovedSame DEF DocInv
<1>12. r \in ReqDoc /\ r.pc = "save" /\ r.doc = x BY <1>1, <1>4, <1>9 DEF ReqDoc
<1> HIDE DEF r
<1> QED BY <1>1, <1>3, <1>7, <1>9, <1>11, <1>12, Facts, MoreFacts, StepKeeps

LEMMA RefusedKeeps ==
  ASSUME IInv, NEW h \in Handlers, CancelRefused(h)
  PROVE  IInv'
<1>1. /\ Unlock(h)
      /\ UNCHANGED <<plan, cron, tasks, cb, hooks, clock, starts, returns, failures, granted, passed>>
  BY DEF CancelRefused
<1> QED BY <1>1, UnlockRecord, IdleRecord, Facts, MoreFacts, StepKeeps

LEMMA SaveKeeps ==
  ASSUME IInv, NEW h \in Handlers, Save(h)
  PROVE  IInv'
<1> DEFINE d == req[h].doc
<1>1. /\ req[h].pc \in {"save", "scheduled"} /\ plan' = d
      /\ UNCHANGED <<tasks, cb, clock, starts, returns, failures, granted, passed>>
  BY DEF Save
<1>2. d \in Doc /\ DocInv(d) BY <1>1, MoreFacts
<1>3. cron' \in BOOLEAN
  <2>1. Cron(d) \in BOOLEAN BY DEF Cron
  <2>2. cron' = Cron(d) \/ cron' = cron BY DEF Save
  <2> QED BY <2>1, <2>2, Facts
<1>4. hooks' \subseteq [code : Code, event : Events]
  <2>2. Hook(d) \subseteq [code : Code, event : Events] BY <1>2, HookType
  <2>3. hooks' = hooks \cup Hook(d) \/ hooks' = hooks BY DEF Save
  <2> QED BY <2>2, <2>3, MoreFacts
<1>5. CASE Unlock(h)
  BY <1>1, <1>2, <1>3, <1>4, <1>5, UnlockRecord, IdleRecord, Facts, MoreFacts, StepKeeps
<1>6. CASE req[h].pc # "save" /\ req' = [req EXCEPT ![h].pc = "schedule"] /\ UNCHANGED lock
  <2> DEFINE r == [req[h] EXCEPT !.pc = "schedule"]
  <2>1. req[h] \in ReqDoc
    BY MoreFacts
  <2>2. /\ r.doc = d /\ r.pc = "schedule"
        /\ r \in ReqDoc
    BY <2>1 DEF ReqDoc
  <2>3. req' = [req EXCEPT ![h] = r] BY <1>6, MoreFacts
  <2>4. d.status = "executing" BY <1>1, <1>6, MoreFacts
  <2> HIDE DEF r, d
  <2> QED BY <1>1, <1>2, <1>3, <1>4, <1>6, <2>2, <2>3, <2>4, Facts, MoreFacts, StepKeeps
<1> QED BY <1>5, <1>6 DEF Save

LEMMA FailKeeps ==
  ASSUME IInv, NEW h \in Handlers, SaveFails(h)
  PROVE  IInv'
<1>1. /\ failures < MaxFailures /\ failures' = failures + 1
      /\ UNCHANGED <<plan, cron, tasks, cb, clock, starts, returns, granted, passed>>
      /\ req[h].pc # "idle"
  BY DEF SaveFails
<1>2. failures' \in 0..MaxFailures BY <1>1, MoreFacts, PlanBoundAssumption
<1>3. lock' \in Handlers \cup {None} /\ req' = [req EXCEPT ![h] = IdleReq]
  BY UnlockRecord, MoreFacts DEF SaveFails
<1>4. hooks' = hooks \cup Hook(req[h].doc) \/ hooks' = hooks BY DEF SaveFails
<1>5. hooks' \subseteq [code : Code, event : Events] BY <1>1, <1>4, MoreFacts, HookType
<1> QED BY <1>1, <1>2, <1>3, <1>5, IdleRecord, Facts, MoreFacts, StepKeeps

\* The document a callback saves.
LEMMA CallbackKeeps ==
  ASSUME plan \in Doc, DocInv(plan),
         NEW event \in {"finish_planning", "start_execute", "all_job_done"},
         plan.status = WaitStatus[event],
         NEW result \in {"success", "failed", "executing"},
         NEW x \in CallbackDoc(plan, event, result)
  PROVE  x \in Doc /\ DocInv(x)
<1> DEFINE e == [plan EXCEPT !.status = "executing"]
           f == [plan EXCEPT !.status = "finish_planning"]
           s == [plan EXCEPT !.status = "success"]
           n == [plan EXCEPT !.status = FailedStatus[event]]
<1>1. /\ e \in Doc /\ e.approval = plan.approval
      /\ f \in Doc /\ f.status = "finish_planning" /\ f.jobs = plan.jobs
      /\ s \in Doc /\ s.status = "success" /\ s.jobs = plan.jobs /\ s.approval = plan.approval
  BY WithStatus, StatusValues
<1>2. FailedStatus[event] \in Statuses BY StatusValues DEF FailedStatus
<1>3. /\ n \in Doc /\ n.status = FailedStatus[event] /\ n.jobs = plan.jobs
      /\ n.approval = plan.approval
  BY <1>2, WithStatus
<1>4. \/ result = "success" /\ x \in NextDoc(plan, event)
      \/ result = "failed" /\ x = n
      \/ x = plan
  BY DEF CallbackDoc
<1>5. ASSUME x \in NextDoc(plan, event)
      PROVE  \/ event = "finish_planning" /\ x = f
             \/ event = "finish_planning" /\ ~ApprovalEnabled /\ x = SetJobs(e)
             \/ Approved(plan) /\ x = SetJobs(e)
             \/ event = "all_job_done" /\ x = s
  BY <1>5, PlanModeAssumption DEF NextDoc
<1>6. event = "finish_planning" => ~Started(plan) BY DEF DocInv, WaitStatus, Early
<1> HIDE DEF e, f, s, n
<1>7. CASE event = "finish_planning" /\ x = f
  BY <1>1, <1>6, <1>7, NotStarted DEF Started
<1>8. CASE x = SetJobs(e) /\ (~ApprovalEnabled \/ Approved(plan))
  <2>1. x \in Doc /\ x.approval = plan.approval /\ ~Started(x) BY <1>1, <1>8, SetJobsDoc
  <2>2. Approved(x) BY <1>8, <2>1 DEF Approved
  <2> QED BY <2>1, <2>2, NotStarted
<1>9. CASE event = "all_job_done" /\ x = s
  BY <1>1, <1>9 DEF DocInv, Started, Approved, Early
<1>10. CASE x = n
  <2>1. (Started(x) <=> Started(plan)) /\ (Approved(x) <=> Approved(plan))
    BY <1>3, <1>10 DEF Started, Approved
  <2>2. x.status # "executing" /\ (x.status \in Early => event = "finish_planning")
    BY <1>3, <1>10 DEF FailedStatus, Early
  <2> QED BY <1>3, <1>6, <1>10, <2>1, <2>2 DEF DocInv
<1> QED BY <1>4, <1>5, <1>7, <1>8, <1>9, <1>10

LEMMA HookCallbackKeeps ==
  ASSUME IInv, NEW m \in hooks, NEW result \in {"success", "failed", "executing"},
         HookCallback(m, result)
  PROVE  IInv'
<1>1. m.code \in Code /\ m.event \in {"finish_planning", "start_execute", "all_job_done"}
  BY PlanModeAssumption DEF IInv, TypeOK
<1>2. plan.status = WaitStatus[m.event] BY DEF HookCallback, Callback
<1>3. PICK x \in CallbackDoc(plan, m.event, result) : cb' = x
  BY DEF HookCallback
<1>4. x \in Doc /\ DocInv(x) BY <1>1, <1>2, Facts, CallbackKeeps
<1>5. cb' \in Doc /\ cb' = x BY <1>3, <1>4
<1>6. UNCHANGED <<plan, cron, tasks, lock, req, hooks, clock, starts, returns, failures, granted, passed>>
  BY DEF HookCallback
<1>7. TypeOK' BY <1>5, <1>6 DEF IInv, TypeOK
<1> QED BY <1>4, <1>5, <1>6, <1>7 DEF IInv

LEMMA SaveCallbackKeeps ==
  ASSUME IInv, SaveCallback
  PROVE  IInv'
<1>1. /\ cb # None /\ plan' = cb /\ cron' = Cron(cb) /\ cb' = None
      /\ UNCHANGED <<tasks, lock, req, hooks, clock, starts, returns, failures, granted, passed>>
  BY DEF SaveCallback
<1>2. plan' \in Doc /\ DocInv(plan') BY <1>1 DEF IInv, TypeOK
<1>3. cron' \in BOOLEAN BY <1>1 DEF Cron
<1>4. TypeOK' BY <1>1, <1>2, <1>3 DEF IInv, TypeOK
<1> QED BY <1>1, <1>2, <1>4 DEF IInv

\* Steps that leave every document alone.
LEMMA QuietKeeps ==
  ASSUME IInv, UNCHANGED <<plan, cron, req, cb, hooks, returns, failures, granted>>,
         lock' \in Handlers \cup {None}, clock' \in 1..3, starts' \in 0..MaxStarts,
         passed' \subseteq WorkflowJobs,
         tasks' \in TaskTable
  PROVE  IInv'
<1>1. TypeOK' BY DEF IInv, TypeOK
<1> QED BY <1>1 DEF IInv

LEMMA OtherKeeps ==
  ASSUME IInv, LockExpires \/ Tick
  PROVE  IInv'
<1>1. /\ clock \in 1..3 /\ starts \in 0..MaxStarts /\ lock \in Handlers \cup {None}
      /\ tasks \in TaskTable /\ passed \subseteq WorkflowJobs
  BY DEF IInv, TypeOK
<1>2. CASE LockExpires BY <1>1, <1>2, QuietKeeps DEF LockExpires
<1>3. CASE Tick BY <1>1, <1>3, QuietKeeps DEF Tick
<1> QED BY <1>2, <1>3

LEMMA TaskKeeps ==
  ASSUME IInv, NEW j \in WorkflowJobs, NEW t \in TaskIDs,
         TaskEnds(j, t) \/ TaskAcks(j, t) \/ TaskResumes(j, t)
  PROVE  IInv'
<1>1. /\ clock \in 1..3 /\ starts \in 0..MaxStarts /\ lock \in Handlers \cup {None}
      /\ tasks \in TaskTable /\ passed \subseteq WorkflowJobs
  BY DEF IInv, TypeOK
<1>2. CASE TaskEnds(j, t)
  <2>1. PICK s \in {"passed", "failed", "resting"} :
          /\ tasks' = [tasks EXCEPT ![j][t] = s]
          /\ passed' = IF s = "passed" THEN passed \cup {j} ELSE passed
    BY <1>2 DEF TaskEnds
  <2>2. tasks' \in TaskTable BY <1>1, <2>1 DEF TaskTable
  <2>3. passed' \subseteq WorkflowJobs BY <1>1, <2>1
  <2> QED BY <1>1, <1>2, <2>2, <2>3, QuietKeeps DEF TaskEnds
<1>3. CASE TaskAcks(j, t) \/ TaskResumes(j, t)
  <2>1. tasks' = [tasks EXCEPT ![j][t] = "running"] BY <1>3 DEF TaskAcks, TaskResumes
  <2>2. tasks' \in TaskTable BY <1>1, <2>1 DEF TaskTable
  <2>3. starts' \in 0..MaxStarts
    BY <1>1, <1>3, PlanBoundAssumption DEF TaskAcks, TaskResumes
  <2> QED BY <1>1, <1>3, <2>2, <2>3, QuietKeeps DEF TaskAcks, TaskResumes
<1> QED BY <1>2, <1>3

LEMMA InitIInv == Init => IInv
<1> SUFFICES ASSUME Init PROVE IInv OBVIOUS
<1> DEFINE J == [j \in Jobs |-> NewJob]
           c == [version |-> 1, approval |-> "", jobs |-> J]
           d == [status |-> "planning", approval |-> "", version |-> 1, jobs |-> J, code |-> c]
<1>1. NewJob \in JobDoc /\ NewJob.status = "todo"
  BY PlanBoundAssumption DEF NewJob, JobDoc, JobStatuses
<1>2. J \in [Jobs -> JobDoc] /\ \A j \in Jobs : J[j].status = "todo" BY <1>1
<1>3. plan = Coded(d) BY DEF Init
<1> HIDE DEF J
<1>4. d \in Doc /\ d.status = "planning" /\ d.jobs = J BY <1>2, StatusValues DEF Doc, Code
<1> HIDE DEF d
<1>5. plan \in Doc /\ plan.status = "planning" /\ plan.jobs = J BY <1>3, <1>4, CodedDoc
<1>6. ~Started(plan) BY <1>2, <1>5 DEF Started
<1>7. DocInv(plan) BY <1>5, <1>6, NotStarted
<1>8. tasks \in TaskTable BY DEF Init, TaskTable
<1>9. /\ req \in [Handlers -> ReqDoc]
      /\ \A h \in Handlers : req[h].pc = "idle"
  BY IdleRecord DEF Init
<1>10. /\ cron = FALSE /\ lock = None /\ cb = None /\ hooks = {} /\ clock = FirstClock
       /\ starts = 0 /\ returns = 0 /\ failures = 0 /\ granted = FALSE /\ passed = {}
  BY DEF Init
<1>11. TypeOK
  <2>1. /\ clock \in 1..3 /\ starts \in 0..MaxStarts /\ returns \in 0..MaxReturns
        /\ failures \in 0..MaxFailures
    BY <1>10, PlanBoundAssumption, PlanModeAssumption
  <2>2. cron \in BOOLEAN /\ lock \in Handlers \cup {None}
        /\ cb \in {None} \cup Doc /\ granted \in BOOLEAN /\ passed \subseteq WorkflowJobs
        /\ hooks \subseteq [code : Code, event : Events]
    BY <1>10, Zenon
  <2> QED BY <1>5, <1>8, <1>9, <2>1, <2>2, Zenon DEF TypeOK
<1> QED BY <1>7, <1>9, <1>10, <1>11 DEF IInv

LEMMA StepIInv == IInv /\ [Next]_vars => IInv'
<1> SUFFICES ASSUME IInv, [Next]_vars PROVE IInv' OBVIOUS
<1>1. CASE UNCHANGED vars
  <2>1. TypeOK' BY <1>1 DEF vars, IInv, TypeOK
  <2> QED BY <1>1, <2>1 DEF vars, IInv
<1>2. ASSUME NEW h \in Handlers,
             \/ UpdateReleasePlan(h) \/ BackToPlanning(h) \/ CancelRefused(h)
             \/ \E s \in Statuses : UpdateReleasePlanStatus(h, s)
             \/ \E v \in {"passed", "reject"} : ApproveReleasePlan(h, v)
             \/ \E j \in Jobs : ExecuteReleaseJob(h, j) \/ RetryReleaseJob(h, j) \/ SkipReleaseJob(h, j)
             \/ ReleaseWindowMissed(h) \/ ScheduleExecute(h) \/ WatchExecutingWorkflow(h)
             \/ Step(h) \/ SaveFails(h)
      PROVE  IInv'
  BY <1>2, EditKeeps, ReplanKeeps, RefusedKeeps, StatusKeeps, ApproveKeeps, ExecuteKeeps,
     RetryKeeps, SkipKeeps, MissedKeeps, ScheduleExecuteKeeps, WatchKeeps, ScheduleJobKeeps,
     FindKeeps, CancelKeeps, SaveKeeps, FailKeeps DEF Step
<1>3. ASSUME NEW m \in hooks, NEW r \in {"success", "failed", "executing"}, HookCallback(m, r)
      PROVE  IInv'
  BY <1>3, HookCallbackKeeps
<1>4. CASE SaveCallback BY <1>4, SaveCallbackKeeps
<1>5. CASE LockExpires \/ Tick BY <1>5, OtherKeeps
<1>6. ASSUME NEW j \in WorkflowJobs, NEW t \in TaskIDs,
             TaskEnds(j, t) \/ TaskAcks(j, t) \/ TaskResumes(j, t)
      PROVE  IInv'
  BY <1>6, TaskKeeps
<1> QED BY <1>1, <1>2, <1>3, <1>4, <1>5, <1>6 DEF Next

-----------------------------------------------------------------------------
\* The documents of the plan, of every request and of every callback stay well typed,
\* whatever UpdateReleasePlan, UpdateReleasePlanStatus, the watchers and callbacks do.
THEOREM PlanTyped == Spec => []TypeOK
<1>1. IInv => TypeOK BY DEF IInv
<1> QED BY InitIInv, StepIInv, <1>1, PTL DEF Spec

\* No plan executes and no workflow of it runs before its approval, even when locks are
\* lost and requests and callbacks overwrite each other's document
\* (UpdateReleasePlanStatus, ReleasePlanHookCallback, ScheduleExecuteReleasePlan).
THEOREM ApprovalFirst == Spec => []NothingBeforeApproval
<1>1. IInv => NothingBeforeApproval BY DEF IInv, DocInv, Started, NothingBeforeApproval
<1> QED BY InitIInv, StepIInv, <1>1, PTL DEF Spec
=============================================================================
