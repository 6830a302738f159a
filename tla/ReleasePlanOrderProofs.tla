----------------------- MODULE ReleasePlanOrderProofs -----------------------
(* A plan starts no workflow before an approver has approved it and shows no *)
(* workflow as done that has not passed: proved for every plan and whatever  *)
(* documents overwrite each other.                                           *)
EXTENDS ReleasePlanProofs

-----------------------------------------------------------------------------
(* The inductive invariant. What it says of a document only speaks of what    *)
(* has happened, so that it stays true of a document nobody has saved yet.    *)

\* A document that is saved or about to be saved.
Live(d) ==
  \/ d = plan
  \/ \E h \in Handlers : req[h].pc # "idle" /\ d = req[h].doc
  \/ cb # None /\ d = cb

\* Done now, or before the last return to planning.
WasDone(job) == job.status = "done" \/ job.last = "done"

\* Of the workflow jobs of d those done have passed (in P) and the tasks named were begun
\* (in ts); its approval was given (g).
Sound(d, P, g, ts) ==
  /\ d.approval = "passed" => g
  /\ \A j \in WorkflowJobs :
       /\ WasDone(d.jobs[j]) => j \in P
       /\ d.jobs[j].task # 0 => ts[j][d.jobs[j].task] # "none"

PassedKnown == \A j \in WorkflowJobs, t \in TaskIDs : tasks[j][t] = "passed" => j \in passed

SoundInv == PassedKnown /\ \A d \in Doc : Live(d) => Sound(d, passed, granted, tasks)

-----------------------------------------------------------------------------
(* Documents derived from others.                                            *)

\* x claims no approval, no job done and no task that d does not.
Derived(d, x) ==
  /\ x.approval = "passed" => d.approval = "passed"
  /\ \A j \in WorkflowJobs :
       /\ WasDone(x.jobs[j]) => WasDone(d.jobs[j])
       /\ x.jobs[j].task # 0 => x.jobs[j].task = d.jobs[j].task

LEMMA DerivedSound ==
  ASSUME NEW d, NEW x, NEW P, NEW g, NEW ts, Sound(d, P, g, ts), Derived(d, x)
  PROVE  Sound(x, P, g, ts)
BY DEF Sound, Derived

LEMMA DerivedTwice ==
  ASSUME NEW d, NEW e, NEW x, Derived(d, e), Derived(e, x)
  PROVE  Derived(d, x)
BY DEF Derived

LEMMA SameJobs ==
  ASSUME NEW d, NEW x, x.jobs = d.jobs, x.approval = d.approval
  PROVE  Derived(d, x)
BY DEF Derived

LEMMA JobFields ==
  ASSUME NEW d \in Doc, NEW j \in Jobs
  PROVE  /\ d.jobs[j] \in JobDoc /\ d.jobs[j].task \in 0..MaxStarts
         /\ (d.jobs[j].task # 0 => d.jobs[j].task \in TaskIDs)
<1>1. d.jobs[j] \in JobDoc BY DEF Doc
<1>2. d.jobs[j].task \in 0..MaxStarts BY <1>1 DEF JobDoc
<1> QED BY <1>1, <1>2, PlanBoundAssumption DEF TaskIDs

\* New jobs in a document.
LEMMA JobsFields ==
  ASSUME NEW d \in Doc, NEW J \in [Jobs -> JobDoc]
  PROVE  LET x == [d EXCEPT !.jobs = J] IN
         x \in Doc /\ x.jobs = J /\ x.approval = d.approval
BY DEF Doc

LEMMA StatusJob ==
  ASSUME NEW r \in JobDoc, NEW s \in JobStatuses
  PROVE  LET x == [r EXCEPT !.status = s] IN
         x \in JobDoc /\ x.status = s /\ x.last = r.last /\ x.task = r.task
BY DEF JobDoc

\* setReleaseJobsForExecuting makes done what was done.
LEMMA SetJobsDerived ==
  ASSUME NEW d \in Doc
  PROVE  Derived(d, SetJobs(d))
<1> DEFINE S(j) == IF d.jobs[j].last = "done" /\ ~d.jobs[j].updated THEN "done" ELSE "todo"
           J == [j \in Jobs |-> [d.jobs[j] EXCEPT !.status = S(j)]]
<1>1. \A j \in Jobs : S(j) \in {"done", "todo"} /\ (S(j) = "done" => d.jobs[j].last = "done")
  OBVIOUS
<1>2. SetJobs(d) = [d EXCEPT !.jobs = J] BY DEF SetJobs
<1> HIDE DEF S
<1>3. \A j \in Jobs : /\ J[j] \in JobDoc /\ J[j].last = d.jobs[j].last
                      /\ J[j].task = d.jobs[j].task /\ J[j].status = S(j)
  <2> SUFFICES ASSUME NEW j \in Jobs
               PROVE  /\ J[j] \in JobDoc /\ J[j].last = d.jobs[j].last
                      /\ J[j].task = d.jobs[j].task /\ J[j].status = S(j)
    OBVIOUS
  <2>1. S(j) \in JobStatuses /\ d.jobs[j] \in JobDoc BY <1>1, JobFields DEF JobStatuses
  <2>2. J[j] = [d.jobs[j] EXCEPT !.status = S(j)] OBVIOUS
  <2> HIDE DEF J
  <2> QED BY <2>1, <2>2, StatusJob
<1>4. J \in [Jobs -> JobDoc] BY <1>3
<1> HIDE DEF J
<1>5. SetJobs(d).jobs = J /\ SetJobs(d).approval = d.approval BY <1>2, <1>4, JobsFields
<1>6. \A j \in Jobs : (WasDone(J[j]) => WasDone(d.jobs[j])) /\ J[j].task = d.jobs[j].task
  BY <1>1, <1>3 DEF WasDone
<1> QED BY <1>5, <1>6 DEF Derived, WorkflowJobs

\* The other jobs are as they were, and j has the status s and the task t.
OneJob(d, j, s, t, x) ==
  /\ x.approval = d.approval
  /\ \A i \in Jobs : i # j => x.jobs[i] = d.jobs[i]
  /\ x.jobs[j].status = s /\ x.jobs[j].task = t /\ x.jobs[j].last = d.jobs[j].last

LEMMA SetJobFields ==
  ASSUME NEW d \in Doc, NEW j \in Jobs, NEW s \in JobStatuses, NEW t \in 0..MaxStarts
  PROVE  OneJob(d, j, s, t, SetJob(d, j, s, t))
<1>1. d.jobs \in [Jobs -> JobDoc] BY DEF Doc
<1> DEFINE r == [d.jobs[j] EXCEPT !.status = s, !.task = t]
           J == [d.jobs EXCEPT ![j] = r]
<1>2. SetJob(d, j, s, t) = [d EXCEPT !.jobs = J] BY <1>1 DEF SetJob, Doc, JobDoc
<1>3. r \in JobDoc /\ r.status = s /\ r.task = t /\ r.last = d.jobs[j].last
  BY <1>1 DEF JobDoc
<1> HIDE DEF r
<1>4. J \in [Jobs -> JobDoc] /\ J[j] = r /\ \A i \in Jobs : i # j => J[i] = d.jobs[i]
  BY <1>1, <1>3
<1> HIDE DEF J
<1>5. LET x == SetJob(d, j, s, t) IN x.jobs = J /\ x.approval = d.approval
  BY <1>2, <1>4, JobsFields
<1> QED BY <1>3, <1>4, <1>5 DEF OneJob

LEMMA SkippedFields ==
  ASSUME NEW d \in Doc, NEW j \in Jobs
  PROVE  OneJob(d, j, "skipped", d.jobs[j].task, [d EXCEPT !.jobs[j].status = "skipped"])
<1>1. d.jobs \in [Jobs -> JobDoc] BY DEF Doc
<1> DEFINE r == [d.jobs[j] EXCEPT !.status = "skipped"]
           J == [d.jobs EXCEPT ![j] = r]
           e == [d EXCEPT !.jobs[j].status = "skipped"]
<1>2. e = [d EXCEPT !.jobs = J] BY <1>1 DEF Doc, JobDoc
<1>3. /\ r \in JobDoc /\ r.status = "skipped" /\ r.task = d.jobs[j].task
      /\ r.last = d.jobs[j].last
  BY <1>1 DEF JobDoc, JobStatuses
<1> HIDE DEF r
<1>4. J \in [Jobs -> JobDoc] /\ J[j] = r /\ \A i \in Jobs : i # j => J[i] = d.jobs[i]
  BY <1>1, <1>3
<1> HIDE DEF J, e
<1>5. e.jobs = J /\ e.approval = d.approval BY <1>2, <1>4, JobsFields
<1>6. OneJob(d, j, "skipped", d.jobs[j].task, e) BY <1>3, <1>4, <1>5 DEF OneJob
<1> QED BY <1>6 DEF e

\* A job that is not shown as done, or is no workflow, claims nothing new.
LEMMA OneJobDerived ==
  ASSUME NEW d, NEW j, NEW s, NEW t, NEW x, OneJob(d, j, s, t, x),
         j \in WorkflowJobs => s # "done" /\ t \in {0, d.jobs[j].task}
  PROVE  Derived(d, x)
<1>1. ASSUME NEW i \in WorkflowJobs
      PROVE  /\ WasDone(x.jobs[i]) => WasDone(d.jobs[i])
             /\ x.jobs[i].task # 0 => x.jobs[i].task = d.jobs[i].task
  <2>1. CASE i # j BY <1>1, <2>1 DEF OneJob, WorkflowJobs
  <2>2. CASE i = j BY <1>1, <2>2 DEF OneJob, WasDone
  <2> QED BY <2>1, <2>2
<1> QED BY <1>1 DEF Derived, OneJob

LEMMA ReplannedDerived ==
  ASSUME NEW d \in Doc
  PROVE  Derived(d, Replanned(d))
<1> DEFINE J == [j \in Jobs |->
                   [status |-> "todo", last |-> d.jobs[j].status, updated |-> FALSE,
                    task |-> d.jobs[j].task]]
           e == [d EXCEPT !.status = "planning", !.jobs = J]
<1>1. \A j \in Jobs : d.jobs[j].status \in JobStatuses /\ d.jobs[j].task \in 0..MaxStarts
  BY JobFields DEF JobDoc
<1>2. \A j \in Jobs : /\ J[j] \in JobDoc /\ J[j].status = "todo"
                      /\ J[j].last = d.jobs[j].status /\ J[j].task = d.jobs[j].task
  BY <1>1, TodoJob
<1>3. J \in [Jobs -> JobDoc] BY <1>2
<1>4. Replanned(d) = Coded(e) BY DEF Replanned
<1> HIDE DEF J
<1>5. e \in Doc /\ e.jobs = J /\ e.approval = d.approval BY <1>3, StatusValues DEF Doc
<1> HIDE DEF e
<1>6. Replanned(d).jobs = J /\ Replanned(d).approval = d.approval BY <1>4, <1>5, CodedDoc
<1>7. \A j \in Jobs : (WasDone(J[j]) => WasDone(d.jobs[j])) /\ J[j].task = d.jobs[j].task
  BY <1>2 DEF WasDone
<1> QED BY <1>6, <1>7 DEF Derived, WorkflowJobs

LEMMA VersionedDerived ==
  ASSUME NEW d \in Doc
  PROVE  Derived(d, Coded([d EXCEPT !.version = @ + 1]))
<1> DEFINE f == [d EXCEPT !.version = @ + 1]
<1>1. f \in Doc /\ f.jobs = d.jobs /\ f.approval = d.approval
  <2>0. d.version \in Nat BY DEF Doc
  <2>1. d.version + 1 \in Nat BY <2>0
  <2>2. \A v \in Nat : LET x == [d EXCEPT !.version = v] IN
          x \in Doc /\ x.jobs = d.jobs /\ x.approval = d.approval
    BY DEF Doc
  <2> QED BY <2>1, <2>2, Zenon
<1>2. Coded([d EXCEPT !.version = @ + 1]) = Coded(f) OBVIOUS
<1> HIDE DEF f
<1>3. Coded(f).jobs = f.jobs /\ Coded(f).approval = f.approval BY <1>1, CodedDoc
<1> QED BY <1>1, <1>2, <1>3, SameJobs

LEMMA TouchedDerived ==
  ASSUME NEW d \in Doc, NEW j \in Jobs
  PROVE  Derived(d, [d EXCEPT !.jobs[j].updated = TRUE])
<1> DEFINE r == [d.jobs[j] EXCEPT !.updated = TRUE]
           J == [d.jobs EXCEPT ![j] = r]
           e == [d EXCEPT !.jobs[j].updated = TRUE]
<1>1. d.jobs \in [Jobs -> JobDoc] BY DEF Doc
<1>2. e = [d EXCEPT !.jobs = J] BY <1>1 DEF Doc, JobDoc
<1>3. /\ r \in JobDoc /\ r.status = d.jobs[j].status /\ r.last = d.jobs[j].last
      /\ r.task = d.jobs[j].task
  BY <1>1 DEF JobDoc
<1> HIDE DEF r
<1>4. J \in [Jobs -> JobDoc] /\ J[j] = r /\ \A i \in Jobs : i # j => J[i] = d.jobs[i]
  BY <1>1, <1>3
<1> HIDE DEF J, e
<1>5. e.approval = d.approval /\ e.jobs = J BY <1>2, <1>4, JobsFields
<1>6. \A i \in Jobs : (WasDone(J[i]) => WasDone(d.jobs[i])) /\ J[i].task = d.jobs[i].task
  BY <1>3, <1>4 DEF WasDone
<1>7. Derived(d, e) BY <1>5, <1>6 DEF Derived, WorkflowJobs
<1> QED BY <1>7 DEF e

LEMMA EditedDerived ==
  ASSUME NEW d \in Doc,
         NEW e \in {[d EXCEPT !.jobs[j].updated = TRUE] : j \in EditedJobs}
                  \cup {[d EXCEPT !.approval = ""]}
  PROVE  Derived(d, Coded([e EXCEPT !.version = @ + 1]))
<1>1. \/ \E j \in Jobs : e = [d EXCEPT !.jobs[j].updated = TRUE]
      \/ e = [d EXCEPT !.approval = ""]
  BY PlanJobAssumption, Zenon
<1>2. ASSUME NEW j \in Jobs, e = [d EXCEPT !.jobs[j].updated = TRUE]
      PROVE  e \in Doc /\ Derived(d, e)
  <2>1. e \in Doc BY <1>2, TouchedDoc, Zenon
  <2>2. Derived(d, e) BY <1>2, TouchedDerived, Zenon
  <2> QED BY <2>1, <2>2
<1>3. ASSUME e = [d EXCEPT !.approval = ""] PROVE e \in Doc /\ Derived(d, e)
  <2>1. e \in Doc /\ e.approval = "" /\ e.jobs = d.jobs BY <1>3 DEF Doc
  <2> QED BY <2>1 DEF Derived
<1>4. e \in Doc /\ Derived(d, e) BY <1>1, <1>2, <1>3, Zenon
<1>5. Derived(e, Coded([e EXCEPT !.version = @ + 1])) BY <1>4, VersionedDerived, Zenon
<1> QED BY <1>4, <1>5, DerivedTwice, Zenon

\* What the watcher makes of d.
LEMMA WatchedFields ==
  ASSUME NEW d \in Doc
  PROVE  LET x == Watched(d) IN
         /\ x.approval = d.approval
         /\ \A j \in Jobs :
              /\ x.jobs[j].task = d.jobs[j].task /\ x.jobs[j].last = d.jobs[j].last
              /\ x.jobs[j].status = "done" =>
                   \/ d.jobs[j].status = "done"
                   \/ Ended(d, j) /\ tasks[j][d.jobs[j].task] = "passed"
<1> DEFINE S(j) == IF tasks[j][d.jobs[j].task] = "passed" THEN "done" ELSE "failed"
           J == [j \in Jobs |-> IF Ended(d, j) THEN [d.jobs[j] EXCEPT !.status = S(j)]
                                              ELSE d.jobs[j]]
           seen == Observed(d)
<1>1. \A j \in Jobs : /\ S(j) \in {"done", "failed"}
                      /\ S(j) = "done" => tasks[j][d.jobs[j].task] = "passed"
  OBVIOUS
<1>2. seen = [d EXCEPT !.jobs = J] BY DEF Observed
<1> HIDE DEF S
<1>3. \A j \in Jobs : /\ J[j] \in JobDoc
                      /\ J[j].task = d.jobs[j].task /\ J[j].last = d.jobs[j].last
                      /\ ~Ended(d, j) => J[j].status = d.jobs[j].status
                      /\ Ended(d, j) => J[j].status = S(j)
  <2> SUFFICES ASSUME NEW j \in Jobs
               PROVE  /\ J[j] \in JobDoc
                      /\ J[j].task = d.jobs[j].task /\ J[j].last = d.jobs[j].last
                      /\ ~Ended(d, j) => J[j].status = d.jobs[j].status
                      /\ Ended(d, j) => J[j].status = S(j)
    OBVIOUS
  <2>1. S(j) \in JobStatuses /\ d.jobs[j] \in JobDoc BY <1>1, JobFields DEF JobStatuses
  <2>2. /\ ~Ended(d, j) => J[j] = d.jobs[j]
        /\ Ended(d, j) => J[j] = [d.jobs[j] EXCEPT !.status = S(j)]
    OBVIOUS
  <2> HIDE DEF J
  <2>3. CASE Ended(d, j)
    <3>1. PICK v : v = S(j) OBVIOUS
    <3>2. J[j] = [d.jobs[j] EXCEPT !.status = v] BY <2>2, <2>3, <3>1
    <3>3. J[j] \in JobDoc /\ J[j].status = v /\ J[j].last = d.jobs[j].last
          /\ J[j].task = d.jobs[j].task
      BY <2>1, <3>1, <3>2, StatusJob
    <3> QED BY <2>3, <3>1, <3>3
  <2>4. CASE ~Ended(d, j) BY <2>1, <2>2, <2>4
  <2> QED BY <2>3, <2>4
<1>4. J \in [Jobs -> JobDoc] BY <1>3
<1> HIDE DEF J
<1>5. seen \in Doc /\ seen.approval = d.approval /\ seen.jobs = J
  BY <1>2, <1>4, JobsFields
<1> DEFINE success == [seen EXCEPT !.status = "success"]
           late == [seen EXCEPT !.status = "timeout"]
           checked == Checked(success, "all_job_done")
<1>6. Watched(d) \in {seen, late, checked} BY DEF Watched
<1> HIDE DEF seen
<1>7. late.approval = seen.approval /\ late.jobs = seen.jobs
  BY <1>5, WithStatus, StatusValues
<1>8. success \in Doc /\ success.approval = seen.approval /\ success.jobs = seen.jobs
  BY <1>5, WithStatus, StatusValues
<1> HIDE DEF success, late
<1>9. checked.approval = success.approval /\ checked.jobs = success.jobs
  BY <1>8, CheckedDoc
<1> HIDE DEF checked
<1>10. Watched(d).approval = d.approval /\ Watched(d).jobs = J
  BY <1>5, <1>6, <1>7, <1>8, <1>9
<1> QED BY <1>1, <1>3, <1>10

-----------------------------------------------------------------------------
(* What has happened stays so, and every document stays sound.               *)

\* Nothing that a document may rest on is taken back.
Grows ==
  /\ passed \subseteq passed'
  /\ granted => granted'
  /\ \A j \in WorkflowJobs, t \in TaskIDs :
       /\ tasks[j][t] # "none" => tasks'[j][t] # "none"
       /\ tasks'[j][t] = "passed" => j \in passed'

LEMMA SoundStep ==
  ASSUME IInv, SoundInv, Grows,
         \A d \in Doc : Live(d)' => Live(d) \/ Sound(d, passed', granted', tasks')
  PROVE  SoundInv'
<1>1. ASSUME NEW d \in Doc, Live(d) PROVE Sound(d, passed', granted', tasks')
  <2>1. Sound(d, passed, granted, tasks) BY <1>1 DEF SoundInv
  <2>2. \A j \in WorkflowJobs : d.jobs[j].task # 0 => d.jobs[j].task \in TaskIDs
    BY JobFields DEF WorkflowJobs
  <2> QED BY <2>1, <2>2 DEF Sound, Grows
<1>2. \A d \in Doc : Live(d)' => Sound(d, passed', granted', tasks') BY <1>1
<1>3. PassedKnown' BY DEF Grows, PassedKnown
<1> QED BY <1>2, <1>3 DEF SoundInv

LEMMA Still ==
  ASSUME SoundInv, UNCHANGED <<tasks, passed>>, granted => granted'
  PROVE  Grows
BY DEF SoundInv, PassedKnown, Grows

LEMMA PlanFacts ==
  ASSUME IInv, SoundInv
  PROVE  plan \in Doc /\ DocInv(plan) /\ Live(plan) /\ Sound(plan, passed, granted, tasks)
<1>1. plan \in Doc /\ Live(plan) BY Facts DEF Live
<1> QED BY <1>1, Facts DEF SoundInv

LEMMA ReqFacts ==
  ASSUME IInv, SoundInv, NEW h \in Handlers, req[h].pc # "idle"
  PROVE  /\ req[h].doc \in Doc /\ DocInv(req[h].doc) /\ Live(req[h].doc)
         /\ Sound(req[h].doc, passed, granted, tasks)
<1>1. req[h].doc \in Doc /\ DocInv(req[h].doc) BY MoreFacts
<1>2. Live(req[h].doc) BY DEF Live
<1> QED BY <1>1, <1>2 DEF SoundInv

\* A handler that takes up a sound document, or goes on with one.
LEMMA RecordSound ==
  ASSUME IInv, SoundInv, Grows, NEW h \in Handlers, NEW r, req' = [req EXCEPT ![h] = r],
         UNCHANGED cb, plan' \in Doc, Live(plan'),
         r.pc # "idle" => Sound(r.doc, passed', granted', tasks')
  PROVE  SoundInv'
<1>1. req \in [Handlers -> ReqDoc] BY MoreFacts
<1>2. \A g \in Handlers : req'[g] = IF g = h THEN r ELSE req[g] BY <1>1
<1>3. \A x \in Doc : Live(x)' => Live(x) \/ Sound(x, passed', granted', tasks')
  BY <1>2 DEF Live
<1> QED BY <1>3, SoundStep

LEMMA RequestSound ==
  ASSUME IInv, SoundInv, Grows, NEW h \in Handlers, NEW d, NEW then, Request(h, d, then),
         Sound(d, passed', granted', tasks')
  PROVE  SoundInv'
<1> DEFINE r == [pc |-> "save", doc |-> d, then |-> then, left |-> {}, found |-> {}]
<1>1. req' = [req EXCEPT ![h] = r] /\ UNCHANGED <<plan, cb>> BY DEF Request, Take
<1>2. r.doc = d OBVIOUS
<1> HIDE DEF r
<1> QED BY <1>1, <1>2, PlanFacts, RecordSound

\* Requests that change no task and save what they derive from the plan.
LEMMA DerivedRequest ==
  ASSUME IInv, SoundInv, NEW h \in Handlers, NEW d, NEW then, Request(h, d, then),
         UNCHANGED <<tasks, granted>>, Derived(plan, d)
  PROVE  SoundInv'
<1>1. UNCHANGED passed BY DEF Request, Take
<1>2. Grows BY <1>1, Still
<1>3. Sound(d, passed', granted', tasks') BY <1>1, PlanFacts, DerivedSound
<1> QED BY <1>2, <1>3, RequestSound

LEMMA EditSound ==
  ASSUME IInv, SoundInv, NEW h \in Handlers, UpdateReleasePlan(h)
  PROVE  SoundInv'
<1>1. PICK e \in {[plan EXCEPT !.jobs[j].updated = TRUE] : j \in EditedJobs}
                  \cup {[plan EXCEPT !.approval = ""]} :
        Request(h, Coded([e EXCEPT !.version = @ + 1]), {})
  BY DEF UpdateReleasePlan
<1>2. UNCHANGED <<tasks, granted>> BY DEF UpdateReleasePlan
<1>3. Derived(plan, Coded([e EXCEPT !.version = @ + 1])) BY PlanFacts, EditedDerived, Zenon
<1> QED BY <1>1, <1>2, <1>3, DerivedRequest, Zenon

LEMMA ReplanSound ==
  ASSUME IInv, SoundInv, NEW h \in Handlers, BackToPlanning(h)
  PROVE  SoundInv'
<1> DEFINE x == Replanned(plan)
           r == [pc |-> "save", doc |-> x, then |-> {"cron"},
                 left |-> {j \in WorkflowJobs : plan.jobs[j].task # 0}, found |-> {}]
<1>1. Take(h, r) /\ UNCHANGED <<tasks, granted>> BY DEF BackToPlanning
<1>2. req' = [req EXCEPT ![h] = r] /\ UNCHANGED <<plan, cb, passed>> BY <1>1 DEF Take
<1>3. Derived(plan, x) BY PlanFacts, ReplannedDerived
<1>4. r.doc = x OBVIOUS
<1> HIDE DEF x, r
<1>5. Sound(x, passed', granted', tasks') BY <1>1, <1>2, <1>3, PlanFacts, DerivedSound
<1>6. Grows BY <1>1, <1>2, Still
<1> QED BY <1>2, <1>4, <1>5, <1>6, PlanFacts, RecordSound

LEMMA TargetDerived ==
  ASSUME plan \in Doc, NEW target \in Statuses, NEW x \in TargetDoc(target)
  PROVE  Derived(plan, x)
<1> DEFINE p == [plan EXCEPT !.status = target]
<1>1. p \in Doc /\ p.jobs = plan.jobs /\ p.approval = plan.approval BY WithStatus
<1>2. p = [plan EXCEPT !.status = target] OBVIOUS
<1> HIDE DEF p
<1>3. CASE target = "finish_planning"
  <2>1. x = Checked(p, "finish_planning") BY <1>2, <1>3 DEF TargetDoc
  <2>2. x.jobs = plan.jobs /\ x.approval = plan.approval BY <1>1, <2>1, CheckedDoc
  <2> QED BY <2>2, SameJobs
<1>4. CASE target = "executing"
  <2> DEFINE c == Checked(p, "start_execute")
  <2>1. x = SetJobs(c) BY <1>2, <1>4 DEF TargetDoc
  <2>2. c \in Doc /\ c.jobs = plan.jobs /\ c.approval = plan.approval BY <1>1, CheckedDoc
  <2> HIDE DEF c
  <2>3. Derived(plan, c) /\ Derived(c, x) BY <2>1, <2>2, SameJobs, SetJobsDerived
  <2> QED BY <2>3, DerivedTwice
<1>5. CASE target = "wait_for_approval"
  <2>1. x = [plan EXCEPT !.status = target, !.approval = ""] BY <1>5 DEF TargetDoc
  <2>2. x.jobs = plan.jobs /\ x.approval = "" BY <2>1 DEF Doc
  <2> QED BY <2>2 DEF Derived
<1>6. CASE target \notin {"finish_planning", "executing", "wait_for_approval"}
  <2>1. x = p BY <1>2, <1>6 DEF TargetDoc
  <2> QED BY <1>1, <2>1, SameJobs
<1> QED BY <1>3, <1>4, <1>5, <1>6

LEMMA StatusSound ==
  ASSUME IInv, SoundInv, NEW h \in Handlers, NEW target \in Statuses,
         UpdateReleasePlanStatus(h, target)
  PROVE  SoundInv'
<1> DEFINE then == IF target \in {"finish_planning", "executing"} THEN {"cron", "hook"}
                                                                 ELSE {"cron"}
<1>1. PICK x \in TargetDoc(target) : Request(h, x, then) BY DEF UpdateReleasePlanStatus
<1>2. UNCHANGED <<tasks, granted>> BY DEF UpdateReleasePlanStatus
<1> HIDE DEF then
<1>3. Derived(plan, x) BY PlanFacts, TargetDerived
<1> QED BY <1>1, <1>2, <1>3, DerivedRequest

\* The approval a document carries is that of an approver.
LEMMA ApproveSound ==
  ASSUME IInv, SoundInv, NEW h \in Handlers, NEW verdict \in {"passed", "reject"},
         ApproveReleasePlan(h, verdict)
  PROVE  SoundInv'
<1> DEFINE d == [plan EXCEPT !.approval = verdict]
           e == [d EXCEPT !.status = "executing"]
           c == Checked(e, "start_execute")
           n == [d EXCEPT !.status = "denied"]
           x == IF verdict = "passed" THEN SetJobs(c) ELSE n
<1>1. Request(h, x, {"hook"}) /\ UNCHANGED tasks /\ granted' = (granted \/ verdict = "passed")
  BY DEF ApproveReleasePlan
<1>2. UNCHANGED passed BY <1>1 DEF Request, Take
<1>3. Grows BY <1>1, <1>2, Still
<1>4. d \in Doc /\ d.approval = verdict /\ d.jobs = plan.jobs BY PlanFacts DEF Doc
<1> HIDE DEF d
<1>5. e \in Doc /\ e.approval = d.approval /\ e.jobs = d.jobs BY <1>4, WithStatus, StatusValues
<1>6. n.approval = d.approval /\ n.jobs = d.jobs BY <1>4, WithStatus, StatusValues
<1> HIDE DEF e, n
<1>7. c \in Doc /\ c.approval = d.approval /\ c.jobs = d.jobs BY <1>5, CheckedDoc
<1> HIDE DEF c
<1>8. Derived(d, x)
  <2>1. Derived(c, SetJobs(c)) /\ Derived(d, c) BY <1>7, SetJobsDerived, SameJobs
  <2>2. Derived(d, n) BY <1>6, SameJobs
  <2> QED BY <2>1, <2>2, DerivedTwice
<1> HIDE DEF x
<1>9. Sound(d, passed', granted', tasks') BY <1>1, <1>2, <1>4, PlanFacts DEF Sound
<1> QED BY <1>1, <1>3, <1>8, <1>9, DerivedSound, RequestSound

\* The new task of a workflow job: nothing else of the documents depends on it.
LEMMA CreatedSound ==
  ASSUME IInv, SoundInv, NEW j \in WorkflowJobs, NEW d \in Doc, Sound(d, passed, granted, tasks),
         CreateTask(j), UNCHANGED <<granted, passed>>
  PROVE  Grows /\ Sound(SetJob(d, j, "running", starts + 1), passed', granted', tasks')
<1> DEFINE n == starts + 1
           x == SetJob(d, j, "running", n)
<1>1. starts' \in 0..MaxStarts /\ n \in 0..MaxStarts BY Facts, TaskTypes
<1>2. tasks \in TaskTable BY Facts
<1>3. n \in TaskIDs /\ n # 0 BY <1>1, Facts DEF TaskIDs
<1>4. tasks' = [tasks EXCEPT ![j][n] = "running"] BY DEF CreateTask
<1> HIDE DEF n
<1>5. /\ tasks'[j][n] = "running"
      /\ \A i \in WorkflowJobs, t \in TaskIDs : ~(i = j /\ t = n) => tasks'[i][t] = tasks[i][t]
  BY <1>2, <1>3, <1>4 DEF TaskTable
<1>6. Grows BY <1>5 DEF Grows, SoundInv, PassedKnown
<1>7. OneJob(d, j, "running", n, x) BY <1>1, SetJobFields DEF JobStatuses, WorkflowJobs
<1> HIDE DEF x
<1>8. ASSUME NEW i \in WorkflowJobs
      PROVE  /\ WasDone(x.jobs[i]) => i \in passed'
             /\ x.jobs[i].task # 0 => tasks'[i][x.jobs[i].task] # "none"
  <2>1. CASE i = j BY <1>5, <1>7, <2>1 DEF OneJob, Sound, WasDone
  <2>2. CASE i # j
    <3>1. x.jobs[i] = d.jobs[i] BY <1>7, <2>2 DEF OneJob, WorkflowJobs
    <3>2. d.jobs[i].task # 0 => d.jobs[i].task \in TaskIDs BY JobFields DEF WorkflowJobs
    <3> QED BY <1>5, <2>2, <3>1, <3>2 DEF Sound
  <2> QED BY <2>1, <2>2
<1>9. x.approval = "passed" => granted' BY <1>7 DEF OneJob, Sound
<1>10. Sound(x, passed', granted', tasks') BY <1>8, <1>9 DEF Sound
<1> QED BY <1>6, <1>10 DEF x, n

LEMMA ExecuteSound ==
  ASSUME IInv, SoundInv, NEW h \in Handlers, NEW j \in Jobs, ExecuteReleaseJob(h, j)
  PROVE  SoundInv'
<1>1. UNCHANGED granted BY DEF ExecuteReleaseJob
<1>2. CASE /\ j \in TextJobs
           /\ Request(h, Finished(SetJob(plan, j, "done", 0)), {"hook"}) /\ UNCHANGED tasks
  <2> DEFINE e == SetJob(plan, j, "done", 0)
             x == Finished(e)
  <2>1. 0 \in 0..MaxStarts /\ "done" \in JobStatuses BY PlanBoundAssumption DEF JobStatuses
  <2>2. e \in Doc /\ OneJob(plan, j, "done", 0, e) BY <2>1, PlanFacts, SetJobDoc, SetJobFields
  <2>3. j \notin WorkflowJobs BY <1>2 DEF WorkflowJobs
  <2>4. Derived(plan, e) BY <2>2, <2>3, OneJobDerived
  <2> HIDE DEF e
  <2>5. x.jobs = e.jobs /\ x.approval = e.approval BY <2>2, FinishedDoc
  <2>6. Request(h, x, {"hook"}) /\ UNCHANGED tasks BY <1>2 DEF e
  <2> HIDE DEF x
  <2>7. Derived(plan, x) BY <2>4, <2>5, SameJobs, DerivedTwice
  <2> QED BY <1>1, <2>6, <2>7, DerivedRequest
<1>3. CASE /\ j \in WorkflowJobs /\ CreateTask(j)
           /\ Request(h, SetJob(plan, j, "running", starts + 1), {})
  <2>1. UNCHANGED passed BY <1>3 DEF Request, Take
  <2>2. Grows /\ Sound(SetJob(plan, j, "running", starts + 1), passed', granted', tasks')
    BY <1>1, <1>3, <2>1, PlanFacts, CreatedSound
  <2> QED BY <1>3, <2>2, RequestSound
<1> QED BY <1>2, <1>3 DEF ExecuteReleaseJob

\* A task that was begun gets another status.
LEMMA TaskWritten ==
  ASSUME IInv, SoundInv, NEW j \in WorkflowJobs, NEW t \in TaskIDs, NEW s,
         tasks[j][t] # "none", s # "none", tasks' = [tasks EXCEPT ![j][t] = s],
         s = "passed" => j \in passed', passed \subseteq passed', UNCHANGED granted
  PROVE  /\ Grows
         /\ \A i \in WorkflowJobs, u \in TaskIDs : tasks[i][u] # "none" <=> tasks'[i][u] # "none"
<1>1. tasks \in TaskTable BY Facts
<1>2. /\ tasks'[j][t] = s
      /\ \A i \in WorkflowJobs, u \in TaskIDs : ~(i = j /\ u = t) => tasks'[i][u] = tasks[i][u]
  BY <1>1 DEF TaskTable
<1>3. Grows BY <1>2 DEF Grows, SoundInv, PassedKnown
<1> QED BY <1>2, <1>3

LEMMA RetryWrites ==
  ASSUME IInv, SoundInv, NEW h \in Handlers, NEW j \in Jobs, RetryReleaseJob(h, j)
  PROVE  /\ Grows /\ UNCHANGED <<plan, passed, granted>>
         /\ \A i \in WorkflowJobs, u \in TaskIDs : tasks[i][u] # "none" <=> tasks'[i][u] # "none"
<1>0. PICK k : k = plan.jobs[j].task OBVIOUS
<1>1. /\ j \in WorkflowJobs /\ k # 0 /\ tasks[j][k] \in {"failed", "revoked"}
      /\ tasks' = [tasks EXCEPT ![j][k] = "running"] /\ UNCHANGED <<plan, passed, granted>>
  BY <1>0 DEF RetryReleaseJob, Request, Take
<1>2. k \in TaskIDs BY <1>0, <1>1, PlanFacts, JobFields
<1>3. PICK s : s = "running" OBVIOUS
<1>4. /\ tasks[j][k] # "none" /\ s # "none" /\ tasks' = [tasks EXCEPT ![j][k] = s]
      /\ s # "passed" /\ passed \subseteq passed' /\ UNCHANGED granted
  BY <1>1, <1>3
<1>5. /\ Grows
      /\ \A i \in WorkflowJobs, u \in TaskIDs : tasks[i][u] # "none" <=> tasks'[i][u] # "none"
  BY <1>1, <1>2, <1>4, TaskWritten
<1> QED BY <1>1, <1>5

LEMMA RetrySound ==
  ASSUME IInv, SoundInv, NEW h \in Handlers, NEW j \in Jobs, RetryReleaseJob(h, j)
  PROVE  SoundInv'
<1> DEFINE k == plan.jobs[j].task
           e == SetJob(plan, j, "running", k)
           x == [e EXCEPT !.status = "executing"]
<1>1. Request(h, x, {}) BY DEF RetryReleaseJob
<1>2. Grows /\ UNCHANGED <<plan, passed, granted>> BY RetryWrites
<1>3. k \in 0..MaxStarts /\ "running" \in JobStatuses BY PlanFacts, JobFields DEF JobStatuses
<1>4. e \in Doc /\ OneJob(plan, j, "running", k, e) BY <1>3, PlanFacts, SetJobDoc, SetJobFields
<1>5. Derived(plan, e) BY <1>4, OneJobDerived
<1> HIDE DEF e
<1>6. x.jobs = e.jobs /\ x.approval = e.approval BY <1>4, WithStatus, StatusValues
<1> HIDE DEF x
<1>7. Derived(plan, x) BY <1>5, <1>6, SameJobs, DerivedTwice
<1>8. plan \in Doc /\ Sound(x, passed, granted, tasks) BY <1>7, PlanFacts, DerivedSound
<1>9. \A i \in WorkflowJobs : x.jobs[i].task # 0 => x.jobs[i].task \in TaskIDs
  BY <1>7, <1>8, JobFields DEF Derived, WorkflowJobs
<1>10. Sound(x, passed', granted', tasks') BY <1>2, <1>8, <1>9 DEF Sound, Grows
<1> QED BY <1>1, <1>2, <1>10, RequestSound

LEMMA MissedSound ==
  ASSUME IInv, SoundInv, NEW h \in Handlers, ReleaseWindowMissed(h)
  PROVE  SoundInv'
<1> DEFINE x == [plan EXCEPT !.status = "timeout"]
<1>1. Request(h, x, {}) /\ UNCHANGED <<tasks, granted>> BY DEF ReleaseWindowMissed
<1>2. x.jobs = plan.jobs /\ x.approval = plan.approval BY PlanFacts, WithStatus, StatusValues
<1> HIDE DEF x
<1> QED BY <1>1, <1>2, SameJobs, DerivedRequest

LEMMA SkipSound ==
  ASSUME IInv, SoundInv, NEW h \in Handlers, NEW j \in Jobs, SkipReleaseJob(h, j)
  PROVE  SoundInv'
<1> DEFINE e == [plan EXCEPT !.jobs[j].status = "skipped"]
           x == Finished(e)
<1>1. Request(h, x, {"hook"}) /\ UNCHANGED <<tasks, granted>> BY DEF SkipReleaseJob
<1>2. e \in Doc /\ OneJob(plan, j, "skipped", plan.jobs[j].task, e)
  BY PlanFacts, SkippedDoc, SkippedFields
<1>3. Derived(plan, e) BY <1>2, OneJobDerived
<1> HIDE DEF e
<1>4. x.jobs = e.jobs /\ x.approval = e.approval BY <1>2, FinishedDoc
<1> HIDE DEF x
<1>5. Derived(plan, x) BY <1>3, <1>4, SameJobs, DerivedTwice
<1> QED BY <1>1, <1>5, DerivedRequest

\* The watcher shows as done what has passed.
LEMMA WatchSound ==
  ASSUME IInv, SoundInv, NEW h \in Handlers, WatchExecutingWorkflow(h)
  PROVE  SoundInv'
<1> DEFINE x == Watched(plan)
<1>1. Request(h, x, {"hook", "anyway"}) /\ UNCHANGED <<tasks, granted>>
  BY DEF WatchExecutingWorkflow
<1>2. UNCHANGED passed BY <1>1 DEF Request, Take
<1>3. /\ x.approval = plan.approval
      /\ \A j \in Jobs :
           /\ x.jobs[j].task = plan.jobs[j].task /\ x.jobs[j].last = plan.jobs[j].last
           /\ x.jobs[j].status = "done" =>
                \/ plan.jobs[j].status = "done"
                \/ Ended(plan, j) /\ tasks[j][plan.jobs[j].task] = "passed"
  BY PlanFacts, WatchedFields
<1> HIDE DEF x
<1>4. ASSUME NEW j \in WorkflowJobs, WasDone(x.jobs[j]) PROVE j \in passed
  <2>1. j \in Jobs BY DEF WorkflowJobs
  <2>2. CASE WasDone(plan.jobs[j]) BY <2>2, PlanFacts DEF Sound
  <2>3. CASE Ended(plan, j) /\ tasks[j][plan.jobs[j].task] = "passed"
    <3>1. plan.jobs[j].task \in TaskIDs BY <2>1, <2>3, PlanFacts, JobFields DEF Ended
    <3> QED BY <2>3, <3>1 DEF SoundInv, PassedKnown
  <2> QED BY <1>3, <1>4, <2>1, <2>2, <2>3 DEF WasDone
<1>5. \A j \in WorkflowJobs : x.jobs[j].task # 0 => tasks[j][x.jobs[j].task] # "none"
  BY <1>3, PlanFacts DEF Sound, WorkflowJobs
<1>6. Sound(x, passed', granted', tasks') BY <1>1, <1>2, <1>3, <1>4, <1>5, PlanFacts DEF Sound
<1>7. Grows BY <1>1, <1>2, Still
<1> QED BY <1>1, <1>6, <1>7, RequestSound

LEMMA ScheduleExecuteSound ==
  ASSUME IInv, SoundInv, NEW h \in Handlers, ScheduleExecute(h)
  PROVE  SoundInv'
<1> DEFINE r == [pc |-> "schedule", doc |-> plan, then |-> {}, left |-> {}, found |-> {}]
<1>1. UNCHANGED <<plan, tasks, cb, granted, passed>> BY DEF ScheduleExecute, Take
<1>2. Grows BY <1>1, Still
<1>3. CASE UNCHANGED req
  <2>1. \A x \in Doc : Live(x)' => Live(x) BY <1>1, <1>3 DEF Live
  <2> QED BY <1>2, <2>1, SoundStep
<1>4. CASE Take(h, r)
  <2>1. req' = [req EXCEPT ![h] = r] /\ r.doc = plan BY <1>4 DEF Take
  <2> HIDE DEF r
  <2>2. Sound(plan, passed', granted', tasks') BY <1>1, PlanFacts
  <2> QED BY <1>1, <1>2, <2>1, <2>2, PlanFacts, RecordSound
<1> QED BY <1>3, <1>4 DEF ScheduleExecute

\* A request that is over.
LEMMA OverSound ==
  ASSUME IInv, SoundInv, NEW h \in Handlers, req' = [req EXCEPT ![h] = IdleReq],
         UNCHANGED <<plan, tasks, cb, granted, passed>>
  PROVE  SoundInv'
BY IdleRecord, PlanFacts, Still, RecordSound

LEMMA ScheduleJobSound ==
  ASSUME IInv, SoundInv, NEW h \in Handlers, ScheduleJob(h)
  PROVE  SoundInv'
<1>1. req[h].pc = "schedule" /\ UNCHANGED <<plan, cb, granted, passed>> BY DEF ScheduleJob
<1>2. CASE Unlock(h) /\ UNCHANGED tasks BY <1>1, <1>2, OverSound DEF Unlock
<1>3. ASSUME NEW j \in ToSchedule(req[h].doc), CreateTask(j),
             req' = [req EXCEPT ![h].pc = "scheduled",
                                ![h].doc = SetJob(@, j, "running", starts + 1)]
      PROVE  SoundInv'
  <2> DEFINE x == SetJob(req[h].doc, j, "running", starts + 1)
             r == [req[h] EXCEPT !.pc = "scheduled", !.doc = x]
  <2>1. req[h].doc \in Doc /\ Sound(req[h].doc, passed, granted, tasks) BY <1>1, ReqFacts
  <2>2. j \in WorkflowJobs BY <1>3 DEF ToSchedule
  <2>3. Grows /\ Sound(x, passed', granted', tasks') BY <1>1, <1>3, <2>1, <2>2, CreatedSound
  <2>4. req \in [Handlers -> ReqDoc] /\ req[h] \in ReqDoc BY MoreFacts
  <2>5. req' = [req EXCEPT ![h] = r] BY <1>3, <2>4
  <2>6. r.doc = x BY <2>4 DEF ReqDoc
  <2> HIDE DEF x, r
  <2> QED BY <1>1, <2>3, <2>5, <2>6, PlanFacts, RecordSound
<1> QED BY <1>2, <1>3, Zenon DEF ScheduleJob

LEMMA FindSound ==
  ASSUME IInv, SoundInv, NEW h \in Handlers, FindTask(h)
  PROVE  SoundInv'
<1>1. req[h].pc = "save" /\ UNCHANGED <<plan, tasks, cb, granted, passed>> BY DEF FindTask
<1>2. PICK L, F : req' = [req EXCEPT ![h].left = L, ![h].found = F] BY DEF FindTask
<1> DEFINE r == [req[h] EXCEPT !.left = L, !.found = F]
<1>3. req \in [Handlers -> ReqDoc] /\ req[h] \in ReqDoc BY MoreFacts
<1>4. req' = [req EXCEPT ![h] = r] BY <1>2, <1>3
<1>5. r.doc = req[h].doc BY <1>3 DEF ReqDoc
<1> HIDE DEF r
<1>6. Sound(req[h].doc, passed', granted', tasks') /\ Grows BY <1>1, ReqFacts, Still
<1> QED BY <1>1, <1>4, <1>5, <1>6, PlanFacts, RecordSound

\* The cancellation of a task that the plan names: it was begun.
LEMMA CancelWrites ==
  ASSUME IInv, SoundInv, NEW h \in Handlers, CancelTask(h)
  PROVE  /\ Grows /\ UNCHANGED <<plan, cb, passed, granted>>
         /\ \A i \in WorkflowJobs, u \in TaskIDs : tasks[i][u] # "none" <=> tasks'[i][u] # "none"
<1> DEFINE d == req[h].doc
<1>1. req[h].pc = "save" /\ UNCHANGED <<plan, cb, passed, granted>> BY DEF CancelTask
<1>2. PICK j \in req[h].found :
        tasks' = [tasks EXCEPT ![j][d.jobs[j].task] =
                    IF @ \in {"running", "revoked"} THEN "revoked" ELSE "failed"]
  BY DEF CancelTask
<1>3. req[h] \in ReqDoc /\ tasks \in TaskTable BY MoreFacts, Facts
<1>4. j \in WorkflowJobs /\ j \in Jobs BY <1>3 DEF ReqDoc, WorkflowJobs
<1>5. d \in Doc /\ Sound(d, passed, granted, tasks) BY <1>1, ReqFacts
<1> HIDE DEF d
<1> DEFINE k == d.jobs[j].task
           s == IF tasks[j][k] \in {"running", "revoked"} THEN "revoked" ELSE "failed"
<1>6. tasks' = [tasks EXCEPT ![j][k] = s] BY <1>2, <1>3, <1>4 DEF TaskTable
<1>7. s \in {"revoked", "failed"} OBVIOUS
<1>8. k # 0 => k \in TaskIDs /\ tasks[j][k] # "none" BY <1>4, <1>5, JobFields DEF Sound
<1> HIDE DEF k, s
<1>9. CASE k # 0 BY <1>1, <1>4, <1>6, <1>7, <1>8, <1>9, TaskWritten
<1>10. CASE k = 0
  <2>1. 0 \notin TaskIDs BY PlanBoundAssumption DEF TaskIDs
  <2>2. tasks' = tasks BY <1>3, <1>4, <1>6, <1>10, <2>1 DEF TaskTable
  <2> QED BY <1>1, <2>2, Still
<1> QED BY <1>9, <1>10

LEMMA CancelSound ==
  ASSUME IInv, SoundInv, NEW h \in Handlers, CancelTask(h)
  PROVE  SoundInv'
<1> DEFINE d == req[h].doc
<1>1. req[h].pc = "save" BY DEF CancelTask
<1>2. Grows /\ UNCHANGED <<plan, cb, passed, granted>> BY CancelWrites
<1>3. PICK j \in req[h].found :
        req' = [req EXCEPT ![h].doc = Coded(SetJob(@, j, "todo", 0)), ![h].found = {}]
  BY DEF CancelTask
<1>4. req \in [Handlers -> ReqDoc] /\ req[h] \in ReqDoc BY MoreFacts
<1>5. d \in Doc /\ Sound(d, passed, granted, tasks) BY <1>1, ReqFacts
<1>6. j \in Jobs /\ "todo" \in JobStatuses /\ 0 \in 0..MaxStarts
  BY <1>4, PlanBoundAssumption DEF ReqDoc, WorkflowJobs, JobStatuses
<1> DEFINE e == SetJob(d, j, "todo", 0)
           x == Coded(e)
           r == [req[h] EXCEPT !.doc = x, !.found = {}]
<1>7. req' = [req EXCEPT ![h] = r] BY <1>3, <1>4
<1> HIDE DEF d
<1>8. e \in Doc /\ OneJob(d, j, "todo", 0, e) BY <1>5, <1>6, SetJobDoc, SetJobFields
<1> HIDE DEF e
<1>9. x.jobs = e.jobs /\ x.approval = e.approval BY <1>8, CodedDoc
<1>10. r.doc = x BY <1>4 DEF ReqDoc
<1> HIDE DEF x, r
<1>11. Derived(d, x) BY <1>8, <1>9, OneJobDerived, SameJobs, DerivedTwice
<1>12. Sound(x, passed, granted, tasks) BY <1>5, <1>11, DerivedSound
<1>13. \A i \in WorkflowJobs : x.jobs[i].task # 0 => x.jobs[i].task \in TaskIDs
  BY <1>5, <1>11, JobFields DEF Derived, WorkflowJobs
<1>14. Sound(x, passed', granted', tasks') BY <1>2, <1>12, <1>13 DEF Sound, Grows
<1> QED BY <1>2, <1>7, <1>10, <1>14, PlanFacts, RecordSound

LEMMA SaveSound ==
  ASSUME IInv, SoundInv, NEW h \in Handlers, Save(h)
  PROVE  SoundInv'
<1>1. req[h].pc # "idle" /\ plan' = req[h].doc /\ UNCHANGED <<tasks, cb, granted, passed>>
  BY DEF Save
<1>2. plan' \in Doc /\ Live(plan') /\ Sound(plan', passed', granted', tasks') /\ Grows
  BY <1>1, ReqFacts, Still
<1>3. req \in [Handlers -> ReqDoc] /\ req[h] \in ReqDoc BY MoreFacts
<1>4. CASE Unlock(h)
  <2>1. req' = [req EXCEPT ![h] = IdleReq] BY <1>4 DEF Unlock
  <2> QED BY <1>1, <1>2, <2>1, IdleRecord, RecordSound
<1>5. CASE req' = [req EXCEPT ![h].pc = "schedule"]
  <2> DEFINE r == [req[h] EXCEPT !.pc = "schedule"]
  <2>1. req' = [req EXCEPT ![h] = r] BY <1>3, <1>5
  <2>2. r.doc = req[h].doc BY <1>3 DEF ReqDoc
  <2> HIDE DEF r
  <2>3. Sound(r.doc, passed', granted', tasks') BY <1>1, <1>2, <2>2
  <2> QED BY <1>1, <1>2, <2>1, <2>3, RecordSound
<1> QED BY <1>4, <1>5 DEF Save

LEMMA FailSound ==
  ASSUME IInv, SoundInv, NEW h \in Handlers, SaveFails(h) \/ CancelRefused(h)
  PROVE  SoundInv'
<1>1. req' = [req EXCEPT ![h] = IdleReq] /\ UNCHANGED <<plan, tasks, cb, granted, passed>>
  BY DEF SaveFails, CancelRefused, Unlock
<1> QED BY <1>1, OverSound

LEMMA CallbackDerived ==
  ASSUME plan \in Doc, NEW event \in {"finish_planning", "start_execute", "all_job_done"},
         NEW result \in {"success", "failed", "executing"},
         NEW x \in CallbackDoc(plan, event, result)
  PROVE  x \in Doc /\ Derived(plan, x)
<1> DEFINE e == [plan EXCEPT !.status = "executing"]
           f == [plan EXCEPT !.status = "finish_planning"]
           s == [plan EXCEPT !.status = "success"]
           n == [plan EXCEPT !.status = FailedStatus[event]]
<1>1. /\ e \in Doc /\ e.jobs = plan.jobs /\ e.approval = plan.approval
      /\ f \in Doc /\ f.jobs = plan.jobs /\ f.approval = plan.approval
      /\ s \in Doc /\ s.jobs = plan.jobs /\ s.approval = plan.approval
  <2>1. {"executing", "finish_planning", "success"} \subseteq Statuses BY StatusValues
  <2>2. e \in Doc /\ e.jobs = plan.jobs /\ e.approval = plan.approval BY <2>1, WithStatus
  <2>3. f \in Doc /\ f.jobs = plan.jobs /\ f.approval = plan.approval BY <2>1, WithStatus
  <2>4. s \in Doc /\ s.jobs = plan.jobs /\ s.approval = plan.approval BY <2>1, WithStatus
  <2> QED BY <2>2, <2>3, <2>4
<1>2. FailedStatus[event] \in Statuses BY StatusValues DEF FailedStatus
<1>3. n \in Doc /\ n.jobs = plan.jobs /\ n.approval = plan.approval BY <1>2, WithStatus
<1>4. x \in NextDoc(plan, event) \/ x = n \/ x = plan BY DEF CallbackDoc
<1>5. x \in NextDoc(plan, event) => x \in {f, s, SetJobs(e)} BY DEF NextDoc
<1> HIDE DEF e, f, s, n
<1>6. Derived(plan, e) /\ Derived(e, SetJobs(e)) /\ SetJobs(e) \in Doc
  BY <1>1, SameJobs, SetJobsDerived, SetJobsDoc
<1>7. Derived(plan, SetJobs(e)) BY <1>6, DerivedTwice
<1>8. Derived(plan, f) /\ Derived(plan, s) /\ Derived(plan, n) /\ Derived(plan, plan)
  BY <1>1, <1>3, SameJobs
<1> QED BY <1>1, <1>3, <1>4, <1>5, <1>6, <1>7, <1>8

LEMMA HookCallbackSound ==
  ASSUME IInv, SoundInv, NEW m \in hooks, NEW result \in {"success", "failed", "executing"},
         HookCallback(m, result)
  PROVE  SoundInv'
<1>1. m.event \in {"finish_planning", "start_execute", "all_job_done"}
  BY PlanModeAssumption DEF IInv, TypeOK
<1>2. PICK x \in CallbackDoc(plan, m.event, result) : cb' = x BY DEF HookCallback
<1>3. UNCHANGED <<plan, tasks, req, granted, passed>> BY DEF HookCallback
<1>4. Derived(plan, x) BY <1>1, PlanFacts, CallbackDerived
<1>5. Sound(x, passed', granted', tasks') /\ Grows BY <1>3, <1>4, PlanFacts, DerivedSound, Still
<1>6. \A y \in Doc : Live(y)' => Live(y) \/ Sound(y, passed', granted', tasks')
  BY <1>2, <1>3, <1>5 DEF Live
<1> QED BY <1>5, <1>6, SoundStep

LEMMA SaveCallbackSound ==
  ASSUME IInv, SoundInv, SaveCallback
  PROVE  SoundInv'
<1>1. cb # None /\ plan' = cb /\ cb' = None /\ UNCHANGED <<tasks, req, granted, passed>>
  BY DEF SaveCallback
<1>2. \A y \in Doc : Live(y)' => Live(y) BY <1>1 DEF Live
<1> QED BY <1>1, <1>2, Still, SoundStep

\* The steps of the tasks themselves, and those that change no document.
LEMMA TaskWrites ==
  ASSUME IInv, SoundInv, NEW j \in WorkflowJobs, NEW t \in TaskIDs,
         TaskEnds(j, t) \/ TaskAcks(j, t) \/ TaskResumes(j, t)
  PROVE  /\ Grows /\ UNCHANGED <<plan, req, cb, granted>>
         /\ \A i \in WorkflowJobs, u \in TaskIDs : tasks[i][u] # "none" <=> tasks'[i][u] # "none"
         /\ passed' \in {passed, passed \cup {j}} /\ tasks[j][t] # "none"
<1>1. tasks[j][t] # "none" /\ UNCHANGED <<plan, req, cb, granted>>
  BY DEF TaskEnds, TaskAcks, TaskResumes
<1>2. PICK s \in {"passed", "failed", "resting", "running"} :
        /\ tasks' = [tasks EXCEPT ![j][t] = s]
        /\ passed' = IF s = "passed" THEN passed \cup {j} ELSE passed
  BY DEF TaskEnds, TaskAcks, TaskResumes
<1>3. passed' \in {passed, passed \cup {j}} /\ (s = "passed" => j \in passed') BY <1>2
<1>4. passed \subseteq passed' BY <1>3
<1> QED BY <1>1, <1>2, <1>3, <1>4, TaskWritten

LEMMA OtherSound ==
  ASSUME IInv, SoundInv,
         \/ LockExpires \/ Tick \/ UNCHANGED vars
         \/ \E j \in WorkflowJobs, t \in TaskIDs : TaskEnds(j, t) \/ TaskAcks(j, t) \/ TaskResumes(j, t)
  PROVE  SoundInv'
<1>1. Grows /\ UNCHANGED <<plan, req, cb>>
  <2>1. CASE LockExpires \/ Tick \/ UNCHANGED vars
    <3>1. UNCHANGED <<plan, req, cb, tasks, granted, passed>> BY <2>1 DEF LockExpires, Tick, vars
    <3> QED BY <3>1, Still
  <2>2. ASSUME NEW j \in WorkflowJobs, NEW t \in TaskIDs,
               TaskEnds(j, t) \/ TaskAcks(j, t) \/ TaskResumes(j, t)
        PROVE  Grows /\ UNCHANGED <<plan, req, cb>>
    BY <2>2, TaskWrites
  <2> QED BY <2>1, <2>2
<1>2. \A y \in Doc : Live(y)' => Live(y) BY <1>1 DEF Live
<1> QED BY <1>1, <1>2, SoundStep

LEMMA StepSound == IInv /\ SoundInv /\ [Next]_vars => SoundInv'
<1> SUFFICES ASSUME IInv, SoundInv, [Next]_vars PROVE SoundInv' OBVIOUS
<1>1. ASSUME NEW h \in Handlers,
             \/ UpdateReleasePlan(h) \/ BackToPlanning(h) \/ CancelRefused(h)
             \/ \E s \in Statuses : UpdateReleasePlanStatus(h, s)
             \/ \E v \in {"passed", "reject"} : ApproveReleasePlan(h, v)
             \/ \E j \in Jobs : ExecuteReleaseJob(h, j) \/ RetryReleaseJob(h, j) \/ SkipReleaseJob(h, j)
             \/ ReleaseWindowMissed(h) \/ ScheduleExecute(h) \/ WatchExecutingWorkflow(h)
             \/ Step(h) \/ SaveFails(h)
      PROVE  SoundInv'
  BY <1>1, EditSound, ReplanSound, StatusSound, ApproveSound, ExecuteSound, RetrySound, SkipSound,
     MissedSound, ScheduleExecuteSound, WatchSound, ScheduleJobSound, FindSound, CancelSound,
     SaveSound, FailSound DEF Step
<1>2. ASSUME NEW m \in hooks, NEW r \in {"success", "failed", "executing"}, HookCallback(m, r)
      PROVE  SoundInv'
  BY <1>2, HookCallbackSound
<1> QED BY <1>1, <1>2, SaveCallbackSound, OtherSound DEF Next

LEMMA InitSound == Init => SoundInv
<1> SUFFICES ASSUME Init PROVE SoundInv OBVIOUS
<1> DEFINE J == [j \in Jobs |-> NewJob]
           c == [version |-> 1, approval |-> "", jobs |-> J]
           d == [status |-> "planning", approval |-> "", version |-> 1, jobs |-> J, code |-> c]
<1>1. /\ cb = None /\ tasks = [j \in WorkflowJobs |-> [t \in TaskIDs |-> "none"]]
      /\ \A h \in Handlers : req[h].pc = "idle"
  BY IdleRecord DEF Init
<1>2. plan = Coded(d) BY DEF Init
<1>3. /\ J \in [Jobs -> JobDoc]
      /\ \A j \in Jobs : J[j].status = "todo" /\ J[j].last = "" /\ J[j].task = 0
  <2>1. NewJob \in JobDoc /\ NewJob.status = "todo" /\ NewJob.last = "" /\ NewJob.task = 0
    BY PlanBoundAssumption DEF NewJob, JobDoc, JobStatuses
  <2> QED BY <2>1
<1> HIDE DEF J
<1>4. d \in Doc /\ d.jobs = J /\ d.approval = "" BY <1>3, StatusValues DEF Doc, Code
<1> HIDE DEF d
<1>5. plan.jobs = J /\ plan.approval = "" BY <1>2, <1>4, CodedDoc
<1>6. Sound(plan, passed, granted, tasks) BY <1>3, <1>5 DEF Sound, WasDone, WorkflowJobs
<1>7. \A x \in Doc : Live(x) => x = plan BY <1>1 DEF Live
<1>8. PassedKnown BY <1>1 DEF PassedKnown
<1> QED BY <1>6, <1>7, <1>8 DEF SoundInv

\* A workflow job of a plan is done only when a task started for it has passed: through
\* edits, returns to planning, retries and late cancellations, although requests, watchers
\* and callbacks overwrite each other (updatePlanWorkflowReleaseJob,
\* setReleaseJobsForExecuting).
THEOREM DoneHasPassed == Spec => []DoneMeansPassed
<1>1. IInv /\ SoundInv => DoneMeansPassed
  <2> SUFFICES ASSUME IInv, SoundInv PROVE DoneMeansPassed OBVIOUS
  <2> QED BY PlanFacts DEF DoneMeansPassed, Sound, WasDone
<1> QED BY InitIInv, StepIInv, InitSound, StepSound, <1>1, PTL DEF Spec

-----------------------------------------------------------------------------
(* Every step of a plan is a step of ReleasePlanLifecycle or changes nothing *)
(* of it.                                                                    *)

Begun(ts) == {t \in WorkflowJobs \X TaskIDs : ts[t[1]][t[2]] # "none"}
DoneJobs(d) == {j \in WorkflowJobs : d.jobs[j].status = "done"}
Given(g) == ApprovalEnabled => g

\* What the life cycle sees does not change.
Unseen == UNCHANGED <<plan, granted, passed>> /\ Begun(tasks') = Begun(tasks)

LEMMA UnseenMaps ==
  ASSUME Unseen
  PROVE  UNCHANGED Lifecycle!vars
BY DEF Unseen, Begun, Lifecycle!vars

\* A document takes the place of the plan.
LEMMA ShowMaps ==
  ASSUME UNCHANGED <<tasks, granted, passed>>, Sound(plan', passed, granted, tasks)
  PROVE  Lifecycle!Next
<1>0. PICK S : S = {j \in WorkflowJobs : plan'.jobs[j].status = "done"} OBVIOUS
<1>1. S \subseteq passed /\ S \in SUBSET WorkflowJobs BY <1>0 DEF Sound, WasDone
<1>2. Lifecycle!Show(S) BY <1>0, <1>1 DEF Lifecycle!Show
<1> QED BY <1>1, <1>2 DEF Lifecycle!Next

LEMMA GrantMaps ==
  ASSUME IInv, NEW h \in Handlers, NEW verdict \in {"passed", "reject"},
         ApproveReleasePlan(h, verdict)
  PROVE  Lifecycle!Next \/ UNCHANGED Lifecycle!vars
<1>1. UNCHANGED <<plan, tasks, passed>> /\ granted' = (granted \/ verdict = "passed")
  BY DEF ApproveReleasePlan, Request, Take
<1>2. CASE granted' = granted
  <2>1. Unseen BY <1>1, <1>2 DEF Unseen
  <2> QED BY <2>1, UnseenMaps
<1>3. CASE granted' = TRUE
  <2>1. (ApprovalEnabled => granted') = TRUE BY <1>3
  <2>2. Lifecycle!Grant BY <1>1, <2>1 DEF Lifecycle!Grant
  <2> QED BY <2>2 DEF Lifecycle!Next
<1>4. granted \in BOOLEAN BY Facts
<1> QED BY <1>1, <1>2, <1>3, <1>4

\* A task is created for a document that executes: it carries the approval.
LEMMA BeginMaps ==
  ASSUME IInv, NEW j \in WorkflowJobs, CreateTask(j), UNCHANGED <<plan, granted, passed>>,
         NEW d \in Doc, DocInv(d), Sound(d, passed, granted, tasks), d.status = "executing"
  PROVE  Lifecycle!Next
<1>0. PICK n : n = starts + 1 OBVIOUS
<1>1. starts' \in 0..MaxStarts /\ n \in 0..MaxStarts BY <1>0, Facts, TaskTypes
<1>2. n \in TaskIDs /\ tasks \in TaskTable BY <1>0, <1>1, Facts DEF TaskIDs
<1>3. tasks' = [tasks EXCEPT ![j][n] = "running"] BY <1>0 DEF CreateTask
<1>4. /\ tasks'[j][n] = "running"
      /\ \A i \in WorkflowJobs, t \in TaskIDs : ~(i = j /\ t = n) => tasks'[i][t] = tasks[i][t]
  BY <1>2, <1>3 DEF TaskTable
<1>5. Begun(tasks') = Begun(tasks) \cup {<<j, n>>} BY <1>2, <1>4 DEF Begun
<1>6. Given(granted) BY DEF DocInv, Approved, Sound, Given
<1>7. Lifecycle!Begin(j, n) BY <1>5, <1>6 DEF Lifecycle!Begin, Begun, Given
<1> QED BY <1>2, <1>7 DEF Lifecycle!Next

LEMMA ExecuteMaps ==
  ASSUME IInv, SoundInv, NEW h \in Handlers, NEW j \in Jobs, ExecuteReleaseJob(h, j)
  PROVE  Lifecycle!Next \/ UNCHANGED Lifecycle!vars
<1>1. plan.status = "executing" /\ UNCHANGED <<plan, granted, passed>>
  BY DEF ExecuteReleaseJob, Request, Take
<1>2. CASE UNCHANGED tasks
  <2>1. Unseen BY <1>1, <1>2 DEF Unseen
  <2> QED BY <2>1, UnseenMaps
<1>3. CASE j \in WorkflowJobs /\ CreateTask(j) BY <1>1, <1>3, PlanFacts, BeginMaps
<1> QED BY <1>2, <1>3 DEF ExecuteReleaseJob

LEMMA ScheduleJobMaps ==
  ASSUME IInv, SoundInv, NEW h \in Handlers, ScheduleJob(h)
  PROVE  Lifecycle!Next \/ UNCHANGED Lifecycle!vars
<1>1. req[h].pc = "schedule" /\ UNCHANGED <<plan, granted, passed>> BY DEF ScheduleJob
<1>2. CASE UNCHANGED tasks
  <2>1. Unseen BY <1>1, <1>2 DEF Unseen
  <2> QED BY <2>1, UnseenMaps
<1>3. ASSUME NEW j \in ToSchedule(req[h].doc), CreateTask(j) PROVE Lifecycle!Next
  <2>1. j \in WorkflowJobs BY <1>3 DEF ToSchedule
  <2>2. req[h].doc.status = "executing" BY <1>1, MoreFacts
  <2> QED BY <1>1, <1>3, <2>1, <2>2, ReqFacts, BeginMaps
<1> QED BY <1>2, <1>3, Zenon DEF ScheduleJob

\* Tasks that change their status, and stay begun.
LEMMA RewrittenMaps ==
  ASSUME UNCHANGED <<plan, granted, passed>>,
         \A i \in WorkflowJobs, u \in TaskIDs : tasks[i][u] # "none" <=> tasks'[i][u] # "none"
  PROVE  UNCHANGED Lifecycle!vars
<1>1. Begun(tasks') = Begun(tasks) BY DEF Begun
<1> QED BY <1>1, UnseenMaps DEF Unseen

LEMMA TaskMaps ==
  ASSUME IInv, SoundInv, NEW j \in WorkflowJobs, NEW t \in TaskIDs,
         TaskEnds(j, t) \/ TaskAcks(j, t) \/ TaskResumes(j, t)
  PROVE  Lifecycle!Next \/ UNCHANGED Lifecycle!vars
<1>1. /\ UNCHANGED <<plan, granted>> /\ tasks[j][t] # "none"
      /\ \A i \in WorkflowJobs, u \in TaskIDs : tasks[i][u] # "none" <=> tasks'[i][u] # "none"
      /\ passed' \in {passed, passed \cup {j}}
  BY TaskWrites
<1>2. CASE passed' = passed BY <1>1, <1>2, RewrittenMaps
<1>3. CASE passed' = passed \cup {j}
  <2>1. Begun(tasks') = Begun(tasks) /\ <<j, t>> \in Begun(tasks) BY <1>1 DEF Begun
  <2>2. Lifecycle!Pass(j) BY <1>1, <1>3, <2>1 DEF Lifecycle!Pass, Begun
  <2> QED BY <2>2 DEF Lifecycle!Next
<1> QED BY <1>1, <1>2, <1>3

\* The steps that start no task, decide no approval and save nothing.
LEMMA QuietMaps ==
  ASSUME NEW h \in Handlers,
         \/ UpdateReleasePlan(h) \/ BackToPlanning(h) \/ CancelRefused(h)
         \/ \E s \in Statuses : UpdateReleasePlanStatus(h, s)
         \/ \E j \in Jobs : SkipReleaseJob(h, j)
         \/ ReleaseWindowMissed(h) \/ ScheduleExecute(h) \/ WatchExecutingWorkflow(h)
         \/ FindTask(h) \/ SaveFails(h)
  PROVE  UNCHANGED Lifecycle!vars
<1>1. UNCHANGED <<plan, tasks, granted, passed>>
  BY DEF UpdateReleasePlan, BackToPlanning, CancelRefused, UpdateReleasePlanStatus,
         SkipReleaseJob, ReleaseWindowMissed, ScheduleExecute, WatchExecutingWorkflow,
         FindTask, SaveFails, Request, Take
<1> QED BY <1>1, UnseenMaps DEF Unseen

LEMMA StepMaps ==
  ASSUME IInv, SoundInv, [Next]_vars
  PROVE  Lifecycle!Next \/ UNCHANGED Lifecycle!vars
<1>1. ASSUME NEW h \in Handlers, Save(h) PROVE Lifecycle!Next
  <2>1. req[h].pc # "idle" /\ plan' = req[h].doc /\ UNCHANGED <<tasks, granted, passed>>
    BY <1>1 DEF Save
  <2>2. Sound(plan', passed, granted, tasks) BY <2>1, ReqFacts
  <2> QED BY <2>1, <2>2, ShowMaps
<1>2. CASE SaveCallback
  <2>1. cb # None /\ plan' = cb /\ UNCHANGED <<tasks, granted, passed>>
    BY <1>2 DEF SaveCallback
  <2>2. cb \in Doc /\ Live(cb) BY <2>1 DEF IInv, TypeOK, Live
  <2>3. Sound(plan', passed, granted, tasks) BY <2>1, <2>2 DEF SoundInv
  <2> QED BY <2>1, <2>3, ShowMaps
<1>3. ASSUME NEW h \in Handlers, CancelTask(h) PROVE UNCHANGED Lifecycle!vars
  BY <1>3, CancelWrites, RewrittenMaps
<1>4. ASSUME NEW h \in Handlers, NEW j \in Jobs, RetryReleaseJob(h, j)
      PROVE  UNCHANGED Lifecycle!vars
  BY <1>4, RetryWrites, RewrittenMaps
<1>5. CASE \/ LockExpires \/ Tick \/ UNCHANGED vars
           \/ \E m \in hooks, r \in {"success", "failed", "executing"} : HookCallback(m, r)
  <2>1. UNCHANGED <<plan, tasks, granted, passed>>
    BY <1>5 DEF LockExpires, Tick, vars, HookCallback
  <2> QED BY <2>1, UnseenMaps DEF Unseen
<1>6. ASSUME NEW h \in Handlers,
             \/ UpdateReleasePlan(h) \/ BackToPlanning(h) \/ CancelRefused(h)
             \/ \E s \in Statuses : UpdateReleasePlanStatus(h, s)
             \/ \E v \in {"passed", "reject"} : ApproveReleasePlan(h, v)
             \/ \E j \in Jobs : ExecuteReleaseJob(h, j) \/ RetryReleaseJob(h, j) \/ SkipReleaseJob(h, j)
             \/ ReleaseWindowMissed(h) \/ ScheduleExecute(h) \/ WatchExecutingWorkflow(h)
             \/ Step(h) \/ SaveFails(h)
      PROVE  Lifecycle!Next \/ UNCHANGED Lifecycle!vars
  BY <1>1, <1>3, <1>4, <1>6, QuietMaps, GrantMaps, ExecuteMaps, ScheduleJobMaps DEF Step
<1> QED BY <1>2, <1>5, <1>6, TaskMaps DEF Next

LEMMA InitMaps == Init => Lifecycle!Init
<1> SUFFICES ASSUME Init PROVE Lifecycle!Init OBVIOUS
<1>1. SoundInv BY InitSound
<1>2. IInv BY InitIInv
<1>3. passed = {} /\ tasks = [j \in WorkflowJobs |-> [t \in TaskIDs |-> "none"]] BY DEF Init
<1>4. Begun(tasks) = {} BY <1>3 DEF Begun
<1>5. DoneJobs(plan) = {} BY <1>1, <1>2, <1>3, PlanFacts DEF DoneJobs, Sound, WasDone
<1>6. (ApprovalEnabled => granted) \in BOOLEAN OBVIOUS
<1> QED BY <1>3, <1>4, <1>5, <1>6 DEF Lifecycle!Init, Begun, DoneJobs

\* A release plan implements ReleasePlanLifecycle: its workflows begin after an approver has
\* approved it and are shown as done after they have passed, whatever requests, watchers,
\* callbacks and the cron job overwrite, fail to save or cancel too late.
THEOREM PlanImplements == Spec => Implements
<1>1. IInv /\ SoundInv /\ [Next]_vars => [Lifecycle!Next]_(Lifecycle!vars) BY StepMaps
<1> QED BY <1>1, InitIInv, StepIInv, InitSound, StepSound, InitMaps, PTL
        DEF Spec, Implements, Lifecycle!Spec
=============================================================================
