------------------------------ MODULE CronTimers ------------------------------
(***************************************************************************)
(* Timers of workflows and tests.  Requests on aslan write the cronjob     *)
(* collection and push messages; the cron service keeps the timers in      *)
(* memory, registers them when it starts and follows the messages          *)
(* afterwards (pkg/microservice/cron, aslan/core/cron).                    *)
(***************************************************************************)
EXTENDS Naturals, Sequences, FiniteSets

CONSTANTS
  Crons,       \* ids of cronjob documents
  Workflows, Tests,
  Owner,       \* what a cronjob belongs to
  Revs,        \* contents of a cronjob
  BadRevs,     \* contents with a cron expression that the scheduler refuses
  None,
  Requests,    \* requests that aslan serves at a time
  MaxRequests, \* bound on requests
  MaxCrashes,  \* bound on crashes of the cron service
  MaxFailures, \* bound on failing calls of the cron service to aslan
  MaxKept,     \* bound on messages whose deletion fails
  SlowRestart  \* requests under way end before the cron service is up again

ASSUME CronOwnerAssumption == Owner \in [Crons -> Workflows \cup Tests]
ASSUME CronNameAssumption ==
  /\ None \notin Crons \cup Revs \cup Workflows \cup Tests
  /\ Workflows \cap Tests = {} /\ BadRevs \subseteq Revs
ASSUME CronFiniteAssumption == IsFiniteSet(Crons)
ASSUME CronBoundAssumption ==
  /\ MaxRequests \in Nat /\ MaxCrashes \in Nat /\ MaxFailures \in Nat /\ MaxKept \in Nat
  /\ SlowRestart \in BOOLEAN

VARIABLES
  docs,      \* MongoDB: cronjob
  scheduled, \* MongoDB: schedule_enabled of the tests
  queue,     \* MongoDB: msg_queue_common, messages for the cron service
  calls,     \* the database calls a request has still to make
  cron,      \* the cron service: where it is, and what it has read
  timers,    \* the timers in the memory of the cron service
  disabling, \* aslan: documents that DisableCronjob has read and will write back
  used,      \* ids and names given so far
  gone,      \* workflows deleted
  asked,     \* history: the timer each user asked for last
  clean,     \* history: no message was given up since the cron service started
  started, crashes, failures, kept

vars == <<docs, scheduled, queue, calls, cron, timers, disabling, used, gone, asked,
          clean, started, crashes, failures, kept>>

NoDoc == [enabled |-> FALSE, rev |-> None]
NoTimers == [c \in Crons |-> None]
Exists(c) == docs[c] # NoDoc
Of(o) == {c \in Crons : Owner[c] = o}

-----------------------------------------------------------------------------
(* Calls of a request, in the order the code makes them. *)

Enable(jobs, deletes) ==
  [action |-> "enable", owner |-> None, jobs |-> jobs, deletes |-> deletes]
Disable(t) == [action |-> "disable", owner |-> t, jobs |-> <<>>, deletes |-> {}]
Schedule(c, rev) == [id |-> c, rev |-> rev]

\* The timers ts with those of the jobs registered, each in place of an earlier one.
Scheduled(jobs, ts) ==
  [c \in Crons |-> IF \E i \in DOMAIN jobs : jobs[i].id = c
                   THEN jobs[CHOOSE i \in DOMAIN jobs : jobs[i].id = c].rev ELSE ts[c]]

Put(kind, c, rev, on) ==
  [call |-> kind, id |-> c, doc |-> [enabled |-> on, rev |-> rev]]
Push(msg) == [call |-> "push", msg |-> msg]
Delete(cs) == [call |-> "delete", ids |-> cs]
DeleteOf(o) == [call |-> "deleteOf", owner |-> o]
SaveTest(t, on) == [call |-> "saveTest", test |-> t, on |-> on]

\* The request r starts on owner o: its first reads are done and seq is what is left.
\* Users edit one workflow or test one after the other.
Start(r, o, seq, want) ==
  /\ calls[r].seq = <<>> /\ started < MaxRequests /\ o \notin gone
  /\ \A q \in Requests : calls[q].seq # <<>> => calls[q].owner # o
  /\ calls' = [calls EXCEPT ![r] = [owner |-> o, seq |-> seq]]
  /\ asked' = [c \in Crons |-> IF Owner[c] = o THEN want[c] ELSE asked[c]]
  /\ started' = started + 1
  /\ UNCHANGED <<docs, scheduled, queue, cron, timers, disabling, clean, crashes, failures, kept>>

Want(c, on, rev) == [asked EXCEPT ![c] = IF on THEN rev ELSE None]

CreateCronForWorkflowV4(r, c, rev, on) ==
  /\ Owner[c] \in Workflows /\ c \notin used
  /\ Start(r, Owner[c],
           <<Put("create", c, rev, on)>>
             \o (IF on THEN <<Push(Enable(<<Schedule(c, rev)>>, {}))>> ELSE <<>>),
           Want(c, on, rev))
  /\ used' = used \cup {c}
  /\ UNCHANGED gone

UpdateCronForWorkflowV4(r, c, rev, on) ==
  /\ Owner[c] \in Workflows /\ Exists(c)
  /\ Start(r, Owner[c],
           <<Put("update", c, rev, on),
             Push(IF on THEN Enable(<<Schedule(c, rev)>>, {}) ELSE Enable(<<>>, {c}))>>,
           Want(c, on, rev))
  /\ UNCHANGED <<used, gone>>

DeleteCronForWorkflowV4(r, c) ==
  /\ Owner[c] \in Workflows /\ Exists(c)
  /\ Start(r, Owner[c], <<Push(Enable(<<>>, {c})), Delete({c})>>, Want(c, FALSE, None))
  /\ UNCHANGED <<used, gone>>

\* Deletion with the project or a collaboration mode.
DeleteWorkflowV4(r, w) ==
  /\ w \in Workflows
  /\ Start(r, w, <<Push(Enable(<<>>, {c \in Of(w) : Exists(c)})), DeleteOf(w)>>, NoTimers)
  /\ gone' = gone \cup {w}
  /\ UNCHANGED used

\* The items of a test that exist are updated, new ones created, and documents of no item
\* deleted; then the message is pushed.
Stale(t, items) == {c \in Of(t) : Exists(c)} \ {items[i].id : i \in DOMAIN items}

UpdateCronjob(t, items) ==
  [i \in DOMAIN items |-> Put(IF Exists(items[i].id) THEN "update" ELSE "create",
                              items[i].id, items[i].rev, TRUE)]
  \o <<Delete(Stale(t, items))>>

HandleCronjob(t, items, on) ==
  IF on THEN UpdateCronjob(t, items) \o <<Push(Enable(items, Stale(t, items)))>>
        ELSE <<Push(Disable(t))>>

\* The test itself, with its schedule_enabled, is saved last.
UpdateTesting(r, t, items, on) ==
  LET ids == {items[i].id : i \in DOMAIN items}
  IN /\ t \in Tests /\ (~on => items = <<>>)
     /\ \A c \in ids : Owner[c] = t /\ (c \in used => Exists(c))
     /\ Start(r, t, HandleCronjob(t, items, on) \o <<SaveTest(t, on)>>, Scheduled(items, NoTimers))
     /\ used' = used \cup ids
     /\ UNCHANGED gone

\* Mutant: the contents are cleared and the document stays.
Written_softdelete(call, ds) ==
  IF call.call = "delete" THEN [c \in Crons |-> IF c \in call.ids THEN [ds[c] EXCEPT !.rev = None] ELSE ds[c]]
  ELSE IF call.call \in {"create", "update"} THEN [ds EXCEPT ![call.id] = call.doc] ELSE ds

\* What one call changes.
Written(call, ds) ==
  CASE call.call = "create" -> [ds EXCEPT ![call.id] = call.doc]
    [] call.call = "update" -> IF ds[call.id] = NoDoc THEN ds ELSE [ds EXCEPT ![call.id] = call.doc]
    [] call.call = "delete" -> [c \in Crons |-> IF c \in call.ids THEN NoDoc ELSE ds[c]]
    [] call.call = "deleteOf" -> [c \in Crons |-> IF Owner[c] = call.owner THEN NoDoc ELSE ds[c]]
    [] OTHER -> ds

Call(r) ==
  /\ calls[r].seq # <<>>
  /\ LET call == Head(calls[r].seq)
     IN /\ docs' = Written(call, docs)
        /\ queue' = IF call.call = "push" THEN Append(queue, call.msg) ELSE queue
        /\ scheduled' = IF call.call = "saveTest" THEN [scheduled EXCEPT ![call.test] = call.on]
                                                  ELSE scheduled
  /\ calls' = [calls EXCEPT ![r].seq = Tail(@)]
  /\ UNCHANGED <<cron, timers, disabling, used, gone, asked, clean, started, crashes,
                 failures, kept>>

-----------------------------------------------------------------------------
(* The cron service. *)

Down == [pc |-> "down", active |-> NoTimers, tests |-> {}, failsafe |-> NoTimers,
         got |-> {}, batch |-> <<>>, at |-> 1, left |-> 0]

CronUnchanged == UNCHANGED <<scheduled, calls, used, gone, asked, started, crashes>>

CronStart ==
  /\ cron.pc = "down"
  /\ SlowRestart => \A r \in Requests : calls[r].seq = <<>>
  /\ cron' = [cron EXCEPT !.pc = "init"]
  /\ clean' = TRUE
  /\ UNCHANGED <<docs, queue, timers, disabling, failures, kept>> /\ CronUnchanged

\* Two goroutines of InitExistedCronjob ask aslan for the active jobs and for those of
\* the definitions with an enabled schedule.
ListActiveCronjob ==
  /\ cron.pc \in {"init", "safe"} /\ "active" \notin cron.got
  /\ cron' = [cron EXCEPT !.got = @ \cup {"active"},
                !.active = [c \in Crons |-> IF docs[c].enabled THEN docs[c].rev ELSE None]]
  /\ UNCHANGED <<docs, queue, timers, disabling, clean, failures, kept>> /\ CronUnchanged

ListWithScheduleEnabled ==
  /\ cron.pc \in {"init", "safe"} /\ "tests" \notin cron.got
  /\ cron' = [cron EXCEPT !.got = @ \cup {"tests"}, !.tests = {t \in Tests : scheduled[t]}]
  /\ UNCHANGED <<docs, queue, timers, disabling, clean, failures, kept>> /\ CronUnchanged

\* Mutant: the failsafe list looks at the documents' flags as well.
ListActiveCronjobFailsafe_enabled ==
  /\ cron.pc \in {"init", "safe"} /\ "tests" \in cron.got /\ "failsafe" \notin cron.got
  /\ cron' = [cron EXCEPT !.got = @ \cup {"failsafe"},
                !.failsafe = [c \in Crons |-> IF Owner[c] \in cron.tests /\ docs[c].enabled
                                              THEN docs[c].rev ELSE None]]
  /\ UNCHANGED <<docs, queue, timers, disabling, clean, failures, kept>> /\ CronUnchanged

ListActiveCronjobFailsafe ==
  /\ cron.pc \in {"init", "safe"} /\ "tests" \in cron.got /\ "failsafe" \notin cron.got
  /\ cron' = [cron EXCEPT !.got = @ \cup {"failsafe"},
                !.failsafe = [c \in Crons |-> IF Owner[c] \in cron.tests THEN docs[c].rev ELSE None]]
  /\ UNCHANGED <<docs, queue, timers, disabling, clean, failures, kept>> /\ CronUnchanged

\* registerCronjob for each listed job; one that cannot be registered is only reported.
Registered(list) ==
  [c \in Crons |-> IF list[c] \in Revs \ BadRevs THEN list[c] ELSE timers[c]]

InitExistedCronjob ==
  /\ \/ /\ cron.pc = "init" /\ "active" \in cron.got
        /\ timers' = Registered(cron.active)
        /\ cron' = [cron EXCEPT !.pc = "safe"]
     \/ /\ cron.pc = "safe" /\ "failsafe" \in cron.got
        /\ timers' = Registered(cron.failsafe)
        /\ cron' = [Down EXCEPT !.pc = "idle"]
  /\ UNCHANGED <<docs, queue, disabling, clean, failures, kept>> /\ CronUnchanged

ListQueue ==
  /\ cron.pc = "idle" /\ queue # <<>>
  /\ cron' = [cron EXCEPT !.pc = "delete", !.batch = queue, !.at = 1, !.left = 0]
  /\ UNCHANGED <<docs, queue, timers, disabling, clean, failures, kept>> /\ CronUnchanged

\* Mutant: the first message of a batch is not deleted.
DeleteMsg_keepsfirst ==
  /\ cron.pc = "delete"
  /\ queue' = IF cron.at = 1 THEN queue ELSE <<Head(queue)>> \o SubSeq(queue, 3, Len(queue))
  /\ cron' = [cron EXCEPT !.pc = IF cron.at = Len(cron.batch) THEN "handle" ELSE "delete", !.at = @ + 1]
  /\ UNCHANGED <<docs, timers, disabling, clean, failures, kept>> /\ CronUnchanged

\* Each listed message is deleted before any is handled; an error leaves it in the queue.
DeleteMsg ==
  /\ cron.pc = "delete"
  /\ LET n    == cron.left + 1
         next == IF cron.at = Len(cron.batch) THEN "handle" ELSE "delete"
     IN \/ /\ queue' = SubSeq(queue, 1, n - 1) \o SubSeq(queue, n + 1, Len(queue))
           /\ cron' = [cron EXCEPT !.pc = next, !.at = @ + 1]
           /\ UNCHANGED kept
        \/ /\ kept < MaxKept /\ kept' = kept + 1
           /\ cron' = [cron EXCEPT !.pc = next, !.at = @ + 1, !.left = n]
           /\ UNCHANGED queue
  /\ UNCHANGED <<docs, timers, disabling, clean, failures>> /\ CronUnchanged

\* On to the next message of the batch; after an error HandleMessage gives the rest up.
Handled(rest) == [Down EXCEPT !.pc = IF rest = <<>> THEN "idle" ELSE "handle", !.batch = rest]

\* The jobs up to the first whose cron expression the scheduler refuses.
Accepted(jobs) ==
  SubSeq(jobs, 1, Cardinality({i \in DOMAIN jobs : \A k \in 1..i : jobs[k].rev \notin BadRevs}))

\* Mutant: the delete list is ignored.
updateCronjob_nodelete ==
  /\ cron.pc = "handle" /\ Head(cron.batch).action = "enable"
  /\ LET msg == Head(cron.batch)
     IN /\ timers' = Scheduled(Accepted(msg.jobs), timers)
        /\ cron' = Handled(Tail(cron.batch))
  /\ UNCHANGED <<docs, queue, disabling, clean, failures, kept>> /\ CronUnchanged

updateCronjob ==
  /\ cron.pc = "handle" /\ Head(cron.batch).action = "enable"
  /\ LET msg == Head(cron.batch)
         ok  == Accepted(msg.jobs) = msg.jobs
     IN /\ timers' = Scheduled(Accepted(msg.jobs),
                               [c \in Crons |-> IF c \in msg.deletes THEN None ELSE timers[c]])
        /\ cron' = Handled(IF ok THEN Tail(cron.batch) ELSE <<>>)
        /\ clean' = (clean /\ ok)
  /\ UNCHANGED <<docs, queue, disabling, failures, kept>> /\ CronUnchanged

\* stopCronjob asks aslan for the jobs, stops their timers and asks aslan to disable them.
stopCronjob ==
  /\ cron.pc = "handle" /\ Head(cron.batch).action = "disable"
  /\ \/ /\ timers' = [c \in Crons |->
                        IF Owner[c] = Head(cron.batch).owner /\ Exists(c) THEN None ELSE timers[c]]
        /\ cron' = [cron EXCEPT !.pc = "disable"]
        /\ UNCHANGED <<failures, clean>>
     \/ /\ failures < MaxFailures /\ failures' = failures + 1
        /\ clean' = FALSE
        /\ cron' = Handled(<<>>)
        /\ UNCHANGED timers
  /\ UNCHANGED <<docs, queue, disabling, kept>> /\ CronUnchanged

DisableRequest ==
  /\ cron.pc = "disable" /\ disabling = NoTimers
  /\ \/ /\ disabling' = [c \in Crons |->
                           IF Owner[c] = Head(cron.batch).owner THEN docs[c].rev ELSE None]
        /\ cron' = [cron EXCEPT !.pc = "wait"]
        /\ UNCHANGED failures
     \/ /\ failures < MaxFailures /\ failures' = failures + 1
        /\ cron' = Handled(Tail(cron.batch))
        /\ UNCHANGED disabling
  /\ UNCHANGED <<docs, queue, timers, clean, kept>> /\ CronUnchanged

\* aslan writes a listed document back, disabled, with the contents it has read.
DisableCronjob(c) ==
  /\ disabling[c] # None
  /\ docs' = IF Exists(c) THEN [docs EXCEPT ![c] = [enabled |-> FALSE, rev |-> disabling[c]]]
                          ELSE docs
  /\ disabling' = [disabling EXCEPT ![c] = None]
  /\ UNCHANGED <<queue, cron, timers, clean, failures, kept>> /\ CronUnchanged

DisableAnswer ==
  /\ cron.pc = "wait" /\ disabling = NoTimers
  /\ cron' = Handled(Tail(cron.batch))
  /\ UNCHANGED <<docs, queue, timers, disabling, clean, failures, kept>> /\ CronUnchanged

Crash ==
  /\ cron.pc # "down" /\ crashes < MaxCrashes
  /\ crashes' = crashes + 1
  /\ cron' = Down
  /\ timers' = NoTimers
  /\ UNCHANGED <<docs, scheduled, queue, calls, disabling, used, gone, asked, clean,
                 started, failures, kept>>

-----------------------------------------------------------------------------
Items(t) ==
  UNION {{s \in [1..n -> [id : Of(t), rev : Revs]] :
            \A i, k \in 1..n : s[i].id = s[k].id => i = k} : n \in 0..Cardinality(Of(t))}

Init ==
  /\ docs = [c \in Crons |-> NoDoc]
  /\ scheduled = [t \in Tests |-> FALSE]
  /\ queue = <<>>
  /\ calls = [r \in Requests |-> [owner |-> None, seq |-> <<>>]]
  /\ cron = Down
  /\ timers = NoTimers
  /\ disabling = NoTimers
  /\ used = {} /\ gone = {}
  /\ asked = NoTimers
  /\ clean = TRUE
  /\ started = 0 /\ crashes = 0 /\ failures = 0 /\ kept = 0

WorkflowRequest(r) ==
  \/ \E c \in Crons :
       \/ \E rev \in Revs, on \in BOOLEAN :
            CreateCronForWorkflowV4(r, c, rev, on) \/ UpdateCronForWorkflowV4(r, c, rev, on)
       \/ DeleteCronForWorkflowV4(r, c)
  \/ \E w \in Workflows : DeleteWorkflowV4(r, w)

TestRequest(r) ==
  \E t \in Tests : \E items \in Items(t), on \in BOOLEAN : UpdateTesting(r, t, items, on)

CronStep ==
  \/ CronStart \/ ListActiveCronjob \/ ListWithScheduleEnabled \/ ListActiveCronjobFailsafe
  \/ InitExistedCronjob \/ ListQueue \/ DeleteMsg \/ updateCronjob \/ stopCronjob
  \/ DisableRequest \/ DisableAnswer

Next ==
  \/ \E r \in Requests : WorkflowRequest(r) \/ TestRequest(r) \/ Call(r)
  \/ CronStep
  \/ \E c \in Crons : DisableCronjob(c)
  \/ Crash

Spec == Init /\ [][Next]_vars

\* Requests that were started and the loop of the cron service go on; aslan answers.
Fairness ==
  /\ \A r \in Requests : WF_vars(Call(r))
  /\ WF_vars(CronStep)
  /\ \A c \in Crons : WF_vars(DisableCronjob(c))

FairSpec == Spec /\ Fairness

-----------------------------------------------------------------------------
Contents == Revs \cup {None}
Message == [action : {"enable", "disable"}, owner : Tests \cup {None},
            jobs : Seq([id : Crons, rev : Revs]), deletes : SUBSET Crons]

\* The collections, the cron service and its timers stay well formed.
TypeOK ==
  /\ docs \in [Crons -> [enabled : BOOLEAN, rev : Contents]]
  /\ \A c \in Crons : docs[c].enabled => docs[c].rev \in Revs
  /\ scheduled \in [Tests -> BOOLEAN]
  /\ queue \in Seq(Message)
  /\ cron \in [pc : {"down", "init", "safe", "idle", "delete", "handle", "disable", "wait"},
               active : [Crons -> Contents], tests : SUBSET Tests,
               failsafe : [Crons -> Contents], got : SUBSET {"active", "tests", "failsafe"},
               batch : Seq(Message), at : Nat, left : Nat]
  /\ timers \in [Crons -> Contents] /\ disabling \in [Crons -> Contents]
  /\ asked \in [Crons -> Contents]
  /\ used \subseteq Crons /\ gone \subseteq Workflows

\* Nobody has anything left to do.
Quiet ==
  /\ cron.pc = "idle" /\ queue = <<>> /\ disabling = NoTimers
  /\ \A r \in Requests : calls[r].seq = <<>>

\* Nothing has failed so far.
Undisturbed == crashes = 0 /\ failures = 0 /\ kept = 0 /\ clean

\* Once all messages are handled each timer is what its user asked for last, whatever
\* batches the messages of different users were handled in (HandleMessage) and however
\* late aslan rewrites the documents of a disabled test (DisableCronjob).
Synced == Quiet /\ Undisturbed => timers = asked

\* A restart between any two steps makes up for the messages the cron service had deleted or
\* given up before (InitExistedCronjob, ListActiveCronjobFailsafe): no timer is lost, and
\* those of workflows are what their users asked for.
RestartRestores ==
  Quiet /\ clean /\ kept = 0 =>
    \A c \in Crons : asked[c] \notin BadRevs =>
      /\ asked[c] # None /\ docs[c].rev \notin BadRevs => timers[c] # None
      /\ Owner[c] \in Workflows => timers[c] = asked[c]

\* The cron service comes to rest with an empty queue: no message that fails, and none whose
\* deletion fails, blocks the queue behind it. Later messages of a failing one's batch are
\* dropped with it, not handled (HandleMessage returns at the first error).
QueueDrains == <>[]Quiet
=============================================================================
