-------------------------- MODULE CronTimersProofs --------------------------
(* The timers of workflows and tests, for any cronjobs, requests at a time,  *)
(* contents and numbers of requests, crashes and failures.                   *)
EXTENDS CronTimers, SequenceTheorems, FiniteSetTheorems, TLAPS

-----------------------------------------------------------------------------
(* Types of what TypeOK leaves out.                                          *)

Job == [id : Crons, rev : Revs]
PutCall == [call : {"create", "update"}, id : Crons, doc : [enabled : BOOLEAN, rev : Revs]]
PushCall == [call : {"push"}, msg : Message]
DeleteCall == [call : {"delete"}, ids : SUBSET Crons]
DeleteOfCall == [call : {"deleteOf"}, owner : Workflows]
SaveCall == [call : {"saveTest"}, test : Tests, on : BOOLEAN]
AnyCall == PutCall \cup PushCall \cup DeleteCall \cup DeleteOfCall \cup SaveCall

CallsTyped ==
  calls \in [Requests -> [owner : Workflows \cup Tests \cup {None}, seq : Seq(AnyCall)]]

\* A batch is handled to its end, and what DeleteMsg has still to delete is in the queue.
BatchInv ==
  /\ cron.pc \in {"delete", "handle", "disable", "wait"} => cron.batch # <<>>
  /\ cron.pc = "delete" =>
       /\ cron.at \in 1..Len(cron.batch)
       /\ cron.left + Len(cron.batch) < Len(queue) + cron.at

CountInv == crashes \in Nat /\ failures \in Nat /\ kept \in Nat /\ clean \in BOOLEAN

Typed == TypeOK /\ CallsTyped /\ BatchInv /\ CountInv

-----------------------------------------------------------------------------
(* What a message does to a timer.  ds are the documents, as the timers      *)
(* asked for, cs the calls still to be made.                                 *)

Named(m, c) == \E i \in DOMAIN m.jobs : m.jobs[i].id = c

\* The message is about the cronjob.
Bears(m, c) ==
  IF m.action = "enable" THEN c \in m.deletes \/ Named(m, c) ELSE m.owner = Owner[c]

\* The message changes the timer: one that disables a test passes over missing documents.
Told(m, c, ds) == Bears(m, c) /\ (m.action = "enable" \/ ds[c] # NoDoc)

\* What it makes of the timer.
Value(m, c) ==
  IF m.action = "enable" /\ Named(m, c)
  THEN m.jobs[CHOOSE i \in DOMAIN m.jobs : m.jobs[i].id = c].rev ELSE None

\* The last message of x that changes the timer makes it what the user asked for.
Settles(x, c, ds, as) ==
  \E i \in DOMAIN x :
    /\ Told(x[i], c, ds) /\ Value(x[i], c) = as[c]
    /\ \A k \in DOMAIN x : k > i => ~Told(x[k], c, ds)

Silent(x, c, ds) == \A k \in DOMAIN x : ~Told(x[k], c, ds)

\* A request has still to push a message that changes the timer.
Owed(c, cs, ds) ==
  \E r \in Requests : \E i \in DOMAIN cs[r].seq :
    cs[r].seq[i].call = "push" /\ Told(cs[r].seq[i].msg, c, ds)

\* The messages under way leave the timer right; base is what holds of one no message is about.
Meets(c, cs, q, x, ds, as, base) ==
  \/ Owed(c, cs, ds)
  \/ Settles(q, c, ds, as)
  \/ /\ Silent(q, c, ds)
     /\ Settles(x, c, ds, as) \/ (Silent(x, c, ds) /\ base)

\* Messages of the batch that are deleted and not yet handled.
Rest ==
  CASE cron.pc = "delete" -> SubSeq(cron.batch, 1, cron.at - 1)
    [] cron.pc = "handle" -> cron.batch
    [] cron.pc \in {"disable", "wait"} -> Tail(cron.batch)
    [] OTHER -> <<>>

\* As long as no deletion failed the queue starts with what is left of the batch.
Aligned ==
  cron.pc = "delete" =>
    /\ cron.left = 0
    /\ \A i \in cron.at..Len(cron.batch) : queue[i - cron.at + 1] = cron.batch[i]

-----------------------------------------------------------------------------
(* What the calls of a request have to do with what its user asked for.      *)

\* A message about c follows the i-th call.
Follows(s, i, c) ==
  \E k \in DOMAIN s :
    k > i /\ s[k].call = "push" /\ s[k].msg.action = "enable" /\ Bears(s[k].msg, c)

Removes(x, c) == x.call = "deleteOf" \/ (x.call = "delete" /\ c \in x.ids)
Puts(x, c) == x.call \in {"create", "update"} /\ x.id = c

RightPut(s, i, o, as) ==
  LET x == s[i] IN
  x.call \in {"create", "update"} =>
    /\ Owner[x.id] = o
    /\ IF x.doc.enabled THEN as[x.id] = x.doc.rev /\ Follows(s, i, x.id)
                        ELSE as[x.id] = None /\ o \notin Tests
    /\ x.call = "update" => \A k \in DOMAIN s : ~Removes(s[k], x.id)

RightDelete(s, i, o, as) ==
  s[i].call = "delete" =>
    \A c \in s[i].ids : Owner[c] = o /\ as[c] = None /\ (o \in Tests => Follows(s, i, c))

RightDeleteOf(x, o, as) == x.call = "deleteOf" => x.owner = o /\ \A c \in Of(o) : as[c] = None

RightPush(x, o, as) ==
  x.call = "push" => \A c \in Crons : Bears(x.msg, c) => Owner[c] = o /\ Value(x.msg, c) = as[c]

RightSave(x, o, as) ==
  x.call = "saveTest" => x.test = o /\ (x.on \/ \A c \in Of(o) : as[c] = None)

RightCall(s, i, o, as) ==
  /\ RightPut(s, i, o, as) /\ RightDelete(s, i, o, as) /\ RightDeleteOf(s[i], o, as)
  /\ RightPush(s[i], o, as) /\ RightSave(s[i], o, as)

CallInv ==
  \A r \in Requests : \A i \in DOMAIN calls[r].seq :
    RightCall(calls[r].seq, i, calls[r].owner, asked)

\* One request at a time on a workflow or test.
OwnerInv ==
  \A r, q \in Requests :
    calls[r].seq # <<>> /\ calls[q].seq # <<>> /\ calls[r].owner = calls[q].owner => r = q

HasPut(kinds, c) ==
  \E r \in Requests : \E i \in DOMAIN calls[r].seq :
    calls[r].seq[i].call \in kinds /\ calls[r].seq[i].id = c

\* Documents that are asked for exist or are about to, and those to be updated exist.
DocInv ==
  \A c \in Crons :
    /\ docs[c] = NoDoc \/ docs[c].rev \in Revs
    /\ asked[c] # None => Exists(c) \/ HasPut({"create"}, c)
    /\ HasPut({"update"}, c) => Exists(c)
    /\ Exists(c) \/ HasPut({"create"}, c) => c \in used

Sound == Typed /\ CallInv /\ OwnerInv /\ DocInv

-----------------------------------------------------------------------------
(* Undisturbed: the first start of the cron service finds only what the      *)
(* messages say as well.                                                     *)

Early == cron.pc \in {"down", "init", "safe"}

FirstBase(c) ==
  IF Early
  THEN /\ asked[c] = None /\ timers[c] = None /\ cron.active[c] = None /\ cron.failsafe[c] = None
       /\ ~docs[c].enabled /\ (Owner[c] \in Tests => docs[c] = NoDoc)
  ELSE timers[c] = asked[c]

FirstMet(c) == crashes = 0 /\ failures = 0 /\ clean => FirstBase(c)

FirstInv ==
  /\ crashes = 0 /\ cron.pc = "down" => clean
  /\ kept = 0 =>
       Aligned /\ \A c \in Crons : Meets(c, calls, queue, Rest, docs, asked, FirstMet(c))

-----------------------------------------------------------------------------
(* Restarts: what the documents say is what was asked for.                   *)

DownInv == cron.pc = "down" => cron = Down /\ timers = NoTimers

Effective(d) == IF d.enabled THEN d.rev ELSE None

\* A put or a removal to come on a cronjob of a workflow.
Rewrites(c, cs) ==
  \E r \in Requests : \E i \in DOMAIN cs[r].seq :
    cs[r].owner = Owner[c] /\ (Puts(cs[r].seq[i], c) \/ Removes(cs[r].seq[i], c))

\* The test is still to be saved.
Saves(c, cs) ==
  \E r \in Requests : \E i \in DOMAIN cs[r].seq :
    cs[r].seq[i].call = "saveTest" /\ cs[r].owner = Owner[c]

Flow(c) ==
  Owner[c] \in Workflows =>
    disabling[c] = None /\ (Effective(docs[c]) = asked[c] \/ Rewrites(c, calls))

\* A document that differs from what was asked for is one that DisableCronjob wrote back.
Test(c) ==
  Owner[c] \in Tests /\ asked[c] # None =>
    /\ scheduled[Owner[c]] \/ Saves(c, calls)
    /\ \/ docs[c].rev = asked[c] \/ HasPut({"create", "update"}, c)
       \/ disabling[c] \in {None, docs[c].rev}

DocsInv == \A c \in Crons : Flow(c) /\ Test(c)

FlowBase(c) ==
  IF cron.pc \in {"init", "safe"}
  THEN /\ Effective(docs[c]) = asked[c] /\ cron.failsafe[c] = None
       /\ "active" \in cron.got => cron.active[c] = asked[c]
       /\ timers[c] = IF cron.pc = "init" THEN None ELSE asked[c]
  ELSE timers[c] = asked[c]

TestBase(c) ==
  IF cron.pc \in {"init", "safe"}
  THEN /\ scheduled[Owner[c]]
       /\ "tests" \in cron.got => Owner[c] \in cron.tests
       /\ "failsafe" \in cron.got => cron.failsafe[c] \in Revs \ BadRevs \/ docs[c].rev \in BadRevs
  ELSE timers[c] # None \/ docs[c].rev \in BadRevs

RestartBase(c) ==
  cron.pc = "down" \/ asked[c] \in BadRevs
    \/ IF Owner[c] \in Workflows THEN FlowBase(c) ELSE asked[c] # None => TestBase(c)

RestartMet(c) == clean => RestartBase(c)

RestartInv ==
  kept = 0 =>
    Aligned /\ \A c \in Crons : Meets(c, calls, queue, Rest, docs, asked, RestartMet(c))

-----------------------------------------------------------------------------
(* Types.                                                                    *)

LEMMA NamesApart ==
  /\ None \notin Crons /\ None \notin Revs /\ None \notin Workflows /\ None \notin Tests
  /\ \A c \in Crons : Owner[c] \in Workflows \cup Tests /\ Owner[c] # None
  /\ \A o : ~(o \in Workflows /\ o \in Tests)
  /\ BadRevs \subseteq Revs
BY CronNameAssumption, CronOwnerAssumption

LEMMA CallKinds ==
  ASSUME NEW x \in AnyCall
  PROVE  /\ x.call \in {"create", "update"} => x \in PutCall
         /\ x.call = "push" => x \in PushCall
         /\ x.call = "delete" => x \in DeleteCall
         /\ x.call = "deleteOf" => x \in DeleteOfCall
         /\ x.call = "saveTest" => x \in SaveCall
         /\ x.call \in {"create", "update", "push", "delete", "deleteOf", "saveTest"}
BY DEF AnyCall, PutCall, PushCall, DeleteCall, DeleteOfCall, SaveCall

LEMMA MadeCalls ==
  /\ \A k \in {"create", "update"}, c \in Crons, rev \in Revs, on \in BOOLEAN :
       Put(k, c, rev, on) \in AnyCall
  /\ \A m \in Message : Push(m) \in AnyCall
  /\ \A cs \in SUBSET Crons : Delete(cs) \in AnyCall
  /\ \A w \in Workflows : DeleteOf(w) \in AnyCall
  /\ \A t \in Tests, on \in BOOLEAN : SaveTest(t, on) \in AnyCall
BY DEF AnyCall, PutCall, PushCall, DeleteCall, DeleteOfCall, SaveCall,
       Put, Push, Delete, DeleteOf, SaveTest

LEMMA MadeMessages ==
  /\ \A jobs \in Seq(Job), ds \in SUBSET Crons : Enable(jobs, ds) \in Message
  /\ \A t \in Tests : Disable(t) \in Message
  /\ \A c \in Crons, rev \in Revs : Schedule(c, rev) \in Job
<1>1. \A jobs \in Seq(Job), ds \in SUBSET Crons : Enable(jobs, ds) \in Message
  BY DEF Enable, Message, Job
<1>2. \A t \in Tests : Disable(t) \in Message
  <2>1. <<>> \in Seq(Job) OBVIOUS
  <2> QED BY <2>1 DEF Disable, Message, Job
<1>3. \A c \in Crons, rev \in Revs : Schedule(c, rev) \in Job BY DEF Schedule, Job
<1> QED BY <1>1, <1>2, <1>3

LEMMA ScheduledTyped ==
  ASSUME NEW jobs \in Seq(Job), NEW ts \in [Crons -> Contents]
  PROVE  Scheduled(jobs, ts) \in [Crons -> Contents]
<1> SUFFICES ASSUME NEW c \in Crons, \E i \in DOMAIN jobs : jobs[i].id = c
             PROVE  jobs[CHOOSE i \in DOMAIN jobs : jobs[i].id = c].rev \in Contents
  BY DEF Scheduled
<1> DEFINE k == CHOOSE i \in DOMAIN jobs : jobs[i].id = c
<1>1. k \in DOMAIN jobs OBVIOUS
<1> HIDE DEF k
<1>2. jobs[k] \in Job BY <1>1, ElementOfSeq
<1> QED BY <1>2 DEF Job, Contents, k

LEMMA AcceptedTyped ==
  ASSUME NEW jobs \in Seq(Job)
  PROVE  Accepted(jobs) \in Seq(Job)
<1> DEFINE S == {i \in DOMAIN jobs : \A k \in 1..i : jobs[k].rev \notin BadRevs}
<1>1. S \subseteq 1..Len(jobs) /\ Len(jobs) \in Nat BY LenProperties
<1>2. IsFiniteSet(1..Len(jobs)) /\ Cardinality(1..Len(jobs)) = Len(jobs)
  <2>1. PICK n \in Nat : n = Len(jobs) BY <1>1
  <2>2. /\ IsFiniteSet(1..n)
        /\ Cardinality(1..n) = IF 1 > n THEN 0 ELSE n - 1 + 1
    BY FS_Interval
  <2> QED BY <2>1, <2>2
<1>3. Cardinality(S) \in Nat /\ Cardinality(S) <= Len(jobs)
  BY <1>1, <1>2, FS_Subset, FS_CardinalityType
<1> HIDE DEF S
<1>4. SubSeq(jobs, 1, Cardinality(S)) \in Seq(Job)
  BY <1>1, <1>3, SubSeqProperties
<1> QED BY <1>4 DEF Accepted, S

LEMMA WrittenTyped ==
  ASSUME NEW x \in AnyCall, NEW ds \in [Crons -> [enabled : BOOLEAN, rev : Contents]],
         \A c \in Crons : ds[c].enabled => ds[c].rev \in Revs
  PROVE  /\ Written(x, ds) \in [Crons -> [enabled : BOOLEAN, rev : Contents]]
         /\ \A c \in Crons : Written(x, ds)[c].enabled => Written(x, ds)[c].rev \in Revs
<1>1. NoDoc \in [enabled : BOOLEAN, rev : Contents] /\ ~NoDoc.enabled BY DEF NoDoc, Contents
<1>2. CASE x.call \in {"create", "update"}
  <2>1. x.id \in Crons /\ x.doc \in [enabled : BOOLEAN, rev : Contents] /\ x.doc.rev \in Revs
    BY <1>2, CallKinds DEF PutCall, Contents
  <2> QED BY <1>2, <2>1 DEF Written
<1>3. CASE x.call = "delete" BY <1>1, <1>3 DEF Written
<1>4. CASE x.call = "deleteOf" BY <1>1, <1>4 DEF Written
<1>5. CASE x.call \in {"push", "saveTest"} BY <1>5 DEF Written
<1> QED BY <1>2, <1>3, <1>4, <1>5, CallKinds

-----------------------------------------------------------------------------
(* What the messages of a request are about.                                 *)

LEMMA EnableBears ==
  ASSUME NEW jobs \in Seq(Job), NEW ds \in SUBSET Crons, NEW c
  PROVE  /\ Enable(jobs, ds).action = "enable"
         /\ Bears(Enable(jobs, ds), c) <=> c \in ds \/ \E i \in DOMAIN jobs : jobs[i].id = c
         /\ \/ \E i \in DOMAIN jobs : jobs[i].id = c /\ Value(Enable(jobs, ds), c) = jobs[i].rev
            \/ /\ ~\E i \in DOMAIN jobs : jobs[i].id = c
               /\ Value(Enable(jobs, ds), c) = None
<1> DEFINE m == Enable(jobs, ds)
<1>1. m.action = "enable" /\ m.jobs = jobs /\ m.deletes = ds BY DEF Enable
<1> HIDE DEF m
<1>2. Bears(m, c) <=> c \in ds \/ \E i \in DOMAIN jobs : jobs[i].id = c
  BY <1>1 DEF Bears, Named
<1>3. CASE \E i \in DOMAIN jobs : jobs[i].id = c
  <2> DEFINE k == CHOOSE i \in DOMAIN jobs : jobs[i].id = c
  <2>1. k \in DOMAIN jobs /\ jobs[k].id = c BY <1>3
  <2>2. Value(m, c) = jobs[k].rev BY <1>1, <1>3 DEF Value, Named
  <2> QED BY <1>1, <1>2, <2>1, <2>2 DEF m
<1>4. CASE ~\E i \in DOMAIN jobs : jobs[i].id = c
  <2>1. Value(m, c) = None BY <1>1, <1>4 DEF Value, Named
  <2> QED BY <1>1, <1>2, <1>4, <2>1 DEF m
<1> QED BY <1>3, <1>4

LEMMA EnableOne ==
  ASSUME NEW c \in Crons, NEW rev \in Revs
  PROVE  LET m == Enable(<<Schedule(c, rev)>>, {})
         IN /\ m \in Message /\ m.action = "enable"
            /\ \A x : Bears(m, x) <=> x = c
            /\ Value(m, c) = rev
<1> DEFINE jobs == <<Schedule(c, rev)>>
<1>1. jobs \in Seq(Job) /\ DOMAIN jobs = {1} /\ jobs[1].id = c /\ jobs[1].rev = rev
  BY MadeMessages DEF Schedule
<1>2. {} \in SUBSET Crons OBVIOUS
<1> HIDE DEF jobs
<1>3. Enable(jobs, {}) \in Message BY <1>1, <1>2, MadeMessages
<1>4. \A x : Bears(Enable(jobs, {}), x) <=> x = c BY <1>1, <1>2, EnableBears
<1>5. Value(Enable(jobs, {}), c) = rev BY <1>1, <1>2, EnableBears
<1>6. Enable(jobs, {}).action = "enable" BY <1>1, <1>2, EnableBears
<1> QED BY <1>3, <1>4, <1>5, <1>6 DEF jobs

LEMMA EnableNone ==
  ASSUME NEW ds \in SUBSET Crons
  PROVE  LET m == Enable(<<>>, ds)
         IN /\ m \in Message /\ m.action = "enable"
            /\ \A x : (Bears(m, x) <=> x \in ds) /\ Value(m, x) = None
<1> DEFINE jobs == <<>>
<1>1. jobs \in Seq(Job) /\ DOMAIN jobs = {} OBVIOUS
<1> HIDE DEF jobs
<1>2. Enable(jobs, ds) \in Message BY <1>1, MadeMessages
<1>3. \A x : (Bears(Enable(jobs, ds), x) <=> x \in ds) /\ Value(Enable(jobs, ds), x) = None
  BY <1>1, EnableBears
<1>4. Enable(jobs, ds).action = "enable" BY <1>1, EnableBears
<1> QED BY <1>2, <1>3, <1>4 DEF jobs

LEMMA DisableBears ==
  ASSUME NEW t \in Tests
  PROVE  /\ Disable(t) \in Message /\ Disable(t).action = "disable"
         /\ \A c : (Bears(Disable(t), c) <=> t = Owner[c]) /\ Value(Disable(t), c) = None
BY MadeMessages DEF Disable, Bears, Value

-----------------------------------------------------------------------------
(* The first step of a request.                                              *)

\* The request r starts on o, with the calls s.
Begins(r, o, s) ==
  /\ calls[r].seq = <<>> /\ \A q \in Requests : calls[q].seq # <<>> => calls[q].owner # o
  /\ calls' = [calls EXCEPT ![r] = [owner |-> o, seq |-> s]]
  /\ asked' \in [Crons -> Contents] /\ \A c \in Crons : Owner[c] # o => asked'[c] = asked[c]
  /\ used \subseteq used' /\ used' \subseteq Crons /\ gone' \subseteq Workflows
  /\ UNCHANGED <<docs, scheduled, queue, cron, timers, disabling, clean, crashes, failures, kept>>

\* The calls are right for what is asked for now, a timer that changes is announced, and
\* documents are created, updated and deleted accordingly.
NewCalls(o, s) ==
  /\ \A i \in DOMAIN s :
       /\ RightCall(s, i, o, asked')
       /\ s[i].call = "update" => Exists(s[i].id)
       /\ s[i].call = "create" => s[i].id \in used'
  /\ \A c \in Of(o) :
       /\ asked'[c] = asked[c]
            \/ \E i \in DOMAIN s : s[i].call = "push" /\ Told(s[i].msg, c, docs)
       /\ asked'[c] = asked[c] \/ o \in Tests
            \/ \E i \in DOMAIN s : Puts(s[i], c) \/ Removes(s[i], c)
       /\ asked'[c] # None /\ ~Exists(c) => \E i \in DOMAIN s : s[i].call = "create" /\ s[i].id = c
       /\ o \in Tests /\ asked'[c] # None =>
            (\E i \in DOMAIN s : Puts(s[i], c)) /\ \E i \in DOMAIN s : s[i].call = "saveTest"

NewRequest(r) ==
  \E o \in Workflows \cup Tests : \E s \in Seq(AnyCall) : Begins(r, o, s) /\ NewCalls(o, s)

LEMMA StartBegins ==
  ASSUME Typed, NEW r \in Requests, NEW o \in Workflows \cup Tests, NEW s, NEW want,
         want \in [Crons -> Contents], Start(r, o, s, want),
         used \subseteq used', used' \subseteq Crons, gone' \subseteq Workflows
  PROVE  Begins(r, o, s) /\ \A c \in Of(o) : asked'[c] = want[c]
<1>1. asked' = [c \in Crons |-> IF Owner[c] = o THEN want[c] ELSE asked[c]] BY DEF Start
<1>2. asked \in [Crons -> Contents] BY DEF Typed, TypeOK
<1>3. asked' \in [Crons -> Contents] BY <1>1, <1>2
<1>4. \A c \in Crons : Owner[c] # o => asked'[c] = asked[c] BY <1>1
<1>5. \A c \in Of(o) : asked'[c] = want[c] BY <1>1 DEF Of
<1>6. /\ calls[r].seq = <<>> /\ \A q \in Requests : calls[q].seq # <<>> => calls[q].owner # o
      /\ calls' = [calls EXCEPT ![r] = [owner |-> o, seq |-> s]]
      /\ UNCHANGED <<docs, scheduled, queue, cron, timers, disabling, clean, crashes, failures, kept>>
  BY DEF Start
<1> QED BY <1>3, <1>4, <1>5, <1>6 DEF Begins

\* With no request under way on its owner a cronjob that was asked for exists.
LEMMA AskedExists ==
  ASSUME Sound, NEW o, NEW c \in Of(o), \A q \in Requests : calls[q].seq # <<>> => calls[q].owner # o
  PROVE  asked[c] # None => Exists(c)
<1> SUFFICES ASSUME HasPut({"create"}, c) PROVE FALSE BY DEF Sound, DocInv, Of
<1>1. PICK r \in Requests : \E i \in DOMAIN calls[r].seq :
        calls[r].seq[i].call \in {"create"} /\ calls[r].seq[i].id = c
  BY DEF HasPut
<1>2. PICK i \in DOMAIN calls[r].seq : calls[r].seq[i].call = "create" /\ calls[r].seq[i].id = c
  BY <1>1
<1>3. calls[r].seq \in Seq(AnyCall) BY DEF Sound, Typed, CallsTyped
<1>4. calls[r].seq # <<>> BY <1>2, <1>3
<1>5. Owner[c] = calls[r].owner BY <1>2 DEF Sound, CallInv, RightCall, RightPut
<1> QED BY <1>4, <1>5 DEF Of

LEMMA TwoCalls ==
  ASSUME NEW x \in AnyCall, NEW y \in AnyCall
  PROVE  /\ <<x>> \in Seq(AnyCall) /\ DOMAIN <<x>> = {1} /\ <<x>>[1] = x
         /\ <<x, y>> \in Seq(AnyCall) /\ DOMAIN <<x, y>> = {1, 2}
         /\ <<x, y>>[1] = x /\ <<x, y>>[2] = y
OBVIOUS

\* The fields of the calls.
LEMMA CallFields ==
  /\ \A k, c, rev, on : LET x == Put(k, c, rev, on)
       IN x.call = k /\ x.id = c /\ x.doc.enabled = on /\ x.doc.rev = rev
  /\ \A m : Push(m).call = "push" /\ Push(m).msg = m
  /\ \A cs : Delete(cs).call = "delete" /\ Delete(cs).ids = cs
  /\ \A o : DeleteOf(o).call = "deleteOf" /\ DeleteOf(o).owner = o
  /\ \A t, on : SaveTest(t, on).call = "saveTest" /\ SaveTest(t, on).test = t
                  /\ SaveTest(t, on).on = on
BY DEF Put, Push, Delete, DeleteOf, SaveTest

LEMMA WantTyped ==
  ASSUME Typed, NEW c \in Crons, NEW rev \in Contents, NEW on \in BOOLEAN
  PROVE  /\ Want(c, on, rev) \in [Crons -> Contents]
         /\ Want(c, on, rev)[c] = (IF on THEN rev ELSE None)
         /\ \A x \in Crons : x # c => Want(c, on, rev)[x] = asked[x]
BY DEF Want, Typed, TypeOK, Contents

LEMMA JoinCalls ==
  ASSUME NEW x \in AnyCall, NEW y \in AnyCall
  PROVE  <<x>> \o <<y>> = <<x, y>> /\ <<x>> \o <<>> = <<x>>
<1>1. <<x>> \in Seq(AnyCall) /\ <<y>> \in Seq(AnyCall) BY TwoCalls
<1>2. <<x>> \o <<>> = <<x>> BY <1>1, ConcatEmptySeq
<1>3. <<x>> \o <<y>> = <<x, y>>
  <2> DEFINE a == <<x>>
             b == <<y>>
             z == <<x, y>>
  <2>1. /\ a \in Seq(AnyCall) /\ Len(a) = 1 /\ a[1] = x
        /\ b \in Seq(AnyCall) /\ Len(b) = 1 /\ b[1] = y
        /\ z \in Seq(AnyCall) /\ Len(z) = 2 /\ z[1] = x /\ z[2] = y
    OBVIOUS
  <2> HIDE DEF a, b, z
  <2>2. PICK w : w = a \o b OBVIOUS
  <2>3. w \in Seq(AnyCall) /\ Len(w) = 2 /\ w[1] = x /\ w[2] = y
    BY <2>1, <2>2, ConcatProperties
  <2>4. \A i \in 1..Len(w) : w[i] = z[i] BY <2>1, <2>3
  <2>5. w = z BY <2>1, <2>3, <2>4, SeqEqual
  <2> QED BY <2>2, <2>5 DEF a, b, z
<1> QED BY <1>2, <1>3

LEMMA CreateBegins ==
  ASSUME Sound, NEW r \in Requests, NEW c \in Crons, NEW rev \in Revs, NEW on \in BOOLEAN,
         CreateCronForWorkflowV4(r, c, rev, on)
  PROVE  NewRequest(r)
<1> DEFINE o == Owner[c]
           x == Put("create", c, rev, on)
           m == Enable(<<Schedule(c, rev)>>, {})
           y == Push(m)
           s == <<x>> \o (IF on THEN <<y>> ELSE <<>>)
           want == Want(c, on, rev)
<1>1. o \in Workflows /\ c \notin used /\ Start(r, o, s, want) /\ used' = used \cup {c} /\ gone' = gone
  BY DEF CreateCronForWorkflowV4
<1>0. Typed BY DEF Sound
<1>2. /\ want \in [Crons -> Contents] /\ want[c] = (IF on THEN rev ELSE None)
      /\ \A d \in Crons : d # c => want[d] = asked[d]
  BY <1>0, WantTyped DEF Contents
<1>3. used \subseteq Crons /\ gone \subseteq Workflows /\ Typed BY DEF Sound, Typed, TypeOK
<1>4. x.call = "create" /\ x.id = c /\ x.doc.enabled = on /\ x.doc.rev = rev /\ x \in AnyCall
  BY CallFields, MadeCalls
<1>5. m \in Message /\ m.action = "enable" /\ Value(m, c) = rev /\ \A d : Bears(m, d) <=> d = c
  BY EnableOne
<1>6. y.call = "push" /\ y.msg = m /\ y \in AnyCall BY <1>5, CallFields, MadeCalls
<1>7. ~Exists(c) BY <1>1 DEF Sound, DocInv
<1>8. s = IF on THEN <<x, y>> ELSE <<x>> 
  <2>1. <<x>> \o <<y>> = <<x, y>> /\ <<x>> \o <<>> = <<x>> BY <1>4, <1>6, JoinCalls
  <2> HIDE DEF x, y
  <2>2. CASE on BY <2>1, <2>2
  <2>3. CASE ~on BY <2>1, <2>3
  <2> QED BY <2>2, <2>3
<1> HIDE DEF o, x, m, y, s, want
<1>9. Begins(r, o, s) /\ \A d \in Of(o) : asked'[d] = want[d]
  BY <1>1, <1>2, <1>3, StartBegins
<1>10. asked[c] = None
  <2>1. c \in Of(o) BY DEF Of, o
  <2> QED BY <2>1, <1>7, <1>9, AskedExists DEF Begins
<1>11. asked'[c] = (IF on THEN rev ELSE None) /\ \A d \in Crons : d # c => asked'[d] = asked[d]
  BY <1>2, <1>9 DEF Of, o, Begins
<1>12. \A d \in Of(o) : asked[d] # None => Exists(d) BY <1>9, AskedExists DEF Begins
<1>13. c \in used' BY <1>1
<1>14. CASE on
  <2>1. /\ s \in Seq(AnyCall) /\ DOMAIN s = {1, 2} /\ s[1] = x /\ s[2] = y
    BY <1>4, <1>6, <1>8, <1>14, TwoCalls
  <2>2. Follows(s, 1, c) BY <2>1, <1>5, <1>6 DEF Follows
  <2>3. RightCall(s, 1, o, asked')
    BY <2>1, <2>2, <1>4, <1>11, <1>14
    DEF RightCall, RightPut, RightDelete, RightDeleteOf, RightPush, RightSave, o
  <2>4. RightCall(s, 2, o, asked')
    BY <2>1, <1>5, <1>6, <1>11, <1>14
    DEF RightCall, RightPut, RightDelete, RightDeleteOf, RightPush, RightSave, o
  <2>5. Told(s[2].msg, c, docs) BY <2>1, <1>5, <1>6 DEF Told
  <2>6. Puts(s[1], c) BY <2>1, <1>4 DEF Puts
  <2>7. o \notin Tests BY <1>1, NamesApart
  <2>8. ASSUME NEW i \in DOMAIN s
        PROVE  /\ RightCall(s, i, o, asked')
               /\ s[i].call = "update" => Exists(s[i].id)
               /\ s[i].call = "create" => s[i].id \in used'
    BY <2>1, <2>3, <2>4, <1>4, <1>6, <1>13
  <2>9. ASSUME NEW d \in Of(o)
        PROVE  /\ asked'[d] = asked[d]
                    \/ \E i \in DOMAIN s : s[i].call = "push" /\ Told(s[i].msg, d, docs)
               /\ asked'[d] = asked[d] \/ \E i \in DOMAIN s : Puts(s[i], d) \/ Removes(s[i], d)
               /\ asked'[d] # None /\ ~Exists(d) =>
                    \E i \in DOMAIN s : s[i].call = "create" /\ s[i].id = d
    <3>1. CASE d = c BY <3>1, <2>1, <2>5, <2>6, <1>4, <1>6
    <3>2. CASE d # c BY <3>2, <1>11, <1>12 DEF Of
    <3> QED BY <3>1, <3>2
  <2>10. NewCalls(o, s) BY <2>7, <2>8, <2>9 DEF NewCalls
  <2> QED BY <2>1, <2>10, <1>1, <1>9 DEF NewRequest
<1>15. CASE ~on
  <2>1. s \in Seq(AnyCall) /\ DOMAIN s = {1} /\ s[1] = x BY <1>4, <1>8, <1>15, TwoCalls
  <2>2. o \notin Tests BY <1>1, NamesApart
  <2>3. RightCall(s, 1, o, asked')
    BY <2>1, <2>2, <1>4, <1>11, <1>15
    DEF RightCall, RightPut, RightDelete, RightDeleteOf, RightPush, RightSave, o
  <2>4. \A d \in Of(o) : asked'[d] = asked[d] BY <1>10, <1>11, <1>15 DEF Of
  <2>5. NewCalls(o, s) BY <2>1, <2>2, <2>3, <2>4, <1>4, <1>12, <1>13 DEF NewCalls
  <2> QED BY <2>1, <2>5, <1>1, <1>9 DEF NewRequest
<1> QED BY <1>14, <1>15

LEMMA UpdateBegins ==
  ASSUME Sound, NEW r \in Requests, NEW c \in Crons, NEW rev \in Revs, NEW on \in BOOLEAN,
         UpdateCronForWorkflowV4(r, c, rev, on)
  PROVE  NewRequest(r)
<1> DEFINE o == Owner[c]
           x == Put("update", c, rev, on)
           m == IF on THEN Enable(<<Schedule(c, rev)>>, {}) ELSE Enable(<<>>, {c})
           y == Push(m)
           s == <<x, y>>
           want == Want(c, on, rev)
<1>0. Typed BY DEF Sound
<1>1. o \in Workflows /\ Exists(c) /\ Start(r, o, s, want) /\ used' = used /\ gone' = gone
  BY DEF UpdateCronForWorkflowV4
<1>2. /\ want \in [Crons -> Contents] /\ want[c] = (IF on THEN rev ELSE None)
      /\ \A d \in Crons : d # c => want[d] = asked[d]
  BY <1>0, WantTyped DEF Contents
<1>3. used \subseteq Crons /\ gone \subseteq Workflows BY <1>0 DEF Typed, TypeOK
<1>4. x.call = "update" /\ x.id = c /\ x.doc.enabled = on /\ x.doc.rev = rev /\ x \in AnyCall
  BY CallFields, MadeCalls
<1>5. /\ m \in Message /\ m.action = "enable" /\ Value(m, c) = (IF on THEN rev ELSE None)
      /\ \A d : Bears(m, d) <=> d = c
  <2>1. CASE on BY <2>1, EnableOne
  <2>2. CASE ~on BY <2>2, EnableNone
  <2> QED BY <2>1, <2>2
<1>6. y.call = "push" /\ y.msg = m /\ y \in AnyCall BY <1>5, CallFields, MadeCalls
<1>8. s \in Seq(AnyCall) /\ DOMAIN s = {1, 2} /\ s[1] = x /\ s[2] = y BY <1>4, <1>6, TwoCalls
<1> HIDE DEF o, x, m, y, s, want
<1>9. Begins(r, o, s) /\ \A d \in Of(o) : asked'[d] = want[d]
  BY <1>0, <1>1, <1>2, <1>3, StartBegins
<1>11. asked'[c] = (IF on THEN rev ELSE None) /\ \A d \in Crons : d # c => asked'[d] = asked[d]
  BY <1>2, <1>9 DEF Of, o, Begins
<1>12. \A d \in Of(o) : asked[d] # None => Exists(d) BY <1>9, AskedExists DEF Begins
<1>13. o \notin Tests BY <1>1, NamesApart
<1>14. Follows(s, 1, c) BY <1>5, <1>6, <1>8 DEF Follows
<1>15. RightCall(s, 1, o, asked')
  <2>1. \A k \in DOMAIN s : ~Removes(s[k], c) BY <1>4, <1>6, <1>8 DEF Removes
  <2>2. CASE on
    BY <2>1, <2>2, <1>4, <1>8, <1>11, <1>14
    DEF RightCall, RightPut, RightDelete, RightDeleteOf, RightPush, RightSave, o
  <2>3. CASE ~on
    BY <2>1, <2>3, <1>4, <1>8, <1>11, <1>13
    DEF RightCall, RightPut, RightDelete, RightDeleteOf, RightPush, RightSave, o
  <2> QED BY <2>2, <2>3
<1>16. RightCall(s, 2, o, asked')
  BY <1>5, <1>6, <1>8, <1>11
  DEF RightCall, RightPut, RightDelete, RightDeleteOf, RightPush, RightSave, o
<1>17. Told(s[2].msg, c, docs) /\ Puts(s[1], c) BY <1>4, <1>5, <1>6, <1>8 DEF Told, Puts
<1>18. ASSUME NEW i \in DOMAIN s
       PROVE  /\ RightCall(s, i, o, asked')
              /\ s[i].call = "update" => Exists(s[i].id)
              /\ s[i].call = "create" => s[i].id \in used'
  BY <1>1, <1>4, <1>6, <1>8, <1>15, <1>16
<1>19. ASSUME NEW d \in Of(o)
       PROVE  /\ asked'[d] = asked[d]
                   \/ \E i \in DOMAIN s : s[i].call = "push" /\ Told(s[i].msg, d, docs)
              /\ asked'[d] = asked[d] \/ \E i \in DOMAIN s : Puts(s[i], d) \/ Removes(s[i], d)
              /\ asked'[d] # None => Exists(d)
  <2>1. CASE d = c BY <2>1, <1>1, <1>6, <1>8, <1>17
  <2>2. CASE d # c BY <2>2, <1>11, <1>12 DEF Of
  <2> QED BY <2>1, <2>2
<1>20. NewCalls(o, s) BY <1>13, <1>18, <1>19 DEF NewCalls
<1> QED BY <1>1, <1>8, <1>9, <1>20 DEF NewRequest

\* The deletion of a cronjob, or of the existing cronjobs of a workflow: a message about all
\* of them, then the documents.
LEMMA RemovalBegins ==
  ASSUME Sound, NEW r \in Requests, NEW o \in Workflows, NEW ds \in SUBSET Of(o),
         NEW y \in AnyCall, NEW want \in [Crons -> Contents],
         \/ y = Delete(ds)
         \/ y = DeleteOf(o) /\ \A c \in Of(o) : want[c] = None,
         \A c \in Of(o) : IF c \in ds THEN want[c] = None ELSE want[c] = asked[c] \/ ~Exists(c),
         \A c \in Of(o) : ~Exists(c) => want[c] \in {None, asked[c]},
         Start(r, o, <<Push(Enable(<<>>, ds)), y>>, want),
         used' = used, gone' \subseteq Workflows
  PROVE  NewRequest(r)
<1> DEFINE m == Enable(<<>>, ds)
           x == Push(m)
           s == <<x, y>>
<1>0. Typed /\ used \subseteq Crons /\ ds \subseteq Crons BY DEF Sound, Typed, TypeOK, Of
<1>1. m \in Message /\ m.action = "enable" /\ \A d : (Bears(m, d) <=> d \in ds) /\ Value(m, d) = None
  BY <1>0, EnableNone
<1>2. x.call = "push" /\ x.msg = m /\ x \in AnyCall BY <1>1, CallFields, MadeCalls
<1>3. \/ y.call = "delete" /\ y.ids = ds
      \/ y.call = "deleteOf" /\ y.owner = o /\ \A c \in Of(o) : want[c] = None
  BY CallFields
<1>4. s \in Seq(AnyCall) /\ DOMAIN s = {1, 2} /\ s[1] = x /\ s[2] = y BY <1>2, TwoCalls
<1>5. Start(r, o, s, want) OBVIOUS
<1> HIDE DEF m, x, s
<1>6. Begins(r, o, s) /\ \A d \in Of(o) : asked'[d] = want[d] BY <1>0, <1>5, StartBegins
<1>7. \A d \in Of(o) : asked[d] # None => Exists(d) BY <1>6, AskedExists DEF Begins
<1>8. \A d \in Of(o) : IF d \in ds THEN asked'[d] = None ELSE asked'[d] = asked[d]
  BY <1>6, <1>7
<1>9. o \notin Tests BY NamesApart
<1>10. RightCall(s, 1, o, asked')
  BY <1>1, <1>2, <1>4, <1>8
  DEF RightCall, RightPut, RightDelete, RightDeleteOf, RightPush, RightSave, Of
<1>11. RightCall(s, 2, o, asked')
  <2>1. \A d \in ds : Owner[d] = o /\ asked'[d] = None BY <1>8 DEF Of
  <2> QED BY <2>1, <1>3, <1>4, <1>6, <1>9
      DEF RightCall, RightPut, RightDelete, RightDeleteOf, RightPush, RightSave
<1>12. \A i \in DOMAIN s :
         RightCall(s, i, o, asked') /\ s[i].call # "update" /\ s[i].call # "create"
  BY <1>2, <1>3, <1>4, <1>10, <1>11
<1>13. ASSUME NEW d \in Of(o)
       PROVE  /\ asked'[d] = asked[d]
                   \/ \E i \in DOMAIN s : s[i].call = "push" /\ Told(s[i].msg, d, docs)
              /\ asked'[d] = asked[d] \/ \E i \in DOMAIN s : Puts(s[i], d) \/ Removes(s[i], d)
              /\ asked'[d] # None => Exists(d)
  <2>1. CASE d \in ds
    <3>1. s[1].call = "push" /\ Told(s[1].msg, d, docs) BY <2>1, <1>1, <1>2, <1>4 DEF Told
    <3>2. Removes(s[2], d) BY <2>1, <1>3, <1>4 DEF Removes
    <3>3. asked'[d] = None BY <2>1, <1>8
    <3> QED BY <3>1, <3>2, <3>3, <1>4
  <2>2. CASE d \notin ds BY <2>2, <1>7, <1>8
  <2> QED BY <2>1, <2>2
<1>14. NewCalls(o, s) BY <1>9, <1>12, <1>13 DEF NewCalls
<1> QED BY <1>4, <1>6, <1>14 DEF NewRequest

LEMMA DeleteBegins ==
  ASSUME Sound, NEW r \in Requests, NEW c \in Crons, DeleteCronForWorkflowV4(r, c)
  PROVE  NewRequest(r)
<1>0. Typed /\ gone \subseteq Workflows BY DEF Sound, Typed, TypeOK
<1>1. PICK want : want = Want(c, FALSE, None) OBVIOUS
<1>2. /\ want \in [Crons -> Contents] /\ want[c] = None
      /\ \A d \in Crons : d # c => want[d] = asked[d]
  BY <1>0, <1>1 DEF Want, Typed, TypeOK, Contents
<1>3. /\ Owner[c] \in Workflows /\ Exists(c) /\ used' = used /\ gone' = gone
      /\ Start(r, Owner[c], <<Push(Enable(<<>>, {c})), Delete({c})>>, want)
  BY <1>1 DEF DeleteCronForWorkflowV4
<1>4. {c} \in SUBSET Of(Owner[c]) BY DEF Of
<1>5. Delete({c}) \in AnyCall BY MadeCalls
<1>6. \A d \in Of(Owner[c]) :
        /\ IF d \in {c} THEN want[d] = None ELSE want[d] = asked[d] \/ ~Exists(d)
        /\ ~Exists(d) => want[d] \in {None, asked[d]}
  BY <1>2 DEF Of
<1> QED BY <1>0, <1>2, <1>3, <1>4, <1>5, <1>6, RemovalBegins

LEMMA DeleteWorkflowBegins ==
  ASSUME Sound, NEW r \in Requests, NEW w \in Workflows, DeleteWorkflowV4(r, w)
  PROVE  NewRequest(r)
<1>0. gone \subseteq Workflows BY DEF Sound, Typed, TypeOK
<1> DEFINE ds == {c \in Of(w) : Exists(c)}
<1>1. NoTimers \in [Crons -> Contents] /\ \A c \in Crons : NoTimers[c] = None
  BY DEF NoTimers, Contents
<1>2. /\ used' = used /\ gone' \subseteq Workflows
      /\ Start(r, w, <<Push(Enable(<<>>, ds)), DeleteOf(w)>>, NoTimers)
  BY <1>0 DEF DeleteWorkflowV4
<1>3. DeleteOf(w) \in AnyCall BY MadeCalls
<1>4. /\ ds \in SUBSET Of(w)
      /\ \A c \in Of(w) :
           /\ IF c \in ds THEN NoTimers[c] = None ELSE NoTimers[c] = asked[c] \/ ~Exists(c)
           /\ ~Exists(c) => NoTimers[c] \in {None, asked[c]}
           /\ NoTimers[c] = None
  BY <1>1 DEF Of
<1> HIDE DEF ds
<1> QED BY <1>1, <1>2, <1>3, <1>4, RemovalBegins

LEMMA ItemsTyped ==
  ASSUME NEW t \in Tests, NEW items \in Items(t)
  PROVE  /\ items \in Seq(Job)
         /\ \A i \in DOMAIN items : items[i].id \in Of(t) /\ items[i].rev \in Revs
         /\ \A i, k \in DOMAIN items : items[i].id = items[k].id => i = k
<1>1. Of(t) \subseteq Crons BY DEF Of
<1>2. IsFiniteSet(Of(t)) BY <1>1, CronFiniteAssumption, FS_Subset
<1>3. Cardinality(Of(t)) \in Nat BY <1>2, FS_CardinalityType
<1>4. PICK n \in 0..Cardinality(Of(t)) :
        /\ items \in [1..n -> [id : Of(t), rev : Revs]]
        /\ \A i, k \in 1..n : items[i].id = items[k].id => i = k
  BY DEF Items
<1>5. n \in Nat BY <1>3, <1>4
<1>6. items \in [1..n -> Job] BY <1>1, <1>4 DEF Job
<1>7. items \in Seq(Job) BY <1>5, <1>6
<1> QED BY <1>4, <1>7

LEMMA WantItems ==
  ASSUME NEW t \in Tests, NEW items \in Items(t)
  PROVE  /\ Scheduled(items, NoTimers) \in [Crons -> Contents]
         /\ \A i \in DOMAIN items : Scheduled(items, NoTimers)[items[i].id] = items[i].rev
         /\ \A c \in Crons : (\A i \in DOMAIN items : items[i].id # c) =>
              Scheduled(items, NoTimers)[c] = None
<1>1. NoTimers \in [Crons -> Contents] BY DEF NoTimers, Contents
<1>2. Scheduled(items, NoTimers) \in [Crons -> Contents] BY <1>1, ItemsTyped, ScheduledTyped
<1>3. ASSUME NEW i \in DOMAIN items
      PROVE  Scheduled(items, NoTimers)[items[i].id] = items[i].rev
  <2>1. PICK c \in Crons : c = items[i].id BY ItemsTyped DEF Of
  <2>2. (CHOOSE k \in DOMAIN items : items[k].id = c) = i BY <2>1, ItemsTyped
  <2> QED BY <2>1, <2>2 DEF Scheduled
<1>4. ASSUME NEW c \in Crons, \A i \in DOMAIN items : items[i].id # c
      PROVE  Scheduled(items, NoTimers)[c] = None
  BY <1>4 DEF Scheduled, NoTimers
<1> QED BY <1>2, <1>3, <1>4

LEMMA JoinThree ==
  ASSUME NEW p \in Seq(AnyCall), NEW x \in AnyCall, NEW y \in AnyCall, NEW z \in AnyCall
  PROVE  LET s == ((p \o <<x>>) \o <<y>>) \o <<z>>
         IN /\ s \in Seq(AnyCall) /\ Len(s) = Len(p) + 3
            /\ \A i \in 1..Len(p) : s[i] = p[i]
            /\ s[Len(p) + 1] = x /\ s[Len(p) + 2] = y /\ s[Len(p) + 3] = z
<1>1. PICK n \in Nat : n = Len(p) BY LenProperties
<1>2. ASSUME NEW q \in Seq(AnyCall), NEW e \in AnyCall
      PROVE  /\ q \o <<e>> \in Seq(AnyCall) /\ Len(q \o <<e>>) = Len(q) + 1
             /\ \A i \in 1..Len(q) : (q \o <<e>>)[i] = q[i]
             /\ (q \o <<e>>)[Len(q) + 1] = e
  <2> DEFINE b == <<e>>
  <2>1. b \in Seq(AnyCall) /\ Len(b) = 1 /\ b[1] = e OBVIOUS
  <2> HIDE DEF b
  <2>2. PICK w : w = q \o b OBVIOUS
  <2>3. PICK l \in Nat : l = Len(q) BY LenProperties
  <2>4. w \in Seq(AnyCall) /\ Len(w) = l + 1
    <3>1. q \o b \in Seq(AnyCall) BY <2>1, ConcatProperties
    <3>2. Len(q \o b) = Len(q) + Len(b) BY <2>1, ConcatProperties
    <3> QED BY <2>1, <2>2, <2>3, <3>1, <3>2
  <2>5. \A i \in 1..l : w[i] = q[i] BY <2>1, <2>2, <2>3, ConcatProperties
  <2>6. w[l + 1] = e
    <3>1. /\ l + 1 \in 1..(Len(q) + Len(b)) /\ ~(l + 1 <= Len(q)) /\ (l + 1) - Len(q) = 1
      BY <2>1, <2>3
    <3>2. (q \o b)[l + 1] = b[(l + 1) - Len(q)] BY <2>1, <3>1, ConcatProperties
    <3> QED BY <2>1, <2>2, <3>1, <3>2
  <2> QED BY <2>2, <2>3, <2>4, <2>5, <2>6 DEF b
<1>3. PICK a : a = p \o <<x>> OBVIOUS
<1>4. a \in Seq(AnyCall) /\ Len(a) = n + 1 /\ (\A i \in 1..n : a[i] = p[i]) /\ a[n + 1] = x
  BY <1>1, <1>2, <1>3
<1>5. PICK b : b = a \o <<y>> OBVIOUS
<1>6. /\ b \in Seq(AnyCall) /\ Len(b) = n + 2
      /\ (\A i \in 1..(n + 1) : b[i] = a[i]) /\ b[n + 2] = y
  <2>1. Len(a) + 1 = n + 2 BY <1>4
  <2> QED BY <1>2, <1>4, <1>5, <2>1
<1>7. PICK s : s = b \o <<z>> OBVIOUS
<1>8. /\ s \in Seq(AnyCall) /\ Len(s) = n + 3
      /\ (\A i \in 1..(n + 2) : s[i] = b[i]) /\ s[n + 3] = z
  <2>1. Len(b) + 1 = n + 3 BY <1>6
  <2> QED BY <1>2, <1>6, <1>7, <2>1
<1>9. \A i \in 1..n : s[i] = p[i] BY <1>4, <1>6, <1>8
<1>10. s[n + 1] = x /\ s[n + 2] = y BY <1>4, <1>6, <1>8
<1> QED BY <1>1, <1>3, <1>5, <1>7, <1>8, <1>9, <1>10

\* The calls of a test whose schedule is switched off.
LEMMA TestOffBegins ==
  ASSUME Sound, NEW r \in Requests, NEW t \in Tests, NEW items \in Items(t),
         UpdateTesting(r, t, items, FALSE)
  PROVE  NewRequest(r)
<1> DEFINE x == Push(Disable(t))
           y == SaveTest(t, FALSE)
           s == <<x, y>>
           want == Scheduled(items, NoTimers)
<1>0. Typed /\ used \subseteq Crons /\ gone \subseteq Workflows BY DEF Sound, Typed, TypeOK
<1>1. items = <<>> BY DEF UpdateTesting
<1>2. DOMAIN items = {} BY <1>1
<1>3. want \in [Crons -> Contents] /\ \A c \in Crons : want[c] = None
  <2>1. want \in [Crons -> Contents] BY WantItems
  <2>2. ASSUME NEW c \in Crons PROVE want[c] = None
    <3>1. \A i \in DOMAIN items : items[i].id # c BY <1>2
    <3> HIDE DEF want
    <3> QED BY <3>1, WantItems DEF want
  <2> QED BY <2>1, <2>2
<1>4. x.call = "push" /\ x.msg = Disable(t) /\ x \in AnyCall BY DisableBears, CallFields, MadeCalls
<1>5. y.call = "saveTest" /\ y.test = t /\ ~y.on /\ y \in AnyCall
  <2>1. y \in AnyCall BY MadeCalls
  <2>2. y.call = "saveTest" /\ y.test = t /\ ~y.on BY DEF SaveTest
  <2> QED BY <2>1, <2>2
<1>6. s \in Seq(AnyCall) /\ DOMAIN s = {1, 2} /\ s[1] = x /\ s[2] = y BY <1>4, <1>5, TwoCalls
<1>7. <<x>> \o <<y>> = s BY <1>4, <1>5, JoinCalls
<1>8. Start(r, t, s, want) /\ used' = used /\ gone' = gone
  BY <1>2, <1>7 DEF UpdateTesting, HandleCronjob
<1> HIDE DEF x, y, s, want
<1>9. Begins(r, t, s) /\ \A d \in Of(t) : asked'[d] = want[d] BY <1>0, <1>3, <1>8, StartBegins
<1>10. \A d \in Of(t) : asked'[d] = None BY <1>3, <1>9 DEF Of
<1>11. \A d \in Of(t) : asked[d] # None => Exists(d) BY <1>9, AskedExists DEF Begins
<1>12. RightCall(s, 1, t, asked')
  BY <1>4, <1>6, <1>10, DisableBears
  DEF RightCall, RightPut, RightDelete, RightDeleteOf, RightPush, RightSave, Of
<1>13. RightCall(s, 2, t, asked')
  BY <1>5, <1>6, <1>10
  DEF RightCall, RightPut, RightDelete, RightDeleteOf, RightPush, RightSave
<1>14. \A i \in DOMAIN s :
         RightCall(s, i, t, asked') /\ s[i].call # "update" /\ s[i].call # "create"
  BY <1>4, <1>5, <1>6, <1>12, <1>13
<1>15. ASSUME NEW d \in Of(t)
       PROVE  asked'[d] = asked[d]
                \/ \E i \in DOMAIN s : s[i].call = "push" /\ Told(s[i].msg, d, docs)
  <2>1. CASE Exists(d) BY <2>1, <1>4, <1>6, DisableBears DEF Told, Exists, Of
  <2>2. CASE ~Exists(d) BY <2>2, <1>10, <1>11
  <2> QED BY <2>1, <2>2
<1>16. NewCalls(t, s) BY <1>10, <1>14, <1>15 DEF NewCalls
<1> QED BY <1>6, <1>9, <1>16 DEF NewRequest

\* The calls of a test whose schedule is on: one for each item, the deletion of the
\* documents without one, the message about all of them, and the test itself.
LEMMA TestOnBegins ==
  ASSUME Sound, NEW r \in Requests, NEW t \in Tests, NEW items \in Items(t),
         UpdateTesting(r, t, items, TRUE)
  PROVE  NewRequest(r)
<1> DEFINE kind(i) == IF Exists(items[i].id) THEN "update" ELSE "create"
           p == [i \in DOMAIN items |-> Put(kind(i), items[i].id, items[i].rev, TRUE)]
           st == Stale(t, items)
           x == Delete(st)
           m == Enable(items, st)
           y == Push(m)
           z == SaveTest(t, TRUE)
           s == ((p \o <<x>>) \o <<y>>) \o <<z>>
           want == Scheduled(items, NoTimers)
           ids == {items[i].id : i \in DOMAIN items}
<1>0. Typed /\ used \subseteq Crons /\ gone \subseteq Workflows BY DEF Sound, Typed, TypeOK
<1>1. /\ Start(r, t, s, want) /\ used' = used \cup ids /\ gone' = gone
      /\ \A c \in ids : c \in used => Exists(c)
  BY DEF UpdateTesting, HandleCronjob, UpdateCronjob
<1>2. /\ items \in Seq(Job)
      /\ \A i \in DOMAIN items : items[i].id \in Crons /\ Owner[items[i].id] = t
           /\ items[i].rev \in Revs
      /\ \A i, k \in DOMAIN items : items[i].id = items[k].id => i = k
  BY ItemsTyped DEF Of
<1>3. PICK n \in Nat : n = Len(items) /\ DOMAIN items = 1..n BY <1>2, LenProperties
<1>4. ASSUME NEW i \in 1..n
      PROVE  /\ p[i] \in AnyCall /\ p[i].call = kind(i) /\ p[i].id = items[i].id
             /\ p[i].doc.enabled /\ p[i].doc.rev = items[i].rev
  <2>1. p[i] = Put(kind(i), items[i].id, items[i].rev, TRUE) BY <1>3
  <2>2. Put(kind(i), items[i].id, items[i].rev, TRUE) \in AnyCall BY <1>2, <1>3, MadeCalls
  <2>3. LET e == Put(kind(i), items[i].id, items[i].rev, TRUE)
        IN e.call = kind(i) /\ e.id = items[i].id /\ e.doc.enabled /\ e.doc.rev = items[i].rev
    BY DEF Put
  <2> HIDE DEF p, kind
  <2> QED BY <2>1, <2>2, <2>3
<1>5. p \in Seq(AnyCall) /\ Len(p) = n
  <2>1. DOMAIN p = 1..n BY <1>3
  <2>2. \A i \in 1..n : p[i] \in AnyCall BY <1>4
  <2>3. p \in [1..n -> AnyCall] BY <1>3, <2>2
  <2> HIDE DEF p
  <2> QED BY <2>1, <2>3
<1>6. /\ st \in SUBSET Crons
      /\ \A c : c \in st <=> c \in Crons /\ Owner[c] = t /\ Exists(c) /\ c \notin ids
  BY DEF Stale, Of
<1>7. x \in AnyCall /\ x.call = "delete" /\ x.ids = st BY <1>6, MadeCalls, CallFields
<1>8. /\ m \in Message /\ m.action = "enable"
      /\ \A c : Bears(m, c) <=> c \in st \/ c \in ids
      /\ \A i \in DOMAIN items : Value(m, items[i].id) = items[i].rev
      /\ \A c : c \notin ids => Value(m, c) = None
  <2> HIDE DEF m, st
  <2>1. m \in Message BY <1>2, <1>6, MadeMessages DEF m
  <2>2. m.action = "enable" BY <1>2, <1>6, EnableBears DEF m
  <2>3. ASSUME NEW c PROVE Bears(m, c) <=> c \in st \/ c \in ids
    BY <1>2, <1>6, EnableBears DEF m
  <2>4. ASSUME NEW i \in DOMAIN items PROVE Value(m, items[i].id) = items[i].rev
    <3>1. \E k \in DOMAIN items : items[k].id = items[i].id /\ Value(m, items[i].id) = items[k].rev
      BY <1>2, <1>6, EnableBears DEF m
    <3> QED BY <3>1, <1>2
  <2>5. ASSUME NEW c, c \notin ids PROVE Value(m, c) = None
    BY <2>5, <1>2, <1>6, EnableBears DEF m
  <2> QED BY <2>1, <2>2, <2>3, <2>4, <2>5
<1>9. y \in AnyCall /\ y.call = "push" /\ y.msg = m
  <2> HIDE DEF m
  <2> QED BY <1>8, MadeCalls, CallFields
<1>10. z \in AnyCall /\ z.call = "saveTest" /\ z.test = t /\ z.on
  <2>1. z \in AnyCall BY MadeCalls
  <2>2. z.call = "saveTest" /\ z.test = t /\ z.on BY DEF SaveTest
  <2> QED BY <2>1, <2>2
<1>11. /\ want \in [Crons -> Contents]
       /\ \A i \in DOMAIN items : want[items[i].id] = items[i].rev
       /\ \A c \in Crons : c \notin ids => want[c] = None
  <2> HIDE DEF want
  <2> QED BY WantItems DEF want
<1> HIDE DEF p, st, x, m, y, z, want
<1>12. /\ s \in Seq(AnyCall) /\ Len(s) = n + 3
       /\ \A i \in 1..n : s[i] = p[i]
       /\ s[n + 1] = x /\ s[n + 2] = y /\ s[n + 3] = z
  BY <1>5, <1>7, <1>9, <1>10, JoinThree
<1> HIDE DEF s
<1>13. DOMAIN s = 1..(n + 3) BY <1>12, LenProperties
<1>14. used \subseteq used' /\ used' \subseteq Crons BY <1>0, <1>1, <1>2
<1>15. Begins(r, t, s) /\ \A d \in Of(t) : asked'[d] = want[d]
  BY <1>0, <1>1, <1>11, <1>14, StartBegins
<1>16. /\ \A i \in 1..n : asked'[items[i].id] = items[i].rev
       /\ \A c \in Of(t) : c \notin ids => asked'[c] = None
  BY <1>2, <1>3, <1>11, <1>15 DEF Of
<1>17. \A d \in Of(t) : asked[d] # None => Exists(d) BY <1>15, AskedExists DEF Begins
<1>18. ASSUME NEW c, c \in st \/ c \in ids, NEW i \in 1..(n + 1) PROVE Follows(s, i, c)
  <2>1. n + 2 \in DOMAIN s /\ n + 2 > i BY <1>3, <1>13
  <2>2. s[n + 2].call = "push" /\ s[n + 2].msg = m BY <1>9, <1>12
  <2> QED BY <2>1, <2>2, <1>8, <1>18 DEF Follows
<1>19. ASSUME NEW i \in 1..n
       PROVE  /\ RightCall(s, i, t, asked')
              /\ s[i].call = "update" => Exists(s[i].id)
              /\ s[i].call = "create" => s[i].id \in used'
  <2>1. /\ s[i].call \in {"create", "update"} /\ s[i].id = items[i].id
        /\ s[i].doc.enabled /\ s[i].doc.rev = items[i].rev
        /\ s[i].call = "update" => Exists(items[i].id)
    BY <1>4, <1>12
  <2>2. items[i].id \in ids BY <1>3
  <2>3. Follows(s, i, items[i].id) BY <1>18, <2>2
  <2>4. ASSUME NEW k \in DOMAIN s PROVE ~Removes(s[k], items[i].id)
    <3>1. CASE k \in 1..n BY <3>1, <1>4, <1>12 DEF Removes
    <3>2. CASE k = n + 1 BY <3>2, <2>2, <1>6, <1>7, <1>12 DEF Removes
    <3>3. CASE k = n + 2 BY <3>3, <1>9, <1>12 DEF Removes
    <3>4. CASE k = n + 3 BY <3>4, <1>10, <1>12 DEF Removes
    <3> QED BY <3>1, <3>2, <3>3, <3>4, <1>13
  <2>5. RightPut(s, i, t, asked')
    BY <2>1, <2>3, <2>4, <1>2, <1>3, <1>16 DEF RightPut
  <2>6. RightCall(s, i, t, asked')
    BY <2>1, <2>5 DEF RightCall, RightDelete, RightDeleteOf, RightPush, RightSave
  <2> QED BY <2>1, <2>2, <2>6, <1>1
<1>20. RightCall(s, n + 1, t, asked')
  <2>1. s[n + 1].call = "delete" /\ s[n + 1].ids = st BY <1>7, <1>12
  <2>2. ASSUME NEW c \in st
        PROVE  Owner[c] = t /\ asked'[c] = None /\ Follows(s, n + 1, c)
    BY <1>3, <1>6, <1>16, <1>18 DEF Of
  <2> QED BY <2>1, <2>2 DEF RightCall, RightPut, RightDelete, RightDeleteOf, RightPush, RightSave
<1>21. RightCall(s, n + 2, t, asked')
  <2>1. s[n + 2].call = "push" /\ s[n + 2].msg = m BY <1>9, <1>12
  <2>2. ASSUME NEW c \in Crons, Bears(m, c) PROVE Owner[c] = t /\ Value(m, c) = asked'[c]
    <3>1. CASE c \in ids BY <3>1, <1>2, <1>3, <1>8, <1>16
    <3>2. CASE c \notin ids
      <4>1. c \in st BY <2>2, <3>2, <1>8
      <4>2. c \in Of(t) BY <4>1, <1>6 DEF Of
      <4> QED BY <3>2, <4>1, <4>2, <1>6, <1>8, <1>16
    <3> QED BY <3>1, <3>2
  <2> QED BY <2>1, <2>2 DEF RightCall, RightPut, RightDelete, RightDeleteOf, RightPush, RightSave
<1>22. RightCall(s, n + 3, t, asked')
  BY <1>10, <1>12
  DEF RightCall, RightPut, RightDelete, RightDeleteOf, RightPush, RightSave
<1>23. ASSUME NEW i \in DOMAIN s
       PROVE  /\ RightCall(s, i, t, asked')
              /\ s[i].call = "update" => Exists(s[i].id)
              /\ s[i].call = "create" => s[i].id \in used'
  <2>1. CASE i \in 1..n BY <2>1, <1>19
  <2>2. CASE i = n + 1 BY <2>2, <1>7, <1>12, <1>20
  <2>3. CASE i = n + 2 BY <2>3, <1>9, <1>12, <1>21
  <2>4. CASE i = n + 3 BY <2>4, <1>10, <1>12, <1>22
  <2> QED BY <2>1, <2>2, <2>3, <2>4, <1>13
<1>24. ASSUME NEW c \in Of(t)
       PROVE  /\ asked'[c] = asked[c]
                   \/ \E i \in DOMAIN s : s[i].call = "push" /\ Told(s[i].msg, c, docs)
              /\ asked'[c] # None /\ ~Exists(c) =>
                   \E i \in DOMAIN s : s[i].call = "create" /\ s[i].id = c
              /\ asked'[c] # None =>
                   (\E i \in DOMAIN s : Puts(s[i], c)) /\ \E i \in DOMAIN s : s[i].call = "saveTest"
  <2>1. n + 2 \in DOMAIN s /\ s[n + 2].call = "push" /\ s[n + 2].msg = m
    BY <1>3, <1>9, <1>12, <1>13
  <2>2. n + 3 \in DOMAIN s /\ s[n + 3].call = "saveTest" BY <1>3, <1>10, <1>12, <1>13
  <2>3. CASE c \in ids
    <3>1. PICK i \in 1..n : items[i].id = c BY <2>3, <1>3
    <3>2. i \in DOMAIN s /\ s[i].call = kind(i) /\ s[i].id = c BY <3>1, <1>4, <1>12, <1>13
    <3>3. Puts(s[i], c) BY <3>2 DEF Puts
    <3>4. ~Exists(c) => s[i].call = "create" BY <3>1, <3>2
    <3>5. Told(m, c, docs) BY <2>3, <1>8 DEF Told
    <3> HIDE DEF kind
    <3> QED BY <2>1, <2>2, <3>2, <3>3, <3>4, <3>5
  <2>4. CASE c \in st
    <3>1. Told(m, c, docs) BY <2>4, <1>8 DEF Told
    <3>2. asked'[c] = None BY <2>4, <1>6, <1>16
    <3> QED BY <2>1, <3>1, <3>2
  <2>5. CASE c \notin ids /\ c \notin st BY <2>5, <1>6, <1>16, <1>17 DEF Of
  <2> QED BY <2>3, <2>4, <2>5
<1>25. NewCalls(t, s) BY <1>23, <1>24 DEF NewCalls
<1> QED BY <1>12, <1>15, <1>25 DEF NewRequest

LEMMA RequestBegins ==
  ASSUME Sound, NEW r \in Requests, WorkflowRequest(r) \/ TestRequest(r)
  PROVE  NewRequest(r)
<1>1. CASE WorkflowRequest(r)
  BY <1>1, CreateBegins, UpdateBegins, DeleteBegins, DeleteWorkflowBegins DEF WorkflowRequest
<1>2. CASE TestRequest(r)
  <2>0. PICK t \in Tests : \E items \in Items(t), on \in BOOLEAN : UpdateTesting(r, t, items, on)
    BY <1>2 DEF TestRequest
  <2>1. PICK items \in Items(t), on \in BOOLEAN : UpdateTesting(r, t, items, on)
    BY <2>0
  <2>2. CASE on BY <2>1, <2>2, TestOnBegins
  <2>3. CASE ~on BY <2>1, <2>3, TestOffBegins
  <2> QED BY <2>2, <2>3
<1> QED BY <1>1, <1>2

-----------------------------------------------------------------------------
(* Requests keep types, calls and documents in order.                        *)

\* Calls are about the cronjobs of their owner.
LEMMA RightFrame ==
  ASSUME NEW s \in Seq(AnyCall), NEW i \in DOMAIN s, NEW o, NEW as, NEW bs,
         RightCall(s, i, o, as), \A c \in Crons : Owner[c] = o => bs[c] = as[c]
  PROVE  RightCall(s, i, o, bs)
<1>1. s[i] \in AnyCall BY ElementOfSeq
<1>2. RightPut(s, i, o, bs)
  <2> SUFFICES ASSUME s[i].call \in {"create", "update"} PROVE RightPut(s, i, o, bs) BY DEF RightPut
  <2>1. s[i].id \in Crons BY <1>1, CallKinds DEF PutCall
  <2> QED BY <2>1 DEF RightCall, RightPut
<1>3. RightDelete(s, i, o, bs)
  <2> SUFFICES ASSUME s[i].call = "delete" PROVE RightDelete(s, i, o, bs) BY DEF RightDelete
  <2>1. s[i].ids \subseteq Crons BY <1>1, CallKinds DEF DeleteCall
  <2> QED BY <2>1 DEF RightCall, RightDelete
<1>4. RightDeleteOf(s[i], o, bs) BY DEF RightCall, RightDeleteOf, Of
<1>5. RightPush(s[i], o, bs) BY DEF RightCall, RightPush
<1>6. RightSave(s[i], o, bs) BY DEF RightCall, RightSave, Of
<1> QED BY <1>2, <1>3, <1>4, <1>5, <1>6 DEF RightCall

LEMMA RequestSound ==
  ASSUME Sound, NEW r \in Requests, NewRequest(r)
  PROVE  Sound'
<1>1. PICK o \in Workflows \cup Tests, s \in Seq(AnyCall) : Begins(r, o, s) /\ NewCalls(o, s)
  BY DEF NewRequest
<1>2. calls \in [Requests -> [owner : Workflows \cup Tests \cup {None}, seq : Seq(AnyCall)]]
  BY DEF Sound, Typed, CallsTyped
<1>3. /\ calls' = [calls EXCEPT ![r] = [owner |-> o, seq |-> s]]
      /\ calls'[r].owner = o /\ calls'[r].seq = s
      /\ \A q \in Requests : q # r => calls'[q] = calls[q]
      /\ calls[r].seq = <<>> /\ \A q \in Requests : calls[q].seq # <<>> => calls[q].owner # o
  BY <1>1, <1>2 DEF Begins
<1>4. \A q \in Requests : calls[q].seq \in Seq(AnyCall) BY <1>2
<1>5. CallsTyped' BY <1>2, <1>3 DEF CallsTyped
<1>6. /\ TypeOK' /\ BatchInv' /\ CountInv'
  BY <1>1 DEF Begins, Sound, Typed, TypeOK, BatchInv, CountInv
<1>7. CallInv'
  <2> SUFFICES ASSUME NEW q \in Requests, NEW i \in DOMAIN calls'[q].seq
               PROVE  RightCall(calls'[q].seq, i, calls'[q].owner, asked')
    BY DEF CallInv
  <2>1. CASE q = r BY <2>1, <1>1, <1>3 DEF NewCalls
  <2>2. CASE q # r
    <3>1. calls'[q] = calls[q] /\ calls[q].seq # <<>> BY <2>2, <1>3, <1>4
    <3>2. calls[q].owner # o BY <3>1, <1>3
    <3>3. \A c \in Crons : Owner[c] = calls[q].owner => asked'[c] = asked[c]
      BY <3>2, <1>1 DEF Begins
    <3>4. RightCall(calls[q].seq, i, calls[q].owner, asked) BY <3>1 DEF Sound, CallInv
    <3> QED BY <3>1, <3>3, <3>4, <1>4, RightFrame
  <2> QED BY <2>1, <2>2
<1>8. OwnerInv' BY <1>3 DEF OwnerInv, Sound
<1>9. DocInv'
  <2> SUFFICES ASSUME NEW c \in Crons
               PROVE  /\ docs'[c] = NoDoc \/ docs'[c].rev \in Revs
                      /\ asked'[c] # None => Exists(c)' \/ HasPut({"create"}, c)'
                      /\ HasPut({"update"}, c)' => Exists(c)'
                      /\ Exists(c)' \/ HasPut({"create"}, c)' => c \in used'
    BY DEF DocInv
  <2>1. docs' = docs /\ used \subseteq used' BY <1>1 DEF Begins
  <2>2. /\ docs[c] = NoDoc \/ docs[c].rev \in Revs
        /\ asked[c] # None => Exists(c) \/ HasPut({"create"}, c)
        /\ HasPut({"update"}, c) => Exists(c)
        /\ Exists(c) \/ HasPut({"create"}, c) => c \in used
    BY DEF Sound, DocInv
  <2>3. Exists(c)' <=> Exists(c) BY <2>1 DEF Exists
  <2>4. ASSUME NEW K, HasPut(K, c)'
        PROVE  HasPut(K, c) \/ \E i \in DOMAIN s : s[i].call \in K /\ s[i].id = c
    BY <2>4, <1>3 DEF HasPut
  <2>5. ASSUME NEW K, HasPut(K, c) PROVE HasPut(K, c)'
    <3>1. PICK q \in Requests : \E i \in DOMAIN calls[q].seq :
            calls[q].seq[i].call \in K /\ calls[q].seq[i].id = c
      BY <2>5 DEF HasPut
    <3>2. q # r BY <3>1, <1>3
    <3> QED BY <3>1, <3>2, <1>3 DEF HasPut
  <2>6. HasPut({"update"}, c)' => Exists(c)' BY <2>2, <2>3, <2>4, <1>1 DEF NewCalls
  <2>7. Exists(c)' \/ HasPut({"create"}, c)' => c \in used'
    BY <2>1, <2>2, <2>3, <2>4, <1>1 DEF NewCalls
  <2>8. asked'[c] # None => Exists(c)' \/ HasPut({"create"}, c)'
    <3>1. CASE Owner[c] = o
      <4> SUFFICES ASSUME asked'[c] # None, ~Exists(c) PROVE HasPut({"create"}, c)' BY <2>3
      <4>1. PICK i \in DOMAIN s : s[i].call = "create" /\ s[i].id = c
        BY <3>1, <1>1 DEF NewCalls, Of
      <4> QED BY <4>1, <1>3 DEF HasPut
    <3>2. CASE Owner[c] # o
      <4>1. asked'[c] = asked[c] BY <3>2, <1>1 DEF Begins
      <4> QED BY <4>1, <2>2, <2>3, <2>5
    <3> QED BY <3>1, <3>2
  <2> QED BY <2>1, <2>2, <2>6, <2>7, <2>8
<1> QED BY <1>5, <1>6, <1>7, <1>8, <1>9 DEF Sound, Typed

LEMMA RightTail ==
  ASSUME NEW s \in Seq(AnyCall), s # <<>>, NEW i \in DOMAIN Tail(s), NEW o, NEW as,
         RightCall(s, i + 1, o, as)
  PROVE  RightCall(Tail(s), i, o, as)
<1>1. /\ Tail(s) \in Seq(AnyCall) /\ Len(s) \in Nat /\ Len(Tail(s)) = Len(s) - 1
      /\ \A k \in 1..Len(Tail(s)) : Tail(s)[k] = s[k + 1]
  BY HeadTailProperties, LenProperties
<1>2. PICK u \in Seq(AnyCall) : u = Tail(s) BY <1>1
<1>3. PICK n \in Nat : n = Len(s) BY <1>1
<1>4. /\ DOMAIN u = 1..(n - 1) /\ DOMAIN s = 1..n /\ i \in 1..(n - 1)
      /\ \A k \in 1..(n - 1) : u[k] = s[k + 1]
  BY <1>1, <1>2, <1>3, LenProperties
<1>5. u[i] = s[i + 1] /\ i + 1 \in DOMAIN s BY <1>4
<1>6. ASSUME NEW c, Follows(s, i + 1, c) PROVE Follows(u, i, c)
  <2>1. PICK k \in DOMAIN s : /\ k > i + 1 /\ s[k].call = "push"
                              /\ s[k].msg.action = "enable" /\ Bears(s[k].msg, c)
    BY <1>6 DEF Follows
  <2>2. k - 1 \in DOMAIN u /\ k - 1 > i /\ u[k - 1] = s[k] BY <2>1, <1>4
  <2> QED BY <2>1, <2>2 DEF Follows
<1>7. ASSUME NEW c, \A k \in DOMAIN s : ~Removes(s[k], c) PROVE \A k \in DOMAIN u : ~Removes(u[k], c)
  BY <1>4, <1>7
<1>8. RightPut(u, i, o, as) BY <1>5, <1>6, <1>7 DEF RightCall, RightPut
<1>9. RightDelete(u, i, o, as) BY <1>5, <1>6 DEF RightCall, RightDelete
<1> QED BY <1>2, <1>5, <1>8, <1>9 DEF RightCall

\* A call takes the first of a request's calls.
LEMMA CallFacts ==
  ASSUME Sound, NEW r \in Requests, Call(r)
  PROVE  LET s == calls[r].seq
             x == calls[r].seq[1]
         IN /\ s \in Seq(AnyCall) /\ s # <<>> /\ 1 \in DOMAIN s /\ x \in AnyCall
            /\ RightCall(s, 1, calls[r].owner, asked)
            /\ docs' = Written(x, docs)
            /\ queue' = (IF x.call = "push" THEN Append(queue, x.msg) ELSE queue)
            /\ scheduled' = (IF x.call = "saveTest" THEN [scheduled EXCEPT ![x.test] = x.on]
                                                    ELSE scheduled)
            /\ calls' \in [Requests -> [owner : Workflows \cup Tests \cup {None}, seq : Seq(AnyCall)]]
            /\ calls'[r].owner = calls[r].owner /\ calls'[r].seq = Tail(s)
            /\ \A q \in Requests : q # r => calls'[q] = calls[q]
            /\ \A i \in DOMAIN Tail(s) : i + 1 \in DOMAIN s /\ Tail(s)[i] = s[i + 1]
            /\ \A i \in DOMAIN s : i # 1 => i - 1 \in DOMAIN Tail(s) /\ Tail(s)[i - 1] = s[i]
<1> DEFINE s == calls[r].seq
<1>1. calls \in [Requests -> [owner : Workflows \cup Tests \cup {None}, seq : Seq(AnyCall)]]
  BY DEF Sound, Typed, CallsTyped
<1>2. s \in Seq(AnyCall) /\ s # <<>> BY <1>1 DEF Call
<1>3. PICK n \in Nat : n = Len(s) /\ DOMAIN s = 1..n BY <1>2, LenProperties
<1>4. n > 0 BY <1>2, <1>3
<1>5. 1 \in DOMAIN s /\ s[1] \in AnyCall /\ Head(s) = s[1] BY <1>2, <1>3, <1>4, ElementOfSeq
<1>6. PICK u : u = Tail(s) OBVIOUS
<1>7. /\ u \in Seq(AnyCall) /\ DOMAIN u = 1..(n - 1)
      /\ \A i \in 1..(n - 1) : u[i] = s[i + 1]
  BY <1>2, <1>3, <1>6, HeadTailProperties, LenProperties
<1>8. \A i \in DOMAIN u : i + 1 \in DOMAIN s /\ u[i] = s[i + 1] BY <1>3, <1>7
<1>9. \A i \in DOMAIN s : i # 1 => i - 1 \in DOMAIN u /\ u[i - 1] = s[i] BY <1>3, <1>7
<1>10. RightCall(s, 1, calls[r].owner, asked) BY <1>5 DEF Sound, CallInv
<1>11. calls' = [calls EXCEPT ![r].seq = u] BY <1>6 DEF Call
<1>12. /\ calls' \in [Requests -> [owner : Workflows \cup Tests \cup {None}, seq : Seq(AnyCall)]]
       /\ calls'[r].owner = calls[r].owner /\ calls'[r].seq = u
       /\ \A q \in Requests : q # r => calls'[q] = calls[q]
  BY <1>1, <1>7, <1>11
<1>13. /\ docs' = Written(s[1], docs)
       /\ queue' = (IF s[1].call = "push" THEN Append(queue, s[1].msg) ELSE queue)
       /\ scheduled' = (IF s[1].call = "saveTest" THEN [scheduled EXCEPT ![s[1].test] = s[1].on]
                                                  ELSE scheduled)
  BY <1>5 DEF Call
<1> QED BY <1>2, <1>5, <1>6, <1>8, <1>9, <1>10, <1>12, <1>13

\* What a call makes of a document.
LEMMA CallWrites ==
  ASSUME Sound, NEW r \in Requests, Call(r), NEW c \in Crons
  PROVE  LET x == calls[r].seq[1]
             o == calls[r].owner
         IN /\ \/ docs'[c] = docs[c]
               \/ Puts(x, c) /\ docs'[c] = x.doc
               \/ Removes(x, c) /\ Owner[c] = o /\ asked[c] = None /\ docs'[c] = NoDoc
            /\ Puts(x, c) => /\ docs'[c] = x.doc /\ x.doc.rev \in Revs /\ x.doc.enabled \in BOOLEAN
                             /\ Owner[c] = o /\ docs'[c] # NoDoc
            /\ Removes(x, c) /\ Owner[c] = o => docs'[c] = NoDoc
<1> DEFINE x == calls[r].seq[1]
           o == calls[r].owner
<1>1. /\ x \in AnyCall /\ docs' = Written(x, docs) /\ 1 \in DOMAIN calls[r].seq
      /\ RightCall(calls[r].seq, 1, o, asked)
  BY CallFacts
<1>2. docs \in [Crons -> [enabled : BOOLEAN, rev : Contents]] BY DEF Sound, Typed, TypeOK
<1>3. CASE x.call \in {"create", "update"}
  <2>1. x.id \in Crons /\ x.doc.rev \in Revs /\ x.doc.enabled \in BOOLEAN
    BY <1>1, <1>3, CallKinds DEF PutCall
  <2>2. Owner[x.id] = o BY <1>1, <1>3 DEF RightCall, RightPut
  <2>3. x.call = "update" => docs[x.id] # NoDoc
    <3> SUFFICES ASSUME x.call = "update" PROVE docs[x.id] # NoDoc OBVIOUS
    <3>1. HasPut({"update"}, x.id) BY <1>1 DEF HasPut
    <3> QED BY <2>1, <3>1 DEF Sound, DocInv, Exists
  <2>4. docs' = [docs EXCEPT ![x.id] = x.doc] BY <1>1, <1>3, <2>3 DEF Written
  <2>5. x.doc # NoDoc BY <2>1, NamesApart DEF NoDoc
  <2>6. ~Removes(x, c) BY <1>3 DEF Removes
  <2> QED BY <1>2, <1>3, <2>1, <2>2, <2>4, <2>5, <2>6 DEF Puts
<1>4. CASE x.call = "delete"
  <2>1. docs' = [d \in Crons |-> IF d \in x.ids THEN NoDoc ELSE docs[d]]
    BY <1>1, <1>4 DEF Written
  <2>2. \A d \in x.ids : Owner[d] = o /\ asked[d] = None
    BY <1>1, <1>4 DEF RightCall, RightDelete
  <2> QED BY <1>4, <2>1, <2>2 DEF Puts, Removes
<1>5. CASE x.call = "deleteOf"
  <2>1. docs' = [d \in Crons |-> IF Owner[d] = x.owner THEN NoDoc ELSE docs[d]]
    BY <1>1, <1>5 DEF Written
  <2>2. x.owner = o /\ \A d \in Of(o) : asked[d] = None
    BY <1>1, <1>5 DEF RightCall, RightDeleteOf
  <2> QED BY <1>5, <2>1, <2>2 DEF Puts, Removes, Of
<1>6. CASE x.call \in {"push", "saveTest"}
  <2>1. docs' = docs BY <1>1, <1>6 DEF Written
  <2> QED BY <1>6, <2>1 DEF Puts, Removes
<1> QED BY <1>1, <1>3, <1>4, <1>5, <1>6, CallKinds

LEMMA CallTypes ==
  ASSUME Sound, NEW r \in Requests, Call(r)
  PROVE  Typed'
<1> DEFINE x == calls[r].seq[1]
<1>1. /\ x \in AnyCall /\ docs' = Written(x, docs)
      /\ queue' = (IF x.call = "push" THEN Append(queue, x.msg) ELSE queue)
      /\ scheduled' = (IF x.call = "saveTest" THEN [scheduled EXCEPT ![x.test] = x.on]
                                              ELSE scheduled)
      /\ calls' \in [Requests -> [owner : Workflows \cup Tests \cup {None}, seq : Seq(AnyCall)]]
  BY CallFacts
<1> HIDE DEF x
<1>2. UNCHANGED <<cron, timers, disabling, used, gone, asked, clean, started, crashes, failures, kept>>
  BY DEF Call
<1>3. Typed BY DEF Sound
<1>4. /\ docs' \in [Crons -> [enabled : BOOLEAN, rev : Contents]]
      /\ \A c \in Crons : docs'[c].enabled => docs'[c].rev \in Revs
  BY <1>1, <1>3, WrittenTyped DEF Typed, TypeOK
<1>5. scheduled' \in [Tests -> BOOLEAN]
  <2>1. x.call = "saveTest" => x.test \in Tests /\ x.on \in BOOLEAN
    BY <1>1, CallKinds DEF SaveCall
  <2>2. scheduled \in [Tests -> BOOLEAN] BY <1>3 DEF Typed, TypeOK
  <2>3. CASE x.call = "saveTest"
    <3>1. scheduled' = [scheduled EXCEPT ![x.test] = x.on] BY <1>1, <2>3
    <3> QED BY <2>1, <2>2, <2>3, <3>1
  <2>4. CASE x.call # "saveTest" BY <1>1, <2>2, <2>4
  <2> QED BY <2>3, <2>4
<1>6. queue \in Seq(Message) BY <1>3 DEF Typed, TypeOK
<1>7. /\ queue' \in Seq(Message) /\ Len(queue) \in Nat /\ Len(queue') \in Nat
      /\ Len(queue) <= Len(queue')
  <2>1. CASE x.call = "push"
    <3>1. x.msg \in Message BY <2>1, <1>1, CallKinds DEF PushCall
    <3>2. queue' = Append(queue, x.msg) BY <2>1, <1>1
    <3> QED BY <3>1, <3>2, <1>6, AppendProperties, LenProperties
  <2>2. CASE x.call # "push" BY <2>2, <1>1, <1>6, LenProperties
  <2> QED BY <2>1, <2>2
<1>8. TypeOK'
  <2>1. /\ cron \in [pc : {"down", "init", "safe", "idle", "delete", "handle", "disable", "wait"},
                     active : [Crons -> Contents], tests : SUBSET Tests,
                     failsafe : [Crons -> Contents], got : SUBSET {"active", "tests", "failsafe"},
                     batch : Seq(Message), at : Nat, left : Nat]
        /\ timers \in [Crons -> Contents] /\ disabling \in [Crons -> Contents]
        /\ asked \in [Crons -> Contents]
        /\ used \subseteq Crons /\ gone \subseteq Workflows
    BY <1>3 DEF Typed, TypeOK
  <2> QED BY <2>1, <1>2, <1>4, <1>5, <1>7 DEF TypeOK
<1>9. BatchInv'
  <2>1. cron.left \in Nat /\ cron.at \in Nat /\ Len(cron.batch) \in Nat
    BY <1>3, LenProperties DEF Typed, TypeOK
  <2>2. BatchInv BY <1>3 DEF Typed
  <2> QED BY <2>1, <2>2, <1>2, <1>7 DEF BatchInv
<1>10. CallsTyped' BY <1>1 DEF CallsTyped
<1>11. CountInv' BY <1>2, <1>3 DEF Typed, CountInv
<1> QED BY <1>8, <1>9, <1>10, <1>11 DEF Typed

\* The puts that are left after a call.
LEMMA PutsAfter ==
  ASSUME Sound, NEW r \in Requests, Call(r), NEW c \in Crons, NEW K
  PROVE  /\ HasPut(K, c)' => HasPut(K, c)
         /\ HasPut(K, c) =>
              HasPut(K, c)' \/ (calls[r].seq[1].call \in K /\ calls[r].seq[1].id = c)
<1> DEFINE s == calls[r].seq
           u == Tail(s)
<1>1. /\ calls'[r].seq = u /\ \A q \in Requests : q # r => calls'[q] = calls[q]
      /\ \A i \in DOMAIN u : i + 1 \in DOMAIN s /\ u[i] = s[i + 1]
      /\ \A i \in DOMAIN s : i # 1 => i - 1 \in DOMAIN u /\ u[i - 1] = s[i]
  BY CallFacts
<1> HIDE DEF u
<1>2. ASSUME HasPut(K, c)' PROVE HasPut(K, c)
  <2>1. PICK q \in Requests : \E i \in DOMAIN calls'[q].seq :
          calls'[q].seq[i].call \in K /\ calls'[q].seq[i].id = c
    BY <1>2 DEF HasPut
  <2>2. CASE q = r BY <2>1, <2>2, <1>1 DEF HasPut
  <2>3. CASE q # r BY <2>1, <2>3, <1>1 DEF HasPut
  <2> QED BY <2>2, <2>3
<1>3. ASSUME HasPut(K, c), ~(s[1].call \in K /\ s[1].id = c) PROVE HasPut(K, c)'
  <2>1. PICK q \in Requests : \E i \in DOMAIN calls[q].seq :
          calls[q].seq[i].call \in K /\ calls[q].seq[i].id = c
    BY <1>3 DEF HasPut
  <2>2. CASE q = r
    <3>1. PICK i \in DOMAIN s : s[i].call \in K /\ s[i].id = c BY <2>1, <2>2
    <3>2. i # 1 BY <3>1, <1>3
    <3>3. i - 1 \in DOMAIN u /\ u[i - 1] = s[i] BY <3>2, <1>1
    <3> QED BY <3>1, <3>3, <1>1 DEF HasPut
  <2>3. CASE q # r BY <2>1, <2>3, <1>1 DEF HasPut
  <2> QED BY <2>2, <2>3
<1> QED BY <1>2, <1>3

LEMMA CallSound ==
  ASSUME Sound, NEW r \in Requests, Call(r)
  PROVE  Sound'
<1> DEFINE s == calls[r].seq
           x == calls[r].seq[1]
           o == calls[r].owner
<1>1. /\ s \in Seq(AnyCall) /\ s # <<>> /\ 1 \in DOMAIN s
      /\ calls'[r].owner = o /\ calls'[r].seq = Tail(s)
      /\ \A q \in Requests : q # r => calls'[q] = calls[q]
      /\ \A i \in DOMAIN Tail(s) : i + 1 \in DOMAIN s
  BY CallFacts
<1>2. asked' = asked /\ used' = used BY DEF Call
<1>3. CallInv'
  <2> SUFFICES ASSUME NEW q \in Requests, NEW i \in DOMAIN calls'[q].seq
               PROVE  RightCall(calls'[q].seq, i, calls'[q].owner, asked')
    BY DEF CallInv
  <2>1. CASE q = r
    <3>1. i \in DOMAIN Tail(s) /\ i + 1 \in DOMAIN s BY <2>1, <1>1
    <3>2. RightCall(s, i + 1, o, asked) BY <3>1 DEF Sound, CallInv
    <3>3. RightCall(Tail(s), i, o, asked) BY <3>1, <3>2, <1>1, RightTail
    <3> QED BY <2>1, <3>3, <1>1, <1>2
  <2>2. CASE q # r BY <2>2, <1>1, <1>2 DEF Sound, CallInv
  <2> QED BY <2>1, <2>2
<1>4. OwnerInv'
  <2>1. \A q \in Requests : calls'[q].owner = calls[q].owner /\ (calls'[q].seq # <<>> => calls[q].seq # <<>>)
    BY <1>1
  <2> QED BY <2>1 DEF Sound, OwnerInv
<1>5. DocInv'
  <2> SUFFICES ASSUME NEW c \in Crons
               PROVE  /\ docs'[c] = NoDoc \/ docs'[c].rev \in Revs
                      /\ asked'[c] # None => Exists(c)' \/ HasPut({"create"}, c)'
                      /\ HasPut({"update"}, c)' => Exists(c)'
                      /\ Exists(c)' \/ HasPut({"create"}, c)' => c \in used'
    BY DEF DocInv
  <2>1. /\ docs[c] = NoDoc \/ docs[c].rev \in Revs
        /\ asked[c] # None => Exists(c) \/ HasPut({"create"}, c)
        /\ HasPut({"update"}, c) => Exists(c)
        /\ Exists(c) \/ HasPut({"create"}, c) => c \in used
    BY DEF Sound, DocInv
  <2>2. /\ \/ docs'[c] = docs[c]
           \/ Puts(x, c) /\ docs'[c] = x.doc
           \/ Removes(x, c) /\ Owner[c] = o /\ asked[c] = None /\ docs'[c] = NoDoc
        /\ Puts(x, c) => docs'[c] # NoDoc /\ x.doc.rev \in Revs
    BY CallWrites
  <2>3. Puts(x, c) => c \in used
    <3> SUFFICES ASSUME Puts(x, c) PROVE c \in used OBVIOUS
    <3>1. HasPut({"create"}, c) \/ HasPut({"update"}, c) BY <1>1 DEF Puts, HasPut
    <3> QED BY <3>1, <2>1
  <2>4. Exists(c)' \/ HasPut({"create"}, c)' => c \in used'
    BY <2>1, <2>2, <2>3, <1>2, PutsAfter DEF Exists
  <2>5. HasPut({"update"}, c)' => Exists(c)'
    <3> SUFFICES ASSUME HasPut({"update"}, c)', docs'[c] = NoDoc PROVE FALSE BY DEF Exists
    <3>1. HasPut({"update"}, c) BY PutsAfter
    <3>2. Removes(x, c) /\ Owner[c] = o BY <3>1, <2>1, <2>2 DEF Exists
    <3>3. PICK q \in Requests : \E i \in DOMAIN calls[q].seq :
            calls[q].seq[i].call \in {"update"} /\ calls[q].seq[i].id = c
      BY <3>1 DEF HasPut
    <3>4. PICK i \in DOMAIN calls[q].seq : calls[q].seq[i].call = "update" /\ calls[q].seq[i].id = c
      BY <3>3
    <3>5. RightPut(calls[q].seq, i, calls[q].owner, asked) BY <3>4 DEF Sound, CallInv, RightCall
    <3>6. Owner[c] = calls[q].owner /\ \A k \in DOMAIN calls[q].seq : ~Removes(calls[q].seq[k], c)
      BY <3>4, <3>5 DEF RightPut
    <3>7. calls[q].seq # <<>> BY <3>4
    <3>8. q = r BY <3>2, <3>6, <3>7, <1>1 DEF Sound, OwnerInv
    <3> QED BY <3>2, <3>6, <3>8, <1>1
  <2>6. asked'[c] # None => Exists(c)' \/ HasPut({"create"}, c)'
    <3> SUFFICES ASSUME asked[c] # None, docs'[c] = NoDoc PROVE HasPut({"create"}, c)'
      BY <1>2 DEF Exists
    <3>1. docs'[c] = docs[c] /\ ~Puts(x, c) BY <2>2
    <3>2. HasPut({"create"}, c) BY <3>1, <2>1 DEF Exists
    <3> QED BY <3>1, <3>2, PutsAfter DEF Puts
  <2> QED BY <2>1, <2>2, <2>4, <2>5, <2>6
<1> QED BY <1>3, <1>4, <1>5, CallTypes DEF Sound

-----------------------------------------------------------------------------
(* The cron service keeps them in order as well.                             *)

CronRec ==
  [pc : {"down", "init", "safe", "idle", "delete", "handle", "disable", "wait"},
   active : [Crons -> Contents], tests : SUBSET Tests,
   failsafe : [Crons -> Contents], got : SUBSET {"active", "tests", "failsafe"},
   batch : Seq(Message), at : Nat, left : Nat]

LEMMA DownTyped ==
  /\ NoTimers \in [Crons -> Contents] /\ \A c \in Crons : NoTimers[c] = None
  /\ Down \in CronRec /\ Down.pc = "down" /\ Down.batch = <<>>
  /\ Down.active = NoTimers /\ Down.failsafe = NoTimers /\ Down.got = {} /\ Down.left = 0
<1>1. NoTimers \in [Crons -> Contents] /\ \A c \in Crons : NoTimers[c] = None
  BY DEF NoTimers, Contents
<1>2. <<>> \in Seq(Message) OBVIOUS
<1> QED BY <1>1, <1>2 DEF Down, CronRec

LEMMA HandledTyped ==
  ASSUME NEW x \in Seq(Message)
  PROVE  /\ Handled(x) \in CronRec /\ Handled(x).batch = x
         /\ Handled(x).pc = IF x = <<>> THEN "idle" ELSE "handle"
BY DownTyped DEF Handled, CronRec

\* What the steps of the cron service and DisableCronjob change.
CronSide ==
  /\ cron' \in CronRec /\ timers' \in [Crons -> Contents] /\ disabling' \in [Crons -> Contents]
  /\ queue' \in Seq(Message)
  /\ docs' \in [Crons -> [enabled : BOOLEAN, rev : Contents]]
  /\ \A c \in Crons :
       /\ docs'[c].enabled => docs'[c].rev \in Revs
       /\ Exists(c)' <=> Exists(c)
       /\ docs'[c] = NoDoc \/ docs'[c].rev \in Revs
  /\ BatchInv' /\ CountInv'
  /\ UNCHANGED <<scheduled, calls, used, gone, asked>>

LEMMA CronSideSound ==
  ASSUME Sound, CronSide
  PROVE  Sound'
<1>1. TypeOK' BY DEF CronSide, Sound, Typed, TypeOK, CronRec
<1>2. CallsTyped' BY DEF CronSide, Sound, Typed, CallsTyped
<1>3. CallInv' BY DEF CronSide, Sound, CallInv
<1>4. OwnerInv' BY DEF CronSide, Sound, OwnerInv
<1>5. DocInv' BY DEF CronSide, Sound, DocInv, HasPut
<1> QED BY <1>1, <1>2, <1>3, <1>4, <1>5 DEF CronSide, Sound, Typed

\* Steps that leave documents, messages and those who write them alone.
LEMMA QuietSide ==
  ASSUME Sound, UNCHANGED <<docs, scheduled, calls, used, gone, asked, crashes>>,
         cron' \in CronRec, timers' \in [Crons -> Contents], disabling' \in [Crons -> Contents],
         queue' \in Seq(Message), BatchInv', clean' \in BOOLEAN, failures' \in Nat, kept' \in Nat
  PROVE  CronSide
<1>1. /\ docs \in [Crons -> [enabled : BOOLEAN, rev : Contents]]
      /\ \A c \in Crons : docs[c].enabled => docs[c].rev \in Revs
      /\ \A c \in Crons : docs[c] = NoDoc \/ docs[c].rev \in Revs
      /\ crashes \in Nat
  BY DEF Sound, Typed, TypeOK, DocInv, CountInv
<1> QED BY <1>1 DEF CronSide, CountInv, Exists

\* The types, by name.
LEMMA SoundTypes ==
  ASSUME Sound
  PROVE  /\ cron \in CronRec /\ timers \in [Crons -> Contents] /\ disabling \in [Crons -> Contents]
         /\ queue \in Seq(Message) /\ asked \in [Crons -> Contents]
         /\ docs \in [Crons -> [enabled : BOOLEAN, rev : Contents]]
         /\ scheduled \in [Tests -> BOOLEAN]
         /\ \A c \in Crons : docs[c].enabled => docs[c].rev \in Revs
         /\ \A c \in Crons : docs[c] = NoDoc \/ docs[c].rev \in Revs
         /\ BatchInv /\ crashes \in Nat /\ failures \in Nat /\ kept \in Nat /\ clean \in BOOLEAN
         /\ Len(queue) \in Nat /\ Len(cron.batch) \in Nat /\ cron.batch \in Seq(Message)
         /\ cron.at \in Nat /\ cron.left \in Nat
<1>1. cron \in CronRec /\ queue \in Seq(Message) BY DEF Sound, Typed, TypeOK, CronRec
<1>2. cron.batch \in Seq(Message) /\ cron.at \in Nat /\ cron.left \in Nat BY <1>1 DEF CronRec
<1>3. Len(queue) \in Nat /\ Len(cron.batch) \in Nat BY <1>1, <1>2, LenProperties
<1> QED BY <1>1, <1>2, <1>3 DEF Sound, Typed, TypeOK, DocInv, CountInv

LEMMA StartSide ==
  ASSUME Sound, CronStart \/ ListActiveCronjob \/ ListWithScheduleEnabled
                \/ ListActiveCronjobFailsafe \/ InitExistedCronjob
  PROVE  CronSide /\ queue' = queue /\ docs' = docs
<1>1. /\ UNCHANGED <<docs, scheduled, calls, used, gone, asked, crashes, queue, disabling, failures, kept>>
      /\ clean' \in BOOLEAN
  BY SoundTypes DEF CronStart, ListActiveCronjob, ListWithScheduleEnabled,
     ListActiveCronjobFailsafe, InitExistedCronjob, CronUnchanged
<1>2. cron' \in CronRec /\ cron'.pc \in {"init", "safe", "idle"}
  <2>1. [c \in Crons |-> IF docs[c].enabled THEN docs[c].rev ELSE None] \in [Crons -> Contents]
    BY SoundTypes DEF Contents
  <2>2. [c \in Crons |-> IF Owner[c] \in cron.tests THEN docs[c].rev ELSE None] \in [Crons -> Contents]
    BY SoundTypes DEF Contents
  <2>3. CASE CronStart BY <2>3, SoundTypes DEF CronStart, CronRec
  <2>4. CASE ListActiveCronjob BY <2>1, <2>4, SoundTypes DEF ListActiveCronjob, CronRec
  <2>5. CASE ListWithScheduleEnabled BY <2>5, SoundTypes DEF ListWithScheduleEnabled, CronRec
  <2>6. CASE ListActiveCronjobFailsafe
    BY <2>2, <2>6, SoundTypes DEF ListActiveCronjobFailsafe, CronRec
  <2>7. CASE InitExistedCronjob BY <2>7, SoundTypes, DownTyped DEF InitExistedCronjob, CronRec
  <2> QED BY <2>3, <2>4, <2>5, <2>6, <2>7
<1>3. timers' \in [Crons -> Contents]
  <2>1. CASE InitExistedCronjob
    BY <2>1, SoundTypes DEF InitExistedCronjob, Registered, Contents
  <2>2. CASE ~InitExistedCronjob
    BY <2>2, SoundTypes DEF CronStart, ListActiveCronjob, ListWithScheduleEnabled,
       ListActiveCronjobFailsafe
  <2> QED BY <2>1, <2>2
<1>4. BatchInv' BY <1>2 DEF BatchInv
<1> QED BY <1>1, <1>2, <1>3, <1>4, SoundTypes, QuietSide

LEMMA ListQueueSide ==
  ASSUME Sound, ListQueue
  PROVE  /\ CronSide /\ queue' = queue /\ docs' = docs
         /\ cron' = [cron EXCEPT !.pc = "delete", !.batch = queue, !.at = 1, !.left = 0]
<1>1. /\ UNCHANGED <<docs, scheduled, calls, used, gone, asked, crashes, queue, timers, disabling,
                     failures, kept, clean>>
      /\ cron' = [cron EXCEPT !.pc = "delete", !.batch = queue, !.at = 1, !.left = 0]
      /\ queue # <<>>
  BY DEF ListQueue, CronUnchanged
<1>2. /\ cron' \in CronRec /\ cron'.pc = "delete" /\ cron'.batch = queue /\ cron'.at = 1
      /\ cron'.left = 0
  BY <1>1, SoundTypes DEF CronRec
<1>3. Len(queue) > 0 BY <1>1, SoundTypes
<1>4. BatchInv' BY <1>1, <1>2, <1>3, SoundTypes DEF BatchInv
<1> QED BY <1>1, <1>2, <1>4, SoundTypes, QuietSide

LEMMA CutOne ==
  ASSUME NEW q \in Seq(Message), NEW n \in 1..Len(q)
  PROVE  LET z == SubSeq(q, 1, n - 1) \o SubSeq(q, n + 1, Len(q))
         IN /\ z \in Seq(Message) /\ Len(z) = Len(q) - 1
            /\ n = 1 => \A i \in 1..Len(z) : z[i] = q[i + 1]
<1>1. PICK l \in Nat : l = Len(q) /\ \A i \in 1..l : q[i] \in Message
  BY LenProperties, ElementOfSeq
<1>2. PICK a : a = SubSeq(q, 1, n - 1) OBVIOUS
<1>3. PICK b : b = SubSeq(q, n + 1, l) OBVIOUS
<1>4. a \in Seq(Message) /\ Len(a) = n - 1
  <2>1. n - 1 \in Int /\ 1 \in Int /\ \A i \in 1..(n - 1) : q[i] \in Message BY <1>1
  <2>2. /\ SubSeq(q, 1, n - 1) \in Seq(Message)
        /\ Len(SubSeq(q, 1, n - 1)) = IF 1 <= n - 1 THEN (n - 1) - 1 + 1 ELSE 0
    BY <2>1, SubSeqProperties
  <2> QED BY <1>1, <1>2, <2>2
<1>5. b \in Seq(Message) /\ Len(b) = l - n
  <2>1. n + 1 \in Int /\ l \in Int /\ \A i \in (n + 1)..l : q[i] \in Message BY <1>1
  <2>2. /\ SubSeq(q, n + 1, l) \in Seq(Message)
        /\ Len(SubSeq(q, n + 1, l)) = IF n + 1 <= l THEN l - (n + 1) + 1 ELSE 0
    BY <2>1, SubSeqProperties
  <2> QED BY <1>1, <1>3, <2>2
<1>6. PICK z : z = a \o b OBVIOUS
<1>7. z \in Seq(Message) /\ Len(z) = l - 1
  <2>1. a \o b \in Seq(Message) /\ Len(a \o b) = Len(a) + Len(b) BY <1>4, <1>5, ConcatProperties
  <2>2. Len(a) + Len(b) = l - 1 BY <1>1, <1>4, <1>5
  <2> QED BY <2>1, <2>2, <1>6
<1>8. ASSUME n = 1 PROVE \A i \in 1..Len(z) : z[i] = q[i + 1]
  <2> SUFFICES ASSUME NEW i \in 1..(l - 1) PROVE z[i] = q[i + 1] BY <1>7
  <2>1. Len(a) = 0 /\ Len(b) = l - 1 BY <1>1, <1>4, <1>5, <1>8
  <2>2. i \in 1..(Len(a) + Len(b)) /\ ~(i <= Len(a)) /\ i - Len(a) = i BY <1>1, <2>1
  <2>3. (a \o b)[i] = b[i - Len(a)] BY <1>4, <1>5, <2>2, ConcatProperties
  <2>4. \A k \in (n + 1)..l : q[k] \in Message BY <1>1
  <2>5. i \in 1..(l - (n + 1) + 1) /\ (n + 1) + i - 1 = i + 1 BY <1>1, <1>8
  <2>6. n + 1 \in Int /\ l \in Int BY <1>1
  <2>7. SubSeq(q, n + 1, l)[i] = q[(n + 1) + i - 1] BY <2>4, <2>5, <2>6, SubSeqProperties
  <2> QED BY <1>3, <1>6, <2>2, <2>3, <2>5, <2>7
<1> QED BY <1>1, <1>2, <1>3, <1>6, <1>7, <1>8

LEMMA StepCron ==
  ASSUME NEW cr \in CronRec, NEW nx \in {"handle", "delete"}
  PROVE  /\ LET x == [cr EXCEPT !.pc = nx, !.at = @ + 1]
            IN /\ x \in CronRec /\ x.pc = nx /\ x.batch = cr.batch /\ x.at = cr.at + 1
               /\ x.left \in Nat /\ x.left = cr.left
         /\ LET x == [cr EXCEPT !.pc = nx, !.at = @ + 1, !.left = cr.left + 1]
            IN /\ x \in CronRec /\ x.pc = nx /\ x.batch = cr.batch /\ x.at = cr.at + 1
               /\ x.left \in Nat /\ x.left = cr.left + 1
<1>1. PICK a \in Nat : a = cr.at + 1 BY DEF CronRec
<1>2. PICK l \in Nat : l = cr.left + 1 BY DEF CronRec
<1>3. LET x == [cr EXCEPT !.pc = nx, !.at = a]
      IN /\ x \in CronRec /\ x.pc = nx /\ x.batch = cr.batch /\ x.at = a
         /\ x.left \in Nat /\ x.left = cr.left
  BY DEF CronRec
<1>4. LET x == [cr EXCEPT !.pc = nx, !.at = a, !.left = l]
      IN /\ x \in CronRec /\ x.pc = nx /\ x.batch = cr.batch /\ x.at = a
         /\ x.left \in Nat /\ x.left = l
  BY DEF CronRec
<1> QED BY <1>1, <1>2, <1>3, <1>4

LEMMA DeleteMsgSide ==
  ASSUME Sound, DeleteMsg
  PROVE  /\ CronSide /\ docs' = docs /\ timers' = timers /\ clean' = clean /\ failures' = failures
         /\ cron'.pc = (IF cron.at = Len(cron.batch) THEN "handle" ELSE "delete")
         /\ cron'.batch = cron.batch /\ cron'.at = cron.at + 1
         /\ cron.at \in 1..Len(cron.batch) /\ cron.left + Len(cron.batch) < Len(queue) + cron.at
         /\ \/ /\ kept' = kept /\ cron'.left = cron.left
               /\ queue' = SubSeq(queue, 1, cron.left) \o SubSeq(queue, cron.left + 2, Len(queue))
            \/ kept' = kept + 1
<1>1. /\ UNCHANGED <<docs, scheduled, calls, used, gone, asked, crashes, timers, disabling,
                     failures, clean>>
      /\ cron.pc = "delete"
  BY DEF DeleteMsg, CronUnchanged
<1>2. cron.at \in 1..Len(cron.batch) /\ cron.left + Len(cron.batch) < Len(queue) + cron.at
      /\ cron.batch # <<>>
  BY <1>1, SoundTypes DEF BatchInv
<1>3. cron.left + 1 \in 1..Len(queue) BY <1>2, SoundTypes, SMTT(30)
<1>4. PICK n \in 1..Len(queue) : n = cron.left + 1 BY <1>3
<1>5. PICK z : z = SubSeq(queue, 1, n - 1) \o SubSeq(queue, n + 1, Len(queue)) OBVIOUS
<1>6. z \in Seq(Message) /\ Len(z) = Len(queue) - 1 BY <1>5, SoundTypes, CutOne
<1>7. PICK nx \in {"handle", "delete"} : nx = IF cron.at = Len(cron.batch) THEN "handle" ELSE "delete"
  OBVIOUS
<1>8. /\ cron' \in CronRec /\ cron'.pc = nx
      /\ cron'.batch = cron.batch /\ cron'.at = cron.at + 1
      /\ cron'.left \in Nat
      /\ \/ queue' = z /\ kept' = kept /\ cron'.left = cron.left
         \/ queue' = queue /\ kept' = kept + 1 /\ cron'.left = cron.left + 1
  <2>1. \/ /\ queue' = SubSeq(queue, 1, (cron.left + 1) - 1) \o SubSeq(queue, (cron.left + 1) + 1, Len(queue))
           /\ kept' = kept /\ cron' = [cron EXCEPT !.pc = nx, !.at = @ + 1]
        \/ /\ queue' = queue /\ kept' = kept + 1
           /\ cron' = [cron EXCEPT !.pc = nx, !.at = @ + 1, !.left = cron.left + 1]
    BY <1>7 DEF DeleteMsg
  <2>4. cron \in CronRec BY SoundTypes
  <2>2. CASE /\ queue' = SubSeq(queue, 1, (cron.left + 1) - 1) \o SubSeq(queue, (cron.left + 1) + 1, Len(queue))
             /\ kept' = kept /\ cron' = [cron EXCEPT !.pc = nx, !.at = @ + 1]
    <3>1. queue' = z BY <2>2, <1>4, <1>5
    <3> QED BY <2>2, <3>1, <2>4, StepCron
  <2>3. CASE /\ queue' = queue /\ kept' = kept + 1
             /\ cron' = [cron EXCEPT !.pc = nx, !.at = @ + 1, !.left = cron.left + 1]
    <3> QED BY <2>3, <2>4, StepCron
  <2> QED BY <2>1, <2>2, <2>3
<1>9. queue' \in Seq(Message) BY <1>6, <1>8, SoundTypes
<1>10. BatchInv'
  <2>1. CASE cron.at = Len(cron.batch) BY <2>1, <1>2, <1>7, <1>8 DEF BatchInv
  <2>2. CASE cron.at # Len(cron.batch)
    <3>1. cron'.at \in 1..Len(cron'.batch) BY <2>2, <1>2, <1>8, SoundTypes
    <3>2. cron'.left + Len(cron'.batch) < Len(queue') + cron'.at
      <4>1. CASE queue' = z /\ cron'.left = cron.left BY <4>1, <1>2, <1>6, <1>8, SoundTypes
      <4>2. CASE queue' = queue /\ cron'.left = cron.left + 1 BY <4>2, <1>2, <1>8, SoundTypes, SMTT(30)
      <4> QED BY <4>1, <4>2, <1>8
    <3> QED BY <3>1, <3>2, <1>2, <1>8 DEF BatchInv
  <2> QED BY <2>1, <2>2
<1>11. kept' \in Nat BY <1>8, SoundTypes
<1>12. CronSide BY <1>1, <1>8, <1>9, <1>10, <1>11, SoundTypes, QuietSide
<1>13. z = SubSeq(queue, 1, cron.left) \o SubSeq(queue, cron.left + 2, Len(queue))
  <2>1. n - 1 = cron.left /\ n + 1 = cron.left + 2
    <3>1. cron.left \in Nat BY SoundTypes
    <3> QED BY <1>4, <3>1
  <2> QED BY <1>5, <2>1
<1> QED BY <1>1, <1>2, <1>7, <1>8, <1>12, <1>13

LEMMA HeadTyped ==
  ASSUME Sound, cron.pc \in {"handle", "disable", "wait"}
  PROVE  /\ cron.batch # <<>> /\ Head(cron.batch) = cron.batch[1] /\ Head(cron.batch) \in Message
         /\ Tail(cron.batch) \in Seq(Message)
<1>1. cron.batch # <<>> /\ cron.batch \in Seq(Message) BY SoundTypes DEF BatchInv
<1> QED BY <1>1, HeadTailProperties

LEMMA HandledBatch ==
  ASSUME NEW x \in Seq(Message), cron' = Handled(x)
  PROVE  cron' \in CronRec /\ BatchInv'
BY HandledTyped DEF BatchInv

LEMMA UpdateSide ==
  ASSUME Sound, updateCronjob
  PROVE  CronSide /\ docs' = docs /\ queue' = queue /\ kept' = kept
<1>1. /\ UNCHANGED <<docs, scheduled, calls, used, gone, asked, crashes, queue, disabling,
                     failures, kept>>
      /\ cron.pc = "handle"
  BY DEF updateCronjob, CronUnchanged
<1> DEFINE msg == Head(cron.batch)
<1>2. msg \in Message /\ Tail(cron.batch) \in Seq(Message) BY <1>1, HeadTyped
<1>3. msg.jobs \in Seq(Job) BY <1>2 DEF Message, Job
<1>4. Accepted(msg.jobs) \in Seq(Job) BY <1>3, AcceptedTyped
<1>5. [c \in Crons |-> IF c \in msg.deletes THEN None ELSE timers[c]] \in [Crons -> Contents]
  BY SoundTypes DEF Contents
<1>6. timers' \in [Crons -> Contents] BY <1>4, <1>5, ScheduledTyped DEF updateCronjob
<1>7. clean' \in BOOLEAN BY DEF updateCronjob
<1>8. cron' \in CronRec /\ BatchInv'
  <2>1. PICK x \in Seq(Message) : cron' = Handled(x)
    <3>1. <<>> \in Seq(Message) OBVIOUS
    <3> QED BY <1>2, <3>1 DEF updateCronjob
  <2> QED BY <2>1, HandledBatch
<1> QED BY <1>1, <1>6, <1>7, <1>8, SoundTypes, QuietSide

LEMMA StopSide ==
  ASSUME Sound, stopCronjob \/ DisableRequest \/ DisableAnswer
  PROVE  CronSide /\ docs' = docs /\ queue' = queue /\ kept' = kept
<1>1. /\ UNCHANGED <<docs, scheduled, calls, used, gone, asked, crashes, queue, kept>>
      /\ cron.pc \in {"handle", "disable", "wait"}
      /\ clean' \in BOOLEAN /\ failures' \in Nat
  <2>1. CASE stopCronjob
    <3>1. failures \in Nat /\ clean \in BOOLEAN BY SoundTypes
    <3>2. clean' \in BOOLEAN BY <2>1, <3>1 DEF stopCronjob
    <3>3. failures' \in Nat BY <2>1, <3>1 DEF stopCronjob
    <3>4. /\ UNCHANGED <<docs, scheduled, calls, used, gone, asked, crashes, queue, kept>>
          /\ cron.pc = "handle"
      BY <2>1 DEF stopCronjob, CronUnchanged
    <3> QED BY <3>2, <3>3, <3>4
  <2>2. CASE DisableRequest BY <2>2, SoundTypes DEF DisableRequest, CronUnchanged
  <2>3. CASE DisableAnswer BY <2>3, SoundTypes DEF DisableAnswer, CronUnchanged
  <2> QED BY <2>1, <2>2, <2>3
<1>2. timers' \in [Crons -> Contents]
  BY SoundTypes DEF stopCronjob, DisableRequest, DisableAnswer, Contents
<1>3. disabling' \in [Crons -> Contents]
  BY SoundTypes DEF stopCronjob, DisableRequest, DisableAnswer, Contents
<1>4. cron' \in CronRec /\ BatchInv'
  <2>1. CASE cron' = Handled(<<>>) \/ cron' = Handled(Tail(cron.batch))
    <3>1. <<>> \in Seq(Message) OBVIOUS
    <3> QED BY <1>1, <2>1, <3>1, HeadTyped, HandledBatch
  <2>2. ASSUME NEW p \in {"disable", "wait"}, cron' = [cron EXCEPT !.pc = p]
        PROVE  cron' \in CronRec /\ BatchInv'
    <3>1. cron' \in CronRec /\ cron'.pc = p /\ cron'.batch = cron.batch
      BY <2>2, SoundTypes DEF CronRec
    <3> QED BY <1>1, <3>1, HeadTyped DEF BatchInv
  <2> QED BY <2>1, <2>2 DEF stopCronjob, DisableRequest, DisableAnswer
<1> QED BY <1>1, <1>2, <1>3, <1>4, SoundTypes, QuietSide

LEMMA DisableSide ==
  ASSUME Sound, NEW d \in Crons, DisableCronjob(d)
  PROVE  /\ CronSide /\ queue' = queue /\ kept' = kept /\ cron' = cron
         /\ UNCHANGED <<timers, clean, failures, crashes>>
         /\ disabling' = [disabling EXCEPT ![d] = None]
         /\ \A c \in Crons : docs'[c] = docs[c]
              \/ (c = d /\ disabling[d] # None /\ docs'[c] = [enabled |-> FALSE, rev |-> disabling[d]])
<1>1. /\ UNCHANGED <<scheduled, calls, used, gone, asked, queue, cron, timers, clean, failures, kept>>
      /\ crashes' = crashes /\ disabling[d] # None
      /\ disabling' = [disabling EXCEPT ![d] = None]
      /\ docs' = IF Exists(d) THEN [docs EXCEPT ![d] = [enabled |-> FALSE, rev |-> disabling[d]]]
                              ELSE docs
  BY DEF DisableCronjob, CronUnchanged
<1>2. disabling[d] \in Revs BY <1>1, SoundTypes DEF Contents
<1>3. disabling' \in [Crons -> Contents] BY <1>1, SoundTypes DEF Contents
<1>4. \A c \in Crons : docs'[c] = docs[c]
        \/ (c = d /\ Exists(d) /\ docs'[c] = [enabled |-> FALSE, rev |-> disabling[d]])
  BY <1>1, SoundTypes
<1>5. docs' \in [Crons -> [enabled : BOOLEAN, rev : Contents]]
  BY <1>1, <1>2, SoundTypes DEF Contents
<1>6. [enabled |-> FALSE, rev |-> disabling[d]] # NoDoc BY <1>2, NamesApart DEF NoDoc
<1>7. ASSUME NEW c \in Crons
      PROVE  /\ docs'[c].enabled => docs'[c].rev \in Revs
             /\ Exists(c)' <=> Exists(c)
             /\ docs'[c] = NoDoc \/ docs'[c].rev \in Revs
  <2>1. CASE docs'[c] = docs[c] BY <2>1, SoundTypes DEF Exists
  <2>2. CASE c = d /\ Exists(d) /\ docs'[c] = [enabled |-> FALSE, rev |-> disabling[d]]
    BY <2>2, <1>2, <1>6 DEF Exists
  <2> QED BY <2>1, <2>2, <1>4
<1>8. BatchInv' BY <1>1, SoundTypes DEF BatchInv
<1>9. CountInv' BY <1>1, SoundTypes DEF CountInv
<1>10. CronSide BY <1>1, <1>3, <1>5, <1>7, <1>8, <1>9, SoundTypes DEF CronSide
<1> QED BY <1>1, <1>4, <1>10

LEMMA CrashSide ==
  ASSUME Sound, Crash
  PROVE  /\ CronSide /\ docs' = docs /\ queue' = queue /\ kept' = kept /\ clean' = clean
         /\ cron' = Down /\ timers' = NoTimers /\ crashes' = crashes + 1 /\ failures' = failures
         /\ disabling' = disabling
<1>1. /\ UNCHANGED <<docs, scheduled, queue, calls, disabling, used, gone, asked, clean, failures, kept>>
      /\ cron' = Down /\ timers' = NoTimers /\ crashes' = crashes + 1
  BY DEF Crash
<1>2. BatchInv' BY <1>1, DownTyped DEF BatchInv
<1>3. CountInv' BY <1>1, SoundTypes DEF CountInv
<1>4. CronSide BY <1>1, <1>2, <1>3, SoundTypes, DownTyped DEF CronSide, Exists
<1> QED BY <1>1, <1>4

LEMMA SoundNext ==
  ASSUME Sound, [Next]_vars
  PROVE  Sound'
<1>1. ASSUME NEW r \in Requests, WorkflowRequest(r) \/ TestRequest(r) PROVE Sound'
  BY <1>1, RequestBegins, RequestSound
<1>2. ASSUME NEW r \in Requests, Call(r) PROVE Sound' BY <1>2, CallSound
<1>3. CASE CronStep
  BY <1>3, StartSide, ListQueueSide, DeleteMsgSide, UpdateSide, StopSide, CronSideSound DEF CronStep
<1>4. ASSUME NEW c \in Crons, DisableCronjob(c) PROVE Sound' BY <1>4, DisableSide, CronSideSound
<1>5. CASE Crash BY <1>5, CrashSide, CronSideSound
<1>6. CASE UNCHANGED vars
  <2>1. cron' \in CronRec /\ BatchInv' BY <1>6, SoundTypes DEF vars, BatchInv
  <2>2. CronSide BY <1>6, <2>1, SoundTypes, QuietSide DEF vars
  <2> QED BY <2>2, CronSideSound
<1> QED BY <1>1, <1>2, <1>3, <1>4, <1>5, <1>6 DEF Next

LEMMA SoundInit == Init => Sound
<1> SUFFICES ASSUME Init PROVE Sound OBVIOUS
<1>1. \A r \in Requests : calls[r].seq = <<>> BY DEF Init
<1>2. \A r \in Requests : DOMAIN calls[r].seq = {} BY <1>1
<1>3. NoDoc \in [enabled : BOOLEAN, rev : Contents] /\ ~NoDoc.enabled BY DEF NoDoc, Contents
<1>4. TypeOK
  <2>1. cron \in CronRec BY DownTyped DEF Init
  <2>2. <<>> \in Seq(Message) OBVIOUS
  <2> QED BY <1>3, <2>1, <2>2, DownTyped DEF Init, TypeOK, CronRec
<1>5. CallsTyped
  <2>1. <<>> \in Seq(AnyCall) OBVIOUS
  <2> QED BY <2>1 DEF Init, CallsTyped
<1>6. BatchInv /\ CountInv BY DownTyped DEF Init, BatchInv, CountInv
<1>7. CallInv /\ OwnerInv BY <1>1, <1>2 DEF CallInv, OwnerInv
<1>8. DocInv
  <2>1. \A K, c : ~HasPut(K, c) BY <1>2 DEF HasPut
  <2>2. \A c \in Crons : docs[c] = NoDoc /\ asked[c] = None BY DownTyped DEF Init
  <2> QED BY <2>1, <2>2 DEF DocInv, Exists
<1> QED BY <1>4, <1>5, <1>6, <1>7, <1>8 DEF Sound, Typed

LEMMA SoundHolds == Spec => []Sound
BY SoundInit, SoundNext, PTL DEF Spec

\* Documents, messages, the cron service and its timers stay well typed, for any number of
\* users, whatever is deleted, disabled, refused or lost.
THEOREM CronTyped == Spec => []TypeOK
<1>1. Sound => TypeOK BY DEF Sound, Typed
<1> QED BY <1>1, SoundHolds, PTL

-----------------------------------------------------------------------------
(* How the messages under way move: pushed, deleted from the queue, handled. *)

\* Which documents exist is all that a message's effect on a timer depends on.
LEMMA ToldSame ==
  ASSUME NEW c \in Crons, NEW ds, NEW es, Owner[c] \in Workflows \/ (ds[c] = NoDoc <=> es[c] = NoDoc),
         NEW m \in Message
  PROVE  Told(m, c, ds) <=> Told(m, c, es)
<1>1. CASE m.action = "enable" BY <1>1 DEF Told
<1>2. CASE m.action # "enable"
  <2>1. m.owner \in Tests \cup {None} BY DEF Message
  <2>2. CASE Owner[c] \in Workflows
    <3>1. m.owner # Owner[c] BY <2>1, <2>2, NamesApart
    <3> QED BY <1>2, <3>1 DEF Told, Bears
  <2>3. CASE ds[c] = NoDoc <=> es[c] = NoDoc BY <2>3 DEF Told
  <2> QED BY <2>2, <2>3
<1> QED BY <1>1, <1>2

LEMMA AppendMsg ==
  ASSUME NEW x \in Seq(Message), NEW m \in Message, NEW c, NEW ds, NEW as
  PROVE  /\ Append(x, m) \in Seq(Message)
         /\ Told(m, c, ds) /\ Value(m, c) = as[c] => Settles(Append(x, m), c, ds, as)
         /\ ~Told(m, c, ds) /\ Settles(x, c, ds, as) => Settles(Append(x, m), c, ds, as)
         /\ ~Told(m, c, ds) /\ Silent(x, c, ds) => Silent(Append(x, m), c, ds)
<1>1. PICK n \in Nat : n = Len(x) /\ DOMAIN x = 1..n BY LenProperties
<1>2. PICK z : z = Append(x, m) OBVIOUS
<1>3. /\ z \in Seq(Message) /\ DOMAIN z = 1..(n + 1) /\ z[n + 1] = m
      /\ \A i \in 1..n : z[i] = x[i]
  BY <1>1, <1>2, AppendProperties, LenProperties
<1>4. ASSUME Told(m, c, ds), Value(m, c) = as[c] PROVE Settles(z, c, ds, as)
  <2>1. n + 1 \in DOMAIN z /\ \A k \in DOMAIN z : ~(k > n + 1) BY <1>3
  <2> QED BY <1>3, <1>4, <2>1 DEF Settles
<1>5. ASSUME ~Told(m, c, ds), Settles(x, c, ds, as) PROVE Settles(z, c, ds, as)
  <2>1. PICK i \in DOMAIN x : /\ Told(x[i], c, ds) /\ Value(x[i], c) = as[c]
                              /\ \A k \in DOMAIN x : k > i => ~Told(x[k], c, ds)
    BY <1>5 DEF Settles
  <2>2. i \in DOMAIN z /\ z[i] = x[i] BY <1>1, <1>3
  <2>3. \A k \in DOMAIN z : k > i => ~Told(z[k], c, ds)
    <3> SUFFICES ASSUME NEW k \in 1..(n + 1), k > i PROVE ~Told(z[k], c, ds) BY <1>3
    <3>1. CASE k = n + 1 BY <1>3, <1>5, <3>1
    <3>2. CASE k # n + 1
      <4>1. k \in 1..n BY <3>2
      <4> QED BY <4>1, <1>1, <1>3, <2>1
    <3> QED BY <3>1, <3>2
  <2> QED BY <2>1, <2>2, <2>3 DEF Settles
<1>6. ASSUME ~Told(m, c, ds), Silent(x, c, ds) PROVE Silent(z, c, ds)
  <2> SUFFICES ASSUME NEW k \in 1..(n + 1) PROVE ~Told(z[k], c, ds) BY <1>3 DEF Silent
  <2>1. CASE k = n + 1 BY <1>3, <1>6, <2>1
  <2>2. CASE k # n + 1
    <3>1. k \in 1..n BY <2>2
    <3> QED BY <3>1, <1>1, <1>3, <1>6 DEF Silent
  <2> QED BY <2>1, <2>2
<1> QED BY <1>2, <1>3, <1>4, <1>5, <1>6

\* y is x without its first message.
Rests(x, y) == x # <<>> /\ Len(y) = Len(x) - 1 /\ \A i \in 1..Len(y) : y[i] = x[i + 1]

LEMMA TailRests ==
  ASSUME NEW x \in Seq(Message), x # <<>>
  PROVE  Tail(x) \in Seq(Message) /\ Rests(x, Tail(x)) /\ x[1] \in Message
BY HeadTailProperties DEF Rests

LEMMA TailMsg ==
  ASSUME NEW x \in Seq(Message), NEW y \in Seq(Message), Rests(x, y), NEW c, NEW ds, NEW as
  PROVE  /\ Settles(x, c, ds, as) =>
              \/ Settles(y, c, ds, as)
              \/ Silent(y, c, ds) /\ Told(x[1], c, ds) /\ Value(x[1], c) = as[c]
         /\ Silent(x, c, ds) => Silent(y, c, ds) /\ ~Told(x[1], c, ds)
<1>1. PICK n \in Nat : n = Len(x) /\ DOMAIN x = 1..n BY LenProperties
<1>2. n > 0 BY <1>1 DEF Rests
<1>3. DOMAIN y = 1..(n - 1) /\ \A i \in 1..(n - 1) : y[i] = x[i + 1]
  BY <1>1, LenProperties DEF Rests
<1>4. ASSUME Settles(x, c, ds, as), ~Settles(y, c, ds, as)
      PROVE  Silent(y, c, ds) /\ Told(x[1], c, ds) /\ Value(x[1], c) = as[c]
  <2>1. PICK i \in 1..n : /\ Told(x[i], c, ds) /\ Value(x[i], c) = as[c]
                          /\ \A k \in 1..n : k > i => ~Told(x[k], c, ds)
    BY <1>1, <1>4 DEF Settles
  <2>2. i = 1
    <3> SUFFICES ASSUME i # 1 PROVE Settles(y, c, ds, as) BY <1>4
    <3>1. i - 1 \in 1..(n - 1) /\ y[i - 1] = x[i] BY <1>3
    <3>2. ASSUME NEW k \in 1..(n - 1), k > i - 1 PROVE ~Told(y[k], c, ds)
      <4>1. k + 1 \in 1..n /\ k + 1 > i BY <3>2
      <4> QED BY <4>1, <1>3, <2>1
    <3> QED BY <3>1, <3>2, <1>3, <2>1 DEF Settles
  <2>3. ASSUME NEW k \in 1..(n - 1) PROVE ~Told(y[k], c, ds)
    <3>1. k + 1 \in 1..n /\ k + 1 > 1 BY <2>3
    <3> QED BY <3>1, <1>3, <2>1, <2>2
  <2> QED BY <2>1, <2>2, <2>3, <1>3 DEF Silent
<1>5. ASSUME Silent(x, c, ds) PROVE Silent(y, c, ds) /\ ~Told(x[1], c, ds)
  <2>1. 1 \in 1..n BY <1>2
  <2>2. ASSUME NEW k \in 1..(n - 1) PROVE ~Told(y[k], c, ds)
    <3>1. k + 1 \in 1..n BY <2>2
    <3> QED BY <3>1, <1>1, <1>3, <1>5 DEF Silent
  <2> QED BY <2>1, <2>2, <1>1, <1>3, <1>5 DEF Silent
<1> QED BY <1>4, <1>5

\* The first message of the queue is deleted there and waits to be handled.
LEMMA MoveMsg ==
  ASSUME NEW q \in Seq(Message), NEW p \in Seq(Message), Rests(q, p), NEW x \in Seq(Message),
         NEW c, NEW cs, NEW ds, NEW as, NEW b \in BOOLEAN, q[1] \in Message,
         Meets(c, cs, q, x, ds, as, b)
  PROVE  Meets(c, cs, p, Append(x, q[1]), ds, as, b)
<1>1. CASE Owed(c, cs, ds) BY <1>1 DEF Meets
<1>2. CASE Settles(q, c, ds, as)
  <2>1. \/ Settles(p, c, ds, as)
        \/ Silent(p, c, ds) /\ Told(q[1], c, ds) /\ Value(q[1], c) = as[c]
    BY <1>2, TailMsg, ZenonT(30)
  <2> QED BY <2>1, AppendMsg DEF Meets
<1>3. CASE /\ Silent(q, c, ds)
           /\ Settles(x, c, ds, as) \/ (Silent(x, c, ds) /\ b)
  <2>1. Silent(p, c, ds) /\ ~Told(q[1], c, ds) BY <1>3, TailMsg
  <2>2. CASE Settles(x, c, ds, as) BY <2>1, <2>2, AppendMsg DEF Meets
  <2>3. CASE Silent(x, c, ds) /\ b BY <2>1, <2>3, AppendMsg DEF Meets
  <2> QED BY <1>3, <2>2, <2>3
<1> QED BY <1>1, <1>2, <1>3 DEF Meets

\* The first message that waits is handled.
LEMMA HandleMsg ==
  ASSUME NEW q \in Seq(Message), NEW x \in Seq(Message), NEW y \in Seq(Message), Rests(x, y),
         NEW c, NEW cs, NEW ds, NEW as, NEW b \in BOOLEAN, NEW d \in BOOLEAN,
         Told(x[1], c, ds) /\ Value(x[1], c) = as[c] => d,
         ~Told(x[1], c, ds) /\ b => d,
         Meets(c, cs, q, x, ds, as, b)
  PROVE  Meets(c, cs, q, y, ds, as, d)
<1>1. CASE Owed(c, cs, ds) \/ Settles(q, c, ds, as) BY <1>1 DEF Meets
<1>2. CASE Silent(q, c, ds) /\ Settles(x, c, ds, as)
  <2>1. \/ Settles(y, c, ds, as)
        \/ Silent(y, c, ds) /\ Told(x[1], c, ds) /\ Value(x[1], c) = as[c]
    BY <1>2, TailMsg
  <2> QED BY <1>2, <2>1 DEF Meets
<1>3. CASE Silent(q, c, ds) /\ Silent(x, c, ds) /\ b
  <2>1. Silent(y, c, ds) /\ ~Told(x[1], c, ds) BY <1>3, TailMsg
  <2> QED BY <1>3, <2>1 DEF Meets
<1> QED BY <1>1, <1>2, <1>3 DEF Meets

\* What waits is given up, which base allows for.
LEMMA DropMsgs ==
  ASSUME NEW c, NEW cs, NEW q, NEW x, NEW ds, NEW as, NEW b \in BOOLEAN,
         Meets(c, cs, q, x, ds, as, b)
  PROVE  Meets(c, cs, q, <<>>, ds, as, TRUE)
<1>1. Silent(<<>>, c, ds) BY DEF Silent
<1> QED BY <1>1 DEF Meets

\* The messages of the calls are messages.
CallsAre(cs) ==
  \A r \in Requests : \A i \in DOMAIN cs[r].seq : cs[r].seq[i].call = "push" => cs[r].seq[i].msg \in Message

\* Documents change, and the messages do not.
LEMMA KeepMsgs ==
  ASSUME NEW c \in Crons, NEW cs, NEW q \in Seq(Message), NEW x \in Seq(Message), NEW ds, NEW as,
         NEW es, NEW b \in BOOLEAN, Meets(c, cs, q, x, ds, as, b),
         Owner[c] \in Workflows \/ (ds[c] = NoDoc <=> es[c] = NoDoc), CallsAre(cs)
  PROVE  Meets(c, cs, q, x, es, as, b)
<1>1. \A m \in Message : Told(m, c, ds) <=> Told(m, c, es) BY ToldSame
<1>2. ASSUME NEW z \in Seq(Message)
      PROVE  /\ Settles(z, c, ds, as) => Settles(z, c, es, as)
             /\ Silent(z, c, ds) => Silent(z, c, es)
  <2>1. \A i \in DOMAIN z : z[i] \in Message BY <1>2, ElementOfSeq
  <2> QED BY <1>1, <2>1 DEF Settles, Silent
<1>3. Owed(c, cs, ds) => Owed(c, cs, es)
  BY <1>1 DEF Owed, CallsAre
<1> QED BY <1>2, <1>3 DEF Meets

LEMMA PushedAre ==
  ASSUME Sound
  PROVE  CallsAre(calls)
<1> SUFFICES ASSUME NEW r \in Requests, NEW i \in DOMAIN calls[r].seq, calls[r].seq[i].call = "push"
             PROVE  calls[r].seq[i].msg \in Message
  BY DEF CallsAre
<1>1. calls[r].seq \in Seq(AnyCall) BY DEF Sound, Typed, CallsTyped
<1>2. calls[r].seq[i] \in AnyCall BY <1>1, ElementOfSeq
<1> QED BY <1>2, CallKinds DEF PushCall

LEMMA PushedPrime ==
  ASSUME Sound'
  PROVE  CallsAre(calls')
<1> SUFFICES ASSUME NEW r \in Requests, NEW i \in DOMAIN calls'[r].seq, calls'[r].seq[i].call = "push"
             PROVE  calls'[r].seq[i].msg \in Message
  BY DEF CallsAre
<1>1. calls'[r].seq \in Seq(AnyCall) BY DEF Sound, Typed, CallsTyped
<1>2. calls'[r].seq[i] \in AnyCall BY <1>1, ElementOfSeq
<1> QED BY <1>2, CallKinds DEF PushCall

\* A request begins: a timer it asks for anew is one that it owes a message.
LEMMA RequestMeets ==
  ASSUME Sound, NEW r \in Requests, NewRequest(r), NEW c \in Crons, NEW x \in Seq(Message),
         NEW b \in BOOLEAN, NEW d \in BOOLEAN, Meets(c, calls, queue, x, docs, asked, b),
         asked'[c] = asked[c] /\ ~Owed(c, calls', docs) /\ b => d
  PROVE  Meets(c, calls', queue', x, docs', asked', d)
<1>1. PICK o \in Workflows \cup Tests, s \in Seq(AnyCall) : Begins(r, o, s) /\ NewCalls(o, s)
  BY DEF NewRequest
<1>2. queue' = queue /\ docs' = docs /\ calls[r].seq = <<>>
      /\ \A k \in Crons : Owner[k] # o => asked'[k] = asked[k]
  BY <1>1 DEF Begins
<1>3. calls \in [Requests -> [owner : Workflows \cup Tests \cup {None}, seq : Seq(AnyCall)]]
  BY DEF Sound, Typed, CallsTyped
<1>4. calls'[r].seq = s /\ \A q \in Requests : q # r => calls'[q] = calls[q]
  BY <1>1, <1>3 DEF Begins
<1>5. ASSUME Owed(c, calls, docs) PROVE Owed(c, calls', docs)
  <2>1. PICK q \in Requests : \E i \in DOMAIN calls[q].seq :
          calls[q].seq[i].call = "push" /\ Told(calls[q].seq[i].msg, c, docs)
    BY <1>5 DEF Owed
  <2>2. q # r BY <2>1, <1>2
  <2> QED BY <2>1, <2>2, <1>4 DEF Owed
<1>6. asked'[c] = asked[c] \/ Owed(c, calls', docs)
  <2>1. CASE Owner[c] # o BY <2>1, <1>2
  <2>2. CASE Owner[c] = o
    <3>1. asked'[c] = asked[c] \/ \E i \in DOMAIN s : s[i].call = "push" /\ Told(s[i].msg, c, docs)
      BY <1>1, <2>2 DEF NewCalls, Of
    <3> QED BY <3>1, <1>4 DEF Owed
  <2> QED BY <2>1, <2>2
<1>7. CASE Owed(c, calls', docs) BY <1>2, <1>7 DEF Meets
<1>8. CASE ~Owed(c, calls', docs) BY <1>2, <1>5, <1>6, <1>8 DEF Meets, Settles
<1> QED BY <1>7, <1>8

LEMMA FollowsOwed ==
  ASSUME Sound, NEW r \in Requests, Call(r), NEW c \in Crons, NEW ds, Follows(calls[r].seq, 1, c)
  PROVE  Owed(c, calls', ds)
<1> DEFINE s == calls[r].seq
           u == Tail(s)
<1>1. calls'[r].seq = u /\ \A i \in DOMAIN s : i # 1 => i - 1 \in DOMAIN u /\ u[i - 1] = s[i]
  BY CallFacts
<1> HIDE DEF u
<1>2. PICK k \in DOMAIN s : k > 1 /\ s[k].call = "push" /\ s[k].msg.action = "enable" /\ Bears(s[k].msg, c)
  BY DEF Follows
<1>3. s \in Seq(AnyCall) BY CallFacts
<1>4. k # 1
  <2>1. k \in 1..Len(s) BY <1>3, LenProperties
  <2> QED BY <2>1, <1>2
<1>5. k - 1 \in DOMAIN u /\ u[k - 1] = s[k] BY <1>1, <1>4
<1>6. Told(s[k].msg, c, ds) BY <1>2 DEF Told
<1> QED BY <1>1, <1>2, <1>5, <1>6 DEF Owed

\* A document changes only with a message to come, or is one of a workflow that is switched off.
LEMMA CallOwes ==
  ASSUME Sound, NEW r \in Requests, Call(r), NEW c \in Crons, NEW ds
  PROVE  \/ docs'[c] = docs[c]
         \/ Owed(c, calls', ds)
         \/ Owner[c] \in Workflows /\ ~docs'[c].enabled /\ asked[c] = None
<1> DEFINE s == calls[r].seq
           x == calls[r].seq[1]
           o == calls[r].owner
<1>1. s \in Seq(AnyCall) /\ x \in AnyCall /\ RightCall(s, 1, o, asked) BY CallFacts
<1>2. /\ \/ docs'[c] = docs[c]
         \/ Puts(x, c) /\ docs'[c] = x.doc
         \/ Removes(x, c) /\ Owner[c] = o /\ asked[c] = None /\ docs'[c] = NoDoc
      /\ Puts(x, c) => Owner[c] = o
  BY CallWrites
<1>3. Owner[c] \in Workflows \cup Tests BY NamesApart
<1>4. CASE Puts(x, c) /\ docs'[c] = x.doc
  <2>1. IF x.doc.enabled THEN Follows(s, 1, c) ELSE asked[c] = None /\ o \notin Tests
    BY <1>1, <1>4 DEF RightCall, RightPut, Puts
  <2>2. CASE x.doc.enabled BY <2>1, <2>2, FollowsOwed
  <2>3. CASE ~x.doc.enabled BY <1>2, <1>3, <1>4, <2>1, <2>3
  <2> QED BY <2>2, <2>3
<1>5. CASE Removes(x, c) /\ Owner[c] = o /\ asked[c] = None /\ docs'[c] = NoDoc
  <2>1. ~NoDoc.enabled BY DEF NoDoc
  <2>2. CASE o \in Tests
    <3>1. x.call # "deleteOf"
      <4> SUFFICES ASSUME x.call = "deleteOf" PROVE FALSE OBVIOUS
      <4>1. x.owner \in Workflows BY <1>1, CallKinds DEF DeleteOfCall
      <4>2. x.owner = o BY <1>1 DEF RightCall, RightDeleteOf
      <4> QED BY <2>2, <4>1, <4>2, NamesApart
    <3>2. x.call = "delete" /\ c \in x.ids BY <1>5, <3>1 DEF Removes
    <3>3. Follows(s, 1, c) BY <1>1, <2>2, <3>2 DEF RightCall, RightDelete
    <3> QED BY <3>3, FollowsOwed
  <2>3. CASE o \notin Tests BY <1>3, <1>5, <2>1, <2>3
  <2> QED BY <2>2, <2>3
<1> QED BY <1>2, <1>4, <1>5

\* A request makes a call.
LEMMA CallMeets ==
  ASSUME Sound, NEW r \in Requests, Call(r), NEW c \in Crons, NEW x \in Seq(Message),
         NEW b \in BOOLEAN, NEW d \in BOOLEAN, Meets(c, calls, queue, x, docs, asked, b),
         ~Owed(c, calls', docs') /\ b => d
  PROVE  Meets(c, calls', queue', x, docs', asked', d)
<1> DEFINE s == calls[r].seq
           y == calls[r].seq[1]
           u == Tail(s)
<1>1. /\ y \in AnyCall /\ docs' = Written(y, docs)
      /\ queue' = (IF y.call = "push" THEN Append(queue, y.msg) ELSE queue)
      /\ RightCall(s, 1, calls[r].owner, asked)
      /\ calls'[r].seq = u /\ \A q \in Requests : q # r => calls'[q] = calls[q]
      /\ \A i \in DOMAIN s : i # 1 => i - 1 \in DOMAIN u /\ u[i - 1] = s[i]
  BY CallFacts
<1> HIDE DEF u
<1>2. asked' = asked BY DEF Call
<1>3. queue \in Seq(Message) BY SoundTypes
<1>4. ASSUME Owed(c, calls, docs), ~(y.call = "push" /\ Told(y.msg, c, docs))
      PROVE  Owed(c, calls', docs)
  <2>1. PICK q \in Requests : \E i \in DOMAIN calls[q].seq :
          calls[q].seq[i].call = "push" /\ Told(calls[q].seq[i].msg, c, docs)
    BY <1>4 DEF Owed
  <2>2. CASE q # r BY <2>1, <2>2, <1>1 DEF Owed
  <2>3. CASE q = r
    <3>1. PICK i \in DOMAIN s : s[i].call = "push" /\ Told(s[i].msg, c, docs) BY <2>1, <2>3
    <3>2. i # 1 BY <3>1, <1>4
    <3>3. i - 1 \in DOMAIN u /\ u[i - 1] = s[i] BY <3>2, <1>1
    <3> QED BY <3>1, <3>3, <1>1 DEF Owed
  <2> QED BY <2>2, <2>3
<1>5. CASE y.call = "push"
  <2>1. y.msg \in Message BY <1>1, <1>5, CallKinds DEF PushCall
  <2>2. docs' = docs BY <1>1, <1>5 DEF Written
  <2>3. queue' = Append(queue, y.msg) BY <1>1, <1>5
  <2>4. CASE Told(y.msg, c, docs)
    <3>1. Value(y.msg, c) = asked[c] BY <1>1, <1>5, <2>4 DEF RightCall, RightPush, Told
    <3>2. Settles(queue', c, docs, asked) BY <1>3, <2>1, <2>3, <2>4, <3>1, AppendMsg
    <3> QED BY <1>2, <2>2, <3>2 DEF Meets
  <2>5. CASE ~Told(y.msg, c, docs)
    <3>1. Owed(c, calls, docs) => Owed(c, calls', docs) BY <1>4, <2>5
    <3>2. Settles(queue, c, docs, asked) => Settles(queue', c, docs, asked)
      BY <1>3, <2>1, <2>3, <2>5, AppendMsg
    <3>3. Silent(queue, c, docs) => Silent(queue', c, docs)
      BY <1>3, <2>1, <2>3, <2>5, AppendMsg
    <3> QED BY <1>2, <2>2, <3>1, <3>2, <3>3 DEF Meets
  <2> QED BY <2>4, <2>5
<1>6. CASE y.call # "push"
  <2>1. queue' = queue BY <1>1, <1>6
  <2>2. CASE Owed(c, calls', docs') BY <2>2 DEF Meets
  <2>3. CASE ~Owed(c, calls', docs')
    <3>1. docs'[c] = docs[c] \/ Owner[c] \in Workflows BY <2>3, CallOwes
    <3>2. PICK cs : cs = calls' OBVIOUS
    <3>3. PICK es : es = docs' OBVIOUS
    <3>4. Meets(c, cs, queue, x, docs, asked, d) BY <1>4, <1>6, <2>3, <3>2 DEF Meets
    <3>5. CallsAre(cs) BY <3>2, CallSound, PushedPrime
    <3>6. Owner[c] \in Workflows \/ (docs[c] = NoDoc <=> es[c] = NoDoc) BY <3>1, <3>3
    <3>7. Meets(c, cs, queue, x, es, asked, d) BY <1>3, <3>4, <3>5, <3>6, KeepMsgs
    <3> QED BY <1>2, <2>1, <3>2, <3>3, <3>7
  <2> QED BY <2>2, <2>3
<1> QED BY <1>5, <1>6

-----------------------------------------------------------------------------
(* The steps of the cron service, by what they do to the messages under way. *)

LEMMA OneMore ==
  ASSUME NEW b \in Seq(Message), NEW n \in 1..Len(b)
  PROVE  /\ SubSeq(b, 1, n - 1) \in Seq(Message)
         /\ SubSeq(b, 1, n) = Append(SubSeq(b, 1, n - 1), b[n])
         /\ SubSeq(b, 1, Len(b)) = b
<1>1. PICK l \in Nat : l = Len(b) /\ DOMAIN b = 1..l /\ \A i \in 1..l : b[i] \in Message
  BY LenProperties, ElementOfSeq
<1>2. n \in 1..l /\ n - 1 \in 0..l BY <1>1
<1>3. PICK m \in 0..l : m = n - 1 BY <1>2
<1>4. ASSUME NEW k \in 0..l
      PROVE  /\ SubSeq(b, 1, k) \in Seq(Message) /\ Len(SubSeq(b, 1, k)) = k
             /\ \A i \in 1..k : SubSeq(b, 1, k)[i] = b[i]
  <2>1. \A i \in 1..k : b[i] \in Message BY <1>1
  <2>2. k \in Int /\ 1 \in Int BY <1>1
  <2>3. SubSeq(b, 1, k) \in Seq(Message) BY <2>1, <2>2, SubSeqProperties
  <2>4. Len(SubSeq(b, 1, k)) = IF 1 <= k THEN k - 1 + 1 ELSE 0 BY <2>1, <2>2, SubSeqProperties
  <2>5. \A i \in 1..(k - 1 + 1) : SubSeq(b, 1, k)[i] = b[1 + i - 1] BY <2>1, <2>2, SubSeqProperties
  <2>6. k - 1 + 1 = k BY <2>2
  <2>7. \A i \in 1..k : 1 + i - 1 = i BY <2>2
  <2> QED BY <2>2, <2>3, <2>4, <2>5, <2>6, <2>7
<1>5. PICK x \in Seq(Message) : /\ x = SubSeq(b, 1, m) /\ Len(x) = m
                                /\ \A i \in 1..m : x[i] = b[i]
  BY <1>4
<1>6. PICK y \in Seq(Message) : /\ y = SubSeq(b, 1, n) /\ Len(y) = n
                                /\ \A i \in 1..n : y[i] = b[i]
  <2>1. n \in 0..l BY <1>2
  <2> QED BY <2>1, <1>4
<1>7. PICK w \in Seq(Message) : /\ w = SubSeq(b, 1, l) /\ Len(w) = l
                                /\ \A i \in 1..l : w[i] = b[i]
  <2>1. l \in 0..l BY <1>1
  <2> QED BY <2>1, <1>4
<1>8. b[n] \in Message BY <1>1, <1>2
<1>9. PICK z : z = Append(x, b[n]) OBVIOUS
<1>10. z \in Seq(Message) /\ Len(z) = m + 1 /\ z[m + 1] = b[n] /\ \A i \in 1..m : z[i] = x[i]
  BY <1>5, <1>8, <1>9, AppendProperties
<1>11. m + 1 = n BY <1>2, <1>3
<1>12. \A i \in 1..n : y[i] = z[i]
  <2> SUFFICES ASSUME NEW i \in 1..n PROVE y[i] = z[i] OBVIOUS
  <2>1. CASE i = n BY <2>1, <1>6, <1>10, <1>11
  <2>2. CASE i # n
    <3>1. i \in 1..m BY <2>2, <1>11, <1>3
    <3> QED BY <3>1, <1>5, <1>6, <1>10
  <2> QED BY <2>1, <2>2
<1>13. y = z BY <1>6, <1>10, <1>11, <1>12, SeqEqual
<1>14. w = b BY <1>1, <1>7, SeqEqual
<1> QED BY <1>1, <1>3, <1>5, <1>6, <1>7, <1>9, <1>13, <1>14

LEMMA RestTyped ==
  ASSUME Sound
  PROVE  Rest \in Seq(Message)
<1>1. cron.batch \in Seq(Message) BY SoundTypes
<1>2. <<>> \in Seq(Message) OBVIOUS
<1>3. CASE cron.pc = "delete"
  <2>1. cron.at \in 1..Len(cron.batch) BY <1>3, SoundTypes DEF BatchInv
  <2>2. SubSeq(cron.batch, 1, cron.at - 1) \in Seq(Message) BY <1>1, <2>1, OneMore
  <2> QED BY <1>3, <2>2 DEF Rest
<1>4. CASE cron.pc = "handle" BY <1>1, <1>4 DEF Rest
<1>5. CASE cron.pc \in {"disable", "wait"} BY <1>5, HeadTyped DEF Rest
<1>6. CASE cron.pc \notin {"delete", "handle", "disable", "wait"} BY <1>2, <1>6 DEF Rest
<1> QED BY <1>3, <1>4, <1>5, <1>6

\* A message is deleted from the queue, and the deletion does not fail.
LEMMA DeleteMoves ==
  ASSUME Sound, Aligned, DeleteMsg, kept' = kept
  PROVE  /\ Rests(queue, queue') /\ queue[1] \in Message
         /\ Rest' = Append(Rest, queue[1]) /\ Aligned'
<1> DEFINE at == cron.at
           b == cron.batch
<1>1. /\ cron'.pc = (IF at = Len(b) THEN "handle" ELSE "delete")
      /\ cron'.batch = b /\ cron'.at = at + 1
      /\ at \in 1..Len(b) /\ cron.left + Len(b) < Len(queue) + at
  BY DeleteMsgSide
<1>2. cron.pc = "delete" BY DEF DeleteMsg
<1>3. cron.left = 0 /\ \A i \in at..Len(b) : queue[i - at + 1] = b[i] BY <1>2 DEF Aligned
<1>4. /\ cron'.left = cron.left
      /\ queue' = SubSeq(queue, 1, cron.left) \o SubSeq(queue, cron.left + 2, Len(queue))
  <2>1. kept \in Nat BY SoundTypes
  <2>2. kept' # kept + 1 BY <2>1
  <2> QED BY <2>2, DeleteMsgSide
<1>5. queue \in Seq(Message) /\ b \in Seq(Message) BY SoundTypes
<1>6. PICK l \in Nat : l = Len(b) BY <1>5, LenProperties
<1>7. PICK n \in Nat : n = Len(queue) BY <1>5, LenProperties
<1>8. at \in 1..l /\ l < n + at BY <1>1, <1>3, <1>6, <1>7
<1>9. n > 0 BY <1>8
<1>10. PICK z : z = SubSeq(queue, 1, 1 - 1) \o SubSeq(queue, 1 + 1, n) OBVIOUS
<1>11. 1 \in 1..Len(queue) BY <1>7, <1>9
<1>12. z \in Seq(Message) /\ Len(z) = n - 1 /\ \A i \in 1..Len(z) : z[i] = queue[i + 1]
  BY <1>5, <1>7, <1>10, <1>11, CutOne
<1>13. queue' = z BY <1>3, <1>4, <1>7, <1>10
<1>14. Rests(queue, queue')
  <2>1. queue # <<>> BY <1>7, <1>9
  <2> QED BY <1>7, <1>12, <1>13, <2>1 DEF Rests
<1>15. queue[1] = b[at]
  <2>1. at \in at..Len(b) /\ at - at + 1 = 1 BY <1>6, <1>8
  <2> QED BY <1>3, <2>1
<1>16. queue[1] \in Message BY <1>5, <1>11, LenProperties, ElementOfSeq
<1>17. Rest = SubSeq(b, 1, at - 1) BY <1>2 DEF Rest
<1>18. SubSeq(b, 1, at) = Append(Rest, queue[1]) /\ SubSeq(b, 1, Len(b)) = b
  <2>1. at \in 1..Len(b) /\ b \in Seq(Message) BY <1>1, <1>5
  <2>2. SubSeq(b, 1, at) = Append(SubSeq(b, 1, at - 1), b[at]) /\ SubSeq(b, 1, Len(b)) = b
    BY <2>1, OneMore
  <2> QED BY <1>15, <1>17, <2>2
<1>19. CASE at = Len(b)
  <2>1. cron'.pc = "handle" BY <1>1, <1>19
  <2>2. Rest' = cron'.batch BY <2>1 DEF Rest
  <2>3. Aligned' BY <2>1 DEF Aligned
  <2> QED BY <1>1, <1>14, <1>16, <1>18, <1>19, <2>2, <2>3
<1>20. CASE at # Len(b)
  <2>1. cron'.pc = "delete" BY <1>1, <1>20
  <2>2. (at + 1) - 1 = at BY <1>8
  <2>3. Rest' = SubSeq(b, 1, at)
    <3>1. Rest' = SubSeq(cron'.batch, 1, cron'.at - 1) BY <2>1 DEF Rest
    <3> QED BY <1>1, <2>2, <3>1
  <2>4. ASSUME NEW i \in (at + 1)..l PROVE z[i - (at + 1) + 1] = b[i]
    <3>1. i \in at..l /\ i - (at + 1) + 1 = i - at /\ i - at \in 1..(n - 1) BY <1>8, <2>4
    <3>2. z[i - at] = queue[i - at + 1] BY <1>12, <3>1
    <3> QED BY <1>3, <1>6, <3>1, <3>2
  <2>5. Aligned' BY <1>1, <1>3, <1>4, <1>6, <1>13, <2>4 DEF Aligned
  <2> QED BY <1>14, <1>16, <1>18, <2>3, <2>5
<1> QED BY <1>19, <1>20

LEMMA HandledRest ==
  ASSUME NEW y \in Seq(Message), cron' = Handled(y)
  PROVE  Rest' = y /\ Aligned' /\ cron'.pc \in {"idle", "handle"}
<1>1. cron'.batch = y /\ cron'.pc = IF y = <<>> THEN "idle" ELSE "handle" BY HandledTyped
<1>2. CASE y = <<>> BY <1>1, <1>2 DEF Rest, Aligned
<1>3. CASE y # <<>> BY <1>1, <1>3 DEF Rest, Aligned
<1> QED BY <1>2, <1>3

\* The timers after the first message that waits.
Obeyed ==
  \A c \in Crons : timers'[c] = IF Told(Rest[1], c, docs) THEN Value(Rest[1], c) ELSE timers[c]

Served == Rests(Rest, Rest') /\ Obeyed /\ clean' = clean /\ failures' = failures
GivenUp == Rest' = <<>> /\ ~clean'

LEMMA UpdateServes ==
  ASSUME Sound, updateCronjob
  PROVE  /\ Served \/ GivenUp
         /\ Aligned' /\ cron.pc = "handle" /\ cron'.pc \in {"idle", "handle"} /\ crashes' = crashes
<1> DEFINE msg == cron.batch[1]
           ok == Accepted(msg.jobs) = msg.jobs
           y == IF ok THEN Tail(cron.batch) ELSE <<>>
           ts == [c \in Crons |-> IF c \in msg.deletes THEN None ELSE timers[c]]
<1>1. cron.pc = "handle" /\ crashes' = crashes /\ failures' = failures
  BY DEF updateCronjob, CronUnchanged
<1>2. /\ Head(cron.batch) = msg /\ cron.batch # <<>> /\ cron.batch \in Seq(Message)
      /\ Tail(cron.batch) \in Seq(Message)
  BY <1>1, HeadTyped, SoundTypes
<1>3. /\ msg.action = "enable" /\ timers' = Scheduled(Accepted(msg.jobs), ts)
      /\ cron' = Handled(y) /\ clean' = (clean /\ ok)
  BY <1>2 DEF updateCronjob
<1>4. y \in Seq(Message)
  <2>1. <<>> \in Seq(Message) OBVIOUS
  <2> QED BY <1>2, <2>1
<1>5. Rest = cron.batch BY <1>1 DEF Rest
<1> HIDE DEF y
<1>6. Rest' = y /\ Aligned' /\ cron'.pc \in {"idle", "handle"} BY <1>3, <1>4, HandledRest
<1>7. CASE ~ok
  <2>1. y = <<>> BY <1>7 DEF y
  <2> QED BY <1>1, <1>3, <1>6, <1>7, <2>1 DEF GivenUp
<1>8. CASE ok
  <2>1. y = Tail(cron.batch) BY <1>8 DEF y
  <2>2. Rests(Rest, Rest') BY <1>2, <1>5, <1>6, <2>1, TailRests
  <2>3. clean' = clean
    <3>1. clean \in BOOLEAN BY SoundTypes
    <3> QED BY <1>3, <1>8, <3>1
  <2>4. Obeyed
    <3> SUFFICES ASSUME NEW c \in Crons
                 PROVE  timers'[c] = IF Told(msg, c, docs) THEN Value(msg, c) ELSE timers[c]
      BY <1>5 DEF Obeyed
    <3>1. timers' = Scheduled(msg.jobs, ts) BY <1>3, <1>8
    <3>2. timers'[c] = IF Named(msg, c)
                       THEN msg.jobs[CHOOSE i \in DOMAIN msg.jobs : msg.jobs[i].id = c].rev
                       ELSE IF c \in msg.deletes THEN None ELSE timers[c]
      BY <3>1 DEF Scheduled, Named
    <3>3. Told(msg, c, docs) <=> c \in msg.deletes \/ Named(msg, c) BY <1>3 DEF Told, Bears
    <3>4. CASE Named(msg, c) BY <1>3, <3>2, <3>3, <3>4 DEF Value
    <3>5. CASE ~Named(msg, c)
      <4>1. Value(msg, c) = None BY <3>5 DEF Value
      <4> QED BY <3>2, <3>3, <3>5, <4>1
    <3> QED BY <3>4, <3>5
  <2> QED BY <1>1, <1>6, <2>2, <2>3, <2>4 DEF Served
<1> QED BY <1>7, <1>8

LEMMA StopServes ==
  ASSUME Sound, stopCronjob
  PROVE  /\ Served \/ GivenUp
         /\ Aligned' /\ cron.pc = "handle" /\ cron'.pc \in {"idle", "disable"} /\ crashes' = crashes
<1> DEFINE msg == cron.batch[1]
<1>1. cron.pc = "handle" /\ crashes' = crashes BY DEF stopCronjob, CronUnchanged
<1>2. /\ Head(cron.batch) = msg /\ cron.batch # <<>> /\ cron.batch \in Seq(Message)
      /\ Tail(cron.batch) \in Seq(Message)
  BY <1>1, HeadTyped, SoundTypes
<1>3. /\ msg.action = "disable"
      /\ \/ /\ timers' = [c \in Crons |-> IF Owner[c] = msg.owner /\ Exists(c) THEN None ELSE timers[c]]
            /\ cron' = [cron EXCEPT !.pc = "disable"] /\ clean' = clean /\ failures' = failures
         \/ clean' = FALSE /\ cron' = Handled(<<>>)
  BY <1>2 DEF stopCronjob
<1>4. Rest = cron.batch BY <1>1 DEF Rest
<1>5. CASE clean' = FALSE /\ cron' = Handled(<<>>)
  <2>1. <<>> \in Seq(Message) OBVIOUS
  <2>2. Rest' = <<>> /\ Aligned' BY <1>5, <2>1, HandledRest
  <2>3. cron'.pc = "idle" BY <1>5, <2>1, HandledTyped
  <2> QED BY <1>1, <1>5, <2>2, <2>3 DEF GivenUp
<1>6. CASE /\ timers' = [c \in Crons |-> IF Owner[c] = msg.owner /\ Exists(c) THEN None ELSE timers[c]]
           /\ cron' = [cron EXCEPT !.pc = "disable"] /\ clean' = clean /\ failures' = failures
  <2>1. cron'.pc = "disable" /\ cron'.batch = cron.batch
    <3>1. cron \in CronRec BY SoundTypes
    <3> QED BY <1>6, <3>1 DEF CronRec
  <2>2. Rest' = Tail(cron.batch) /\ Aligned' BY <2>1 DEF Rest, Aligned
  <2>3. Rests(Rest, Rest') BY <1>2, <1>4, <2>2, TailRests
  <2>4. Obeyed
    <3> SUFFICES ASSUME NEW c \in Crons
                 PROVE  timers'[c] = IF Told(msg, c, docs) THEN Value(msg, c) ELSE timers[c]
      BY <1>4 DEF Obeyed
    <3>1. Told(msg, c, docs) <=> Owner[c] = msg.owner /\ Exists(c) BY <1>3 DEF Told, Bears, Exists
    <3>2. Value(msg, c) = None BY <1>3 DEF Value
    <3> QED BY <1>6, <3>1, <3>2
  <2> QED BY <1>1, <1>6, <2>1, <2>2, <2>3, <2>4 DEF Served
<1> QED BY <1>3, <1>5, <1>6

\* Steps that move no message.
Still == Rest' = Rest /\ queue' = queue /\ kept' = kept /\ (Aligned => Aligned')

LEMMA StartAway ==
  ASSUME Sound, CronStart \/ ListActiveCronjob \/ ListWithScheduleEnabled
                \/ ListActiveCronjobFailsafe \/ InitExistedCronjob
  PROVE  cron'.pc \in {"init", "safe", "idle"}
<1>1. cron \in CronRec BY SoundTypes
<1>2. CASE CronStart BY <1>1, <1>2 DEF CronStart, CronRec
<1>3. CASE ListActiveCronjob BY <1>1, <1>3 DEF ListActiveCronjob, CronRec
<1>4. CASE ListWithScheduleEnabled BY <1>1, <1>4 DEF ListWithScheduleEnabled, CronRec
<1>5. CASE ListActiveCronjobFailsafe BY <1>1, <1>5 DEF ListActiveCronjobFailsafe, CronRec
<1>6. CASE InitExistedCronjob BY <1>1, <1>6, DownTyped DEF InitExistedCronjob, CronRec
<1> QED BY <1>2, <1>3, <1>4, <1>5, <1>6

LEMMA StartStill ==
  ASSUME Sound, CronStart \/ ListActiveCronjob \/ ListWithScheduleEnabled
                \/ ListActiveCronjobFailsafe \/ InitExistedCronjob
  PROVE  Still
<1>1. cron.pc \in {"down", "init", "safe"}
  BY DEF CronStart, ListActiveCronjob, ListWithScheduleEnabled, ListActiveCronjobFailsafe,
     InitExistedCronjob
<1>2. kept' = kept
  BY DEF CronStart, ListActiveCronjob, ListWithScheduleEnabled, ListActiveCronjobFailsafe,
     InitExistedCronjob
<1>3. cron'.pc \in {"init", "safe", "idle"} BY StartAway
<1>4. Rest = <<>> BY <1>1 DEF Rest
<1>5. Rest' = <<>> BY <1>3 DEF Rest
<1>6. Aligned' BY <1>3 DEF Aligned
<1> QED BY <1>2, <1>4, <1>5, <1>6, StartSide DEF Still

LEMMA ListQueueStill ==
  ASSUME Sound, ListQueue
  PROVE  /\ Still /\ cron.pc = "idle" /\ cron'.pc = "delete"
         /\ UNCHANGED <<timers, clean, failures, crashes>>
<1>1. /\ cron.pc = "idle" /\ UNCHANGED <<timers, clean, failures, crashes>> /\ kept' = kept
      /\ queue # <<>> /\ queue' = queue
  BY DEF ListQueue, CronUnchanged
<1>2. cron'.pc = "delete" /\ cron'.batch = queue /\ cron'.at = 1 /\ cron'.left = 0
  <2>1. cron \in CronRec BY SoundTypes
  <2> QED BY <2>1, ListQueueSide DEF CronRec
<1>3. Rest = <<>> BY <1>1 DEF Rest
<1>4. Rest' = <<>>
  <2>1. Rest' = SubSeq(queue, 1, 1 - 1) BY <1>2 DEF Rest
  <2>2. 1 \in 1..Len(queue) /\ queue \in Seq(Message)
    <3>1. queue \in Seq(Message) BY SoundTypes
    <3> QED BY <1>1, <3>1
  <2>3. SubSeq(queue, 1, 0) = <<>> BY SubSeqEmpty
  <2> QED BY <2>1, <2>3
<1>5. Aligned'
  <2>1. \A i \in 1..Len(queue) : i - 1 + 1 = i
    <3>1. Len(queue) \in Nat BY SoundTypes
    <3> QED BY <3>1
  <2> QED BY <1>1, <1>2, <2>1 DEF Aligned
<1> QED BY <1>1, <1>2, <1>3, <1>4, <1>5 DEF Still

LEMMA DisableStill ==
  ASSUME Sound, DisableRequest \/ DisableAnswer
  PROVE  /\ Still /\ cron.pc \in {"disable", "wait"} /\ cron'.pc \in {"wait", "idle", "handle"}
         /\ UNCHANGED <<timers, clean, crashes>> /\ failures' \in {failures, failures + 1}
<1>1. /\ cron.pc \in {"disable", "wait"} /\ UNCHANGED <<timers, clean, crashes, queue, kept>>
      /\ failures' \in {failures, failures + 1}
  BY DEF DisableRequest, DisableAnswer, CronUnchanged
<1>2. Rest = Tail(cron.batch) BY <1>1 DEF Rest
<1>3. Tail(cron.batch) \in Seq(Message) BY <1>1, HeadTyped
<1>4. CASE cron' = Handled(Tail(cron.batch))
  <2>1. Rest' = Rest /\ Aligned' /\ cron'.pc \in {"idle", "handle"} BY <1>2, <1>3, <1>4, HandledRest
  <2> QED BY <1>1, <2>1 DEF Still
<1>5. CASE cron' = [cron EXCEPT !.pc = "wait"]
  <2>1. cron'.pc = "wait" /\ cron'.batch = cron.batch
    <3>1. cron \in CronRec BY SoundTypes
    <3> QED BY <1>5, <3>1 DEF CronRec
  <2>2. Rest' = Tail(cron.batch) /\ Aligned' BY <2>1 DEF Rest, Aligned
  <2> QED BY <1>1, <1>2, <2>1, <2>2 DEF Still
<1> QED BY <1>4, <1>5 DEF DisableRequest, DisableAnswer

LEMMA AlignedCall ==
  ASSUME Sound, NEW r \in Requests, Call(r), Aligned
  PROVE  Aligned' /\ Rest' = Rest
<1> DEFINE x == calls[r].seq[1]
<1>1. x \in AnyCall /\ queue' = (IF x.call = "push" THEN Append(queue, x.msg) ELSE queue)
  BY CallFacts
<1>2. cron' = cron BY DEF Call
<1>3. Rest' = Rest BY <1>2 DEF Rest
<1> HIDE DEF x
<1>4. CASE cron.pc # "delete" \/ x.call # "push" BY <1>1, <1>2, <1>3, <1>4 DEF Aligned
<1>5. CASE cron.pc = "delete" /\ x.call = "push"
  <2>1. x.msg \in Message BY <1>1, <1>5, CallKinds DEF PushCall
  <2>2. queue \in Seq(Message) BY SoundTypes
  <2>3. \A i \in 1..Len(queue) : queue'[i] = queue[i] BY <1>1, <1>5, <2>1, <2>2, AppendProperties
  <2>4. /\ cron.left = 0 /\ cron.at \in 1..Len(cron.batch)
        /\ cron.left + Len(cron.batch) < Len(queue) + cron.at
    BY <1>5, SoundTypes DEF Aligned, BatchInv
  <2>5. Len(queue) \in Nat /\ Len(cron.batch) \in Nat /\ cron.at \in Nat BY SoundTypes
  <2>6. ASSUME NEW i \in cron.at..Len(cron.batch) PROVE queue'[i - cron.at + 1] = cron.batch[i]
    <3>1. i - cron.at + 1 \in 1..Len(queue) BY <2>4, <2>5, <2>6
    <3>2. queue[i - cron.at + 1] = cron.batch[i] BY <1>5, <2>6 DEF Aligned
    <3> QED BY <2>3, <3>1, <3>2
  <2> QED BY <1>2, <1>3, <2>4, <2>6 DEF Aligned
<1> QED BY <1>4, <1>5

\* The messages leave a timer right, before and after a step.
Met(c, b) == Meets(c, calls, queue, Rest, docs, asked, b)

LEMMA StillMeets ==
  ASSUME Sound, CronSide, Still, NEW c \in Crons, NEW b \in BOOLEAN, NEW d \in BOOLEAN,
         Met(c, b), ~Owed(c, calls, docs) /\ b => d
  PROVE  Met(c, d)'
<1>1. queue \in Seq(Message) /\ Rest \in Seq(Message) /\ CallsAre(calls)
  BY SoundTypes, RestTyped, PushedAre
<1>2. calls' = calls /\ asked' = asked /\ (docs[c] = NoDoc <=> docs'[c] = NoDoc)
  BY DEF CronSide, Exists
<1>3. PICK es : es = docs' OBVIOUS
<1>4. Meets(c, calls, queue, Rest, docs, asked, d) BY DEF Met, Meets
<1>5. Meets(c, calls, queue, Rest, es, asked, d) BY <1>1, <1>2, <1>3, <1>4, KeepMsgs
<1> QED BY <1>2, <1>3, <1>5 DEF Still, Met

LEMMA MoveMeets ==
  ASSUME Sound, CronSide, docs' = docs, Rests(queue, queue'), queue[1] \in Message,
         Rest' = Append(Rest, queue[1]), NEW c \in Crons, NEW b \in BOOLEAN, Met(c, b)
  PROVE  Met(c, b)'
<1>1. queue \in Seq(Message) /\ Rest \in Seq(Message) BY SoundTypes, RestTyped
<1>2. calls' = calls /\ asked' = asked /\ queue' \in Seq(Message) BY DEF CronSide
<1>3. PICK p \in Seq(Message) : p = queue' BY <1>2
<1>4. Meets(c, calls, p, Append(Rest, queue[1]), docs, asked, b)
  BY <1>1, <1>3, MoveMsg DEF Met
<1> QED BY <1>2, <1>3, <1>4 DEF Met

LEMMA RestPrime == (Sound => Rest \in Seq(Message))'
<1>1. Sound => Rest \in Seq(Message) BY RestTyped
<1> QED BY <1>1, PTL

LEMMA ServedMeets ==
  ASSUME Sound, Sound', CronSide, docs' = docs, queue' = queue, Rests(Rest, Rest'),
         NEW c \in Crons, NEW b \in BOOLEAN, NEW d \in BOOLEAN,
         Told(Rest[1], c, docs) /\ Value(Rest[1], c) = asked[c] => d,
         ~Told(Rest[1], c, docs) /\ b => d,
         Met(c, b)
  PROVE  Met(c, d)'
<1>1. queue \in Seq(Message) /\ Rest \in Seq(Message) BY SoundTypes, RestTyped
<1>2. calls' = calls /\ asked' = asked BY DEF CronSide
<1>3. Rest' \in Seq(Message) BY RestPrime
<1>4. PICK y \in Seq(Message) : y = Rest' BY <1>3
<1>5. PICK x \in Seq(Message) : x = Rest BY <1>1
<1>6. Rests(x, y) BY <1>4, <1>5
<1>7. Meets(c, calls, queue, x, docs, asked, b) BY <1>5 DEF Met
<1>8. Told(x[1], c, docs) /\ Value(x[1], c) = asked[c] => d BY <1>5
<1>9. ~Told(x[1], c, docs) /\ b => d BY <1>5
<1>10. Meets(c, calls, queue, y, docs, asked, d) BY <1>1, <1>6, <1>7, <1>8, <1>9, HandleMsg
<1> QED BY <1>2, <1>4, <1>10 DEF Met

LEMMA DroppedMeets ==
  ASSUME Sound, CronSide, docs' = docs, queue' = queue, Rest' = <<>>, NEW c \in Crons,
         NEW b \in BOOLEAN, NEW d \in BOOLEAN, d, Met(c, b)
  PROVE  Met(c, d)'
<1>1. calls' = calls /\ asked' = asked BY DEF CronSide
<1>2. Meets(c, calls, queue, <<>>, docs, asked, TRUE) BY DropMsgs DEF Met
<1>3. Meets(c, calls, queue, <<>>, docs, asked, d) BY <1>2 DEF Meets
<1> QED BY <1>1, <1>3 DEF Met

-----------------------------------------------------------------------------
(* Undisturbed, the timers follow the users.                                 *)

LEMMA FirstStart ==
  ASSUME Sound, crashes = 0 /\ cron.pc = "down" => clean, NEW c \in Crons, FirstMet(c),
         CronStart \/ ListActiveCronjob \/ ListWithScheduleEnabled
           \/ ListActiveCronjobFailsafe \/ InitExistedCronjob
  PROVE  FirstMet(c)'
<1> SUFFICES ASSUME crashes' = 0, failures' = 0, clean' PROVE FirstBase(c)' BY DEF FirstMet
<1>1. UNCHANGED <<docs, asked, crashes, failures>> /\ (clean' = clean \/ cron.pc = "down")
      /\ cron.pc \in {"down", "init", "safe"}
  BY DEF CronStart, ListActiveCronjob, ListWithScheduleEnabled, ListActiveCronjobFailsafe,
     InitExistedCronjob, CronUnchanged
<1>2. /\ asked[c] = None /\ timers[c] = None /\ cron.active[c] = None /\ cron.failsafe[c] = None
      /\ ~docs[c].enabled /\ (Owner[c] \in Tests => docs[c] = NoDoc)
  BY <1>1 DEF FirstMet, FirstBase, Early
<1>3. cron \in CronRec BY SoundTypes
<1>4. NoDoc.rev = None BY DEF NoDoc
<1>5. ASSUME cron'.pc \in {"init", "safe"}, timers'[c] = None, cron'.active[c] = None,
             cron'.failsafe[c] = None
      PROVE  FirstBase(c)'
  BY <1>1, <1>2, <1>5 DEF FirstBase, Early
<1>6. CASE CronStart
  <2>1. timers' = timers /\ cron' = [cron EXCEPT !.pc = "init"] BY <1>6 DEF CronStart
  <2>2. cron'.pc = "init" /\ cron'.active = cron.active /\ cron'.failsafe = cron.failsafe
    BY <1>3, <2>1 DEF CronRec
  <2> QED BY <1>2, <1>5, <2>1, <2>2
<1>7. CASE ListActiveCronjob
  <2> DEFINE list == [k \in Crons |-> IF docs[k].enabled THEN docs[k].rev ELSE None]
  <2>1. /\ timers' = timers /\ cron.pc \in {"init", "safe"}
        /\ cron' = [cron EXCEPT !.got = @ \cup {"active"}, !.active = list]
    BY <1>7 DEF ListActiveCronjob
  <2>2. list[c] = None BY <1>2
  <2> HIDE DEF list
  <2>3. cron'.pc = cron.pc /\ cron'.active = list /\ cron'.failsafe = cron.failsafe
    BY <1>3, <2>1 DEF CronRec
  <2> QED BY <1>2, <1>5, <2>1, <2>2, <2>3
<1>8. CASE ListWithScheduleEnabled
  <2>1. timers' = timers /\ cron.pc \in {"init", "safe"} BY <1>8 DEF ListWithScheduleEnabled
  <2>2. cron'.pc = cron.pc /\ cron'.active = cron.active /\ cron'.failsafe = cron.failsafe
    BY <1>3, <1>8 DEF CronRec, ListWithScheduleEnabled
  <2> QED BY <1>2, <1>5, <2>1, <2>2
<1>9. CASE ListActiveCronjobFailsafe
  <2> DEFINE list == [k \in Crons |-> IF Owner[k] \in cron.tests THEN docs[k].rev ELSE None]
  <2>1. /\ timers' = timers /\ cron.pc \in {"init", "safe"}
        /\ cron' = [cron EXCEPT !.got = @ \cup {"failsafe"}, !.failsafe = list]
    BY <1>9 DEF ListActiveCronjobFailsafe
  <2>2. cron.tests \subseteq Tests BY <1>3 DEF CronRec
  <2>3. list[c] = None BY <1>2, <1>4, <2>2
  <2> HIDE DEF list
  <2>4. cron'.pc = cron.pc /\ cron'.active = cron.active /\ cron'.failsafe = list
    BY <1>3, <2>1 DEF CronRec
  <2> QED BY <1>2, <1>5, <2>1, <2>3, <2>4
<1>10. CASE InitExistedCronjob
  <2>1. Registered(cron.active)[c] = None /\ Registered(cron.failsafe)[c] = None
    BY <1>2, NamesApart DEF Registered
  <2>2. timers'[c] = None BY <1>10, <2>1 DEF InitExistedCronjob
  <2>3. CASE cron' = [cron EXCEPT !.pc = "safe"]
    <3>1. cron'.pc = "safe" /\ cron'.active = cron.active /\ cron'.failsafe = cron.failsafe
      BY <1>3, <2>3 DEF CronRec
    <3> QED BY <1>2, <1>5, <2>2, <3>1
  <2>4. CASE cron' = [Down EXCEPT !.pc = "idle"]
    <3>1. cron'.pc = "idle" BY <2>4, DownTyped DEF CronRec
    <3> QED BY <1>1, <1>2, <2>2, <3>1 DEF FirstBase, Early
  <2> QED BY <1>10, <2>3, <2>4 DEF InitExistedCronjob
<1> QED BY <1>6, <1>7, <1>8, <1>9, <1>10

\* Away from the start the base is about the timer alone.
LEMMA FirstRuns ==
  ASSUME NEW c \in Crons, ~Early, ~Early', FirstMet(c), timers'[c] = timers[c], asked' = asked,
         Sound, crashes' = crashes, failures' \in {failures, failures + 1}, clean' = clean
  PROVE  FirstMet(c)'
<1>1. failures \in Nat BY SoundTypes
<1>2. failures' = 0 => failures = 0 BY <1>1
<1> QED BY <1>2 DEF FirstMet, FirstBase

LEMMA FirstCron ==
  ASSUME Sound, FirstInv, CronStep
  PROVE  FirstInv'
<1>1. CronSide
  BY StartSide, ListQueueSide, DeleteMsgSide, UpdateSide, StopSide DEF CronStep
<1>2. Sound' BY <1>1, CronSideSound
<1>3. kept \in Nat BY SoundTypes
<1> DEFINE Goal == Aligned' /\ \A c \in Crons : Met(c, FirstMet(c))'
<1>0. kept = 0 => Aligned BY DEF FirstInv
<1>4. ASSUME NEW c \in Crons, kept = 0 PROVE Met(c, FirstMet(c))
  BY <1>4 DEF FirstInv, Met
<1>5. crashes = 0 /\ cron.pc = "down" => clean BY DEF FirstInv
<1>6. \A c \in Crons : FirstMet(c) \in BOOLEAN /\ FirstMet(c)' \in BOOLEAN BY DEF FirstMet
<1> SUFFICES /\ cron'.pc # "down"
             /\ kept' = 0 => kept = 0
             /\ kept' = 0 /\ kept = 0 => Goal
  BY DEF FirstInv, Met
<1>7. CASE CronStart \/ ListActiveCronjob \/ ListWithScheduleEnabled
             \/ ListActiveCronjobFailsafe \/ InitExistedCronjob
  <2>1. Still BY <1>7, StartStill
  <2>2. cron'.pc # "down" BY <1>7, StartAway
  <2>3. ASSUME NEW c \in Crons, kept = 0 PROVE Met(c, FirstMet(c))'
    <3>1. PICK b \in BOOLEAN : b = FirstMet(c) BY <1>6
    <3>2. PICK d \in BOOLEAN : d = FirstMet(c)' BY <1>6
    <3>3. b => d BY <1>5, <1>7, <3>1, <3>2, FirstStart
    <3>4. Met(c, b) BY <1>4, <2>3, <3>1
    <3>5. Met(c, d)' BY <1>1, <2>1, <3>3, <3>4, StillMeets
    <3> QED BY <3>2, <3>5 DEF Met
  <2> QED BY <1>0, <2>1, <2>2, <2>3 DEF Still
<1>8. CASE ListQueue \/ DisableRequest \/ DisableAnswer
  <2>1. /\ Still /\ cron.pc \in {"idle", "disable", "wait"}
        /\ cron'.pc \in {"delete", "wait", "idle", "handle"}
        /\ UNCHANGED <<timers, clean, crashes>> /\ failures' \in {failures, failures + 1}
    BY <1>8, ListQueueStill, DisableStill
  <2>2. asked' = asked BY <1>1 DEF CronSide
  <2>3. ASSUME NEW c \in Crons, kept = 0 PROVE Met(c, FirstMet(c))'
    <3>1. PICK b \in BOOLEAN : b = FirstMet(c) BY <1>6
    <3>2. PICK d \in BOOLEAN : d = FirstMet(c)' BY <1>6
    <3>3. b => d BY <2>1, <2>2, <3>1, <3>2, FirstRuns DEF Early
    <3>4. Met(c, b) BY <1>4, <2>3, <3>1
    <3>5. Met(c, d)' BY <1>1, <2>1, <3>3, <3>4, StillMeets
    <3> QED BY <3>2, <3>5 DEF Met
  <2> QED BY <1>0, <2>1, <2>3 DEF Still
<1>9. CASE DeleteMsg
  <2>1. /\ docs' = docs /\ timers' = timers /\ clean' = clean /\ failures' = failures
        /\ cron'.pc \in {"handle", "delete"} /\ kept' \in {kept, kept + 1}
    BY <1>9, DeleteMsgSide
  <2>2. cron.pc = "delete" /\ crashes' = crashes BY <1>9 DEF DeleteMsg, CronUnchanged
  <2>3. kept' = 0 => kept = 0 /\ kept' = kept BY <1>3, <2>1
  <2>4. asked' = asked BY <1>1 DEF CronSide
  <2>5. ASSUME kept' = 0, kept = 0 PROVE Goal
    <3>0. kept' = kept BY <2>5
    <3>1. /\ Rests(queue, queue') /\ queue[1] \in Message
          /\ Rest' = Append(Rest, queue[1]) /\ Aligned'
      <4>1. Aligned BY <2>5 DEF FirstInv
      <4> QED BY <1>9, <3>0, <4>1, DeleteMoves
    <3>2. ASSUME NEW c \in Crons PROVE Met(c, FirstMet(c))'
      <4>1. PICK b \in BOOLEAN : b = FirstMet(c) BY <1>6
      <4>2. b => FirstMet(c)' BY <2>1, <2>2, <2>4, <4>1, FirstRuns DEF Early
      <4>3. Met(c, b) BY <1>4, <2>5, <4>1
      <4>4. Met(c, b)' BY <1>1, <2>1, <3>1, <4>3, MoveMeets
      <4> QED BY <4>2, <4>4 DEF Met, Meets
    <3> QED BY <3>1, <3>2
  <2> QED BY <2>1, <2>3, <2>5
<1>10. CASE updateCronjob \/ stopCronjob
  <2>1. /\ Served \/ GivenUp
        /\ Aligned' /\ cron.pc = "handle" /\ cron'.pc \in {"idle", "handle", "disable"}
        /\ crashes' = crashes
    BY <1>10, UpdateServes, StopServes
  <2>2. docs' = docs /\ queue' = queue /\ kept' = kept BY <1>10, UpdateSide, StopSide
  <2>3. asked' = asked BY <1>1 DEF CronSide
  <2>4. ASSUME NEW c \in Crons, kept = 0 PROVE Met(c, FirstMet(c))'
    <3>1. PICK b \in BOOLEAN : b = FirstMet(c) BY <1>6
    <3>2. PICK d \in BOOLEAN : d = FirstMet(c)' BY <1>6
    <3>3. Met(c, b) BY <1>4, <2>4, <3>1
    <3>4. CASE GivenUp
      <4>1. d BY <3>2, <3>4 DEF GivenUp, FirstMet
      <4>2. Met(c, d)' BY <1>1, <2>2, <3>3, <3>4, <4>1, DroppedMeets DEF GivenUp
      <4> QED BY <3>2, <4>2 DEF Met
    <3>5. CASE Served
      <4>1. timers'[c] = IF Told(Rest[1], c, docs) THEN Value(Rest[1], c) ELSE timers[c]
        BY <3>5 DEF Served, Obeyed
      <4>2. Told(Rest[1], c, docs) /\ Value(Rest[1], c) = asked[c] => d
        BY <2>1, <2>3, <3>2, <4>1 DEF FirstMet, FirstBase, Early
      <4>3. ~Told(Rest[1], c, docs) /\ b => d
        BY <2>1, <2>3, <3>1, <3>2, <3>5, <4>1, FirstRuns DEF Early, Served
      <4>4. Rests(Rest, Rest') BY <3>5 DEF Served
      <4>5. Met(c, d)' BY <1>1, <1>2, <2>2, <3>3, <4>2, <4>3, <4>4, ServedMeets
      <4> QED BY <3>2, <4>5 DEF Met
    <3> QED BY <2>1, <3>4, <3>5
  <2> QED BY <2>1, <2>2, <2>4
<1> QED BY <1>7, <1>8, <1>9, <1>10 DEF CronStep

LEMMA FirstRequest ==
  ASSUME Sound, FirstInv, NEW r \in Requests, NewRequest(r)
  PROVE  FirstInv'
<1>1. UNCHANGED <<docs, queue, cron, timers, clean, crashes, failures, kept>>
  BY DEF NewRequest, Begins
<1>2. Rest' = Rest /\ (Aligned => Aligned') BY <1>1 DEF Rest, Aligned
<1>3. ASSUME NEW c \in Crons, kept = 0 PROVE Met(c, FirstMet(c))'
  <2>1. FirstMet(c) \in BOOLEAN /\ FirstMet(c)' \in BOOLEAN BY DEF FirstMet
  <2>2. PICK b \in BOOLEAN : b = FirstMet(c) BY <2>1
  <2>3. PICK d \in BOOLEAN : d = FirstMet(c)' BY <2>1
  <2>4. PICK x \in Seq(Message) : x = Rest BY RestTyped
  <2>5. Meets(c, calls, queue, x, docs, asked, b) BY <1>3, <2>2, <2>4 DEF FirstInv
  <2>6. asked'[c] = asked[c] /\ b => d BY <1>1, <2>2, <2>3 DEF FirstMet, FirstBase, Early
  <2>7. Meets(c, calls', queue', x, docs', asked', d) BY <2>5, <2>6, RequestMeets
  <2> QED BY <1>2, <2>3, <2>4, <2>7 DEF Met
<1> QED BY <1>1, <1>2, <1>3 DEF FirstInv, Met

LEMMA FirstCall ==
  ASSUME Sound, FirstInv, NEW r \in Requests, Call(r)
  PROVE  FirstInv'
<1>1. UNCHANGED <<cron, timers, asked, clean, crashes, failures, kept>> BY DEF Call
<1>2. Rest' = Rest /\ (Aligned => Aligned') BY <1>1, AlignedCall DEF Rest
<1>3. ASSUME NEW c \in Crons, kept = 0 PROVE Met(c, FirstMet(c))'
  <2>1. FirstMet(c) \in BOOLEAN /\ FirstMet(c)' \in BOOLEAN BY DEF FirstMet
  <2>2. PICK b \in BOOLEAN : b = FirstMet(c) BY <2>1
  <2>3. PICK d \in BOOLEAN : d = FirstMet(c)' BY <2>1
  <2>4. PICK x \in Seq(Message) : x = Rest BY RestTyped
  <2>5. Meets(c, calls, queue, x, docs, asked, b) BY <1>3, <2>2, <2>4 DEF FirstInv
  <2>6. ASSUME ~Owed(c, calls', docs'), b PROVE d
    <3>1. PICK es : es = docs' OBVIOUS
    <3>2. \/ docs'[c] = docs[c]
          \/ Owner[c] \in Workflows /\ ~docs'[c].enabled
      BY <2>6, <3>1, CallOwes
    <3>3. CASE docs'[c] = docs[c]
      BY <1>1, <2>2, <2>3, <2>6, <3>3 DEF FirstMet, FirstBase, Early
    <3>4. CASE Owner[c] \in Workflows /\ ~docs'[c].enabled
      <4>1. Owner[c] \notin Tests BY <3>4, NamesApart
      <4> QED BY <1>1, <2>2, <2>3, <2>6, <3>4, <4>1 DEF FirstMet, FirstBase, Early
    <3> QED BY <3>2, <3>3, <3>4
  <2>7. Meets(c, calls', queue', x, docs', asked', d) BY <2>5, <2>6, CallMeets
  <2> QED BY <1>2, <2>3, <2>4, <2>7 DEF Met
<1> QED BY <1>1, <1>2, <1>3 DEF FirstInv, Met

LEMMA DisableStays ==
  ASSUME Sound, NEW k \in Crons, DisableCronjob(k)
  PROVE  Still
<1>1. queue' = queue /\ kept' = kept /\ cron' = cron BY DisableSide
<1> QED BY <1>1 DEF Still, Rest, Aligned

LEMMA FirstDisable ==
  ASSUME Sound, FirstInv, NEW k \in Crons, DisableCronjob(k)
  PROVE  FirstInv'
<1>1. /\ CronSide /\ UNCHANGED <<kept, cron, timers, clean, failures, crashes>>
      /\ \A c \in Crons : docs'[c] = docs[c]
           \/ (c = k /\ disabling[k] # None /\ docs'[c] = [enabled |-> FALSE, rev |-> disabling[k]])
  BY DisableSide
<1>2. Still BY DisableStays
<1>3. asked' = asked BY <1>1 DEF CronSide
<1>4. ASSUME NEW c \in Crons, kept = 0 PROVE Met(c, FirstMet(c))'
  <2>1. FirstMet(c) \in BOOLEAN /\ FirstMet(c)' \in BOOLEAN BY DEF FirstMet
  <2>2. PICK b \in BOOLEAN : b = FirstMet(c) BY <2>1
  <2>3. PICK d \in BOOLEAN : d = FirstMet(c)' BY <2>1
  <2>4. Met(c, b) BY <1>4, <2>2 DEF FirstInv, Met
  <2>5. ~docs[c].enabled => ~docs'[c].enabled BY <1>1
  <2>6. docs[c] = NoDoc => docs'[c] = NoDoc BY <1>1 DEF CronSide, Exists
  <2>7. b => d BY <1>1, <1>3, <2>2, <2>3, <2>5, <2>6 DEF FirstMet, FirstBase, Early
  <2>8. Met(c, d)' BY <1>1, <1>2, <2>4, <2>7, StillMeets
  <2> QED BY <2>3, <2>8 DEF Met
<1> QED BY <1>1, <1>2, <1>4 DEF FirstInv, Met, Still

LEMMA CrashRest ==
  ASSUME Sound, Crash
  PROVE  Rest' = <<>> /\ Aligned' /\ cron'.pc = "down"
BY CrashSide, DownTyped DEF Rest, Aligned

LEMMA FirstCrash ==
  ASSUME Sound, FirstInv, Crash
  PROVE  FirstInv'
<1>1. CronSide /\ docs' = docs /\ queue' = queue /\ kept' = kept /\ crashes' = crashes + 1
  BY CrashSide
<1>2. crashes' # 0
  <2>1. crashes \in Nat BY SoundTypes
  <2> QED BY <1>1, <2>1
<1>3. ASSUME NEW c \in Crons, kept = 0 PROVE Met(c, FirstMet(c))'
  <2>1. FirstMet(c) \in BOOLEAN BY DEF FirstMet
  <2>2. PICK b \in BOOLEAN : b = FirstMet(c) BY <2>1
  <2>3. Met(c, b) BY <1>3, <2>2 DEF FirstInv, Met
  <2>4. PICK d \in BOOLEAN : d = TRUE OBVIOUS
  <2>5. Met(c, d)' BY <1>1, <2>3, <2>4, CrashRest, DroppedMeets
  <2>6. FirstMet(c)' BY <1>2 DEF FirstMet
  <2> QED BY <2>5, <2>6 DEF Met, Meets
<1> QED BY <1>1, <1>2, <1>3, CrashRest DEF FirstInv, Met

LEMMA FirstNext ==
  ASSUME Sound, FirstInv, [Next]_vars
  PROVE  FirstInv'
<1>1. ASSUME NEW r \in Requests, WorkflowRequest(r) \/ TestRequest(r) PROVE FirstInv'
  BY <1>1, RequestBegins, FirstRequest
<1>2. ASSUME NEW r \in Requests, Call(r) PROVE FirstInv' BY <1>2, FirstCall
<1>3. CASE CronStep BY <1>3, FirstCron
<1>4. ASSUME NEW c \in Crons, DisableCronjob(c) PROVE FirstInv' BY <1>4, FirstDisable
<1>5. CASE Crash BY <1>5, FirstCrash
<1>6. CASE UNCHANGED vars
  BY <1>6 DEF vars, FirstInv, Aligned, Meets, Owed, Rest, FirstMet, FirstBase, Early
<1> QED BY <1>1, <1>2, <1>3, <1>4, <1>5, <1>6 DEF Next

LEMMA FirstInit == Init => FirstInv
<1> SUFFICES ASSUME Init PROVE FirstInv OBVIOUS
<1>1. /\ cron = Down /\ timers = NoTimers /\ asked = NoTimers /\ queue = <<>> /\ clean = TRUE
      /\ docs = [c \in Crons |-> NoDoc]
  BY DEF Init
<1>2. cron.pc = "down" /\ cron.active = NoTimers /\ cron.failsafe = NoTimers BY <1>1, DownTyped
<1>3. Rest = <<>> BY <1>2 DEF Rest
<1>4. Aligned BY <1>2 DEF Aligned
<1>5. ASSUME NEW c \in Crons PROVE FirstBase(c)
  <2>1. ~NoDoc.enabled BY DEF NoDoc
  <2> QED BY <1>1, <1>2, <2>1, DownTyped DEF FirstBase, Early
<1>6. ASSUME NEW c \in Crons PROVE Meets(c, calls, queue, Rest, docs, asked, FirstMet(c))
  <2>1. Silent(<<>>, c, docs) BY DEF Silent
  <2>2. FirstMet(c) BY <1>5 DEF FirstMet
  <2> QED BY <1>1, <1>3, <2>1, <2>2 DEF Meets
<1> QED BY <1>1, <1>4, <1>6 DEF FirstInv

LEMMA FirstHolds == Spec => [](Sound /\ FirstInv)
<1>1. Init => Sound /\ FirstInv BY SoundInit, FirstInit
<1>2. Sound /\ FirstInv /\ [Next]_vars => (Sound /\ FirstInv)' BY SoundNext, FirstNext
<1> QED BY <1>1, <1>2, PTL DEF Spec

\* When nothing has failed and nothing is left to do every timer is what its user asked for
\* last, for any users, cronjobs and batches of messages.
THEOREM TimersFollow == Spec => []Synced
<1>1. Sound /\ FirstInv => Synced
  <2> SUFFICES ASSUME Sound, FirstInv, Quiet, Undisturbed PROVE timers = asked BY DEF Synced
  <2>1. timers \in [Crons -> Contents] /\ asked \in [Crons -> Contents] BY SoundTypes
  <2>2. ASSUME NEW c \in Crons PROVE timers[c] = asked[c]
    <3>1. cron.pc = "idle" /\ queue = <<>> /\ \A r \in Requests : calls[r].seq = <<>> BY DEF Quiet
    <3>2. Rest = <<>> BY <3>1 DEF Rest
    <3>3. ~Owed(c, calls, docs) BY <3>1 DEF Owed
    <3>4. ~Settles(<<>>, c, docs, asked) BY DEF Settles
    <3>5. Meets(c, calls, queue, Rest, docs, asked, FirstMet(c)) BY DEF FirstInv, Undisturbed
    <3>6. FirstMet(c) BY <3>1, <3>2, <3>3, <3>4, <3>5 DEF Meets
    <3> QED BY <3>1, <3>6 DEF FirstMet, FirstBase, Early, Undisturbed
  <2> QED BY <2>1, <2>2
<1> QED BY <1>1, FirstHolds, PTL

-----------------------------------------------------------------------------
(* What the documents say, between the requests.                             *)

LEMMA DownNext ==
  ASSUME Sound, DownInv, [Next]_vars
  PROVE  DownInv'
<1> SUFFICES ASSUME cron'.pc = "down" PROVE cron' = Down /\ timers' = NoTimers BY DEF DownInv
<1>1. CASE cron' = cron /\ timers' = timers BY <1>1 DEF DownInv
<1>2. CASE Crash BY <1>2 DEF Crash
<1>3. CASE CronStart \/ ListActiveCronjob \/ ListWithScheduleEnabled
             \/ ListActiveCronjobFailsafe \/ InitExistedCronjob
  BY <1>3, StartAway
<1>4. CASE ListQueue \/ DeleteMsg \/ updateCronjob \/ stopCronjob \/ DisableRequest \/ DisableAnswer
  BY <1>4, ListQueueStill, DeleteMsgSide, UpdateServes, StopServes, DisableStill
<1>5. ASSUME NEW r \in Requests, WorkflowRequest(r) \/ TestRequest(r) PROVE cron' = cron /\ timers' = timers
  BY <1>5, RequestBegins DEF NewRequest, Begins
<1>6. ASSUME NEW r \in Requests, Call(r) PROVE cron' = cron /\ timers' = timers BY <1>6 DEF Call
<1>7. ASSUME NEW k \in Crons, DisableCronjob(k) PROVE cron' = cron /\ timers' = timers
  BY <1>7 DEF DisableCronjob
<1>8. CASE UNCHANGED vars BY <1>1, <1>8 DEF vars
<1> QED BY <1>1, <1>2, <1>3, <1>4, <1>5, <1>6, <1>7, <1>8 DEF Next, CronStep

LEMMA DocsRequest ==
  ASSUME Sound, DocsInv, NEW r \in Requests, NewRequest(r)
  PROVE  DocsInv'
<1>1. PICK o \in Workflows \cup Tests, s \in Seq(AnyCall) : Begins(r, o, s) /\ NewCalls(o, s)
  BY DEF NewRequest
<1>2. /\ docs' = docs /\ scheduled' = scheduled /\ disabling' = disabling /\ calls[r].seq = <<>>
      /\ \A k \in Crons : Owner[k] # o => asked'[k] = asked[k]
  BY <1>1 DEF Begins
<1>3. calls \in [Requests -> [owner : Workflows \cup Tests \cup {None}, seq : Seq(AnyCall)]]
  BY DEF Sound, Typed, CallsTyped
<1>4. /\ calls'[r].seq = s /\ calls'[r].owner = o
      /\ \A q \in Requests : q # r => calls'[q] = calls[q]
  BY <1>1, <1>3 DEF Begins
<1> SUFFICES ASSUME NEW c \in Crons PROVE Flow(c)' /\ Test(c)' BY DEF DocsInv
<1>5. Flow(c) /\ Test(c) BY DEF DocsInv
<1>6. Flow(c)'
  <2> SUFFICES ASSUME Owner[c] \in Workflows
               PROVE  disabling'[c] = None /\ (Effective(docs'[c]) = asked'[c] \/ Rewrites(c, calls'))
    BY DEF Flow
  <2>1. disabling[c] = None /\ (Effective(docs[c]) = asked[c] \/ Rewrites(c, calls)) BY <1>5 DEF Flow
  <2>2. Rewrites(c, calls) => Rewrites(c, calls')
    <3> SUFFICES ASSUME Rewrites(c, calls) PROVE Rewrites(c, calls') OBVIOUS
    <3>1. PICK q \in Requests : \E i \in DOMAIN calls[q].seq :
            calls[q].owner = Owner[c] /\ (Puts(calls[q].seq[i], c) \/ Removes(calls[q].seq[i], c))
      BY DEF Rewrites
    <3>2. q # r BY <3>1, <1>2
    <3> QED BY <3>1, <3>2, <1>4 DEF Rewrites
  <2>3. CASE Owner[c] # o BY <1>2, <2>1, <2>2, <2>3
  <2>4. CASE Owner[c] = o
    <3>1. o \notin Tests BY <2>4, NamesApart
    <3>2. asked'[c] = asked[c] \/ \E i \in DOMAIN s : Puts(s[i], c) \/ Removes(s[i], c)
      BY <1>1, <2>4, <3>1 DEF NewCalls, Of
    <3>3. (\E i \in DOMAIN s : Puts(s[i], c) \/ Removes(s[i], c)) => Rewrites(c, calls')
      BY <1>4, <2>4 DEF Rewrites
    <3> QED BY <1>2, <2>1, <2>2, <3>2, <3>3
  <2> QED BY <2>3, <2>4
<1>7. Test(c)'
  <2> SUFFICES ASSUME Owner[c] \in Tests, asked'[c] # None
               PROVE  /\ scheduled'[Owner[c]] \/ Saves(c, calls')
                      /\ \/ docs'[c].rev = asked'[c] \/ HasPut({"create", "update"}, c)'
                         \/ disabling'[c] \in {None, docs'[c].rev}
    BY DEF Test
  <2>1. CASE Owner[c] = o
    <3>1. (\E i \in DOMAIN s : Puts(s[i], c)) /\ \E i \in DOMAIN s : s[i].call = "saveTest"
      BY <1>1, <2>1 DEF NewCalls, Of
    <3>2. Saves(c, calls') BY <1>4, <2>1, <3>1 DEF Saves
    <3>3. HasPut({"create", "update"}, c)' BY <1>4, <3>1 DEF HasPut, Puts
    <3> QED BY <3>2, <3>3
  <2>2. CASE Owner[c] # o
    <3>1. asked'[c] = asked[c] BY <1>2, <2>2
    <3>2. /\ scheduled[Owner[c]] \/ Saves(c, calls)
          /\ \/ docs[c].rev = asked[c] \/ HasPut({"create", "update"}, c)
             \/ disabling[c] \in {None, docs[c].rev}
      BY <1>5, <3>1 DEF Test
    <3>3. Saves(c, calls) => Saves(c, calls')
      <4> SUFFICES ASSUME Saves(c, calls) PROVE Saves(c, calls') OBVIOUS
      <4>1. PICK q \in Requests : \E i \in DOMAIN calls[q].seq :
              calls[q].seq[i].call = "saveTest" /\ calls[q].owner = Owner[c]
        BY DEF Saves
      <4>2. q # r BY <4>1, <1>2
      <4> QED BY <4>1, <4>2, <1>4 DEF Saves
    <3>4. HasPut({"create", "update"}, c) => HasPut({"create", "update"}, c)'
      <4> SUFFICES ASSUME HasPut({"create", "update"}, c) PROVE HasPut({"create", "update"}, c)' OBVIOUS
      <4>1. PICK q \in Requests : \E i \in DOMAIN calls[q].seq :
              calls[q].seq[i].call \in {"create", "update"} /\ calls[q].seq[i].id = c
        BY DEF HasPut
      <4>2. q # r BY <4>1, <1>2
      <4> QED BY <4>1, <4>2, <1>4 DEF HasPut
    <3> QED BY <1>2, <3>1, <3>2, <3>3, <3>4
  <2> QED BY <2>1, <2>2
<1> QED BY <1>6, <1>7

\* A test with timers asked for is not saved without its schedule.
LEMMA SaveKeeps ==
  ASSUME Sound, NEW r \in Requests, Call(r), NEW c \in Crons, Owner[c] \in Tests, asked[c] # None,
         scheduled[Owner[c]] \/ (calls[r].seq[1].call = "saveTest" /\ calls[r].owner = Owner[c])
  PROVE  scheduled'[Owner[c]]
<1> DEFINE x == calls[r].seq[1]
           o == calls[r].owner
<1>1. /\ x \in AnyCall /\ RightCall(calls[r].seq, 1, o, asked)
      /\ scheduled' = (IF x.call = "saveTest" THEN [scheduled EXCEPT ![x.test] = x.on] ELSE scheduled)
  BY CallFacts
<1>2. scheduled \in [Tests -> BOOLEAN] BY SoundTypes
<1>3. CASE x.call # "saveTest" BY <1>1, <1>3
<1>4. CASE x.call = "saveTest"
  <2>1. x.test \in Tests /\ x.on \in BOOLEAN BY <1>1, <1>4, CallKinds DEF SaveCall
  <2>2. x.test = o /\ (x.on \/ \A k \in Of(o) : asked[k] = None)
    BY <1>1, <1>4 DEF RightCall, RightSave
  <2>3. scheduled' = [scheduled EXCEPT ![x.test] = x.on] BY <1>1, <1>4
  <2>4. CASE o = Owner[c]
    <3>1. x.on = TRUE BY <2>1, <2>2, <2>4 DEF Of
    <3> QED BY <1>2, <2>1, <2>2, <2>3, <2>4, <3>1
  <2>5. CASE o # Owner[c] BY <1>2, <2>1, <2>2, <2>3, <2>5
  <2> QED BY <2>4, <2>5
<1> QED BY <1>3, <1>4

LEMMA DocsCall ==
  ASSUME Sound, DocsInv, NEW r \in Requests, Call(r)
  PROVE  DocsInv'
<1> DEFINE s == calls[r].seq
           x == calls[r].seq[1]
           o == calls[r].owner
           u == Tail(s)
<1>1. /\ x \in AnyCall /\ RightCall(s, 1, o, asked)
      /\ scheduled' = (IF x.call = "saveTest" THEN [scheduled EXCEPT ![x.test] = x.on] ELSE scheduled)
      /\ calls'[r].owner = o /\ calls'[r].seq = u /\ \A q \in Requests : q # r => calls'[q] = calls[q]
      /\ \A i \in DOMAIN s : i # 1 => i - 1 \in DOMAIN u /\ u[i - 1] = s[i]
  BY CallFacts
<1> HIDE DEF u
<1>2. asked' = asked /\ disabling' = disabling BY DEF Call
<1> SUFFICES ASSUME NEW c \in Crons PROVE Flow(c)' /\ Test(c)' BY DEF DocsInv
<1>3. Flow(c) /\ Test(c) BY DEF DocsInv
<1>4. /\ \/ docs'[c] = docs[c]
         \/ Puts(x, c)
         \/ Removes(x, c) /\ Owner[c] = o /\ asked[c] = None /\ docs'[c] = NoDoc
      /\ Puts(x, c) => docs'[c] = x.doc /\ Owner[c] = o
      /\ Removes(x, c) /\ Owner[c] = o => docs'[c] = NoDoc
  BY CallWrites
<1>5. Puts(x, c) => IF x.doc.enabled THEN asked[c] = x.doc.rev ELSE asked[c] = None /\ o \notin Tests
  BY <1>1 DEF RightCall, RightPut, Puts
<1>6. Removes(x, c) /\ Owner[c] = o => asked[c] = None
  <2>1. RightDelete(s, 1, o, asked) /\ RightDeleteOf(x, o, asked) BY <1>1 DEF RightCall
  <2> QED BY <2>1 DEF RightDelete, RightDeleteOf, Removes, Of
<1>7. Flow(c)'
  <2> SUFFICES ASSUME Owner[c] \in Workflows
               PROVE  disabling'[c] = None /\ (Effective(docs'[c]) = asked'[c] \/ Rewrites(c, calls'))
    BY DEF Flow
  <2>1. disabling[c] = None /\ (Effective(docs[c]) = asked[c] \/ Rewrites(c, calls)) BY <1>3 DEF Flow
  <2>2. ASSUME Puts(x, c) \/ (Removes(x, c) /\ Owner[c] = o) PROVE Effective(docs'[c]) = asked[c]
    <3>1. CASE Puts(x, c) BY <1>4, <1>5, <3>1 DEF Effective
    <3>2. CASE Removes(x, c) /\ Owner[c] = o BY <1>4, <1>6, <3>2 DEF Effective, NoDoc
    <3> QED BY <2>2, <3>1, <3>2
  <2>3. ASSUME Rewrites(c, calls), ~(Puts(x, c) \/ (Removes(x, c) /\ Owner[c] = o))
        PROVE  Rewrites(c, calls')
    <3>1. PICK q \in Requests : \E i \in DOMAIN calls[q].seq :
            calls[q].owner = Owner[c] /\ (Puts(calls[q].seq[i], c) \/ Removes(calls[q].seq[i], c))
      BY <2>3 DEF Rewrites
    <3>2. CASE q # r BY <1>1, <3>1, <3>2 DEF Rewrites
    <3>3. CASE q = r
      <4>1. PICK i \in DOMAIN s : o = Owner[c] /\ (Puts(s[i], c) \/ Removes(s[i], c)) BY <3>1, <3>3
      <4>2. i # 1 BY <2>3, <4>1
      <4>3. i - 1 \in DOMAIN u /\ u[i - 1] = s[i] BY <1>1, <4>2
      <4> QED BY <1>1, <4>1, <4>3 DEF Rewrites
    <3> QED BY <3>2, <3>3
  <2> QED BY <1>2, <1>4, <2>1, <2>2, <2>3
<1>8. Test(c)'
  <2> SUFFICES ASSUME Owner[c] \in Tests, asked[c] # None
               PROVE  /\ scheduled'[Owner[c]] \/ Saves(c, calls')
                      /\ \/ docs'[c].rev = asked[c] \/ HasPut({"create", "update"}, c)'
                         \/ disabling[c] \in {None, docs'[c].rev}
    BY <1>2 DEF Test
  <2>1. /\ scheduled[Owner[c]] \/ Saves(c, calls)
        /\ \/ docs[c].rev = asked[c] \/ HasPut({"create", "update"}, c)
           \/ disabling[c] \in {None, docs[c].rev}
    BY <1>3 DEF Test
  <2>2. scheduled[Owner[c]] \/ (x.call = "saveTest" /\ o = Owner[c]) => scheduled'[Owner[c]]
    BY <1>1, SaveKeeps
  <2>3. ASSUME Saves(c, calls), ~(x.call = "saveTest" /\ o = Owner[c]) PROVE Saves(c, calls')
    <3>1. PICK q \in Requests : \E i \in DOMAIN calls[q].seq :
            calls[q].seq[i].call = "saveTest" /\ calls[q].owner = Owner[c]
      BY <2>3 DEF Saves
    <3>2. CASE q # r BY <1>1, <3>1, <3>2 DEF Saves
    <3>3. CASE q = r
      <4>1. PICK i \in DOMAIN s : s[i].call = "saveTest" /\ o = Owner[c] BY <3>1, <3>3
      <4>2. i # 1 BY <2>3, <4>1
      <4>3. i - 1 \in DOMAIN u /\ u[i - 1] = s[i] BY <1>1, <4>2
      <4> QED BY <1>1, <4>1, <4>3 DEF Saves
    <3> QED BY <3>2, <3>3
  <2>4. CASE Puts(x, c)
    <3>1. docs'[c].rev = asked[c] BY <1>4, <1>5, <2>4
    <3> QED BY <2>1, <2>2, <2>3, <3>1
  <2>5. CASE ~Puts(x, c)
    <3>1. docs'[c] = docs[c] BY <1>4, <2>5
    <3>2. PICK K : K = {"create", "update"} OBVIOUS
    <3>3. HasPut(K, c) => HasPut(K, c)' BY <2>5, <3>2, PutsAfter DEF Puts
    <3> QED BY <2>1, <2>2, <2>3, <3>1, <3>2, <3>3
  <2> QED BY <2>4, <2>5
<1> QED BY <1>7, <1>8

LEMMA DocsCron ==
  ASSUME Sound, DocsInv, CronStep
  PROVE  DocsInv'
<1>1. CronSide /\ docs' = docs
  BY StartSide, ListQueueSide, DeleteMsgSide, UpdateSide, StopSide DEF CronStep
<1>2. scheduled' = scheduled /\ calls' = calls /\ asked' = asked BY <1>1 DEF CronSide
<1>3. ASSUME NEW c \in Crons
      PROVE  \/ disabling'[c] = disabling[c]
             \/ Owner[c] \in Tests /\ disabling'[c] = docs[c].rev
             \/ disabling'[c] = None
  <2>1. CASE DisableRequest
    <3>1. cron.pc = "disable" BY <2>1 DEF DisableRequest
    <3>2. Head(cron.batch) \in Message BY <3>1, HeadTyped
    <3>3. Head(cron.batch).owner \in Tests \cup {None} BY <3>2 DEF Message
    <3>4. Owner[c] = Head(cron.batch).owner => Owner[c] \in Tests BY <3>3, NamesApart
    <3> QED BY <2>1, <3>4 DEF DisableRequest
  <2>2. CASE ~DisableRequest
    <3>1. disabling' = disabling
      BY <2>2 DEF CronStep, CronStart, ListActiveCronjob, ListWithScheduleEnabled,
         ListActiveCronjobFailsafe, InitExistedCronjob, ListQueue, DeleteMsg, updateCronjob,
         stopCronjob, DisableAnswer
    <3> QED BY <3>1
  <2> QED BY <2>1, <2>2
<1> SUFFICES ASSUME NEW c \in Crons PROVE Flow(c)' /\ Test(c)' BY DEF DocsInv
<1>4. Flow(c) /\ Test(c) BY DEF DocsInv
<1>5. Owner[c] \in Workflows => Owner[c] \notin Tests BY NamesApart
<1>6. Flow(c)' BY <1>1, <1>2, <1>3, <1>4, <1>5 DEF Flow
<1>7. HasPut({"create", "update"}, c)' <=> HasPut({"create", "update"}, c) BY <1>2 DEF HasPut
<1>8. Test(c)' BY <1>1, <1>2, <1>3, <1>4, <1>7 DEF Test
<1> QED BY <1>6, <1>8

LEMMA DocsDisable ==
  ASSUME Sound, DocsInv, NEW k \in Crons, DisableCronjob(k)
  PROVE  DocsInv'
<1>1. /\ CronSide /\ disabling' = [disabling EXCEPT ![k] = None]
      /\ \A c \in Crons : docs'[c] = docs[c]
           \/ (c = k /\ disabling[k] # None /\ docs'[c] = [enabled |-> FALSE, rev |-> disabling[k]])
  BY DisableSide
<1>2. scheduled' = scheduled /\ calls' = calls /\ asked' = asked BY <1>1 DEF CronSide
<1>3. disabling \in [Crons -> Contents] BY SoundTypes
<1> SUFFICES ASSUME NEW c \in Crons PROVE Flow(c)' /\ Test(c)' BY DEF DocsInv
<1>4. Flow(c) /\ Test(c) BY DEF DocsInv
<1>5. disabling'[c] = IF c = k THEN None ELSE disabling[c] BY <1>1, <1>3
<1>6. Flow(c)' BY <1>1, <1>2, <1>4, <1>5 DEF Flow
<1>7. HasPut({"create", "update"}, c)' <=> HasPut({"create", "update"}, c) BY <1>2 DEF HasPut
<1>8. Test(c)'
  <2>1. CASE c = k BY <1>2, <1>4, <1>5, <2>1 DEF Test
  <2>2. CASE c # k BY <1>1, <1>2, <1>4, <1>5, <1>7, <2>2 DEF Test
  <2> QED BY <2>1, <2>2
<1> QED BY <1>6, <1>8

LEMMA DocsNext ==
  ASSUME Sound, DocsInv, [Next]_vars
  PROVE  DocsInv'
<1>1. ASSUME NEW r \in Requests, WorkflowRequest(r) \/ TestRequest(r) PROVE DocsInv'
  BY <1>1, RequestBegins, DocsRequest
<1>2. ASSUME NEW r \in Requests, Call(r) PROVE DocsInv' BY <1>2, DocsCall
<1>3. CASE CronStep BY <1>3, DocsCron
<1>4. ASSUME NEW c \in Crons, DisableCronjob(c) PROVE DocsInv' BY <1>4, DocsDisable
<1>5. CASE Crash \/ UNCHANGED vars
  <2>1. UNCHANGED <<docs, scheduled, calls, asked, disabling>> BY <1>5 DEF Crash, vars
  <2> QED BY <2>1 DEF DocsInv, Flow, Test, HasPut
<1> QED BY <1>1, <1>2, <1>3, <1>4, <1>5 DEF Next

-----------------------------------------------------------------------------
(* A restart finds in the documents what no message says any more.           *)

LEMMA PutOwes ==
  ASSUME Sound, NEW c \in Crons, Owner[c] \in Tests, NEW K, K \subseteq {"create", "update"},
         HasPut(K, c), NEW ds
  PROVE  Owed(c, calls, ds)
<1>0. PICK r \in Requests : \E i \in DOMAIN calls[r].seq :
        calls[r].seq[i].call \in K /\ calls[r].seq[i].id = c
  BY DEF HasPut
<1> DEFINE s == calls[r].seq
<1>1. PICK i \in DOMAIN s : s[i].call \in K /\ s[i].id = c BY <1>0
<1>2. RightPut(s, i, calls[r].owner, asked) BY DEF Sound, CallInv, RightCall
<1>3. Follows(s, i, c) BY <1>1, <1>2 DEF RightPut
<1>4. PICK k \in DOMAIN s : s[k].call = "push" /\ s[k].msg.action = "enable" /\ Bears(s[k].msg, c)
  BY <1>3 DEF Follows
<1>5. Told(s[k].msg, c, ds) BY <1>4 DEF Told
<1> QED BY <1>4, <1>5 DEF Owed

LEMMA RestartStart ==
  ASSUME Sound, SlowRestart, DownInv, DocsInv, NEW c \in Crons, CronStart
  PROVE  RestartBase(c)'
<1>1. /\ cron.pc = "down" /\ \A r \in Requests : calls[r].seq = <<>>
      /\ cron' = [cron EXCEPT !.pc = "init"] /\ UNCHANGED <<docs, timers, scheduled, asked>>
  BY DEF CronStart, CronUnchanged
<1>2. cron = Down /\ timers = NoTimers BY <1>1 DEF DownInv
<1>3. cron'.pc = "init" /\ cron'.failsafe = NoTimers /\ cron'.got = {}
  <2>1. cron \in CronRec BY SoundTypes
  <2> QED BY <1>1, <1>2, <2>1, DownTyped DEF CronRec
<1>4. timers'[c] = None /\ cron'.failsafe[c] = None BY <1>1, <1>2, <1>3, DownTyped
<1>5. ~Rewrites(c, calls) /\ ~Saves(c, calls) BY <1>1 DEF Rewrites, Saves
<1>6. CASE Owner[c] \in Workflows
  <2>1. Effective(docs[c]) = asked[c] BY <1>5, <1>6 DEF DocsInv, Flow
  <2>2. FlowBase(c)' BY <1>1, <1>3, <1>4, <2>1 DEF FlowBase
  <2> QED BY <1>6, <2>2 DEF RestartBase
<1>7. CASE Owner[c] \notin Workflows
  <2>1. Owner[c] \in Tests BY <1>7, NamesApart
  <2>2. asked[c] # None => scheduled[Owner[c]] BY <1>5, <2>1 DEF DocsInv, Test
  <2>3. asked'[c] # None => TestBase(c)' BY <1>1, <1>3, <2>2 DEF TestBase
  <2> QED BY <1>7, <2>3 DEF RestartBase
<1> QED BY <1>6, <1>7

LEMMA RestartLists ==
  ASSUME Sound, NEW c \in Crons, RestartMet(c), ~Owed(c, calls, docs),
         ListActiveCronjob \/ ListWithScheduleEnabled \/ ListActiveCronjobFailsafe
  PROVE  RestartMet(c)'
<1>1. /\ UNCHANGED <<docs, timers, scheduled, asked, clean>> /\ cron.pc \in {"init", "safe"}
  BY DEF ListActiveCronjob, ListWithScheduleEnabled, ListActiveCronjobFailsafe, CronUnchanged
<1> SUFFICES ASSUME clean', asked[c] \notin BadRevs PROVE RestartBase(c)'
  BY <1>1 DEF RestartMet, RestartBase
<1>2. IF Owner[c] \in Workflows THEN FlowBase(c) ELSE asked[c] # None => TestBase(c)
  BY <1>1 DEF RestartMet, RestartBase
<1>3. cron \in CronRec BY SoundTypes
<1>4. cron'.pc = cron.pc
  <2>1. CASE ListActiveCronjob BY <1>3, <2>1 DEF ListActiveCronjob, CronRec
  <2>2. CASE ListWithScheduleEnabled BY <1>3, <2>2 DEF ListWithScheduleEnabled, CronRec
  <2>3. CASE ListActiveCronjobFailsafe BY <1>3, <2>3 DEF ListActiveCronjobFailsafe, CronRec
  <2> QED BY <2>1, <2>2, <2>3
<1>5. CASE ListActiveCronjob
  <2> DEFINE list == [k \in Crons |-> IF docs[k].enabled THEN docs[k].rev ELSE None]
  <2>1. cron' = [cron EXCEPT !.got = @ \cup {"active"}, !.active = list] BY <1>5 DEF ListActiveCronjob
  <2>2. list[c] = Effective(docs[c]) BY DEF Effective
  <2> HIDE DEF list
  <2>3. /\ cron'.got = cron.got \cup {"active"} /\ cron'.active = list
        /\ cron'.tests = cron.tests /\ cron'.failsafe = cron.failsafe
    BY <1>3, <2>1 DEF CronRec
  <2>4. CASE Owner[c] \in Workflows
    <3>1. FlowBase(c)' BY <1>1, <1>2, <1>4, <2>2, <2>3, <2>4 DEF FlowBase
    <3> QED BY <2>4, <3>1 DEF RestartBase
  <2>5. CASE Owner[c] \notin Workflows
    <3>1. asked'[c] # None => TestBase(c)' BY <1>1, <1>2, <1>4, <2>3, <2>5 DEF TestBase
    <3> QED BY <2>5, <3>1 DEF RestartBase
  <2> QED BY <2>4, <2>5
<1>6. CASE ListWithScheduleEnabled
  <2> DEFINE list == {t \in Tests : scheduled[t]}
  <2>1. cron' = [cron EXCEPT !.got = @ \cup {"tests"}, !.tests = list] BY <1>6 DEF ListWithScheduleEnabled
  <2>2. Owner[c] \notin Workflows => (scheduled[Owner[c]] => Owner[c] \in list) BY NamesApart
  <2> HIDE DEF list
  <2>3. /\ cron'.got = cron.got \cup {"tests"} /\ cron'.active = cron.active
        /\ cron'.tests = list /\ cron'.failsafe = cron.failsafe
    BY <1>3, <2>1 DEF CronRec
  <2>4. CASE Owner[c] \in Workflows
    <3>1. FlowBase(c)' BY <1>1, <1>2, <1>4, <2>3, <2>4 DEF FlowBase
    <3> QED BY <2>4, <3>1 DEF RestartBase
  <2>5. CASE Owner[c] \notin Workflows
    <3>1. asked'[c] # None => TestBase(c)' BY <1>1, <1>2, <1>4, <2>2, <2>3, <2>5 DEF TestBase
    <3> QED BY <2>5, <3>1 DEF RestartBase
  <2> QED BY <2>4, <2>5
<1>7. CASE ListActiveCronjobFailsafe
  <2> DEFINE list == [k \in Crons |-> IF Owner[k] \in cron.tests THEN docs[k].rev ELSE None]
  <2>1. /\ cron' = [cron EXCEPT !.got = @ \cup {"failsafe"}, !.failsafe = list]
        /\ "tests" \in cron.got
    BY <1>7 DEF ListActiveCronjobFailsafe
  <2>2. list[c] = IF Owner[c] \in cron.tests THEN docs[c].rev ELSE None OBVIOUS
  <2> HIDE DEF list
  <2>3. /\ cron'.got = cron.got \cup {"failsafe"} /\ cron'.active = cron.active
        /\ cron'.tests = cron.tests /\ cron'.failsafe = list
    BY <1>3, <2>1 DEF CronRec
  <2>4. CASE Owner[c] \in Workflows
    <3>1. cron.tests \subseteq Tests BY <1>3 DEF CronRec
    <3>2. list[c] = None BY <2>2, <2>4, <3>1, NamesApart
    <3>3. FlowBase(c)' BY <1>1, <1>2, <1>4, <2>3, <2>4, <3>2 DEF FlowBase
    <3> QED BY <2>4, <3>3 DEF RestartBase
  <2>5. CASE Owner[c] \notin Workflows
    <3> SUFFICES ASSUME asked[c] # None PROVE TestBase(c)' BY <1>1, <2>5 DEF RestartBase
    <3>1. Owner[c] \in cron.tests /\ scheduled[Owner[c]] BY <1>1, <1>2, <2>1, <2>5 DEF TestBase
    <3>2. Owner[c] \in Tests BY <2>5, NamesApart
    <3>3. ~HasPut({"create"}, c)
      <4>1. PICK K : K = {"create"} OBVIOUS
      <4>2. K \subseteq {"create", "update"} BY <4>1
      <4>3. ~HasPut(K, c) BY <3>2, <4>2, PutOwes
      <4> QED BY <4>1, <4>3
    <3>4. docs[c] # NoDoc BY <3>3 DEF Sound, DocInv, Exists
    <3>5. docs[c].rev \in Revs BY <3>4, SoundTypes
    <3>6. list[c] \in Revs \ BadRevs \/ docs[c].rev \in BadRevs BY <2>2, <3>1, <3>5
    <3> QED BY <1>1, <1>4, <2>3, <3>1, <3>6 DEF TestBase
  <2> QED BY <2>4, <2>5
<1> QED BY <1>5, <1>6, <1>7

LEMMA RestartRegisters ==
  ASSUME Sound, NEW c \in Crons, RestartMet(c), InitExistedCronjob
  PROVE  RestartMet(c)'
<1>1. UNCHANGED <<docs, scheduled, asked, clean>> /\ cron.pc \in {"init", "safe"}
  BY DEF InitExistedCronjob, CronUnchanged
<1> SUFFICES ASSUME clean', asked[c] \notin BadRevs PROVE RestartBase(c)'
  BY <1>1 DEF RestartMet, RestartBase
<1>2. IF Owner[c] \in Workflows THEN FlowBase(c) ELSE asked[c] # None => TestBase(c)
  BY <1>1 DEF RestartMet, RestartBase
<1>3. cron \in CronRec BY SoundTypes
<1>4. asked[c] \in Revs \ BadRevs \/ asked[c] = None
  <2>1. asked \in [Crons -> Contents] BY SoundTypes
  <2> QED BY <2>1 DEF Contents
<1>5. CASE /\ cron.pc = "init" /\ "active" \in cron.got
           /\ timers' = Registered(cron.active) /\ cron' = [cron EXCEPT !.pc = "safe"]
  <2>1. /\ cron'.pc = "safe" /\ cron'.active = cron.active /\ cron'.failsafe = cron.failsafe
        /\ cron'.got = cron.got /\ cron'.tests = cron.tests
    BY <1>3, <1>5 DEF CronRec
  <2>2. CASE Owner[c] \in Workflows
    <3>1. cron.active[c] = asked[c] /\ timers[c] = None BY <1>2, <1>5, <2>2 DEF FlowBase
    <3>2. timers'[c] = asked[c] BY <1>4, <1>5, <3>1, NamesApart DEF Registered
    <3>3. FlowBase(c)' BY <1>1, <1>2, <1>5, <2>1, <2>2, <3>2 DEF FlowBase
    <3> QED BY <2>2, <3>3 DEF RestartBase
  <2>3. CASE Owner[c] \notin Workflows
    <3>1. asked'[c] # None => TestBase(c)' BY <1>1, <1>2, <2>1, <2>3 DEF TestBase
    <3> QED BY <2>3, <3>1 DEF RestartBase
  <2> QED BY <2>2, <2>3
<1>6. CASE /\ cron.pc = "safe" /\ "failsafe" \in cron.got
           /\ timers' = Registered(cron.failsafe) /\ cron' = [Down EXCEPT !.pc = "idle"]
  <2>1. cron'.pc = "idle" BY <1>6, DownTyped DEF CronRec
  <2>2. timers'[c] = IF cron.failsafe[c] \in Revs \ BadRevs THEN cron.failsafe[c] ELSE timers[c]
    BY <1>6 DEF Registered
  <2>3. CASE Owner[c] \in Workflows
    <3>1. cron.failsafe[c] = None /\ timers[c] = asked[c] BY <1>2, <1>6, <2>3 DEF FlowBase
    <3>2. timers'[c] = asked'[c] BY <1>1, <2>2, <3>1, NamesApart
    <3>3. FlowBase(c)' BY <2>1, <3>2 DEF FlowBase
    <3> QED BY <2>3, <3>3 DEF RestartBase
  <2>4. CASE Owner[c] \notin Workflows
    <3> SUFFICES ASSUME asked[c] # None PROVE TestBase(c)' BY <1>1, <2>4 DEF RestartBase
    <3>1. cron.failsafe[c] \in Revs \ BadRevs \/ docs[c].rev \in BadRevs
      BY <1>2, <1>6, <2>4 DEF TestBase
    <3>2. timers'[c] # None \/ docs'[c].rev \in BadRevs BY <1>1, <2>2, <3>1, NamesApart
    <3> QED BY <2>1, <3>2 DEF TestBase
  <2> QED BY <2>3, <2>4
<1> QED BY <1>5, <1>6 DEF InitExistedCronjob

LEMMA RestartRuns ==
  ASSUME NEW c \in Crons, RestartMet(c), cron.pc \notin {"down", "init", "safe"},
         cron'.pc \notin {"down", "init", "safe"}, timers'[c] = timers[c],
         docs' = docs, asked' = asked, clean' = clean
  PROVE  RestartMet(c)'
BY DEF RestartMet, RestartBase, FlowBase, TestBase

LEMMA RestartServed ==
  ASSUME NEW c \in Crons, cron'.pc \notin {"down", "init", "safe"}, timers'[c] = asked'[c]
  PROVE  RestartMet(c)'
BY DEF RestartMet, RestartBase, FlowBase, TestBase

LEMMA RestartCron ==
  ASSUME Sound, SlowRestart, DownInv, DocsInv, RestartInv, CronStep
  PROVE  RestartInv'
<1>1. CronSide /\ docs' = docs
  BY StartSide, ListQueueSide, DeleteMsgSide, UpdateSide, StopSide DEF CronStep
<1>2. Sound' BY <1>1, CronSideSound
<1>3. kept \in Nat BY SoundTypes
<1> DEFINE Goal == Aligned' /\ \A c \in Crons : Met(c, RestartMet(c))'
<1>4. kept = 0 => Aligned BY DEF RestartInv
<1>5. ASSUME NEW c \in Crons, kept = 0 PROVE Met(c, RestartMet(c)) BY <1>5 DEF RestartInv, Met
<1>6. \A c \in Crons : RestartMet(c) \in BOOLEAN /\ RestartMet(c)' \in BOOLEAN BY DEF RestartMet
<1>7. asked' = asked BY <1>1 DEF CronSide
<1> SUFFICES (kept' = 0 => kept = 0) /\ (kept' = 0 /\ kept = 0 => Goal)
  BY DEF RestartInv, Met
<1>8. CASE CronStart \/ ListActiveCronjob \/ ListWithScheduleEnabled
             \/ ListActiveCronjobFailsafe \/ InitExistedCronjob
  <2>1. Still BY <1>8, StartStill
  <2>2. ASSUME NEW c \in Crons, kept = 0 PROVE Met(c, RestartMet(c))'
    <3>1. PICK b \in BOOLEAN : b = RestartMet(c) BY <1>6
    <3>2. PICK d \in BOOLEAN : d = RestartMet(c)' BY <1>6
    <3>3. ~Owed(c, calls, docs) /\ b => d
      <4>1. CASE CronStart BY <3>2, <4>1, RestartStart DEF RestartMet
      <4>2. CASE InitExistedCronjob BY <3>1, <3>2, <4>2, RestartRegisters
      <4>3. CASE ListActiveCronjob \/ ListWithScheduleEnabled \/ ListActiveCronjobFailsafe
        BY <3>1, <3>2, <4>3, RestartLists
      <4> QED BY <1>8, <4>1, <4>2, <4>3
    <3>4. Met(c, b) BY <1>5, <2>2, <3>1
    <3>5. Met(c, d)' BY <1>1, <2>1, <3>3, <3>4, StillMeets
    <3> QED BY <3>2, <3>5 DEF Met
  <2> QED BY <1>4, <2>1, <2>2 DEF Still
<1>9. CASE ListQueue \/ DisableRequest \/ DisableAnswer
  <2>1. /\ Still /\ cron.pc \in {"idle", "disable", "wait"}
        /\ cron'.pc \in {"delete", "wait", "idle", "handle"} /\ timers' = timers /\ clean' = clean
    BY <1>9, ListQueueStill, DisableStill
  <2>2. ASSUME NEW c \in Crons, kept = 0 PROVE Met(c, RestartMet(c))'
    <3>1. PICK b \in BOOLEAN : b = RestartMet(c) BY <1>6
    <3>2. PICK d \in BOOLEAN : d = RestartMet(c)' BY <1>6
    <3>3. b => d BY <1>1, <1>7, <2>1, <3>1, <3>2, RestartRuns
    <3>4. Met(c, b) BY <1>5, <2>2, <3>1
    <3>5. Met(c, d)' BY <1>1, <2>1, <3>3, <3>4, StillMeets
    <3> QED BY <3>2, <3>5 DEF Met
  <2> QED BY <1>4, <2>1, <2>2 DEF Still
<1>10. CASE DeleteMsg
  <2>1. /\ timers' = timers /\ clean' = clean /\ cron'.pc \in {"handle", "delete"}
        /\ kept' \in {kept, kept + 1}
    BY <1>10, DeleteMsgSide
  <2>2. cron.pc = "delete" BY <1>10 DEF DeleteMsg
  <2>3. kept' = 0 => kept = 0 /\ kept' = kept BY <1>3, <2>1
  <2>4. ASSUME kept' = 0, kept = 0 PROVE Goal
    <3>1. /\ Rests(queue, queue') /\ queue[1] \in Message
          /\ Rest' = Append(Rest, queue[1]) /\ Aligned'
      <4>1. Aligned /\ kept' = kept BY <1>4, <2>4
      <4> QED BY <1>10, <4>1, DeleteMoves
    <3>2. ASSUME NEW c \in Crons PROVE Met(c, RestartMet(c))'
      <4>1. PICK b \in BOOLEAN : b = RestartMet(c) BY <1>6
      <4>2. b => RestartMet(c)' BY <1>1, <1>7, <2>1, <2>2, <4>1, RestartRuns
      <4>3. Met(c, b) BY <1>5, <2>4, <4>1
      <4>4. Met(c, b)' BY <1>1, <3>1, <4>3, MoveMeets
      <4> QED BY <4>2, <4>4 DEF Met, Meets
    <3> QED BY <3>1, <3>2
  <2> QED BY <2>3, <2>4
<1>11. CASE updateCronjob \/ stopCronjob
  <2>1. /\ Served \/ GivenUp
        /\ Aligned' /\ cron.pc = "handle" /\ cron'.pc \in {"idle", "handle", "disable"}
    BY <1>11, UpdateServes, StopServes
  <2>2. queue' = queue /\ kept' = kept BY <1>11, UpdateSide, StopSide
  <2>3. ASSUME NEW c \in Crons, kept = 0 PROVE Met(c, RestartMet(c))'
    <3>1. PICK b \in BOOLEAN : b = RestartMet(c) BY <1>6
    <3>2. PICK d \in BOOLEAN : d = RestartMet(c)' BY <1>6
    <3>3. Met(c, b) BY <1>5, <2>3, <3>1
    <3>4. CASE GivenUp
      <4>1. d BY <3>2, <3>4 DEF GivenUp, RestartMet
      <4>2. Met(c, d)' BY <1>1, <2>2, <3>3, <3>4, <4>1, DroppedMeets DEF GivenUp
      <4> QED BY <3>2, <4>2 DEF Met
    <3>5. CASE Served
      <4>1. timers'[c] = IF Told(Rest[1], c, docs) THEN Value(Rest[1], c) ELSE timers[c]
        BY <3>5 DEF Served, Obeyed
      <4>2. Told(Rest[1], c, docs) /\ Value(Rest[1], c) = asked[c] => d
        BY <1>7, <2>1, <3>2, <4>1, RestartServed
      <4>3. ~Told(Rest[1], c, docs) /\ b => d
        BY <1>1, <1>7, <2>1, <3>1, <3>2, <3>5, <4>1, RestartRuns DEF Served
      <4>4. Rests(Rest, Rest') BY <3>5 DEF Served
      <4>5. Met(c, d)' BY <1>1, <1>2, <2>2, <3>3, <4>2, <4>3, <4>4, ServedMeets
      <4> QED BY <3>2, <4>5 DEF Met
    <3> QED BY <2>1, <3>4, <3>5
  <2> QED BY <2>1, <2>2, <2>3
<1> QED BY <1>8, <1>9, <1>10, <1>11 DEF CronStep

LEMMA RestartRequest ==
  ASSUME Sound, RestartInv, NEW r \in Requests, NewRequest(r)
  PROVE  RestartInv'
<1>1. UNCHANGED <<docs, queue, cron, timers, scheduled, clean, kept>>
  BY DEF NewRequest, Begins
<1>2. Rest' = Rest /\ (Aligned => Aligned') BY <1>1 DEF Rest, Aligned
<1>3. ASSUME NEW c \in Crons, kept = 0 PROVE Met(c, RestartMet(c))'
  <2>1. RestartMet(c) \in BOOLEAN /\ RestartMet(c)' \in BOOLEAN BY DEF RestartMet
  <2>2. PICK b \in BOOLEAN : b = RestartMet(c) BY <2>1
  <2>3. PICK d \in BOOLEAN : d = RestartMet(c)' BY <2>1
  <2>4. PICK x \in Seq(Message) : x = Rest BY RestTyped
  <2>5. Meets(c, calls, queue, x, docs, asked, b) BY <1>3, <2>2, <2>4 DEF RestartInv
  <2>6. asked'[c] = asked[c] /\ b => d
    BY <1>1, <2>2, <2>3 DEF RestartMet, RestartBase, FlowBase, TestBase
  <2>7. Meets(c, calls', queue', x, docs', asked', d) BY <2>5, <2>6, RequestMeets
  <2> QED BY <1>2, <2>3, <2>4, <2>7 DEF Met
<1> QED BY <1>1, <1>2, <1>3 DEF RestartInv, Met

LEMMA RestartCall ==
  ASSUME Sound, RestartInv, NEW r \in Requests, Call(r)
  PROVE  RestartInv'
<1>1. UNCHANGED <<cron, timers, asked, clean, kept>> BY DEF Call
<1>2. Rest' = Rest /\ (Aligned => Aligned') BY <1>1, AlignedCall DEF Rest
<1>3. ASSUME NEW c \in Crons, kept = 0 PROVE Met(c, RestartMet(c))'
  <2>1. RestartMet(c) \in BOOLEAN /\ RestartMet(c)' \in BOOLEAN BY DEF RestartMet
  <2>2. PICK b \in BOOLEAN : b = RestartMet(c) BY <2>1
  <2>3. PICK d \in BOOLEAN : d = RestartMet(c)' BY <2>1
  <2>4. PICK x \in Seq(Message) : x = Rest BY RestTyped
  <2>5. Meets(c, calls, queue, x, docs, asked, b) BY <1>3, <2>2, <2>4 DEF RestartInv
  <2>6. ASSUME ~Owed(c, calls', docs'), b PROVE d
    <3>1. PICK es : es = docs' OBVIOUS
    <3>2. \/ docs'[c] = docs[c]
          \/ Owner[c] \in Workflows /\ ~docs'[c].enabled /\ asked[c] = None
      BY <2>6, <3>1, CallOwes
    <3>3. Owner[c] \in Workflows /\ Effective(docs[c]) = asked[c] => Effective(docs'[c]) = asked[c]
      BY <3>2 DEF Effective
    <3>4. Owner[c] \notin Workflows => docs'[c] = docs[c] BY <3>2
    <3>5. Owner[c] \notin Workflows /\ asked[c] # None /\ scheduled[Owner[c]] => scheduled'[Owner[c]]
      BY SaveKeeps, NamesApart
    <3>6. CASE Owner[c] \in Workflows
      BY <1>1, <2>2, <2>3, <2>6, <3>3, <3>6 DEF RestartMet, RestartBase, FlowBase
    <3>7. CASE Owner[c] \notin Workflows
      BY <1>1, <2>2, <2>3, <2>6, <3>4, <3>5, <3>7 DEF RestartMet, RestartBase, TestBase
    <3> QED BY <3>6, <3>7
  <2>7. Meets(c, calls', queue', x, docs', asked', d) BY <2>5, <2>6, CallMeets
  <2> QED BY <1>2, <2>3, <2>4, <2>7 DEF Met
<1> QED BY <1>1, <1>2, <1>3 DEF RestartInv, Met

LEMMA RestartDisable ==
  ASSUME Sound, DocsInv, RestartInv, NEW k \in Crons, DisableCronjob(k)
  PROVE  RestartInv'
<1>1. /\ CronSide /\ UNCHANGED <<kept, cron, timers, clean>>
      /\ \A c \in Crons : docs'[c] = docs[c]
           \/ (c = k /\ disabling[k] # None /\ docs'[c] = [enabled |-> FALSE, rev |-> disabling[k]])
  BY DisableSide
<1>2. Still BY DisableStays
<1>3. asked' = asked /\ scheduled' = scheduled BY <1>1 DEF CronSide
<1>4. ASSUME NEW c \in Crons, kept = 0 PROVE Met(c, RestartMet(c))'
  <2>1. RestartMet(c) \in BOOLEAN /\ RestartMet(c)' \in BOOLEAN BY DEF RestartMet
  <2>2. PICK b \in BOOLEAN : b = RestartMet(c) BY <2>1
  <2>3. PICK d \in BOOLEAN : d = RestartMet(c)' BY <2>1
  <2>4. Met(c, b) BY <1>4, <2>2 DEF RestartInv, Met
  <2>5. ASSUME ~Owed(c, calls, docs), b PROVE d
    <3>1. CASE docs'[c] = docs[c]
      BY <1>1, <1>3, <2>2, <2>3, <2>5, <3>1 DEF RestartMet, RestartBase, FlowBase, TestBase
    <3>2. CASE docs'[c] # docs[c]
      <4>1. c = k /\ disabling[c] # None /\ docs'[c].rev = disabling[c] BY <1>1, <3>2
      <4>2. Owner[c] \notin Workflows BY <4>1 DEF DocsInv, Flow
      <4>3. Owner[c] \in Tests BY <4>2, NamesApart
      <4>4. ~HasPut({"create", "update"}, c)
        <5>1. PICK K : K = {"create", "update"} OBVIOUS
        <5>2. ~HasPut(K, c) BY <2>5, <4>3, <5>1, PutOwes
        <5> QED BY <5>1, <5>2
      <4>5. asked[c] # None => docs[c].rev = asked[c] \/ docs'[c].rev = docs[c].rev
        BY <4>1, <4>3, <4>4 DEF DocsInv, Test
      <4> QED BY <1>1, <1>3, <2>2, <2>3, <2>5, <4>2, <4>5 DEF RestartMet, RestartBase, TestBase
    <3> QED BY <3>1, <3>2
  <2>6. Met(c, d)' BY <1>1, <1>2, <2>4, <2>5, StillMeets
  <2> QED BY <2>3, <2>6 DEF Met
<1> QED BY <1>1, <1>2, <1>4 DEF RestartInv, Met, Still

LEMMA RestartCrash ==
  ASSUME Sound, RestartInv, Crash
  PROVE  RestartInv'
<1>1. CronSide /\ docs' = docs /\ queue' = queue /\ kept' = kept BY CrashSide
<1>2. ASSUME NEW c \in Crons, kept = 0 PROVE Met(c, RestartMet(c))'
  <2>1. RestartMet(c) \in BOOLEAN BY DEF RestartMet
  <2>2. PICK b \in BOOLEAN : b = RestartMet(c) BY <2>1
  <2>3. Met(c, b) BY <1>2, <2>2 DEF RestartInv, Met
  <2>4. PICK d \in BOOLEAN : d = TRUE OBVIOUS
  <2>5. Met(c, d)' BY <1>1, <2>3, <2>4, CrashRest, DroppedMeets
  <2>6. RestartMet(c)' BY CrashRest DEF RestartMet, RestartBase
  <2> QED BY <2>5, <2>6 DEF Met, Meets
<1> QED BY <1>1, <1>2, CrashRest DEF RestartInv, Met

LEMMA RestartNext ==
  ASSUME Sound, SlowRestart, DownInv, DocsInv, RestartInv, [Next]_vars
  PROVE  RestartInv'
<1>1. ASSUME NEW r \in Requests, WorkflowRequest(r) \/ TestRequest(r) PROVE RestartInv'
  BY <1>1, RequestBegins, RestartRequest
<1>2. ASSUME NEW r \in Requests, Call(r) PROVE RestartInv' BY <1>2, RestartCall
<1>3. CASE CronStep BY <1>3, RestartCron
<1>4. ASSUME NEW c \in Crons, DisableCronjob(c) PROVE RestartInv' BY <1>4, RestartDisable
<1>5. CASE Crash BY <1>5, RestartCrash
<1>6. CASE UNCHANGED vars
  BY <1>6 DEF vars, RestartInv, Aligned, Meets, Owed, Rest, RestartMet, RestartBase, FlowBase, TestBase
<1> QED BY <1>1, <1>2, <1>3, <1>4, <1>5, <1>6 DEF Next

LEMMA RestartInit == Init => DownInv /\ DocsInv /\ RestartInv
<1> SUFFICES ASSUME Init PROVE DownInv /\ DocsInv /\ RestartInv OBVIOUS
<1>1. /\ cron = Down /\ timers = NoTimers /\ asked = NoTimers /\ queue = <<>>
      /\ disabling = NoTimers /\ docs = [c \in Crons |-> NoDoc]
  BY DEF Init
<1>2. DownInv BY <1>1 DEF DownInv
<1>3. DocsInv
  <2> SUFFICES ASSUME NEW c \in Crons PROVE Flow(c) /\ Test(c) BY DEF DocsInv
  <2>1. Effective(docs[c]) = None BY <1>1 DEF Effective, NoDoc
  <2>2. asked[c] = None /\ disabling[c] = None BY <1>1, DownTyped
  <2> QED BY <2>1, <2>2 DEF Flow, Test
<1>4. cron.pc = "down" BY <1>1, DownTyped
<1>5. Rest = <<>> /\ Aligned BY <1>4 DEF Rest, Aligned
<1>6. ASSUME NEW c \in Crons PROVE Meets(c, calls, queue, Rest, docs, asked, RestartMet(c))
  <2>1. Silent(<<>>, c, docs) BY DEF Silent
  <2>2. RestartMet(c) BY <1>4 DEF RestartMet, RestartBase
  <2> QED BY <1>1, <1>5, <2>1, <2>2 DEF Meets
<1> QED BY <1>2, <1>3, <1>5, <1>6 DEF RestartInv

\* When requests end before the cron service is up again, any number of crashes, at any step,
\* loses no timer: once all is quiet those of workflows are what their users asked for, and a
\* test that has timers asked for still has them.
THEOREM RestartsRestore ==
  ASSUME SlowRestart
  PROVE  Spec => []RestartRestores
<1> DEFINE Inv == Sound /\ DownInv /\ DocsInv /\ RestartInv
<1>1. Init => Inv BY SoundInit, RestartInit
<1>2. Inv /\ [Next]_vars => Inv' BY SoundNext, DownNext, DocsNext, RestartNext
<1>3. Inv => RestartRestores
  <2> SUFFICES ASSUME Inv, Quiet, clean, kept = 0, NEW c \in Crons, asked[c] \notin BadRevs
               PROVE  /\ asked[c] # None /\ docs[c].rev \notin BadRevs => timers[c] # None
                      /\ Owner[c] \in Workflows => timers[c] = asked[c]
    BY DEF RestartRestores
  <2>1. cron.pc = "idle" /\ queue = <<>> /\ \A r \in Requests : calls[r].seq = <<>> BY DEF Quiet
  <2>2. Rest = <<>> BY <2>1 DEF Rest
  <2>3. ~Owed(c, calls, docs) BY <2>1 DEF Owed
  <2>4. ~Settles(<<>>, c, docs, asked) BY DEF Settles
  <2>5. Meets(c, calls, queue, Rest, docs, asked, RestartMet(c)) BY DEF RestartInv
  <2>6. RestartMet(c) BY <2>1, <2>2, <2>3, <2>4, <2>5 DEF Meets
  <2> QED BY <2>1, <2>6 DEF RestartMet, RestartBase, FlowBase, TestBase
<1> QED BY <1>1, <1>2, <1>3, PTL DEF Spec
=============================================================================
