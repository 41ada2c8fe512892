-------------------------- MODULE ModelJobsProofs --------------------------
(* The queue keeps its types, a settled job stays settled, its result is    *)
(* the one of its event, a session closes only after every window of its    *)
(* recording, and a completed one has grouped what was said: for any        *)
(* windows, workers, requests, attempts and faults.  At the end, the same   *)
(* queue as the course summary uses it (Summaries).                         *)
EXTENDS ModelJobs, Summaries, TLAPS

JobRow ==
  [status : {"absent"} \cup Open \cup Settled, owner : Workers \cup {None},
   attempts : 0 .. MaxLeases, overdue : BOOLEAN, event : EventKeys \cup {None}, result : Nat,
   transient : BOOLEAN]
Lane == [job : Jobs, attempt : Nat \ {0}, submitted : BOOLEAN]
Points == {"idle", "check", "apply", "segment", "paragraph", "emit", "enqueue", "topic_check",
           "complete", "followup", "insert", "requeue", "store", "state", "count", "tail",
           "topics", "close"}
Request ==
  [op : {"idle", "complete", "fail", "stop"}, pc : Points, job : Jobs \cup {None},
   worker : Workers \cup {None}, attempt : Nat, event : EventKeys \cup {None},
   retryable : BOOLEAN, transient : BOOLEAN, forced : BOOLEAN, group : SUBSET Segments,
   next : TopicJobs \cup {None}, then : {"idle", "close", "complete", "state"}]

Stops == {"none", "asked", "done"}

(* Where a request stands: on a job, past the event of its result, past the *)
(* segment of its window, and in the tail that finishes the session.        *)
Unforced(q) == q.pc \in {"emit", "enqueue"} /\ ~q.forced
Queueing(q) == q.pc \in {"insert", "requeue"}
Checking(q) == q.pc = "topic_check" \/ (Queueing(q) /\ q.then = "complete")
Written(q)  == q.pc \in {"segment", "paragraph", "complete"} \/ Unforced(q) \/ Checking(q)
OnJob(q)    == q.pc \in {"check", "apply", "store", "followup"} \/ Written(q)
Joining(q)  == q.pc \in {"segment", "paragraph"} \/ Unforced(q)
Joined(q)   ==
  (q.pc \in {"paragraph", "complete"} \/ Unforced(q)) /\ q.job.kind = "asr" /\ q.event = q.job
Closing(q)   == q.pc \in {"topics", "close"} \/ (Queueing(q) /\ q.then = "close")
Draining(q)  == q.pc = "tail" \/ Closing(q)
Finishing(q) == q.pc = "count" \/ Draining(q)

Shaped(q) ==
  /\ q \in Request
  /\ OnJob(q) => q.job \in Jobs /\ q.worker \in Workers /\ q.attempt # 0
  /\ q.pc \in {"check", "apply"} \/ Written(q) => q.event \in EventsOf(q.job)
  /\ Joining(q) => q.job.kind = "asr" /\ q.event = q.job
  /\ Checking(q) => q.job.kind = "translate"
  /\ q.pc = "emit" => q.group # {}
  /\ Queueing(q) => q.next \in TopicJobs /\ q.then # "idle"
  /\ q.forced => q.pc \in {"emit", "enqueue"}
  /\ q.transient => q.job.kind = "topic"

RowsTyped ==
  /\ session \in {"recording", "processing"} \cup Closed
  /\ job \in [Jobs -> JobRow]
  /\ emitted \in [EventKeys -> Nat]
  /\ segments \subseteq Segments /\ paragraphs \in Seq(Paragraphs)
  /\ worker \in [Workers -> Lane \cup {Free}]
  /\ stop \in Stops /\ late \subseteq Segments /\ outrun \in BOOLEAN

WellFormed(j, r) ==
  /\ r.owner = None <=> r.status # "leased"
  /\ r.overdue => r.status = "leased"
  /\ r.status = "completed" => r.result # 0
  /\ r.transient => j.kind = "topic" /\ r.status = "failed"
RowsWellFormed == \A j \in Jobs : WellFormed(j, job[j])

(* Of the windows that were queued in time: none waits or runs; what was    *)
(* said in them is in a paragraph, and in a content group, unless closing   *)
(* was outrun or a topic window failed for good.                            *)
Drained == \A s \in Segments \ late : job[Asr(s)].status \notin Open
Covered == \A s \in Segments \ late : Spoken(s) => \E g \in Shown : s \in g
AllGrouped ==
  \/ outrun
  \/ \E j \in TopicJobs : Stuck(j)
  \/ \A s \in Segments \ late : Spoken(s) => \E g \in Shown : s \in g /\ Grouped(g)
AsrRecorded == \A s \in Segments : Spoken(s) => s \in segments

Fit(q) ==
  /\ Shaped(q)
  /\ Written(q) => emitted[q.event] = Content(q)
  /\ Joined(q) => q.job.of \subseteq segments
  /\ Finishing(q) => session # "recording"
  /\ Draining(q) => Drained
  /\ Closing(q) => Covered
  /\ q.pc = "close" => AllGrouped
(* The same of a request q in the state after a step.                       *)
FitNext(q) ==
  /\ Shaped(q)
  /\ Written(q) => emitted'[q.event] = Content(q)
  /\ Joined(q) => q.job.of \subseteq segments'
  /\ Finishing(q) => session' # "recording"
  /\ Draining(q) => Drained'
  /\ Closing(q) => Covered'
  /\ q.pc = "close" => AllGrouped'

RowsFit ==
  /\ RowsTyped /\ RowsWellFormed /\ ResultMatchesEvent /\ AsrRecorded
  /\ ClosedIsRecognised /\ CompletedIsGrouped
CallsFit == call \in [Calls -> Request] /\ \A c \in Calls : Fit(call[c])
JobsInvariant == RowsFit /\ CallsFit

-----------------------------------------------------------------------------
LEMMA JobsOfThisKind ==
  /\ \A s \in Segments : Asr(s) \in Jobs /\ Asr(s).kind = "asr" /\ Asr(s).of = {s}
  /\ \A j \in Jobs : j.kind = "asr" => \E s \in Segments : j = Asr(s)
  /\ \A j \in TopicJobs : j \in Jobs /\ j.kind = "topic" /\ j.of \subseteq Paragraphs
  /\ \A g : Translate(g).kind = "translate"
  /\ \A j \in Jobs : j.kind \in {"asr", "translate", "topic"}
  /\ \A j \in Jobs : j.kind = "topic" => j \in TopicJobs
<1>1. \A s \in Segments : Asr(s) \in Jobs /\ Asr(s).kind = "asr" /\ Asr(s).of = {s}
  BY DEF Jobs, Asr
<1>2. \A g : Translate(g).kind = "translate"
  BY DEF Translate
<1>3. \A j \in TopicJobs : j \in Jobs /\ j.kind = "topic" /\ j.of \subseteq Paragraphs
  BY DEF Jobs, TopicJobs, Windows
<1>4. ASSUME NEW j \in Jobs
      PROVE  \/ j.kind = "asr" /\ \E s \in Segments : j = Asr(s)
             \/ j.kind = "translate"
             \/ j.kind = "topic" /\ j \in TopicJobs
  <2>1. CASE \E s \in Segments : j = Asr(s)
    BY <1>1, <2>1
  <2>2. CASE \E g \in Paragraphs : j = Translate(g)
    BY <1>2, <2>2
  <2>3. CASE j \in TopicJobs
    BY <1>3, <2>3
  <2> QED BY <2>1, <2>2, <2>3 DEF Jobs
<1> QED BY <1>1, <1>2, <1>3, <1>4

(* The keys of events: the job itself, or the silence of its window.        *)
LEMMA KeysOfEvents ==
  /\ \A j \in Jobs : j \in EventKeys /\ j \in EventsOf(j)
  /\ \A j \in Jobs : EventsOf(j) \subseteq EventKeys
  /\ \A j \in Jobs : \A e : e \in EventsOf(j) /\ j.kind # "asr" => e = j
  /\ \A j \in Jobs : EventsOf(j) # {}
<1>1. \A j \in Jobs : j \in EventsOf(j)
  BY DEF EventsOf
<1>2. \A j \in Jobs : EventsOf(j) \subseteq EventKeys
  BY DEF EventKeys
<1>3. \A j \in Jobs : \A e : e \in EventsOf(j) /\ j.kind # "asr" => e = j
  BY DEF EventsOf
<1> QED BY <1>1, <1>2, <1>3

LEMMA TopicKeys == \A j \in TopicJobs : j \in EventKeys
  BY JobsOfThisKind, KeysOfEvents

LEMMA IdleShaped ==
  /\ Idle \in Request /\ Idle.pc = "idle" /\ ~Idle.forced /\ ~Idle.transient
  /\ Shaped(Idle) /\ Fit(Idle) /\ FitNext(Idle)
<1>1. Idle \in Request /\ Idle.pc = "idle" /\ ~Idle.forced /\ ~Idle.transient
  BY DEF Idle, Request, Points
<1>2. Shaped(Idle)
  BY <1>1 DEF Shaped, OnJob, Written, Checking, Queueing, Joining, Unforced
<1> QED BY <1>1, <1>2
        DEF Fit, FitNext, Written, Joined, Finishing, Draining, Closing, Checking, Queueing,
            Unforced

(* What every step keeps: events and segments stay, nobody starts to        *)
(* record again, and after the recording only late windows are queued.      *)
Lasting ==
  /\ \A e \in EventKeys : emitted[e] # 0 => emitted'[e] = emitted[e]
  /\ segments \subseteq segments' /\ Shown \subseteq Shown'
  /\ session # "recording" => session' # "recording"
  /\ late \subseteq late' /\ (outrun => outrun')
  /\ \A j \in TopicJobs : Stuck(j) => Stuck(j)'
  /\ \A s \in Segments :
       /\ job'[Asr(s)].status \in Open =>
            job[Asr(s)].status \in Open \/ session = "recording" \/ s \in late'
       /\ Spoken(s)' => Spoken(s) \/ job[Asr(s)].status = "leased"

LEMMA GroupsLast ==
  ASSUME Lasting, NEW g, Grouped(g)
  PROVE  Grouped(g)'
<1>1. PICK j \in TopicJobs : g \in j.of /\ emitted[j] # 0
  BY DEF Grouped
<1>2. emitted'[j] = emitted[j]
  BY <1>1, TopicKeys DEF Lasting
<1> QED BY <1>1, <1>2 DEF Grouped

(* Once nothing is recorded any more, what is known of the windows that     *)
(* were queued in time stays true.                                          *)
LEMMA FactsLast ==
  ASSUME Lasting, session # "recording", Drained
  PROVE  /\ Drained'
         /\ Covered => Covered'
         /\ AllGrouped => AllGrouped'
<1>1. \A s \in Segments \ late' : s \in Segments \ late
  BY DEF Lasting
<1>2. \A s \in Segments \ late' : Spoken(s)' => Spoken(s)
  BY <1>1 DEF Lasting, Drained, Open
<1>3. Drained'
  BY <1>1 DEF Lasting, Drained
<1>4. Covered => Covered'
  BY <1>1, <1>2 DEF Lasting, Covered
<1>5. CASE outrun
  BY <1>3, <1>4, <1>5 DEF AllGrouped, Lasting
<1>6. CASE \E j \in TopicJobs : Stuck(j)
  BY <1>3, <1>4, <1>6 DEF AllGrouped, Lasting
<1>7. CASE \A s \in Segments \ late : Spoken(s) => \E g \in Shown : s \in g /\ Grouped(g)
  <2>1. ASSUME NEW s \in Segments \ late', Spoken(s)'
        PROVE  \E g \in Shown' : s \in g /\ Grouped(g)'
    <3>1. PICK g \in Shown : s \in g /\ Grouped(g)
      BY <1>1, <1>2, <1>7, <2>1
    <3>2. Grouped(g)'
      BY <3>1, GroupsLast
    <3> QED BY <3>1, <3>2 DEF Lasting
  <2> QED BY <1>3, <1>4, <2>1 DEF AllGrouped
<1> QED BY <1>3, <1>4, <1>5, <1>6, <1>7 DEF AllGrouped

(* A session that is closed already, or is not closed by this step.         *)
LEMMA ClosedLasts ==
  ASSUME ClosedIsRecognised, CompletedIsGrouped, Lasting, session' \in Closed => session' = session
  PROVE  ClosedIsRecognised' /\ CompletedIsGrouped'
<1>1. session' \in Closed => session # "recording" /\ Drained /\ Covered
  BY DEF ClosedIsRecognised, Drained, Covered, Closed
<1>2. session' = "completed" => AllGrouped
  BY DEF CompletedIsGrouped, AllGrouped, Closed
<1>3. ClosedIsRecognised'
  BY <1>1, FactsLast DEF ClosedIsRecognised, Drained, Covered
<1>4. CompletedIsGrouped'
  BY <1>1, <1>2, FactsLast DEF CompletedIsGrouped, AllGrouped, Closed
<1> QED BY <1>3, <1>4

LEMMA ContentIsSomething ==
  ASSUME NEW q, Shaped(q), OnJob(q)
  PROVE  Content(q) \in Nat \ {0}
  BY DEF Shaped, Content, Request

LEMMA WrittenOnJob ==
  ASSUME NEW q, Shaped(q), Written(q)
  PROVE  /\ q.job \in Jobs /\ q.event \in EventsOf(q.job) /\ q.event \in EventKeys
         /\ Content(q) \in Nat \ {0}
<1>1. OnJob(q)
  BY DEF OnJob
<1> QED BY <1>1, ContentIsSomething, KeysOfEvents DEF Shaped

(* A request that does not move is as right after the step as before.       *)
LEMMA StillFits ==
  ASSUME Lasting, NEW q, Fit(q)
  PROVE  FitNext(q)
<1>1. Written(q) => emitted'[q.event] = Content(q)
  BY WrittenOnJob DEF Fit, Lasting
<1>2. Joined(q) => q.job.of \subseteq segments'
  BY DEF Fit, Lasting
<1>3. Finishing(q) => session # "recording" /\ session' # "recording"
  BY DEF Fit, Lasting
<1>4. (q.pc = "close" => Closing(q)) /\ (Closing(q) => Draining(q)) /\ (Draining(q) => Finishing(q))
  BY DEF Closing, Draining, Finishing
<1>5. /\ Draining(q) => Drained'
      /\ Closing(q) => Covered'
      /\ q.pc = "close" => AllGrouped'
  BY <1>3, <1>4, FactsLast DEF Fit
<1> QED BY <1>1, <1>2, <1>3, <1>5 DEF Fit, FitNext

(* One request moves to q.                                                  *)
LEMMA OneCallMoves ==
  ASSUME CallsFit, Lasting, NEW c \in Calls, NEW q, FitNext(q), call' = [call EXCEPT ![c] = q]
  PROVE  CallsFit'
<1>1. call \in [Calls -> Request] /\ call'[c] = q /\ q \in Request
  BY DEF CallsFit, FitNext, Shaped
<1>2. call' \in [Calls -> Request]
  BY <1>1
<1>3. ASSUME NEW d \in Calls
      PROVE  FitNext(call'[d])
  <2>1. CASE d = c
    BY <1>1, <2>1
  <2>2. CASE d # c
    <3>1. call'[d] = call[d]
      BY <1>1, <2>2
    <3>2. FitNext(call[d])
      BY StillFits DEF CallsFit
    <3> QED BY <3>1, <3>2
  <2> QED BY <2>1, <2>2
<1> QED BY <1>2, <1>3 DEF CallsFit, Fit, FitNext

LEMMA NoCallMoves ==
  ASSUME CallsFit, Lasting, call' = call
  PROVE  CallsFit'
<1>1. \A d \in Calls : FitNext(call[d])
  BY StillFits DEF CallsFit
<1> QED BY <1>1 DEF CallsFit, Fit, FitNext

LEMMA ACallEnds ==
  ASSUME CallsFit, Lasting, NEW c \in Calls, call' = [call EXCEPT ![c] = Idle]
  PROVE  CallsFit'
  BY OneCallMoves, IdleShaped

-----------------------------------------------------------------------------
(* The rows of the queue.  A row that settled changes only if it is a topic *)
(* window that failed for a passing reason and is queued anew.              *)
MayChange(j, r) ==
  \/ job[j].status \notin Settled
  \/ j.kind = "topic" /\ job[j].status = "failed" /\ job[j].transient /\ r.status = "queued"
RowStep ==
  \A j \in Jobs : job[j].status \in Settled =>
    \/ job'[j] = job[j]
    \/ /\ j.kind = "topic" /\ job[j].status = "failed" /\ job[j].transient
       /\ job'[j].status = "queued"

(* What the new row of a job must fit: it opens a window only while the     *)
(* session records, or late, and completes a job only with the result that  *)
(* is in the log under the key it names.                                    *)
Recorded(j, r) ==
  /\ r.event \in EventsOf(j) /\ emitted[r.event] = r.result
  /\ j.kind = "asr" /\ r.event = j => j.of \subseteq segments
FitRow(j, r) ==
  /\ r \in JobRow /\ WellFormed(j, r)
  /\ r.status \in Open /\ j.kind = "asr" =>
       job[j].status \in Open \/ session = "recording" \/ j.of \subseteq late'
  /\ r.status = "completed" => r = job[j] \/ (job[j].status = "leased" /\ Recorded(j, r))

(* The step writes no event, and its notes of the past only grow.           *)
LogStays ==
  /\ UNCHANGED <<session, emitted, segments, paragraphs>>
  /\ late \subseteq late' /\ late' \subseteq Segments
  /\ (outrun => outrun') /\ outrun' \in BOOLEAN
  /\ worker' \in [Workers -> Lane \cup {Free}] /\ stop' \in Stops

LEMMA RowsChange ==
  ASSUME RowsFit, job' \in [Jobs -> JobRow], LogStays,
         \A j \in Jobs : job'[j] = job[j] \/ (FitRow(j, job'[j]) /\ MayChange(j, job'[j]))
  PROVE  RowsFit' /\ Lasting /\ RowStep
<1>1. RowsTyped'
  BY DEF RowsFit, RowsTyped, LogStays
<1>2. RowsWellFormed'
  BY DEF RowsFit, RowsWellFormed, FitRow, WellFormed
<1>3. RowStep
  BY DEF RowStep, MayChange
<1>4. ResultMatchesEvent'
  BY DEF RowsFit, ResultMatchesEvent, FitRow, Recorded, LogStays
<1>5. ASSUME NEW s \in Segments
      PROVE  /\ job'[Asr(s)].status \in Open =>
                  job[Asr(s)].status \in Open \/ session = "recording" \/ s \in late'
             /\ Spoken(s)' => Spoken(s) \/ job[Asr(s)].status = "leased"
             /\ Spoken(s)' => s \in segments
  <2>1. Asr(s) \in Jobs /\ Asr(s).kind = "asr" /\ Asr(s).of = {s}
    BY JobsOfThisKind
  <2>2. CASE job'[Asr(s)] = job[Asr(s)]
    BY <2>1, <2>2 DEF RowsFit, AsrRecorded, Spoken
  <2>3. CASE FitRow(Asr(s), job'[Asr(s)])
    BY <2>1, <2>3 DEF FitRow, Recorded, RowsFit, AsrRecorded, Spoken
  <2> QED BY <2>1, <2>2, <2>3
<1>6. \A j \in TopicJobs : Stuck(j) => Stuck(j)'
  BY <1>3, JobsOfThisKind DEF Stuck, RowStep, Settled
<1>7. Lasting
  BY <1>5, <1>6 DEF Lasting, LogStays, Shown
<1>8. AsrRecorded'
  BY <1>5 DEF AsrRecorded, LogStays
<1>9. ClosedIsRecognised' /\ CompletedIsGrouped'
  BY <1>7, ClosedLasts DEF RowsFit, LogStays
<1> QED BY <1>1, <1>2, <1>3, <1>4, <1>7, <1>8, <1>9 DEF RowsFit

LEMMA OneRowChanges ==
  ASSUME RowsFit, NEW j \in Jobs, NEW r, FitRow(j, r), MayChange(j, r),
         job' = [job EXCEPT ![j] = r], LogStays
  PROVE  RowsFit' /\ Lasting /\ RowStep
<1>1. job \in [Jobs -> JobRow] /\ r \in JobRow
  BY DEF RowsFit, RowsTyped, FitRow
<1>2. job' \in [Jobs -> JobRow]
  BY <1>1
<1>3. \A i \in Jobs : job'[i] = job[i] \/ (i = j /\ job'[i] = r)
  BY <1>1
<1>4. \A i \in Jobs : job'[i] = job[i] \/ (FitRow(i, job'[i]) /\ MayChange(i, job'[i]))
  BY <1>3
<1> QED BY <1>2, <1>4, RowsChange

(* A step that leaves the queue as it is.                                   *)
LEMMA NoRowChanges ==
  ASSUME RowsFit, UNCHANGED job, LogStays
  PROVE  RowsFit' /\ Lasting /\ RowStep
<1>1. job' \in [Jobs -> JobRow]
  BY DEF RowsFit, RowsTyped
<1> QED BY <1>1, RowsChange

(* A step that writes events: the rows stay, the log and the session may    *)
(* move.                                                                    *)
LEMMA LogMoves ==
  ASSUME RowsFit, RowsTyped', UNCHANGED <<job, late, outrun>>,
         \A e \in EventKeys : emitted[e] # 0 => emitted'[e] = emitted[e],
         segments \subseteq segments', Shown \subseteq Shown',
         session # "recording" => session' # "recording",
         session' \in Closed => session' = session
  PROVE  RowsFit' /\ Lasting /\ RowStep
<1>1. RowStep
  BY DEF RowStep
<1>2. \A s \in Segments : Spoken(s)' <=> Spoken(s)
  BY DEF Spoken
<1>3. Lasting
  BY <1>2 DEF Lasting, Stuck
<1>4. ASSUME NEW j \in Jobs, job[j].status = "completed"
      PROVE  job[j].event \in EventsOf(j) /\ emitted'[job[j].event] = job[j].result
  <2>1. /\ job[j].event \in EventsOf(j) /\ emitted[job[j].event] = job[j].result
        /\ job[j].result # 0
    BY <1>4 DEF RowsFit, ResultMatchesEvent, RowsWellFormed, WellFormed
  <2> QED BY <2>1, KeysOfEvents
<1>5. ResultMatchesEvent'
  BY <1>4 DEF ResultMatchesEvent
<1>6. RowsWellFormed' /\ AsrRecorded'
  BY <1>2 DEF RowsFit, RowsWellFormed, AsrRecorded
<1>7. ClosedIsRecognised' /\ CompletedIsGrouped'
  BY <1>3, ClosedLasts DEF RowsFit
<1> QED BY <1>1, <1>3, <1>5, <1>6, <1>7 DEF RowsFit

LEMMA LanesTyped ==
  ASSUME RowsFit
  PROVE  /\ worker \in [Workers -> Lane \cup {Free}]
         /\ \A w \in Workers : worker[w] # Free => worker[w] \in Lane /\ worker[w].job \in Jobs
         /\ \A c : Reply(c) => /\ worker' \in [Workers -> Lane \cup {Free}]
                               /\ call' = [call EXCEPT ![c] = Idle]
         /\ \A c : ServerError(c) => worker' = worker /\ stop' = stop
                                     /\ call' = [call EXCEPT ![c] = Idle]
         /\ \A c, pc : Continue(c, pc) => worker' = worker /\ stop' = stop /\ Goto(c, pc)
         /\ \A c, pc : ComeBack(c, pc) => worker' = worker /\ stop' = stop
  BY DEF RowsFit, RowsTyped, Lane, Reply, ServerError, Continue, ComeBack

-----------------------------------------------------------------------------
LEMMA QueuedRow ==
  ASSUME RowsFit, NEW j \in Jobs, job[j].status = "absent",
         j.kind = "asr" => session = "recording" \/ j.of \subseteq late'
  PROVE  LET r == [job[j] EXCEPT !.status = "queued"]
         IN  FitRow(j, r) /\ MayChange(j, r)
<1>1. job[j] \in JobRow /\ WellFormed(j, job[j])
  BY DEF RowsFit, RowsTyped, RowsWellFormed
<1> DEFINE r == [job[j] EXCEPT !.status = "queued"]
<1>2. /\ r \in JobRow /\ r.status = "queued" /\ r.owner = job[j].owner
      /\ r.overdue = job[j].overdue /\ r.transient = job[j].transient
  BY <1>1 DEF JobRow, Open
<1>3. WellFormed(j, r)
  BY <1>1, <1>2 DEF WellFormed
<1>4. FitRow(j, r) /\ MayChange(j, r)
  BY <1>2, <1>3 DEF FitRow, MayChange, Settled, Open
<1> QED BY <1>4

LEMMA Enqueuing ==
  ASSUME RowsFit, NEW j, j.kind = "asr" => session = "recording" \/ j.of \subseteq late',
         job' = Enqueued(j), LogStays
  PROVE  RowsFit' /\ Lasting /\ RowStep
<1>0. job \in [Jobs -> JobRow]
  BY DEF RowsFit, RowsTyped
<1>1. CASE job' = job
  BY <1>1, NoRowChanges
<1>2. CASE j \in Jobs /\ job[j].status = "absent"
  <2> DEFINE r == [job[j] EXCEPT !.status = "queued"]
  <2>1. FitRow(j, r) /\ MayChange(j, r)
    BY <1>2, QueuedRow
  <2>2. job' = [job EXCEPT ![j] = r]
    BY <1>2 DEF Enqueued
  <2> HIDE DEF r
  <2> QED BY <1>2, <2>1, <2>2, OneRowChanges
<1>3. CASE j \notin Jobs
  BY <1>0, <1>1, <1>3 DEF Enqueued
<1> QED BY <1>1, <1>2, <1>3 DEF Enqueued

-----------------------------------------------------------------------------
(* The queue and the workers                                                *)
Kept == JobsInvariant' /\ Lasting /\ RowStep

LEMMA Keeping ==
  ASSUME JobsInvariant, RowsFit', Lasting, RowStep, CallsFit'
  PROVE  Kept
  BY DEF Kept, JobsInvariant

LEMMA CallsStay ==
  ASSUME JobsInvariant, RowsFit', Lasting, RowStep, call' = call
  PROVE  Kept
  BY NoCallMoves, Keeping DEF JobsInvariant

LEMMA SameLog ==
  ASSUME JobsInvariant, UNCHANGED <<session, emitted, segments, paragraphs, history>>,
         worker' \in [Workers -> Lane \cup {Free}], stop' \in Stops
  PROVE  LogStays
  BY DEF JobsInvariant, RowsFit, RowsTyped, LogStays, history

LEMMA LeaseKeeps ==
  ASSUME JobsInvariant, NEW w \in Workers, NEW j \in Jobs, Lease(w, j)
  PROVE  Kept
<1>1. /\ job \in [Jobs -> JobRow] /\ worker \in [Workers -> Lane \cup {Free}]
      /\ \A i \in Jobs : job[i] \in JobRow /\ WellFormed(i, job[i])
      /\ MaxLeases \in Nat /\ None \notin Workers /\ stop \in Stops
  BY JobsAssumption DEF JobsInvariant, RowsFit, RowsTyped, RowsWellFormed
<1>2. /\ job[j].status = "queued" \/ Overdue(j)
      /\ job[j].attempts < MaxLeases
      /\ job' = [Requeued EXCEPT ![j].status = "leased", ![j].owner = w, ![j].attempts = @ + 1]
      /\ worker' = [worker EXCEPT ![w] = [job |-> j, attempt |-> job[j].attempts + 1,
                                          submitted |-> FALSE]]
      /\ UNCHANGED <<session, emitted, segments, paragraphs, call, stop, history>>
  BY DEF Lease
<1>3. \A i \in Jobs : /\ Requeued[i] \in JobRow
                      /\ Requeued[i].attempts = job[i].attempts
                      /\ Requeued[i].transient = job[i].transient
                      /\ ~Overdue(i) => Requeued[i] = job[i]
                      /\ Overdue(i) => /\ Requeued[i].status = "queued" /\ Requeued[i].owner = None
                                       /\ ~Requeued[i].overdue
  BY <1>1 DEF Requeued, JobRow, Open
<1>4. Requeued \in [Jobs -> JobRow]
  BY <1>3 DEF Requeued
<1>5. /\ job'[j] = [Requeued[j] EXCEPT !.status = "leased", !.owner = w, !.attempts = @ + 1]
      /\ \A i \in Jobs : i # j => job'[i] = Requeued[i]
      /\ job' \in [Jobs -> JobRow]
  <2>1. [Requeued[j] EXCEPT !.status = "leased", !.owner = w, !.attempts = @ + 1] \in JobRow
    <3>1. Requeued[j] \in JobRow /\ Requeued[j].attempts = job[j].attempts
      BY <1>3
    <3>2. job[j].attempts \in 0 .. MaxLeases
      BY <1>1 DEF JobRow
    <3>3. Requeued[j].attempts + 1 \in 0 .. MaxLeases
      BY <1>1, <1>2, <3>1, <3>2
    <3> QED BY <3>1, <3>3 DEF JobRow, Open
  <2> QED BY <1>2, <1>4, <2>1 DEF JobRow
<1>6. ASSUME NEW i \in Jobs, i # j
      PROVE  job'[i] = job[i] \/ (FitRow(i, job'[i]) /\ MayChange(i, job'[i]))
  <2>1. CASE ~Overdue(i)
    BY <1>3, <1>5, <1>6, <2>1
  <2>2. CASE Overdue(i)
    BY <1>1, <1>3, <1>5, <1>6, <2>2
    DEF FitRow, MayChange, WellFormed, Overdue, Settled, Open
  <2> QED BY <2>1, <2>2
<1>7. FitRow(j, job'[j]) /\ MayChange(j, job'[j])
  <2>1. /\ job'[j].status = "leased" /\ job'[j].owner = w /\ job'[j] \in JobRow
        /\ job'[j].transient = job[j].transient
    BY <1>3, <1>5 DEF JobRow
  <2>2. job[j].status \in Open
    BY <1>2 DEF Overdue, Open
  <2> QED BY <1>1, <2>1, <2>2 DEF FitRow, MayChange, WellFormed, Settled, Open
<1>8. worker' \in [Workers -> Lane \cup {Free}]
  <2>1. [job |-> j, attempt |-> job[j].attempts + 1, submitted |-> FALSE] \in Lane
    BY <1>1 DEF Lane, JobRow
  <2> QED BY <1>1, <1>2, <2>1
<1>9. LogStays
  BY <1>1, <1>2, <1>8, SameLog
<1>10. RowsFit' /\ Lasting /\ RowStep
  BY <1>5, <1>6, <1>7, <1>9, RowsChange DEF JobsInvariant
<1> QED BY <1>2, <1>10, CallsStay

LEMMA OverdueChanges ==
  ASSUME JobsInvariant, NEW j \in Jobs, NEW o \in BOOLEAN, job[j].status = "leased",
         job' = [job EXCEPT ![j].overdue = o],
         UNCHANGED <<session, emitted, segments, paragraphs, stop, worker, call, history>>
  PROVE  Kept
<1>1. job \in [Jobs -> JobRow] /\ job[j] \in JobRow /\ WellFormed(j, job[j])
      /\ worker' \in [Workers -> Lane \cup {Free}] /\ stop' \in Stops
  BY DEF JobsInvariant, RowsFit, RowsTyped, RowsWellFormed
<1> DEFINE r == [job[j] EXCEPT !.overdue = o]
<1>2. job' = [job EXCEPT ![j] = r]
  BY <1>1
<1>3. r \in JobRow /\ r.status = "leased" /\ r.owner = job[j].owner /\ r.transient = job[j].transient
  BY <1>1 DEF JobRow
<1>4. FitRow(j, r) /\ MayChange(j, r)
  BY <1>1, <1>3 DEF FitRow, MayChange, WellFormed, Open, Settled
<1> HIDE DEF r
<1>5. RowsFit' /\ Lasting /\ RowStep
  BY <1>1, <1>2, <1>4, SameLog, OneRowChanges DEF JobsInvariant
<1> QED BY <1>5, CallsStay

(* A lane hands in p: a result of its job, or the report that it failed.    *)
LEMMA SubmitKeeps ==
  ASSUME JobsInvariant, NEW c \in Calls, NEW w \in Workers, NEW p, Submit(c, w, p),
         p \in Request, ~p.forced,
         \/ p.pc = "check" /\ p.event \in EventsOf(worker[w].job) /\ ~p.transient
         \/ p.pc = "store" /\ (p.transient => worker[w].job.kind = "topic"),
         worker' \in [Workers -> Lane \cup {Free}]
  PROVE  Kept
<1>1. worker[w] \in Lane /\ worker[w].job \in Jobs /\ worker[w].attempt \in Nat \ {0}
  BY LanesTyped DEF Submit, JobsInvariant, Lane
<1> DEFINE q == [p EXCEPT !.worker = w, !.job = worker[w].job, !.attempt = worker[w].attempt]
<1>2. call' = [call EXCEPT ![c] = q]
      /\ UNCHANGED <<session, job, emitted, segments, paragraphs, stop, history>>
  BY DEF Submit
<1>3. /\ q \in Request /\ q.pc = p.pc /\ q.event = p.event /\ q.job = worker[w].job
      /\ q.worker = w /\ q.attempt = worker[w].attempt /\ q.forced = p.forced
      /\ q.transient = p.transient
  BY <1>1 DEF Request, Points
<1> HIDE DEF q
<1>4. /\ ~Written(q) /\ ~Joined(q) /\ ~Finishing(q) /\ ~Draining(q) /\ ~Closing(q)
      /\ ~Joining(q) /\ ~Checking(q) /\ ~Queueing(q) /\ q.pc \notin {"emit", "close"}
  BY <1>3 DEF Written, Joined, Finishing, Draining, Closing, Joining, Checking, Queueing, Unforced
<1>5. FitNext(q)
  BY <1>1, <1>3, <1>4 DEF FitNext, Shaped
<1>6. stop' \in Stops
  BY <1>2 DEF JobsInvariant, RowsFit, RowsTyped
<1>7. RowsFit' /\ Lasting /\ RowStep
  BY <1>2, <1>6, SameLog, NoRowChanges DEF JobsInvariant
<1>8. CallsFit'
  BY <1>2, <1>5, <1>7, OneCallMoves DEF JobsInvariant
<1> QED BY <1>7, <1>8, Keeping

LEMMA ResultKeeps ==
  ASSUME JobsInvariant, NEW c \in Calls, NEW w \in Workers, SubmitResult(c, w)
  PROVE  Kept
<1>1. PICK e \in EventsOf(worker[w].job) :
        Submit(c, w, [Idle EXCEPT !.op = "complete", !.pc = "check", !.event = e])
  BY DEF SubmitResult
<1>2. worker \in [Workers -> Lane \cup {Free}] /\ worker[w] \in Lane /\ worker[w].job \in Jobs
  BY LanesTyped DEF SubmitResult, JobsInvariant
<1>3. [worker[w] EXCEPT !.submitted = TRUE] \in Lane
  BY <1>2 DEF Lane
<1>4. worker' \in [Workers -> Lane \cup {Free}]
  BY <1>2, <1>3 DEF SubmitResult
<1> DEFINE p == [Idle EXCEPT !.op = "complete", !.pc = "check", !.event = e]
<1>5. e \in EventKeys
  BY <1>2, KeysOfEvents
<1>6. /\ p \in Request /\ p.pc = "check" /\ p.event = e
      /\ p.forced = Idle.forced /\ p.transient = Idle.transient
  BY <1>5, IdleShaped DEF Request, Points
<1>7. ~p.forced /\ ~p.transient
  BY <1>6, IdleShaped
<1> HIDE DEF p
<1> QED BY <1>1, <1>4, <1>6, <1>7, SubmitKeeps DEF p

LEMMA FailureKeeps ==
  ASSUME JobsInvariant, NEW c \in Calls, NEW w \in Workers, SubmitFailure(c, w)
  PROVE  Kept
<1>1. worker \in [Workers -> Lane \cup {Free}]
  BY LanesTyped DEF JobsInvariant
<1>2. worker' \in [Workers -> Lane \cup {Free}]
  BY <1>1 DEF SubmitFailure
<1>3. PICK retryable \in BOOLEAN : HandIn(c, w, retryable)
  BY DEF SubmitFailure
<1>4. PICK transient \in IF worker[w].job.kind = "topic" THEN BOOLEAN ELSE {FALSE} :
        Submit(c, w, [Idle EXCEPT !.op = "fail", !.pc = "store", !.retryable = retryable,
                                  !.transient = transient])
  BY <1>3 DEF HandIn
<1> DEFINE p == [Idle EXCEPT !.op = "fail", !.pc = "store", !.retryable = retryable,
                             !.transient = transient]
<1>5. transient \in BOOLEAN /\ (transient => worker[w].job.kind = "topic")
  OBVIOUS
<1>6. /\ p \in Request /\ p.pc = "store" /\ p.forced = Idle.forced /\ p.transient = transient
  <2>1. Idle \in Request /\ "store" \in Points
    BY IdleShaped DEF Points
  <2>2. p \in Request
    BY <1>5, <2>1 DEF Request
  <2>3. p.pc = "store" /\ p.forced = Idle.forced /\ p.transient = transient
    BY <2>1 DEF Request
  <2> QED BY <2>2, <2>3
<1>7. ~p.forced
  BY <1>6, IdleShaped
<1> HIDE DEF p
<1> QED BY <1>2, <1>4, <1>5, <1>6, <1>7, SubmitKeeps DEF p

LEMMA WorkersKeep ==
  ASSUME JobsInvariant,
         \/ \E s \in Segments : EnqueueAsr(s)
         \/ \E w \in Workers : Renew(w) \/ WorkerDies(w) \/ Report(w)
         \/ \E w \in Workers, j \in Jobs : Lease(w, j)
         \/ \E j \in Jobs : Expire(j)
  PROVE  Kept
<1>0. worker \in [Workers -> Lane \cup {Free}] /\ RowsFit /\ stop \in Stops
      /\ late \subseteq Segments /\ outrun \in BOOLEAN
  BY DEF JobsInvariant, RowsFit, RowsTyped
<1>1. ASSUME NEW s \in Segments, EnqueueAsr(s) PROVE Kept
  <2>1. /\ job' = Enqueued(Asr(s)) /\ call' = call
        /\ session = "recording" \/ {s} \subseteq late'
        /\ LogStays
    BY <1>0, <1>1 DEF EnqueueAsr, LogStays
  <2>2. Asr(s).of = {s}
    BY JobsOfThisKind
  <2>3. RowsFit' /\ Lasting /\ RowStep
    BY <1>0, <2>1, <2>2, Enqueuing
  <2> QED BY <2>1, <2>3, CallsStay
<1>2. ASSUME NEW w \in Workers, Renew(w) PROVE Kept
  <2>1. worker[w].job \in Jobs
    BY <1>0, <1>2, LanesTyped DEF Renew
  <2> QED BY <1>2, <2>1, OverdueChanges DEF Renew, Holds
<1>3. ASSUME NEW w \in Workers, WorkerDies(w) PROVE Kept
  <2>1. /\ worker' \in [Workers -> Lane \cup {Free}]
        /\ UNCHANGED <<session, job, emitted, segments, paragraphs, stop, call, history>>
    BY <1>0, <1>3 DEF WorkerDies
  <2>2. RowsFit' /\ Lasting /\ RowStep
    BY <1>0, <2>1, SameLog, NoRowChanges
  <2> QED BY <2>1, <2>2, CallsStay
<1>4. ASSUME NEW j \in Jobs, Expire(j) PROVE Kept
  BY <1>4, OverdueChanges DEF Expire
<1> QED BY <1>1, <1>2, <1>3, <1>4, LeaseKeeps, ResultKeeps, FailureKeeps DEF Report

-----------------------------------------------------------------------------
(* Stops and crashes                                                        *)
LEMMA StopCallFits ==
  ASSUME JobsInvariant, NEW c \in Calls, CallFinish(c, "state"), Lasting
  PROVE  CallsFit'
<1> DEFINE q == [Idle EXCEPT !.op = "stop", !.pc = "state"]
<1>1. q \in Request /\ q.pc = "state" /\ q.forced = Idle.forced /\ q.transient = Idle.transient
  BY IdleShaped DEF Request, Points
<1>2. ~q.forced /\ ~q.transient
  BY <1>1, IdleShaped
<1>3. call' = [call EXCEPT ![c] = q]
  BY DEF CallFinish
<1> HIDE DEF q
<1>4. FitNext(q)
  BY <1>1, <1>2
  DEF FitNext, Shaped, OnJob, Written, Checking, Queueing, Joining, Joined, Unforced, Finishing,
      Draining, Closing
<1> QED BY <1>3, <1>4, OneCallMoves DEF JobsInvariant

LEMMA StopsKeep ==
  ASSUME JobsInvariant,
         (\E c \in Calls : StopRecording(c) \/ StopAgain(c)) \/ Crash \/ UNCHANGED vars
  PROVE  Kept
<1>0. /\ worker \in [Workers -> Lane \cup {Free}] /\ RowsFit /\ RowsTyped /\ stop \in Stops
  BY DEF JobsInvariant, RowsFit, RowsTyped
<1>1. ASSUME NEW c \in Calls, StopRecording(c)
      PROVE  Kept
  <2>1. /\ session = "recording" /\ session' = "processing" /\ stop' = "asked"
        /\ UNCHANGED <<job, emitted, segments, paragraphs, worker, late, outrun>>
        /\ CallFinish(c, "state")
    BY <1>1 DEF StopRecording, history
  <2>2. RowsTyped'
    BY <1>0, <2>1 DEF RowsTyped, Stops
  <2>3. RowsFit' /\ Lasting /\ RowStep
    BY <1>0, <2>1, <2>2, LogMoves DEF Closed, Shown
  <2> QED BY <2>1, <2>3, StopCallFits, Keeping
<1>2. ASSUME NEW c \in Calls, StopAgain(c)
      PROVE  Kept
  <2>1. /\ UNCHANGED <<session, job, emitted, segments, paragraphs, worker, history>>
        /\ stop' \in Stops
        /\ CallFinish(c, "state") \/ call' = call
    BY <1>0, <1>2 DEF StopAgain, Stops
  <2>2. RowsFit' /\ Lasting /\ RowStep
    BY <1>0, <2>1, SameLog, NoRowChanges
  <2> QED BY <2>1, <2>2, StopCallFits, CallsStay, Keeping
<1>3. CASE Crash
  <2>1. UNCHANGED <<session, job, emitted, segments, paragraphs, worker, stop, history>>
        /\ call' = [c \in Calls |-> Idle]
    BY <1>3 DEF Crash
  <2>2. RowsFit' /\ Lasting /\ RowStep
    BY <1>0, <2>1, SameLog, NoRowChanges
  <2>3. CallsFit'
    BY <2>1, IdleShaped DEF CallsFit, Fit, FitNext
  <2> QED BY <2>2, <2>3, Keeping
<1>4. CASE UNCHANGED vars
  <2>1. UNCHANGED <<session, job, emitted, segments, paragraphs, worker, stop, call, history>>
    BY <1>4 DEF vars
  <2>2. RowsFit' /\ Lasting /\ RowStep
    BY <1>0, <2>1, SameLog, NoRowChanges
  <2> QED BY <2>1, <2>2, CallsStay
<1> QED BY <1>1, <1>2, <1>3, <1>4

-----------------------------------------------------------------------------
(* The handlers.  A reply or a server error ends the request; otherwise it  *)
(* goes on to q.                                                            *)
LEMMA EndsKeep ==
  ASSUME JobsInvariant, NEW c \in Calls, Reply(c) \/ ServerError(c),
         RowsFit', Lasting, RowStep
  PROVE  Kept
<1>1. call' = [call EXCEPT ![c] = Idle]
  BY LanesTyped DEF JobsInvariant
<1>2. CallsFit'
  BY <1>1, ACallEnds DEF JobsInvariant
<1> QED BY <1>2, Keeping

LEMMA MoveKeeps ==
  ASSUME JobsInvariant, NEW c \in Calls, NEW q, FitNext(q), call' = [call EXCEPT ![c] = q],
         RowsFit', Lasting, RowStep
  PROVE  Kept
  BY OneCallMoves, Keeping DEF JobsInvariant

LEMMA LanesAfter ==
  ASSUME JobsInvariant, NEW c \in Calls,
         Reply(c) \/ ServerError(c) \/ UNCHANGED <<worker, stop>>
  PROVE  worker' \in [Workers -> Lane \cup {Free}] /\ stop' \in Stops
<1>1. stop \in Stops /\ worker \in [Workers -> Lane \cup {Free}]
  BY DEF JobsInvariant, RowsFit, RowsTyped
<1>2. worker' \in [Workers -> Lane \cup {Free}]
  BY <1>1, LanesTyped DEF JobsInvariant
<1>3. stop' \in Stops
  BY <1>1 DEF Reply, ServerError, Stops
<1> QED BY <1>2, <1>3

LEMMA QuietStep ==
  ASSUME JobsInvariant, UNCHANGED <<session, job, emitted, segments, paragraphs, late>>,
         outrun => outrun', outrun' \in BOOLEAN,
         NEW c \in Calls,
         Reply(c) \/ ServerError(c) \/ UNCHANGED <<worker, stop>>
  PROVE  RowsFit' /\ Lasting /\ RowStep
<1>1. worker' \in [Workers -> Lane \cup {Free}] /\ stop' \in Stops
  BY LanesAfter
<1>2. late \subseteq Segments
  BY DEF JobsInvariant, RowsFit, RowsTyped
<1>3. LogStays
  BY <1>1, <1>2 DEF LogStays
<1> QED BY <1>3, NoRowChanges DEF JobsInvariant

(* The request goes on to another point and keeps what it knows of its job. *)
WrittenPoints == {"segment", "paragraph", "topic_check", "complete"}
JobPoints     == {"check", "apply", "store", "followup"} \cup WrittenPoints
PlainPoints   == Points \ {"emit", "enqueue", "insert", "requeue"}

PointFits(q, pc) ==
  /\ ~q.forced
  /\ pc \in JobPoints => q.job \in Jobs /\ q.worker \in Workers /\ q.attempt # 0
  /\ pc \in {"check", "apply"} \cup WrittenPoints => q.event \in EventsOf(q.job)
  /\ pc \in {"segment", "paragraph"} => q.job.kind = "asr" /\ q.event = q.job
  /\ pc = "topic_check" => q.job.kind = "translate"
  /\ pc \in WrittenPoints => emitted'[q.event] = Content(q)
  /\ pc \in {"paragraph", "complete"} /\ q.job.kind = "asr" /\ q.event = q.job =>
       q.job.of \subseteq segments'
  /\ pc \in {"count", "tail", "topics", "close"} => session' # "recording"
  /\ pc \in {"tail", "topics", "close"} => Drained'
  /\ pc \in {"topics", "close"} => Covered'
  /\ pc = "close" => AllGrouped'

LEMMA PlainFits ==
  ASSUME NEW p, Shaped(p), NEW pc \in PlainPoints, PointFits(p, pc),
         NEW q \in Request, q.pc = pc, q.job = p.job, q.worker = p.worker,
         q.attempt = p.attempt, q.event = p.event, q.forced = p.forced,
         q.transient = p.transient
  PROVE  FitNext(q)
<1>1. /\ Written(q) <=> pc \in WrittenPoints
      /\ OnJob(q) <=> pc \in JobPoints
      /\ Joining(q) <=> pc \in {"segment", "paragraph"}
      /\ Joined(q) <=> pc \in {"paragraph", "complete"} /\ q.job.kind = "asr" /\ q.event = q.job
      /\ Checking(q) <=> pc = "topic_check"
      /\ Finishing(q) <=> pc \in {"count", "tail", "topics", "close"}
      /\ Draining(q) <=> pc \in {"tail", "topics", "close"}
      /\ Closing(q) <=> pc \in {"topics", "close"}
      /\ ~Queueing(q) /\ pc \notin {"emit", "enqueue"}
  BY DEF Written, OnJob, Joining, Joined, Checking, Queueing, Unforced, Finishing, Draining,
         Closing, WrittenPoints, JobPoints, PlainPoints
<1>2. Content(q) = Content(p)
  BY DEF Content
<1>3. p.transient => p.job.kind = "topic"
  BY DEF Shaped
<1>4. Shaped(q)
  BY <1>1, <1>3 DEF Shaped, PointFits
<1> QED BY <1>1, <1>2, <1>4 DEF FitNext, PointFits

LEMMA PlainKeeps ==
  ASSUME JobsInvariant, NEW c \in Calls, NEW pc \in PlainPoints, Goto(c, pc) \/ ComeBack(c, pc),
         PointFits(call[c], pc), RowsFit', Lasting, RowStep
  PROVE  Kept
<1>1. call \in [Calls -> Request] /\ call[c] \in Request /\ Shaped(call[c])
  BY DEF JobsInvariant, CallsFit, Fit, Shaped
<1> DEFINE p == [call[c] EXCEPT !.pc = pc]
           q == [call[c] EXCEPT !.pc = pc, !.group = {}, !.next = None, !.then = "idle"]
<1>2. p \in Request /\ q \in Request
  BY <1>1 DEF Request, PlainPoints
<1>3. CASE Goto(c, pc)
  <2>1. call' = [call EXCEPT ![c] = p]
    BY <1>1, <1>3 DEF Goto
  <2>2. /\ p.pc = pc /\ p.job = call[c].job /\ p.worker = call[c].worker
        /\ p.attempt = call[c].attempt /\ p.event = call[c].event /\ p.forced = call[c].forced
        /\ p.transient = call[c].transient
    BY <1>1 DEF Request
  <2> HIDE DEF p
  <2>3. FitNext(p)
    BY <1>1, <1>2, <2>2, PlainFits
  <2> QED BY <2>1, <2>3, MoveKeeps
<1>4. CASE ComeBack(c, pc)
  <2>1. call' = [call EXCEPT ![c] = q]
    BY <1>1, <1>4 DEF ComeBack
  <2>2. /\ q.pc = pc /\ q.job = call[c].job /\ q.worker = call[c].worker
        /\ q.attempt = call[c].attempt /\ q.event = call[c].event /\ q.forced = call[c].forced
        /\ q.transient = call[c].transient
    BY <1>1 DEF Request
  <2> HIDE DEF q
  <2>3. FitNext(q)
    BY <1>1, <1>2, <2>2, PlainFits
  <2> QED BY <2>1, <2>3, MoveKeeps
<1> QED BY <1>3, <1>4

(* What is known of a request, by the point it is at.                       *)
LEMMA AtPoint ==
  ASSUME JobsInvariant, NEW c \in Calls
  PROVE  /\ call \in [Calls -> Request] /\ call[c] \in Request
         /\ Shaped(call[c]) /\ Fit(call[c]) /\ RowsFit /\ RowsTyped
         /\ call[c].pc \in PlainPoints => ~call[c].forced
         /\ call[c].pc \in JobPoints =>
              /\ call[c].job \in Jobs /\ call[c].worker \in Workers /\ call[c].attempt # 0
              /\ Content(call[c]) \in Nat \ {0}
         /\ call[c].pc \in {"check", "apply"} \cup WrittenPoints =>
              call[c].event \in EventsOf(call[c].job) /\ call[c].event \in EventKeys
<1>1. /\ call \in [Calls -> Request] /\ call[c] \in Request
      /\ Shaped(call[c]) /\ Fit(call[c]) /\ RowsFit /\ RowsTyped
  BY DEF JobsInvariant, CallsFit, RowsFit, Fit, Shaped
<1>2. call[c].pc \in PlainPoints => ~call[c].forced
  BY <1>1 DEF Shaped, PlainPoints
<1>3. call[c].pc \in JobPoints => OnJob(call[c])
  BY DEF JobPoints, WrittenPoints, OnJob, Written, Checking
<1>4. call[c].pc \in JobPoints =>
        /\ call[c].job \in Jobs /\ call[c].worker \in Workers /\ call[c].attempt # 0
        /\ Content(call[c]) \in Nat \ {0}
  BY <1>1, <1>3, ContentIsSomething DEF Shaped
<1>5. call[c].pc \in {"check", "apply"} \cup WrittenPoints =>
        call[c].event \in EventsOf(call[c].job) /\ call[c].pc \in JobPoints
  BY <1>1 DEF Shaped, WrittenPoints, JobPoints, Written, Checking
<1> QED BY <1>1, <1>2, <1>4, <1>5, KeysOfEvents

(* And what remains known of it after a step.                               *)
LEMMA AtPointNext ==
  ASSUME JobsInvariant, NEW c \in Calls, Lasting
  PROVE  /\ call[c].pc \in {"segment", "paragraph"} =>
              call[c].job.kind = "asr" /\ call[c].event = call[c].job
         /\ call[c].pc = "topic_check" => call[c].job.kind = "translate"
         /\ call[c].pc \in WrittenPoints => emitted'[call[c].event] = Content(call[c])
         /\ /\ call[c].pc \in {"paragraph", "complete"}
            /\ call[c].job.kind = "asr" /\ call[c].event = call[c].job
            => call[c].job.of \subseteq segments'
         /\ call[c].pc \in {"count", "tail", "topics", "close"} => session' # "recording"
         /\ call[c].pc \in {"tail", "topics", "close"} => Drained'
         /\ call[c].pc \in {"topics", "close"} => Covered'
         /\ call[c].pc = "close" => AllGrouped'
<1>1. FitNext(call[c]) /\ Shaped(call[c])
  BY AtPoint, StillFits
<1>2. /\ call[c].pc \in {"segment", "paragraph"} => Joining(call[c])
      /\ call[c].pc = "topic_check" => Checking(call[c])
      /\ call[c].pc \in WrittenPoints => Written(call[c])
      /\ /\ call[c].pc \in {"paragraph", "complete"}
         /\ call[c].job.kind = "asr" /\ call[c].event = call[c].job
         => Joined(call[c])
      /\ call[c].pc \in {"count", "tail", "topics", "close"} => Finishing(call[c])
      /\ call[c].pc \in {"tail", "topics", "close"} => Draining(call[c])
      /\ call[c].pc \in {"topics", "close"} => Closing(call[c])
  BY DEF Joining, Checking, WrittenPoints, Written, Joined, Finishing, Draining, Closing
<1> QED BY <1>1, <1>2 DEF FitNext, Shaped

(* Steps that read only: they change neither rows nor events.               *)
LEMMA ReadersKeep ==
  ASSUME JobsInvariant, NEW c \in Calls,
         CompleteCheck(c) \/ FinishState(c) \/ FinishCount(c)
  PROVE  Kept
<1>0. /\ UNCHANGED <<session, job, emitted, segments, paragraphs, late, outrun>>
      /\ Reply(c) \/ UNCHANGED <<worker, stop>>
      /\ call[c].pc \in {"check", "state", "count"}
  BY DEF CompleteCheck, FinishState, FinishCount, Continue, At, history
<1>1. RowsFit' /\ Lasting /\ RowStep
  <2>1. outrun \in BOOLEAN
    BY AtPoint DEF RowsTyped
  <2> QED BY <1>0, <2>1, QuietStep
<1>2. CASE Reply(c)
  BY <1>1, <1>2, EndsKeep
<1>3. ~call[c].forced
  BY <1>0, AtPoint DEF PlainPoints, Points
<1>4. CASE CompleteCheck(c) /\ Goto(c, "apply")
  <2>1. PointFits(call[c], "apply") /\ "apply" \in PlainPoints
    BY <1>3, <1>4, AtPoint
    DEF CompleteCheck, At, PointFits, JobPoints, WrittenPoints, PlainPoints, Points
  <2> QED BY <1>1, <1>4, <2>1, PlainKeeps
<1>5. CASE FinishState(c) /\ Goto(c, "count") /\ session = "processing"
  <2>1. PointFits(call[c], "count") /\ "count" \in PlainPoints
    BY <1>0, <1>3, <1>5 DEF PointFits, JobPoints, WrittenPoints, PlainPoints, Points
  <2> QED BY <1>1, <1>5, <2>1, PlainKeeps
<1>6. CASE FinishCount(c) /\ Goto(c, "tail") /\ ~\E j \in Jobs : job[j].status \in Open
  <2>1. session' # "recording"
    BY <1>1, <1>6, AtPointNext DEF FinishCount, At
  <2>2. Drained'
    BY <1>0, <1>6, JobsOfThisKind DEF Drained
  <2>3. PointFits(call[c], "tail") /\ "tail" \in PlainPoints
    BY <1>3, <2>1, <2>2 DEF PointFits, JobPoints, WrittenPoints, PlainPoints, Points
  <2> QED BY <1>1, <1>6, <2>3, PlainKeeps
<1> QED BY <1>2, <1>4, <1>5, <1>6 DEF CompleteCheck, FinishState, FinishCount, Continue

LEMMA ApplyKeeps ==
  ASSUME JobsInvariant, NEW c \in Calls, CompleteApply(c)
  PROVE  Kept
<1> DEFINE q == call[c]
<1>1. /\ q.pc = "apply" /\ q.job \in Jobs /\ q.worker \in Workers /\ q.attempt # 0
      /\ q.event \in EventsOf(q.job) /\ q.event \in EventKeys /\ ~q.forced
      /\ Content(q) \in Nat \ {0} /\ RowsFit /\ RowsTyped
      /\ UNCHANGED <<session, job, segments, paragraphs, late, outrun>>
  BY AtPoint DEF CompleteApply, At, JobPoints, WrittenPoints, PlainPoints, Points, history
<1>2. CASE ServerError(c) /\ UNCHANGED emitted
  <2>1. RowsFit' /\ Lasting /\ RowStep
    BY <1>1, <1>2, QuietStep DEF RowsTyped
  <2> QED BY <1>2, <2>1, EndsKeep
<1>3. CASE /\ emitted[q.event] \in {0, Content(q)}
           /\ emitted' = [emitted EXCEPT ![q.event] = Content(q)]
           /\ Continue(c, AfterEvent(q))
  <2>1. /\ emitted \in [EventKeys -> Nat] /\ emitted' \in [EventKeys -> Nat]
        /\ emitted'[q.event] = Content(q)
        /\ \A e \in EventKeys : emitted[e] # 0 => emitted'[e] = emitted[e]
    BY <1>1, <1>3 DEF RowsTyped
  <2>2. UNCHANGED <<worker, stop>>
    BY <1>3 DEF Continue
  <2>3. RowsTyped'
    BY <1>1, <2>1, <2>2 DEF RowsTyped
  <2>4. RowsFit' /\ Lasting /\ RowStep
    BY <1>1, <2>1, <2>3, LogMoves DEF Shown
  <2>5. \/ AfterEvent(q) = "segment" /\ q.job.kind = "asr" /\ q.event = q.job
        \/ AfterEvent(q) = "topic_check" /\ q.job.kind = "translate"
        \/ AfterEvent(q) = "complete" /\ ~(q.job.kind = "asr" /\ q.event = q.job)
    BY <1>1, JobsOfThisKind DEF AfterEvent
  <2> DEFINE pc == AfterEvent(q)
  <2>6. PointFits(q, pc) /\ pc \in PlainPoints
    <3>1. pc \in WrittenPoints /\ pc \in PlainPoints
          /\ pc \notin {"paragraph", "count", "tail", "topics", "close"}
      BY <2>5 DEF WrittenPoints, PlainPoints, Points
    <3> HIDE DEF pc
    <3> QED BY <1>1, <2>1, <2>5, <3>1 DEF PointFits, WrittenPoints, pc
  <2> HIDE DEF pc
  <2> QED BY <1>3, <2>4, <2>6, PlainKeeps DEF Continue, pc
<1> QED BY <1>2, <1>3 DEF CompleteApply

LEMMA SegmentKeeps ==
  ASSUME JobsInvariant, NEW c \in Calls, CompleteSegment(c)
  PROVE  Kept
<1> DEFINE q == call[c]
<1>1. /\ q.pc = "segment" /\ q.job \in Jobs /\ q.worker \in Workers /\ q.attempt # 0
      /\ q.event \in EventsOf(q.job) /\ ~q.forced /\ RowsFit /\ RowsTyped
      /\ Goto(c, "paragraph")
      /\ UNCHANGED <<session, job, emitted, paragraphs, worker, stop, late, outrun>>
      /\ segments' = segments \cup q.job.of
  BY AtPoint
  DEF CompleteSegment, At, JobPoints, WrittenPoints, PlainPoints, Points, Continue, history
<1>2. q.job.kind = "asr" /\ q.event = q.job
  BY <1>1, AtPoint DEF Shaped, Joining
<1>3. segments' \subseteq Segments
  <2>1. PICK s \in Segments : q.job = Asr(s)
    BY <1>1, <1>2, JobsOfThisKind
  <2> QED BY <1>1, <2>1, JobsOfThisKind DEF RowsTyped
<1>4. RowsTyped'
  BY <1>1, <1>3 DEF RowsTyped
<1>5. RowsFit' /\ Lasting /\ RowStep
  BY <1>1, <1>4, LogMoves DEF Shown
<1>6. emitted'[q.event] = Content(q)
  BY <1>1, <1>5, AtPointNext DEF WrittenPoints
<1>7. PointFits(q, "paragraph") /\ "paragraph" \in PlainPoints
  BY <1>1, <1>2, <1>6 DEF PointFits, PlainPoints, Points
<1> QED BY <1>1, <1>5, <1>7, PlainKeeps

(* A request takes the segments in no paragraph: it goes on to emit them.   *)
LEMMA TakingKeeps ==
  ASSUME JobsInvariant, NEW c \in Calls, NEW forced \in BOOLEAN, Pending # {},
         ~call[c].transient \/ call[c].job.kind = "topic",
         ~forced => call[c].pc = "paragraph",
         call' = [call EXCEPT ![c].pc = "emit", ![c].group = Pending, ![c].forced = forced],
         RowsFit', Lasting, RowStep
  PROVE  Kept
<1> DEFINE q == [call[c] EXCEPT !.pc = "emit", !.group = Pending, !.forced = forced]
<1>1. /\ call \in [Calls -> Request] /\ call[c] \in Request /\ Shaped(call[c]) /\ RowsTyped
  BY AtPoint
<1>2. Pending \subseteq Segments
  BY <1>1 DEF Pending, RowsTyped
<1>3. /\ call' = [call EXCEPT ![c] = q]
      /\ q \in Request /\ q.pc = "emit" /\ q.group = Pending /\ q.forced = forced
      /\ q.job = call[c].job /\ q.worker = call[c].worker /\ q.attempt = call[c].attempt
      /\ q.event = call[c].event /\ q.transient = call[c].transient
  <2>1. call[c] \in Request /\ "emit" \in Points
    BY <1>1 DEF Points
  <2>2. q \in Request
    BY <1>2, <2>1 DEF Request
  <2>3. q.pc = "emit" /\ q.group = Pending /\ q.forced = forced
    BY <2>1 DEF Request
  <2>4. /\ q.job = call[c].job /\ q.worker = call[c].worker /\ q.attempt = call[c].attempt
        /\ q.event = call[c].event /\ q.transient = call[c].transient
    BY <2>1 DEF Request
  <2> QED BY <2>2, <2>3, <2>4
<1> HIDE DEF q
<1>4. Content(q) = Content(call[c])
  BY <1>3 DEF Content
<1>5. ASSUME ~forced
      PROVE  /\ q.job \in Jobs /\ q.worker \in Workers /\ q.attempt # 0
             /\ q.event \in EventsOf(q.job)
             /\ q.job.kind = "asr" /\ q.event = q.job /\ q.job.of \subseteq segments'
             /\ emitted'[q.event] = Content(q)
  BY <1>3, <1>4, <1>5, AtPoint, AtPointNext DEF JobPoints, WrittenPoints
<1>6. /\ OnJob(q) => ~forced
      /\ Written(q) => ~forced
      /\ Joined(q) => ~forced
      /\ Joining(q) => ~forced
      /\ ~Finishing(q) /\ ~Draining(q) /\ ~Closing(q) /\ ~Checking(q) /\ ~Queueing(q)
  BY <1>3
  DEF OnJob, Written, Joined, Joining, Unforced, Checking, Queueing, Finishing, Draining, Closing
<1>7. Shaped(q)
  BY <1>1, <1>3, <1>5, <1>6 DEF Shaped
<1>8. FitNext(q)
  BY <1>3, <1>5, <1>6, <1>7 DEF FitNext
<1> QED BY <1>3, <1>8, MoveKeeps

LEMMA ParagraphKeeps ==
  ASSUME JobsInvariant, NEW c \in Calls, CompleteParagraph(c)
  PROVE  Kept
<1> DEFINE q == call[c]
<1>1. /\ q.pc = "paragraph" /\ q.job \in Jobs /\ q.worker \in Workers /\ q.attempt # 0
      /\ q.event \in EventsOf(q.job) /\ ~q.forced /\ Shaped(q)
      /\ q \in Request /\ call \in [Calls -> Request]
      /\ UNCHANGED <<session, job, emitted, segments, paragraphs, worker, stop, late, outrun>>
      /\ outrun \in BOOLEAN
  BY AtPoint
  DEF CompleteParagraph, At, JobPoints, WrittenPoints, PlainPoints, Points, Continue, TakePending,
      history, RowsTyped
<1>2. RowsFit' /\ Lasting /\ RowStep
  BY <1>1, QuietStep
<1>3. CASE TakePending(c)
  <2>1. q.forced = FALSE
    BY <1>1 DEF Request
  <2>2. call' = [call EXCEPT ![c].pc = "emit", ![c].group = Pending, ![c].forced = FALSE]
    BY <1>1, <1>3, <2>1 DEF TakePending, Request
  <2> QED BY <1>1, <1>2, <1>3, <2>2, TakingKeeps DEF TakePending, Shaped
<1>4. CASE Goto(c, "complete")
  <2>1. /\ q.job.kind = "asr" /\ q.event = q.job /\ q.job.of \subseteq segments'
        /\ emitted'[q.event] = Content(q)
    BY <1>1, <1>2, AtPointNext DEF WrittenPoints
  <2>2. PointFits(q, "complete") /\ "complete" \in PlainPoints
    BY <1>1, <2>1 DEF PointFits, PlainPoints, Points
  <2> QED BY <1>2, <1>4, <2>2, PlainKeeps
<1> QED BY <1>3, <1>4 DEF CompleteParagraph, Continue

LEMMA EmitKeeps ==
  ASSUME JobsInvariant, NEW c \in Calls, EmitParagraph(c)
  PROVE  Kept
<1> DEFINE p == call[c]
           q == [p EXCEPT !.pc = "enqueue"]
<1>1. /\ p.pc = "emit" /\ Shaped(p) /\ Fit(p) /\ p \in Request /\ RowsFit /\ RowsTyped
      /\ call \in [Calls -> Request] /\ Goto(c, "enqueue")
      /\ paragraphs' = IF p.group \in Shown THEN paragraphs ELSE Append(paragraphs, p.group)
      /\ UNCHANGED <<session, job, emitted, segments, worker, stop, late, outrun>>
  BY AtPoint DEF EmitParagraph, At, Continue, history
<1>2. p.group \in Paragraphs
  BY <1>1 DEF Shaped, Request, Paragraphs
<1>3. paragraphs \in Seq(Paragraphs) /\ paragraphs' \in Seq(Paragraphs)
  BY <1>1, <1>2 DEF RowsTyped
<1>4. Shown \subseteq Shown'
  <2>1. CASE paragraphs' = paragraphs
    BY <2>1 DEF Shown
  <2>2. CASE paragraphs' = Append(paragraphs, p.group)
    <3>1. ASSUME NEW n \in DOMAIN paragraphs
          PROVE  n \in DOMAIN paragraphs' /\ paragraphs'[n] = paragraphs[n]
      BY <1>2, <1>3, <2>2
    <3> QED BY <3>1 DEF Shown
  <2> QED BY <1>1, <2>1, <2>2
<1>5. RowsTyped'
  BY <1>1, <1>3 DEF RowsTyped
<1>6. RowsFit' /\ Lasting /\ RowStep
  BY <1>1, <1>4, <1>5, LogMoves
<1>7. /\ call' = [call EXCEPT ![c] = q] /\ q \in Request /\ q.pc = "enqueue"
      /\ q.job = p.job /\ q.worker = p.worker /\ q.attempt = p.attempt /\ q.event = p.event
      /\ q.forced = p.forced /\ q.transient = p.transient
  BY <1>1 DEF Goto, Request, Points
<1> HIDE DEF q
<1>8. FitNext(p)
  BY <1>1, <1>6, StillFits
<1>9. /\ OnJob(q) <=> OnJob(p)
      /\ Written(q) <=> Written(p)
      /\ Joined(q) <=> Joined(p)
      /\ Joining(q) <=> Joining(p)
      /\ Content(q) = Content(p)
      /\ ~Finishing(q) /\ ~Draining(q) /\ ~Closing(q) /\ ~Checking(q) /\ ~Queueing(q)
  BY <1>1, <1>7
  DEF OnJob, Written, Joined, Joining, Unforced, Checking, Queueing, Finishing, Draining, Closing,
      Content
<1>10. Shaped(q)
  BY <1>1, <1>7, <1>9 DEF Shaped
<1>11. FitNext(q)
  BY <1>7, <1>8, <1>9, <1>10 DEF FitNext
<1> QED BY <1>6, <1>7, <1>11, MoveKeeps

LEMMA EnqueueKeeps ==
  ASSUME JobsInvariant, NEW c \in Calls, EnqueueTranslation(c)
  PROVE  Kept
<1> DEFINE p == call[c]
<1>1. /\ p.pc = "enqueue" /\ Shaped(p) /\ Fit(p) /\ p \in Request /\ RowsFit /\ RowsTyped
      /\ job' = Enqueued(Translate(p.group))
      /\ UNCHANGED <<session, emitted, segments, paragraphs, late, outrun>>
      /\ IF p.forced THEN Reply(c) ELSE ComeBack(c, "complete")
  BY AtPoint DEF EnqueueTranslation, At, history
<1>2. worker' \in [Workers -> Lane \cup {Free}] /\ stop' \in Stops
  BY <1>1, LanesAfter DEF ComeBack
<1>3. LogStays
  BY <1>1, <1>2 DEF LogStays, RowsTyped
<1>4. RowsFit' /\ Lasting /\ RowStep
  BY <1>1, <1>3, JobsOfThisKind, Enqueuing
<1>5. CASE p.forced
  BY <1>1, <1>4, <1>5, EndsKeep
<1>6. CASE ~p.forced
  <2>1. Unforced(p) /\ FitNext(p)
    BY <1>1, <1>4, <1>6, StillFits DEF Unforced
  <2>2. OnJob(p) /\ Joining(p) /\ Written(p)
    BY <2>1 DEF OnJob, Joining, Written
  <2>3. /\ p.job \in Jobs /\ p.worker \in Workers /\ p.attempt # 0
        /\ p.event \in EventsOf(p.job) /\ p.job.kind = "asr" /\ p.event = p.job
        /\ emitted'[p.event] = Content(p)
    BY <1>1, <2>1, <2>2 DEF Shaped, FitNext
  <2>4. p.job.of \subseteq segments'
    BY <2>1, <2>3 DEF FitNext, Joined
  <2>5. PointFits(p, "complete") /\ "complete" \in PlainPoints
    BY <1>6, <2>3, <2>4 DEF PointFits, PlainPoints, Points
  <2> QED BY <1>1, <1>4, <1>6, <2>5, PlainKeeps
<1> QED BY <1>5, <1>6

-----------------------------------------------------------------------------
(* The owner of the lease settles the job, or returns it to the queue.      *)
LEMMA OwnRowChanges ==
  ASSUME JobsInvariant, NEW c \in Calls, Holds(call[c].worker, call[c].job),
         call[c].job \in Jobs, NEW r, r \in JobRow, WellFormed(call[c].job, r),
         r.status \in {"queued", "completed", "failed"},
         r.status = "completed" => Recorded(call[c].job, r),
         job' = [job EXCEPT ![call[c].job] = r],
         UNCHANGED <<session, emitted, segments, paragraphs, history, worker, stop>>
  PROVE  RowsFit' /\ Lasting /\ RowStep
<1>1. worker' \in [Workers -> Lane \cup {Free}] /\ stop' \in Stops
  BY LanesAfter
<1>2. job[call[c].job].status = "leased"
  BY DEF Holds
<1>3. FitRow(call[c].job, r) /\ MayChange(call[c].job, r)
  BY <1>2 DEF FitRow, MayChange, Open, Settled
<1>4. LogStays
  BY <1>1, SameLog
<1> QED BY <1>3, <1>4, OneRowChanges DEF JobsInvariant

LEMMA CompleteStoreKeeps ==
  ASSUME JobsInvariant, NEW c \in Calls, CompleteStore(c)
  PROVE  Kept
<1> DEFINE q == call[c]
<1>1. /\ q.pc = "complete" /\ q.job \in Jobs /\ q.worker \in Workers /\ q.attempt # 0
      /\ Content(q) \in Nat \ {0} /\ q.event \in EventsOf(q.job) /\ q.event \in EventKeys
      /\ ~q.forced /\ Fit(q) /\ RowsFit /\ RowsTyped /\ outrun \in BOOLEAN
      /\ UNCHANGED <<session, emitted, segments, paragraphs, late, outrun, history>>
  BY AtPoint
  DEF CompleteStore, At, JobPoints, WrittenPoints, PlainPoints, Points, RowsTyped, history
<1>2. /\ emitted[q.event] = Content(q)
      /\ q.job.kind = "asr" /\ q.event = q.job => q.job.of \subseteq segments
  BY <1>1 DEF Fit, Written, Joined
<1>3. CASE Reply(c) /\ UNCHANGED job
  <2>1. RowsFit' /\ Lasting /\ RowStep
    BY <1>1, <1>3, QuietStep
  <2> QED BY <1>3, <2>1, EndsKeep
<1>4. CASE /\ Holds(q.worker, q.job)
           /\ job' = [job EXCEPT ![q.job].status = "completed", ![q.job].owner = None,
                                 ![q.job].overdue = FALSE, ![q.job].event = q.event,
                                 ![q.job].result = Content(q)]
           /\ Continue(c, IF q.job.kind = "topic" THEN "followup" ELSE "state")
  <2> DEFINE r == [job[q.job] EXCEPT !.status = "completed", !.owner = None,
                                     !.overdue = FALSE, !.event = q.event, !.result = Content(q)]
  <2>1. job \in [Jobs -> JobRow] /\ job[q.job] \in JobRow /\ WellFormed(q.job, job[q.job])
    BY <1>1 DEF RowsFit, RowsTyped, RowsWellFormed
  <2>2. job' = [job EXCEPT ![q.job] = r]
    BY <1>1, <1>4, <2>1
  <2>3. /\ r \in JobRow /\ r.status = "completed" /\ r.result = Content(q) /\ r.owner = None
        /\ ~r.overdue /\ r.event = q.event /\ r.transient = job[q.job].transient
    BY <1>1, <2>1 DEF JobRow, Settled
  <2> HIDE DEF r
  <2>4. WellFormed(q.job, r)
    BY <1>1, <1>4, <2>1, <2>3 DEF WellFormed, Holds
  <2>5. Recorded(q.job, r)
    BY <1>1, <1>2, <2>3 DEF Recorded
  <2>6. RowsFit' /\ Lasting /\ RowStep
    BY <1>1, <1>4, <2>2, <2>3, <2>4, <2>5, OwnRowChanges DEF Continue
  <2>7. ASSUME NEW pc \in {"followup", "state"}, Goto(c, pc)
        PROVE  Kept
    <3>1. PointFits(q, pc) /\ pc \in PlainPoints
      BY <1>1 DEF PointFits, JobPoints, WrittenPoints, PlainPoints, Points
    <3> QED BY <2>6, <2>7, <3>1, PlainKeeps
  <2> QED BY <1>4, <2>7 DEF Continue
<1> QED BY <1>3, <1>4 DEF CompleteStore

LEMMA FailStoreKeeps ==
  ASSUME JobsInvariant, NEW c \in Calls, FailStore(c)
  PROVE  Kept
<1> DEFINE q == call[c]
<1>1. /\ q.pc = "store" /\ q.job \in Jobs /\ q \in Request /\ Shaped(q) /\ ~q.forced
      /\ RowsFit /\ RowsTyped /\ outrun \in BOOLEAN
      /\ UNCHANGED <<session, emitted, segments, paragraphs, late, outrun, history>>
  BY AtPoint DEF FailStore, At, JobPoints, PlainPoints, Points, RowsTyped, history
<1>2. CASE Reply(c) /\ UNCHANGED job
  <2>1. RowsFit' /\ Lasting /\ RowStep
    BY <1>1, <1>2, QuietStep
  <2> QED BY <1>2, <2>1, EndsKeep
<1>3. ASSUME NEW status \in {"queued", "failed"}, NEW transient \in BOOLEAN,
             transient => status = "failed" /\ q.transient,
             Holds(q.worker, q.job), Continue(c, "state"),
             job' = [job EXCEPT ![q.job].status = status, ![q.job].owner = None,
                                ![q.job].overdue = FALSE, ![q.job].transient = transient]
      PROVE  Kept
  <2> DEFINE r == [job[q.job] EXCEPT !.status = status, !.owner = None, !.overdue = FALSE,
                                     !.transient = transient]
  <2>1. job \in [Jobs -> JobRow] /\ job[q.job] \in JobRow
    BY <1>1 DEF RowsTyped
  <2>2. job' = [job EXCEPT ![q.job] = r]
    BY <1>1, <1>3, <2>1
  <2>3. r \in JobRow /\ r.status = status /\ r.owner = None /\ ~r.overdue
        /\ r.transient = transient
    BY <1>1, <1>3, <2>1 DEF JobRow, Settled, Open
  <2> HIDE DEF r
  <2>4. WellFormed(q.job, r)
    BY <1>1, <1>3, <2>3 DEF WellFormed, Shaped
  <2>5. RowsFit' /\ Lasting /\ RowStep
    BY <1>1, <1>3, <2>2, <2>3, <2>4, OwnRowChanges DEF Continue
  <2>6. PointFits(q, "state") /\ "state" \in PlainPoints
    BY <1>1 DEF PointFits, JobPoints, WrittenPoints, PlainPoints, Points
  <2> QED BY <1>3, <2>5, <2>6, PlainKeeps DEF Continue
<1>4. CASE Holds(q.worker, q.job)
  <2> DEFINE retry == q.retryable /\ job[q.job].attempts < MaxAttempts
             status == IF retry THEN "queued" ELSE "failed"
             transient == ~retry /\ q.transient
  <2>1. status \in {"queued", "failed"} /\ transient \in BOOLEAN
        /\ (transient => status = "failed" /\ q.transient)
    BY <1>1 DEF Request
  <2>2. /\ job' = [job EXCEPT ![q.job].status = status, ![q.job].owner = None,
                              ![q.job].overdue = FALSE, ![q.job].transient = transient]
        /\ Continue(c, "state")
    BY <1>4 DEF FailStore
  <2> HIDE DEF status, transient
  <2> QED BY <1>3, <1>4, <2>1, <2>2
<1>5. CASE ~Holds(q.worker, q.job)
  BY <1>2, <1>5 DEF FailStore
<1> QED BY <1>4, <1>5

-----------------------------------------------------------------------------
(* Topic windows                                                            *)
LEMMA AbsentTyped ==
  /\ Absent \in JobRow /\ Absent.status = "absent" /\ Absent.owner = None
  /\ ~Absent.overdue /\ ~Absent.transient
  /\ \A j \in Jobs : WellFormed(j, Absent)
  BY JobsAssumption DEF Absent, JobRow, WellFormed

(* The request chooses the window j and goes on to queue it.                *)
LEMMA ChoosingKeeps ==
  ASSUME JobsInvariant, NEW c \in Calls, NEW j \in TopicJobs,
         NEW pc \in {"insert", "requeue"}, NEW then \in {"close", "complete", "state"},
         \/ then = "complete" /\ call[c].pc = "topic_check"
         \/ then = "state" /\ call[c].pc = "followup"
         \/ then = "close" /\ call[c].pc = "topics",
         call' = [call EXCEPT ![c].pc = pc, ![c].next = j, ![c].then = then],
         RowsFit', Lasting, RowStep
  PROVE  Kept
<1> DEFINE p == call[c]
           q == [p EXCEPT !.pc = pc, !.next = j, !.then = then]
<1>1. /\ call \in [Calls -> Request] /\ p \in Request /\ Shaped(p) /\ ~p.forced
      /\ p.pc \in JobPoints => p.job \in Jobs /\ p.worker \in Workers /\ p.attempt # 0
      /\ p.pc = "topic_check" => p.event \in EventsOf(p.job)
  BY AtPoint DEF PlainPoints, Points, WrittenPoints
<1>2. /\ call' = [call EXCEPT ![c] = q] /\ q \in Request /\ q.pc = pc /\ q.next = j
      /\ q.then = then /\ q.job = p.job /\ q.worker = p.worker /\ q.attempt = p.attempt
      /\ q.event = p.event /\ q.forced = p.forced /\ q.transient = p.transient
  <2>1. pc \in Points
    BY DEF Points
  <2>2. q \in Request
    BY <1>1, <2>1 DEF Request
  <2>3. call' = [call EXCEPT ![c] = q]
    BY <1>1
  <2> QED BY <1>1, <2>2, <2>3 DEF Request
<1> HIDE DEF q
<1>3. Content(q) = Content(p)
  BY <1>2 DEF Content
<1>4. /\ Queueing(q) /\ (Checking(q) <=> then = "complete") /\ (Written(q) <=> then = "complete")
      /\ (OnJob(q) <=> then = "complete") /\ ~Joining(q) /\ ~Joined(q)
      /\ (Closing(q) <=> then = "close") /\ (Draining(q) <=> then = "close")
      /\ (Finishing(q) <=> then = "close")
  BY <1>2
  DEF Queueing, Checking, Written, OnJob, Joining, Joined, Unforced, Closing, Draining, Finishing
<1>5. ASSUME then = "complete"
      PROVE  /\ p.job \in Jobs /\ p.worker \in Workers /\ p.attempt # 0
             /\ p.event \in EventsOf(p.job) /\ p.job.kind = "translate"
             /\ emitted'[p.event] = Content(p)
  BY <1>1, <1>5, AtPointNext DEF JobPoints, WrittenPoints
<1>6. then = "close" => session' # "recording" /\ Drained' /\ Covered'
  BY AtPointNext
<1>7. Shaped(q)
  BY <1>1, <1>2, <1>4, <1>5 DEF Shaped
<1>8. FitNext(q)
  BY <1>2, <1>3, <1>4, <1>5, <1>6, <1>7 DEF FitNext
<1> QED BY <1>2, <1>8, MoveKeeps

(* A window in no content group is not that of a job whose result is kept.  *)
LEMMA WindowIsNew ==
  ASSUME RowsFit, NEW T \in Windows, NEW full \in BOOLEAN, IsWindow(T, full), NEW j \in TopicJobs,
         j.of = T
  PROVE  job[j].status # "completed"
<1>1. PICK a, b \in Left : a .. b \subseteq Left /\ T = Span(a, b)
  BY DEF IsWindow
<1>2. PICK g \in T : TRUE
  BY DEF Windows
<1>3. PICK n \in a .. b : g = paragraphs[n]
  BY <1>1, <1>2 DEF Span
<1>4. ~Grouped(g)
  BY <1>1, <1>3 DEF Left
<1>5. emitted[j] = 0
  BY <1>2, <1>4 DEF Grouped
<1>6. j \in Jobs /\ j.kind = "topic"
  BY JobsOfThisKind
<1>7. ASSUME job[j].status = "completed" PROVE FALSE
  <2>1. job[j].event \in EventsOf(j) /\ emitted[job[j].event] = job[j].result /\ job[j].result # 0
    BY <1>6, <1>7 DEF RowsFit, ResultMatchesEvent, RowsWellFormed, WellFormed
  <2>2. job[j].event = j
    BY <1>6, <2>1, KeysOfEvents
  <2> QED BY <1>5, <2>1, <2>2
<1> QED BY <1>7

(* A forced window is queued, unless nothing is left or a topic job is      *)
(* open: past it the session closes only with everything grouped.           *)
LEMMA NothingLeft ==
  ASSUME RowsFit, Covered, Left = {}
  PROVE  AllGrouped
<1>1. ASSUME NEW s \in Segments \ late, Spoken(s)
      PROVE  \E g \in Shown : s \in g /\ Grouped(g)
  <2>1. PICK g \in Shown : s \in g
    BY <1>1 DEF Covered
  <2>2. PICK n \in DOMAIN paragraphs : g = paragraphs[n]
    BY DEF Shown
  <2>3. Grouped(g)
    BY <2>2 DEF Left
  <2> QED BY <2>1, <2>3
<1> QED BY <1>1 DEF AllGrouped

LEMMA PendingKeeps ==
  ASSUME JobsInvariant, NEW c \in Calls, NEW force \in BOOLEAN,
         NEW then \in {"close", "complete", "state"}, EnqueuePending(c, force, then),
         \/ then = "complete" /\ call[c].pc = "topic_check"
         \/ then = "state" /\ call[c].pc = "followup"
         \/ then = "close" /\ call[c].pc = "topics" /\ force
  PROVE  Kept
<1> DEFINE q == call[c]
<1>1. /\ UNCHANGED <<session, job, emitted, segments, paragraphs, late, worker, stop>>
      /\ outrun' = (outrun \/ (then = "close" /\ ~Quiet))
  BY DEF EnqueuePending, Continue
<1>2. RowsFit /\ RowsTyped /\ outrun \in BOOLEAN /\ ~q.forced
  BY AtPoint DEF RowsTyped, PlainPoints, Points
<1>3. RowsFit' /\ Lasting /\ RowStep
  BY <1>1, <1>2, QuietStep
<1>4. ASSUME NEW T \in Windows, NEW full \in BOOLEAN, force \/ full,
             NEW pc \in {"insert", "requeue"},
             call' = [call EXCEPT ![c].pc = pc, ![c].next = Topic(T, force, full),
                                  ![c].then = then]
      PROVE  Kept
  <2>1. Topic(T, force, full) \in TopicJobs
    BY <1>4 DEF Topic, TopicJobs
  <2> QED BY <1>3, <1>4, <2>1, ChoosingKeeps
<1>5. CASE Continue(c, then) /\ then = "complete"
  <2>1. /\ q.job \in Jobs /\ q.worker \in Workers /\ q.attempt # 0 /\ q.event \in EventsOf(q.job)
        /\ q.job.kind = "translate" /\ emitted'[q.event] = Content(q)
    BY <1>3, <1>5, AtPoint, AtPointNext DEF JobPoints, WrittenPoints
  <2>2. PointFits(q, "complete") /\ "complete" \in PlainPoints
    BY <1>2, <2>1 DEF PointFits, PlainPoints, Points
  <2> QED BY <1>3, <1>5, <2>2, PlainKeeps DEF Continue
<1>6. CASE Continue(c, then) /\ then = "state"
  <2>1. PointFits(q, "state") /\ "state" \in PlainPoints
    BY <1>2 DEF PointFits, JobPoints, WrittenPoints, PlainPoints, Points
  <2> QED BY <1>3, <1>6, <2>1, PlainKeeps DEF Continue
<1>7. CASE Continue(c, then) /\ then = "close" /\ (~Quiet \/ Left = {})
  <2>1. session # "recording" /\ Drained /\ Covered /\ session' # "recording" /\ Drained' /\ Covered'
    <3>1. q.pc = "topics" /\ Fit(q)
      BY <1>7, AtPoint
    <3> QED BY <1>3, <3>1, AtPointNext DEF Fit, Closing, Draining, Finishing
  <2>2. AllGrouped'
    <3>1. CASE ~Quiet
      BY <1>1, <1>7, <3>1 DEF AllGrouped
    <3>2. CASE Left = {}
      BY <1>2, <1>3, <2>1, <3>2, NothingLeft, FactsLast
    <3> QED BY <1>7, <3>1, <3>2
  <2>3. PointFits(q, "close") /\ "close" \in PlainPoints
    BY <1>2, <2>1, <2>2 DEF PointFits, JobPoints, WrittenPoints, PlainPoints, Points
  <2> QED BY <1>3, <1>7, <2>3, PlainKeeps DEF Continue
<1>8. ASSUME then = "close", Quiet, NEW T \in Windows, NEW full \in BOOLEAN, IsWindow(T, full),
             job[Topic(T, force, full)].status \notin {"absent", "failed"}
      PROVE  FALSE
  <2> DEFINE j == Topic(T, force, full)
  <2>1. force
    BY <1>8
  <2>2. j \in TopicJobs /\ j.of = T
    BY <2>1 DEF Topic, TopicJobs
  <2>3. j \in Jobs
    BY <2>2, JobsOfThisKind
  <2>4. job[j].status \notin Open /\ job[j] \in JobRow
    BY <1>2, <1>8, <2>2, <2>3 DEF Quiet, RowsTyped
  <2>5. job[j].status = "completed"
    BY <1>8, <2>4 DEF JobRow, Open, Settled
  <2> QED BY <1>2, <1>8, <2>2, <2>5, WindowIsNew
<1>9. CASE (~Quiet \/ Left = {}) /\ Continue(c, then)
  BY <1>5, <1>6, <1>7, <1>9
<1>10. ASSUME Quiet, NEW T \in Windows, NEW full \in BOOLEAN, IsWindow(T, full),
              LET j == Topic(T, force, full) IN
              IF (force \/ full) /\ job[j].status \in {"absent", "failed"}
                THEN /\ call' = [call EXCEPT
                          ![c].pc = IF job[j].status = "absent" THEN "insert" ELSE "requeue",
                          ![c].next = j, ![c].then = then]
                     /\ UNCHANGED <<worker, stop>>
                ELSE Continue(c, then)
       PROVE  Kept
  <2> DEFINE j == Topic(T, force, full)
             pc == IF job[j].status = "absent" THEN "insert" ELSE "requeue"
  <2>1. CASE (force \/ full) /\ job[j].status \in {"absent", "failed"}
    <3>1. call' = [call EXCEPT ![c].pc = pc, ![c].next = j, ![c].then = then]
      BY <1>10, <2>1
    <3>2. pc \in {"insert", "requeue"}
      OBVIOUS
    <3> HIDE DEF pc
    <3> QED BY <1>4, <2>1, <3>1, <3>2
  <2>2. CASE ~((force \/ full) /\ job[j].status \in {"absent", "failed"})
    <3>1. Continue(c, then)
      BY <1>10, <2>2
    <3>2. then # "close"
      BY <1>8, <1>10, <2>2
    <3> QED BY <1>5, <1>6, <3>1, <3>2
  <2> QED BY <2>1, <2>2
<1> QED BY <1>9, <1>10 DEF EnqueuePending

(* Back from queueing a window: the request goes on to what it came from.   *)
LEMMA ReturningKeeps ==
  ASSUME JobsInvariant, NEW c \in Calls, Queueing(call[c]),
         \/ TopicQueued(c)
         \/ ComeBack(c, call[c].then) /\ (call[c].then = "close" => AllGrouped'),
         RowsFit', Lasting, RowStep
  PROVE  Kept
<1> DEFINE q == call[c]
<1>1. /\ q \in Request /\ Shaped(q) /\ FitNext(q) /\ ~q.forced
      /\ q.then \in {"close", "complete", "state"}
  BY AtPoint, StillFits DEF Shaped, Queueing, Request
<1>2. CASE Reply(c)
  BY <1>2, EndsKeep
<1>3. CASE ComeBack(c, "complete") /\ q.then = "complete"
  <2>1. Checking(q) /\ Written(q) /\ OnJob(q)
    BY <1>3 DEF Checking, Written, OnJob
  <2>2. /\ q.job \in Jobs /\ q.worker \in Workers /\ q.attempt # 0
        /\ q.event \in EventsOf(q.job) /\ q.job.kind = "translate"
        /\ emitted'[q.event] = Content(q)
    BY <1>1, <2>1 DEF Shaped, FitNext
  <2>3. PointFits(q, "complete") /\ "complete" \in PlainPoints
    BY <1>1, <2>2 DEF PointFits, PlainPoints, Points
  <2> QED BY <1>3, <2>3, PlainKeeps
<1>4. CASE ComeBack(c, "state")
  <2>1. PointFits(q, "state") /\ "state" \in PlainPoints
    BY <1>1 DEF PointFits, JobPoints, WrittenPoints, PlainPoints, Points
  <2> QED BY <1>4, <2>1, PlainKeeps
<1>5. CASE ComeBack(c, "close") /\ q.then = "close" /\ AllGrouped'
  <2>1. session' # "recording" /\ Drained' /\ Covered'
    BY <1>1, <1>5 DEF FitNext, Finishing, Draining, Closing
  <2>2. PointFits(q, "close") /\ "close" \in PlainPoints
    BY <1>1, <1>5, <2>1 DEF PointFits, JobPoints, WrittenPoints, PlainPoints, Points
  <2> QED BY <1>5, <2>2, PlainKeeps
<1> QED BY <1>1, <1>2, <1>3, <1>4, <1>5 DEF TopicQueued

LEMMA InsertTopicKeeps ==
  ASSUME JobsInvariant, NEW c \in Calls, InsertTopic(c)
  PROVE  Kept
<1> DEFINE q == call[c]
<1>1. /\ q.pc = "insert" /\ Queueing(q) /\ job' = Enqueued(q.next) /\ TopicQueued(c)
      /\ UNCHANGED <<session, emitted, segments, paragraphs, history>>
  BY DEF InsertTopic, At, Queueing
<1>2. RowsFit /\ q.next \in TopicJobs
  BY <1>1, AtPoint DEF Shaped
<1>3. worker' \in [Workers -> Lane \cup {Free}] /\ stop' \in Stops
  BY <1>1, LanesAfter DEF TopicQueued, ComeBack
<1>4. RowsFit' /\ Lasting /\ RowStep
  BY <1>1, <1>2, <1>3, SameLog, JobsOfThisKind, Enqueuing
<1> QED BY <1>1, <1>4, ReturningKeeps

LEMMA RequeueTopicKeeps ==
  ASSUME JobsInvariant, NEW c \in Calls, RequeueTopic(c)
  PROVE  Kept
<1> DEFINE q == call[c]
           j == q.next
<1>1. /\ q.pc = "requeue" /\ Queueing(q)
      /\ UNCHANGED <<session, emitted, segments, paragraphs, late>>
  BY DEF RequeueTopic, At, Queueing
<1>2. RowsFit /\ RowsTyped /\ Fit(q) /\ j \in TopicJobs /\ j \in Jobs /\ j.kind = "topic"
      /\ outrun \in BOOLEAN /\ job \in [Jobs -> JobRow]
  BY <1>1, AtPoint, JobsOfThisKind DEF Shaped, RowsTyped
<1>3. CASE /\ job[j].status = "failed" /\ job[j].transient
           /\ job' = [job EXCEPT ![j] = [Absent EXCEPT !.status = "queued"]]
           /\ TopicQueued(c) /\ UNCHANGED outrun
  <2> DEFINE r == [Absent EXCEPT !.status = "queued"]
  <2>1. /\ r \in JobRow /\ r.status = "queued" /\ r.owner = None /\ ~r.overdue /\ ~r.transient
    BY AbsentTyped DEF JobRow, Open
  <2>2. job' = [job EXCEPT ![j] = r]
    BY <1>3
  <2> HIDE DEF r
  <2>3. FitRow(j, r) /\ MayChange(j, r)
    BY <1>2, <1>3, <2>1 DEF FitRow, WellFormed, MayChange, Settled
  <2>4. worker' \in [Workers -> Lane \cup {Free}] /\ stop' \in Stops
    BY <1>3, LanesAfter DEF TopicQueued, ComeBack
  <2>5. LogStays
    BY <1>1, <1>2, <1>3, <2>4 DEF LogStays, RowsTyped
  <2>6. RowsFit' /\ Lasting /\ RowStep
    BY <1>2, <2>2, <2>3, <2>5, OneRowChanges
  <2> QED BY <1>1, <1>3, <2>6, ReturningKeeps
<1>4. CASE /\ ~(job[j].status = "failed" /\ job[j].transient)
           /\ ComeBack(c, q.then) /\ UNCHANGED job
           /\ outrun' = (outrun \/ (q.then = "close" /\ job[j].status # "failed"))
  <2>1. RowsFit' /\ Lasting /\ RowStep
    BY <1>1, <1>2, <1>4, QuietStep DEF ComeBack
  <2>2. ASSUME q.then = "close"
        PROVE  AllGrouped'
    <3>1. CASE job[j].status # "failed"
      BY <1>4, <2>2, <3>1 DEF AllGrouped
    <3>2. CASE job[j].status = "failed"
      <4>1. Stuck(j)
        BY <1>4, <3>2 DEF Stuck
      <4>2. AllGrouped
        BY <1>2, <4>1 DEF AllGrouped
      <4>3. session # "recording" /\ Drained
        BY <1>1, <1>2, <2>2 DEF Fit, Closing, Draining, Finishing
      <4> QED BY <2>1, <4>2, <4>3, FactsLast
    <3> QED BY <3>1, <3>2
  <2> QED BY <1>1, <1>4, <2>1, <2>2, ReturningKeeps
<1> QED BY <1>3, <1>4 DEF RequeueTopic

LEMMA TopicsKeep ==
  ASSUME JobsInvariant, NEW c \in Calls, CheckTopics(c) \/ FollowUp(c) \/ FinishTopics(c)
  PROVE  Kept
<1>1. CASE CheckTopics(c)
  BY <1>1, PendingKeeps DEF CheckTopics, At
<1>2. CASE FollowUp(c)
  BY <1>2, PendingKeeps DEF FollowUp, At
<1>3. CASE FinishTopics(c)
  BY <1>3, PendingKeeps DEF FinishTopics, At
<1> QED BY <1>1, <1>2, <1>3

LEMMA FinishKeeps ==
  ASSUME JobsInvariant, NEW c \in Calls, FinishTail(c) \/ FinishClose(c)
  PROVE  Kept
<1> DEFINE q == call[c]
<1>0. RowsFit /\ RowsTyped /\ Fit(q) /\ Shaped(q) /\ outrun \in BOOLEAN
  BY AtPoint DEF RowsTyped
<1>1. CASE FinishTail(c)
  <2>1. /\ q.pc = "tail" /\ session # "recording" /\ Drained /\ ~q.forced
        /\ UNCHANGED <<session, job, emitted, segments, paragraphs, worker, stop, late, outrun>>
    BY <1>0, <1>1, AtPoint
    DEF FinishTail, At, Continue, Fit, Finishing, Draining, PlainPoints, Points, history
  <2>2. RowsFit' /\ Lasting /\ RowStep
    BY <1>0, <2>1, QuietStep
  <2>3. CASE Pending = {} /\ Goto(c, "topics")
    <3>1. Covered
      BY <1>0, <2>3 DEF Covered, Pending, RowsFit, AsrRecorded
    <3>2. Covered' /\ Drained' /\ session' # "recording"
      BY <2>1, <2>2, <3>1, FactsLast
    <3>3. PointFits(q, "topics") /\ "topics" \in PlainPoints
      BY <2>1, <3>2 DEF PointFits, JobPoints, WrittenPoints, PlainPoints, Points
    <3> QED BY <2>2, <2>3, <3>3, PlainKeeps
  <2>4. CASE /\ Pending # {}
             /\ call' = [call EXCEPT ![c].pc = "emit", ![c].group = Pending, ![c].forced = TRUE]
    BY <1>0, <2>2, <2>4, TakingKeeps DEF Shaped
  <2> QED BY <1>1, <2>3, <2>4 DEF FinishTail, Continue
<1>2. CASE FinishClose(c)
  <2>1. /\ q.pc = "close"
        /\ UNCHANGED <<job, emitted, segments, paragraphs, late, outrun>>
        /\ Reply(c) \/ (ServerError(c) /\ UNCHANGED session)
        /\ session' \in Closed \cup {session}
    BY <1>2 DEF FinishClose, At, Closed, history
  <2>2. session # "recording" /\ Drained /\ Covered /\ AllGrouped
    BY <1>0, <2>1 DEF Fit, Finishing, Draining, Closing
  <2>3. worker' \in [Workers -> Lane \cup {Free}] /\ stop' \in Stops
    BY <2>1, LanesAfter
  <2>4. RowsTyped'
    BY <1>0, <2>1, <2>3 DEF RowsTyped
  <2>5. \A s \in Segments : Spoken(s)' <=> Spoken(s)
    BY <2>1 DEF Spoken
  <2>6. Lasting /\ RowStep
    BY <2>1, <2>5 DEF Lasting, RowStep, Closed, Shown, Stuck
  <2>7. RowsWellFormed' /\ ResultMatchesEvent' /\ AsrRecorded'
    BY <1>0, <2>1, <2>5 DEF RowsFit, RowsWellFormed, ResultMatchesEvent, AsrRecorded
  <2>8. Drained' /\ Covered' /\ AllGrouped'
    BY <2>2, <2>6, FactsLast
  <2>9. ClosedIsRecognised'
    BY <2>8 DEF ClosedIsRecognised, Drained, Covered
  <2>10. CompletedIsGrouped'
    BY <2>8 DEF CompletedIsGrouped, AllGrouped
  <2>11. RowsFit'
    BY <2>4, <2>7, <2>9, <2>10 DEF RowsFit
  <2> QED BY <2>1, <2>6, <2>11, EndsKeep
<1> QED BY <1>1, <1>2

-----------------------------------------------------------------------------
LEMMA JobsInit == Init => JobsInvariant
<1> SUFFICES ASSUME Init PROVE JobsInvariant
  OBVIOUS
<1>1. RowsTyped
  <2>1. job \in [Jobs -> JobRow] /\ emitted \in [EventKeys -> Nat]
    BY AbsentTyped DEF Init
  <2>2. paragraphs \in Seq(Paragraphs) /\ segments \subseteq Segments /\ late \subseteq Segments
    BY DEF Init
  <2>3. worker \in [Workers -> Lane \cup {Free}]
    BY DEF Init
  <2> QED BY <2>1, <2>2, <2>3 DEF Init, RowsTyped, Stops
<1>2. \A j \in Jobs : job[j] = Absent
  BY DEF Init
<1>3. \A s \in Segments : ~Spoken(s)
  BY <1>2, AbsentTyped, JobsOfThisKind DEF Spoken
<1>4. session = "recording"
  BY DEF Init
<1>5. RowsFit
  BY <1>1, <1>2, <1>3, <1>4, AbsentTyped
  DEF RowsFit, RowsWellFormed, ResultMatchesEvent, AsrRecorded, ClosedIsRecognised,
      CompletedIsGrouped, Closed
<1>6. CallsFit
  BY IdleShaped DEF Init, CallsFit
<1> QED BY <1>5, <1>6 DEF JobsInvariant

LEMMA JobsStep ==
  ASSUME JobsInvariant, [Next]_vars
  PROVE  Kept
<1>1. ASSUME NEW c \in Calls, Step(c)
      PROVE  Kept
  BY <1>1, ReadersKeep, ApplyKeeps, SegmentKeeps, ParagraphKeeps, EmitKeeps, EnqueueKeeps,
     CompleteStoreKeeps, FailStoreKeeps, TopicsKeep, InsertTopicKeeps, RequeueTopicKeeps,
     FinishKeeps DEF Step
<1> QED BY <1>1, WorkersKeep, StopsKeep DEF Next

LEMMA JobsInvariantHolds == Spec => []JobsInvariant
<1>1. Init => JobsInvariant
  BY JobsInit
<1>2. JobsInvariant /\ [Next]_vars => JobsInvariant'
  BY JobsStep DEF Kept
<1> QED BY <1>1, <1>2, PTL DEF Spec

(* The result kept with a job is the one its event shows, also when one     *)
(* attempt hears a text and another silence, each under its own key         *)
(* (apply_asr_result, complete_model_job).                                  *)
THEOREM ResultsMatchEvents == Spec => []ResultMatchesEvent
<1>1. JobsInvariant => ResultMatchesEvent
  BY DEF JobsInvariant, RowsFit
<1> QED BY <1>1, JobsInvariantHolds, PTL

(* A session closes only when every window queued while it recorded has     *)
(* been recognised or given up, and every such window with speech is part   *)
(* of a paragraph (finish_session_if_drained), whatever the background      *)
(* assembler and the recovery queue meanwhile.                              *)
THEOREM ClosedSessionsAreRecognised == Spec => []ClosedIsRecognised
<1>1. JobsInvariant => ClosedIsRecognised
  BY DEF JobsInvariant, RowsFit
<1> QED BY <1>1, JobsInvariantHolds, PTL

(* A session completes with all that was said in its recording in a content *)
(* group, however many windows that takes, unless a topic window failed for *)
(* good or the closing request was outrun by another that queued one        *)
(* (finish_session_if_drained, topics::enqueue_pending).                    *)
THEOREM CompletedSessionsAreGrouped == Spec => []CompletedIsGrouped
<1>1. JobsInvariant => CompletedIsGrouped
  BY DEF JobsInvariant, RowsFit
<1> QED BY <1>1, JobsInvariantHolds, PTL

(* A job that has settled stays as it is, whoever reports and however late  *)
(* (the WHERE clauses of complete_model_job and retry_or_fail_model_job);   *)
(* only a topic window that failed for a passing reason is queued anew      *)
(* (requeue_failed_topic_by_key).                                           *)
THEOREM SettledJobsStay == Spec => SettledStays
<1>1. JobsInvariant /\ [Next]_vars => RowStep
  BY JobsStep DEF Kept
<1>2. JobsInvariant /\ [Next]_vars =>
        [\A j \in Jobs : job[j].status \in Settled =>
           \/ job'[j] = job[j]
           \/ /\ j.kind = "topic" /\ job[j].status = "failed" /\ job[j].transient
              /\ job'[j].status = "queued"]_vars
  BY <1>1 DEF RowStep
<1> QED BY <1>2, JobsInvariantHolds, PTL DEF Spec, SettledStays

(* The types of the queue: a row has an owner exactly while it is leased.   *)
THEOREM JobsTypeCorrect == Spec => []JobsTypeOK
<1>1. JobsInvariant => JobsTypeOK
  <2> SUFFICES ASSUME JobsInvariant PROVE JobsTypeOK
    OBVIOUS
  <2>1. RowsTyped /\ \A j \in Jobs : job[j] \in JobRow /\ WellFormed(j, job[j])
    BY DEF JobsInvariant, RowsFit, RowsTyped, RowsWellFormed
  <2>2. \A w \in Workers : worker[w].submitted => worker[w].job \in Jobs
    BY <2>1 DEF RowsTyped, Lane, Free
  <2> QED BY <2>1, <2>2 DEF JobsTypeOK, RowsTyped, JobRow, WellFormed, Stops
<1> QED BY <1>1, JobsInvariantHolds, PTL

-----------------------------------------------------------------------------
(* The summaries (Summaries): what the page shows is of its run, a result  *)
(* that is dropped has a successor, and what is done stays done.           *)
SummaryJob ==
  [status : {"none", "queued", "leased", "completed", "failed"},
   attempts : Nat, revised : BOOLEAN]
CallerPoints == {"idle", "carded", "insert", "announce", "done", "refused"}
SummarizerPoints ==
  {"idle", "working", "apply", "superseded", "enqueue", "complete", "refused", "report"}

SummaryTypes ==
  /\ SummariesTypeOK
  /\ jobs \in [Keys -> SummaryJob]
  /\ callers \in [Callers -> [at : CallerPoints, key : Keys \cup {NoKey}]]
  /\ \A c \in Callers : callers[c].at \in {"insert", "announce"} => callers[c].key \in Keys
  /\ summarizer \in [at : SummarizerPoints, key : Keys \cup {NoKey}]
  /\ summarizer.at # "idle" => summarizer.key \in Keys
  /\ \A g \in open : cards[g] < MaxCards

(* The snapshot k has been taken; l was taken of the same run after k.     *)
Taken(k) == k.run <= run /\ \A g \in Groups : k.cards[g] <= cards[g]
Later(k, l) == l.run = k.run /\ l # k /\ \A g \in Groups : k.cards[g] <= l.cards[g]
Asked(k) == jobs[k].status # "none"
Replaced(k) == k.run < run \/ \E l \in Keys : Later(k, l) /\ Asked(l)

JobsTaken == \A k \in Keys : Asked(k) => Taken(k)
CallersTaken == \A c \in Callers :
  /\ callers[c].at \in {"insert", "announce"} => Taken(callers[c].key)
  /\ callers[c].at = "announce" => Asked(callers[c].key)

(* What the worker's request knows of its job: it is leased to the worker  *)
(* until its end is stored, and a request that drops its result hangs on   *)
(* the caller that queues the successor.                                   *)
WorkerHolds == summarizer.at # "idle" =>
  /\ Asked(summarizer.key)
  /\ summarizer.at # "report" => jobs[summarizer.key].status = "leased"
WorkerDrops ==
  LET k == summarizer.key
      heir == callers["superseded"] IN
  /\ summarizer.at \in {"superseded", "enqueue"} => k # SnapshotKey
  /\ summarizer.at = "enqueue" =>
       /\ heir.at \in {"insert", "announce"} => Later(k, heir.key)
       /\ heir.at = "done" => Replaced(k)
  /\ summarizer.at = "complete" => k \in created \/ Replaced(k)
DoneIsReplaced ==
  \A k \in Keys : jobs[k].status = "completed" => k \in created \/ Replaced(k)

SummaryInvariant ==
  /\ SummaryTypes
  /\ JobsTaken
  /\ CallersTaken
  /\ WorkerHolds
  /\ WorkerDrops
  /\ DoneIsReplaced
  /\ ShownIsOfThisRun

LEMMA SnapshotIsKey ==
  ASSUME SummaryTypes
  PROVE  /\ SnapshotKey \in Keys
         /\ SnapshotKey.run = run /\ SnapshotKey.cards = cards
         /\ run \in Nat /\ cards \in [Groups -> Nat]
<1>1. run \in Runs /\ cards \in [Groups -> 0 .. MaxCards]
  BY DEF SummaryTypes, SummariesTypeOK
<1> QED BY <1>1, SummariesAssumption DEF SnapshotKey, Keys, Runs

LEMMA KeysAreTyped ==
  ASSUME NEW k \in Keys
  PROVE  k.run \in Nat /\ k.cards \in [Groups -> Nat]
  BY SummariesAssumption DEF Keys, Runs

LEMMA SmallerOfTwo ==
  ASSUME NEW a \in Nat, NEW b \in Nat
  PROVE  Min({a, b}) \in Nat
<1>1. \E x \in {a, b} : \A y \in {a, b} : x =< y
  OBVIOUS
<1> QED BY <1>1 DEF Min

(* What a store of one status does to the jobs.                            *)
LEMMA JobsMoved ==
  ASSUME NEW old \in [Keys -> SummaryJob], NEW k \in Keys, NEW j \in SummaryJob,
         NEW new, new = [old EXCEPT ![k] = j]
  PROVE  /\ new \in [Keys -> SummaryJob] /\ new[k] = j
         /\ \A l \in Keys \ {k} : new[l] = old[l]
  OBVIOUS

LEMMA CallersMoved ==
  ASSUME SummaryTypes, NEW c \in Callers, NEW r \in [at : CallerPoints, key : Keys \cup {NoKey}],
         r.at \in {"insert", "announce"} => r.key \in Keys,
         callers' = [callers EXCEPT ![c] = r]
  PROVE  /\ callers' \in [Callers -> [at : CallerPoints, key : Keys \cup {NoKey}]]
         /\ callers'[c] = r
         /\ \A d \in Callers \ {c} : callers'[d] = callers[d]
         /\ \A d \in Callers : callers'[d].at \in {"insert", "announce"} => callers'[d].key \in Keys
  BY DEF SummaryTypes

LEMMA RestingTyped ==
  /\ Resting \in [at : CallerPoints, key : Keys \cup {NoKey}]
  /\ Resting \in [at : SummarizerPoints, key : Keys \cup {NoKey}]
  /\ Resting.at = "idle"
  BY DEF Resting, CallerPoints, SummarizerPoints

(* A snapshot once taken stays taken, and a successor stays one, while     *)
(* cards and recording runs are only added and no job is forgotten.        *)
Onward ==
  /\ run' \in Nat /\ run <= run'
  /\ cards' \in [Groups -> Nat] /\ \A g \in Groups : cards[g] <= cards'[g]
  /\ \A k \in Keys : Asked(k) => Asked(k)'

LEMMA TakenStays ==
  ASSUME SummaryTypes, Onward, NEW k \in Keys
  PROVE  (Taken(k) => Taken(k)') /\ (Replaced(k) => Replaced(k)')
<1>1. PICK r \in Nat, s \in Nat : r = run /\ s = run' /\ r <= s
  BY SnapshotIsKey DEF Onward
<1>2. PICK a \in [Groups -> Nat], b \in [Groups -> Nat] :
        a = cards /\ b = cards' /\ \A g \in Groups : a[g] <= b[g]
  BY SnapshotIsKey DEF Onward
<1>3. k.run \in Nat /\ k.cards \in [Groups -> Nat]
  BY KeysAreTyped
<1>4. Taken(k) => Taken(k)'
  <2> SUFFICES ASSUME Taken(k) PROVE k.run <= s /\ \A g \in Groups : k.cards[g] <= b[g]
    BY <1>1, <1>2 DEF Taken
  <2>1. k.run <= r /\ \A g \in Groups : k.cards[g] <= a[g]
    BY <1>1, <1>2 DEF Taken
  <2> QED BY <1>1, <1>2, <1>3, <2>1
<1>5. k.run < r => k.run < s
  BY <1>1, <1>3
<1>6. Replaced(k) => Replaced(k)'
  BY <1>1, <1>5 DEF Replaced, Later, Onward
<1> QED BY <1>4, <1>6

(* A key that is not the snapshot does not become it: a run and a card     *)
(* never go away.                                                          *)
LEMMA DroppedStays ==
  ASSUME SummaryTypes, Onward, NEW k \in Keys, Taken(k), k # SnapshotKey
  PROVE  k # SnapshotKey'
<1>1. PICK r \in Nat, s \in Nat : r = run /\ s = run' /\ r <= s
  BY SnapshotIsKey DEF Onward
<1>2. PICK a \in [Groups -> Nat], b \in [Groups -> Nat] :
        a = cards /\ b = cards' /\ \A g \in Groups : a[g] <= b[g]
  BY SnapshotIsKey DEF Onward
<1>3. k.run \in Nat /\ k.cards \in [Groups -> Nat]
  BY KeysAreTyped
<1>4. k.run <= r /\ \A g \in Groups : k.cards[g] <= a[g]
  BY <1>1, <1>2 DEF Taken
<1>5. SUFFICES ASSUME k.run = s, k.cards = b PROVE FALSE
  BY <1>1, <1>2 DEF SnapshotKey
<1>6. k.run = r
  BY <1>1, <1>3, <1>4, <1>5
<1>7. \A g \in Groups : a[g] = b[g]
  <2> TAKE g \in Groups
  <2>1. b[g] <= a[g] /\ a[g] <= b[g] /\ a[g] \in Nat /\ b[g] \in Nat
    BY <1>2, <1>4, <1>5
  <2> QED BY <2>1
<1>8. k.cards = a
  BY <1>2, <1>5, <1>7
<1>9. k = SnapshotKey
  BY <1>1, <1>2, <1>6, <1>8 DEF SnapshotKey, Keys
<1> QED BY <1>9

(* The successor a dropped result asks for.                                *)
LEMMA SnapshotIsLater ==
  ASSUME SummaryTypes, NEW k \in Keys, Taken(k), k # SnapshotKey, k.run = run
  PROVE  Later(k, SnapshotKey)
  BY SnapshotIsKey DEF Taken, Later

(* What each part of the invariant needs of a step.                        *)
LEMMA JobsStayTaken ==
  ASSUME SummaryTypes, JobsTaken, Onward, \A k \in Keys : Asked(k)' => Asked(k) \/ Taken(k)'
  PROVE  JobsTaken'
  BY TakenStays DEF JobsTaken

LEMMA CallersStayTaken ==
  ASSUME SummaryTypes, CallersTaken, Onward,
         \A c \in Callers :
           \/ callers'[c] = callers[c]
           \/ callers'[c].at \notin {"insert", "announce"}
           \/ /\ Taken(callers[c].key)'
              /\ callers'[c].at = "announce" => Asked(callers[c].key)'
  PROVE  CallersTaken'
<1> SUFFICES ASSUME NEW c \in Callers, callers'[c].at \in {"insert", "announce"}
             PROVE  /\ Taken(callers[c].key)'
                    /\ callers'[c].at = "announce" => Asked(callers[c].key)'
  BY DEF CallersTaken
<1>1. CASE callers'[c] = callers[c]
  <2>1. PICK k \in Keys : k = callers[c].key
    BY <1>1 DEF SummaryTypes
  <2>2. Taken(k) /\ (callers'[c].at = "announce" => Asked(k))
    BY <1>1, <2>1 DEF CallersTaken
  <2>3. Taken(k)' /\ (callers'[c].at = "announce" => Asked(k)')
    BY <2>2, TakenStays DEF Onward
  <2> QED BY <1>1, <2>1, <2>3
<1> QED BY <1>1

LEMMA DoneStaysReplaced ==
  ASSUME SummaryTypes, DoneIsReplaced, Onward, created \subseteq created',
         \A k \in Keys : jobs'[k].status = "completed" =>
           jobs[k].status = "completed" \/ k \in created' \/ Replaced(k)'
  PROVE  DoneIsReplaced'
  BY TakenStays DEF DoneIsReplaced

LEMMA ShownStays ==
  ASSUME SummaryTypes, ShownIsOfThisRun, Onward,
         shown' # "idle" =>
           \/ shown # "idle" /\ run' = run
           \/ \E k \in Keys : k.run = run' /\ Asked(k)'
  PROVE  ShownIsOfThisRun'
<1> SUFFICES ASSUME shown' # "idle" PROVE \E k \in Keys : k.run = run' /\ Asked(k)'
  BY DEF ShownIsOfThisRun, Asked
<1>1. CASE shown # "idle" /\ run' = run
  <2>1. PICK k \in Keys : k.run = run /\ Asked(k)
    BY <1>1 DEF ShownIsOfThisRun, Asked
  <2>2. k.run = run' /\ Asked(k)'
    BY <1>1, <2>1 DEF Onward
  <2> QED BY <2>2
<1> QED BY <1>1

LEMMA WorkerStays ==
  ASSUME SummaryTypes, JobsTaken, WorkerHolds, WorkerDrops, Onward, created \subseteq created',
         summarizer' = summarizer, callers'["superseded"] = callers["superseded"],
         \A k \in Keys : jobs[k].status = "leased" /\ k = summarizer.key => jobs'[k].status = "leased"
  PROVE  WorkerHolds' /\ WorkerDrops'
<1>1. CASE summarizer.at = "idle"
  BY <1>1 DEF WorkerHolds, WorkerDrops
<1>2. CASE summarizer.at # "idle"
  <2>1. PICK k \in Keys : k = summarizer.key
    BY <1>2 DEF SummaryTypes
  <2>2. Asked(k) /\ Taken(k)
    BY <1>2, <2>1 DEF WorkerHolds, JobsTaken
  <2>3. Asked(k)' /\ (Replaced(k) => Replaced(k)') /\ (k # SnapshotKey => k # SnapshotKey')
    BY <2>2, TakenStays, DroppedStays DEF Onward
  <2>4. WorkerHolds'
    BY <1>2, <2>1, <2>3 DEF WorkerHolds
  <2>5. WorkerDrops'
    <3> DEFINE heir == callers["superseded"]
    <3>1. /\ summarizer.at \in {"superseded", "enqueue"} => k # SnapshotKey
          /\ summarizer.at = "enqueue" =>
               /\ heir.at \in {"insert", "announce"} => Later(k, heir.key)
               /\ heir.at = "done" => Replaced(k)
          /\ summarizer.at = "complete" => k \in created \/ Replaced(k)
      BY <2>1 DEF WorkerDrops
    <3>2. /\ summarizer.at \in {"superseded", "enqueue"} => k # SnapshotKey'
          /\ summarizer.at = "enqueue" =>
               /\ heir.at \in {"insert", "announce"} => Later(k, heir.key)
               /\ heir.at = "done" => Replaced(k)'
          /\ summarizer.at = "complete" => k \in created' \/ Replaced(k)'
      BY <2>3, <3>1
    <3> QED BY <2>1, <3>2 DEF WorkerDrops, Later
  <2> QED BY <2>4, <2>5
<1> QED BY <1>1, <1>2

LEMMA NothingAdded ==
  ASSUME SummaryTypes, UNCHANGED <<run, cards, jobs>>
  PROVE  Onward
<1>1. PICK r \in Nat : r = run
  BY SnapshotIsKey
<1>2. PICK a \in [Groups -> Nat] : a = cards
  BY SnapshotIsKey
<1>3. r <= r /\ \A g \in Groups : a[g] <= a[g]
  BY <1>1, <1>2
<1> QED BY <1>1, <1>2, <1>3 DEF Onward, Asked

(* A step of the course or of a caller: the jobs and the worker are left   *)
(* alone, except that the caller of a dropped result goes on.              *)
LEMMA CourseKeeps ==
  ASSUME SummaryInvariant, SummaryTypes', Onward, UNCHANGED <<jobs, created, summarizer>>,
         callers'["superseded"] = callers["superseded"],
         \A c \in Callers :
           \/ callers'[c] = callers[c]
           \/ callers'[c].at \notin {"insert", "announce"}
           \/ /\ Taken(callers[c].key)'
              /\ callers'[c].at = "announce" => Asked(callers[c].key)',
         shown' # "idle" =>
           \/ shown # "idle" /\ run' = run
           \/ \E k \in Keys : k.run = run' /\ Asked(k)'
  PROVE  SummaryInvariant'
<1>1. JobsTaken'
  BY JobsStayTaken DEF SummaryInvariant, Asked
<1>2. CallersTaken'
  BY CallersStayTaken DEF SummaryInvariant
<1>3. DoneIsReplaced'
  BY DoneStaysReplaced DEF SummaryInvariant
<1>4. ShownIsOfThisRun'
  BY ShownStays DEF SummaryInvariant
<1>5. WorkerHolds' /\ WorkerDrops'
  BY WorkerStays DEF SummaryInvariant
<1> QED BY <1>1, <1>2, <1>3, <1>4, <1>5 DEF SummaryInvariant

LEMMA ReadTurns ==
  ASSUME SummaryTypes, NEW c \in Callers, Read(c)
  PROVE  \E r \in [at : CallerPoints, key : Keys \cup {NoKey}] :
           /\ callers' = [callers EXCEPT ![c] = r]
           /\ \/ r.at = "refused" /\ SnapshotKey \in created
              \/ r.at = "insert" /\ r.key = SnapshotKey /\ SnapshotKey \notin created
<1>1. PICK k \in Keys : k = SnapshotKey
  BY SnapshotIsKey
<1>2. CASE k \in created
  <2>1. [at |-> "refused", key |-> NoKey] \in [at : CallerPoints, key : Keys \cup {NoKey}]
    BY DEF CallerPoints
  <2>2. callers' = [callers EXCEPT ![c] = [at |-> "refused", key |-> NoKey]]
    BY <1>1, <1>2 DEF Read, GoTo, SummaryExists
  <2> QED BY <1>1, <1>2, <2>1, <2>2
<1>3. CASE k \notin created
  <2>1. [at |-> "insert", key |-> k] \in [at : CallerPoints, key : Keys \cup {NoKey}]
    BY DEF CallerPoints
  <2>2. callers' = [callers EXCEPT ![c] = [at |-> "insert", key |-> k]]
    BY <1>1, <1>3 DEF Read, GoTo, SummaryExists
  <2> QED BY <1>1, <1>3, <2>1, <2>2
<1> QED BY <1>2, <1>3

LEMMA SnapshotIsTaken == SummaryTypes => Taken(SnapshotKey)
<1> SUFFICES ASSUME SummaryTypes PROVE Taken(SnapshotKey)
  OBVIOUS
<1>1. PICK r \in Nat : r = run /\ SnapshotKey.run = r
  BY SnapshotIsKey
<1>2. PICK a \in [Groups -> Nat] : a = cards /\ SnapshotKey.cards = a
  BY SnapshotIsKey
<1> QED BY <1>1, <1>2 DEF Taken

(* A caller other than that of a dropped result goes on.                   *)
LEMMA CallerTurns ==
  ASSUME SummaryInvariant, UNCHANGED <<run, cards, open, jobs, created, shown, summarizer>>,
         state' \in {"recording", "processing", "completed"},
         NEW c \in Callers \ {"superseded"},
         NEW r \in [at : CallerPoints, key : Keys \cup {NoKey}],
         callers' = [callers EXCEPT ![c] = r],
         r.at \notin {"insert", "announce"} \/ (r.at = "insert" /\ r.key = SnapshotKey)
  PROVE  SummaryInvariant'
<1>1. SummaryTypes /\ "superseded" \in Callers
  BY DEF SummaryInvariant, Callers
<1>2. /\ callers' \in [Callers -> [at : CallerPoints, key : Keys \cup {NoKey}]]
      /\ callers'[c] = r
      /\ \A d \in Callers \ {c} : callers'[d] = callers[d]
      /\ \A d \in Callers : callers'[d].at \in {"insert", "announce"} => callers'[d].key \in Keys
  BY <1>1, CallersMoved, SnapshotIsKey
<1>3. SummaryTypes'
  BY <1>1, <1>2 DEF SummaryTypes, SummariesTypeOK
<1>4. Onward
  BY <1>1, NothingAdded
<1>5. Taken(SnapshotKey)'
  BY <1>1, <1>4, SnapshotIsTaken, SnapshotIsKey, TakenStays DEF SnapshotKey
<1>6. \A d \in Callers :
        \/ callers'[d] = callers[d]
        \/ callers'[d].at \notin {"insert", "announce"}
        \/ /\ Taken(callers[d].key)'
           /\ callers'[d].at = "announce" => Asked(callers[d].key)'
  BY <1>2, <1>5 DEF SnapshotKey
<1>7. callers'["superseded"] = callers["superseded"]
  BY <1>1, <1>2
<1> QED BY <1>3, <1>4, <1>6, <1>7, CourseKeeps

LEMMA ReadKeeps ==
  ASSUME SummaryInvariant, UNCHANGED <<state, run, cards, open, jobs, created, shown, summarizer>>,
         NEW c \in Callers \ {"superseded"}, Read(c)
  PROVE  SummaryInvariant'
<1>1. SummaryTypes /\ state \in {"recording", "processing", "completed"}
  BY DEF SummaryInvariant, SummaryTypes, SummariesTypeOK
<1>2. PICK r \in [at : CallerPoints, key : Keys \cup {NoKey}] :
        /\ callers' = [callers EXCEPT ![c] = r]
        /\ \/ r.at = "refused"
           \/ r.at = "insert" /\ r.key = SnapshotKey
  BY <1>1, ReadTurns
<1> QED BY <1>1, <1>2, CallerTurns

LEMMA RestKeeps ==
  ASSUME SummaryInvariant, UNCHANGED <<run, cards, open, jobs, created, shown, summarizer>>,
         state' \in {"recording", "processing", "completed"},
         NEW c \in Callers \ {"superseded"}, Rest(c)
  PROVE  SummaryInvariant'
  BY CallerTurns, RestingTyped DEF Rest

(* The course.                                                             *)
LEMMA CourseStepKeeps ==
  ASSUME SummaryInvariant, UNCHANGED <<run, cards, jobs, created, shown, callers, summarizer>>,
         state' \in {"recording", "processing", "completed"}, open' \subseteq Groups,
         \A g \in open' : cards[g] < MaxCards
  PROVE  SummaryInvariant'
<1>1. SummaryTypes
  BY DEF SummaryInvariant
<1>2. SummaryTypes'
  BY <1>1 DEF SummaryTypes, SummariesTypeOK
<1>3. Onward
  BY <1>1, NothingAdded
<1> QED BY <1>2, <1>3, CourseKeeps

LEMMA CreateCardKeeps ==
  ASSUME SummaryInvariant, NEW g \in Groups, CreateCard(g)
  PROVE  SummaryInvariant'
<1>1. /\ SummaryTypes /\ "superseded" \in Callers /\ "teaching" \in Callers \ {"superseded"}
      /\ UNCHANGED <<state, run, jobs, created, shown, summarizer>>
  BY DEF SummaryInvariant, Callers, CreateCard, log, budgets
<1>0. PICK n \in Nat : n = MaxCards
  BY SummariesAssumption
<1>2. PICK a \in [Groups -> 0 .. n] :
        a = cards /\ a[g] < n /\ \A h \in open : a[h] < n
  BY <1>0 DEF CreateCard, SummaryInvariant, SummaryTypes, SummariesTypeOK
<1>3. PICK b \in [Groups -> 0 .. n] :
        b = cards' /\ b[g] = a[g] + 1 /\ \A h \in Groups \ {g} : b[h] = a[h]
  <2>1. [a EXCEPT ![g] = @ + 1] \in [Groups -> 0 .. n]
    BY <1>2
  <2> QED BY <1>2, <2>1 DEF CreateCard
<1>4. \A h \in Groups : a[h] <= b[h] /\ b[h] \in Nat
  <2> TAKE h \in Groups
  <2>1. a[h] \in Nat /\ b[h] \in Nat
    BY <1>2, <1>3
  <2>2. a[g] <= a[g] + 1 /\ a[h] <= a[h]
    BY <1>2, <2>1
  <2> QED BY <1>3, <2>1, <2>2
<1>5. PICK r \in Nat : r = run
  BY <1>1, SnapshotIsKey
<1>6. Onward
  BY <1>1, <1>2, <1>3, <1>4, <1>5 DEF Onward, Asked
<1>7. PICK p \in [at : CallerPoints, key : Keys \cup {NoKey}] :
        p.at = "carded" /\ callers' = [callers EXCEPT !["teaching"] = p]
  BY DEF CreateCard, GoTo, CallerPoints
<1>8. /\ callers' \in [Callers -> [at : CallerPoints, key : Keys \cup {NoKey}]]
      /\ callers'["teaching"] = p
      /\ \A d \in Callers \ {"teaching"} : callers'[d] = callers[d]
      /\ \A d \in Callers : callers'[d].at \in {"insert", "announce"} => callers'[d].key \in Keys
  BY <1>1, <1>7, CallersMoved
<1>9. open' = open \ {g} /\ open \subseteq Groups
  BY <1>1 DEF CreateCard, SummaryTypes, SummariesTypeOK
<1>10. \A h \in open' : cards'[h] < MaxCards
  BY <1>0, <1>2, <1>3, <1>9
<1>11. SummaryTypes'
  BY <1>0, <1>1, <1>2, <1>3, <1>8, <1>9, <1>10 DEF SummaryTypes, SummariesTypeOK
<1> QED BY <1>1, <1>6, <1>7, <1>8, <1>11, CourseKeeps

LEMMA ResumeKeeps ==
  ASSUME SummaryInvariant, Resume
  PROVE  SummaryInvariant'
<1>1. /\ SummaryTypes
      /\ UNCHANGED <<cards, open, jobs, created, callers, summarizer>> /\ shown' = "idle"
      /\ state' = "recording"
  BY DEF SummaryInvariant, Resume, log
<1>0. PICK n \in Nat : n = MaxRuns
  BY SummariesAssumption
<1>2. PICK r \in 0 .. n : r = run /\ r < n /\ run' = r + 1
  BY <1>0, <1>1 DEF Resume, SummaryTypes, SummariesTypeOK, Runs
<1>3. r + 1 \in 0 .. n /\ r <= r + 1 /\ r + 1 \in Nat
  BY <1>2
<1>4. PICK a \in [Groups -> Nat] : a = cards /\ \A g \in Groups : a[g] <= a[g]
  <2>1. PICK a \in [Groups -> Nat] : a = cards
    BY <1>1, SnapshotIsKey
  <2> QED BY <2>1
<1>5. Onward
  BY <1>1, <1>2, <1>3, <1>4 DEF Onward, Asked
<1>6. SummaryTypes'
  BY <1>0, <1>1, <1>2, <1>3 DEF SummaryTypes, SummariesTypeOK, Runs
<1> QED BY <1>1, <1>5, <1>6, CourseKeeps

(* The queueing of a summary, by any caller.                               *)
LEMMA InsertKeeps ==
  ASSUME SummaryInvariant, NEW c \in Callers, Insert(c)
  PROVE  SummaryInvariant'
<1>1. /\ SummaryTypes /\ JobsTaken /\ CallersTaken /\ WorkerHolds /\ WorkerDrops
      /\ UNCHANGED <<state, run, cards, open, created, shown, summarizer>>
  BY DEF SummaryInvariant, Insert, course, log, budgets
<1>2. callers[c].at = "insert"
  BY DEF Insert, CallerAt
<1>3. PICK k \in Keys : k = callers[c].key /\ Taken(k)
  BY <1>1, <1>2 DEF SummaryTypes, CallersTaken
<1>4. PICK j \in SummaryJob :
        /\ jobs' = [jobs EXCEPT ![k] = j] /\ j.status # "none"
        /\ jobs[k].status \in {"leased", "completed"} => j = jobs[k]
        /\ j.status = "completed" => jobs[k].status = "completed"
  <2>1. jobs[k] \in SummaryJob
    BY <1>1 DEF SummaryTypes
  <2>2. [NoJob EXCEPT !.status = "queued"] \in SummaryJob
    BY DEF NoJob, SummaryJob
  <2>3. [jobs[k] EXCEPT !.status = "queued", !.attempts = 0] \in SummaryJob
    BY <2>1 DEF SummaryJob
  <2>4. InsertJob(k)
    BY <1>3 DEF Insert
  <2>5. CASE jobs[k].status = "none"
    <3>1. jobs' = [jobs EXCEPT ![k] = [NoJob EXCEPT !.status = "queued"]]
      BY <2>4, <2>5 DEF InsertJob
    <3> QED BY <2>2, <2>5, <3>1 DEF NoJob
  <2>6. CASE jobs[k].status = "failed"
    <3>1. jobs' = [jobs EXCEPT ![k] = [jobs[k] EXCEPT !.status = "queued", !.attempts = 0]]
      BY <1>1, <2>4, <2>6 DEF InsertJob, SummaryTypes
    <3> QED BY <2>1, <2>3, <2>6, <3>1 DEF SummaryJob
  <2>7. CASE jobs[k].status \notin {"none", "failed"}
    <3>1. jobs' = [jobs EXCEPT ![k] = jobs[k]]
      BY <2>4, <2>7 DEF InsertJob
    <3> QED BY <2>1, <2>7, <3>1
  <2> QED BY <2>5, <2>6, <2>7
<1>5. /\ jobs' \in [Keys -> SummaryJob] /\ jobs'[k] = j
      /\ \A l \in Keys \ {k} : jobs'[l] = jobs[l]
  BY <1>1, <1>4, JobsMoved DEF SummaryTypes
<1>6. PICK r \in [at : CallerPoints, key : Keys \cup {NoKey}] :
        /\ callers' = [callers EXCEPT ![c] = r]
        /\ r.at \in {"refused", "done", "announce"} /\ (r.at = "announce" => r.key = k)
  <2>1. \A p \in CallerPoints : [at |-> p, key |-> NoKey] \in [at : CallerPoints, key : Keys \cup {NoKey}]
    OBVIOUS
  <2>2. [at |-> "announce", key |-> k] \in [at : CallerPoints, key : Keys \cup {NoKey}]
    BY DEF CallerPoints
  <2>3. {"refused", "done"} \subseteq CallerPoints
    BY DEF CallerPoints
  <2>4. \/ callers' = [callers EXCEPT ![c] = [at |-> "refused", key |-> NoKey]]
        \/ callers' = [callers EXCEPT ![c] = [at |-> "done", key |-> NoKey]]
        \/ callers' = [callers EXCEPT ![c] = [at |-> "announce", key |-> k]]
    BY <1>3 DEF Insert, GoTo
  <2> QED BY <2>1, <2>2, <2>3, <2>4
<1>7. /\ callers' \in [Callers -> [at : CallerPoints, key : Keys \cup {NoKey}]]
      /\ callers'[c] = r
      /\ \A d \in Callers \ {c} : callers'[d] = callers[d]
      /\ \A d \in Callers : callers'[d].at \in {"insert", "announce"} => callers'[d].key \in Keys
  BY <1>1, <1>6, CallersMoved
<1>8. \A l \in Keys : Asked(l) => Asked(l)'
  BY <1>4, <1>5 DEF Asked
<1>9. Onward
  <2>1. PICK n \in Nat : n = run
    BY <1>1, SnapshotIsKey
  <2>2. PICK a \in [Groups -> Nat] : a = cards
    BY <1>1, SnapshotIsKey
  <2>3. n <= n /\ \A g \in Groups : a[g] <= a[g]
    BY <2>1, <2>2
  <2> QED BY <1>1, <1>8, <2>1, <2>2, <2>3 DEF Onward
<1>10. SummaryTypes'
  <2>1. \A l \in Keys : jobs'[l].status \in {"none", "queued", "leased", "completed", "failed"}
    BY <1>5 DEF SummaryJob
  <2>2. created' \subseteq {l \in Keys : jobs'[l].status # "none"}
    BY <1>1, <1>8 DEF Asked, SummaryTypes, SummariesTypeOK
  <2>3. SummariesTypeOK'
    BY <1>1, <2>1, <2>2 DEF SummaryTypes, SummariesTypeOK
  <2> QED BY <1>1, <1>5, <1>7, <2>3 DEF SummaryTypes
<1>11. Taken(k)' /\ Asked(k)'
  BY <1>1, <1>3, <1>4, <1>5, <1>9, TakenStays DEF Asked
<1>12. JobsTaken'
  BY <1>1, <1>5, <1>9, <1>11, JobsStayTaken DEF Asked
<1>13. CallersTaken'
  <2>1. \A d \in Callers :
          \/ callers'[d] = callers[d]
          \/ callers'[d].at \notin {"insert", "announce"}
          \/ /\ Taken(callers[d].key)'
             /\ callers'[d].at = "announce" => Asked(callers[d].key)'
    BY <1>6, <1>7, <1>11
  <2> QED BY <1>1, <1>9, <2>1, CallersStayTaken
<1>14. DoneIsReplaced'
  BY <1>1, <1>4, <1>5, <1>9, DoneStaysReplaced DEF SummaryInvariant
<1>15. ShownIsOfThisRun'
  BY <1>1, <1>9, ShownStays DEF SummaryInvariant
<1>16. WorkerHolds' /\ WorkerDrops'
  <2>1. \A l \in Keys : jobs[l].status = "leased" => jobs'[l].status = "leased"
    BY <1>4, <1>5
  <2>2. CASE c # "superseded" \/ summarizer.at # "enqueue"
    <3>1. CASE c # "superseded"
      <4>1. callers'["superseded"] = callers["superseded"]
        BY <1>7, <3>1 DEF Callers
      <4> QED BY <1>1, <1>9, <2>1, <4>1, WorkerStays
    <3>2. CASE summarizer.at # "enqueue" /\ summarizer.at # "idle"
      <4>1. PICK w \in Keys : w = summarizer.key
        BY <1>1, <3>2 DEF SummaryTypes
      <4>2. Asked(w) /\ Taken(w) /\ (summarizer.at # "report" => jobs[w].status = "leased")
        BY <1>1, <3>2, <4>1 DEF WorkerHolds, JobsTaken
      <4>3. (Replaced(w) => Replaced(w)') /\ SnapshotKey' = SnapshotKey
        BY <1>1, <1>9, TakenStays DEF SnapshotKey
      <4>4. WorkerHolds'
        BY <1>1, <1>8, <2>1, <3>2, <4>1, <4>2 DEF WorkerHolds
      <4>5. WorkerDrops'
        BY <1>1, <3>2, <4>1, <4>3 DEF WorkerDrops
      <4> QED BY <4>4, <4>5
    <3>3. CASE summarizer.at = "idle"
      BY <1>1, <3>3 DEF WorkerHolds, WorkerDrops
    <3> QED BY <2>2, <3>1, <3>2, <3>3
  <2>3. CASE c = "superseded" /\ summarizer.at = "enqueue"
    <3>1. PICK w \in Keys : w = summarizer.key
      BY <1>1, <2>3 DEF SummaryTypes
    <3>2. Asked(w) /\ jobs[w].status = "leased" /\ w # SnapshotKey /\ Later(w, k)
      BY <1>1, <1>2, <1>3, <2>3, <3>1 DEF WorkerHolds, WorkerDrops
    <3>3. Replaced(w)'
      BY <1>11, <3>2 DEF Replaced, Later
    <3>4. WorkerHolds'
      BY <1>1, <1>8, <2>1, <2>3, <3>1, <3>2 DEF WorkerHolds
    <3>5. WorkerDrops'
      BY <1>1, <1>6, <1>7, <2>3, <3>1, <3>2, <3>3 DEF WorkerDrops, SnapshotKey, Later
    <3> QED BY <3>4, <3>5
  <2> QED BY <2>2, <2>3
<1> QED BY <1>10, <1>12, <1>13, <1>14, <1>15, <1>16 DEF SummaryInvariant

LEMMA AnnounceKeeps ==
  ASSUME SummaryInvariant, NEW c \in Callers, Announce(c)
  PROVE  SummaryInvariant'
<1>1. /\ SummaryTypes /\ JobsTaken /\ CallersTaken /\ WorkerHolds /\ WorkerDrops
      /\ UNCHANGED <<state, run, cards, open, jobs, created, summarizer>>
  BY DEF SummaryInvariant, Announce, course, log, budgets
<1>2. callers[c].at = "announce"
  BY DEF Announce, CallerAt
<1>3. PICK k \in Keys : k = callers[c].key /\ Taken(k) /\ Asked(k)
  BY <1>1, <1>2 DEF SummaryTypes, CallersTaken
<1>4. PICK r \in [at : CallerPoints, key : Keys \cup {NoKey}] :
        callers' = [callers EXCEPT ![c] = r] /\ r.at = "done"
  <2>1. [at |-> "done", key |-> NoKey] \in [at : CallerPoints, key : Keys \cup {NoKey}]
    BY DEF CallerPoints
  <2> QED BY <2>1 DEF Announce, GoTo
<1>5. /\ callers' \in [Callers -> [at : CallerPoints, key : Keys \cup {NoKey}]]
      /\ callers'[c] = r
      /\ \A d \in Callers \ {c} : callers'[d] = callers[d]
      /\ \A d \in Callers : callers'[d].at \in {"insert", "announce"} => callers'[d].key \in Keys
  BY <1>1, <1>4, CallersMoved
<1>6. Onward
  BY <1>1, NothingAdded
<1>7. (shown' = "queued" /\ k.run = run) \/ shown' = shown
  BY <1>3 DEF Announce, Show
<1>8. SummaryTypes'
  BY <1>1, <1>5, <1>7 DEF SummaryTypes, SummariesTypeOK
<1>9. JobsTaken'
  BY <1>1, <1>6, JobsStayTaken DEF Asked
<1>10. CallersTaken'
  BY <1>1, <1>4, <1>5, <1>6, CallersStayTaken
<1>11. DoneIsReplaced'
  BY <1>1, <1>6, DoneStaysReplaced DEF SummaryInvariant
<1>12. ShownIsOfThisRun'
  <2>1. Asked(k)' /\ run' = run
    BY <1>1, <1>3 DEF Asked
  <2> QED BY <1>1, <1>3, <1>6, <1>7, <2>1, ShownStays DEF SummaryInvariant
<1>13. WorkerHolds' /\ WorkerDrops'
  <2>1. CASE c # "superseded"
    <3>1. callers'["superseded"] = callers["superseded"]
      BY <1>5, <2>1 DEF Callers
    <3> QED BY <1>1, <1>6, <3>1, WorkerStays
  <2>2. CASE c = "superseded"
    <3>1. WorkerHolds'
      BY <1>1 DEF WorkerHolds, Asked
    <3>2. summarizer.at = "enqueue" => Replaced(summarizer.key)
      BY <1>1, <1>2, <1>3, <2>2 DEF WorkerDrops, Replaced
    <3>3. Replaced(summarizer.key)' <=> Replaced(summarizer.key)
      BY <1>1 DEF Replaced, Later, Asked
    <3>4. WorkerDrops'
      BY <1>1, <1>4, <1>5, <2>2, <3>2, <3>3 DEF WorkerDrops, SnapshotKey
    <3> QED BY <3>1, <3>4
  <2> QED BY <2>1, <2>2
<1> QED BY <1>8, <1>9, <1>10, <1>11, <1>12, <1>13 DEF SummaryInvariant

(* A step of the worker that leaves the jobs alone.                        *)
LEMMA RequestKeeps ==
  ASSUME SummaryInvariant, UNCHANGED <<state, run, cards, open, jobs>>,
         created \subseteq created', created' \subseteq {k \in Keys : Asked(k)},
         callers' \in [Callers -> [at : CallerPoints, key : Keys \cup {NoKey}]],
         \A c \in Callers :
           \/ callers'[c] = callers[c]
           \/ callers'[c].at \notin {"insert", "announce"}
           \/ callers'[c].at = "insert" /\ callers'[c].key = SnapshotKey,
         shown' = shown \/ (/\ shown' \in {"failed", "completed"}
                            /\ \E k \in Keys : k.run = run /\ Asked(k)),
         summarizer' \in [at : SummarizerPoints, key : Keys \cup {NoKey}],
         summarizer'.at # "idle" => summarizer'.key \in Keys,
         WorkerHolds', WorkerDrops'
  PROVE  SummaryInvariant'
<1>1. SummaryTypes /\ JobsTaken /\ CallersTaken
  BY DEF SummaryInvariant
<1>2. Onward
  BY <1>1, NothingAdded
<1>3. PICK s \in Keys : s = SnapshotKey /\ Taken(s)'
  BY <1>1, <1>2, SnapshotIsKey, SnapshotIsTaken, TakenStays
<1>4. SummaryTypes'
  <2>1. \A c \in Callers : callers'[c].at \in {"insert", "announce"} => callers'[c].key \in Keys
    BY <1>1, <1>3 DEF SummaryTypes
  <2>2. SummariesTypeOK'
    BY <1>1 DEF SummaryTypes, SummariesTypeOK, Asked
  <2> QED BY <1>1, <2>1, <2>2 DEF SummaryTypes
<1>5. JobsTaken'
  BY <1>1, <1>2, JobsStayTaken DEF Asked
<1>6. CallersTaken'
  BY <1>1, <1>2, <1>3, CallersStayTaken
<1>7. DoneIsReplaced'
  BY <1>1, <1>2, DoneStaysReplaced DEF SummaryInvariant
<1>8. ShownIsOfThisRun'
  BY <1>1, <1>2, ShownStays DEF SummaryInvariant, Asked
<1> QED BY <1>4, <1>5, <1>6, <1>7, <1>8 DEF SummaryInvariant

(* The worker's request at a point other than idle.                        *)
LEMMA RequestIs ==
  ASSUME SummaryInvariant, summarizer.at # "idle"
  PROVE  /\ summarizer \in [at : SummarizerPoints, key : Keys]
         /\ Asked(summarizer.key) /\ Taken(summarizer.key)
         /\ summarizer.at # "report" => jobs[summarizer.key].status = "leased"
<1>1. PICK k \in Keys : k = summarizer.key
  BY DEF SummaryInvariant, SummaryTypes
<1>2. Asked(k) /\ Taken(k) /\ (summarizer.at # "report" => jobs[k].status = "leased")
  BY <1>1 DEF SummaryInvariant, WorkerHolds, JobsTaken
<1> QED BY <1>1, <1>2 DEF SummaryInvariant, SummaryTypes

LEMMA MoveIs ==
  ASSUME SummaryInvariant, summarizer.at # "idle", NEW p \in SummarizerPoints, Move(p)
  PROVE  /\ summarizer' \in [at : SummarizerPoints, key : Keys \cup {NoKey}]
         /\ summarizer'.at = p /\ summarizer'.key = summarizer.key /\ summarizer'.key \in Keys
  BY RequestIs DEF Move

LEMMA CheckKeeps == SummaryInvariant /\ CheckSnapshot => SummaryInvariant'
<1> SUFFICES ASSUME SummaryInvariant, CheckSnapshot PROVE SummaryInvariant'
  OBVIOUS
<1>1. /\ summarizer.at = "working"
      /\ UNCHANGED <<state, run, cards, open, jobs, created, shown, callers>>
  BY DEF CheckSnapshot, Working, course, log, budgets
<1>2. PICK p \in {"apply", "superseded"} :
        Move(p) /\ (p = "superseded" => summarizer.key # SnapshotKey)
  BY DEF CheckSnapshot
<1>3. /\ summarizer' \in [at : SummarizerPoints, key : Keys \cup {NoKey}]
      /\ summarizer'.at = p /\ summarizer'.key = summarizer.key /\ summarizer'.key \in Keys
  BY <1>1, <1>2, MoveIs DEF SummarizerPoints
<1>4. WorkerHolds'
  BY <1>1, <1>2, <1>3, RequestIs DEF WorkerHolds, Asked
<1>5. WorkerDrops'
  BY <1>1, <1>2, <1>3 DEF WorkerDrops, SnapshotKey
<1>6. /\ created \subseteq {k \in Keys : Asked(k)}
      /\ callers \in [Callers -> [at : CallerPoints, key : Keys \cup {NoKey}]]
  BY DEF SummaryInvariant, SummaryTypes, SummariesTypeOK, Asked
<1> QED BY <1>1, <1>3, <1>4, <1>5, <1>6, RequestKeeps

LEMMA ApplySummaryKeeps == SummaryInvariant /\ Apply => SummaryInvariant'
<1> SUFFICES ASSUME SummaryInvariant, Apply PROVE SummaryInvariant'
  OBVIOUS
<1>1. /\ summarizer.at = "apply"
      /\ UNCHANGED <<state, run, cards, open, jobs, callers>>
  BY DEF Apply, Working, course, budgets
<1>2. PICK k \in Keys : k = summarizer.key /\ Asked(k)
  BY <1>1, RequestIs
<1>3. PICK p \in {"complete", "refused"} :
        /\ Move(p)
        /\ \/ k \in created /\ created' = created /\ shown' = shown
           \/ created' = created \cup {k} /\ Show(k, "completed")
  BY <1>2 DEF Apply
<1>4. /\ summarizer' \in [at : SummarizerPoints, key : Keys \cup {NoKey}]
      /\ summarizer'.at = p /\ summarizer'.key = k
  BY <1>1, <1>2, <1>3, MoveIs DEF SummarizerPoints
<1>5. WorkerHolds'
  BY <1>1, <1>2, <1>3, <1>4, RequestIs DEF WorkerHolds, Asked
<1>6. WorkerDrops'
  BY <1>3, <1>4 DEF WorkerDrops
<1>7. /\ created \subseteq created' /\ created' \subseteq {l \in Keys : Asked(l)}
      /\ callers \in [Callers -> [at : CallerPoints, key : Keys \cup {NoKey}]]
  BY <1>2, <1>3 DEF SummaryInvariant, SummaryTypes, SummariesTypeOK, Asked
<1>8. shown' = shown \/ (shown' = "completed" /\ k.run = run)
  BY <1>3 DEF Show
<1> QED BY <1>1, <1>2, <1>4, <1>5, <1>6, <1>7, <1>8, RequestKeeps

LEMMA SupersedeKeeps == SummaryInvariant /\ Supersede => SummaryInvariant'
<1> SUFFICES ASSUME SummaryInvariant, Supersede PROVE SummaryInvariant'
  OBVIOUS
<1>1. /\ summarizer.at = "superseded" /\ SummaryTypes /\ "superseded" \in Callers
      /\ UNCHANGED <<state, run, cards, open, jobs, created, shown>>
      /\ callers \in [Callers -> [at : CallerPoints, key : Keys \cup {NoKey}]]
      /\ created \subseteq {l \in Keys : Asked(l)}
  BY DEF SummaryInvariant, SummaryTypes, SummariesTypeOK, Asked, Supersede, Working, course,
         log, budgets, Callers
<1>2. PICK k \in Keys : k = summarizer.key /\ Asked(k) /\ Taken(k) /\ k # SnapshotKey
  BY <1>1, RequestIs DEF SummaryInvariant, WorkerDrops
<1>3. CASE k.run = run /\ SnapshotKey \notin created
  <2>1. Move("enqueue") /\ Read("superseded")
    BY <1>2, <1>3 DEF Supersede, SummaryExists
  <2>2. /\ summarizer' \in [at : SummarizerPoints, key : Keys \cup {NoKey}]
        /\ summarizer'.at = "enqueue" /\ summarizer'.key = k
    BY <1>1, <1>2, <2>1, MoveIs DEF SummarizerPoints
  <2>3. PICK r \in [at : CallerPoints, key : Keys \cup {NoKey}] :
          /\ callers' = [callers EXCEPT !["superseded"] = r]
          /\ r.at = "refused" \/ (r.at = "insert" /\ r.key = SnapshotKey)
    BY <1>1, <2>1, ReadTurns
  <2>4. /\ callers' \in [Callers -> [at : CallerPoints, key : Keys \cup {NoKey}]]
        /\ callers'["superseded"] = r
        /\ \A d \in Callers \ {"superseded"} : callers'[d] = callers[d]
    BY <1>1, <2>3
  <2>5. Later(k, SnapshotKey)
    BY <1>1, <1>2, <1>3, SnapshotIsLater
  <2>6. WorkerHolds'
    BY <1>1, <1>2, <2>2, RequestIs DEF WorkerHolds, Asked
  <2>7. WorkerDrops'
    BY <1>1, <1>2, <2>2, <2>3, <2>4, <2>5 DEF WorkerDrops, SnapshotKey, Later
  <2>8. \A c \in Callers :
          \/ callers'[c] = callers[c]
          \/ callers'[c].at \notin {"insert", "announce"}
          \/ callers'[c].at = "insert" /\ callers'[c].key = SnapshotKey
    BY <2>3, <2>4
  <2> QED BY <1>1, <2>2, <2>4, <2>6, <2>7, <2>8, RequestKeeps
<1>4. CASE ~(k.run = run /\ SnapshotKey \notin created)
  <2>1. Move("complete") /\ UNCHANGED callers
    BY <1>2, <1>4 DEF Supersede, SummaryExists
  <2>2. /\ summarizer' \in [at : SummarizerPoints, key : Keys \cup {NoKey}]
        /\ summarizer'.at = "complete" /\ summarizer'.key = k
    BY <1>1, <1>2, <2>1, MoveIs DEF SummarizerPoints
  <2>3. Replaced(k)
    <3>1. CASE k.run # run
      <4>1. PICK n \in Nat : n = run
        BY <1>1, SnapshotIsKey
      <4>2. k.run < n
        BY <1>2, <3>1, <4>1, KeysAreTyped DEF Taken
      <4> QED BY <4>1, <4>2 DEF Replaced
    <3>2. CASE k.run = run
      <4>1. PICK s \in Keys : s = SnapshotKey /\ Asked(s)
        BY <1>1, <1>4, <3>2
      <4>2. Later(k, s)
        BY <1>1, <1>2, <3>2, <4>1, SnapshotIsLater
      <4> QED BY <4>1, <4>2 DEF Replaced
    <3> QED BY <3>1, <3>2
  <2>4. WorkerHolds'
    BY <1>1, <1>2, <2>2, RequestIs DEF WorkerHolds, Asked
  <2>5. WorkerDrops'
    BY <1>1, <2>2, <2>3 DEF WorkerDrops, Replaced, Later, Asked
  <2> QED BY <1>1, <2>1, <2>2, <2>4, <2>5, RequestKeeps
<1> QED BY <1>3, <1>4

LEMMA SupersededKeeps == SummaryInvariant /\ Superseded => SummaryInvariant'
<1> SUFFICES ASSUME SummaryInvariant, Superseded PROVE SummaryInvariant'
  OBVIOUS
<1>1. /\ summarizer.at = "enqueue" /\ SummaryTypes /\ "superseded" \in Callers
      /\ UNCHANGED <<state, run, cards, open, jobs, created, shown>>
      /\ callers \in [Callers -> [at : CallerPoints, key : Keys \cup {NoKey}]]
      /\ created \subseteq {l \in Keys : Asked(l)}
  BY DEF SummaryInvariant, SummaryTypes, SummariesTypeOK, Asked, Superseded, Working, course,
         log, budgets, Callers
<1>2. PICK k \in Keys : k = summarizer.key
  BY <1>1, RequestIs
<1>3. PICK p \in {"complete", "refused"} : Move(p) /\ (p = "complete" => Replaced(k))
  BY <1>1, <1>2 DEF Superseded, CallerAt, SummaryInvariant, WorkerDrops
<1>4. /\ summarizer' \in [at : SummarizerPoints, key : Keys \cup {NoKey}]
      /\ summarizer'.at = p /\ summarizer'.key = k
  BY <1>1, <1>2, <1>3, MoveIs DEF SummarizerPoints
<1>5. /\ callers' \in [Callers -> [at : CallerPoints, key : Keys \cup {NoKey}]]
      /\ callers'["superseded"].at = "idle"
      /\ \A d \in Callers \ {"superseded"} : callers'[d] = callers[d]
  BY <1>1, RestingTyped DEF Superseded, Rest
<1>6. WorkerHolds'
  BY <1>1, <1>2, <1>3, <1>4, RequestIs DEF WorkerHolds, Asked
<1>7. WorkerDrops'
  BY <1>1, <1>3, <1>4 DEF WorkerDrops, Replaced, Later, Asked
<1>8. \A c \in Callers : callers'[c] = callers[c] \/ callers'[c].at \notin {"insert", "announce"}
  BY <1>5
<1> QED BY <1>1, <1>2, <1>4, <1>5, <1>6, <1>7, <1>8, RequestKeeps

(* A step of the worker that stores a status.                              *)
LEMMA StoreKeeps ==
  ASSUME SummaryInvariant, UNCHANGED <<state, run, cards, open, created, shown, callers>>,
         NEW k \in Keys, Asked(k), NEW j \in SummaryJob, jobs' = [jobs EXCEPT ![k] = j],
         j.status # "none", j.status = "completed" => k \in created \/ Replaced(k),
         summarizer' \in [at : SummarizerPoints, key : Keys \cup {NoKey}],
         \/ summarizer'.at = "idle"
         \/ summarizer'.at \in {"working", "report"} /\ summarizer'.key = k
            /\ (summarizer'.at = "working" => j.status = "leased")
         \/ summarizer' = summarizer /\ summarizer.key # k
  PROVE  SummaryInvariant'
<1>1. /\ SummaryTypes /\ JobsTaken /\ CallersTaken /\ WorkerHolds /\ WorkerDrops
      /\ DoneIsReplaced /\ ShownIsOfThisRun
  BY DEF SummaryInvariant
<1>2. /\ jobs' \in [Keys -> SummaryJob] /\ jobs'[k] = j
      /\ \A l \in Keys \ {k} : jobs'[l] = jobs[l]
  BY <1>1, JobsMoved DEF SummaryTypes
<1>3. \A l \in Keys : Asked(l) <=> Asked(l)'
  BY <1>2 DEF Asked
<1>4. Onward
  <2>1. PICK n \in Nat : n = run
    BY <1>1, SnapshotIsKey
  <2>2. PICK a \in [Groups -> Nat] : a = cards
    BY <1>1, SnapshotIsKey
  <2>3. n <= n /\ \A g \in Groups : a[g] <= a[g]
    BY <2>1, <2>2
  <2> QED BY <1>3, <2>1, <2>2, <2>3 DEF Onward
<1>5. SummaryTypes'
  <2>1. \A l \in Keys : jobs'[l].status \in {"none", "queued", "leased", "completed", "failed"}
    BY <1>2 DEF SummaryJob
  <2>2. created' \subseteq {l \in Keys : jobs'[l].status # "none"}
    BY <1>1, <1>3 DEF Asked, SummaryTypes, SummariesTypeOK
  <2>3. SummariesTypeOK'
    BY <1>1, <2>1, <2>2 DEF SummaryTypes, SummariesTypeOK
  <2>4. summarizer'.at # "idle" => summarizer'.key \in Keys
    BY <1>1 DEF SummaryTypes
  <2> QED BY <1>1, <1>2, <2>3, <2>4 DEF SummaryTypes
<1>6. JobsTaken'
  BY <1>1, <1>3, <1>4, JobsStayTaken
<1>7. CallersTaken'
  BY <1>1, <1>4, CallersStayTaken
<1>8. DoneIsReplaced'
  <2>1. Replaced(k) => Replaced(k)'
    BY <1>1, <1>4, TakenStays
  <2>2. \A l \in Keys : jobs'[l].status = "completed" =>
          jobs[l].status = "completed" \/ l \in created' \/ Replaced(l)'
    BY <1>2, <2>1
  <2> QED BY <1>1, <1>4, <2>2, DoneStaysReplaced
<1>9. ShownIsOfThisRun'
  BY <1>1, <1>4, ShownStays
<1>10. WorkerHolds' /\ WorkerDrops'
  <2>1. CASE summarizer'.at = "idle"
    BY <2>1 DEF WorkerHolds, WorkerDrops
  <2>2. CASE summarizer'.at \in {"working", "report"} /\ summarizer'.key = k
             /\ (summarizer'.at = "working" => j.status = "leased")
    BY <1>2, <1>3, <2>2 DEF WorkerHolds, WorkerDrops
  <2>3. CASE summarizer' = summarizer /\ summarizer.key # k
    <3>1. \A l \in Keys : jobs[l].status = "leased" /\ l = summarizer.key => jobs'[l].status = "leased"
      BY <1>2, <2>3
    <3> QED BY <1>1, <1>4, <2>3, <3>1, WorkerStays
  <2> QED BY <2>1, <2>2, <2>3
<1> QED BY <1>5, <1>6, <1>7, <1>8, <1>9, <1>10 DEF SummaryInvariant

LEMMA StatusStored ==
  ASSUME SummaryInvariant, NEW k \in Keys, NEW s \in {"queued", "leased", "completed", "failed"},
         jobs' = [jobs EXCEPT ![k].status = s]
  PROVE  \E j \in SummaryJob : jobs' = [jobs EXCEPT ![k] = j] /\ j.status = s
<1>1. jobs[k] \in SummaryJob
  BY DEF SummaryInvariant, SummaryTypes
<1>2. [jobs[k] EXCEPT !.status = s] \in SummaryJob
  BY <1>1 DEF SummaryJob
<1>3. [jobs[k] EXCEPT !.status = s].status = s
  BY <1>1 DEF SummaryJob
<1>4. jobs' = [jobs EXCEPT ![k] = [jobs[k] EXCEPT !.status = s]]
  OBVIOUS
<1> QED BY <1>2, <1>3, <1>4

LEMMA LeaseSummaryKeeps ==
  ASSUME SummaryInvariant, NEW k \in Keys, LeaseSummary(k)
  PROVE  SummaryInvariant'
<1>1. /\ jobs[k] \in SummaryJob /\ jobs[k].status = "queued" /\ jobs \in [Keys -> SummaryJob]
      /\ UNCHANGED <<state, run, cards, open, created, shown, callers>>
  BY DEF SummaryInvariant, SummaryTypes, LeaseSummary, course, log, budgets
<1>2. DEFINE n == Min({jobs[k].attempts + 1, MaxSummaryAttempts})
<1>3. n \in Nat
  <2>1. jobs[k].attempts + 1 \in Nat /\ MaxSummaryAttempts \in Nat
    BY <1>1, SummariesAssumption DEF SummaryJob
  <2> QED BY <2>1, SmallerOfTwo
<1> DEFINE j == [jobs[k] EXCEPT !.status = "leased", !.attempts = n]
<1>4. jobs' = [jobs EXCEPT ![k] = j]
  <2>1. jobs' = [jobs EXCEPT ![k].status = "leased",
                             ![k].attempts = Min({@ + 1, MaxSummaryAttempts})]
    BY DEF LeaseSummary
  <2>2. [jobs EXCEPT ![k].status = "leased", ![k].attempts = Min({@ + 1, MaxSummaryAttempts})]
          = [jobs EXCEPT ![k] = j]
    BY <1>1 DEF SummaryJob
  <2> QED BY <2>1, <2>2
<1>5. j \in SummaryJob /\ j.status = "leased"
  BY <1>1, <1>3 DEF SummaryJob
<1>6. /\ summarizer' \in [at : SummarizerPoints, key : Keys \cup {NoKey}]
      /\ summarizer'.at = "working" /\ summarizer'.key = k
  BY DEF LeaseSummary, SummarizerPoints
<1> HIDE DEF j
<1> QED BY <1>1, <1>4, <1>5, <1>6, StoreKeeps DEF Asked

LEMMA LeaseExpiresKeeps ==
  ASSUME SummaryInvariant, NEW k \in Keys, LeaseExpires(k)
  PROVE  SummaryInvariant'
<1>1. /\ jobs[k].status = "leased"
      /\ UNCHANGED <<state, run, cards, open, created, shown, callers, summarizer>>
      /\ summarizer \in [at : SummarizerPoints, key : Keys \cup {NoKey}]
      /\ summarizer.at = "idle" \/ summarizer.key # k
  BY DEF SummaryInvariant, SummaryTypes, LeaseExpires, course, log, budgets
<1>2. PICK j \in SummaryJob : jobs' = [jobs EXCEPT ![k] = j] /\ j.status = "queued"
  BY StatusStored DEF LeaseExpires
<1> QED BY <1>1, <1>2, StoreKeeps DEF Asked

LEMMA CompleteJobKeeps == SummaryInvariant /\ CompleteJob => SummaryInvariant'
<1> SUFFICES ASSUME SummaryInvariant, CompleteJob PROVE SummaryInvariant'
  OBVIOUS
<1>1. /\ summarizer.at = "complete"
      /\ UNCHANGED <<state, run, cards, open, created, shown, callers>>
  BY DEF CompleteJob, Working, course, log, budgets
<1>2. PICK k \in Keys : k = summarizer.key /\ Asked(k) /\ (k \in created \/ Replaced(k))
  BY <1>1, RequestIs DEF SummaryInvariant, WorkerDrops
<1>3. PICK j \in SummaryJob : jobs' = [jobs EXCEPT ![k] = j] /\ j.status = "completed"
  BY <1>2, StatusStored DEF CompleteJob
<1>4. summarizer' \in [at : SummarizerPoints, key : Keys \cup {NoKey}] /\ summarizer'.at = "idle"
  BY RestingTyped DEF CompleteJob
<1> QED BY <1>1, <1>2, <1>3, <1>4, StoreKeeps

LEMMA FailJobKeeps == SummaryInvariant /\ FailJob => SummaryInvariant'
<1> SUFFICES ASSUME SummaryInvariant, FailJob PROVE SummaryInvariant'
  OBVIOUS
<1>1. /\ summarizer.at # "idle"
      /\ UNCHANGED <<state, run, cards, open, created, shown, callers>>
  BY DEF FailJob, course, log
<1>2. PICK k \in Keys : k = summarizer.key /\ Asked(k)
  BY <1>1, RequestIs
<1>3. PICK s \in {"queued", "failed"} :
        /\ jobs' = [jobs EXCEPT ![k].status = s]
        /\ summarizer' = Resting \/ Move("report")
  BY <1>2 DEF FailJob
<1>4. PICK j \in SummaryJob : jobs' = [jobs EXCEPT ![k] = j] /\ j.status = s
  <2>1. CASE s = "queued"
    BY <1>3, <2>1, StatusStored
  <2>2. CASE s = "failed"
    BY <1>3, <2>2, StatusStored
  <2> QED BY <2>1, <2>2
<1>5. /\ summarizer' \in [at : SummarizerPoints, key : Keys \cup {NoKey}]
      /\ summarizer'.at = "idle" \/ (summarizer'.at = "report" /\ summarizer'.key = k)
  BY <1>1, <1>2, <1>3, MoveIs, RestingTyped DEF SummarizerPoints
<1> QED BY <1>1, <1>2, <1>4, <1>5, StoreKeeps

(* A worker that goes idle.                                                *)
LEMMA AbandonKeeps == SummaryInvariant /\ Abandon => SummaryInvariant'
<1> SUFFICES ASSUME SummaryInvariant, Abandon PROVE SummaryInvariant'
  OBVIOUS
<1>1. UNCHANGED <<state, run, cards, open, jobs, created, shown, callers>>
  BY DEF Abandon, course, log, budgets
<1>2. summarizer' \in [at : SummarizerPoints, key : Keys \cup {NoKey}] /\ summarizer'.at = "idle"
  BY RestingTyped DEF Abandon
<1>3. WorkerHolds' /\ WorkerDrops'
  BY <1>2 DEF WorkerHolds, WorkerDrops
<1>4. /\ created \subseteq {k \in Keys : Asked(k)}
      /\ callers \in [Callers -> [at : CallerPoints, key : Keys \cup {NoKey}]]
  BY DEF SummaryInvariant, SummaryTypes, SummariesTypeOK, Asked
<1> QED BY <1>1, <1>2, <1>3, <1>4, RequestKeeps

LEMMA ReportKeeps == SummaryInvariant /\ ReportFailure => SummaryInvariant'
<1> SUFFICES ASSUME SummaryInvariant, ReportFailure PROVE SummaryInvariant'
  OBVIOUS
<1>1. UNCHANGED <<state, run, cards, open, jobs, created, callers>> /\ summarizer.at = "report"
  BY DEF ReportFailure, Working, course, budgets
<1>2. summarizer' \in [at : SummarizerPoints, key : Keys \cup {NoKey}] /\ summarizer'.at = "idle"
  BY RestingTyped DEF ReportFailure
<1>3. WorkerHolds' /\ WorkerDrops'
  BY <1>2 DEF WorkerHolds, WorkerDrops
<1>4. /\ created \subseteq {k \in Keys : Asked(k)}
      /\ callers \in [Callers -> [at : CallerPoints, key : Keys \cup {NoKey}]]
  BY DEF SummaryInvariant, SummaryTypes, SummariesTypeOK, Asked
<1>5. PICK k \in Keys : k = summarizer.key /\ Asked(k)
  BY <1>1, RequestIs
<1>6. shown' = shown \/ (shown' = "failed" /\ k.run = run)
  BY <1>5 DEF ReportFailure, Show
<1> QED BY <1>1, <1>2, <1>3, <1>4, <1>5, <1>6, RequestKeeps

LEMMA RestartKeeps == SummaryInvariant /\ Restart => SummaryInvariant'
<1> SUFFICES ASSUME SummaryInvariant, Restart PROVE SummaryInvariant'
  OBVIOUS
<1>1. UNCHANGED <<state, run, cards, open, jobs, created, shown>>
  BY DEF Restart, course, log
<1>2. summarizer' \in [at : SummarizerPoints, key : Keys \cup {NoKey}] /\ summarizer'.at = "idle"
  BY RestingTyped DEF Restart
<1>3. /\ callers' \in [Callers -> [at : CallerPoints, key : Keys \cup {NoKey}]]
      /\ \A c \in Callers : callers'[c].at = "idle"
  BY RestingTyped DEF Restart
<1>4. WorkerHolds' /\ WorkerDrops'
  BY <1>2 DEF WorkerHolds, WorkerDrops
<1>5. created \subseteq {k \in Keys : Asked(k)}
  BY DEF SummaryInvariant, SummaryTypes, SummariesTypeOK, Asked
<1> QED BY <1>1, <1>2, <1>3, <1>4, <1>5, RequestKeeps

LEMMA SummaryStepKeeps == SummaryInvariant /\ SummariesNext => SummaryInvariant'
<1> SUFFICES ASSUME SummaryInvariant, SummariesNext PROVE SummaryInvariant'
  OBVIOUS
<1>0. /\ state \in {"recording", "processing", "completed"} /\ open \subseteq Groups
      /\ \A g \in open : cards[g] < MaxCards
      /\ {"finish", "manual", "teaching"} \subseteq Callers \ {"superseded"}
  BY DEF SummaryInvariant, SummaryTypes, SummariesTypeOK, Callers
<1>1. ASSUME NEW c \in Callers, Insert(c) \/ Announce(c) \/ Return(c) PROVE SummaryInvariant'
  <2>1. CASE Return(c)
    <3>1. UNCHANGED <<state, run, cards, open, jobs, created, shown, summarizer>> /\ Rest(c)
      BY <2>1 DEF Return, course, log, budgets
    <3>2. c \in Callers \ {"superseded"}
      BY <1>0, <2>1 DEF Return
    <3> QED BY <1>0, <3>1, <3>2, RestKeeps
  <2> QED BY <1>1, <2>1, InsertKeeps, AnnounceKeeps
<1>2. CASE Work
  BY <1>2, LeaseSummaryKeeps, LeaseExpiresKeeps, CheckKeeps, ApplySummaryKeeps, SupersedeKeeps,
     SupersededKeeps, CompleteJobKeeps, ReportKeeps, AbandonKeeps DEF Work
<1>3. CASE Finish
  <2>1. UNCHANGED <<state, run, cards, open, jobs, created, shown, summarizer>>
    BY <1>3 DEF Finish, course, log, budgets
  <2>2. CASE HasSummaryForRun
    <3>1. [at |-> "done", key |-> NoKey] \in [at : CallerPoints, key : Keys \cup {NoKey}]
      BY DEF CallerPoints
    <3>2. callers' = [callers EXCEPT !["finish"] = [at |-> "done", key |-> NoKey]]
      BY <1>3, <2>2 DEF Finish, GoTo
    <3> QED BY <1>0, <2>1, <3>1, <3>2, CallerTurns
  <2>3. CASE ~HasSummaryForRun
    <3>1. Read("finish")
      BY <1>3, <2>3 DEF Finish
    <3> QED BY <1>0, <2>1, <3>1, ReadKeeps
  <2> QED BY <2>2, <2>3
<1>4. CASE Complete
  <2>1. /\ UNCHANGED <<run, cards, open, jobs, created, shown, summarizer>> /\ Rest("finish")
        /\ state' \in {"recording", "processing", "completed"}
    BY <1>0, <1>4 DEF Complete, log, budgets
  <2> QED BY <1>0, <2>1, RestKeeps
<1>5. CASE RetryAfterExplanation
  <2>1. /\ UNCHANGED <<state, run, cards, open, jobs, created, shown, summarizer>>
        /\ Read("teaching") \/ Rest("teaching")
    BY <1>5 DEF RetryAfterExplanation, course, log, budgets
  <2> QED BY <1>0, <2>1, ReadKeeps, RestKeeps
<1>6. CASE AskForSummary
  <2>1. /\ UNCHANGED <<state, run, cards, open, jobs, created, shown, summarizer>>
        /\ Read("manual")
    BY <1>6 DEF AskForSummary, course, log
  <2> QED BY <1>0, <2>1, ReadKeeps
<1>7. ASSUME NEW g \in Groups, CreateCard(g) PROVE SummaryInvariant'
  BY <1>7, CreateCardKeeps
<1>8. ASSUME NEW g \in Groups, ExplanationFails(g) \/ OpenExplanation(g) PROVE SummaryInvariant'
  <2>1. /\ UNCHANGED <<state, run, cards, jobs, created, shown, callers, summarizer>>
        /\ \/ open' = open \ {g}
           \/ open' = open \cup {g} /\ cards[g] < MaxCards
    BY <1>8 DEF ExplanationFails, OpenExplanation, log, budgets
  <2>2. open' \subseteq Groups /\ \A h \in open' : cards[h] < MaxCards
    BY <1>0, <2>1
  <2> QED BY <1>0, <2>1, <2>2, CourseStepKeeps
<1>9. CASE CorrectTranscript \/ Stop
  <2>1. /\ UNCHANGED <<run, cards, open, jobs, created, shown, callers, summarizer>>
        /\ state' \in {"recording", "processing", "completed"}
    BY <1>0, <1>9 DEF CorrectTranscript, Stop, log, budgets
  <2> QED BY <1>0, <2>1, CourseStepKeeps
<1>10. CASE Resume
  BY <1>10, ResumeKeeps
<1>11. CASE FailJob
  BY <1>11, FailJobKeeps
<1>12. CASE Restart
  BY <1>12, RestartKeeps
<1> QED BY <1>1, <1>2, <1>3, <1>4, <1>5, <1>6, <1>7, <1>8, <1>9, <1>10, <1>11, <1>12
        DEF SummariesNext, Enqueue, Close, Teach

LEMMA SummaryStutterKeeps == SummaryInvariant /\ UNCHANGED summaryVars => SummaryInvariant'
<1> SUFFICES ASSUME SummaryInvariant, UNCHANGED summaryVars PROVE SummaryInvariant'
  OBVIOUS
<1>1. UNCHANGED <<state, run, cards, open, jobs, created, shown, callers, summarizer>>
  BY DEF summaryVars
<1>2. /\ state \in {"recording", "processing", "completed"} /\ open \subseteq Groups
      /\ \A g \in open : cards[g] < MaxCards
  BY DEF SummaryInvariant, SummaryTypes, SummariesTypeOK
<1> QED BY <1>1, <1>2, CourseStepKeeps

LEMMA SummaryInitHolds == SummariesInit => SummaryInvariant
<1> SUFFICES ASSUME SummariesInit PROVE SummaryInvariant
  OBVIOUS
<1>1. 0 \in Runs /\ [g \in Groups |-> 0] \in [Groups -> 0 .. MaxCards]
  BY SummariesAssumption DEF Runs
<1>2. jobs \in [Keys -> SummaryJob] /\ \A k \in Keys : jobs[k].status = "none"
  BY DEF SummariesInit, NoJob, SummaryJob
<1>3. /\ callers \in [Callers -> [at : CallerPoints, key : Keys \cup {NoKey}]]
      /\ \A c \in Callers : callers[c].at = "idle"
  BY RestingTyped DEF SummariesInit
<1>4. summarizer \in [at : SummarizerPoints, key : Keys \cup {NoKey}] /\ summarizer.at = "idle"
  BY RestingTyped DEF SummariesInit
<1>5. SummariesTypeOK
  BY <1>1, <1>2 DEF SummariesInit, SummariesTypeOK
<1>6. SummaryTypes
  BY <1>2, <1>3, <1>4, <1>5 DEF SummariesInit, SummaryTypes
<1>7. JobsTaken /\ DoneIsReplaced
  BY <1>2 DEF JobsTaken, DoneIsReplaced, Asked
<1>8. CallersTaken /\ WorkerHolds /\ WorkerDrops
  BY <1>3, <1>4 DEF CallersTaken, WorkerHolds, WorkerDrops
<1>9. ShownIsOfThisRun
  BY DEF SummariesInit, ShownIsOfThisRun
<1> QED BY <1>6, <1>7, <1>8, <1>9 DEF SummaryInvariant

(* The invariant of the summaries holds of every behaviour.                *)
LEMMA SummariesKeepInvariant == SummariesSpec => []SummaryInvariant
<1>1. SummaryInvariant /\ [SummariesNext]_summaryVars => SummaryInvariant'
  BY SummaryStepKeeps, SummaryStutterKeeps
<1> QED BY <1>1, SummaryInitHolds, PTL DEF SummariesSpec

(* The course, its cards, jobs and callers keep their types, for any       *)
(* groups, runs, requests and faults (jobs.rs, enqueue_summary).           *)
THEOREM SummariesTypeCorrect == SummariesSpec => []SummariesTypeOK
<1>1. SummaryInvariant => SummariesTypeOK
  BY DEF SummaryInvariant, SummaryTypes
<1> QED BY <1>1, SummariesKeepInvariant, PTL

(* What the page shows of a summary is about the run it shows, whatever    *)
(* jobs of earlier runs still do (summaryStatus.ts).                       *)
THEOREM ShownSummaryIsOfThisRun == SummariesSpec => []ShownIsOfThisRun
<1>1. SummaryInvariant => ShownIsOfThisRun
  BY DEF SummaryInvariant
<1> QED BY <1>1, SummariesKeepInvariant, PTL

(* A job of this run that ended without a summary left a job for a later   *)
(* snapshot, although callers, cards and resumed runs interleave with the  *)
(* request that dropped its result (jobs.rs, apply_summary_result).        *)
THEOREM DroppedSummariesAreReplaced == SummariesSpec => []SupersededIsReplaced
<1>1. SummaryInvariant => SupersededIsReplaced
  <2> SUFFICES ASSUME SummaryInvariant, NEW k \in Keys, jobs[k].status = "completed",
                      k \notin created, k.run = run
               PROVE  \E later \in Keys :
                        /\ later.run = run /\ later # k
                        /\ \A g \in Groups : later.cards[g] >= k.cards[g]
                        /\ jobs[later].status # "none"
    BY DEF SupersededIsReplaced
  <2>1. PICK n \in Nat : n = run
    BY SnapshotIsKey DEF SummaryInvariant
  <2>2. Replaced(k) /\ ~(k.run < run)
    BY <2>1 DEF SummaryInvariant, DoneIsReplaced
  <2>3. PICK later \in Keys : Later(k, later) /\ Asked(later)
    BY <2>2 DEF Replaced
  <2>4. \A g \in Groups : later.cards[g] >= k.cards[g]
    <3> TAKE g \in Groups
    <3>1. later.cards[g] \in Nat /\ k.cards[g] \in Nat /\ k.cards[g] <= later.cards[g]
      BY <2>3, KeysAreTyped DEF Later
    <3> QED BY <3>1
  <2> QED BY <2>3, <2>4 DEF Later, Asked
<1> QED BY <1>1, SummariesKeepInvariant, PTL

(* No caller, retry or late worker runs a summary job again that is done   *)
(* (lib.rs, retry_or_fail_model_job and requeue).                          *)
THEOREM DoneSummariesStay == SummariesSpec => DoneStays
<1> DEFINE Stays == \A k \in Keys : jobs[k].status = "completed" => jobs'[k].status = "completed"
<1>1. SummaryInvariant /\ [SummariesNext]_summaryVars => [Stays]_summaryVars
  <2> SUFFICES ASSUME SummaryInvariant, SummariesNext,
                      NEW k \in Keys, jobs[k].status = "completed"
               PROVE  jobs'[k].status = "completed"
    BY DEF Stays
  <2>0. jobs \in [Keys -> SummaryJob] /\ jobs[k] \in SummaryJob
    BY DEF SummaryInvariant, SummaryTypes
  <2>1. CASE jobs' = jobs
    BY <2>1
  <2>2. ASSUME NEW c \in Callers, Insert(c) PROVE jobs'[k].status = "completed"
    BY <2>0, <2>2 DEF Insert, InsertJob
  <2>3. ASSUME NEW l \in Keys, LeaseSummary(l) \/ LeaseExpires(l) PROVE jobs'[k].status = "completed"
    <3>1. l # k
      BY <2>3 DEF LeaseSummary, LeaseExpires
    <3> QED BY <2>0, <2>3, <3>1 DEF LeaseSummary, LeaseExpires
  <2>4. CASE CompleteJob
    BY <2>0, <2>4 DEF CompleteJob, SummaryJob
  <2>5. CASE FailJob
    <3>1. summarizer.key # k
      BY <2>5, RequestIs DEF FailJob
    <3> QED BY <2>0, <2>5, <3>1 DEF FailJob
  <2>6. jobs' = jobs \/ (\E c \in Callers : Insert(c)) \/ CompleteJob \/ FailJob
          \/ (\E l \in Keys : LeaseSummary(l) \/ LeaseExpires(l))
    BY DEF SummariesNext, Enqueue, Work, Close, Teach, Announce, Return, CreateCard,
           ExplanationFails, OpenExplanation, RetryAfterExplanation, AskForSummary,
           CorrectTranscript, Stop, Resume, Finish, Complete, CheckSnapshot, Apply, Supersede,
           Superseded, Abandon, ReportFailure, Restart
  <2> QED BY <2>1, <2>2, <2>3, <2>4, <2>5, <2>6
<1>2. SummariesSpec => [][Stays]_summaryVars
  BY <1>1, SummaryInitHolds, SummaryStepKeeps, SummaryStutterKeeps, PTL DEF SummariesSpec
<1> QED BY <1>2 DEF DoneStays
=============================================================================
