------------------------------- MODULE ModelJobs -------------------------------
(***************************************************************************)
(* The durable model-job queue of one session and the closing of the       *)
(* session once it is drained (crates/event-store/src/lib.rs 1765-2299,    *)
(* crates/core-server/src/jobs.rs).  GPU workers lease jobs, run them and  *)
(* report; each store call of the completion and failure handlers is a     *)
(* step.  A window is recognised (asr) or found silent, its segment joins  *)
(* a paragraph, the paragraph is translated and grouped by topic, and the  *)
(* last job to settle closes the session.  Left out: courses in the target *)
(* language, the boundaries the model finds inside a topic window and the  *)
(* windows that are neither full nor forced (those boundaries are all they *)
(* group), and the explanation and summary jobs.                           *)
(***************************************************************************)
EXTENDS Naturals, Sequences, FiniteSets

CONSTANTS
    Segments,     \* the stable ASR windows of the session
    AsrLanes,     \* worker lanes that recognise speech
    TextLanes,    \* worker lanes that translate and find topics
    Calls,        \* HTTP requests in flight at once
    None,
    WindowParagraphs,  \* paragraphs in a full topic window
    Short,        \* sets of paragraphs that together stay under WINDOW_BYTES
    MaxAttempts,  \* attempts before a retryable failure is final
    MaxLeases,    \* bound on the times one job is leased
    MaxFailures,  \* bound on model runs that fail
    TopicDown,    \* every run of the topic model fails
    MaxFaults     \* bound on crashes, dead workers and missed renewals

Workers == AsrLanes \cup TextLanes

Paragraphs == (SUBSET Segments) \ {{}}

ASSUME JobsAssumption ==
    /\ None \notin Workers /\ AsrLanes \cap TextLanes = {}
    /\ WindowParagraphs \in Nat \ {0}
    /\ Short \subseteq SUBSET Paragraphs /\ \A T \in Short : SUBSET T \subseteq Short
    /\ MaxAttempts \in Nat \ {0} /\ MaxLeases \in Nat
    /\ MaxFailures \in Nat /\ MaxFaults \in Nat /\ TopicDown \in BOOLEAN

(* WINDOW_PARAGRAPHS and WINDOW_BYTES; one paragraph fits, however long.   *)
Fits(T) == Cardinality(T) <= WindowParagraphs /\ (T \in Short \/ Cardinality(T) = 1)

Asr(s)       == [kind |-> "asr", of |-> {s}]
Translate(g) == [kind |-> "translate", of |-> g]
(* The job of a topic window: its key holds what it was made with.         *)
Topic(T, forced, full) == [kind |-> "topic", of |-> T, forced |-> forced, full |-> full]
Windows   == {T \in SUBSET Paragraphs : T # {} /\ Fits(T)}
TopicJobs == {j \in [kind : {"topic"}, of : Windows, forced : BOOLEAN, full : BOOLEAN] :
                j.forced \/ j.full}
Jobs == {Asr(s) : s \in Segments} \cup {Translate(g) : g \in Paragraphs} \cup TopicJobs

(* The keys of result events: the job's own, or that of a silent window.   *)
NoSpeech(of)  == [kind |-> "no_speech", of |-> of]
EventsOf(j)   == {j} \cup {NoSpeech(of) : of \in IF j.kind = "asr" THEN {j.of} ELSE {}}
EventKeys     == UNION {EventsOf(j) : j \in Jobs}

VARIABLES
    session,     \* sessions.state
    job,         \* the rows of model_jobs
    emitted,     \* result events: the attempt whose result the event of a key holds
    segments,    \* segment.finalized events
    paragraphs,  \* paragraph.finalized events in log order, by their segment ids
    worker,      \* the job each lane works on
    call,        \* where each request handler is
    stop,        \* the client's stop: "none", "asked" until it has a reply, "done"
    late,        \* history: windows queued when the recording was no longer on
    outrun,      \* history: a request closed the session past another's topic job
    failures, faults

history == <<late, outrun>>
bounds  == <<failures, faults>>
vars    == <<session, job, emitted, segments, paragraphs, worker, call, stop, history, bounds>>

(* "transient": a failure of a kind requeue_failed_topic_by_key accepts.   *)
Absent == [status |-> "absent", owner |-> None, attempts |-> 0, overdue |-> FALSE,
           event |-> None, result |-> 0, transient |-> FALSE]
Free   == [job |-> None, attempt |-> 0, submitted |-> FALSE]
Idle   == [op |-> "idle", pc |-> "idle", job |-> None, worker |-> None, attempt |-> 0,
           event |-> None, retryable |-> FALSE, transient |-> FALSE, forced |-> FALSE,
           group |-> {}, next |-> None, then |-> "idle"]

Open    == {"queued", "leased"}
Settled == {"completed", "failed"}
Closed  == {"completed", "failed"}

Init ==
    /\ session = "recording"
    /\ job = [j \in Jobs |-> Absent]
    /\ emitted = [e \in EventKeys |-> 0]
    /\ segments = {} /\ paragraphs = <<>>
    /\ worker = [w \in Workers |-> Free]
    /\ call = [c \in Calls |-> Idle]
    /\ stop = "none" /\ late = {} /\ outrun = FALSE
    /\ failures = 0 /\ faults = 0

Fault == faults < MaxFaults /\ faults' = faults + 1

-----------------------------------------------------------------------------
(* Queue and workers *)

(* enqueue_model_job: INSERT OR IGNORE on the idempotency key.             *)
Enqueued(j) == IF job[j].status = "absent" THEN [job EXCEPT ![j].status = "queued"] ELSE job

(* enqueue_asr_window asks for no session state: the flush of a stop queues
   windows, and so do the background assembler and the recovery of a start. *)
EnqueueAsr(s) ==
    /\ job[Asr(s)].status = "absent"
    /\ job' = Enqueued(Asr(s))
    /\ late' = IF session = "recording" THEN late ELSE late \cup {s}
    /\ UNCHANGED <<session, emitted, segments, paragraphs, worker, call, stop, outrun, bounds>>

(* lease_model_job_for: expired leases return to the queue, one is taken.  *)
Serves(w, j) == w \in IF j.kind = "asr" THEN AsrLanes ELSE TextLanes
Overdue(j)   == job[j].status = "leased" /\ job[j].overdue
Requeued ==
    [j \in Jobs |-> IF Overdue(j)
                    THEN [job[j] EXCEPT !.status = "queued", !.owner = None, !.overdue = FALSE]
                    ELSE job[j]]

Lease(w, j) ==
    /\ worker[w] = Free /\ Serves(w, j)
    /\ job[j].status = "queued" \/ Overdue(j)
    /\ job[j].attempts < MaxLeases
    /\ job' = [Requeued EXCEPT ![j].status = "leased", ![j].owner = w,
                               ![j].attempts = @ + 1]
    /\ worker' = [worker EXCEPT ![w] = [job |-> j, attempt |-> job[j].attempts + 1,
                                        submitted |-> FALSE]]
    /\ UNCHANGED <<session, emitted, segments, paragraphs, call, stop, history, bounds>>

Holds(w, j) == job[j].status = "leased" /\ job[j].owner = w

(* renew_model_job: the owner may renew a lease that has run out as long as
   nobody has returned it to the queue.                                    *)
Renew(w) ==
    LET j == worker[w].job IN
    /\ worker[w] # Free /\ Holds(w, j) /\ job[j].overdue
    /\ job' = [job EXCEPT ![j].overdue = FALSE]
    /\ UNCHANGED <<session, emitted, segments, paragraphs, worker, call, stop, history, bounds>>

(* A lease runs out: in any case when nobody works on the job any more, and
   by a fault, such as renewals that do not get through, while one does.   *)
Abandoned(j) ==
    /\ job[j].status = "leased" /\ worker[job[j].owner].job # j
    /\ \A c \in Calls : call[c].job # j

Expire(j) ==
    /\ job[j].status = "leased" /\ ~job[j].overdue
    /\ IF Abandoned(j) THEN UNCHANGED faults ELSE Fault
    /\ job' = [job EXCEPT ![j].overdue = TRUE]
    /\ UNCHANGED <<session, emitted, segments, paragraphs, worker, call, stop, history, failures>>

WorkerDies(w) ==
    /\ worker[w] # Free /\ Fault
    /\ worker' = [worker EXCEPT ![w] = Free]
    /\ UNCHANGED <<session, job, emitted, segments, paragraphs, call, stop, history, failures>>

Submit(c, w, q) ==
    /\ call[c] = Idle /\ worker[w] # Free
    /\ call' = [call EXCEPT ![c] = [q EXCEPT !.worker = w, !.job = worker[w].job,
                                             !.attempt = worker[w].attempt]]
    /\ UNCHANGED <<session, job, emitted, segments, paragraphs, stop, history, faults>>

(* Runs of the topic model that fail while it is down are not counted.     *)
Outage(w) == TopicDown /\ worker[w] # Free /\ worker[w].job.kind = "topic"

(* Of a window of audio the worker returns a text or silence, and another
   attempt may hear what this one does not.                                *)
SubmitResult(c, w) ==
    /\ worker[w] # Free /\ ~worker[w].submitted /\ ~Outage(w)
    /\ \E e \in EventsOf(worker[w].job) :
         Submit(c, w, [Idle EXCEPT !.op = "complete", !.pc = "check", !.event = e])
    /\ worker' = [worker EXCEPT ![w].submitted = TRUE]
    /\ UNCHANGED failures

HandIn(c, w, retryable) ==
    \E transient \in IF worker[w].job.kind = "topic" THEN BOOLEAN ELSE {FALSE} :
        Submit(c, w, [Idle EXCEPT !.op = "fail", !.pc = "store", !.retryable = retryable,
                                  !.transient = transient])

(* The model run fails, for good or not; or the completion came back as a
   server error or not at all.  The lane reports it and takes other work.  *)
SubmitFailure(c, w) ==
    /\ worker[w] # Free
    /\ IF worker[w].submitted
         THEN /\ \A d \in Calls : ~(call[d].op = "complete" /\ call[d].worker = w)
              /\ HandIn(c, w, TRUE) /\ UNCHANGED failures
         ELSE /\ IF Outage(w) THEN UNCHANGED failures
                 ELSE failures < MaxFailures /\ failures' = failures + 1
              /\ \E retryable \in BOOLEAN : HandIn(c, w, retryable)
    /\ worker' = [worker EXCEPT ![w] = Free]

-----------------------------------------------------------------------------
(* The request handlers, one action per store call *)

At(c, pc)   == call[c].pc = pc
Goto(c, pc) == call' = [call EXCEPT ![c].pc = pc]

(* A reply of success, or of a lost lease, frees the lane that waits for it;
   after a server error the lane reports a failure.                        *)
Reply(c) ==
    LET q == call[c] IN
    /\ call' = [call EXCEPT ![c] = Idle]
    /\ worker' = [w \in Workers |->
                    IF w = q.worker /\ worker[w].job = q.job /\ worker[w].attempt = q.attempt
                    THEN Free ELSE worker[w]]
    /\ stop' = IF q.op = "stop" THEN "done" ELSE stop
ServerError(c) ==
    /\ call' = [call EXCEPT ![c] = Idle]
    /\ UNCHANGED <<worker, stop>>
Continue(c, pc) == Goto(c, pc) /\ UNCHANGED <<worker, stop>>
(* Back from a helper: what it worked on is forgotten.                     *)
ComeBack(c, pc) ==
    /\ call' = [call EXCEPT ![c].pc = pc, ![c].group = {}, ![c].next = None,
                            ![c].then = "idle"]
    /\ UNCHANGED <<worker, stop>>

(* complete_job: a duplicate is accepted, a lost lease is a conflict.      *)
CompleteCheck(c) ==
    /\ At(c, "check")
    /\ IF Holds(call[c].worker, call[c].job) THEN Continue(c, "apply") ELSE Reply(c)
    /\ UNCHANGED <<session, job, emitted, segments, paragraphs, history, bounds>>

(* What the result event holds: the text and the elapsed time of its
   attempt, or, for a topic window that is not cut, the same group whoever
   runs it.                                                                *)
Content(q) == IF q.job.kind = "topic" THEN 1 ELSE q.attempt

(* A topic result must not overlap a content group that is in the log, nor
   give the same paragraphs another reason.                                *)
Overlaps(j) ==
    /\ j.kind = "topic"
    /\ \E i \in TopicJobs :
         /\ emitted[i] # 0 /\ i.of \cap j.of # {}
         /\ i.of # j.of \/ i.full # j.full

(* What apply_result goes on with: the segment of a window with speech, the
   topic windows that a translation completes.                             *)
AfterEvent(q) ==
    IF q.event # q.job THEN "complete"
    ELSE CASE q.job.kind = "asr" -> "segment"
           [] q.job.kind = "translate" -> "topic_check"
           [] q.job.kind = "topic" -> "complete"

(* Mutant: a second event of the same key is ignored without an error.     *)
ApplyKeepsFirst(c) ==
    LET q == call[c] IN
    /\ At(c, "apply")
    /\ emitted' = IF emitted[q.event] = 0
                  THEN [emitted EXCEPT ![q.event] = Content(q)] ELSE emitted
    /\ Continue(c, AfterEvent(q))
    /\ UNCHANGED <<session, job, segments, paragraphs, history, bounds>>

(* The first event of apply_asr_result (transcript.stable, or only
   asr.window.no_speech under a key of its own), and those of
   apply_translation_result and topics::apply_result.  An event of the same
   key with different content is an error.                                 *)
CompleteApply(c) ==
    LET q == call[c] IN
    /\ At(c, "apply")
    /\ IF emitted[q.event] \in {0, Content(q)} /\ ~Overlaps(q.job)
         THEN /\ emitted' = [emitted EXCEPT ![q.event] = Content(q)]
              /\ Continue(c, AfterEvent(q))
         ELSE ServerError(c) /\ UNCHANGED emitted
    /\ UNCHANGED <<session, job, segments, paragraphs, history, bounds>>

(* The second event of apply_asr_result, with the same lineage.            *)
CompleteSegment(c) ==
    /\ At(c, "segment")
    /\ segments' = segments \cup call[c].job.of
    /\ Continue(c, "paragraph")
    /\ UNCHANGED <<session, job, emitted, paragraphs, history, bounds>>

(* maybe_finalize_paragraph reads the log: the segments in no paragraph.   *)
Shown   == {paragraphs[n] : n \in DOMAIN paragraphs}
Pending == {s \in segments : \A g \in Shown : s \notin g}

TakePending(c) ==
    /\ Pending # {}
    /\ call' = [call EXCEPT ![c].pc = "emit", ![c].group = Pending]
    /\ UNCHANGED <<worker, stop>>

(* Unforced, the pending segments may wait for later ones (paragraph_ready). *)
CompleteParagraph(c) ==
    /\ At(c, "paragraph")
    /\ TakePending(c) \/ Continue(c, "complete")
    /\ UNCHANGED <<session, job, emitted, segments, paragraphs, history, bounds>>

EmitParagraph(c) ==
    /\ At(c, "emit")
    /\ paragraphs' = IF call[c].group \in Shown THEN paragraphs
                     ELSE Append(paragraphs, call[c].group)
    /\ Continue(c, "enqueue")
    /\ UNCHANGED <<session, job, emitted, segments, history, bounds>>

(* Mutant: the paragraph forced at the end is not queued for translation.  *)
TailUntranslated(c) ==
    /\ At(c, "enqueue")
    /\ IF call[c].forced THEN Reply(c) /\ UNCHANGED job
       ELSE Continue(c, "complete") /\ job' = Enqueued(Translate(call[c].group))
    /\ UNCHANGED <<session, emitted, segments, paragraphs, history, bounds>>

(* The translation is queued.  A paragraph forced while finishing ends the
   request here: the translation's own completion will finish the session. *)
EnqueueTranslation(c) ==
    LET q == call[c] IN
    /\ At(c, "enqueue")
    /\ job' = Enqueued(Translate(q.group))
    /\ IF q.forced THEN Reply(c) ELSE ComeBack(c, "complete")
    /\ UNCHANGED <<session, emitted, segments, paragraphs, history, bounds>>

(* Mutant: any worker may settle the job.                                  *)
StoreForAnyWorker(c) ==
    LET q == call[c] IN
    /\ At(c, "complete")
    /\ job' = [job EXCEPT ![q.job].status = "completed", ![q.job].owner = None,
                          ![q.job].overdue = FALSE, ![q.job].event = q.event,
                          ![q.job].result = Content(q)]
    /\ Continue(c, "state")
    /\ UNCHANGED <<session, emitted, segments, paragraphs, history, bounds>>

(* complete_model_job: only the owner of the lease settles the job.        *)
CompleteStore(c) ==
    LET q == call[c] IN
    /\ At(c, "complete")
    /\ IF Holds(q.worker, q.job)
         THEN /\ job' = [job EXCEPT ![q.job].status = "completed", ![q.job].owner = None,
                                    ![q.job].overdue = FALSE, ![q.job].event = q.event,
                                    ![q.job].result = Content(q)]
              /\ Continue(c, IF q.job.kind = "topic" THEN "followup" ELSE "state")
         ELSE Reply(c) /\ UNCHANGED job
    /\ UNCHANGED <<session, emitted, segments, paragraphs, history, bounds>>

(* topics::enqueue_pending: once no topic job waits or runs, the first run
   of paragraphs in no content group, cut where the window is full or where
   the next paragraph has a group.                                         *)
Grouped(g)  == \E j \in TopicJobs : g \in j.of /\ emitted[j] # 0
Left        == {n \in DOMAIN paragraphs : ~Grouped(paragraphs[n])}
Quiet       == \A j \in TopicJobs : job[j].status \notin Open
Span(a, b)  == {paragraphs[n] : n \in a..b}

IsWindow(T, full) ==
    \E a, b \in Left :
        /\ \A n \in Left : a <= n
        /\ a..b \subseteq Left /\ T = Span(a, b) /\ Fits(T)
        /\ b + 1 \in Left => ~Fits(Span(a, b + 1))
        /\ full <=> (b < Len(paragraphs) \/ Cardinality(T) = WindowParagraphs)

(* A full or a forced window makes a job, if its key is new or that of a
   failed one; otherwise nothing is queued and the caller goes on.         *)
EnqueuePending(c, force, then) ==
    /\ \/ (~Quiet \/ Left = {}) /\ Continue(c, then)
       \/ /\ Quiet
          /\ \E T \in Windows, full \in BOOLEAN :
               LET j == Topic(T, force, full) IN
               /\ IsWindow(T, full)
               /\ IF (force \/ full) /\ job[j].status \in {"absent", "failed"}
                    THEN /\ call' = [call EXCEPT
                              ![c].pc = IF job[j].status = "absent" THEN "insert" ELSE "requeue",
                              ![c].next = j, ![c].then = then]
                         /\ UNCHANGED <<worker, stop>>
                    ELSE Continue(c, then)
    /\ outrun' = (outrun \/ (then = "close" /\ ~Quiet))
    /\ UNCHANGED <<session, job, emitted, segments, paragraphs, late, bounds>>

(* The session is not closed while it waits for the job just queued.       *)
TopicQueued(c) == IF call[c].then = "close" THEN Reply(c) ELSE ComeBack(c, call[c].then)

InsertTopic(c) ==
    /\ At(c, "insert")
    /\ job' = Enqueued(call[c].next)
    /\ TopicQueued(c)
    /\ UNCHANGED <<session, emitted, segments, paragraphs, history, bounds>>

(* requeue_failed_topic_by_key, for transient kinds of failure only.       *)
RequeueTopic(c) ==
    LET q == call[c] IN
    /\ At(c, "requeue")
    /\ IF job[q.next].status = "failed" /\ job[q.next].transient
         THEN /\ job' = [job EXCEPT ![q.next] = [Absent EXCEPT !.status = "queued"]]
              /\ TopicQueued(c) /\ UNCHANGED outrun
         ELSE /\ ComeBack(c, q.then) /\ UNCHANGED job
              /\ outrun' = (outrun \/ (q.then = "close" /\ job[q.next].status # "failed"))
    /\ UNCHANGED <<session, emitted, segments, paragraphs, late, bounds>>

(* maybe_enqueue_coherent_explanation, before the translation is settled.  *)
CheckTopics(c) == At(c, "topic_check") /\ EnqueuePending(c, FALSE, "complete")

(* enqueue_topic_followup: unforced while the session still holds the lease
   of its project, or has none.                                            *)
FollowUp(c) ==
    At(c, "followup") /\ \E force \in BOOLEAN : EnqueuePending(c, force, "state")

(* Mutant: a job that failed for good does not try to finish the session.  *)
FailWithoutFinish(c) ==
    LET q     == call[c]
        retry == q.retryable /\ job[q.job].attempts < MaxAttempts
    IN
    /\ At(c, "store") /\ Holds(q.worker, q.job)
    /\ job' = [job EXCEPT ![q.job].status = IF retry THEN "queued" ELSE "failed",
                          ![q.job].owner = None, ![q.job].overdue = FALSE,
                          ![q.job].transient = ~retry /\ q.transient]
    /\ Reply(c)
    /\ UNCHANGED <<session, emitted, segments, paragraphs, history, bounds>>

(* fail_job: retry_or_fail_model_job, again for the owner of the lease.    *)
FailStore(c) ==
    LET q     == call[c]
        retry == q.retryable /\ job[q.job].attempts < MaxAttempts
    IN
    /\ At(c, "store")
    /\ IF Holds(q.worker, q.job)
         THEN /\ job' = [job EXCEPT ![q.job].status = IF retry THEN "queued" ELSE "failed",
                                    ![q.job].owner = None, ![q.job].overdue = FALSE,
                                    ![q.job].transient = ~retry /\ q.transient]
              /\ Continue(c, "state")
         ELSE Reply(c) /\ UNCHANGED job
    /\ UNCHANGED <<session, emitted, segments, paragraphs, history, bounds>>

-----------------------------------------------------------------------------
(* finish_session_if_drained, the tail of every handler *)

FinishState(c) ==
    /\ At(c, "state")
    /\ IF session = "processing" THEN Continue(c, "count") ELSE Reply(c)
    /\ UNCHANGED <<session, job, emitted, segments, paragraphs, history, bounds>>

FinishCount(c) ==
    /\ At(c, "count")
    /\ IF \E j \in Jobs : job[j].status \in Open THEN Reply(c) ELSE Continue(c, "tail")
    /\ UNCHANGED <<session, job, emitted, segments, paragraphs, history, bounds>>

(* Mutant: the session closes without a paragraph for the last windows.    *)
FinishWithoutTail(c) ==
    /\ At(c, "tail") /\ Continue(c, "topics")
    /\ UNCHANGED <<session, job, emitted, segments, paragraphs, history, bounds>>

FinishTail(c) ==
    /\ At(c, "tail")
    /\ IF Pending = {} THEN Continue(c, "topics")
       ELSE /\ call' = [call EXCEPT ![c].pc = "emit", ![c].group = Pending, ![c].forced = TRUE]
            /\ UNCHANGED <<worker, stop>>
    /\ UNCHANGED <<session, job, emitted, segments, paragraphs, history, bounds>>

(* Mutant: the session closes without a topic window for its last paragraphs. *)
FinishUngrouped(c) ==
    /\ At(c, "topics") /\ Continue(c, "close")
    /\ UNCHANGED <<session, job, emitted, segments, paragraphs, history, bounds>>

(* The next window is queued before the session closes.  Nothing is queued
   while a topic job is open, or when the window failed for good.          *)
FinishTopics(c) == At(c, "topics") /\ EnqueuePending(c, TRUE, "close")

(* has_failed_non_summary_job: a failed recognition fails the session, a
   failed translation or topic does not.  The transition is refused when another
   request has closed the session meanwhile.                               *)
FinishClose(c) ==
    /\ At(c, "close")
    /\ IF session = "processing"
         THEN /\ session' = IF \E s \in Segments : job[Asr(s)].status = "failed"
                            THEN "failed" ELSE "completed"
              /\ Reply(c)
         ELSE ServerError(c) /\ UNCHANGED session
    /\ UNCHANGED <<job, emitted, segments, paragraphs, history, bounds>>

-----------------------------------------------------------------------------
(* Stopping and crashes *)

CallFinish(c, pc) == call' = [call EXCEPT ![c] = [Idle EXCEPT !.op = "stop", !.pc = pc]]

(* stop_recording past its flush, which queues the windows it can assemble. *)
StopRecording(c) ==
    /\ session = "recording" /\ call[c] = Idle
    /\ session' = "processing" /\ stop' = "asked"
    /\ CallFinish(c, "state")
    /\ UNCHANGED <<job, emitted, segments, paragraphs, worker, history, bounds>>

(* A client without a reply stops again; a closed session answers at once. *)
StopAgain(c) ==
    /\ stop = "asked" /\ call[c] = Idle /\ \A d \in Calls : call[d].op # "stop"
    /\ IF session = "processing" THEN CallFinish(c, "state") /\ UNCHANGED stop
       ELSE stop' = "done" /\ UNCHANGED call
    /\ UNCHANGED <<session, job, emitted, segments, paragraphs, worker, history, bounds>>

(* The process restarts: the handlers are gone, the tables stay.           *)
Crash ==
    /\ \E c \in Calls : call[c] # Idle
    /\ Fault
    /\ call' = [c \in Calls |-> Idle]
    /\ UNCHANGED <<session, job, emitted, segments, paragraphs, worker, stop, history, failures>>

Step(c) ==
    \/ CompleteCheck(c) \/ CompleteApply(c) \/ CompleteSegment(c) \/ CompleteParagraph(c)
    \/ EmitParagraph(c) \/ EnqueueTranslation(c) \/ CompleteStore(c) \/ FailStore(c)
    \/ CheckTopics(c) \/ FollowUp(c) \/ InsertTopic(c) \/ RequeueTopic(c)
    \/ FinishState(c) \/ FinishCount(c) \/ FinishTail(c)
    \/ FinishTopics(c) \/ FinishClose(c)

Report(w) == \E c \in Calls : SubmitResult(c, w) \/ SubmitFailure(c, w)

Next ==
    \/ \E s \in Segments : EnqueueAsr(s)
    \/ \E w \in Workers : Renew(w) \/ WorkerDies(w) \/ Report(w)
    \/ \E w \in Workers, j \in Jobs : Lease(w, j)
    \/ \E j \in Jobs : Expire(j)
    \/ \E c \in Calls : Step(c) \/ StopRecording(c) \/ StopAgain(c)
    \/ Crash

Spec == Init /\ [][Next]_vars

(* Workers poll and report, handlers run on, abandoned leases run out and a
   client without a reply to its stop repeats it.                          *)
Fairness ==
    /\ \A w \in Workers : WF_vars(\E j \in Jobs : Lease(w, j)) /\ SF_vars(Report(w))
    /\ \A c \in Calls : WF_vars(Step(c))
    /\ \A j \in Jobs : WF_vars(Abandoned(j) /\ Expire(j))
    /\ SF_vars(\E c \in Calls : StopAgain(c))

FairSpec == Spec /\ Fairness

-----------------------------------------------------------------------------
(* Properties *)

(* Types of the queue, and its bookkeeping: a row has an owner exactly while
   it is leased, a free lane waits for no reply.                           *)
JobsTypeOK ==
    /\ session \in {"recording", "processing"} \cup Closed
    /\ \A j \in Jobs :
         /\ job[j].status \in {"absent"} \cup Open \cup Settled
         /\ job[j].owner \in Workers \cup {None} /\ job[j].attempts \in 0..MaxLeases
         /\ (job[j].owner = None) <=> (job[j].status # "leased")
         /\ job[j].overdue => job[j].status = "leased"
         /\ job[j].transient => j.kind = "topic" /\ job[j].status = "failed"
    /\ segments \subseteq Segments /\ paragraphs \in Seq(Paragraphs)
    /\ \A w \in Workers : worker[w].submitted => worker[w].job \in Jobs
    /\ stop \in {"none", "asked", "done"}

(* Whoever reports, and however late: a job that has settled stays as it is,
   so the answer of a worker that lost its lease changes nothing (the WHERE
   clauses of complete_model_job and retry_or_fail_model_job).  A failed
   topic window may be queued anew, and only that, when its failure was of a
   transient kind.                                                         *)
SettledStays ==
    [][\A j \in Jobs : job[j].status \in Settled =>
         \/ job'[j] = job[j]
         \/ /\ j.kind = "topic" /\ job[j].status = "failed" /\ job[j].transient
            /\ job'[j].status = "queued"]_vars

(* The result kept with a job is the one its event shows to the course, with
   two attempts of the same job in flight as well: the queue and the log
   never disagree on which recognition of a window counts.  A silent window
   is announced under a key of its own.                                    *)
ResultMatchesEvent ==
    \A j \in Jobs :
        job[j].status = "completed" =>
            job[j].event \in EventsOf(j) /\ emitted[job[j].event] = job[j].result

(* The window was recognised, and there was speech in it.                  *)
Spoken(s) == job[Asr(s)].status = "completed" /\ job[Asr(s)].event = Asr(s)

(* A session is closed only when every window that was queued while it still
   recorded has been recognised or given up, and then every such window with
   speech is part of a paragraph: the tail of a lecture is not left out
   (finish_session_if_drained).  A window that is queued later, by the
   background assembler or the recovery, waits for nobody.                 *)
ClosedIsRecognised ==
    session \in Closed =>
        \A s \in Segments \ late :
            /\ job[Asr(s)].status \notin Open
            /\ Spoken(s) => \E g \in Shown : s \in g

(* A topic window that failed for good stays the first run without a group,
   and nothing behind it is grouped any more.                              *)
Stuck(j) == job[j].status = "failed" /\ ~job[j].transient

(* A session completes only when every window of its recording with speech
   is in a content group, unless a topic job failed for good or the closing
   request was outrun by another that queued a topic job after its count:
   the paragraphs left when the stop comes, however many topic windows they
   need, and those that another request appends meanwhile, are not left out
   of the lesson (finish_session_if_drained with topics::enqueue_pending). *)
CompletedIsGrouped ==
    session = "completed" /\ ~outrun /\ (\A j \in TopicJobs : ~Stuck(j)) =>
        \A s \in Segments \ late : Spoken(s) => \E g \in Shown : s \in g /\ Grouped(g)

(* No window is shown in two paragraphs, although the paragraph is chosen
   from a log that other requests append to meanwhile.  The code does not
   keep this: of two requests that recognise windows side by side, one may
   choose {1} and the other {1, 2} before either paragraph is in the log
   (jobs.rs 1783-1868).                                                    *)
ParagraphsDisjoint == \A g, h \in Shown : g # h => g \cap h = {}

(* "Once audio, captions and translations have drained, the session can be
   completed" (CHANGELOG.md 321): processing is not where a session stays.
   It holds while the process does not crash and the topic model answers.  *)
ProcessingSettles == session = "processing" ~> session \in Closed

(* Every paragraph is translated, or its translation given up, in the end. *)
ParagraphsAreTranslated ==
    \A g \in Paragraphs : g \in Shown ~> job[Translate(g)].status \in Settled

(* "model_queue_drained": true (jobs.rs 1226, the payload of
   session.completed): nothing is queued or leased when a session completes. *)
DrainedWhenCompleted ==
    [][session # "completed" /\ session' = "completed" =>
         \A j \in Jobs : job[j].status \notin Open]_vars

(* "A stable UUID turns a retried model completion into the same append-only
   event" (app.rs 97): a job whose event is in the log does not end failed. *)
RetriedCompletionAccepted ==
    \A j \in Jobs : job[j].status = "failed" => emitted[j] = 0

(* The same line of app.rs, for a window of audio: the course is told of its
   text or of its silence, not of both.                                    *)
OneResultShown ==
    \A s \in Segments : emitted[Asr(s)] = 0 \/ emitted[NoSpeech({s})] = 0
==============================================================================
