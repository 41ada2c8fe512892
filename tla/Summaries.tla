------------------------------ MODULE Summaries -----------------------------
(***************************************************************************)
(* The course summary (jobs.rs).  A summary is made from a snapshot of the *)
(* course: its recording run, its recognised paragraphs and the teaching   *)
(* cards (explanations) that are the latest of their group.  The snapshot  *)
(* is the idempotency key of the summary job, so there is one job for a    *)
(* snapshot; a job whose snapshot is no longer current ends without a      *)
(* summary and queues the current one.                                     *)
(*                                                                         *)
(* enqueue_summary is called when the course finishes, by the user, by a   *)
(* new teaching card after a failure and by a superseded job.  It reads    *)
(* the events and then writes, without a lock, so each caller is a process *)
(* of its own.  What the page shows is the last summary event of the run   *)
(* (summaryStatus.ts).                                                     *)
(***************************************************************************)
EXTENDS Naturals, FiniteSets, SequencesExt, FiniteSetsExt

CONSTANTS
    Groups,         \* the content groups of the course
    MaxCards,       \* bound on the teaching cards of one group
    MaxRuns,        \* bound on the recording runs
    MaxSummaryAttempts, \* retry_or_fail_model_job: attempts of a summary
    MaxManual,      \* bound on the summaries asked for by the user
    MaxSummaryFaults,   \* bound on the failed attempts of summaries and the crashes
    MayCorrect      \* the user may correct the transcript

ASSUME SummariesAssumption ==
    /\ Groups # {} /\ IsFiniteSet(Groups) /\ MayCorrect \in BOOLEAN
    /\ {MaxCards, MaxRuns, MaxSummaryAttempts, MaxManual, MaxSummaryFaults} \subseteq Nat

VARIABLES
    state,      \* the session: "recording", "processing" or "completed"
    run,        \* latest_recording_run
    cards,      \* the number of teaching cards of each group
    open,       \* the groups whose explanation job is open
    revised,    \* transcript.corrected is in the log
    jobs,       \* the summary jobs, by key
    created,    \* keys whose session.summary.created is in the log
    failedKeys, \* keys whose session.summary.failed is in the log, in order
    shown,      \* what the page shows of the current run
    callers,    \* enqueue_summary, at each of its callers
    summarizer, \* the worker on summaries, and its request's handler
    manual, failed, crashes

summaryVars == <<state, run, cards, open, revised, jobs, created, failedKeys, shown,
          callers, summarizer, manual, failed, crashes>>
course == <<state, run, cards, open, revised>>
log == <<created, failedKeys>>
budgets == <<manual, failed, crashes>>

-----------------------------------------------------------------------------
Callers == {"finish", "manual", "teaching", "superseded"}
Runs == 0 .. MaxRuns
Keys == [run : Runs, cards : [Groups -> 0 .. MaxCards]]
NoKey == [run |-> 0, cards |-> [g \in Groups |-> MaxCards + 1]]
Resting == [at |-> "idle", key |-> NoKey]
NoJob == [status |-> "none", attempts |-> 0, revised |-> FALSE]

SummariesInit ==
    /\ state = "recording" /\ run = 0
    /\ cards = [g \in Groups |-> 0] /\ open = {} /\ revised = FALSE
    /\ jobs = [k \in Keys |-> NoJob]
    /\ created = {} /\ failedKeys = <<>> /\ shown = "idle"
    /\ callers = [c \in Callers |-> Resting]
    /\ summarizer = Resting
    /\ manual = 0 /\ failed = 0 /\ crashes = 0

-----------------------------------------------------------------------------
(* Reading the log *)
SnapshotKey == [run |-> run, cards |-> cards]
SummaryExists(k) == k \in created

(* Mutant: a summary of an earlier run counts *)
HasSummaryEver == created # {}

HasSummaryForRun == \E k \in created : k.run = run

CardsCover == \A g \in Groups : cards[g] > 0
CardCount == MapThenSumSet(LAMBDA g : cards[g], Groups)
GroupsIn(k) == Cardinality({g \in Groups : k.cards[g] > 0})

(* The last failure of this run *)
LastFailure ==
    LET at == SelectLastInSeq(failedKeys, LAMBDA k : k.run = run) IN
    IF at = 0 THEN NoKey ELSE failedKeys[at]

(* Mutant: the page takes the last summary event of any run *)
ShowAnyRun(k, phase) == shown' = phase

(* The page takes the last summary event that carries its run. *)
Show(k, phase) == shown' = IF k.run = run THEN phase ELSE shown

-----------------------------------------------------------------------------
(* enqueue_summary: read the events, write the job, announce it *)
CallerAt(c, at) == callers[c].at = at
GoTo(c, at, k) == callers' = [callers EXCEPT ![c] = [at |-> at, key |-> k]]
Rest(c) == callers' = [callers EXCEPT ![c] = Resting]

(* A summary of this snapshot exists: the call is refused. *)
Read(c) ==
    IF SummaryExists(SnapshotKey) THEN GoTo(c, "refused", NoKey)
    ELSE GoTo(c, "insert", SnapshotKey)

(* Mutant: a completed job is queued again *)
InsertAlways(k) ==
    jobs' = [jobs EXCEPT ![k] = IF @.status \in {"queued", "leased"} THEN @
                                ELSE [NoJob EXCEPT !.status = "queued"]]

(* A job made for the snapshot stands; a failed one is reopened with the   *)
(* input it was made with.  The input holds the recognised paragraphs.     *)
InsertJob(k) ==
    jobs' = [jobs EXCEPT ![k] =
        IF @.status = "none" THEN [NoJob EXCEPT !.status = "queued"]
        ELSE IF @.status = "failed" THEN [@ EXCEPT !.status = "queued", !.attempts = 0]
        ELSE @]

Insert(c) ==
    /\ CallerAt(c, "insert")
    /\ LET k == callers[c].key IN
       /\ InsertJob(k)
       /\ IF jobs[k].status = "completed" THEN GoTo(c, "refused", NoKey)
          ELSE IF jobs[k].status = "leased" THEN GoTo(c, "done", NoKey)
          ELSE GoTo(c, "announce", k)
    /\ UNCHANGED <<course, log, shown, summarizer, budgets>>

Announce(c) ==
    /\ CallerAt(c, "announce")
    /\ Show(callers[c].key, "queued")
    /\ GoTo(c, "done", NoKey)
    /\ UNCHANGED <<course, jobs, log, summarizer, budgets>>

Returned(c) == callers[c].at \in {"done", "refused"}

-----------------------------------------------------------------------------
(* The course *)
OpenExplanation(g) ==
    /\ g \notin open /\ cards[g] < MaxCards
    /\ open' = open \cup {g}
    /\ UNCHANGED <<state, run, cards, revised, jobs, log, shown, callers, summarizer, budgets>>

ExplanationFails(g) ==
    /\ g \in open
    /\ open' = open \ {g}
    /\ UNCHANGED <<state, run, cards, revised, jobs, log, shown, callers, summarizer, budgets>>

(* apply_explanation_result: the card, then maybe_retry_summary *)
CreateCard(g) ==
    /\ g \in open /\ CallerAt("teaching", "idle")
    /\ cards' = [cards EXCEPT ![g] = @ + 1]
    /\ open' = open \ {g}
    /\ GoTo("teaching", "carded", NoKey)
    /\ UNCHANGED <<state, run, revised, jobs, log, shown, summarizer, budgets>>

NewEvidence ==
    /\ state = "completed" /\ ~HasSummaryForRun
    /\ LastFailure # NoKey
    /\ CardsCover /\ CardCount > GroupsIn(LastFailure)

RetryAfterExplanation ==
    /\ CallerAt("teaching", "carded")
    /\ IF NewEvidence THEN Read("teaching") ELSE Rest("teaching")
    /\ UNCHANGED <<course, jobs, log, shown, summarizer, budgets>>

AskForSummary ==
    /\ CallerAt("manual", "idle") /\ manual < MaxManual
    /\ manual' = manual + 1
    /\ Read("manual")
    /\ UNCHANGED <<course, jobs, log, shown, summarizer, failed, crashes>>

CorrectTranscript ==
    /\ MayCorrect /\ ~revised /\ revised' = TRUE
    /\ UNCHANGED <<state, run, cards, open, jobs, log, shown, callers, summarizer, budgets>>

Return(c) ==
    /\ c \in {"manual", "teaching"} /\ Returned(c)
    /\ Rest(c)
    /\ UNCHANGED <<course, jobs, log, shown, summarizer, budgets>>

Stop ==
    /\ state = "recording" /\ state' = "processing"
    /\ UNCHANGED <<run, cards, open, revised, jobs, log, shown, callers, summarizer, budgets>>

Resume ==
    /\ state = "completed" /\ run < MaxRuns
    /\ state' = "recording" /\ run' = run + 1 /\ shown' = "idle"
    /\ UNCHANGED <<cards, open, revised, jobs, log, callers, summarizer, budgets>>

(* finish_session_if_drained *)
CourseDrained ==
    /\ open = {} /\ callers["teaching"].at = "idle"
    /\ \A k \in Keys : jobs[k].status \notin {"queued", "leased"}

Finish ==
    /\ state = "processing" /\ CallerAt("finish", "idle") /\ CourseDrained
    /\ IF HasSummaryForRun THEN GoTo("finish", "done", NoKey) ELSE Read("finish")
    /\ UNCHANGED <<course, jobs, log, shown, summarizer, budgets>>

(* Whether or not the summary could be queued, the course is complete. *)
Complete ==
    /\ Returned("finish") /\ Rest("finish")
    /\ state' = IF state = "processing" THEN "completed" ELSE state
    /\ UNCHANGED <<run, cards, open, revised, jobs, log, shown, summarizer, budgets>>

-----------------------------------------------------------------------------
(* The worker *)
Working(at) == summarizer.at = at
Move(at) == summarizer' = [summarizer EXCEPT !.at = at]

LeaseSummary(k) ==
    /\ Working("idle") /\ jobs[k].status = "queued"
    /\ jobs' = [jobs EXCEPT ![k].status = "leased",
                              ![k].attempts = Min({@ + 1, MaxSummaryAttempts})]
    /\ summarizer' = [at |-> "working", key |-> k]
    /\ UNCHANGED <<course, log, shown, callers, budgets>>

(* apply_summary_result asks whether the job's snapshot is the current one *)
CheckSnapshot ==
    /\ Working("working")
    /\ Move(IF summarizer.key = SnapshotKey THEN "apply" ELSE "superseded")
    /\ UNCHANGED <<course, jobs, log, shown, callers, budgets>>

(* The event's key is the job's: a second result for a job that a crash cut *)
(* short is accepted only if it is the same, else the request fails.        *)
Apply ==
    /\ Working("apply")
    /\ IF summarizer.key \in created
       THEN (Move("complete") \/ Move("refused")) /\ UNCHANGED <<created, shown>>
       ELSE /\ Move("complete")
            /\ created' = created \cup {summarizer.key} /\ Show(summarizer.key, "completed")
    /\ UNCHANGED <<course, jobs, failedKeys, callers, budgets>>

(* Mutant: a superseded job just ends *)
DropSuperseded ==
    /\ Working("superseded") /\ CallerAt("superseded", "idle")
    /\ Move("complete")
    /\ UNCHANGED <<course, jobs, log, shown, callers, budgets>>

Supersede ==
    /\ Working("superseded") /\ CallerAt("superseded", "idle")
    /\ IF summarizer.key.run = run /\ ~SummaryExists(SnapshotKey)
       THEN Move("enqueue") /\ Read("superseded")
       ELSE Move("complete") /\ UNCHANGED callers
    /\ UNCHANGED <<course, jobs, log, shown, budgets>>

(* A refused enqueue_summary fails the request too. *)
Superseded ==
    /\ Working("enqueue") /\ Returned("superseded")
    /\ IF CallerAt("superseded", "done") THEN Move("complete") ELSE Move("refused")
    /\ Rest("superseded")
    /\ UNCHANGED <<course, jobs, log, shown, budgets>>

CompleteJob ==
    /\ Working("complete")
    /\ jobs' = [jobs EXCEPT ![summarizer.key].status = "completed"]
    /\ summarizer' = Resting
    /\ UNCHANGED <<course, log, shown, callers, budgets>>

(* The worker whose request was refused reports a failure or goes away. *)
Abandon ==
    /\ Working("refused") /\ summarizer' = Resting
    /\ UNCHANGED <<course, jobs, log, shown, callers, budgets>>

(* fail_job: tried again while attempts are left, else reported *)
FailJob ==
    /\ summarizer.at \in {"working", "refused"} /\ failed + crashes < MaxSummaryFaults
    /\ failed' = failed + 1
    /\ \/ /\ jobs[summarizer.key].attempts < MaxSummaryAttempts
          /\ jobs' = [jobs EXCEPT ![summarizer.key].status = "queued"]
          /\ summarizer' = Resting
       \/ /\ jobs' = [jobs EXCEPT ![summarizer.key].status = "failed"]
          /\ Move("report")
    /\ UNCHANGED <<course, log, shown, callers, manual, crashes>>

(* The event's key is the job's: a job fails once in the log. *)
ReportFailure ==
    /\ Working("report")
    /\ IF Contains(failedKeys, summarizer.key) THEN UNCHANGED <<failedKeys, shown>>
       ELSE failedKeys' = Append(failedKeys, summarizer.key) /\ Show(summarizer.key, "failed")
    /\ summarizer' = Resting
    /\ UNCHANGED <<course, jobs, created, callers, budgets>>

LeaseExpires(k) ==
    /\ jobs[k].status = "leased" /\ ~(summarizer.key = k /\ summarizer.at # "idle")
    /\ jobs' = [jobs EXCEPT ![k].status = "queued"]
    /\ UNCHANGED <<course, log, shown, callers, summarizer, budgets>>

Restart ==
    /\ failed + crashes < MaxSummaryFaults
    /\ crashes' = crashes + 1
    /\ callers' = [c \in Callers |-> Resting]
    /\ summarizer' = Resting
    /\ UNCHANGED <<course, jobs, log, shown, manual, failed>>

Enqueue == \E c \in Callers : Insert(c) \/ Announce(c) \/ Return(c)
Work ==
    \/ \E k \in Keys : LeaseSummary(k) \/ LeaseExpires(k)
    \/ CheckSnapshot \/ Apply \/ Supersede \/ Superseded \/ CompleteJob
    \/ ReportFailure \/ Abandon
Close == Finish \/ Complete
Teach ==
    \/ \E g \in Groups : CreateCard(g) \/ ExplanationFails(g)
    \/ RetryAfterExplanation

SummariesNext ==
    \/ Enqueue \/ Work \/ Close \/ Teach
    \/ \E g \in Groups : OpenExplanation(g)
    \/ AskForSummary \/ CorrectTranscript \/ Stop \/ Resume
    \/ FailJob \/ Restart

SummariesSpec == SummariesInit /\ [][SummariesNext]_summaryVars
SummariesLiveSpec ==
    /\ SummariesSpec
    /\ WF_summaryVars(Enqueue) /\ WF_summaryVars(Work)
    /\ WF_summaryVars(Close) /\ WF_summaryVars(Teach)

-----------------------------------------------------------------------------
(* Every variable has its type; a leased job is the worker's or its lease  *)
(* is running out; a summary belongs to a job that was leased.             *)
SummariesTypeOK ==
    /\ state \in {"recording", "processing", "completed"} /\ run \in Runs
    /\ cards \in [Groups -> 0 .. MaxCards] /\ open \subseteq Groups
    /\ shown \in {"idle", "queued", "failed", "completed"}
    /\ \A k \in Keys : jobs[k].status \in {"none", "queued", "leased", "completed", "failed"}
    /\ created \subseteq {k \in Keys : jobs[k].status # "none"}

(* What the page shows of a summary is about the run it shows, also while  *)
(* jobs of an earlier run are still at work.                               *)
ShownIsOfThisRun ==
    shown # "idle" => \E k \in Keys : k.run = run /\ jobs[k].status # "none"

(* A job that ends without a summary leaves a job for a later snapshot of  *)
(* its run: the course does not silently lose its summary.                 *)
SupersededIsReplaced ==
    \A k \in Keys : jobs[k].status = "completed" /\ k \notin created /\ k.run = run =>
        \E later \in Keys :
            /\ later.run = run /\ later # k
            /\ \A g \in Groups : later.cards[g] >= k.cards[g]
            /\ jobs[later].status # "none"

(* A summary job that is done is never run again, whoever asks for the      *)
(* summary of its snapshot meanwhile.                                       *)
DoneStays ==
    [][\A k \in Keys : jobs[k].status = "completed" => jobs'[k].status = "completed"
      ]_summaryVars

(* A summary of the current snapshot stays on the page.                    *)
SummaryStands ==
    [][shown = "completed" /\ SummaryExists(SnapshotKey) /\ run' = run
          => shown' = "completed"]_summaryVars

(* A card that arrives after a failure and completes the course brings     *)
(* another summary.                                                        *)
TeachingRetries ==
    NewEvidence /\ CallerAt("teaching", "idle") => jobs[SnapshotKey].status # "none"

(* A course that is complete gets a summary of its run, or a failed job    *)
(* that can be asked for again, unless it is resumed first.                *)
CompletedIsSummarised ==
    \A r \in Runs :
        (state = "completed" /\ run = r) ~>
            \/ run # r \/ crashes > 0
            \/ \E k \in Keys : k.run = r /\ (k \in created \/ jobs[k].status = "failed")

(* The last failure of a summary is shown as a failure.                    *)
FailureIsShown ==
    [][Working("report") /\ summarizer'.at = "idle" /\ summarizer.key.run = run /\ crashes' = crashes
          => shown' = "failed"]_summaryVars

(* A failed job that is queued again works on the course as it is now.     *)
ReplayIsFresh ==
    [][\A k \in Keys : jobs[k].status = "failed" /\ jobs'[k].status = "queued"
          => jobs[k].revised = revised]_summaryVars

(* A summary is created only while its snapshot is the current one.        *)
CreatedIsCurrent == [][\A k \in created' \ created : k = SnapshotKey]_summaryVars
=============================================================================
