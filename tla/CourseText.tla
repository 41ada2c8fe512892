----------------------------- MODULE CourseText -----------------------------
(***************************************************************************)
(* One paragraph of the course document and the people who revise it:      *)
(* correct_transcript and correct_translation append revisions to the      *)
(* event log (course_content.rs), each revision of the original queues a   *)
(* retranslation, and the log is read back by two renderings: the          *)
(* ReadWeave note (render_transcript) and the web page (timeline.ts), of   *)
(* which each page has received a prefix.                                  *)
(*                                                                         *)
(* Every query below filters on the paragraph, so one paragraph stands for *)
(* all.  A text is a value; the machine's translation is one value, told   *)
(* apart by the original it was made from.                                 *)
(***************************************************************************)
EXTENDS Naturals, SequencesExt

CONSTANTS
    Pages,          \* browser pages open at the course
    Recognized,     \* the text the paragraph was finalized with
    Texts,          \* the originals it may be given, Recognized among them
    Wordings,       \* the translations people may write
    Machine,        \* the translation a model writes
    Waiting,        \* what is rendered when no translation may be shown
    MaxRevisions,   \* bound on the revisions of the original
    MaxWordings,    \* bound on the revisions of the translation
    MaxFaults       \* bound on lost replies, failed jobs, failed enqueues and crashes

ASSUME CourseTextAssumption ==
    /\ Pages # {} /\ Recognized \in Texts
    /\ Machine \notin Wordings /\ Waiting \notin Wordings \cup {Machine}
    /\ {MaxRevisions, MaxWordings, MaxFaults} \subseteq Nat

VARIABLES
    events,     \* the log of the session, as far as it concerns the paragraph
    jobs,       \* status of the translation job of each revision; 0: of the paragraph
    seen,       \* how much of the log each page has received
    request,    \* the revision form of each page, and where its request stands
    faults

vars == <<events, jobs, seen, request, faults>>

-----------------------------------------------------------------------------
(* The log *)
Fields == {"source", "translation"}
Revisions == 0 .. MaxRevisions
None == [sequence |-> 0, text |-> Waiting, source |-> Waiting]
NoRequest == [pc |-> "idle"]
Form(field) == [pc |-> "editing", field |-> field]

(* The last of the events of the log at the positions I, or None *)
LatestAt(log, I) ==
    IF I = {} THEN None
    ELSE LET e == log[Max(I)] IN
         [sequence |-> e.sequence, text |-> e.text, source |-> e.source]

OfType(log, type) == {i \in DOMAIN log : log[i].type = type}

RevisionType(field) ==
    IF field = "source" THEN "transcript.corrected" ELSE "translation.corrected"

LatestRevision(log, field) == LatestAt(log, OfType(log, RevisionType(field)))

Corrected(log) == LatestRevision(log, "source") # None
Original(log) == IF Corrected(log) THEN LatestRevision(log, "source").text ELSE Recognized

LatestMachine(log) == LatestAt(log, OfType(log, "translation.finalized"))
MachineOf(log, original) ==
    LatestAt(log, {i \in OfType(log, "translation.finalized") : log[i].source = original})

(* The machine translation the server and the note go by: one of the       *)
(* current original; of an original nobody corrected, any.                 *)
CurrentMachine(log) ==
    IF MachineOf(log, Original(log)) = None /\ ~Corrected(log)
    THEN LatestMachine(log) ELSE MachineOf(log, Original(log))

HumanIsCurrent(log) ==
    /\ LatestRevision(log, "translation") # None
    /\ LatestRevision(log, "translation").source = Original(log)

-----------------------------------------------------------------------------
(* The two renderings of the translation *)
(* Mutant: the machine's translation comes first *)
NoteMachineFirst(log) ==
    IF CurrentMachine(log) # None THEN CurrentMachine(log)
    ELSE IF HumanIsCurrent(log) THEN LatestRevision(log, "translation") ELSE None

(* Mutant: without a matching translation the last one is shown *)
NoteAnyMachine(log) ==
    IF HumanIsCurrent(log) THEN LatestRevision(log, "translation")
    ELSE IF CurrentMachine(log) # None THEN CurrentMachine(log) ELSE LatestMachine(log)

NoteShows(log) ==
    IF HumanIsCurrent(log) THEN LatestRevision(log, "translation") ELSE CurrentMachine(log)

PageMachine(log) ==
    IF MachineOf(log, Original(log)) # None THEN MachineOf(log, Original(log))
    ELSE LatestMachine(log)

TranslationStale(log) ==
    /\ ~HumanIsCurrent(log)
    /\ \/ /\ Corrected(log) /\ Original(log) # Recognized
          /\ MachineOf(log, Original(log)) = None
       \/ LatestRevision(log, "translation") # None

PageShows(log) ==
    IF TranslationStale(log) THEN None
    ELSE IF HumanIsCurrent(log) THEN LatestRevision(log, "translation") ELSE PageMachine(log)

View(p) == SubSeq(events, 1, seen[p])

-----------------------------------------------------------------------------
CourseTextInit ==
    /\ events = <<>>
    /\ jobs = [r \in Revisions |-> IF r = 0 THEN "queued" ELSE "none"]
    /\ seen = [p \in Pages |-> 0]
    /\ request = [p \in Pages |-> NoRequest]
    /\ faults = 0

Append1(type, sequence, text, source) ==
    events' = Append(events, [type |-> type, sequence |-> sequence,
                              text |-> text, source |-> source])

-----------------------------------------------------------------------------
(* The page (App.tsx) *)
Follow(p) ==
    /\ seen[p] < Len(events)
    /\ seen' = [seen EXCEPT ![p] = @ + 1]
    /\ UNCHANGED <<events, jobs, request, faults>>

OpenEditor(p, field) ==
    /\ request[p].pc = "idle"
    /\ field = "translation" => PageShows(View(p)) # None
    /\ request' = [request EXCEPT ![p] = Form(field)]
    /\ UNCHANGED <<events, jobs, seen, faults>>

(* The form sends the revision of the page as it is rendered now. *)
Submit(p, text) ==
    /\ request[p].pc = "editing"
    /\ text \in (IF request[p].field = "source" THEN Texts ELSE Wordings)
    /\ request' = [request EXCEPT ![p] =
           [pc |-> "sent", field |-> @.field, text |-> text,
            base |-> LatestRevision(View(p), @.field).sequence, retry |-> FALSE]]
    /\ UNCHANGED <<events, jobs, seen, faults>>

(* The button under an original whose translation is stale *)
RetryTranslation(p) ==
    /\ request[p].pc = "idle" /\ TranslationStale(View(p))
    /\ LET base == LatestRevision(View(p), "source").sequence IN
       request' = [request EXCEPT ![p] =
           [pc |-> "sent", field |-> "source", text |-> Original(View(p)),
            base |-> base, retry |-> TRUE]]
    /\ UNCHANGED <<events, jobs, seen, faults>>

Cancel(p) ==
    /\ request[p].pc = "editing"
    /\ request' = [request EXCEPT ![p] = NoRequest]
    /\ UNCHANGED <<events, jobs, seen, faults>>

(* A refused form, and one whose reply does not arrive, stays open. *)
KeepForm(sent) == IF sent.retry THEN NoRequest ELSE Form(sent.field)
Keep(p) == request' = [request EXCEPT ![p] = KeepForm(@)]

(* The reply to a saved revision closes the form, or is lost. *)
Reply(p) ==
    \/ request' = [request EXCEPT ![p] = NoRequest] /\ UNCHANGED faults
    \/ faults < MaxFaults /\ faults' = faults + 1 /\ Keep(p)

-----------------------------------------------------------------------------
(* The handlers, under sequence_lock up to the insert *)
Sent(p, field) == request[p].pc = "sent" /\ request[p].field = field
EnqueueFor(p, revision) ==
    /\ request' = [request EXCEPT ![p] = [pc |-> "enqueue", field |-> "source",
                                         revision |-> revision, retry |-> @.retry]]
    /\ UNCHANGED faults
Current(p) == LatestRevision(events, request[p].field)

(* Mutant: the revision is not compared *)
AnyBase(p) == TRUE

BaseIsCurrent(p) == request[p].base = Current(p).sequence

Repeats(p) == Current(p) # None /\ Current(p).text = request[p].text

(* The same text again is answered with the revision that holds it, and its *)
(* retranslation is queued again; a revision of something else conflicts.   *)
CorrectTranscript(p) ==
    /\ Sent(p, "source")
    /\ \/ /\ Repeats(p)
          /\ EnqueueFor(p, Current(p).sequence) /\ UNCHANGED events
       \/ /\ ~Repeats(p) /\ ~BaseIsCurrent(p)
          /\ Keep(p) /\ UNCHANGED <<events, faults>>
       \/ /\ ~Repeats(p) /\ BaseIsCurrent(p) /\ Current(p).sequence < MaxRevisions
          /\ Append1("transcript.corrected", Current(p).sequence + 1, request[p].text, Waiting)
          /\ EnqueueFor(p, Current(p).sequence + 1)
    /\ UNCHANGED <<jobs, seen>>

CorrectTranslation(p) ==
    /\ Sent(p, "translation")
    /\ LET same == HumanIsCurrent(events) /\ Repeats(p)
           ready == CurrentMachine(events) # None \/ HumanIsCurrent(events)
       IN \/ /\ same
             /\ Reply(p) /\ UNCHANGED events
          \/ /\ ~same /\ ~(ready /\ BaseIsCurrent(p))
             /\ Keep(p) /\ UNCHANGED <<events, faults>>
          \/ /\ ~same /\ ready /\ BaseIsCurrent(p) /\ Current(p).sequence < MaxWordings
             /\ Append1("translation.corrected", Current(p).sequence + 1,
                        request[p].text, Original(events))
             /\ Reply(p)
    /\ UNCHANGED <<jobs, seen>>

(* Mutant: one job for the paragraph, whatever the revision *)
EnqueueOnce(r) ==
    jobs' = IF \E q \in Revisions \ {0} : jobs[q] # "none" THEN jobs
            ELSE [jobs EXCEPT ![r] = "queued"]

(* The job's key is the revision's event: made once, reopened if it failed *)
EnqueueJob(r) ==
    jobs' = [jobs EXCEPT ![r] = IF @ \in {"none", "failed"} THEN "queued" ELSE @]

(* The request ends whether or not the job could be queued. *)
EnqueueCorrectionTranslation(p) ==
    /\ request[p].pc = "enqueue"
    /\ \/ EnqueueJob(request[p].revision) /\ Reply(p)
       \/ faults < MaxFaults /\ faults' = faults + 1 /\ Keep(p) /\ UNCHANGED jobs
    /\ UNCHANGED <<events, seen>>

-----------------------------------------------------------------------------
(* The translation jobs and the process *)
JobText(r) ==
    IF r = 0 THEN Recognized
    ELSE LatestAt(events, {i \in OfType(events, "transcript.corrected") :
                                events[i].sequence = r}).text

Translate(r) ==
    /\ jobs[r] = "queued"
    /\ jobs' = [jobs EXCEPT ![r] = "completed"]
    /\ Append1("translation.finalized", r, Machine, JobText(r))
    /\ UNCHANGED <<seen, request, faults>>

FailJob(r) ==
    /\ jobs[r] = "queued" /\ faults < MaxFaults
    /\ jobs' = [jobs EXCEPT ![r] = "failed"]
    /\ faults' = faults + 1
    /\ UNCHANGED <<events, seen, request>>

Crash ==
    /\ faults < MaxFaults /\ \E p \in Pages : request[p].pc \in {"sent", "enqueue"}
    /\ request' = [p \in Pages |->
           IF request[p].pc \in {"sent", "enqueue"} THEN KeepForm(request[p]) ELSE request[p]]
    /\ faults' = faults + 1
    /\ UNCHANGED <<events, jobs, seen>>

Handlers ==
    \/ \E p \in Pages : CorrectTranscript(p) \/ CorrectTranslation(p)
                        \/ EnqueueCorrectionTranslation(p)
    \/ \E r \in Revisions : Translate(r)

CourseTextNext ==
    \/ Handlers
    \/ \E p \in Pages : Follow(p) \/ RetryTranslation(p) \/ Cancel(p)
    \/ \E p \in Pages, field \in Fields : OpenEditor(p, field)
    \/ \E p \in Pages, text \in Texts \cup Wordings : Submit(p, text)
    \/ \E r \in Revisions : FailJob(r)
    \/ Crash

CourseTextSpec == CourseTextInit /\ [][CourseTextNext]_vars

-----------------------------------------------------------------------------
(* Every variable has its type; the revisions of each kind are numbered    *)
(* from 1 without gaps in the order of the log, so the latest is the one   *)
(* with the highest number.                                                *)
CourseTextTypeOK ==
    /\ jobs \in [Revisions -> {"none", "queued", "completed", "failed"}]
    /\ \A p \in Pages : seen[p] \in 0 .. Len(events)
    /\ \A field \in Fields :
           LET I == OfType(events, RevisionType(field))
           IN \A i \in I : events[i].sequence = Cardinality({j \in I : j <= i})

(* In the ReadWeave note a translation stands under the original it was    *)
(* made from, however late a job ends and whatever was revised meanwhile.  *)
NoteMatches == NoteShows(events) # None => NoteShows(events).source = Original(events)

(* The same of the web page. *)
PageMatches ==
    \A p \in Pages : PageShows(View(p)) # None => PageShows(View(p)).source = Original(View(p))

Quiescent ==
    /\ \A p \in Pages : request[p].pc \notin {"sent", "enqueue"}
    /\ \A r \in Revisions : jobs[r] \in {"none", "completed"}

(* A revised original does not stay untranslated: once the requests and    *)
(* the jobs are done and nothing failed, the note shows a translation.     *)
RevisedIsTranslated == Quiescent /\ faults = 0 => NoteShows(events) # None

(* Once the page has received everything, it shows what the note shows.    *)
PageAgrees ==
    \A p \in Pages : Quiescent /\ faults = 0 /\ seen[p] = Len(events) =>
        PageShows(View(p)) = NoteShows(events)

(* A revision replaces only what its author's page had been sent.          *)
SeenBeforeReplaced ==
    [][\A field \in Fields : LatestRevision(events', field) # LatestRevision(events, field) =>
           \E p \in Pages : /\ request[p].pc = "sent" /\ request'[p].pc # "sent"
                            /\ LatestRevision(View(p), field) = LatestRevision(events, field)]_vars

(* What a form revises does not change under it: the form is opened on one *)
(* revision and sent with the number of that revision.                     *)
FormStaysCurrent ==
    [][\A p \in Pages : request[p].pc = "editing" /\ request'[p] = request[p] =>
           LatestRevision(View(p), request[p].field) = LatestRevision(View(p)', request[p].field)]_vars

(* A translation somebody wrote for the current original stays in the note *)
(* until the original or the translation is revised: no late result of a   *)
(* model takes its place.                                                  *)
HumanRevisionStands ==
    [][HumanIsCurrent(events) =>
          \/ NoteShows(events') = NoteShows(events)
          \/ \E field \in Fields :
                LatestRevision(events', field) # LatestRevision(events, field)]_vars
=============================================================================
