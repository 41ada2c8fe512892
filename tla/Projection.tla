----------------------------- MODULE Projection -----------------------------
(***************************************************************************)
(* The projection of one course into its ReadWeave notes: the triggers     *)
(* that committed events leave in the queue connector_jobs (app.rs and     *)
(* readweave.rs, enqueue_projection), the single worker that takes the     *)
(* jobs one after another (run_connector_loop, project_job), and the       *)
(* read-merge-write of the managed region of each section note while a     *)
(* user edits the same note in ReadWeave (update_managed_note).            *)
(*                                                                         *)
(* The text of a section is the set of events it shows.  A user's own text *)
(* is a set of numbered edits kept outside the managed region.  Where the  *)
(* notes hang in the remote tree is the module RemoteNotes.                *)
(*                                                                         *)
(* Time is counted in ticks.  BucketTicks is the 30 second bucket of the   *)
(* live trigger; DelayTicks is the 30 second delay of its job.             *)
(***************************************************************************)
EXTENDS Naturals, FiniteSets, Functions

CONSTANTS
    Events,         \* the triggering events of the course
    Final,          \* those that project immediately: the session state events
    SectionCount,   \* the managed section notes, written in this order
    Shows,          \* for each section, the events it has something to say of
    BucketTicks,    \* length of a bucket
    DelayTicks,     \* delay of a live job
    LastStamp,      \* bound: no event is stamped after this tick
    MaxEdits,       \* bound on the texts a user adds to the remote notes
    MaxStrips,      \* bound on the times a user removes the markers of a note
    MaxReconciles,  \* bound on the manual reconciles
    MaxFaults       \* bound on lost requests, lost replies and crashes

Sections == 1 .. SectionCount

ASSUME ProjectionAssumption ==
    /\ Final \subseteq Events
    /\ SectionCount \in Nat \ {0}
    /\ Shows \in [Sections -> SUBSET Events]
    /\ BucketTicks \in Nat \ {0}
    /\ BucketTicks <= DelayTicks   \* both are 30 seconds
    /\ {DelayTicks, LastStamp, MaxEdits, MaxStrips, MaxReconciles,
         MaxFaults} \subseteq Nat

VARIABLES
    clock,      \* Utc::now
    emitter,    \* where the writer of each event is in emit / enqueue_projection
    stamp,      \* ingested_at of each event
    key,        \* the idempotency key the writer of each event computed
    jobs,       \* connector_jobs by idempotency key
    worker,     \* run_connector_loop and project_job
    note,       \* the remote content of each section
    revised,    \* the user edits that some revision of a section holds
    copies,     \* the bodies of the recovery notes of each section
    recovered,  \* the sections whose recovery note is mapped locally
    edits,      \* how many texts the user added
    strips,     \* how often the user removed markers
    exposed,    \* history: edits made between a revision and its PUT
    forgotten,  \* history: events whose writer died before its trigger
    overtaken,  \* history: final events keyed by another, later stamped, event
    orphaned,   \* history: sections whose recovery note was created but not mapped
    asked,      \* manual reconciles so far
    faults      \* faults so far

writers == <<emitter, stamp, key>>
remote == <<note, revised, copies, recovered>>
history == <<exposed, forgotten, overtaken, orphaned>>
user == <<edits, strips>>
vars == <<clock, writers, jobs, worker, remote, user, history, asked, faults>>

-----------------------------------------------------------------------------
Keys == ({"bucket"} \X (0 .. LastStamp + DelayTicks))
            \cup ({"final"} \X Events) \cup {<<"manual", 0>>}

Inserted == {e \in Events : emitter[e] \in {"inserted", "keyed", "told"}}
Writing == {e \in Events : emitter[e] \in {"stamped", "inserted", "keyed"}}

(* list_events orders by ingested_at, then by event id; the ids of this     *)
(* model carry no order, so among equal stamps any event may be last.       *)
Latest(E) == {e \in E : \A f \in E : stamp[f] <= stamp[e]}

Jobs == DOMAIN jobs
Open == {k \in Jobs : jobs[k].status \in {"queued", "leased"}}
Ended == {k \in Jobs : jobs[k].status \in {"completed", "conflict"}}
Due == {k \in Jobs : jobs[k].status = "queued" /\ jobs[k].available <= clock}

NoCopy == [marked |-> FALSE, body |-> {}, aside |-> {}]
Idle == [at |-> "idle", job |-> <<"none", 0>>, seen |-> {}, section |-> 1, copy |-> NoCopy]

(* The note a first projection leaves: the managed region around an empty body *)
ProjectionInit ==
    /\ clock = 0
    /\ emitter = [e \in Events |-> "none"]
    /\ stamp = [e \in Events |-> 0]
    /\ key = [e \in Events |-> <<"none", 0>>]
    /\ jobs = <<>>
    /\ worker = Idle
    /\ note = [s \in Sections |-> [marked |-> TRUE, body |-> {}, aside |-> {}]]
    /\ revised = [s \in Sections |-> {}]
    /\ copies = [s \in Sections |-> {}]
    /\ recovered = {}
    /\ edits = 0 /\ strips = 0
    /\ exposed = {} /\ forgotten = {} /\ overtaken = {} /\ orphaned = {}
    /\ asked = 0
    /\ faults = 0

-----------------------------------------------------------------------------
(* The queue.  INSERT OR IGNORE: a key that was used once, whatever became  *)
(* of its job, is never queued again.                                       *)
EnqueueConnectorJob(k, available) ==
    jobs' = IF k \in Jobs THEN jobs
            ELSE [j \in Jobs \cup {k} |->
                    IF j = k THEN [status |-> "queued", available |-> available,
                                   created |-> Cardinality(Jobs), ended |-> 0]
                    ELSE jobs[j]]

WithStatus(js, k, status) == [js EXCEPT ![k].status = status]

(* Time passes; it waits for a writer only so that the bound LastStamp is a *)
(* bound on the events and not on their triggers.                           *)
Tick ==
    /\ clock < LastStamp \/ (Writing = {} /\ clock < LastStamp + DelayTicks)
    /\ clock' = clock + 1
    /\ UNCHANGED <<writers, jobs, worker, remote, user, history, asked, faults>>

(* The writer of an event stamps it, inserts it, then computes the key of   *)
(* its projection and enqueues it: four calls, between which other writers  *)
(* and the worker run.                                                      *)
Stamp(e) ==
    /\ emitter[e] = "none" /\ clock <= LastStamp
    /\ emitter' = [emitter EXCEPT ![e] = "stamped"]
    /\ stamp' = [stamp EXCEPT ![e] = clock]
    /\ UNCHANGED <<clock, key, jobs, worker, remote, user, history, asked, faults>>

InsertEvent(e) ==
    /\ emitter[e] = "stamped"
    /\ emitter' = [emitter EXCEPT ![e] = "inserted"]
    /\ UNCHANGED <<clock, stamp, key, jobs, worker, remote, user, history, asked, faults>>

(* Mutant: an immediate projection uses the key of the bucket, too *)
KeyByBucket(e) ==
    /\ emitter[e] = "inserted"
    /\ emitter' = [emitter EXCEPT ![e] = "keyed"]
    /\ key' = [key EXCEPT ![e] = <<"bucket", clock \div BucketTicks>>]
    /\ UNCHANGED <<clock, stamp, jobs, worker, remote, user, history, asked, faults>>

ProjectionKey(e) ==
    /\ emitter[e] = "inserted"
    /\ emitter' = [emitter EXCEPT ![e] = "keyed"]
    /\ IF e \in Final
         THEN \E anchor \in Latest(Inserted) :
                /\ key' = [key EXCEPT ![e] = <<"final", anchor>>]
                /\ overtaken' = IF anchor = e THEN overtaken ELSE overtaken \cup {e}
         ELSE /\ key' = [key EXCEPT ![e] = <<"bucket", clock \div BucketTicks>>]
              /\ UNCHANGED overtaken
    /\ UNCHANGED <<clock, stamp, jobs, worker, remote, user, exposed, forgotten,
                   orphaned, asked, faults>>

EnqueueProjection(e) ==
    /\ emitter[e] = "keyed"
    /\ emitter' = [emitter EXCEPT ![e] = "told"]
    /\ EnqueueConnectorJob(key[e], clock + (IF e \in Final THEN 0 ELSE DelayTicks))
    /\ key' = [key EXCEPT ![e] = <<"none", 0>>]
    /\ UNCHANGED <<clock, stamp, worker, remote, user, history, asked, faults>>

(* POST .../readweave/reconcile: answered queued whatever the queue did *)
Reconcile ==
    /\ asked < MaxReconciles
    /\ asked' = asked + 1
    /\ EnqueueConnectorJob(<<"manual", 0>>, clock)
    /\ UNCHANGED <<clock, writers, worker, remote, user, history, faults>>

-----------------------------------------------------------------------------
(* The worker *)

(* lease_connector_job: leases that ran out are requeued, then the oldest   *)
(* due job is leased.  The one worker of the deployment is not running a    *)
(* job while it asks, so a leased row it finds is one a dead process left.  *)
Lease ==
    /\ worker.at = "idle"
    /\ \E expired \in SUBSET {k \in Jobs : jobs[k].status = "leased"} :
         LET due == Due \cup expired
         IN \E k \in due :
              /\ \A j \in due : jobs[k].created <= jobs[j].created
              /\ jobs' = [j \in Jobs |->
                            IF j = k THEN [jobs[j] EXCEPT !.status = "leased"]
                            ELSE IF j \in expired THEN [jobs[j] EXCEPT !.status = "queued"]
                            ELSE jobs[j]]
              /\ worker' = [Idle EXCEPT !.at = "listing", !.job = k]
    /\ UNCHANGED <<clock, writers, remote, user, history, asked, faults>>

Here == worker.section
Body(s) == worker.seen \cap Shows[s]

(* Mutant: a live job reads only the events of its own bucket *)
ListBucket ==
    /\ worker.at = "listing"
    /\ worker' = [worker EXCEPT !.at = "reading",
                     !.seen = {e \in Inserted : worker.job[1] = "bucket" =>
                                   stamp[e] \div BucketTicks = worker.job[2]}]
    /\ UNCHANGED <<clock, writers, jobs, remote, user, history, asked, faults>>

(* project_job reads every event of the course once, before it writes *)
ListEvents ==
    /\ worker.at = "listing"
    /\ worker' = [worker EXCEPT !.at = "reading", !.seen = Inserted]
    /\ UNCHANGED <<clock, writers, jobs, remote, user, history, asked, faults>>

(* merge_managed_content: the managed bounds are there, or the note is      *)
(* empty, or it is exactly the body about to be written without its bounds; *)
(* anything else is a conflict.                                             *)
Mergeable(content, body) ==
    \/ content.marked
    \/ content.aside = {} /\ content.body \in {{}, body}

NextSection ==
    IF Here = SectionCount THEN [worker EXCEPT !.at = "closing"]
    ELSE [worker EXCEPT !.at = "reading", !.section = Here + 1]

GetContent ==
    /\ worker.at = "reading"
    /\ LET content == note[Here]
           merged == [marked |-> TRUE, body |-> Body(Here), aside |-> content.aside]
       IN worker' = IF ~Mergeable(content, Body(Here))
                      THEN [worker EXCEPT !.at = IF Here \in recovered THEN "stopping"
                                                 ELSE "copying"]
                    ELSE IF merged = content THEN NextSection
                    ELSE [worker EXCEPT !.at = "revising", !.copy = merged]
    /\ UNCHANGED <<clock, writers, jobs, remote, user, history, asked, faults>>

(* Mutant: the revision is not made before the content is replaced *)
SkipRevision ==
    /\ worker.at = "revising"
    /\ worker' = [worker EXCEPT !.at = "writing"]
    /\ UNCHANGED <<clock, writers, jobs, remote, user, history, asked, faults>>

(* put_content: POST .../revision, then PUT .../content *)
CreateRevision ==
    /\ worker.at = "revising"
    /\ revised' = [revised EXCEPT ![Here] = @ \cup note[Here].aside]
    /\ worker' = [worker EXCEPT !.at = "writing"]
    /\ UNCHANGED <<clock, writers, jobs, note, copies, recovered, user, history, asked, faults>>

PutContent ==
    /\ worker.at = "writing"
    /\ note' = [note EXCEPT ![Here] = worker.copy]
    /\ worker' = NextSection
    /\ UNCHANGED <<clock, writers, jobs, revised, copies, recovered, user, history, asked, faults>>

(* ensure_recovery_note: one mapped copy per section.  Its title carries a  *)
(* digest of its body, so an unmapped copy is found again only by a job     *)
(* with the same body.                                                      *)
CreateRecoveryNote ==
    /\ worker.at = "copying"
    /\ copies' = [copies EXCEPT ![Here] = @ \cup {Body(Here)}]
    /\ worker' = [worker EXCEPT !.at = "mapping"]
    /\ UNCHANGED <<clock, writers, jobs, note, revised, recovered, user, history, asked, faults>>

(* Mutant: the mapping of the recovery note is not kept *)
LoseRecoveryMap ==
    /\ worker.at = "mapping"
    /\ worker' = [worker EXCEPT !.at = "stopping"]
    /\ UNCHANGED <<clock, writers, jobs, remote, user, history, asked, faults>>

MapRecoveryNote ==
    /\ worker.at = "mapping"
    /\ recovered' = recovered \cup {Here}
    /\ worker' = [worker EXCEPT !.at = "stopping"]
    /\ UNCHANGED <<clock, writers, jobs, note, revised, copies, user, history, asked, faults>>

(* complete_connector_job, or retry_connector_job with the status conflict: *)
(* either way the row is never leased again.                                *)
EndJob(status) ==
    /\ jobs' = [jobs EXCEPT ![worker.job].status = status,
                            ![worker.job].ended = Cardinality(Ended) + 1]
    /\ worker' = Idle
    /\ UNCHANGED <<clock, writers, remote, user, history, asked, faults>>

CompleteConnectorJob == worker.at = "closing" /\ EndJob("completed")
StopOnConflict == worker.at = "stopping" /\ EndJob("conflict")

-----------------------------------------------------------------------------
(* Faults *)
Remote == {"reading", "revising", "writing", "copying"}

Retried ==
    /\ faults < MaxFaults
    /\ faults' = faults + 1
    /\ jobs' = WithStatus(jobs, worker.job, "queued")
    /\ worker' = Idle

(* A request fails without effect: the job is requeued.  Its retry delay    *)
(* only postpones it, and the worker of the model may take as long.         *)
RequestLost ==
    /\ worker.at \in Remote
    /\ Retried
    /\ UNCHANGED <<clock, writers, remote, user, history, asked>>

(* A request takes effect and its reply is lost *)
ReplyLost ==
    /\ worker.at \in {"revising", "writing", "copying"}
    /\ Retried
    /\ CASE worker.at = "revising" ->
              /\ revised' = [revised EXCEPT ![Here] = @ \cup note[Here].aside]
              /\ UNCHANGED <<note, copies, orphaned>>
         [] worker.at = "writing" ->
              /\ note' = [note EXCEPT ![Here] = worker.copy]
              /\ UNCHANGED <<revised, copies, orphaned>>
         [] worker.at = "copying" ->
              /\ copies' = [copies EXCEPT ![Here] = @ \cup {Body(Here)}]
              /\ orphaned' = orphaned \cup {Here}
              /\ UNCHANGED <<note, revised>>
    /\ UNCHANGED <<clock, writers, recovered, user, exposed, forgotten, overtaken, asked>>

(* The process dies: the worker's job stays leased, an event that was only  *)
(* stamped is gone, an inserted one keeps its row and loses its trigger     *)
(* (emit_idempotent returns the stored event and does not enqueue again).   *)
Crash ==
    /\ faults < MaxFaults
    /\ faults' = faults + 1
    /\ worker' = Idle
    /\ forgotten' = forgotten \cup Writing
    /\ emitter' = [e \in Events |->
                     IF emitter[e] = "stamped" THEN "gone"
                     ELSE IF e \in Writing THEN "told" ELSE emitter[e]]
    /\ key' = [e \in Events |-> <<"none", 0>>]
    /\ orphaned' = IF worker.at = "mapping" THEN orphaned \cup {Here} ELSE orphaned
    /\ UNCHANGED <<clock, stamp, jobs, remote, user, exposed, overtaken, asked>>

-----------------------------------------------------------------------------
(* The user, in ReadWeave *)
WriteAside(s) ==
    /\ edits < MaxEdits
    /\ edits' = edits + 1
    /\ note' = [note EXCEPT ![s].aside = @ \cup {edits + 1}]
    /\ exposed' = IF worker.at = "writing" /\ Here = s THEN exposed \cup {edits + 1}
                  ELSE exposed
    /\ UNCHANGED <<clock, writers, jobs, worker, revised, copies, recovered, strips,
                   forgotten, overtaken, orphaned, asked, faults>>

Mark(s, marked) ==
    /\ note[s].marked # marked
    /\ note' = [note EXCEPT ![s].marked = marked]
    /\ UNCHANGED <<clock, writers, jobs, worker, revised, copies, recovered, edits,
                   history, asked, faults>>

StripMarker(s) == strips < MaxStrips /\ strips' = strips + 1 /\ Mark(s, FALSE)
RepairMarker(s) == UNCHANGED strips /\ Mark(s, TRUE)

-----------------------------------------------------------------------------
Emit == \E e \in Events :
            Stamp(e) \/ InsertEvent(e) \/ ProjectionKey(e) \/ EnqueueProjection(e)
Work == Lease \/ ListEvents \/ GetContent \/ CreateRevision \/ PutContent
            \/ CreateRecoveryNote \/ MapRecoveryNote \/ CompleteConnectorJob \/ StopOnConflict
User == \E s \in Sections : WriteAside(s) \/ StripMarker(s) \/ RepairMarker(s)

ProjectionNext == Tick \/ Emit \/ Reconcile \/ Work \/ User
                    \/ RequestLost \/ ReplyLost \/ Crash

ProjectionSpec == ProjectionInit /\ [][ProjectionNext]_vars

(* The clock runs, a request that was begun goes on, and the connector loop *)
(* polls every five seconds; nobody has to edit, reconcile or fail.         *)
ProjectionLiveSpec ==
    /\ ProjectionSpec
    /\ WF_vars(Tick)
    /\ WF_vars(Work)
    /\ \A e \in Events :
         WF_vars(InsertEvent(e) \/ ProjectionKey(e) \/ EnqueueProjection(e))

-----------------------------------------------------------------------------
(* What the status card of the page says: connector_status counts a         *)
(* conflict only while no job of the course completed after it, and         *)
(* status_payload puts a conflict before an open job before synced.         *)
ActiveConflicts ==
    {k \in Jobs : jobs[k].status = "conflict" /\
        ~\E r \in Jobs : jobs[r].status = "completed" /\ jobs[r].ended > jobs[k].ended}
SyncStatus ==
    IF ActiveConflicts # {} THEN "conflict" ELSE IF Open # {} THEN "syncing" ELSE "synced"

Shown(e) == \A s \in Sections : e \in Shows[s] => e \in note[s].body

Triggered == {e \in Events : emitter[e] = "told"} \ (forgotten \cup overtaken)

-----------------------------------------------------------------------------
(* Every value stays in its domain; a leased row is the worker's, or one a  *)
(* dead process left.                                                       *)
ProjectionTypeOK ==
    /\ clock \in 0 .. LastStamp + DelayTicks
    /\ emitter \in [Events -> {"none", "stamped", "inserted", "keyed", "told", "gone"}]
    /\ Jobs \subseteq Keys
    /\ worker.section \in Sections /\ worker.seen \subseteq Events
    /\ worker.at # "idle" => worker.job \in Jobs /\ jobs[worker.job].status = "leased"
    /\ \A s \in Sections : note[s].body \subseteq Shows[s] /\ note[s].aside \subseteq 1 .. edits
    /\ recovered \subseteq Sections

(* When the status card says synced, every event whose trigger reached the  *)
(* queue is in every section it belongs to.  The 30 second delay of a live  *)
(* job is what makes it so: the key of a bucket is spent only after the     *)
(* bucket is over, so no event of the bucket can come after the job read    *)
(* the log.  Left out are the events whose process died before the trigger  *)
(* and the final events keyed by a later stamped event.                     *)
SyncedIsTrue == SyncStatus = "synced" => \A e \in Triggered : Shown(e)

(* A user's text outside the managed region is in the note, or in a         *)
(* revision of it, whatever the worker wrote over it in the meantime; only  *)
(* an edit made between the revision and the PUT of one write may be lost.  *)
EditsKept ==
    \A i \in (1 .. edits) \ exposed :
        \E s \in Sections : i \in note[s].aside \cup revised[s]

(* README.en.md:31 and READWEAVE_INTEGRATION.md say more: the projection    *)
(* does not overwrite content outside the managed markers.  The content is  *)
(* read before the revision and the PUT, so an edit in between is replaced. *)
AsideUntouched ==
    [][\A s \in Sections : PutContent => note'[s].aside = note[s].aside]_vars

(* A section whose markers a user removed is left alone until they are back *)
(* and its text is saved once in a recovery note: however many jobs run     *)
(* into the conflict, there is one copy, unless its first creation was not  *)
(* recorded (a lost reply or a crash).                                      *)
OneRecoveryNote ==
    \A s \in Sections \ orphaned : Cardinality(copies[s]) <= 1

(* What the sections show never goes back: a projection writes the events   *)
(* of a log that only grows, so no later write shows less than an earlier   *)
(* one, also after retries and restarts.                                    *)
NeverShowsLess ==
    [][\A s \in Sections : note[s].body \subseteq note'[s].body]_vars

(* A job that is in the queue ends, completed or in conflict, also one that *)
(* a dead process left leased.                                              *)
JobsEnd == \A k \in Keys : (k \in Open) ~> (k \in Ended)

(* READWEAVE_INTEGRATION.md says a user who repaired the markers can start  *)
(* a full reconcile, and the route answers queued: a job is then open.  The *)
(* key of the manual reconcile is the same every time.                      *)
ReconcileIsQueued == [][Reconcile => Open' # {}]_vars

=============================================================================
