# A verification development of AIALRA Live Translate

These TLA+ modules model the parts of the program on which a lecture depends:
the lease that lets exactly one device record, the path of an audio frame into
a recognition window, the append-only event log and its live stream, the queue
of model jobs that ends a recording, the course summary, the corrections people
make to the text, the workspace with its recycle bin, and the projection of all
this into ReadWeave notes. TLC checks every module on small
instances; TLAPS proves the central results for every value of the constants.
All source paths below are relative to the repository.

## 1. The system

One Rust process (`crates/core-server`, axum on a multi-threaded tokio runtime)
serves browsers, an Android recorder and GPU workers. Its state is one SQLite
database behind one `Mutex<Connection>` (`crates/event-store`). Each **store
call is atomic**; a **handler makes several** of them, and between two calls any
other handler, the clock or a restart may come. That is the
grain of all models here: one action per store call.

| Component | State | Operations | Made correct by |
|---|---|---|---|
| Session life cycle (`core-domain`, `event-store`) | `sessions.state` | `transition_session`, reopening by a lease | only the table's transitions; closed sessions stay closed |
| Recording lease (`event-store` 1600-1718) | row of `recording_leases` per project | acquire, renew, validate, release, removal with a purge | one recorder at a time, fencing generations, dead tokens stay dead |
| Recording handlers (`projects.rs`, `audio.rs`, `workspace.rs`) | requests in flight, the client's credential | acquire, renew, frame, stop, trash, purge | a stop is not undone, and is not left half done |
| Audio ingestion (`audio.rs`, `apps/web/src/audio.ts`) | outbox, `audio_chunks`, cursor, windows, ASR jobs, wake channel | `persist_frame`, `assemble_source`, recovery, flush | no frame lost, no audio recognised twice, the tail is sealed |
| Event log (`app.rs`, `event-store`) | `events`, `sequence_lock`, broadcast channel | `emit`, `emit_idempotent`, `persist_frame` | dense sequences, durable before visible |
| Event stream (`api.rs`) | per connection: position, watermark, cursor | subscribe, snapshot, replay, follow, lag, reconnect | every event arrives, none is skipped or repeated |
| Model jobs (`jobs.rs`, `topics.rs`, `workers/gpu_agent`) | `model_jobs`, result events, paragraphs | enqueue, lease, renew, complete, fail, finish | settled jobs stay; a session closes, and only when drained |
| Summaries and teaching cards (`jobs.rs`, `summaryStatus.ts`) | summary jobs by snapshot key, `session.summary.*` events | enqueue, requeue on request, apply, supersede, fail, finish | the summary shown is of the current run; a dropped result is replaced |
| Corrections (`course_content.rs`, `timeline.ts`, `render_transcript`) | revisions in the log, translation jobs, what a page has received | correct original or translation, retranslate, render | no revision replaced unseen; a translation stands under its own original |
| ReadWeave projection (`readweave.rs`, `connector_jobs`) | connector jobs, section notes, revisions, recovery notes | trigger, lease, read-merge-write, reconcile | synced means synced; the user's text survives |
| ReadWeave tree (`readweave.rs`, `remote_object_maps`) | a note's branches and title, map and detail rows | find or create, rename, move, delete | a lost reply creates nothing twice; a moved note is never without a place |
| Workspace (`workspace.rs`, `event-store`) | folders, placements, archive marks, recycle bin | create, move, edit, archive, trash, restore, purge | folders stay a tree, nothing archived is lost, nothing alive is deleted |
| Explanation content, projects, pairing, notes and questions, identity, DingTalk, worker status, assets | rows of their own | mostly single store calls | idempotency keys, single use |
| Web and Android clients | outbox, credential, `Last-Event-ID`, drafts | capture, resend, stop, reconnect, correct | drop nothing unacknowledged |

Interactions: HTTP requests and WebSocket frames enter the core; the core talks
to browsers over three broadcast channels (session events, project updates,
workspace updates) read by SSE handlers; workers poll for jobs, renew and
report; the audio socket wakes a background assembler over a lossy broadcast
channel; every other exchange goes through the database.

What is hard here: handlers interleave at every store call; two callers run
`assemble_source` on the same source; `emit` takes the sequence lock only for
reading and an audio frame drops it before its event is sent; a worker reports after its lease has gone to another; the process can
stop between any two calls and only audio assembly is recovered at startup
(`main.rs`); clients repeat what had no reply. `PROJECT.json` lists the places
under `hazards`, with the properties that cover each.

## 2. Modules

```
SessionStates ── RecordingLease ── RecordingHandlers ── MCRecordingHandlers
                  │  (INSTANCE)          │
                  LeaseAuthority         RecordingProofs
EventLog ── EventStream ── MCEventStream      Workspace   ── MCWorkspace
              EventStreamProofs                 WorkspaceProofs
AudioAssembly ── MCAudioAssembly              Projection  ── MCProjection
  │ (INSTANCE)                                  ProjectionProofs
  HeardAudio, AudioAssemblyProofs
ModelJobs     ── MCModelJobs                  RemoteNotes ── MCRemoteNotes
  ModelJobsProofs                               RemoteNotesProofs
CourseText    ── MCCourseText                 Summaries
  CourseTextProofs                              ModelJobsProofs
```

Each `...Proofs` module extends the module above it and holds its theorems;
`ModelJobsProofs` extends two, the queue and its user, the summaries.
`Summaries` needs no module for TLC: `MCSummaries.cfg` instantiates it.

**SessionStates** is `SessionState::transition` as a relation.

**RecordingLease** is the lease row of one project with the store's functions as
actions: `Acquire` (its generation is `NextGeneration`, one above the row's and
above all recorded `session.recording.started` events), `Renew` (which does not
look at the expiry), `Validates`, `Release` (expires the row and blanks the
token, keeping the generation), `Purge` (deletes the row if it names the purged
course), `Advance` (`transition_session`) and `RecordStarted`. The clock counts
ticks; `issued` and `epoch` are history. `Legacy` lets the recorded history
start with generations of an older release.

**LeaseAuthority** says what that table promises: an owner, valid or lapsed, and
a fence that rises with each grant. `RecordingLease!ImplementsAuthority` maps the
row to it.

**RecordingHandlers** composes the lease with the requests that use it: `req`
is the program counter of each request, `cred` what each client keeps. Acquire is
`AcquireBegin/Grant/Start/Announce/Reply`; stop is `StopBegin/Validate/
Transition/Flush/Processing/Release/Finish/Reply`; a frame is validated in
`FrameBegin` and stored in `FramePersist`; a purge reads in `PurgeBegin` and
deletes in `PurgeDelete`, with the ReadWeave call in between. `RequestFails` is a
store error or a lost reply, `Crash` a restart. Each step makes at most one call of the
lease table, so `HandlersUseLease` (the handlers refine `LeaseSpec`) is a theorem.

**AudioAssembly** is one source of one session: `Capture` fills the recorder's
outbox, `PersistFrame` is the transaction of frame and event with its
acknowledgement (which may be lost) and the notification. `assemble_source` is
`FindPending`, `ListChunks`, `ReadCursor`, then per window `SupersedePreviews`,
`EnqueueWindow`, `RecordWindow`, or `DropPreviews`, `EnqueuePreview` at an open end;
the background task and all stops run it at once. PCM is abstracted to the set
`Pauses` of frames that end in silence; lengths are in frames. `Crash` sets
`up = FALSE` until the recovery scan has returned, as `main.rs` recovers before it
serves.

**HeardAudio** says what the assembly promises: a recording is handed to speech
recognition in order, without a gap, each durable frame in one job that stands.
`AudioAssembly!ImplementsHearing` maps the stable jobs to it.

**EventLog** has the three kinds of writer a session has. Plain emissions (`EmitBegin`,
`ReadSequence`, `Stamp`, `Insert`, `Send`) hold the lock only for `ReadSequence`; keyed ones
(`KeyedBegin`) from their lookup to `Send`; an audio frame (`FrameBegin`, `persist_frame`)
until it is stored, and it is sent after the lock has been dropped (`audio.rs` 194-196).
`Taken` is the UNIQUE constraint and the primary key. `overtaken` is history: the events that
were stored or sent after one with a later timestamp. **EventStream** adds browsers: `Subscribe`, `Snapshot` (with the
watermark), `Replay`, `Follow`, `FallBehind` (lag), `Drop`, `Restart`. Cursor and
watermark compare timestamps; clock readings are distinct, so the tie-break by
event id is not needed.

**ModelJobs** is the queue of one session: `Lease` requeues overdue leases, then
takes a job; `SubmitResult` and `SubmitFailure` are the worker's reports; the
`Complete*` and `FailStore` steps are the handlers in `jobs.rs`, `FollowUp*` and
`FinishTopics*` those of `topics.rs`; `Finish*` is `finish_session_if_drained`,
run at the end of every report and of every stop. `EnqueueAsr` asks for no state of the session:
the background assembler and the recovery queue windows in any, and `late` is the history of
those queued when the recording was over. A worker returns a text or silence (`EventsOf`), and
silence is announced under a key of its own (`NoSpeech`, `jobs.rs` 576-597). A topic window is
the first run of ungrouped paragraphs, cut where it is full (`IsWindow`; `WindowParagraphs`
stands for 20 paragraphs, `Short` for 4000 bytes); `EnqueuePending` chooses it, `InsertTopic`
and `RequeueTopic` write it, for a translation (`CheckTopics`), after a topic job (`FollowUp`) and
in the finish (`FinishTopics`). `outrun` is the history that a finish closed past a topic job which
another request had queued after its count. The text of an attempt is represented by the attempt's
number: two attempts of a recognition differ in text or elapsed time, two groupings of a window
that is not cut do not. Left out are windows neither full nor forced and the boundaries the model
finds inside a window: only such a boundary groups anything in them.

**Workspace** is one owner's tree. A request is `Begin*`, which reads the store and
decides, and then its one transaction (`Create`, `Move`, `Edit`, `Trash`, `Restore`,
`Purge`) with the guards the transaction itself repeats; `Wipe` is the network call
of a purge between the two. `careless` records that two requests overlapped or that
one named something archived. Names, sort orders and pins are left out; lists of
siblings are kept, because a move checks them again.

**Projection** is one course: `Stamp`, `InsertEvent`, `ProjectionKey`, `EnqueueProjection`
are the four calls between an event and its trigger, `Lease`, `ListEvents`, `GetContent`,
`CreateRevision`, `PutContent`, `CreateRecoveryNote`, `MapRecoveryNote`, `CompleteConnectorJob`
and `StopOnConflict` the worker. The text of a section is the set of events it shows; a
user's text is a set of numbered edits outside the managed region. `RequestLost`,
`ReplyLost` and `Crash` cut an attempt.

**RemoteNotes** is one workspace object and its note: `Search`, `Create`, `Map`,
`PatchTitle`, `FindBranch`, `Attach`, `Detach`, `Remap` are the requests and rows of
`ensure_note` and `ensure_parent_branch`, `BeginPurge`, `FindBranchToPurge` and
`DeleteForPurge` those of `purge_workspace_objects`. Jobs wait in a queue: `Trigger` is one that an event of the
course leaves, `Reconcile` the manual one under its constant key, queued once for ever; `Begin`
takes a job, and each attempt ends with the job done or waiting again (`Ends`, `Retry`, `Passes`).
`due` is history: a job waited at the last change or has been queued since. That ReadWeave deletes a note with
its last branch is taken from how the code uses it.

**CourseText** is one paragraph: `CorrectTranscript` and `CorrectTranslation` are each
one handler up to its append, `EnqueueCorrectionTranslation` its second call; each
page has received a prefix of the log. `NoteShows` is what `render_transcript`
writes, `PageShows` what `buildCourseDocument` shows.

**Summaries** has one process for each caller of `enqueue_summary` (the finish, the
user, a new card, a superseded job), which reads the snapshot and then writes, and
the worker with its report. The key of a job is its snapshot: run and cards. `shown` is
what `summaryStatus.ts` derives from the last summary event of the run. Within a run the snapshot only
grows here; in the code an id of a content group that is used again may, rarely, let it shrink and
so bring an earlier key back, which is not modelled.

Definitions whose comment begins "Mutant" are not part of any behaviour. Each is a
plausible wrong version of the definition that follows; substituted for it, TLC
refutes the property `PROJECT.json` names with it.

## 3. What the runs show

| Run | Configuration | Shows |
|---|---|---|
| `handlers` | `MCRecordingHandlers.cfg` | two requests of two devices at once, one fault: fencing (`GenerationUnique`, `SupersededStaysDead`), a stop is not undone (`StopSticks`) and does not run its closing steps on its own live recording (`ClosingIsNotCapturing`); refinement of the lease table (`HandlersUseLease`) and of the authority (`ImplementsAuthority`) |
| `assembly` | `MCAudioAssembly.cfg` | four frames, the assembler and two stops, a restart and an error: `AckedIsDurable`, `WindowsTile`, `RecoverySealsTail`; a lossy wake channel never leaves a window uncut (`WindowsAreCut`); refinement of `HeardAudio` (`ImplementsHearing`) |
| `stream` | `MCEventStream.cfg` | two plain emissions, a keyed one and an audio frame racing before a browser: `SequencesAreDense`; of the events that no later one has overtaken, none is skipped (`NothingSkipped`) and each arrives (`EventsArrive`) |
| `jobs` | `MCModelJobs.cfg` | late workers, attempts that hear a text or nothing, windows queued in any state, two topic windows, concurrent finishes: `SettledStays`, `ResultMatchesEvent`, `ClosedIsRecognised`, `CompletedIsGrouped` |
| `jobs_live` | `MCJobsLive.cfg` | without crashes and with a working topic model: `ProcessingSettles`, `ParagraphsAreTranslated` |
| `workspace` | `MCWorkspace.cfg` | two requests at once, a course that records, a restart: `Recoverable`, `RestoreAttaches` for all interleavings; `TreeWhenCareful`, `PurgeSparesTheLiving` while requests do not overlap |
| `projection` | `MCProjection.cfg` | a live and a final event, a user who edits and breaks the markers, a fault: `SyncedIsTrue`, `EditsKept`, `OneRecoveryNote`, `NeverShowsLess` |
| `remote_notes` | `MCRemoteNotes.cfg` | moves, renames and a purge against lost requests and replies: `MoveKeepsNote`, `OneNote`, `PurgeLeavesNothing`; a job that waited at the last change, or was queued after it, lets the note follow in the end (`NoteFollows`) |
| `course_text` | `MCCourseText.cfg` | two pages and a late translator: `NoteMatches`, `RevisedIsTranslated`, `SeenBeforeReplaced`, `HumanRevisionStands` |
| `summaries` | `MCSummaries.cfg` (module `Summaries`) | two runs, a card, a correction, a request of the user, a fault: `ShownIsOfThisRun`, `SupersededIsReplaced`, `DoneStays`, `CompletedIsSummarised` |
| `tail_lost`, `purge_order` | `MCTailLost.cfg`, `MCPurgeOrder.cfg` | what two comments say and the code does not do (section 4) |

`MCProjectionLive.cfg` (module `MCProjection`) is kept beside the runs and passes: with
two sections, every projection that was queued ends (`JobsEnd`), also one leased by a
process that died.

The type invariants (`LeaseTypeOK`, `LogTypeOK`, `WorkspaceTypeOK`, and `TypeOK`,
`StreamTypeOK`, `JobsTypeOK`, `ProjectionTypeOK`, `RemoteNotesTypeOK`, `CourseTextTypeOK`,
`SummariesTypeOK`), the inductive invariants of the proofs and the properties of section 5
that no run lists (`TakeoverOnlyAfterExpiry`, `ReopenedOnlyByLease`,
`SequenceFollowsTime`, `SentIsDurable`, `KeyedInOrder`, `KeyedEmissionsSucceed`,
`NoRepeatOnAConnection`, `TranscribedOnce`, `OnePreviewQueued`) hold on the same instances; add the name to the configuration to check
one. `OnePreviewQueued` is of interest with `PreviewEvery = 1`, which has two previews of
one window and takes four times as long.

`CHECK_DEADLOCK FALSE` is set because a recording really ends: the bounded clock,
frames and emissions run out and nothing is left to do.

### Bounds

- `MaxTime`, `TTL`, `MaxLeases` (2, 1, 2): a lease granted, lapsed, renewed late
  and taken over; a third lease repeats this, and uniqueness for any number is
  proved. Two `Requests` give every pair of handlers interleaved; `MaxFaults`
  1: the properties of a stop concern one interrupted step.
- `MaxFrames` 4 with `MinWindow` 2, `MaxWindow` 3 and a pause at 2: a window
  closed by a pause, a tail, and a preview of it. A window closed by its length needs
  a fifth frame: with `MaxFrames` 5 and one stop the same properties hold. `WakeBuffer` 1 makes the
  channel overflow at once; two `Stops` beside the assembler are three
  callers of `assemble_source`. `MaxCrashes`, `MaxErrors` 1.
- `Buffer` 1: the browser lags behind two events; `MaxEvents` 3 of the four tasks give an event
  before, at and after the watermark, and every pair of writers; `MaxDrops`, `MaxCrashes` 1.
- Two `Segments`, in one or two paragraphs; `Short = {}` makes each topic window one paragraph, so
  two paragraphs need two windows, the first of which may fail for good (`MaxAttempts` 1). Two
  speech lanes compete for a job, and `MaxLeases` 2 lets the second take it while the first
  still reports; two `Calls` interleave any two handlers. `MCOneTrouble` bounds what goes wrong at
  once: a fault, a failed run of a model or windows queued late, one kind in a behaviour. All
  of them together, with two attempts, were checked with one segment; a fault and late windows
  with two segments and one speech lane (2.5 million states). `jobs_live` retries (`MaxAttempts`
  2, two failures).
- One folder at the start, a second that may be created inside or beside it, and a
  project with a course have every shape of nesting two folders can have; four requests are
  a creation, a move, a trash and a restore or purge, in every overlap of two of them.
- One live and one final event, one section, one edit, one removal of the markers,
  one manual reconcile and one fault: two jobs of different keys in both orders, and
  a conflict. `SyncedIsTrue` was also checked with two live events (`MCNoFinal`).
- Three parents and two changes: a second move before the first has been carried
  out, and a move back; `MaxFaults` 2: a lost reply in the retry of a lost reply; one `Trigger` and the
  manual reconcile are two jobs, one of which may be done before a change and the other not. Two
  triggers were checked once (4.9 million states).
- Two pages, two revisions of the original and one of the translation: a
  conflict on either field, and a translation made of an older original.
- One group with one card, two runs, one request of the user and one fault: a snapshot
  may change by its run or by its cards while a job is open.

Symmetry is declared over devices and requests, segments, lanes, calls and pages
only in runs without liveness properties.

### Fairness

- Tasks run on (`WF` of `Continue`, `Assemble`, `Receive`, `Proceed`, `Step`):
  tokio polls a ready task.
- The recorder resends its outbox until a frame is acknowledged (`SF` of the
  acknowledged `PersistFrame`: a resend may be lost any number of times, not
  for ever; `audio.ts` retries without limit).
- A client repeats a stop without a reply (`SF` of `StopBegin`, `StopAgain`): the
  recorder keeps its credential until the stop is confirmed. Strong, because a free
  request slot comes and goes.
- Workers poll and report (`WF` of `Lease`, `SF` of `Report`; the loop of
  `gpu_agent/main.py` ends with one of the two reports), an abandoned lease
  runs out with the clock, browsers reconnect (`WF` of `Advance`; EventSource does).
- The connector loop goes on, time passes and a writer finishes its calls (`WF` of `Work`,
  `Tick` and the writer's steps in Projection; `WF` of `Work` in RemoteNotes): the loop
  polls for ever and retries every error but a conflict. In RemoteNotes this works off the jobs
  that wait; that anybody queues one is not assumed.
- In Summaries `WF` of `Enqueue`, `Work`, `Close`, `Teach`: requests under way run on, workers
  poll, cards that are queued are answered. `CompletedIsSummarised` excepts a crash.
- Nothing is assumed of new recordings, new frames, corrections, the model's
  success, or faults. That fairness is adequate in the handlers is shown by
  `StoppingResolves`, which holds with the constants of `MCStoppingStuck.cfg` and
  `MaxFaults = 0`.

## 4. Where the program and its words disagree

Two runs are expected to fail, each with a trace TLC prints:

1. `tail_lost`: `assemble_source` reads the chunk list and then the cursor
   (`audio.rs` 302-312). If the background assembler moves the cursor in
   between, the flush returns early and the tail stays unsealed, against the
   comment at line 229. It is sealed only after a restart.
2. `purge_order`: a purge deletes folders in the reverse of the order of the recycle bin
   (`event-store` 1036-1050), which for folders trashed together is the order of
   their creation. An older folder that was moved into a younger one is deleted after
   its parent; the foreign key refuses that, each time, and the ReadWeave notes
   are gone already (`workspace.rs` 483).

More are reproduced by configurations kept beside the runs
(`tlc -config X.cfg M`); each checks one definition and TLC violates it:

| Configuration, module | Property | What happens |
|---|---|---|
| `MCStoppingStuck.cfg`, `MCRecordingHandlers` | `StoppingResolves` | a stop interrupted between its two transitions (`projects.rs` 602-637) leaves the session in `stopping`; once the lease has run out, repeated stops and acquisitions (958-961) are refused, and startup does not look at it |
| `MCSourceReuse.cfg`, `MCRecordingHandlers` | `SourceNeverReused` | a purge of the course a lease row names deletes the fence (`event-store` 960); if a later start event was lost, another course gets its source id again (`PROJECT_STATE.md` 268 excludes it) |
| `MCLateFrame.cfg`, `MCRecordingHandlers` | `NoWriteAfterTakeover` | lease check and store of a frame are two calls (`audio.rs` 81-91); a takeover fits between (`docs/adr/0009`) |
| `MCStreamSkips.cfg`, `MCEventStream` | `SuppressedWasSeen` | an event stamped before the watermark and inserted after the snapshot is suppressed although never shown (`api.rs` 322-329 against 272-275; `PROJECT_STATE.md` 621) |
| `MCTopicOutage.cfg`, `MCModelJobs` | `ProcessingSettles` | while the topic model is down, each finish requeues the failed window with fresh attempts (`topics.rs` 77, `event-store` 2024-2031), against `docs/CHANGELOG.md` 321 |
| `MCProcessingStuck.cfg`, `MCModelJobs` | `RetriedCompletionAccepted` in its place, as an INVARIANT | an attempt that emitted its event and then lost its lease makes the next, differing attempt fail (`jobs.rs` 666-685 against `app.rs` 97) |
| `MCProcessingStuck.cfg`, `MCModelJobs` | `ProcessingSettles` | a restart between settling the last job and the finish (`jobs.rs` 331-378) leaves the session in processing |
| `MCProcessingStuck.cfg`, `MCModelJobs` | `ParagraphsAreTranslated` in its place | a restart between paragraph event and translation job (`jobs.rs` 1864-1944): nobody queues it again |
| `MCFolderCycle.cfg`, `MCWorkspace` | `FoldersAcyclic` | two moves that each validate before the other writes close a cycle (`workspace.rs` 844-876 excludes it) |
| `MCReconcileIgnored.cfg`, `MCProjection` | `ReconcileIsQueued` | the manual reconcile has one constant key (`readweave.rs` 432), so from the second on nothing is queued while the route answers `queued: true`; moves in the workspace use the same key |
| `MCEditLost.cfg`, `MCProjection` | `AsideUntouched` | a note is read before its revision and its PUT (`readweave.rs` 963-1007); an edit in between is replaced, against `README.en.md` 31. Only an edit between revision and PUT is lost for good (`EditsKept`) |
| `MCTwoPlacements.cfg`, `MCRemoteNotes` | `OnePlacement` | a move cut between the old branch's deletion and the map row leaves the note under two parents when the object moves again (comment `readweave.rs` 896-898) |
| `MCPurgeRefused.cfg`, `MCRemoteNotes` | `PurgeIsRepeatable` | a purge repeated after the notes were deleted is refused (comment `readweave.rs` 1609-1610) |
| `MCNeverRebuilt.cfg`, `MCRemoteNotes` | `NoteIsRebuilt` | a note deleted in ReadWeave answers its title update with 404, and the job is retried for ever (`ARCHITECTURE_MENTAL_MODEL.md` 9) |
| `MCPageMismatch.cfg`, `MCCourseText` | `PageMatches`, and `PageAgrees` in its place | `timeline.ts` 147-162 falls back to the last translation of any original, so the page may show a translation of another text, and differ from the note |
| `MCPageMismatch.cfg`, `MCCourseText` | `FormStaysCurrent` in its place, as a PROPERTY | `App.tsx` 816-825 sends the revision of the current render, not of the one the editor was opened on, so a correction received meanwhile is overwritten without a conflict (`PROJECT_STATE.md` 62) |
| `MCFailureHidden.cfg`, `Summaries` | `FailureIsShown` | the failure event is keyed by the job (`jobs.rs` 433-452); a job queued again by the user that fails again emits nothing, and the page says queued for ever (`PROJECT_STATE.md` 82) |

Further definitions fail with the constants of one of these files when its property
is exchanged: `StoppedTokenIsVoid` (a repeated stop that finds the session closed is
confirmed before it releases the lease, `projects.rs` 551-556), `AllocatedOnce` (two plain
emissions read the same number, `app.rs` 59-65, 79-91; one of them fails),
`DrainedWhenCompleted` (a topic job is queued between count and close, `jobs.rs` 1181-1190),
`OneResultShown` (also with `MCModelJobs.cfg`: an attempt emits its text and loses its lease, the next
hears nothing and completes under the other key, `jobs.rs` 585-597 against `app.rs` 97),
`ParagraphsDisjoint` (with `MCModelJobs.cfg`: two speech lanes report at once, one request
chooses the pending window 1, the other 1 and 2 before that paragraph is in the log; the
keys differ, so window 1 is shown in two paragraphs, `jobs.rs` 1788-1868),
`PurgeOnlyTrashed` (a course restored while the purge waits for ReadWeave), and with
`MCFailureHidden.cfg`: `SummaryStands` (the queued event of a request comes after its
fast worker's summary), `CreatedIsCurrent` (the snapshot is checked before the summary
is emitted), `TeachingRetries` (with `MaxRuns = 0`) and `ReplayIsFresh` (with
`MayCorrect = TRUE`: a requeued job keeps its old input, comment `jobs.rs` 1689-1691).

Five properties hold with an exception or a condition that names such a case. `NothingSkipped` and `EventsArrive`
except events that were overtaken on the way into the log or the channel (`MCStreamSkips.cfg` skips
one). `ClosedIsRecognised` and `CompletedIsGrouped` speak of the windows of the recording: one
that is queued later waits for nobody and nobody for it. `CompletedIsGrouped` also excepts a close
that was `outrun`, and a topic window that failed for good: it stays the first ungrouped run, so
nothing behind it is grouped (`topics.rs` 86-90), and the session completes. `NoteFollows` needs a
job: moving a folder queues none (`workspace.rs` 171-240), and moving a project asks for the
manual reconcile, whose key is used up by the first (`workspace.rs` 315, `readweave.rs` 432).

## 5. What is proved

`RecordingProofs` has three parts. For every `LeaseSpec` behaviour under
`ConstantsAssumption`: types (`TypeCorrect`), `GenerationUnique`,
`SupersededStaysDead`, `TakeoverOnlyAfterExpiry`, `ReopenedOnlyByLease` and that
the table implements `LeaseAuthority`. Uniqueness of generations is not inductive:
a stale row could hand a number out again. `FenceInv` adds that tokens are
unique, that the row's token was granted, and that the row's generation bounds
all generations of the current epoch; a grant is then strictly above all of
them, whichever `started` events were lost. The other properties follow from
`FenceInv` step by step; freshness of tokens (`new_lease_token`) is the only
fact used about the outside.

For any number of requests and faults, additionally
under `HandlerAssumption`: `HandlerIInv`, which says that each token a request or
client holds was granted for the session it names, is inductive;
under it each handler step is one step of `LeaseSpec` or none
(`HandlersImplementLease`). Hence `HandlersAreFenced` transfers uniqueness from
the lease to the handlers without a second proof.

For the same handlers: `StopSticks` and
`ClosingIsNotCapturing`. Neither is inductive. `StopIInv` adds that the token a session
was last stopped with was granted, that no session returns to the states before its
first recording (so whatever captures after a stop was reopened by a
grant, whose token is newer than all), and that a stop which found its
session in `stopping` already counts as closing while it validates.

`EventStreamProofs`, for any tasks, sources and keys under `LogAssumption`:
`LogIInv` is inductive and gives `SequencesAreDense`, `SequenceFollowsTime`,
`SentIsDurable`, `KeyedInOrder`. Density needs the predecessor of a number that
has been read but not inserted (`Numbered`); order of time needs that stored events
below that number are older (`Stamped`); order of the broadcasts of `emit_idempotent` needs that a
keyed emission under way holds the lock (`Exclusive`) and is younger than all of its kind
that were sent (`InTurn`); frames and plain emissions are sent without the lock, and nothing is said of their order.
Whatever is sent or about to be sent after a later event is in `overtaken` (`OvertakenIsRecorded`).
`EventStream` leaves the log's steps as they are, so all this
holds of it, and for any number of browsers `NothingSkipped` follows, whichever writers made the
log: of the events that were not overtaken the log grows at its end, so a
connected browser has what it lacks still to come in its replay or ahead of it in the
channel, and one that lost its connection has all up to its cursor. `KeyedEmissionsSucceed`
needs that what a keyed emission or a frame has read is still current when it inserts
(`Current`): only a plain emission of its source could have changed it. That browsers only read is a
refinement (`StreamsOnlyRead`: `Spec` implies `LogSpec`). `NoRepeatOnAConnection` holds for
plain events as well: no event is in the channel twice (`SentOnce`), and what a connection
has delivered is at or below its watermark or lies behind its position (`Received`).

`AudioAssemblyProofs`, for any frames, pauses, window lengths, callers and faults:
types, `AckedIsDurable`, `WindowsTile`, `TranscribedOnce`, `RecoverySealsTail`. What a
caller has listed and what it reads as the cursor come from different moments, so the
invariant speaks of cuts. Where the window that begins at a frame ends is settled before
anyone can cut it: at the first frame that closes it, or at the last frame of a recording
that has ended. So two callers that begin at one frame cut the same window (`SameEnd`),
and below the cursor every cut begins a window (`CutStarts`); the windows tile because each
caller begins at a cursor it has read. Sealing callers have listed the last frame, because a stop
begins with an empty outbox; during startup only the background task runs, and its list holds
every stored frame above the cursor, hence `RecoverySealsTail`. `ImplementsHearing` follows
with the same lemmas: below the cursor every window has its job, above it there is one place to
begin, so a new job begins after all others (`NewJobIsLast`). `OnePreviewQueued` rests on two
more invariants. `QueueFits`: no window closes within a queued preview, and the background task's list holds
the preview's frames or begins after them; so one that survives `DropPreviews` is the one about
to be queued (`Outlived`). `StopsFit`: a stop lists every frame from its first on to the last,
so it meets the tail, seals it and never offers a preview (`SealedTail`).

`ProjectionProofs`, for any events, sections and bounds under `ProjectionAssumption` (which
has the bucket of the key not longer than the delay of a live job: both are 30 seconds,
`readweave.rs` 408 and 418): types, `EditsKept`, `OneRecoveryNote`, `NeverShowsLess` and
`SyncedIsTrue`. `ProjectionInvariant` bounds what notes show by what jobs have read
(`NotesFit`), keeps a user's text in the note or a revision while a write is under
way (`AsideFits`), and gives a section whose copy was recorded one body and a row
(`CopiesFit`). For `SyncedIsTrue` each event whose trigger ended is shown, superseded, or
covered by a key (`Covers`): its job has read the log after the event, or will. A job of
a bucket becomes available only after the bucket is over, so an event of that bucket can
only meet the job waiting; without the assumption on the two times that is false, and so is the
property.

`CourseTextProofs`, for any pages, texts, revisions and faults: `NoteMatches`,
`RevisedIsTranslated`, `SeenBeforeReplaced`, `HumanRevisionStands`. `TextInvariant` says that
revisions are numbered upwards in the log, that a form sent has as its base a revision its page
had received (`FormsFit`), and that each revision of the original has a job or, while
nothing has failed, a request that is about to queue one; a completed job has left a
translation of its own revision (`JobsFit`). A base that equals the current number
is then the current revision itself, read from the page's prefix of the log (`CutsGrow`). The
last of the four needs no invariant: the rendering reads the latest revisions before any job's result.
`CourseTextTypeOK` rests on `Counted`: the number of a revision is the count of the revisions
of its kind up to it, so numbers have no gaps whoever appends them.

`WorkspaceProofs`, for any folders, projects, courses and requests under
`WorkspaceAssumption`: types (`WorkspaceTypeCorrect`), `Recoverable`, `RestoreAttaches`,
`TreeWhenCareful` and `PurgeSparesTheLiving`.
Types need `SeenPlaces` as well: what a trash or restore has read is written later, so
it must hold places and not ages. `Recoverable` is inductive with them, because
the only writes that archive put the item into the bin or on the shelf in the same transaction, and the only
ones that take it out activate or delete it. `RestoreAttaches` holds of each step, since
`RestoredTo` looks at the parent again in the transaction and not in the bin's reading.
The last two need `Careful`: while requests do not overlap and name nothing archived, what
the one request in flight has read still holds when it writes (`Alone`, `Reads`), each folder's
way up ends at the root (`Rooted`), what is active hangs under what is active (`Attached`),
and what the bin lists is archived with its parent on record (`BinFits`). The way up (`Path`)
is a recursive function of as many steps as there are folders. That it is closed under
parents is shown by counting (`PathCloses`: a set that has not closed has gained a folder in
every step), and that it is the least such set (`PathLeast`) by a first step that leaves a
closed set; so a move changes no way up that does not pass the moved folder.

`ModelJobsProofs`, for any segments, paragraphs, workers, requests and bounds under
`JobsAssumption`: types (`JobsTypeCorrect`), `ResultMatchesEvent`, `ClosedIsRecognised`,
`SettledStays` and `CompletedIsGrouped`. None of them is inductive, since a request writes the row
long after it has read it. `JobsInvariant` adds what a request at each point may rely on (`Fit`):
past `apply` the event it chose holds its own result, because a key is written once; past the
segment event its window is in the log; past the count of the finish the recording is over and
no window of it waits or runs (`Drained`); past the tail each of them with speech is in a
paragraph (`Covered`), and where it closes, in a content group unless a topic job failed for good
or it was outrun (`AllGrouped`). That needs the choice of the window: a finish goes on to close only when nothing
is left ungrouped (`NothingLeft`), the first window failed for good or it was outrun, because the job of an
ungrouped window is never completed (`WindowIsNew`) and so is queued. Those facts last until the close because a window queued after the recording is
not one of those they speak of, and neither log nor groups shrink (`Lasting`, `FactsLast`).
`SettledStays` follows from each step's effect on a row (`RowStep`), proved with the invariant.

The same module, for any content groups, runs, requests and faults under
`SummariesAssumption`: types (`SummariesTypeCorrect`), `ShownIsOfThisRun`,
`SupersededIsReplaced` and `DoneStays`. `SummaryInvariant` says that every job, and what every
caller is about to write, is of a snapshot that has been taken (`JobsTaken`, `CallersTaken`);
that a job stays leased to the worker until its end is stored (`WorkerHolds`), which gives
`DoneStays`; and that a request that drops its result has a snapshot that can never be
current again, while the caller it waits for holds a later one of the same run, or has
queued it (`WorkerDrops`). The successor is named only by that caller's key, which it
forgets when it is done, so the invariant passes it on to the table of jobs (`Replaced`).

`RemoteNotesProofs`, for any parents, titles, notes and faults under the module's
assumption: types (`RemoteNotesTypeCorrect`), `MoveKeepsNote`, `OneNote` and
`PurgeLeavesNothing`. `NoteInvariant` has a part for each. `NotesKept`: until a purge, only
`detaching` takes a parent away, and it is reached with the note already under the new one.
`FoundAgain`: while the object is not moved, renamed or edited in ReadWeave, a note that is
not mapped has the title and the parent the next attempt searches for, so no attempt reaches
`creating` beside a note. `Traced`: in an undisturbed history the note hangs where the map and the
worker's point say, and the purge holds the same note and branch, so its deletions remove all. The queue disturbs none
of them and is typed on its own (`QueueTyped`).

Every safety property a passing run checks is stated by a theorem. Only model-checked: all
liveness (`WindowsAreCut`, `EventsArrive`, `ProcessingSettles`, `ParagraphsAreTranslated`,
`NoteFollows`, `CompletedIsSummarised`, `JobsEnd`), which together with ENABLED is out of the
prover's reach. Induction theorems
whose parameter is an operator cannot be instantiated here, so where a proof needs an
induction (the last of a set of positions, the way up of a folder) it takes the least
counterexample, from the well-foundedness of the numbers. RECURSIVE operators are not used.

## 6. Not modelled, and why

- Interim recognition, asset parsing and topic windows neither full nor forced: jobs of further kinds
  with rules of their own, which do not close a session.
- Explanations: page selection, card content and quality repairs are decisions on text.
  `enqueue_deferred_explanation` is compiled for tests only, so deferred rows come only
  from databases of older releases; their activation is left out.
- User notes and course questions (`course_content.rs`): an outdated draft that is sent
  again may replace a newer version of a note, and a second failure of a requeued
  question is keyed like the first and not shown. Both have the shape of
  `FormStaysCurrent` and `FailureIsShown`, which show it.
- Notes above a session (its project's and folders' notes) follow the same functions as
  the one note of `RemoteNotes`; a path of several is not composed. Rows
  `recovery:...` of the map outlive a purge of their session; nothing reads them.
- Pairing, project creation: single guarded store statements.
- Identity (a header check without state), DingTalk, worker status, the asset store,
  deployment, scripts, user interface: no state that these properties depend on.
- Courses in the target language, text, timing and wording: data.
- Several projects at once: a lease row, a log and a queue belong to one project
  or session, and no operation spans two except the workspace's.

## 7. Plan

1. Done: lease and handlers, log and stream, assembly, jobs, summaries, corrections,
   workspace, projection and remote notes, each with the proofs of its invariants.
2. Composition: `Workspace` with `RemoteNotes` (a purge that deletes notes while another
   course of the project is projected), and `Summaries` with `ModelJobs`.
3. Course questions and interim recognition as jobs of `ModelJobs` (they count in
   `has_failed_non_summary_job`); user notes.
4. The client's recorder state across tabs (`apps/web`), composed with
   `AudioAssembly`; `ModelJobs` fed by the jobs of `HeardAudio`.
5. Proofs: `ParagraphsDisjoint` under the condition that one speech lane reports at a
   time and none is presumed dead, which is what would have to be ensured for it to hold.
