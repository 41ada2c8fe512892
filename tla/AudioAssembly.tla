---------------------------- MODULE AudioAssembly ----------------------------
(***************************************************************************)
(* From the frames a recorder cuts to the windows speech recognition runs  *)
(* on (crates/core-server/src/audio.rs), for one source of one session:    *)
(* the recorder's outbox, the durable manifest of acknowledged frames, the *)
(* assembly cursor, the windows and the ASR jobs.  The background          *)
(* assembler and the flush of every stop request run the same function,    *)
(* assemble_source, at the same time; each of its store calls is a step.   *)
(***************************************************************************)
EXTENDS Naturals

CONSTANTS
    MaxFrames,     \* frames one recording cuts
    Pauses,        \* the frames that end in a sustained silence
    MinWindow,     \* frames before a pause may close a window
    MaxWindow,     \* frames at which a window closes anyway
    PreviewEvery,  \* a preview at every multiple of so many frames
    WakeBuffer,    \* capacity of the audio_pending channel
    Background,    \* the background assembler
    Stops,         \* stop requests in flight at once
    MaxCrashes,    \* bound on restarts of the process
    MaxErrors      \* bound on store calls that answer with an error

ASSUME AssemblyAssumption ==
    /\ MaxFrames \in Nat /\ Pauses \subseteq Nat
    /\ MinWindow \in Nat \ {0} /\ MaxWindow \in Nat /\ MinWindow <= MaxWindow
    /\ PreviewEvery \in Nat \ {0} /\ WakeBuffer \in Nat \ {0}
    /\ Background \notin Stops
    /\ MaxCrashes \in Nat /\ MaxErrors \in Nat

VARIABLES
    captured,  \* frames cut so far; frame n has sequence n
    outbox,    \* frames the recorder still keeps
    ended,     \* the recorder has stopped capturing
    session,   \* sessions.state
    chunks,    \* audio_chunks: the durable, acknowledged frames
    cursor,    \* audio_assembly_cursors, 0 when there is no row
    windows,   \* audio_windows as <<first, last>>
    stable,    \* stable ASR jobs by the window their key names
    previews,  \* interim ASR jobs ever enqueued, by their key
    queued,    \* the interim jobs still queued
    wakes,     \* notifications in the audio_pending channel
    lagged,    \* the channel overran its reader
    run,       \* where each caller of assemble_source is
    up,        \* the process has finished starting
    crashes, errors

recorderVars == <<captured, outbox, ended>>
storeVars    == <<chunks, cursor, windows, stable, previews, queued>>
wakeVars     == <<wakes, lagged>>
faultVars    == <<crashes, errors>>
vars == <<recorderVars, session, storeVars, wakeVars, run, up, faultVars>>

Frames   == 1..MaxFrames
Callers  == Stops \cup {Background}
Windows  == {w \in Frames \X Frames : w[1] <= w[2]}
Span(w)  == w[1]..w[2]
Unsealed == {c \in chunks : \A w \in windows : c \notin Span(w)}

Rest == [pc |-> "idle", seal |-> FALSE, list |-> {}, first |-> 1, last |-> 0]

Init ==
    /\ captured = 0 /\ outbox = {} /\ ended = FALSE
    /\ session = "recording"
    /\ chunks = {} /\ cursor = 0 /\ windows = {}
    /\ stable = {} /\ previews = {} /\ queued = {}
    /\ wakes = 0 /\ lagged = FALSE
    /\ run = [p \in Callers |-> Rest]
    /\ up = TRUE
    /\ crashes = 0 /\ errors = 0

-----------------------------------------------------------------------------
(* The recorder and the audio socket *)

(* queueFrame writes the frame to the durable outbox before it is sent.    *)
Capture ==
    /\ ~ended /\ captured < MaxFrames
    /\ captured' = captured + 1
    /\ outbox' = outbox \cup {captured + 1}
    /\ UNCHANGED <<ended, session, storeVars, wakeVars, run, up, faultVars>>

EndCapture ==
    /\ ~ended /\ captured > 0
    /\ ended' = TRUE
    /\ UNCHANGED <<captured, outbox, session, storeVars, wakeVars, run, up, faultVars>>

(* One notification; a full channel drops the oldest and marks the lag.    *)
Wake ==
    /\ wakes' = IF wakes = WakeBuffer THEN wakes ELSE wakes + 1
    /\ lagged' = (lagged \/ wakes = WakeBuffer)

(* Mutant of PersistFrame: the acknowledgement does not wait for the commit. *)
AcknowledgeFirst(n) ==
    /\ up /\ n \in 1..captured
    /\ chunks' \in {chunks, chunks \cup {n}}
    /\ outbox' = outbox \ {n}
    /\ UNCHANGED <<captured, ended, session, cursor, windows, stable, previews,
                   queued, wakeVars, run, up, faultVars>>

(* persist_frame: the frame and its event in one transaction.  A frame may
   arrive again, and out of order, over an older socket; it is then a
   duplicate.  The acknowledgement may be lost on its way.                 *)
PersistFrame(n) ==
    /\ up /\ n \in 1..captured
    /\ chunks' = chunks \cup {n}
    /\ IF n \in chunks THEN UNCHANGED wakeVars ELSE Wake
    /\ outbox' \in {outbox \ {n}, outbox}
    /\ UNCHANGED <<captured, ended, session, cursor, windows, stable, previews,
                   queued, run, up, faultVars>>

-----------------------------------------------------------------------------
(* assemble_source *)

(* A window closes at a pause once it is long enough, and at MaxWindow.    *)
Closes(f, l) ==
    LET length == (l + 1) - f IN
    length >= MaxWindow \/ (length >= MinWindow /\ l \in Pauses)

(* f..l are all in the list and no window closes before l.                 *)
Grows(list, f, l) == f..l \subseteq list /\ \A m \in f..l : Closes(f, m) => m = l

ClosedAt(list, f, l) == f <= l /\ Grows(list, f, l) /\ Closes(f, l)

(* The run of frames from f stops at l without closing: at a gap, or, when
   l ends the list, at the tail a stop may seal.                           *)
OpenAt(list, f, l) ==
    f <= l /\ Grows(list, f, l) /\ ~Closes(f, l) /\ l + 1 \notin list
TailAt(list, f, l) == OpenAt(list, f, l) /\ \A n \in list : n <= l

PreviewDue(f, l) == ((l + 1) - f) % PreviewEvery = 0

Goto(p, pc) == run' = [run EXCEPT ![p].pc = pc]

(* assemble_source returns.  At startup that is the recovery scan, after
   which the process serves requests.                                      *)
Return(p) ==
    /\ run' = [run EXCEPT ![p] = IF p = Background THEN Rest
                                 ELSE [Rest EXCEPT !.pc = "flushed"]]
    /\ up' = TRUE

(* The scan goes on from frame f: seal a window, offer a preview, or end.  *)
Scan(p, f) ==
    LET list == run[p].list IN
    \/ \E l \in Frames :
         /\ ClosedAt(list, f, l) \/ (run[p].seal /\ TailAt(list, f, l))
         /\ run' = [run EXCEPT ![p].pc = "supersede", ![p].first = f, ![p].last = l]
         /\ UNCHANGED up
    \/ \E l \in Frames :
         /\ OpenAt(list, f, l) /\ ~(run[p].seal /\ TailAt(list, f, l))
         /\ IF PreviewDue(f, l)
              THEN /\ run' = [run EXCEPT ![p].pc = "drop", ![p].first = f, ![p].last = l]
                   /\ UNCHANGED up
              ELSE Return(p)
    \/ f \notin list /\ Return(p)

(* Mutant of FindPending: no recovery seals the tail.                      *)
NeverSeals(p) ==
    /\ run[p].pc = "sources"
    /\ IF \E c \in chunks : c > cursor THEN Goto(p, "list") /\ UNCHANGED up ELSE Return(p)
    /\ UNCHANGED <<recorderVars, session, storeVars, wakeVars, faultVars>>

(* list_audio_sources_with_pending_chunks, before a flush or a recovery; a
   recovery seals the tail of a session that no longer captures.           *)
FindPending(p) ==
    /\ run[p].pc = "sources"
    /\ IF \E c \in chunks : c > cursor
         THEN /\ run' = [run EXCEPT ![p].pc = "list",
                                    ![p].seal = @ \/ session # "recording"]
              /\ UNCHANGED up
         ELSE Return(p)
    /\ UNCHANGED <<recorderVars, session, storeVars, wakeVars, faultVars>>

ListChunks(p) ==
    LET list == {c \in chunks : c > cursor} IN
    /\ run[p].pc = "list"
    /\ IF list = {} THEN Return(p)
       ELSE run' = [run EXCEPT ![p].list = list, ![p].pc = "cursor"] /\ UNCHANGED up
    /\ UNCHANGED <<recorderVars, session, storeVars, wakeVars, faultVars>>

(* Mutant of ReadCursor: the scan begins at the first frame of the list.   *)
StartsAtFirst(p) ==
    /\ run[p].pc = "cursor"
    /\ IF \E c \in run[p].list : c <= cursor THEN Return(p)
       ELSE \E f \in run[p].list : (\A c \in run[p].list : f <= c) /\ Scan(p, f)
    /\ UNCHANGED <<recorderVars, session, storeVars, wakeVars, faultVars>>

(* A second read: the other caller may have advanced the cursor since.  A
   list that does not begin right after it is left alone.                  *)
ReadCursor(p) ==
    /\ run[p].pc = "cursor"
    /\ IF \E c \in run[p].list : c <= cursor THEN Return(p) ELSE Scan(p, cursor + 1)
    /\ UNCHANGED <<recorderVars, session, storeVars, wakeVars, faultVars>>

SupersedePreviews(p) ==
    /\ run[p].pc = "supersede"
    /\ queued' = {v \in queued : v[2] > run[p].last}
    /\ Goto(p, "enqueue")
    /\ UNCHANGED <<recorderVars, session, chunks, cursor, windows, stable, previews,
                   wakeVars, up, faultVars>>

EnqueueWindow(p) ==
    /\ run[p].pc = "enqueue"
    /\ stable' = stable \cup {<<run[p].first, run[p].last>>}
    /\ Goto(p, "record")
    /\ UNCHANGED <<recorderVars, session, chunks, cursor, windows, previews, queued,
                   wakeVars, up, faultVars>>

(* Mutant of RecordWindow: the cursor is set, not advanced.                *)
SetCursor(p) ==
    /\ run[p].pc = "record"
    /\ windows' = windows \cup {<<run[p].first, run[p].last>>}
    /\ cursor' = run[p].last
    /\ Scan(p, run[p].last + 1)
    /\ UNCHANGED <<recorderVars, session, chunks, stable, previews, queued,
                   wakeVars, faultVars>>

(* record_audio_window_and_advance; the cursor never moves back.           *)
RecordWindow(p) ==
    /\ run[p].pc = "record"
    /\ windows' = windows \cup {<<run[p].first, run[p].last>>}
    /\ cursor' = IF run[p].last > cursor THEN run[p].last ELSE cursor
    /\ Scan(p, run[p].last + 1)
    /\ UNCHANGED <<recorderVars, session, chunks, stable, previews, queued,
                   wakeVars, faultVars>>

(* maybe_enqueue_preview: older queued previews are replaced ...           *)
DropPreviews(p) ==
    /\ run[p].pc = "drop"
    /\ queued' = {v \in queued : v[2] >= run[p].last}
    /\ Goto(p, "preview")
    /\ UNCHANGED <<recorderVars, session, chunks, cursor, windows, stable, previews,
                   wakeVars, up, faultVars>>

(* ... by this one, unless its key was used before.                        *)
EnqueuePreview(p) ==
    LET v == <<run[p].first, run[p].last>> IN
    /\ run[p].pc = "preview"
    /\ previews' = previews \cup {v}
    /\ queued' = IF v \in previews THEN queued ELSE queued \cup {v}
    /\ Return(p)
    /\ UNCHANGED <<recorderVars, session, chunks, cursor, windows, stable,
                   wakeVars, faultVars>>

Assemble(p) ==
    \/ FindPending(p) \/ ListChunks(p) \/ ReadCursor(p)
    \/ SupersedePreviews(p) \/ EnqueueWindow(p) \/ RecordWindow(p)
    \/ DropPreviews(p) \/ EnqueuePreview(p)

-----------------------------------------------------------------------------
(* The callers *)

(* run_audio_assembler takes one notification, or recovers after a lag.    *)
Receive ==
    /\ up /\ run[Background] = Rest
    /\ \/ /\ lagged /\ lagged' = FALSE
          /\ Goto(Background, "sources")
          /\ UNCHANGED wakes
       \/ /\ ~lagged /\ wakes > 0 /\ wakes' = wakes - 1
          /\ Goto(Background, "list")
          /\ UNCHANGED lagged
    /\ UNCHANGED <<recorderVars, session, storeVars, up, faultVars>>

(* stop_recording.  The recorders send it when their outbox is empty, and
   again when it failed; it leaves the capture and flushes.                *)
StopBegin(p) ==
    /\ up /\ ended /\ outbox = {}
    /\ run[p].pc = "idle"
    /\ session \in {"recording", "stopping"}
    /\ session' = "stopping"
    /\ run' = [run EXCEPT ![p].pc = "sources", ![p].seal = TRUE]
    /\ UNCHANGED <<recorderVars, storeVars, wakeVars, up, faultVars>>

StopEnd(p) ==
    /\ run[p].pc = "flushed"
    /\ session' = "processing"
    /\ run' = [run EXCEPT ![p] = Rest]
    /\ UNCHANGED <<recorderVars, storeVars, wakeVars, up, faultVars>>

(* A store call answers with an error: the caller gives up.                *)
AssemblyFails(p) ==
    /\ up /\ run[p] # Rest /\ errors < MaxErrors
    /\ errors' = errors + 1
    /\ run' = [run EXCEPT ![p] = Rest]
    /\ UNCHANGED <<recorderVars, session, storeVars, wakeVars, up, crashes>>

(* Mutant of Crash: the process starts without the recovery scan.          *)
StartWithoutRecovery ==
    /\ crashes < MaxCrashes
    /\ crashes' = crashes + 1
    /\ wakes' = 0 /\ lagged' = FALSE
    /\ run' = [p \in Callers |-> Rest]
    /\ UNCHANGED <<recorderVars, session, storeVars, up, errors>>

(* The process dies; when it starts again main.rs runs the recovery first. *)
Crash ==
    /\ crashes < MaxCrashes
    /\ crashes' = crashes + 1
    /\ up' = FALSE
    /\ wakes' = 0 /\ lagged' = FALSE
    /\ run' = [p \in Callers |-> IF p = Background THEN [Rest EXCEPT !.pc = "sources"]
                                 ELSE Rest]
    /\ UNCHANGED <<recorderVars, session, storeVars, errors>>

Next ==
    \/ Capture \/ EndCapture
    \/ \E n \in Frames : PersistFrame(n)
    \/ \E p \in Callers : Assemble(p) \/ AssemblyFails(p)
    \/ Receive
    \/ \E p \in Stops : StopBegin(p) \/ StopEnd(p)
    \/ Crash

Spec == Init /\ [][Next]_vars

(* The recorder resends every frame of its outbox until it is acknowledged;
   the tasks of the process run on.                                        *)
Fairness ==
    /\ \A n \in Frames :
         SF_vars(n \in outbox /\ PersistFrame(n) /\ outbox' # outbox)
    /\ \A p \in Callers : WF_vars(Assemble(p))
    /\ WF_vars(Receive)
    /\ \A p \in Stops : WF_vars(StopEnd(p))

FairSpec == Spec /\ Fairness

-----------------------------------------------------------------------------
(* Properties *)

(* The types of the store, of the channel and of the scans.                *)
TypeOK ==
    /\ captured \in 0..MaxFrames /\ outbox \subseteq Frames /\ ended \in BOOLEAN
    /\ session \in {"recording", "stopping", "processing"}
    /\ chunks \subseteq Frames /\ cursor \in 0..MaxFrames
    /\ windows \subseteq Windows /\ stable \subseteq Windows
    /\ previews \subseteq Windows /\ queued \subseteq previews
    /\ wakes \in 0..WakeBuffer /\ lagged \in BOOLEAN
    /\ run \in [Callers -> [pc : {"idle", "sources", "list", "cursor", "supersede", "enqueue",
                                  "record", "drop", "preview", "flushed"},
                            seal : BOOLEAN, list : SUBSET Frames,
                            first : 1..(MaxFrames + 1), last : 0..MaxFrames]]
    /\ up \in BOOLEAN
    /\ crashes \in 0..MaxCrashes /\ errors \in 0..MaxErrors

(* A frame the recorder has dropped from its outbox is durable, whatever
   crashed, arrived twice or lost its acknowledgement (persist_frame).     *)
AckedIsDurable == \A n \in 1..captured : n \in outbox \cup chunks

(* The windows cover exactly the stored frames up to the cursor, each once,
   although two callers of assemble_source read list and cursor apart.     *)
WindowsTile ==
    /\ 1..cursor \subseteq chunks
    /\ \A n \in Frames : n <= cursor <=> \E w \in windows : n \in Span(w)
    /\ \A v, w \in windows : v # w => Span(v) \cap Span(w) = {}

(* No audio is transcribed twice: a crash between the job and the cursor,
   or the other caller, repeats the same window and so the same job key.   *)
TranscribedOnce ==
    /\ windows \subseteq stable
    /\ \A v, w \in stable : v # w => Span(v) \cap Span(w) = {}

(* Whatever callers, restarts and failing calls do, recognition is given the
   recording in order, without a gap and each frame once: what assemble_source
   promises (HeardAudio), the jobs of the queue being those of the promise.  *)
Heard == INSTANCE HeardAudio WITH stored <- chunks, jobs <- stable

ImplementsHearing == Heard!Spec

(* At most one interim snapshot of the source waits for a worker: previews
   never pile up behind a slow GPU (maybe_enqueue_preview).                *)
OnePreviewQueued == \A v, w \in queued : v = w

(* After a restart the audio of a session that had left capture is sealed
   to the last acknowledged frame before any request is served
   (recover_audio_assembly).                                               *)
RecoverySealsTail ==
    [][~up /\ up' /\ session # "recording" => Unsealed' = {}]_vars

(* "Stopping a session seals every short tail so the final spoken phrase is
   not lost" (audio.rs 229): the flush of a stop leaves no frame behind.   *)
StopSealsTail == [][\A p \in Stops : StopEnd(p) => Unsealed = {}]_vars

(* The assembler catches up again and again: no window that could be closed
   stays uncut, although notifications are dropped by a full channel and
   lost by a restart.  A failing store call may leave it to the next frame,
   stop or restart.                                                        *)
WindowsAreCut ==
    []<>(errors > 0 \/ \A l \in Frames : ~ClosedAt(chunks, cursor + 1, l))
==============================================================================
