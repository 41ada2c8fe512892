------------------------------- MODULE EventLog -------------------------------
(***************************************************************************)
(* The append-only event log of one session and the tasks that write it    *)
(* (AppState::emit and emit_idempotent in crates/core-server/src/app.rs,   *)
(* persist_frame in crates/core-server/src/audio.rs, insert_event,         *)
(* insert_audio_chunk_and_event and next_sequence in                       *)
(* crates/event-store/src/lib.rs).                                         *)
(* A plain emission takes the sequence lock only to read the next number;  *)
(* a keyed one holds it until its event has been broadcast; an audio frame *)
(* holds it until its event is stored and broadcasts after dropping it.    *)
(***************************************************************************)
EXTENDS Naturals, Sequences

CONSTANTS
    Sources,     \* the source ids of the session's events
    Plain,       \* tasks that call emit
    Keyed,       \* tasks that call emit_idempotent
    Audio,       \* tasks that store an audio frame (persist_frame)
    Keys,        \* stable keys of emit_idempotent
    Frames,      \* audio frames, each with a stable key of its own
    None,        \* no key, no lock holder
    MaxEvents,   \* bound on the emissions begun
    MaxCrashes   \* bound on restarts of the process

ASSUME LogAssumption ==
    /\ Plain \cap Keyed = {} /\ Plain \cap Audio = {} /\ Keyed \cap Audio = {}
    /\ None \notin Plain \cup Keyed \cup Audio
    /\ Keys \cap Frames = {} /\ None \notin Keys \cup Frames
    /\ MaxEvents \in Nat /\ MaxCrashes \in Nat

VARIABLES
    now,      \* the clock behind ingested_at, a new value at every reading
    begun,    \* emissions begun
    log,      \* the rows of the events table
    sent,     \* what went through the broadcast channel, in order
    lock,     \* holder of sequence_lock across store calls
    task,     \* where each emission is
    crashes,
    overtaken \* history: the events that an event with a later ingested_at
              \* has preceded into the log or into the channel

logVars == <<now, begun, log, sent, lock, task, crashes, overtaken>>

Tasks  == Plain \cup Keyed \cup Audio
Labels == Keys \cup Frames \cup {None}
Events == [source : Sources, sequence : Nat, stamp : Nat, key : Labels]

Resting == [pc |-> "idle", source |-> None, sequence |-> 0, stamp |-> 0, key |-> None]

LogInit ==
    /\ now = 1 /\ begun = 0
    /\ log = {} /\ sent = <<>>
    /\ lock = None
    /\ task = [p \in Tasks |-> Resting]
    /\ crashes = 0 /\ overtaken = {}

EventOf(p) == [source |-> task[p].source, sequence |-> task[p].sequence,
               stamp |-> task[p].stamp, key |-> task[p].key]

(* Mutant of Taken: the table lacks the UNIQUE constraint on sequences.    *)
TakenByKey(e) == \E f \in log : f.key = e.key /\ e.key # None

(* UNIQUE(session_id, source_id, sequence) and the primary key event_id.   *)
Taken(e) ==
    \E f \in log : \/ f.source = e.source /\ f.sequence = e.sequence
                   \/ f.key = e.key /\ e.key # None

(* next_sequence: one above the highest sequence of the source.            *)
IsNext(source, n) ==
    /\ n > 0
    /\ \A e \in log : e.source = source => e.sequence < n
    /\ n = 1 \/ \E e \in log : e.source = source /\ e.sequence = n - 1

(* The lock is free, or p holds it across its store calls.                 *)
MayLock(p) == lock = None \/ (lock = p /\ p \in Keyed \cup Audio)

-----------------------------------------------------------------------------

(* emit: the number is read under the lock, which is then dropped.         *)
EmitBegin(p, source) ==
    /\ p \in Plain /\ task[p] = Resting /\ begun < MaxEvents
    /\ begun' = begun + 1
    /\ task' = [task EXCEPT ![p] = [Resting EXCEPT !.pc = "sequence", !.source = source]]
    /\ UNCHANGED <<now, log, sent, lock, crashes, overtaken>>

(* emit_idempotent: a key that is in the log already is returned as it is. *)
KeyedBegin(p, source, key) ==
    /\ p \in Keyed /\ task[p] = Resting /\ begun < MaxEvents
    /\ lock = None
    /\ \A e \in log : e.key # key
    /\ begun' = begun + 1
    /\ lock' = p
    /\ task' = [task EXCEPT ![p] = [Resting EXCEPT !.pc = "sequence", !.source = source,
                                                   !.key = key]]
    /\ UNCHANGED <<now, log, sent, crashes, overtaken>>

(* persist_frame: no lookup, a frame that was stored before is found by the
   insert.                                                                 *)
FrameBegin(p, source, frame) ==
    /\ p \in Audio /\ task[p] = Resting /\ begun < MaxEvents
    /\ lock = None
    /\ begun' = begun + 1
    /\ lock' = p
    /\ task' = [task EXCEPT ![p] = [Resting EXCEPT !.pc = "sequence", !.source = source,
                                                   !.key = frame]]
    /\ UNCHANGED <<now, log, sent, crashes, overtaken>>

ReadSequence(p) ==
    /\ task[p].pc = "sequence" /\ MayLock(p)
    /\ \E n \in 1..(MaxEvents + 1) :
         /\ IsNext(task[p].source, n)
         /\ task' = [task EXCEPT ![p].sequence = n, ![p].pc = "stamp"]
    /\ UNCHANGED <<now, begun, log, sent, lock, crashes, overtaken>>

(* EventEnvelope::new reads the clock.                                     *)
Stamp(p) ==
    /\ task[p].pc = "stamp"
    /\ task' = [task EXCEPT ![p].stamp = now, ![p].pc = "insert"]
    /\ now' = now + 1
    /\ UNCHANGED <<begun, log, sent, lock, crashes, overtaken>>

Unlock(p) == lock' = IF lock = p THEN None ELSE lock

(* insert_event and insert_audio_chunk_and_event: a taken sequence with
   other content is an error, a frame that is there already is not stored
   again.  persist_frame drops the lock here.                              *)
Insert(p) ==
    /\ task[p].pc = "insert"
    /\ IF Taken(EventOf(p))
         THEN /\ task' = [task EXCEPT ![p] = Resting]
              /\ Unlock(p) /\ UNCHANGED <<log, overtaken>>
         ELSE /\ log' = log \cup {EventOf(p)}
              /\ task' = [task EXCEPT ![p].pc = "send"]
              /\ IF p \in Audio THEN Unlock(p) ELSE UNCHANGED lock
              /\ overtaken' = overtaken \cup
                   {e \in {EventOf(p)} : \E f \in log : f.stamp > e.stamp}
    /\ UNCHANGED <<now, begun, sent, crashes>>

(* The stored events that are about to be broadcast.                       *)
Unsent == {EventOf(p) : p \in {q \in Tasks : task[q].pc = "send"}}

Send(p) ==
    /\ task[p].pc = "send"
    /\ sent' = Append(sent, EventOf(p))
    /\ task' = [task EXCEPT ![p] = Resting]
    /\ Unlock(p)
    /\ overtaken' = overtaken \cup {e \in Unsent : e.stamp < task[p].stamp}
    /\ UNCHANGED <<now, begun, log, crashes>>

LogCrash ==
    /\ crashes < MaxCrashes
    /\ crashes' = crashes + 1
    /\ lock' = None
    /\ task' = [p \in Tasks |-> Resting]
    /\ UNCHANGED <<now, begun, log, sent, overtaken>>

Proceed(p) == ReadSequence(p) \/ Stamp(p) \/ Insert(p) \/ Send(p)

LogNext ==
    \/ \E p \in Tasks, source \in Sources : EmitBegin(p, source)
    \/ \E p \in Tasks, source \in Sources, key \in Keys : KeyedBegin(p, source, key)
    \/ \E p \in Tasks, source \in Sources, frame \in Frames : FrameBegin(p, source, frame)
    \/ \E p \in Tasks : Proceed(p)
    \/ LogCrash

LogSpec == LogInit /\ [][LogNext]_logVars

-----------------------------------------------------------------------------
(* Properties *)

(* The types of the log, the channel and the emissions.                    *)
LogTypeOK ==
    /\ now \in Nat /\ begun \in 0..MaxEvents /\ crashes \in 0..MaxCrashes
    /\ log \subseteq Events /\ sent \in Seq(Events) /\ overtaken \subseteq Events
    /\ lock \in Keyed \cup Audio \cup {None}
    /\ task \in [Tasks -> [pc : {"idle", "sequence", "stamp", "insert", "send"},
                           source : Sources \cup {None}, sequence : Nat, stamp : Nat,
                           key : Labels]]
    /\ \A p \in Tasks : task[p].pc # "idle" => task[p].source \in Sources

(* The events of a source are numbered without gap or repetition, whatever
   plain and keyed emissions race and die (next_sequence, insert_event).   *)
SequencesAreDense ==
    \A e \in log :
        /\ \A n \in 1..(e.sequence - 1) : \E f \in log : f.source = e.source /\ f.sequence = n
        /\ \A f \in log : f.source = e.source /\ f.sequence = e.sequence => f = e

(* Within a source the order of sequences is the order of ingested_at, which
   is the order every replay sorts by (list_events).                       *)
SequenceFollowsTime ==
    \A e, f \in log : e.source = f.source /\ e.sequence < f.sequence => e.stamp < f.stamp

(* No plain emission of the source has stored an event, as for the sources
   of the model scheduler, the workers and the microphones.                *)
Undisturbed(source) == \A e \in log : e.source = source => e.key # None

(* A keyed emission or a frame is refused only when a plain emission of its
   source has interfered, or the frame had been stored: number and insert
   happen under one hold of the lock (emit_idempotent, persist_frame).     *)
KeyedEmissionsSucceed ==
    [][\A p \in Keyed \cup Audio :
         Insert(p) /\ Undisturbed(task[p].source) /\ Taken(EventOf(p)) =>
           p \in Audio /\ \E e \in log : e.key = task[p].key]_logVars

(* Nothing is broadcast that a replay would not find (app.rs 67).          *)
SentIsDurable == \A i \in 1..Len(sent) : sent[i] \in log

(* The emissions of emit_idempotent reach the channel in the order of their
   timestamps: they hold the lock until they have been sent.  A frame does
   not, and nothing is said of frames here.                                *)
KeyedInOrder ==
    \A i, j \in 1..Len(sent) :
        i < j /\ sent[i].key \in Keys /\ sent[j].key \in Keys => sent[i].stamp < sent[j].stamp

(* Whatever the channel carries after an event with a later timestamp is
   recorded as overtaken, and so is what it has still to carry.            *)
OvertakenIsRecorded ==
    /\ \A i, j \in 1..Len(sent) :
         i < j /\ sent[j].stamp < sent[i].stamp => sent[j] \in overtaken
    /\ \A e \in Unsent : \A i \in 1..Len(sent) :
         e.stamp < sent[i].stamp => e \in overtaken

(* The strengthening that makes the properties above inductive.  An
   emission that has a number follows a stored event, its number may have
   been taken but none below it is free; one that has a stamp is later than
   the stored events with lower numbers; a keyed one holds the lock, a frame
   does until it is stored, and a keyed one is later than every keyed event
   that has been sent.                                                     *)
Numbered(p) ==
    task[p].pc \in {"stamp", "insert"} =>
        /\ task[p].sequence > 0
        /\ \/ task[p].sequence = 1
           \/ \E e \in log : e.source = task[p].source /\ e.sequence = task[p].sequence - 1

Stamped(p) ==
    /\ task[p].pc \in {"insert", "send"} => task[p].stamp < now
    /\ task[p].pc = "insert" =>
         \A e \in log : e.source = task[p].source /\ e.sequence < task[p].sequence
                          => e.stamp < task[p].stamp

Stored(p) == task[p].pc = "send" => EventOf(p) \in log

Exclusive(p) ==
    /\ p \in Plain => task[p].key = None
    /\ p \in Audio => task[p].key \in Frames \cup {None}
    /\ p \in Keyed /\ task[p].pc # "idle" => lock = p
    /\ p \in Audio /\ task[p].pc \in {"sequence", "stamp", "insert"} => lock = p

InTurn(p) ==
    p \in Keyed /\ task[p].pc \in {"insert", "send"} =>
        \A i \in 1..Len(sent) : sent[i].key \in Keys => sent[i].stamp < task[p].stamp

LogIInv ==
    /\ LogTypeOK /\ SequencesAreDense /\ SequenceFollowsTime
    /\ SentIsDurable /\ KeyedInOrder /\ OvertakenIsRecorded
    /\ \A e \in log : e.sequence > 0 /\ e.stamp < now
    /\ \A p \in Tasks : Numbered(p) /\ Stamped(p) /\ Stored(p) /\ Exclusive(p) /\ InTurn(p)

(* "The lock and persisted maximum prevent duplicate source sequences during
   concurrent emissions" (app.rs 58): no two emissions of a source that are
   under way have been given the same sequence.                            *)
AllocatedOnce ==
    \A p, q \in Tasks :
        p # q /\ task[p].pc \in {"stamp", "insert"} /\ task[q].pc \in {"stamp", "insert"}
          /\ task[p].source = task[q].source => task[p].sequence # task[q].sequence
==============================================================================
