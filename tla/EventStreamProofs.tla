--------------------------- MODULE EventStreamProofs ---------------------------
(***************************************************************************)
(* Proofs about the event log and about the streams that follow it, for    *)
(* every set of sources, tasks, keys and clients and every bound.  The     *)
(* invariant of the log, LogIInv, is proved first, its types and then its  *)
(* orders; what a reconnecting browser has received rests on it.           *)
(***************************************************************************)
EXTENDS EventStream, TLAPS

(* The type invariant holds initially.                                     *)
LEMMA LogTypeInit == LogInit => LogTypeOK
  BY LogAssumption DEF LogInit, LogTypeOK, Resting, Tasks, Events, Labels

TaskStates ==
    [pc : {"idle", "sequence", "stamp", "insert", "send"}, source : Sources \cup {None},
     sequence : Nat, stamp : Nat, key : Labels]

(* A step of one emission keeps the types of them all.                     *)
LEMMA TaskSet ==
    ASSUME LogTypeOK, NEW p \in Tasks, NEW r \in TaskStates,
           r.pc # "idle" => r.source \in Sources,
           task' = [task EXCEPT ![p] = r]
    PROVE  /\ task' \in [Tasks -> TaskStates]
           /\ \A q \in Tasks : task'[q].pc # "idle" => task'[q].source \in Sources
<1>1. task \in [Tasks -> TaskStates]
  BY DEF LogTypeOK, TaskStates
<1>2. \A q \in Tasks : task'[q] = IF q = p THEN r ELSE task[q]
  BY <1>1
<1>3. \A q \in Tasks : task[q].pc # "idle" => task[q].source \in Sources
  BY DEF LogTypeOK
<1>4. task' \in [Tasks -> TaskStates]
  BY <1>1
<1> QED
  BY <1>2, <1>3, <1>4

(* What a step has to show for the type invariant.                         *)
LEMMA TypeParts ==
    ASSUME now' \in Nat, begun' \in 0..MaxEvents, crashes' \in 0..MaxCrashes,
           log' \subseteq Events, sent' \in Seq(Events), lock' \in Keyed \cup Audio \cup {None},
           overtaken' \subseteq Events,
           task' \in [Tasks -> TaskStates],
           \A q \in Tasks : task'[q].pc # "idle" => task'[q].source \in Sources
    PROVE  LogTypeOK'
  BY DEF LogTypeOK, TaskStates, Events, Labels

(* The event an emission under way stands for is an event.                 *)
LEMMA EventOfTask ==
    ASSUME LogTypeOK, NEW p \in Tasks, task[p].pc # "idle"
    PROVE  EventOf(p) \in Events
<1>1. task[p] \in TaskStates /\ task[p].source \in Sources
  BY DEF LogTypeOK, TaskStates
<1> QED
  BY <1>1 DEF EventOf, Events, TaskStates

(* Every step of an emission preserves the type invariant.                 *)
LEMMA LogTypeStep == LogTypeOK /\ [LogNext]_logVars => LogTypeOK'
<1> SUFFICES ASSUME LogTypeOK, [LogNext]_logVars PROVE LogTypeOK'
    OBVIOUS
<1> USE LogAssumption
<1>a. /\ now \in Nat /\ begun \in 0..MaxEvents /\ crashes \in 0..MaxCrashes
      /\ log \subseteq Events /\ sent \in Seq(Events) /\ overtaken \subseteq Events
      /\ lock \in Keyed \cup Audio \cup {None}
      /\ task \in [Tasks -> TaskStates]
  BY DEF LogTypeOK, TaskStates
<1>b. Resting \in TaskStates /\ Resting.pc = "idle"
  BY DEF Resting, TaskStates, Labels
<1>1. ASSUME NEW p \in Tasks, NEW source \in Sources, EmitBegin(p, source) PROVE LogTypeOK'
  <2> DEFINE r == [Resting EXCEPT !.pc = "sequence", !.source = source]
  <2>1. r \in TaskStates /\ r.source \in Sources
    BY DEF Resting, TaskStates, Labels
  <2>2. task' = [task EXCEPT ![p] = r]
    BY <1>1 DEF EmitBegin
  <2>3. begun' \in 0..MaxEvents /\ UNCHANGED <<now, log, sent, lock, crashes, overtaken>>
    BY <1>a, <1>1 DEF EmitBegin
  <2> HIDE DEF r
  <2> QED
    BY <1>a, <2>1, <2>2, <2>3, TaskSet, TypeParts
<1>2. ASSUME NEW p \in Tasks, NEW source \in Sources, NEW key \in Keys, KeyedBegin(p, source, key)
      PROVE LogTypeOK'
  <2> DEFINE r == [Resting EXCEPT !.pc = "sequence", !.source = source, !.key = key]
  <2>1. r \in TaskStates /\ r.source \in Sources
    BY DEF Resting, TaskStates, Labels
  <2>2. task' = [task EXCEPT ![p] = r]
    BY <1>2 DEF KeyedBegin
  <2>3. begun' \in 0..MaxEvents /\ lock' \in Keyed /\ UNCHANGED <<now, log, sent, crashes, overtaken>>
    BY <1>a, <1>2 DEF KeyedBegin
  <2> HIDE DEF r
  <2> QED
    BY <1>a, <2>1, <2>2, <2>3, TaskSet, TypeParts
<1>9. ASSUME NEW p \in Tasks, NEW source \in Sources, NEW frame \in Frames, FrameBegin(p, source, frame)
      PROVE LogTypeOK'
  <2> DEFINE r == [Resting EXCEPT !.pc = "sequence", !.source = source, !.key = frame]
  <2>1. r \in TaskStates /\ r.source \in Sources
    BY DEF Resting, TaskStates, Labels
  <2>2. task' = [task EXCEPT ![p] = r]
    BY <1>9 DEF FrameBegin
  <2>3. begun' \in 0..MaxEvents /\ lock' \in Audio /\ UNCHANGED <<now, log, sent, crashes, overtaken>>
    BY <1>a, <1>9 DEF FrameBegin
  <2> HIDE DEF r
  <2> QED
    BY <1>a, <2>1, <2>2, <2>3, TaskSet, TypeParts
<1>3. ASSUME NEW p \in Tasks, ReadSequence(p) PROVE LogTypeOK'
  <2>1. PICK n \in 1..(MaxEvents + 1) : task' = [task EXCEPT ![p].sequence = n, ![p].pc = "stamp"]
    BY <1>3 DEF ReadSequence
  <2> DEFINE r == [task[p] EXCEPT !.sequence = n, !.pc = "stamp"]
  <2>a. n \in Nat /\ task[p] \in TaskStates /\ task[p].source \in Sources
    BY <1>a, <1>3 DEF ReadSequence, LogTypeOK
  <2>2. r \in TaskStates /\ r.source \in Sources
    BY <2>a DEF TaskStates
  <2>3. task' = [task EXCEPT ![p] = r]
    BY <1>a, <2>1
  <2>4. UNCHANGED <<now, begun, log, sent, lock, crashes, overtaken>>
    BY <1>3 DEF ReadSequence
  <2> HIDE DEF r
  <2> QED
    BY <1>a, <2>2, <2>3, <2>4, TaskSet, TypeParts
<1>4. ASSUME NEW p \in Tasks, Stamp(p) PROVE LogTypeOK'
  <2> DEFINE r == [task[p] EXCEPT !.stamp = now, !.pc = "insert"]
  <2>1. r \in TaskStates /\ r.source \in Sources
    BY <1>a, <1>4 DEF TaskStates, Stamp, LogTypeOK
  <2>2. task' = [task EXCEPT ![p] = r]
    BY <1>a, <1>4 DEF Stamp
  <2>3. now' \in Nat /\ UNCHANGED <<begun, log, sent, lock, crashes, overtaken>>
    BY <1>a, <1>4 DEF Stamp
  <2> HIDE DEF r
  <2> QED
    BY <1>a, <2>1, <2>2, <2>3, TaskSet, TypeParts
<1>5. ASSUME NEW p \in Tasks, Insert(p) PROVE LogTypeOK'
  <2>1. UNCHANGED <<now, begun, sent, crashes>> /\ lock' \in Keyed \cup Audio \cup {None}
    BY <1>a, <1>5 DEF Insert, Unlock
  <2>2. CASE task' = [task EXCEPT ![p] = Resting] /\ UNCHANGED <<log, overtaken>>
    BY <1>a, <1>b, <2>1, <2>2, TaskSet, TypeParts
  <2>3. CASE /\ task' = [task EXCEPT ![p].pc = "send"] /\ log' = log \cup {EventOf(p)}
             /\ overtaken' \subseteq overtaken \cup {EventOf(p)}
    <3> DEFINE r == [task[p] EXCEPT !.pc = "send"]
    <3>1. r \in TaskStates /\ r.source \in Sources
      BY <1>a, <1>5 DEF TaskStates, Insert, LogTypeOK
    <3>2. task' = [task EXCEPT ![p] = r]
      BY <1>a, <2>3
    <3>3. log' \subseteq Events /\ overtaken' \subseteq Events
      BY <1>a, <1>5, <2>3, EventOfTask DEF Insert
    <3> HIDE DEF r
    <3> QED
      BY <1>a, <2>1, <3>1, <3>2, <3>3, TaskSet, TypeParts
  <2> QED
    BY <1>5, <2>2, <2>3 DEF Insert
<1>6. ASSUME NEW p \in Tasks, Send(p) PROVE LogTypeOK'
  <2>1. EventOf(p) \in Events /\ Unsent \subseteq Events
    BY <1>6, EventOfTask DEF Send, Unsent
  <2>2. sent' \in Seq(Events) /\ overtaken' \subseteq Events
    BY <1>a, <1>6, <2>1 DEF Send
  <2>3. task' = [task EXCEPT ![p] = Resting] /\ UNCHANGED <<now, begun, log, crashes>>
        /\ lock' \in Keyed \cup Audio \cup {None}
    BY <1>a, <1>6 DEF Send, Unlock
  <2> QED
    BY <1>a, <1>b, <2>2, <2>3, TaskSet, TypeParts
<1>7. CASE LogCrash
  <2>1. task' = [q \in Tasks |-> Resting] /\ lock' = None /\ crashes' \in 0..MaxCrashes
        /\ UNCHANGED <<now, begun, log, sent, overtaken>>
    BY <1>a, <1>7 DEF LogCrash
  <2>2. task' \in [Tasks -> TaskStates] /\ \A q \in Tasks : task'[q].pc = "idle"
    BY <1>b, <2>1
  <2> QED
    BY <1>a, <2>1, <2>2, TypeParts
<1>8. CASE UNCHANGED logVars
  BY <1>8 DEF logVars, LogTypeOK, Events, Labels
<1> QED
  BY <1>1, <1>2, <1>3, <1>4, <1>5, <1>6, <1>7, <1>8, <1>9 DEF LogNext, Proceed

-----------------------------------------------------------------------------

(* In a dense log every number below the one an emission was given is
   stored, since its predecessor is.                                       *)
LEMMA BelowIsStored ==
    ASSUME LogTypeOK, SequencesAreDense, NEW p \in Tasks, Numbered(p),
           task[p].pc \in {"stamp", "insert"}
    PROVE  /\ task[p].sequence \in Nat \ {0}
           /\ \A n \in 1..(task[p].sequence - 1) :
                \E f \in log : f.source = task[p].source /\ f.sequence = n
<1> DEFINE n == task[p].sequence
           s == task[p].source
<1>1. n \in Nat \ {0}
  BY DEF Numbered, LogTypeOK
<1>2. ASSUME NEW m \in 1..(n - 1) PROVE \E f \in log : f.source = s /\ f.sequence = m
  <2>1. PICK e \in log : e.source = s /\ e.sequence = n - 1
    BY <1>1, <1>2 DEF Numbered
  <2>2. CASE m = n - 1
    BY <2>1, <2>2
  <2>3. CASE m # n - 1
    <3>1. m \in 1..(e.sequence - 1)
      BY <1>1, <1>2, <2>1, <2>3
    <3> QED
      BY <3>1, <2>1 DEF SequencesAreDense
  <2> QED
    BY <2>2, <2>3
<1> QED
  BY <1>1, <1>2

(* A number that is still free when its event is inserted is above all
   numbers of its source.                                                  *)
LEMMA FreeIsAbove ==
    ASSUME LogTypeOK, SequencesAreDense, NEW p \in Tasks, Numbered(p),
           task[p].pc = "insert", ~Taken(EventOf(p))
    PROVE  \A e \in log : e.source = task[p].source => e.sequence < task[p].sequence
<1> DEFINE n == task[p].sequence
<1>1. n \in Nat \ {0} /\ \A e \in log : e.sequence \in Nat
  BY DEF Numbered, LogTypeOK, Events
<1> SUFFICES ASSUME NEW e \in log, e.source = task[p].source PROVE e.sequence < n
    OBVIOUS
<1>2. e.sequence # n
  BY DEF Taken, EventOf
<1>3. ASSUME e.sequence > n PROVE FALSE
  <2>1. n \in 1..(e.sequence - 1)
    BY <1>1, <1>3
  <2>2. PICK f \in log : f.source = e.source /\ f.sequence = n
    BY <2>1 DEF SequencesAreDense
  <2> QED
    BY <2>2 DEF Taken, EventOf
<1> QED
  BY <1>1, <1>2, <1>3

(* The invariant holds initially.                                          *)
LEMMA LogInvInit == LogInit => LogIInv
<1> SUFFICES ASSUME LogInit PROVE LogIInv
    OBVIOUS
<1>1. LogTypeOK
  BY LogTypeInit
<1>2. /\ SequencesAreDense /\ SequenceFollowsTime /\ SentIsDurable /\ KeyedInOrder
      /\ OvertakenIsRecorded
  BY DEF LogInit, SequencesAreDense, SequenceFollowsTime, SentIsDurable, KeyedInOrder,
         OvertakenIsRecorded, Unsent, Resting
<1>3. \A p \in Tasks : Numbered(p) /\ Stamped(p) /\ Stored(p) /\ Exclusive(p) /\ InTurn(p)
  BY LogAssumption DEF LogInit, Numbered, Stamped, Stored, Exclusive, InTurn, Resting, Tasks
<1> QED
  BY <1>1, <1>2, <1>3 DEF LogIInv, LogInit

(* A step that changes neither log nor channel keeps what is said of them
   alone.                                                                  *)
LEMMA LogKept ==
    ASSUME LogIInv, UNCHANGED <<log, sent>>, now \in Nat, now' \in Nat, now' >= now
    PROVE  /\ SequencesAreDense' /\ SequenceFollowsTime' /\ SentIsDurable' /\ KeyedInOrder'
           /\ \A e \in log' : e.sequence > 0 /\ e.stamp < now'
<1>1. \A e \in log : e.stamp \in Nat
  BY DEF LogIInv, LogTypeOK, Events
<1>2. SequencesAreDense' /\ SequenceFollowsTime' /\ SentIsDurable' /\ KeyedInOrder'
  BY DEF LogIInv, SequencesAreDense, SequenceFollowsTime, SentIsDurable, KeyedInOrder
<1> QED
  BY <1>1, <1>2 DEF LogIInv

(* An emission a step does not touch keeps its part of the invariant, if the
   step changes neither log nor channel and leaves it the lock.            *)
LEMMA OthersKept ==
    ASSUME LogIInv, UNCHANGED <<log, sent>>, now' \in Nat, now' >= now,
           NEW q \in Tasks, task'[q] = task[q], lock = q => lock' = q
    PROVE  Numbered(q)' /\ Stamped(q)' /\ Stored(q)' /\ Exclusive(q)' /\ InTurn(q)'
<1>1. Numbered(q) /\ Stamped(q) /\ Stored(q) /\ Exclusive(q) /\ InTurn(q)
  BY DEF LogIInv
<1>2. now \in Nat /\ task[q].stamp \in Nat
  BY DEF LogIInv, LogTypeOK
<1>3. Numbered(q)' /\ Stored(q)' /\ InTurn(q)'
  BY <1>1 DEF Numbered, Stored, InTurn, EventOf
<1>4. Stamped(q)'
  BY <1>1, <1>2 DEF Stamped
<1>5. Exclusive(q)'
  BY <1>1 DEF Exclusive
<1> QED
  BY <1>3, <1>4, <1>5

(* What has been recorded as overtaken still suffices while nothing is sent
   and no emission becomes ready to send.                                  *)
LEMMA RecordKept ==
    ASSUME LogIInv, UNCHANGED <<sent, overtaken>>,
           \A q \in Tasks : task'[q].pc = "send" => task'[q] = task[q]
    PROVE  OvertakenIsRecorded'
<1>1. Unsent' \subseteq Unsent
  BY DEF Unsent, EventOf
<1> QED
  BY <1>1 DEF LogIInv, OvertakenIsRecorded

(* A resting emission has nothing to satisfy.                              *)
LEMMA RestingParts ==
    ASSUME NEW q \in Tasks, task'[q] = Resting
    PROVE  Numbered(q)' /\ Stamped(q)' /\ Stored(q)' /\ Exclusive(q)' /\ InTurn(q)'
  BY DEF Resting, Numbered, Stamped, Stored, Exclusive, InTurn

(* What a step that leaves log and channel alone has to show.              *)
LEMMA QuietStep ==
    ASSUME LogIInv, LogTypeOK', UNCHANGED <<log, sent, overtaken>>, now' >= now,
           NEW p \in Tasks, task'[p].pc # "send",
           \A q \in Tasks : q # p => task'[q] = task[q] /\ (lock = q => lock' = q),
           Numbered(p)' /\ Stamped(p)' /\ Stored(p)' /\ Exclusive(p)' /\ InTurn(p)'
    PROVE  LogIInv'
<1>1. now \in Nat /\ now' \in Nat
  BY DEF LogIInv, LogTypeOK
<1>2. \A q \in Tasks : q # p =>
          Numbered(q)' /\ Stamped(q)' /\ Stored(q)' /\ Exclusive(q)' /\ InTurn(q)'
  BY <1>1, OthersKept
<1>3. \A q \in Tasks : (Numbered(q) /\ Stamped(q) /\ Stored(q) /\ Exclusive(q) /\ InTurn(q))'
  BY <1>2
<1>4. /\ SequencesAreDense' /\ SequenceFollowsTime' /\ SentIsDurable' /\ KeyedInOrder'
      /\ \A e \in log' : e.sequence > 0 /\ e.stamp < now'
  BY <1>1, LogKept
<1>5. OvertakenIsRecorded'
  BY RecordKept
<1> QED
  BY <1>3, <1>4, <1>5 DEF LogIInv

(* The event of a free number joins the log.                               *)
LEMMA InsertStep ==
    ASSUME LogIInv, LogTypeOK', NEW p \in Tasks, task[p].pc = "insert", ~Taken(EventOf(p)),
           log' = log \cup {EventOf(p)}, task' = [task EXCEPT ![p].pc = "send"],
           UNCHANGED <<now, sent>>, lock' # lock => p \in Audio /\ lock = p,
           overtaken' = overtaken \cup {e \in {EventOf(p)} : \E f \in log : f.stamp > e.stamp}
    PROVE  LogIInv'
<1> DEFINE new == EventOf(p)
<1>1. LogTypeOK /\ SequencesAreDense /\ SequenceFollowsTime /\ SentIsDurable /\ KeyedInOrder
  BY DEF LogIInv
<1>2. \A q \in Tasks : Numbered(q) /\ Stamped(q) /\ Stored(q) /\ Exclusive(q) /\ InTurn(q)
  BY DEF LogIInv
<1>3. /\ task'[p].pc = "send" /\ task'[p].source = task[p].source /\ task'[p].key = task[p].key
      /\ task'[p].sequence = task[p].sequence /\ task'[p].stamp = task[p].stamp
      /\ \A q \in Tasks : q # p => task'[q] = task[q]
  BY <1>1 DEF LogTypeOK
<1>4. /\ new.source = task[p].source /\ new.sequence = task[p].sequence
      /\ new.stamp = task[p].stamp /\ new.sequence \in Nat \ {0}
  BY <1>1, <1>2, BelowIsStored DEF EventOf
<1>5. \A e \in log : e.source = new.source => e.sequence < new.sequence
  BY <1>1, <1>2, <1>4, FreeIsAbove
<1>6. \A n \in 1..(new.sequence - 1) : \E f \in log : f.source = new.source /\ f.sequence = n
  BY <1>1, <1>2, <1>4, BelowIsStored
<1>7. \A e \in log : e.sequence \in Nat /\ e.stamp \in Nat /\ e.sequence > 0 /\ e.stamp < now
  BY <1>1 DEF LogIInv, LogTypeOK, Events
<1>8. new.stamp < now /\ \A e \in log :
          e.source = new.source /\ e.sequence < new.sequence => e.stamp < new.stamp
  BY <1>2, <1>4 DEF Stamped
<1> HIDE DEF new
<1>9. SequencesAreDense'
  BY <1>1, <1>4, <1>5, <1>6, <1>7 DEF SequencesAreDense, new
<1>10. SequenceFollowsTime'
  BY <1>1, <1>4, <1>5, <1>7, <1>8 DEF SequenceFollowsTime, new
<1>11. SentIsDurable' /\ KeyedInOrder'
  BY <1>1 DEF SentIsDurable, KeyedInOrder
<1>12. \A e \in log' : e.sequence > 0 /\ e.stamp < now'
  BY <1>4, <1>7, <1>8 DEF new
<1>13. ASSUME NEW q \in Tasks PROVE (Numbered(q) /\ Stored(q) /\ Exclusive(q) /\ InTurn(q))'
  <2>1. Numbered(q)' /\ Exclusive(q)'
    BY <1>2, <1>3, LogAssumption DEF Numbered, Exclusive
  <2>2. Stored(q)' /\ InTurn(q)'
    BY <1>2, <1>3 DEF Stored, InTurn, EventOf
  <2> QED
    BY <2>1, <2>2
<1>14. ASSUME NEW q \in Tasks PROVE Stamped(q)'
  <2>1. CASE q = p
    BY <1>2, <1>3, <2>1 DEF Stamped
  <2>2. CASE q # p
    <3>1. task'[q] = task[q] /\ Stamped(q) /\ Numbered(q)
      BY <1>2, <1>3, <2>2
    <3>2. ASSUME task[q].pc = "insert", new.source = task[q].source,
                 new.sequence < task[q].sequence
          PROVE FALSE
      <4>1. new.sequence \in 1..(task[q].sequence - 1)
        BY <1>1, <1>4, <3>2 DEF LogTypeOK
      <4>2. \E f \in log : f.source = new.source /\ f.sequence = new.sequence
        BY <1>1, <3>1, <3>2, <4>1, BelowIsStored
      <4> QED
        BY <1>4, <1>5, <1>7, <4>2
    <3> QED
      BY <3>1, <3>2 DEF Stamped, new
  <2> QED
    BY <2>1, <2>2
<1>15. \A q \in Tasks : (Numbered(q) /\ Stamped(q) /\ Stored(q) /\ Exclusive(q) /\ InTurn(q))'
  BY <1>13, <1>14
<1>16. OvertakenIsRecorded'
  <2>1. ASSUME NEW i \in 1..Len(sent), new.stamp < sent[i].stamp
        PROVE  new \in overtaken'
    BY <1>1, <2>1 DEF SentIsDurable, new
  <2>2. Unsent' \subseteq Unsent \cup {new}
    BY <1>3 DEF Unsent, EventOf, new
  <2>3. OvertakenIsRecorded /\ overtaken \subseteq overtaken'
    BY DEF LogIInv
  <2> QED
    BY <2>1, <2>2, <2>3 DEF OvertakenIsRecorded
<1> QED
  BY <1>9, <1>10, <1>11, <1>12, <1>15, <1>16 DEF LogIInv

(* The stored event of an emission is broadcast.                           *)
LEMMA SendStep ==
    ASSUME LogIInv, LogTypeOK', NEW p \in Tasks, Send(p)
    PROVE  LogIInv'
<1> DEFINE new == EventOf(p)
           last == Len(sent) + 1
<1>1. LogTypeOK /\ SequencesAreDense /\ SequenceFollowsTime /\ SentIsDurable /\ KeyedInOrder
  BY DEF LogIInv
<1>2. \A q \in Tasks : Numbered(q) /\ Stamped(q) /\ Stored(q) /\ Exclusive(q) /\ InTurn(q)
  BY DEF LogIInv
<1>3. /\ task[p].pc = "send" /\ sent' = Append(sent, new) /\ UNCHANGED <<now, log>>
      /\ task' = [task EXCEPT ![p] = Resting]
      /\ lock' = IF lock = p THEN None ELSE lock
  BY DEF Send, Unlock
<1>4. task'[p] = Resting /\ \A q \in Tasks : q # p => task'[q] = task[q]
  BY <1>1, <1>3 DEF LogTypeOK
<1>5. sent \in Seq(Events) /\ new \in Events /\ new \in log
  BY <1>1, <1>2, <1>3, EventOfTask DEF LogTypeOK, Stored
<1>6. new.stamp = task[p].stamp /\ new.key = task[p].key
  BY DEF EventOf
<1>7. new.key \in Keys => p \in Keyed /\ lock = p
  BY <1>2, <1>3, <1>6, LogAssumption DEF Exclusive, Tasks
<1> HIDE DEF new
<1>8. /\ Len(sent') = last /\ sent'[last] = new
      /\ \A i \in 1..Len(sent) : sent'[i] = sent[i]
  BY <1>3, <1>5
<1>9. SequencesAreDense' /\ SequenceFollowsTime'
  BY <1>1, <1>3 DEF SequencesAreDense, SequenceFollowsTime
<1>10. SentIsDurable'
  BY <1>1, <1>3, <1>5, <1>8 DEF SentIsDurable
<1>11. KeyedInOrder'
  <2> SUFFICES ASSUME NEW i \in 1..Len(sent'), NEW j \in 1..Len(sent'), i < j,
                      sent'[i].key \in Keys, sent'[j].key \in Keys
               PROVE  sent'[i].stamp < sent'[j].stamp
    BY DEF KeyedInOrder
  <2>1. i \in 1..Len(sent)
    BY <1>5, <1>8
  <2>2. CASE j = last
    BY <1>2, <1>3, <1>6, <1>7, <1>8, <2>1, <2>2 DEF InTurn
  <2>3. CASE j # last
    <3>1. j \in 1..Len(sent)
      BY <1>5, <1>8, <2>3
    <3> QED
      BY <1>1, <1>8, <2>1, <3>1 DEF KeyedInOrder
  <2> QED
    BY <2>2, <2>3
<1>12. \A e \in log' : e.sequence > 0 /\ e.stamp < now'
  BY <1>3 DEF LogIInv
<1>13. ASSUME NEW q \in Tasks
       PROVE  (Numbered(q) /\ Stamped(q) /\ Stored(q) /\ Exclusive(q) /\ InTurn(q))'
  <2>1. CASE q = p
    BY <1>4, <2>1, RestingParts
  <2>2. CASE q # p
    <3>1. task'[q] = task[q]
      BY <1>4, <2>2
    <3>2. Numbered(q)' /\ Stamped(q)' /\ Stored(q)' /\ Exclusive(q)'
      BY <1>2, <1>3, <2>2, <3>1 DEF Numbered, Stamped, Stored, Exclusive, EventOf
    <3>3. q \in Keyed /\ task[q].pc \in {"insert", "send"} => new.key \notin Keys
      BY <1>2, <1>7, <2>2 DEF Exclusive
    <3>4. InTurn(q)'
      <4> SUFFICES ASSUME q \in Keyed, task[q].pc \in {"insert", "send"},
                          NEW i \in 1..Len(sent'), sent'[i].key \in Keys
                   PROVE  sent'[i].stamp < task[q].stamp
        BY <3>1 DEF InTurn
      <4>1. i \in 1..Len(sent)
        BY <1>5, <1>8, <3>3
      <4> QED
        BY <1>2, <1>8, <4>1 DEF InTurn
    <3> QED
      BY <3>2, <3>4
  <2> QED
    BY <2>1, <2>2
<1>14. OvertakenIsRecorded'
  <2>1. /\ new \in Unsent /\ new.stamp = task[p].stamp
        /\ overtaken' = overtaken \cup {e \in Unsent : e.stamp < task[p].stamp}
    BY <1>3, <1>6 DEF Send, Unsent, new
  <2>2. Unsent' \subseteq Unsent
    BY <1>4 DEF Unsent, EventOf, Resting
  <2>3. OvertakenIsRecorded
    BY DEF LogIInv
  <2>4. ASSUME NEW i \in 1..Len(sent'), NEW j \in 1..Len(sent'), i < j,
               sent'[j].stamp < sent'[i].stamp
        PROVE  sent'[j] \in overtaken'
    <3>1. i \in 1..Len(sent) /\ (j = last \/ j \in 1..Len(sent))
      BY <1>5, <1>8, <2>4
    <3>2. sent'[i] = sent[i] /\ (sent'[j] = new \/ (j \in 1..Len(sent) /\ sent'[j] = sent[j]))
      BY <1>8, <3>1
    <3> QED
      BY <2>1, <2>3, <2>4, <3>1, <3>2 DEF OvertakenIsRecorded
  <2>5. ASSUME NEW e \in Unsent, NEW i \in 1..Len(sent'), e.stamp < sent'[i].stamp
        PROVE  e \in overtaken'
    <3>1. i = last \/ i \in 1..Len(sent)
      BY <1>5, <1>8
    <3>2. CASE i = last
      BY <1>8, <2>1, <2>5, <3>2
    <3>3. CASE i \in 1..Len(sent)
      BY <1>8, <2>1, <2>3, <2>5, <3>3 DEF OvertakenIsRecorded
    <3> QED
      BY <3>1, <3>2, <3>3
  <2> QED
    BY <2>2, <2>4, <2>5 DEF OvertakenIsRecorded
<1> QED
  BY <1>9, <1>10, <1>11, <1>12, <1>13, <1>14 DEF LogIInv

(* Every step preserves the invariant.                                     *)
LEMMA LogInvStep == LogIInv /\ [LogNext]_logVars => LogIInv'
<1> SUFFICES ASSUME LogIInv, [LogNext]_logVars PROVE LogIInv'
    OBVIOUS
<1>a. LogTypeOK /\ LogTypeOK' /\ now \in Nat /\ task \in [Tasks -> TaskStates]
  BY LogTypeStep DEF LogIInv, LogTypeOK, TaskStates
<1>b. \A q \in Tasks : Numbered(q) /\ Stamped(q) /\ Stored(q) /\ Exclusive(q) /\ InTurn(q)
  BY DEF LogIInv
<1>1. ASSUME NEW p \in Tasks, NEW source \in Sources, EmitBegin(p, source) PROVE LogIInv'
  <2>1. /\ task'[p].pc = "sequence" /\ task'[p].key = None
        /\ \A q \in Tasks : q # p => task'[q] = task[q]
    BY <1>a, <1>1 DEF EmitBegin, Resting
  <2>2. p \notin Keyed /\ p \notin Audio
    BY <1>1, LogAssumption DEF EmitBegin
  <2>3. Numbered(p)' /\ Stamped(p)' /\ Stored(p)' /\ Exclusive(p)' /\ InTurn(p)'
    BY <2>1, <2>2 DEF Numbered, Stamped, Stored, Exclusive, InTurn
  <2> QED
    BY <1>a, <1>1, <2>1, <2>3, QuietStep DEF EmitBegin
<1>2. ASSUME NEW p \in Tasks, NEW source \in Sources, NEW key \in Keys, KeyedBegin(p, source, key)
      PROVE LogIInv'
  <2>1. /\ task'[p].pc = "sequence" /\ lock' = p /\ lock = None
        /\ \A q \in Tasks : q # p => task'[q] = task[q]
    BY <1>a, <1>2 DEF KeyedBegin, Resting
  <2>2. p \notin Plain /\ p \notin Audio /\ None \notin Tasks
    BY <1>2, LogAssumption DEF KeyedBegin, Tasks
  <2>3. Numbered(p)' /\ Stamped(p)' /\ Stored(p)' /\ Exclusive(p)' /\ InTurn(p)'
    BY <2>1, <2>2 DEF Numbered, Stamped, Stored, Exclusive, InTurn
  <2> QED
    BY <1>a, <1>2, <2>1, <2>2, <2>3, QuietStep DEF KeyedBegin
<1>9. ASSUME NEW p \in Tasks, NEW source \in Sources, NEW frame \in Frames, FrameBegin(p, source, frame)
      PROVE LogIInv'
  <2>1. /\ task'[p].pc = "sequence" /\ lock' = p /\ lock = None /\ task'[p].key = frame
        /\ \A q \in Tasks : q # p => task'[q] = task[q]
    BY <1>a, <1>9 DEF FrameBegin, Resting
  <2>2. p \notin Plain /\ p \notin Keyed /\ None \notin Tasks
    BY <1>9, LogAssumption DEF FrameBegin, Tasks
  <2>3. Numbered(p)' /\ Stamped(p)' /\ Stored(p)' /\ Exclusive(p)' /\ InTurn(p)'
    BY <2>1, <2>2 DEF Numbered, Stamped, Stored, Exclusive, InTurn
  <2> QED
    BY <1>a, <1>9, <2>1, <2>2, <2>3, QuietStep DEF FrameBegin
<1>3. ASSUME NEW p \in Tasks, ReadSequence(p) PROVE LogIInv'
  <2>1. PICK n \in 1..(MaxEvents + 1) :
           /\ IsNext(task[p].source, n)
           /\ task' = [task EXCEPT ![p].sequence = n, ![p].pc = "stamp"]
    BY <1>3 DEF ReadSequence
  <2>2. /\ task'[p].pc = "stamp" /\ task'[p].sequence = n
        /\ task'[p].source = task[p].source /\ task'[p].key = task[p].key
        /\ \A q \in Tasks : q # p => task'[q] = task[q]
    BY <1>a, <2>1
  <2>3. UNCHANGED <<now, log, sent, lock, overtaken>> /\ task[p].pc = "sequence"
    BY <1>3 DEF ReadSequence
  <2>4. Numbered(p)'
    BY <2>1, <2>2, <2>3 DEF Numbered, IsNext
  <2>5. Stamped(p)' /\ Stored(p)' /\ InTurn(p)'
    BY <2>2 DEF Stamped, Stored, InTurn
  <2>6. Exclusive(p)'
    BY <1>b, <2>2, <2>3 DEF Exclusive
  <2> QED
    BY <1>a, <2>2, <2>3, <2>4, <2>5, <2>6, QuietStep
<1>4. ASSUME NEW p \in Tasks, Stamp(p) PROVE LogIInv'
  <2>1. /\ task'[p].pc = "insert" /\ task'[p].sequence = task[p].sequence
        /\ task'[p].source = task[p].source /\ task'[p].key = task[p].key
        /\ task'[p].stamp = now
        /\ \A q \in Tasks : q # p => task'[q] = task[q]
    BY <1>a, <1>4 DEF Stamp
  <2>2. UNCHANGED <<log, sent, lock, overtaken>> /\ task[p].pc = "stamp" /\ now' = now + 1
    BY <1>4 DEF Stamp
  <2>3. Numbered(p)'
    BY <1>b, <2>1, <2>2 DEF Numbered
  <2>4. Stamped(p)'
    BY <1>a, <2>1, <2>2 DEF Stamped, LogIInv
  <2>5. Stored(p)'
    BY <2>1 DEF Stored
  <2>6. Exclusive(p)'
    BY <1>b, <2>1, <2>2 DEF Exclusive
  <2>7. \A i \in 1..Len(sent) : sent[i].stamp < now
    BY DEF LogIInv, SentIsDurable
  <2>8. InTurn(p)'
    BY <2>1, <2>2, <2>7 DEF InTurn
  <2> QED
    BY <1>a, <2>1, <2>2, <2>3, <2>4, <2>5, <2>6, <2>8, QuietStep
<1>5. ASSUME NEW p \in Tasks, Insert(p) PROVE LogIInv'
  <2>1. CASE Taken(EventOf(p))
    <3>1. task'[p] = Resting /\ task'[p].pc # "send" /\ \A q \in Tasks : q # p => task'[q] = task[q]
      BY <1>a, <1>5, <2>1 DEF Insert, Resting
    <3>2. UNCHANGED <<now, log, sent, overtaken>> /\ lock' = IF lock = p THEN None ELSE lock
      BY <1>5, <2>1 DEF Insert, Unlock
    <3>3. Numbered(p)' /\ Stamped(p)' /\ Stored(p)' /\ Exclusive(p)' /\ InTurn(p)'
      BY <3>1, RestingParts
    <3> QED
      BY <1>a, <3>1, <3>2, <3>3, QuietStep
  <2>2. CASE ~Taken(EventOf(p))
    BY <1>a, <1>5, <2>2, InsertStep DEF Insert, Unlock
  <2> QED
    BY <2>1, <2>2
<1>6. ASSUME NEW p \in Tasks, Send(p) PROVE LogIInv'
  BY <1>a, <1>6, SendStep
<1>7. CASE LogCrash
  <2>1. /\ UNCHANGED <<now, log, sent, overtaken>>
        /\ \A q \in Tasks : task'[q] = Resting /\ task'[q].pc # "send"
    BY <1>7 DEF LogCrash, Resting
  <2>2. \A q \in Tasks : (Numbered(q) /\ Stamped(q) /\ Stored(q) /\ Exclusive(q) /\ InTurn(q))'
    BY <2>1, RestingParts
  <2>3. OvertakenIsRecorded'
    BY <2>1, RecordKept
  <2> QED
    BY <1>a, <2>1, <2>2, <2>3, LogKept DEF LogIInv
<1>8. CASE UNCHANGED logVars
  <2>1. UNCHANGED <<now, log, sent, lock, task, overtaken>>
    BY <1>8 DEF logVars
  <2>2. \A q \in Tasks : (Numbered(q) /\ Stamped(q) /\ Stored(q) /\ Exclusive(q) /\ InTurn(q))'
    BY <1>a, <2>1, OthersKept
  <2>3. OvertakenIsRecorded'
    BY <2>1, RecordKept
  <2> QED
    BY <1>a, <2>1, <2>2, <2>3, LogKept DEF LogIInv
<1> QED
  BY <1>1, <1>2, <1>3, <1>4, <1>5, <1>6, <1>7, <1>8, <1>9 DEF LogNext, Proceed

-----------------------------------------------------------------------------

(* The log, the channel and the emissions have their types at all times.   *)
THEOREM LogTypeCorrect == LogSpec => []LogTypeOK
<1>1. LogInit => LogTypeOK
  BY LogTypeInit
<1>2. LogTypeOK /\ [LogNext]_logVars => LogTypeOK'
  BY LogTypeStep
<1> QED
  BY <1>1, <1>2, PTL DEF LogSpec

(* The inductive invariant holds at all times.                             *)
THEOREM LogInvariant == LogSpec => []LogIInv
<1>1. LogInit => LogIInv
  BY LogInvInit
<1>2. LogIInv /\ [LogNext]_logVars => LogIInv'
  BY LogInvStep
<1> QED
  BY <1>1, <1>2, PTL DEF LogSpec

(* The events of a source are numbered 1, 2, 3 ... without gap or repetition,
   although emit reads its number and inserts its event in two steps
   (app.rs 69-95, next_sequence and insert_event of the store).            *)
THEOREM LogIsDense == LogSpec => []SequencesAreDense
<1>1. LogIInv => SequencesAreDense
  BY DEF LogIInv
<1> QED
  BY <1>1, LogInvariant, PTL

(* Sequences and ingested_at order the events of a source in the same way,
   although the timestamp is taken between number and insert.              *)
THEOREM LogFollowsTime == LogSpec => []SequenceFollowsTime
<1>1. LogIInv => SequenceFollowsTime
  BY DEF LogIInv
<1> QED
  BY <1>1, LogInvariant, PTL

(* What the live channel has carried is in the log, crashes included
   (app.rs 67, "Persisting before broadcasting").                          *)
THEOREM BroadcastIsDurable == LogSpec => []SentIsDurable
<1>1. LogIInv => SentIsDurable
  BY DEF LogIInv
<1> QED
  BY <1>1, LogInvariant, PTL

(* The events of emit_idempotent are broadcast in the order of their
   timestamps, whatever plain emissions and audio frames are sent between
   them: their emission holds the lock from the lookup to the broadcast.   *)
THEOREM KeyedBroadcastInOrder == LogSpec => []KeyedInOrder
<1>1. LogIInv => KeyedInOrder
  BY DEF LogIInv
<1> QED
  BY <1>1, LogInvariant, PTL

-----------------------------------------------------------------------------
(* Keyed emissions and frames *)

(* What an emission has read under its lock still holds: its key, if it
   looked for one, is not in the log, and while its source is undisturbed
   neither is its number or a higher one of that source.                   *)
Current(p) ==
    /\ p \in Keyed /\ task[p].pc \in {"sequence", "stamp", "insert"} =>
         task[p].key # None /\ \A e \in log : e.key # task[p].key
    /\ task[p].pc \in {"stamp", "insert"} /\ Undisturbed(task[p].source) =>
         \A e \in log : e.source = task[p].source => e.sequence < task[p].sequence

Lockers == Keyed \cup Audio

(* No other emission makes it stale: one that holds the lock is the same,
   and a plain one disturbs the source it writes to.                       *)
LEMMA OthersStayCurrent ==
    ASSUME LogIInv, NEW p \in Tasks, NEW q \in Lockers, q # p, Current(q), task'[q] = task[q],
           log' = log \/ (Insert(p) /\ log' = log \cup {EventOf(p)})
    PROVE  Current(q)'
<1>1. CASE log' = log
  BY <1>1 DEF Current, Undisturbed
<1>2. CASE Insert(p) /\ log' = log \cup {EventOf(p)} /\ task[q].pc \in {"sequence", "stamp", "insert"}
  <2>1. lock = q
    BY <1>2 DEF LogIInv, Exclusive, Tasks, Lockers
  <2>2. p \notin Lockers
    BY <1>2, <2>1 DEF LogIInv, Exclusive, Insert, Lockers
  <2>3. EventOf(p).key = None /\ EventOf(p).source = task[p].source
    BY <2>2 DEF LogIInv, Exclusive, Tasks, EventOf, Lockers
  <2>4. ASSUME Undisturbed(task[q].source)'
        PROVE  EventOf(p).source # task[q].source /\ Undisturbed(task[q].source)
    BY <1>2, <2>3, <2>4 DEF Undisturbed
  <2> QED
    BY <1>2, <2>3, <2>4 DEF Current
<1>3. CASE task[q].pc \notin {"sequence", "stamp", "insert"}
  BY <1>3 DEF Current
<1> QED
  BY <1>1, <1>2, <1>3

LEMMA CurrentStep ==
    ASSUME LogIInv, [LogNext]_logVars, \A q \in Lockers : Current(q)
    PROVE  \A q \in Lockers : Current(q)'
<1>1. task \in [Tasks -> TaskStates]
  BY DEF LogIInv, LogTypeOK, TaskStates
<1>2. ASSUME NEW p \in Tasks, \A q \in Lockers : q # p => task'[q] = task[q],
             log' = log \/ (Insert(p) /\ log' = log \cup {EventOf(p)}),
             p \in Lockers => Current(p)'
      PROVE  \A q \in Lockers : Current(q)'
  BY <1>2, OthersStayCurrent
<1>3. ASSUME NEW p \in Tasks, NEW source \in Sources, EmitBegin(p, source)
      PROVE  \A q \in Lockers : Current(q)'
  <2>1. p \notin Lockers /\ log' = log /\ \A q \in Tasks : q # p => task'[q] = task[q]
    BY <1>1, <1>3, LogAssumption DEF EmitBegin, Lockers
  <2> QED
    BY <1>2, <2>1 DEF Tasks, Lockers
<1>4. ASSUME NEW p \in Tasks, NEW source \in Sources, NEW key \in Keys, KeyedBegin(p, source, key)
      PROVE  \A q \in Lockers : Current(q)'
  <2>1. /\ task'[p].pc = "sequence" /\ task'[p].key = key /\ log' = log
        /\ \A q \in Tasks : q # p => task'[q] = task[q]
    BY <1>1, <1>4 DEF KeyedBegin, Resting
  <2>2. key # None /\ \A e \in log : e.key # key
    BY <1>4, LogAssumption DEF KeyedBegin
  <2>3. Current(p)'
    BY <2>1, <2>2 DEF Current
  <2> QED
    BY <1>2, <2>1, <2>3 DEF Tasks, Lockers
<1>10. ASSUME NEW p \in Tasks, NEW source \in Sources, NEW frame \in Frames, FrameBegin(p, source, frame)
      PROVE  \A q \in Lockers : Current(q)'
  <2>1. /\ task'[p].pc = "sequence" /\ p \notin Keyed /\ log' = log
        /\ \A q \in Tasks : q # p => task'[q] = task[q]
    BY <1>1, <1>10, LogAssumption DEF FrameBegin, Resting
  <2>2. Current(p)'
    BY <2>1 DEF Current
  <2> QED
    BY <1>2, <2>1, <2>2 DEF Tasks, Lockers
<1>5. ASSUME NEW p \in Tasks, ReadSequence(p)
      PROVE  \A q \in Lockers : Current(q)'
  <2>1. PICK n \in 1..(MaxEvents + 1) :
           /\ IsNext(task[p].source, n)
           /\ task' = [task EXCEPT ![p].sequence = n, ![p].pc = "stamp"]
    BY <1>5 DEF ReadSequence
  <2>2. /\ task'[p].pc = "stamp" /\ task'[p].sequence = n
        /\ task'[p].source = task[p].source /\ task'[p].key = task[p].key
        /\ \A q \in Tasks : q # p => task'[q] = task[q]
    BY <1>1, <2>1
  <2>3. task[p].pc = "sequence" /\ log' = log
    BY <1>5 DEF ReadSequence
  <2>4. \A e \in log : e.source = task[p].source => e.sequence < n
    BY <2>1 DEF IsNext
  <2>5. p \in Lockers => Current(p)'
    BY <2>2, <2>3, <2>4 DEF Current, Undisturbed
  <2> QED
    BY <1>2, <2>2, <2>3, <2>5 DEF Tasks, Lockers
<1>6. ASSUME NEW p \in Tasks, Stamp(p)
      PROVE  \A q \in Lockers : Current(q)'
  <2>1. /\ task[p].pc = "stamp" /\ log' = log
        /\ task'[p].pc = "insert" /\ task'[p].sequence = task[p].sequence
        /\ task'[p].source = task[p].source /\ task'[p].key = task[p].key
        /\ \A q \in Tasks : q # p => task'[q] = task[q]
    BY <1>1, <1>6 DEF Stamp
  <2>2. p \in Lockers => Current(p)'
    BY <2>1 DEF Current, Undisturbed
  <2> QED
    BY <1>2, <2>1, <2>2 DEF Tasks, Lockers
<1>7. ASSUME NEW p \in Tasks, Insert(p) \/ Send(p)
      PROVE  \A q \in Lockers : Current(q)'
  <2>1. /\ task'[p].pc \in {"idle", "send"}
        /\ \A q \in Tasks : q # p => task'[q] = task[q]
    <3>1. CASE task' = [task EXCEPT ![p] = Resting]
      BY <1>1, <3>1 DEF Resting
    <3>2. CASE task' = [task EXCEPT ![p].pc = "send"]
      BY <1>1, <3>2 DEF TaskStates
    <3> QED
      BY <1>7, <3>1, <3>2 DEF Insert, Send
  <2>2. log' = log \/ (Insert(p) /\ log' = log \cup {EventOf(p)})
    BY <1>7 DEF Insert, Send
  <2>3. Current(p)'
    BY <2>1 DEF Current
  <2> QED
    BY <1>2, <2>1, <2>2, <2>3 DEF Tasks, Lockers
<1>8. CASE LogCrash
  BY <1>8 DEF LogCrash, Current, Resting, Tasks, Lockers
<1>9. CASE UNCHANGED logVars
  BY <1>9 DEF logVars, Current, Undisturbed
<1> QED
  BY <1>3, <1>4, <1>5, <1>6, <1>7, <1>8, <1>9, <1>10 DEF LogNext, Proceed

(* While no plain emission has stored an event of its source, a keyed one is
   never refused and a frame only as one that is stored already: both number
   and insert under one hold of the lock (emit_idempotent, persist_frame). *)
THEOREM KeyedEmissionsAreStored == LogSpec => KeyedEmissionsSucceed
<1> DEFINE Inv == LogIInv /\ \A p \in Lockers : Current(p)
<1>1. LogInit => \A p \in Lockers : Current(p)
  BY DEF LogInit, Current, Resting, Tasks, Lockers
<1>2. Inv /\ [LogNext]_logVars => Inv'
  BY LogInvStep, CurrentStep
<1>3. ASSUME Inv, NEW p \in Keyed \cup Audio, Insert(p), Undisturbed(task[p].source),
             Taken(EventOf(p))
      PROVE  p \in Audio /\ \E e \in log : e.key = task[p].key
  <2>1. /\ Current(p) /\ task[p].pc = "insert" /\ task[p].sequence \in Nat
        /\ \A e \in log : e.sequence \in Nat
    BY <1>3 DEF Insert, LogIInv, LogTypeOK, Tasks, Events, Lockers
  <2>2. \A e \in log : e.source = EventOf(p).source => e.sequence # EventOf(p).sequence
    BY <1>3, <2>1 DEF Current, EventOf
  <2>3. \E e \in log : e.key = task[p].key
    BY <1>3, <2>2 DEF Taken, EventOf
  <2> QED
    BY <2>1, <2>3 DEF Current
<1>4. Inv => [\A p \in Keyed \cup Audio :
                Insert(p) /\ Undisturbed(task[p].source) /\ Taken(EventOf(p)) =>
                  p \in Audio /\ \E e \in log : e.key = task[p].key]_logVars
  BY <1>3
<1> QED
  BY <1>1, <1>2, <1>4, LogInvInit, PTL DEF LogSpec, KeyedEmissionsSucceed

-----------------------------------------------------------------------------
(* Every event is broadcast once *)

(* An event takes one place in the channel, and the emissions about to
   broadcast stand for events that are different and not yet in it.        *)
SentOnce ==
    /\ \A i, j \in 1..Len(sent) : sent[i] = sent[j] => i = j
    /\ \A p \in Tasks : task[p].pc = "send" =>
         /\ \A i \in 1..Len(sent) : sent[i] # EventOf(p)
         /\ \A q \in Tasks : q # p /\ task[q].pc = "send" => EventOf(q) # EventOf(p)

(* A step in which no emission becomes ready to send and nothing is sent.  *)
LEMMA QuietKeepsOnce ==
    ASSUME SentOnce, UNCHANGED sent,
           \A q \in Tasks : task'[q].pc = "send" => task'[q] = task[q]
    PROVE  SentOnce'
<1>1. \A q \in Tasks : task'[q].pc = "send" => task[q].pc = "send" /\ EventOf(q)' = EventOf(q)
  BY DEF EventOf
<1>2. \A i, j \in 1..Len(sent') : sent'[i] = sent'[j] => i = j
  BY DEF SentOnce
<1>3. \A q \in Tasks : task'[q].pc = "send" => \A i \in 1..Len(sent') : sent'[i] # EventOf(q)'
  BY <1>1 DEF SentOnce
<1>4. \A q, r \in Tasks : q # r /\ task'[q].pc = "send" /\ task'[r].pc = "send" =>
        EventOf(r)' # EventOf(q)'
  BY <1>1 DEF SentOnce
<1> QED
  BY <1>2, <1>3, <1>4 DEF SentOnce

LEMMA OnceStep ==
    ASSUME LogIInv, SentOnce, [LogNext]_logVars
    PROVE  SentOnce'
<1>1. task \in [Tasks -> TaskStates] /\ sent \in Seq(Events) /\ SentIsDurable
      /\ \A q \in Tasks : Stored(q)
  BY DEF LogIInv, LogTypeOK, TaskStates
<1>2. ASSUME NEW p \in Tasks,
             \/ \E source \in Sources : EmitBegin(p, source)
             \/ \E source \in Sources, key \in Keys : KeyedBegin(p, source, key)
             \/ \E source \in Sources, frame \in Frames : FrameBegin(p, source, frame)
             \/ ReadSequence(p) \/ Stamp(p)
      PROVE  SentOnce'
  <2>1. task'[p].pc # "send" /\ \A q \in Tasks : q # p => task'[q] = task[q]
    <3>1. CASE ReadSequence(p) \/ Stamp(p)
      BY <1>1, <3>1 DEF ReadSequence, Stamp, TaskStates
    <3>2. ASSUME NEW source \in Sources, EmitBegin(p, source)
          PROVE  task'[p].pc # "send" /\ \A q \in Tasks : q # p => task'[q] = task[q]
      BY <1>1, <3>2 DEF EmitBegin, Resting
    <3>3. ASSUME NEW source \in Sources, NEW key \in Keys, KeyedBegin(p, source, key)
          PROVE  task'[p].pc # "send" /\ \A q \in Tasks : q # p => task'[q] = task[q]
      BY <1>1, <3>3 DEF KeyedBegin, Resting
    <3>4. ASSUME NEW source \in Sources, NEW frame \in Frames, FrameBegin(p, source, frame)
          PROVE  task'[p].pc # "send" /\ \A q \in Tasks : q # p => task'[q] = task[q]
      BY <1>1, <3>4 DEF FrameBegin, Resting
    <3> QED
      BY <1>2, <3>1, <3>2, <3>3, <3>4
  <2>2. UNCHANGED sent
    BY <1>2 DEF EmitBegin, KeyedBegin, FrameBegin, ReadSequence, Stamp
  <2> QED
    BY <2>1, <2>2, QuietKeepsOnce
<1>3. ASSUME NEW p \in Tasks, Insert(p), Taken(EventOf(p))
      PROVE  SentOnce'
  <2>1. /\ task'[p].pc # "send" /\ UNCHANGED sent
        /\ \A q \in Tasks : q # p => task'[q] = task[q]
    BY <1>1, <1>3 DEF Insert, Resting
  <2> QED
    BY <2>1, QuietKeepsOnce
<1>4. ASSUME NEW p \in Tasks, Insert(p), ~Taken(EventOf(p))
      PROVE  SentOnce'
  <2>1. /\ EventOf(p)' = EventOf(p) /\ UNCHANGED sent
        /\ \A q \in Tasks : q # p => task'[q] = task[q]
    BY <1>1, <1>4 DEF Insert, EventOf, TaskStates
  <2>2. EventOf(p) \notin log
    BY <1>4 DEF Taken
  <2>3. \A i \in 1..Len(sent) : sent[i] # EventOf(p)
    BY <1>1, <2>2 DEF SentIsDurable
  <2>4. ASSUME NEW q \in Tasks, q # p, task'[q].pc = "send"
        PROVE  /\ EventOf(q)' = EventOf(q) /\ EventOf(q) # EventOf(p) /\ task[q].pc = "send"
    BY <1>1, <2>1, <2>2, <2>4 DEF Stored, EventOf
  <2>5. \A q \in Tasks : task'[q].pc = "send" =>
          \A i \in 1..Len(sent) : sent[i] # EventOf(q)'
    BY <2>1, <2>3, <2>4 DEF SentOnce
  <2>6. \A q, r \in Tasks : q # r /\ task'[q].pc = "send" /\ task'[r].pc = "send" =>
          EventOf(r)' # EventOf(q)'
    BY <2>1, <2>4 DEF SentOnce
  <2> QED
    BY <2>1, <2>5, <2>6 DEF SentOnce
<1>5. ASSUME NEW p \in Tasks, Send(p)
      PROVE  SentOnce'
  <2> DEFINE new == EventOf(p)
             last == Len(sent) + 1
  <2>1. /\ new \in Events /\ sent' = Append(sent, new) /\ task[p].pc = "send"
        /\ task'[p].pc = "idle" /\ \A q \in Tasks : q # p => task'[q] = task[q]
    BY <1>1, <1>5, EventOfTask DEF Send, Resting, LogIInv
  <2>2. \A i \in 1..Len(sent) : sent[i] # new
    BY <2>1 DEF SentOnce
  <2>3. \A q \in Tasks : task'[q].pc = "send" =>
          q # p /\ task[q].pc = "send" /\ EventOf(q)' = EventOf(q) /\ EventOf(q) # new
    BY <2>1 DEF SentOnce, EventOf
  <2> HIDE DEF new
  <2>4. /\ Len(sent') = last /\ sent'[last] = new /\ Len(sent) \in Nat
        /\ \A i \in 1..Len(sent') : i = last \/ (i \in 1..Len(sent) /\ sent'[i] = sent[i])
    BY <1>1, <2>1
  <2>5. \A i, j \in 1..Len(sent') : sent'[i] = sent'[j] => i = j
    BY <2>2, <2>4 DEF SentOnce
  <2>6. \A q \in Tasks : task'[q].pc = "send" => \A i \in 1..Len(sent') : sent'[i] # EventOf(q)'
    BY <2>3, <2>4 DEF SentOnce
  <2>7. \A q, r \in Tasks : q # r /\ task'[q].pc = "send" /\ task'[r].pc = "send" =>
          EventOf(r)' # EventOf(q)'
    BY <2>3 DEF SentOnce
  <2> QED
    BY <2>5, <2>6, <2>7 DEF SentOnce
<1>6. CASE LogCrash
  <2>1. UNCHANGED sent /\ \A q \in Tasks : task'[q].pc # "send"
    BY <1>6 DEF LogCrash, Resting
  <2> QED
    BY <2>1, QuietKeepsOnce
<1>7. CASE UNCHANGED logVars
  BY <1>7, QuietKeepsOnce DEF logVars
<1> QED
  BY <1>2, <1>3, <1>4, <1>5, <1>6, <1>7 DEF LogNext, Proceed

-----------------------------------------------------------------------------
(* Streams *)

Views == [pc : {"off", "subscribed", "live"}, position : Nat, backlog : SUBSET Events,
          mark : Nat, got : SUBSET Events]

StreamShape ==
    /\ StreamTypeOK
    /\ view \in [Clients -> Views] /\ cursor \in [Clients -> Nat]
    /\ seen \in [Clients -> SUBSET Events]

(* Stamps tell events apart, those stored and those about to be.           *)
Dated ==
    /\ \A e \in log : e.stamp > 0
    /\ \A e, f \in log : e.stamp = f.stamp => e = f
    /\ \A p \in Tasks : task[p].pc = "insert" =>
         /\ task[p].stamp > 0 /\ \A e \in log : e.stamp # task[p].stamp
         /\ \A q \in Tasks : q # p /\ task[q].pc = "insert" => task[q].stamp # task[p].stamp

(* The event f has still to come over the connection of c.                 *)
Ahead(c, f) ==
    /\ f.stamp > view[c].mark
    /\ \/ \E i \in 1..Len(sent) : i > view[c].position /\ sent[i] = f
       \/ f \in Unsent

(* A client has every event up to its cursor but the overtaken ones; over a
   live connection it has each other one, or the replay holds it, or it has
   still to come.                                                          *)
Following(c) ==
    /\ cursor[c] = 0 \/ \E e \in log : e.stamp = cursor[c]
    /\ \A f \in log : f.stamp <= cursor[c] => f \in seen[c] \cup overtaken
    /\ view[c].pc = "live" =>
         /\ view[c].mark = 0 \/ \E e \in log : e.stamp = view[c].mark
         /\ \A f \in view[c].backlog : f.stamp <= view[c].mark
         /\ \A f \in log : f \in seen[c] \cup overtaken \cup view[c].backlog \/ Ahead(c, f)

StreamInvariant ==
    /\ LogIInv /\ StreamShape /\ now > 0 /\ Dated
    /\ \A c \in Clients : Following(c)

(* What a step of a writer does to the log and the channel.                *)
LEMMA LogOnlyGrows ==
    ASSUME LogTypeOK, LogNext
    PROVE  /\ log \subseteq log' /\ now' >= now /\ overtaken \subseteq overtaken'
           /\ Len(sent) <= Len(sent') /\ \A i \in 1..Len(sent) : sent'[i] = sent[i]
<1>1. now \in Nat /\ sent \in Seq(Events)
  BY DEF LogTypeOK
<1>2. ASSUME NEW p \in Tasks, Send(p)
      PROVE  Len(sent) <= Len(sent') /\ \A i \in 1..Len(sent) : sent'[i] = sent[i]
  <2>1. EventOf(p) \in Events /\ sent' = Append(sent, EventOf(p))
    BY <1>2, EventOfTask DEF Send
  <2> QED
    BY <1>1, <2>1
<1>3. (\E p \in Tasks : Send(p)) \/ UNCHANGED sent
  BY DEF LogNext, Proceed, EmitBegin, KeyedBegin, FrameBegin, ReadSequence, Stamp, Insert, LogCrash
<1>4. log \subseteq log' /\ now' >= now /\ overtaken \subseteq overtaken'
  <2>1. log \subseteq log'
    BY DEF LogNext, Proceed, EmitBegin, KeyedBegin, FrameBegin, ReadSequence, Stamp, Insert, Send, LogCrash
  <2>2. now' = now \/ now' = now + 1
    BY DEF LogNext, Proceed, EmitBegin, KeyedBegin, FrameBegin, ReadSequence, Stamp, Insert, Send, LogCrash
  <2>3. overtaken \subseteq overtaken'
    BY DEF LogNext, Proceed, EmitBegin, KeyedBegin, FrameBegin, ReadSequence, Stamp, Insert, Send, LogCrash
  <2> QED
    BY <1>1, <2>1, <2>2, <2>3
<1>5. CASE UNCHANGED sent
  <2>1. Len(sent) \in Nat
    BY <1>1
  <2> QED
    BY <1>4, <1>5, <2>1
<1> QED
  BY <1>2, <1>3, <1>4, <1>5

(* Whose number or stamp a step changes.                                   *)
LEMMA StepOfTask ==
    ASSUME LogTypeOK, NEW p \in Tasks,
           \/ \E source \in Sources : EmitBegin(p, source)
           \/ \E source \in Sources, key \in Keys : KeyedBegin(p, source, key)
           \/ \E source \in Sources, frame \in Frames : FrameBegin(p, source, frame)
           \/ Proceed(p)
    PROVE  /\ \A q \in Tasks : q # p => task'[q] = task[q]
           /\ task[p].pc = "send" => Send(p)
           /\ task'[p].pc = "insert" => Stamp(p)
           /\ log' # log => Insert(p) /\ ~Taken(EventOf(p))
<1>1. task \in [Tasks -> TaskStates]
  BY DEF LogTypeOK, TaskStates
<1>2. \A q \in Tasks : q # p => task'[q] = task[q]
  BY <1>1 DEF Proceed, EmitBegin, KeyedBegin, FrameBegin, ReadSequence, Stamp, Insert, Send
<1>3. ASSUME task[p].pc = "send"
      PROVE  Send(p)
  <2>1. task[p] # Resting
    BY <1>3 DEF Resting
  <2>2. ~ReadSequence(p) /\ ~Stamp(p) /\ ~Insert(p)
    BY <1>3 DEF ReadSequence, Stamp, Insert
  <2> QED
    BY <2>1, <2>2 DEF Proceed, EmitBegin, KeyedBegin, FrameBegin
<1>4. log' # log => Insert(p) /\ ~Taken(EventOf(p))
  BY DEF Proceed, EmitBegin, KeyedBegin, FrameBegin, ReadSequence, Stamp, Insert, Send
<1>5. task'[p].pc = "insert" => Stamp(p)
  <2>1. CASE ReadSequence(p)
    BY <1>1, <2>1 DEF ReadSequence, TaskStates
  <2>2. CASE Insert(p)
    BY <1>1, <2>2 DEF Insert, Resting, TaskStates
  <2>3. CASE Send(p)
    BY <1>1, <2>3 DEF Send, Resting
  <2>4. CASE (\E source \in Sources : EmitBegin(p, source))
             \/ (\E source \in Sources, key \in Keys : KeyedBegin(p, source, key))
             \/ \E source \in Sources, frame \in Frames : FrameBegin(p, source, frame)
    BY <1>1, <2>4 DEF EmitBegin, KeyedBegin, FrameBegin, Resting
  <2> QED
    BY <2>1, <2>2, <2>3, <2>4 DEF Proceed
<1> QED
  BY <1>2, <1>3, <1>4, <1>5

LEMMA LogSteps ==
    ASSUME LogNext
    PROVE  \/ LogCrash
           \/ \E p \in Tasks :
                \/ \E source \in Sources : EmitBegin(p, source)
                \/ \E source \in Sources, key \in Keys : KeyedBegin(p, source, key)
                \/ \E source \in Sources, frame \in Frames : FrameBegin(p, source, frame)
                \/ Proceed(p)
  BY DEF LogNext

(* An insertion: the new event waits to be sent, and is overtaken unless it
   is later than the whole log.                                            *)
LEMMA Inserted ==
    ASSUME LogIInv, Dated, NEW p \in Tasks, Insert(p), ~Taken(EventOf(p))
    PROVE  /\ task[p].pc = "insert" /\ task'[p].pc = "send"
           /\ EventOf(p)' = EventOf(p) /\ log' = log \cup {EventOf(p)} /\ UNCHANGED sent
           /\ EventOf(p).stamp = task[p].stamp
           /\ EventOf(p).stamp \in Nat /\ EventOf(p).stamp > 0
           /\ \A e \in log : e.stamp # EventOf(p).stamp
           /\ EventOf(p) \in overtaken' \/ \A e \in log : e.stamp < EventOf(p).stamp
<1>1. task \in [Tasks -> TaskStates] /\ \A e \in log : e.stamp \in Nat
  BY DEF LogIInv, LogTypeOK, TaskStates, Events
<1>2. /\ log' = log \cup {EventOf(p)} /\ task' = [task EXCEPT ![p].pc = "send"]
      /\ task[p].pc = "insert" /\ UNCHANGED sent
      /\ overtaken' = overtaken \cup {e \in {EventOf(p)} : \E f \in log : f.stamp > e.stamp}
  BY DEF Insert
<1>3. task'[p].pc = "send" /\ EventOf(p)' = EventOf(p)
  BY <1>1, <1>2 DEF EventOf, TaskStates
<1>4. /\ EventOf(p).stamp = task[p].stamp /\ EventOf(p).stamp \in Nat /\ EventOf(p).stamp > 0
      /\ \A e \in log : e.stamp # EventOf(p).stamp
  BY <1>1, <1>2 DEF Dated, EventOf, TaskStates
<1>5. EventOf(p) \in overtaken' \/ \A e \in log : ~(e.stamp > EventOf(p).stamp)
  BY <1>2
<1> QED
  BY <1>1, <1>2, <1>3, <1>4, <1>5

LEMMA DatedStep ==
    ASSUME LogIInv, now > 0, LogNext, Dated
    PROVE  Dated'
<1>1. CASE LogCrash
  BY <1>1 DEF LogCrash, Dated, Resting
<1>2. ASSUME NEW p \in Tasks,
             \/ \E source \in Sources : EmitBegin(p, source)
             \/ \E source \in Sources, key \in Keys : KeyedBegin(p, source, key)
             \/ \E source \in Sources, frame \in Frames : FrameBegin(p, source, frame)
             \/ Proceed(p)
      PROVE  Dated'
  <2>1. /\ \A q \in Tasks : q # p => task'[q] = task[q]
        /\ task'[p].pc = "insert" => Stamp(p)
        /\ log' # log => Insert(p) /\ ~Taken(EventOf(p))
    BY <1>2, StepOfTask DEF LogIInv
  <2>2. /\ task \in [Tasks -> TaskStates] /\ now \in Nat
        /\ \A e \in log : e.stamp \in Nat /\ e.stamp < now
        /\ \A q \in Tasks : task[q].pc = "insert" => task[q].stamp \in Nat /\ task[q].stamp < now
    BY DEF LogIInv, LogTypeOK, TaskStates, Events, Stamped
  <2>3. CASE log' = log
    <3>1. CASE task'[p].pc = "insert"
      <4>1. task'[p].stamp = now
        BY <2>1, <2>2, <3>1 DEF Stamp, TaskStates
      <4> QED
        BY <2>1, <2>2, <2>3, <4>1 DEF Dated
    <3>2. CASE task'[p].pc # "insert"
      BY <2>1, <2>3, <3>2 DEF Dated
    <3> QED
      BY <3>1, <3>2
  <2>4. CASE log' # log
    <3> DEFINE new == EventOf(p)
    <3>1. /\ task[p].pc = "insert" /\ task'[p].pc = "send" /\ new.stamp = task[p].stamp
          /\ log' = log \cup {new} /\ new.stamp \in Nat /\ new.stamp > 0
          /\ \A e \in log : e.stamp # new.stamp
      BY <2>1, <2>4, Inserted
    <3> HIDE DEF new
    <3>2. \A e \in log' : e.stamp > 0
      BY <3>1 DEF Dated
    <3>3. \A e, f \in log' : e.stamp = f.stamp => e = f
      BY <2>2, <3>1 DEF Dated
    <3>4. ASSUME NEW q \in Tasks, task'[q].pc = "insert"
          PROVE  /\ task'[q] = task[q] /\ q # p
                 /\ \A e \in log' : e.stamp # task'[q].stamp
      BY <2>1, <3>1, <3>4 DEF Dated
    <3> QED
      BY <3>2, <3>3, <3>4 DEF Dated
  <2> QED
    BY <2>3, <2>4
<1> QED
  BY <1>1, <1>2, LogSteps

(* A step of a writer neither takes anything from a client nor hides what  *)
(* it stores.                                                              *)
LEMMA WriteFollows ==
    ASSUME LogIInv, LogTypeOK', StreamShape, LogNext, ~LogCrash, UNCHANGED streamVars,
           Dated, NEW c \in Clients, Following(c)
    PROVE  Following(c)'
<1>1. /\ view' = view /\ cursor' = cursor /\ seen' = seen
      /\ view[c].position \in 0..Len(sent) /\ sent \in Seq(Events)
      /\ view[c].mark \in Nat /\ cursor[c] \in Nat
      /\ \A e \in log : e.stamp \in Nat
  BY DEF streamVars, StreamShape, StreamTypeOK, LogTypeOK, Views, Events
<1>2. /\ log \subseteq log' /\ overtaken \subseteq overtaken' /\ Len(sent) <= Len(sent')
      /\ \A i \in 1..Len(sent) : sent'[i] = sent[i]
  BY LogOnlyGrows DEF LogIInv
<1>3. PICK p \in Tasks :
        \/ \E source \in Sources : EmitBegin(p, source)
        \/ \E source \in Sources, key \in Keys : KeyedBegin(p, source, key)
        \/ \E source \in Sources, frame \in Frames : FrameBegin(p, source, frame)
        \/ Proceed(p)
  BY LogSteps
<1>4. /\ \A q \in Tasks : q # p => task'[q] = task[q]
      /\ task[p].pc = "send" => Send(p)
      /\ log' # log => Insert(p) /\ ~Taken(EventOf(p))
  BY <1>3, StepOfTask DEF LogIInv
<1>5. ASSUME NEW f \in log, Ahead(c, f)
      PROVE  Ahead(c, f)'
  <2>1. f.stamp > view'[c].mark
    BY <1>1, <1>5 DEF Ahead
  <2>2. ASSUME NEW i \in 1..Len(sent), i > view[c].position, sent[i] = f
        PROVE  \E j \in 1..Len(sent') : j > view'[c].position /\ sent'[j] = f
    <3>1. i \in 1..Len(sent') /\ sent'[i] = f
      BY <1>1, <1>2, <2>2, LogTypeOK' DEF LogTypeOK
    <3> QED
      BY <1>1, <2>2, <3>1
  <2>3. ASSUME NEW q \in Tasks, task[q].pc = "send", EventOf(q) = f
        PROVE  \/ \E j \in 1..Len(sent') : j > view'[c].position /\ sent'[j] = f
               \/ \E r \in Tasks : task'[r].pc = "send" /\ EventOf(r)' = f
    <3>1. CASE q = p
      <4>1. sent' = Append(sent, EventOf(q)) /\ EventOf(q) \in Events
        BY <1>4, <2>3, <3>1, EventOfTask DEF Send, LogIInv
      <4>2. Len(sent') = Len(sent) + 1 /\ sent'[Len(sent) + 1] = f
        BY <1>1, <2>3, <4>1
      <4> QED
        BY <1>1, <4>2
    <3>2. CASE q # p
      <4>1. task'[q] = task[q]
        BY <1>4, <3>2
      <4> QED
        BY <2>3, <4>1 DEF EventOf
    <3> QED
      BY <3>1, <3>2
  <2> QED
    BY <1>5, <2>1, <2>2, <2>3 DEF Ahead, Unsent
<1>6. CASE log' = log
  BY <1>1, <1>2, <1>5, <1>6 DEF Following
<1>7. CASE log' # log
  <2>1. PICK new :
          /\ task'[p].pc = "send" /\ EventOf(p)' = new
          /\ log' = log \cup {new} /\ new.stamp \in Nat /\ new.stamp > 0
          /\ new \in overtaken' \/ \A e \in log : e.stamp < new.stamp
    BY <1>4, <1>7, Inserted
  <2>2. new \in overtaken' \/ cursor[c] < new.stamp
    BY <1>1, <2>1 DEF Following
  <2>3. view[c].pc = "live" => new \in overtaken' \/ Ahead(c, new)'
    <3>1. view[c].pc = "live" => new \in overtaken' \/ view[c].mark < new.stamp
      BY <1>1, <2>1 DEF Following
    <3> QED
      BY <1>1, <2>1, <3>1 DEF Ahead, Unsent
  <2>4. \A f \in log' : f.stamp <= cursor'[c] => f \in seen'[c] \cup overtaken'
    BY <1>1, <1>2, <2>1, <2>2 DEF Following
  <2>5. view[c].pc = "live" =>
          \A f \in log' : f \in seen'[c] \cup overtaken' \cup view'[c].backlog \/ Ahead(c, f)'
    BY <1>1, <1>2, <1>5, <2>1, <2>3 DEF Following
  <2> QED
    BY <1>1, <1>2, <2>4, <2>5 DEF Following
<1> QED
  BY <1>6, <1>7

LEMMA OffTyped == Off \in Views /\ Off.pc = "off"
  BY DEF Off, Views

(* Another client's step changes nothing for c.                            *)
LEMMA OtherFollows ==
    ASSUME UNCHANGED logVars, NEW c \in Clients, view'[c] = view[c], cursor'[c] = cursor[c],
           seen'[c] = seen[c], Following(c)
    PROVE  Following(c)'
  BY DEF logVars, Following, Ahead, Unsent, EventOf

(* The steps of a connection.                                              *)
LEMMA ClientFollows ==
    ASSUME LogIInv, StreamShape, Dated, NEW c \in Clients, Following(c),
           Advance(c) \/ Drop(c)
    PROVE  Following(c)'
<1>1. /\ view[c] \in Views /\ cursor[c] \in Nat /\ seen[c] \in SUBSET Events
      /\ view \in [Clients -> Views] /\ view[c].position \in 0..Len(sent)
      /\ cursor \in [Clients -> Nat] /\ seen \in [Clients -> SUBSET Events]
      /\ view[c].backlog \subseteq log
  BY DEF StreamShape, StreamTypeOK
<1>2. /\ sent \in Seq(Events) /\ log \subseteq Events /\ \A e \in log : e.stamp \in Nat
      /\ \A i \in 1..Len(sent) : sent[i] \in log
  BY DEF LogIInv, LogTypeOK, SentIsDurable, Events
<1>3. UNCHANGED logVars
  BY DEF Advance, Subscribe, Snapshot, Replay, Follow, FallBehind, Drop
<1>4. UNCHANGED <<log, sent, overtaken>> /\ Unsent' = Unsent
  BY <1>3 DEF logVars, Unsent, EventOf
<1>5. CASE view'[c].pc # "live" /\ UNCHANGED <<cursor, seen>>
  BY <1>4, <1>5 DEF Following
<1>6. CASE Subscribe(c) \/ FallBehind(c) \/ Drop(c)
  <2>1. view'[c].pc # "live" /\ UNCHANGED <<cursor, seen>>
    BY <1>1, <1>6, OffTyped DEF Subscribe, FallBehind, Drop, Off
  <2> QED
    BY <1>5, <2>1
<1>7. CASE Snapshot(c)
  <2> DEFINE history == {e \in log : e.stamp > cursor[c]}
  <2>1. PICK mark \in {cursor[c]} \cup {e.stamp : e \in history} :
          /\ \A e \in history : e.stamp <= mark
          /\ view' = [view EXCEPT ![c].pc = "live", ![c].backlog = history, ![c].mark = mark]
    BY <1>7 DEF Snapshot
  <2>2. view'[c].backlog = history /\ view'[c].mark = mark /\ UNCHANGED <<cursor, seen>>
    BY <1>1, <1>7, <2>1 DEF Snapshot, Views
  <2>3. mark = 0 \/ \E e \in log : e.stamp = mark
    BY <2>1 DEF Following
  <2>4. \A f \in log : f \in seen[c] \cup overtaken \cup history
    BY <1>1, <1>2 DEF Following
  <2> QED
    BY <1>4, <2>1, <2>2, <2>3, <2>4 DEF Following
<1>8. CASE Replay(c)
  <2>1. PICK e \in view[c].backlog :
          /\ \A f \in view[c].backlog : e.stamp <= f.stamp
          /\ Deliver(c, e)
          /\ view' = [view EXCEPT ![c].backlog = @ \ {e}, ![c].got = @ \cup {e}]
    BY <1>8 DEF Replay
  <2>2. /\ view[c].pc = "live" /\ view'[c].pc = "live" /\ view'[c].mark = view[c].mark
        /\ view'[c].position = view[c].position /\ view'[c].backlog = view[c].backlog \ {e}
    BY <1>1, <1>8, <2>1 DEF Replay, Views
  <2>3. seen'[c] = seen[c] \cup {e} /\ cursor'[c] = e.stamp /\ e \in log /\ e.stamp <= view[c].mark
    BY <1>1, <2>1, <2>2 DEF Deliver, Following
  <2>4. ASSUME NEW f \in log
        PROVE  f \in seen'[c] \cup overtaken \cup view'[c].backlog \/ Ahead(c, f)'
    <3>1. Ahead(c, f) => Ahead(c, f)'
      BY <1>4, <2>2 DEF Ahead
    <3> QED
      BY <2>2, <2>3, <3>1 DEF Following
  <2>5. ASSUME NEW f \in log, f.stamp <= e.stamp
        PROVE  f \in seen'[c] \cup overtaken
    <3>1. ~Ahead(c, f)
      BY <1>1, <1>2, <2>3, <2>5 DEF Ahead, Views
    <3>2. f \in view[c].backlog => f = e
      BY <1>2, <2>1, <2>3, <2>5 DEF Dated
    <3> QED
      BY <2>2, <2>3, <3>1, <3>2 DEF Following
  <2> QED
    BY <1>4, <2>2, <2>3, <2>4, <2>5 DEF Following
<1>9. CASE Follow(c)
  <2> DEFINE e == sent[view[c].position + 1]
  <2>1. /\ view[c].pc = "live" /\ view[c].backlog = {} /\ view[c].position + 1 \in 1..Len(sent)
        /\ view[c].position \in Nat /\ view[c].mark \in Nat
    BY <1>1, <1>2, <1>9 DEF Follow, Views
  <2>2. e \in log /\ e.stamp \in Nat
    BY <1>2, <2>1
  <2>3. /\ view'[c].pc = "live" /\ view'[c].mark = view[c].mark /\ view'[c].backlog = {}
        /\ view'[c].position = view[c].position + 1
        /\ \/ e.stamp > view[c].mark /\ seen'[c] = seen[c] \cup {e} /\ cursor'[c] = e.stamp
           \/ ~(e.stamp > view[c].mark) /\ UNCHANGED <<seen, cursor>>
    <3>1. CASE e.stamp > view[c].mark
      <4>1. /\ Deliver(c, e)
            /\ view' = [view EXCEPT ![c].position = @ + 1, ![c].got = @ \cup {e}]
        BY <1>9, <3>1 DEF Follow
      <4>2. seen'[c] = seen[c] \cup {e} /\ cursor'[c] = e.stamp
        BY <1>1, <4>1 DEF Deliver
      <4> HIDE DEF e
      <4>3. /\ view'[c].pc = "live" /\ view'[c].mark = view[c].mark
            /\ view'[c].backlog = {} /\ view'[c].position = view[c].position + 1
        BY <1>1, <2>1, <4>1 DEF Views
      <4> QED
        BY <3>1, <4>2, <4>3
    <3>2. CASE ~(e.stamp > view[c].mark)
      <4>1. /\ view' = [view EXCEPT ![c].position = @ + 1]
            /\ UNCHANGED <<seen, cursor>>
        BY <1>9, <3>2 DEF Follow
      <4> HIDE DEF e
      <4>2. view'[c] = [view[c] EXCEPT !.position = @ + 1]
        BY <1>1, <4>1
      <4>3. /\ view'[c].pc = "live" /\ view'[c].mark = view[c].mark
            /\ view'[c].backlog = {} /\ view'[c].position = view[c].position + 1
        BY <1>1, <2>1, <4>2 DEF Views
      <4> QED
        BY <3>2, <4>1, <4>3
    <3> QED
      BY <3>1, <3>2
  <2>4. \A f \in log : f \in seen[c] \cup overtaken \/ Ahead(c, f)
    BY <2>1 DEF Following
  <2> HIDE DEF e
  <2>5. ASSUME NEW f \in log
        PROVE  f \in seen'[c] \cup overtaken \/ Ahead(c, f)'
    <3>1. CASE f \in seen[c] \cup overtaken
      BY <2>3, <3>1
    <3>2. CASE f \in Unsent /\ f.stamp > view[c].mark
      BY <1>4, <2>3, <3>2 DEF Ahead
    <3>3. ASSUME NEW i \in 1..Len(sent), i > view[c].position, sent[i] = f, f.stamp > view[c].mark
          PROVE  f \in seen'[c] \/ Ahead(c, f)'
      <4>1. CASE i = view[c].position + 1
        BY <2>3, <3>3, <4>1 DEF e
      <4>2. CASE i # view[c].position + 1
        <5>1. i > view'[c].position
          BY <2>1, <2>3, <3>3, <4>2
        <5> QED
          BY <1>4, <2>3, <3>3, <5>1 DEF Ahead
      <4> QED
        BY <4>1, <4>2
    <3> QED
      BY <2>4, <3>1, <3>2, <3>3 DEF Ahead
  <2>6. ASSUME e.stamp > view[c].mark, NEW f \in log, f.stamp <= e.stamp
        PROVE  f \in seen'[c] \cup overtaken
    <3>a. OvertakenIsRecorded /\ f.stamp \in Nat /\ (f = e \/ f.stamp < e.stamp)
      BY <1>2, <2>2, <2>6 DEF LogIInv, Dated
    <3>1. CASE f \in seen[c] \cup overtaken \cup {e}
      BY <2>3, <2>6, <3>1
    <3>2. CASE f \in Unsent /\ f.stamp < e.stamp
      BY <2>1, <3>a, <3>2 DEF OvertakenIsRecorded, e
    <3>3. ASSUME NEW i \in 1..Len(sent), i > view[c].position, sent[i] = f, f.stamp < e.stamp
          PROVE  f \in overtaken
      <4>1. view[c].position + 1 < i
        <5>1. i # view[c].position + 1
          BY <2>2, <3>3 DEF e
        <5> QED
          BY <2>1, <3>3, <5>1
      <4> QED
        BY <2>1, <3>a, <3>3, <4>1 DEF OvertakenIsRecorded, e
    <3> QED
      BY <2>4, <3>a, <3>1, <3>2, <3>3 DEF Ahead
  <2>7. /\ cursor'[c] = 0 \/ \E f \in log : f.stamp = cursor'[c]
        /\ \A f \in log : f.stamp <= cursor'[c] => f \in seen'[c] \cup overtaken
    BY <2>2, <2>3, <2>6 DEF Following
  <2>8. view[c].mark = 0 \/ \E f \in log : f.stamp = view[c].mark
    BY <2>1 DEF Following
  <2> QED
    BY <1>4, <2>3, <2>5, <2>7, <2>8 DEF Following
<1> QED
  BY <1>6, <1>7, <1>8, <1>9 DEF Advance

(* The types of the connections.                                           *)
LEMMA ViewMoves ==
    ASSUME StreamShape, LogIInv, UNCHANGED logVars, NEW c \in Clients, NEW v \in Views,
           view' = [view EXCEPT ![c] = v], v.position <= Len(sent), v.backlog \subseteq log,
           NEW s \in SUBSET log, seen' = [seen EXCEPT ![c] = s], seen[c] \subseteq s,
           v.got \subseteq s, NEW n \in 0..now, cursor' = [cursor EXCEPT ![c] = n],
           drops' \in 0..MaxDrops
    PROVE  StreamShape'
<1>1. /\ view \in [Clients -> Views] /\ cursor \in [Clients -> Nat] /\ log \subseteq Events
      /\ seen \in [Clients -> SUBSET Events] /\ StreamTypeOK /\ LogTypeOK /\ now \in Nat
  BY DEF StreamShape, LogIInv, LogTypeOK
<1>2. \A d \in Clients : /\ view'[d] = IF d = c THEN v ELSE view[d]
                         /\ seen'[d] = IF d = c THEN s ELSE seen[d]
                         /\ cursor'[d] = IF d = c THEN n ELSE cursor[d]
  BY <1>1
<1>3. view' \in [Clients -> Views] /\ cursor' \in [Clients -> Nat] /\ seen' \in [Clients -> SUBSET Events]
  BY <1>1
<1>4. LogTypeOK' /\ log' = log /\ sent' = sent /\ now' = now
  BY <1>1 DEF logVars, LogTypeOK
<1>5. ASSUME NEW d \in Clients
      PROVE  /\ view'[d].pc \in {"off", "subscribed", "live"}
             /\ view'[d].position \in 0..Len(sent)
             /\ view'[d].backlog \subseteq log /\ view'[d].got \subseteq seen'[d]
             /\ cursor'[d] \in 0..now /\ seen'[d] \subseteq log
  <2>1. CASE d = c
    <3>1. v.position \in 0..Len(sent) /\ v.pc \in {"off", "subscribed", "live"}
      BY DEF Views
    <3> QED
      BY <1>2, <2>1, <3>1
  <2>2. CASE d # c
    BY <1>1, <1>2, <2>2 DEF StreamTypeOK
  <2> QED
    BY <2>1, <2>2
<1> QED
  BY <1>3, <1>4, <1>5 DEF StreamShape, StreamTypeOK

LEMMA ClientTyped ==
    ASSUME LogIInv, StreamShape, NEW c \in Clients, Advance(c) \/ Drop(c)
    PROVE  StreamShape'
<1>1. /\ view[c] \in Views /\ cursor[c] \in Nat /\ seen[c] \in SUBSET Events
      /\ view \in [Clients -> Views] /\ view[c].position \in 0..Len(sent)
      /\ cursor \in [Clients -> Nat] /\ seen \in [Clients -> SUBSET Events]
      /\ view[c].backlog \subseteq log /\ view[c].got \subseteq seen[c] /\ seen[c] \subseteq log
      /\ cursor[c] \in 0..now /\ drops \in 0..MaxDrops
  BY DEF StreamShape, StreamTypeOK
<1>2. /\ sent \in Seq(Events) /\ log \subseteq Events /\ Len(sent) \in Nat /\ now \in Nat
      /\ \A i \in 1..Len(sent) : sent[i] \in log
      /\ \A e \in log : e.stamp \in Nat /\ e.stamp \in 0..now
  BY DEF LogIInv, LogTypeOK, SentIsDurable, Events
<1>3. UNCHANGED logVars
  BY DEF Advance, Subscribe, Snapshot, Replay, Follow, FallBehind, Drop
<1>4. ASSUME NEW v \in Views, view' = [view EXCEPT ![c] = v], v.position <= Len(sent),
             v.backlog \subseteq log, v.got \subseteq seen[c],
             UNCHANGED <<cursor, seen>>, drops' \in 0..MaxDrops
      PROVE  StreamShape'
  <2>1. PICK s \in SUBSET log, n \in 0..now : s = seen[c] /\ n = cursor[c]
    BY <1>1
  <2>2. seen' = [seen EXCEPT ![c] = s] /\ cursor' = [cursor EXCEPT ![c] = n]
    BY <1>1, <1>4, <2>1
  <2> QED
    BY <1>3, <1>4, <2>1, <2>2, ViewMoves
<1>5. ASSUME NEW e \in log, NEW v \in Views, view' = [view EXCEPT ![c] = v], Deliver(c, e),
             v.position <= Len(sent), v.backlog \subseteq log,
             v.got = view[c].got \cup {e}, UNCHANGED drops
      PROVE  StreamShape'
  <2>1. PICK s \in SUBSET log, n \in 0..now : s = seen[c] \cup {e} /\ n = e.stamp
    BY <1>1, <1>2
  <2>2. seen' = [seen EXCEPT ![c] = s] /\ cursor' = [cursor EXCEPT ![c] = n]
    BY <1>1, <1>5, <2>1 DEF Deliver
  <2>3. seen[c] \subseteq s /\ v.got \subseteq s
    BY <1>1, <1>5, <2>1
  <2> QED
    BY <1>1, <1>3, <1>5, <2>2, <2>3, ViewMoves
<1>6. CASE Subscribe(c)
  <2>1. PICK v : v = [Off EXCEPT !.pc = "subscribed", !.position = Len(sent)]
    OBVIOUS
  <2>2. v \in Views /\ v.position = Len(sent) /\ v.backlog = {} /\ v.got = {}
    BY <1>2, <2>1 DEF Off, Views
  <2>3. view' = [view EXCEPT ![c] = v] /\ UNCHANGED <<cursor, seen, drops>>
    BY <1>6, <2>1 DEF Subscribe
  <2>4. /\ v.position <= Len(sent) /\ v.backlog \subseteq log /\ v.got \subseteq seen[c]
        /\ drops' \in 0..MaxDrops
    BY <1>1, <1>2, <2>2, <2>3
  <2> QED
    BY <1>4, <2>2, <2>3, <2>4
<1>7. CASE FallBehind(c) \/ Drop(c)
  <2>1. Off \in Views /\ Off.position = 0 /\ Off.backlog = {} /\ Off.got = {}
    BY OffTyped DEF Off
  <2>2. view' = [view EXCEPT ![c] = Off] /\ UNCHANGED <<cursor, seen>> /\ drops' \in 0..MaxDrops
    BY <1>1, <1>7, StreamAssumption DEF FallBehind, Drop
  <2>3. Off.position <= Len(sent) /\ Off.backlog \subseteq log /\ Off.got \subseteq seen[c]
    BY <1>2, <2>1
  <2> QED
    BY <1>4, <2>1, <2>2, <2>3
<1>8. CASE Snapshot(c)
  <2> DEFINE history == {e \in log : e.stamp > cursor[c]}
  <2>1. PICK mark \in {cursor[c]} \cup {e.stamp : e \in history} :
          view' = [view EXCEPT ![c].pc = "live", ![c].backlog = history, ![c].mark = mark]
    BY <1>8 DEF Snapshot
  <2>2. mark \in Nat /\ history \in SUBSET Events
    BY <1>1, <1>2
  <2> HIDE DEF history
  <2>3. PICK v : v = [view[c] EXCEPT !.pc = "live", !.backlog = history, !.mark = mark]
    OBVIOUS
  <2>4. v \in Views /\ v.position = view[c].position /\ v.backlog = history /\ v.got = view[c].got
    BY <1>1, <2>2, <2>3 DEF Views
  <2>5. view' = [view EXCEPT ![c] = v]
    BY <1>1, <2>1, <2>3
  <2>6. history \subseteq log /\ UNCHANGED <<cursor, seen, drops>>
    BY <1>8 DEF Snapshot, history
  <2>7. /\ v.position <= Len(sent) /\ v.backlog \subseteq log /\ v.got \subseteq seen[c]
        /\ drops' \in 0..MaxDrops
    BY <1>1, <1>2, <2>4, <2>6
  <2> QED
    BY <1>4, <2>4, <2>5, <2>6, <2>7
<1>9. CASE Replay(c)
  <2>1. PICK e \in view[c].backlog :
          /\ Deliver(c, e) /\ UNCHANGED drops
          /\ view' = [view EXCEPT ![c].backlog = @ \ {e}, ![c].got = @ \cup {e}]
    BY <1>9 DEF Replay
  <2>2. PICK v : v = [view[c] EXCEPT !.backlog = @ \ {e}, !.got = @ \cup {e}]
    OBVIOUS
  <2>3. /\ v \in Views /\ v.position = view[c].position /\ v.backlog \subseteq view[c].backlog
        /\ v.got = view[c].got \cup {e}
    BY <1>1, <1>2, <2>2 DEF Views
  <2>4. view' = [view EXCEPT ![c] = v] /\ e \in log
    BY <1>1, <2>1, <2>2
  <2>5. v.position <= Len(sent) /\ v.backlog \subseteq log
    BY <1>1, <1>2, <2>3
  <2> QED
    BY <1>5, <2>1, <2>3, <2>4, <2>5
<1>10. CASE Follow(c)
  <2>1. view[c].position + 1 \in 1..Len(sent) /\ view[c].position \in Nat
    BY <1>1, <1>2, <1>10 DEF Follow
  <2>2. PICK e \in log : e = sent[view[c].position + 1]
    BY <1>2, <2>1
  <2>3. PICK n \in Nat : n = view[c].position + 1
    BY <2>1
  <2>4. n <= Len(sent)
    BY <2>1, <2>3
  <2>5. CASE e.stamp > view[c].mark
    <3>1. PICK v : v = [view[c] EXCEPT !.position = n, !.got = @ \cup {e}]
      OBVIOUS
    <3>2. /\ v \in Views /\ v.position = n /\ v.backlog = view[c].backlog
          /\ v.got = view[c].got \cup {e}
      BY <1>1, <1>2, <3>1 DEF Views
    <3>3. view' = [view EXCEPT ![c] = v] /\ Deliver(c, e) /\ UNCHANGED drops
      BY <1>1, <1>10, <2>2, <2>5, <2>3, <3>1 DEF Follow
    <3>4. v.position <= Len(sent) /\ v.backlog \subseteq log
      BY <1>1, <2>4, <3>2
    <3> QED
      BY <1>5, <3>2, <3>3, <3>4
  <2>6. CASE ~(e.stamp > view[c].mark)
    <3>1. PICK v : v = [view[c] EXCEPT !.position = n]
      OBVIOUS
    <3>2. /\ v \in Views /\ v.position = n /\ v.backlog = view[c].backlog
          /\ v.got = view[c].got
      BY <1>1, <1>2, <3>1 DEF Views
    <3>3. view' = [view EXCEPT ![c] = v] /\ UNCHANGED <<cursor, seen, drops>>
      BY <1>1, <1>10, <2>2, <2>6, <2>3, <3>1 DEF Follow
    <3>4. /\ v.position <= Len(sent) /\ v.backlog \subseteq log /\ v.got \subseteq seen[c]
          /\ drops' \in 0..MaxDrops
      BY <1>1, <2>4, <3>2, <3>3
    <3> QED
      BY <1>4, <3>2, <3>3, <3>4
  <2> QED
    BY <2>5, <2>6
<1> QED
  BY <1>6, <1>7, <1>8, <1>9, <1>10 DEF Advance

LEMMA WriteTyped ==
    ASSUME LogTypeOK, LogTypeOK', StreamShape, LogNext, UNCHANGED <<cursor, seen, drops>>,
           view' = view \/ view' = [c \in Clients |-> Off]
    PROVE  StreamShape'
<1>1. /\ log \subseteq log' /\ now' >= now /\ Len(sent) <= Len(sent')
      /\ Len(sent) \in Nat /\ Len(sent') \in Nat /\ now \in Nat /\ now' \in Nat
  BY LogOnlyGrows DEF LogTypeOK
<1>2. Off \in Views /\ Off.position = 0 /\ Off.backlog = {} /\ Off.got = {}
  BY OffTyped DEF Off
<1>3. ASSUME NEW c \in Clients
      PROVE  /\ view'[c].pc \in {"off", "subscribed", "live"}
             /\ view'[c].position \in 0..Len(sent')
             /\ view'[c].backlog \subseteq log' /\ view'[c].got \subseteq seen'[c]
             /\ cursor'[c] \in 0..now' /\ seen'[c] \subseteq log'
  <2>1. view'[c] = view[c] \/ view'[c] = Off
    OBVIOUS
  <2>2. cursor'[c] \in 0..now' /\ seen'[c] \subseteq log'
    BY <1>1 DEF StreamShape, StreamTypeOK
  <2>3. CASE view'[c] = view[c]
    BY <1>1, <2>2, <2>3 DEF StreamShape, StreamTypeOK
  <2>4. CASE view'[c] = Off
    BY <1>1, <1>2, <2>2, <2>4, OffTyped
  <2> QED
    BY <2>1, <2>3, <2>4
<1>4. view' \in [Clients -> Views] /\ drops' \in 0..MaxDrops
  BY <1>2 DEF StreamShape, StreamTypeOK
<1> QED
  BY <1>3, <1>4 DEF StreamShape, StreamTypeOK

LEMMA StreamInit == Init => StreamInvariant
<1> SUFFICES ASSUME Init PROVE StreamInvariant
  OBVIOUS
<1>1. LogIInv /\ now > 0
  BY LogInvInit DEF Init, LogInit
<1>2. log = {} /\ \A p \in Tasks : task[p].pc = "idle"
  BY DEF Init, LogInit, Resting
<1>3. Dated
  BY <1>2 DEF Dated
<1>4. /\ view = [c \in Clients |-> Off] /\ cursor = [c \in Clients |-> 0]
      /\ seen = [c \in Clients |-> {}] /\ drops = 0
  BY DEF Init
<1>5. view \in [Clients -> Views] /\ cursor \in [Clients -> Nat] /\ seen \in [Clients -> SUBSET Events]
  BY <1>4, OffTyped
<1>6. ASSUME NEW c \in Clients
      PROVE  Following(c)
  BY <1>2, <1>4, OffTyped DEF Following
<1>7. StreamTypeOK
  <2>1. Off.position = 0 /\ Off.backlog = {} /\ Off.got = {}
    BY DEF Off
  <2>2. LogTypeOK /\ Len(sent) \in Nat /\ now \in Nat /\ drops \in 0..MaxDrops
    BY <1>1, <1>4, StreamAssumption DEF LogIInv, LogTypeOK
  <2> QED
    BY <1>4, <2>1, <2>2, OffTyped DEF StreamTypeOK
<1> QED
  BY <1>1, <1>3, <1>5, <1>6, <1>7 DEF StreamInvariant, StreamShape

LEMMA StreamStep == StreamInvariant /\ [Next]_vars => StreamInvariant'
<1> SUFFICES ASSUME StreamInvariant, [Next]_vars PROVE StreamInvariant'
  OBVIOUS
<1>1. /\ LogIInv /\ StreamShape /\ now > 0 /\ LogTypeOK /\ now \in Nat
      /\ Dated /\ \A c \in Clients : Following(c)
  BY DEF StreamInvariant, LogIInv, LogTypeOK
<1>2. [LogNext]_logVars
  BY DEF Next, Write, Restart, LogNext, Advance, Subscribe, Snapshot, Replay, Follow, FallBehind,
         Drop, vars
<1>3. LogIInv' /\ LogTypeOK'
  BY <1>1, <1>2, LogInvStep DEF LogIInv
<1>4. CASE Write
  <2>1. LogNext /\ ~LogCrash /\ UNCHANGED streamVars
    BY <1>4 DEF Write
  <2>2. StreamShape' /\ log \subseteq log' /\ now' > 0
    <3>1. log \subseteq log' /\ now' >= now /\ now' \in Nat
      BY <1>1, <1>3, <2>1, LogOnlyGrows DEF LogTypeOK
    <3>2. StreamShape'
      BY <1>1, <1>3, <2>1, WriteTyped DEF streamVars
    <3> QED
      BY <1>1, <3>1, <3>2
  <2>3. Dated' /\ \A c \in Clients : Following(c)'
    BY <1>1, <1>3, <2>1, DatedStep, WriteFollows
  <2> QED
    BY <1>3, <2>2, <2>3 DEF StreamInvariant
<1>5. CASE Restart
  <2>1. /\ LogCrash /\ LogNext /\ UNCHANGED <<log, now, sent, overtaken, cursor, seen, drops>>
        /\ view' = [c \in Clients |-> Off]
    BY <1>5 DEF Restart, LogNext, LogCrash
  <2>2. StreamShape'
    BY <1>1, <1>3, <2>1, WriteTyped
  <2>3. Dated'
    BY <1>1, <2>1, DatedStep
  <2>4. \A c \in Clients : Following(c)'
    <3>1. \A c \in Clients : view'[c].pc = "off"
      BY <2>1, OffTyped
    <3> QED
      BY <1>1, <2>1, <3>1 DEF Following
  <2> QED
    BY <1>1, <1>3, <2>1, <2>2, <2>3, <2>4 DEF StreamInvariant
<1>6. ASSUME NEW c \in Clients, Advance(c) \/ Drop(c)
      PROVE  StreamInvariant'
  <2>1. StreamShape'
    BY <1>1, <1>6, ClientTyped
  <2>2. UNCHANGED logVars
    BY <1>6 DEF Advance, Subscribe, Snapshot, Replay, Follow, FallBehind, Drop
  <2>3. \A d \in Clients : d # c => view'[d] = view[d] /\ cursor'[d] = cursor[d] /\ seen'[d] = seen[d]
    BY <1>1, <1>6 DEF Advance, Subscribe, Snapshot, Replay, Follow, FallBehind, Drop, Deliver,
                      StreamShape
  <2>4. Dated'
    BY <1>1, <2>2 DEF Dated, logVars
  <2>5. ASSUME NEW d \in Clients
        PROVE  Following(d)'
    <3>1. CASE d = c
      BY <1>1, <1>6, <3>1, ClientFollows
    <3>2. CASE d # c
      BY <1>1, <2>2, <2>3, <3>2, OtherFollows
    <3> QED
      BY <3>1, <3>2
  <2> QED
    BY <1>1, <1>3, <2>1, <2>2, <2>4, <2>5 DEF StreamInvariant, logVars
<1>7. CASE UNCHANGED vars
  <2>1. StreamShape' /\ Dated' /\ now' = now
    BY <1>1, <1>3, <1>7
    DEF vars, logVars, streamVars, StreamShape, StreamTypeOK, Dated
  <2>2. \A d \in Clients : Following(d) => Following(d)'
    BY <1>7, OtherFollows DEF vars, streamVars
  <2> QED
    BY <1>1, <1>3, <2>1, <2>2 DEF StreamInvariant
<1> QED
  BY <1>4, <1>5, <1>6, <1>7 DEF Next

LEMMA StreamHolds == Spec => []StreamInvariant
<1> QED
  BY StreamInit, StreamStep, PTL DEF Spec

(* The log, the channel and the connections have their types at all times. *)
THEOREM StreamTypeCorrect == Spec => []StreamTypeOK
<1>1. StreamInvariant => StreamTypeOK
  BY DEF StreamInvariant, StreamShape
<1> QED
  BY <1>1, StreamHolds, PTL

(* Sequences stay dense while browsers read the log (next_sequence).       *)
THEOREM StreamedLogIsDense == Spec => []SequencesAreDense
<1>1. StreamInvariant => SequencesAreDense
  BY DEF StreamInvariant, LogIInv
<1> QED
  BY <1>1, StreamHolds, PTL

(* A browser that reconnects with its cursor skips nothing but what an event
   with a later timestamp has preceded into the log or the channel, whatever
   plain, keyed and audio emissions, lags, drops and restarts interleave
   (stream_events).                                                        *)
THEOREM StreamSkipsNothing == Spec => []NothingSkipped
<1>1. ASSUME StreamInvariant
      PROVE  NothingSkipped
  <2>1. ASSUME NEW c \in Clients, NEW e \in log, e.stamp < cursor[c]
        PROVE  e \in seen[c] \cup overtaken
    <3>1. e.stamp \in Nat /\ cursor[c] \in Nat /\ Following(c)
      BY <1>1, <2>1 DEF StreamInvariant, StreamShape, LogIInv, LogTypeOK, Events
    <3> QED
      BY <2>1, <3>1 DEF Following
  <2> QED
    BY <2>1 DEF NothingSkipped
<1> QED
  BY <1>1, StreamHolds, PTL

-----------------------------------------------------------------------------
(* Reading the log *)

LEMMA StreamsRead == [Next]_vars => [LogNext]_logVars
  BY DEF Next, Write, Restart, LogNext, Advance, Subscribe, Snapshot, Replay, Follow, FallBehind,
         Drop, vars

(* The streams only read: whatever browsers do, the log and the channel
   behave as without them, so what is proved of the log holds here too
   (stream_events has no write to the store).                              *)
THEOREM StreamsOnlyRead == Spec => LogSpec
<1>1. Init => LogInit
  BY DEF Init
<1> QED
  BY <1>1, StreamsRead, PTL DEF Spec, LogSpec

(* What a connection has delivered came in its replay, and then its mark is
   not below it, or from a place of the channel it has passed.             *)
Received(c) ==
    /\ view[c].pc # "live" => view[c].got = {}
    /\ view[c].pc = "live" =>
         /\ \A e \in view[c].backlog : e.stamp <= view[c].mark
         /\ \A e \in view[c].got : \/ e.stamp <= view[c].mark
                                   \/ \E i \in 1..view[c].position : sent[i] = e

LEMMA NothingReceived ==
    ASSUME NEW c \in Clients, view'[c] = Off
    PROVE  Received(c)'
  BY DEF Received, Off

(* A connection no step of its own touches: the channel keeps its events.  *)
LEMMA ReceivedStays ==
    ASSUME StreamInvariant, NEW c \in Clients, view'[c] = view[c], Received(c),
           \A i \in 1..Len(sent) : sent'[i] = sent[i]
    PROVE  Received(c)'
<1>1. view[c].position \in 0..Len(sent) /\ Len(sent) \in Nat
  BY DEF StreamInvariant, StreamShape, StreamTypeOK, LogTypeOK
<1>2. \A i \in 1..view[c].position : sent'[i] = sent[i]
  BY <1>1
<1> QED
  BY <1>2 DEF Received

LEMMA ReceivedByClient ==
    ASSUME StreamInvariant, NEW c \in Clients, Received(c), Advance(c) \/ Drop(c)
    PROVE  Received(c)'
<1>1. /\ view \in [Clients -> Views] /\ view[c].position \in 0..Len(sent) /\ Len(sent) \in Nat
  BY DEF StreamInvariant, StreamShape, StreamTypeOK, LogTypeOK
<1>2. sent' = sent
  BY DEF Advance, Subscribe, Snapshot, Replay, Follow, FallBehind, Drop, logVars
<1>3. CASE Drop(c) \/ FallBehind(c)
  BY <1>1, <1>3, NothingReceived DEF Drop, FallBehind
<1>4. CASE Subscribe(c)
  BY <1>1, <1>4 DEF Subscribe, Received, Off
<1>5. CASE Snapshot(c)
  <2> DEFINE history == {e \in log : e.stamp > cursor[c]}
  <2>1. PICK mark \in {cursor[c]} \cup {e.stamp : e \in history} :
           /\ \A e \in history : e.stamp <= mark
           /\ view' = [view EXCEPT ![c].pc = "live", ![c].backlog = history, ![c].mark = mark]
    BY <1>5 DEF Snapshot
  <2> HIDE DEF history
  <2>2. /\ view'[c].pc = "live" /\ view'[c].backlog = history /\ view'[c].mark = mark
        /\ view'[c].got = view[c].got
    BY <1>1, <2>1 DEF Views
  <2>3. view[c].got = {}
    BY <1>5 DEF Snapshot, Received
  <2> QED
    BY <2>1, <2>2, <2>3 DEF Received
<1>6. CASE Replay(c)
  <2>1. PICK e \in view[c].backlog :
           view' = [view EXCEPT ![c].backlog = @ \ {e}, ![c].got = @ \cup {e}]
    BY <1>6 DEF Replay
  <2>2. /\ view'[c].pc = "live" /\ view'[c].backlog = view[c].backlog \ {e}
        /\ view'[c].got = view[c].got \cup {e}
        /\ view'[c].mark = view[c].mark /\ view'[c].position = view[c].position
        /\ view[c].pc = "live"
    BY <1>1, <1>6, <2>1 DEF Views, Replay
  <2> QED
    BY <1>2, <2>2 DEF Received
<1>7. CASE Follow(c)
  <2> DEFINE e == sent[view[c].position + 1]
             n == view[c].position
  <2>1. /\ view[c].pc = "live" /\ n \in Nat
        /\ \/ view' = [view EXCEPT ![c].position = @ + 1, ![c].got = @ \cup {e}]
           \/ view' = [view EXCEPT ![c].position = @ + 1]
    BY <1>1, <1>7 DEF Follow
  <2> HIDE DEF e
  <2>2. /\ view'[c].pc = "live" /\ view'[c].backlog = view[c].backlog
        /\ view'[c].mark = view[c].mark /\ view'[c].position = n + 1
        /\ view'[c].got \subseteq view[c].got \cup {e}
    BY <1>1, <2>1 DEF Views
  <2>3. \A i \in 1..n : i \in 1..(n + 1)
    BY <2>1
  <2>4. n + 1 \in 1..(n + 1) /\ sent[n + 1] = e
    BY <2>1 DEF e
  <2>5. \A f \in view'[c].got : \/ f.stamp <= view'[c].mark
                                \/ \E i \in 1..view'[c].position : sent'[i] = f
    BY <1>2, <2>1, <2>2, <2>3, <2>4 DEF Received
  <2> QED
    BY <2>1, <2>2, <2>5 DEF Received
<1> QED
  BY <1>3, <1>4, <1>5, <1>6, <1>7 DEF Advance

LEMMA ReceivedStep ==
    ASSUME StreamInvariant, [Next]_vars, \A c \in Clients : Received(c)
    PROVE  \A c \in Clients : Received(c)'
<1>1. LogTypeOK /\ view \in [Clients -> Views]
  BY DEF StreamInvariant, LogIInv, StreamShape
<1>2. CASE Write
  <2>1. LogNext /\ view' = view
    BY <1>2 DEF Write, streamVars
  <2> QED
    BY <1>1, <2>1, LogOnlyGrows, ReceivedStays
<1>3. CASE Restart
  BY <1>3, NothingReceived DEF Restart
<1>4. ASSUME NEW c \in Clients, Advance(c) \/ Drop(c)
      PROVE  \A d \in Clients : Received(d)'
  <2>1. sent' = sent /\ \A d \in Clients : d # c => view'[d] = view[d]
    BY <1>1, <1>4 DEF Advance, Subscribe, Snapshot, Replay, Follow, FallBehind, Drop, logVars
  <2>2. Received(c)'
    BY <1>4, ReceivedByClient
  <2>3. \A d \in Clients : d # c => Received(d)'
    BY <2>1, ReceivedStays
  <2> QED
    BY <2>2, <2>3
<1>5. CASE UNCHANGED vars
  <2>1. view' = view /\ sent' = sent
    BY <1>5 DEF vars, logVars, streamVars
  <2> QED
    BY <2>1, ReceivedStays
<1> QED
  BY <1>2, <1>3, <1>4, <1>5 DEF Next

(* One connection never delivers an event twice, keyed or not: the channel
   carries each once, and the mark hides what the replay contained
   (api.rs 272-275).                                                       *)
THEOREM NothingArrivesTwice == Spec => NoRepeatOnAConnection
<1> DEFINE Inv == StreamInvariant /\ SentOnce /\ \A c \in Clients : Received(c)
<1>1. Init => SentOnce /\ \A c \in Clients : Received(c)
  BY DEF Init, LogInit, SentOnce, Received, Off, Resting, Tasks
<1>2. Inv /\ [Next]_vars => Inv'
  BY StreamStep, StreamsRead, OnceStep, ReceivedStep DEF StreamInvariant
<1>3. ASSUME Inv, NEW c \in Clients, Follow(c), cursor'[c] # cursor[c]
      PROVE  sent[view[c].position + 1] \notin view[c].got
  <2> DEFINE e == sent[view[c].position + 1]
             n == view[c].position
  <2>1. /\ n \in Nat /\ Len(sent) \in Nat /\ n < Len(sent)
        /\ view[c].pc = "live" /\ e.stamp > view[c].mark
    <3>1. n < Len(sent) /\ view[c].pc = "live"
      BY <1>3 DEF Follow
    <3>2. e.stamp > view[c].mark
      BY <1>3 DEF Follow
    <3>3. n \in Nat /\ Len(sent) \in Nat
      BY <1>3 DEF StreamInvariant, StreamShape, StreamTypeOK, LogTypeOK
    <3> QED
      BY <3>1, <3>2, <3>3
  <2>2. view[c].mark \in Nat
    BY <1>3 DEF StreamInvariant, StreamShape, Views
  <2>3. e.stamp \in Nat
    <3>1. sent \in Seq(Events) /\ n + 1 \in 1..Len(sent)
      BY <1>3, <2>1 DEF StreamInvariant, LogIInv, LogTypeOK
    <3>2. e \in Events
      BY <3>1
    <3> QED
      BY <3>2 DEF Events
  <2>4. ASSUME NEW i \in 1..n
        PROVE  sent[i] # e
    BY <1>3, <2>1 DEF SentOnce
  <2>5. Received(c)
    BY <1>3
  <2> HIDE DEF e
  <2>6. ASSUME e \in view[c].got
        PROVE  FALSE
    <3>1. e.stamp <= view[c].mark \/ \E i \in 1..n : sent[i] = e
      BY <2>1, <2>5, <2>6 DEF Received
    <3> QED
      BY <2>1, <2>2, <2>3, <2>4, <3>1
  <2> QED
    BY <2>6 DEF e
<1>4. Inv => [\A c \in Clients :
                Follow(c) /\ cursor'[c] # cursor[c] =>
                  sent[view[c].position + 1] \notin view[c].got]_vars
  BY <1>3
<1> QED
  BY <1>1, <1>2, <1>4, StreamInit, PTL DEF Spec, NoRepeatOnAConnection
==============================================================================
