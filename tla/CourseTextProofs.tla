-------------------------- MODULE CourseTextProofs --------------------------
(* The revisions of one paragraph: a revision replaces only what its author *)
(* was shown, the note shows a translation of its own original, and what    *)
(* was revised is translated: for any pages, texts and faults.              *)
EXTENDS CourseText, FiniteSetTheorems, WellFoundedInduction, TLAPS

-----------------------------------------------------------------------------
Words == Texts \cup Wordings \cup {Machine, Waiting}
Types == {"transcript.corrected", "translation.corrected", "translation.finalized"}
Event == [type : Types, sequence : Nat, text : Words, source : Words]
Forms == {Form(field) : field \in Fields}
Sents == [pc : {"sent"}, field : Fields, text : Words, base : Nat, retry : BOOLEAN]
Enqueues == [pc : {"enqueue"}, field : {"source"}, revision : Revisions, retry : BOOLEAN]

Typed ==
  /\ events \in Seq(Event)
  /\ jobs \in [Revisions -> {"none", "queued", "completed", "failed"}]
  /\ seen \in [Pages -> Nat] /\ \A p \in Pages : seen[p] <= Len(events)
  /\ request \in [Pages -> {NoRequest} \cup Forms \cup Sents \cup Enqueues]
  /\ faults \in Nat

(* The log.  Revisions are numbered upwards; Cut is the revision that a     *)
(* page which has received n events goes by.                                *)
Ordered(log) ==
  \A field \in Fields : \A i, j \in OfType(log, RevisionType(field)) :
    log[i].sequence >= 1 /\ (i < j => log[i].sequence < log[j].sequence)
Cut(log, field, n) == LatestAt(log, {i \in OfType(log, RevisionType(field)) : i <= n})
Originals == OfType(events, "transcript.corrected")
Machines == OfType(events, "translation.finalized")
Revised(r) == \E i \in Originals : events[i].sequence = r
Translated(text) == \E i \in Machines : events[i].source = text

LogFits ==
  /\ Ordered(events)
  /\ \A i \in Originals : events[i].sequence \in Revisions
  /\ \A i \in Machines : events[i].text = Machine /\ (Originals = {} => events[i].source = Recognized)

(* The forms: what a page has sent is based on a revision it had received,  *)
(* and what is to be queued is in the log.                                  *)
FormsFit ==
  \A p \in Pages :
    /\ request[p].pc = "sent" => request[p].base <= Cut(events, request[p].field, seen[p]).sequence
    /\ request[p].pc = "enqueue" => Revised(request[p].revision)

(* The jobs: each revision has one, or is about to, and a completed one has *)
(* left a translation of its revision.                                      *)
JobsFit ==
  /\ jobs[0] # "none" /\ (jobs[0] = "completed" => Translated(Recognized))
  /\ \A r \in Revisions \ {0} : jobs[r] # "none" => Revised(r)
  /\ \A i \in Originals :
       /\ jobs[events[i].sequence] = "completed" => Translated(events[i].text)
       /\ faults = 0 => \/ jobs[events[i].sequence] # "none"
                        \/ \E p \in Pages : request[p].pc = "enqueue"
                                            /\ request[p].revision = events[i].sequence

TextInvariant == Typed /\ LogFits /\ FormsFit /\ JobsFit

-----------------------------------------------------------------------------
(* Sequences of events.                                                     *)
(* A set of positions has a last one.                                       *)
LEMMA LastOf ==
  ASSUME NEW n \in Nat, NEW I, I \subseteq 1 .. n, I # {}
  PROVE  Max(I) \in I /\ \A i \in I : i <= Max(I)
<1> DEFINE T == {n - i : i \in I}
           R == {ss \in Nat \X Nat : ss[1] < ss[2]}
<1>1. T \subseteq Nat /\ T # {}
  <2>1. \A i \in I : n - i \in Nat
    OBVIOUS
  <2> QED BY <2>1
<1>2. IsWellFoundedOn(R, Nat)
  BY NatLessThanWellFounded, Zenon DEF OpToRel
<1>3. PICK t \in T : \A u \in T : ~ (<<u, t>> \in R)
  <2> HIDE DEF T, R
  <2> QED BY <1>1, <1>2, WFMin
<1>4. \A u \in T : ~(u < t)
  BY <1>1, <1>3
<1>5. PICK m \in I : t = n - m
  OBVIOUS
<1>6. \A i \in I : m >= i
  <2> TAKE i \in I
  <2>1. n - i \in T /\ i \in Nat /\ m \in Nat
    OBVIOUS
  <2>2. ~(n - i < n - m)
    BY <1>4, <1>5, <2>1
  <2> QED BY <2>1, <2>2
<1>7. \E x \in I : \A y \in I : x >= y
  BY <1>6
<1>8. Max(I) \in I /\ \A y \in I : Max(I) >= y
  BY <1>7, Zenon DEF Max
<1> QED BY <1>8

LEMMA LatestFound ==
  ASSUME NEW log \in Seq(Event), NEW I, I \subseteq DOMAIN log
  PROVE  /\ I = {} => LatestAt(log, I) = None
         /\ I # {} => /\ Max(I) \in I /\ \A i \in I : i <= Max(I)
                      /\ LatestAt(log, I) = [sequence |-> log[Max(I)].sequence,
                           text |-> log[Max(I)].text, source |-> log[Max(I)].source]
         /\ LatestAt(log, I).sequence \in Nat
         /\ LatestAt(log, I).text \in Words /\ LatestAt(log, I).source \in Words
<1>1. Len(log) \in Nat /\ DOMAIN log = 1 .. Len(log) /\ \A i \in DOMAIN log : log[i] \in Event
  OBVIOUS
<1>2. I # {} => Max(I) \in I /\ \A i \in I : i <= Max(I)
  BY <1>1, LastOf
<1>3. CASE I = {}
  BY <1>3 DEF LatestAt, None, Words
<1>4. CASE I # {}
  <2>1. log[Max(I)] \in Event
    BY <1>1, <1>2, <1>4
  <2> QED BY <1>2, <1>4, <2>1 DEF LatestAt, Event
<1> QED BY <1>3, <1>4

(* Two sets with the same last position have the same latest event.         *)
LEMMA LatestIs ==
  ASSUME NEW log \in Seq(Event), NEW I, I \subseteq DOMAIN log,
         NEW m \in I, \A i \in I : i <= m
  PROVE  LatestAt(log, I) = [sequence |-> log[m].sequence, text |-> log[m].text,
                             source |-> log[m].source]
<1>1. Max(I) \in I /\ \A i \in I : i <= Max(I)
  BY LatestFound
<1>2. Max(I) \in Nat /\ m \in Nat
  BY <1>1
<1>3. Max(I) = m
  BY <1>1, <1>2
<1> QED BY <1>3, LatestFound

(* What an event adds.                                                      *)
LEMMA Appended ==
  ASSUME NEW log \in Seq(Event), NEW e \in Event
  PROVE  /\ Append(log, e) \in Seq(Event) /\ Len(Append(log, e)) = Len(log) + 1
         /\ Len(log) \in Nat /\ DOMAIN log = 1 .. Len(log)
         /\ \A i \in DOMAIN log : Append(log, e)[i] = log[i] /\ log[i] \in Event
         /\ Append(log, e)[Len(log) + 1] = e
         /\ \A type : OfType(log, type) \subseteq DOMAIN log
         /\ \A type : OfType(Append(log, e), type) =
              OfType(log, type) \cup (IF e.type = type THEN {Len(log) + 1} ELSE {})
<1>1. /\ Append(log, e) \in Seq(Event) /\ Len(Append(log, e)) = Len(log) + 1
      /\ Len(log) \in Nat /\ DOMAIN log = 1 .. Len(log)
      /\ DOMAIN Append(log, e) = 1 .. Len(log) + 1
      /\ \A i \in DOMAIN log : Append(log, e)[i] = log[i] /\ log[i] \in Event
      /\ Append(log, e)[Len(log) + 1] = e
  OBVIOUS
<1>2. \A type : OfType(log, type) \subseteq DOMAIN log
  BY DEF OfType
<1>3. ASSUME NEW type
      PROVE  OfType(Append(log, e), type) =
               OfType(log, type) \cup (IF e.type = type THEN {Len(log) + 1} ELSE {})
  <2>1. 1 .. Len(log) + 1 = (1 .. Len(log)) \cup {Len(log) + 1}
    BY <1>1
  <2> QED BY <1>1, <2>1 DEF OfType
<1> QED BY <1>1, <1>2, <1>3

LEMMA SameLatest ==
  ASSUME NEW log \in Seq(Event), NEW e \in Event, NEW I, I \subseteq DOMAIN log
  PROVE  LatestAt(Append(log, e), I) = LatestAt(log, I)
<1>1. CASE I = {}
  BY <1>1 DEF LatestAt
<1>2. CASE I # {}
  <2>1. Max(I) \in I
    BY <1>2, LatestFound
  <2>2. Append(log, e)[Max(I)] = log[Max(I)]
    BY <2>1, Appended
  <2> QED BY <1>2, <2>2 DEF LatestAt
<1> QED BY <1>1, <1>2

LEMMA LatestAppended ==
  ASSUME NEW log \in Seq(Event), NEW e \in Event, NEW field \in Fields
  PROVE  LatestRevision(Append(log, e), field) =
           IF e.type = RevisionType(field)
           THEN [sequence |-> e.sequence, text |-> e.text, source |-> e.source]
           ELSE LatestRevision(log, field)
<1> DEFINE type == RevisionType(field)
           I == OfType(log, type)
           J == OfType(Append(log, e), type)
<1>1. I \subseteq DOMAIN log /\ J = I \cup (IF e.type = type THEN {Len(log) + 1} ELSE {})
  BY Appended
<1>2. CASE e.type = type
  <2>1. Len(log) + 1 \in J /\ J \subseteq 1 .. Len(log) + 1
    BY <1>1, <1>2, Appended
  <2>2. \A i \in J : i <= Len(log) + 1
    BY <2>1, Appended
  <2>3. J \subseteq DOMAIN Append(log, e)
    BY DEF OfType
  <2> HIDE DEF J
  <2>4. PICK after \in Seq(Event) : after = Append(log, e)
    BY Appended
  <2>5. PICK m \in J : m = Len(log) + 1
    BY <2>1
  <2>6. LatestAt(after, J) = [sequence |-> after[m].sequence, text |-> after[m].text,
                              source |-> after[m].source]
    BY <2>2, <2>3, <2>4, <2>5, LatestIs
  <2>7. after[m] = e
    BY <2>4, <2>5, Appended
  <2> QED BY <1>2, <2>4, <2>6, <2>7 DEF LatestRevision, J
<1>3. CASE e.type # type
  <2>1. J = I
    BY <1>1, <1>3
  <2> QED BY <1>1, <1>3, <2>1, SameLatest DEF LatestRevision
<1> QED BY <1>2, <1>3

(* What a page goes by.                                                     *)
LEMMA CutIsView ==
  ASSUME NEW log \in Seq(Event), NEW n \in Nat, n <= Len(log), NEW field \in Fields
  PROVE  /\ SubSeq(log, 1, n) \in Seq(Event)
         /\ LatestRevision(SubSeq(log, 1, n), field) = Cut(log, field, n)
         /\ LatestRevision(log, field) = Cut(log, field, Len(log))
<1> DEFINE type == RevisionType(field)
           view == SubSeq(log, 1, n)
           I == {i \in OfType(log, type) : i <= n}
<1>1. /\ view \in Seq(Event) /\ DOMAIN view = 1 .. n /\ \A i \in 1 .. n : view[i] = log[i]
      /\ Len(log) \in Nat /\ DOMAIN log = 1 .. Len(log)
  OBVIOUS
<1> HIDE DEF view
<1>2. OfType(view, type) = I /\ I \subseteq DOMAIN log /\ I \subseteq DOMAIN view
  BY <1>1 DEF OfType
<1>3. LatestAt(view, I) = LatestAt(log, I)
  <2>1. CASE I = {}
    BY <2>1 DEF LatestAt
  <2>2. CASE I # {}
    <3>1. Max(I) \in I
      BY <1>2, <2>2, LatestFound
    <3>2. view[Max(I)] = log[Max(I)]
      BY <1>1, <1>2, <3>1
    <3> QED BY <2>2, <3>2 DEF LatestAt
  <2> QED BY <2>1, <2>2
<1>4. {i \in OfType(log, type) : i <= Len(log)} = OfType(log, type)
  BY <1>1 DEF OfType
<1> QED BY <1>1, <1>2, <1>3, <1>4 DEF LatestRevision, Cut, view

(* A page that has received more goes by a later revision or the same.      *)
LEMMA CutsGrow ==
  ASSUME NEW log \in Seq(Event), Ordered(log), NEW field \in Fields,
         NEW m \in Nat, NEW n \in Nat, m <= n
  PROVE  /\ Cut(log, field, m).sequence \in Nat /\ Cut(log, field, n).sequence \in Nat
         /\ Cut(log, field, m).sequence <= Cut(log, field, n).sequence
         /\ Cut(log, field, m).sequence = Cut(log, field, n).sequence =>
              Cut(log, field, m) = Cut(log, field, n)
<1> DEFINE I == {i \in OfType(log, RevisionType(field)) : i <= m}
           J == {i \in OfType(log, RevisionType(field)) : i <= n}
<1>1. /\ I \subseteq DOMAIN log /\ J \subseteq DOMAIN log
      /\ DOMAIN log = 1 .. Len(log) /\ Len(log) \in Nat
      /\ \A i \in DOMAIN log : log[i] \in Event
  BY DEF OfType
<1>2. I \subseteq J
  BY <1>1
<1>3. \A i, j \in J : log[i].sequence >= 1 /\ log[i].sequence \in Nat
                      /\ (i < j => log[i].sequence < log[j].sequence)
  BY <1>1 DEF Ordered, Event
<1>4. Cut(log, field, m) = LatestAt(log, I) /\ Cut(log, field, n) = LatestAt(log, J)
  BY DEF Cut
<1> HIDE DEF I, J
<1>5. CASE I = {}
  <2>1. LatestAt(log, I) = None /\ None.sequence = 0
    BY <1>1, <1>5, LatestFound DEF None
  <2>2. J # {} => LatestAt(log, J).sequence >= 1
    BY <1>1, <1>3, LatestFound
  <2>3. J = {} => LatestAt(log, J) = None
    BY <1>1, LatestFound
  <2> QED BY <1>1, <1>4, <2>1, <2>2, <2>3, LatestFound
<1>6. CASE I # {}
  <2>1. /\ Max(I) \in I /\ Max(J) \in J /\ \A j \in J : j <= Max(J)
        /\ LatestAt(log, I) = [sequence |-> log[Max(I)].sequence, text |-> log[Max(I)].text,
                               source |-> log[Max(I)].source]
        /\ LatestAt(log, J) = [sequence |-> log[Max(J)].sequence, text |-> log[Max(J)].text,
                               source |-> log[Max(J)].source]
    BY <1>1, <1>2, <1>6, LatestFound
  <2>2. PICK i \in J : i = Max(I)
    BY <1>2, <2>1
  <2>3. PICK j \in J : j = Max(J)
    BY <2>1
  <2>4. i \in Nat /\ j \in Nat /\ i <= j
    BY <1>1, <2>1, <2>2, <2>3
  <2>5. i = j \/ log[i].sequence < log[j].sequence
    BY <1>3, <2>4
  <2>6. log[i].sequence \in Nat /\ log[j].sequence \in Nat
    BY <1>3
  <2> QED BY <1>4, <2>1, <2>2, <2>3, <2>5, <2>6
<1> QED BY <1>5, <1>6

LEMMA CutStays ==
  ASSUME NEW log \in Seq(Event), NEW e \in Event, NEW field \in Fields,
         NEW n \in Nat, n <= Len(log)
  PROVE  Cut(Append(log, e), field, n) = Cut(log, field, n)
<1> DEFINE I == {i \in OfType(log, RevisionType(field)) : i <= n}
           J == {i \in OfType(Append(log, e), RevisionType(field)) : i <= n}
<1>1. I = J /\ I \subseteq DOMAIN log
  BY Appended
<1> HIDE DEF I, J
<1>2. LatestAt(Append(log, e), I) = LatestAt(log, I)
  BY <1>1, SameLatest
<1> QED BY <1>1, <1>2 DEF Cut, I, J

(* The latest revision has the highest number.                              *)
LEMMA CurrentTops ==
  ASSUME NEW log \in Seq(Event), Ordered(log), NEW field \in Fields
  PROVE  /\ LatestRevision(log, field).sequence \in Nat
         /\ LatestRevision(log, field).text \in Words
         /\ \A i \in OfType(log, RevisionType(field)) :
              log[i].sequence \in Nat /\ log[i].sequence <= LatestRevision(log, field).sequence
         /\ LatestRevision(log, field) = None => OfType(log, RevisionType(field)) = {}
         /\ OfType(log, RevisionType(field)) # {} =>
              \E i \in OfType(log, RevisionType(field)) :
                /\ log[i].sequence = LatestRevision(log, field).sequence
                /\ log[i].text = LatestRevision(log, field).text
                /\ log[i].source = LatestRevision(log, field).source
         /\ OfType(log, RevisionType(field)) = {} => LatestRevision(log, field) = None
<1> DEFINE I == OfType(log, RevisionType(field))
<1>1. /\ I \subseteq DOMAIN log /\ DOMAIN log = 1 .. Len(log) /\ Len(log) \in Nat
      /\ \A i \in I : log[i] \in Event /\ log[i].sequence \in Nat /\ log[i].sequence >= 1
  <2>1. I \subseteq DOMAIN log /\ DOMAIN log = 1 .. Len(log) /\ Len(log) \in Nat
    BY DEF OfType
  <2>2. \A i \in I : log[i] \in Event
    BY <2>1
  <2>3. \A i \in I : log[i].sequence >= 1
    BY DEF Ordered
  <2> QED BY <2>1, <2>2, <2>3 DEF Event
<1>2. \A i, j \in I : i < j => log[i].sequence < log[j].sequence
  BY DEF Ordered
<1>3. LatestRevision(log, field) = LatestAt(log, I)
  BY DEF LatestRevision
<1> HIDE DEF I
<1>4. CASE I = {}
  BY <1>1, <1>3, <1>4, LatestFound DEF I
<1>5. CASE I # {}
  <2>1. /\ Max(I) \in I /\ \A i \in I : i <= Max(I)
        /\ LatestAt(log, I) = [sequence |-> log[Max(I)].sequence, text |-> log[Max(I)].text,
                               source |-> log[Max(I)].source]
    BY <1>1, <1>5, LatestFound
  <2>2. PICK m \in I : m = Max(I)
    BY <2>1
  <2>3. ASSUME NEW i \in I
        PROVE  log[i].sequence \in Nat /\ log[i].sequence <= log[m].sequence
    <3>1. i \in Nat /\ m \in Nat /\ (i = m \/ i < m)
      BY <1>1, <2>1, <2>2
    <3> QED BY <1>1, <1>2, <3>1
  <2>4. LatestAt(log, I) # None
    BY <1>1, <2>1, <2>2 DEF None
  <2> QED BY <1>1, <1>3, <1>5, <2>1, <2>2, <2>3, <2>4, LatestFound DEF I
<1> QED BY <1>4, <1>5

LEMMA OriginalTyped ==
  ASSUME NEW log \in Seq(Event)
  PROVE  /\ Original(log) \in Words
         /\ \A field \in Fields : LatestRevision(log, field).sequence \in Nat
                                  /\ LatestRevision(log, field).text \in Words
<1>1. ASSUME NEW field \in Fields
      PROVE  LatestRevision(log, field).sequence \in Nat /\ LatestRevision(log, field).text \in Words
  <2>1. OfType(log, RevisionType(field)) \subseteq DOMAIN log
    BY DEF OfType
  <2> QED BY <2>1, LatestFound DEF LatestRevision
<1>2. Recognized \in Words
  BY CourseTextAssumption DEF Words
<1> QED BY <1>1, <1>2 DEF Original, Fields

-----------------------------------------------------------------------------
(* Types, and what each handler does.                                       *)
Resting == {NoRequest} \cup Forms
Entry(type, sequence, text, source) ==
  [type |-> type, sequence |-> sequence, text |-> text, source |-> source]
Puts(p, x) == request' = [request EXCEPT ![p] = x]

LEMMA RequestTyped ==
  ASSUME Typed, NEW p \in Pages
  PROVE  /\ request[p].pc = "sent" => request[p] \in Sents /\ KeepForm(request[p]) \in Resting
         /\ request[p].pc = "enqueue" => request[p] \in Enqueues /\ KeepForm(request[p]) \in Resting
         /\ request[p].pc = "editing" => request[p] \in Forms /\ request[p].field \in Fields
         /\ request[p].pc \in {"idle", "editing", "sent", "enqueue"}
         /\ events \in Seq(Event) /\ seen[p] \in Nat /\ seen[p] <= Len(events)
         /\ View(p) \in Seq(Event)
         /\ \A field \in Fields : LatestRevision(View(p), field) = Cut(events, field, seen[p])
<1>1. request[p] \in {NoRequest} \cup Forms \cup Sents \cup Enqueues
  BY DEF Typed
<1>2. \A x \in Sents \cup Enqueues : KeepForm(x) \in Resting
  BY DEF KeepForm, Resting, Forms, Sents, Enqueues, Fields
<1>3. /\ NoRequest.pc = "idle"
      /\ \A x \in Forms : x.pc = "editing" /\ x.field \in Fields
      /\ \A x \in Sents : x.pc = "sent"
      /\ \A x \in Enqueues : x.pc = "enqueue"
  BY DEF NoRequest, Forms, Form, Sents, Enqueues
<1>4. events \in Seq(Event) /\ seen[p] \in Nat /\ seen[p] <= Len(events)
  BY DEF Typed
<1> QED BY <1>1, <1>2, <1>3, <1>4, CutIsView DEF View

LEMMA RestingMoves ==
  /\ \A x \in Resting : x.pc \in {"idle", "editing"}
  /\ \A x \in Sents : x.pc = "sent" /\ x.field \in Fields /\ x.text \in Words /\ x.base \in Nat
  /\ \A x \in Enqueues : x.pc = "enqueue" /\ x.revision \in Revisions
  BY DEF Resting, NoRequest, Forms, Form, Sents, Enqueues

LEMMA TranscriptKinds ==
  ASSUME Typed, LogFits, NEW p \in Pages, CorrectTranscript(p)
  PROVE  /\ request[p].pc = "sent" /\ UNCHANGED <<jobs, seen, faults>>
         /\ \/ /\ events' = events
               /\ \E q \in Enqueues : Puts(p, q) /\ Revised(q.revision)
            \/ events' = events /\ \E x \in Resting : Puts(p, x)
            \/ LET r == LatestRevision(events, "source").sequence + 1
                   e == Entry("transcript.corrected", r, request[p].text, Waiting)
               IN /\ r \in Revisions /\ r >= 1 /\ e \in Event /\ events' = Append(events, e)
                  /\ request[p].base = LatestRevision(events, "source").sequence
                  /\ request[p].field = "source"
                  /\ \E q \in Enqueues : Puts(p, q) /\ q.revision = r
<1> DEFINE current == LatestRevision(events, "source")
<1>1. /\ request[p].pc = "sent" /\ request[p].field = "source" /\ request[p] \in Sents
      /\ UNCHANGED <<jobs, seen>> /\ Current(p) = current /\ request[p].retry \in BOOLEAN
      /\ request[p].text \in Words
  BY RequestTyped DEF CorrectTranscript, Sent, Current, Sents
<1>2. events \in Seq(Event) /\ Ordered(events) /\ "source" \in Fields
      /\ RevisionType("source") = "transcript.corrected"
  BY DEF Typed, LogFits, Fields, RevisionType
<1>3. ASSUME NEW r \in Revisions, EnqueueFor(p, r)
      PROVE  UNCHANGED faults /\ \E q \in Enqueues : Puts(p, q) /\ q.revision = r
  <2> DEFINE q == [pc |-> "enqueue", field |-> "source", revision |-> r,
                   retry |-> request[p].retry]
  <2>1. request' = [request EXCEPT ![p] = q] /\ UNCHANGED faults
    BY <1>3 DEF EnqueueFor, Typed
  <2>2. q \in Enqueues /\ q.revision = r
    BY <1>1 DEF Enqueues
  <2> QED BY <2>1, <2>2 DEF Puts
<1>4. CASE /\ Repeats(p)
           /\ EnqueueFor(p, Current(p).sequence) /\ UNCHANGED events
  <2>1. current # None
    BY <1>1, <1>4 DEF Repeats
  <2>2. PICK i \in Originals : events[i].sequence = current.sequence
    BY <1>2, <2>1, CurrentTops DEF Originals
  <2>3. PICK r \in Revisions : r = current.sequence /\ Revised(r)
    BY <2>2 DEF LogFits, Revised
  <2> QED BY <1>1, <1>3, <1>4, <2>3
<1>5. CASE /\ ~Repeats(p) /\ ~BaseIsCurrent(p)
           /\ Keep(p) /\ UNCHANGED <<events, faults>>
  <2>1. Puts(p, KeepForm(request[p]))
    BY <1>5 DEF Keep, Puts, Typed
  <2> QED BY <1>1, <1>5, <2>1, RequestTyped
<1>6. CASE /\ ~Repeats(p) /\ BaseIsCurrent(p) /\ Current(p).sequence < MaxRevisions
           /\ Append1("transcript.corrected", Current(p).sequence + 1, request[p].text, Waiting)
           /\ EnqueueFor(p, Current(p).sequence + 1)
  <2>1. current.sequence \in Nat /\ MaxRevisions \in Nat
    BY <1>2, CurrentTops, CourseTextAssumption
  <2>2. PICK r \in Nat : r = current.sequence + 1
    BY <2>1
  <2>3. r \in Revisions /\ r >= 1
    BY <1>1, <1>6, <2>1, <2>2 DEF Revisions
  <2>4. events' = Append(events, Entry("transcript.corrected", r, request[p].text, Waiting))
    BY <1>1, <1>6, <2>2 DEF Append1, Entry
  <2>5. Entry("transcript.corrected", r, request[p].text, Waiting) \in Event
    BY <1>1 DEF Entry, Event, Types, Words
  <2>6. request[p].base = current.sequence
    BY <1>1, <1>6 DEF BaseIsCurrent
  <2>7. UNCHANGED faults /\ \E q \in Enqueues : Puts(p, q) /\ q.revision = r
    BY <1>1, <1>3, <1>6, <2>2, <2>3
  <2> QED BY <1>1, <2>2, <2>3, <2>4, <2>5, <2>6, <2>7
<1> QED BY <1>4, <1>5, <1>6 DEF CorrectTranscript

LEMMA Replies ==
  ASSUME Typed, NEW p \in Pages, request[p].pc \in {"sent", "enqueue"}, Reply(p)
  PROVE  (\E x \in Resting : Puts(p, x)) /\ faults' \in {faults, faults + 1}
<1>1. CASE request' = [request EXCEPT ![p] = NoRequest] /\ UNCHANGED faults
  BY <1>1 DEF Puts, Resting
<1>2. CASE faults' = faults + 1 /\ Keep(p)
  <2>1. Puts(p, KeepForm(request[p]))
    BY <1>2 DEF Keep, Puts, Typed
  <2> QED BY <1>2, <2>1, RequestTyped
<1> QED BY <1>1, <1>2 DEF Reply

LEMMA TranslationKinds ==
  ASSUME Typed, LogFits, NEW p \in Pages, CorrectTranslation(p)
  PROVE  /\ request[p].pc = "sent" /\ UNCHANGED <<jobs, seen>>
         /\ faults' \in {faults, faults + 1} /\ \E x \in Resting : Puts(p, x)
         /\ \/ events' = events
            \/ LET e == Entry("translation.corrected",
                               LatestRevision(events, "translation").sequence + 1,
                               request[p].text, Original(events))
               IN /\ e \in Event /\ events' = Append(events, e)
                  /\ request[p].base = LatestRevision(events, "translation").sequence
                  /\ request[p].field = "translation"
<1> DEFINE current == LatestRevision(events, "translation")
<1>1. /\ request[p].pc = "sent" /\ request[p].field = "translation" /\ request[p] \in Sents
      /\ UNCHANGED <<jobs, seen>> /\ Current(p) = current
      /\ request[p].text \in Words
  BY RequestTyped DEF CorrectTranslation, Sent, Current, Sents
<1>2. events \in Seq(Event) /\ Ordered(events) /\ "translation" \in Fields
  BY DEF Typed, LogFits, Fields
<1>3. CASE Reply(p) /\ UNCHANGED events
  BY <1>1, <1>3, Replies
<1>4. CASE Keep(p) /\ UNCHANGED <<events, faults>>
  <2>1. Puts(p, KeepForm(request[p]))
    BY <1>4 DEF Keep, Puts, Typed
  <2> QED BY <1>1, <1>4, <2>1, RequestTyped
<1>5. CASE /\ BaseIsCurrent(p)
           /\ Append1("translation.corrected", Current(p).sequence + 1,
                      request[p].text, Original(events))
           /\ Reply(p)
  <2>1. PICK r \in Nat : r = current.sequence + 1
    BY <1>2, CurrentTops
  <2>2. events' = Append(events, Entry("translation.corrected", r, request[p].text,
                                        Original(events)))
    BY <1>1, <1>5, <2>1 DEF Append1, Entry
  <2>3. Entry("translation.corrected", r, request[p].text, Original(events)) \in Event
    BY <1>1, <1>2, OriginalTyped DEF Entry, Event, Types
  <2>4. request[p].base = current.sequence
    BY <1>1, <1>5 DEF BaseIsCurrent
  <2> QED BY <1>1, <1>5, <2>1, <2>2, <2>3, <2>4, Replies
<1> QED BY <1>3, <1>4, <1>5 DEF CorrectTranslation

(* The other steps leave the log, or add a translation to it.               *)
Others(p) ==
  \/ Follow(p) \/ RetryTranslation(p) \/ Cancel(p) \/ EnqueueCorrectionTranslation(p)
  \/ \E field \in Fields : OpenEditor(p, field)
  \/ \E text \in Texts \cup Wordings : Submit(p, text)
Sending(x, p) ==
  x \in Sents /\ x.base <= Cut(events, x.field, seen[p]).sequence

LEMMA OtherKinds ==
  ASSUME Typed, NEW p \in Pages, Others(p)
  PROVE  /\ events' = events
         /\ \/ /\ seen' = [seen EXCEPT ![p] = @ + 1] /\ seen[p] < Len(events)
               /\ UNCHANGED <<jobs, request, faults>>
            \/ /\ seen' = seen /\ request[p].pc # "enqueue" /\ UNCHANGED <<jobs, faults>>
               /\ \E x \in Resting \cup Sents : Puts(p, x) /\ (x \in Resting \/ Sending(x, p))
            \/ /\ seen' = seen /\ request[p].pc = "enqueue" /\ faults' \in {faults, faults + 1}
               /\ \E x \in Resting : Puts(p, x)
               /\ \/ EnqueueJob(request[p].revision)
                  \/ jobs' = jobs /\ faults' = faults + 1
<1>1. CASE Follow(p)
  BY <1>1 DEF Follow
<1>2. CASE RetryTranslation(p)
  <2> DEFINE base == LatestRevision(View(p), "source").sequence
             x == [pc |-> "sent", field |-> "source", text |-> Original(View(p)),
                   base |-> base, retry |-> TRUE]
  <2>1. /\ request' = [request EXCEPT ![p] = x] /\ request[p].pc = "idle"
        /\ UNCHANGED <<events, jobs, seen, faults>>
    BY <1>2 DEF RetryTranslation, Typed
  <2>2. /\ "source" \in Fields /\ View(p) \in Seq(Event)
        /\ LatestRevision(View(p), "source") = Cut(events, "source", seen[p])
    BY RequestTyped DEF Fields
  <2>3. base \in Nat /\ Original(View(p)) \in Words
    BY <2>2, OriginalTyped
  <2>4. x \in Sents /\ x.base = Cut(events, "source", seen[p]).sequence /\ x.field = "source"
    BY <2>2, <2>3 DEF Sents
  <2>5. x.base <= Cut(events, x.field, seen[p]).sequence
    BY <2>3, <2>4
  <2> HIDE DEF x
  <2> QED BY <2>1, <2>4, <2>5 DEF Puts, Sending
<1>3. CASE Cancel(p)
  BY <1>3 DEF Cancel, Puts, Resting
<1>4. ASSUME NEW field \in Fields, OpenEditor(p, field)
      PROVE  /\ UNCHANGED <<events, jobs, seen, faults>> /\ request[p].pc = "idle"
             /\ \E x \in Resting : Puts(p, x)
  BY <1>4 DEF OpenEditor, Puts, Resting, Forms
<1>5. ASSUME NEW text \in Texts \cup Wordings, Submit(p, text)
      PROVE  /\ UNCHANGED <<events, jobs, seen, faults>> /\ request[p].pc = "editing"
             /\ \E x \in Sents : Puts(p, x) /\ Sending(x, p)
  <2> DEFINE field == request[p].field
             base == LatestRevision(View(p), field).sequence
             x == [pc |-> "sent", field |-> field, text |-> text, base |-> base, retry |-> FALSE]
  <2>1. /\ request' = [request EXCEPT ![p] = x] /\ request[p].pc = "editing"
        /\ UNCHANGED <<events, jobs, seen, faults>>
    BY <1>5 DEF Submit, Typed
  <2>2. /\ field \in Fields /\ View(p) \in Seq(Event)
        /\ LatestRevision(View(p), field) = Cut(events, field, seen[p])
    BY <2>1, RequestTyped
  <2>3. base \in Nat /\ text \in Words
    BY <2>2, OriginalTyped DEF Words
  <2>4. x \in Sents /\ x.base = Cut(events, field, seen[p]).sequence /\ x.field = field
    BY <2>2, <2>3 DEF Sents
  <2>5. x.base <= Cut(events, x.field, seen[p]).sequence
    BY <2>3, <2>4
  <2> HIDE DEF x
  <2> QED BY <2>1, <2>4, <2>5 DEF Puts, Sending
<1>6. CASE EnqueueCorrectionTranslation(p)
  <2>1. request[p].pc = "enqueue" /\ UNCHANGED <<events, seen>>
    BY <1>6 DEF EnqueueCorrectionTranslation
  <2>2. CASE EnqueueJob(request[p].revision) /\ Reply(p)
    BY <2>1, <2>2, Replies
  <2>3. CASE faults' = faults + 1 /\ Keep(p) /\ UNCHANGED jobs
    <3>1. Puts(p, KeepForm(request[p]))
      BY <2>3 DEF Keep, Puts, Typed
    <3> QED BY <2>1, <2>3, <3>1, RequestTyped
  <2> QED BY <1>6, <2>2, <2>3 DEF EnqueueCorrectionTranslation
<1> QED BY <1>1, <1>2, <1>3, <1>4, <1>5, <1>6 DEF Others

(* What the job of a revision translates.                                   *)
LEMMA JobTexts ==
  ASSUME Typed, LogFits, NEW r \in Revisions
  PROVE  /\ JobText(r) \in Words /\ (r = 0 => JobText(r) = Recognized)
         /\ \A i \in Originals : r # 0 /\ events[i].sequence = r => JobText(r) = events[i].text
<1> DEFINE I == {i \in Originals : events[i].sequence = r}
<1>1. events \in Seq(Event) /\ Originals \subseteq DOMAIN events
  BY DEF Typed, Originals, OfType
<1>2. r # 0 => JobText(r) = LatestAt(events, I).text
  BY DEF JobText, Originals
<1>3. r = 0 => JobText(r) = Recognized /\ Recognized \in Words
  BY CourseTextAssumption DEF JobText, Words
<1>4. ASSUME NEW i \in I, NEW j \in I
      PROVE  j <= i
  <2>1. i \in Nat /\ j \in Nat
    BY <1>1
  <2>2. ~(i < j)
    <3>1. Ordered(events) /\ "source" \in Fields /\ OfType(events, RevisionType("source")) = Originals
      BY DEF LogFits, Fields, RevisionType, Originals
    <3>2. i < j => events[i].sequence < events[j].sequence
      BY <3>1 DEF Ordered
    <3>3. r \in Nat
      BY DEF Revisions
    <3> QED BY <3>2, <3>3
  <2> QED BY <2>1, <2>2
<1>5. ASSUME NEW i \in I
      PROVE  LatestAt(events, I).text = events[i].text
  BY <1>1, <1>4, LatestIs
<1>6. LatestAt(events, I).text \in Words
  BY <1>1, LatestFound
<1> QED BY <1>2, <1>3, <1>5, <1>6

LEMMA Translating ==
  ASSUME Typed, LogFits, NEW r \in Revisions, Translate(r)
  PROVE  LET e == Entry("translation.finalized", r, Machine, JobText(r))
         IN /\ e \in Event /\ events' = Append(events, e)
            /\ jobs[r] = "queued" /\ jobs' = [jobs EXCEPT ![r] = "completed"]
            /\ UNCHANGED <<seen, request, faults>>
<1>1. JobText(r) \in Words /\ Machine \in Words /\ r \in Nat
  BY JobTexts DEF Words, Revisions
<1> QED BY <1>1 DEF Translate, Append1, Entry, Event, Types

(* Every step is one of these.                                              *)
LEMMA StepKinds ==
  ASSUME [CourseTextNext]_vars
  PROVE  \/ UNCHANGED vars
         \/ \E p \in Pages : Others(p) \/ CorrectTranscript(p) \/ CorrectTranslation(p)
         \/ \E r \in Revisions : Translate(r) \/ FailJob(r)
         \/ Crash
  BY DEF CourseTextNext, Handlers, Others

LEMMA Crashing ==
  ASSUME Typed, Crash
  PROVE  /\ UNCHANGED <<events, jobs, seen>> /\ faults' = faults + 1
         /\ \A p \in Pages : request'[p] = request[p] \/ request'[p] \in Resting
         /\ request' \in [Pages -> {NoRequest} \cup Forms \cup Sents \cup Enqueues]
<1>1. /\ UNCHANGED <<events, jobs, seen>> /\ faults' = faults + 1
      /\ request' = [p \in Pages |->
           IF request[p].pc \in {"sent", "enqueue"} THEN KeepForm(request[p]) ELSE request[p]]
  BY DEF Crash
<1>2. \A p \in Pages : request'[p] = request[p] \/ request'[p] \in Resting
  BY <1>1, RequestTyped
<1>3. request \in [Pages -> {NoRequest} \cup Forms \cup Sents \cup Enqueues]
  BY DEF Typed
<1> QED BY <1>1, <1>2, <1>3 DEF Resting

(* The log grows by one event at its end, or stays.                         *)
LogGrows == events' = events \/ \E e \in Event : events' = Append(events, e)

LEMMA TypedStep ==
  ASSUME Typed, LogFits, [CourseTextNext]_vars
  PROVE  Typed' /\ LogGrows
<1>0. /\ events \in Seq(Event) /\ Len(events) \in Nat /\ faults \in Nat
      /\ jobs \in [Revisions -> {"none", "queued", "completed", "failed"}]
      /\ seen \in [Pages -> Nat] /\ \A p \in Pages : seen[p] <= Len(events)
      /\ request \in [Pages -> {NoRequest} \cup Forms \cup Sents \cup Enqueues]
  BY DEF Typed
<1>1. ASSUME NEW p \in Pages, NEW x \in Resting \cup Sents \cup Enqueues, Puts(p, x)
      PROVE  request' \in [Pages -> {NoRequest} \cup Forms \cup Sents \cup Enqueues]
  BY <1>0, <1>1 DEF Puts, Resting
<1>2. ASSUME LogGrows
      PROVE  events' \in Seq(Event) /\ Len(events') \in Nat /\ Len(events) <= Len(events')
  <2>1. CASE events' = events
    BY <1>0, <2>1
  <2>2. ASSUME NEW e \in Event, events' = Append(events, e)
        PROVE  events' \in Seq(Event) /\ Len(events') = Len(events) + 1
    BY <1>0, <2>2, Appended
  <2>3. events' \in Seq(Event) /\ (Len(events') = Len(events) \/ Len(events') = Len(events) + 1)
    BY <1>2, <2>1, <2>2, <1>0 DEF LogGrows
  <2> QED BY <1>0, <2>3
<1>3. ASSUME LogGrows, seen' = seen,
             jobs' \in [Revisions -> {"none", "queued", "completed", "failed"}],
             request' \in [Pages -> {NoRequest} \cup Forms \cup Sents \cup Enqueues],
             faults' \in Nat
      PROVE  Typed'
  <2>1. \A p \in Pages : seen[p] <= Len(events')
    BY <1>0, <1>2, <1>3
  <2> QED BY <1>0, <1>2, <1>3, <2>1 DEF Typed
<1>4. CASE UNCHANGED vars
  BY <1>0, <1>3, <1>4 DEF vars, LogGrows
<1>5. ASSUME NEW p \in Pages, Others(p)
      PROVE  Typed' /\ LogGrows
  <2>1. LogGrows
    BY <1>5, OtherKinds DEF LogGrows
  <2>2. CASE seen' = [seen EXCEPT ![p] = @ + 1] /\ seen[p] < Len(events)
             /\ UNCHANGED <<jobs, request, faults>>
    <3>1. events' = events
      BY <1>5, OtherKinds
    <3>2. seen' \in [Pages -> Nat] /\ \A q \in Pages : seen'[q] <= Len(events)
      BY <1>0, <2>2
    <3>3. \A q \in Pages : seen'[q] <= Len(events')
      BY <3>1, <3>2
    <3> QED BY <1>0, <2>1, <2>2, <3>1, <3>2, <3>3 DEF Typed
  <2>3. CASE seen' = seen /\ UNCHANGED <<jobs, faults>>
             /\ \E x \in Resting \cup Sents : Puts(p, x)
    BY <1>0, <1>1, <1>3, <2>1, <2>3
  <2>4. CASE /\ seen' = seen /\ faults' \in {faults, faults + 1}
             /\ \E x \in Resting : Puts(p, x)
             /\ EnqueueJob(request[p].revision) \/ jobs' = jobs
    <3>1. jobs' \in [Revisions -> {"none", "queued", "completed", "failed"}]
      BY <1>0, <2>4 DEF EnqueueJob
    <3> QED BY <1>0, <1>1, <1>3, <2>1, <2>4, <3>1
  <2> QED BY <1>5, <2>1, <2>2, <2>3, <2>4, OtherKinds
<1>6. ASSUME NEW p \in Pages, CorrectTranscript(p)
      PROVE  Typed' /\ LogGrows
  <2>1. LogGrows /\ UNCHANGED <<jobs, seen, faults>>
        /\ \E x \in Resting \cup Enqueues : Puts(p, x)
    BY <1>6, TranscriptKinds DEF LogGrows
  <2> QED BY <1>0, <1>1, <1>3, <2>1
<1>7. ASSUME NEW p \in Pages, CorrectTranslation(p)
      PROVE  Typed' /\ LogGrows
  <2>1. LogGrows /\ UNCHANGED <<jobs, seen>> /\ faults' \in {faults, faults + 1}
        /\ \E x \in Resting : Puts(p, x)
    BY <1>7, TranslationKinds DEF LogGrows
  <2> QED BY <1>0, <1>1, <1>3, <2>1
<1>8. ASSUME NEW r \in Revisions, Translate(r) \/ FailJob(r)
      PROVE  Typed' /\ LogGrows
  <2>1. LogGrows
    BY <1>8, Translating DEF LogGrows, FailJob
  <2>2. /\ jobs' \in [Revisions -> {"none", "queued", "completed", "failed"}]
        /\ UNCHANGED <<seen, request>> /\ faults' \in Nat
    BY <1>0, <1>8 DEF Translate, FailJob
  <2> QED BY <1>0, <1>3, <2>1, <2>2
<1>9. CASE Crash
  <2>1. LogGrows
    BY <1>9, Crashing DEF LogGrows
  <2> QED BY <1>0, <1>3, <1>9, <2>1, Crashing
<1> QED BY <1>4, <1>5, <1>6, <1>7, <1>8, <1>9, StepKinds

-----------------------------------------------------------------------------
(* The log keeps what it holds.                                             *)
LEMMA LogKeeps ==
  ASSUME Typed, LogGrows
  PROVE  /\ \A i \in DOMAIN events : i \in DOMAIN events' /\ events'[i] = events[i]
         /\ Originals \subseteq Originals' /\ Machines \subseteq Machines'
         /\ \A i \in Originals \cup Machines : events'[i] = events[i]
         /\ \A r : Revised(r) => Revised(r)'
         /\ \A text : Translated(text) => Translated(text)'
<1>0. events \in Seq(Event) /\ Originals \subseteq DOMAIN events /\ Machines \subseteq DOMAIN events
  BY DEF Typed, Originals, Machines, OfType
<1>1. /\ \A i \in DOMAIN events : i \in DOMAIN events' /\ events'[i] = events[i]
      /\ Originals \subseteq Originals' /\ Machines \subseteq Machines'
  <2>1. CASE events' = events
    BY <2>1 DEF Originals, Machines
  <2>2. CASE \E e \in Event : events' = Append(events, e)
    BY <1>0, <2>2, Appended DEF Originals, Machines
  <2> QED BY <2>1, <2>2 DEF LogGrows
<1>2. \A i \in Originals \cup Machines : events'[i] = events[i]
  BY <1>0, <1>1
<1>3. ASSUME NEW r, Revised(r) PROVE Revised(r)'
  BY <1>1, <1>2, <1>3 DEF Revised
<1>4. ASSUME NEW text, Translated(text) PROVE Translated(text)'
  BY <1>1, <1>2, <1>4 DEF Translated
<1> QED BY <1>1, <1>2, <1>3, <1>4

(* An event that is added: its number is the next, or it is a translation.  *)
LEMMA NextInOrder ==
  ASSUME NEW log \in Seq(Event), Ordered(log), NEW e \in Event,
         \A field \in Fields : e.type = RevisionType(field) =>
           e.sequence = LatestRevision(log, field).sequence + 1
  PROVE  Ordered(Append(log, e))
<1> SUFFICES ASSUME NEW field \in Fields,
                    NEW i \in OfType(Append(log, e), RevisionType(field)),
                    NEW j \in OfType(Append(log, e), RevisionType(field))
             PROVE  /\ Append(log, e)[i].sequence >= 1
                    /\ i < j => Append(log, e)[i].sequence < Append(log, e)[j].sequence
  BY DEF Ordered
<1> DEFINE type == RevisionType(field)
           I == OfType(log, type)
<1>1. /\ Len(log) \in Nat /\ I \subseteq 1 .. Len(log)
      /\ OfType(Append(log, e), type) = I \cup (IF e.type = type THEN {Len(log) + 1} ELSE {})
      /\ \A k \in I : Append(log, e)[k] = log[k]
      /\ Append(log, e)[Len(log) + 1] = e
  BY Appended
<1>2. /\ LatestRevision(log, field).sequence \in Nat
      /\ \A k \in I : log[k].sequence \in Nat
                      /\ log[k].sequence <= LatestRevision(log, field).sequence
  BY CurrentTops
<1>3. \A k, l \in I : log[k].sequence >= 1 /\ (k < l => log[k].sequence < log[l].sequence)
  BY DEF Ordered
<1> HIDE DEF I
<1>4. CASE i \in I /\ j \in I
  BY <1>1, <1>3, <1>4
<1>5. CASE i \in I /\ j \notin I
  <2>1. j = Len(log) + 1 /\ e.type = type
    BY <1>1, <1>5
  <2>2. e.sequence = LatestRevision(log, field).sequence + 1
    BY <2>1
  <2>3. Append(log, e)[i] = log[i] /\ Append(log, e)[j] = e /\ log[i].sequence >= 1
    BY <1>1, <1>3, <1>5, <2>1
  <2>4. log[i].sequence < e.sequence
    BY <1>2, <1>5, <2>2
  <2> QED BY <2>3, <2>4
<1>6. CASE i \notin I
  <2>1. i = Len(log) + 1 /\ e.type = type /\ Append(log, e)[i] = e
    BY <1>1, <1>6
  <2>2. e.sequence >= 1
    <3>1. PICK n \in Nat : n = LatestRevision(log, field).sequence
      BY <1>2
    <3>2. PICK m \in Nat : m = n + 1 /\ m >= 1
      BY <3>1
    <3>3. e.sequence = m
      BY <2>1, <3>1, <3>2
    <3> QED BY <3>2, <3>3
  <2>3. j <= Len(log) + 1
    <3>1. j \in I \/ j = Len(log) + 1
      BY <1>1
    <3>2. PICK n \in Nat : n = Len(log) /\ \A k \in I : k \in 1 .. n
      BY <1>1
    <3>3. j \in 1 .. n + 1
      BY <3>1, <3>2
    <3> QED BY <3>2, <3>3
  <2>4. ~(i < j)
    BY <1>1, <2>1, <2>3
  <2> QED BY <2>1, <2>2, <2>4
<1> QED BY <1>4, <1>5, <1>6

LEMMA Grown ==
  ASSUME Typed, NEW e \in Event, events' = Append(events, e)
  PROVE  /\ events'[Len(events) + 1] = e
         /\ Originals' = Originals \cup (IF e.type = "transcript.corrected"
                                        THEN {Len(events) + 1} ELSE {})
         /\ Machines' = Machines \cup (IF e.type = "translation.finalized"
                                      THEN {Len(events) + 1} ELSE {})
<1>1. events \in Seq(Event)
  BY DEF Typed
<1>2. PICK log \in Seq(Event) : log = events
  BY <1>1
<1>3. /\ Append(log, e) \in Seq(Event) /\ Append(log, e)[Len(log) + 1] = e
       /\ \A type : OfType(Append(log, e), type) =
            OfType(log, type) \cup (IF e.type = type THEN {Len(log) + 1} ELSE {})
  BY Appended
<1>4. PICK after \in Seq(Event) : after = Append(log, e)
  BY <1>3
<1>5. after = events'
  BY <1>2, <1>4
<1>6. ASSUME NEW type
      PROVE  OfType(after, type) = OfType(log, type) \cup
               (IF e.type = type THEN {Len(log) + 1} ELSE {})
  <2>1. OfType(Append(log, e), type) =
          OfType(log, type) \cup (IF e.type = type THEN {Len(log) + 1} ELSE {})
    BY <1>3
  <2> QED BY <1>4, <2>1, Zenon
<1>7. Originals = OfType(log, "transcript.corrected") /\ Machines = OfType(log, "translation.finalized")
  BY <1>2 DEF Originals, Machines
<1>8. Originals' = OfType(after, "transcript.corrected")
      /\ Machines' = OfType(after, "translation.finalized")
  BY <1>5 DEF Originals, Machines
<1>9. after[Len(log) + 1] = e
  BY <1>3, <1>4, Zenon
<1> QED BY <1>2, <1>5, <1>6, <1>7, <1>8, <1>9

LEMMA LogStep ==
  ASSUME Typed, LogFits, JobsFit, [CourseTextNext]_vars
  PROVE  LogFits'
<1>0. events \in Seq(Event) /\ Ordered(events)
  BY DEF Typed, LogFits
<1>1. CASE events' = events
  BY <1>1 DEF LogFits, Originals, Machines
<1>2. ASSUME NEW p \in Pages, CorrectTranscript(p), events' # events
      PROVE  LogFits'
  <2>1. PICK r \in Revisions :
          /\ r = LatestRevision(events, "source").sequence + 1 /\ r >= 1
          /\ Entry("transcript.corrected", r, request[p].text, Waiting) \in Event
          /\ events' = Append(events, Entry("transcript.corrected", r, request[p].text, Waiting))
    BY <1>2, TranscriptKinds
  <2>2. PICK e \in Event : /\ e.type = "transcript.corrected" /\ e.sequence = r
                           /\ events' = Append(events, e)
    BY <2>1 DEF Entry
  <2>3. Ordered(events')
    <3>1. RevisionType("source") = "transcript.corrected"
          /\ RevisionType("translation") = "translation.corrected"
      BY DEF RevisionType
    <3>2. ASSUME NEW field \in Fields, e.type = RevisionType(field)
          PROVE  e.sequence = LatestRevision(events, field).sequence + 1
      BY <2>1, <2>2, <3>1, <3>2 DEF Fields
    <3> QED BY <1>0, <2>2, <3>2, NextInOrder
  <2>4. Originals' = Originals \cup {Len(events) + 1} /\ Machines' = Machines
        /\ events'[Len(events) + 1] = e
    BY <2>2, Grown
  <2>5. \A i \in Originals \cup Machines : events'[i] = events[i]
    BY <2>2, LogKeeps DEF LogGrows
  <2> QED BY <2>1, <2>2, <2>3, <2>4, <2>5 DEF LogFits
<1>3. ASSUME NEW p \in Pages, CorrectTranslation(p), events' # events
      PROVE  LogFits'
  <2>1. PICK e \in Event :
          /\ e.type = "translation.corrected" /\ events' = Append(events, e)
          /\ e.sequence = LatestRevision(events, "translation").sequence + 1
    BY <1>3, TranslationKinds DEF Entry
  <2>2. Ordered(events')
    <3>1. RevisionType("source") = "transcript.corrected"
          /\ RevisionType("translation") = "translation.corrected"
      BY DEF RevisionType
    <3>2. ASSUME NEW field \in Fields, e.type = RevisionType(field)
          PROVE  e.sequence = LatestRevision(events, field).sequence + 1
      BY <2>1, <3>1, <3>2 DEF Fields
    <3> QED BY <1>0, <2>1, <3>2, NextInOrder
  <2>3. Originals' = Originals /\ Machines' = Machines
    BY <2>1, Grown
  <2>4. \A i \in Originals \cup Machines : events'[i] = events[i]
    BY <2>1, LogKeeps DEF LogGrows
  <2> QED BY <2>2, <2>3, <2>4 DEF LogFits
<1>4. ASSUME NEW r \in Revisions, Translate(r)
      PROVE  LogFits'
  <2>1. PICK e \in Event :
          /\ e.type = "translation.finalized" /\ events' = Append(events, e)
          /\ e.text = Machine /\ e.source = JobText(r)
    BY <1>4, Translating DEF Entry
  <2>2. Ordered(events')
    <3>1. RevisionType("source") = "transcript.corrected"
          /\ RevisionType("translation") = "translation.corrected"
      BY DEF RevisionType
    <3>2. ASSUME NEW field \in Fields, e.type = RevisionType(field)
          PROVE  e.sequence = LatestRevision(events, field).sequence + 1
      BY <2>1, <3>1, <3>2 DEF Fields
    <3> QED BY <1>0, <2>1, <3>2, NextInOrder
  <2>3. Originals' = Originals /\ Machines' = Machines \cup {Len(events) + 1}
        /\ events'[Len(events) + 1] = e
    BY <2>1, Grown
  <2>4. \A i \in Originals \cup Machines : events'[i] = events[i]
    BY <2>1, LogKeeps DEF LogGrows
  <2>5. Originals = {} => e.source = Recognized
    <3>1. jobs[r] = "queued"
      BY <1>4 DEF Translate
    <3>2. Originals = {} => r = 0
      BY <3>1 DEF JobsFit, Revised
    <3> QED BY <2>1, <3>2, JobTexts
  <2> QED BY <2>1, <2>2, <2>3, <2>4, <2>5 DEF LogFits
<1>5. ASSUME NEW p \in Pages, Others(p)
      PROVE  events' = events
  BY <1>5, OtherKinds
<1>6. UNCHANGED vars \/ Crash \/ (\E r \in Revisions : FailJob(r)) => events' = events
  BY DEF vars, Crash, FailJob
<1> QED BY <1>1, <1>2, <1>3, <1>4, <1>5, <1>6, StepKinds

(* The forms.                                                               *)
RevisedThen(r) == \E i \in Originals' : events'[i].sequence = r

LEMMA FormsStep ==
  ASSUME Typed, LogFits, FormsFit, LogFits', [CourseTextNext]_vars
  PROVE  FormsFit'
<1>0. /\ events \in Seq(Event) /\ Typed' /\ LogGrows /\ Ordered(events) /\ Ordered(events')
      /\ seen \in [Pages -> Nat] /\ seen' \in [Pages -> Nat]
      /\ request \in [Pages -> {NoRequest} \cup Forms \cup Sents \cup Enqueues]
  <2>1. Typed' /\ LogGrows
    BY TypedStep
  <2> QED BY <2>1 DEF Typed, LogFits
<1>1. ASSUME NEW p \in Pages
      PROVE  \/ request'[p] = request[p] /\ seen[p] <= seen'[p]
             \/ request'[p] \in Resting
             \/ Sending(request'[p], p) /\ UNCHANGED <<events, seen>>
             \/ request'[p] \in Enqueues /\ RevisedThen(request'[p].revision)
  <2>1. ASSUME NEW q \in Pages, q # p, Others(q) \/ CorrectTranscript(q) \/ CorrectTranslation(q)
        PROVE  request'[p] = request[p] /\ seen[p] <= seen'[p]
    <3>1. request' = request \/ \E x : Puts(q, x)
      BY <2>1, OtherKinds, TranscriptKinds, TranslationKinds
    <3>2. seen' = seen \/ seen' = [seen EXCEPT ![q] = @ + 1]
      BY <2>1, OtherKinds, TranscriptKinds, TranslationKinds
    <3> QED BY <1>0, <2>1, <3>1, <3>2 DEF Puts
  <2>2. CASE Others(p)
    <3>1. CASE seen' = [seen EXCEPT ![p] = @ + 1] /\ UNCHANGED request
      BY <1>0, <3>1
    <3>2. CASE seen' = seen /\ \E x \in Resting \cup Sents : Puts(p, x) /\ (x \in Resting \/ Sending(x, p))
      BY <1>0, <2>2, <3>2, OtherKinds DEF Puts
    <3>3. CASE \E x \in Resting : Puts(p, x)
      BY <1>0, <3>3 DEF Puts
    <3> QED BY <2>2, <3>1, <3>2, <3>3, OtherKinds
  <2>3. CASE CorrectTranscript(p)
    <3>1. CASE \E x \in Resting : Puts(p, x)
      BY <1>0, <3>1 DEF Puts
    <3>2. CASE events' = events /\ \E x \in Enqueues : Puts(p, x) /\ Revised(x.revision)
      <4>1. PICK x \in Enqueues : Puts(p, x) /\ Revised(x.revision)
        BY <3>2
      <4>2. request'[p] = x
        BY <1>0, <4>1 DEF Puts
      <4>3. RevisedThen(x.revision)
        BY <1>0, <4>1, LogKeeps DEF Revised, RevisedThen
      <4> QED BY <4>2, <4>3
    <3>3. CASE events' # events
      <4>1. PICK r \in Revisions :
              /\ Entry("transcript.corrected", r, request[p].text, Waiting) \in Event
              /\ events' = Append(events, Entry("transcript.corrected", r, request[p].text, Waiting))
              /\ \E x \in Enqueues : Puts(p, x) /\ x.revision = r
        BY <2>3, <3>3, TranscriptKinds
      <4>2. PICK x \in Enqueues : Puts(p, x) /\ x.revision = r
        BY <4>1
      <4>3. request'[p] = x
        BY <1>0, <4>2 DEF Puts
      <4>4. Len(events) + 1 \in Originals' /\ events'[Len(events) + 1].sequence = r
        BY <1>0, <4>1, Appended DEF Originals, Entry
      <4> QED BY <4>2, <4>3, <4>4 DEF RevisedThen
    <3> QED BY <2>3, <3>1, <3>2, <3>3, TranscriptKinds
  <2>4. CASE CorrectTranslation(p)
    <3>1. PICK x \in Resting : Puts(p, x)
      BY <2>4, TranslationKinds
    <3> QED BY <1>0, <3>1 DEF Puts
  <2>5. CASE UNCHANGED vars \/ \E r \in Revisions : Translate(r) \/ FailJob(r)
    BY <1>0, <2>5 DEF vars, Translate, FailJob
  <2>6. CASE Crash
    BY <1>0, <2>6, Crashing
  <2> QED BY <2>1, <2>2, <2>3, <2>4, <2>5, <2>6, StepKinds
<1>2. ASSUME NEW p \in Pages, request'[p] = request[p], seen[p] <= seen'[p],
             request[p].pc = "sent"
      PROVE  request[p].base <= Cut(events', request[p].field, seen'[p]).sequence
  <2>1. request[p].base \in Nat /\ request[p].field \in Fields /\ seen[p] <= Len(events)
    BY <1>2, RequestTyped, RestingMoves
  <2>2. request[p].base <= Cut(events, request[p].field, seen[p]).sequence
    BY <1>2 DEF FormsFit
  <2>3. Cut(events', request[p].field, seen[p]) = Cut(events, request[p].field, seen[p])
    <3>1. CASE events' = events
      BY <3>1
    <3>2. ASSUME NEW e \in Event, events' = Append(events, e)
          PROVE  Cut(events', request[p].field, seen[p]) = Cut(events, request[p].field, seen[p])
      <4>1. PICK field \in Fields : field = request[p].field
        BY <2>1
      <4>2. PICK n \in Nat : n = seen[p] /\ n <= Len(events)
        BY <1>0, <2>1
      <4>3. PICK log \in Seq(Event) : log = events
        BY <1>0
      <4>4. Cut(Append(log, e), field, n) = Cut(log, field, n)
        BY <4>2, <4>3, CutStays
      <4> QED BY <3>2, <4>1, <4>2, <4>3, <4>4
    <3> QED BY <1>0, <3>1, <3>2 DEF LogGrows
  <2>4. events' \in Seq(Event)
    BY <1>0 DEF Typed
  <2>5. PICK a \in Nat : a = Cut(events', request[p].field, seen[p]).sequence
    BY <1>0, <1>2, <2>1, <2>4, CutsGrow
  <2>6. PICK b \in Nat : b = Cut(events', request[p].field, seen'[p]).sequence
    BY <1>0, <1>2, <2>1, <2>4, CutsGrow
  <2>7. a <= b
    BY <1>0, <1>2, <2>1, <2>4, <2>5, <2>6, CutsGrow
  <2> QED BY <2>1, <2>2, <2>3, <2>5, <2>6, <2>7
<1>3. ASSUME NEW p \in Pages, request'[p].pc = "sent"
      PROVE  request'[p].base <= Cut(events', request'[p].field, seen'[p]).sequence
  BY <1>1, <1>2, <1>3, RestingMoves DEF Sending
<1>4. ASSUME NEW p \in Pages, request'[p].pc = "enqueue"
      PROVE  RevisedThen(request'[p].revision)
  <2>1. CASE request'[p] = request[p]
    <3>1. \E i \in Originals : events[i].sequence = request[p].revision
      BY <1>4, <2>1 DEF FormsFit, Revised
    <3> QED BY <1>0, <2>1, <3>1, LogKeeps DEF RevisedThen
  <2> QED BY <1>1, <1>4, <2>1, RestingMoves DEF Sending
<1> QED BY <1>3, <1>4 DEF FormsFit, Revised, RevisedThen

-----------------------------------------------------------------------------
(* The jobs.                                                                *)
TranslatedThen(text) == \E i \in Machines' : events'[i].source = text

LEMMA JobMoves ==
  ASSUME Typed, LogFits, FormsFit, [CourseTextNext]_vars, NEW r \in Revisions
  PROVE  \/ jobs'[r] = jobs[r]
         \/ jobs[r] \in {"none", "failed"} /\ jobs'[r] = "queued" /\ Revised(r)
         \/ jobs[r] = "queued" /\ jobs'[r] = "completed" /\ TranslatedThen(JobText(r))
         \/ jobs[r] = "queued" /\ jobs'[r] = "failed"
<1>0. jobs \in [Revisions -> {"none", "queued", "completed", "failed"}]
  BY DEF Typed
<1>1. CASE UNCHANGED vars \/ Crash
  BY <1>1 DEF vars, Crash
<1>2. ASSUME NEW p \in Pages, CorrectTranscript(p) \/ CorrectTranslation(p)
      PROVE  jobs' = jobs
  BY <1>2 DEF CorrectTranscript, CorrectTranslation
<1>3. ASSUME NEW p \in Pages, Others(p), jobs'[r] # jobs[r]
      PROVE  jobs[r] \in {"none", "failed"} /\ jobs'[r] = "queued" /\ Revised(r)
  <2>1. request[p].pc = "enqueue" /\ EnqueueJob(request[p].revision)
    BY <1>3, OtherKinds
  <2>2. PICK q \in Revisions : q = request[p].revision /\ Revised(q)
    BY <2>1, RequestTyped, RestingMoves DEF FormsFit
  <2>3. jobs' = [jobs EXCEPT ![q] = IF jobs[q] \in {"none", "failed"} THEN "queued" ELSE jobs[q]]
    BY <1>0, <2>1, <2>2 DEF EnqueueJob
  <2>4. r = q
    BY <1>0, <1>3, <2>3
  <2> QED BY <1>0, <1>3, <2>2, <2>3, <2>4
<1>4. ASSUME NEW q \in Revisions, Translate(q), jobs'[r] # jobs[r]
      PROVE  jobs[r] = "queued" /\ jobs'[r] = "completed" /\ TranslatedThen(JobText(r))
  <2>1. PICK e \in Event :
          /\ e.type = "translation.finalized" /\ e.source = JobText(q)
          /\ events' = Append(events, e)
          /\ jobs[q] = "queued" /\ jobs' = [jobs EXCEPT ![q] = "completed"]
    BY <1>4, Translating DEF Entry
  <2>2. r = q
    BY <1>0, <1>4, <2>1
  <2>3. Len(events) + 1 \in Machines' /\ events'[Len(events) + 1] = e
    BY <2>1, Grown
  <2> QED BY <1>0, <2>1, <2>2, <2>3 DEF TranslatedThen
<1>5. ASSUME NEW q \in Revisions, FailJob(q), jobs'[r] # jobs[r]
      PROVE  jobs[r] = "queued" /\ jobs'[r] = "failed"
  BY <1>0, <1>5 DEF FailJob
<1> QED BY <1>1, <1>2, <1>3, <1>4, <1>5, StepKinds

(* An original that is added has a new number, and its job is about to be   *)
(* queued.                                                                  *)
LEMMA NewOriginal ==
  ASSUME Typed, LogFits, JobsFit, [CourseTextNext]_vars, NEW i \in Originals', i \notin Originals
  PROVE  /\ jobs' = jobs /\ jobs[events'[i].sequence] = "none"
         /\ \E p \in Pages : request'[p].pc = "enqueue"
                             /\ request'[p].revision = events'[i].sequence
<1>1. events' # events
  BY DEF Originals
<1>2. ASSUME NEW p \in Pages, Others(p) PROVE FALSE
  BY <1>1, <1>2, OtherKinds
<1>3. ASSUME NEW p \in Pages, CorrectTranslation(p) PROVE FALSE
  <2>1. PICK e \in Event : e.type = "translation.corrected" /\ events' = Append(events, e)
    BY <1>1, <1>3, TranslationKinds DEF Entry
  <2> QED BY <2>1, Grown
<1>4. ASSUME NEW r \in Revisions, Translate(r) PROVE FALSE
  <2>1. PICK e \in Event : e.type = "translation.finalized" /\ events' = Append(events, e)
    BY <1>4, Translating DEF Entry
  <2> QED BY <2>1, Grown
<1>5. UNCHANGED vars \/ Crash \/ (\E r \in Revisions : FailJob(r)) => FALSE
  BY <1>1 DEF vars, Crash, FailJob
<1>6. PICK p \in Pages : CorrectTranscript(p)
  BY <1>2, <1>3, <1>4, <1>5, StepKinds
<1>7. PICK r \in Revisions :
        /\ r = LatestRevision(events, "source").sequence + 1 /\ r >= 1
        /\ Entry("transcript.corrected", r, request[p].text, Waiting) \in Event
        /\ events' = Append(events, Entry("transcript.corrected", r, request[p].text, Waiting))
        /\ \E x \in Enqueues : Puts(p, x) /\ x.revision = r
  BY <1>1, <1>6, TranscriptKinds
<1>8. PICK e \in Event : e.type = "transcript.corrected" /\ e.sequence = r
                         /\ events' = Append(events, e)
  BY <1>7 DEF Entry
<1>9. events'[i].sequence = r
  <2>1. i = Len(events) + 1 /\ events'[Len(events) + 1] = e
    BY <1>8, Grown
  <2> QED BY <1>8, <2>1
<1>10. jobs[r] = "none"
  <2>1. ASSUME NEW k \in Originals, events[k].sequence = r PROVE FALSE
    <3>1. /\ Ordered(events) /\ "source" \in Fields /\ events \in Seq(Event)
          /\ OfType(events, RevisionType("source")) = Originals
      BY DEF LogFits, Typed, Fields, RevisionType, Originals
    <3>2. PICK n \in Nat : n = LatestRevision(events, "source").sequence
      BY <3>1, CurrentTops
    <3>3. events[k].sequence <= n
      BY <3>1, <3>2, CurrentTops
    <3>4. r = n + 1 /\ r <= n
      BY <1>7, <2>1, <3>2, <3>3
    <3> QED BY <3>2, <3>4
  <2>2. ~Revised(r)
    BY <2>1 DEF Revised
  <2>3. r # 0
    BY <1>7
  <2> QED BY <2>2, <2>3 DEF JobsFit
<1>11. PICK x \in Enqueues : request'[p] = x /\ x.revision = r
  BY <1>7 DEF Puts, Typed
<1>12. jobs' = jobs
  BY <1>6 DEF CorrectTranscript
<1> QED BY <1>9, <1>10, <1>11, <1>12, RestingMoves

(* While nothing has failed, what is to be queued is queued.                *)
LEMMA PendingStays ==
  ASSUME Typed, LogFits, [CourseTextNext]_vars, faults' = 0,
         NEW p \in Pages, request[p].pc = "enqueue"
  PROVE  faults = 0 /\ (request'[p] = request[p] \/ EnqueueJob(request[p].revision))
<1>0. /\ request \in [Pages -> {NoRequest} \cup Forms \cup Sents \cup Enqueues]
      /\ faults \in Nat /\ faults' # faults + 1
  BY DEF Typed
<1>1. CASE UNCHANGED vars
  BY <1>1 DEF vars
<1>2. ASSUME NEW q \in Pages, Others(q) \/ CorrectTranscript(q) \/ CorrectTranslation(q)
      PROVE  faults = 0 /\ (q # p => request'[p] = request[p])
  <2>1. request' = request \/ \E x : Puts(q, x)
    BY <1>2, OtherKinds, TranscriptKinds, TranslationKinds
  <2>2. faults' \in {faults, faults + 1}
    BY <1>2, OtherKinds, TranscriptKinds, TranslationKinds
  <2> QED BY <1>0, <2>1, <2>2 DEF Puts
<1>3. ASSUME Others(p)
      PROVE  request'[p] = request[p] \/ EnqueueJob(request[p].revision)
  BY <1>0, <1>3, OtherKinds
<1>4. ~CorrectTranscript(p) /\ ~CorrectTranslation(p)
  BY TranscriptKinds, TranslationKinds
<1>5. ~Crash
  BY <1>0, Crashing
<1>6. ASSUME NEW r \in Revisions, Translate(r) \/ FailJob(r)
      PROVE  faults = 0 /\ request' = request
  BY <1>0, <1>6 DEF Translate, FailJob
<1> QED BY <1>1, <1>2, <1>3, <1>4, <1>5, <1>6, StepKinds

LEMMA FaultsGrow ==
  ASSUME Typed, LogFits, [CourseTextNext]_vars
  PROVE  faults' \in {faults, faults + 1}
<1>1. ASSUME NEW q \in Pages, Others(q) \/ CorrectTranscript(q) \/ CorrectTranslation(q)
      PROVE  faults' \in {faults, faults + 1}
  BY <1>1, OtherKinds, TranscriptKinds, TranslationKinds
<1>2. ASSUME NEW r \in Revisions, Translate(r) \/ FailJob(r)
      PROVE  faults' \in {faults, faults + 1}
  BY <1>2 DEF Translate, FailJob
<1>3. UNCHANGED vars \/ Crash => faults' \in {faults, faults + 1}
  BY DEF vars, Crash
<1> QED BY <1>1, <1>2, <1>3, StepKinds

LEMMA JobsStep ==
  ASSUME Typed, LogFits, FormsFit, JobsFit, Typed', LogGrows, LogFits', [CourseTextNext]_vars
  PROVE  JobsFit'
<1>0. /\ \A text : Translated(text) => TranslatedThen(text)
      /\ \A r : Revised(r) => RevisedThen(r)
      /\ \A i \in Originals : i \in Originals' /\ events'[i] = events[i]
  BY LogKeeps DEF Translated, TranslatedThen, Revised, RevisedThen
<1>1. jobs'[0] # "none" /\ (jobs'[0] = "completed" => TranslatedThen(Recognized))
  <2>1. 0 \in Revisions
    BY CourseTextAssumption DEF Revisions
  <2>2. JobText(0) = Recognized
    BY <2>1, JobTexts
  <2> QED BY <1>0, <2>1, <2>2, JobMoves DEF JobsFit
<1>2. ASSUME NEW r \in Revisions \ {0}, jobs'[r] # "none"
      PROVE  RevisedThen(r)
  <2>1. Revised(r)
    BY <1>2, JobMoves DEF JobsFit
  <2> QED BY <1>0, <2>1
<1>3. ASSUME NEW i \in Originals
      PROVE  /\ jobs'[events[i].sequence] = "completed" => TranslatedThen(events[i].text)
             /\ faults' = 0 =>
                  \/ jobs'[events[i].sequence] # "none"
                  \/ \E p \in Pages : request'[p].pc = "enqueue"
                                      /\ request'[p].revision = events[i].sequence
  <2>1. PICK r \in Revisions : r = events[i].sequence
    BY DEF LogFits
  <2>2. r # 0
    <3>1. Ordered(events) /\ "source" \in Fields /\ OfType(events, RevisionType("source")) = Originals
      BY DEF LogFits, Fields, RevisionType, Originals
    <3>2. events[i].sequence >= 1
      BY <3>1 DEF Ordered
    <3> QED BY <2>1, <3>2
  <2>3. JobText(r) = events[i].text
    BY <2>1, <2>2, JobTexts
  <2>4. jobs[r] = "completed" => Translated(events[i].text)
    BY <2>1 DEF JobsFit
  <2>5. jobs'[r] = "completed" => TranslatedThen(events[i].text)
    BY <1>0, <2>3, <2>4, JobMoves
  <2>6. jobs[r] # "none" => jobs'[r] # "none"
    BY JobMoves
  <2>7. ASSUME faults' = 0, jobs[r] = "none"
        PROVE  \/ jobs'[r] # "none"
               \/ \E p \in Pages : request'[p].pc = "enqueue" /\ request'[p].revision = r
    <3>1. faults = 0
      BY <2>7, FaultsGrow DEF Typed
    <3>2. PICK p \in Pages : request[p].pc = "enqueue" /\ request[p].revision = r
      BY <2>1, <2>7, <3>1 DEF JobsFit
    <3>3. CASE request'[p] = request[p]
      BY <3>2, <3>3
    <3>4. CASE EnqueueJob(r)
      <4>1. jobs'[r] = "queued"
        BY <2>7, <3>4 DEF EnqueueJob, Typed
      <4> QED BY <4>1
    <3> QED BY <2>7, <3>2, <3>3, <3>4, PendingStays
  <2> QED BY <2>1, <2>5, <2>6, <2>7
<1>4. ASSUME NEW i \in Originals'
      PROVE  /\ jobs'[events'[i].sequence] = "completed" => TranslatedThen(events'[i].text)
             /\ faults' = 0 =>
                  \/ jobs'[events'[i].sequence] # "none"
                  \/ \E p \in Pages : request'[p].pc = "enqueue"
                                      /\ request'[p].revision = events'[i].sequence
  <2>1. CASE i \in Originals
    BY <1>0, <1>3, <2>1
  <2>2. CASE i \notin Originals
    <3>1. jobs'[events'[i].sequence] = "none"
      BY <2>2, NewOriginal
    <3> QED BY <2>2, <3>1, NewOriginal
  <2> QED BY <2>1, <2>2
<1> QED BY <1>1, <1>2, <1>4 DEF JobsFit, Translated, TranslatedThen, Revised, RevisedThen

-----------------------------------------------------------------------------
LEMMA InvariantInit ==
  ASSUME CourseTextInit PROVE TextInvariant
<1>1. events = <<>> /\ DOMAIN events = {} /\ Originals = {} /\ Machines = {}
  BY DEF CourseTextInit, Originals, Machines, OfType
<1>2. Typed
  BY CourseTextAssumption DEF CourseTextInit, Typed, Revisions
<1>3. LogFits
  <2>1. \A field \in Fields : OfType(events, RevisionType(field)) = {}
    BY <1>1 DEF OfType
  <2> QED BY <1>1, <2>1 DEF LogFits, Ordered
<1>4. FormsFit
  BY DEF CourseTextInit, FormsFit, NoRequest
<1>5. JobsFit
  <2>1. 0 \in Revisions
    BY CourseTextAssumption DEF Revisions
  <2> QED BY <1>1, <2>1 DEF CourseTextInit, JobsFit
<1> QED BY <1>2, <1>3, <1>4, <1>5 DEF TextInvariant

(* The invariant the theorems below rest on: TextInvariant (above) says how *)
(* the log, the forms that are sent and the jobs of the revisions fit       *)
(* together (course_content.rs, correct_transcript and correct_translation; *)
(* jobs.rs, the translation jobs).                                          *)
THEOREM TextIsInvariant == CourseTextSpec => []TextInvariant
<1>1. CourseTextInit => TextInvariant
  BY InvariantInit
<1>2. TextInvariant /\ [CourseTextNext]_vars => TextInvariant'
  <2> SUFFICES ASSUME TextInvariant, [CourseTextNext]_vars PROVE TextInvariant'
    OBVIOUS
  <2>1. Typed /\ LogFits /\ FormsFit /\ JobsFit
    BY DEF TextInvariant
  <2>2. Typed' /\ LogGrows
    BY <2>1, TypedStep
  <2>3. LogFits'
    BY <2>1, LogStep
  <2>4. FormsFit'
    BY <2>1, <2>3, FormsStep
  <2>5. JobsFit'
    BY <2>1, <2>2, <2>3, JobsStep
  <2> QED BY <2>2, <2>3, <2>4, <2>5 DEF TextInvariant
<1> QED BY <1>1, <1>2, PTL DEF CourseTextSpec

(* A translation of an original that a model has made is found.             *)
LEMMA MachineFound ==
  ASSUME Typed, LogFits, NEW original
  PROVE  /\ MachineOf(events, original) # None => MachineOf(events, original).source = original
         /\ Translated(original) => MachineOf(events, original) # None
<1> DEFINE I == {i \in Machines : events[i].source = original}
<1>1. events \in Seq(Event) /\ I \subseteq DOMAIN events
  BY DEF Typed, Machines, OfType
<1>2. MachineOf(events, original) = LatestAt(events, I)
  BY DEF MachineOf, Machines
<1>3. CASE I = {}
  <2>1. LatestAt(events, I) = None
    BY <1>1, <1>3, LatestFound
  <2> QED BY <1>2, <1>3, <2>1 DEF Translated
<1>4. CASE I # {}
  <2>1. PICK m \in I : LatestAt(events, I) = [sequence |-> events[m].sequence,
                         text |-> events[m].text, source |-> events[m].source]
    <3> HIDE DEF I
    <3> QED BY <1>1, <1>4, LatestFound
  <2>2. events[m].text = Machine /\ events[m].source = original
    BY <2>1 DEF LogFits
  <2>3. Machine # Waiting
    BY CourseTextAssumption
  <2> QED BY <1>2, <2>1, <2>2, <2>3 DEF None
<1> QED BY <1>3, <1>4

LEMMA CorrectedIs ==
  ASSUME Typed, LogFits
  PROVE  /\ ~Corrected(events) => Originals = {} /\ Original(events) = Recognized
         /\ Corrected(events) => \E i \in Originals : events[i].text = Original(events)
<1>1. /\ Ordered(events) /\ "source" \in Fields /\ events \in Seq(Event)
      /\ OfType(events, RevisionType("source")) = Originals
  BY DEF LogFits, Typed, Fields, RevisionType, Originals
<1>2. /\ LatestRevision(events, "source") = None => Originals = {}
      /\ Originals # {} => \E i \in Originals :
                             events[i].text = LatestRevision(events, "source").text
      /\ Originals = {} => LatestRevision(events, "source") = None
  BY <1>1, CurrentTops
<1> QED BY <1>2 DEF Corrected, Original

(* In the ReadWeave note a translation stands under the original it was     *)
(* made from (readweave.rs, render_transcript).                             *)
THEOREM NoteStandsUnderItsOriginal == CourseTextSpec => []NoteMatches
<1>1. TextInvariant => NoteMatches
  <2> SUFFICES ASSUME TextInvariant, NoteShows(events) # None
               PROVE  NoteShows(events).source = Original(events)
    BY DEF NoteMatches
  <2>1. Typed /\ LogFits
    BY DEF TextInvariant
  <2>2. CASE HumanIsCurrent(events)
    BY <2>2 DEF NoteShows, HumanIsCurrent
  <2>3. CASE ~HumanIsCurrent(events) /\ MachineOf(events, Original(events)) # None
    <3>1. MachineOf(events, Original(events)).source = Original(events)
      BY <2>1, <2>3, MachineFound
    <3> QED BY <2>3, <3>1 DEF NoteShows, CurrentMachine
  <2>4. CASE ~HumanIsCurrent(events) /\ MachineOf(events, Original(events)) = None
    <3>1. ~Corrected(events) /\ NoteShows(events) = LatestMachine(events)
      BY <2>4 DEF NoteShows, CurrentMachine
    <3>2. Originals = {} /\ Original(events) = Recognized
      BY <2>1, <3>1, CorrectedIs
    <3>3. /\ events \in Seq(Event) /\ Machines \subseteq DOMAIN events
          /\ LatestMachine(events) = LatestAt(events, Machines)
      BY <2>1 DEF Typed, Machines, OfType, LatestMachine
    <3>4. Machines # {}
      BY <3>1, <3>3, LatestFound
    <3>5. PICK m \in Machines : LatestAt(events, Machines).source = events[m].source
      BY <3>3, <3>4, LatestFound
    <3>6. events[m].source = Recognized
      BY <2>1, <3>2 DEF LogFits
    <3> QED BY <3>1, <3>2, <3>3, <3>5, <3>6
  <2> QED BY <2>2, <2>3, <2>4
<1> QED BY <1>1, TextIsInvariant, PTL

(* A revised original does not stay untranslated: once the requests and the *)
(* jobs are done and nothing failed, the note shows a translation           *)
(* (course_content.rs, enqueue_correction_translation).                     *)
THEOREM RevisionsAreTranslated == CourseTextSpec => []RevisedIsTranslated
<1>1. TextInvariant => RevisedIsTranslated
  <2> SUFFICES ASSUME TextInvariant, Quiescent, faults = 0
               PROVE  NoteShows(events) # None
    BY DEF RevisedIsTranslated
  <2>1. Typed /\ LogFits /\ JobsFit
    BY DEF TextInvariant
  <2>2. Translated(Original(events))
    <3>1. CASE ~Corrected(events)
      <4>1. Original(events) = Recognized /\ 0 \in Revisions
        BY <2>1, <3>1, CorrectedIs, CourseTextAssumption DEF Revisions
      <4>2. jobs[0] = "completed"
        BY <2>1, <4>1 DEF Quiescent, JobsFit
      <4> QED BY <2>1, <4>1, <4>2 DEF JobsFit
    <3>2. CASE Corrected(events)
      <4>1. PICK i \in Originals : events[i].text = Original(events)
        BY <2>1, <3>2, CorrectedIs
      <4>2. PICK r \in Revisions : r = events[i].sequence
        BY <2>1 DEF LogFits
      <4>3. jobs[r] # "none"
        BY <2>1, <4>2 DEF Quiescent, JobsFit
      <4>4. jobs[r] = "completed"
        BY <4>3 DEF Quiescent
      <4>5. Translated(events[i].text)
        BY <2>1, <4>2, <4>4 DEF JobsFit
      <4> QED BY <4>1, <4>5
    <3> QED BY <3>1, <3>2
  <2>3. MachineOf(events, Original(events)) # None
    BY <2>1, <2>2, MachineFound
  <2> QED BY <2>3 DEF NoteShows, HumanIsCurrent, CurrentMachine
<1> QED BY <1>1, TextIsInvariant, PTL

(* A form whose base is the current revision was filled in by a page that   *)
(* had received that revision.                                              *)
LEMMA BaseWasSeen ==
  ASSUME TextInvariant, NEW p \in Pages, NEW field \in Fields,
         request[p].pc = "sent", request[p].field = field,
         request[p].base = LatestRevision(events, field).sequence
  PROVE  LatestRevision(View(p), field) = LatestRevision(events, field)
<1>1. Typed /\ Ordered(events) /\ events \in Seq(Event)
  BY DEF TextInvariant, Typed, LogFits
<1>2. PICK log \in Seq(Event) : log = events /\ Ordered(log)
  BY <1>1
<1>3. PICK m \in Nat : m = seen[p] /\ m <= Len(log)
  BY <1>1, <1>2, RequestTyped
<1>4. PICK n \in Nat : n = Len(log)
  OBVIOUS
<1>5. LatestRevision(log, field) = Cut(log, field, n)
  BY <1>4, CutIsView
<1>6. LatestRevision(View(p), field) = Cut(log, field, m)
  BY <1>1, <1>2, <1>3, RequestTyped
<1>7. PICK a \in Nat : a = Cut(log, field, m).sequence
  BY <1>2, CutsGrow
<1>8. PICK b \in Nat : b = Cut(log, field, n).sequence
  BY <1>2, CutsGrow
<1>9. a <= b
  BY <1>2, <1>3, <1>4, <1>7, <1>8, CutsGrow
<1>10. b <= a
  BY <1>2, <1>3, <1>5, <1>7, <1>8 DEF TextInvariant, FormsFit
<1>11. a = b
  BY <1>9, <1>10
<1>12. Cut(log, field, m) = Cut(log, field, n)
  <2>1. m <= n /\ Ordered(log)
    BY <1>2, <1>3, <1>4
  <2>2. Cut(log, field, m).sequence = Cut(log, field, n).sequence
    BY <1>7, <1>8, <1>11, Zenon
  <2>3. Cut(log, field, m).sequence = Cut(log, field, n).sequence =>
          Cut(log, field, m) = Cut(log, field, n)
    BY <2>1, CutsGrow
  <2> QED BY <2>2, <2>3
<1> QED BY <1>2, <1>5, <1>6, <1>12

(* A revision replaces only what its author's page had been sent: the base  *)
(* of the form is compared under the lock (course_content.rs,               *)
(* correct_transcript and correct_translation; App.tsx, the forms).         *)
THEOREM RevisionsAreOfWhatWasSeen == CourseTextSpec => SeenBeforeReplaced
<1> DEFINE Replaced(field) ==
      LatestRevision(events', field) # LatestRevision(events, field) =>
        \E p \in Pages : /\ request[p].pc = "sent" /\ request'[p].pc # "sent"
                         /\ LatestRevision(View(p), field) = LatestRevision(events, field)
<1>1. ASSUME TextInvariant, [CourseTextNext]_vars, NEW field \in Fields,
             LatestRevision(events', field) # LatestRevision(events, field)
      PROVE  \E p \in Pages : /\ request[p].pc = "sent" /\ request'[p].pc # "sent"
                              /\ LatestRevision(View(p), field) = LatestRevision(events, field)
  <2>1. Typed /\ LogFits /\ events \in Seq(Event) /\ events' # events
    BY <1>1 DEF TextInvariant, Typed
  <2>2. ASSUME NEW e \in Event, events' = Append(events, e)
        PROVE  e.type = RevisionType(field)
    <3>1. PICK log \in Seq(Event) : log = events
      BY <2>1
    <3>2. e.type # RevisionType(field) =>
            LatestRevision(Append(log, e), field) = LatestRevision(log, field)
      BY LatestAppended
    <3> QED BY <1>1, <2>2, <3>1, <3>2
  <2>3. ASSUME NEW p \in Pages, CorrectTranscript(p)
        PROVE  /\ request[p].pc = "sent" /\ request'[p].pc # "sent"
               /\ LatestRevision(View(p), field) = LatestRevision(events, field)
    <3>1. PICK r \in Revisions :
            /\ Entry("transcript.corrected", r, request[p].text, Waiting) \in Event
            /\ events' = Append(events, Entry("transcript.corrected", r, request[p].text, Waiting))
            /\ request[p].base = LatestRevision(events, "source").sequence
            /\ request[p].field = "source" /\ request[p].pc = "sent"
            /\ \E x \in Enqueues : Puts(p, x)
      BY <2>1, <2>3, TranscriptKinds
    <3>2. PICK e \in Event : e.type = "transcript.corrected" /\ events' = Append(events, e)
      BY <3>1 DEF Entry
    <3>3. field = "source"
      BY <2>2, <3>2 DEF RevisionType, Fields
    <3>4. request'[p] \in Enqueues
      BY <2>1, <3>1 DEF Puts, Typed
    <3> QED BY <1>1, <3>1, <3>3, <3>4, BaseWasSeen, RestingMoves
  <2>4. ASSUME NEW p \in Pages, CorrectTranslation(p)
        PROVE  /\ request[p].pc = "sent" /\ request'[p].pc # "sent"
               /\ LatestRevision(View(p), field) = LatestRevision(events, field)
    <3>1. PICK e \in Event :
            /\ e.type = "translation.corrected" /\ events' = Append(events, e)
            /\ request[p].base = LatestRevision(events, "translation").sequence
            /\ request[p].field = "translation" /\ request[p].pc = "sent"
            /\ \E x \in Resting : Puts(p, x)
      BY <2>1, <2>4, TranslationKinds DEF Entry
    <3>2. field = "translation"
      BY <2>2, <3>1 DEF RevisionType, Fields
    <3>3. request'[p] \in Resting
      BY <2>1, <3>1 DEF Puts, Typed
    <3> QED BY <1>1, <3>1, <3>2, <3>3, BaseWasSeen, RestingMoves
  <2>5. ASSUME NEW p \in Pages, Others(p) PROVE FALSE
    BY <2>1, <2>5, OtherKinds
  <2>6. ASSUME NEW r \in Revisions, Translate(r) PROVE FALSE
    <3>1. PICK e \in Event : e.type = "translation.finalized" /\ events' = Append(events, e)
      BY <2>1, <2>6, Translating DEF Entry
    <3> QED BY <2>2, <3>1 DEF RevisionType
  <2>7. UNCHANGED vars \/ Crash \/ (\E r \in Revisions : FailJob(r)) => FALSE
    BY <2>1 DEF vars, Crash, FailJob
  <2> QED BY <1>1, <2>3, <2>4, <2>5, <2>6, <2>7, StepKinds
<1>2. TextInvariant /\ [CourseTextNext]_vars => [\A field \in Fields : Replaced(field)]_vars
  BY <1>1
<1> QED BY <1>2, TextIsInvariant, PTL DEF CourseTextSpec, SeenBeforeReplaced

(* A translation somebody wrote for the current original stays in the note  *)
(* until one of the two is revised (readweave.rs, render_transcript): what  *)
(* the note shows of it is decided by the latest revisions alone.           *)
THEOREM WordingsStand == CourseTextSpec => HumanRevisionStands
<1>1. HumanIsCurrent(events) =>
        \/ NoteShows(events') = NoteShows(events)
        \/ \E field \in Fields :
             LatestRevision(events', field) # LatestRevision(events, field)
  <2> SUFFICES ASSUME HumanIsCurrent(events),
                      \A field \in Fields :
                        LatestRevision(events', field) = LatestRevision(events, field)
               PROVE  NoteShows(events') = NoteShows(events)
    OBVIOUS
  <2>1. /\ LatestRevision(events', "source") = LatestRevision(events, "source")
        /\ LatestRevision(events', "translation") = LatestRevision(events, "translation")
    BY DEF Fields
  <2>2. Original(events') = Original(events)
    BY <2>1 DEF Original, Corrected
  <2>3. HumanIsCurrent(events')
    BY <2>1, <2>2 DEF HumanIsCurrent
  <2> QED BY <2>1, <2>3 DEF NoteShows
<1> QED BY <1>1, PTL DEF HumanRevisionStands

-----------------------------------------------------------------------------
(* Revisions are numbered without gaps: the number of one counts the        *)
(* revisions of its kind up to it.                                          *)
Counted(log) ==
  \A field \in Fields :
    LET I == OfType(log, RevisionType(field))
    IN \A i \in I : log[i].sequence = Cardinality({j \in I : j <= i})

LEMMA LatestCounts ==
  ASSUME NEW log \in Seq(Event), Counted(log), NEW field \in Fields
  PROVE  LatestRevision(log, field).sequence = Cardinality(OfType(log, RevisionType(field)))
<1> DEFINE I == OfType(log, RevisionType(field))
<1>1. I \subseteq DOMAIN log /\ DOMAIN log = 1 .. Len(log) /\ Len(log) \in Nat
  BY DEF OfType
<1>2. \A i \in I : log[i].sequence = Cardinality({j \in I : j <= i})
  BY DEF Counted
<1>3. LatestRevision(log, field) = LatestAt(log, I)
  BY DEF LatestRevision
<1> HIDE DEF I
<1>4. CASE I = {}
  <2>1. LatestAt(log, I).sequence = 0
    BY <1>4, <1>1, LatestFound DEF None
  <2> QED BY <1>3, <1>4, <2>1, FS_EmptySet DEF I
<1>5. CASE I # {}
  <2>1. /\ Max(I) \in I /\ \A i \in I : i <= Max(I)
        /\ LatestAt(log, I).sequence = log[Max(I)].sequence
    BY <1>1, <1>5, LatestFound
  <2>2. {j \in I : j <= Max(I)} = I
    BY <2>1
  <2>3. log[Max(I)].sequence = Cardinality(I)
    BY <1>2, <2>1, <2>2
  <2> QED BY <1>3, <2>1, <2>3 DEF I
<1> QED BY <1>4, <1>5

LEMMA NextIsCounted ==
  ASSUME NEW log \in Seq(Event), Counted(log), NEW e \in Event,
         \A field \in Fields : e.type = RevisionType(field) =>
           e.sequence = LatestRevision(log, field).sequence + 1
  PROVE  Counted(Append(log, e))
<1> SUFFICES ASSUME NEW field \in Fields,
                    NEW i \in OfType(Append(log, e), RevisionType(field))
             PROVE  Append(log, e)[i].sequence =
                      Cardinality({j \in OfType(Append(log, e), RevisionType(field)) : j <= i})
  BY DEF Counted
<1> DEFINE type == RevisionType(field)
           I == OfType(log, type)
           J == OfType(Append(log, e), type)
<1>1. PICK n \in Nat : n = Len(log)
  OBVIOUS
<1>2. /\ I \subseteq 1 .. n
      /\ J = I \cup (IF e.type = type THEN {n + 1} ELSE {})
      /\ \A k \in I : Append(log, e)[k] = log[k]
      /\ Append(log, e)[n + 1] = e
  BY <1>1, Appended
<1>3. \A k \in I : log[k].sequence = Cardinality({j \in I : j <= k})
  BY DEF Counted
<1>4. IsFiniteSet(I)
  <2>1. IsFiniteSet(1 .. n)
    BY <1>1, FS_Interval
  <2>2. I \in SUBSET (1 .. n)
    BY <1>2
  <2> HIDE DEF I
  <2> QED BY <2>1, <2>2, FS_Subset
<1>5. i \in J
  OBVIOUS
<1>6. e.type = type => e.sequence = Cardinality(I) + 1
  BY LatestCounts
<1> HIDE DEF I, J, type
<1>7. CASE i \in I
  <2>1. {j \in J : j <= i} = {j \in I : j <= i}
    BY <1>2, <1>7
  <2> QED BY <1>2, <1>3, <1>7, <2>1 DEF J, type
<1>8. CASE i \notin I
  <2>1. i = n + 1 /\ e.type = type /\ J = I \cup {i}
    BY <1>2, <1>5, <1>8
  <2>2. {j \in J : j <= i} = J
    <3>1. n + 1 <= n + 1 /\ \A k \in 1 .. n : k <= n + 1
      OBVIOUS
    <3>2. \A j \in J : j <= i
      BY <1>2, <2>1, <3>1
    <3> QED BY <3>2
  <2>3. Cardinality(J) = Cardinality(I) + 1
    BY <1>4, <1>8, <2>1, FS_AddElement
  <2> QED BY <1>2, <1>6, <2>1, <2>2, <2>3 DEF J, type
<1> QED BY <1>7, <1>8

LEMMA CountedStep == TextInvariant /\ Counted(events) /\ [CourseTextNext]_vars => Counted(events)'
<1> SUFFICES ASSUME TextInvariant, Counted(events), [CourseTextNext]_vars
             PROVE  Counted(events')
  OBVIOUS
<1>1. Typed /\ LogFits /\ events \in Seq(Event)
  BY DEF TextInvariant, Typed
<1>2. /\ RevisionType("source") = "transcript.corrected"
      /\ RevisionType("translation") = "translation.corrected"
  BY DEF RevisionType
<1>3. CASE events' = events
  BY <1>3
<1>4. ASSUME NEW p \in Pages, CorrectTranscript(p), events' # events
      PROVE  Counted(events')
  <2>1. PICK e \in Event :
          /\ e.type = "transcript.corrected" /\ events' = Append(events, e)
          /\ e.sequence = LatestRevision(events, "source").sequence + 1
    BY <1>1, <1>4, TranscriptKinds DEF Entry
  <2>2. ASSUME NEW field \in Fields, e.type = RevisionType(field)
        PROVE  e.sequence = LatestRevision(events, field).sequence + 1
    BY <1>2, <2>1, <2>2 DEF Fields
  <2> QED BY <1>1, <2>1, <2>2, NextIsCounted
<1>5. ASSUME NEW p \in Pages, CorrectTranslation(p), events' # events
      PROVE  Counted(events')
  <2>1. PICK e \in Event :
          /\ e.type = "translation.corrected" /\ events' = Append(events, e)
          /\ e.sequence = LatestRevision(events, "translation").sequence + 1
    BY <1>1, <1>5, TranslationKinds DEF Entry
  <2>2. ASSUME NEW field \in Fields, e.type = RevisionType(field)
        PROVE  e.sequence = LatestRevision(events, field).sequence + 1
    BY <1>2, <2>1, <2>2 DEF Fields
  <2> QED BY <1>1, <2>1, <2>2, NextIsCounted
<1>6. ASSUME NEW r \in Revisions, Translate(r)
      PROVE  Counted(events')
  <2>1. PICK e \in Event : e.type = "translation.finalized" /\ events' = Append(events, e)
    BY <1>1, <1>6, Translating DEF Entry
  <2>2. ASSUME NEW field \in Fields PROVE e.type # RevisionType(field)
    BY <1>2, <2>1 DEF Fields
  <2> QED BY <1>1, <2>1, <2>2, NextIsCounted
<1>7. ASSUME NEW p \in Pages, Others(p) PROVE events' = events
  BY <1>1, <1>7, OtherKinds
<1>8. UNCHANGED vars \/ Crash \/ (\E r \in Revisions : FailJob(r)) => events' = events
  BY DEF vars, Crash, FailJob
<1> QED BY <1>3, <1>4, <1>5, <1>6, <1>7, <1>8, StepKinds

(* The jobs and pages keep their types, and the revisions of the original   *)
(* and of the translation are numbered from 1 without gaps in the order of  *)
(* the log, however many pages revise (course_content.rs, the next          *)
(* revision).                                                               *)
THEOREM TextTypeCorrect == CourseTextSpec => []CourseTextTypeOK
<1>1. CourseTextInit => Counted(events)
  <2> SUFFICES ASSUME CourseTextInit PROVE Counted(events)
    OBVIOUS
  <2>1. \A type : OfType(events, type) = {}
    BY DEF CourseTextInit, OfType
  <2> QED BY <2>1 DEF Counted
<1>2. TextInvariant /\ Counted(events) => CourseTextTypeOK
  <2> SUFFICES ASSUME TextInvariant, Counted(events) PROVE CourseTextTypeOK
    OBVIOUS
  <2>1. jobs \in [Revisions -> {"none", "queued", "completed", "failed"}]
    BY DEF TextInvariant, Typed
  <2>2. ASSUME NEW p \in Pages PROVE seen[p] \in 0 .. Len(events)
    <3>1. events \in Seq(Event) /\ seen[p] \in Nat /\ seen[p] <= Len(events)
      BY DEF TextInvariant, Typed
    <3> QED BY <3>1
  <2> QED BY <2>1, <2>2 DEF Counted, CourseTextTypeOK
<1> QED BY <1>1, <1>2, CountedStep, TextIsInvariant, PTL DEF CourseTextSpec
=============================================================================
