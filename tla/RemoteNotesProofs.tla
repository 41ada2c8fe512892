------------------------ MODULE RemoteNotesProofs ------------------------
(* The projection of one object keeps its note, makes one note, and leaves *)
(* none behind when the object is purged: for any parents, titles, moves,  *)
(* faults and changes in ReadWeave.                                        *)
EXTENDS RemoteNotes, FiniteSetTheorems, TLAPS

PlacesOrNone == Parents \cup {None}
TitlesOrNone == Titles \cup {None}
Creating == {"searching", "creating", "mapping"}
Updating == {"titling", "branching", "attaching", "detaching", "remapping"}
WorkerPoints == {"idle", "detailing"} \cup Creating \cup Updating
PurgePoints == {"idle", "finding", "deleting", "erasing"}

(* The values of every variable the safety of the note depends on.         *)
ValuesTyped ==
  /\ wanted \in [parent : Parents, title : Titles]
  /\ live \in BOOLEAN
  /\ notes \in [NoteIds -> [title : TitlesOrNone, parents : SUBSET Parents,
                            owned : BOOLEAN]]
  /\ made \in 0 .. MaxNotes
  /\ mapping \in [note : 0 .. MaxNotes, parent : PlacesOrNone]
  /\ branch \in PlacesOrNone
  /\ worker \in [at : WorkerPoints, parent : PlacesOrNone, title : TitlesOrNone,
                 row : [note : 0 .. MaxNotes, parent : PlacesOrNone],
                 branch : PlacesOrNone]
  /\ purge \in [at : PurgePoints, note : 0 .. MaxNotes, branch : PlacesOrNone]
  /\ tampers \in Nat
  /\ torn \in BOOLEAN /\ strayed \in BOOLEAN /\ begun \in BOOLEAN /\ crossed \in BOOLEAN

(* A row of the details refers to a row of the map, a mapped note has a    *)
(* parent, every id in use has been given out, and only a live object is   *)
(* being purged.                                                           *)
RowsFit ==
  /\ branch # None => mapping.note # 0
  /\ mapping.parent = None <=> mapping.note = 0
  /\ mapping.note \in 0 .. made /\ worker.row.note \in 0 .. made
  /\ \A n \in NoteIds : Present(n) => n \in 1 .. made
  /\ purge.at # "idle" => live

(* What the worker remembers while it is at the object.                    *)
WorkerFits ==
  /\ worker.at # "idle" => worker.parent \in Parents /\ worker.title \in Titles
  /\ worker.at \in Creating => mapping.note = 0 /\ worker.row.parent = None
  /\ worker.at \in {"searching", "creating"} => worker.row.note = 0
  /\ worker.at \in {"mapping", "detailing"} \cup Updating => worker.row.note # 0
  /\ worker.at \in Updating => worker.row.parent \in Parents

Typed == ValuesTyped /\ RowsFit /\ WorkerFits

(* Before any purge nothing is removed but the old branch of a note that   *)
(* already hangs under the new parent.                                     *)
NotesKept ==
  ~begun =>
    /\ live /\ purge.at = "idle"
    /\ tampers = 0 =>
         /\ \A n \in 1 .. made : notes[n].parents # {}
         /\ worker.at = "detaching" => worker.parent \in notes[worker.row.note].parents

(* A note that is not mapped yet is found by the search of the next        *)
(* attempt, and nobody creates a note beside another.                      *)
Empty == \A n \in NoteIds : ~Present(n)
Findable(n) == notes[n] = [title |-> wanted.title, parents |-> {wanted.parent}, owned |-> TRUE]
FoundAgain ==
  (~strayed /\ tampers = 0) =>
    /\ \A m, n \in NoteIds : Present(m) /\ Present(n) => m = n
    /\ worker.at \in Creating =>
         worker.parent = wanted.parent /\ worker.title = wanted.title
    /\ live /\ mapping.note = 0 => worker.at \in Creating \cup {"idle"}
    /\ (mapping.note = 0 /\ (live \/ worker.at \in Creating)) =>
         \A n \in NoteIds : Present(n) => Findable(n)
    /\ worker.at = "creating" => Empty
    /\ worker.at = "mapping" => \A n \in NoteIds : Present(n) => n = worker.row.note

(* Where the note hangs while the object is mapped, at every point of the  *)
(* worker, and what the purge knows of it.                                 *)
Hangs(ps) ==
  \A n \in NoteIds :
    Present(n) => n = mapping.note /\ notes[n].parents = ps /\ notes[n].owned
Undisturbed == ~crossed /\ ~torn /\ ~strayed /\ tampers = 0

PlacedAt ==
  /\ branch \in {None, mapping.parent}
  /\ worker.at \in {"idle", "titling", "branching", "attaching"} => Hangs({mapping.parent})
  /\ worker.at = "detaching" => Hangs({mapping.parent, worker.parent})
  /\ worker.at = "remapping" => Hangs({worker.parent})
  /\ worker.at \in Updating => worker.row = mapping
  /\ worker.at \in {"branching", "attaching", "detaching"} =>
       worker.branch \in {None, mapping.parent}
  /\ worker.at \in {"attaching", "detaching"} => mapping.parent # worker.parent

Recorded ==
  /\ Hangs({worker.parent})
  /\ mapping = [note |-> worker.row.note, parent |-> worker.parent]
  /\ worker.row.parent = None => branch \in {None, worker.parent}

PurgeKnows ==
  /\ worker.at = "idle"
  /\ purge.at \in {"finding", "deleting"} =>
       purge.note = mapping.note /\ purge.branch = mapping.parent /\ mapping.note # 0
  /\ purge.at = "erasing" => Empty

Traced ==
  Undisturbed =>
    /\ mapping.note # 0 /\ worker.at # "detailing" => PlacedAt
    /\ mapping.note # 0 /\ worker.at = "detailing" => Recorded
    /\ purge.at # "idle" => PurgeKnows
    /\ ~live => worker.at = "idle" /\ Empty

NoteInvariant == Typed /\ NotesKept /\ FoundAgain /\ Traced

NoteType == [title : TitlesOrNone, parents : SUBSET Parents, owned : BOOLEAN]
WorkerType ==
  [at : WorkerPoints, parent : PlacesOrNone, title : TitlesOrNone,
   row : [note : 0 .. MaxNotes, parent : PlacesOrNone], branch : PlacesOrNone]
PurgeType == [at : PurgePoints, note : 0 .. MaxNotes, branch : PlacesOrNone]

LEMMA BoundsAreNumbers ==
  MaxNotes \in Nat /\ MaxTampers \in Nat /\ None \notin Parents /\ None \notin Titles
  BY RemoteNotesAssumption

LEMMA RestingTyped ==
  /\ Resting \in WorkerType /\ NoPurge \in PurgeType /\ Gone \in NoteType
  /\ NoRow \in [note : 0 .. MaxNotes, parent : PlacesOrNone]
  BY BoundsAreNumbers
  DEF Resting, WorkerType, WorkerPoints, PlacesOrNone, TitlesOrNone, NoRow, NoPurge,
      PurgeType, PurgePoints, Gone, NoteType

(* Taking a branch away changes one note by one parent; a note that is     *)
(* left has its title and its marker.                                      *)
Loses(after, n, p) ==
  /\ after \in [NoteIds -> NoteType]
  /\ \A m \in NoteIds : m # n => after[m] = notes[m]
  /\ n \in NoteIds => after[n].parents = notes[n].parents \ {p}
  /\ \A m \in NoteIds : after[m].parents # {} =>
       after[m].title = notes[m].title /\ after[m].owned = notes[m].owned

LEMMA BranchTakenAway ==
  ASSUME notes \in [NoteIds -> NoteType], NEW n, NEW p
  PROVE  Loses(WithoutBranch(n, p), n, p)
<1>1. CASE ~HangsUnder(n, p)
  <2>1. n \in NoteIds => p \notin notes[n].parents
    BY <1>1 DEF HangsUnder, Present
  <2> QED BY <1>1, <2>1 DEF WithoutBranch, Loses, NoteType
<1>2. CASE HangsUnder(n, p)
  <2>0. n \in NoteIds /\ p \in notes[n].parents /\ notes[n] \in NoteType
    BY <1>2 DEF HangsUnder, Present
  <2>1. CASE notes[n].parents = {p}
    <3>1. WithoutBranch(n, p) = [notes EXCEPT ![n] = Gone]
      BY <1>2, <2>1 DEF WithoutBranch
    <3>2. Gone \in NoteType /\ Gone.parents = {}
      BY RestingTyped DEF Gone
    <3> QED BY <2>0, <2>1, <3>1, <3>2 DEF Loses
  <2>2. CASE notes[n].parents # {p}
    <3>1. WithoutBranch(n, p) = [notes EXCEPT ![n].parents = @ \ {p}]
      BY <1>2, <2>2 DEF WithoutBranch
    <3> QED BY <2>0, <3>1 DEF NoteType, Loses
  <2> QED BY <2>1, <2>2
<1> QED BY <1>1, <1>2

-----------------------------------------------------------------------------
LEMMA TypedForms ==
  ASSUME ValuesTyped
  PROVE  /\ notes \in [NoteIds -> NoteType] /\ worker \in WorkerType /\ purge \in PurgeType
  BY DEF ValuesTyped, NoteType, WorkerType, PurgeType

LEMMA InitTyped == RemoteNotesInit => Typed
<1> SUFFICES ASSUME RemoteNotesInit PROVE Typed
  OBVIOUS
<1>1. \A n \in NoteIds : notes[n] = Gone /\ ~Present(n)
  BY DEF RemoteNotesInit, Present, Gone
<1>2. ValuesTyped
  <2>1. notes \in [NoteIds -> NoteType] /\ worker \in WorkerType /\ purge \in PurgeType
        /\ mapping \in [note : 0 .. MaxNotes, parent : PlacesOrNone]
    BY RestingTyped DEF RemoteNotesInit
  <2>2. branch \in PlacesOrNone /\ made \in 0 .. MaxNotes /\ tampers \in Nat
    BY BoundsAreNumbers DEF RemoteNotesInit, PlacesOrNone
  <2> QED BY <2>1, <2>2 DEF RemoteNotesInit, ValuesTyped, NoteType, WorkerType, PurgeType
<1>3. RowsFit /\ WorkerFits
  BY <1>1, BoundsAreNumbers
  DEF RemoteNotesInit, RowsFit, WorkerFits, Resting, NoRow, Creating, Updating
<1> QED BY <1>2, <1>3 DEF Typed

LEMMA UserTyped ==
  ASSUME Typed,
         \/ \E p \in Parents : Move(p)
         \/ \E t \in Titles : Rename(t)
         \/ \E n \in NoteIds : DeleteRemote(n) \/ StripOwnership(n)
  PROVE  Typed'
<1> USE BoundsAreNumbers, TypedForms DEF Typed
<1>1. ASSUME NEW w \in [parent : Parents, title : Titles], Change(w)
      PROVE  Typed'
  BY <1>1 DEF Change, ValuesTyped, RowsFit, WorkerFits, Present, remote, rows
<1>2. ASSUME NEW n \in NoteIds, NEW note \in NoteType, Tamper(n, note)
      PROVE  Typed'
  <2>1. notes' \in [NoteIds -> NoteType] /\ \A m \in NoteIds : Present(m)' => Present(m)
    BY <1>2 DEF Tamper, Present
  <2>2. ValuesTyped'
    BY <1>2, <2>1 DEF Tamper, ValuesTyped, NoteType, local, rows
  <2>3. RowsFit' /\ WorkerFits'
    BY <1>2, <2>1 DEF Tamper, RowsFit, WorkerFits, local, rows
  <2> QED BY <2>2, <2>3
<1>3. ASSUME NEW p \in Parents, Move(p) PROVE Typed'
  <2>1. [wanted EXCEPT !.parent = p] \in [parent : Parents, title : Titles]
    BY DEF ValuesTyped
  <2> QED BY <1>1, <1>3, <2>1 DEF Move
<1>4. ASSUME NEW t \in Titles, Rename(t) PROVE Typed'
  <2>1. [wanted EXCEPT !.title = t] \in [parent : Parents, title : Titles]
    BY DEF ValuesTyped
  <2> QED BY <1>1, <1>4, <2>1 DEF Rename
<1>5. ASSUME NEW n \in NoteIds, DeleteRemote(n) PROVE Typed'
  BY <1>2, <1>5, RestingTyped DEF DeleteRemote
<1>6. ASSUME NEW n \in NoteIds, StripOwnership(n) PROVE Typed'
  <2>1. [notes[n] EXCEPT !.owned = FALSE] \in NoteType
    BY DEF NoteType
  <2> QED BY <1>2, <1>6, <2>1 DEF StripOwnership
<1> QED BY <1>3, <1>4, <1>5, <1>6

LEMMA WorkTyped ==
  ASSUME Typed, Work
  PROVE  Typed'
<1> USE BoundsAreNumbers, TypedForms
    DEF Typed, ValuesTyped, RowsFit, WorkerFits, Attempt, GoTo, local, history, remote, rows,
        NoteType, WorkerType, WorkerPoints, Creating, Updating, PlacesOrNone, TitlesOrNone
<1>0. Resting \in WorkerType /\ Resting.at = "idle" /\ Resting.row.note = 0
  BY RestingTyped DEF Resting, NoRow
<1>1. CASE Begin
  <2>1. worker' = [at |-> IF mapping.note = 0 THEN "searching" ELSE "titling",
                   parent |-> wanted.parent, title |-> wanted.title, row |-> mapping,
                   branch |-> None]
    BY <1>1 DEF Begin, Resting
  <2>2. worker' \in WorkerType
    BY <2>1
  <2>3. ValuesTyped'
    BY <1>1, <2>2 DEF Begin
  <2> QED BY <1>1, <2>1, <2>3 DEF Begin, Present
<1>2. CASE Search
  <2>1. \A n \in Created(worker.parent, worker.title) : n \in NoteIds /\ Present(n) /\ n # 0
    BY DEF Created, HangsUnder, NoteIds
  <2>0. /\ worker.at = "searching" /\ crossed' \in BOOLEAN
        /\ UNCHANGED <<wanted, live, notes, made, mapping, branch, purge, tampers, torn,
                       strayed, begun>>
    BY <1>2 DEF Search
  <2>2. CASE worker' = [worker EXCEPT !.at = "creating"]
    BY <2>0, <2>2 DEF Present
  <2>3. CASE worker' = Resting
    BY <1>0, <2>0, <2>3 DEF Present
  <2>4. ASSUME NEW n \in Created(worker.parent, worker.title),
               worker' = [worker EXCEPT !.at = "mapping", !.row.note = n]
        PROVE  Typed'
    <3>1. n \in 1 .. made /\ n \in NoteIds
      BY <2>1
    <3>2. worker' = [at |-> "mapping", parent |-> worker.parent, title |-> worker.title,
                     row |-> [note |-> n, parent |-> worker.row.parent],
                     branch |-> worker.branch]
      BY <2>4
    <3>3. worker' \in WorkerType
      BY <3>1, <3>2 DEF NoteIds
    <3>4. ValuesTyped'
      BY <2>0, <3>3
    <3> QED BY <2>0, <3>1, <3>2, <3>4 DEF Present
  <2> QED BY <1>2, <2>2, <2>3, <2>4 DEF Search
<1>3. CASE Create
  <2>1. made + 1 \in NoteIds /\ made' = made + 1
    BY <1>3 DEF Create, NoteIds
  <2>2. worker' = [at |-> "mapping", parent |-> worker.parent, title |-> worker.title,
                   row |-> [note |-> made + 1, parent |-> worker.row.parent],
                   branch |-> worker.branch]
    BY <1>3 DEF Create
  <2>3. [title |-> worker.title, parents |-> {worker.parent}, owned |-> TRUE] \in NoteType
    BY <1>3 DEF Create
  <2>4. notes' \in [NoteIds -> NoteType]
        /\ \A n \in NoteIds : n # made + 1 => notes'[n] = notes[n]
    BY <1>3, <2>1, <2>3 DEF Create
  <2>5. ValuesTyped'
    BY <1>3, <2>1, <2>2, <2>4 DEF Create, NoteIds
  <2>6. \A n \in NoteIds : Present(n)' => n \in 1 .. made'
    BY <2>1, <2>4 DEF Present, NoteIds
  <2> QED BY <1>3, <2>1, <2>2, <2>5, <2>6 DEF Create
<1>4. CASE Map
  BY <1>0, <1>4 DEF Map, Present
<1>5. CASE Detail
  BY <1>0, <1>5 DEF Detail, Present
<1>6. CASE PatchTitle
  <2>1. CASE ~Present(worker.row.note)
    BY <1>0, <1>6, <2>1 DEF PatchTitle, Present
  <2>2. CASE Present(worker.row.note)
    <3>1. /\ notes' = [notes EXCEPT ![worker.row.note].title = worker.title]
          /\ worker' = [worker EXCEPT !.at = "branching", !.branch = branch]
      BY <1>6, <2>2 DEF PatchTitle
    <3>2. /\ notes' \in [NoteIds -> NoteType]
          /\ \A n \in NoteIds : notes'[n].parents = notes[n].parents
      BY <1>6, <2>2, <3>1 DEF PatchTitle, Present
    <3>3. ValuesTyped'
      BY <1>6, <3>1, <3>2 DEF PatchTitle
    <3> QED BY <1>6, <3>1, <3>2, <3>3 DEF PatchTitle, Present
  <2> QED BY <2>1, <2>2
<1>7. CASE SameParent
  BY <1>0, <1>7 DEF SameParent, Present
<1>8. CASE FindBranch
  BY <1>0, <1>8 DEF FindBranch, Present
<1>9. CASE Attach
  <2>1. CASE ~Present(worker.row.note)
    BY <1>0, <1>9, <2>1 DEF Attach, Present
  <2>2. CASE Present(worker.row.note)
    <3>1. /\ notes' = [notes EXCEPT ![worker.row.note].parents = @ \cup {worker.parent}]
          /\ worker' = [worker EXCEPT !.at = "detaching"]
      BY <1>9, <2>2 DEF Attach
    <3>2. worker.parent \in Parents /\ worker' \in WorkerType
      BY <1>9, <3>1 DEF Attach
    <3>3. [notes[worker.row.note] EXCEPT !.parents = @ \cup {worker.parent}] \in NoteType
      BY <2>2, <3>2 DEF Present
    <3>4. /\ notes' \in [NoteIds -> NoteType]
          /\ \A n \in NoteIds : n # worker.row.note => notes'[n] = notes[n]
      BY <3>1, <3>3
    <3>5. ValuesTyped'
      BY <1>9, <3>2, <3>4 DEF Attach
    <3>6. \A n \in NoteIds : Present(n)' => Present(n)
      BY <2>2, <3>4 DEF Present
    <3>7. /\ UNCHANGED <<branch, mapping, made, purge, live>>
          /\ worker'.row = worker.row /\ worker'.parent = worker.parent
          /\ worker'.title = worker.title /\ worker'.at = "detaching"
          /\ worker.at = "attaching"
      BY <1>9, <3>1 DEF Attach
    <3>8. RowsFit'
      BY <3>6, <3>7
    <3>9. WorkerFits'
      BY <3>7
    <3> QED BY <3>5, <3>8, <3>9
  <2> QED BY <2>1, <2>2
<1>10. CASE Detach
  <2>1. Loses(WithoutBranch(worker.row.note, OldBranch), worker.row.note, OldBranch)
    BY BranchTakenAway
  <2>2. /\ notes' = notes \/ notes' = WithoutBranch(worker.row.note, OldBranch)
        /\ worker' = [worker EXCEPT !.at = "remapping"] \/ worker' = Resting
        /\ UNCHANGED <<wanted, live, made, mapping, branch, purge, tampers, torn, strayed,
                       begun>>
        /\ worker.at = "detaching" /\ crossed' \in BOOLEAN
    BY <1>10 DEF Detach
  <2>3. /\ notes' \in [NoteIds -> NoteType]
        /\ \A n \in NoteIds : Present(n)' => Present(n)
    BY <2>1, <2>2 DEF Loses, Present
  <2>4. CASE worker' = Resting
    BY <1>0, <2>2, <2>3, <2>4
  <2>5. CASE worker' = [worker EXCEPT !.at = "remapping"]
    <3>1. worker' \in WorkerType
      BY <2>5
    <3>2. /\ worker'.row = worker.row /\ worker'.parent = worker.parent
          /\ worker'.title = worker.title /\ worker'.at = "remapping"
      BY <2>5
    <3>3. ValuesTyped'
      BY <2>2, <2>3, <3>1
    <3>4. RowsFit'
      BY <2>2, <2>3, <3>2
    <3>5. WorkerFits'
      BY <2>2, <3>2
    <3> QED BY <3>3, <3>4, <3>5
  <2> QED BY <2>2, <2>4, <2>5
<1>11. CASE Remap
  BY <1>0, <1>11 DEF Remap, Present
<1> QED BY <1>1, <1>2, <1>3, <1>4, <1>5, <1>6, <1>7, <1>8, <1>9, <1>10, <1>11 DEF Work

LEMMA OthersTyped ==
  ASSUME Typed, Trigger \/ Interrupt \/ Purge \/ InterruptPurge \/ UNCHANGED vars
  PROVE  Typed'
<1> USE BoundsAreNumbers, TypedForms
    DEF Typed, ValuesTyped, RowsFit, WorkerFits, Purging, Begun, local, history, remote, rows,
        NoteType, PurgeType, PurgePoints, PlacesOrNone, TitlesOrNone
<1>0. /\ Resting \in WorkerType /\ Resting.at = "idle" /\ Resting.row.note = 0
      /\ NoPurge \in PurgeType /\ NoPurge.at = "idle" /\ NoRow.note = 0 /\ NoRow.parent = None
  BY RestingTyped DEF Resting, NoRow, NoPurge
<1>1. CASE Interrupt
  BY <1>0, <1>1 DEF Interrupt, Present, WorkerType, Creating, Updating
<1>2. CASE BeginPurge
  BY <1>0, <1>2 DEF BeginPurge, Present, NoPurge
<1>3. CASE FindBranchToPurge
  BY <1>0, <1>3 DEF FindBranchToPurge, Present
<1>4. CASE DeleteForPurge
  <2>1. Loses(WithoutBranch(purge.note, purge.branch), purge.note, purge.branch)
    BY BranchTakenAway
  <2> QED BY <1>0, <1>4, <2>1 DEF DeleteForPurge, Present, Loses
<1>5. CASE Erase
  <2>1. /\ mapping' = NoRow /\ branch' = None /\ purge' = NoPurge /\ live' = FALSE
        /\ UNCHANGED <<wanted, notes, made, worker, tampers, torn, strayed, begun, crossed>>
    BY <1>5 DEF Erase
  <2>2. NoRow \in [note : 0 .. MaxNotes, parent : PlacesOrNone]
    BY RestingTyped
  <2>3. ValuesTyped'
    BY <1>0, <2>1, <2>2
  <2> QED BY <1>0, <2>1, <2>3 DEF Present
<1>6. CASE InterruptPurge
  BY <1>0, <1>6 DEF InterruptPurge, Present
<1>7. CASE UNCHANGED vars
  BY <1>7 DEF vars, Present
<1>8. CASE Trigger
  BY <1>8 DEF Trigger, Present
<1> QED BY <1>1, <1>2, <1>3, <1>4, <1>5, <1>6, <1>7, <1>8 DEF Purge

LEMMA TypedKept ==
  ASSUME Typed, [RemoteNotesNext]_vars
  PROVE  Typed'
  BY UserTyped, WorkTyped, OthersTyped DEF RemoteNotesNext

-----------------------------------------------------------------------------
LEMMA AWrittenWorker ==
  ASSUME worker \in WorkerType, NEW x, GoTo(x)
  PROVE  worker'.at = x /\ worker'.parent = worker.parent /\ worker'.title = worker.title
         /\ worker'.row = worker.row /\ worker'.branch = worker.branch
  BY DEF GoTo, WorkerType

LEMMA APatchedTitle ==
  ASSUME worker \in WorkerType, notes \in [NoteIds -> NoteType], PatchTitle
  PROVE  /\ worker.at = "titling"
         /\ UNCHANGED <<made, mapping, branch>>
         /\ \A n \in NoteIds : /\ notes'[n].parents = notes[n].parents
                               /\ notes'[n].owned = notes[n].owned
         /\ \/ worker' = Resting
            \/ /\ worker'.at = "branching" /\ worker'.parent = worker.parent
               /\ worker'.row = worker.row /\ worker'.branch = branch
<1>1. worker.at = "titling" /\ UNCHANGED <<made, mapping, branch>>
  BY DEF PatchTitle, rows
<1>2. CASE ~Present(worker.row.note)
  BY <1>1, <1>2 DEF PatchTitle
<1>3. CASE Present(worker.row.note)
  <2>1. /\ notes' = [notes EXCEPT ![worker.row.note].title = worker.title]
        /\ worker' = [worker EXCEPT !.at = "branching", !.branch = branch]
    BY <1>3 DEF PatchTitle
  <2>2. \A n \in NoteIds : /\ notes'[n].parents = notes[n].parents
                           /\ notes'[n].owned = notes[n].owned
    BY <2>1 DEF NoteType
  <2>3. /\ worker'.at = "branching" /\ worker'.parent = worker.parent
        /\ worker'.row = worker.row /\ worker'.branch = branch
    BY <2>1 DEF WorkerType
  <2> QED BY <1>1, <2>2, <2>3
<1> QED BY <1>2, <1>3

(* A step of the worker is taken before a purge or leaves begun as it is:  *)
(* only the detachment takes a branch away, of a note that has another.    *)
LEMMA NotesKeptByWork ==
  ASSUME Typed, Typed', NotesKept, Work
  PROVE  NotesKept'
<1>1. UNCHANGED <<live, purge, tampers, begun>>
  BY DEF Work, Begin, Search, Create, Map, Detail, PatchTitle, SameParent, FindBranch, Attach,
         Detach, Remap, Attempt, local, history
<1> SUFFICES ASSUME ~begun, tampers = 0
             PROVE  NotesKept'
  BY <1>1 DEF NotesKept
<1>2. /\ notes \in [NoteIds -> NoteType] /\ worker \in WorkerType /\ MaxNotes \in Nat
      /\ made \in 0 .. MaxNotes /\ worker.row.note \in 0 .. made
  BY TypedForms, BoundsAreNumbers DEF Typed, ValuesTyped, RowsFit
<1> DEFINE Kept == /\ \A n \in 1 .. made : notes[n].parents # {}
                   /\ worker.at = "detaching" => worker.parent \in notes[worker.row.note].parents
<1>3. Kept /\ live /\ purge.at = "idle"
  BY DEF NotesKept
<1>4. SUFFICES Kept'
  BY <1>1, <1>3 DEF NotesKept
<1>5. CASE Begin \/ Search \/ Map \/ Detail \/ SameParent \/ Remap
  <2>1. UNCHANGED <<notes, made>>
    BY <1>5 DEF Begin, Search, Map, Detail, SameParent, Remap, remote
  <2>2. Resting.at = "idle" /\ \A x : GoTo(x) => worker'.at = x
    BY <1>2 DEF Resting, GoTo, WorkerType
  <2>3. Begin => worker'.at # "detaching"
    BY DEF Begin, Resting
  <2>4. Search => worker'.at # "detaching"
    BY <1>2, <2>2 DEF Search, WorkerType
  <2>5. Map \/ Detail \/ SameParent \/ Remap => worker'.at # "detaching"
    BY <2>2 DEF Map, Detail, SameParent, Remap
  <2>6. worker'.at # "detaching"
    BY <1>5, <2>3, <2>4, <2>5
  <2> QED BY <1>3, <2>1, <2>6
<1>6. CASE Create
  <2>1. made' = made + 1 /\ worker'.at = "mapping" /\ made + 1 \in NoteIds
    BY <1>2, <1>6 DEF Create, WorkerType, NoteIds
  <2>2. \A n \in 1 .. made : notes'[n] = notes[n]
    BY <1>2, <1>6, <2>1 DEF Create, NoteIds
  <2>3. notes'[made + 1].parents = {worker.parent}
    BY <1>2, <1>6, <2>1 DEF Create
  <2>4. \A n \in 1 .. made' : n \in 1 .. made \/ n = made + 1
    BY <1>2, <2>1
  <2> QED BY <1>3, <2>1, <2>2, <2>3, <2>4
<1>7. CASE PatchTitle
  <2>1. /\ \A n \in NoteIds : notes'[n].parents = notes[n].parents
        /\ made' = made /\ worker'.at # "detaching"
    BY <1>2, <1>7, APatchedTitle DEF Resting
  <2> QED BY <1>2, <1>3, <2>1 DEF NoteIds
<1>8. CASE FindBranch
  <2>1. UNCHANGED <<notes, made>> /\ worker.at = "branching"
    BY <1>8 DEF FindBranch, remote
  <2>2. worker'.at = "detaching" =>
          /\ worker'.parent = worker.parent /\ worker'.row = worker.row
          /\ worker.parent \in notes[worker.row.note].parents
    BY <1>2, <1>8 DEF FindBranch, GoTo, HangsUnder, Resting, WorkerType
  <2> QED BY <1>3, <2>1, <2>2
<1>9. CASE Attach
  <2>1. made' = made
    BY <1>9 DEF Attach
  <2>2. \A n \in NoteIds : notes[n].parents \subseteq notes'[n].parents
    BY <1>2, <1>9 DEF Attach, NoteType
  <2>3. worker'.at = "detaching" =>
          /\ worker'.parent = worker.parent /\ worker'.row = worker.row
          /\ worker.parent \in notes'[worker.row.note].parents
    BY <1>2, <1>9 DEF Attach, GoTo, Resting, WorkerType, Present, NoteType
  <2> QED BY <1>2, <1>3, <2>1, <2>2, <2>3 DEF NoteIds
<1>10. CASE Detach
  <2>1. worker.at = "detaching" /\ made' = made /\ worker'.at # "detaching"
    BY <1>2, <1>10 DEF Detach, GoTo, Resting, WorkerType
  <2>2. CASE UNCHANGED notes
    BY <1>3, <2>1, <2>2
  <2>3. CASE OldBranch # worker.parent /\ notes' = WithoutBranch(worker.row.note, OldBranch)
    <3>1. Loses(notes', worker.row.note, OldBranch)
      BY <1>2, <2>3, BranchTakenAway
    <3>2. worker.parent \in notes'[worker.row.note].parents \/ worker.row.note \notin NoteIds
      BY <1>3, <2>1, <2>3, <3>1 DEF Loses
    <3> QED BY <1>2, <1>3, <2>1, <3>1, <3>2 DEF Loses, NoteIds
  <2> QED BY <1>10, <2>2, <2>3 DEF Detach
<1> QED BY <1>5, <1>6, <1>7, <1>8, <1>9, <1>10 DEF Work

LEMMA NotesKeptByOthers ==
  ASSUME Typed, Typed', NotesKept, [RemoteNotesNext]_vars, ~Work
  PROVE  NotesKept'
<1>1. worker \in WorkerType /\ tampers \in Nat
  BY TypedForms DEF Typed, ValuesTyped
<1>2. CASE UNCHANGED vars
  BY <1>2 DEF vars, NotesKept
<1>3. ASSUME NEW w, Change(w)
      PROVE  NotesKept'
  BY <1>3 DEF Change, NotesKept, remote, rows
<1>4. ASSUME NEW n, NEW note, Tamper(n, note)
      PROVE  NotesKept'
  BY <1>1, <1>4 DEF Tamper, NotesKept, local, rows
<1>5. CASE Interrupt
  <2>1. worker'.at = "idle" /\ UNCHANGED <<live, notes, made, purge, tampers, begun>>
    BY <1>5 DEF Interrupt, Resting, local, remote
  <2> QED BY <2>1 DEF NotesKept
<1>6. CASE BeginPurge
  BY <1>6 DEF BeginPurge, Begun, NotesKept
<1>7. CASE FindBranchToPurge \/ DeleteForPurge \/ Erase \/ InterruptPurge
  <2>1. begun /\ begun' = begun
    BY <1>7 DEF FindBranchToPurge, DeleteForPurge, Erase, InterruptPurge, NotesKept
  <2> QED BY <2>1 DEF NotesKept
<1>8. CASE Trigger
  BY <1>8 DEF Trigger, NotesKept, local, remote, rows, history
<1> QED BY <1>2, <1>3, <1>4, <1>5, <1>6, <1>7, <1>8
        DEF RemoteNotesNext, Move, Rename, DeleteRemote, StripOwnership, Purge

-----------------------------------------------------------------------------
(* The search finds what an attempt before it has made, so nobody creates  *)
(* a second note.                                                          *)
LEMMA FoundAgainByWork ==
  ASSUME Typed, Typed', FoundAgain, Work
  PROVE  FoundAgain'
<1>1. UNCHANGED <<wanted, live, tampers, strayed>>
  BY DEF Work, Begin, Search, Create, Map, Detail, PatchTitle, SameParent, FindBranch, Attach,
         Detach, Remap, Attempt, local, history
<1> SUFFICES ASSUME ~strayed, tampers = 0
             PROVE  FoundAgain'
  BY <1>1 DEF FoundAgain
<1>2. /\ notes \in [NoteIds -> NoteType] /\ worker \in WorkerType /\ MaxNotes \in Nat
      /\ mapping \in [note : 0 .. MaxNotes, parent : PlacesOrNone]
      /\ WorkerFits /\ RowsFit /\ WorkerFits' /\ RowsFit'
      /\ Resting.at = "idle" /\ made \in 0 .. MaxNotes
  BY TypedForms, BoundsAreNumbers DEF Typed, ValuesTyped, Resting
<1>3. /\ \A m, n \in NoteIds : Present(m) /\ Present(n) => m = n
      /\ worker.at \in Creating =>
           worker.parent = wanted.parent /\ worker.title = wanted.title
      /\ live /\ mapping.note = 0 => worker.at \in Creating \cup {"idle"}
      /\ (mapping.note = 0 /\ (live \/ worker.at \in Creating)) =>
           \A n \in NoteIds : Present(n) => Findable(n)
      /\ worker.at = "creating" => Empty
      /\ worker.at = "mapping" => \A n \in NoteIds : Present(n) => n = worker.row.note
  BY DEF FoundAgain
<1>4. CASE UNCHANGED notes /\ worker' = Resting /\ UNCHANGED mapping
  BY <1>1, <1>2, <1>3, <1>4 DEF FoundAgain, Creating, Present, Findable
<1>5. CASE Begin
  <2>1. /\ worker.at = "idle" /\ live /\ UNCHANGED <<notes, mapping>>
        /\ worker'.at = IF mapping.note = 0 THEN "searching" ELSE "titling"
        /\ worker'.parent = wanted.parent /\ worker'.title = wanted.title
    BY <1>5 DEF Begin, Resting, remote, rows
  <2> QED BY <1>1, <1>3, <2>1 DEF FoundAgain, Creating, Present, Findable
<1>6. CASE Search
  <2>1. /\ worker.at = "searching" /\ mapping.note = 0 /\ UNCHANGED <<notes, mapping>>
        /\ worker.parent = wanted.parent /\ worker.title = wanted.title
    BY <1>2, <1>3, <1>6 DEF Search, remote, rows, WorkerFits, Creating
  <2>2. \A n \in NoteIds : Present(n) => n \in Created(worker.parent, worker.title)
    BY <1>3, <2>1 DEF Created, HangsUnder, Present, Findable, Creating
  <2>3. CASE Created(worker.parent, worker.title) = {} /\ GoTo("creating")
    <3>1. Empty
      BY <2>2, <2>3 DEF Empty
    <3> QED BY <1>1, <1>2, <1>3, <2>1, <2>3, <3>1, AWrittenWorker
            DEF FoundAgain, Creating, Present, Findable, Empty
  <2>4. ASSUME NEW n \in Created(worker.parent, worker.title),
               worker' = [worker EXCEPT !.at = "mapping", !.row.note = n]
        PROVE  FoundAgain'
    <3>1. /\ worker'.at = "mapping" /\ worker'.parent = worker.parent
          /\ worker'.title = worker.title /\ worker'.row.note = n
      BY <1>2, <2>4 DEF WorkerType
    <3>2. n \in NoteIds /\ Present(n)
      BY DEF Created, HangsUnder
    <3> QED BY <1>1, <1>3, <2>1, <3>1, <3>2 DEF FoundAgain, Creating, Present, Findable
  <2> QED BY <1>4, <1>6, <2>1, <2>3, <2>4 DEF Search
<1>7. CASE Create
  <2>1. /\ worker.at = "creating" /\ mapping.note = 0 /\ mapping' = mapping
        /\ made + 1 \in NoteIds
        /\ worker.parent = wanted.parent /\ worker.title = wanted.title
    BY <1>2, <1>3, <1>7 DEF Create, rows, WorkerFits, Creating, RowsFit, NoteIds
  <2>2. /\ notes'[made + 1] = [title |-> worker.title, parents |-> {worker.parent}, owned |-> TRUE]
        /\ \A n \in NoteIds : n # made + 1 => notes'[n] = notes[n]
    BY <1>2, <1>7, <2>1 DEF Create
  <2>3. /\ worker'.at = "mapping" /\ worker'.parent = worker.parent
        /\ worker'.title = worker.title /\ worker'.row.note = made + 1
    BY <1>2, <1>7 DEF Create, WorkerType
  <2>4. \A n \in NoteIds : Present(n)' => n = made + 1
    BY <1>3, <2>1, <2>2 DEF Present, Empty
  <2>5. \A n \in NoteIds : Present(n)' => Findable(n)'
    BY <1>1, <2>1, <2>2, <2>4 DEF Findable
  <2> QED BY <1>1, <2>1, <2>3, <2>4, <2>5 DEF FoundAgain, Creating
<1>8. CASE Map \/ Detail \/ SameParent \/ FindBranch \/ Remap
  <2>1. UNCHANGED notes /\ worker.at \in {"mapping", "detailing"} \cup Updating
        /\ worker'.at \notin Creating
    BY <1>2, <1>8, AWrittenWorker
    DEF Map, Detail, SameParent, FindBranch, Remap, remote, Updating, Creating
  <2>2. mapping'.note = 0 => mapping.note = 0 /\ worker.at # "mapping"
    BY <1>2, <1>8, <2>1
    DEF Map, Detail, SameParent, FindBranch, Remap, rows, WorkerFits, Updating
  <2> QED BY <1>1, <1>3, <2>1, <2>2 DEF FoundAgain, Creating, Present, Updating, Findable
<1>9. CASE PatchTitle \/ Attach \/ Detach
  <2>1. worker.at \in Updating /\ mapping' = mapping /\ worker'.at \notin Creating
    BY <1>2, <1>9, AWrittenWorker, APatchedTitle
    DEF Attach, Detach, rows, Updating, Creating
  <2>2. \A n \in NoteIds : Present(n)' => Present(n)
    <3>1. CASE PatchTitle
      BY <1>2, <3>1, APatchedTitle DEF Present
    <3>3. CASE Attach
      BY <1>2, <3>3 DEF Attach, Present, NoteType
    <3>2. CASE Detach
      BY <1>2, <3>2, BranchTakenAway DEF Detach, Loses, Present
    <3> QED BY <1>9, <3>1, <3>2, <3>3
  <2> QED BY <1>1, <1>3, <2>1, <2>2 DEF FoundAgain, Creating, Updating
<1> QED BY <1>5, <1>6, <1>7, <1>8, <1>9 DEF Work

LEMMA FoundAgainByOthers ==
  ASSUME Typed, Typed', NotesKept, FoundAgain, [RemoteNotesNext]_vars, ~Work
  PROVE  FoundAgain'
<1>1. /\ notes \in [NoteIds -> NoteType] /\ worker \in WorkerType /\ purge \in PurgeType
      /\ tampers \in Nat /\ RowsFit /\ WorkerFits
  BY TypedForms DEF Typed, ValuesTyped
<1>2. CASE UNCHANGED vars
  BY <1>2 DEF vars, FoundAgain, Present, Findable, Empty
<1>3. ASSUME NEW w, Change(w)
      PROVE  FoundAgain'
  <2>1. CASE strayed'
    BY <2>1 DEF FoundAgain
  <2>2. CASE ~strayed'
    <3>1. /\ ~strayed /\ ~Unmapped
          /\ UNCHANGED <<live, notes, made, mapping, branch, worker, tampers>>
      BY <1>3, <2>2 DEF Change, remote, rows
    <3>2. mapping.note = 0 => worker.at = "idle" /\ \A n \in NoteIds : ~Present(n)
      BY <3>1 DEF Unmapped
    <3>3. worker.at \notin Creating
      BY <1>1, <3>2 DEF WorkerFits, Creating
    <3> QED BY <3>1, <3>2, <3>3 DEF FoundAgain, Present, Creating
  <2> QED BY <2>1, <2>2
<1>4. ASSUME NEW n, NEW note, Tamper(n, note)
      PROVE  FoundAgain'
  BY <1>1, <1>4 DEF Tamper, FoundAgain
<1>5. CASE Interrupt
  <2>1. /\ worker'.at = "idle" /\ UNCHANGED <<wanted, live, notes, mapping, tampers>>
        /\ strayed => strayed'
    BY <1>5 DEF Interrupt, Resting, local, remote, rows
  <2> QED BY <2>1 DEF FoundAgain, Present, Findable, Creating
<1>6. CASE BeginPurge \/ FindBranchToPurge \/ InterruptPurge
  <2>1. /\ UNCHANGED <<wanted, live, notes, mapping, worker, tampers>>
    BY <1>6 DEF BeginPurge, FindBranchToPurge, InterruptPurge, Begun, Purging, rows
  <2>2. strayed => strayed'
    BY <1>6, Zenon DEF BeginPurge, FindBranchToPurge, InterruptPurge, Begun
  <2> QED BY <2>1, <2>2 DEF FoundAgain, Present, Findable, Empty
<1>7. CASE DeleteForPurge
  <2>1. UNCHANGED <<wanted, live, mapping, worker, tampers, strayed>>
    BY <1>7 DEF DeleteForPurge, Purging, rows
  <2>2. UNCHANGED notes \/ Loses(notes', purge.note, purge.branch)
    BY <1>1, <1>7, BranchTakenAway DEF DeleteForPurge
  <2>3. \A n \in NoteIds : Present(n)' => Present(n)
    BY <1>1, <2>2 DEF Loses, Present
  <2>4. \A n \in NoteIds : Present(n)' /\ Findable(n) => Findable(n)'
    <3>1. CASE UNCHANGED notes
      BY <2>1, <3>1 DEF Findable
    <3>2. CASE Loses(notes', purge.note, purge.branch)
      <4> SUFFICES ASSUME NEW n \in NoteIds, Present(n)', Findable(n)
                   PROVE  Findable(n)'
        OBVIOUS
      <4>1. notes'[n].parents = {wanted.parent}
        BY <3>2 DEF Loses, Present, Findable
      <4>2. notes'[n].title = wanted.title /\ notes'[n].owned = TRUE /\ notes'[n] \in NoteType
        BY <3>2 DEF Loses, Present, Findable
      <4> QED BY <2>1, <4>1, <4>2 DEF Findable, NoteType
    <3> QED BY <2>2, <3>1, <3>2
  <2> QED BY <2>1, <2>3, <2>4 DEF FoundAgain, Empty
<1>8. CASE Erase
  <2>1. /\ live' = FALSE /\ mapping'.note = 0 /\ live
        /\ UNCHANGED <<wanted, notes, worker, tampers, strayed>>
    BY <1>1, <1>8 DEF Erase, Purging, NoRow, RowsFit
  <2> QED BY <1>1, <2>1 DEF FoundAgain, Present, Findable, Empty, WorkerFits
<1>9. CASE Trigger
  BY <1>9 DEF Trigger, FoundAgain, Present, Findable, Empty, local, remote, rows, history
<1> QED BY <1>2, <1>3, <1>4, <1>5, <1>6, <1>7, <1>8, <1>9
        DEF RemoteNotesNext, Move, Rename, DeleteRemote, StripOwnership, Purge

-----------------------------------------------------------------------------
(* Undisturbed, the worker and the purge are never at the object at once.  *)
LEMMA WorkIsAlone ==
  ASSUME Typed, Traced, Work, Undisturbed'
  PROVE  /\ Undisturbed /\ purge.at = "idle" /\ live
         /\ UNCHANGED <<wanted, live, purge, tampers>>
<1>1. UNCHANGED <<wanted, live, purge, tampers, torn, strayed>>
      /\ crossed' = (crossed \/ purge.at # "idle")
  BY DEF Work, Begin, Search, Create, Map, Detail, PatchTitle, SameParent, FindBranch, Attach,
         Detach, Remap, Attempt, local, history
<1>2. Undisturbed /\ purge.at = "idle"
  BY <1>1, Zenon DEF Undisturbed
<1>3. worker.at # "idle" \/ live
  BY Zenon DEF Work, Begin, Search, Create, Map, Detail, PatchTitle, SameParent, FindBranch, Attach,
         Detach, Remap
<1>4. ~live => worker.at = "idle"
  BY <1>2 DEF Traced
<1> QED BY <1>1, <1>2, <1>3, <1>4

LEMMA TracedByWork ==
  ASSUME Typed, Typed', FoundAgain, Traced, Work
  PROVE  Traced'
<1> SUFFICES ASSUME Undisturbed'
             PROVE  Traced'
  BY DEF Traced
<1>1. /\ Undisturbed /\ purge.at = "idle" /\ live
      /\ UNCHANGED <<wanted, live, purge, tampers>>
  BY WorkIsAlone
<1>2. /\ notes \in [NoteIds -> NoteType] /\ worker \in WorkerType /\ MaxNotes \in Nat
      /\ mapping \in [note : 0 .. MaxNotes, parent : PlacesOrNone]
      /\ made \in 0 .. MaxNotes
      /\ WorkerFits /\ RowsFit /\ WorkerFits' /\ RowsFit'
      /\ Resting.at = "idle" /\ None \notin Parents
  BY TypedForms, BoundsAreNumbers DEF Typed, ValuesTyped, Resting
<1>3. /\ mapping.note # 0 /\ worker.at # "detailing" => PlacedAt
      /\ mapping.note # 0 /\ worker.at = "detailing" => Recorded
  BY <1>1 DEF Traced
<1>4. SUFFICES /\ mapping'.note # 0 /\ worker'.at # "detailing" => PlacedAt'
               /\ mapping'.note # 0 /\ worker'.at = "detailing" => Recorded'
  BY <1>1 DEF Traced
<1>5. CASE Search \/ Create
  <2>1. mapping' = mapping /\ mapping.note = 0
    BY <1>2, <1>5 DEF Search, Create, rows, WorkerFits, Creating
  <2> QED BY <2>1
<1>6. CASE Begin
  <2>1. /\ UNCHANGED <<notes, mapping, branch>> /\ worker.at = "idle"
        /\ worker'.at = IF mapping.note = 0 THEN "searching" ELSE "titling"
        /\ worker'.row = mapping
    BY <1>6 DEF Begin, Resting, remote, rows
  <2> QED BY <1>3, <2>1 DEF PlacedAt, Hangs, Present, Updating
<1>7. CASE Map
  <2>1. /\ worker.at = "mapping" /\ UNCHANGED <<notes, branch>>
        /\ mapping' = [note |-> worker.row.note, parent |-> worker.parent]
        /\ worker'.at = "detailing" /\ worker'.parent = worker.parent /\ worker'.row = worker.row
    BY <1>2, <1>7, AWrittenWorker DEF Map, remote
  <2>2. /\ mapping.note = 0 /\ worker.row.parent = None /\ branch = None
        /\ worker.parent = wanted.parent
        /\ \A n \in NoteIds : Present(n) =>
             n = worker.row.note /\ notes[n].parents = {wanted.parent} /\ notes[n].owned
    BY <1>1, <1>2, <2>1 DEF FoundAgain, Undisturbed, WorkerFits, RowsFit, Creating, Findable
  <2> QED BY <2>1, <2>2 DEF Recorded, Hangs, Present
<1>8. CASE Detail
  <2>1. /\ worker.at = "detailing" /\ UNCHANGED <<notes, mapping>> /\ worker'.at = "idle"
        /\ branch' = IF mapping.note = 0 THEN branch ELSE worker.parent
    BY <1>2, <1>8 DEF Detail, remote
  <2> QED BY <1>3, <2>1 DEF Recorded, PlacedAt, Hangs, Present, Updating
<1>9. CASE PatchTitle
  <2>1. /\ worker.at = "titling" /\ UNCHANGED <<mapping, branch>>
        /\ \A n \in NoteIds : /\ notes'[n].parents = notes[n].parents
                              /\ notes'[n].owned = notes[n].owned
    BY <1>2, <1>9, APatchedTitle
  <2>2. CASE worker'.at = "idle"
    BY <1>3, <2>1, <2>2 DEF PlacedAt, Hangs, Present, Updating
  <2>3. CASE /\ worker'.at = "branching" /\ worker'.parent = worker.parent
             /\ worker'.row = worker.row /\ worker'.branch = branch
    BY <1>3, <2>1, <2>3 DEF PlacedAt, Hangs, Present, Updating
  <2> QED BY <1>2, <1>9, <2>2, <2>3, APatchedTitle
<1>10. CASE SameParent
  <2>1. /\ worker.at = "branching" /\ UNCHANGED <<notes, mapping>> /\ worker'.at = "idle"
        /\ worker.row.parent = worker.parent /\ branch' \in {branch, worker.parent}
    BY <1>2, <1>10 DEF SameParent, remote
  <2> QED BY <1>3, <2>1 DEF PlacedAt, Hangs, Present, Updating
<1>11. CASE FindBranch
  <2>1. /\ worker.at = "branching" /\ UNCHANGED <<notes, mapping, branch>>
        /\ worker.row.parent # worker.parent
    BY <1>11 DEF FindBranch, remote, rows
  <2>2. CASE worker'.at = "idle"
    BY <1>3, <2>1, <2>2 DEF PlacedAt, Hangs, Present, Updating
  <2>3. CASE GoTo("attaching")
    BY <1>2, <1>3, <2>1, <2>3, AWrittenWorker DEF PlacedAt, Hangs, Present, Updating
  <2>4. CASE HangsUnder(worker.row.note, worker.parent)
    <3>1. mapping.note = 0
      BY <1>3, <2>1, <2>4 DEF PlacedAt, Hangs, HangsUnder, Present, Updating
    <3> QED BY <2>1, <3>1
  <2> QED BY <1>2, <1>11, <2>2, <2>3, <2>4 DEF FindBranch
<1>12. CASE Attach
  <2>1. /\ worker.at = "attaching" /\ UNCHANGED <<mapping, branch>>
    BY <1>12 DEF Attach, rows
  <2>2. CASE worker' = Resting /\ UNCHANGED notes
    BY <1>2, <1>3, <2>1, <2>2 DEF PlacedAt, Hangs, Present, Updating
  <2>3. CASE /\ notes' = [notes EXCEPT ![worker.row.note].parents = @ \cup {worker.parent}]
             /\ GoTo("detaching") /\ Present(worker.row.note)
    <3>1. CASE mapping.note = 0
      BY <2>1, <3>1
    <3>2. CASE mapping.note # 0
      <4>1. /\ worker.row = mapping /\ Hangs({mapping.parent}) /\ mapping.parent # worker.parent
            /\ branch \in {None, mapping.parent} /\ worker.branch \in {None, mapping.parent}
        BY <1>3, <2>1, <3>2 DEF PlacedAt, Updating
      <4>2. /\ notes'[mapping.note].parents = {mapping.parent, worker.parent}
            /\ notes'[mapping.note].owned
            /\ \A n \in NoteIds : n # mapping.note => notes'[n] = notes[n]
        BY <1>2, <2>3, <4>1 DEF Hangs, Present, NoteType
      <4>3. \A n \in NoteIds : n # mapping.note => ~Present(n)'
        BY <4>1, <4>2 DEF Hangs, Present
      <4> QED BY <1>2, <2>1, <2>3, <4>1, <4>2, <4>3, AWrittenWorker
              DEF PlacedAt, Hangs, Updating
    <3> QED BY <3>1, <3>2
  <2> QED BY <1>12, <2>2, <2>3 DEF Attach
<1>13. CASE Detach
  <2>1. /\ worker.at = "detaching" /\ UNCHANGED <<mapping, branch>>
    BY <1>13 DEF Detach, rows
  <2>2. CASE mapping.note = 0
    BY <2>1, <2>2
  <2>3. CASE mapping.note # 0
    <3>1. /\ worker.row = mapping /\ Hangs({mapping.parent, worker.parent})
          /\ mapping.parent # worker.parent
          /\ branch \in {None, mapping.parent} /\ worker.branch \in {None, mapping.parent}
      BY <1>3, <2>1, <2>3 DEF PlacedAt, Updating
    <3>2. OldBranch = mapping.parent
      BY <3>1 DEF OldBranch
    <3>3. CASE /\ notes' = WithoutBranch(worker.row.note, OldBranch)
               /\ GoTo("remapping")
      <4>1. Loses(notes', mapping.note, mapping.parent)
        BY <1>2, <3>1, <3>2, <3>3, BranchTakenAway
      <4>2. \A n \in NoteIds : Present(n)' =>
              n = mapping.note /\ notes'[n].parents = {worker.parent} /\ notes'[n].owned
        BY <3>1, <4>1 DEF Loses, Hangs, Present
      <4> QED BY <1>2, <2>1, <3>1, <3>3, <4>2, AWrittenWorker DEF PlacedAt, Hangs, Updating
    <3>4. CASE ~MayDelete(worker.row.note) /\ worker' = Resting /\ UNCHANGED notes
      <4>1. Present(mapping.note) /\ ~notes[mapping.note].owned /\ mapping.note \in NoteIds
        BY <3>1, <3>4 DEF MayDelete, Present
      <4> QED BY <3>1, <4>1 DEF Hangs
    <3> QED BY <1>13, <3>1, <3>2, <3>3, <3>4 DEF Detach
  <2> QED BY <2>2, <2>3
<1>14. CASE Remap
  <2>1. /\ worker.at = "remapping" /\ UNCHANGED <<notes, branch>>
        /\ mapping' = [note |-> worker.row.note, parent |-> worker.parent]
        /\ worker'.at = "detailing" /\ worker'.parent = worker.parent /\ worker'.row = worker.row
    BY <1>2, <1>14, AWrittenWorker DEF Remap, remote
  <2>2. mapping.note # 0
    BY <1>1, <2>1 DEF FoundAgain, Undisturbed, Creating
  <2>3. worker.row = mapping /\ Hangs({worker.parent}) /\ worker.row.parent # None
    BY <1>2, <1>3, <2>1, <2>2 DEF PlacedAt, Updating, WorkerFits
  <2> QED BY <2>1, <2>3 DEF Recorded, Hangs, Present
<1> QED BY <1>5, <1>6, <1>7, <1>8, <1>9, <1>10, <1>11, <1>12, <1>13, <1>14 DEF Work

LEMMA TracedByOthers ==
  ASSUME Typed, Typed', FoundAgain, Traced, [RemoteNotesNext]_vars, ~Work
  PROVE  Traced'
<1> SUFFICES ASSUME Undisturbed'
             PROVE  Traced'
  BY DEF Traced
<1>1. /\ notes \in [NoteIds -> NoteType] /\ worker \in WorkerType /\ purge \in PurgeType
      /\ mapping \in [note : 0 .. MaxNotes, parent : PlacesOrNone]
      /\ tampers \in Nat /\ RowsFit /\ WorkerFits /\ None \notin Parents
  BY TypedForms, BoundsAreNumbers DEF Typed, ValuesTyped
<1>2. CASE UNCHANGED vars
  BY <1>2 DEF vars, Traced, Undisturbed, PlacedAt, Recorded, PurgeKnows, Hangs, Present, Empty
<1>3. ASSUME NEW w, Change(w)
      PROVE  Traced'
  <2>1. UNCHANGED <<live, notes, mapping, branch, worker, purge, crossed, torn, tampers>>
    BY <1>3 DEF Change, remote, rows
  <2>2. ~strayed
    BY <1>3, Zenon DEF Change, Undisturbed
  <2>3. Undisturbed
    BY <2>1, <2>2 DEF Undisturbed
  <2> QED BY <2>1, <2>3 DEF Traced, PlacedAt, Recorded, PurgeKnows, Hangs, Present, Empty
<1>4. ASSUME NEW n, NEW note, Tamper(n, note)
      PROVE  Traced'
  BY <1>1, <1>4 DEF Tamper, Undisturbed
<1>5. CASE Interrupt
  <2>1. /\ worker' = Resting /\ worker'.at = "idle" /\ worker.at # "idle"
        /\ UNCHANGED <<live, notes, mapping, branch, purge, crossed, tampers>>
    BY <1>5 DEF Interrupt, Resting, local, remote, rows
  <2>2. Undisturbed /\ ~Moving
    <3>1. ~torn /\ ~Moving /\ ~strayed
      BY <1>5, Zenon DEF Interrupt, Undisturbed
    <3> QED BY <2>1, <3>1 DEF Undisturbed
  <2>3. CASE worker.at = "detailing"
    <3>1. worker.row.parent = None
      BY <2>2, <2>3 DEF Moving
    <3>2. mapping.note # 0 => Recorded
      BY <2>2, <2>3 DEF Traced
    <3>3. mapping.note # 0 => PlacedAt'
      BY <2>1, <3>1, <3>2 DEF Recorded, PlacedAt, Hangs, Present, Updating
    <3> QED BY <2>1, <2>2, <3>3 DEF Traced, PurgeKnows, Empty, Present
  <2>4. CASE worker.at # "detailing"
    <3>1. mapping.note # 0 => worker.at \in {"titling", "branching", "attaching"}
      BY <1>1, <2>1, <2>2, <2>4
      DEF Moving, WorkerFits, WorkerType, WorkerPoints, Creating, Updating
    <3>2. mapping.note # 0 => PlacedAt'
      BY <2>1, <2>2, <2>4, <3>1 DEF Traced, PlacedAt, Hangs, Present, Updating
    <3> QED BY <2>1, <2>2, <3>2 DEF Traced, PurgeKnows, Empty, Present
  <2> QED BY <2>3, <2>4
<1>6. CASE BeginPurge
  <2>1. /\ live /\ purge.at = "idle"
        /\ UNCHANGED <<live, notes, mapping, branch, worker, tampers, torn>>
    BY <1>6 DEF BeginPurge, Purging, rows
  <2>2. worker.at = "idle" /\ ~Unmapped /\ ~crossed /\ ~strayed
    BY <1>6, Zenon DEF BeginPurge, Begun, Undisturbed
  <2>3. Undisturbed
    BY <2>1, <2>2 DEF Undisturbed
  <2>4. /\ mapping.note = 0 => Empty /\ purge'.at = "erasing"
        /\ mapping.note # 0 => PlacedAt
    BY <1>6, <2>2, <2>3 DEF BeginPurge, Unmapped, Empty, Traced, NoPurge
  <2>5. mapping.note # 0 =>
          /\ purge'.at \in {"finding", "deleting"} /\ purge'.note = mapping.note
          /\ purge'.branch = mapping.parent
    BY <1>6, <2>4 DEF BeginPurge, PlacedAt
  <2>6. PurgeKnows'
    BY <2>1, <2>2, <2>4, <2>5 DEF PurgeKnows, Empty, Present
  <2> QED BY <2>1, <2>2, <2>3, <2>6 DEF Traced, PlacedAt, Hangs, Present, Updating
<1>7. CASE FindBranchToPurge \/ InterruptPurge
  <2>1. /\ UNCHANGED <<live, notes, mapping, branch, worker, tampers, torn, strayed, crossed>>
        /\ purge.at # "idle"
    BY <1>7 DEF FindBranchToPurge, InterruptPurge, Purging, rows
  <2>2. Undisturbed
    BY <2>1 DEF Undisturbed
  <2>3. purge' = NoPurge \/ (purge.at = "finding" /\ purge' = [purge EXCEPT !.at = "deleting"])
    BY <1>7 DEF FindBranchToPurge, InterruptPurge
  <2>4. purge'.at # "idle" => PurgeKnows'
    BY <1>1, <2>1, <2>2, <2>3 DEF Traced, PurgeKnows, NoPurge, PurgeType
  <2> QED BY <2>1, <2>2, <2>4 DEF Traced, PlacedAt, Recorded, Hangs, Present, Empty
<1>8. CASE DeleteForPurge
  <2>1. /\ UNCHANGED <<live, mapping, branch, worker, tampers, torn, strayed, crossed>>
        /\ purge.at = "deleting"
    BY <1>8 DEF DeleteForPurge, Purging, rows
  <2>2. Undisturbed
    BY <2>1 DEF Undisturbed
  <2>3. /\ worker.at = "idle" /\ purge.note = mapping.note /\ purge.branch = mapping.parent
        /\ mapping.note # 0 /\ Hangs({mapping.parent}) /\ PlacedAt /\ live
    BY <1>1, <2>1, <2>2 DEF Traced, PurgeKnows, PlacedAt, RowsFit
  <2>4. CASE /\ notes' = WithoutBranch(purge.note, purge.branch)
             /\ purge' = [purge EXCEPT !.at = "erasing"]
    <3>1. Loses(notes', mapping.note, mapping.parent)
      BY <1>1, <2>3, <2>4, BranchTakenAway
    <3>2. Empty'
      BY <2>3, <3>1 DEF Loses, Hangs, Present, Empty
    <3>3. purge'.at = "erasing"
      BY <1>1, <2>4 DEF PurgeType
    <3>4. PurgeKnows'
      BY <2>1, <2>3, <3>2, <3>3 DEF PurgeKnows
    <3>5. PlacedAt'
      BY <2>1, <2>3, <3>2 DEF PlacedAt, Hangs, Empty, Present, Updating
    <3> QED BY <2>1, <2>3, <3>4, <3>5 DEF Traced
  <2>5. CASE UNCHANGED notes /\ purge' = NoPurge
    BY <2>1, <2>3, <2>5 DEF Traced, PlacedAt, Hangs, Present, Updating, NoPurge
  <2> QED BY <1>8, <2>4, <2>5 DEF DeleteForPurge
<1>9. CASE Erase
  <2>1. /\ mapping'.note = 0 /\ live' = FALSE /\ purge'.at = "idle"
        /\ UNCHANGED <<notes, worker, tampers, torn, strayed, crossed>> /\ purge.at = "erasing"
    BY <1>9 DEF Erase, Purging, NoRow, NoPurge
  <2>2. Undisturbed
    BY <2>1 DEF Undisturbed
  <2> QED BY <2>1, <2>2 DEF Traced, PurgeKnows, Empty, Present
<1>10. CASE Trigger
  BY <1>10 DEF Trigger, Traced, Undisturbed, PlacedAt, Recorded, PurgeKnows, Hangs, Present,
               Empty, local, remote, rows, history
<1> QED BY <1>2, <1>3, <1>4, <1>5, <1>6, <1>7, <1>8, <1>9, <1>10
        DEF RemoteNotesNext, Move, Rename, DeleteRemote, StripOwnership, Purge

-----------------------------------------------------------------------------
LEMMA InitNoteInvariant == RemoteNotesInit => NoteInvariant
<1> SUFFICES ASSUME RemoteNotesInit PROVE NoteInvariant
  OBVIOUS
<1>1. \A n \in NoteIds : ~Present(n)
  BY DEF RemoteNotesInit, Present, Gone
<1>2. /\ made = 0 /\ worker.at = "idle" /\ purge.at = "idle" /\ mapping.note = 0
      /\ live /\ ~begun
  BY DEF RemoteNotesInit, Resting, NoPurge, NoRow
<1>3. NotesKept
  BY <1>2 DEF NotesKept
<1>4. FoundAgain
  BY <1>1, <1>2 DEF FoundAgain, Creating
<1>5. Traced
  BY <1>2 DEF Traced
<1> QED BY <1>3, <1>4, <1>5, InitTyped DEF NoteInvariant

LEMMA NoteInvariantKept ==
  ASSUME NoteInvariant, [RemoteNotesNext]_vars
  PROVE  NoteInvariant'
<1>1. Typed'
  BY TypedKept DEF NoteInvariant
<1>2. CASE Work
  BY <1>1, <1>2, NotesKeptByWork, FoundAgainByWork, TracedByWork DEF NoteInvariant
<1>3. CASE ~Work
  BY <1>1, <1>3, NotesKeptByOthers, FoundAgainByOthers, TracedByOthers DEF NoteInvariant
<1> QED BY <1>2, <1>3

LEMMA NoteInvariantHolds == RemoteNotesSpec => []NoteInvariant
<1>1. RemoteNotesInit => NoteInvariant
  BY InitNoteInvariant
<1>2. NoteInvariant /\ [RemoteNotesNext]_vars => NoteInvariant'
  BY NoteInvariantKept
<1> QED BY <1>1, <1>2, PTL DEF RemoteNotesSpec

(* The queue is typed on its own: every step leaves it, takes a job or     *)
(* adds one.                                                               *)
QueueTyped == queued \in Nat /\ manual \in BOOLEAN /\ triggers \in Nat

LEMMA QueueKept ==
  ASSUME QueueTyped, [RemoteNotesNext]_vars
  PROVE  QueueTyped'
<1> USE DEF QueueTyped
<1>1. ASSUME UNCHANGED queue \/ Retry PROVE QueueTyped'
  BY <1>1 DEF queue, Retry
<1>2. CASE Begin
  BY <1>2 DEF Begin
<1>3. CASE Trigger
  BY <1>3 DEF Trigger
<1>4. ASSUME NEW w, Change(w) PROVE QueueTyped'
  <2>1. PICK asks \in BOOLEAN : Reconcile(asks)
    BY <1>4 DEF Change
  <2> QED BY <2>1 DEF Reconcile
<1>5. ASSUME NEW n, NEW note, Tamper(n, note) PROVE QueueTyped'
  BY <1>5 DEF Tamper
<1>6. CASE Search \/ Create \/ Map \/ Detail \/ PatchTitle \/ SameParent
  BY <1>1, <1>6, Zenon DEF Search, Create, Map, Detail, PatchTitle, SameParent, Passes, Ends
<1>7. CASE FindBranch \/ Attach \/ Remap \/ Interrupt
  BY <1>1, <1>7, Zenon DEF FindBranch, Attach, Remap, Interrupt
<1>8. CASE Purge \/ InterruptPurge
  BY <1>1, <1>8, Zenon
  DEF Purge, BeginPurge, FindBranchToPurge, DeleteForPurge, Erase, InterruptPurge, Purging
<1>9. CASE UNCHANGED vars
  BY <1>9 DEF vars
<1>10. CASE Detach
  BY <1>1, <1>10, Zenon DEF Detach, queue
<1> QED BY <1>2, <1>3, <1>4, <1>5, <1>6, <1>7, <1>8, <1>9, <1>10
        DEF RemoteNotesNext, Work, Move, Rename, DeleteRemote, StripOwnership

LEMMA QueueStaysTyped == RemoteNotesSpec => []QueueTyped
<1>1. RemoteNotesInit => QueueTyped
  <2> SUFFICES ASSUME RemoteNotesInit PROVE QueueTyped
    OBVIOUS
  <2>1. queued = 0 /\ manual = FALSE /\ triggers = 0
    BY DEF RemoteNotesInit
  <2>2. queued \in Nat /\ triggers \in Nat
    BY <2>1
  <2>3. manual \in BOOLEAN
    BY <2>1, Zenon
  <2> QED BY <2>2, <2>3 DEF QueueTyped
<1>2. QueueTyped /\ [RemoteNotesNext]_vars => QueueTyped'
  BY QueueKept
<1> QED BY <1>1, <1>2, PTL DEF RemoteNotesSpec

(* A move never destroys the note it moves, however often it is cut and    *)
(* repeated (ensure_parent_branch makes the new branch first).             *)
THEOREM MovedNotesSurvive == RemoteNotesSpec => []MoveKeepsNote
<1>1. NoteInvariant => MoveKeepsNote
  <2> SUFFICES ASSUME NoteInvariant, mapping.note # 0, ~begun, tampers = 0
               PROVE  Present(mapping.note)
    BY DEF MoveKeepsNote
  <2>1. mapping.note \in 0 .. made /\ made \in 0 .. MaxNotes /\ MaxNotes \in Nat
    BY BoundsAreNumbers DEF NoteInvariant, Typed, ValuesTyped, RowsFit
  <2>2. mapping.note \in 1 .. made /\ mapping.note \in NoteIds
    BY <2>1 DEF NoteIds
  <2> QED BY <2>2 DEF NoteInvariant, NotesKept, Present
<1> QED BY <1>1, NoteInvariantHolds, PTL

(* However often a creation whose reply was lost is repeated, there is one *)
(* note of the object (find_created_note looks for it first).              *)
THEOREM RepeatedCreationsAgree == RemoteNotesSpec => []OneNote
<1>1. NoteInvariant => OneNote
  <2> SUFFICES ASSUME NoteInvariant, ~strayed, tampers = 0
               PROVE  Cardinality({n \in NoteIds : Present(n)}) <= 1
    BY DEF OneNote
  <2> DEFINE S == {n \in NoteIds : Present(n)}
  <2>1. \A m, n \in S : m = n
    BY DEF NoteInvariant, FoundAgain
  <2>2. CASE S = {}
    BY <2>2, FS_EmptySet
  <2>3. CASE S # {}
    <3>1. PICK n \in S : TRUE
      BY <2>3
    <3>2. S = {n}
      BY <2>1, <3>1
    <3>3. Cardinality({n}) = 1
      BY FS_Singleton
    <3> QED BY <3>2, <3>3
  <2> QED BY <2>2, <2>3
<1> QED BY <1>1, NoteInvariantHolds, PTL

(* A permanent deletion that nothing crossed leaves no note of the object  *)
(* behind (purge_workspace_objects).                                       *)
THEOREM PurgedNotesAreGone == RemoteNotesSpec => []PurgeLeavesNothing
<1>1. NoteInvariant => PurgeLeavesNothing
  BY DEF NoteInvariant, Traced, Undisturbed, PurgeLeavesNothing, Empty
<1> QED BY <1>1, NoteInvariantHolds, PTL

(* Every value stays in its domain, and a branch is recorded only beside a *)
(* mapping.                                                                *)
THEOREM RemoteNotesTypeCorrect == RemoteNotesSpec => []RemoteNotesTypeOK
<1>1. NoteInvariant /\ QueueTyped => RemoteNotesTypeOK
  BY DEF NoteInvariant, Typed, ValuesTyped, RowsFit, QueueTyped, RemoteNotesTypeOK, PlacesOrNone,
         TitlesOrNone
<1> QED BY <1>1, NoteInvariantHolds, QueueStaysTyped, PTL
=============================================================================
