-------------------------- MODULE WorkspaceProofs --------------------------
(* Type correctness of Workspace, that nothing archived is lost and that   *)
(* careful requests keep the tree and purge only what is archived: for     *)
(* any folders, projects, courses and requests.                            *)
EXTENDS Workspace, FiniteSetTheorems, WellFoundedInduction, TLAPS

(* What a request read holds places where the write uses it as places, and *)
(* an edit is an edit of an entity.                                        *)
Fits(c) ==
  /\ c.op \in {"trash", "restore"} => c.seen \in [Placed -> Places]
  /\ c.op = "edit" => c.on \in Entities

SeenPlaces == \A k \in Calls : Fits(call[k])

Typed == WorkspaceTypeOK /\ SeenPlaces

CallType ==
  [op : Ops, on : Entities \cup {Root}, to : Places, archive : BOOLEAN,
   items : SUBSET Entities, seen : [Placed -> Nat]]

LEMMA PlacesAreNumbers == Places \subseteq Nat /\ Nowhere \in [Placed -> Places]
  BY WorkspaceAssumption DEF Places, Root, Nowhere

LEMMA IdleTyped == Idle \in CallType /\ Idle.op = "idle"
  BY PlacesAreNumbers DEF Idle, CallType, Ops, Places

LEMMA SelectionsAreEntities ==
  ASSUME NEW e \in Entities, NEW up
  PROVE  With(e, up) \subseteq Entities
  BY DEF With, Under, Entities, Placed

LEMMA FunctionsIntoNat ==
  ASSUME NEW f \in [Placed -> Places]
  PROVE  f \in [Placed -> Nat]
  BY PlacesAreNumbers

(* A step that only ends a request or replaces it by a typed one.          *)
LEMMA CallsStayTyped ==
  ASSUME Typed, NEW k \in Calls, NEW c \in CallType,
         Fits(c), call' = [call EXCEPT ![k] = c]
  PROVE  /\ call' \in [Calls -> CallType]
         /\ SeenPlaces'
<1> DEFINE other == [call EXCEPT ![k] = c]
<1>1. call \in [Calls -> CallType]
  BY DEF Typed, WorkspaceTypeOK, CallType
<1>2. call' \in [Calls -> CallType]
  BY <1>1
<1>3. ASSUME NEW j \in Calls
      PROVE  Fits(call'[j])
  <2>1. CASE j = k
    BY <2>1, <1>1, <1>3
  <2>2. CASE j # k
    BY <2>2, <1>1, <1>3 DEF Typed, SeenPlaces
  <2> QED BY <2>1, <2>2
<1> QED BY <1>2, <1>3 DEF SeenPlaces

LEMMA DoneTyped ==
  ASSUME Typed, NEW k \in Calls, Done(k)
  PROVE  call' \in [Calls -> CallType] /\ SeenPlaces'
  BY CallsStayTyped, IdleTyped DEF Done, Fits

-----------------------------------------------------------------------------
RowsTyped ==
  /\ at \in [Entities -> {"none", "active", "archived", "gone"}]
  /\ parent \in [Placed -> Places] /\ origin \in [Placed -> Places]
  /\ age \in [Placed -> Nat] /\ batch \in Nat
  /\ binned \subseteq Entities /\ wiped \subseteq Entities /\ shelved \subseteq Entities
  /\ work \in [Courses -> {"quiet", "lost", "working"}]

Starts(k, c) ==
  /\ call' = [call EXCEPT ![k] = c]
  /\ careless' \in BOOLEAN
  /\ asked' = asked + 1
  /\ UNCHANGED <<at, parent, binned, origin, age, batch, work, wiped, shelved, crashed>>

LEMMA StartsTyped ==
  ASSUME Typed, NEW k \in Calls, NEW c \in CallType, Fits(c), Starts(k, c)
  PROVE  Typed'
<1>1. call' \in [Calls -> CallType] /\ SeenPlaces'
  BY CallsStayTyped DEF Starts
<1>2. RowsTyped' /\ asked' \in Nat /\ crashed' \in Nat /\ careless' \in BOOLEAN
  BY DEF Starts, Typed, WorkspaceTypeOK, RowsTyped
<1> QED BY <1>1, <1>2 DEF Typed, WorkspaceTypeOK, RowsTyped, CallType

LEMMA BeginTyped ==
  ASSUME Typed, NEW k \in Calls, NEW c \in CallType, NEW b, Fits(c), Begin(k, c, b)
  PROVE  Typed'
<1>1. careless' \in BOOLEAN
  BY Zenon DEF Begin
<1>2. Starts(k, c)
  BY <1>1 DEF Begin, Starts
<1> QED BY <1>2, StartsTyped

LEMMA BeginsTyped ==
  ASSUME Typed, NEW k \in Calls,
         \/ BeginCreate(k) \/ BeginMove(k) \/ BeginEdit(k) \/ BeginArchive(k)
         \/ BeginTrash(k) \/ BeginRestore(k) \/ BeginPurge(k)
  PROVE  Typed'
<1> USE IdleTyped
<1>0. /\ parent \in [Placed -> Places] /\ origin \in [Placed -> Places] /\ age \in [Placed -> Nat]
      /\ parent \in [Placed -> Nat] /\ origin \in [Placed -> Nat]
      /\ binned \subseteq Entities /\ Idle \in CallType
  BY FunctionsIntoNat DEF Typed, WorkspaceTypeOK
<1>1. CASE BeginCreate(k)
  <2>1. PICK to \in Places : Begin(k, [Idle EXCEPT !.op = "create", !.to = to], FALSE)
    BY <1>1 DEF BeginCreate
  <2>2. [Idle EXCEPT !.op = "create", !.to = to] \in CallType
    BY <1>0 DEF CallType, Ops
  <2> QED BY <2>1, <2>2, BeginTyped DEF CallType, Fits
<1>2. CASE BeginMove(k)
  <2>1. PICK x \in Placed, to \in Places :
          Begin(k, [Idle EXCEPT !.op = "move", !.on = x, !.to = to, !.items = Siblings(x, to)],
                \E y \in {x, to} \ {Root} : at[y] # "active")
    BY <1>2 DEF BeginMove
  <2>2. Siblings(x, to) \subseteq Entities
    BY DEF Siblings, Entities, Placed
  <2>3. [Idle EXCEPT !.op = "move", !.on = x, !.to = to, !.items = Siblings(x, to)] \in CallType
    BY <1>0, <2>2 DEF CallType, Ops, Entities
  <2> QED BY <2>1, <2>3, BeginTyped DEF CallType, Fits
<1>3. CASE BeginEdit(k)
  <2>1. PICK x \in Entities, to \in Places, archive \in BOOLEAN :
          Begin(k, [Idle EXCEPT !.op = "edit", !.on = x, !.to = to, !.archive = archive],
                x \in binned)
    BY <1>3 DEF BeginEdit
  <2> DEFINE c == [Idle EXCEPT !.op = "edit", !.on = x, !.to = to, !.archive = archive]
  <2>2. c \in CallType
    BY <1>0 DEF CallType, Ops
  <2>3. Fits(c)
    BY <1>0 DEF CallType, Fits
  <2>4. careless' \in BOOLEAN
    BY <2>1, Zenon DEF Begin
  <2>5. Starts(k, c)
    BY <2>1, <2>4 DEF Begin, Starts
  <2> HIDE DEF c
  <2> QED BY <2>2, <2>3, <2>5, StartsTyped
<1>4. CASE BeginArchive(k)
  <2>1. PICK f \in Folders :
          Begin(k, [Idle EXCEPT !.op = "edit", !.on = f, !.to = parent[f], !.archive = TRUE],
                f \in binned)
    BY <1>4 DEF BeginArchive
  <2> DEFINE c == [Idle EXCEPT !.op = "edit", !.on = f, !.to = parent[f], !.archive = TRUE]
  <2>2. c \in CallType
    BY <1>0 DEF CallType, Ops, Entities, Placed
  <2>3. Fits(c)
    BY <1>0 DEF CallType, Fits, Entities, Placed
  <2>4. careless' \in BOOLEAN
    BY <2>1, Zenon DEF Begin
  <2>5. Starts(k, c)
    BY <2>1, <2>4 DEF Begin, Starts
  <2> HIDE DEF c
  <2> QED BY <2>2, <2>3, <2>5, StartsTyped
<1>5. CASE BeginTrash(k)
  <2>1. PICK x \in Entities :
          Begin(k, [Idle EXCEPT !.op = "trash", !.on = x, !.items = Selection(x), !.seen = parent],
                FALSE)
    BY <1>5 DEF BeginTrash
  <2>2. Selection(x) \subseteq Entities
    BY SelectionsAreEntities DEF Selection
  <2>3. [Idle EXCEPT !.op = "trash", !.on = x, !.items = Selection(x), !.seen = parent] \in CallType
    BY <1>0, <2>2 DEF CallType, Ops
  <2>4. [Idle EXCEPT !.op = "trash", !.on = x, !.items = Selection(x), !.seen = parent].seen = parent
    BY <1>0 DEF CallType
  <2> QED BY <1>0, <2>1, <2>3, <2>4, BeginTyped DEF CallType, Fits
<1>6. CASE BeginRestore(k)
  <2>1. PICK x \in binned :
          Begin(k, [Idle EXCEPT !.op = "restore", !.on = x, !.items = BinSelection(x),
                                !.seen = origin], FALSE)
    BY <1>6 DEF BeginRestore
  <2>2. BinSelection(x) \subseteq Entities
    BY <1>0 DEF BinSelection
  <2>3. [Idle EXCEPT !.op = "restore", !.on = x, !.items = BinSelection(x), !.seen = origin]
          \in CallType
    BY <1>0, <2>2 DEF CallType, Ops
  <2>4. [Idle EXCEPT !.op = "restore", !.on = x, !.items = BinSelection(x), !.seen = origin].seen
          = origin
    BY <1>0 DEF CallType
  <2> QED BY <1>0, <2>1, <2>3, <2>4, BeginTyped DEF CallType, Fits
<1>7. CASE BeginPurge(k)
  <2>1. PICK x \in binned :
          Begin(k, [Idle EXCEPT !.op = "purge", !.on = x, !.items = BinSelection(x), !.seen = age],
                FALSE)
    BY <1>7 DEF BeginPurge
  <2>2. BinSelection(x) \subseteq Entities
    BY <1>0 DEF BinSelection
  <2>3. [Idle EXCEPT !.op = "purge", !.on = x, !.items = BinSelection(x), !.seen = age] \in CallType
    BY <1>0, <2>2 DEF CallType, Ops
  <2> QED BY <1>0, <2>1, <2>3, BeginTyped DEF CallType, Fits
<1> QED BY <1>1, <1>2, <1>3, <1>4, <1>5, <1>6, <1>7

-----------------------------------------------------------------------------
LEMMA WritesTyped ==
  ASSUME Typed, NEW k \in Calls,
         \/ Create(k) \/ Move(k) \/ Edit(k) \/ Trash(k) \/ Restore(k)
         \/ Wipe(k) \/ Purge(k) \/ Refuse(k)
  PROVE  Typed'
<1>0. /\ RowsTyped /\ call[k] \in CallType /\ Places \subseteq Nat
      /\ asked \in Nat /\ crashed \in Nat /\ careless \in BOOLEAN
  BY PlacesAreNumbers DEF Typed, WorkspaceTypeOK, RowsTyped, CallType
<1>s. /\ call[k].op \in {"trash", "restore"} => call[k].seen \in [Placed -> Places]
      /\ call[k].op = "edit" => call[k].on \in Entities
  BY DEF Typed, SeenPlaces, Fits
<1>q. ASSUME call' \in [Calls -> CallType], SeenPlaces', RowsTyped',
             careless' = careless, asked' = asked, crashed' = crashed
      PROVE  Typed'
  BY <1>q, <1>0 DEF Typed, WorkspaceTypeOK, RowsTyped, CallType
<1>1. CASE Create(k)
  <2>1. call[k].to \in Places
    BY <1>0 DEF CallType
  <2>2. RowsTyped'
    BY <1>1, <1>0, <2>1 DEF Create, RowsTyped, NextId, Entities, Placed
  <2> QED BY <1>1, <2>2, <1>q, DoneTyped DEF Create
<1>2. CASE Move(k)
  <2>1. call[k].to \in Places
    BY <1>0 DEF CallType
  <2>2. RowsTyped'
    BY <1>2, <1>0, <2>1 DEF Move, RowsTyped
  <2> QED BY <1>2, <2>2, <1>q, DoneTyped DEF Move
<1>3. CASE Edit(k)
  <2>1. call[k].to \in Places /\ call[k].on \in Entities
    BY <1>0, <1>s, <1>3 DEF CallType, Edit
  <2>3. at' \in [Entities -> {"none", "active", "archived", "gone"}]
    BY <1>3, <1>0 DEF Edit, RowsTyped
  <2>4. parent' \in [Placed -> Places]
    BY <1>3, <1>0, <2>1 DEF Edit, RowsTyped
  <2>5. shelved' \subseteq Entities
    BY <1>3, <1>0, <2>1 DEF Edit, RowsTyped
  <2>6. RowsTyped'
    BY <1>3, <1>0, <2>3, <2>4, <2>5 DEF Edit, RowsTyped
  <2> QED BY <1>3, <2>6, <1>q, DoneTyped DEF Edit
<1>4. CASE Trash(k)
  <2>1. call[k].items \subseteq Entities /\ call[k].seen \in [Placed -> Places]
    BY <1>0, <1>s, <1>4 DEF CallType, Trash
  <2>2. RowsTyped'
    BY <1>4, <1>0, <2>1 DEF Trash, RowsTyped
  <2> QED BY <1>4, <2>2, <1>q, DoneTyped DEF Trash
<1>5. CASE Restore(k)
  <2>1. call[k].items \subseteq Entities /\ call[k].seen \in [Placed -> Places]
    BY <1>0, <1>s, <1>5 DEF CallType, Restore
  <2>2. \A x \in Placed : RestoredTo(call[k], x) \in Places
    BY <2>1 DEF RestoredTo, Places
  <2>3. RowsTyped'
    BY <1>5, <1>0, <2>1, <2>2 DEF Restore, RowsTyped, Places, Root
  <2> QED BY <1>5, <2>3, <1>q, DoneTyped DEF Restore
<1>6. CASE Wipe(k)
  <2>1. call[k].items \subseteq Entities
    BY <1>0 DEF CallType
  <2>2. RowsTyped' /\ careless' = careless /\ asked' = asked /\ crashed' = crashed
    BY <1>6, <1>0, <2>1 DEF Wipe, RowsTyped
  <2> DEFINE c == [call[k] EXCEPT !.op = "wiped"]
  <2>3. c \in CallType /\ c.op = "wiped"
    BY <1>0 DEF CallType, Ops
  <2>4. call' = [call EXCEPT ![k] = c]
    BY <1>6 DEF Wipe
  <2>5. call' \in [Calls -> CallType] /\ SeenPlaces'
    BY <2>3, <2>4, CallsStayTyped DEF Fits
  <2> QED BY <2>2, <2>5, <1>q
<1>7. CASE Purge(k)
  <2>1. RowsTyped'
    BY <1>7, <1>0 DEF Purge, RowsTyped, Places, Root
  <2> QED BY <1>7, <2>1, <1>q, DoneTyped DEF Purge
<1>8. CASE Refuse(k)
  <2>1. RowsTyped'
    BY <1>8, <1>0 DEF Refuse, RowsTyped
  <2> QED BY <1>8, <2>1, <1>q, DoneTyped DEF Refuse
<1> QED BY <1>1, <1>2, <1>3, <1>4, <1>5, <1>6, <1>7, <1>8

LEMMA InitTyped == WorkspaceInit => Typed
<1> SUFFICES ASSUME WorkspaceInit PROVE Typed
  OBVIOUS
<1> USE DEF WorkspaceInit
<1>1. RowsTyped
  BY PlacesAreNumbers, FunctionsIntoNat DEF RowsTyped, Entities, Placed
<1>2. call \in [Calls -> CallType] /\ SeenPlaces
  BY IdleTyped DEF SeenPlaces, Fits
<1> QED BY <1>1, <1>2 DEF Typed, WorkspaceTypeOK, RowsTyped, CallType

LEMMA NextTyped == Typed /\ [WorkspaceNext]_vars => Typed'
<1> SUFFICES ASSUME Typed, [WorkspaceNext]_vars PROVE Typed'
  OBVIOUS
<1>1. CASE \E k \in Calls :
             \/ BeginCreate(k) \/ BeginMove(k) \/ BeginEdit(k) \/ BeginArchive(k)
             \/ BeginTrash(k) \/ BeginRestore(k) \/ BeginPurge(k)
  BY <1>1, BeginsTyped
<1>2. CASE \E k \in Calls :
             \/ Create(k) \/ Move(k) \/ Edit(k) \/ Trash(k) \/ Restore(k)
             \/ Wipe(k) \/ Purge(k) \/ Refuse(k)
  BY <1>2, WritesTyped
<1>3. CASE \E c \in Courses : Work(c)
  <2>1. PICK c \in Courses : Work(c)
    BY <1>3
  <2>2. RowsTyped' /\ asked' \in Nat /\ crashed' \in Nat
    BY <2>1 DEF Work, Typed, WorkspaceTypeOK, RowsTyped
  <2>3. careless' \in BOOLEAN
    BY <2>1, Zenon DEF Work
  <2>4. call' = call
    BY <2>1 DEF Work
  <2> QED BY <2>2, <2>3, <2>4 DEF Typed, WorkspaceTypeOK, RowsTyped, SeenPlaces
<1>4. CASE Crash
  <2>1. RowsTyped' /\ asked' \in Nat /\ crashed' \in Nat /\ careless' \in BOOLEAN
    BY <1>4 DEF Crash, Typed, WorkspaceTypeOK, RowsTyped
  <2>2. call' \in [Calls -> CallType] /\ SeenPlaces'
    BY <1>4, IdleTyped DEF Crash, SeenPlaces, Fits
  <2> QED BY <2>1, <2>2 DEF Typed, WorkspaceTypeOK, RowsTyped, CallType
<1>5. CASE UNCHANGED vars
  BY <1>5 DEF Typed, WorkspaceTypeOK, SeenPlaces, vars
<1> QED BY <1>1, <1>2, <1>3, <1>4, <1>5 DEF WorkspaceNext

(* The rows, the bin and the requests keep their types, for any number of  *)
(* folders, projects, courses and requests.                                *)
THEOREM WorkspaceTypeCorrect == WorkspaceSpec => []WorkspaceTypeOK
<1>1. Typed => WorkspaceTypeOK
  BY DEF Typed
<1> QED BY <1>1, InitTyped, NextTyped, PTL DEF WorkspaceSpec

-----------------------------------------------------------------------------
LEMMA NextKeepsRecoverable == Typed /\ Recoverable /\ [WorkspaceNext]_vars => Recoverable'
<1> SUFFICES ASSUME Typed, Recoverable, [WorkspaceNext]_vars,
                    NEW x \in Entities, at'[x] = "archived"
             PROVE  x \in binned' \cup shelved'
  BY DEF Recoverable
<1>0. /\ RowsTyped
      /\ at[x] = "archived" => x \in binned \cup shelved
  BY DEF Recoverable, Typed, WorkspaceTypeOK, RowsTyped
<1>1. CASE UNCHANGED <<at, binned, shelved>>
  BY <1>0, <1>1
<1>2. ASSUME NEW k \in Calls, Create(k) PROVE x \in binned' \cup shelved'
  BY <1>0, <1>2 DEF Create, RowsTyped
<1>3. ASSUME NEW k \in Calls, Edit(k) PROVE x \in binned' \cup shelved'
  <2>1. CASE x = call[k].on
    BY <1>0, <1>3, <2>1 DEF Edit, RowsTyped
  <2>2. CASE x # call[k].on
    BY <1>0, <1>3, <2>2 DEF Edit, RowsTyped
  <2> QED BY <2>1, <2>2
<1>4. ASSUME NEW k \in Calls, Trash(k) PROVE x \in binned' \cup shelved'
  BY <1>0, <1>4 DEF Trash, RowsTyped
<1>5. ASSUME NEW k \in Calls, Restore(k) PROVE x \in binned' \cup shelved'
  <2>1. at[x] = "archived" /\ ~(x \in call[k].items /\ Exists(x))
    BY <1>5 DEF Restore
  <2>2. Exists(x)
    BY <2>1 DEF Exists
  <2> QED BY <1>0, <1>5, <2>1, <2>2 DEF Restore
<1>6. ASSUME NEW k \in Calls, Purge(k) PROVE x \in binned' \cup shelved'
  <2>1. at[x] = "archived" /\ ~(x \in call[k].items /\ Exists(x))
    BY <1>6 DEF Purge
  <2>2. Exists(x)
    BY <2>1 DEF Exists
  <2> QED BY <1>0, <1>6, <2>1, <2>2 DEF Purge
<1>7. ASSUME NEW k \in Calls,
             \/ BeginCreate(k) \/ BeginMove(k) \/ BeginEdit(k) \/ BeginArchive(k)
             \/ BeginTrash(k) \/ BeginRestore(k) \/ BeginPurge(k)
      PROVE  UNCHANGED <<at, binned, shelved>>
  BY <1>7 DEF BeginCreate, BeginMove, BeginEdit, BeginArchive, BeginTrash, BeginRestore,
              BeginPurge, Begin
<1>8. ASSUME NEW k \in Calls, Move(k) \/ Wipe(k) \/ Refuse(k)
      PROVE  UNCHANGED <<at, binned, shelved>>
  BY <1>8 DEF Move, Wipe, Refuse
<1>9. ASSUME Crash \/ (\E c \in Courses : Work(c)) \/ UNCHANGED vars
      PROVE  UNCHANGED <<at, binned, shelved>>
  BY <1>9 DEF Crash, Work, vars
<1> QED BY <1>1, <1>2, <1>3, <1>4, <1>5, <1>6, <1>7, <1>8, <1>9 DEF WorkspaceNext

(* Whatever moves, edits, restores, purges and crashes interleave, what is *)
(* archived can be found in the bin unless it was archived on purpose.     *)
THEOREM NothingArchivedIsLost == WorkspaceSpec => []Recoverable
<1>1. WorkspaceInit => Recoverable
  BY DEF WorkspaceInit, Recoverable, Entities
<1> QED BY <1>1, InitTyped, NextTyped, NextKeepsRecoverable, PTL DEF WorkspaceSpec

(* A restore puts a folder or project at the root or under an active       *)
(* folder, although other requests ran since the bin was read.             *)
LEMMA RestoreStepAttaches ==
  ASSUME Typed, NEW k \in Calls, Restore(k),
         NEW x \in call[k].items \cap Placed, at'[x] = "active"
  PROVE  parent'[x] = Root \/ at'[parent'[x]] = "active"
<1> DEFINE c == call[k]
<1>0. /\ RowsTyped /\ c \in CallType /\ Entities = Placed \cup Courses
  BY DEF Typed, WorkspaceTypeOK, RowsTyped, CallType, Entities
<1>s. c.seen \in [Placed -> Places]
  BY DEF Typed, SeenPlaces, Fits, Restore
<1>1. x \in Entities /\ Exists(x)
  BY <1>0 DEF Restore, Exists, RowsTyped
<1>2. parent'[x] = RestoredTo(c, x) /\ Exists(RestoredTo(c, x))
  BY <1>1 DEF Restore
<1>3. CASE RestoredTo(c, x) = Root
  BY <1>2, <1>3
<1>4. CASE RestoredTo(c, x) # Root
  <2> DEFINE y == RestoredTo(c, x)
  <2>1. y = c.seen[x] /\ (y \in c.items \/ at[y] = "active")
    BY <1>4 DEF RestoredTo
  <2>2. y \in Entities
    BY <1>0, <1>s, <1>4, <2>1 DEF Places, Placed
  <2>3. at'[y] = "active"
    BY <1>0, <1>2, <2>1, <2>2 DEF Restore
  <2> QED BY <1>2, <2>3
<1> QED BY <1>3, <1>4

(* Only the restore itself ends a restore and changes rows.                *)
LEMMA RestoreIsTheStep ==
  ASSUME Typed, WorkspaceNext, NEW k \in Calls, call[k].op = "restore", call'[k] = Idle,
         <<at', parent', binned'>> # <<at, parent, binned>>
  PROVE  Restore(k)
<1>0. call \in [Calls -> CallType] /\ Idle.op = "idle"
  BY IdleTyped DEF Typed, WorkspaceTypeOK, CallType
<1>1. ASSUME NEW j \in Calls,
             \/ BeginCreate(j) \/ BeginMove(j) \/ BeginEdit(j) \/ BeginArchive(j)
             \/ BeginTrash(j) \/ BeginRestore(j) \/ BeginPurge(j)
      PROVE  FALSE
  BY <1>1 DEF BeginCreate, BeginMove, BeginEdit, BeginArchive, BeginTrash, BeginRestore,
              BeginPurge, Begin
<1>2. ASSUME NEW j \in Calls, Wipe(j) \/ Refuse(j) PROVE FALSE
  BY <1>2 DEF Wipe, Refuse
<1>3. ASSUME Crash \/ \E c \in Courses : Work(c) PROVE FALSE
  BY <1>3 DEF Crash, Work
<1>4. ASSUME NEW j \in Calls, Create(j) \/ Move(j) \/ Edit(j) \/ Trash(j) \/ Purge(j)
      PROVE  FALSE
  <2>1. call[j].op # "restore" /\ Done(j)
    BY <1>4 DEF Create, Move, Edit, Trash, Purge
  <2>2. j # k
    BY <2>1
  <2>3. call'[k] = call[k]
    BY <1>0, <2>1, <2>2 DEF Done
  <2> QED BY <1>0, <2>3
<1>5. ASSUME NEW j \in Calls, Restore(j) PROVE Restore(k)
  <2>1. CASE j = k
    BY <1>5, <2>1
  <2>2. CASE j # k
    <3>1. call'[k] = call[k]
      BY <1>0, <1>5, <2>2 DEF Restore, Done
    <3> QED BY <1>0, <3>1
  <2> QED BY <2>1, <2>2
<1> QED BY <1>1, <1>2, <1>3, <1>4, <1>5 DEF WorkspaceNext

(* Every restore, for any bin and any requests in between, leaves what it  *)
(* restored visible.                                                       *)
THEOREM RestoredIsVisible == WorkspaceSpec => RestoreAttaches
<1> DEFINE Attaches ==
      \A k \in Calls :
        call[k].op = "restore" /\ call'[k] = Idle
            /\ <<at', parent', binned'>> # <<at, parent, binned>> =>
          \A x \in call[k].items \cap Placed :
            at'[x] = "active" => parent'[x] = Root \/ at'[parent'[x]] = "active"
<1>1. Typed /\ [WorkspaceNext]_vars => [Attaches]_vars
  <2> SUFFICES ASSUME Typed, WorkspaceNext PROVE Attaches
    OBVIOUS
  <2> QED BY RestoreIsTheStep, RestoreStepAttaches
<1>2. WorkspaceSpec => [][Attaches]_vars
  BY <1>1, InitTyped, NextTyped, PTL DEF WorkspaceSpec
<1> QED BY <1>2 DEF RestoreAttaches

-----------------------------------------------------------------------------
(* The way up.  Path(up, x) is the least set of places that holds x and is *)
(* closed under up: the number of steps it climbs is large enough.         *)
Climbs(g, up, x, n) ==
  g = [i \in 0 .. n |-> IF i = 0 THEN {x}
                        ELSE g[i - 1] \cup {up[y] : y \in g[i - 1] \ {Root}}]
Closed(up, S) == \A y \in S \ {Root} : up[y] \in S

(* A set of numbers that is not empty has a least one.                     *)
LEMMA LeastOf ==
  ASSUME NEW T, T \subseteq Nat, T # {}
  PROVE  \E m \in T : \A n \in T : m <= n
<1> DEFINE R == {ss \in Nat \X Nat : ss[1] < ss[2]}
<1>1. IsWellFoundedOn(R, Nat)
  BY NatLessThanWellFounded, Zenon DEF OpToRel
<1>2. PICK m \in T : \A n \in T : ~ (<<n, m>> \in R)
  <2> HIDE DEF R
  <2> QED BY <1>1, WFMin
<1>3. \A n \in T : n \in Nat /\ m \in Nat /\ ~(n < m)
  BY <1>2
<1>4. \A n \in T : m <= n
  BY <1>3
<1> QED BY <1>4

LEMMA ClimbExists ==
  ASSUME NEW up, NEW x, NEW n \in Nat
  PROVE  \E g : Climbs(g, up, x, n)
<1> DEFINE T == {m \in Nat : ~ \E g : Climbs(g, up, x, m)}
<1>1. SUFFICES ASSUME T # {} PROVE FALSE
  OBVIOUS
<1>2. PICK m \in T : \A k \in T : m <= k
  <2>1. T \subseteq Nat
    OBVIOUS
  <2> HIDE DEF T
  <2> QED BY <1>1, <2>1, LeastOf
<1>3. CASE m = 0
  <2> DEFINE g == [i \in 0 .. 0 |-> {x}]
  <2>1. \A i \in 0 .. 0 : i = 0
    OBVIOUS
  <2>2. Climbs(g, up, x, 0)
    BY <2>1 DEF Climbs
  <2> QED BY <1>2, <1>3, <2>2
<1>4. CASE m # 0
  <2>1. m - 1 \in Nat /\ ~(m <= m - 1) /\ m \in Nat
    BY <1>2, <1>4
  <2>2. PICK h : Climbs(h, up, x, m - 1)
    BY <1>2, <2>1
  <2> DEFINE next == h[m - 1] \cup {up[y] : y \in h[m - 1] \ {Root}}
             g == [i \in 0 .. m |-> IF i = m THEN next ELSE h[i]]
  <2>3. \A i \in 0 .. m - 1 : g[i] = h[i]
    BY <2>1
  <2>4. \A i \in 0 .. m : g[i] = IF i = 0 THEN {x}
                                 ELSE g[i - 1] \cup {up[y] : y \in g[i - 1] \ {Root}}
    <3> TAKE i \in 0 .. m
    <3>1. CASE i = m
      <4>1. g[i] = next /\ g[i - 1] = h[m - 1] /\ i # 0
        BY <1>4, <2>1, <2>3, <3>1
      <4> QED BY <3>1, <4>1
    <3>2. CASE i # m
      <4>1. i \in 0 .. m - 1 /\ (i # 0 => i - 1 \in 0 .. m - 1)
        BY <2>1, <3>2
      <4>2. h[i] = IF i = 0 THEN {x} ELSE h[i - 1] \cup {up[y] : y \in h[i - 1] \ {Root}}
        BY <2>2, <4>1 DEF Climbs
      <4> HIDE DEF g
      <4>3. g[i] = h[i] /\ (i # 0 => g[i - 1] = h[i - 1])
        BY <2>3, <4>1
      <4> QED BY <4>2, <4>3
    <3> QED BY <3>1, <3>2
  <2>5. DOMAIN g = 0 .. m /\ g = [i \in 0 .. m |-> g[i]]
    OBVIOUS
  <2> HIDE DEF g
  <2>6. Climbs(g, up, x, m)
    BY <2>4, <2>5 DEF Climbs
  <2> QED BY <1>2, <2>6
<1> QED BY <1>3, <1>4

LEMMA PathIs ==
  ASSUME NEW up, NEW x
  PROVE  \E g : Climbs(g, up, x, Cardinality(Folders))
                /\ Path(up, x) = g[Cardinality(Folders)]
<1>1. Cardinality(Folders) \in Nat
  BY WorkspaceAssumption, FS_CardinalityType
<1>2. PICK h : Climbs(h, up, x, Cardinality(Folders))
  BY <1>1, ClimbExists
<1> DEFINE g == CHOOSE f : f = [n \in 0 .. Cardinality(Folders) |->
                  IF n = 0 THEN {x} ELSE f[n - 1] \cup {up[y] : y \in f[n - 1] \ {Root}}]
<1>3. Climbs(g, up, x, Cardinality(Folders))
  BY <1>2 DEF Climbs
<1>4. Path(up, x) = g[Cardinality(Folders)]
  BY DEF Path
<1> QED BY <1>3, <1>4

(* What holds of the start and of each step holds of every set on the way. *)
LEMMA PathLeast ==
  ASSUME NEW up, NEW x, NEW S, x \in S, Closed(up, S)
  PROVE  Path(up, x) \subseteq S
<1>1. PICK N \in Nat : N = Cardinality(Folders)
  BY WorkspaceAssumption, FS_CardinalityType
<1>2. PICK g : Climbs(g, up, x, N) /\ Path(up, x) = g[N]
  BY <1>1, PathIs
<1> DEFINE T == {n \in Nat : n <= N /\ ~(g[n] \subseteq S)}
<1>3. T = {}
  <2>1. SUFFICES ASSUME T # {} PROVE FALSE
    OBVIOUS
  <2>2. PICK m \in T : \A k \in T : m <= k
    <3>1. T \subseteq Nat
      OBVIOUS
    <3> HIDE DEF T
    <3> QED BY <2>1, <3>1, LeastOf
  <2>3. m # 0
    BY <1>2, <2>2 DEF Climbs
  <2>4. m \in 0 .. N /\ m - 1 \in Nat /\ m - 1 <= N /\ ~(m <= m - 1)
    BY <2>2, <2>3
  <2>5. g[m - 1] \subseteq S
    BY <2>2, <2>4
  <2>6. g[m] = g[m - 1] \cup {up[y] : y \in g[m - 1] \ {Root}}
    BY <1>2, <2>3, <2>4 DEF Climbs
  <2>7. g[m] \subseteq S
    BY <2>5, <2>6 DEF Closed
  <2> QED BY <2>2, <2>7
<1>4. N \in Nat /\ N <= N
  OBVIOUS
<1> QED BY <1>2, <1>3, <1>4

LEMMA PathCloses ==
  ASSUME NEW up \in [Placed -> Places], NEW x \in Places
  PROVE  x \in Path(up, x) /\ Closed(up, Path(up, x)) /\ Path(up, x) \subseteq Places
<1>1. PICK N \in Nat : N = Cardinality(Folders)
  BY WorkspaceAssumption, FS_CardinalityType
<1>2. PICK g : Climbs(g, up, x, N) /\ Path(up, x) = g[N]
  BY <1>1, PathIs
<1>3. IsFiniteSet(Places) /\ Cardinality(Places) = N + 1
  BY <1>1, WorkspaceAssumption, FS_AddElement DEF Places
<1>4. Path(up, x) \subseteq Places
  <2>1. Closed(up, Places)
    BY DEF Closed, Places, Placed
  <2> QED BY <2>1, PathLeast
<1>5. \A n \in 1 .. N : g[n] = g[n - 1] \cup {up[y] : y \in g[n - 1] \ {Root}}
  <2> TAKE n \in 1 .. N
  <2>1. n \in 0 .. N /\ n # 0
    OBVIOUS
  <2> QED BY <1>2, <2>1 DEF Climbs
<1>6. g[0] = {x}
  BY <1>2 DEF Climbs
<1> DEFINE Fine(n) == /\ x \in g[n] /\ g[n] \subseteq Places
                      /\ Closed(up, g[n]) \/ n + 1 <= Cardinality(g[n])
           T == {n \in Nat : n <= N /\ ~Fine(n)}
<1>7. T = {}
  <2>1. SUFFICES ASSUME T # {} PROVE FALSE
    OBVIOUS
  <2>2. PICK m \in T : \A k \in T : m <= k
    <3>1. T \subseteq Nat
      OBVIOUS
    <3> HIDE DEF T
    <3> QED BY <2>1, <3>1, LeastOf
  <2>3. m # 0
    <3>1. Cardinality(g[0]) = 1
      BY <1>6, FS_Singleton
    <3> QED BY <1>6, <2>2, <3>1
  <2>4. m \in 1 .. N /\ m - 1 \in Nat /\ m - 1 <= N /\ ~(m <= m - 1)
    BY <2>2, <2>3
  <2>5. Fine(m - 1)
    BY <2>2, <2>4
  <2>6. g[m] = g[m - 1] \cup {up[y] : y \in g[m - 1] \ {Root}}
    BY <1>5, <2>4
  <2>7. g[m] \subseteq Places /\ x \in g[m]
    BY <2>5, <2>6 DEF Places, Placed
  <2>8. CASE Closed(up, g[m - 1])
    <3>1. g[m] = g[m - 1]
      BY <2>6, <2>8 DEF Closed
    <3> QED BY <2>2, <2>7, <2>8, <3>1
  <2>9. CASE ~Closed(up, g[m - 1])
    <3>1. PICK y \in g[m - 1] \ {Root} : up[y] \notin g[m - 1]
      BY <2>9 DEF Closed
    <3>2. g[m - 1] \subseteq g[m] /\ g[m - 1] # g[m]
      BY <2>6, <3>1
    <3>3. IsFiniteSet(g[m])
      BY <1>3, <2>7, FS_Subset
    <3>4. IsFiniteSet(g[m - 1]) /\ Cardinality(g[m - 1]) <= Cardinality(g[m])
          /\ Cardinality(g[m - 1]) # Cardinality(g[m])
      BY <3>2, <3>3, FS_Subset
    <3>5. PICK a \in Nat : a = Cardinality(g[m - 1])
      BY <3>4, FS_CardinalityType
    <3>6. PICK b \in Nat : b = Cardinality(g[m])
      BY <3>3, FS_CardinalityType
    <3>7. m <= a
      BY <2>4, <2>5, <2>9, <3>5
    <3>8. m + 1 <= b
      BY <2>4, <3>4, <3>5, <3>6, <3>7
    <3> QED BY <2>2, <2>7, <3>6, <3>8
  <2> QED BY <2>8, <2>9
<1>8. Fine(N)
  BY <1>7
<1>9. Closed(up, g[N])
  <2>1. CASE N + 1 <= Cardinality(g[N])
    <3>1. Cardinality(g[N]) <= Cardinality(Places)
          /\ (Cardinality(Places) = Cardinality(g[N]) => Places = g[N])
          /\ IsFiniteSet(g[N])
      BY <1>3, <1>8, FS_Subset
    <3>2. PICK a \in Nat : a = Cardinality(g[N])
      BY <3>1, FS_CardinalityType
    <3>3. a = N + 1
      BY <1>3, <2>1, <3>1, <3>2
    <3>4. g[N] = Places
      BY <1>3, <3>1, <3>2, <3>3
    <3> QED BY <3>4 DEF Closed, Places, Placed
  <2> QED BY <1>8, <2>1
<1> QED BY <1>2, <1>4, <1>8, <1>9

(* A tree stays one when something is put under a place it is not above,   *)
(* or under the root.                                                      *)
LEMMA TreeAfterMove ==
  ASSUME NEW up \in [Placed -> Places], NEW new \in [Placed -> Places],
         \A g \in Folders : Root \in Path(up, g),
         NEW x, NEW to \in Places, Root \in Path(up, to), x \notin Path(up, to) \ {Root},
         \A y \in Folders : y # x => new[y] = up[y],
         x \in Folders => new[x] = to
  PROVE  \A g \in Folders : Root \in Path(new, g)
<1> SUFFICES ASSUME NEW g \in Folders, Root \notin Path(new, g) PROVE FALSE
  OBVIOUS
<1> DEFINE P == Path(new, g)
<1>1. g \in Places /\ g # Root
  BY WorkspaceAssumption DEF Places
<1>2. g \in P /\ Closed(new, P) /\ P \subseteq Folders
  BY <1>1, PathCloses DEF Places
<1>3. to \in Path(up, to) /\ Closed(up, Path(up, to)) /\ Path(up, to) \subseteq Places
  BY PathCloses
<1> HIDE DEF P
<1>4. Root \notin P
  BY DEF P
<1>5. CASE x \in P
  <2>1. to \in P
    BY <1>2, <1>4, <1>5 DEF Closed
  <2> DEFINE S == Path(up, to) \cap P
  <2>2. ASSUME NEW y \in S \ {Root} PROVE up[y] \in S
    <3>1. y \in Folders /\ y # x /\ up[y] \in Path(up, to)
      BY <1>2, <1>3 DEF Closed
    <3>2. new[y] \in P
      BY <1>2 DEF Closed
    <3> QED BY <3>1, <3>2
  <2>3. Closed(up, S) /\ to \in S
    BY <1>3, <2>1, <2>2 DEF Closed
  <2> HIDE DEF S
  <2>4. Path(up, to) \subseteq S
    BY <2>3, PathLeast
  <2> QED BY <1>4, <2>4 DEF S
<1>6. CASE x \notin P
  <2>1. Closed(up, P)
    BY <1>2, <1>6 DEF Closed
  <2>2. Path(up, g) \subseteq P
    BY <1>2, <2>1, PathLeast
  <2> QED BY <1>4, <2>2
<1> QED BY <1>5, <1>6

LEMMA TreeAfterRooting ==
  ASSUME NEW up \in [Placed -> Places], NEW new \in [Placed -> Places],
         \A g \in Folders : Root \in Path(up, g),
         \A y \in Folders : new[y] \in {up[y], Root}
  PROVE  \A g \in Folders : Root \in Path(new, g)
<1> SUFFICES ASSUME NEW g \in Folders, Root \notin Path(new, g) PROVE FALSE
  OBVIOUS
<1> DEFINE P == Path(new, g)
<1>1. g \in P /\ Closed(new, P) /\ P \subseteq Folders
  BY PathCloses DEF Places
<1>2. Root \notin P
  OBVIOUS
<1> HIDE DEF P
<1>3. \A y \in P \ {Root} : up[y] \in P
  <2> TAKE y \in P \ {Root}
  <2>1. new[y] \in P /\ y \in Folders
    BY <1>1 DEF Closed
  <2> QED BY <1>2, <2>1
<1>4. Closed(up, P)
  BY <1>3 DEF Closed
<1>5. Path(up, g) \subseteq P
  BY <1>1, <1>4, PathLeast
<1> QED BY <1>2, <1>5

(* What hangs under something a folder or project takes along, goes along. *)
LEMMA WithGoesDown ==
  ASSUME NEW up \in [Placed -> Places], NEW e \in Entities,
         NEW x \in Placed, up[x] \in With(e, up), up[x] # Root
  PROVE  x \in With(e, up)
<1>1. up[x] \in Folders
  BY DEF Places
<1>2. e \in Folders /\ up[x] \in Under(up, e)
  <2>1. up[x] \notin Projects /\ up[x] \notin Courses
    BY <1>1, WorkspaceAssumption
  <2>2. up[x] # e \/ e \in Folders
    BY <1>1
  <2> QED BY <2>1, <2>2, WorkspaceAssumption DEF With, Entities, Placed
<1>3. CASE x \in Projects
  <2>1. e \notin Projects
    BY <1>2, WorkspaceAssumption
  <2> QED BY <1>2, <1>3, <2>1 DEF With
<1>4. CASE x \in Folders
  <2>1. x \in Places /\ up[x] \in Places /\ x # Root
    BY <1>4, WorkspaceAssumption DEF Places
  <2>2. x \in Path(up, x) /\ Closed(up, Path(up, x))
    BY <2>1, PathCloses
  <2>3. up[x] \in Path(up, x)
    BY <2>1, <2>2 DEF Closed
  <2>4. Path(up, up[x]) \subseteq Path(up, x)
    BY <2>2, <2>3, PathLeast
  <2>5. e \in Path(up, x)
    BY <1>2, <2>4 DEF Under
  <2> QED BY <1>2, <1>4, <2>5 DEF With, Under
<1> QED BY <1>3, <1>4 DEF Placed

-----------------------------------------------------------------------------
(* What the request in flight has read still holds when it writes, as long *)
(* as it is alone and names nothing archived.                              *)
Reads(c) ==
  /\ c.op = "create" => ValidParent(Root, c.to)
  /\ c.op = "move" =>
       /\ c.on \in Folders => ValidParent(c.on, c.to)
       /\ c.to = Root \/ at[c.to] = "active"
  /\ c.op = "edit" =>
       /\ c.on \notin binned
       /\ c.on \in Folders => /\ ValidParent(c.on, c.to) \/ (c.to = parent[c.on] /\ c.archive)
                              /\ c.archive => FolderEmpty(c.on)
       /\ c.on \in Projects => c.to = Root \/ at[c.to] = "active"
  /\ c.op = "trash" => c.seen = parent /\ \E x \in Entities : c.items = Selection(x)
  /\ c.op \in {"restore", "purge", "wiped"} => c.items \subseteq binned
  /\ c.op = "restore" => c.seen = origin
  /\ c.op \in {"purge", "wiped"} => \A x \in c.items \cap Courses : work[x] = "quiet"
  /\ c.op = "wiped" => c.items \subseteq wiped

Alone == \A k \in Calls :
  call[k] # Idle => Reads(call[k]) /\ \A j \in Calls \ {k} : call[j] = Idle
Rooted == \A f \in Folders : Root \in Path(parent, f)
Attached == \A x \in Placed : at[x] = "active" => parent[x] = Root \/ at[parent[x]] = "active"
BinFits == \A x \in binned : at[x] = "archived" /\ (x \in Placed => origin[x] = parent[x])

Tree == Rooted /\ Attached /\ BinFits
Careful == careless \/ (Alone /\ Tree)

Rows == <<at, parent, binned, origin, work, wiped>>

LEMMA TreeStays == Tree /\ UNCHANGED <<at, parent, binned, origin>> => Tree'
  BY DEF Tree, Rooted, Attached, BinFits

LEMMA ValidIs ==
  ASSUME Typed, NEW f, NEW to \in Places, ValidParent(f, to)
  PROVE  /\ Root \in Path(parent, to) /\ f \notin Path(parent, to) \ {Root}
         /\ \A g \in Path(parent, to) \ {Root} : at[g] = "active"
         /\ to = Root \/ at[to] = "active"
<1>1. parent \in [Placed -> Places]
  BY DEF Typed, WorkspaceTypeOK
<1>2. to \in Path(parent, to)
  BY <1>1, PathCloses
<1> QED BY <1>2 DEF ValidParent

(* A request begins.                                                       *)
LEMMA BeginCareful ==
  ASSUME Typed, Careful, NEW k \in Calls, NEW c \in CallType, NEW b,
         Begin(k, c, b), ~b /\ ~careless => Reads(c)
  PROVE  Careful'
<1> SUFFICES ASSUME ~careless' PROVE Alone' /\ Tree'
  BY DEF Careful
<1>1. /\ call[k] = Idle /\ call' = [call EXCEPT ![k] = c]
      /\ ~careless /\ ~b /\ \A j \in Calls \ {k} : call[j] = Idle
      /\ UNCHANGED Rows
  BY Zenon DEF Begin, Rows
<1>2. Tree' /\ Reads(c)
  BY <1>1, TreeStays DEF Careful, Rows
<1>3. call \in [Calls -> CallType]
  BY DEF Typed, WorkspaceTypeOK, CallType
<1>4. call'[k] = c /\ \A j \in Calls \ {k} : call'[j] = Idle
  BY <1>1, <1>3
<1>5. Reads(call[k])'
  BY <1>1, <1>2, <1>4 DEF Reads, ValidParent, FolderEmpty, Selection, Exists, Rows
<1>6. Alone'
  BY <1>4, <1>5 DEF Alone
<1> QED BY <1>2, <1>6

(* A request ends.                                                         *)
LEMMA EndCareful ==
  ASSUME Typed, Careful, NEW k \in Calls, call[k] # Idle, Done(k),
         careless' = careless, Alone /\ Tree => Tree'
  PROVE  Careful'
<1> SUFFICES ASSUME ~careless PROVE Alone' /\ Tree'
  BY DEF Careful
<1>1. call \in [Calls -> CallType]
  BY DEF Typed, WorkspaceTypeOK, CallType
<1>2. Alone /\ Tree
  BY DEF Careful
<1>3. \A j \in Calls : call'[j] = Idle
  BY <1>1, <1>2 DEF Alone, Done
<1>4. Alone'
  BY <1>3 DEF Alone
<1> QED BY <1>2, <1>4

LEMMA BeginsCareful ==
  ASSUME Typed, Careful, NEW k \in Calls,
         \/ BeginCreate(k) \/ BeginMove(k) \/ BeginEdit(k) \/ BeginArchive(k)
         \/ BeginTrash(k) \/ BeginRestore(k) \/ BeginPurge(k)
  PROVE  Careful'
<1>0. /\ parent \in [Placed -> Places] /\ origin \in [Placed -> Places] /\ age \in [Placed -> Nat]
      /\ parent \in [Placed -> Nat] /\ origin \in [Placed -> Nat]
      /\ binned \subseteq Entities /\ Idle \in CallType /\ Idle.op = "idle"
  BY FunctionsIntoNat, IdleTyped DEF Typed, WorkspaceTypeOK
<1>1. CASE BeginCreate(k)
  <2>1. PICK to \in Places : ValidParent(Root, to)
          /\ Begin(k, [Idle EXCEPT !.op = "create", !.to = to], FALSE)
    BY <1>1 DEF BeginCreate
  <2> DEFINE c == [Idle EXCEPT !.op = "create", !.to = to]
  <2>2. c \in CallType /\ c.op = "create" /\ c.to = to
    BY <1>0 DEF CallType, Ops
  <2> HIDE DEF c
  <2>3. Reads(c)
    BY <2>1, <2>2 DEF Reads
  <2>4. Begin(k, c, FALSE)
    BY <2>1 DEF c
  <2> QED BY <2>2, <2>3, <2>4, BeginCareful
<1>2. CASE BeginMove(k)
  <2>1. PICK x \in Placed, to \in Places :
          /\ x \in Folders => ValidParent(x, to)
          /\ Exists(x) /\ Exists(to)
          /\ Begin(k, [Idle EXCEPT !.op = "move", !.on = x, !.to = to, !.items = Siblings(x, to)],
                   \E y \in {x, to} \ {Root} : at[y] # "active")
    BY <1>2 DEF BeginMove
  <2> DEFINE c == [Idle EXCEPT !.op = "move", !.on = x, !.to = to, !.items = Siblings(x, to)]
             b == \E y \in {x, to} \ {Root} : at[y] # "active"
  <2>2. Siblings(x, to) \subseteq Entities
    BY DEF Siblings, Entities, Placed
  <2>3. c \in CallType /\ c.op = "move" /\ c.on = x /\ c.to = to
    BY <1>0, <2>2 DEF CallType, Ops, Entities
  <2> HIDE DEF c
  <2>4. ~b => Reads(c)
    BY <2>1, <2>3 DEF Reads
  <2>5. Begin(k, c, b)
    BY <2>1 DEF c
  <2> HIDE DEF b
  <2> QED BY <2>3, <2>4, <2>5, BeginCareful
<1>3. CASE BeginEdit(k)
  <2>1. PICK x \in Entities, to \in Places, archive \in BOOLEAN :
          /\ CASE x \in Folders  -> ValidParent(x, to) /\ (archive => FolderEmpty(x))
               [] x \in Projects -> to # Root => at[to] = "active"
               [] OTHER          -> to = Root
          /\ Begin(k, [Idle EXCEPT !.op = "edit", !.on = x, !.to = to, !.archive = archive],
                   x \in binned)
    BY <1>3 DEF BeginEdit
  <2> DEFINE c == [Idle EXCEPT !.op = "edit", !.on = x, !.to = to, !.archive = archive]
  <2>2. c \in CallType /\ c.op = "edit" /\ c.on = x /\ c.to = to /\ c.archive = archive
    BY <1>0 DEF CallType, Ops
  <2>3. /\ x \in Folders => ValidParent(x, to) /\ (archive => FolderEmpty(x))
        /\ x \in Projects => to = Root \/ at[to] = "active"
    BY <2>1, WorkspaceAssumption
  <2> HIDE DEF c
  <2>4. x \notin binned => Reads(c)
    BY <2>2, <2>3 DEF Reads
  <2>5. Begin(k, c, x \in binned)
    BY <2>1 DEF c
  <2> QED BY <2>2, <2>4, <2>5, BeginCareful
<1>4. CASE BeginArchive(k)
  <2>1. PICK f \in Folders : FolderEmpty(f) /\
          Begin(k, [Idle EXCEPT !.op = "edit", !.on = f, !.to = parent[f], !.archive = TRUE],
                f \in binned)
    BY <1>4 DEF BeginArchive
  <2>2. PICK to \in Places : to = parent[f]
    BY <1>0 DEF Placed
  <2> DEFINE c == [Idle EXCEPT !.op = "edit", !.on = f, !.to = to, !.archive = TRUE]
  <2>3. c \in CallType /\ c.op = "edit" /\ c.on = f /\ c.to = to /\ c.archive
    BY <1>0 DEF CallType, Ops, Entities, Placed
  <2> HIDE DEF c
  <2>4. f \notin binned => Reads(c)
    BY <2>1, <2>2, <2>3, WorkspaceAssumption DEF Reads
  <2>5. Begin(k, c, f \in binned)
    BY <2>1, <2>2 DEF c
  <2> QED BY <2>3, <2>4, <2>5, BeginCareful
<1>5. CASE BeginTrash(k)
  <2>1. PICK x \in Entities :
          Begin(k, [Idle EXCEPT !.op = "trash", !.on = x, !.items = Selection(x), !.seen = parent],
                FALSE)
    BY <1>5 DEF BeginTrash
  <2>2. PICK items \in SUBSET Entities : items = Selection(x)
    BY SelectionsAreEntities DEF Selection
  <2>3. PICK seen \in [Placed -> Nat] : seen = parent
    BY <1>0
  <2> DEFINE c == [Idle EXCEPT !.op = "trash", !.on = x, !.items = items, !.seen = seen]
  <2>4. c \in CallType /\ c.op = "trash" /\ c.items = items /\ c.seen = seen
    BY <1>0 DEF CallType, Ops
  <2>5. Begin(k, c, FALSE)
    BY <2>1, <2>2, <2>3
  <2> HIDE DEF c
  <2>6. Reads(c)
    BY <2>2, <2>3, <2>4 DEF Reads
  <2> QED BY <2>4, <2>5, <2>6, BeginCareful
<1>6. CASE BeginRestore(k)
  <2>1. PICK x \in binned :
          Begin(k, [Idle EXCEPT !.op = "restore", !.on = x, !.items = BinSelection(x),
                                !.seen = origin], FALSE)
    BY <1>6 DEF BeginRestore
  <2>2. PICK items \in SUBSET Entities : items = BinSelection(x) /\ items \subseteq binned
    BY <1>0 DEF BinSelection
  <2>3. PICK seen \in [Placed -> Nat] : seen = origin
    BY <1>0
  <2> DEFINE c == [Idle EXCEPT !.op = "restore", !.on = x, !.items = items, !.seen = seen]
  <2>4. c \in CallType /\ c.op = "restore" /\ c.items = items /\ c.seen = seen
    BY <1>0 DEF CallType, Ops
  <2>5. Begin(k, c, FALSE)
    BY <2>1, <2>2, <2>3
  <2> HIDE DEF c
  <2>6. Reads(c)
    BY <2>2, <2>3, <2>4 DEF Reads
  <2> QED BY <2>4, <2>5, <2>6, BeginCareful
<1>7. CASE BeginPurge(k)
  <2>1. PICK x \in binned :
          /\ \A y \in BinSelection(x) \cap Courses : work[y] = "quiet"
          /\ Begin(k, [Idle EXCEPT !.op = "purge", !.on = x, !.items = BinSelection(x), !.seen = age],
                   FALSE)
    BY <1>7 DEF BeginPurge
  <2>2. PICK items \in SUBSET Entities : items = BinSelection(x) /\ items \subseteq binned
    BY <1>0 DEF BinSelection
  <2>3. PICK seen \in [Placed -> Nat] : seen = age
    BY <1>0
  <2> DEFINE c == [Idle EXCEPT !.op = "purge", !.on = x, !.items = items, !.seen = seen]
  <2>4. c \in CallType /\ c.op = "purge" /\ c.items = items
    BY <1>0 DEF CallType, Ops
  <2>5. Begin(k, c, FALSE)
    BY <2>1, <2>2, <2>3
  <2> HIDE DEF c
  <2>6. Reads(c)
    BY <2>1, <2>2, <2>4 DEF Reads
  <2> QED BY <2>4, <2>5, <2>6, BeginCareful
<1> QED BY <1>1, <1>2, <1>3, <1>4, <1>5, <1>6, <1>7

(* Each write of a careful request keeps the tree.                         *)
LEMMA CreateTree ==
  ASSUME Typed, Alone, Tree, NEW k \in Calls, Create(k)
  PROVE  Tree'
<1>0. RowsTyped /\ Entities = Placed \cup Courses /\ Placed = Folders \cup Projects
  BY DEF Typed, WorkspaceTypeOK, RowsTyped, Entities, Placed
<1>1. PICK f \in Folders : /\ at[f] = "none"
                           /\ at' = [at EXCEPT ![f] = "active"]
                           /\ parent' = [parent EXCEPT ![f] = call[k].to]
  BY DEF Create, NextId
<1>2. PICK to \in Places : to = call[k].to
  BY DEF Typed, WorkspaceTypeOK
<1>3. call[k].op = "create" /\ UNCHANGED <<binned, origin>>
  BY DEF Create
<1>4. ValidParent(Root, to)
  BY <1>2, <1>3, IdleTyped DEF Alone, Reads
<1>5. /\ Root \in Path(parent, to)
      /\ to = Root \/ at[to] = "active"
      /\ \A g \in Path(parent, to) \ {Root} : at[g] = "active"
  BY <1>4, ValidIs
<1>6. f # Root
  BY WorkspaceAssumption
<1>7. Rooted'
  <2>1. f \notin Path(parent, to) \ {Root}
    BY <1>1, <1>5
  <2>2. PICK new \in [Placed -> Places] : new = parent' /\ new = [parent EXCEPT ![f] = to]
    BY <1>0, <1>1, <1>2 DEF RowsTyped
  <2>3. /\ \A y \in Folders : y # f => new[y] = parent[y]
        /\ new[f] = to
    BY <1>0, <2>2 DEF RowsTyped
  <2>4. PICK up \in [Placed -> Places] : up = parent
    BY <1>0 DEF RowsTyped
  <2>5. \A g \in Folders : Root \in Path(up, g)
    BY <2>4 DEF Tree, Rooted
  <2>6. /\ Root \in Path(up, to) /\ f \notin Path(up, to) \ {Root}
        /\ \A y \in Folders : y # f => new[y] = up[y]
        /\ f \in Folders => new[f] = to
    BY <1>5, <2>1, <2>3, <2>4
  <2>7. \A g \in Folders : Root \in Path(new, g)
    BY <2>5, <2>6, TreeAfterMove
  <2> QED BY <2>2, <2>7 DEF Rooted
<1>8. Attached'
  <2> SUFFICES ASSUME NEW x \in Placed, at'[x] = "active"
               PROVE  parent'[x] = Root \/ at'[parent'[x]] = "active"
    BY DEF Attached
  <2>1. CASE x = f
    <3>1. parent'[x] = to
      BY <1>0, <1>1, <1>2, <2>1 DEF RowsTyped
    <3>2. to # Root => to # f /\ at'[to] = "active"
      BY <1>0, <1>1, <1>5 DEF RowsTyped, Places
    <3> QED BY <3>1, <3>2
  <2>2. CASE x # f
    <3>1. at[x] = "active" /\ parent'[x] = parent[x]
      BY <1>0, <1>1, <2>2 DEF RowsTyped
    <3>2. parent[x] = Root \/ at[parent[x]] = "active"
      BY <3>1 DEF Tree, Attached
    <3>3. parent[x] \in Places
      BY <1>0 DEF RowsTyped
    <3> QED BY <1>0, <1>1, <3>1, <3>2, <3>3 DEF RowsTyped, Places
  <2> QED BY <2>1, <2>2
<1>9. BinFits'
  BY <1>0, <1>1, <1>3 DEF Tree, BinFits, RowsTyped
<1> QED BY <1>7, <1>8, <1>9 DEF Tree

LEMMA MoveTree ==
  ASSUME Typed, Alone, Tree, NEW k \in Calls, Move(k)
  PROVE  Tree'
<1>0. /\ RowsTyped /\ Entities = Placed \cup Courses /\ Placed = Folders \cup Projects
      /\ call[k].op = "move" /\ UNCHANGED <<at, binned, origin>>
  BY DEF Typed, WorkspaceTypeOK, RowsTyped, Entities, Placed, Move
<1>1. PICK to \in Places : to = call[k].to
  BY DEF Typed, WorkspaceTypeOK
<1>2. PICK x : x = call[k].on
  OBVIOUS
<1>3. /\ x \in Folders => ValidParent(x, to)
      /\ to = Root \/ at[to] = "active"
  BY <1>0, <1>1, <1>2, IdleTyped DEF Alone, Reads
<1>4. at[x] = "active" /\ parent' = [parent EXCEPT ![x] = to]
  BY <1>1, <1>2 DEF Move
<1>5. parent' \in [Placed -> Places]
  BY <1>0, <1>4 DEF RowsTyped
<1>6. Rooted'
  <2>1. CASE x \in Folders
    <3>1. Root \in Path(parent, to) /\ x \notin Path(parent, to) \ {Root}
      BY <1>3, <2>1, ValidIs
    <3>2. PICK new \in [Placed -> Places] : new = parent'
      BY <1>5
    <3>3. PICK up \in [Placed -> Places] : up = parent
      BY <1>0 DEF RowsTyped
    <3>4. (\A y \in Folders : y # x => new[y] = up[y]) /\ (x \in Folders => new[x] = to)
      BY <1>0, <1>4, <3>2, <3>3
    <3>5. \A g \in Folders : Root \in Path(up, g)
      BY <3>3 DEF Tree, Rooted
    <3>6. \A g \in Folders : Root \in Path(new, g)
      BY <3>1, <3>3, <3>4, <3>5, TreeAfterMove
    <3> QED BY <3>2, <3>6 DEF Rooted
  <2>2. CASE x \notin Folders
    <3>1. PICK new \in [Placed -> Places] : new = parent'
      BY <1>5
    <3>2. PICK up \in [Placed -> Places] : up = parent
      BY <1>0 DEF RowsTyped
    <3>3. \A y \in Folders : new[y] \in {up[y], Root}
      BY <1>0, <1>4, <2>2, <3>1, <3>2
    <3>4. \A g \in Folders : Root \in Path(up, g)
      BY <3>2 DEF Tree, Rooted
    <3>5. \A g \in Folders : Root \in Path(new, g)
      BY <3>3, <3>4, TreeAfterRooting
    <3> QED BY <3>1, <3>5 DEF Rooted
  <2> QED BY <2>1, <2>2
<1>7. Attached'
  BY <1>0, <1>3, <1>4 DEF Tree, Attached, RowsTyped
<1>8. BinFits'
  BY <1>0, <1>4 DEF Tree, BinFits, RowsTyped
<1> QED BY <1>6, <1>7, <1>8 DEF Tree

LEMMA EditTree ==
  ASSUME Typed, Alone, Tree, NEW k \in Calls, Edit(k)
  PROVE  Tree'
<1>0. /\ RowsTyped /\ Entities = Placed \cup Courses /\ Placed = Folders \cup Projects
      /\ call[k].op = "edit" /\ UNCHANGED <<binned, origin>>
  BY DEF Typed, WorkspaceTypeOK, RowsTyped, Entities, Placed, Edit
<1>1. PICK to \in Places : to = call[k].to
  BY DEF Typed, WorkspaceTypeOK
<1>2. PICK x \in Entities : x = call[k].on
  BY <1>0 DEF Typed, SeenPlaces, Fits
<1>3. PICK archive \in BOOLEAN : archive = call[k].archive
  BY DEF Typed, WorkspaceTypeOK
<1>4. /\ x \notin binned
      /\ x \in Folders => /\ ValidParent(x, to) \/ (to = parent[x] /\ archive)
                          /\ archive => FolderEmpty(x)
      /\ x \in Projects => to = Root \/ at[to] = "active"
  BY <1>0, <1>1, <1>2, <1>3, IdleTyped DEF Alone, Reads
<1>5. /\ at' = [at EXCEPT ![x] = IF archive THEN "archived" ELSE "active"]
      /\ parent' = [y \in Placed |-> IF y = x THEN to ELSE parent[y]]
  BY <1>1, <1>2, <1>3 DEF Edit
<1>6. parent' \in [Placed -> Places]
  BY <1>0, <1>5 DEF RowsTyped
<1>7. PICK new \in [Placed -> Places] : new = parent'
  BY <1>6
<1>8. PICK up \in [Placed -> Places] : up = parent
  BY <1>0 DEF RowsTyped
<1>9. \A g \in Folders : Root \in Path(up, g)
  BY <1>8 DEF Tree, Rooted
<1>10. Rooted'
  <2>1. CASE x \in Folders /\ ValidParent(x, to)
    <3>1. Root \in Path(up, to) /\ x \notin Path(up, to) \ {Root}
      BY <1>8, <2>1, ValidIs
    <3>2. (\A y \in Folders : y # x => new[y] = up[y]) /\ (x \in Folders => new[x] = to)
      BY <1>0, <1>5, <1>7, <1>8
    <3>3. \A g \in Folders : Root \in Path(new, g)
      BY <1>9, <3>1, <3>2, TreeAfterMove
    <3> QED BY <1>7, <3>3 DEF Rooted
  <2>2. CASE ~(x \in Folders /\ ValidParent(x, to))
    <3>1. \A y \in Folders : new[y] \in {up[y], Root}
      BY <1>0, <1>4, <1>5, <1>7, <1>8, <2>2
    <3>2. \A g \in Folders : Root \in Path(new, g)
      BY <1>9, <3>1, TreeAfterRooting
    <3> QED BY <1>7, <3>2 DEF Rooted
  <2> QED BY <2>1, <2>2
<1>11. Attached'
  <2> SUFFICES ASSUME NEW y \in Placed, at'[y] = "active"
               PROVE  parent'[y] = Root \/ at'[parent'[y]] = "active"
    BY DEF Attached
  <2>1. CASE y = x
    <3>1. ~archive
      BY <1>0, <1>5, <2>1 DEF RowsTyped
    <3>2. to = Root \/ at[to] = "active"
      BY <1>0, <1>4, <2>1, <3>1, ValidIs
    <3>3. parent'[y] = to
      BY <1>5, <2>1
    <3>4. to # Root => at'[to] = "active"
      BY <1>0, <1>5, <3>1, <3>2 DEF RowsTyped, Places
    <3> QED BY <3>3, <3>4
  <2>2. CASE y # x
    <3>1. at[y] = "active" /\ parent'[y] = parent[y] /\ parent[y] \in Places
      BY <1>0, <1>5, <2>2 DEF RowsTyped
    <3>2. parent[y] = Root \/ at[parent[y]] = "active"
      BY <3>1 DEF Tree, Attached
    <3>3. ASSUME parent[y] # Root PROVE at'[parent[y]] = "active"
      <4>1. parent[y] \in Folders
        BY <3>1, <3>3 DEF Places
      <4>2. parent[y] = x => ~archive
        BY <1>4, <3>1, <4>1 DEF FolderEmpty
      <4> QED BY <1>0, <1>5, <3>2, <3>3, <4>1, <4>2 DEF RowsTyped
    <3> QED BY <3>1, <3>3
  <2> QED BY <2>1, <2>2
<1>12. BinFits'
  <2> SUFFICES ASSUME NEW y \in binned
               PROVE  at'[y] = "archived" /\ (y \in Placed => origin[y] = parent'[y])
    BY <1>0 DEF BinFits
  <2>1. y # x /\ y \in Entities
    BY <1>0, <1>4 DEF RowsTyped
  <2> QED BY <1>0, <1>5, <2>1 DEF Tree, BinFits, RowsTyped
<1> QED BY <1>10, <1>11, <1>12 DEF Tree

LEMMA TrashTree ==
  ASSUME Typed, Alone, Tree, NEW k \in Calls, Trash(k)
  PROVE  Tree'
<1>0. /\ RowsTyped /\ Entities = Placed \cup Courses /\ Placed = Folders \cup Projects
      /\ call[k].op = "trash" /\ parent' = parent
  BY DEF Typed, WorkspaceTypeOK, RowsTyped, Entities, Placed, Trash
<1>1. PICK e \in Entities : call[k].items = Selection(e)
  BY <1>0, IdleTyped DEF Alone, Reads
<1>2. call[k].seen = parent
  BY <1>0, IdleTyped DEF Alone, Reads
<1>3. PICK items \in SUBSET Entities : items = Selection(e)
  BY SelectionsAreEntities DEF Selection
<1>4. /\ at' = [y \in Entities |-> IF y \in items /\ Exists(y) THEN "archived" ELSE at[y]]
      /\ binned' = binned \cup items
      /\ origin' = [y \in Placed |-> IF y \in items \ binned THEN parent[y] ELSE origin[y]]
  BY <1>1, <1>2, <1>3 DEF Trash
<1>5. \A y \in items : Exists(y)
  BY <1>3 DEF Selection
<1>6. Rooted'
  BY <1>0 DEF Tree, Rooted
<1>7. Attached'
  <2> SUFFICES ASSUME NEW y \in Placed, at'[y] = "active"
               PROVE  parent[y] = Root \/ at'[parent[y]] = "active"
    BY <1>0 DEF Attached
  <2>1. at[y] = "active" /\ y \notin items /\ Exists(y)
    BY <1>0, <1>4, <1>5 DEF Exists
  <2>2. parent[y] = Root \/ at[parent[y]] = "active"
    BY <2>1 DEF Tree, Attached
  <2>3. ASSUME parent[y] # Root, parent[y] \in items PROVE FALSE
    <3>1. PICK up \in [Placed -> Places] : up = parent
      BY <1>0 DEF RowsTyped
    <3>2. up[y] \in With(e, up) /\ up[y] # Root
      BY <1>3, <2>3, <3>1 DEF Selection
    <3>3. y \in With(e, up)
      BY <3>2, WithGoesDown
    <3> QED BY <1>3, <2>1, <3>1, <3>3 DEF Selection
  <2>4. parent[y] # Root => parent[y] \in Entities
    BY <1>0 DEF RowsTyped, Places
  <2> QED BY <1>4, <2>2, <2>3, <2>4
<1>8. BinFits'
  <2> SUFFICES ASSUME NEW y \in binned'
               PROVE  at'[y] = "archived" /\ (y \in Placed => origin'[y] = parent[y])
    BY <1>0 DEF BinFits
  <2>1. y \in Entities
    BY <1>0, <1>4 DEF RowsTyped
  <2>2. CASE y \in items
    BY <1>4, <1>5, <2>1, <2>2 DEF Tree, BinFits
  <2>3. CASE y \notin items
    BY <1>4, <2>1, <2>3 DEF Tree, BinFits
  <2> QED BY <2>2, <2>3
<1> QED BY <1>6, <1>7, <1>8 DEF Tree

LEMMA RestoreTree ==
  ASSUME Typed, Alone, Tree, NEW k \in Calls, Restore(k)
  PROVE  Tree'
<1> DEFINE c == call[k]
<1>0. /\ RowsTyped /\ Entities = Placed \cup Courses /\ Placed = Folders \cup Projects
      /\ c.op = "restore" /\ c.items \subseteq Entities
  BY DEF Typed, WorkspaceTypeOK, RowsTyped, Entities, Placed, Restore
<1>1. c.items \subseteq binned /\ c.seen = origin
  BY <1>0, IdleTyped DEF Alone, Reads
<1>2. PICK items \in SUBSET Entities : items = c.items
  BY <1>0
<1>3. \A y \in items : at[y] = "archived" /\ Exists(y) /\ (y \in Placed => origin[y] = parent[y])
  BY <1>1, <1>2 DEF Tree, BinFits, Exists
<1>4. items = {y \in c.items : Exists(y)}
  BY <1>2, <1>3
<1>5. /\ at' = [y \in Entities |-> IF y \in items THEN "active" ELSE at[y]]
      /\ parent' = [y \in Placed |-> IF y \in items THEN RestoredTo(c, y) ELSE parent[y]]
      /\ binned' = binned \ items
      /\ origin' = [y \in Placed |-> IF y \in items THEN Root ELSE origin[y]]
  BY <1>2, <1>4 DEF Restore
<1>6. \A y \in items \cap Placed : RestoredTo(c, y) \in {parent[y], Root}
  BY <1>1, <1>3 DEF RestoredTo
<1>7. parent' \in [Placed -> Places]
  BY <1>0, <1>5, <1>6 DEF RowsTyped, Places
<1>8. Rooted'
  <2>1. PICK new \in [Placed -> Places] : new = parent'
    BY <1>7
  <2>2. PICK up \in [Placed -> Places] : up = parent
    BY <1>0 DEF RowsTyped
  <2>3. \A y \in Folders : new[y] \in {up[y], Root}
    BY <1>0, <1>5, <1>6, <2>1, <2>2
  <2>4. \A g \in Folders : Root \in Path(up, g)
    BY <2>2 DEF Tree, Rooted
  <2>5. \A g \in Folders : Root \in Path(new, g)
    BY <2>3, <2>4, TreeAfterRooting
  <2> QED BY <2>1, <2>5 DEF Rooted
<1>9. Attached'
  <2> SUFFICES ASSUME NEW y \in Placed, at'[y] = "active"
               PROVE  parent'[y] = Root \/ at'[parent'[y]] = "active"
    BY DEF Attached
  <2>1. CASE y \in items
    BY <1>2, <2>1, RestoreStepAttaches
  <2>2. CASE y \notin items
    <3>1. at[y] = "active" /\ parent'[y] = parent[y] /\ parent[y] \in Places
      BY <1>0, <1>5, <2>2 DEF RowsTyped
    <3>2. parent[y] = Root \/ at[parent[y]] = "active"
      BY <3>1 DEF Tree, Attached
    <3> QED BY <1>0, <1>5, <3>1, <3>2 DEF Places
  <2> QED BY <2>1, <2>2
<1>10. BinFits'
  <2> SUFFICES ASSUME NEW y \in binned \ items
               PROVE  at'[y] = "archived" /\ (y \in Placed => origin'[y] = parent'[y])
    BY <1>5 DEF BinFits
  <2>1. y \in Entities
    BY <1>0 DEF RowsTyped
  <2> QED BY <1>5, <2>1 DEF Tree, BinFits
<1> QED BY <1>8, <1>9, <1>10 DEF Tree

LEMMA PurgeTree ==
  ASSUME Typed, Alone, Tree, NEW k \in Calls, Purge(k)
  PROVE  Tree'
<1> DEFINE c == call[k]
<1>0. /\ RowsTyped /\ Entities = Placed \cup Courses /\ Placed = Folders \cup Projects
      /\ c.op = "wiped" /\ c.items \subseteq Entities /\ FolderKeysHold(c)
  BY DEF Typed, WorkspaceTypeOK, RowsTyped, Entities, Placed, Purge
<1>1. c.items \subseteq binned
  BY <1>0, IdleTyped DEF Alone, Reads
<1>2. PICK items \in SUBSET Entities : items = c.items
  BY <1>0
<1>3. \A y \in items : at[y] = "archived" /\ Exists(y)
  BY <1>1, <1>2 DEF Tree, BinFits, Exists
<1>4. items = {y \in c.items : Exists(y)}
  BY <1>2, <1>3
<1>5. /\ at' = [y \in Entities |-> IF y \in items THEN "gone" ELSE at[y]]
      /\ parent' = [y \in Placed |-> IF y \in items THEN Root ELSE parent[y]]
      /\ binned' = binned \ items
      /\ origin' = [y \in Placed |-> IF y \in items THEN Root ELSE origin[y]]
  BY <1>2, <1>4 DEF Purge
<1>6. Rooted'
  <2>1. PICK new \in [Placed -> Places] : new = parent'
    BY <1>0, <1>5 DEF RowsTyped, Places
  <2>2. PICK up \in [Placed -> Places] : up = parent
    BY <1>0 DEF RowsTyped
  <2>3. \A y \in Folders : new[y] \in {up[y], Root}
    BY <1>0, <1>5, <2>1, <2>2
  <2>4. \A g \in Folders : Root \in Path(up, g)
    BY <2>2 DEF Tree, Rooted
  <2>5. \A g \in Folders : Root \in Path(new, g)
    BY <2>3, <2>4, TreeAfterRooting
  <2> QED BY <2>1, <2>5 DEF Rooted
<1>7. Attached'
  <2> SUFFICES ASSUME NEW y \in Placed, at'[y] = "active"
               PROVE  parent'[y] = Root \/ at'[parent'[y]] = "active"
    BY DEF Attached
  <2>1. y \notin items /\ at[y] = "active" /\ parent'[y] = parent[y] /\ parent[y] \in Places
    BY <1>0, <1>5 DEF RowsTyped
  <2>2. parent[y] = Root \/ at[parent[y]] = "active"
    BY <2>1 DEF Tree, Attached
  <2>3. Exists(y)
    BY <2>1 DEF Exists
  <2>4. parent[y] \notin items
    BY <1>0, <1>2, <2>1, <2>3 DEF FolderKeysHold
  <2> QED BY <1>0, <1>5, <2>1, <2>2, <2>4 DEF Places
<1>8. BinFits'
  <2> SUFFICES ASSUME NEW y \in binned \ items
               PROVE  at'[y] = "archived" /\ (y \in Placed => origin'[y] = parent'[y])
    BY <1>5 DEF BinFits
  <2>1. y \in Entities
    BY <1>0 DEF RowsTyped
  <2> QED BY <1>5, <2>1 DEF Tree, BinFits
<1> QED BY <1>6, <1>7, <1>8 DEF Tree

LEMMA WipeCareful ==
  ASSUME Typed, Careful, NEW k \in Calls, Wipe(k)
  PROVE  Careful'
<1> SUFFICES ASSUME ~careless PROVE Alone' /\ Tree'
  BY DEF Careful, Wipe
<1>1. /\ call[k].op = "purge" /\ call' = [call EXCEPT ![k].op = "wiped"]
      /\ wiped' = wiped \cup call[k].items
      /\ UNCHANGED <<at, parent, binned, origin, work>>
  BY DEF Wipe
<1>2. Alone /\ Tree
  BY DEF Careful
<1>3. Tree'
  BY <1>1, <1>2, TreeStays
<1>4. call \in [Calls -> CallType]
  BY DEF Typed, WorkspaceTypeOK, CallType
<1>5. Reads(call[k]) /\ \A j \in Calls \ {k} : call[j] = Idle
  BY <1>1, <1>2, IdleTyped DEF Alone
<1>6. /\ call'[k].op = "wiped" /\ call'[k].items = call[k].items
      /\ \A j \in Calls \ {k} : call'[j] = Idle
  BY <1>1, <1>4, <1>5 DEF CallType
<1>7. /\ call[k].items \subseteq binned
      /\ \A x \in call[k].items \cap Courses : work[x] = "quiet"
  BY <1>1, <1>5 DEF Reads
<1>8. Reads(call[k])'
  BY <1>1, <1>6, <1>7 DEF Reads
<1>9. Alone'
  BY <1>6, <1>8 DEF Alone
<1> QED BY <1>3, <1>9

LEMMA NextCareful == Typed /\ Careful /\ [WorkspaceNext]_vars => Careful'
<1> SUFFICES ASSUME Typed, Careful, [WorkspaceNext]_vars PROVE Careful'
  OBVIOUS
<1>1. ASSUME NEW k \in Calls,
             \/ BeginCreate(k) \/ BeginMove(k) \/ BeginEdit(k) \/ BeginArchive(k)
             \/ BeginTrash(k) \/ BeginRestore(k) \/ BeginPurge(k)
      PROVE  Careful'
  BY <1>1, BeginsCareful
<1>2. ASSUME NEW k \in Calls, Create(k) \/ Move(k) \/ Edit(k) \/ Trash(k) \/ Restore(k) \/ Purge(k)
      PROVE  Careful'
  <2>1. Done(k) /\ careless' = careless /\ call[k] # Idle
    BY <1>2, IdleTyped DEF Create, Move, Edit, Trash, Restore, Purge
  <2>2. Alone /\ Tree => Tree'
    BY <1>2, CreateTree, MoveTree, EditTree, TrashTree, RestoreTree, PurgeTree
  <2> QED BY <2>1, <2>2, EndCareful
<1>3. ASSUME NEW k \in Calls, Refuse(k)
      PROVE  Careful'
  <2>1. Done(k) /\ careless' = careless /\ call[k] # Idle /\ UNCHANGED <<at, parent, binned, origin>>
    BY <1>3 DEF Refuse
  <2> QED BY <2>1, TreeStays, EndCareful
<1>4. ASSUME NEW k \in Calls, Wipe(k)
      PROVE  Careful'
  BY <1>4, WipeCareful
<1>5. ASSUME NEW c \in Courses, Work(c)
      PROVE  Careful'
  <2> SUFFICES ASSUME ~careless' PROVE Alone' /\ Tree'
    BY DEF Careful
  <2>1. /\ ~careless /\ \A k \in Calls : call[k] = Idle
        /\ UNCHANGED <<at, parent, binned, origin, call>>
    BY <1>5, Zenon DEF Work
  <2>2. Tree'
    BY <2>1, TreeStays DEF Careful
  <2>3. Alone'
    BY <2>1 DEF Alone
  <2> QED BY <2>2, <2>3
<1>6. CASE Crash
  <2>1. /\ careless' = careless /\ \A k \in Calls : call'[k] = Idle
        /\ UNCHANGED <<at, parent, binned, origin>>
    BY <1>6 DEF Crash
  <2>2. Alone'
    BY <2>1 DEF Alone
  <2> QED BY <2>1, <2>2, TreeStays DEF Careful
<1>7. CASE UNCHANGED vars
  <2>1. UNCHANGED <<at, parent, binned, origin, call, careless>>
    BY <1>7 DEF vars
  <2>2. Tree => Tree'
    BY <2>1, TreeStays
  <2>3. Alone => Alone'
    BY <1>7 DEF vars, Alone, Reads, ValidParent, FolderEmpty, Selection, Exists
  <2> QED BY <2>1, <2>2, <2>3 DEF Careful
<1> QED BY <1>1, <1>2, <1>3, <1>4, <1>5, <1>6, <1>7 DEF WorkspaceNext

LEMMA InitCareful == WorkspaceInit => Careful
<1> SUFFICES ASSUME WorkspaceInit PROVE Alone /\ Tree
  BY DEF Careful
<1>1. Alone
  BY DEF WorkspaceInit, Alone
<1>2. parent = Nowhere /\ Nowhere \in [Placed -> Places]
  BY PlacesAreNumbers DEF WorkspaceInit
<1>3. Rooted
  <2> SUFFICES ASSUME NEW f \in Folders PROVE Root \in Path(parent, f)
    BY DEF Rooted
  <2>1. f \in Places /\ f \in Placed /\ f # Root
    BY WorkspaceAssumption DEF Places, Placed
  <2>2. f \in Path(parent, f) /\ Closed(parent, Path(parent, f))
    BY <1>2, <2>1, PathCloses
  <2>3. parent[f] \in Path(parent, f)
    BY <2>1, <2>2 DEF Closed
  <2> QED BY <1>2, <2>1, <2>3 DEF Nowhere
<1>4. Attached
  BY <1>2 DEF Attached, Nowhere
<1>5. BinFits
  BY DEF WorkspaceInit, BinFits
<1> QED BY <1>1, <1>3, <1>4, <1>5 DEF Tree

(* As long as requests do not overlap and name nothing archived, the       *)
(* folders are acyclic, what is active hangs under active folders, and     *)
(* what the bin lists is archived (workspace.rs, validate_parent and the   *)
(* handlers; event-store, the transactions): for any tree and requests.    *)
THEOREM CarefulTreeIsATree == WorkspaceSpec => []TreeWhenCareful
<1>1. Careful => TreeWhenCareful
  BY DEF Careful, Tree, Rooted, Attached, BinFits, TreeWhenCareful
<1> QED BY <1>1, InitTyped, NextTyped, InitCareful, NextCareful, PTL DEF WorkspaceSpec

(* As long as requests do not overlap and name nothing archived, a purge   *)
(* deletes only what is archived, whose notes it has deleted and that no   *)
(* recorder or job uses (workspace.rs, purge_items).                       *)
THEOREM CarefulPurgeSpares == WorkspaceSpec => PurgeSparesTheLiving
<1> DEFINE Spares ==
      careless' \/ \A x \in Entities : at[x] # at'[x] /\ at'[x] = "gone" =>
        at[x] = "archived" /\ x \in wiped /\ (x \in Courses => work[x] # "working")
<1>1. Typed /\ Careful /\ [WorkspaceNext]_vars => [Spares]_vars
  <2> SUFFICES ASSUME Typed, Careful, WorkspaceNext, ~careless',
                      NEW x \in Entities, at[x] # at'[x], at'[x] = "gone"
               PROVE  at[x] = "archived" /\ x \in wiped /\ (x \in Courses => work[x] # "working")
    BY Zenon DEF Spares
  <2>0. RowsTyped
    BY DEF Typed, WorkspaceTypeOK, RowsTyped
  <2>1. ASSUME NEW k \in Calls,
               \/ BeginCreate(k) \/ BeginMove(k) \/ BeginEdit(k) \/ BeginArchive(k)
               \/ BeginTrash(k) \/ BeginRestore(k) \/ BeginPurge(k)
        PROVE  FALSE
    BY <2>1 DEF BeginCreate, BeginMove, BeginEdit, BeginArchive, BeginTrash, BeginRestore,
                BeginPurge, Begin
  <2>2. ASSUME NEW k \in Calls, Create(k) \/ Move(k) \/ Wipe(k) \/ Refuse(k) PROVE FALSE
    BY <2>0, <2>2 DEF Create, Move, Wipe, Refuse, RowsTyped
  <2>3. ASSUME NEW k \in Calls, Edit(k) PROVE FALSE
    BY <2>0, <2>3 DEF Edit, RowsTyped
  <2>4. ASSUME NEW k \in Calls, Trash(k) \/ Restore(k) PROVE FALSE
    BY <2>4 DEF Trash, Restore
  <2>5. ASSUME Crash \/ \E c \in Courses : Work(c) PROVE FALSE
    BY <2>5 DEF Crash, Work
  <2>6. PICK k \in Calls : Purge(k)
    BY <2>1, <2>2, <2>3, <2>4, <2>5 DEF WorkspaceNext
  <2>7. x \in call[k].items /\ call[k].op = "wiped" /\ ~careless
    BY <2>6 DEF Purge
  <2>8. Reads(call[k]) /\ BinFits
    BY <2>7, IdleTyped DEF Careful, Alone, Tree
  <2>9. x \in binned /\ x \in wiped /\ (x \in Courses => work[x] = "quiet")
    BY <2>7, <2>8 DEF Reads
  <2> QED BY <2>8, <2>9 DEF BinFits
<1>2. WorkspaceSpec => [][Spares]_vars
  BY <1>1, InitTyped, NextTyped, InitCareful, NextCareful, PTL DEF WorkspaceSpec
<1> QED BY <1>2 DEF PurgeSparesTheLiving

=============================================================================
