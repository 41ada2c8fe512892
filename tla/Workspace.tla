----------------------------- MODULE Workspace -----------------------------
(***************************************************************************)
(* The workspace of one owner: folders that hold folders and projects,     *)
(* courses that belong to a project, and the recycle bin                   *)
(* (core-server/src/workspace.rs over event-store/src/lib.rs).             *)
(*                                                                         *)
(* A request reads the store, decides, and writes in one transaction; the  *)
(* requests of other devices run between the two. A purge also waits for   *)
(* ReadWeave in between. Names, sort orders and pins are left out; sibling *)
(* lists are kept because the write checks them again.                     *)
(***************************************************************************)
EXTENDS Naturals, FiniteSets

CONSTANTS
  Folders,     \* folder ids in the order they are given out (UUIDv7)
  Made,        \* the folders that exist at the start
  Projects, Courses,
  ProjectOf,   \* the project of each course
  Calls,       \* requests that may be in flight at once
  MaxDepth,    \* MAX_FOLDER_DEPTH
  MaxAsked,    \* bound: requests and changes of the courses' work
  MaxRaced,    \* the same bound once something careless happened
  MaxCrash     \* bound: restarts of the server

Root == 0
Placed == Folders \cup Projects
Entities == Placed \cup Courses
Places == Folders \cup {Root}

ASSUME WorkspaceAssumption ==
  /\ Folders \subseteq Nat \ {Root}
  /\ IsFiniteSet(Folders)
  /\ Made \subseteq Folders
  /\ Folders \cap (Projects \cup Courses) = {}
  /\ Projects \cap Courses = {}
  /\ ProjectOf \in [Courses -> Projects]
  /\ MaxDepth \in Nat /\ MaxAsked \in Nat /\ MaxRaced \in Nat /\ MaxCrash \in Nat

VARIABLES
  at,          \* the row of an entity: none, active, archived, gone
  parent,      \* parent_id of a folder, folder_id of a project
  binned,      \* the entities with a record in workspace_trash_items
  origin,      \* original_parent_id of the record
  age,         \* deleted_at of the record
  batch,       \* number of moves to the recycle bin so far
  work,        \* what the recorder and the queue do with a course
  call,        \* the requests in flight and what they read
  wiped,       \* the entities whose ReadWeave notes were deleted
  shelved,     \* history: archived by an edit, not through the bin
  careless,    \* history: two requests overlapped, or one named something archived
  asked, crashed

vars == <<at, parent, binned, origin, age, batch, work, call, wiped, shelved,
          careless, asked, crashed>>

Ops == {"idle", "create", "move", "edit", "trash", "restore", "purge", "wiped"}

Nowhere == [x \in Placed |-> Root]
Idle == [op |-> "idle", on |-> Root, to |-> Root, archive |-> FALSE,
         items |-> {}, seen |-> Nowhere]

Exists(x) == x # Root => at[x] \in {"active", "archived"}

WorkspaceInit ==
  /\ at = [e \in Entities |-> IF e \in Folders \ Made THEN "none" ELSE "active"]
  /\ parent = Nowhere
  /\ binned = {} /\ origin = Nowhere /\ age = Nowhere /\ batch = 0
  /\ work = [c \in Courses |-> "quiet"]
  /\ call = [k \in Calls |-> Idle]
  /\ wiped = {} /\ shelved = {} /\ careless = FALSE
  /\ asked = 0 /\ crashed = 0

-----------------------------------------------------------------------------
(* The folders met on the way up from a place, the place and the root       *)
(* included. A tree that has a cycle never reaches the root.                *)
Path(up, x) ==
  LET climb[n \in 0..Cardinality(Folders)] ==
        IF n = 0 THEN {x}
        ELSE climb[n - 1] \cup {up[y] : y \in climb[n - 1] \ {Root}}
  IN climb[Cardinality(Folders)]

Under(up, f) == {g \in Folders : f \in Path(up, g)}

(* Mutant: only the new parent is compared, not the way up.                *)
ValidParentUnlessSelf(f, to) ==
  f # to /\ \A g \in Path(parent, to) \ {Root, f} : at[g] = "active"

(* validate_parent: every folder on the way up is active, none is the one  *)
(* that moves, and the number of levels stays within the limit.            *)
ValidParent(f, to) ==
  LET way == Path(parent, to) IN
    /\ Root \in way
    /\ f \notin way \ {Root}
    /\ \A g \in way \ {Root} : at[g] = "active"
    /\ Cardinality(way) <= MaxDepth

FolderEmpty(f) == \A x \in Placed : at[x] = "active" => parent[x] # f

Siblings(x, to) ==
  {y \in (IF x \in Folders THEN Folders ELSE Projects) \ {x} :
     at[y] = "active" /\ parent[y] = to}

(* What a folder, a project or a course takes along: by the rows when it   *)
(* goes to the bin, by the records when it leaves it.                      *)
With(e, up) ==
  LET fs == IF e \in Folders THEN Under(up, e) ELSE {}
      ps == IF e \in Projects THEN {e} ELSE {p \in Projects : up[p] \in fs}
  IN fs \cup ps \cup (IF e \in Courses THEN {e} ELSE {c \in Courses : ProjectOf[c] \in ps})

Selection(e) == {x \in With(e, parent) : Exists(x)}

(* Mutant: what hangs under it now, whether the bin lists it or not.       *)
BinSelectionByPlace(e) == Selection(e)


BinSelection(e) == With(e, origin) \cap binned

-----------------------------------------------------------------------------
More == asked < (IF careless THEN MaxRaced ELSE MaxAsked)

(* A request starts: what it was asked, and what it read.                  *)
Begin(k, request, onArchived) ==
  /\ call[k] = Idle
  /\ More
  /\ asked' = asked + 1
  /\ call' = [call EXCEPT ![k] = request]
  /\ careless' = (careless \/ onArchived \/ \E j \in Calls \ {k} : call[j] # Idle)
  /\ UNCHANGED <<at, parent, binned, origin, age, batch, work, wiped, shelved, crashed>>

BeginCreate(k) == \E to \in Places :
  /\ ValidParent(Root, to)
  /\ Begin(k, [Idle EXCEPT !.op = "create", !.to = to], FALSE)

(* A move of a folder checks the new parent. A move of a project only      *)
(* checks that the folder is there. The places before and after a sibling  *)
(* are the sibling's parent.                                               *)
BeginMove(k) == \E x \in Placed, to \in Places :
  /\ Exists(x) /\ Exists(to)
  /\ x \in Folders => ValidParent(x, to)
  /\ Begin(k, [Idle EXCEPT !.op = "move", !.on = x, !.to = to, !.items = Siblings(x, to)],
           \E y \in {x, to} \ {Root} : at[y] # "active")

(* An edit writes the whole row: place and archived flag.                  *)
BeginEdit(k) == \E x \in Entities, to \in Places, archive \in BOOLEAN :
  /\ Exists(x)
  /\ CASE x \in Folders  -> ValidParent(x, to) /\ (archive => FolderEmpty(x))
       [] x \in Projects -> to # Root => at[to] = "active"
       [] OTHER          -> to = Root
  /\ Begin(k, [Idle EXCEPT !.op = "edit", !.on = x, !.to = to, !.archive = archive],
           x \in binned)

(* archive_folder writes back the place it read, without checking it.      *)
BeginArchive(k) == \E f \in Folders :
  /\ Exists(f) /\ FolderEmpty(f)
  /\ Begin(k, [Idle EXCEPT !.op = "edit", !.on = f, !.to = parent[f], !.archive = TRUE],
           f \in binned)

BeginTrash(k) == \E x \in Entities :
  LET items == Selection(x) IN
    /\ Exists(x) /\ x \notin binned
    /\ \A c \in items \cap Courses : work[c] # "working"
    /\ Begin(k, [Idle EXCEPT !.op = "trash", !.on = x, !.items = items, !.seen = parent], FALSE)

BeginRestore(k) == \E x \in binned :
  Begin(k, [Idle EXCEPT !.op = "restore", !.on = x, !.items = BinSelection(x), !.seen = origin],
        FALSE)

(* A purge is refused for a course that records, or whose recording was    *)
(* lost, or that has open jobs.                                            *)
BeginPurge(k) == \E x \in binned :
  LET items == BinSelection(x) IN
    /\ \A c \in items \cap Courses : Exists(c) /\ work[c] = "quiet"
    /\ Begin(k, [Idle EXCEPT !.op = "purge", !.on = x, !.items = items, !.seen = age], FALSE)

-----------------------------------------------------------------------------
(* The writes, one transaction each. A foreign key that would dangle, or a *)
(* sibling list that changed, undoes the whole transaction.                *)
Done(k) == call' = [call EXCEPT ![k] = Idle]

NextId == {f \in Folders : at[f] = "none" /\ \A g \in Folders : at[g] = "none" => f <= g}

Create(k) == \E f \in NextId :
  /\ call[k].op = "create" /\ Exists(call[k].to)
  /\ at' = [at EXCEPT ![f] = "active"]
  /\ parent' = [parent EXCEPT ![f] = call[k].to]
  /\ Done(k)
  /\ UNCHANGED <<binned, origin, age, batch, work, wiped, shelved, careless, asked, crashed>>

Move(k) == LET c == call[k] IN
  /\ c.op = "move" /\ Exists(c.to)
  /\ at[c.on] = "active"
  /\ \A s \in c.items : at[s] = "active" /\ parent[s] = c.to
  /\ parent' = [parent EXCEPT ![c.on] = c.to]
  /\ Done(k)
  /\ UNCHANGED <<at, binned, origin, age, batch, work, wiped, shelved, careless, asked, crashed>>

Edit(k) == LET c == call[k] IN
  /\ c.op = "edit" /\ Exists(c.on) /\ Exists(c.to)
  /\ at' = [at EXCEPT ![c.on] = IF c.archive THEN "archived" ELSE "active"]
  /\ parent' = [x \in Placed |-> IF x = c.on THEN c.to ELSE parent[x]]
  /\ shelved' = IF c.archive THEN shelved \cup {c.on} ELSE shelved \ {c.on}
  /\ Done(k)
  /\ UNCHANGED <<binned, origin, age, batch, work, wiped, careless, asked, crashed>>

(* Mutant: one record for the whole subtree.                               *)
TrashRecordsRoot(k) == LET c == call[k] IN
  /\ c.op = "trash"
  /\ batch' = batch + 1
  /\ binned' = binned \cup {c.on}
  /\ origin' = [x \in Placed |-> IF x = c.on THEN c.seen[x] ELSE origin[x]]
  /\ age' = [x \in Placed |-> IF x = c.on THEN batch + 1 ELSE age[x]]
  /\ at' = [x \in Entities |-> IF x \in c.items /\ Exists(x) THEN "archived" ELSE at[x]]
  /\ Done(k)
  /\ UNCHANGED <<parent, work, wiped, shelved, careless, asked, crashed>>

(* INSERT OR IGNORE keeps an older record; a row that is gone gets a       *)
(* record all the same.                                                    *)
Trash(k) == LET c == call[k] fresh == c.items \ binned IN
  /\ c.op = "trash"
  /\ batch' = batch + 1
  /\ binned' = binned \cup c.items
  /\ origin' = [x \in Placed |-> IF x \in fresh THEN c.seen[x] ELSE origin[x]]
  /\ age' = [x \in Placed |-> IF x \in fresh THEN batch + 1 ELSE age[x]]
  /\ at' = [x \in Entities |-> IF x \in c.items /\ Exists(x) THEN "archived" ELSE at[x]]
  /\ Done(k)
  /\ UNCHANGED <<parent, work, wiped, shelved, careless, asked, crashed>>

(* Mutant: back to where it was, the parent archived or not.               *)
RestoredToOrigin(c, x) == c.seen[x]

RestoredTo(c, x) ==
  IF c.seen[x] \in c.items \/ (c.seen[x] # Root /\ at[c.seen[x]] = "active")
  THEN c.seen[x] ELSE Root

Restore(k) == LET c == call[k] back == {x \in c.items : Exists(x)} IN
  /\ c.op = "restore"
  /\ \A x \in back \cap Placed : Exists(RestoredTo(c, x))
  /\ at' = [x \in Entities |-> IF x \in back THEN "active" ELSE at[x]]
  /\ parent' = [x \in Placed |-> IF x \in back THEN RestoredTo(c, x) ELSE parent[x]]
  /\ binned' = binned \ c.items
  /\ origin' = [x \in Placed |-> IF x \in c.items THEN Root ELSE origin[x]]
  /\ age' = [x \in Placed |-> IF x \in c.items THEN Root ELSE age[x]]
  /\ shelved' = shelved \ back
  /\ Done(k)
  /\ UNCHANGED <<batch, work, wiped, careless, asked, crashed>>

(* The notes go first, over the network.                                   *)
Wipe(k) ==
  /\ call[k].op = "purge"
  /\ call' = [call EXCEPT ![k].op = "wiped"]
  /\ wiped' = wiped \cup call[k].items
  /\ UNCHANGED <<at, parent, binned, origin, age, batch, work, shelved, careless, asked, crashed>>

(* Folders are deleted in the reverse of the order of the bin's list,      *)
(* deleted_at DESC, id: the oldest record first, the newest id first.      *)
DeletedBefore(c, g, f) == c.seen[g] < c.seen[f] \/ (c.seen[g] = c.seen[f] /\ g > f)

ProjectKeysHold(c) ==
  \A y \in Courses : Exists(y) /\ ProjectOf[y] \in c.items => y \in c.items

FolderKeysHold(c) ==
  \A x \in Placed : Exists(x) /\ parent[x] \in c.items =>
    x \in c.items /\ (x \in Folders => DeletedBefore(c, x, parent[x]))

Purge(k) == LET c == call[k] dead == {x \in c.items : Exists(x)} IN
  /\ c.op = "wiped" /\ ProjectKeysHold(c) /\ FolderKeysHold(c)
  /\ at' = [x \in Entities |-> IF x \in dead THEN "gone" ELSE at[x]]
  /\ parent' = [x \in Placed |-> IF x \in dead THEN Root ELSE parent[x]]
  /\ work' = [x \in Courses |-> IF x \in dead THEN "quiet" ELSE work[x]]
  /\ binned' = binned \ c.items
  /\ origin' = [x \in Placed |-> IF x \in c.items THEN Root ELSE origin[x]]
  /\ age' = [x \in Placed |-> IF x \in c.items THEN Root ELSE age[x]]
  /\ shelved' = shelved \ c.items
  /\ wiped' = wiped \ c.items
  /\ Done(k)
  /\ UNCHANGED <<batch, careless, asked, crashed>>

(* A write that the guards above refuse, or a store or network error, ends *)
(* the request with an error.                                              *)
Refuse(k) ==
  /\ call[k] # Idle
  /\ Done(k)
  /\ UNCHANGED <<at, parent, binned, origin, age, batch, work, wiped, shelved, careless, asked, crashed>>

Crash ==
  /\ crashed < MaxCrash
  /\ crashed' = crashed + 1
  /\ call' = [k \in Calls |-> Idle]
  /\ UNCHANGED <<at, parent, binned, origin, age, batch, work, wiped, shelved, careless, asked>>

(* The recorder and the model jobs of a course: see RecordingHandlers and  *)
(* ModelJobs. "lost" is a recording whose device never stopped it.         *)
Work(c) == \E w \in {"quiet", "lost", "working"} \ {work[c]} :
  /\ Exists(c) /\ More
  /\ work' = [work EXCEPT ![c] = w]
  /\ asked' = asked + 1
  /\ careless' = (careless \/ \E k \in Calls : call[k] # Idle)
  /\ UNCHANGED <<at, parent, binned, origin, age, batch, call, wiped, shelved, crashed>>

WorkspaceNext ==
  \/ \E k \in Calls :
       \/ BeginCreate(k) \/ BeginMove(k) \/ BeginEdit(k) \/ BeginArchive(k)
       \/ BeginTrash(k) \/ BeginRestore(k) \/ BeginPurge(k)
       \/ Create(k) \/ Move(k) \/ Edit(k) \/ Trash(k) \/ Restore(k)
       \/ Wipe(k) \/ Purge(k) \/ Refuse(k)
  \/ \E c \in Courses : Work(c)
  \/ Crash

WorkspaceSpec == WorkspaceInit /\ [][WorkspaceNext]_vars

-----------------------------------------------------------------------------
WorkspaceTypeOK ==
  /\ at \in [Entities -> {"none", "active", "archived", "gone"}]
  /\ parent \in [Placed -> Places] /\ origin \in [Placed -> Places]
  /\ age \in [Placed -> Nat] /\ batch \in Nat
  /\ binned \subseteq Entities /\ wiped \subseteq Entities /\ shelved \subseteq Entities
  /\ work \in [Courses -> {"quiet", "lost", "working"}]
  /\ call \in [Calls -> [op : Ops, on : Entities \cup {Root}, to : Places, archive : BOOLEAN,
                         items : SUBSET Entities, seen : [Placed -> Nat]]]
  /\ careless \in BOOLEAN /\ asked \in Nat /\ crashed \in Nat

(* Whatever requests interleave, something archived is in the recycle bin, *)
(* where it can be restored, or was archived by an edit on purpose.        *)
Recoverable == \A x \in Entities : at[x] = "archived" => x \in binned \cup shelved

(* A restored folder or project is visible: its parent is active again, or *)
(* it is put at the root, although the parent was trashed, moved or purged *)
(* between the reading of the bin and the restore.                         *)
RestoreAttaches ==
  [][\A k \in Calls :
       call[k].op = "restore" /\ call'[k] = Idle /\ <<at', parent', binned'>> # <<at, parent, binned>> =>
       \A x \in call[k].items \cap Placed :
         at'[x] = "active" => parent'[x] = Root \/ at'[parent'[x]] = "active"]_vars

(* As long as requests do not overlap and name nothing archived, the tree  *)
(* is a tree: folders are acyclic, what is active hangs under active       *)
(* folders, and what the bin lists is archived.                            *)
TreeWhenCareful ==
  careless \/
    /\ \A f \in Folders : Root \in Path(parent, f)
    /\ \A x \in Placed : at[x] = "active" => parent[x] = Root \/ at[parent[x]] = "active"
    /\ \A x \in binned : at[x] = "archived"

(* As long as requests do not overlap and name nothing archived, a purge   *)
(* deletes nothing that is in use: no active entity, no course at work,    *)
(* nothing whose notes it did not delete first.                            *)
PurgeSparesTheLiving ==
  [][careless' \/ \A x \in Entities : at[x] # at'[x] /\ at'[x] = "gone" =>
       at[x] = "archived" /\ x \in wiped /\ (x \in Courses => work[x] # "working")]_vars

(* What the comment above the deletion of folders says: the order in which *)
(* a purge deletes nested folders keeps its transaction valid.             *)
PurgeOrderIsValid ==
  careless \/ \A k \in Calls : call[k].op = "wiped" => FolderKeysHold(call[k])

(* What the error of validate_parent says: no cycle of folders, whatever   *)
(* requests interleave.                                                    *)
FoldersAcyclic == \A f \in Folders : Root \in Path(parent, f)

(* A purge deletes only what is in the recycle bin when it deletes.        *)
PurgeOnlyTrashed ==
  [][\A x \in Entities : at[x] # at'[x] /\ at'[x] = "gone" => at[x] = "archived"]_vars

(* No active folder lies deeper than validate_parent allows, and than      *)
(* ensure_workspace_path accepts when it mirrors the tree.                 *)
WithinDepth ==
  \A f \in Folders : at[f] = "active" => Cardinality(Path(parent, f)) <= MaxDepth + 1
=============================================================================
