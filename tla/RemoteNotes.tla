----------------------------- MODULE RemoteNotes ----------------------------
(***************************************************************************)
(* One local object (a folder, a project or a session) and its note in     *)
(* ReadWeave: readweave.rs finds or creates the note, keeps its title, and *)
(* moves it when the object was moved (ensure_note, ensure_parent_branch), *)
(* and the purge of the recycle bin removes it (purge_workspace_objects).  *)
(*                                                                         *)
(* In ReadWeave a note hangs under its parents by branches and is deleted  *)
(* with its last branch.  A branch is identified by its note and its       *)
(* parent: the code asks for the branch of a parent before it makes one.   *)
(* Locally the object has a row in remote_object_maps (note and parent)    *)
(* and one in remote_object_details (branch); the second is deleted with   *)
(* the first.                                                              *)
(*                                                                         *)
(* One worker projects, job by job of connector_jobs; the purge runs in    *)
(* its own request.  The keys of the jobs that events queue and what the   *)
(* notes hold are the module Projection: here such a job is queued at some *)
(* time, and of the user's own changes only some ask for one.              *)
(***************************************************************************)
EXTENDS Naturals, FiniteSets

CONSTANTS
    Parents,        \* the remote notes the object may hang under
    Titles,         \* the titles it may have
    None,           \* no parent, no branch
    MaxNotes,       \* bound on the notes created for the object
    MaxChanges,     \* bound on the moves and renames of the user
    MaxTriggers,    \* bound on the jobs that events of the course queue
    MaxFaults,      \* bound on lost requests, lost replies and crashes
    MaxTampers      \* bound on the user's changes in ReadWeave itself

ASSUME RemoteNotesAssumption ==
    /\ Parents # {} /\ Titles # {}
    /\ None \notin Parents \cup Titles
    /\ {MaxNotes, MaxChanges, MaxTriggers, MaxFaults, MaxTampers} \subseteq Nat

VARIABLES
    wanted,     \* where the object is and what it is called, locally
    live,       \* the object has not been purged
    notes,      \* the notes made for it, by id; one without parents is gone
    made,       \* the ids given out
    mapping,    \* its row of remote_object_maps; note 0: no row
    branch,     \* its remote_branch_id in remote_object_details, or None
    worker,     \* project_job, at this object
    purge,      \* purge_entity
    queued,     \* how many jobs wait in connector_jobs
    manual,     \* the key of the manual reconcile has been used
    triggers,   \* how many jobs events have queued
    changes, faults, tampers,
    due,        \* history: a job waited or was queued since the last change
    torn,       \* history: a move was cut between its branch and its last row
    strayed,    \* history: moved, renamed or purged while its note was not mapped
    begun,      \* history: a purge was begun
    crossed     \* history: the worker was at the object during a purge

vars == <<wanted, live, notes, made, mapping, branch, worker, purge, queued, manual, triggers,
          changes, faults, tampers, due, torn, strayed, begun, crossed>>
remote == <<notes, made>>
rows == <<mapping, branch>>
local == <<wanted, live, changes>>
history == <<faults, tampers, torn, strayed, begun>>
queue == <<queued, manual, triggers, due>>

-----------------------------------------------------------------------------
NoteIds == 1 .. MaxNotes
NoRow == [note |-> 0, parent |-> None]
Gone == [title |-> None, parents |-> {}, owned |-> FALSE]
Resting == [at |-> "idle", parent |-> None, title |-> None, row |-> NoRow, branch |-> None]
NoPurge == [at |-> "idle", note |-> 0, branch |-> None]

Present(n) == n \in NoteIds /\ notes[n].parents # {}
HangsUnder(n, p) == Present(n) /\ p \in notes[n].parents

RemoteNotesInit ==
    /\ wanted \in [parent : Parents, title : Titles]
    /\ live = TRUE
    /\ notes = [n \in NoteIds |-> Gone]
    /\ made = 0
    /\ mapping = NoRow /\ branch = None
    /\ worker = Resting /\ purge = NoPurge
    /\ queued = 0 /\ manual = FALSE /\ triggers = 0 /\ due = FALSE
    /\ changes = 0 /\ faults = 0 /\ tampers = 0
    /\ torn = FALSE /\ strayed = FALSE /\ begun = FALSE /\ crossed = FALSE

-----------------------------------------------------------------------------
(* The queue.  A job that events leave (enqueue_projection) ... *)
Trigger ==
    /\ live /\ triggers < MaxTriggers
    /\ triggers' = triggers + 1
    /\ queued' = queued + 1 /\ due' = TRUE
    /\ UNCHANGED <<local, remote, rows, worker, purge, manual, history, crossed>>

(* ... and the manual reconcile that a change may ask for: its key is the   *)
(* same each time, so only the first one is queued (INSERT OR IGNORE).      *)
Reconcile(asks) ==
    /\ queued' = IF asks /\ ~manual THEN queued + 1 ELSE queued
    /\ manual' = (manual \/ asks)
    /\ due' = (queued' > 0)
    /\ UNCHANGED triggers

(* A job is completed or in conflict, or it waits for another attempt.      *)
Ends   == UNCHANGED queue
Retry  == queued' = queued + 1 /\ due' = TRUE /\ UNCHANGED <<manual, triggers>>
(* Done with this object, the job may still fail at another of its notes.   *)
Passes == Ends \/ Retry

(* The user *)
Unmapped == mapping.note = 0 /\ (worker.at # "idle" \/ \E n \in NoteIds : Present(n))

(* An update of a folder and a move of a project ask for a reconcile, a     *)
(* move of a folder and a rename of a project or a course do not.           *)
Change(w) ==
    /\ live /\ changes < MaxChanges /\ w # wanted
    /\ \E asks \in BOOLEAN : Reconcile(asks)
    /\ wanted' = w
    /\ changes' = changes + 1
    /\ strayed' = (strayed \/ Unmapped)
    /\ UNCHANGED <<live, remote, rows, worker, purge, faults, tampers, torn,
                   begun, crossed>>

Move(p) == Change([wanted EXCEPT !.parent = p])
Rename(t) == Change([wanted EXCEPT !.title = t])

(* In ReadWeave: the note is deleted, or its ownership marker is removed *)
Tamper(n, note) ==
    /\ tampers < MaxTampers /\ Present(n) /\ notes[n] # note
    /\ tampers' = tampers + 1
    /\ notes' = [notes EXCEPT ![n] = note]
    /\ due' = (queued > 0) /\ UNCHANGED <<queued, manual, triggers>>
    /\ UNCHANGED <<local, made, rows, worker, purge, faults, torn, strayed, begun,
                   crossed>>
DeleteRemote(n) == Tamper(n, Gone)
StripOwnership(n) == Tamper(n, [notes[n] EXCEPT !.owned = FALSE])

-----------------------------------------------------------------------------
(* Requests.  delete_owned_branch: a missing note or branch counts as       *)
(* deleted, a note without the marker is refused.                           *)
MayDelete(n) == ~Present(n) \/ notes[n].owned
WithoutBranch(n, p) ==
    IF ~HangsUnder(n, p) THEN notes
    ELSE IF notes[n].parents = {p} THEN [notes EXCEPT ![n] = Gone]
    ELSE [notes EXCEPT ![n].parents = @ \ {p}]

(* Mutant: a retry does not look for the note of the attempt before *)
CreatedNever(p, t) == {}

(* find_created_note: by exact title among the children of the parent, and  *)
(* only notes that carry the marker of this object.                         *)
Created(p, t) ==
    {n \in NoteIds : HangsUnder(n, p) /\ notes[n].title = t /\ notes[n].owned}

-----------------------------------------------------------------------------
(* The worker.  Every step is one request or one row; an error of any of    *)
(* them ends the attempt and the job is retried, a conflict ends the job.   *)
GoTo(at) == worker' = [worker EXCEPT !.at = at]
Attempt == UNCHANGED <<local, history, purge>> /\ crossed' = (crossed \/ purge.at # "idle")

(* lease_connector_job; project_job reads the object and its place, and     *)
(* ensure_note its row.                                                     *)
Begin ==
    /\ worker.at = "idle" /\ live /\ queued > 0
    /\ queued' = queued - 1 /\ UNCHANGED <<manual, triggers, due>>
    /\ worker' = [Resting EXCEPT !.at = IF mapping.note = 0 THEN "searching" ELSE "titling",
                                 !.parent = wanted.parent, !.title = wanted.title,
                                 !.row = mapping]
    /\ Attempt /\ UNCHANGED <<remote, rows>>

Search ==
    /\ worker.at = "searching"
    /\ LET found == Created(worker.parent, worker.title)
       IN \/ found = {} /\ GoTo("creating") /\ UNCHANGED queue
          \/ /\ Cardinality(found) = 1 /\ UNCHANGED queue
             /\ \E n \in found : worker' = [worker EXCEPT !.at = "mapping", !.row.note = n]
          \/ Cardinality(found) > 1 /\ worker' = Resting /\ Retry
    /\ Attempt /\ UNCHANGED <<remote, rows>>

Create ==
    /\ worker.at = "creating" /\ made < MaxNotes
    /\ made' = made + 1
    /\ notes' = [notes EXCEPT ![made + 1] =
                   [title |-> worker.title, parents |-> {worker.parent}, owned |-> TRUE]]
    /\ worker' = [worker EXCEPT !.at = "mapping", !.row.note = made + 1]
    /\ Attempt /\ UNCHANGED <<rows, queue>>

Map ==
    /\ worker.at = "mapping"
    /\ mapping' = [note |-> worker.row.note, parent |-> worker.parent]
    /\ GoTo("detailing")
    /\ Attempt /\ UNCHANGED <<remote, branch, queue>>

(* The details row refers to the map row: without it the write fails *)
Detail ==
    /\ worker.at = "detailing"
    /\ branch' = IF mapping.note = 0 THEN branch ELSE worker.parent
    /\ worker' = Resting
    /\ IF mapping.note = 0 THEN Retry ELSE Passes
    /\ Attempt /\ UNCHANGED <<remote, mapping>>

PatchTitle ==
    /\ worker.at = "titling"
    /\ IF Present(worker.row.note)
         THEN /\ notes' = [notes EXCEPT ![worker.row.note].title = worker.title]
              /\ worker' = [worker EXCEPT !.at = "branching", !.branch = branch]
              /\ UNCHANGED queue
         ELSE worker' = Resting /\ Retry /\ UNCHANGED notes
    /\ Attempt /\ UNCHANGED <<made, rows>>

(* The row already says the wanted parent: only a missing branch id is      *)
(* looked up.  A note that is elsewhere is a conflict, one that is gone an  *)
(* error, and so is the row of an object that was purged.                   *)
SameParent ==
    /\ worker.at = "branching" /\ worker.row.parent = worker.parent
    /\ branch' = IF worker.branch = None /\ mapping.note # 0
                      /\ HangsUnder(worker.row.note, worker.parent)
                 THEN worker.parent ELSE branch
    /\ worker' = Resting
    /\ IF worker.branch # None THEN Passes
       ELSE IF ~Present(worker.row.note) THEN Retry
       ELSE IF ~HangsUnder(worker.row.note, worker.parent) THEN Ends
       ELSE IF mapping.note = 0 THEN Retry ELSE Passes
    /\ Attempt /\ UNCHANGED <<remote, mapping>>

(* Mutant: the old branch is deleted first *)
DetachThenAttach ==
    /\ worker.at = "branching" /\ worker.row.parent # worker.parent
    /\ notes' = WithoutBranch(worker.row.note, worker.branch)
    /\ GoTo("attaching")
    /\ Attempt /\ UNCHANGED <<made, rows, queue>>

(* The branch under the new parent is recovered or made ... *)
FindBranch ==
    /\ worker.at = "branching" /\ worker.row.parent # worker.parent
    /\ IF ~Present(worker.row.note) THEN worker' = Resting /\ Retry
       ELSE /\ GoTo(IF HangsUnder(worker.row.note, worker.parent) THEN "detaching"
                    ELSE "attaching")
            /\ UNCHANGED queue
    /\ Attempt /\ UNCHANGED <<remote, rows>>

Attach ==
    /\ worker.at = "attaching"
    /\ IF Present(worker.row.note)
         THEN /\ notes' = [notes EXCEPT ![worker.row.note].parents = @ \cup {worker.parent}]
              /\ GoTo("detaching") /\ UNCHANGED queue
         ELSE worker' = Resting /\ Retry /\ UNCHANGED notes
    /\ Attempt /\ UNCHANGED <<made, rows>>

(* ... before the old one is deleted: the recorded branch, or the branch    *)
(* under the recorded parent when none is recorded.                         *)
OldBranch == IF worker.branch # None THEN worker.branch ELSE worker.row.parent

(* Mutant: the old branch is left where it is *)
KeepOldBranch ==
    /\ worker.at = "detaching"
    /\ GoTo("remapping")
    /\ Attempt /\ UNCHANGED <<remote, rows, queue>>

Detach ==
    /\ worker.at = "detaching"
    /\ \/ OldBranch = worker.parent /\ GoTo("remapping") /\ UNCHANGED <<notes, queue>>
       \/ /\ OldBranch # worker.parent
          /\ IF MayDelete(worker.row.note)
               THEN /\ notes' = WithoutBranch(worker.row.note, OldBranch)
                    /\ GoTo("remapping") /\ UNCHANGED queue
               ELSE UNCHANGED notes /\ worker' = Resting /\ Retry
    /\ Attempt /\ UNCHANGED <<made, rows>>

Remap ==
    /\ worker.at = "remapping"
    /\ mapping' = [note |-> worker.row.note, parent |-> worker.parent]
    /\ GoTo("detailing")
    /\ Attempt /\ UNCHANGED <<remote, branch, queue>>

Work == Begin \/ Search \/ Create \/ Map \/ Detail \/ PatchTitle \/ SameParent
          \/ FindBranch \/ Attach \/ Detach \/ Remap

(* A lost request, a lost reply or a crash: the attempt ends where it is,   *)
(* and the job waits again, after a crash when its lease has run out.  A    *)
(* reply that is lost after its effect is a fault at the next step.         *)
Moving == worker.at \in {"detaching", "remapping"}
            \/ (worker.at = "detailing" /\ worker.row.parent # None)
Interrupt ==
    /\ worker.at # "idle" /\ faults < MaxFaults
    /\ faults' = faults + 1
    /\ worker' = Resting /\ Retry
    /\ torn' = (torn \/ Moving)
    /\ strayed' = (strayed \/ (worker.at = "mapping" /\
                     [parent |-> worker.parent, title |-> worker.title] # wanted))
    /\ UNCHANGED <<local, remote, rows, purge, tampers, begun, crossed>>

-----------------------------------------------------------------------------
(* Permanent deletion.  It reads the rows, finds the branch if none is      *)
(* recorded, deletes the branch, then deletes the local rows.               *)
Purging == UNCHANGED <<wanted, changes, worker, made, queue, tampers, torn>>
Begun ==
    /\ begun' = TRUE
    /\ strayed' = (strayed \/ Unmapped)
    /\ crossed' = (crossed \/ worker.at # "idle")

(* Mutant: an object whose branch is not recorded is passed over *)
BeginPurgeByDetails ==
    /\ live /\ purge.at = "idle"
    /\ purge' = IF mapping.note = 0 \/ branch = None THEN [NoPurge EXCEPT !.at = "erasing"]
                ELSE [at |-> "deleting", note |-> mapping.note, branch |-> branch]
    /\ Begun /\ Purging /\ UNCHANGED <<live, notes, rows, faults>>

BeginPurge ==
    /\ live /\ purge.at = "idle"
    /\ purge' = IF mapping.note = 0 THEN [NoPurge EXCEPT !.at = "erasing"]
                ELSE [at |-> IF branch = None THEN "finding" ELSE "deleting",
                      note |-> mapping.note,
                      branch |-> IF branch = None THEN mapping.parent ELSE branch]
    /\ Begun /\ Purging /\ UNCHANGED <<live, notes, rows, faults>>

(* find_branch fails for a note that is gone: the purge is refused *)
FindBranchToPurge ==
    /\ purge.at = "finding"
    /\ purge' = IF HangsUnder(purge.note, purge.branch)
                THEN [purge EXCEPT !.at = "deleting"] ELSE NoPurge
    /\ Purging /\ UNCHANGED <<live, notes, rows, faults, strayed, begun, crossed>>

DeleteForPurge ==
    /\ purge.at = "deleting"
    /\ IF MayDelete(purge.note)
         THEN /\ notes' = WithoutBranch(purge.note, purge.branch)
              /\ purge' = [purge EXCEPT !.at = "erasing"]
         ELSE UNCHANGED notes /\ purge' = NoPurge
    /\ Purging /\ UNCHANGED <<live, rows, faults, strayed, begun, crossed>>

Erase ==
    /\ purge.at = "erasing"
    /\ live' = FALSE
    /\ mapping' = NoRow /\ branch' = None
    /\ purge' = NoPurge
    /\ Purging /\ UNCHANGED <<notes, faults, strayed, begun, crossed>>

InterruptPurge ==
    /\ purge.at # "idle" /\ faults < MaxFaults
    /\ faults' = faults + 1
    /\ purge' = NoPurge
    /\ Purging /\ UNCHANGED <<live, notes, rows, strayed, begun, crossed>>

Purge == BeginPurge \/ FindBranchToPurge \/ DeleteForPurge \/ Erase

-----------------------------------------------------------------------------
RemoteNotesNext ==
    \/ \E p \in Parents : Move(p)
    \/ \E t \in Titles : Rename(t)
    \/ \E n \in NoteIds : DeleteRemote(n) \/ StripOwnership(n)
    \/ Trigger \/ Work \/ Interrupt
    \/ Purge \/ InterruptPurge

RemoteNotesSpec == RemoteNotesInit /\ [][RemoteNotesNext]_vars

(* The connector goes on polling and works off the jobs that wait; nobody   *)
(* has to queue one, to move, to purge, to tamper or to fail.               *)
RemoteNotesLiveSpec == RemoteNotesSpec /\ WF_vars(Work)

-----------------------------------------------------------------------------
(* Every value stays in its domain, and a branch is recorded only beside a  *)
(* mapping.                                                                 *)
RemoteNotesTypeOK ==
    /\ wanted \in [parent : Parents, title : Titles]
    /\ live \in BOOLEAN
    /\ notes \in [NoteIds -> [title : Titles \cup {None}, parents : SUBSET Parents,
                              owned : BOOLEAN]]
    /\ made \in 0 .. MaxNotes
    /\ mapping \in [note : 0 .. MaxNotes, parent : Parents \cup {None}]
    /\ branch \in Parents \cup {None}
    /\ branch # None => mapping.note # 0
    /\ queued \in Nat /\ manual \in BOOLEAN /\ triggers \in Nat

(* A move never destroys the note it moves: as long as nobody purges the    *)
(* object or deletes the note in ReadWeave, the note of the map exists,     *)
(* wherever an attempt was cut and however often it was repeated.           *)
MoveKeepsNote ==
    (mapping.note # 0 /\ ~begun /\ tampers = 0) => Present(mapping.note)

(* However often a creation is repeated after its reply was lost, the       *)
(* object has one note, unless the user moved or renamed it in the meantime *)
(* (the note is searched by title and parent) or changed it in ReadWeave.   *)
OneNote == (~strayed /\ tampers = 0) =>
              Cardinality({n \in NoteIds : Present(n)}) <= 1

(* After a permanent deletion nothing of the object is left in ReadWeave,   *)
(* provided no projection was at the object meanwhile, no move was cut and  *)
(* no creation was left unmapped.                                           *)
PurgeLeavesNothing ==
    (~live /\ ~crossed /\ ~torn /\ ~strayed /\ tampers = 0) =>
        \A n \in NoteIds : ~Present(n)

(* When a job waited at the last change, was queued after it or came back   *)
(* to the queue, the note ends up where the object is, with its title, and  *)
(* nowhere else, however the attempts before were cut.  Without such a job  *)
(* it stays where it was: a move of a folder queues none, and the manual    *)
(* reconcile of a project is queued once (workspace.rs 171-240, 315).       *)
Settled ==
    /\ Present(mapping.note)
    /\ notes[mapping.note].parents = {wanted.parent}
    /\ notes[mapping.note].title = wanted.title
NoteFollows == <>[](due => Settled \/ torn \/ strayed \/ tampers > 0 \/ begun)

(* The comment in ensure_parent_branch says a retry recovers the branch of  *)
(* the attempt before, otherwise it would create a second placement: at     *)
(* rest the note has one placement.                                         *)
OnePlacement ==
    (worker.at = "idle" /\ purge.at = "idle" /\ live /\ tampers = 0 /\ mapping.note # 0
        /\ mapping.parent = wanted.parent) =>
            Cardinality(notes[mapping.note].parents) <= 1

(* The comment of purge_workspace_objects calls a deletion of what is       *)
(* already deleted successful: a purge that found nothing left goes on.     *)
PurgeIsRepeatable ==
    [][(FindBranchToPurge /\ \A n \in NoteIds : ~Present(n)) => purge'.at # "idle"]_vars

(* ARCHITECTURE_MENTAL_MODEL.md calls the notes a projection that can be    *)
(* rebuilt: a note deleted in ReadWeave comes back with the next job.       *)
NoteIsRebuilt == <>[](live /\ due => \E n \in NoteIds : Present(n))

=============================================================================
