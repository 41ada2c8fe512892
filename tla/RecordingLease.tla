---------------------------- MODULE RecordingLease ----------------------------
(***************************************************************************)
(* The recording lease of one project, as the event store keeps it         *)
(* (crates/event-store/src/lib.rs, 1600-1718): a row of recording_leases,  *)
(* the sessions of the project and the generations their                   *)
(* session.recording.started events name.  Each action is one store call,  *)
(* atomic under the store's connection mutex; the HTTP handlers that make  *)
(* several calls are in RecordingHandlers.                                 *)
(***************************************************************************)
EXTENDS Naturals, SessionStates

CONSTANTS
    Sessions,     \* the sessions of the project
    Devices,      \* the recorder device ids of its owner's clients
    None,         \* no session, no device
    TTL,          \* lifetime of a lease in ticks (LEASE_SECONDS)
    Legacy,       \* highest generation an older release may have recorded
    Purgeable,    \* the sessions the owner may delete permanently
    MaxTime,      \* bound on the clock
    MaxLeases     \* bound on the leases granted

ASSUME ConstantsAssumption ==
    /\ None \notin Sessions /\ None \notin Devices
    /\ TTL \in Nat \ {0} /\ Legacy \in Nat
    /\ Purgeable \subseteq Sessions
    /\ MaxTime \in Nat /\ MaxLeases \in Nat

VARIABLES
    clock,     \* Utc::now() in ticks
    lease,     \* the row of the project, NoRow when there is none
    state,     \* sessions.state, "purged" once a session is deleted
    recorded,  \* highest generation in a session's recording.started events
    issued,    \* history: every lease ever granted
    epoch      \* history: how many times the row has been deleted

leaseVars == <<clock, lease, state, recorded, issued, epoch>>

NoToken == 0    \* the empty token hash of a released row
NoRow   == [session |-> None, device |-> None, token |-> NoToken,
            generation |-> 0, expires |-> 0]

Exists(s) == state[s] # "purged"
Live      == lease.token # NoToken /\ lease.expires > clock

(* new_lease_token: two fresh UUIDs, never drawn before; numbered in the    *)
(* order they are granted.                                                 *)
Minted        == {i.token : i \in issued}
FreshToken(t) == t \in 1..MaxLeases /\ Minted = 1..(t - 1)

LeaseInit ==
    /\ clock = 1
    /\ lease = NoRow
    /\ recorded \in [Sessions -> 0..Legacy]
    /\ state = [s \in Sessions |-> IF recorded[s] = 0 THEN "ready" ELSE "completed"]
    /\ issued = {}
    /\ epoch = 0

Tick ==
    /\ clock < MaxTime
    /\ clock' = clock + 1
    /\ UNCHANGED <<lease, state, recorded, issued, epoch>>

(* h is MAX(generation) over the started events of the project's sessions. *)
Recorded      == {0} \cup {recorded[s] : s \in Sessions}
Historical(h) == h \in Recorded /\ \A r \in Recorded : r <= h

(* Mutant: only the started events are consulted, not the released row.    *)
GenerationFromHistory(h) == h + 1

(* One above both the row's generation and the recorded history.           *)
NextGeneration(h) == (IF lease.generation >= h THEN lease.generation ELSE h) + 1

(* Mutant: a newer recorder takes the lease while it is valid.             *)
AcquireAnyway(s, d, t, g) ==
    /\ Exists(s) /\ FreshToken(t)
    /\ lease' = [session |-> s, device |-> d, token |-> t,
                 generation |-> g, expires |-> clock + TTL]
    /\ state' = IF state[s] \in Closed THEN [state EXCEPT ![s] = "recording"] ELSE state
    /\ issued' = issued \cup {[token |-> t, generation |-> g, session |-> s,
                               device |-> d, epoch |-> epoch]}
    /\ UNCHANGED <<clock, recorded, epoch>>

(* acquire_recording_lease.  The same transaction reopens a closed session. *)
Acquire(s, d, t, g) ==
    /\ ~Live
    /\ Exists(s) /\ FreshToken(t)
    /\ lease' = [session |-> s, device |-> d, token |-> t,
                 generation |-> g, expires |-> clock + TTL]
    /\ state' = IF state[s] \in Closed THEN [state EXCEPT ![s] = "recording"] ELSE state
    /\ issued' = issued \cup {[token |-> t, generation |-> g, session |-> s,
                               device |-> d, epoch |-> epoch]}
    /\ UNCHANGED <<clock, recorded, epoch>>

Grant(s, d) ==
    \E t \in 1..MaxLeases, h \in Recorded :
        Historical(h) /\ Acquire(s, d, t, NextGeneration(h))

(* Mutant: the renewal matches session and device and writes its token.    *)
RenewWritesToken(s, d, t) ==
    /\ lease.session = s /\ lease.device = d /\ t \in Minted
    /\ lease' = [lease EXCEPT !.token = t, !.expires = clock + TTL]
    /\ UNCHANGED <<clock, state, recorded, issued, epoch>>

(* renew_recording_lease matches session, device and token, never the expiry. *)
Renew(s, d, t) ==
    /\ lease.session = s /\ lease.device = d
    /\ lease.token = t /\ t # NoToken
    /\ lease' = [lease EXCEPT !.expires = clock + TTL]
    /\ UNCHANGED <<clock, state, recorded, issued, epoch>>

(* validate_recording_lease: what an audio frame or a stop must pass.      *)
Validates(s, t) == Live /\ lease.session = s /\ lease.token = t

(* release_recording_lease expires the row and blanks its token.           *)
Release(s, t) ==
    /\ lease.session = s /\ lease.token = t /\ t # NoToken
    /\ lease' = [lease EXCEPT !.expires = 0, !.token = NoToken]
    /\ UNCHANGED <<clock, state, recorded, issued, epoch>>

(* The states the handlers ask transition_session for.                     *)
Requested == {"ready", "recording", "stopping", "processing", "completed", "failed"}

(* transition_session: read, check, update where the state is still that.  *)
Advance(s, next) ==
    /\ next \in Requested
    /\ Transition(state[s], next)
    /\ state' = [state EXCEPT ![s] = next]
    /\ UNCHANGED <<clock, lease, recorded, issued, epoch>>

(* A session.recording.started event reaches the log.                      *)
RecordStarted(s, g) ==
    /\ Exists(s)
    /\ recorded' = [recorded EXCEPT ![s] = IF @ >= g THEN @ ELSE g]
    /\ UNCHANGED <<clock, lease, state, issued, epoch>>

(* purge_workspace_items deletes the session, its events and, when the row *)
(* names this session, the project's lease row.                            *)
Purge(s) ==
    /\ s \in Purgeable /\ Exists(s)
    /\ state' = [state EXCEPT ![s] = "purged"]
    /\ recorded' = [recorded EXCEPT ![s] = 0]
    /\ IF lease.session = s
         THEN lease' = NoRow /\ epoch' = epoch + 1
         ELSE UNCHANGED <<lease, epoch>>
    /\ UNCHANGED <<clock, issued>>

LeaseNext ==
    \/ Tick
    \/ \E s \in Sessions, d \in Devices : Grant(s, d)
    \/ \E s \in Sessions, d \in Devices, t \in 1..MaxLeases : Renew(s, d, t)
    \/ \E s \in Sessions, t \in 1..MaxLeases : Release(s, t)
    \/ \E s \in Sessions, next \in Requested : Advance(s, next)
    \/ \E i \in issued : RecordStarted(i.session, i.generation)
    \/ \E s \in Sessions : Purge(s)

LeaseSpec == LeaseInit /\ [][LeaseNext]_leaseVars

-----------------------------------------------------------------------------
(* Properties *)

IssuedRecord == [token : Nat, generation : Nat, session : Sessions,
                 device : Devices, epoch : Nat]

(* The types of the lease row, the sessions and the history; among other
   things a row that names a token also names the session and the device.  *)
LeaseTypeOK ==
    /\ clock \in Nat
    /\ lease \in [session : Sessions \cup {None}, device : Devices \cup {None},
                  token : Nat, generation : Nat, expires : Nat]
    /\ state \in [Sessions -> SessionStates \cup {"purged"}]
    /\ recorded \in [Sessions -> Nat]
    /\ issued \subseteq IssuedRecord
    /\ epoch \in Nat

(* Fencing: as long as the lease row of the project is not deleted with a
   purged course, no generation is granted twice, whatever stops, expiries
   and lost started events came in between.  Audio source ids embed it
   (acquire_recording_lease, "before allocating a fresh audio source").    *)
GenerationUnique ==
    \A i, j \in issued :
        i.epoch = j.epoch /\ i.generation = j.generation => i = j

(* The strengthening that makes GenerationUnique inductive: no two leases
   share a token, the row's token is one that was granted, and the row's
   generation bounds every generation granted since the row was created.   *)
FenceInv ==
    /\ \A i, j \in issued : i.token = j.token => i = j
    /\ \A i \in issued : i.token # NoToken /\ i.epoch <= epoch
    /\ lease.token # NoToken => lease.token \in Minted
    /\ \A i \in issued : i.epoch = epoch => i.generation <= lease.generation
    /\ GenerationUnique

(* A token once replaced, released or purged is never the row's token again:
   neither a late renewal nor a late stop of the old recorder can bring its
   lease back (renew_ and release_recording_lease match the token hash).   *)
SupersededStaysDead ==
    [][\A i \in issued : lease.token # i.token => lease'.token # i.token]_leaseVars

(* While a token is valid, a step that hands the project to another token
   without the holder releasing it first does not exist
   (the conflict branch of acquire_recording_lease).                       *)
TakeoverOnlyAfterExpiry ==
    [][Live /\ lease'.token # lease.token => lease'.token = NoToken]_leaseVars

(* A completed or failed session is captured again only by a new lease for
   it: a late model result cannot reopen it (SessionState::transition).    *)
ReopenedOnlyByLease ==
    [][\A s \in Sessions :
         state[s] \in Closed /\ state'[s] \in SessionStates \ Closed
           => \E i \in issued' \ issued : i.session = s /\ lease'.token = i.token]_leaseVars

(* The source id of audio is <<session, generation>>; it is never given to
   two leases, deletions of other courses of the project included
   ("prevents device audio numbers from being reused", PROJECT_STATE.md).  *)
SourceNeverReused ==
    \A i, j \in issued :
        i.session = j.session /\ i.generation = j.generation => i = j

Authority == INSTANCE LeaseAuthority
    WITH Tokens <- 1..MaxLeases, NoToken <- NoToken, owner <- lease.token, valid <- Live,
         fence <- lease.generation, spent <- Minted

(* Every store call is one step, or no step, of the abstract authority.    *)
ImplementsAuthority == Authority!Spec
==============================================================================
