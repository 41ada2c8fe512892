-------------------------- MODULE RecordingHandlers --------------------------
(***************************************************************************)
(* The HTTP and WebSocket handlers that use the recording lease            *)
(* (crates/core-server/src/projects.rs, audio.rs and workspace.rs), one    *)
(* action per store call.  Between two calls of one request anything may   *)
(* happen: other requests, the clock, a permanent deletion, a crash of the *)
(* process, a reply the client never sees.                                 *)
(***************************************************************************)
EXTENDS RecordingLease

CONSTANTS
    Requests,   \* requests in flight at once
    MaxFaults   \* bound on crashes, failing store calls and lost replies

ASSUME HandlerAssumption == MaxFaults \in Nat

VARIABLES
    req,        \* what each request is doing
    cred,       \* the credential each client keeps for its recording
    trashed,    \* sessions in the recycle bin
    faults,     \* how many of the faults have happened
    stopMark    \* history: the token that last took each session out of capture

handlerVars == <<leaseVars, req, cred, trashed, faults, stopMark>>

Request(op, pc, s, d, t, seen) ==
    [op |-> op, pc |-> pc, session |-> s, device |-> d, token |-> t, seen |-> seen]

Idle   == Request("idle", "idle", None, None, NoToken, "created")
NoCred == [session |-> None, token |-> NoToken]

Recordable == {"ready", "recording", "degraded", "completed", "failed"}
Drained    == {"completed", "failed"}

HandlerInit ==
    /\ LeaseInit
    /\ req = [r \in Requests |-> Idle]
    /\ cred = [d \in Devices |-> NoCred]
    /\ trashed = {}
    /\ faults = 0
    /\ stopMark = [s \in Sessions |-> NoToken]

Goto(r, pc) == req' = [req EXCEPT ![r].pc = pc]
Done(r)     == req' = [req EXCEPT ![r] = Idle]
At(r, op, pc) == req[r].op = op /\ req[r].pc = pc

(* One of the bounded faults happens.                                      *)
Fault == faults < MaxFaults /\ faults' = faults + 1

(* transition_session inside request r, and what it does when it may not.  *)
Moves(r, next, pc) ==
    /\ Advance(req[r].session, next)
    /\ Goto(r, pc)
CannotMove(r, next) ==
    /\ ~Transition(state[req[r].session], next)
    /\ Done(r)
    /\ UNCHANGED leaseVars

-----------------------------------------------------------------------------
(* acquire_recording *)

(* The session is read and must be recordable; admission may refuse a new
   recording, which is the request that never begins.                      *)
AcquireBegin(r, s, d) ==
    /\ req[r] = Idle
    /\ Exists(s) /\ state[s] \in Recordable
    /\ req' = [req EXCEPT ![r] = Request("acquire", "grant", s, d, NoToken, state[s])]
    /\ UNCHANGED <<leaseVars, cred, trashed, stopMark, faults>>

AcquireGrant(r) ==
    LET q == req[r] IN
    /\ At(r, "acquire", "grant")
    /\ \/ /\ Grant(q.session, q.device)
          /\ LET next == CASE q.seen = "ready"  -> "start"
                           [] q.seen \in Closed -> "announce"
                           [] OTHER             -> "reply"
             IN  req' = [req EXCEPT ![r] = Request("acquire", next, q.session, q.device,
                                                   lease'.token, q.seen)]
       \/ /\ Live \/ ~Exists(q.session)
          /\ Done(r) /\ UNCHANGED leaseVars
    /\ UNCHANGED <<cred, trashed, stopMark, faults>>

(* A session seen ready is moved to recording with the lease already held. *)
AcquireStart(r) ==
    /\ At(r, "acquire", "start")
    /\ Moves(r, "recording", "announce") \/ CannotMove(r, "recording")
    /\ UNCHANGED <<cred, trashed, stopMark, faults>>

(* The started event; the handler ignores the error of a failed emit.      *)
AcquireAnnounce(r) ==
    LET q == req[r]
        g == (CHOOSE i \in issued : i.token = q.token).generation
    IN
    /\ At(r, "acquire", "announce")
    /\ \/ RecordStarted(q.session, g) /\ UNCHANGED faults
       \/ ~Exists(q.session) /\ UNCHANGED <<leaseVars, faults>>
       \/ Fault /\ UNCHANGED leaseVars
    /\ Goto(r, "reply")
    /\ UNCHANGED <<cred, trashed, stopMark>>

AcquireReply(r) ==
    LET q == req[r] IN
    /\ At(r, "acquire", "reply")
    /\ cred' = [cred EXCEPT ![q.device] = [session |-> q.session, token |-> q.token]]
    /\ Done(r)
    /\ UNCHANGED <<leaseVars, trashed, stopMark, faults>>

-----------------------------------------------------------------------------
(* Requests a client makes with its credential *)

Begin(r, d, op, pc) ==
    req' = [req EXCEPT ![r] = Request(op, pc, cred[d].session, d, cred[d].token,
                                      state[cred[d].session])]

(* renew_recording: the session must be capturing when it is read.         *)
RenewBegin(r, d) ==
    /\ req[r] = Idle /\ cred[d] # NoCred
    /\ state[cred[d].session] \in Capturing
    /\ Begin(r, d, "renew", "renew")
    /\ UNCHANGED <<leaseVars, cred, trashed, stopMark, faults>>

RenewStore(r) ==
    LET q == req[r] IN
    /\ At(r, "renew", "renew")
    /\ \/ Renew(q.session, q.device, q.token)
       \/ /\ ~(lease.session = q.session /\ lease.device = q.device /\ lease.token = q.token)
          /\ UNCHANGED leaseVars
    /\ Done(r)
    /\ UNCHANGED <<cred, trashed, stopMark, faults>>

(* handle_socket: the lease is validated for the frame, then persist_frame
   stores it under the source of the recording's generation.               *)
FrameBegin(r, d) ==
    /\ req[r] = Idle /\ cred[d] # NoCred
    /\ Validates(cred[d].session, cred[d].token)
    /\ Begin(r, d, "frame", "persist")
    /\ UNCHANGED <<leaseVars, cred, trashed, stopMark, faults>>

FramePersist(r) ==
    /\ At(r, "frame", "persist")
    /\ Done(r)
    /\ UNCHANGED <<leaseVars, cred, trashed, stopMark, faults>>

-----------------------------------------------------------------------------
(* stop_recording *)

(* The reply that makes the client forget its credential.                  *)
Confirm(r) ==
    LET q == req[r] IN
    /\ cred' = IF cred[q.device].token = q.token
                 THEN [cred EXCEPT ![q.device] = NoCred] ELSE cred
    /\ Done(r)

StopBegin(r, d) ==
    /\ req[r] = Idle /\ cred[d] # NoCred /\ Exists(cred[d].session)
    /\ LET seen == state[cred[d].session] IN
         Begin(r, d, "stop", CASE seen \in Closed       -> "reply"
                               [] seen = "processing"   -> "release"
                               [] OTHER                 -> "validate")
    /\ UNCHANGED <<leaseVars, cred, trashed, stopMark, faults>>

StopValidate(r) ==
    LET q == req[r]
        held == Validates(q.session, q.token) /\ lease.device = q.device
    IN
    /\ At(r, "stop", "validate")
    /\ \/ held /\ q.seen \in Capturing  /\ Goto(r, "stopping")
       \/ held /\ q.seen = "stopping"   /\ Goto(r, "flush")
       \/ ~held                         /\ Done(r)
       \/ q.seen \in {"created", "ready"} /\ Done(r)
    /\ UNCHANGED <<leaseVars, cred, trashed, stopMark, faults>>

(* Mutant: the tails are flushed while the session still captures.         *)
FlushFirst(r) ==
    /\ At(r, "stop", "stopping")
    /\ Goto(r, "flush")
    /\ UNCHANGED <<leaseVars, cred, trashed, stopMark, faults>>

StopTransition(r) ==
    LET s == req[r].session IN
    /\ At(r, "stop", "stopping")
    /\ \/ /\ Moves(r, "stopping", "flush")
          /\ stopMark' = [stopMark EXCEPT ![s] = req[r].token]
       \/ CannotMove(r, "stopping") /\ UNCHANGED stopMark
    /\ UNCHANGED <<cred, trashed, faults>>

(* flush_session_buffers seals the tails (AudioAssembly), then the session
   is read again: another stop may already have reached processing.        *)
StopFlush(r) ==
    /\ At(r, "stop", "flush")
    /\ Goto(r, IF state[req[r].session] = "processing" THEN "release" ELSE "processing")
    /\ UNCHANGED <<leaseVars, cred, trashed, stopMark, faults>>

StopProcessing(r) ==
    /\ At(r, "stop", "processing")
    /\ Moves(r, "processing", "release") \/ CannotMove(r, "processing")
    /\ UNCHANGED <<cred, trashed, stopMark, faults>>

(* Mutant: the stop deletes the lease row.                                 *)
StopDeletesRow(r) ==
    /\ At(r, "stop", "release")
    /\ lease' = NoRow
    /\ Goto(r, "finish")
    /\ UNCHANGED <<clock, state, recorded, issued, epoch, cred, trashed, stopMark, faults>>

(* A row that no longer carries the token makes the release a no-op.       *)
StopRelease(r) ==
    LET q == req[r] IN
    /\ At(r, "stop", "release")
    /\ \/ Release(q.session, q.token)
       \/ ~(lease.session = q.session /\ lease.token = q.token) /\ UNCHANGED leaseVars
    /\ Goto(r, "finish")
    /\ UNCHANGED <<cred, trashed, stopMark, faults>>

(* finish_session_after_stop: a drained processing session is closed; jobs
   still queued, or a session already closed, leave it as it is.           *)
StopFinish(r) ==
    /\ At(r, "stop", "finish")
    /\ \/ \E next \in Drained : Moves(r, next, "reply")
       \/ Goto(r, "reply") /\ UNCHANGED leaseVars
    /\ UNCHANGED <<cred, trashed, stopMark, faults>>

StopReply(r) ==
    /\ At(r, "stop", "reply")
    /\ Confirm(r)
    /\ UNCHANGED <<leaseVars, trashed, stopMark, faults>>

(* The last model job of the session completes: finish_session_if_drained. *)
JobsDrained(s) ==
    /\ state[s] = "processing"
    /\ \E next \in Drained : Advance(s, next)
    /\ UNCHANGED <<req, cred, trashed, stopMark, faults>>

-----------------------------------------------------------------------------
(* Recycle bin *)

(* trash_entity.  Nothing a recorder does looks at the recycle bin, so the
   three reads of ensure_sessions_can_move_to_trash are taken at once.     *)
Trash(s) ==
    /\ s \in Purgeable \ trashed /\ Exists(s)
    /\ state[s] \notin {"stopping", "processing"}
    /\ ~(Live /\ lease.session = s)
    /\ trashed' = trashed \cup {s}
    /\ UNCHANGED <<leaseVars, req, cred, stopMark, faults>>

(* purge_entity reads the state, waits for ReadWeave, then deletes.        *)
PurgeBegin(r, s) ==
    /\ req[r] = Idle /\ s \in trashed /\ Exists(s)
    /\ state[s] \notin {"recording", "degraded", "stopping", "processing"}
    /\ req' = [req EXCEPT ![r] = Request("purge", "delete", s, None, NoToken, "created")]
    /\ UNCHANGED <<leaseVars, cred, trashed, stopMark, faults>>

PurgeDelete(r) ==
    /\ At(r, "purge", "delete")
    /\ Purge(req[r].session) \/ (~Exists(req[r].session) /\ UNCHANGED leaseVars)
    /\ trashed' = trashed \ {req[r].session}
    /\ Done(r)
    /\ UNCHANGED <<cred, stopMark, faults>>

-----------------------------------------------------------------------------
(* Failures and time *)

(* A store call of request r answers with an error and the handler returns,
   or the reply is lost on the way.                                        *)
RequestFails(r) ==
    /\ req[r] # Idle /\ Fault
    /\ Done(r)
    /\ UNCHANGED <<leaseVars, cred, trashed, stopMark>>

(* The process restarts.  main.rs resumes audio assembly and nothing else. *)
Crash ==
    /\ \E r \in Requests : req[r] # Idle
    /\ Fault
    /\ req' = [r \in Requests |-> Idle]
    /\ UNCHANGED <<leaseVars, cred, trashed, stopMark>>

TimePasses == Tick /\ UNCHANGED <<req, cred, trashed, stopMark, faults>>

Continue(r) ==
    \/ AcquireGrant(r) \/ AcquireStart(r) \/ AcquireAnnounce(r) \/ AcquireReply(r)
    \/ RenewStore(r) \/ FramePersist(r)
    \/ StopValidate(r) \/ StopTransition(r) \/ StopFlush(r) \/ StopProcessing(r)
    \/ StopRelease(r) \/ StopFinish(r) \/ StopReply(r)
    \/ PurgeDelete(r)

HandlerNext ==
    \/ \E r \in Requests, s \in Sessions, d \in Devices : AcquireBegin(r, s, d)
    \/ \E r \in Requests, d \in Devices :
         RenewBegin(r, d) \/ FrameBegin(r, d) \/ StopBegin(r, d)
    \/ \E r \in Requests, s \in Sessions : PurgeBegin(r, s)
    \/ \E r \in Requests : Continue(r) \/ RequestFails(r)
    \/ \E s \in Sessions : JobsDrained(s) \/ Trash(s)
    \/ Crash
    \/ TimePasses

HandlerSpec == HandlerInit /\ [][HandlerNext]_handlerVars

(* A handler that has begun runs on; a client that still has a credential
   repeats its stop; the jobs of a processing session drain.               *)
Fairness ==
    /\ \A r \in Requests : WF_handlerVars(Continue(r))
    /\ \A d \in Devices : SF_handlerVars(\E r \in Requests : StopBegin(r, d))
    /\ \A s \in Sessions : WF_handlerVars(JobsDrained(s))

FairHandlerSpec == HandlerSpec /\ Fairness

-----------------------------------------------------------------------------
(* Properties *)

RequestStates ==
    [op : {"idle", "acquire", "renew", "frame", "stop", "purge"},
     pc : {"idle", "grant", "start", "announce", "reply", "renew", "persist", "validate",
           "stopping", "flush", "processing", "release", "finish", "delete"},
     session : Sessions \cup {None}, device : Devices \cup {None}, token : Nat,
     seen : SessionStates \cup {"purged"}]

Backed(s, t) == \E i \in issued : i.token = t /\ i.session = s

WellFormed(q) ==
    /\ q.op # "idle" => q.session \in Sessions
    /\ q.op \notin {"idle", "purge"} => q.device \in Devices
    /\ q.token # NoToken => Backed(q.session, q.token)
    /\ q.op = "acquire" /\ q.pc \in {"start", "announce", "reply"} => q.token # NoToken

(* The shape of requests and credentials: what a request or a client calls
   its token was granted, and for the session it names.                    *)
HandlerTypeOK ==
    /\ LeaseTypeOK
    /\ req \in [Requests -> RequestStates]
    /\ cred \in [Devices -> [session : Sessions \cup {None}, token : Nat]]
    /\ \A r \in Requests : WellFormed(req[r])
    /\ \A d \in Devices : cred[d] # NoCred => Backed(cred[d].session, cred[d].token)
    /\ trashed \subseteq Purgeable

(* The strengthening under which every handler step is a step of the lease:
   tokens are unique, so that the started event names the generation of the
   lease that was granted, and they are among those a lease may have.      *)
HandlerIInv == HandlerTypeOK /\ FenceInv /\ Minted \subseteq 1..MaxLeases

(* Every handler step makes at most one store call of the lease table, with
   arguments the table accepts: what holds of LeaseSpec holds here.        *)
HandlersUseLease == LeaseSpec

(* Once a stop has taken a session out of capture, however many stops and
   acquisitions race with it, the session is captured again only under a
   lease granted after the one that was stopped.                           *)
StopSticks ==
    \A s \in Sessions : state[s] \in Capturing =>
        \E i \in issued : i.session = s /\ i.token > stopMark[s]

(* A stop under way has left the session out of capture, unless a newer
   lease for that session reopened it meanwhile: no stop runs its closing
   steps on a recording that its own client still makes.                   *)
ClosingIsNotCapturing ==
    \A r \in Requests :
        req[r].op = "stop" /\ req[r].pc \in {"flush", "processing", "release", "finish"}
          /\ state[req[r].session] \in Capturing
          => lease.token # req[r].token

(* The strengthening under which the two properties above are inductive.
   No session returns to the states before its first recording, so each one
   that captures again was reopened by a new lease; a stop whose session had
   left capture when it was read no longer holds the lease of a session that
   captures.                                                               *)
Unstarted == {"created", "ready"}

Closing(q) ==
    /\ q.op = "stop"
    /\ \/ q.pc \in {"flush", "processing", "release", "finish"}
       \/ q.pc = "validate" /\ q.seen = "stopping"

StopIInv ==
    /\ StopSticks
    /\ stopMark \in [Sessions -> Nat]
    /\ \A s \in Sessions :
         /\ stopMark[s] \in Minted \cup {NoToken}
         /\ state[s] \in Unstarted => stopMark[s] = NoToken
    /\ \A r \in Requests :
         /\ req[r].op = "stop" => req[r].token # NoToken
         /\ Closing(req[r]) =>
              /\ state[req[r].session] \notin Unstarted
              /\ state[req[r].session] \in Capturing => lease.token # req[r].token

(* A stop request that was accepted is not left half done: the session does
   not stay in stopping (projects.rs 958-961 refuses to record meanwhile and
   says the course can be continued afterwards).                           *)
StoppingResolves ==
    \A s \in Sessions : state[s] = "stopping" ~> state[s] # "stopping"

(* "Old leases and old sources can no longer write" (ADR 0009): no frame is
   persisted for a token after another lease replaced it.                  *)
NoWriteAfterTakeover ==
    [][\A r \in Requests :
         FramePersist(r) => lease.token \in {req[r].token, NoToken}]_handlerVars

(* "After a stop the generation is kept and the old token is void"
   (PROJECT_STATE.md 268): a confirmed stop leaves its token invalid.      *)
StoppedTokenIsVoid ==
    [][\A r \in Requests :
         StopReply(r) => ~(Live /\ lease.token = req[r].token)]_handlerVars
==============================================================================
