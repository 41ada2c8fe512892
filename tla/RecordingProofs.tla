---------------------------- MODULE RecordingProofs ----------------------------
(***************************************************************************)
(* Proofs about recording: the lease of the store, for every set of        *)
(* sessions and devices and every bound; its handlers, which implement it  *)
(* with every crash, failure and lost reply; and the stop, which is not    *)
(* undone and never closes a recording its own client still makes.         *)
(***************************************************************************)
EXTENDS RecordingHandlers, TLAPS

(* The lease of the store *)

(* The generation an acquisition allocates is a number above the row's.    *)
LEMMA NextGenerationAbove ==
    ASSUME LeaseTypeOK, NEW h \in Recorded
    PROVE  NextGeneration(h) \in Nat /\ NextGeneration(h) > lease.generation
  <1>1. h \in Nat
    BY DEF LeaseTypeOK, Recorded
  <1>2. lease.generation \in Nat
    BY DEF LeaseTypeOK
  <1> QED
    BY <1>1, <1>2 DEF NextGeneration

(* A fresh token is a positive number that no issued lease carries.        *)
LEMMA FreshTokenUnused ==
    ASSUME NEW t \in 1..MaxLeases, FreshToken(t)
    PROVE  t \in Nat /\ t # NoToken /\ \A i \in issued : i.token # t
  <1>1. t \in Nat /\ t # NoToken /\ t \notin Minted
    BY ConstantsAssumption DEF FreshToken, NoToken
  <1> QED
    BY <1>1 DEF Minted

(* The type invariant holds initially.                                     *)
LEMMA TypeInit == LeaseInit => LeaseTypeOK
  BY ConstantsAssumption
  DEF LeaseInit, LeaseTypeOK, NoRow, NoToken, SessionStates, IssuedRecord

(* Every store call preserves the type invariant.                          *)
LEMMA TypeStep == LeaseTypeOK /\ [LeaseNext]_leaseVars => LeaseTypeOK'
<1> SUFFICES ASSUME LeaseTypeOK, [LeaseNext]_leaseVars PROVE LeaseTypeOK'
    OBVIOUS
<1> USE ConstantsAssumption
<1>1. CASE Tick
  BY <1>1 DEF LeaseTypeOK, Tick, IssuedRecord
<1>2. ASSUME NEW s \in Sessions, NEW d \in Devices, Grant(s, d)
      PROVE  LeaseTypeOK'
  <2>1. PICK t \in 1..MaxLeases, h \in Recorded :
            Historical(h) /\ Acquire(s, d, t, NextGeneration(h))
    BY <1>2 DEF Grant
  <2> DEFINE g == NextGeneration(h)
  <2>2. g \in Nat
    BY NextGenerationAbove
  <2> HIDE DEF g
  <2>3. Acquire(s, d, t, g)
    BY <2>1 DEF g
  <2>4. t \in Nat
    OBVIOUS
  <2>5. lease' \in [session : Sessions \cup {None}, device : Devices \cup {None},
                    token : Nat, generation : Nat, expires : Nat]
    BY <2>2, <2>3, <2>4 DEF Acquire, LeaseTypeOK
  <2>6. state' \in [Sessions -> SessionStates \cup {"purged"}]
    BY <2>3 DEF Acquire, LeaseTypeOK, SessionStates
  <2>7. issued' \subseteq IssuedRecord'
    BY <2>2, <2>3, <2>4 DEF Acquire, LeaseTypeOK, IssuedRecord
  <2> QED
    BY <2>3, <2>5, <2>6, <2>7 DEF Acquire, LeaseTypeOK
<1>3. ASSUME NEW s \in Sessions, NEW d \in Devices, NEW t \in 1..MaxLeases,
             Renew(s, d, t)
      PROVE  LeaseTypeOK'
  BY <1>3 DEF LeaseTypeOK, Renew, IssuedRecord
<1>4. ASSUME NEW s \in Sessions, NEW t \in 1..MaxLeases, Release(s, t)
      PROVE  LeaseTypeOK'
  BY <1>4 DEF LeaseTypeOK, Release, NoToken, IssuedRecord
<1>5. ASSUME NEW s \in Sessions, NEW next \in Requested, Advance(s, next)
      PROVE  LeaseTypeOK'
  BY <1>5 DEF LeaseTypeOK, Advance, Requested, SessionStates, IssuedRecord
<1>6. ASSUME NEW i \in issued, RecordStarted(i.session, i.generation)
      PROVE  LeaseTypeOK'
  <2>1. i.session \in Sessions /\ i.generation \in Nat
    BY DEF LeaseTypeOK, IssuedRecord
  <2> QED
    BY <1>6, <2>1 DEF LeaseTypeOK, RecordStarted, IssuedRecord
<1>7. ASSUME NEW s \in Sessions, Purge(s) PROVE LeaseTypeOK'
  BY <1>7 DEF LeaseTypeOK, Purge, NoRow, NoToken, IssuedRecord
<1>8. CASE UNCHANGED leaseVars
  BY <1>8 DEF leaseVars, LeaseTypeOK, IssuedRecord
<1> QED
  BY <1>1, <1>2, <1>3, <1>4, <1>5, <1>6, <1>7, <1>8 DEF LeaseNext

(* The types of the lease row, the sessions and the history are kept by
   every sequence of store calls.                                          *)
THEOREM TypeCorrect == LeaseSpec => []LeaseTypeOK
  BY TypeInit, TypeStep, PTL DEF LeaseSpec

-----------------------------------------------------------------------------
(* Fencing *)

(* The fence invariant holds when nothing has been granted.                *)
LEMMA FenceInit == LeaseInit => FenceInv
  BY DEF LeaseInit, FenceInv, GenerationUnique, NoRow, NoToken, Minted

(* Every store call preserves the fence invariant: an acquisition raises
   the row's generation, a release keeps it, and the deletion of the row
   starts an epoch in which nothing has been granted yet.                  *)
LEMMA FenceStep ==
    LeaseTypeOK /\ FenceInv /\ [LeaseNext]_leaseVars => FenceInv'
<1> SUFFICES ASSUME LeaseTypeOK, FenceInv, [LeaseNext]_leaseVars PROVE FenceInv'
    OBVIOUS
<1> USE ConstantsAssumption
<1>a. ASSUME UNCHANGED issued, UNCHANGED epoch,
             lease'.generation = lease.generation,
             lease'.token \in {lease.token, NoToken}
      PROVE  FenceInv'
  BY <1>a DEF FenceInv, GenerationUnique, Minted, NoToken
<1>1. CASE Tick
  BY <1>1, <1>a DEF Tick
<1>2. ASSUME NEW s \in Sessions, NEW d \in Devices, Grant(s, d)
      PROVE  FenceInv'
  <2>1. PICK t \in 1..MaxLeases, h \in Recorded :
            Historical(h) /\ Acquire(s, d, t, NextGeneration(h))
    BY <1>2 DEF Grant
  <2> DEFINE g == NextGeneration(h)
             new == [token |-> t, generation |-> g, session |-> s,
                     device |-> d, epoch |-> epoch]
  <2>2. g \in Nat /\ g > lease.generation
    BY NextGenerationAbove
  <2>3. t # NoToken /\ \A i \in issued : i.token # t
    BY <2>1, FreshTokenUnused DEF Acquire
  <2>4. issued' = issued \cup {new} /\ epoch' = epoch
        /\ lease'.token = t /\ lease'.generation = g
    BY <2>1 DEF Acquire
  <2>5. new.token = t /\ new.generation = g /\ new.epoch = epoch
    OBVIOUS
  <2> HIDE DEF g, new
  <2>6. \A i \in issued : i.epoch = epoch => i.generation < g
    <3>1. lease.generation \in Nat /\ \A i \in issued : i.generation \in Nat
      BY DEF LeaseTypeOK, IssuedRecord
    <3> QED
      BY <2>2, <3>1 DEF FenceInv
  <2>7. \A i, j \in issued' : i.token = j.token => i = j
    BY <2>3, <2>4, <2>5 DEF FenceInv
  <2>8. \A i \in issued' : i.token # NoToken /\ i.epoch <= epoch'
    <3>1. epoch \in Nat
      BY DEF LeaseTypeOK
    <3> QED
      BY <2>3, <2>4, <2>5, <3>1 DEF FenceInv, NoToken
  <2>9. lease'.token \in Minted'
    BY <2>4, <2>5 DEF Minted
  <2>10. \A i \in issued' : i.epoch = epoch' => i.generation <= lease'.generation
    <3>1. \A i \in issued : i.generation \in Nat
      BY DEF LeaseTypeOK, IssuedRecord
    <3> QED
      BY <2>2, <2>4, <2>5, <2>6, <3>1
  <2>11. GenerationUnique'
    <3> SUFFICES ASSUME NEW i \in issued', NEW j \in issued',
                        i.epoch = j.epoch, i.generation = j.generation
                 PROVE  i = j
      BY DEF GenerationUnique
    <3>1. CASE i \in issued /\ j \in issued
      BY <3>1 DEF FenceInv, GenerationUnique
    <3>2. CASE i = new /\ j \in issued
      BY <2>2, <2>5, <2>6, <3>2
    <3>3. CASE j = new /\ i \in issued
      BY <2>2, <2>5, <2>6, <3>3
    <3> QED
      BY <2>4, <3>1, <3>2, <3>3
  <2> QED
    BY <2>7, <2>8, <2>9, <2>10, <2>11 DEF FenceInv
<1>3. ASSUME NEW s \in Sessions, NEW d \in Devices, NEW t \in 1..MaxLeases,
             Renew(s, d, t)
      PROVE  FenceInv'
  BY <1>3, <1>a DEF Renew, LeaseTypeOK
<1>4. ASSUME NEW s \in Sessions, NEW t \in 1..MaxLeases, Release(s, t)
      PROVE  FenceInv'
  BY <1>4, <1>a DEF Release, LeaseTypeOK
<1>5. ASSUME NEW s \in Sessions, NEW next \in Requested, Advance(s, next)
      PROVE  FenceInv'
  BY <1>5, <1>a DEF Advance
<1>6. ASSUME NEW i \in issued, RecordStarted(i.session, i.generation)
      PROVE  FenceInv'
  BY <1>6, <1>a DEF RecordStarted
<1>7. ASSUME NEW s \in Sessions, Purge(s) PROVE FenceInv'
  <2>1. CASE lease.session = s
    <3>1. lease' = NoRow /\ epoch' = epoch + 1 /\ issued' = issued
      BY <1>7, <2>1 DEF Purge
    <3>2. epoch \in Nat /\ \A i \in issued : i.epoch \in Nat
      BY DEF LeaseTypeOK, IssuedRecord
    <3>3. \A i \in issued : i.epoch <= epoch' /\ i.epoch # epoch'
      BY <3>1, <3>2 DEF FenceInv
    <3>4. lease'.token = NoToken
      BY <3>1 DEF NoRow
    <3> QED
      BY <3>1, <3>3, <3>4 DEF FenceInv, GenerationUnique, Minted
  <2>2. CASE lease.session # s
    BY <1>7, <1>a, <2>2 DEF Purge
  <2> QED
    BY <2>1, <2>2
<1>8. CASE UNCHANGED leaseVars
  BY <1>8, <1>a DEF leaseVars
<1> QED
  BY <1>1, <1>2, <1>3, <1>4, <1>5, <1>6, <1>7, <1>8 DEF LeaseNext

(* The fence invariant holds in every reachable state.                     *)
THEOREM FenceCorrect == LeaseSpec => []FenceInv
  BY TypeCorrect, FenceInit, FenceStep, PTL DEF LeaseSpec

(* No generation is granted twice while the project's lease row exists, so
   the audio source id that embeds it names one lease.                     *)
THEOREM GenerationsAreUnique == LeaseSpec => []GenerationUnique
  <1>1. FenceInv => GenerationUnique
    BY DEF FenceInv
  <1> QED
    BY <1>1, FenceCorrect, PTL

-----------------------------------------------------------------------------
(* What a step may never do *)

(* What each kind of step does to the row's token: an acquisition needs a
   row that is not live and brings a token nobody had, any other step keeps
   the token or blanks it.                                                 *)
LEMMA TokenStep ==
    ASSUME LeaseTypeOK, [LeaseNext]_leaseVars
    PROVE  \/ lease'.token \in {lease.token, NoToken}
           \/ /\ ~Live
              /\ lease'.token # NoToken
              /\ \A i \in issued : i.token # lease'.token
<1> USE ConstantsAssumption
<1>1. CASE Tick
  BY <1>1 DEF Tick
<1>2. ASSUME NEW s \in Sessions, NEW d \in Devices, Grant(s, d)
      PROVE  ~Live /\ lease'.token # NoToken /\ \A i \in issued : i.token # lease'.token
  <2>1. PICK t \in 1..MaxLeases, h \in Recorded :
            Historical(h) /\ Acquire(s, d, t, NextGeneration(h))
    BY <1>2 DEF Grant
  <2>2. ~Live /\ FreshToken(t) /\ lease'.token = t
    BY <2>1 DEF Acquire
  <2> QED
    BY <2>2, FreshTokenUnused
<1>3. ASSUME NEW s \in Sessions, NEW d \in Devices, NEW t \in 1..MaxLeases,
             Renew(s, d, t)
      PROVE  lease'.token = lease.token
  BY <1>3 DEF Renew, LeaseTypeOK
<1>4. ASSUME NEW s \in Sessions, NEW t \in 1..MaxLeases, Release(s, t)
      PROVE  lease'.token = NoToken
  BY <1>4 DEF Release, LeaseTypeOK
<1>5. ASSUME NEW s \in Sessions, NEW next \in Requested, Advance(s, next)
      PROVE  lease'.token = lease.token
  BY <1>5 DEF Advance
<1>6. ASSUME NEW i \in issued, RecordStarted(i.session, i.generation)
      PROVE  lease'.token = lease.token
  BY <1>6 DEF RecordStarted
<1>7. ASSUME NEW s \in Sessions, Purge(s)
      PROVE  lease'.token \in {lease.token, NoToken}
  BY <1>7 DEF Purge, NoRow
<1>8. CASE UNCHANGED leaseVars
  BY <1>8 DEF leaseVars
<1> QED
  BY <1>1, <1>2, <1>3, <1>4, <1>5, <1>6, <1>7, <1>8 DEF LeaseNext

(* A token that was replaced, released or purged never owns the project
   again, so a late renewal or stop of an old recorder changes nothing.    *)
THEOREM SupersededTokensStayDead == LeaseSpec => SupersededStaysDead
  <1>1. ASSUME LeaseTypeOK, FenceInv, [LeaseNext]_leaseVars,
               NEW i \in issued, lease.token # i.token
        PROVE  lease'.token # i.token
    <2>1. i.token # NoToken
      BY <1>1 DEF FenceInv
    <2> QED
      BY <1>1, <2>1, TokenStep
  <1>2. LeaseTypeOK /\ FenceInv /\ [LeaseNext]_leaseVars
          => [\A i \in issued : lease.token # i.token => lease'.token # i.token]_leaseVars
    BY <1>1
  <1> QED
    BY <1>2, TypeCorrect, FenceCorrect, PTL DEF LeaseSpec, SupersededStaysDead

(* Nobody takes the project over while the holder's token is valid.        *)
THEOREM NoTakeoverOfAValidLease == LeaseSpec => TakeoverOnlyAfterExpiry
  <1>1. LeaseTypeOK /\ [LeaseNext]_leaseVars
          => [Live /\ lease'.token # lease.token => lease'.token = NoToken]_leaseVars
    BY TokenStep
  <1> QED
    BY <1>1, TypeCorrect, PTL DEF LeaseSpec, TakeoverOnlyAfterExpiry

-----------------------------------------------------------------------------
(* Refinement *)

(* The first state of the lease is a first state of the abstract authority. *)
LEMMA AuthorityInit == LeaseInit => Authority!Init
  BY DEF LeaseInit, Authority!Init, NoRow, NoToken, Live, Minted

(* Every store call is a step of the abstract authority or leaves it alone. *)
LEMMA AuthorityStep ==
    LeaseTypeOK /\ [LeaseNext]_leaseVars => [Authority!Next]_(Authority!vars)
<1> SUFFICES ASSUME LeaseTypeOK, [LeaseNext]_leaseVars
             PROVE  [Authority!Next]_(Authority!vars)
    OBVIOUS
<1> USE ConstantsAssumption
<1>0. Live \in BOOLEAN /\ Live' \in BOOLEAN
  BY DEF Live
<1>1. CASE Tick
  <2>1. lease' = lease /\ Minted' = Minted
    BY <1>1 DEF Tick, Minted
  <2>2. CASE Live' = Live
    BY <2>1, <2>2 DEF Authority!vars
  <2>3. CASE Live /\ ~Live'
    BY <2>1, <2>3 DEF Authority!Next, Authority!Lapse
  <2>4. ~(~Live /\ Live')
    BY <1>1, <2>1 DEF Tick, Live, LeaseTypeOK
  <2> QED
    BY <1>0, <2>2, <2>3, <2>4
<1>2. ASSUME NEW s \in Sessions, NEW d \in Devices, Grant(s, d)
      PROVE  Authority!Grant
  <2>1. PICK t \in 1..MaxLeases, h \in Recorded :
            Historical(h) /\ Acquire(s, d, t, NextGeneration(h))
    BY <1>2 DEF Grant
  <2>2. NextGeneration(h) \in Nat /\ NextGeneration(h) > lease.generation
    BY NextGenerationAbove
  <2>3. ~Live /\ FreshToken(t) /\ clock' = clock
        /\ lease'.token = t /\ lease'.generation = NextGeneration(h)
        /\ lease'.expires = clock + TTL
    BY <2>1 DEF Acquire
  <2>4. t # NoToken /\ t \notin Minted
    BY <2>3, FreshTokenUnused DEF Minted
  <2>5. Minted' = Minted \cup {t}
    <3> DEFINE new == [token |-> t, generation |-> NextGeneration(h), session |-> s,
                       device |-> d, epoch |-> epoch]
    <3>1. issued' = issued \cup {new} /\ new.token = t
      BY <2>1 DEF Acquire
    <3> HIDE DEF new
    <3> QED
      BY <3>1 DEF Minted
  <2>6. Live' = TRUE
    BY <2>3, <2>4 DEF Live, LeaseTypeOK
  <2> QED
    BY <2>2, <2>3, <2>4, <2>5, <2>6 DEF Authority!Grant
<1>3. ASSUME NEW s \in Sessions, NEW d \in Devices, NEW t \in 1..MaxLeases,
             Renew(s, d, t)
      PROVE  Authority!Extend
  <2>1. lease'.token = lease.token /\ lease'.generation = lease.generation
        /\ lease'.expires = clock + TTL /\ clock' = clock
        /\ lease.token # NoToken /\ Minted' = Minted
    BY <1>3 DEF Renew, LeaseTypeOK, Minted
  <2>2. Live' = TRUE
    BY <2>1 DEF Live, LeaseTypeOK
  <2> QED
    BY <2>1, <2>2 DEF Authority!Extend
<1>4. ASSUME NEW s \in Sessions, NEW t \in 1..MaxLeases, Release(s, t)
      PROVE  Authority!Return
  <2>1. lease'.token = NoToken /\ lease'.generation = lease.generation
        /\ lease.token # NoToken /\ Minted' = Minted
    BY <1>4 DEF Release, LeaseTypeOK, Minted
  <2>2. Live' = FALSE
    BY <2>1 DEF Live
  <2> QED
    BY <2>1, <2>2 DEF Authority!Return
<1>5. ASSUME NEW s \in Sessions, NEW next \in Requested, Advance(s, next)
      PROVE  UNCHANGED Authority!vars
  BY <1>5 DEF Advance, Authority!vars, Live, Minted
<1>6. ASSUME NEW i \in issued, RecordStarted(i.session, i.generation)
      PROVE  UNCHANGED Authority!vars
  BY <1>6 DEF RecordStarted, Authority!vars, Live, Minted
<1>7. ASSUME NEW s \in Sessions, Purge(s)
      PROVE  Authority!Erase \/ UNCHANGED Authority!vars
  <2>1. CASE lease.session = s
    <3>1. lease' = NoRow /\ Minted' = Minted
      BY <1>7, <2>1 DEF Purge, Minted
    <3>2. lease'.token = NoToken /\ lease'.generation = 0
      BY <3>1 DEF NoRow
    <3> QED
      BY <3>1, <3>2 DEF Authority!Erase, Live
  <2>2. CASE lease.session # s
    BY <1>7, <2>2 DEF Purge, Authority!vars, Live, Minted
  <2> QED
    BY <2>1, <2>2
<1>8. CASE UNCHANGED leaseVars
  BY <1>8 DEF leaseVars, Authority!vars, Live, Minted
<1> QED
  BY <1>1, <1>2, <1>3, <1>4, <1>5, <1>6, <1>7, <1>8 DEF LeaseNext, Authority!Next

(* The store's lease table implements the abstract lease authority.        *)
THEOREM LeaseImplementsAuthority == LeaseSpec => ImplementsAuthority
  BY AuthorityInit, AuthorityStep, TypeCorrect, PTL
  DEF LeaseSpec, ImplementsAuthority, Authority!Spec

-----------------------------------------------------------------------------
(* Reopening, and facts for the modules that use the lease *)

(* A closed session becomes an open one only in the transaction that grants
   a new lease for it: the transition table gives the other steps no way,
   whatever session states and late results they come with.                *)
THEOREM OnlyALeaseReopens == LeaseSpec => ReopenedOnlyByLease
<1> DEFINE Reopens == \A s \in Sessions :
         state[s] \in Closed /\ state'[s] \in SessionStates \ Closed
           => \E i \in issued' \ issued : i.session = s /\ lease'.token = i.token
<1>1. LeaseTypeOK /\ [LeaseNext]_leaseVars => Reopens
  <2> SUFFICES ASSUME LeaseTypeOK, [LeaseNext]_leaseVars, NEW s \in Sessions,
                      state[s] \in Closed, state'[s] \in SessionStates \ Closed
               PROVE  \E i \in issued' \ issued : i.session = s /\ lease'.token = i.token
      OBVIOUS
  <2>1. state' # state /\ state \in [Sessions -> SessionStates \cup {"purged"}]
    BY DEF LeaseTypeOK
  <2>2. ASSUME NEW u \in Sessions, NEW d \in Devices, Grant(u, d)
        PROVE  \E i \in issued' \ issued : i.session = s /\ lease'.token = i.token
    <3>1. PICK t \in 1..MaxLeases, h \in Recorded : Acquire(u, d, t, NextGeneration(h))
      BY <2>2 DEF Grant
    <3> DEFINE new == [token |-> t, generation |-> NextGeneration(h), session |-> u,
                       device |-> d, epoch |-> epoch]
    <3>2. /\ lease'.token = t /\ issued' = issued \cup {new}
          /\ state' = IF state[u] \in Closed THEN [state EXCEPT ![u] = "recording"] ELSE state
      BY <3>1 DEF Acquire
    <3>3. new.token = t /\ new.session = u
      OBVIOUS
    <3>4. new \notin issued
      BY <3>1, <3>3, FreshTokenUnused DEF Acquire
    <3>5. u = s
      BY <2>1, <3>2
    <3> HIDE DEF new
    <3> QED
      BY <3>2, <3>3, <3>4, <3>5
  <2>3. ASSUME NEW u \in Sessions, NEW next \in Requested, Advance(u, next) PROVE FALSE
    <3>1. u = s /\ next = state'[s]
      BY <2>1, <2>3 DEF Advance
    <3> QED
      BY <2>3, <3>1 DEF Advance, Transition, Closed, Requested, SessionStates
  <2>4. ASSUME NEW u \in Sessions, Purge(u) PROVE FALSE
    BY <2>1, <2>4 DEF Purge, SessionStates, Closed
  <2> QED
    BY <2>1, <2>2, <2>3, <2>4
    DEF LeaseNext, leaseVars, Tick, Renew, Release, RecordStarted
<1>2. LeaseSpec => []LeaseTypeOK
  BY TypeCorrect
<1>3. Reopens => [Reopens]_leaseVars
  OBVIOUS
<1> QED
  BY <1>1, <1>2, PTL DEF LeaseSpec, ReopenedOnlyByLease

(* The history of grants only grows, and its tokens stay within the bound. *)
LEMMA IssuedStep ==
    [LeaseNext]_leaseVars =>
        issued \subseteq issued' /\ (Minted \subseteq 1..MaxLeases => (Minted \subseteq 1..MaxLeases)')
<1> SUFFICES ASSUME [LeaseNext]_leaseVars
             PROVE  issued \subseteq issued' /\ \A i \in issued' \ issued : i.token \in 1..MaxLeases
    BY DEF Minted
<1>1. ASSUME NEW s \in Sessions, NEW d \in Devices, Grant(s, d)
      PROVE  issued \subseteq issued' /\ \A i \in issued' \ issued : i.token \in 1..MaxLeases
  BY <1>1 DEF Grant, Acquire
<1>2. CASE UNCHANGED issued
  BY <1>2
<1> QED
  BY <1>1, <1>2
  DEF LeaseNext, leaseVars, Tick, Renew, Release, Advance, RecordStarted, Purge

-----------------------------------------------------------------------------
(* The handlers *)

(* An update of one request by a well-formed record keeps the requests.    *)
LEMMA RequestSet ==
    ASSUME HandlerTypeOK, issued \subseteq issued', NEW r \in Requests, NEW v \in RequestStates,
           WellFormed(v)', req' = [req EXCEPT ![r] = v]
    PROVE  req' \in [Requests -> RequestStates] /\ \A q \in Requests : WellFormed(req[q])'
<1>1. req \in [Requests -> RequestStates] /\ \A q \in Requests : WellFormed(req[q])
  BY DEF HandlerTypeOK
<1>2. req' \in [Requests -> RequestStates]
      /\ \A q \in Requests : req'[q] = IF q = r THEN v ELSE req[q]
  BY <1>1
<1>3. \A q \in Requests : WellFormed(req[q])'
  BY <1>1, <1>2 DEF WellFormed, Backed
<1> QED
  BY <1>2, <1>3

(* A request that only moves on to another store call stays well formed.   *)
LEMMA RequestMoves ==
    ASSUME HandlerTypeOK, issued \subseteq issued', NEW r \in Requests,
           req[r].op # "acquire" \/ req[r].token # NoToken,
           NEW pc \in {"announce", "flush", "processing", "release", "finish", "reply", "stopping"},
           Goto(r, pc)
    PROVE  req' \in [Requests -> RequestStates] /\ \A q \in Requests : WellFormed(req[q])'
<1>1. req \in [Requests -> RequestStates] /\ WellFormed(req[r])
  BY DEF HandlerTypeOK
<1>2. [req[r] EXCEPT !.pc = pc] \in RequestStates
  BY <1>1 DEF RequestStates
<1>3. PICK v \in RequestStates : v = [req[r] EXCEPT !.pc = pc]
  BY <1>2
<1>4. v.op = req[r].op /\ v.session = req[r].session /\ v.device = req[r].device
      /\ v.token = req[r].token
  BY <1>1, <1>3 DEF RequestStates
<1>5. req' = [req EXCEPT ![r] = v]
  BY <1>1, <1>3 DEF Goto
<1>6. WellFormed(v)'
  BY <1>1, <1>4 DEF WellFormed, Backed
<1> QED
  BY <1>5, <1>6, RequestSet

(* A request of its own that ends needs nothing.                           *)
LEMMA RequestEnds ==
    ASSUME HandlerTypeOK, issued \subseteq issued', NEW r \in Requests, Done(r)
    PROVE  req' \in [Requests -> RequestStates] /\ \A q \in Requests : WellFormed(req[q])'
<1>1. Idle \in RequestStates
  BY DEF Idle, Request, RequestStates, NoToken, SessionStates
<1>2. WellFormed(Idle)'
  BY DEF WellFormed, Idle, Request
<1> QED
  BY <1>1, <1>2, RequestSet DEF Done

(* A client's request begins with the credential of the client.            *)
LEMMA RequestBegins ==
    ASSUME HandlerTypeOK, issued \subseteq issued', NEW r \in Requests, NEW d \in Devices,
           cred[d] # NoCred, NEW op \in {"renew", "frame", "stop"},
           NEW pc \in {"renew", "persist", "validate", "reply", "release"},
           Begin(r, d, op, pc)
    PROVE  req' \in [Requests -> RequestStates] /\ \A q \in Requests : WellFormed(req[q])'
<1> DEFINE e == Request(op, pc, cred[d].session, d, cred[d].token, state[cred[d].session])
<1>1. Backed(cred[d].session, cred[d].token) /\ cred[d].token \in Nat
  BY DEF HandlerTypeOK
<1>2. cred[d].session \in Sessions
  BY <1>1 DEF HandlerTypeOK, LeaseTypeOK, IssuedRecord, Backed
<1>3. state[cred[d].session] \in SessionStates \cup {"purged"}
  BY <1>2 DEF HandlerTypeOK, LeaseTypeOK
<1>4. e \in RequestStates
  BY <1>1, <1>2, <1>3 DEF Request, RequestStates
<1>5. PICK v \in RequestStates : v = e
  BY <1>4
<1>6. req' = [req EXCEPT ![r] = v]
  BY <1>5 DEF Begin
<1>7. v.op = op /\ v.session = cred[d].session /\ v.device = d /\ v.token = cred[d].token
  BY <1>5 DEF Request
<1>8. WellFormed(v)'
  BY <1>1, <1>2, <1>7 DEF WellFormed, Backed
<1> QED
  BY <1>6, <1>8, RequestSet

(* A request that an error ends, or that a deletion begins.                *)
LEMMA PurgeBegins ==
    ASSUME HandlerTypeOK, issued \subseteq issued', NEW r \in Requests, NEW s \in Sessions,
           req' = [req EXCEPT ![r] = Request("purge", "delete", s, None, NoToken, "created")]
    PROVE  req' \in [Requests -> RequestStates] /\ \A q \in Requests : WellFormed(req[q])'
<1> DEFINE e == Request("purge", "delete", s, None, NoToken, "created")
<1>1. e \in RequestStates
  BY DEF Request, RequestStates, NoToken, SessionStates
<1>2. WellFormed(e)'
  BY DEF WellFormed, Request
<1> QED
  BY <1>1, <1>2, RequestSet

(* What a step has to show for the invariant, given that it is a step of the
   lease.                                                                  *)
LEMMA InvParts ==
    ASSUME HandlerIInv, [LeaseNext]_leaseVars,
           req' \in [Requests -> RequestStates], \A q \in Requests : WellFormed(req[q])',
           cred' = cred, trashed' \subseteq Purgeable
    PROVE  HandlerIInv'
<1>1. LeaseTypeOK' /\ FenceInv' /\ issued \subseteq issued' /\ (Minted \subseteq 1..MaxLeases)'
  BY TypeStep, FenceStep, IssuedStep DEF HandlerIInv, HandlerTypeOK
<1>2. cred' \in [Devices -> [session : Sessions \cup {None}, token : Nat]]
  BY DEF HandlerIInv, HandlerTypeOK
<1>3. \A d \in Devices : (cred[d] # NoCred => Backed(cred[d].session, cred[d].token))'
  BY <1>1 DEF HandlerIInv, HandlerTypeOK, Backed, NoCred
<1> QED
  BY <1>1, <1>2, <1>3 DEF HandlerIInv, HandlerTypeOK, RequestStates, NoCred

(* The same for a reply, which changes the credential of a client.         *)
LEMMA ReplyParts ==
    ASSUME HandlerIInv, UNCHANGED leaseVars, UNCHANGED trashed, NEW r \in Requests, Done(r),
           cred' \in [Devices -> [session : Sessions \cup {None}, token : Nat]],
           \A d \in Devices : cred'[d] = cred[d] \/ cred'[d] = NoCred
                                \/ Backed(cred'[d].session, cred'[d].token)
    PROVE  HandlerIInv'
<1>1. LeaseTypeOK' /\ FenceInv' /\ issued' = issued /\ (Minted \subseteq 1..MaxLeases)'
  BY TypeStep, FenceStep, IssuedStep DEF HandlerIInv, HandlerTypeOK, leaseVars
<1>2. req' \in [Requests -> RequestStates] /\ \A q \in Requests : WellFormed(req[q])'
  BY <1>1, RequestEnds DEF HandlerIInv
<1>3. \A d \in Devices : (cred[d] # NoCred => Backed(cred[d].session, cred[d].token))'
  BY <1>1 DEF HandlerIInv, HandlerTypeOK, Backed, NoCred
<1> QED
  BY <1>1, <1>2, <1>3 DEF HandlerIInv, HandlerTypeOK, RequestStates, NoCred
-----------------------------------------------------------------------------
(* The actions *)

(* acquire_recording takes the lease: the store call of the lease, and a
   request that carries the token just granted.                            *)
LEMMA GrantStep ==
    ASSUME HandlerIInv, NEW r \in Requests, AcquireGrant(r)
    PROVE  HandlerIInv' /\ [LeaseNext]_leaseVars
<1> DEFINE q == req[r]
<1>1. HandlerTypeOK /\ LeaseTypeOK /\ q \in RequestStates
      /\ q.session \in Sessions /\ q.device \in Devices
  BY DEF HandlerIInv, HandlerTypeOK, AcquireGrant, At, WellFormed
<1>2. CASE Done(r) /\ UNCHANGED leaseVars
  <2>1. [LeaseNext]_leaseVars /\ issued \subseteq issued'
    BY <1>2 DEF leaseVars
  <2>2. req' \in [Requests -> RequestStates] /\ \A p \in Requests : WellFormed(req[p])'
    BY <1>1, <1>2, <2>1, RequestEnds
  <2> QED
    BY <2>1, <2>2, InvParts DEF AcquireGrant, HandlerIInv, HandlerTypeOK
<1>3. ASSUME Grant(q.session, q.device),
             NEW next \in {"start", "announce", "reply"},
             req' = [req EXCEPT ![r] = Request("acquire", next, q.session, q.device,
                                               lease'.token, q.seen)]
      PROVE  HandlerIInv' /\ [LeaseNext]_leaseVars
  <2>1. LeaseNext
    BY <1>1, <1>3 DEF LeaseNext
  <2>2. issued \subseteq issued' /\ LeaseTypeOK'
    BY <1>1, <2>1, IssuedStep, TypeStep
  <2>3. /\ \E i \in issued' : i.token = lease'.token /\ i.session = q.session
        /\ lease'.token # NoToken
    <3>1. PICK t \in 1..MaxLeases, h \in Recorded :
              Acquire(q.session, q.device, t, NextGeneration(h))
      BY <1>3 DEF Grant
    <3> DEFINE new == [token |-> t, generation |-> NextGeneration(h), session |-> q.session,
                       device |-> q.device, epoch |-> epoch]
    <3>2. lease'.token = t /\ new \in issued' /\ new.token = t /\ new.session = q.session
      BY <3>1 DEF Acquire
    <3> HIDE DEF new
    <3>3. t # NoToken
      BY <3>1, FreshTokenUnused DEF Acquire
    <3> QED
      BY <3>2, <3>3
  <2>4. PICK v \in RequestStates :
            v = Request("acquire", next, q.session, q.device, lease'.token, q.seen)
    <3>1. lease'.token \in Nat
      BY <2>2 DEF LeaseTypeOK
    <3> QED
      BY <1>1, <3>1 DEF Request, RequestStates
  <2>5. v.session = q.session /\ v.device = q.device /\ v.token = lease'.token
        /\ v.op = "acquire"
    BY <2>4 DEF Request
  <2>6. WellFormed(v)'
    BY <1>1, <2>3, <2>5 DEF WellFormed, Backed
  <2>7. req' \in [Requests -> RequestStates] /\ \A p \in Requests : WellFormed(req[p])'
    BY <1>1, <1>3, <2>2, <2>4, <2>6, RequestSet
  <2> QED
    BY <2>1, <2>7, InvParts DEF AcquireGrant, HandlerIInv, HandlerTypeOK
<1> QED
  BY <1>2, <1>3 DEF AcquireGrant

(* A handler asks for a transition: a step of the lease, and the request
   goes on, or the request ends.                                           *)
LEMMA TransitionStep ==
    ASSUME HandlerIInv, NEW r \in Requests, UNCHANGED <<cred, trashed>>,
           NEW next \in Requested,
           NEW pc \in {"announce", "flush", "processing", "release", "finish", "reply"},
           \/ req[r].op \notin {"idle", "acquire"}
           \/ req[r].op = "acquire" /\ req[r].token # NoToken,
           Moves(r, next, pc) \/ CannotMove(r, next)
    PROVE  HandlerIInv' /\ [LeaseNext]_leaseVars
<1>1. HandlerTypeOK /\ req[r].session \in Sessions
  BY DEF HandlerIInv, HandlerTypeOK, WellFormed
<1>2. [LeaseNext]_leaseVars
  BY <1>1 DEF Moves, CannotMove, LeaseNext
<1>3. issued \subseteq issued'
  BY <1>2, IssuedStep
<1>4. req' \in [Requests -> RequestStates] /\ \A p \in Requests : WellFormed(req[p])'
  <2>1. CASE Done(r)
    BY <1>1, <1>3, <2>1, RequestEnds
  <2>2. CASE Goto(r, pc)
    BY <1>1, <1>3, <2>2, RequestMoves
  <2> QED
    BY <2>1, <2>2 DEF Moves, CannotMove
<1> QED
  BY <1>2, <1>4, InvParts DEF HandlerIInv, HandlerTypeOK

(* The token a request carries is the token of one granted lease, so that
   the lease the started event is recorded for is that one.                *)
LEMMA TokenOfRequest ==
    ASSUME HandlerIInv, NEW r \in Requests, req[r].token # NoToken
    PROVE  /\ req[r].token \in 1..MaxLeases
           /\ \E i \in issued : i.session = req[r].session
                 /\ i = CHOOSE j \in issued : j.token = req[r].token
<1>1. PICK i \in issued : i.token = req[r].token /\ i.session = req[r].session
  BY DEF HandlerIInv, HandlerTypeOK, WellFormed, Backed
<1>2. req[r].token \in 1..MaxLeases
  BY <1>1 DEF HandlerIInv, Minted
<1> DEFINE c == CHOOSE j \in issued : j.token = req[r].token
<1>3. c \in issued /\ c.token = req[r].token
  BY <1>1
<1> HIDE DEF c
<1>4. i = c
  BY <1>1, <1>3 DEF HandlerIInv, FenceInv
<1> QED
  BY <1>1, <1>2, <1>4 DEF c

(* The started event names the lease the request was granted.              *)
LEMMA AnnounceStep ==
    ASSUME HandlerIInv, NEW r \in Requests, AcquireAnnounce(r)
    PROVE  HandlerIInv' /\ [LeaseNext]_leaseVars
<1>1. HandlerTypeOK /\ req[r].token # NoToken
  BY DEF HandlerIInv, HandlerTypeOK, WellFormed, AcquireAnnounce, At
<1>2. [LeaseNext]_leaseVars
  <2>1. CASE RecordStarted(req[r].session, (CHOOSE i \in issued : i.token = req[r].token).generation)
    BY <1>1, <2>1, TokenOfRequest DEF LeaseNext
  <2> QED
    BY <2>1 DEF AcquireAnnounce
<1>3. issued \subseteq issued'
  BY <1>2, IssuedStep
<1>4. req' \in [Requests -> RequestStates] /\ \A p \in Requests : WellFormed(req[p])'
  BY <1>1, <1>3, RequestMoves DEF AcquireAnnounce
<1> QED
  BY <1>2, <1>4, InvParts DEF AcquireAnnounce, HandlerIInv, HandlerTypeOK

(* renew_recording's store call.                                           *)
LEMMA RenewStep ==
    ASSUME HandlerIInv, NEW r \in Requests, RenewStore(r)
    PROVE  HandlerIInv' /\ [LeaseNext]_leaseVars
<1>1. HandlerTypeOK /\ req[r].session \in Sessions /\ req[r].device \in Devices
  BY DEF HandlerIInv, HandlerTypeOK, WellFormed, RenewStore, At
<1>2. [LeaseNext]_leaseVars
  <2>1. CASE Renew(req[r].session, req[r].device, req[r].token)
    <3>1. req[r].token \in 1..MaxLeases
      BY <2>1, TokenOfRequest DEF Renew
    <3> QED
      BY <1>1, <2>1, <3>1 DEF LeaseNext
  <2> QED
    BY <2>1 DEF RenewStore
<1>3. issued \subseteq issued'
  BY <1>2, IssuedStep
<1>4. req' \in [Requests -> RequestStates] /\ \A p \in Requests : WellFormed(req[p])'
  BY <1>1, <1>3, RequestEnds DEF RenewStore
<1> QED
  BY <1>2, <1>4, InvParts DEF RenewStore, HandlerIInv, HandlerTypeOK

(* stop_recording's release.                                               *)
LEMMA ReleaseStep ==
    ASSUME HandlerIInv, NEW r \in Requests, StopRelease(r)
    PROVE  HandlerIInv' /\ [LeaseNext]_leaseVars
<1>1. HandlerTypeOK /\ req[r].session \in Sessions /\ req[r].op # "acquire"
  BY DEF HandlerIInv, HandlerTypeOK, WellFormed, StopRelease, At
<1>2. [LeaseNext]_leaseVars
  <2>1. CASE Release(req[r].session, req[r].token)
    <3>1. req[r].token \in 1..MaxLeases
      BY <2>1, TokenOfRequest DEF Release
    <3> QED
      BY <1>1, <2>1, <3>1 DEF LeaseNext
  <2> QED
    BY <2>1 DEF StopRelease
<1>3. issued \subseteq issued'
  BY <1>2, IssuedStep
<1>4. req' \in [Requests -> RequestStates] /\ \A p \in Requests : WellFormed(req[p])'
  BY <1>1, <1>3, RequestMoves DEF StopRelease
<1> QED
  BY <1>2, <1>4, InvParts DEF StopRelease, HandlerIInv, HandlerTypeOK

(* The stop's steps through the session states.                            *)
LEMMA StopSteps ==
    ASSUME HandlerIInv, NEW r \in Requests,
           AcquireStart(r) \/ StopTransition(r) \/ StopProcessing(r) \/ StopFinish(r)
    PROVE  HandlerIInv' /\ [LeaseNext]_leaseVars
<1>1. HandlerTypeOK
  BY DEF HandlerIInv
<1>2. CASE AcquireStart(r)
  <2>1. req[r].op = "acquire" /\ req[r].token # NoToken
    BY <1>1, <1>2 DEF HandlerTypeOK, WellFormed, AcquireStart, At
  <2> QED
    BY <1>2, <2>1, TransitionStep DEF AcquireStart, Requested
<1>3. CASE StopTransition(r)
  <2>1. req[r].op = "stop" /\ UNCHANGED <<cred, trashed>> /\ "stopping" \in Requested
        /\ (Moves(r, "stopping", "flush") \/ CannotMove(r, "stopping"))
    BY <1>3 DEF StopTransition, At, Requested
  <2> QED
    BY <2>1, TransitionStep
<1>4. CASE StopProcessing(r)
  <2>1. req[r].op = "stop" /\ UNCHANGED <<cred, trashed>> /\ "processing" \in Requested
        /\ (Moves(r, "processing", "release") \/ CannotMove(r, "processing"))
    BY <1>4 DEF StopProcessing, At, Requested
  <2> QED
    BY <2>1, TransitionStep
<1>5. CASE StopFinish(r)
  <2>1. ASSUME NEW next \in Drained, Moves(r, next, "reply")
        PROVE  HandlerIInv' /\ [LeaseNext]_leaseVars
    <3>1. req[r].op = "stop" /\ UNCHANGED <<cred, trashed>> /\ next \in Requested
      BY <1>5 DEF StopFinish, At, Requested, Drained
    <3> QED
      BY <2>1, <3>1, TransitionStep
  <2>2. CASE Goto(r, "reply") /\ UNCHANGED leaseVars
    <3>1. [LeaseNext]_leaseVars /\ issued \subseteq issued' /\ req[r].op # "acquire"
      BY <1>5, <2>2 DEF leaseVars, StopFinish, At
    <3>2. req' \in [Requests -> RequestStates] /\ \A p \in Requests : WellFormed(req[p])'
      BY <1>1, <2>2, <3>1, RequestMoves
    <3> QED
      BY <1>5, <3>1, <3>2, InvParts DEF StopFinish, HandlerIInv, HandlerTypeOK
  <2> QED
    BY <1>5, <2>1, <2>2 DEF StopFinish
<1> QED
  BY <1>2, <1>3, <1>4, <1>5

(* The calls that read the store and change only what the request is doing. *)
LEMMA ReadSteps ==
    ASSUME HandlerIInv, NEW r \in Requests,
           \/ \E s \in Sessions, d \in Devices : AcquireBegin(r, s, d)
           \/ \E d \in Devices : RenewBegin(r, d) \/ FrameBegin(r, d) \/ StopBegin(r, d)
           \/ \E s \in Sessions : PurgeBegin(r, s)
           \/ FramePersist(r) \/ StopValidate(r) \/ StopFlush(r) \/ RequestFails(r)
    PROVE  HandlerIInv' /\ [LeaseNext]_leaseVars
<1>1. HandlerTypeOK /\ UNCHANGED <<leaseVars, cred, trashed>>
  BY DEF HandlerIInv, AcquireBegin, RenewBegin, FrameBegin, StopBegin, PurgeBegin,
         FramePersist, StopValidate, StopFlush, RequestFails
<1>2. [LeaseNext]_leaseVars /\ issued \subseteq issued'
  BY <1>1 DEF leaseVars
<1> DEFINE Kept == req' \in [Requests -> RequestStates]
                     /\ \A p \in Requests : WellFormed(req[p])'
<1>3. ASSUME NEW s \in Sessions, NEW d \in Devices, AcquireBegin(r, s, d) PROVE Kept
  <2> DEFINE e == Request("acquire", "grant", s, d, NoToken, state[s])
  <2>1. e \in RequestStates
    BY <1>1 DEF HandlerTypeOK, LeaseTypeOK, Request, RequestStates, NoToken
  <2>2. PICK v \in RequestStates : v = e
    BY <2>1
  <2>3. WellFormed(v)'
    BY <2>2 DEF WellFormed, Request
  <2>4. req' = [req EXCEPT ![r] = v]
    BY <1>3, <2>2 DEF AcquireBegin
  <2> QED
    BY <1>1, <1>2, <2>3, <2>4, RequestSet
<1>4. ASSUME NEW d \in Devices, RenewBegin(r, d) \/ FrameBegin(r, d) PROVE Kept
  BY <1>1, <1>2, <1>4, RequestBegins DEF RenewBegin, FrameBegin
<1>5. ASSUME NEW d \in Devices, StopBegin(r, d) PROVE Kept
  <2>1. PICK pc \in {"reply", "release", "validate"} : Begin(r, d, "stop", pc)
    BY <1>5 DEF StopBegin
  <2> QED
    BY <1>1, <1>2, <1>5, <2>1, RequestBegins DEF StopBegin
<1>6. ASSUME NEW s \in Sessions, PurgeBegin(r, s) PROVE Kept
  BY <1>1, <1>2, <1>6, PurgeBegins DEF PurgeBegin
<1>7. ASSUME FramePersist(r) \/ RequestFails(r) PROVE Kept
  BY <1>1, <1>2, <1>7, RequestEnds DEF FramePersist, RequestFails
<1>8. ASSUME StopValidate(r) PROVE Kept
  <2>1. ASSUME Done(r) PROVE Kept
    BY <1>1, <1>2, <2>1, RequestEnds
  <2>2. ASSUME NEW pc \in {"stopping", "flush"}, Goto(r, pc) PROVE Kept
    <3>1. req[r].op = "stop"
      BY <1>8 DEF StopValidate, At
    <3> QED
      BY <1>1, <1>2, <2>2, <3>1, RequestMoves
  <2> QED
    BY <1>8, <2>1, <2>2 DEF StopValidate
<1>9. ASSUME StopFlush(r) PROVE Kept
  <2>1. PICK pc \in {"release", "processing"} : Goto(r, pc)
    BY <1>9 DEF StopFlush
  <2>2. req[r].op = "stop"
    BY <1>9 DEF StopFlush, At
  <2> QED
    BY <1>1, <1>2, <2>1, <2>2, RequestMoves
<1> HIDE DEF Kept
<1>10. Kept
  BY <1>3, <1>4, <1>5, <1>6, <1>7, <1>8, <1>9
<1> QED
  BY <1>1, <1>2, <1>10, InvParts DEF Kept, HandlerIInv, HandlerTypeOK

(* The replies that give a client its credential, or take it back.         *)
LEMMA ReplySteps ==
    ASSUME HandlerIInv, NEW r \in Requests, AcquireReply(r) \/ StopReply(r)
    PROVE  HandlerIInv' /\ [LeaseNext]_leaseVars
<1>1. HandlerTypeOK /\ UNCHANGED <<leaseVars, trashed>> /\ Done(r)
      /\ req[r] \in RequestStates /\ WellFormed(req[r])
      /\ cred \in [Devices -> [session : Sessions \cup {None}, token : Nat]]
  BY DEF HandlerIInv, HandlerTypeOK, AcquireReply, StopReply, Confirm
<1> DEFINE Typed == cred' \in [Devices -> [session : Sessions \cup {None}, token : Nat]]
           Kept == \A d \in Devices : cred'[d] = cred[d] \/ cred'[d] = NoCred
                                         \/ Backed(cred'[d].session, cred'[d].token)
<1>2. ASSUME AcquireReply(r) PROVE Typed /\ Kept
  <2> DEFINE c == [session |-> req[r].session, token |-> req[r].token]
  <2>1. req[r].device \in Devices /\ req[r].session \in Sessions
        /\ Backed(req[r].session, req[r].token) /\ req[r].token \in Nat
    BY <1>1, <1>2 DEF WellFormed, AcquireReply, At, RequestStates
  <2>2. c \in [session : Sessions \cup {None}, token : Nat]
        /\ c.session = req[r].session /\ c.token = req[r].token
    BY <2>1
  <2>3. cred' = [cred EXCEPT ![req[r].device] = c]
    BY <1>2 DEF AcquireReply
  <2> HIDE DEF c
  <2> QED
    BY <1>1, <2>1, <2>2, <2>3
<1>3. ASSUME StopReply(r) PROVE Typed /\ Kept
  <2>1. NoCred \in [session : Sessions \cup {None}, token : Nat]
    BY DEF NoCred, NoToken
  <2>2. req[r].device \in Devices
    BY <1>1, <1>3 DEF WellFormed, StopReply, At
  <2>3. cred' = [cred EXCEPT ![req[r].device] = NoCred] \/ cred' = cred
    BY <1>3 DEF StopReply, Confirm
  <2> QED
    BY <1>1, <2>1, <2>2, <2>3
<1>4. Typed /\ Kept
  BY <1>2, <1>3
<1> QED
  BY <1>1, <1>4, ReplyParts DEF leaseVars

(* Deletion, the recycle bin, the model jobs, the crash and the clock.     *)
LEMMA OtherSteps ==
    ASSUME HandlerIInv,
           \/ \E r \in Requests : PurgeDelete(r)
           \/ \E s \in Sessions : JobsDrained(s) \/ Trash(s)
           \/ Crash \/ TimePasses
    PROVE  HandlerIInv' /\ [LeaseNext]_leaseVars
<1>1. HandlerTypeOK
  BY DEF HandlerIInv
<1>2. ASSUME NEW r \in Requests, PurgeDelete(r)
      PROVE  HandlerIInv' /\ [LeaseNext]_leaseVars
  <2>1. req[r].session \in Sessions
    BY <1>1, <1>2 DEF HandlerTypeOK, WellFormed, PurgeDelete, At
  <2>2. [LeaseNext]_leaseVars
    BY <1>2, <2>1 DEF PurgeDelete, LeaseNext
  <2>3. issued \subseteq issued'
    BY <2>2, IssuedStep
  <2>4. req' \in [Requests -> RequestStates] /\ \A p \in Requests : WellFormed(req[p])'
    BY <1>1, <1>2, <2>3, RequestEnds DEF PurgeDelete
  <2>5. cred' = cred /\ trashed' \subseteq Purgeable
    BY <1>1, <1>2 DEF PurgeDelete, HandlerTypeOK
  <2> QED
    BY <2>2, <2>4, <2>5, InvParts
<1>3. ASSUME UNCHANGED <<req, cred>>, trashed' \subseteq Purgeable, [LeaseNext]_leaseVars
      PROVE  HandlerIInv'
  <2>1. issued \subseteq issued'
    BY <1>3, IssuedStep
  <2>2. req' \in [Requests -> RequestStates] /\ \A p \in Requests : WellFormed(req[p])'
    BY <1>1, <1>3, <2>1 DEF HandlerTypeOK, WellFormed, Backed
  <2> QED
    BY <1>3, <2>2, InvParts
<1>4. ASSUME NEW s \in Sessions, JobsDrained(s)
      PROVE  HandlerIInv' /\ [LeaseNext]_leaseVars
  <2>1. [LeaseNext]_leaseVars
    BY <1>4 DEF JobsDrained, LeaseNext, Drained, Requested
  <2> QED
    BY <1>1, <1>3, <1>4, <2>1 DEF JobsDrained, HandlerTypeOK
<1>5. ASSUME NEW s \in Sessions, Trash(s)
      PROVE  HandlerIInv' /\ [LeaseNext]_leaseVars
  BY <1>1, <1>3, <1>5 DEF Trash, HandlerTypeOK
<1>6. CASE Crash
  <2>1. \A p \in Requests : Idle \in RequestStates /\ WellFormed(Idle)'
    BY DEF Idle, Request, RequestStates, NoToken, SessionStates, WellFormed
  <2>2. req' \in [Requests -> RequestStates] /\ \A p \in Requests : WellFormed(req[p])'
    <3>1. req' = [p \in Requests |-> Idle]
      BY <1>6 DEF Crash
    <3>2. Idle' = Idle
      BY DEF Idle, Request, NoToken
    <3>3. req' \in [Requests -> RequestStates] /\ \A p \in Requests : req'[p] = Idle
      BY <2>1, <3>1
    <3> QED
      BY <2>1, <3>2, <3>3 DEF WellFormed, Backed
  <2> QED
    BY <1>1, <1>6, <2>2, InvParts DEF Crash, HandlerTypeOK
<1>7. CASE TimePasses
  <2>1. [LeaseNext]_leaseVars
    BY <1>7 DEF TimePasses, LeaseNext
  <2> QED
    BY <1>1, <1>3, <1>7, <2>1 DEF TimePasses, HandlerTypeOK
<1> QED
  BY <1>2, <1>4, <1>5, <1>6, <1>7

-----------------------------------------------------------------------------
(* Every handler step preserves the invariant and is a step of the lease.  *)
LEMMA HandlerStep ==
    HandlerIInv /\ [HandlerNext]_handlerVars => HandlerIInv' /\ [LeaseNext]_leaseVars
<1> SUFFICES ASSUME HandlerIInv, [HandlerNext]_handlerVars
             PROVE  HandlerIInv' /\ [LeaseNext]_leaseVars
    OBVIOUS
<1>1. ASSUME NEW r \in Requests, Continue(r)
      PROVE  HandlerIInv' /\ [LeaseNext]_leaseVars
  BY <1>1, GrantStep, AnnounceStep, RenewStep, ReleaseStep, StopSteps, ReadSteps, ReplySteps,
     OtherSteps DEF Continue
<1>2. CASE UNCHANGED handlerVars
  <2>1. UNCHANGED <<req, cred, trashed>> /\ UNCHANGED leaseVars
    BY <1>2 DEF handlerVars
  <2>2. issued \subseteq issued' /\ [LeaseNext]_leaseVars
    BY <2>1 DEF leaseVars
  <2>3. req' \in [Requests -> RequestStates] /\ \A q \in Requests : WellFormed(req[q])'
    BY <2>1, <2>2 DEF HandlerIInv, HandlerTypeOK, WellFormed, Backed
  <2> QED
    BY <2>1, <2>2, <2>3, InvParts DEF HandlerIInv, HandlerTypeOK
<1> QED
  BY <1>1, <1>2, ReadSteps, OtherSteps DEF HandlerNext

(* No request carries a token before one was granted.                      *)
LEMMA HandlerInitial == HandlerInit => HandlerIInv
<1> SUFFICES ASSUME HandlerInit PROVE HandlerIInv
    OBVIOUS
<1>1. LeaseTypeOK /\ FenceInv /\ Minted = {}
  BY TypeInit, FenceInit DEF HandlerInit, LeaseInit, Minted
<1>2. Idle \in RequestStates /\ WellFormed(Idle)
  BY DEF Idle, Request, RequestStates, NoToken, SessionStates, WellFormed
<1>3. NoCred \in [session : Sessions \cup {None}, token : Nat]
  BY DEF NoCred, NoToken
<1> QED
  BY <1>1, <1>2, <1>3 DEF HandlerInit, HandlerIInv, HandlerTypeOK

(* Tokens and credentials always name leases that were granted.            *)
THEOREM HandlersKeepTheirTokens == HandlerSpec => []HandlerIInv
  BY HandlerInitial, HandlerStep, PTL DEF HandlerSpec

(* The handlers, whatever the order of their store calls, the crashes, the
   failing calls and the replies that get lost, use the lease only as its
   specification allows.                                                   *)
THEOREM HandlersImplementLease == HandlerSpec => HandlersUseLease
<1>1. HandlerInit => LeaseInit
  BY DEF HandlerInit
<1> QED
  BY <1>1, HandlerStep, HandlersKeepTheirTokens, PTL
  DEF HandlerSpec, HandlersUseLease, LeaseSpec

(* So no generation is granted twice by the handlers either, and no late
   request brings a superseded token back.                                 *)
THEOREM HandlersAreFenced ==
    HandlerSpec => []GenerationUnique /\ SupersededStaysDead /\ TakeoverOnlyAfterExpiry
<1>1. HandlerSpec => LeaseSpec
  BY HandlersImplementLease DEF HandlersUseLease
<1> QED
  BY <1>1, GenerationsAreUnique, SupersededTokensStayDead, NoTakeoverOfAValidLease

-----------------------------------------------------------------------------
(* The stop *)

(* Facts about single store calls *)

(* A grant brings a token above every token granted before, and reopens at
   most the session it is for.                                             *)
LEMMA GrantIsNewest ==
    ASSUME LeaseTypeOK, NEW u \in Sessions, NEW d \in Devices, Grant(u, d)
    PROVE  /\ \E i \in issued' : i.session = u /\ i.token = lease'.token
           /\ \A j \in issued : j.token < lease'.token
           /\ lease'.token \in Nat
           /\ state' = IF state[u] \in Closed THEN [state EXCEPT ![u] = "recording"] ELSE state
<1>1. PICK t \in 1..MaxLeases, h \in Recorded : Acquire(u, d, t, NextGeneration(h))
  BY DEF Grant
<1> DEFINE new == [token |-> t, generation |-> NextGeneration(h), session |-> u,
                   device |-> d, epoch |-> epoch]
<1>2. /\ lease'.token = t /\ new \in issued' /\ new.token = t /\ new.session = u
      /\ state' = IF state[u] \in Closed THEN [state EXCEPT ![u] = "recording"] ELSE state
  BY <1>1 DEF Acquire
<1>3. Minted = 1..(t - 1) /\ t \in Nat
  BY <1>1, ConstantsAssumption DEF Acquire, FreshToken
<1>4. \A j \in issued : j.token \in 1..(t - 1)
  BY <1>3 DEF Minted
<1>5. \A j \in issued : j.token < t
  BY <1>3, <1>4
<1> HIDE DEF new
<1> QED
  BY <1>2, <1>3, <1>5

(* What a store call may do to the state of a session: it never goes back
   to the states before the first recording, and it captures again only as
   a session that has not recorded yet or under a lease newer than all.    *)
LEMMA StateStep ==
    ASSUME LeaseTypeOK, [LeaseNext]_leaseVars, NEW s \in Sessions
    PROVE  /\ state'[s] \in Unstarted => state[s] \in Unstarted
           /\ state'[s] \in Capturing =>
                \/ state[s] \in Capturing
                \/ state[s] = "ready"
                \/ /\ \E i \in issued' : i.session = s /\ i.token = lease'.token
                   /\ \A j \in issued : j.token < lease'.token
<1>1. state \in [Sessions -> SessionStates \cup {"purged"}]
  BY DEF LeaseTypeOK
<1>2. ASSUME NEW u \in Sessions, NEW d \in Devices, Grant(u, d)
      PROVE  /\ state'[s] \in Unstarted => state[s] \in Unstarted
             /\ state'[s] \in Capturing =>
                  \/ state[s] \in Capturing
                  \/ /\ \E i \in issued' : i.session = s /\ i.token = lease'.token
                     /\ \A j \in issued : j.token < lease'.token
  BY <1>1, <1>2, GrantIsNewest DEF Unstarted, Closed
<1>3. ASSUME NEW u \in Sessions, NEW next \in Requested, Advance(u, next)
      PROVE  /\ state'[s] \in Unstarted => state[s] \in Unstarted
             /\ state'[s] \in Capturing => state[s] \in Capturing \/ state[s] = "ready"
  BY <1>1, <1>3 DEF Advance, Transition, Requested, Unstarted, Capturing
<1>4. ASSUME NEW u \in Sessions, Purge(u)
      PROVE  state'[s] = state[s] \/ state'[s] = "purged"
  BY <1>1, <1>4 DEF Purge
<1>5. \/ \E u \in Sessions, d \in Devices : Grant(u, d)
      \/ \E u \in Sessions, next \in Requested : Advance(u, next)
      \/ \E u \in Sessions : Purge(u)
      \/ state' = state
  BY DEF LeaseNext, leaseVars, Tick, Renew, Release, RecordStarted
<1> QED
  BY <1>2, <1>3, <1>4, <1>5 DEF Unstarted, Capturing

-----------------------------------------------------------------------------
(* Facts about single handler steps *)

(* The actions that change the state of a session, and what they ask for.  *)
LEMMA StateChange ==
    ASSUME HandlerIInv, [HandlerNext]_handlerVars, state' # state
    PROVE  \/ \E s \in Sessions, d \in Devices : Grant(s, d)
           \/ \E r \in Requests : AcquireStart(r) /\ Moves(r, "recording", "announce")
           \/ \E s \in Sessions, next \in Requested \ {"recording"} : Advance(s, next)
           \/ \E s \in Sessions : Purge(s)
<1>1. \A r \in Requests : req[r].op # "idle" => req[r].session \in Sessions
  BY DEF HandlerIInv, HandlerTypeOK, WellFormed
<1>2. \A r \in Requests : req[r].op = "acquire" => req[r].device \in Devices
  BY DEF HandlerIInv, HandlerTypeOK, WellFormed
<1>3. \/ \E r \in Requests : \/ AcquireGrant(r) \/ AcquireStart(r) \/ StopTransition(r)
                             \/ StopProcessing(r) \/ StopFinish(r) \/ PurgeDelete(r)
      \/ \E s \in Sessions : JobsDrained(s)
  BY DEF HandlerNext, handlerVars, leaseVars, Continue, AcquireBegin, RenewBegin, FrameBegin,
         StopBegin, PurgeBegin, AcquireAnnounce, AcquireReply, RenewStore, FramePersist,
         StopValidate, StopFlush, StopRelease, StopReply, RequestFails, Trash, Crash, TimePasses,
         RecordStarted, Renew, Release, Tick
<1>4. ASSUME NEW r \in Requests, AcquireGrant(r)
      PROVE  \E s \in Sessions, d \in Devices : Grant(s, d)
  BY <1>1, <1>2, <1>4 DEF AcquireGrant, At, leaseVars
<1>5. ASSUME NEW r \in Requests, AcquireStart(r)
      PROVE  Moves(r, "recording", "announce")
  BY <1>5 DEF AcquireStart, CannotMove, leaseVars
<1>6. ASSUME NEW r \in Requests, StopTransition(r)
      PROVE  \E s \in Sessions, next \in Requested \ {"recording"} : Advance(s, next)
  BY <1>1, <1>6 DEF StopTransition, At, Moves, CannotMove, leaseVars, Requested
<1>7. ASSUME NEW r \in Requests, StopProcessing(r)
      PROVE  \E s \in Sessions, next \in Requested \ {"recording"} : Advance(s, next)
  BY <1>1, <1>7 DEF StopProcessing, At, Moves, CannotMove, leaseVars, Requested
<1>8. ASSUME NEW r \in Requests, StopFinish(r)
      PROVE  \E s \in Sessions, next \in Requested \ {"recording"} : Advance(s, next)
  BY <1>1, <1>8 DEF StopFinish, At, Moves, leaseVars, Requested, Drained
<1>9. ASSUME NEW r \in Requests, PurgeDelete(r)
      PROVE  \E s \in Sessions : Purge(s)
  BY <1>1, <1>9 DEF PurgeDelete, At, leaseVars
<1>10. ASSUME NEW s \in Sessions, JobsDrained(s)
       PROVE  \E next \in Requested \ {"recording"} : Advance(s, next)
  BY <1>10 DEF JobsDrained, Requested, Drained
<1> QED
  BY <1>3, <1>4, <1>5, <1>6, <1>7, <1>8, <1>9, <1>10

(* A session that has not recorded yet begins to capture only by an
   acquisition that has been granted a lease for it.                       *)
LEMMA FirstRecording ==
    ASSUME HandlerIInv, [HandlerNext]_handlerVars, NEW s \in Sessions,
           state[s] = "ready", state'[s] \in Capturing
    PROVE  \E i \in issued : i.session = s /\ i.token # NoToken
<1>1. state \in [Sessions -> SessionStates \cup {"purged"}] /\ LeaseTypeOK
  BY DEF HandlerIInv, HandlerTypeOK, LeaseTypeOK
<1>2. state' # state
  BY DEF Capturing
<1>3. ASSUME NEW u \in Sessions, NEW d \in Devices, Grant(u, d) PROVE FALSE
  BY <1>1, <1>3, GrantIsNewest DEF Closed, Capturing
<1>4. ASSUME NEW u \in Sessions, NEW next \in Requested \ {"recording"}, Advance(u, next)
      PROVE  FALSE
  BY <1>1, <1>4 DEF Advance, Requested, Capturing
<1>5. ASSUME NEW u \in Sessions, Purge(u) PROVE FALSE
  BY <1>1, <1>5 DEF Purge, Capturing
<1>6. PICK r \in Requests : AcquireStart(r) /\ Moves(r, "recording", "announce")
  BY <1>2, <1>3, <1>4, <1>5, StateChange
<1>7. req[r].session = s
  BY <1>1, <1>6 DEF Moves, Advance, Capturing
<1>8. req[r].token # NoToken /\ Backed(s, req[r].token)
  BY <1>6, <1>7 DEF AcquireStart, At, HandlerIInv, HandlerTypeOK, WellFormed
<1> QED
  BY <1>8 DEF Backed

(* The mark of a session moves only when a stop takes it out of capture.   *)
LEMMA MarkStep ==
    ASSUME [HandlerNext]_handlerVars
    PROVE  \/ stopMark' = stopMark
           \/ \E r \in Requests :
                /\ At(r, "stop", "stopping") /\ Moves(r, "stopping", "flush")
                /\ stopMark' = [stopMark EXCEPT ![req[r].session] = req[r].token]
BY DEF HandlerNext, handlerVars, Continue, AcquireBegin, RenewBegin, FrameBegin, StopBegin,
       PurgeBegin, AcquireGrant, AcquireStart, AcquireAnnounce, AcquireReply, RenewStore,
       FramePersist, StopValidate, StopTransition, StopFlush, StopProcessing, StopRelease,
       StopFinish, StopReply, PurgeDelete, RequestFails, JobsDrained, Trash, Crash, TimePasses

(* How a stop request comes about and goes on: it begins with a granted
   token and a look at the session, it carries session and token through,
   and it reaches its closing steps from a session that has left capture.  *)
LEMMA StopRequests ==
    ASSUME HandlerIInv, [HandlerNext]_handlerVars, NEW r \in Requests, req'[r].op = "stop"
    PROVE  \/ /\ req[r].op = "stop"
              /\ req'[r].session = req[r].session /\ req'[r].token = req[r].token
              /\ Closing(req'[r]) => Closing(req[r]) \/ state'[req[r].session] = "stopping"
           \/ /\ req'[r].token # NoToken /\ UNCHANGED leaseVars
              /\ Closing(req'[r]) => state[req'[r].session] \in {"stopping", "processing"}
<1> DEFINE Goal == \/ /\ req[r].op = "stop"
                      /\ req'[r].session = req[r].session /\ req'[r].token = req[r].token
                      /\ Closing(req'[r]) => Closing(req[r]) \/ state'[req[r].session] = "stopping"
                   \/ /\ req'[r].token # NoToken /\ UNCHANGED leaseVars
                      /\ Closing(req'[r]) => state[req'[r].session] \in {"stopping", "processing"}
<1>1. req \in [Requests -> RequestStates]
  BY DEF HandlerIInv, HandlerTypeOK
<1>2. CASE req'[r] = req[r]
  BY <1>2
<1>3. ASSUME NEW q \in Requests, Done(q) PROVE req'[r] = req[r]
  <2>1. req' = [req EXCEPT ![q] = Idle] /\ Idle.op = "idle"
    BY <1>3 DEF Done, Idle, Request
  <2> QED
    BY <1>1, <2>1
<1>4. ASSUME NEW q \in Requests, NEW pc, Goto(q, pc), q # r PROVE req'[r] = req[r]
  BY <1>1, <1>4 DEF Goto
<1>5. ASSUME NEW pc, Goto(r, pc)
      PROVE  /\ req'[r].op = req[r].op /\ req'[r].session = req[r].session
             /\ req'[r].token = req[r].token /\ req'[r].seen = req[r].seen /\ req'[r].pc = pc
  <2>1. req'[r] = [req[r] EXCEPT !.pc = pc] /\ req[r] \in RequestStates
    BY <1>1, <1>5 DEF Goto
  <2> QED
    BY <2>1 DEF RequestStates
<1>6. ASSUME NEW q \in Requests, NEW d \in Devices, NEW op \in {"renew", "frame", "stop"},
             NEW pc, cred[d] # NoCred, Begin(q, d, op, pc)
      PROVE  \/ req'[r] = req[r]
             \/ /\ req'[r].op = op /\ req'[r].pc = pc
                /\ req'[r].session = cred[d].session /\ req'[r].token = cred[d].token
                /\ req'[r].seen = state[cred[d].session] /\ req'[r].token # NoToken
  <2> DEFINE e == Request(op, pc, cred[d].session, d, cred[d].token, state[cred[d].session])
  <2>1. cred[d].token # NoToken
    BY <1>6 DEF HandlerIInv, HandlerTypeOK, Backed, FenceInv
  <2>2. e.op = op /\ e.pc = pc /\ e.session = cred[d].session /\ e.token = cred[d].token
        /\ e.seen = state[cred[d].session]
    BY DEF Request
  <2>3. req' = [req EXCEPT ![q] = e]
    BY <1>6 DEF Begin
  <2> HIDE DEF e
  <2> QED
    BY <1>1, <2>1, <2>2, <2>3
<1>7. ASSUME NEW q \in Requests, NEW d \in Devices, StopBegin(q, d) PROVE Goal
  <2> DEFINE seen == state[cred[d].session]
             pc == CASE seen \in Closed -> "reply" [] seen = "processing" -> "release"
                     [] OTHER -> "validate"
  <2>1. UNCHANGED leaseVars /\ cred[d] # NoCred /\ Begin(q, d, "stop", pc)
    BY <1>7 DEF StopBegin
  <2>2. pc = "release" => seen = "processing"
    BY DEF Closed
  <2>3. pc \in {"reply", "release", "validate"}
    OBVIOUS
  <2> HIDE DEF pc
  <2>4. CASE req'[r] = req[r]
    BY <1>2, <2>4
  <2>5. CASE /\ req'[r].pc = pc /\ req'[r].session = cred[d].session
             /\ req'[r].seen = seen /\ req'[r].token # NoToken
    BY <2>1, <2>2, <2>3, <2>5 DEF Closing
  <2> QED
    BY <1>6, <2>1, <2>4, <2>5
<1>8. ASSUME NEW q \in Requests, NEW d \in Devices, RenewBegin(q, d) \/ FrameBegin(q, d)
      PROVE  Goal
  BY <1>2, <1>6, <1>8 DEF RenewBegin, FrameBegin
<1>9. ASSUME NEW q \in Requests, NEW v, v.op # "stop", req' = [req EXCEPT ![q] = v]
      PROVE  req'[r] = req[r]
  BY <1>1, <1>9
<1>10. ASSUME NEW q \in Requests,
              \/ \E s \in Sessions, d \in Devices : AcquireBegin(q, s, d)
              \/ \E s \in Sessions : PurgeBegin(q, s)
       PROVE  req'[r] = req[r]
  <2>1. ASSUME NEW s \in Sessions, NEW d \in Devices, AcquireBegin(q, s, d)
        PROVE  req'[r] = req[r]
    BY <1>9, <2>1 DEF AcquireBegin, Request
  <2>2. ASSUME NEW s \in Sessions, PurgeBegin(q, s) PROVE req'[r] = req[r]
    BY <1>9, <2>2 DEF PurgeBegin, Request
  <2> QED
    BY <1>10, <2>1, <2>2
<1>11. ASSUME NEW q \in Requests, AcquireGrant(q) PROVE req'[r] = req[r]
  BY <1>3, <1>9, <1>11 DEF AcquireGrant, Request
<1>12. ASSUME NEW q \in Requests, AcquireStart(q) \/ AcquireAnnounce(q) PROVE req'[r] = req[r]
  <2>1. req[q].op = "acquire"
    BY <1>12 DEF AcquireStart, AcquireAnnounce, At
  <2>2. Done(q) \/ Goto(q, "announce") \/ Goto(q, "reply")
    BY <1>12 DEF AcquireStart, AcquireAnnounce, Moves, CannotMove
  <2> QED
    BY <1>3, <1>4, <1>5, <2>1, <2>2
<1>13. ASSUME NEW q \in Requests,
              \/ AcquireReply(q) \/ RenewStore(q) \/ FramePersist(q) \/ StopReply(q)
              \/ PurgeDelete(q) \/ RequestFails(q)
       PROVE  req'[r] = req[r]
  BY <1>3, <1>13 DEF AcquireReply, RenewStore, FramePersist, StopReply, Confirm, PurgeDelete,
                     RequestFails
<1>14. ASSUME NEW q \in Requests, StopValidate(q) PROVE Goal
  <2>1. CASE Done(q) \/ q # r
    BY <1>2, <1>3, <1>4, <1>14, <2>1 DEF StopValidate
  <2>2. CASE q = r /\ Goto(r, "stopping")
    BY <1>5, <2>2, <1>14 DEF Closing, StopValidate, At
  <2>3. CASE q = r /\ Goto(r, "flush") /\ req[r].seen = "stopping"
    BY <1>5, <2>3, <1>14 DEF Closing, StopValidate, At
  <2> QED
    BY <1>14, <2>1, <2>2, <2>3 DEF StopValidate
<1>15. ASSUME NEW q \in Requests, StopTransition(q) PROVE Goal
  <2>1. CASE Done(q) \/ q # r
    BY <1>2, <1>3, <1>4, <1>15, <2>1 DEF StopTransition, Moves, CannotMove
  <2>2. CASE q = r /\ Moves(r, "stopping", "flush")
    <3>1. req[r].op = "stop" /\ req[r].session \in Sessions
      BY <1>15, <2>2 DEF StopTransition, At, HandlerIInv, HandlerTypeOK, WellFormed
    <3>2. state'[req[r].session] = "stopping"
      BY <2>2, <3>1 DEF Moves, Advance, HandlerIInv, HandlerTypeOK, LeaseTypeOK
    <3> QED
      BY <1>5, <2>2, <3>1, <3>2 DEF Moves
  <2> QED
    BY <1>15, <2>1, <2>2 DEF StopTransition, CannotMove
<1>16. ASSUME NEW q \in Requests,
              StopFlush(q) \/ StopProcessing(q) \/ StopRelease(q) \/ StopFinish(q)
       PROVE  Goal
  <2>1. \/ Done(q)
        \/ Goto(q, "release") \/ Goto(q, "processing") \/ Goto(q, "finish") \/ Goto(q, "reply")
    BY <1>16 DEF StopFlush, StopProcessing, StopRelease, StopFinish, Moves, CannotMove
  <2>2. CASE Done(q) \/ q # r
    BY <1>2, <1>3, <1>4, <2>1, <2>2
  <2>3. CASE q = r
    <3>1. Closing(req[r]) /\ req[r].op = "stop"
      BY <1>16, <2>3 DEF StopFlush, StopProcessing, StopRelease, StopFinish, At, Closing
    <3> QED
      BY <1>2, <1>3, <1>5, <2>1, <2>3, <3>1
  <2> QED
    BY <2>2, <2>3
<1>17. CASE UNCHANGED handlerVars \/ TimePasses
            \/ \E s \in Sessions : JobsDrained(s) \/ Trash(s)
  BY <1>2, <1>17 DEF handlerVars, TimePasses, JobsDrained, Trash
<1>18. CASE Crash
  <2>1. req'[r] = Idle
    BY <1>18 DEF Crash
  <2> QED
    BY <2>1 DEF Idle, Request
<1> HIDE DEF Goal
<1>19. ASSUME NEW q \in Requests, Continue(q) PROVE Goal
  BY <1>2, <1>11, <1>12, <1>13, <1>14, <1>15, <1>16, <1>19 DEF Continue, Goal
<1>20. Goal
  BY <1>2, <1>7, <1>8, <1>10, <1>13, <1>17, <1>18, <1>19 DEF HandlerNext, Goal
<1> QED
  BY <1>20 DEF Goal

-----------------------------------------------------------------------------
(* The invariant *)

(* The marks, and the leases that outlive them: a session that captures was
   reopened by a lease newer than the one last stopped.                    *)
LEMMA MarksKept ==
    ASSUME HandlerIInv, StopIInv, [HandlerNext]_handlerVars
    PROVE  /\ StopSticks'
           /\ stopMark' \in [Sessions -> Nat]
           /\ \A s \in Sessions :
                /\ stopMark'[s] \in Minted' \cup {NoToken}
                /\ state'[s] \in Unstarted => stopMark'[s] = NoToken
<1>1. HandlerTypeOK /\ LeaseTypeOK /\ [LeaseNext]_leaseVars /\ issued \subseteq issued'
      /\ Minted \subseteq Minted'
  BY HandlerStep, IssuedStep DEF HandlerIInv, HandlerTypeOK, Minted
<1>2. CASE stopMark' = stopMark
  <2>1. ASSUME NEW s \in Sessions, state'[s] \in Capturing
        PROVE  \E i \in issued' : i.session = s /\ i.token > stopMark'[s]
    <3>1. CASE state[s] \in Capturing
      BY <1>1, <1>2, <3>1 DEF StopIInv, StopSticks
    <3>2. CASE state[s] = "ready"
      <4>1. stopMark[s] = NoToken
        BY <3>2 DEF StopIInv, Unstarted
      <4>2. PICK i \in issued : i.session = s /\ i.token # NoToken
        BY <2>1, <3>2, FirstRecording
      <4>3. i.token > NoToken
        BY <1>1, <4>2 DEF LeaseTypeOK, IssuedRecord, NoToken
      <4> QED
        BY <1>1, <1>2, <4>1, <4>2, <4>3
    <3>3. ASSUME NEW i \in issued', i.session = s, i.token = lease'.token,
                 \A j \in issued : j.token < lease'.token
          PROVE  i.token > stopMark'[s]
      <4>1. stopMark[s] \in Nat /\ lease'.token \in Nat
        BY <1>1, TypeStep DEF StopIInv, LeaseTypeOK
      <4>2. CASE stopMark[s] \in Minted
        BY <1>2, <3>3, <4>1, <4>2 DEF Minted
      <4>3. CASE stopMark[s] = NoToken
        <5>1. i.token # NoToken
          BY <1>1, FenceStep DEF HandlerIInv, FenceInv
        <5> QED
          BY <1>2, <3>3, <4>1, <4>3, <5>1 DEF NoToken
      <4> QED
        BY <4>2, <4>3 DEF StopIInv
    <3> QED
      BY <1>1, <2>1, <3>1, <3>2, <3>3, StateStep
  <2>2. \A s \in Sessions : state'[s] \in Unstarted => state[s] \in Unstarted
    BY <1>1, StateStep
  <2> QED
    BY <1>1, <1>2, <2>1, <2>2 DEF StopIInv, StopSticks
<1>3. ASSUME NEW r \in Requests, At(r, "stop", "stopping"), Moves(r, "stopping", "flush"),
             stopMark' = [stopMark EXCEPT ![req[r].session] = req[r].token]
      PROVE  /\ StopSticks'
             /\ stopMark' \in [Sessions -> Nat]
             /\ \A s \in Sessions :
                  /\ stopMark'[s] \in Minted' \cup {NoToken}
                  /\ state'[s] \in Unstarted => stopMark'[s] = NoToken
  <2> DEFINE u == req[r].session
  <2>1. u \in Sessions /\ req[r].token \in Nat /\ req[r].token \in Minted
    BY <1>1, <1>3
    DEF At, HandlerTypeOK, WellFormed, RequestStates, StopIInv, Backed, Minted
  <2>2. /\ state' = [state EXCEPT ![u] = "stopping"]
        /\ state \in [Sessions -> SessionStates \cup {"purged"}] /\ issued' = issued
    BY <1>1, <1>3 DEF Moves, Advance, LeaseTypeOK
  <2>3. \A s \in Sessions :
          IF s = u THEN state'[s] = "stopping" /\ stopMark'[s] = req[r].token
          ELSE state'[s] = state[s] /\ stopMark'[s] = stopMark[s]
    BY <1>3, <2>1, <2>2 DEF StopIInv
  <2> QED
    BY <1>1, <1>3, <2>1, <2>2, <2>3 DEF StopIInv, StopSticks, Capturing, Unstarted
<1> QED
  BY <1>2, <1>3, MarkStep

(* The closing stops: once the session has left capture, it is captured
   again only under a token that no stop under way carries.                *)
LEMMA ClosingKept ==
    ASSUME HandlerIInv, StopIInv, [HandlerNext]_handlerVars, NEW r \in Requests
    PROVE  /\ req'[r].op = "stop" => req'[r].token # NoToken
           /\ Closing(req'[r]) =>
                /\ state'[req'[r].session] \notin Unstarted
                /\ state'[req'[r].session] \in Capturing => lease'.token # req'[r].token
<1>1. HandlerTypeOK /\ LeaseTypeOK /\ FenceInv /\ [LeaseNext]_leaseVars
  BY HandlerStep DEF HandlerIInv, HandlerTypeOK
<1>2. CASE req'[r].op # "stop"
  BY <1>2 DEF Closing
<1>3. CASE /\ req[r].op = "stop" /\ req'[r].op = "stop"
           /\ req'[r].session = req[r].session /\ req'[r].token = req[r].token
           /\ Closing(req'[r]) => Closing(req[r]) \/ state'[req[r].session] = "stopping"
  <2>1. req[r].token # NoToken
    BY <1>3 DEF StopIInv
  <2>2. req[r].session \in Sessions /\ \E i \in issued : i.token = req[r].token
    BY <1>1, <1>3, <2>1 DEF HandlerTypeOK, WellFormed, Backed
  <2>3. ASSUME Closing(req[r])
        PROVE  /\ state'[req[r].session] \notin Unstarted
               /\ state'[req[r].session] \in Capturing => lease'.token # req[r].token
    <3>1. /\ state[req[r].session] \notin Unstarted
          /\ state[req[r].session] \in Capturing => lease.token # req[r].token
      BY <2>3 DEF StopIInv
    <3>2. state'[req[r].session] \notin Unstarted
      BY <1>1, <2>2, <3>1, StateStep
    <3>3. CASE state[req[r].session] \in Capturing
      BY <1>1, <2>1, <2>2, <3>1, <3>2, <3>3, TokenStep
    <3>4. CASE \A j \in issued : j.token < lease'.token
      <4>1. req[r].token < lease'.token /\ req[r].token \in Nat /\ lease'.token \in Nat
        BY <1>1, <2>2, <3>4, TypeStep DEF LeaseTypeOK, IssuedRecord
      <4> QED
        BY <3>2, <4>1
    <3> QED
      BY <1>1, <2>2, <3>1, <3>2, <3>3, <3>4, StateStep DEF Unstarted
  <2> QED
    BY <1>3, <2>1, <2>3 DEF Unstarted, Capturing
<1>4. CASE /\ req'[r].token # NoToken /\ UNCHANGED leaseVars
           /\ Closing(req'[r]) => state[req'[r].session] \in {"stopping", "processing"}
  BY <1>4 DEF leaseVars, Unstarted, Capturing
<1> QED
  BY <1>2, <1>3, <1>4, StopRequests

(* The strengthened invariant holds at all times.                          *)
THEOREM StopInvariant == HandlerSpec => []StopIInv
<1>1. HandlerInit => StopIInv
  <2> SUFFICES ASSUME HandlerInit PROVE StopIInv
      OBVIOUS
  <2>1. \A s \in Sessions : state[s] \in {"ready", "completed"} /\ stopMark[s] = NoToken
    BY DEF HandlerInit, LeaseInit
  <2>2. stopMark \in [Sessions -> Nat] /\ \A r \in Requests : req[r].op = "idle"
    BY DEF HandlerInit, NoToken, Idle, Request
  <2> QED
    BY <2>1, <2>2 DEF StopIInv, StopSticks, Capturing, Closing
<1>2. HandlerIInv /\ StopIInv /\ [HandlerNext]_handlerVars => StopIInv'
  <2> SUFFICES ASSUME HandlerIInv, StopIInv, [HandlerNext]_handlerVars PROVE StopIInv'
      OBVIOUS
  <2>1. \A s \in Sessions :
          /\ stopMark'[s] \in Minted' \cup {NoToken}
          /\ state'[s] \in Unstarted => stopMark'[s] = NoToken
    BY MarksKept
  <2>2. \A r \in Requests :
          /\ req'[r].op = "stop" => req'[r].token # NoToken
          /\ Closing(req'[r]) =>
               /\ state'[req'[r].session] \notin Unstarted
               /\ state'[req'[r].session] \in Capturing => lease'.token # req'[r].token
    BY ClosingKept
  <2> QED
    BY <2>1, <2>2, MarksKept DEF StopIInv, Unstarted, Closing
<1> QED
  BY <1>1, <1>2, HandlersKeepTheirTokens, PTL DEF HandlerSpec

(* A stop is not undone: once stop_recording has taken a session out of
   capture, only a lease granted later captures it again, whatever stops,
   acquisitions, restarts and lost replies race with it.                   *)
THEOREM StopIsNotUndone == HandlerSpec => []StopSticks
<1>1. StopIInv => StopSticks
  BY DEF StopIInv
<1> QED
  BY <1>1, StopInvariant, PTL

(* No stop seals, closes or releases a recording that still captures under
   the stop's own lease.                                                   *)
THEOREM ClosingStopsAreLate == HandlerSpec => []ClosingIsNotCapturing
<1>1. StopIInv => ClosingIsNotCapturing
  BY DEF StopIInv, Closing, ClosingIsNotCapturing
<1> QED
  BY <1>1, StopInvariant, PTL
================================================================================
