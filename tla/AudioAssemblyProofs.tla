-------------------------- MODULE AudioAssemblyProofs --------------------------
(***************************************************************************)
(* Whatever callers of assemble_source interleave, fail or die, the        *)
(* windows tile the stored audio and no audio has two recognition jobs:    *)
(* for any number of frames, pauses, window lengths, stops and faults.     *)
(***************************************************************************)
EXTENDS AudioAssembly, TLAPS

Points == {"idle", "sources", "list", "cursor", "supersede", "enqueue", "record", "drop",
           "preview", "flushed"}
Runs == [pc : Points, seal : BOOLEAN, list : SUBSET Frames,
         first : 1..(MaxFrames + 1), last : 0..MaxFrames]

(* Where a window may begin: at the start, or right after another window.  *)
Cut(n) == n = 0 \/ \E w \in windows : w[2] = n

(* Where a window from f ends is settled before anybody cuts it: at the    *)
(* first frame that closes it or, once the recording has ended, at the     *)
(* last frame of all.                                                      *)
FirstClose(f, l) == Closes(f, l) /\ \A m \in f..l : Closes(f, m) => m = l
Final(f, l) == ended /\ l = captured /\ \A m \in f..l : ~Closes(f, m)
Ends(f, l) ==
  /\ f \in Frames /\ l \in Frames /\ f <= l /\ f..l \subseteq chunks
  /\ FirstClose(f, l) \/ Final(f, l)
Proper(f, l) == Ends(f, l) /\ Cut(f - 1)

Cutting == {"supersede", "enqueue", "record"}
Offering == {"drop", "preview"}
Listed == {"cursor"} \cup Cutting \cup Offering

(* What a caller may rely on: its list is stored; whoever seals a tail has *)
(* listed the last frame; what it is cutting is a window that belongs      *)
(* there, and is recorded after its job.                                   *)
CallFits(q) ==
  /\ q.list \subseteq chunks
  /\ q.seal => session # "recording"
  /\ q.seal /\ q.pc \in Listed => captured \in q.list
  /\ q.pc \in Cutting => Proper(q.first, q.last)
  /\ q.pc = "record" => <<q.first, q.last>> \in stable
  /\ q.pc \in Offering => <<q.first, q.last>> \in Windows

Received == outbox \subseteq 1..captured /\ chunks \subseteq 1..captured /\ AckedIsDurable
(* A stop begins after the recorder has sent everything.                   *)
Ending == session # "recording" => ended /\ outbox = {}
CallersFit == \A p \in Callers : CallFits(run[p])
JobsProper == windows \subseteq stable /\ \A w \in stable : Proper(w[1], w[2])
Tiled == Cut(cursor) /\ WindowsTile

AssemblyInvariant == TypeOK /\ Received /\ Ending /\ CallersFit /\ JobsProper /\ Tiled

(* A stop that is under way has left the recording.                        *)
Stopping == \A p \in Stops : run[p].pc # "idle" => session # "recording"

(* The recovery of a restart has the store for itself.                     *)
Recovers(q) ==
  /\ q.pc \notin {"idle", "flushed"}
  /\ session # "recording" /\ q.pc # "sources" => q.seal
  /\ q.pc \in Listed => \A c \in chunks : c > cursor => c \in q.list
  /\ q.pc = "cursor" => \A c \in q.list : c > cursor
  /\ q.pc \in Cutting \cup Offering => q.first = cursor + 1
  /\ q.pc \in Offering => ~q.seal
Recovering ==
  ~up => (\A p \in Stops : run[p] = Rest) /\ Recovers(run[Background])

-----------------------------------------------------------------------------
(* Types *)

LEMMA RestTyped ==
  /\ Rest \in Runs /\ [Rest EXCEPT !.pc = "flushed"] \in Runs
  /\ [Rest EXCEPT !.pc = "sources"] \in Runs /\ MaxFrames \in Nat
<1>1. MaxFrames \in Nat
  BY AssemblyAssumption
<1>2. 1 \in 1..(MaxFrames + 1) /\ 0 \in 0..MaxFrames /\ {} \in SUBSET Frames
  BY <1>1, SMT
<1>3. Rest \in Runs
  BY <1>2 DEF Rest, Runs, Points
<1>4. \A q \in Runs, pc \in Points : [q EXCEPT !.pc = pc] \in Runs
  BY DEF Runs
<1> QED BY <1>1, <1>3, <1>4 DEF Points

LEMMA RunsTyped == TypeOK => run \in [Callers -> Runs]
  BY DEF TypeOK, Runs, Points

(* A caller moves to q, all others stay.                                   *)
Moves(p, q) == q \in Runs /\ run' = [run EXCEPT ![p] = q]
Back(p) == IF p = Background THEN Rest ELSE [Rest EXCEPT !.pc = "flushed"]

LEMMA ReturnMoves ==
  ASSUME TypeOK, NEW p \in Callers, Return(p)
  PROVE  Moves(p, Back(p)) /\ up' = TRUE
  BY RestTyped DEF Return, Moves, Back

LEMMA GotoMoves ==
  ASSUME TypeOK, NEW p \in Callers, NEW pc \in Points, Goto(p, pc)
  PROVE  \E q \in Runs :
           /\ Moves(p, q) /\ q.pc = pc /\ q.seal = run[p].seal /\ q.list = run[p].list
           /\ q.first = run[p].first /\ q.last = run[p].last
<1>1. run \in [Callers -> Runs]
  BY RunsTyped
<1> DEFINE q == [run[p] EXCEPT !.pc = pc]
<1>2. q \in Runs /\ run' = [run EXCEPT ![p] = q]
  BY <1>1 DEF Goto, Runs
<1>3. /\ q.pc = pc /\ q.seal = run[p].seal /\ q.list = run[p].list
      /\ q.first = run[p].first /\ q.last = run[p].last
  BY <1>1 DEF Runs
<1> QED BY <1>2, <1>3 DEF Moves

(* Where a scan leaves its caller.                                         *)
Cuts(p, f, l, q) ==
  /\ q.pc = "supersede" /\ q.first = f /\ q.last = l
  /\ q.seal = run[p].seal /\ q.list = run[p].list /\ up' = up
  /\ ClosedAt(q.list, f, l) \/ (q.seal /\ TailAt(q.list, f, l))
Offers(p, f, l, q) ==
  /\ q.pc = "drop" /\ q.first = f /\ q.last = l
  /\ q.seal = run[p].seal /\ q.list = run[p].list /\ up' = up
  /\ OpenAt(q.list, f, l) /\ ~(q.seal /\ TailAt(q.list, f, l))
Stays(p, f, q) ==
  /\ q = Back(p) /\ up' = TRUE
  /\ \/ f \notin run[p].list
     \/ \E l \in Frames :
          OpenAt(run[p].list, f, l) /\ ~(run[p].seal /\ TailAt(run[p].list, f, l))

LEMMA ScanMoves ==
  ASSUME TypeOK, NEW p \in Callers, NEW f \in 1..(MaxFrames + 1), Scan(p, f)
  PROVE  \E q \in Runs :
           /\ Moves(p, q)
           /\ \/ \E l \in Frames : Cuts(p, f, l, q)
              \/ \E l \in Frames : Offers(p, f, l, q)
              \/ Stays(p, f, q)
<1>1. run \in [Callers -> Runs]
  BY RunsTyped
<1>2. ASSUME NEW l \in Frames, NEW pc \in Points,
             run' = [run EXCEPT ![p].pc = pc, ![p].first = f, ![p].last = l]
      PROVE  \E q \in Runs :
               /\ Moves(p, q) /\ q.pc = pc /\ q.first = f /\ q.last = l
               /\ q.seal = run[p].seal /\ q.list = run[p].list
  <2> DEFINE q == [run[p] EXCEPT !.pc = pc, !.first = f, !.last = l]
  <2>1. run[p] \in Runs /\ l \in 0..MaxFrames
    BY <1>1, RestTyped DEF Frames
  <2>4. q \in Runs
    BY <2>1 DEF Runs
  <2>2. run' = [run EXCEPT ![p] = q]
    BY <1>1, <1>2
  <2>3. /\ q.pc = pc /\ q.first = f /\ q.last = l
        /\ q.seal = run[p].seal /\ q.list = run[p].list
    BY <1>1 DEF Runs
  <2> QED BY <2>2, <2>3, <2>4 DEF Moves
<1>3. CASE \E l \in Frames :
             /\ ClosedAt(run[p].list, f, l) \/ (run[p].seal /\ TailAt(run[p].list, f, l))
             /\ run' = [run EXCEPT ![p].pc = "supersede", ![p].first = f, ![p].last = l]
             /\ UNCHANGED up
  <2>1. PICK l \in Frames :
          /\ ClosedAt(run[p].list, f, l) \/ (run[p].seal /\ TailAt(run[p].list, f, l))
          /\ run' = [run EXCEPT ![p].pc = "supersede", ![p].first = f, ![p].last = l]
          /\ UNCHANGED up
    BY <1>3
  <2>2. "supersede" \in Points
    BY DEF Points
  <2>3. PICK q \in Runs :
          /\ Moves(p, q) /\ q.pc = "supersede" /\ q.first = f /\ q.last = l
          /\ q.seal = run[p].seal /\ q.list = run[p].list
    BY <1>2, <2>1, <2>2
  <2> QED BY <2>1, <2>3 DEF Cuts
<1>4. ASSUME NEW l \in Frames, OpenAt(run[p].list, f, l),
             ~(run[p].seal /\ TailAt(run[p].list, f, l)), PreviewDue(f, l),
             run' = [run EXCEPT ![p].pc = "drop", ![p].first = f, ![p].last = l],
             UNCHANGED up
      PROVE  \E q \in Runs : Moves(p, q) /\ Offers(p, f, l, q)
  <2>1. "drop" \in Points
    BY DEF Points
  <2>2. PICK q \in Runs :
          /\ Moves(p, q) /\ q.pc = "drop" /\ q.first = f /\ q.last = l
          /\ q.seal = run[p].seal /\ q.list = run[p].list
    BY <1>2, <1>4, <2>1
  <2> QED BY <1>4, <2>2 DEF Offers
<1>5. ASSUME Return(p),
             \/ f \notin run[p].list
             \/ \E l \in Frames :
                  OpenAt(run[p].list, f, l) /\ ~(run[p].seal /\ TailAt(run[p].list, f, l))
      PROVE  \E q \in Runs : Moves(p, q) /\ Stays(p, f, q)
  BY <1>5, ReturnMoves DEF Stays, Moves
<1> QED BY <1>3, <1>4, <1>5 DEF Scan

-----------------------------------------------------------------------------
(* Windows *)

(* Two callers that begin a window at the same frame end it at the same.   *)
LEMMA SameEnd ==
  ASSUME Received, captured \in Nat, NEW f, NEW l, NEW m, Ends(f, l), Ends(f, m)
  PROVE  l = m
<1>1. f \in Nat /\ l \in Nat /\ m \in Nat /\ f <= l /\ f <= m
  BY RestTyped DEF Ends, Frames
<1>2. l <= captured /\ m <= captured
  BY <1>1 DEF Ends, Received
<1>3. l \in f..l /\ m \in f..m
  BY <1>1
<1>4. CASE FirstClose(f, l) /\ FirstClose(f, m)
  BY <1>1, <1>3, <1>4 DEF FirstClose
<1>5. CASE FirstClose(f, l) /\ Final(f, m)
  BY <1>1, <1>2, <1>3, <1>5 DEF FirstClose, Final
<1>6. CASE Final(f, l) /\ FirstClose(f, m)
  BY <1>1, <1>2, <1>3, <1>6 DEF FirstClose, Final
<1>7. CASE Final(f, l) /\ Final(f, m)
  BY <1>7 DEF Final
<1> QED BY <1>4, <1>5, <1>6, <1>7 DEF Ends

LEMMA WindowTyped ==
  ASSUME TypeOK, NEW w \in windows
  PROVE  /\ w[1] \in Nat /\ w[2] \in Nat /\ w[1] >= 1 /\ w[1] <= w[2]
         /\ w = <<w[1], w[2]>> /\ w[1] \in Frames /\ w[2] \in Frames
         /\ w[1] \in Span(w) /\ w[2] \in Span(w)
<1>1. w \in Frames \X Frames /\ w[1] <= w[2] /\ MaxFrames \in Nat
  BY RestTyped DEF TypeOK, Windows
<1>2. w[1] \in Nat /\ w[2] \in Nat /\ w[1] >= 1 /\ w[1] \in Frames /\ w[2] \in Frames
  BY <1>1 DEF Frames
<1>3. w = <<w[1], w[2]>>
  BY <1>1
<1> QED BY <1>1, <1>2, <1>3 DEF Span

(* Below the cursor every cut is the beginning of a window.                *)
LEMMA CutStarts ==
  ASSUME TypeOK, WindowsTile, NEW f \in Frames, f <= cursor, Cut(f - 1)
  PROVE  \E w \in windows : w[1] = f
<1>1. f \in Nat /\ f >= 1
  BY RestTyped DEF Frames
<1>2. PICK w \in windows : f \in Span(w)
  BY DEF WindowsTile
<1>3. w[1] \in Nat /\ w[2] \in Nat /\ w[1] <= f /\ f <= w[2]
  BY <1>2, WindowTyped DEF Span
<1>4. CASE w[1] < f
  <2>1. f - 1 \in Span(w) /\ f - 1 # 0
    BY <1>1, <1>3, <1>4, WindowTyped DEF Span
  <2>2. PICK v \in windows : v[2] = f - 1
    BY <2>1 DEF Cut
  <2>3. f - 1 \in Span(v)
    BY <2>2, WindowTyped
  <2>4. v = w
    BY <2>1, <2>3 DEF WindowsTile
  <2> QED BY <1>1, <1>3, <2>2, <2>4
<1> QED BY <1>1, <1>3, <1>4

(* A cut is not above the cursor.                                          *)
LEMMA CutBelow ==
  ASSUME TypeOK, WindowsTile, NEW n \in Nat, Cut(n)
  PROVE  n <= cursor
<1>1. cursor \in Nat
  BY RestTyped DEF TypeOK
<1>2. CASE n = 0
  BY <1>1, <1>2
<1>3. ASSUME NEW w \in windows, w[2] = n
      PROVE  n <= cursor
  BY <1>3, WindowTyped DEF WindowsTile
<1> QED BY <1>2, <1>3 DEF Cut

-----------------------------------------------------------------------------
(* What lasts *)

Grown ==
  /\ windows \subseteq windows' /\ chunks \subseteq chunks' /\ stable \subseteq stable'
  /\ ended => ended' /\ captured' = captured
  /\ session # "recording" => session' # "recording"

LEMMA ProperLasts ==
  ASSUME Grown, NEW f, NEW l, Proper(f, l)
  PROVE  Proper(f, l)'
<1>1. Cut(f - 1)'
  BY DEF Proper, Cut, Grown
<1>2. FirstClose(f, l) => FirstClose(f, l)'
  BY DEF FirstClose
<1>3. Final(f, l) => Final(f, l)'
  BY DEF Final, Grown
<1>4. f..l \subseteq chunks => f..l \subseteq chunks'
  BY DEF Grown
<1> QED BY <1>1, <1>2, <1>3, <1>4 DEF Proper, Ends

LEMMA FitsLasts ==
  ASSUME Grown, Ending, NEW q, CallFits(q)
  PROVE  CallFits(q)'
<1>1. q.list \subseteq chunks' /\ (q.seal => session' # "recording")
  BY DEF CallFits, Grown
<1>2. q.seal => captured' = captured
  BY DEF CallFits, Ending, Grown
<1>3. q.pc \in Cutting => Proper(q.first, q.last)'
  BY ProperLasts DEF CallFits
<1> QED BY <1>1, <1>2, <1>3 DEF CallFits, Grown

LEMMA RestFits == CallFits(Rest) /\ \A p : CallFits(Back(p))
  BY DEF CallFits, Back, Rest, Listed, Cutting, Offering

LEMMA CallersLast ==
  ASSUME Grown, Ending, CallersFit, UNCHANGED run
  PROVE  CallersFit'
  BY FitsLasts DEF CallersFit

LEMMA OneCallerMoves ==
  ASSUME TypeOK, Grown, Ending, CallersFit, NEW p \in Callers, NEW q, Moves(p, q), CallFits(q)'
  PROVE  CallersFit' /\ run' \in [Callers -> Runs]
<1>1. run \in [Callers -> Runs]
  BY RunsTyped
<1>2. run' \in [Callers -> Runs]
  BY <1>1 DEF Moves
<1>3. ASSUME NEW r \in Callers
      PROVE  CallFits(run[r])'
  <2>1. CASE r = p
    <3>1. run'[r] = q
      BY <1>1, <2>1 DEF Moves
    <3> QED BY <3>1
  <2>2. CASE r # p
    <3>1. run'[r] = run[r]
      BY <1>1, <2>2 DEF Moves
    <3>2. CallFits(run[r])
      BY DEF CallersFit
    <3> QED BY <3>1, <3>2, FitsLasts
  <2> QED BY <2>1, <2>2
<1> QED BY <1>2, <1>3 DEF CallersFit

LEMMA JobsLast ==
  ASSUME Grown, JobsProper, windows' \subseteq stable',
         \A w \in stable' \ stable : Proper(w[1], w[2])
  PROVE  JobsProper'
<1>1. \A w \in stable : Proper(w[1], w[2])
  BY DEF JobsProper
<1> QED BY <1>1, ProperLasts DEF JobsProper

-----------------------------------------------------------------------------
(* Scans *)

(* A sealed list runs to the last frame, so its tail ends there; any other *)
(* window ends where it closes.                                            *)
LEMMA CutsEnd ==
  ASSUME TypeOK, Received, Ending, NEW p \in Callers, CallFits(run[p]), run[p].pc \in Listed,
         NEW f \in 1..(MaxFrames + 1), NEW l \in Frames, NEW q, Cuts(p, f, l, q)
  PROVE  Ends(f, l)
<1>1. f \in Nat /\ l \in Nat /\ f >= 1 /\ captured \in Nat
  BY RestTyped DEF Frames, TypeOK
<1>2. /\ q.list = run[p].list /\ q.seal = run[p].seal
      /\ ClosedAt(q.list, f, l) \/ (q.seal /\ TailAt(q.list, f, l))
  BY DEF Cuts
<1>3. f <= l /\ f..l \subseteq q.list
  BY <1>2 DEF ClosedAt, TailAt, OpenAt, Grows
<1>4. f \in Frames /\ f..l \subseteq chunks /\ l \in f..l /\ l <= captured
  <2>1. f \in Frames /\ l \in f..l
    BY <1>1, <1>3, RestTyped DEF Frames
  <2>2. f..l \subseteq chunks
    BY <1>2, <1>3 DEF CallFits
  <2> QED BY <1>1, <2>1, <2>2 DEF Received
<1>5. ClosedAt(q.list, f, l) => FirstClose(f, l)
  BY DEF ClosedAt, FirstClose, Grows
<1>6. ASSUME q.seal, TailAt(q.list, f, l)
      PROVE  Final(f, l)
  <2>1. captured \in q.list /\ ended
    BY <1>2, <1>6 DEF CallFits, Ending
  <2>2. l = captured
    BY <1>1, <1>4, <1>6, <2>1 DEF TailAt
  <2>3. ~Closes(f, l) /\ \A m \in f..l : Closes(f, m) => m = l
    BY <1>6 DEF TailAt, OpenAt, Grows
  <2> QED BY <2>1, <2>2, <2>3 DEF Final
<1> QED BY <1>2, <1>3, <1>4, <1>5, <1>6 DEF Ends

LEMMA ScanKeeps ==
  ASSUME TypeOK, Received, Ending, CallersFit, NEW p \in Callers, run[p].pc \in Listed,
         NEW f \in 1..(MaxFrames + 1), Scan(p, f), Grown, Cut(f - 1)',
         UNCHANGED <<chunks, captured, ended, session>>
  PROVE  CallersFit' /\ run' \in [Callers -> Runs] /\ up' \in BOOLEAN
<1>1. PICK q \in Runs :
        /\ Moves(p, q)
        /\ \/ \E l \in Frames : Cuts(p, f, l, q)
           \/ \E l \in Frames : Offers(p, f, l, q)
           \/ Stays(p, f, q)
  BY ScanMoves
<1>2. CallFits(run[p]) /\ up \in BOOLEAN
  BY DEF CallersFit, TypeOK
<1>3. ASSUME q.list = run[p].list, q.seal = run[p].seal, q.pc \in {"supersede", "drop"}
      PROVE  /\ q.list \subseteq chunks' /\ (q.seal => session' # "recording")
             /\ q.seal => captured' \in q.list
  BY <1>2, <1>3 DEF CallFits
<1>4. ASSUME NEW l \in Frames, Cuts(p, f, l, q)
      PROVE  CallFits(q)' /\ up' \in BOOLEAN
  <2>1. Ends(f, l)
    BY <1>2, <1>4, CutsEnd
  <2>2. Ends(f, l)'
    BY <2>1 DEF Ends, FirstClose, Final
  <2>3. /\ q.pc = "supersede" /\ q.first = f /\ q.last = l /\ up' = up
        /\ q.list = run[p].list /\ q.seal = run[p].seal
    BY <1>4 DEF Cuts
  <2>4. Proper(q.first, q.last)'
    BY <2>2, <2>3 DEF Proper
  <2> QED BY <1>2, <1>3, <2>3, <2>4 DEF CallFits, Offering
<1>5. ASSUME NEW l \in Frames, Offers(p, f, l, q)
      PROVE  CallFits(q)' /\ up' \in BOOLEAN
  <2>1. /\ q.pc = "drop" /\ q.first = f /\ q.last = l /\ up' = up
        /\ q.list = run[p].list /\ q.seal = run[p].seal /\ f <= l
    BY <1>5 DEF Offers, OpenAt
  <2>2. <<f, l>> \in Windows
    BY <2>1, RestTyped DEF Windows, Frames
  <2> QED BY <1>2, <1>3, <2>1, <2>2 DEF CallFits, Cutting
<1>6. CallFits(q)' /\ up' \in BOOLEAN
  <2>1. CASE Stays(p, f, q)
    <3>1. CallFits(q) /\ up' = TRUE
      BY <2>1, RestFits DEF Stays
    <3> QED BY <3>1, FitsLasts
  <2> QED BY <1>1, <1>4, <1>5, <2>1
<1> QED BY <1>1, <1>6, OneCallerMoves

-----------------------------------------------------------------------------
(* Every step keeps the invariant *)

LEMMA RecorderKeeps ==
  ASSUME AssemblyInvariant,
         \/ Capture \/ EndCapture
         \/ \E n \in Frames : PersistFrame(n)
  PROVE  AssemblyInvariant'
<1> USE DEF AssemblyInvariant
<1>1. captured \in Nat /\ captured <= MaxFrames /\ MaxFrames \in Nat
  BY RestTyped DEF TypeOK
<1>2. CASE Capture
  <2>1. /\ captured' = captured + 1 /\ outbox' = outbox \cup {captured + 1} /\ ~ended
        /\ captured < MaxFrames
        /\ UNCHANGED <<ended, session, storeVars, wakeVars, run, up, faultVars>>
    BY <1>2 DEF Capture
  <2>2. session = "recording"
    BY <2>1 DEF Ending
  <2>3. Grown
    BY <2>1, <2>2 DEF Grown, storeVars
  <2>4. captured + 1 \in Frames /\ captured + 1 \in 0..MaxFrames
    BY <1>1, <2>1 DEF Frames
  <2>5. TypeOK'
    BY <2>1, <2>4 DEF TypeOK, storeVars, wakeVars, faultVars
  <2>6. Received'
    BY <1>1, <2>1 DEF Received, AckedIsDurable, storeVars
  <2>7. Ending'
    BY <2>1, <2>2 DEF Ending
  <2>8. CallersFit'
    BY <2>1, <2>3, CallersLast
  <2>9. JobsProper'
    BY <2>1, <2>3, JobsLast DEF JobsProper, storeVars
  <2>10. Tiled'
    BY <2>1 DEF Tiled, Cut, WindowsTile, storeVars
  <2> QED BY <2>5, <2>6, <2>7, <2>8, <2>9, <2>10
<1>3. CASE EndCapture
  <2>1. ended' = TRUE /\ UNCHANGED <<captured, outbox, session, storeVars, wakeVars, run, up, faultVars>>
    BY <1>3 DEF EndCapture
  <2>2. Grown
    BY <2>1 DEF Grown, storeVars
  <2>3. TypeOK' /\ Received' /\ Ending' /\ Tiled'
    BY <2>1 DEF TypeOK, Received, AckedIsDurable, Ending, Tiled, Cut, WindowsTile, storeVars,
                wakeVars, faultVars
  <2>4. CallersFit'
    BY <2>1, <2>2, CallersLast
  <2>5. JobsProper'
    BY <2>1, <2>2, JobsLast DEF JobsProper, storeVars
  <2> QED BY <2>3, <2>4, <2>5
<1>4. ASSUME NEW n \in Frames, PersistFrame(n)
      PROVE  AssemblyInvariant'
  <2>1. /\ n \in 1..captured /\ chunks' = chunks \cup {n}
        /\ outbox' \in {outbox \ {n}, outbox}
        /\ wakes' \in {wakes, wakes + 1} /\ (wakes' # wakes => wakes # WakeBuffer)
        /\ lagged' \in BOOLEAN
        /\ UNCHANGED <<captured, ended, session, cursor, windows, stable, previews,
                       queued, run, up, faultVars>>
    BY <1>4 DEF PersistFrame, Wake, wakeVars, TypeOK
  <2>2. Grown
    BY <2>1 DEF Grown
  <2>3. wakes' \in 0..WakeBuffer
    BY <2>1, AssemblyAssumption DEF TypeOK
  <2>4. TypeOK'
    BY <2>1, <2>3 DEF TypeOK, faultVars
  <2>5. Received' /\ Ending'
    BY <2>1 DEF Received, AckedIsDurable, Ending
  <2>6. CallersFit'
    BY <2>1, <2>2, CallersLast
  <2>7. JobsProper'
    BY <2>1, <2>2, JobsLast DEF JobsProper
  <2>8. Tiled'
    BY <2>1 DEF Tiled, Cut, WindowsTile
  <2> QED BY <2>4, <2>5, <2>6, <2>7, <2>8
<1> QED BY <1>2, <1>3, <1>4

(* A step that leaves the recorder and the store as they are.              *)
LEMMA QuietKeeps ==
  ASSUME AssemblyInvariant, UNCHANGED <<recorderVars, storeVars>>,
         run' \in [Callers -> Runs], up' \in BOOLEAN, wakes' \in 0..WakeBuffer, lagged' \in BOOLEAN,
         session' \in {"recording", "stopping", "processing"},
         crashes' \in 0..MaxCrashes, errors' \in 0..MaxErrors, Ending', CallersFit',
         session # "recording" => session' # "recording"
  PROVE  AssemblyInvariant'
<1> USE DEF AssemblyInvariant
<1>1. TypeOK'
  BY DEF TypeOK, Runs, Points, recorderVars, storeVars
<1>2. Grown /\ windows' = windows /\ stable' = stable
  BY DEF Grown, recorderVars, storeVars
<1>3. JobsProper'
  BY <1>2, JobsLast DEF JobsProper
<1>4. Received' /\ Tiled'
  BY DEF Received, AckedIsDurable, Tiled, Cut, WindowsTile, recorderVars, storeVars
<1> QED BY <1>1, <1>3, <1>4

LEMMA QuietRun ==
  ASSUME AssemblyInvariant, UNCHANGED <<recorderVars, session, storeVars, wakeVars, faultVars>>,
         run' \in [Callers -> Runs], up' \in BOOLEAN, CallersFit'
  PROVE  AssemblyInvariant'
<1>1. Ending' /\ wakes' \in 0..WakeBuffer /\ lagged' \in BOOLEAN
  BY DEF AssemblyInvariant, TypeOK, Ending, recorderVars, wakeVars
<1>2. /\ session' \in {"recording", "stopping", "processing"}
      /\ crashes' \in 0..MaxCrashes /\ errors' \in 0..MaxErrors
  BY DEF AssemblyInvariant, TypeOK, faultVars
<1> QED BY <1>1, <1>2, QuietKeeps

LEMMA UnchangedGrown ==
  ASSUME UNCHANGED <<recorderVars, session, storeVars>>
  PROVE  Grown
  BY DEF Grown, recorderVars, storeVars

(* Steps that read the store.                                              *)
LEMMA ReadersKeep ==
  ASSUME AssemblyInvariant, NEW p \in Callers, FindPending(p) \/ ListChunks(p) \/ ReadCursor(p)
  PROVE  AssemblyInvariant'
<1>1. UNCHANGED <<recorderVars, session, storeVars, wakeVars, faultVars>> /\ Grown
  <2>1. UNCHANGED <<recorderVars, session, storeVars, wakeVars, faultVars>>
    BY DEF FindPending, ListChunks, ReadCursor
  <2> QED BY <2>1, UnchangedGrown
<1>2. TypeOK /\ Received /\ Ending /\ CallersFit /\ Tiled
  BY DEF AssemblyInvariant
<1>3. run \in [Callers -> Runs] /\ run[p] \in Runs /\ CallFits(run[p])
  BY <1>2, RunsTyped DEF CallersFit
<1>4. ASSUME Return(p)
      PROVE  CallersFit' /\ run' \in [Callers -> Runs] /\ up' \in BOOLEAN
  <2>1. Moves(p, Back(p)) /\ up' = TRUE /\ CallFits(Back(p))
    BY <1>2, <1>4, ReturnMoves, RestFits
  <2> DEFINE q == Back(p)
  <2>2. CallFits(q) /\ Moves(p, q)
    BY <2>1
  <2> HIDE DEF q
  <2>3. \E r : CallFits(r) /\ Moves(p, r)
    BY <2>2
  <2>4. PICK r : CallFits(r) /\ Moves(p, r)
    BY <2>3
  <2>5. CallFits(r)'
    BY <1>1, <1>2, <2>4, FitsLasts
  <2> QED BY <1>1, <1>2, <2>1, <2>4, <2>5, OneCallerMoves
<1>5. ASSUME NEW q \in Runs, run' = [run EXCEPT ![p] = q], CallFits(q), UNCHANGED up
      PROVE  CallersFit' /\ run' \in [Callers -> Runs] /\ up' \in BOOLEAN
  <2>1. CallFits(q)' /\ Moves(p, q) /\ up' \in BOOLEAN
    BY <1>1, <1>2, <1>5, FitsLasts DEF Moves, TypeOK
  <2> QED BY <1>1, <1>2, <2>1, OneCallerMoves
<1>6. CASE FindPending(p)
  <2>1. CASE \E c \in chunks : c > cursor
    <3> DEFINE seal == run[p].seal \/ session # "recording"
               q == [run[p] EXCEPT !.pc = "list", !.seal = seal]
    <3>1. run' = [run EXCEPT ![p] = q] /\ UNCHANGED up
      BY <1>3, <1>6, <2>1 DEF FindPending
    <3>2. q \in Runs /\ q.pc = "list" /\ q.seal = seal /\ q.list = run[p].list
      BY <1>3 DEF Runs, Points
    <3>3. CallFits(q)
      BY <1>3, <3>2 DEF CallFits, Listed, Cutting, Offering
    <3> QED BY <1>1, <1>5, <3>1, <3>2, <3>3, QuietRun
  <2>2. CASE ~\E c \in chunks : c > cursor
    BY <1>1, <1>4, <1>6, <2>2, QuietRun DEF FindPending
  <2> QED BY <2>1, <2>2
<1>7. CASE ListChunks(p)
  <2> DEFINE list == {c \in chunks : c > cursor}
  <2>1. CASE list = {}
    BY <1>1, <1>4, <1>7, <2>1, QuietRun DEF ListChunks
  <2>2. CASE list # {}
    <3> DEFINE q == [run[p] EXCEPT !.list = list, !.pc = "cursor"]
    <3>1. run' = [run EXCEPT ![p] = q] /\ UNCHANGED up
      BY <1>3, <1>7, <2>2 DEF ListChunks
    <3>2. list \subseteq chunks /\ list \in SUBSET Frames
      BY <1>2 DEF TypeOK
    <3>3. q \in Runs /\ q.pc = "cursor" /\ q.seal = run[p].seal /\ q.list = list
      BY <1>3, <3>2 DEF Runs, Points
    <3>4. session # "recording" => captured \in list
      <4> SUFFICES ASSUME session # "recording" PROVE captured \in list
        OBVIOUS
      <4>1. PICK c \in chunks : c > cursor
        BY <2>2
      <4>2. outbox = {} /\ c \in 1..captured /\ captured \in Nat /\ cursor \in Nat
        BY <1>2, RestTyped DEF Ending, Received, TypeOK
      <4>3. captured \in 1..captured /\ captured > cursor
        BY <4>1, <4>2
      <4>4. captured \in chunks
        BY <1>2, <4>2, <4>3 DEF Received, AckedIsDurable
      <4> QED BY <4>3, <4>4
    <3>5. CallFits(q)
      BY <1>3, <3>2, <3>3, <3>4 DEF CallFits, Cutting, Offering
    <3> QED BY <1>1, <1>5, <3>1, <3>3, <3>5, QuietRun
  <2> QED BY <2>1, <2>2
<1>8. CASE ReadCursor(p)
  <2>1. run[p].pc = "cursor" /\ (Return(p) \/ Scan(p, cursor + 1))
    BY <1>8 DEF ReadCursor
  <2>2. CASE Return(p)
    BY <1>1, <1>4, <2>2, QuietRun
  <2>3. CASE Scan(p, cursor + 1)
    <3>1. cursor + 1 \in 1..(MaxFrames + 1) /\ (cursor + 1) - 1 = cursor
      BY <1>2, RestTyped DEF TypeOK
    <3>2. PICK f \in 1..(MaxFrames + 1) : f = cursor + 1
      BY <3>1
    <3>3. run[p].pc \in Listed /\ UNCHANGED <<chunks, captured, ended, session>>
      BY <1>1, <2>1 DEF Listed, recorderVars, storeVars
    <3>4. Cut(f - 1)' /\ Scan(p, f)
      <4>1. f - 1 = cursor
        BY <3>1, <3>2
      <4> QED BY <1>1, <1>2, <2>3, <3>2, <4>1 DEF Tiled, Cut, storeVars
    <3>5. CallersFit' /\ run' \in [Callers -> Runs] /\ up' \in BOOLEAN
      BY <1>1, <1>2, <3>3, <3>4, ScanKeeps
    <3> QED BY <1>1, <3>5, QuietRun
  <2> QED BY <2>1, <2>2, <2>3
<1> QED BY <1>6, <1>7, <1>8

(* Steps that write jobs.                                                  *)
LEMMA WritersKeep ==
  ASSUME AssemblyInvariant, NEW p \in Callers,
         SupersedePreviews(p) \/ EnqueueWindow(p) \/ DropPreviews(p) \/ EnqueuePreview(p)
  PROVE  AssemblyInvariant'
<1>1. TypeOK /\ Received /\ Ending /\ CallersFit /\ JobsProper /\ Tiled
  BY DEF AssemblyInvariant
<1>2. run \in [Callers -> Runs] /\ run[p] \in Runs /\ CallFits(run[p])
  BY <1>1, RunsTyped DEF CallersFit
<1> DEFINE w == <<run[p].first, run[p].last>>
<1>3. /\ UNCHANGED <<recorderVars, session, chunks, cursor, windows, wakeVars, faultVars>>
      /\ stable' = stable \/ (EnqueueWindow(p) /\ stable' = stable \cup {w})
  BY DEF SupersedePreviews, EnqueueWindow, DropPreviews, EnqueuePreview
<1>4. Grown
  BY <1>3 DEF Grown, recorderVars
<1>5. EnqueueWindow(p) => Proper(run[p].first, run[p].last)
  BY <1>2 DEF EnqueueWindow, CallFits, Cutting
<1>6. stable' \subseteq Windows
  BY <1>1, <1>3, <1>5, RestTyped DEF TypeOK, Proper, Ends, Windows
<1>7. previews' \subseteq Windows /\ queued' \subseteq previews'
  <2>1. CASE EnqueuePreview(p)
    <3>1. w \in Windows
      BY <1>2, <2>1 DEF EnqueuePreview, CallFits, Offering
    <3> QED BY <1>1, <2>1, <3>1 DEF EnqueuePreview, TypeOK
  <2>2. CASE ~EnqueuePreview(p)
    BY <1>1, <2>2 DEF SupersedePreviews, EnqueueWindow, DropPreviews, TypeOK
  <2> QED BY <2>1, <2>2
<1>8. JobsProper'
  BY <1>1, <1>3, <1>4, <1>5, JobsLast DEF JobsProper
<1>9. Received' /\ Ending' /\ Tiled'
  BY <1>1, <1>3 DEF Received, AckedIsDurable, Ending, Tiled, Cut, WindowsTile, recorderVars
<1>10. CallersFit' /\ run' \in [Callers -> Runs] /\ up' \in BOOLEAN
  <2>1. ASSUME NEW pc \in Points, Goto(p, pc), UNCHANGED up,
               pc \in Cutting => run[p].pc \in Cutting,
               pc = "record" => w \in stable',
               pc \in Listed => run[p].pc \in Listed,
               pc \in Offering => run[p].pc \in Offering
        PROVE  CallersFit' /\ run' \in [Callers -> Runs] /\ up' \in BOOLEAN
    <3>1. PICK q \in Runs :
            /\ Moves(p, q) /\ q.pc = pc /\ q.seal = run[p].seal /\ q.list = run[p].list
            /\ q.first = run[p].first /\ q.last = run[p].last
      BY <1>1, <2>1, GotoMoves
    <3>2. q.pc \in Cutting => Proper(q.first, q.last)'
      BY <1>2, <1>4, <2>1, <3>1, ProperLasts DEF CallFits
    <3>3. /\ q.list \subseteq chunks /\ (q.seal => session # "recording")
          /\ q.pc \in Offering => <<q.first, q.last>> \in Windows
          /\ q.seal /\ q.pc \in Listed => captured \in q.list
      BY <1>2, <2>1, <3>1 DEF CallFits
    <3>4. CallFits(q)'
      BY <1>3, <2>1, <3>1, <3>2, <3>3 DEF CallFits, recorderVars
    <3> QED BY <1>1, <1>4, <2>1, <3>1, <3>4, OneCallerMoves DEF TypeOK
  <2>2. CASE SupersedePreviews(p)
    BY <2>1, <2>2 DEF SupersedePreviews, Points, Cutting, Listed, Offering
  <2>3. CASE EnqueueWindow(p)
    BY <2>1, <2>3 DEF EnqueueWindow, Points, Cutting, Listed, Offering
  <2>4. CASE DropPreviews(p)
    BY <2>1, <2>4 DEF DropPreviews, Points, Cutting, Listed, Offering
  <2>5. CASE EnqueuePreview(p)
    <3>1. Moves(p, Back(p)) /\ up' = TRUE /\ CallFits(Back(p))
      BY <1>1, <2>5, ReturnMoves, RestFits DEF EnqueuePreview
    <3>2. PICK r : CallFits(r) /\ Moves(p, r)
      BY <3>1
    <3>3. CallFits(r)'
      BY <1>1, <1>4, <3>2, FitsLasts
    <3> QED BY <1>1, <1>4, <3>1, <3>2, <3>3, OneCallerMoves
  <2> QED BY <2>2, <2>3, <2>4, <2>5
<1>11. TypeOK'
  BY <1>1, <1>3, <1>6, <1>7, <1>10
  DEF TypeOK, Runs, Points, recorderVars, wakeVars, faultVars
<1> QED BY <1>8, <1>9, <1>10, <1>11 DEF AssemblyInvariant

(* Recording a window: either it is new and begins right after the cursor, *)
(* or the other caller has recorded the same one.                          *)
LEMMA RecordKeeps ==
  ASSUME AssemblyInvariant, NEW p \in Callers, RecordWindow(p)
  PROVE  AssemblyInvariant'
<1>1. TypeOK /\ Received /\ Ending /\ CallersFit /\ JobsProper /\ Tiled
  BY DEF AssemblyInvariant
<1>2. run \in [Callers -> Runs] /\ run[p] \in Runs /\ CallFits(run[p])
  BY <1>1, RunsTyped DEF CallersFit
<1>3. PICK f \in Frames, l \in Frames :
        /\ f = run[p].first /\ l = run[p].last /\ Proper(f, l) /\ <<f, l>> \in stable
  BY <1>2 DEF RecordWindow, CallFits, Cutting, Proper, Ends
<1>4. /\ windows' = windows \cup {<<f, l>>}
      /\ cursor' = IF l > cursor THEN l ELSE cursor
      /\ Scan(p, l + 1) /\ run[p].pc \in Listed
      /\ UNCHANGED <<recorderVars, session, chunks, stable, previews, queued,
                     wakeVars, faultVars>>
  BY <1>3 DEF RecordWindow, Listed, Cutting
<1>5. /\ f \in Nat /\ l \in Nat /\ f >= 1 /\ f <= l /\ l <= MaxFrames /\ MaxFrames \in Nat
      /\ cursor \in Nat /\ f..l \subseteq chunks /\ Cut(f - 1) /\ Ends(f, l)
  BY <1>1, <1>3, RestTyped DEF Proper, Ends, Frames, TypeOK
<1>6. Grown
  BY <1>4 DEF Grown, recorderVars
<1>7. f - 1 <= cursor
  BY <1>1, <1>5, CutBelow DEF Tiled
<1>8. <<f, l>> \in Windows
  BY <1>3, <1>5 DEF Windows
<1>9. Tiled'
  <2>1. CASE f <= cursor
    <3>1. PICK w \in windows : w[1] = f
      BY <1>1, <1>5, <2>1, CutStarts DEF Tiled
    <3>2. Ends(f, w[2]) /\ captured \in Nat
      BY <1>1, <3>1, RestTyped DEF JobsProper, Proper, TypeOK
    <3>3. w[2] = l
      BY <1>1, <1>5, <3>2, SameEnd
    <3>4. w = <<f, l>> /\ l \in Span(w) /\ l \in Frames
      BY <1>1, <3>1, <3>3, WindowTyped
    <3>5. windows' = windows /\ l <= cursor
      BY <1>1, <1>4, <3>1, <3>4 DEF Tiled, WindowsTile
    <3>6. cursor' = cursor
      BY <1>4, <1>5, <3>5
    <3> QED BY <1>1, <1>4, <3>5, <3>6 DEF Tiled, Cut, WindowsTile
  <2>2. CASE f = cursor + 1
    <3>1. l > cursor /\ cursor' = l
      BY <1>4, <1>5, <2>2
    <3>2. \A n : n \in Span(<<f, l>>) <=> n \in f..l
      BY DEF Span
    <3>3. \A w \in windows : \A n \in Span(w) : n \in Frames /\ n <= cursor
      <4> SUFFICES ASSUME NEW w \in windows, NEW n \in Span(w)
                   PROVE  n \in Frames /\ n <= cursor
        OBVIOUS
      <4>1. n \in Frames
        BY <1>1, WindowTyped, RestTyped DEF Span, Frames
      <4> QED BY <1>1, <4>1 DEF Tiled, WindowsTile
    <3>4. 1..cursor' \subseteq chunks'
      <4> SUFFICES ASSUME NEW n \in 1..l PROVE n \in chunks
        BY <1>4, <3>1
      <4>1. CASE n <= cursor
        BY <1>1, <1>5, <4>1 DEF Tiled, WindowsTile
      <4>2. CASE n > cursor
        BY <1>5, <2>2, <4>2
      <4> QED BY <1>5, <4>1, <4>2
    <3>5. ASSUME NEW n \in Frames
          PROVE  n <= cursor' <=> \E w \in windows' : n \in Span(w)
      <4>1. n <= cursor <=> \E w \in windows : n \in Span(w)
        BY <1>1 DEF Tiled, WindowsTile
      <4>2. n \in Nat
        BY <1>5 DEF Frames
      <4>3. n <= l <=> n <= cursor \/ n \in f..l
        BY <1>5, <2>2, <4>2
      <4> QED BY <1>4, <3>1, <3>2, <4>1, <4>3
    <3>6. ASSUME NEW v \in windows', NEW w \in windows', v # w
          PROVE  Span(v) \cap Span(w) = {}
      <4>1. CASE v \in windows /\ w \in windows
        BY <1>1, <3>6, <4>1 DEF Tiled, WindowsTile
      <4>2. ASSUME NEW u \in windows
            PROVE  Span(u) \cap Span(<<f, l>>) = {}
        BY <1>5, <2>2, <3>2, <3>3
      <4> QED BY <1>4, <3>6, <4>1, <4>2
    <3>7. Cut(cursor)'
      <4>1. <<f, l>> \in windows' /\ <<f, l>>[2] = cursor'
        BY <1>4, <3>1
      <4> QED BY <4>1 DEF Cut
    <3>8. WindowsTile'
      BY <3>4, <3>5, <3>6 DEF WindowsTile
    <3> QED BY <3>7, <3>8 DEF Tiled
  <2> QED BY <1>5, <1>7, <2>1, <2>2
<1>10. JobsProper'
  BY <1>1, <1>3, <1>4, <1>6, JobsLast DEF JobsProper
<1>11. CallersFit' /\ run' \in [Callers -> Runs] /\ up' \in BOOLEAN
  <2>1. PICK n \in 1..(MaxFrames + 1) : n = l + 1 /\ n - 1 = l
    BY <1>5
  <2>2. Cut(n - 1)'
    <3>1. <<f, l>> \in windows' /\ <<f, l>>[2] = n - 1
      BY <1>4, <2>1
    <3> QED BY <3>1 DEF Cut
  <2>3. UNCHANGED <<chunks, captured, ended, session>> /\ Scan(p, n)
    BY <1>4, <2>1 DEF recorderVars
  <2> QED BY <1>1, <1>4, <1>6, <2>2, <2>3, ScanKeeps
<1>12. cursor' \in 0..MaxFrames
  BY <1>1, <1>4, <1>5 DEF TypeOK
<1>13. TypeOK'
  BY <1>1, <1>4, <1>8, <1>11, <1>12
  DEF TypeOK, Runs, Points, recorderVars, wakeVars, faultVars
<1>14. Received' /\ Ending'
  BY <1>1, <1>4 DEF Received, AckedIsDurable, Ending, recorderVars
<1> QED BY <1>9, <1>10, <1>11, <1>13, <1>14 DEF AssemblyInvariant

(* Callers that begin, end, fail or die.                                   *)
LEMMA CallersKeep ==
  ASSUME AssemblyInvariant, Stopping,
         \/ Receive \/ Crash
         \/ \E p \in Stops : StopBegin(p) \/ StopEnd(p)
         \/ \E p \in Callers : AssemblyFails(p)
  PROVE  AssemblyInvariant'
<1>1. TypeOK /\ Received /\ Ending /\ CallersFit /\ JobsProper /\ Tiled
  BY DEF AssemblyInvariant
<1>2. run \in [Callers -> Runs] /\ Stops \subseteq Callers /\ Background \in Callers
  BY <1>1, RunsTyped DEF Callers
<1>3. MaxErrors \in Nat /\ MaxCrashes \in Nat /\ WakeBuffer \in Nat
  BY AssemblyAssumption
<1>4. ASSUME NEW p \in Callers, NEW q \in Runs, run' = [run EXCEPT ![p] = q],
             CallFits(q)', Grown
      PROVE  CallersFit' /\ run' \in [Callers -> Runs]
  BY <1>1, <1>4, OneCallerMoves DEF Moves
<1>5. CASE Receive
  <2>1. PICK pc \in {"sources", "list"} :
          /\ Goto(Background, pc) /\ wakes' \in {wakes, wakes - 1} /\ (wakes' # wakes => wakes > 0)
          /\ lagged' \in BOOLEAN /\ run[Background] = Rest
          /\ UNCHANGED <<recorderVars, session, storeVars, up, faultVars>>
    BY <1>1, <1>5 DEF Receive, TypeOK
  <2>2. pc \in Points /\ pc \notin Listed
    BY DEF Points, Listed, Cutting, Offering
  <2>3. PICK q \in Runs :
          Moves(Background, q) /\ q.pc = pc /\ q.seal = FALSE /\ q.list = {}
    BY <1>1, <1>2, <2>1, <2>2, GotoMoves DEF Rest
  <2>4. Grown /\ CallFits(q)'
    <3>1. Grown
      BY <2>1, UnchangedGrown
    <3> QED BY <2>2, <2>3, <3>1 DEF CallFits, Listed, Cutting, Offering
  <2>5. CallersFit' /\ run' \in [Callers -> Runs]
    BY <1>2, <1>4, <2>3, <2>4 DEF Moves
  <2>6. wakes' \in 0..WakeBuffer
    BY <1>1, <1>3, <2>1 DEF TypeOK
  <2>7. Ending' /\ up' \in BOOLEAN /\ session' \in {"recording", "stopping", "processing"}
        /\ crashes' \in 0..MaxCrashes /\ errors' \in 0..MaxErrors
    BY <1>1, <2>1 DEF Ending, TypeOK, recorderVars, faultVars
  <2> QED BY <2>1, <2>5, <2>6, <2>7, QuietKeeps
<1>6. ASSUME NEW p \in Stops, StopBegin(p)
      PROVE  AssemblyInvariant'
  <2>1. /\ ended /\ outbox = {} /\ session' = "stopping" /\ run[p].pc = "idle"
        /\ run' = [run EXCEPT ![p].pc = "sources", ![p].seal = TRUE]
        /\ UNCHANGED <<recorderVars, storeVars, wakeVars, up, faultVars>>
    BY <1>6 DEF StopBegin
  <2> DEFINE r == [run[p] EXCEPT !.pc = "sources", !.seal = TRUE]
  <2>2. r \in Runs /\ run' = [run EXCEPT ![p] = r] /\ r.pc = "sources" /\ r.list = run[p].list
    BY <1>2, <2>1 DEF Runs, Points
  <2>3. PICK q \in Runs : run' = [run EXCEPT ![p] = q] /\ q.pc = "sources" /\ q.list = run[p].list
    BY <2>2
  <2>4. Grown
    BY <2>1 DEF Grown, recorderVars, storeVars
  <2>5. CallFits(q)'
    BY <1>1, <1>2, <2>1, <2>3 DEF CallersFit, CallFits, Listed, Cutting, Offering, storeVars
  <2>6. CallersFit' /\ run' \in [Callers -> Runs]
    BY <1>2, <1>4, <2>3, <2>4, <2>5
  <2>7. Ending' /\ up' \in BOOLEAN /\ session' \in {"recording", "stopping", "processing"}
        /\ crashes' \in 0..MaxCrashes /\ errors' \in 0..MaxErrors
        /\ wakes' \in 0..WakeBuffer /\ lagged' \in BOOLEAN /\ session' # "recording"
    BY <1>1, <2>1 DEF Ending, TypeOK, recorderVars, faultVars, wakeVars
  <2> QED BY <2>1, <2>6, <2>7, QuietKeeps
<1>7. ASSUME NEW p \in Callers, NEW s, s = session \/ (s = "processing" /\ session # "recording"),
             session' = s, run' = [run EXCEPT ![p] = Rest],
             UNCHANGED <<recorderVars, storeVars, wakeVars, up, crashes>>, errors' \in 0..MaxErrors
      PROVE  AssemblyInvariant'
  <2>1. Grown
    BY <1>7 DEF Grown, recorderVars, storeVars
  <2>2. PICK q \in Runs : q = Rest
    BY RestTyped
  <2>3. CallFits(q)'
    BY <1>1, <2>1, <2>2, RestFits, FitsLasts
  <2>4. CallersFit' /\ run' \in [Callers -> Runs]
    BY <1>4, <1>7, <2>1, <2>2, <2>3
  <2>5. Ending' /\ up' \in BOOLEAN /\ session' \in {"recording", "stopping", "processing"}
        /\ crashes' \in 0..MaxCrashes
        /\ wakes' \in 0..WakeBuffer /\ lagged' \in BOOLEAN
        /\ (session # "recording" => session' # "recording")
    BY <1>1, <1>7 DEF Ending, TypeOK, recorderVars, wakeVars
  <2> QED BY <1>7, <2>4, <2>5, QuietKeeps
<1>8. ASSUME NEW p \in Stops, StopEnd(p)
      PROVE  AssemblyInvariant'
  <2>1. session # "recording"
    BY <1>8 DEF StopEnd, Stopping
  <2>2. errors' \in 0..MaxErrors /\ UNCHANGED crashes
    BY <1>1, <1>8 DEF StopEnd, TypeOK, faultVars
  <2> QED BY <1>2, <1>7, <1>8, <2>1, <2>2 DEF StopEnd
<1>9. ASSUME NEW p \in Callers, AssemblyFails(p)
      PROVE  AssemblyInvariant'
  <2>1. errors' \in 0..MaxErrors
    BY <1>1, <1>3, <1>9 DEF AssemblyFails, TypeOK
  <2> QED BY <1>7, <1>9, <2>1 DEF AssemblyFails
<1>10. CASE Crash
  <2> DEFINE back == [Rest EXCEPT !.pc = "sources"]
  <2>1. /\ run' = [p \in Callers |-> IF p = Background THEN back ELSE Rest]
        /\ up' = FALSE /\ wakes' = 0 /\ lagged' = FALSE
        /\ crashes' = crashes + 1 /\ crashes < MaxCrashes
        /\ UNCHANGED <<recorderVars, session, storeVars, errors>>
    BY <1>10 DEF Crash
  <2>2. run' \in [Callers -> Runs]
    <3>1. back \in Runs /\ Rest \in Runs
      BY RestTyped
    <3> HIDE DEF back
    <3> QED BY <2>1, <3>1
  <2>3. /\ back.pc = "sources" /\ back.list = {} /\ back.seal = FALSE
    BY DEF Rest
  <2>4. \A p \in Callers : run'[p].pc \notin Listed /\ run'[p].list = {} /\ run'[p].seal = FALSE
    BY <2>1, <2>3 DEF Rest, Listed, Cutting, Offering
  <2>5. CallersFit'
    BY <2>4 DEF CallersFit, CallFits, Listed, Cutting, Offering
  <2>6. crashes' \in 0..MaxCrashes /\ wakes' \in 0..WakeBuffer
    <3>1. crashes \in 0..MaxCrashes
      BY <1>1 DEF TypeOK
    <3> QED BY <1>3, <2>1, <3>1
  <2>7. Ending' /\ up' \in BOOLEAN /\ lagged' \in BOOLEAN
    BY <1>1, <2>1 DEF Ending, recorderVars
  <2>8. /\ session' \in {"recording", "stopping", "processing"}
        /\ errors' \in 0..MaxErrors /\ (session # "recording" => session' # "recording")
    BY <1>1, <2>1 DEF TypeOK
  <2> QED BY <2>1, <2>2, <2>5, <2>6, <2>7, <2>8, QuietKeeps
<1> QED BY <1>5, <1>6, <1>8, <1>9, <1>10

(* Only the caller itself moves, and only one that is at work.             *)
LEMMA OthersStay ==
  ASSUME run \in [Callers -> Runs], NEW p \in Callers, Assemble(p)
  PROVE  run[p].pc # "idle" /\ \A r \in Callers \ {p} : run'[r] = run[r]
<1>1. run[p].pc # "idle"
  BY DEF Assemble, FindPending, ListChunks, ReadCursor, SupersedePreviews, EnqueueWindow,
         RecordWindow, DropPreviews, EnqueuePreview
<1>2. ASSUME NEW r \in Callers \ {p}
      PROVE  run'[r] = run[r]
  <2>1. (\A pc : Goto(p, pc) => run'[r] = run[r]) /\ (Return(p) => run'[r] = run[r])
    BY DEF Goto, Return
  <2>2. \A f : Scan(p, f) => run'[r] = run[r]
    BY <2>1 DEF Scan
  <2> QED BY <2>1, <2>2
          DEF Assemble, FindPending, ListChunks, ReadCursor, SupersedePreviews, EnqueueWindow,
              RecordWindow, DropPreviews, EnqueuePreview
<1> QED BY <1>1, <1>2

LEMMA StoppingKept ==
  ASSUME TypeOK, Stopping, [Next]_vars
  PROVE  Stopping'
<1>1. run \in [Callers -> Runs] /\ Stops \subseteq Callers
  BY RunsTyped DEF Callers
<1>2. session # "recording" => session' # "recording"
  BY DEF Next, vars, Capture, EndCapture, PersistFrame, Assemble, FindPending, ListChunks,
         ReadCursor, SupersedePreviews, EnqueueWindow, RecordWindow, DropPreviews,
         EnqueuePreview, AssemblyFails, Receive, StopBegin, StopEnd, Crash
<1>3. ASSUME NEW p \in Stops, run'[p].pc # "idle"
      PROVE  run[p].pc # "idle" \/ session' # "recording"
  <2>1. CASE \E q \in Callers : Assemble(q)
    <3>1. PICK q \in Callers : Assemble(q)
      BY <2>1
    <3>2. CASE q = p
      BY <1>1, <3>1, <3>2, OthersStay
    <3>3. CASE q # p
      BY <1>1, <1>3, <3>1, <3>3, OthersStay
    <3> QED BY <3>2, <3>3
  <2>2. CASE \E q \in Callers : AssemblyFails(q)
    BY <1>1, <1>3, <2>2 DEF AssemblyFails, Rest
  <2>3. ASSUME Receive
        PROVE  run'[p] = run[p]
    BY <1>1, <2>3, AssemblyAssumption DEF Receive, Goto
  <2>4. CASE \E q \in Stops : StopBegin(q)
    BY <2>4 DEF StopBegin
  <2>5. CASE \E q \in Stops : StopEnd(q)
    BY <1>1, <1>3, <2>5 DEF StopEnd, Rest
  <2>6. CASE Crash
    BY <1>1, <1>3, <2>6, AssemblyAssumption DEF Crash, Rest
  <2>7. CASE \/ Capture \/ EndCapture \/ UNCHANGED vars
             \/ \E n \in Frames : PersistFrame(n)
    BY <1>3, <2>7 DEF Capture, EndCapture, PersistFrame, vars
  <2> QED BY <1>3, <2>1, <2>2, <2>3, <2>4, <2>5, <2>6, <2>7 DEF Next
<1> QED BY <1>2, <1>3 DEF Stopping

LEMMA AssemblyInit == Init => AssemblyInvariant /\ Stopping
<1> SUFFICES ASSUME Init PROVE AssemblyInvariant /\ Stopping
  OBVIOUS
<1>1. MaxFrames \in Nat /\ MaxErrors \in Nat /\ MaxCrashes \in Nat /\ WakeBuffer \in Nat
  BY AssemblyAssumption
<1>2. run \in [Callers -> Runs] /\ \A p \in Callers : run[p] = Rest
  BY RestTyped DEF Init
<1>3. captured = 0 /\ outbox = {} /\ chunks = {} /\ windows = {} /\ stable = {} /\ cursor = 0
  BY DEF Init
<1>4. TypeOK
  <2>1. run \in [Callers -> Runs]
    BY <1>2
  <2>2. /\ captured \in 0..MaxFrames /\ cursor \in 0..MaxFrames /\ wakes \in 0..WakeBuffer
        /\ crashes \in 0..MaxCrashes /\ errors \in 0..MaxErrors
    BY <1>1 DEF Init
  <2>3. /\ outbox \subseteq Frames /\ ended \in BOOLEAN /\ session = "recording"
        /\ chunks \subseteq Frames /\ windows \subseteq Windows /\ stable \subseteq Windows
        /\ previews \subseteq Windows /\ queued \subseteq previews
        /\ lagged \in BOOLEAN /\ up \in BOOLEAN
    BY DEF Init
  <2> QED BY <2>1, <2>2, <2>3 DEF TypeOK, Runs, Points
<1>5. Received /\ Ending /\ JobsProper
  BY <1>3 DEF Received, AckedIsDurable, Ending, JobsProper, Init
<1>6. CallersFit
  BY <1>2, RestFits DEF CallersFit
<1>7. Tiled
  BY <1>1, <1>3 DEF Tiled, Cut, WindowsTile, Frames
<1>8. Stopping
  BY <1>2 DEF Stopping, Rest, Callers
<1> QED BY <1>4, <1>5, <1>6, <1>7, <1>8 DEF AssemblyInvariant

LEMMA AssemblyStep ==
  ASSUME AssemblyInvariant, Stopping, [Next]_vars
  PROVE  AssemblyInvariant' /\ Stopping'
<1>1. Stopping'
  BY StoppingKept DEF AssemblyInvariant
<1>2. ASSUME NEW p \in Callers, Assemble(p)
      PROVE  AssemblyInvariant'
  BY <1>2, ReadersKeep, WritersKeep, RecordKeeps DEF Assemble
<1>3. CASE UNCHANGED vars
  <2>1. run' \in [Callers -> Runs] /\ up' \in BOOLEAN
    BY <1>3, RunsTyped DEF vars, AssemblyInvariant, TypeOK
  <2>2. Grown
    BY <1>3, UnchangedGrown DEF vars
  <2>3. CallersFit'
    BY <1>3, <2>2, CallersLast DEF vars, AssemblyInvariant
  <2>4. UNCHANGED <<recorderVars, session, storeVars, wakeVars, faultVars>>
    BY <1>3 DEF vars
  <2> QED BY <1>1, <2>1, <2>3, <2>4, QuietRun
<1> QED BY <1>1, <1>2, <1>3, RecorderKeeps, CallersKeep DEF Next

LEMMA AssemblyHolds == Spec => [](AssemblyInvariant /\ Stopping)
<1>1. Init => AssemblyInvariant /\ Stopping
  BY AssemblyInit
<1>2. (AssemblyInvariant /\ Stopping) /\ [Next]_vars => (AssemblyInvariant /\ Stopping)'
  BY AssemblyStep
<1> QED BY <1>1, <1>2, PTL DEF Spec
-----------------------------------------------------------------------------
(* The recovery of a restart *)

(* A recovery that seals has listed every stored frame above the cursor,   *)
(* and those run without a gap to the last frame of the recording.         *)
LEMMA NoGap ==
  ASSUME TypeOK, Received, Ending, session # "recording", NEW n \in chunks, NEW m \in Nat,
         m >= 1, m <= n
  PROVE  m \in chunks
<1>1. captured \in Nat /\ outbox = {} /\ n \in 1..captured
  BY RestTyped DEF TypeOK, Ending, Received
<1>2. m \in 1..captured
  BY <1>1
<1> QED BY <1>1, <1>2 DEF Received, AckedIsDurable

LEMMA ScanRecovers ==
  ASSUME TypeOK, Received, Ending, NEW p \in Callers, NEW c \in Nat, NEW f \in 1..(MaxFrames + 1),
         f = c + 1, run[p].list \subseteq chunks, \A n \in chunks : n > c => n \in run[p].list,
         session # "recording" <=> run[p].seal, ~up, Scan(p, f)
  PROVE  /\ up' /\ session # "recording" => \A n \in chunks : n <= c
         /\ ~up' => \E q \in Runs :
              /\ Moves(p, q) /\ q.pc \in {"supersede", "drop"} /\ q.first = f
              /\ q.list = run[p].list /\ q.seal = run[p].seal /\ (q.pc = "drop" => ~q.seal)
<1>1. PICK q \in Runs :
        /\ Moves(p, q)
        /\ \/ \E l \in Frames : Cuts(p, f, l, q)
           \/ \E l \in Frames : Offers(p, f, l, q)
           \/ Stays(p, f, q)
  BY ScanMoves
<1>2. ASSUME NEW l \in Frames, OpenAt(run[p].list, f, l), run[p].seal
      PROVE  TailAt(run[p].list, f, l)
  <2>1. l \in Nat /\ f \in Nat /\ f <= l /\ l + 1 \notin run[p].list
    BY <1>2, RestTyped DEF Frames, OpenAt
  <2>2. ASSUME NEW n \in run[p].list
        PROVE  n <= l
    <3>1. n \in chunks /\ n \in Nat
      BY RestTyped DEF TypeOK, Frames
    <3>2. CASE n > l
      <4>1. l + 1 \in chunks
        BY <1>2, <2>1, <3>1, <3>2, NoGap
      <4> QED BY <2>1, <4>1
    <3> QED BY <2>1, <3>1, <3>2
  <2> QED BY <1>2, <2>2 DEF TailAt
<1>3. CASE \E l \in Frames : Cuts(p, f, l, q)
  BY <1>1, <1>3 DEF Cuts
<1>4. CASE \E l \in Frames : Offers(p, f, l, q)
  BY <1>1, <1>2, <1>4 DEF Offers
<1>5. CASE Stays(p, f, q)
  <2>1. up' = TRUE
    BY <1>5 DEF Stays
  <2>2. ASSUME session # "recording", NEW n \in chunks
        PROVE  n <= c
    <3>1. f \notin run[p].list
      BY <1>2, <1>5, <2>2 DEF Stays
    <3>2. n \in Nat
      BY RestTyped DEF TypeOK, Frames
    <3>3. CASE n > c
      <4>1. f \in chunks
        BY <2>2, <3>2, <3>3, NoGap
      <4> QED BY <3>1, <4>1
    <3> QED BY <3>2, <3>3
  <2> QED BY <2>1, <2>2
<1> QED BY <1>1, <1>3, <1>4, <1>5

(* While the process starts, only its recovery runs.                       *)
LEMMA StartingSteps ==
  ASSUME TypeOK, Stopping, Recovering, ~up, [Next]_vars
  PROVE  \/ Capture \/ EndCapture \/ UNCHANGED vars \/ Assemble(Background) \/ Crash
<1>1. \A p \in Stops : run[p].pc = "idle"
  BY DEF Recovering, Rest
<1>2. ASSUME NEW p \in Stops
      PROVE  ~Assemble(p) /\ ~StopEnd(p)
  <2>1. p \in Callers /\ run \in [Callers -> Runs]
    BY RunsTyped DEF Callers
  <2> QED BY <1>1, <2>1, OthersStay DEF StopEnd
<1> QED BY <1>2 DEF Next, PersistFrame, AssemblyFails, Receive, StopBegin, Callers

(* What a step of the recovery does: it goes on, or it ends with nothing   *)
(* stored above the cursor.                                                *)
LEMMA RecoveryStep ==
  ASSUME AssemblyInvariant, Recovering, ~up, Assemble(Background)
  PROVE  /\ up' /\ session # "recording" => \A n \in chunks' : n <= cursor'
         /\ ~up' => Recovers(run[Background])' /\ \A p \in Stops : run'[p] = run[p]
<1> DEFINE p == Background
<1>1. TypeOK /\ Received /\ Ending /\ CallersFit /\ p \in Callers
  BY DEF AssemblyInvariant, Callers
<1>2. run \in [Callers -> Runs] /\ run[p] \in Runs /\ CallFits(run[p]) /\ Recovers(run[p])
  BY <1>1, RunsTyped DEF CallersFit, Recovering
<1>3. MaxFrames \in Nat /\ cursor \in Nat /\ \A n \in chunks : n \in Nat
  BY <1>1, RestTyped DEF TypeOK, Frames
<1>4. \A s \in Stops : run'[s] = run[s]
  BY <1>2, OthersStay, AssemblyAssumption DEF Callers
<1>5. ASSUME NEW q \in Runs, Moves(p, q), Recovers(q)'
      PROVE  Recovers(run[Background])'
  <2>1. run'[p] = q
    BY <1>1, <1>2, <1>5 DEF Moves
  <2> QED BY <1>5, <2>1
<1>6. CASE FindPending(p)
  <2>1. CASE \E c \in chunks : c > cursor
    <3> DEFINE seal == run[p].seal \/ session # "recording"
               r == [run[p] EXCEPT !.pc = "list", !.seal = seal]
    <3>1. run' = [run EXCEPT ![p] = r] /\ UNCHANGED <<up, session>>
      BY <1>2, <1>6, <2>1 DEF FindPending
    <3>2. r \in Runs /\ r.pc = "list" /\ r.seal = seal
      BY <1>2 DEF Runs, Points
    <3>3. PICK q \in Runs : Moves(p, q) /\ q.pc = "list" /\ (session # "recording" => q.seal)
      BY <3>1, <3>2 DEF Moves
    <3>4. Recovers(q)'
      BY <3>1, <3>3 DEF Recovers, Listed, Cutting, Offering
    <3> QED BY <1>4, <1>5, <3>1, <3>3, <3>4
  <2>2. CASE ~\E c \in chunks : c > cursor
    <3>1. up' = TRUE /\ UNCHANGED <<chunks, cursor>>
      BY <1>6, <2>2 DEF FindPending, Return, storeVars
    <3> QED BY <1>3, <2>2, <3>1
  <2> QED BY <2>1, <2>2
<1>7. CASE ListChunks(p)
  <2> DEFINE list == {c \in chunks : c > cursor}
  <2>0. UNCHANGED <<chunks, cursor, session>>
    BY <1>7 DEF ListChunks, storeVars
  <2>1. CASE list = {}
    <3>1. up' = TRUE /\ \A n \in chunks : ~(n > cursor)
      BY <1>7, <2>1 DEF ListChunks, Return
    <3> QED BY <1>3, <2>0, <3>1
  <2>2. CASE list # {}
    <3> DEFINE r == [run[p] EXCEPT !.list = list, !.pc = "cursor"]
    <3>1. run' = [run EXCEPT ![p] = r] /\ UNCHANGED up /\ run[p].pc = "list"
      BY <1>2, <1>7, <2>2 DEF ListChunks
    <3>2. list \in SUBSET Frames
      BY <1>1 DEF TypeOK
    <3>3. r \in Runs /\ r.pc = "cursor" /\ r.seal = run[p].seal /\ r.list = list
      BY <1>2, <3>2 DEF Runs, Points
    <3>4. PICK q \in Runs :
            Moves(p, q) /\ q.pc = "cursor" /\ q.seal = run[p].seal /\ q.list = list
      BY <3>1, <3>3 DEF Moves
    <3>5. session # "recording" => q.seal
      BY <1>2, <3>1, <3>4 DEF Recovers
    <3>6. Recovers(q)'
      BY <2>0, <3>4, <3>5 DEF Recovers, Cutting, Offering
    <3> QED BY <1>4, <1>5, <3>1, <3>4, <3>6
  <2> QED BY <2>1, <2>2
<1>8. ASSUME NEW c \in Nat, c + 1 \in 1..(MaxFrames + 1), Scan(p, c + 1), run[p].pc \in Listed,
             cursor' = c, \A n \in chunks : n > c => n \in run[p].list,
             UNCHANGED <<chunks, session>>
      PROVE  /\ up' /\ session # "recording" => \A n \in chunks' : n <= cursor'
             /\ ~up' => Recovers(run[Background])' /\ \A s \in Stops : run'[s] = run[s]
  <2>1. session # "recording" <=> run[p].seal
    BY <1>2, <1>8 DEF Recovers, CallFits, Listed, Cutting, Offering
  <2>2. run[p].list \subseteq chunks
    BY <1>2 DEF CallFits
  <2>3. PICK f \in 1..(MaxFrames + 1) : f = c + 1
    BY <1>8
  <2>4. /\ up' /\ session # "recording" => \A n \in chunks : n <= c
        /\ ~up' => \E q \in Runs :
              /\ Moves(p, q) /\ q.pc \in {"supersede", "drop"} /\ q.first = f
              /\ q.list = run[p].list /\ q.seal = run[p].seal /\ (q.pc = "drop" => ~q.seal)
    BY <1>1, <1>8, <2>1, <2>2, <2>3, ScanRecovers
  <2>5. ASSUME NEW q \in Runs, Moves(p, q), q.pc \in {"supersede", "drop"}, q.first = f,
               q.list = run[p].list, q.seal = run[p].seal, q.pc = "drop" => ~q.seal
        PROVE  Recovers(q)'
    BY <1>8, <2>1, <2>3, <2>5 DEF Recovers, Listed, Cutting, Offering
  <2> QED BY <1>4, <1>5, <1>8, <2>4, <2>5
<1>9. CASE ReadCursor(p)
  <2>1. run[p].pc = "cursor" /\ UNCHANGED <<chunks, cursor, session>>
    BY <1>9 DEF ReadCursor, storeVars
  <2>2. \A c \in run[p].list : c > cursor /\ c \in Nat
    BY <1>2, <1>3, <2>1 DEF Recovers, CallFits
  <2>3. Scan(p, cursor + 1)
    BY <1>3, <1>9, <2>2 DEF ReadCursor
  <2>4. \A n \in chunks : n > cursor => n \in run[p].list
    BY <1>2, <2>1 DEF Recovers, Listed
  <2>5. PICK c \in Nat : c = cursor
    BY <1>3
  <2>6. c + 1 \in 1..(MaxFrames + 1) /\ run[p].pc \in Listed
    BY <1>1, <1>3, <2>1, <2>5 DEF TypeOK, Listed
  <2> QED BY <1>8, <2>1, <2>3, <2>4, <2>5, <2>6
<1>10. CASE RecordWindow(p)
  <2>1. /\ run[p].pc = "record" /\ Scan(p, run[p].last + 1)
        /\ cursor' = IF run[p].last > cursor THEN run[p].last ELSE cursor
        /\ UNCHANGED <<chunks, session>>
    BY <1>10 DEF RecordWindow
  <2>2. run[p].first = cursor + 1 /\ Ends(run[p].first, run[p].last)
    BY <1>2, <2>1 DEF Recovers, CallFits, Cutting, Proper
  <2>3. PICK c \in Nat : c = run[p].last /\ c > cursor /\ c + 1 \in 1..(MaxFrames + 1)
    BY <1>3, <2>2 DEF Ends, Frames
  <2>4. cursor' = c
    BY <2>1, <2>3
  <2>5. \A n \in chunks : n > c => n \in run[p].list
    <3>1. \A n \in chunks : n > cursor => n \in run[p].list
      BY <1>2, <2>1 DEF Recovers, Listed, Cutting
    <3> QED BY <1>3, <2>3, <3>1
  <2>6. run[p].pc \in Listed
    BY <2>1 DEF Listed, Cutting
  <2> QED BY <1>8, <2>1, <2>3, <2>4, <2>5, <2>6
<1>11. ASSUME NEW pc \in Points, Goto(p, pc), UNCHANGED <<chunks, cursor, session, up>>,
              \/ run[p].pc \in Cutting /\ pc \in Cutting
              \/ run[p].pc \in Offering /\ pc \in Offering
       PROVE  ~up' /\ Recovers(run[Background])'
  <2>1. PICK q \in Runs :
            /\ Moves(p, q) /\ q.pc = pc /\ q.seal = run[p].seal /\ q.list = run[p].list
            /\ q.first = run[p].first /\ q.last = run[p].last
    BY <1>1, <1>11, GotoMoves
  <2>2. Recovers(q)'
    BY <1>2, <1>11, <2>1 DEF Recovers, Listed, Cutting, Offering
  <2> QED BY <1>5, <1>11, <2>1, <2>2
<1>12. CASE SupersedePreviews(p)
  BY <1>4, <1>11, <1>12 DEF SupersedePreviews, Points, Cutting
<1>13. CASE EnqueueWindow(p)
  BY <1>4, <1>11, <1>13 DEF EnqueueWindow, Points, Cutting
<1>14. CASE DropPreviews(p)
  BY <1>4, <1>11, <1>14 DEF DropPreviews, Points, Offering
<1>15. CASE EnqueuePreview(p)
  <2>1. up' = TRUE /\ session = "recording"
    BY <1>2, <1>15 DEF EnqueuePreview, Return, Recovers, Offering
  <2> QED BY <2>1
<1> QED BY <1>6, <1>7, <1>9, <1>10, <1>12, <1>13, <1>14, <1>15 DEF Assemble

LEMMA RecoveringKept ==
  ASSUME AssemblyInvariant, Stopping, Recovering, [Next]_vars
  PROVE  Recovering'
<1>1. TypeOK /\ Stops \subseteq Callers /\ Background \in Callers /\ Background \notin Stops
  BY AssemblyAssumption DEF AssemblyInvariant, Callers
<1>2. CASE Crash
  <2>1. run' = [p \in Callers |-> IF p = Background THEN [Rest EXCEPT !.pc = "sources"] ELSE Rest]
    BY <1>2 DEF Crash
  <2>2. \A p \in Stops : run'[p] = Rest
    BY <1>1, <2>1
  <2>3. run'[Background].pc = "sources"
    BY <1>1, <2>1 DEF Rest
  <2>4. Recovers(run[Background])'
    BY <2>3 DEF Recovers, Listed, Cutting, Offering
  <2> QED BY <2>2, <2>4 DEF Recovering
<1>3. CASE up /\ ~Crash
  <2>1. ASSUME Capture \/ EndCapture \/ Receive \/ UNCHANGED vars
        PROVE  UNCHANGED up
    BY <2>1 DEF Capture, EndCapture, Receive, vars
  <2>2. ASSUME NEW n \in Frames, PersistFrame(n)
        PROVE  UNCHANGED up
    BY <2>2 DEF PersistFrame
  <2>3. ASSUME NEW p \in Callers, Assemble(p)
        PROVE  up'
    <3>1. CASE FindPending(p) \/ ListChunks(p) \/ ReadCursor(p) \/ SupersedePreviews(p)
      BY <1>3, <3>1 DEF FindPending, ListChunks, ReadCursor, SupersedePreviews, Scan, Return
    <3>2. CASE EnqueueWindow(p) \/ RecordWindow(p) \/ DropPreviews(p) \/ EnqueuePreview(p)
      BY <1>3, <3>2 DEF EnqueueWindow, RecordWindow, DropPreviews, EnqueuePreview, Scan, Return
    <3> QED BY <2>3, <3>1, <3>2 DEF Assemble
  <2>4. ASSUME NEW p \in Callers, AssemblyFails(p)
        PROVE  UNCHANGED up
    BY <2>4 DEF AssemblyFails
  <2>5. ASSUME NEW p \in Stops, StopBegin(p) \/ StopEnd(p)
        PROVE  UNCHANGED up
    BY <2>5 DEF StopBegin, StopEnd
  <2>6. up'
    BY <1>3, <2>1, <2>2, <2>3, <2>4, <2>5 DEF Next
  <2> QED BY <2>6 DEF Recovering
<1>4. CASE ~up /\ (Capture \/ EndCapture \/ UNCHANGED vars)
  BY <1>4 DEF Capture, EndCapture, vars, storeVars, Recovering, Recovers
<1>5. CASE ~up /\ Assemble(Background)
  BY <1>5, RecoveryStep DEF Recovering
<1> QED BY <1>1, <1>2, <1>3, <1>4, <1>5, StartingSteps


-----------------------------------------------------------------------------
(* Theorems *)

(* The types of the store, of the channel and of the scans.                *)
THEOREM AssemblyTypeCorrect == Spec => []TypeOK
<1>1. AssemblyInvariant => TypeOK
  BY DEF AssemblyInvariant
<1> QED BY <1>1, AssemblyHolds, PTL

(* A frame the recorder has dropped from its outbox is durable             *)
(* (persist_frame).                                                        *)
THEOREM AcknowledgedFramesAreDurable == Spec => []AckedIsDurable
<1>1. AssemblyInvariant => AckedIsDurable
  BY DEF AssemblyInvariant, Received
<1> QED BY <1>1, AssemblyHolds, PTL

(* The windows cover the stored frames up to the cursor, each once,        *)
(* although callers of assemble_source read list and cursor apart.         *)
THEOREM WindowsTileTheAudio == Spec => []WindowsTile
<1>1. AssemblyInvariant => WindowsTile
  BY DEF AssemblyInvariant, Tiled
<1> QED BY <1>1, AssemblyHolds, PTL

(* No audio has two recognition jobs: a repeated window is the same window *)
(* and so the same key (assemble_source).                                  *)
THEOREM AudioIsTranscribedOnce == Spec => []TranscribedOnce
<1>1. ASSUME AssemblyInvariant
      PROVE  TranscribedOnce
  <2>1. TypeOK /\ Received /\ WindowsTile /\ windows \subseteq stable
    BY <1>1 DEF AssemblyInvariant, Tiled, JobsProper
  <2>2. MaxFrames \in Nat /\ captured \in Nat /\ cursor \in Nat
    BY <2>1, RestTyped DEF TypeOK
  <2>3. ASSUME NEW w \in stable
        PROVE  /\ w[1] \in Frames /\ w[2] \in Frames /\ w[1] <= w[2] /\ w = <<w[1], w[2]>>
               /\ Ends(w[1], w[2]) /\ w[1] - 1 <= cursor
               /\ w[1] <= cursor => w \in windows
    <3>1. Proper(w[1], w[2]) /\ w \in Windows
      BY <1>1, <2>1 DEF AssemblyInvariant, JobsProper, TypeOK
    <3>2. /\ w[1] \in Frames /\ w[2] \in Frames /\ w[1] <= w[2] /\ w = <<w[1], w[2]>>
          /\ w[1] - 1 \in Nat
      BY <2>2, <3>1 DEF Windows, Frames
    <3>3. w[1] - 1 <= cursor
      BY <2>1, <3>1, <3>2, CutBelow DEF Proper
    <3>4. ASSUME w[1] <= cursor
          PROVE  w \in windows
      <4>1. PICK v \in windows : v[1] = w[1]
        BY <2>1, <3>1, <3>2, <3>4, CutStarts DEF Proper
      <4>2. Proper(v[1], v[2]) /\ v = <<v[1], v[2]>>
        BY <1>1, <2>1, <4>1, WindowTyped DEF AssemblyInvariant, JobsProper
      <4>3. v[2] = w[2]
        BY <2>1, <2>2, <3>1, <4>1, <4>2, SameEnd DEF Proper
      <4> QED BY <3>2, <4>1, <4>2, <4>3
    <3> QED BY <3>1, <3>2, <3>3, <3>4 DEF Proper
  <2>4. ASSUME NEW v \in stable, NEW w \in stable, v # w, v[1] <= w[1]
        PROVE  Span(v) \cap Span(w) = {}
    <3>1. CASE w[1] <= cursor
      <4>1. v \in windows /\ w \in windows
        BY <2>2, <2>3, <2>4, <3>1 DEF Frames
      <4> QED BY <2>1, <2>4, <4>1 DEF WindowsTile
    <3>2. CASE w[1] > cursor /\ v[1] <= cursor
      <4>1. v \in windows
        BY <2>3, <3>2
      <4>2. \A n \in Span(v) : n <= cursor
        BY <2>1, <2>2, <2>3, <4>1 DEF WindowsTile, Span, Frames
      <4> QED BY <2>2, <2>3, <3>2, <4>2 DEF Span, Frames
    <3>3. CASE w[1] > cursor /\ v[1] > cursor
      <4>1. v[1] = w[1]
        BY <2>2, <2>3, <3>3 DEF Frames
      <4>2. v[2] = w[2]
        BY <2>1, <2>2, <2>3, <4>1, SameEnd
      <4> QED BY <2>3, <2>4, <4>1, <4>2
    <3> QED BY <2>2, <2>3, <3>1, <3>2, <3>3 DEF Frames
  <2>5. ASSUME NEW v \in stable, NEW w \in stable, v # w
        PROVE  Span(v) \cap Span(w) = {}
    <3>1. v[1] <= w[1] \/ w[1] <= v[1]
      BY <2>2, <2>3 DEF Frames
    <3> QED BY <2>4, <2>5, <3>1
  <2> QED BY <2>1, <2>5 DEF TranscribedOnce
<1> QED BY <1>1, AssemblyHolds, PTL

(* Before a restarted process serves a request it has cut the audio of a   *)
(* session that had left capture to its last frame                         *)
(* (recover_audio_assembly).                                               *)
THEOREM RecoverySealsTheTail == Spec => RecoverySealsTail
<1>1. Init => Recovering
  BY DEF Init, Recovering
<1>2. (AssemblyInvariant /\ Stopping) /\ Recovering /\ [Next]_vars => Recovering'
  BY RecoveringKept
<1>3. Spec => []Recovering
  BY <1>1, <1>2, AssemblyHolds, PTL DEF Spec
<1>4. ASSUME AssemblyInvariant, Stopping, Recovering, [Next]_vars, ~up, up',
             session # "recording"
      PROVE  Unsealed' = {}
  <2>1. Assemble(Background)
    <3>1. ~Capture /\ ~EndCapture /\ ~(UNCHANGED vars) /\ ~Crash
      BY <1>4 DEF Capture, EndCapture, vars, Crash
    <3> QED BY <1>4, <3>1, StartingSteps DEF AssemblyInvariant
  <2>2. \A n \in chunks' : n <= cursor'
    BY <1>4, <2>1, RecoveryStep
  <2>3. TypeOK' /\ WindowsTile'
    BY <1>4, AssemblyStep DEF AssemblyInvariant, Tiled
  <2>4. \A n \in chunks' : \E w \in windows' : n \in Span(w)
    BY <2>2, <2>3 DEF TypeOK, WindowsTile
  <2> QED BY <2>4 DEF Unsealed
<1>5. (AssemblyInvariant /\ Stopping) /\ Recovering /\ [Next]_vars
        => (~up /\ up' /\ session # "recording" => Unsealed' = {})
  BY <1>4
<1> QED BY <1>3, <1>5, AssemblyHolds, PTL DEF Spec, RecoverySealsTail

-----------------------------------------------------------------------------
(* The promise of the assembly *)

(* Below the cursor all windows have their job already, and above it there *)
(* is one place to begin: a job that is new begins after all others.       *)
LEMMA NewJobIsLast ==
  ASSUME AssemblyInvariant, NEW f, NEW l, Proper(f, l), <<f, l>> \notin stable,
         NEW v \in stable
  PROVE  v[2] \in Nat /\ v[2] < f
<1>1. TypeOK /\ Received /\ WindowsTile /\ windows \subseteq stable
  BY DEF AssemblyInvariant, Tiled, JobsProper
<1>2. captured \in Nat /\ cursor \in Nat
  BY <1>1, RestTyped DEF TypeOK
<1>3. ASSUME NEW g, NEW m, Proper(g, m)
      PROVE  /\ g \in Frames /\ g \in Nat /\ m \in Nat /\ g >= 1 /\ g <= m /\ Ends(g, m)
             /\ Cut(g - 1) /\ g <= cursor + 1
  <2>1. g \in Frames /\ m \in Frames /\ g <= m /\ Ends(g, m) /\ Cut(g - 1)
    BY <1>3 DEF Proper, Ends
  <2>2. g \in Nat /\ m \in Nat /\ g >= 1 /\ g - 1 \in Nat
    BY <2>1, RestTyped DEF Frames
  <2>3. g - 1 <= cursor
    BY <1>1, <2>1, <2>2, CutBelow
  <2> QED BY <1>2, <2>1, <2>2, <2>3
<1>4. ASSUME NEW g, NEW m, Proper(g, m), g <= cursor
      PROVE  <<g, m>> \in windows
  <2>1. PICK w \in windows : w[1] = g
    BY <1>1, <1>3, <1>4, CutStarts
  <2>2. w = <<w[1], w[2]>> /\ Ends(w[1], w[2])
    BY <1>1, <2>1, WindowTyped DEF AssemblyInvariant, JobsProper, Proper
  <2>3. w[2] = m
    BY <1>1, <1>2, <1>3, <1>4, <2>1, <2>2, SameEnd
  <2> QED BY <2>1, <2>2, <2>3
<1>5. PICK g, m : g = v[1] /\ m = v[2]
  OBVIOUS
<1>6. v = <<g, m>> /\ Proper(g, m)
  <2>1. v \in Frames \X Frames
    BY <1>1 DEF TypeOK, Windows
  <2> QED BY <1>5, <2>1 DEF AssemblyInvariant, JobsProper
<1>7. f = cursor + 1
  <2>1. ~(f <= cursor)
    BY <1>1, <1>4
  <2> QED BY <1>2, <1>3, <2>1
<1>8. m <= cursor
  <2>1. CASE g <= cursor
    <3>1. v \in windows /\ m \in Span(v) /\ m \in Frames
      BY <1>1, <1>4, <1>5, <1>6, <2>1, WindowTyped
    <3> QED BY <1>1, <3>1 DEF WindowsTile
  <2>2. CASE ~(g <= cursor)
    <3>1. g = f
      BY <1>2, <1>3, <1>6, <1>7, <2>2
    <3>2. m = l
      BY <1>1, <1>2, <1>3, <1>6, <3>1, SameEnd
    <3> QED BY <1>6, <3>1, <3>2
  <2> QED BY <2>1, <2>2
<1> QED BY <1>2, <1>3, <1>5, <1>6, <1>7, <1>8

LEMMA EnqueueHears ==
  ASSUME AssemblyInvariant, NEW p \in Callers, EnqueueWindow(p)
  PROVE  Heard!Hear \/ UNCHANGED Heard!vars
<1>1. PICK f, l : f = run[p].first /\ l = run[p].last
  OBVIOUS
<1>2. /\ Proper(f, l) /\ stable' = stable \cup {<<f, l>>}
      /\ UNCHANGED <<captured, ended, chunks>>
  BY <1>1 DEF AssemblyInvariant, CallersFit, CallFits, Cutting, EnqueueWindow, recorderVars
<1>3. CASE <<f, l>> \in stable
  BY <1>2, <1>3 DEF Heard!vars
<1>4. CASE <<f, l>> \notin stable
  <2>1. f \in Nat /\ l \in Nat /\ f >= 1 /\ f <= l /\ f..l \subseteq chunks
    BY <1>2, RestTyped DEF Proper, Ends, Frames
  <2>2. f \in 1..captured /\ l \in 1..captured
    <3>1. f \in f..l /\ l \in f..l
      BY <2>1
    <3> QED BY <2>1, <3>1 DEF AssemblyInvariant, Received
  <2>3. f = 1 \/ \E j \in stable : j[2] = f - 1
    <3>1. f - 1 = 0 => f = 1
      BY <2>1
    <3> QED BY <1>2, <3>1 DEF Proper, Cut, AssemblyInvariant, JobsProper
  <2>4. \A j \in stable : j[2] < f
    BY <1>2, <1>4, NewJobIsLast
  <2> QED BY <1>2, <2>1, <2>2, <2>3, <2>4 DEF Heard!Hear
<1> QED BY <1>3, <1>4

LEMMA HearingStep ==
  ASSUME AssemblyInvariant, [Next]_vars
  PROVE  [Heard!Next]_(Heard!vars)
<1>1. CASE Capture
  BY <1>1 DEF Capture, storeVars, Heard!Next, Heard!Capture
<1>2. CASE EndCapture
  BY <1>2 DEF EndCapture, storeVars, Heard!Next, Heard!End
<1>3. ASSUME NEW n \in Frames, PersistFrame(n)
      PROVE  Heard!Next
  BY <1>3 DEF PersistFrame, Heard!Next, Heard!Store
<1>4. ASSUME NEW p \in Callers, Assemble(p)
      PROVE  Heard!Next \/ UNCHANGED Heard!vars
  <2>1. CASE EnqueueWindow(p)
    BY <2>1, EnqueueHears DEF Heard!Next
  <2>2. CASE FindPending(p) \/ ListChunks(p) \/ ReadCursor(p)
    BY <2>2 DEF FindPending, ListChunks, ReadCursor, recorderVars, storeVars, Heard!vars
  <2>3. CASE SupersedePreviews(p) \/ RecordWindow(p)
    BY <2>3 DEF SupersedePreviews, RecordWindow, recorderVars, Heard!vars
  <2>4. CASE DropPreviews(p) \/ EnqueuePreview(p)
    BY <2>4 DEF DropPreviews, EnqueuePreview, recorderVars, Heard!vars
  <2> QED BY <1>4, <2>1, <2>2, <2>3, <2>4 DEF Assemble
<1>5. ASSUME NEW p \in Callers, AssemblyFails(p)
      PROVE  UNCHANGED Heard!vars
  BY <1>5 DEF AssemblyFails, recorderVars, storeVars, Heard!vars
<1>6. ASSUME NEW p \in Stops, StopBegin(p) \/ StopEnd(p)
      PROVE  UNCHANGED Heard!vars
  BY <1>6 DEF StopBegin, StopEnd, recorderVars, storeVars, Heard!vars
<1>7. CASE Receive \/ Crash \/ UNCHANGED vars
  BY <1>7 DEF Receive, Crash, vars, recorderVars, storeVars, Heard!vars
<1> QED BY <1>1, <1>2, <1>3, <1>4, <1>5, <1>6, <1>7 DEF Next, Heard!Next

(* The assembly implements its promise: recognition is given the recording *)
(* in order, without a gap and each frame once (assemble_source), for any  *)
(* callers, faults and window lengths.                                     *)
THEOREM AssemblyHearsInOrder == Spec => ImplementsHearing
<1>1. Init => Heard!Init
  BY DEF Init, Heard!Init
<1>2. AssemblyInvariant /\ [Next]_vars => [Heard!Next]_(Heard!vars)
  BY HearingStep
<1> QED BY <1>1, <1>2, AssemblyHolds, PTL DEF Spec, ImplementsHearing, Heard!Spec

-----------------------------------------------------------------------------
(* Previews *)

(* A queued preview is of stored frames from a cut on, among which no      *)
(* window closes.                                                          *)
PreviewFits(v) ==
  /\ Span(v) \subseteq chunks /\ Cut(v[1] - 1)
  /\ \A m \in Span(v) : ~Closes(v[1], m)

(* What the background task relies on for a preview v of an earlier scan:  *)
(* its list holds the frames of v, or begins after them, and its place is  *)
(* not before v; the one preview left when it adds its own is the same.    *)
Waits(q, v) ==
  /\ q.pc \in Listed => \A m \in Span(v) : m \in q.list \/ \A c \in q.list : m < c
  /\ q.pc \in Cutting \cup Offering => v[1] <= q.first
  /\ q.pc = "preview" => v = <<q.first, q.last>>
OfferFits(q) ==
  q.pc \in Offering => OpenAt(q.list, q.first, q.last) /\ Cut(q.first - 1)
QueueFits ==
  /\ OnePreviewQueued /\ OfferFits(run[Background])
  /\ \A v \in queued : PreviewFits(v) /\ Waits(run[Background], v)

(* A stop seals, and has listed every frame up to the last: no frame       *)
(* follows the tail, so a stop never offers a preview.                     *)
StopFits(q) ==
  /\ q.pc \notin Offering /\ (q.pc \notin {"idle", "flushed"} => q.seal)
  /\ q.pc \in Listed => \A a \in q.list : a..captured \subseteq q.list
StopsFit == \A p \in Stops : StopFits(run[p])

StoreGrows == windows \subseteq windows' /\ chunks \subseteq chunks'

(* Whatever the background task has come to be, the queue fits when that   *)
(* does: jobs only leave the queue.                                        *)
LEMMA QueueKept ==
  ASSUME QueueFits, StoreGrows, queued' \subseteq queued, NEW q, run'[Background] = q,
         OfferFits(q)', \A v \in queued' : Waits(q, v)
  PROVE  QueueFits'
<1>1. \A v \in queued' : PreviewFits(v)'
  BY DEF QueueFits, PreviewFits, Cut, StoreGrows
<1>2. OnePreviewQueued'
  BY DEF QueueFits, OnePreviewQueued
<1>3. \A v \in queued' : Waits(run[Background], v)'
  BY DEF Waits
<1>4. OfferFits(run[Background])'
  BY DEF OfferFits
<1> QED BY <1>1, <1>2, <1>3, <1>4 DEF QueueFits

LEMMA QueueStays ==
  ASSUME QueueFits, StoreGrows, queued' \subseteq queued, run'[Background] = run[Background]
  PROVE  QueueFits'
<1>1. PICK q : q = run[Background]
  OBVIOUS
<1>2. OfferFits(q)'
  BY <1>1 DEF QueueFits, OfferFits, Cut, StoreGrows
<1>3. \A v \in queued' : Waits(q, v)
  BY <1>1 DEF QueueFits
<1> QED BY <1>1, <1>2, <1>3, QueueKept

LEMMA QueueRests ==
  ASSUME QueueFits, StoreGrows, queued' \subseteq queued, run'[Background].pc \notin Listed
  PROVE  QueueFits'
<1>1. PICK q : q = run'[Background]
  OBVIOUS
<1>2. q.pc \notin Listed \cup Cutting \cup Offering \cup {"preview"}
  BY <1>1 DEF Listed, Offering
<1>3. OfferFits(q)' /\ \A v : Waits(q, v)
  BY <1>2 DEF OfferFits, Waits
<1> QED BY <1>1, <1>3, QueueKept

(* A scan of the background task goes on from a place that is not before   *)
(* the queued preview.                                                     *)
LEMMA ScanWaits ==
  ASSUME TypeOK, QueueFits, StoreGrows, queued' = queued, Background \in Callers,
         NEW f \in 1..(MaxFrames + 1), Cut(f - 1)', Scan(Background, f),
         run[Background].pc \in Listed, \A v \in queued : v[1] <= f
  PROVE  QueueFits'
<1>1. PICK q \in Runs :
        /\ Moves(Background, q)
        /\ \/ \E l \in Frames : Cuts(Background, f, l, q)
           \/ \E l \in Frames : Offers(Background, f, l, q)
           \/ Stays(Background, f, q)
  BY ScanMoves
<1>2. run'[Background] = q
  BY <1>1, RunsTyped DEF Moves
<1>3. \A v \in queued : \A m \in Span(v) :
        m \in run[Background].list \/ \A c \in run[Background].list : m < c
  BY DEF QueueFits, Waits
<1>4. ASSUME NEW l \in Frames, Cuts(Background, f, l, q)
      PROVE  QueueFits'
  <2>1. q.pc = "supersede" /\ q.first = f /\ q.list = run[Background].list
    BY <1>4 DEF Cuts
  <2>2. OfferFits(q)' /\ \A v \in queued : Waits(q, v)
    BY <1>3, <2>1 DEF OfferFits, Waits, Offering
  <2> QED BY <1>2, <2>2, QueueKept
<1>5. ASSUME NEW l \in Frames, Offers(Background, f, l, q)
      PROVE  QueueFits'
  <2>1. /\ q.pc = "drop" /\ q.first = f /\ q.last = l /\ q.list = run[Background].list
        /\ OpenAt(q.list, f, l)
    BY <1>5 DEF Offers
  <2>2. OfferFits(q)'
    BY <2>1 DEF OfferFits
  <2>3. \A v \in queued : Waits(q, v)
    BY <1>3, <2>1 DEF Waits
  <2> QED BY <1>2, <2>2, <2>3, QueueKept
<1>6. CASE Stays(Background, f, q)
  <2>1. q.pc = "idle"
    BY <1>6 DEF Stays, Back, Rest
  <2> QED BY <1>2, <2>1, QueueRests DEF Listed, Cutting, Offering
<1> QED BY <1>1, <1>4, <1>5, <1>6

(* A queued preview that is not older than the one about to be offered is  *)
(* the same: no window closes in it, so none was cut within it since, and  *)
(* the list ends where it ends.                                            *)
LEMMA Outlived ==
  ASSUME AssemblyInvariant, QueueFits, run[Background].pc = "drop", Background \in Callers,
         NEW v \in queued, v[2] >= run[Background].last
  PROVE  v = <<run[Background].first, run[Background].last>>
<1>1. PICK q \in Runs : q = run[Background]
  BY RunsTyped DEF AssemblyInvariant
<1>2. PICK f, l : f = q.first /\ l = q.last
  OBVIOUS
<1>3. PICK g, h : g = v[1] /\ h = v[2]
  OBVIOUS
<1>4. /\ v = <<g, h>> /\ g \in Frames /\ h \in Frames /\ g <= h
      /\ TypeOK /\ Received /\ JobsProper /\ WindowsTile
  BY <1>3 DEF AssemblyInvariant, Tiled, TypeOK, Windows
<1>5. /\ <<f, l>> \in Windows /\ OpenAt(q.list, f, l) /\ Cut(f - 1) /\ g <= f
      /\ \A m \in g..h : m \in q.list \/ \A c \in q.list : m < c
      /\ \A m \in g..h : ~Closes(g, m) /\ m \in chunks
      /\ Cut(g - 1)
  BY <1>1, <1>2, <1>3
  DEF AssemblyInvariant, CallersFit, CallFits, QueueFits, OfferFits, Waits, PreviewFits, Span,
      Offering, Listed
<1>6. /\ f \in Frames /\ l \in Frames /\ f <= l /\ h >= l
      /\ MaxFrames \in Nat /\ cursor \in Nat /\ captured \in Nat
  BY <1>1, <1>2, <1>3, <1>4, <1>5, RestTyped DEF Windows, TypeOK
<1>7. /\ f \in Nat /\ l \in Nat /\ g \in Nat /\ h \in Nat /\ f >= 1 /\ g >= 1
  BY <1>4, <1>6 DEF Frames
<1>8. l \in q.list /\ l + 1 \notin q.list
  BY <1>5, <1>7, <1>6 DEF OpenAt, Grows
<1>9. CASE f = g
  <2>1. ASSUME h > l
        PROVE  FALSE
    <3>1. l + 1 \in g..h
      BY <1>6, <1>7, <1>9, <2>1
    <3>2. l + 1 < l
      BY <1>5, <1>8, <3>1
    <3> QED BY <1>7, <3>2
  <2>2. h = l
    BY <1>6, <1>7, <2>1
  <2> QED BY <1>1, <1>2, <1>4, <1>9, <2>2
<1>10. CASE g < f
  <2>1. f - 1 \in Nat /\ f - 1 # 0 /\ g <= f - 1
    BY <1>7, <1>10
  <2>2. g <= cursor
    <3>1. f - 1 <= cursor
      BY <1>4, <1>5, <2>1, CutBelow
    <3> QED BY <1>6, <1>7, <2>1, <3>1
  <2>3. PICK w \in windows : w[1] = g
    BY <1>4, <1>5, <2>2, CutStarts
  <2>4. PICK e : e = w[2]
    OBVIOUS
  <2>5. Ends(g, e) /\ e \in Nat /\ g <= e /\ w[1] \in Nat
    BY <1>4, <2>3, <2>4, WindowTyped DEF JobsProper, Proper
  <2>6. e <= f - 1
    <3>1. PICK u \in windows : u[2] = f - 1
      BY <1>5, <2>1 DEF Cut
    <3>2. f - 1 \in Span(u)
      BY <1>4, <3>1, WindowTyped
    <3>3. ASSUME e > f - 1
          PROVE  FALSE
      <4>1. f - 1 \in Span(w)
        BY <2>1, <2>3, <2>4, <2>5, <3>3, <1>7 DEF Span
      <4>2. u = w
        BY <1>4, <3>2, <4>1 DEF WindowsTile
      <4> QED BY <1>7, <2>4, <2>5, <3>1, <3>3, <4>2
    <3> QED BY <1>7, <2>5, <3>3
  <2>7. h <= e
    <3>1. CASE FirstClose(g, e)
      <4>1. e \notin g..h
        BY <1>5, <3>1 DEF FirstClose
      <4> QED BY <1>7, <2>5, <4>1
    <3>2. CASE Final(g, e)
      <4>1. h \in 1..captured
        BY <1>4, <1>5, <1>7 DEF Received
      <4> QED BY <1>6, <3>2, <4>1 DEF Final
    <3> QED BY <2>5, <3>1, <3>2 DEF Ends
  <2> QED BY <1>6, <1>7, <2>5, <2>6, <2>7
<1> QED BY <1>5, <1>7, <1>9, <1>10

LEMMA BackgroundReads ==
  ASSUME AssemblyInvariant, QueueFits, Background \in Callers,
         FindPending(Background) \/ ListChunks(Background) \/ ReadCursor(Background)
  PROVE  QueueFits'
<1>1. /\ TypeOK /\ Tiled /\ UNCHANGED <<windows, chunks, queued>> /\ StoreGrows
      /\ run \in [Callers -> Runs]
  BY RunsTyped
  DEF AssemblyInvariant, FindPending, ListChunks, ReadCursor, storeVars, StoreGrows
<1>2. CASE Return(Background)
  <2>1. run'[Background].pc = "idle"
    BY <1>1, <1>2 DEF Return, Rest
  <2> QED BY <1>1, <2>1, QueueRests DEF Listed, Cutting, Offering
<1>3. CASE FindPending(Background) /\ ~Return(Background)
  <2>1. run'[Background].pc = "list"
    BY <1>1, <1>3 DEF FindPending, Runs
  <2> QED BY <1>1, <2>1, QueueRests DEF Listed, Cutting, Offering
<1>4. CASE ListChunks(Background) /\ ~Return(Background)
  <2> DEFINE list == {c \in chunks : c > cursor}
  <2>1. run' = [run EXCEPT ![Background].list = list, ![Background].pc = "cursor"]
    BY <1>4 DEF ListChunks
  <2> HIDE DEF list
  <2>2. PICK q : q = run'[Background]
    OBVIOUS
  <2>3. q.pc = "cursor" /\ q.list = list
    BY <1>1, <2>1, <2>2 DEF Runs
  <2>4. ASSUME NEW v \in queued, NEW m \in Span(v), m \notin list
        PROVE  \A c \in list : m < c
    <3>1. m \in chunks /\ cursor \in Nat /\ \A c \in chunks : c \in Nat
      BY <1>1, <2>4, RestTyped DEF QueueFits, PreviewFits, TypeOK, Frames
    <3>2. m <= cursor
      BY <2>4, <3>1 DEF list
    <3> QED BY <3>1, <3>2 DEF list
  <2>5. \A v \in queued : Waits(q, v)
    BY <2>3, <2>4 DEF Waits, Cutting, Offering
  <2>6. OfferFits(q)'
    BY <2>3 DEF OfferFits, Offering
  <2> QED BY <1>1, <2>2, <2>5, <2>6, QueueKept
<1>5. CASE ReadCursor(Background) /\ ~Return(Background)
  <2>1. Scan(Background, cursor + 1) /\ run[Background].pc \in Listed
    BY <1>5 DEF ReadCursor, Listed
  <2>2. PICK f \in 1..(MaxFrames + 1) : f = cursor + 1 /\ f - 1 = cursor
    BY <1>1, RestTyped DEF TypeOK
  <2>3. Cut(f - 1)'
    BY <1>1, <2>2 DEF Tiled, Cut
  <2>4. ASSUME NEW v \in queued
        PROVE  v[1] <= f
    <3>1. Cut(v[1] - 1) /\ v[1] - 1 \in Nat /\ v[1] \in Nat /\ cursor \in Nat
      BY <1>1, RestTyped DEF QueueFits, PreviewFits, TypeOK, Windows, Frames
    <3>2. v[1] - 1 <= cursor
      BY <1>1, <3>1, CutBelow DEF Tiled
    <3> QED BY <2>2, <3>1, <3>2
  <2> QED BY <1>1, <2>1, <2>2, <2>3, <2>4, ScanWaits
<1> QED BY <1>2, <1>3, <1>4, <1>5

LEMMA BackgroundRecords ==
  ASSUME AssemblyInvariant, QueueFits, Background \in Callers, RecordWindow(Background)
  PROVE  QueueFits'
<1>1. TypeOK /\ run[Background] \in Runs /\ CallFits(run[Background])
  BY RunsTyped DEF AssemblyInvariant, CallersFit
<1>2. PICK f \in Frames, l \in Frames :
        f = run[Background].first /\ l = run[Background].last /\ f <= l
  BY <1>1 DEF RecordWindow, CallFits, Cutting, Proper, Ends
<1>3. /\ windows' = windows \cup {<<f, l>>} /\ UNCHANGED <<chunks, queued>>
      /\ Scan(Background, l + 1) /\ run[Background].pc = "record"
  BY <1>2 DEF RecordWindow
<1>4. StoreGrows /\ run[Background].pc \in Listed \cap Cutting
  BY <1>3 DEF StoreGrows, Listed, Cutting
<1>5. PICK n \in 1..(MaxFrames + 1) : n = l + 1 /\ n - 1 = l /\ f <= n /\ f \in Nat /\ n \in Nat
  <2>1. MaxFrames \in Nat /\ f \in 1..MaxFrames /\ l \in 1..MaxFrames /\ f <= l
    BY <1>2, RestTyped DEF Frames
  <2>2. l + 1 \in 1..(MaxFrames + 1) /\ (l + 1) - 1 = l /\ f <= l + 1 /\ f \in Nat /\ l + 1 \in Nat
    BY <2>1
  <2> QED BY <2>2
<1>6. Cut(n - 1)'
  <2>1. <<f, l>> \in windows' /\ <<f, l>>[2] = n - 1
    BY <1>3, <1>5
  <2> QED BY <2>1 DEF Cut
<1>7. ASSUME NEW v \in queued
      PROVE  v[1] <= n
  <2>1. v[1] <= f /\ v[1] \in Nat
    BY <1>1, <1>2, <1>4, RestTyped DEF QueueFits, Waits, TypeOK, Windows, Frames
  <2> QED BY <1>5, <2>1
<1> QED BY <1>1, <1>3, <1>4, <1>5, <1>6, <1>7, ScanWaits

LEMMA BackgroundWrites ==
  ASSUME AssemblyInvariant, QueueFits, Background \in Callers,
         \/ SupersedePreviews(Background) \/ EnqueueWindow(Background)
         \/ DropPreviews(Background) \/ EnqueuePreview(Background)
  PROVE  QueueFits'
<1>1. TypeOK /\ run \in [Callers -> Runs] /\ run[Background] \in Runs
      /\ UNCHANGED <<windows, chunks>> /\ StoreGrows
  BY RunsTyped
  DEF AssemblyInvariant, SupersedePreviews, EnqueueWindow, DropPreviews, EnqueuePreview, StoreGrows
<1>2. PICK q : q = run[Background]
  OBVIOUS
<1>3. CASE SupersedePreviews(Background) \/ EnqueueWindow(Background)
  <2>1. PICK pc \in {"enqueue", "record"} : Goto(Background, pc) /\ queued' \subseteq queued
                                            /\ q.pc \in Cutting
    BY <1>2, <1>3 DEF SupersedePreviews, EnqueueWindow, Cutting
  <2>2. PICK r \in Runs :
          /\ Moves(Background, r) /\ r.pc = pc /\ r.list = q.list /\ r.first = q.first
    BY <1>1, <1>2, <2>1, GotoMoves DEF Points
  <2>3. run'[Background] = r
    BY <1>1, <2>2 DEF Moves
  <2>4. OfferFits(r)' /\ \A v \in queued : Waits(r, v)
    BY <1>2, <2>1, <2>2 DEF OfferFits, Waits, QueueFits, Listed, Cutting, Offering
  <2> QED BY <1>1, <2>1, <2>3, <2>4, QueueKept
<1>4. CASE DropPreviews(Background)
  <2>1. /\ q.pc = "drop" /\ queued' = {v \in queued : v[2] >= q.last}
        /\ Goto(Background, "preview")
    BY <1>2, <1>4 DEF DropPreviews
  <2>2. PICK r \in Runs :
          /\ Moves(Background, r) /\ r.pc = "preview" /\ r.list = q.list
          /\ r.first = q.first /\ r.last = q.last
    BY <1>1, <1>2, <2>1, GotoMoves DEF Points
  <2>3. run'[Background] = r
    BY <1>1, <2>2 DEF Moves
  <2>4. OfferFits(r)'
    BY <1>1, <1>2, <2>1, <2>2 DEF OfferFits, QueueFits, Cut, Offering
  <2>5. ASSUME NEW v \in queued'
        PROVE  Waits(r, v)
    <3>1. v \in queued /\ v = <<q.first, q.last>>
      BY <1>2, <2>1, <2>5, Outlived
    <3> QED BY <1>2, <2>1, <2>2, <3>1 DEF Waits, QueueFits, Listed, Cutting, Offering
  <2> QED BY <1>1, <2>1, <2>3, <2>4, <2>5, QueueKept
<1>5. CASE EnqueuePreview(Background)
  <2>1. /\ q.pc = "preview" /\ Return(Background)
        /\ queued' \subseteq queued \cup {<<q.first, q.last>>}
    BY <1>2, <1>5 DEF EnqueuePreview
  <2>2. \A v \in queued' : v = <<q.first, q.last>>
    BY <1>2, <2>1 DEF QueueFits, Waits
  <2>3. run'[Background].pc = "idle"
    BY <1>1, <2>1 DEF Return, Rest
  <2>4. OpenAt(q.list, q.first, q.last) /\ Cut(q.first - 1) /\ q.list \subseteq chunks
    BY <1>2, <2>1 DEF QueueFits, OfferFits, Offering, AssemblyInvariant, CallersFit, CallFits
  <2>5. PreviewFits(<<q.first, q.last>>)'
    <3>1. /\ q.first..q.last \subseteq chunks'
          /\ \A m \in q.first..q.last : ~Closes(q.first, m)
      BY <1>1, <2>4 DEF OpenAt, Grows
    <3>2. Cut(q.first - 1)'
      BY <1>1, <2>4 DEF Cut
    <3> QED BY <3>1, <3>2 DEF PreviewFits, Span
  <2>6. PICK r : r = run'[Background]
    OBVIOUS
  <2>7. OfferFits(r)' /\ \A v : Waits(r, v)
    BY <2>3, <2>6 DEF OfferFits, Waits, Listed, Cutting, Offering
  <2>8. OfferFits(run[Background])' /\ \A v \in queued' : Waits(run[Background], v)'
    BY <2>6, <2>7 DEF OfferFits, Waits
  <2>9. \A v \in queued' : PreviewFits(v)'
    BY <2>2, <2>5
  <2>10. OnePreviewQueued'
    BY <2>2 DEF OnePreviewQueued
  <2> QED BY <2>8, <2>9, <2>10 DEF QueueFits
<1> QED BY <1>3, <1>4, <1>5

(* Nobody else adds a preview.                                             *)
LEMMA QueueStep ==
  ASSUME AssemblyInvariant, QueueFits, StopsFit, [Next]_vars
  PROVE  QueueFits'
<1>1. /\ Background \in Callers /\ Background \notin Stops /\ Stops \subseteq Callers
      /\ run \in [Callers -> Runs]
  BY AssemblyAssumption, RunsTyped DEF Callers, AssemblyInvariant
<1>2. CASE Assemble(Background)
  BY <1>1, <1>2, BackgroundReads, BackgroundRecords, BackgroundWrites DEF Assemble
<1>3. ASSUME NEW p \in Stops, Assemble(p)
      PROVE  QueueFits'
  <2>1. run'[Background] = run[Background] /\ run[p].pc \notin Offering
    BY <1>1, <1>3, OthersStay DEF StopsFit, StopFits
  <2>2. queued' \subseteq queued /\ StoreGrows
    <3>1. CASE FindPending(p) \/ ListChunks(p) \/ ReadCursor(p)
      BY <3>1 DEF FindPending, ListChunks, ReadCursor, storeVars, StoreGrows
    <3>2. CASE SupersedePreviews(p) \/ EnqueueWindow(p) \/ RecordWindow(p) \/ DropPreviews(p)
      BY <3>2 DEF SupersedePreviews, EnqueueWindow, RecordWindow, DropPreviews, StoreGrows
    <3>3. ~EnqueuePreview(p)
      BY <2>1 DEF EnqueuePreview, Offering
    <3> QED BY <1>3, <3>1, <3>2, <3>3 DEF Assemble
  <2> QED BY <2>1, <2>2, QueueStays
<1>4. ASSUME NEW p \in Callers, AssemblyFails(p)
      PROVE  QueueFits'
  <2>1. UNCHANGED <<queued, windows, chunks>> /\ StoreGrows
    BY <1>4 DEF AssemblyFails, storeVars, StoreGrows
  <2>2. CASE p = Background
    <3>1. run'[Background].pc = "idle"
      BY <1>1, <1>4, <2>2 DEF AssemblyFails, Rest
    <3> QED BY <2>1, <3>1, QueueRests DEF Listed, Cutting, Offering
  <2>3. CASE p # Background
    <3>1. run'[Background] = run[Background]
      BY <1>1, <1>4, <2>3 DEF AssemblyFails
    <3> QED BY <2>1, <3>1, QueueStays
  <2> QED BY <2>2, <2>3
<1>5. CASE Receive
  <2>1. UNCHANGED <<queued, windows, chunks>> /\ StoreGrows
    BY <1>5 DEF Receive, storeVars, StoreGrows
  <2>2. run'[Background].pc \in {"sources", "list"}
    BY <1>1, <1>5 DEF Receive, Goto, Runs
  <2> QED BY <2>1, <2>2, QueueRests DEF Listed, Cutting, Offering
<1>6. CASE Crash
  <2>1. UNCHANGED <<queued, windows, chunks>> /\ StoreGrows
    BY <1>6 DEF Crash, storeVars, StoreGrows
  <2>2. run'[Background].pc = "sources"
    BY <1>1, <1>6 DEF Crash, Rest
  <2> QED BY <2>1, <2>2, QueueRests DEF Listed, Cutting, Offering
<1>7. ASSUME NEW p \in Stops, StopBegin(p) \/ StopEnd(p)
      PROVE  QueueFits'
  <2>1. UNCHANGED <<queued, windows, chunks>> /\ StoreGrows
    BY <1>7 DEF StopBegin, StopEnd, storeVars, StoreGrows
  <2>2. run'[Background] = run[Background]
    BY <1>1, <1>7 DEF StopBegin, StopEnd
  <2> QED BY <2>1, <2>2, QueueStays
<1>8. CASE Capture \/ EndCapture \/ UNCHANGED vars
  <2>1. UNCHANGED <<queued, windows, chunks, run>> /\ StoreGrows
    BY <1>8 DEF Capture, EndCapture, vars, storeVars, StoreGrows
  <2> QED BY <2>1, QueueStays
<1>9. ASSUME NEW n \in Frames, PersistFrame(n)
      PROVE  QueueFits'
  <2>1. UNCHANGED <<queued, windows, run>> /\ StoreGrows
    BY <1>9 DEF PersistFrame, StoreGrows
  <2> QED BY <2>1, QueueStays
<1> QED BY <1>2, <1>3, <1>4, <1>5, <1>6, <1>7, <1>8, <1>9 DEF Next, Callers
(* The frames of a stop run to the last without a gap, so where a scan     *)
(* ends is the tail, which is sealed.                                      *)
LEMMA SealedTail ==
  ASSUME TypeOK, Received, NEW q \in Runs, CallFits(q), q.pc \in Listed, StopFits(q),
         NEW f \in 1..(MaxFrames + 1), NEW l \in Frames, OpenAt(q.list, f, l)
  PROVE  q.seal /\ TailAt(q.list, f, l)
<1>1. captured \in Nat /\ f \in Nat /\ l \in Nat /\ q.list \subseteq 1..captured
  BY RestTyped DEF TypeOK, Frames, CallFits, Received
<1>2. f <= l /\ f..l \subseteq q.list /\ l + 1 \notin q.list
  BY DEF OpenAt, Grows
<1>3. l \in q.list
  BY <1>1, <1>2
<1>4. l..captured \subseteq q.list
  BY <1>3 DEF StopFits
<1>5. l <= captured /\ ~(l + 1 <= captured)
  <2>1. l <= captured
    BY <1>1, <1>3
  <2>2. l + 1 \notin l..captured
    BY <1>2, <1>4
  <2> QED BY <1>1, <2>1, <2>2
<1>6. \A n \in q.list : n <= l
  BY <1>1, <1>5
<1>7. q.seal
  BY DEF StopFits, Listed, Cutting, Offering
<1> QED BY <1>6, <1>7 DEF TailAt

LEMMA StopMoves ==
  ASSUME TypeOK, StopsFit, NEW p \in Stops, NEW q, Moves(p, q), StopFits(q), UNCHANGED captured
  PROVE  StopsFit'
<1>1. run \in [Callers -> Runs] /\ Stops \subseteq Callers
  BY RunsTyped DEF Callers
<1>2. StopFits(q)' /\ \A r \in Stops : StopFits(run[r])
  BY DEF StopFits, StopsFit
<1>3. ASSUME NEW r \in Stops
      PROVE  StopFits(run[r])'
  <2>1. run'[r] = IF r = p THEN q ELSE run[r]
    BY <1>1 DEF Moves
  <2> QED BY <1>2, <2>1 DEF StopFits
<1> QED BY <1>3 DEF StopsFit

LEMMA StopScans ==
  ASSUME AssemblyInvariant, StopsFit, NEW p \in Stops, NEW f \in 1..(MaxFrames + 1),
         Scan(p, f), run[p].pc \in Listed, UNCHANGED captured
  PROVE  StopsFit'
<1>1. /\ TypeOK /\ Received /\ p \in Callers /\ p # Background /\ run[p] \in Runs
      /\ CallFits(run[p]) /\ StopFits(run[p])
  BY AssemblyAssumption, RunsTyped DEF AssemblyInvariant, Callers, CallersFit, StopsFit
<1>2. PICK q \in Runs :
        /\ Moves(p, q)
        /\ \/ \E l \in Frames : Cuts(p, f, l, q)
           \/ \E l \in Frames : Offers(p, f, l, q)
           \/ Stays(p, f, q)
  BY <1>1, ScanMoves
<1>3. ASSUME NEW l \in Frames, Cuts(p, f, l, q)
      PROVE  StopFits(q)
  <2>1. q.pc = "supersede" /\ q.list = run[p].list /\ q.seal = run[p].seal
    BY <1>3 DEF Cuts
  <2>2. run[p].seal /\ \A a \in run[p].list : a..captured \subseteq run[p].list
    BY <1>1 DEF StopFits, Listed, Cutting, Offering
  <2> QED BY <2>1, <2>2 DEF StopFits, Offering
<1>4. ASSUME NEW l \in Frames, Offers(p, f, l, q)
      PROVE  FALSE
  <2>1. q.list = run[p].list /\ q.seal = run[p].seal
    BY <1>4 DEF Offers
  <2>2. OpenAt(run[p].list, f, l) /\ ~(run[p].seal /\ TailAt(run[p].list, f, l))
    BY <1>4, <2>1 DEF Offers
  <2> QED BY <1>1, <2>2, SealedTail
<1>5. ASSUME Stays(p, f, q)
      PROVE  StopFits(q)
  <2>1. Back(p).pc = "flushed" /\ q = Back(p)
    BY <1>1, <1>5 DEF Stays, Back, Rest
  <2>2. q.pc = "flushed"
    BY <2>1
  <2> QED BY <2>2 DEF StopFits, Listed, Cutting, Offering
<1>6. StopFits(q)
  BY <1>2, <1>3, <1>4, <1>5
<1> QED BY <1>1, <1>2, <1>6, StopMoves

LEMMA StopAssembles ==
  ASSUME AssemblyInvariant, StopsFit, NEW p \in Stops, Assemble(p)
  PROVE  StopsFit'
<1>1. /\ TypeOK /\ p \in Callers /\ p # Background /\ run \in [Callers -> Runs] /\ run[p] \in Runs
      /\ CallFits(run[p]) /\ StopFits(run[p])
  BY AssemblyAssumption, RunsTyped DEF AssemblyInvariant, Callers, CallersFit, StopsFit
<1>2. MaxFrames \in Nat /\ captured \in Nat /\ cursor \in 0..MaxFrames
  BY <1>1, RestTyped DEF TypeOK
<1>3. ~DropPreviews(p) /\ ~EnqueuePreview(p)
  BY <1>1 DEF DropPreviews, EnqueuePreview, StopFits, Offering
<1>4. CASE Return(p) /\ UNCHANGED captured
  <2>1. Moves(p, Back(p))
    BY <1>1, <1>4, ReturnMoves
  <2>2. Back(p).pc = "flushed"
    BY <1>1 DEF Back, Rest
  <2>3. StopFits(Back(p))
    BY <2>2 DEF StopFits, Listed, Cutting, Offering
  <2> QED BY <1>1, <1>4, <2>1, <2>3, StopMoves
<1>5. CASE FindPending(p) /\ ~Return(p)
  <2> DEFINE seal == run[p].seal \/ session # "recording"
             r == [run[p] EXCEPT !.pc = "list", !.seal = seal]
  <2>1. run' = [run EXCEPT ![p] = r] /\ run[p].pc = "sources" /\ UNCHANGED captured
    BY <1>1, <1>5 DEF FindPending, recorderVars
  <2>2. r \in Runs /\ r.pc = "list" /\ r.seal = seal
    BY <1>1 DEF Runs, Points
  <2>3. seal
    BY <1>1, <2>1 DEF StopFits
  <2>4. StopFits(r)
    BY <2>2, <2>3 DEF StopFits, Listed, Cutting, Offering
  <2>5. Moves(p, r)
    BY <2>1, <2>2 DEF Moves
  <2> HIDE DEF r
  <2> QED BY <1>1, <2>1, <2>4, <2>5, StopMoves
<1>6. CASE ListChunks(p) /\ ~Return(p)
  <2> DEFINE list == {c \in chunks : c > cursor}
             r == [run[p] EXCEPT !.list = list, !.pc = "cursor"]
  <2>1. run' = [run EXCEPT ![p] = r] /\ run[p].pc = "list" /\ UNCHANGED captured
    BY <1>1, <1>6 DEF ListChunks, recorderVars
  <2>2. list \in SUBSET Frames
    BY <1>1 DEF TypeOK
  <2>3. r \in Runs /\ r.pc = "cursor" /\ r.seal = run[p].seal /\ r.list = list
    BY <1>1, <2>2 DEF Runs, Points
  <2>4. run[p].seal /\ session # "recording"
    BY <1>1, <2>1 DEF StopFits, CallFits
  <2>5. 1..captured \subseteq chunks /\ chunks \subseteq 1..captured
    BY <2>4 DEF AssemblyInvariant, Received, AckedIsDurable, Ending
  <2>6. ASSUME NEW a \in list
        PROVE  a..captured \subseteq list
    <3>1. a \in Nat /\ a >= 1 /\ a > cursor
      BY <1>2, <2>5
    <3>2. \A n \in a..captured : n \in 1..captured /\ n > cursor
      BY <1>2, <3>1
    <3> QED BY <2>5, <3>2
  <2>7. StopFits(r)
    BY <2>3, <2>4, <2>6 DEF StopFits, Offering
  <2>8. Moves(p, r)
    BY <2>1, <2>3 DEF Moves
  <2> HIDE DEF r
  <2> QED BY <1>1, <2>1, <2>7, <2>8, StopMoves
<1>7. CASE ReadCursor(p) /\ ~Return(p)
  <2>1. Scan(p, cursor + 1) /\ run[p].pc \in Listed /\ UNCHANGED captured
    BY <1>7 DEF ReadCursor, Listed, recorderVars
  <2>2. PICK f \in 1..(MaxFrames + 1) : f = cursor + 1
    BY <1>2
  <2> QED BY <2>1, <2>2, StopScans
<1>8. CASE RecordWindow(p)
  <2>1. Scan(p, run[p].last + 1) /\ run[p].pc \in Listed /\ UNCHANGED captured
    BY <1>8 DEF RecordWindow, Listed, Cutting, recorderVars
  <2>2. run[p].last \in 0..MaxFrames
    BY <1>1 DEF Runs
  <2>3. PICK f \in 1..(MaxFrames + 1) : f = run[p].last + 1
    BY <1>2, <2>2
  <2> QED BY <2>1, <2>3, StopScans
<1>9. CASE SupersedePreviews(p) \/ EnqueueWindow(p)
  <2>1. PICK pc \in {"enqueue", "record"} : Goto(p, pc) /\ run[p].pc \in Cutting
                                            /\ UNCHANGED captured
    BY <1>9 DEF SupersedePreviews, EnqueueWindow, Cutting, recorderVars
  <2>2. PICK q \in Runs :
          Moves(p, q) /\ q.pc = pc /\ q.seal = run[p].seal /\ q.list = run[p].list
    BY <1>1, <2>1, GotoMoves DEF Points
  <2>3. run[p].seal /\ \A a \in run[p].list : a..captured \subseteq run[p].list
    BY <1>1, <2>1 DEF StopFits, Listed, Cutting
  <2>4. StopFits(q)
    BY <2>1, <2>2, <2>3 DEF StopFits, Offering
  <2> QED BY <1>1, <2>1, <2>2, <2>4, StopMoves
<1>10. UNCHANGED captured
  <2>1. CASE FindPending(p) \/ ListChunks(p) \/ ReadCursor(p)
    BY <2>1 DEF FindPending, ListChunks, ReadCursor, recorderVars
  <2>2. CASE SupersedePreviews(p) \/ EnqueueWindow(p) \/ RecordWindow(p)
    BY <2>2 DEF SupersedePreviews, EnqueueWindow, RecordWindow, recorderVars
  <2> QED BY <1>3, <2>1, <2>2 DEF Assemble
<1> QED BY <1>3, <1>4, <1>5, <1>6, <1>7, <1>8, <1>9, <1>10 DEF Assemble

LEMMA StopsStep ==
  ASSUME AssemblyInvariant, StopsFit, [Next]_vars
  PROVE  StopsFit'
<1>1. /\ TypeOK /\ Background \notin Stops /\ Stops \subseteq Callers
      /\ run \in [Callers -> Runs]
  BY AssemblyAssumption, RunsTyped DEF Callers, AssemblyInvariant
<1>2. ASSUME UNCHANGED captured, \A p \in Stops : run'[p] = run[p]
      PROVE  StopsFit'
  BY <1>2 DEF StopsFit, StopFits
<1>3. StopFits(Rest)
  BY DEF StopFits, Rest, Listed, Cutting, Offering
<1>4. ASSUME NEW p \in Callers, Assemble(p)
      PROVE  StopsFit'
  <2>1. CASE p \in Stops
    BY <1>4, <2>1, StopAssembles
  <2>2. CASE p = Background
    <3>1. \A r \in Stops : run'[r] = run[r]
      BY <1>1, <1>4, <2>2, OthersStay
    <3>2. UNCHANGED captured
      <4>1. CASE FindPending(p) \/ ListChunks(p) \/ ReadCursor(p)
        BY <4>1 DEF FindPending, ListChunks, ReadCursor, recorderVars
      <4>2. CASE SupersedePreviews(p) \/ EnqueueWindow(p) \/ RecordWindow(p)
        BY <4>2 DEF SupersedePreviews, EnqueueWindow, RecordWindow, recorderVars
      <4>3. CASE DropPreviews(p) \/ EnqueuePreview(p)
        BY <4>3 DEF DropPreviews, EnqueuePreview, recorderVars
      <4> QED BY <1>4, <4>1, <4>2, <4>3 DEF Assemble
    <3> QED BY <1>2, <3>1, <3>2
  <2> QED BY <2>1, <2>2 DEF Callers
<1>5. ASSUME NEW p \in Callers, AssemblyFails(p)
      PROVE  StopsFit'
  <2>1. Moves(p, Rest) /\ UNCHANGED captured
    BY <1>5, RestTyped DEF AssemblyFails, Moves, recorderVars
  <2>2. CASE p \in Stops
    BY <1>1, <1>3, <2>1, <2>2, StopMoves
  <2>3. CASE p = Background
    <3>1. \A r \in Stops : run'[r] = run[r]
      BY <1>1, <2>1, <2>3 DEF Moves
    <3> QED BY <1>2, <2>1, <3>1
  <2> QED BY <2>2, <2>3 DEF Callers
<1>6. CASE Receive
  <2>1. \A r \in Stops : run'[r] = run[r]
    BY <1>1, <1>6 DEF Receive, Goto
  <2> QED BY <1>2, <1>6, <2>1 DEF Receive, recorderVars
<1>7. ASSUME NEW p \in Stops, StopBegin(p)
      PROVE  StopsFit'
  <2> DEFINE r == [run[p] EXCEPT !.pc = "sources", !.seal = TRUE]
  <2>1. run' = [run EXCEPT ![p] = r] /\ UNCHANGED captured
    BY <1>1, <1>7 DEF StopBegin, recorderVars
  <2>2. r \in Runs /\ r.pc = "sources" /\ r.seal
    BY <1>1 DEF Runs, Points
  <2>3. StopFits(r)
    BY <2>2 DEF StopFits, Listed, Cutting, Offering
  <2>4. Moves(p, r)
    BY <2>1, <2>2 DEF Moves
  <2> HIDE DEF r
  <2> QED BY <1>1, <2>1, <2>3, <2>4, StopMoves
<1>8. ASSUME NEW p \in Stops, StopEnd(p)
      PROVE  StopsFit'
  <2>1. Moves(p, Rest) /\ UNCHANGED captured
    BY <1>8, RestTyped DEF StopEnd, Moves, recorderVars
  <2> QED BY <1>1, <1>3, <2>1, StopMoves
<1>9. CASE Crash
  <2>1. \A r \in Stops : run'[r] = Rest
    BY <1>1, <1>9 DEF Crash
  <2>2. StopFits(Rest)'
    BY DEF StopFits, Rest, Listed, Cutting, Offering
  <2> QED BY <2>1, <2>2 DEF StopsFit
<1>10. CASE Capture
  <2>1. session = "recording" /\ UNCHANGED run
    BY <1>10 DEF Capture, AssemblyInvariant, Ending
  <2>2. ASSUME NEW r \in Stops
        PROVE  StopFits(run[r])'
    <3>1. StopFits(run[r]) /\ CallFits(run[r])
      BY <1>1 DEF StopsFit, AssemblyInvariant, CallersFit
    <3>2. run[r].pc \notin Listed
      BY <2>1, <3>1 DEF StopFits, CallFits, Listed, Cutting, Offering
    <3> QED BY <2>1, <3>1, <3>2 DEF StopFits
  <2> QED BY <2>2 DEF StopsFit
<1>11. CASE EndCapture \/ UNCHANGED vars
  BY <1>2, <1>11 DEF EndCapture, vars, recorderVars
<1>12. ASSUME NEW n \in Frames, PersistFrame(n)
       PROVE  StopsFit'
  BY <1>2, <1>12 DEF PersistFrame
<1> QED BY <1>4, <1>5, <1>6, <1>7, <1>8, <1>9, <1>10, <1>11, <1>12 DEF Next

(* At most one interim snapshot of the source waits for a worker, however  *)
(* slow the workers are: when maybe_enqueue_preview drops the older ones,  *)
(* none that is left differs from the one it enqueues, and a stop, which   *)
(* seals the tail, enqueues none.                                          *)
THEOREM PreviewsDoNotPileUp == Spec => []OnePreviewQueued
<1>1. Init => QueueFits /\ StopsFit
  <2> SUFFICES ASSUME Init PROVE QueueFits /\ StopsFit
    OBVIOUS
  <2>1. queued = {} /\ \A p \in Callers : run[p] = Rest
    BY DEF Init
  <2>2. OfferFits(Rest) /\ StopFits(Rest)
    BY DEF OfferFits, StopFits, Rest, Listed, Cutting, Offering
  <2> QED BY <2>1, <2>2 DEF QueueFits, OnePreviewQueued, StopsFit, Callers
<1>2. /\ (AssemblyInvariant /\ Stopping) /\ QueueFits /\ StopsFit /\ [Next]_vars
      => (QueueFits /\ StopsFit)'
  BY QueueStep, StopsStep
<1>3. QueueFits => OnePreviewQueued
  BY DEF QueueFits
<1> QED BY <1>1, <1>2, <1>3, AssemblyHolds, PTL DEF Spec
=============================================================================
