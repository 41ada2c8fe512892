----------------------------- MODULE MCModelJobs -----------------------------
(* Instance of ModelJobs for TLC.                                          *)
EXTENDS ModelJobs, TLC

(* Of a fault, a failed run and a window that is queued late, one kind in a
   behaviour: a bound on what goes wrong at once.                          *)
MCOneTrouble ==
    Cardinality({k \in 1..3 : <<faults > 0, failures > 0, late # {}>>[k]}) <= 1

MCSymmetry == Permutations(Calls) \cup Permutations(Segments) \cup Permutations(AsrLanes)
==============================================================================
