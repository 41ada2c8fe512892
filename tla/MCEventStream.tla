----------------------------- MODULE MCEventStream -----------------------------
(* Instance of EventStream for TLC.                                        *)
EXTENDS EventStream, TLC

MCSymmetry == Permutations(Plain) \cup Permutations(Keyed) \cup Permutations(Keys)
==============================================================================
