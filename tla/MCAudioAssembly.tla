---------------------------- MODULE MCAudioAssembly ----------------------------
(* Instance of AudioAssembly for TLC.                                      *)
EXTENDS AudioAssembly, TLC

MCSymmetry == Permutations(Stops)
==============================================================================
