------------------------- MODULE MCRecordingHandlers -------------------------
(* Instance of RecordingHandlers for TLC.                                  *)
EXTENDS RecordingHandlers, TLC

MCSymmetry == Permutations(Requests)
==============================================================================
