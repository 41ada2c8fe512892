------------------------------ MODULE HeardAudio ------------------------------
(***************************************************************************)
(* What the assembly of audio promises, with no caller, cursor, channel or *)
(* restart: a recording is handed to speech recognition from its first     *)
(* frame on, in order, without a gap, each stored frame in one job; and a  *)
(* job, once made, stands.                                                 *)
(***************************************************************************)
EXTENDS Naturals

VARIABLES captured,  \* frames cut so far
          ended,     \* no further frame will be cut
          stored,    \* the frames that are durable, in whatever order they came
          jobs       \* the recognition jobs as <<first, last>>

vars == <<captured, ended, stored, jobs>>

Init == captured = 0 /\ ended = FALSE /\ stored = {} /\ jobs = {}

Capture == ~ended /\ captured' = captured + 1 /\ UNCHANGED <<ended, stored, jobs>>

End == ended' = TRUE /\ UNCHANGED <<captured, stored, jobs>>

Store ==
    /\ \E n \in 1..captured : stored' = stored \cup {n}
    /\ UNCHANGED <<captured, ended, jobs>>

(* The next job begins right after all others, and all of it is durable.   *)
Hear ==
    /\ \E f, l \in 1..captured :
         /\ f = 1 \/ \E j \in jobs : j[2] = f - 1
         /\ \A j \in jobs : j[2] < f
         /\ f <= l /\ f..l \subseteq stored
         /\ jobs' = jobs \cup {<<f, l>>}
    /\ UNCHANGED <<captured, ended, stored>>

Next == Capture \/ End \/ Store \/ Hear

Spec == Init /\ [][Next]_vars
===============================================================================
