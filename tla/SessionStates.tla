---------------------------- MODULE SessionStates ----------------------------
(***************************************************************************)
(* The life cycle of a course session (crates/core-domain/src/lib.rs).     *)
(* Every writer of sessions.state goes through this table, except the      *)
(* acquisition of a recording lease, which may reopen a closed session     *)
(* inside its own transaction (RecordingLease!Acquire).                    *)
(***************************************************************************)

SessionStates ==
    {"created", "ready", "recording", "degraded", "stopping", "processing",
     "completed", "failed", "archived"}

(* Mutant: a session being stopped may record again.                       *)
TransitionResumes(from, to) ==
    \/ from = "ready"      /\ to = "recording"
    \/ from = "recording"  /\ to = "stopping"
    \/ from = "stopping"   /\ to \in {"processing", "recording"}
    \/ from = "processing" /\ to \in {"completed", "failed"}

(* SessionState::transition: the pairs the domain model accepts.           *)
Transition(from, to) ==
    \/ from = "created"    /\ to \in {"ready", "failed"}
    \/ from = "ready"      /\ to \in {"recording", "failed"}
    \/ from = "recording"  /\ to \in {"degraded", "stopping"}
    \/ from = "degraded"   /\ to \in {"recording", "stopping"}
    \/ from = "stopping"   /\ to \in {"processing", "failed"}
    \/ from = "processing" /\ to \in {"completed", "failed"}
    \/ from \in {"completed", "failed"} /\ to = "archived"

Capturing == {"recording", "degraded"}   \* sockets may open, leases may renew
Closed    == {"completed", "failed"}     \* an acquisition reopens these
==============================================================================
