------------------------------ MODULE EventStream ------------------------------
(***************************************************************************)
(* The server-sent event stream of a session (stream_events in             *)
(* crates/core-server/src/api.rs) over the event log: a browser subscribes *)
(* to the broadcast channel, replays the log after its Last-Event-ID and   *)
(* then follows the channel, suppressing what the replay contained.        *)
(***************************************************************************)
EXTENDS EventLog

CONSTANTS
    Clients,   \* browsers that follow the session
    Buffer,    \* capacity of the broadcast channel (REPLAYABLE_EVENT_BUFFER)
    MaxDrops   \* bound on dropped connections

ASSUME StreamAssumption == Buffer \in Nat \ {0} /\ MaxDrops \in Nat

VARIABLES
    view,    \* the connection of each client
    cursor,  \* ingested_at of the last event the client received, 0 for none
    seen,    \* every event the client has received
    drops

streamVars == <<view, cursor, seen, drops>>
vars       == <<logVars, streamVars>>

Off == [pc |-> "off", position |-> 0, backlog |-> {}, mark |-> 0, got |-> {}]

Init ==
    /\ LogInit
    /\ view = [c \in Clients |-> Off]
    /\ cursor = [c \in Clients |-> 0]
    /\ seen = [c \in Clients |-> {}]
    /\ drops = 0

Write == LogNext /\ ~LogCrash /\ UNCHANGED streamVars

(* A restart closes every stream.                                          *)
Restart ==
    /\ LogCrash
    /\ view' = [c \in Clients |-> Off]
    /\ UNCHANGED <<cursor, seen, drops>>

Subscribe(c) ==
    /\ view[c].pc = "off"
    /\ view' = [view EXCEPT ![c] = [Off EXCEPT !.pc = "subscribed", !.position = Len(sent)]]
    /\ UNCHANGED <<logVars, cursor, seen, drops>>

(* list_events_after, or list_events without a cursor; the watermark is the
   last event of the replay, or the cursor when it is empty.               *)
Snapshot(c) ==
    LET history == {e \in log : e.stamp > cursor[c]} IN
    /\ view[c].pc = "subscribed"
    /\ \E mark \in {cursor[c]} \cup {e.stamp : e \in history} :
         /\ \A e \in history : e.stamp <= mark
         /\ view' = [view EXCEPT ![c].pc = "live", ![c].backlog = history, ![c].mark = mark]
    /\ UNCHANGED <<logVars, cursor, seen, drops>>

Deliver(c, e) ==
    /\ seen' = [seen EXCEPT ![c] = @ \cup {e}]
    /\ cursor' = [cursor EXCEPT ![c] = e.stamp]

(* Replay precedes live events.                                            *)
Replay(c) ==
    /\ view[c].pc = "live"
    /\ \E e \in view[c].backlog :
         /\ \A f \in view[c].backlog : e.stamp <= f.stamp
         /\ Deliver(c, e)
         /\ view' = [view EXCEPT ![c].backlog = @ \ {e}, ![c].got = @ \cup {e}]
    /\ UNCHANGED <<logVars, drops>>

Lagged(c) == Len(sent) - view[c].position > Buffer

(* The next event of the channel; the watermark suppresses old ones.       *)
Follow(c) ==
    LET e == sent[view[c].position + 1] IN
    /\ view[c].pc = "live" /\ view[c].backlog = {}
    /\ view[c].position < Len(sent) /\ ~Lagged(c)
    /\ IF e.stamp > view[c].mark
         THEN /\ Deliver(c, e)
              /\ view' = [view EXCEPT ![c].position = @ + 1, ![c].got = @ \cup {e}]
         ELSE /\ view' = [view EXCEPT ![c].position = @ + 1]
              /\ UNCHANGED <<cursor, seen>>
    /\ UNCHANGED <<logVars, drops>>

(* Mutant of FallBehind: the stream goes on with what the channel kept.    *)
SkipLagged(c) ==
    /\ view[c].pc = "live" /\ view[c].backlog = {} /\ Lagged(c)
    /\ view' = [view EXCEPT ![c].position = Len(sent) - Buffer]
    /\ UNCHANGED <<logVars, cursor, seen, drops>>

(* RecvError::Lagged ends the stream; the browser connects again.          *)
FallBehind(c) ==
    /\ view[c].pc = "live" /\ view[c].backlog = {} /\ Lagged(c)
    /\ view' = [view EXCEPT ![c] = Off]
    /\ UNCHANGED <<logVars, cursor, seen, drops>>

Drop(c) ==
    /\ view[c].pc # "off" /\ drops < MaxDrops
    /\ drops' = drops + 1
    /\ view' = [view EXCEPT ![c] = Off]
    /\ UNCHANGED <<logVars, cursor, seen>>

Advance(c) == Subscribe(c) \/ Snapshot(c) \/ Replay(c) \/ Follow(c) \/ FallBehind(c)

Next ==
    \/ Write \/ Restart
    \/ \E c \in Clients : Advance(c) \/ Drop(c)

Spec == Init /\ [][Next]_vars

(* Emissions under way finish, and browsers reconnect and read on.         *)
FairSpec ==
    /\ Spec
    /\ \A p \in Tasks : WF_vars(Proceed(p) /\ UNCHANGED streamVars)
    /\ \A c \in Clients : WF_vars(Advance(c))

-----------------------------------------------------------------------------
(* Properties *)

(* The types of the connections and of what the clients have.              *)
StreamTypeOK ==
    /\ LogTypeOK
    /\ \A c \in Clients :
         /\ view[c].pc \in {"off", "subscribed", "live"}
         /\ view[c].position \in 0..Len(sent)
         /\ view[c].backlog \subseteq log /\ view[c].got \subseteq seen[c]
         /\ cursor[c] \in 0..now /\ seen[c] \subseteq log
    /\ drops \in 0..MaxDrops

(* One connection never delivers an event twice: an event that is both in
   the replay and in the channel is suppressed by the watermark
   (api.rs 272-275, "suppresses that one duplicate").                      *)
NoRepeatOnAConnection ==
    [][\A c \in Clients :
         Follow(c) /\ cursor'[c] # cursor[c] => sent[view[c].position + 1] \notin view[c].got]_vars

(* The watermark suppresses nothing but what the client has received: "the
   watermark suppresses that one duplicate" (api.rs 272-275).              *)
SuppressedWasSeen ==
    [][\A c \in Clients :
         Follow(c) /\ UNCHANGED seen[c] => sent[view[c].position + 1] \in seen[c]]_vars

(* A browser that has received an event has received every durable event
   before it, so that reconnecting with Last-Event-ID skips nothing, unless
   an event with a later timestamp was stored or broadcast before it.      *)
NothingSkipped ==
    \A c \in Clients, e \in log : e.stamp < cursor[c] => e \in seen[c] \cup overtaken

(* Every durable event that was not overtaken reaches every browser that
   keeps reconnecting, through lags, dropped connections and restarts,
   whichever mix of emissions wrote the log.                               *)
EventsArrive ==
    \A c \in Clients, s \in 1..MaxEvents :
        (\E e \in log : e.stamp = s) ~> (\E e \in seen[c] \cup overtaken : e.stamp = s)
==============================================================================
