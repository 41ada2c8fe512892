---------------------------- MODULE LeaseAuthority ----------------------------
(***************************************************************************)
(* What the project recording lease promises, with no table, clock or HTTP *)
(* handler: an owner token that is valid or lapsed, and a fence number.    *)
(* While a token is valid nobody else is granted one; a token that lost    *)
(* ownership never owns again; every grant raises the fence, until the     *)
(* record of the lease itself is erased with a permanently deleted course. *)
(***************************************************************************)
EXTENDS Naturals

CONSTANTS Tokens, NoToken

VARIABLES owner,   \* the token the authority would still honour or extend
          valid,   \* whether that token may be used right now
          fence,   \* the number of the last grant that was not erased
          spent    \* every token ever granted

vars == <<owner, valid, fence, spent>>

Init == owner = NoToken /\ valid = FALSE /\ fence = 0 /\ spent = {}

Grant ==
    /\ ~valid
    /\ \E t \in Tokens \ spent :
         /\ t # NoToken
         /\ owner' = t
         /\ spent' = spent \cup {t}
    /\ valid' = TRUE
    /\ fence' \in Nat /\ fence' > fence

(* Extending a lapsed token that nobody has replaced makes it valid again. *)
Extend == owner # NoToken /\ valid' = TRUE /\ UNCHANGED <<owner, fence, spent>>

Lapse == valid /\ valid' = FALSE /\ UNCHANGED <<owner, fence, spent>>

Return ==
    /\ owner # NoToken
    /\ owner' = NoToken /\ valid' = FALSE
    /\ UNCHANGED <<fence, spent>>

Erase ==
    /\ owner' = NoToken /\ valid' = FALSE /\ fence' = 0
    /\ UNCHANGED spent

Next == Grant \/ Extend \/ Lapse \/ Return \/ Erase

Spec == Init /\ [][Next]_vars
==============================================================================
