------------------------------- MODULE Postbox -------------------------------
(***************************************************************************)
(* What the outbox of a device promises to the people who use it: what     *)
(* they hand in is kept until it has been delivered or one of them has     *)
(* given it up, and nothing is delivered that nobody handed in.  A letter  *)
(* that is settled may turn up again and be forgotten again.               *)
(***************************************************************************)
CONSTANT Letter

VARIABLES posted,     \* what was handed in
          kept,       \* what the box still holds
          delivered,  \* what has reached the other side
          dropped     \* what somebody gave up

boxVars == <<posted, kept, delivered, dropped>>

Settled == delivered \union dropped

Init == posted = {} /\ kept = {} /\ delivered = {} /\ dropped = {}

Post(l) == /\ l \notin posted
           /\ posted' = posted \union {l}
           /\ kept' = kept \union {l}
           /\ UNCHANGED <<delivered, dropped>>

\* A copy may be delivered late, when the box no longer holds the letter.
Deliver(l) == /\ l \in posted
              /\ delivered' = delivered \union {l}
              /\ UNCHANGED <<posted, kept, dropped>>

Drop(l) == /\ l \in posted
           /\ dropped' = dropped \union {l}
           /\ UNCHANGED <<posted, kept, delivered>>

Forget(l) == /\ l \in kept \intersect Settled
             /\ kept' = kept \ {l}
             /\ UNCHANGED <<posted, delivered, dropped>>

Return(l) == /\ l \in Settled
             /\ kept' = kept \union {l}
             /\ UNCHANGED <<posted, delivered, dropped>>

Next == \E l \in Letter : \/ Post(l) \/ Deliver(l) \/ Drop(l)
                          \/ Forget(l) \/ Return(l)

Spec == Init /\ [][Next]_boxVars

(* At any time each letter that was handed in is in the box or settled,    *)
(* and there is nothing else in the box or on the other side.              *)
NothingLost == posted = kept \union Settled
=============================================================================
