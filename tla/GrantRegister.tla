---------------------------- MODULE GrantRegister ----------------------------
(***************************************************************************)
(* What the offline authorization of a project promises: at any time at     *)
(* most one grant is in force, a grant comes into force once, and a grant   *)
(* that is no longer in force never is again.                               *)
(***************************************************************************)
CONSTANTS Grant, None

VARIABLES inForce,  \* the grant in force, or None
          spent     \* the grants that were in force before

registerVars == <<inForce, spent>>

Init == inForce = None /\ spent = {}

\* Another grant, or none, is in force from now on.
Change == /\ inForce' \in (Grant \ (spent \union {inForce})) \union {None}
          /\ spent' = spent \union ({inForce} \ {None})

Next == Change

Spec == Init /\ [][Next]_registerVars
=============================================================================
