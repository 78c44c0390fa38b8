------------------------- MODULE MC_RosterExecution -------------------------
(***************************************************************************)
(* Small instances of RosterExecution.                                      *)
(***************************************************************************)
EXTENDS RosterExecution, TLC

CONSTANTS r1, r2

MCRequest == {r1, r2}

\* Nothing tells one request from another.
Alike == Permutations(MCRequest)
=============================================================================
