------------------------- MODULE MC_SyncCoordinator -------------------------
(***************************************************************************)
(* Small instances of SyncCoordinator.                                      *)
(***************************************************************************)
EXTENDS SyncCoordinator

MCGrant == 1 .. 3
MCPresent == {1, 3}
MCBroken == {1}
=============================================================================
