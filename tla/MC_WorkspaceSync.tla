-------------------------- MODULE MC_WorkspaceSync --------------------------
(***************************************************************************)
(* Small instances of WorkspaceSync.                                       *)
(***************************************************************************)
EXTENDS WorkspaceSync

CONSTANTS t1, t2, m1, p1, p2

MCTrips == {t1, t2}
MCTabs == {m1}
MCPasses == {p1, p2}
=============================================================================
