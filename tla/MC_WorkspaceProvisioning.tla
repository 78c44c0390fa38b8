---------------------- MODULE MC_WorkspaceProvisioning ----------------------
(***************************************************************************)
(* Small instances of WorkspaceProvisioning.                                *)
(***************************************************************************)
EXTENDS WorkspaceProvisioning

MCRoots == <<"WORKSPACE_ROOT", "PROJECTS_ROOT">>
=============================================================================
