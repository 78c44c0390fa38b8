----------------------- MODULE MC_GoogleAuthorization -----------------------
(***************************************************************************)
(* Small instances of GoogleAuthorization.                                  *)
(***************************************************************************)
EXTENDS GoogleAuthorization, TLC

CONSTANTS c1, c2, c3, a1, a2, x1, v1

MCConsent == {c1, c2, c3}
MCAdmin == {a1, a2}
MCAccess == {x1}
MCRevocation == {v1}

\* Nothing tells one consent, or one administrator, from another.
Alike == Permutations(MCConsent) \union Permutations(MCAdmin)
=============================================================================
