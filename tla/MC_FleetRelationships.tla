----------------------- MODULE MC_FleetRelationships -----------------------
(***************************************************************************)
(* Two drivers and two trucks, one of each working for c1 at first, two    *)
(* carriers, a material of the project and one it lacks at first, and six  *)
(* relationship documents: a full roster, and a change of both drivers.    *)
(***************************************************************************)
EXTENDS FleetRelationships, TLC

CONSTANTS d1, d2, k1, k2, c1, c2, m1, m2, r1, r2, r3, r4, r5, r6

Staff == [e \in {d1, k1} |-> c1]
=============================================================================
