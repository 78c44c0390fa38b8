--------------------------- MODULE ProjectionMirror ---------------------------
(***************************************************************************)
(* What the Google workbook promises about a canonical record, without      *)
(* leases, passes, requests or rows: the workbook shows a revision that was *)
(* committed, it never goes back to an older one, and a record is called    *)
(* settled (its outbox event DELIVERED, its tab no longer dirty) only while *)
(* the workbook shows the last committed revision.                          *)
(***************************************************************************)
EXTENDS Naturals

CONSTANT Keys

VARIABLES committed,  \* the revision of each canonical record
          shown,      \* the revision of it that the workbook shows, 0: none
          settled     \* the records that owe the workbook nothing

mirrorVars == <<committed, shown, settled>>

Init == /\ committed \in [Keys -> Nat]
        /\ shown = [k \in Keys |-> 0]
        /\ settled = {k \in Keys : committed[k] = 0}

\* A canonical change of some records, which are then owed to the workbook.
Commit == /\ \E K \in SUBSET Keys :
               /\ committed' = [k \in Keys |-> IF k \in K THEN committed[k] + 1 ELSE committed[k]]
               /\ settled' = settled \ K
          /\ UNCHANGED shown

\* The workbook moves forward to a revision that was committed.
Show == /\ \E k \in Keys : \E r \in shown[k] .. committed[k] : shown' = [shown EXCEPT ![k] = r]
        /\ UNCHANGED <<committed, settled>>

\* Records whose last committed revision is shown are settled.
Settle == /\ \E K \in SUBSET {k \in Keys : shown[k] = committed[k]} : settled' = settled \union K
          /\ UNCHANGED <<committed, shown>>

Next == Commit \/ Show \/ Settle

Spec == Init /\ [][Next]_mirrorVars
=============================================================================
