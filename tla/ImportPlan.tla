------------------------------ MODULE ImportPlan ------------------------------
(***************************************************************************)
(* What the execution of a reviewed roster promises: one plan, adopted from *)
(* one review, is carried out group after group, each group once, until all *)
(* are done or the plan is cancelled; what was done stays done.             *)
(***************************************************************************)
EXTENDS Naturals, Sequences

CONSTANT GroupCount

VARIABLES
  plan,     \* the review the plan was made from, 0 before
  written,  \* the groups written to the canonical records, in order
  outcome   \* "open", "completed" or "cancelled"

planVars == <<plan, written, outcome>>

Init == plan = 0 /\ written = <<>> /\ outcome = "open"

Adopt == /\ plan = 0
         /\ plan' \in Nat \ {0}
         /\ UNCHANGED <<written, outcome>>

Write == /\ plan # 0 /\ outcome = "open"
         /\ Len(written) < GroupCount
         /\ written' = Append(written, [group |-> Len(written) + 1, review |-> plan])
         /\ outcome' = IF Len(written) + 1 = GroupCount THEN "completed" ELSE "open"
         /\ UNCHANGED plan

Cancel == /\ plan # 0 /\ outcome = "open"
          /\ outcome' = "cancelled"
          /\ UNCHANGED <<plan, written>>

Next == Adopt \/ Write \/ Cancel

Spec == Init /\ [][Next]_planVars
=============================================================================
