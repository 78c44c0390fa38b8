-------------------- MODULE WorkspaceProvisioning_proofs --------------------
(***************************************************************************)
(* Theorems about the provisioning of workspaces, for every set of          *)
(* projects and executions, every order of the account's folders and any    *)
(* number of crashes, lost leases, lost answers, rejections and late        *)
(* listings.                                                                *)
(*                                                                         *)
(* The argument for MadeOnce: an announced slot has at most one execution   *)
(* between its announcement and the fate of its request; a slot nobody      *)
(* announced has neither a resource nor a request; and an execution that    *)
(* still holds its lease announces only what nobody has announced.          *)
(***************************************************************************)
EXTENDS WorkspaceProvisioning, TLAPS

\* The steps of an execution that has announced its slot and does not know the outcome.
Announcing == {"send", "wait", "withdraw"}

AnnouncedByOne ==
  \A e \in Execution : run[e].step \in Announcing =>
    /\ SlotOf(e) \in intent
    /\ \A d \in Execution : run[d].step \in Announcing /\ SlotOf(d) = SlotOf(e) => d = e

NothingUnannounced == \A s \in Slot : s \notin intent => made[s] = 0 /\ sent[s] = 0

NotYetSent == \A e \in Execution : run[e].step \in {"send", "withdraw"} => made[SlotOf(e)] = 0 /\ sent[SlotOf(e)] = 0

RecordsTheMade == \A e \in Execution : At(e, "record") => made[SlotOf(e)] > 0

AnnouncesTheNew ==
  \A e \in Execution : At(e, "intend") /\ Holds(e, Inner(e)) => SlotOf(e) \notin intent \union recorded

\* Roles are dealt with in their order.
FoldersAfterRoots ==
  \A j \in Project : <<j, "FOLDER">> \in intent \union recorded => <<Account, Last(Roots)>> \in recorded

InOrder(e) ==
  /\ run[e].role \notin RootRole => <<Account, Last(Roots)>> \in recorded
  /\ run[e].role = "SPREADSHEET" => <<run[e].project, "FOLDER">> \in recorded
  /\ run[e].role = "SCRIPT" => run[e].project \in bound
  /\ At(e, "next") => SlotOf(e) \in recorded

RolesInOrder == FoldersAfterRoots /\ \A e \in Execution : At(e, "idle") \/ InOrder(e)

Inductive ==
  /\ TypeOK /\ MadeOnce /\ RecordedExists /\ ReadyIsWhole
  /\ AnnouncedByOne /\ NothingUnannounced /\ NotYetSent /\ RecordsTheMade /\ AnnouncesTheNew /\ RolesInOrder

-----------------------------------------------------------------------------
Continuing == {"FOLDER", "SPREADSHEET", "SCRIPT"}

(* The account's folders are told from the resources of a project.         *)
LEMMA RootRoles ==
  /\ RootRole = {Roots[i] : i \in 1 .. Len(Roots)}
  /\ RootRole \subseteq {"WORKSPACE_ROOT", "PROJECTS_ROOT"}
  /\ Last(Roots) \in RootRole /\ Roots[1] \in RootRole
<1>1. RootRole = {Roots[i] : i \in 1 .. Len(Roots)}
  <2>1. DOMAIN Roots = 1 .. Len(Roots)
    BY ProvisioningAssumption
  <2> QED BY <2>1 DEF RootRole, ToSet
<1>2. 1 \in 1 .. Len(Roots) /\ Len(Roots) \in 1 .. Len(Roots)
  BY ProvisioningAssumption
<1> QED BY <1>1, <1>2, ProvisioningAssumption DEF Last

(* What is made after a role under the same lease.                         *)
LEMMA Successors ==
  /\ \A r \in RootRole : Successor(r) \in RootRole \/ Successor(r) = "none"
  /\ Successor("FOLDER") = "SPREADSHEET"
  /\ Successor("SPREADSHEET") = "none" /\ Successor("SCRIPT") = "none"
<1>1. ASSUME NEW r \in RootRole, r # Last(Roots) PROVE Successor(r) \in RootRole
  <2> DEFINE next == CHOOSE i \in 2 .. Len(Roots) : Roots[i - 1] = r
  <2>1. PICK k \in 1 .. Len(Roots) : Roots[k] = r
    BY RootRoles
  <2>2. k + 1 \in 2 .. Len(Roots) /\ Roots[(k + 1) - 1] = r
    BY <1>1, <2>1, ProvisioningAssumption DEF Last
  <2>3. next \in 2 .. Len(Roots)
    BY <2>2
  <2>4. Roots[next] \in RootRole
    <3> HIDE DEF next
    <3>1. next \in 1 .. Len(Roots)
      BY <2>3, ProvisioningAssumption
    <3> QED BY <3>1, RootRoles
  <2>5. r # "FOLDER"
    BY RootRoles
  <2> QED BY <1>1, <2>4, <2>5 DEF Successor
<1>2. Successor(Last(Roots)) = "none"
  BY RootRoles DEF Successor
<1> QED BY <1>1, <1>2, RootRoles DEF Successor

(* The slot and the leases of an execution that is under way.              *)
LEMMA SlotsAndLeases ==
  ASSUME NEW j \in Project, NEW r \in Role
  PROVE  /\ r \in RootRole <=> r \notin Continuing
         /\ Holder(j, r) = IF r \in RootRole THEN Account ELSE j
         /\ <<Holder(j, r), r>> \in Slot
         /\ <<Holder(j, r), InnerKind(r)>> \in Lease
         /\ <<j, "ensure">> \in Lease
  BY RootRoles DEF Continuing, Holder, Slot, Lease, InnerKind, Role, ProjectRole

\* The run of e moves to a step, a project and a role; no other run moves.
Moves(e, step, project, role) ==
  /\ run' \in [Execution -> RunRecords]
  /\ run'[e].step = step /\ run'[e].project = project /\ run'[e].role = role
  /\ \A d \in Execution \ {e} : run'[d] = run[d]

(* To moves the step only.                                                 *)
LEMMA ToMoves ==
  ASSUME TypeOK, NEW e \in Execution, NEW step \in Step, To(e, step)
  PROVE  Moves(e, step, run[e].project, run[e].role)
  BY DEF TypeOK, To, Moves, RunRecords

(* Done moves to the next role under the same lease, if there is one.      *)
LEMMA DoneMoves ==
  ASSUME TypeOK, NEW e \in Execution, Done(e), run[e].role \in Role
  PROVE  IF Successor(run[e].role) = "none"
         THEN Moves(e, "next", run[e].project, run[e].role)
         ELSE Moves(e, "look", run[e].project, Successor(run[e].role))
<1>1. Successor(run[e].role) \in Role \union {"none"}
  BY Successors DEF Role, ProjectRole
<1>2. CASE Successor(run[e].role) = "none"
  BY <1>2 DEF TypeOK, Done, Moves, RunRecords, Step
<1>3. CASE Successor(run[e].role) # "none"
  <2>1. run' = [run EXCEPT ![e] = [run[e] EXCEPT !.step = "look", !.role = Successor(run[e].role)]]
    BY <1>3 DEF Done
  <2>2. [run[e] EXCEPT !.step = "look", !.role = Successor(run[e].role)] \in RunRecords
    BY <1>1 DEF TypeOK, RunRecords, Step
  <2>3. run[e] \in RunRecords /\ run \in [Execution -> RunRecords]
    BY DEF TypeOK
  <2>4. run' \in [Execution -> RunRecords] /\ \A d \in Execution \ {e} : run'[d] = run[d]
    BY <2>1, <2>2, <2>3
  <2>5. run'[e] = [run[e] EXCEPT !.step = "look", !.role = Successor(run[e].role)]
    BY <2>1, <2>3
  <2>6. run'[e].step = "look" /\ run'[e].project = run[e].project /\ run'[e].role = Successor(run[e].role)
    BY <2>3, <2>5 DEF RunRecords
  <2> QED BY <1>3, <2>4, <2>6 DEF Moves
<1> QED BY <1>2, <1>3

(* What looking for the slot leads to.                                     *)
LEMMA LookEffect ==
  ASSUME NEW e \in Execution, Look(e)
  PROVE  /\ At(e, "look") /\ UNCHANGED <<intent, recorded, bound, status, lease, made, sent>>
         /\ faults' = faults \/ Fault
         /\ \/ Done(e) /\ SlotOf(e) \in recorded
            \/ To(e, "record") /\ made[SlotOf(e)] = 1
            \/ To(e, "failed")
            \/ To(e, "intend") /\ SlotOf(e) \notin intent \union recorded
<1> DEFINE step == Decision(SlotOf(e), run[e].role, made[SlotOf(e)] = 1)
           other == Decision(SlotOf(e), run[e].role, FALSE)
<1>1. /\ step \in {"done", "record", "failed", "intend"}
      /\ step = "done" => SlotOf(e) \in recorded
      /\ step = "record" => made[SlotOf(e)] = 1
      /\ step = "intend" => SlotOf(e) \notin intent \union recorded
  BY DEF Decision
<1>2. SlotOf(e) \notin recorded => /\ other \in {"failed", "intend"}
                                   /\ other = "intend" => SlotOf(e) \notin intent
  BY DEF Decision
<1>3. (IF step = "done" THEN Done(e) ELSE To(e, step)) \/ (To(e, other) /\ SlotOf(e) \notin recorded)
  BY DEF Look
<1>4. At(e, "look") /\ UNCHANGED <<intent, recorded, bound, status, lease, made, sent>>
  BY DEF Look, google
<1>5. faults' = faults \/ Fault
  BY Zenon DEF Look
<1> HIDE DEF step, other
<1> QED BY <1>1, <1>2, <1>3, <1>4, <1>5

(* Where an execution goes after looking, recording, finishing the roots   *)
(* and binding.                                                            *)
LEMMA LookMoves ==
  ASSUME TypeOK, NEW e \in Execution, Look(e)
  PROVE  /\ At(e, "look") /\ UNCHANGED <<intent, recorded, bound, status, lease, made, sent>>
         /\ \/ /\ SlotOf(e) \in recorded
               /\ IF Successor(run[e].role) = "none" THEN Moves(e, "next", run[e].project, run[e].role)
                  ELSE Moves(e, "look", run[e].project, Successor(run[e].role))
            \/ Moves(e, "record", run[e].project, run[e].role) /\ made[SlotOf(e)] = 1
            \/ Moves(e, "failed", run[e].project, run[e].role)
            \/ Moves(e, "intend", run[e].project, run[e].role) /\ SlotOf(e) \notin intent \union recorded
<1>1. {"record", "failed", "intend"} \subseteq Step /\ run[e].role \in Role
  BY LookEffect DEF Step, TypeOK, At
<1> QED BY <1>1, LookEffect, DoneMoves, ToMoves

LEMMA RecordMoves ==
  ASSUME TypeOK, NEW e \in Execution, Record(e)
  PROVE  \/ /\ Fenced(e) /\ recorded' = recorded \union {SlotOf(e)}
            /\ IF Successor(run[e].role) = "none" THEN Moves(e, "next", run[e].project, run[e].role)
               ELSE Moves(e, "look", run[e].project, Successor(run[e].role))
         \/ Moves(e, "failed", run[e].project, run[e].role) /\ UNCHANGED recorded
<1>1. "failed" \in Step /\ run[e].role \in Role
  BY DEF Step, TypeOK, At, Record
<1> QED BY <1>1, DoneMoves, ToMoves DEF Record

LEMMA RootsReadyMoves ==
  ASSUME TypeOK, NEW e \in Execution, RootsReady(e)
  PROVE  \/ /\ Fenced(e) /\ lease' = Released(e, Inner(e))
            /\ Moves(e, "lock", run[e].project, IF run[e].project \in bound THEN "SCRIPT" ELSE "FOLDER")
         \/ Moves(e, "failed", run[e].project, run[e].role) /\ UNCHANGED lease
<1> DEFINE role == IF run[e].project \in bound THEN "SCRIPT" ELSE "FOLDER"
<1>1. CASE Fenced(e)
  <2>1. run' = [run EXCEPT ![e] = [run[e] EXCEPT !.step = "lock", !.role = role]] /\ lease' = Released(e, Inner(e))
    BY <1>1 DEF RootsReady
  <2>2. role \in Role
    BY DEF Role, ProjectRole
  <2> HIDE DEF role
  <2>3. Moves(e, "lock", run[e].project, role)
    <3>1. [run[e] EXCEPT !.step = "lock", !.role = role] \in RunRecords
      BY <2>2 DEF TypeOK, RunRecords, Step
    <3>2. run[e] \in RunRecords
      BY DEF TypeOK
    <3>3. run' \in [Execution -> RunRecords] /\ run'[e] = [run[e] EXCEPT !.step = "lock", !.role = role]
          /\ \A d \in Execution \ {e} : run'[d] = run[d]
      BY <2>1, <3>1 DEF TypeOK
    <3> QED BY <3>2, <3>3 DEF Moves, RunRecords
  <2> QED BY <1>1, <2>1, <2>3 DEF role
<1>2. CASE ~Fenced(e)
  BY <1>2, ToMoves DEF RootsReady, Step
<1> QED BY <1>1, <1>2

LEMMA BindMoves ==
  ASSUME TypeOK, NEW e \in Execution, Bind(e)
  PROVE  /\ At(e, "next") /\ run[e].role = "SPREADSHEET"
         /\ UNCHANGED <<intent, recorded, status, made, sent>>
         /\ \/ /\ bound' = bound \union {run[e].project}
               /\ lease' = [lease EXCEPT ![Inner(e)].live = FALSE]
               /\ Moves(e, "lock", run[e].project, "SCRIPT")
            \/ Moves(e, "failed", run[e].project, run[e].role) /\ UNCHANGED <<bound, lease>>
<1>0. At(e, "next") /\ run[e].role = "SPREADSHEET" /\ UNCHANGED <<intent, recorded, status, made, sent>>
  BY DEF Bind, google
<1>1. CASE run' = [run EXCEPT ![e].step = "lock", ![e].role = "SCRIPT"]
  <2>1. run' = [run EXCEPT ![e] = [run[e] EXCEPT !.step = "lock", !.role = "SCRIPT"]]
    BY <1>1
  <2>2. [run[e] EXCEPT !.step = "lock", !.role = "SCRIPT"] \in RunRecords
    BY DEF TypeOK, RunRecords, Step, Role
  <2>3. run[e] \in RunRecords
    BY DEF TypeOK
  <2>4. run' \in [Execution -> RunRecords] /\ run'[e] = [run[e] EXCEPT !.step = "lock", !.role = "SCRIPT"]
        /\ \A d \in Execution \ {e} : run'[d] = run[d]
    BY <2>1, <2>2 DEF TypeOK
  <2>5. Moves(e, "lock", run[e].project, "SCRIPT")
    BY <2>3, <2>4 DEF Moves, RunRecords
  <2>6. CASE To(e, "failed") /\ UNCHANGED <<bound, lease>>
    BY <1>0, <2>6, ToMoves DEF Step
  <2>7. CASE ~(To(e, "failed") /\ UNCHANGED <<bound, lease>>)
    BY <1>0, <2>5, <2>7 DEF Bind
  <2> QED BY <2>6, <2>7
<1>2. CASE To(e, "failed") /\ UNCHANGED <<bound, lease>>
  BY <1>0, <1>2, ToMoves DEF Step
<1> QED BY <1>1, <1>2 DEF Bind

(* A slot is made under one lease.                                         *)
LEMMA SlotHasOneLease ==
  ASSUME NEW e, NEW d, SlotOf(e) = SlotOf(d)
  PROVE  Inner(e) = Inner(d)
  BY DEF SlotOf, Inner

\* What a step may do to an execution that is about to announce its slot.
StaysNew(d) ==
  /\ run'[d] = run[d]
  /\ Holds(d, Inner(d))' => Holds(d, Inner(d))
  /\ Holds(d, Inner(d)) /\ SlotOf(d) \notin intent \union recorded => SlotOf(d) \notin intent' \union recorded'

(* It stays about to announce a new one.                                   *)
LEMMA NewStaysNew ==
  ASSUME AnnouncesTheNew,
         \A d \in Execution : At(d, "intend")' => StaysNew(d) \/ SlotOf(d)' \notin (intent \union recorded)'
  PROVE  AnnouncesTheNew'
<1> SUFFICES ASSUME NEW d \in Execution, At(d, "intend")', Holds(d, Inner(d))', StaysNew(d)
             PROVE  SlotOf(d)' \notin (intent \union recorded)'
  BY DEF AnnouncesTheNew
<1>1. At(d, "intend") /\ Holds(d, Inner(d)) /\ SlotOf(d)' = SlotOf(d)
  BY DEF StaysNew, At, SlotOf
<1> QED BY <1>1 DEF AnnouncesTheNew, StaysNew

(* What is recorded or bound stays so, hence who does not move stays in    *)
(* order.                                                                  *)
LEMMA OrderStays ==
  ASSUME RolesInOrder, NEW d \in Execution, run'[d] = run[d], recorded \subseteq recorded', bound \subseteq bound'
  PROVE  At(d, "idle")' \/ InOrder(d)'
  BY DEF RolesInOrder, InOrder, At, SlotOf

(* Every step keeps the types.                                             *)
LEMMA TypeStep ==
  ASSUME TypeOK, [Next]_vars
  PROVE  TypeOK'
<1>0. \A e \in Execution : ~At(e, "idle") =>
        run[e].project \in Project /\ run[e].role \in Role /\ SlotOf(e) \in Slot /\ Inner(e) \in Lease /\ Ensure(e) \in Lease
  BY SlotsAndLeases DEF TypeOK, SlotOf, Inner, Ensure
<1>l. /\ Free \in LeaseRecords
      /\ \A e \in Execution : [owner |-> e, live |-> TRUE] \in LeaseRecords
      /\ \A l \in Lease : /\ [lease[l] EXCEPT !.live = FALSE] \in LeaseRecords
                          /\ [lease[l] EXCEPT !.owner = None] \in LeaseRecords
  BY DEF TypeOK, LeaseRecords, Free
<1>r. Idle \in RunRecords /\ Idle.step = "idle"
  BY DEF Idle, RunRecords, Step
<1>1. ASSUME NEW e \in Execution, NEW j \in Project, Claim(e, j) PROVE TypeOK'
  <2>1. FirstRole(j) \in Role
    BY RootRoles DEF FirstRole, Role, ProjectRole
  <2>2. [step |-> "lock", project |-> j, role |-> FirstRole(j)] \in RunRecords
    BY <2>1 DEF RunRecords, Step
  <2>3. <<j, "ensure">> \in Lease
    BY DEF Lease
  <2>4. [lease EXCEPT ![<<j, "ensure">>] = [owner |-> e, live |-> TRUE]] \in [Lease -> LeaseRecords]
    BY <1>l, <2>3 DEF TypeOK
  <2>5. run' \in [Execution -> RunRecords] /\ lease' \in [Lease -> LeaseRecords]
    BY <1>1, <2>2, <2>4 DEF Claim, TypeOK
  <2>6. \A d \in Execution : At(d, "idle")' \/ (run'[d].project \in Project /\ run'[d].role \in Role)
    BY <1>1, <2>1 DEF Claim, TypeOK, At
  <2> QED BY <1>1, <2>5, <2>6, SMTT(20) DEF Claim, TypeOK, google, Fault
<1>2. ASSUME NEW e \in Execution, Lock(e) PROVE TypeOK'
  BY <1>2, <1>0, <1>l, ToMoves, SMTT(20)
     DEF Lock, TypeOK, At, Moves, Fault, google, Step
<1>3. ASSUME NEW e \in Execution, Look(e) PROVE TypeOK'
  <2>1. /\ run' \in [Execution -> RunRecords]
        /\ \A d \in Execution : At(d, "idle")' \/ (run'[d].project \in Project /\ run'[d].role \in Role)
    <3>1. CASE Done(e)
      BY <1>0, <1>3, <3>1, LookEffect, DoneMoves, Successors, SMTT(20) DEF TypeOK, At, Moves, Role, ProjectRole
    <3>2. CASE To(e, "record") \/ To(e, "failed") \/ To(e, "intend")
      BY <1>0, <1>3, <3>2, LookEffect, ToMoves, SMTT(20) DEF TypeOK, At, Moves, Step
    <3> QED BY <1>3, <3>1, <3>2, LookEffect
  <2>2. faults' \in Nat
    BY <1>3, LookEffect DEF TypeOK, Fault
  <2> QED BY <1>3, <2>1, <2>2, LookEffect DEF TypeOK, At
<1>4. ASSUME NEW e \in Execution, Intend(e) PROVE TypeOK'
  BY <1>4, <1>0, ToMoves, SMTT(20)
     DEF Intend, TypeOK, At, Moves, Fault, google, Step
<1>5. ASSUME NEW e \in Execution, Send(e) PROVE TypeOK'
  BY <1>5, <1>0, ToMoves, SMTT(20)
     DEF Send, TypeOK, At, Moves, Fault, google, Step
<1>6. ASSUME NEW e \in Execution, Answer(e) PROVE TypeOK'
  BY <1>6, <1>0, ToMoves, SMTT(20)
     DEF Answer, TypeOK, At, Moves, Fault, google, Step
<1>7. ASSUME NEW e \in Execution, LoseAnswer(e) PROVE TypeOK'
  BY <1>7, <1>0, ToMoves, SMTT(20)
     DEF LoseAnswer, TypeOK, At, Moves, Fault, google, Step
<1>8. ASSUME NEW e \in Execution, Reject(e) PROVE TypeOK'
  BY <1>8, <1>0, ToMoves, SMTT(20)
     DEF Reject, TypeOK, At, Moves, Fault, google, Step
<1>9. ASSUME NEW e \in Execution, Withdraw(e) PROVE TypeOK'
  BY <1>9, <1>0, ToMoves, SMTT(20)
     DEF Withdraw, TypeOK, At, Moves, Fault, google, Step
<1>10. ASSUME NEW e \in Execution, Record(e) PROVE TypeOK'
  <2>1. CASE To(e, "failed") /\ UNCHANGED recorded
    BY <1>0, <1>10, <2>1, ToMoves, SMTT(20) DEF Record, TypeOK, At, Moves, google, Step
  <2>2. CASE Done(e) /\ recorded' = recorded \union {SlotOf(e)}
    <3>1. /\ run' \in [Execution -> RunRecords]
          /\ \A d \in Execution : At(d, "idle")' \/ (run'[d].project \in Project /\ run'[d].role \in Role)
      BY <1>0, <1>10, <2>2, DoneMoves, Successors, SMTT(20) DEF Record, TypeOK, At, Moves, Role, ProjectRole
    <3> QED BY <1>0, <1>10, <2>2, <3>1 DEF Record, TypeOK, google, At
  <2> QED BY <1>10, <2>1, <2>2 DEF Record
<1>11. ASSUME NEW e \in Execution, RootsReady(e) PROVE TypeOK'
  <2>1. CASE Fenced(e)
    <3> DEFINE role == IF run[e].project \in bound THEN "SCRIPT" ELSE "FOLDER"
    <3>1. role \in Role
      BY DEF Role, ProjectRole
    <3>2. run' = [run EXCEPT ![e] = [run[e] EXCEPT !.step = "lock", !.role = role]]
      BY <1>11, <2>1 DEF RootsReady
    <3> HIDE DEF role
    <3>3. [run[e] EXCEPT !.step = "lock", !.role = role] \in [step : Step, project : Project, role : Role]
      BY <1>0, <1>11, <3>1 DEF RootsReady, TypeOK, RunRecords, At, Step
    <3>4. run' \in [Execution -> RunRecords]
      BY <3>2, <3>3 DEF TypeOK, RunRecords
    <3>5. \A d \in Execution : At(d, "idle")' \/ (run'[d].project \in Project /\ run'[d].role \in Role)
      <4>1. run'[e] \in [step : Step, project : Project, role : Role] /\ \A d \in Execution \ {e} : run'[d] = run[d]
        BY <3>2, <3>3 DEF TypeOK
      <4> QED BY <4>1 DEF TypeOK, At
    <3>6. lease' \in [Lease -> LeaseRecords]
      BY <1>l, <1>11, <2>1 DEF RootsReady, Released, TypeOK
    <3> QED BY <1>11, <3>4, <3>5, <3>6 DEF RootsReady, TypeOK, google
  <2>2. CASE ~Fenced(e)
    BY <1>0, <1>11, <2>2, ToMoves, SMTT(20) DEF RootsReady, TypeOK, At, Moves, google, Step
  <2> QED BY <2>1, <2>2
<1>12. ASSUME NEW e \in Execution, Bind(e) PROVE TypeOK'
  <2>1. CASE run' = [run EXCEPT ![e].step = "lock", ![e].role = "SCRIPT"] /\ lease' = [lease EXCEPT ![Inner(e)].live = FALSE]
    <3>2. run' = [run EXCEPT ![e] = [run[e] EXCEPT !.step = "lock", !.role = "SCRIPT"]]
      BY <2>1
    <3>3. [run[e] EXCEPT !.step = "lock", !.role = "SCRIPT"] \in [step : Step, project : Project, role : Role]
      BY <1>0, <1>12 DEF Bind, TypeOK, RunRecords, At, Step, Role
    <3>4. run' \in [Execution -> RunRecords]
      BY <3>2, <3>3 DEF TypeOK, RunRecords
    <3>5. \A d \in Execution : At(d, "idle")' \/ (run'[d].project \in Project /\ run'[d].role \in Role)
      <4>1. run'[e] \in [step : Step, project : Project, role : Role] /\ \A d \in Execution \ {e} : run'[d] = run[d]
        BY <3>2, <3>3 DEF TypeOK
      <4> QED BY <4>1 DEF TypeOK, At
    <3>6. lease' \in [Lease -> LeaseRecords]
      BY <1>l, <2>1 DEF TypeOK
    <3> QED BY <1>0, <1>12, <3>4, <3>5, <3>6 DEF Bind, TypeOK, google, At
  <2>2. CASE To(e, "failed") /\ UNCHANGED <<bound, lease>>
    BY <1>0, <1>12, <2>2, ToMoves, SMTT(20) DEF Bind, TypeOK, At, Moves, google, Step
  <2> QED BY <1>12, <2>1, <2>2 DEF Bind
<1>13. ASSUME NEW e \in Execution, Complete(e) PROVE TypeOK'
  <2>1. CASE Holds(e, Ensure(e))
    <3>1. run' \in [Execution -> RunRecords]
      BY <1>r, <1>13, <2>1 DEF Complete, TypeOK
    <3>2. \A d \in Execution : At(d, "idle")' \/ (run'[d].project \in Project /\ run'[d].role \in Role)
      BY <1>r, <1>13, <2>1 DEF Complete, TypeOK, At
    <3>3. lease' \in [Lease -> LeaseRecords]
      BY <1>l, <1>13, <2>1 DEF Complete, TypeOK
    <3> QED BY <1>0, <1>13, <2>1, <3>1, <3>2, <3>3 DEF Complete, TypeOK, google, At
  <2>2. CASE ~Holds(e, Ensure(e))
    BY <1>0, <1>13, <2>2, ToMoves, SMTT(20) DEF Complete, TypeOK, At, Moves, google, Step
  <2> QED BY <2>1, <2>2
<1>14. ASSUME NEW e \in Execution, Stop(e) PROVE TypeOK'
  BY <1>14, <1>0, <1>l, <1>r, SMTT(20)
     DEF Stop, TypeOK, At, Moves, Fault, google, Step
<1>15. ASSUME NEW e \in Execution, Crash(e) PROVE TypeOK'
  <2>1. lease' \in [Lease -> LeaseRecords]
    BY <1>15, <1>l DEF Crash, TypeOK
  <2>2. run' \in [Execution -> RunRecords]
    BY <1>15, <1>r DEF Crash, TypeOK
  <2>3. \A d \in Execution : At(d, "idle")' \/ (run'[d].project \in Project /\ run'[d].role \in Role)
    BY <1>15, <1>r DEF Crash, TypeOK, At
  <2> QED BY <1>15, <2>1, <2>2, <2>3 DEF Crash, TypeOK, google, Fault
<1>16. ASSUME NEW j \in Project, RecoverScript(j) PROVE TypeOK'
  <2>1. <<j, "SCRIPT">> \in Slot
    BY DEF Slot
  <2> QED BY <1>16, <2>1 DEF RecoverScript, TypeOK, google, At
<1>17. ASSUME NEW l \in Lease, ExpireAbandoned(l) PROVE TypeOK'
  <2>1. lease' \in [Lease -> LeaseRecords]
    BY <1>17, <1>l DEF ExpireAbandoned, TypeOK
  <2> QED BY <1>17, <2>1 DEF ExpireAbandoned, TypeOK, google, At
<1>18. ASSUME NEW l \in Lease, ExpireSlow(l) PROVE TypeOK'
  <2>1. lease' \in [Lease -> LeaseRecords]
    BY <1>18, <1>l DEF ExpireSlow, TypeOK
  <2> QED BY <1>18, <2>1 DEF ExpireSlow, TypeOK, google, Fault, At
<1>19. ASSUME NEW s \in Slot, LandLate(s) PROVE TypeOK'
  BY <1>19, <1>0, SMTT(20)
     DEF LandLate, TypeOK, At, Moves, Fault, google, Step
<1>20. CASE UNCHANGED vars
  BY <1>20, <1>0 DEF vars, google, TypeOK, At, Moves, Fault, google, Step
<1> QED BY <1>1, <1>2, <1>3, <1>4, <1>5, <1>6, <1>7, <1>8, <1>9, <1>10, <1>11, <1>12, <1>13, <1>14, <1>15, <1>16, <1>17, <1>18, <1>19, <1>20 DEF Next, Proceed


(* At most one execution has announced a slot and waits for its fate.      *)
LEMMA AnnouncedStep ==
  ASSUME Inductive, [Next]_vars
  PROVE  AnnouncedByOne'
<1> USE DEF Inductive, TypeOK
<1>1. ASSUME NEW e \in Execution, NEW j \in Project, Claim(e, j) PROVE AnnouncedByOne'
  BY <1>1, SMTT(20)
     DEF Claim, AnnouncedByOne, Announcing, At, Moves, SlotOf, Step, google, Idle
<1>2. ASSUME NEW e \in Execution, Lock(e) PROVE AnnouncedByOne'
  BY <1>2, ToMoves, SMTT(20)
     DEF Lock, AnnouncedByOne, Announcing, At, Moves, SlotOf, Step, google, Idle
<1>3. ASSUME NEW e \in Execution, Look(e) PROVE AnnouncedByOne'
  <2>1. /\ run'[e].step \notin {"send", "wait", "withdraw"}
        /\ \A d \in Execution \ {e} : run'[d] = run[d]
        /\ UNCHANGED <<intent, made, sent>>
    BY <1>3, LookMoves DEF Moves
  <2> QED BY <2>1 DEF AnnouncedByOne, Announcing, SlotOf
<1>4. ASSUME NEW e \in Execution, Intend(e) PROVE AnnouncedByOne'
  BY <1>4, ToMoves, SMTT(20)
     DEF Intend, AnnouncedByOne, Announcing, At, Moves, SlotOf, Step, google, Idle, AnnouncesTheNew, Fenced, Holds
<1>5. ASSUME NEW e \in Execution, Send(e) PROVE AnnouncedByOne'
  BY <1>5, ToMoves, SMTT(20)
     DEF Send, AnnouncedByOne, Announcing, At, Moves, SlotOf, Step, google, Idle
<1>6. ASSUME NEW e \in Execution, Answer(e) PROVE AnnouncedByOne'
  BY <1>6, ToMoves, SMTT(20)
     DEF Answer, AnnouncedByOne, Announcing, At, Moves, SlotOf, Step, google, Idle
<1>7. ASSUME NEW e \in Execution, LoseAnswer(e) PROVE AnnouncedByOne'
  BY <1>7, ToMoves, SMTT(20)
     DEF LoseAnswer, AnnouncedByOne, Announcing, At, Moves, SlotOf, Step, google, Idle
<1>8. ASSUME NEW e \in Execution, Reject(e) PROVE AnnouncedByOne'
  BY <1>8, ToMoves, SMTT(20)
     DEF Reject, AnnouncedByOne, Announcing, At, Moves, SlotOf, Step, google, Idle
<1>9. ASSUME NEW e \in Execution, Withdraw(e) PROVE AnnouncedByOne'
  BY <1>9, ToMoves, SMTT(20)
     DEF Withdraw, AnnouncedByOne, Announcing, At, Moves, SlotOf, Step, google, Idle
<1>10. ASSUME NEW e \in Execution, Record(e) PROVE AnnouncedByOne'
  BY <1>10, RecordMoves, SMTT(20)
     DEF Record, AnnouncedByOne, Announcing, At, Moves, SlotOf, Step, google, Idle
<1>11. ASSUME NEW e \in Execution, RootsReady(e) PROVE AnnouncedByOne'
  BY <1>11, RootsReadyMoves, SMTT(20)
     DEF RootsReady, AnnouncedByOne, Announcing, At, Moves, SlotOf, Step, google, Idle
<1>12. ASSUME NEW e \in Execution, Bind(e) PROVE AnnouncedByOne'
  BY <1>12, BindMoves, SMTT(20)
     DEF AnnouncedByOne, Announcing, At, Moves, SlotOf, Step, google, Idle
<1>13. ASSUME NEW e \in Execution, Complete(e) PROVE AnnouncedByOne'
  BY <1>13, ToMoves, SMTT(20)
     DEF Complete, AnnouncedByOne, Announcing, At, Moves, SlotOf, Step, google, Idle
<1>14. ASSUME NEW e \in Execution, Stop(e) PROVE AnnouncedByOne'
  BY <1>14, SMTT(20)
     DEF Stop, AnnouncedByOne, Announcing, At, Moves, SlotOf, Step, google, Idle
<1>15. ASSUME NEW e \in Execution, Crash(e) PROVE AnnouncedByOne'
  BY <1>15, SMTT(20)
     DEF Crash, AnnouncedByOne, Announcing, At, Moves, SlotOf, Step, google, Idle
<1>16. ASSUME NEW j \in Project, RecoverScript(j) PROVE AnnouncedByOne'
  BY <1>16, SMTT(20)
     DEF RecoverScript, AnnouncedByOne, Announcing, At, Moves, SlotOf, Step, google, Idle
<1>17. ASSUME NEW l \in Lease, ExpireAbandoned(l) PROVE AnnouncedByOne'
  BY <1>17, SMTT(20)
     DEF ExpireAbandoned, AnnouncedByOne, Announcing, At, Moves, SlotOf, Step, google, Idle
<1>18. ASSUME NEW l \in Lease, ExpireSlow(l) PROVE AnnouncedByOne'
  BY <1>18, SMTT(20)
     DEF ExpireSlow, AnnouncedByOne, Announcing, At, Moves, SlotOf, Step, google, Idle
<1>19. ASSUME NEW s \in Slot, LandLate(s) PROVE AnnouncedByOne'
  BY <1>19, SMTT(20)
     DEF LandLate, AnnouncedByOne, Announcing, At, Moves, SlotOf, Step, google, Idle
<1>20. CASE UNCHANGED vars
  BY <1>20 DEF vars, google, AnnouncedByOne, Announcing, At, Moves, SlotOf, Step, google, Idle
<1> QED BY <1>1, <1>2, <1>3, <1>4, <1>5, <1>6, <1>7, <1>8, <1>9, <1>10, <1>11, <1>12, <1>13, <1>14, <1>15, <1>16, <1>17, <1>18, <1>19, <1>20 DEF Next, Proceed

(* Nothing exists or is on its way where nothing was announced.            *)
LEMMA UnannouncedStep ==
  ASSUME Inductive, [Next]_vars
  PROVE  NothingUnannounced'
<1>t. /\ TypeOK /\ MadeOnce /\ RecordedExists /\ ReadyIsWhole
      /\ AnnouncedByOne /\ NothingUnannounced /\ NotYetSent /\ RecordsTheMade /\ AnnouncesTheNew /\ RolesInOrder
  BY DEF Inductive
<1>m. made \in [Slot -> Nat] /\ sent \in [Slot -> Nat] /\ intent \subseteq Slot /\ recorded \subseteq Slot
      /\ run \in [Execution -> RunRecords]
  BY <1>t DEF TypeOK
<1>0. \A e \in Execution : ~At(e, "idle") => SlotOf(e) \in Slot
  BY <1>t, SlotsAndLeases DEF TypeOK, SlotOf
<1>1. ASSUME NEW e \in Execution, NEW j \in Project, Claim(e, j) PROVE NothingUnannounced'
  BY <1>1, <1>m, <1>0, <1>t, SMTT(20)
     DEF Claim, NothingUnannounced, At, google
<1>2. ASSUME NEW e \in Execution, Lock(e) PROVE NothingUnannounced'
  BY <1>2, <1>m, <1>0, ToMoves, <1>t, SMTT(20)
     DEF Lock, NothingUnannounced, At, google
<1>3. ASSUME NEW e \in Execution, Look(e) PROVE NothingUnannounced'
  BY <1>3, <1>m, <1>0, LookMoves, <1>t, SMTT(20)
     DEF NothingUnannounced, At, google
<1>4. ASSUME NEW e \in Execution, Intend(e) PROVE NothingUnannounced'
  BY <1>4, <1>m, <1>0, ToMoves, <1>t, SMTT(20)
     DEF Intend, NothingUnannounced, At, google
<1>5. ASSUME NEW e \in Execution, Send(e) PROVE NothingUnannounced'
  BY <1>5, <1>m, <1>0, ToMoves, <1>t, SMTT(20)
     DEF Send, NothingUnannounced, At, google, AnnouncedByOne, Announcing
<1>6. ASSUME NEW e \in Execution, Answer(e) PROVE NothingUnannounced'
  BY <1>6, <1>m, <1>0, ToMoves, <1>t, SMTT(20)
     DEF Answer, NothingUnannounced, At, google, AnnouncedByOne, Announcing
<1>7. ASSUME NEW e \in Execution, LoseAnswer(e) PROVE NothingUnannounced'
  BY <1>7, <1>m, <1>0, ToMoves, <1>t, SMTT(20)
     DEF LoseAnswer, NothingUnannounced, At, google
<1>8. ASSUME NEW e \in Execution, Reject(e) PROVE NothingUnannounced'
  BY <1>8, <1>m, <1>0, ToMoves, <1>t, SMTT(20)
     DEF Reject, NothingUnannounced, At, google, AnnouncedByOne, Announcing
<1>9. ASSUME NEW e \in Execution, Withdraw(e) PROVE NothingUnannounced'
  BY <1>9, <1>m, <1>0, ToMoves, <1>t, SMTT(20)
     DEF Withdraw, NothingUnannounced, At, google, NotYetSent
<1>10. ASSUME NEW e \in Execution, Record(e) PROVE NothingUnannounced'
  BY <1>10, <1>m, <1>0, RecordMoves, <1>t, SMTT(20)
     DEF Record, NothingUnannounced, At, google
<1>11. ASSUME NEW e \in Execution, RootsReady(e) PROVE NothingUnannounced'
  BY <1>11, <1>m, <1>0, RootsReadyMoves, <1>t, SMTT(20)
     DEF RootsReady, NothingUnannounced, At, google
<1>12. ASSUME NEW e \in Execution, Bind(e) PROVE NothingUnannounced'
  BY <1>12, <1>m, <1>0, BindMoves, <1>t, SMTT(20)
     DEF NothingUnannounced, At, google
<1>13. ASSUME NEW e \in Execution, Complete(e) PROVE NothingUnannounced'
  BY <1>13, <1>m, <1>0, ToMoves, <1>t, SMTT(20)
     DEF Complete, NothingUnannounced, At, google
<1>14. ASSUME NEW e \in Execution, Stop(e) PROVE NothingUnannounced'
  BY <1>14, <1>m, <1>0, <1>t, SMTT(20)
     DEF Stop, NothingUnannounced, At, google
<1>15. ASSUME NEW e \in Execution, Crash(e) PROVE NothingUnannounced'
  BY <1>15, <1>m, <1>0, <1>t, SMTT(20)
     DEF Crash, NothingUnannounced, At, google
<1>16. ASSUME NEW j \in Project, RecoverScript(j) PROVE NothingUnannounced'
  BY <1>16, <1>m, <1>0, <1>t, SMTT(20)
     DEF RecoverScript, NothingUnannounced, At, google
<1>17. ASSUME NEW l \in Lease, ExpireAbandoned(l) PROVE NothingUnannounced'
  BY <1>17, <1>m, <1>0, <1>t, SMTT(20)
     DEF ExpireAbandoned, NothingUnannounced, At, google
<1>18. ASSUME NEW l \in Lease, ExpireSlow(l) PROVE NothingUnannounced'
  BY <1>18, <1>m, <1>0, <1>t, SMTT(20)
     DEF ExpireSlow, NothingUnannounced, At, google
<1>19. ASSUME NEW s \in Slot, LandLate(s) PROVE NothingUnannounced'
  BY <1>19, <1>m, <1>0, <1>t, SMTT(20)
     DEF LandLate, NothingUnannounced, At, google
<1>20. CASE UNCHANGED vars
  BY <1>20, <1>m, <1>0, <1>t DEF vars, google, NothingUnannounced, At, google
<1> QED BY <1>1, <1>2, <1>3, <1>4, <1>5, <1>6, <1>7, <1>8, <1>9, <1>10, <1>11, <1>12, <1>13, <1>14, <1>15, <1>16, <1>17, <1>18, <1>19, <1>20 DEF Next, Proceed

(* An announced request that is not sent, or was refused, made nothing.    *)
LEMMA NotYetSentStep ==
  ASSUME Inductive, [Next]_vars
  PROVE  NotYetSent'
<1>t. /\ TypeOK /\ MadeOnce /\ RecordedExists /\ ReadyIsWhole
      /\ AnnouncedByOne /\ NothingUnannounced /\ NotYetSent /\ RecordsTheMade /\ AnnouncesTheNew /\ RolesInOrder
  BY DEF Inductive
<1>m. made \in [Slot -> Nat] /\ sent \in [Slot -> Nat] /\ intent \subseteq Slot /\ recorded \subseteq Slot
      /\ run \in [Execution -> RunRecords]
  BY <1>t DEF TypeOK
<1>0. \A e \in Execution : ~At(e, "idle") => SlotOf(e) \in Slot
  BY <1>t, SlotsAndLeases DEF TypeOK, SlotOf
<1>1. ASSUME NEW e \in Execution, NEW j \in Project, Claim(e, j) PROVE NotYetSent'
  BY <1>1, <1>m, <1>0, <1>t, SMTT(20)
     DEF Claim, NotYetSent, At, Moves, SlotOf, Step, google, Idle
<1>2. ASSUME NEW e \in Execution, Lock(e) PROVE NotYetSent'
  BY <1>2, <1>m, <1>0, ToMoves, <1>t, SMTT(20)
     DEF Lock, NotYetSent, At, Moves, SlotOf, Step, google, Idle
<1>3. ASSUME NEW e \in Execution, Look(e) PROVE NotYetSent'
  <2>1. /\ run'[e].step \notin {"send", "wait", "withdraw"}
        /\ \A d \in Execution \ {e} : run'[d] = run[d]
        /\ UNCHANGED <<intent, made, sent>>
    BY <1>t, <1>3, LookMoves DEF Moves
  <2> QED BY <1>t, <2>1 DEF NotYetSent, SlotOf
<1>4. ASSUME NEW e \in Execution, Intend(e) PROVE NotYetSent'
  BY <1>4, <1>m, <1>0, ToMoves, <1>t, SMTT(20)
     DEF Intend, NotYetSent, At, Moves, SlotOf, Step, google, Idle, NothingUnannounced, AnnouncesTheNew, Fenced
<1>5. ASSUME NEW e \in Execution, Send(e) PROVE NotYetSent'
  BY <1>5, <1>m, <1>0, ToMoves, <1>t, SMTT(20)
     DEF Send, NotYetSent, At, Moves, SlotOf, Step, google, Idle, AnnouncedByOne, Announcing
<1>6. ASSUME NEW e \in Execution, Answer(e) PROVE NotYetSent'
  BY <1>6, <1>m, <1>0, ToMoves, <1>t, SMTT(20)
     DEF Answer, NotYetSent, At, Moves, SlotOf, Step, google, Idle, AnnouncedByOne, Announcing
<1>7. ASSUME NEW e \in Execution, LoseAnswer(e) PROVE NotYetSent'
  BY <1>7, <1>m, <1>0, ToMoves, <1>t, SMTT(20)
     DEF LoseAnswer, NotYetSent, At, Moves, SlotOf, Step, google, Idle
<1>8. ASSUME NEW e \in Execution, Reject(e) PROVE NotYetSent'
  <2>1. made[SlotOf(e)] = 0 /\ sent'[SlotOf(e)] = 0 /\ made' = made
    BY <1>t, <1>m, <1>0, <1>8 DEF Reject, At, MadeOnce
  <2>2. \A s \in Slot : s # SlotOf(e) => sent'[s] = sent[s]
    BY <1>m, <1>8 DEF Reject
  <2>3. \E step \in Step : Moves(e, step, run[e].project, run[e].role)
    BY <1>t, <1>8, ToMoves DEF Reject, Step
  <2>4. \A d \in Execution : run'[d].role = run[d].role /\ run'[d].project = run[d].project /\ (d = e \/ run'[d] = run[d])
    BY <2>3 DEF Moves
  <2> QED BY <1>t, <1>0, <2>1, <2>2, <2>4 DEF NotYetSent, SlotOf, At
<1>9. ASSUME NEW e \in Execution, Withdraw(e) PROVE NotYetSent'
  BY <1>9, <1>m, <1>0, ToMoves, <1>t, SMTT(20)
     DEF Withdraw, NotYetSent, At, Moves, SlotOf, Step, google, Idle
<1>10. ASSUME NEW e \in Execution, Record(e) PROVE NotYetSent'
  BY <1>10, <1>m, <1>0, RecordMoves, <1>t, SMTT(20)
     DEF Record, NotYetSent, At, Moves, SlotOf, Step, google, Idle
<1>11. ASSUME NEW e \in Execution, RootsReady(e) PROVE NotYetSent'
  BY <1>11, <1>m, <1>0, RootsReadyMoves, <1>t, SMTT(20)
     DEF RootsReady, NotYetSent, At, Moves, SlotOf, Step, google, Idle
<1>12. ASSUME NEW e \in Execution, Bind(e) PROVE NotYetSent'
  BY <1>12, <1>m, <1>0, BindMoves, <1>t, SMTT(20)
     DEF NotYetSent, At, Moves, SlotOf, Step, google, Idle
<1>13. ASSUME NEW e \in Execution, Complete(e) PROVE NotYetSent'
  BY <1>13, <1>m, <1>0, ToMoves, <1>t, SMTT(20)
     DEF Complete, NotYetSent, At, Moves, SlotOf, Step, google, Idle
<1>14. ASSUME NEW e \in Execution, Stop(e) PROVE NotYetSent'
  BY <1>14, <1>m, <1>0, <1>t, SMTT(20)
     DEF Stop, NotYetSent, At, Moves, SlotOf, Step, google, Idle
<1>15. ASSUME NEW e \in Execution, Crash(e) PROVE NotYetSent'
  BY <1>15, <1>m, <1>0, <1>t, SMTT(20)
     DEF Crash, NotYetSent, At, Moves, SlotOf, Step, google, Idle
<1>16. ASSUME NEW j \in Project, RecoverScript(j) PROVE NotYetSent'
  BY <1>16, <1>m, <1>0, <1>t, SMTT(20)
     DEF RecoverScript, NotYetSent, At, Moves, SlotOf, Step, google, Idle
<1>17. ASSUME NEW l \in Lease, ExpireAbandoned(l) PROVE NotYetSent'
  BY <1>17, <1>m, <1>0, <1>t, SMTT(20)
     DEF ExpireAbandoned, NotYetSent, At, Moves, SlotOf, Step, google, Idle
<1>18. ASSUME NEW l \in Lease, ExpireSlow(l) PROVE NotYetSent'
  BY <1>18, <1>m, <1>0, <1>t, SMTT(20)
     DEF ExpireSlow, NotYetSent, At, Moves, SlotOf, Step, google, Idle
<1>19. ASSUME NEW s \in Slot, LandLate(s) PROVE NotYetSent'
  BY <1>19, <1>m, <1>0, <1>t, SMTT(20)
     DEF LandLate, NotYetSent, At, Moves, SlotOf, Step, google, Idle
<1>20. CASE UNCHANGED vars
  BY <1>20, <1>m, <1>0, <1>t DEF vars, google, NotYetSent, At, Moves, SlotOf, Step, google, Idle
<1> QED BY <1>1, <1>2, <1>3, <1>4, <1>5, <1>6, <1>7, <1>8, <1>9, <1>10, <1>11, <1>12, <1>13, <1>14, <1>15, <1>16, <1>17, <1>18, <1>19, <1>20 DEF Next, Proceed

(* An execution records the id of a resource that was made.                *)
LEMMA RecordStep ==
  ASSUME Inductive, [Next]_vars
  PROVE  RecordsTheMade'
<1>t. /\ TypeOK /\ MadeOnce /\ RecordedExists /\ ReadyIsWhole
      /\ AnnouncedByOne /\ NothingUnannounced /\ NotYetSent /\ RecordsTheMade /\ AnnouncesTheNew /\ RolesInOrder
  BY DEF Inductive
<1>m. made \in [Slot -> Nat] /\ sent \in [Slot -> Nat] /\ intent \subseteq Slot /\ recorded \subseteq Slot
      /\ run \in [Execution -> RunRecords]
  BY <1>t DEF TypeOK
<1>0. \A e \in Execution : ~At(e, "idle") => SlotOf(e) \in Slot
  BY <1>t, SlotsAndLeases DEF TypeOK, SlotOf
<1>1. ASSUME NEW e \in Execution, NEW j \in Project, Claim(e, j) PROVE RecordsTheMade'
  BY <1>1, <1>m, <1>0, <1>t, SMTT(20)
     DEF Claim, RecordsTheMade, At, Moves, SlotOf, Step, google, Idle
<1>2. ASSUME NEW e \in Execution, Lock(e) PROVE RecordsTheMade'
  BY <1>2, <1>m, <1>0, ToMoves, <1>t, SMTT(20)
     DEF Lock, RecordsTheMade, At, Moves, SlotOf, Step, google, Idle
<1>3. ASSUME NEW e \in Execution, Look(e) PROVE RecordsTheMade'
  <2>1. /\ run'[e].step = "record" => run'[e].role = run[e].role /\ run'[e].project = run[e].project /\ made[SlotOf(e)] = 1
        /\ \A d \in Execution \ {e} : run'[d] = run[d]
        /\ UNCHANGED <<intent, made, sent>>
    BY <1>t, <1>3, LookMoves DEF Moves
  <2> QED BY <1>t, <2>1 DEF RecordsTheMade, At, SlotOf
<1>4. ASSUME NEW e \in Execution, Intend(e) PROVE RecordsTheMade'
  BY <1>4, <1>m, <1>0, ToMoves, <1>t, SMTT(20)
     DEF Intend, RecordsTheMade, At, Moves, SlotOf, Step, google, Idle
<1>5. ASSUME NEW e \in Execution, Send(e) PROVE RecordsTheMade'
  BY <1>5, <1>m, <1>0, ToMoves, <1>t, SMTT(20)
     DEF Send, RecordsTheMade, At, Moves, SlotOf, Step, google, Idle
<1>6. ASSUME NEW e \in Execution, Answer(e) PROVE RecordsTheMade'
  BY <1>6, <1>m, <1>0, ToMoves, <1>t, SMTT(20)
     DEF Answer, RecordsTheMade, At, Moves, SlotOf, Step, google, Idle
<1>7. ASSUME NEW e \in Execution, LoseAnswer(e) PROVE RecordsTheMade'
  BY <1>7, <1>m, <1>0, ToMoves, <1>t, SMTT(20)
     DEF LoseAnswer, RecordsTheMade, At, Moves, SlotOf, Step, google, Idle
<1>8. ASSUME NEW e \in Execution, Reject(e) PROVE RecordsTheMade'
  BY <1>8, <1>m, <1>0, ToMoves, <1>t, SMTT(20)
     DEF Reject, RecordsTheMade, At, Moves, SlotOf, Step, google, Idle
<1>9. ASSUME NEW e \in Execution, Withdraw(e) PROVE RecordsTheMade'
  BY <1>9, <1>m, <1>0, ToMoves, <1>t, SMTT(20)
     DEF Withdraw, RecordsTheMade, At, Moves, SlotOf, Step, google, Idle
<1>10. ASSUME NEW e \in Execution, Record(e) PROVE RecordsTheMade'
  BY <1>10, <1>m, <1>0, RecordMoves, <1>t, SMTT(20)
     DEF Record, RecordsTheMade, At, Moves, SlotOf, Step, google, Idle
<1>11. ASSUME NEW e \in Execution, RootsReady(e) PROVE RecordsTheMade'
  BY <1>11, <1>m, <1>0, RootsReadyMoves, <1>t, SMTT(20)
     DEF RootsReady, RecordsTheMade, At, Moves, SlotOf, Step, google, Idle
<1>12. ASSUME NEW e \in Execution, Bind(e) PROVE RecordsTheMade'
  BY <1>12, <1>m, <1>0, BindMoves, <1>t, SMTT(20)
     DEF RecordsTheMade, At, Moves, SlotOf, Step, google, Idle
<1>13. ASSUME NEW e \in Execution, Complete(e) PROVE RecordsTheMade'
  BY <1>13, <1>m, <1>0, ToMoves, <1>t, SMTT(20)
     DEF Complete, RecordsTheMade, At, Moves, SlotOf, Step, google, Idle
<1>14. ASSUME NEW e \in Execution, Stop(e) PROVE RecordsTheMade'
  BY <1>14, <1>m, <1>0, <1>t, SMTT(20)
     DEF Stop, RecordsTheMade, At, Moves, SlotOf, Step, google, Idle
<1>15. ASSUME NEW e \in Execution, Crash(e) PROVE RecordsTheMade'
  BY <1>15, <1>m, <1>0, <1>t, SMTT(20)
     DEF Crash, RecordsTheMade, At, Moves, SlotOf, Step, google, Idle
<1>16. ASSUME NEW j \in Project, RecoverScript(j) PROVE RecordsTheMade'
  BY <1>16, <1>m, <1>0, <1>t, SMTT(20)
     DEF RecoverScript, RecordsTheMade, At, Moves, SlotOf, Step, google, Idle
<1>17. ASSUME NEW l \in Lease, ExpireAbandoned(l) PROVE RecordsTheMade'
  BY <1>17, <1>m, <1>0, <1>t, SMTT(20)
     DEF ExpireAbandoned, RecordsTheMade, At, Moves, SlotOf, Step, google, Idle
<1>18. ASSUME NEW l \in Lease, ExpireSlow(l) PROVE RecordsTheMade'
  BY <1>18, <1>m, <1>0, <1>t, SMTT(20)
     DEF ExpireSlow, RecordsTheMade, At, Moves, SlotOf, Step, google, Idle
<1>19. ASSUME NEW s \in Slot, LandLate(s) PROVE RecordsTheMade'
  BY <1>19, <1>m, <1>0, <1>t, SMTT(20)
     DEF LandLate, RecordsTheMade, At, Moves, SlotOf, Step, google, Idle
<1>20. CASE UNCHANGED vars
  BY <1>20, <1>m, <1>0, <1>t DEF vars, google, RecordsTheMade, At, Moves, SlotOf, Step, google, Idle
<1> QED BY <1>1, <1>2, <1>3, <1>4, <1>5, <1>6, <1>7, <1>8, <1>9, <1>10, <1>11, <1>12, <1>13, <1>14, <1>15, <1>16, <1>17, <1>18, <1>19, <1>20 DEF Next, Proceed

(* No resource is made twice.                                              *)
LEMMA MadeOnceStep ==
  ASSUME Inductive, [Next]_vars
  PROVE  MadeOnce'
<1>t. /\ TypeOK /\ MadeOnce /\ RecordedExists /\ ReadyIsWhole
      /\ AnnouncedByOne /\ NothingUnannounced /\ NotYetSent /\ RecordsTheMade /\ AnnouncesTheNew /\ RolesInOrder
  BY DEF Inductive
<1>m. made \in [Slot -> Nat] /\ sent \in [Slot -> Nat] /\ intent \subseteq Slot /\ recorded \subseteq Slot
      /\ run \in [Execution -> RunRecords]
  BY <1>t DEF TypeOK
<1>0. \A e \in Execution : ~At(e, "idle") => SlotOf(e) \in Slot
  BY <1>t, SlotsAndLeases DEF TypeOK, SlotOf
<1>1. ASSUME NEW e \in Execution, NEW j \in Project, Claim(e, j) PROVE MadeOnce'
  BY <1>1, <1>m, <1>0, <1>t, SMTT(20)
     DEF Claim, MadeOnce, google, At
<1>2. ASSUME NEW e \in Execution, Lock(e) PROVE MadeOnce'
  BY <1>2, <1>m, <1>0, <1>t, SMTT(20)
     DEF Lock, MadeOnce, google, At
<1>3. ASSUME NEW e \in Execution, Look(e) PROVE MadeOnce'
  BY <1>3, <1>m, <1>0, LookMoves, <1>t, SMTT(20)
     DEF MadeOnce, google, At
<1>4. ASSUME NEW e \in Execution, Intend(e) PROVE MadeOnce'
  BY <1>4, <1>m, <1>0, <1>t, SMTT(20)
     DEF Intend, MadeOnce, google, At
<1>5. ASSUME NEW e \in Execution, Send(e) PROVE MadeOnce'
  BY <1>5, <1>m, <1>0, <1>t, SMTT(20)
     DEF Send, MadeOnce, google, At, NotYetSent
<1>6. ASSUME NEW e \in Execution, Answer(e) PROVE MadeOnce'
  BY <1>6, <1>m, <1>0, <1>t, SMTT(20)
     DEF Answer, MadeOnce, google, At
<1>7. ASSUME NEW e \in Execution, LoseAnswer(e) PROVE MadeOnce'
  BY <1>7, <1>m, <1>0, <1>t, SMTT(20)
     DEF LoseAnswer, MadeOnce, google, At
<1>8. ASSUME NEW e \in Execution, Reject(e) PROVE MadeOnce'
  BY <1>8, <1>m, <1>0, <1>t, SMTT(20)
     DEF Reject, MadeOnce, google, At
<1>9. ASSUME NEW e \in Execution, Withdraw(e) PROVE MadeOnce'
  BY <1>9, <1>m, <1>0, <1>t, SMTT(20)
     DEF Withdraw, MadeOnce, google, At
<1>10. ASSUME NEW e \in Execution, Record(e) PROVE MadeOnce'
  BY <1>10, <1>m, <1>0, <1>t, SMTT(20)
     DEF Record, MadeOnce, google, At
<1>11. ASSUME NEW e \in Execution, RootsReady(e) PROVE MadeOnce'
  BY <1>11, <1>m, <1>0, <1>t, SMTT(20)
     DEF RootsReady, MadeOnce, google, At
<1>12. ASSUME NEW e \in Execution, Bind(e) PROVE MadeOnce'
  BY <1>12, <1>m, <1>0, BindMoves, <1>t, SMTT(20)
     DEF MadeOnce, google, At
<1>13. ASSUME NEW e \in Execution, Complete(e) PROVE MadeOnce'
  BY <1>13, <1>m, <1>0, <1>t, SMTT(20)
     DEF Complete, MadeOnce, google, At
<1>14. ASSUME NEW e \in Execution, Stop(e) PROVE MadeOnce'
  BY <1>14, <1>m, <1>0, <1>t, SMTT(20)
     DEF Stop, MadeOnce, google, At
<1>15. ASSUME NEW e \in Execution, Crash(e) PROVE MadeOnce'
  BY <1>15, <1>m, <1>0, <1>t, SMTT(20)
     DEF Crash, MadeOnce, google, At
<1>16. ASSUME NEW j \in Project, RecoverScript(j) PROVE MadeOnce'
  BY <1>16, <1>m, <1>0, <1>t, SMTT(20)
     DEF RecoverScript, MadeOnce, google, At
<1>17. ASSUME NEW l \in Lease, ExpireAbandoned(l) PROVE MadeOnce'
  BY <1>17, <1>m, <1>0, <1>t, SMTT(20)
     DEF ExpireAbandoned, MadeOnce, google, At
<1>18. ASSUME NEW l \in Lease, ExpireSlow(l) PROVE MadeOnce'
  BY <1>18, <1>m, <1>0, <1>t, SMTT(20)
     DEF ExpireSlow, MadeOnce, google, At
<1>19. ASSUME NEW s \in Slot, LandLate(s) PROVE MadeOnce'
  BY <1>19, <1>m, <1>0, <1>t, SMTT(20)
     DEF LandLate, MadeOnce, google, At
<1>20. CASE UNCHANGED vars
  BY <1>20, <1>m, <1>0, <1>t DEF vars, google, MadeOnce, google, At
<1> QED BY <1>1, <1>2, <1>3, <1>4, <1>5, <1>6, <1>7, <1>8, <1>9, <1>10, <1>11, <1>12, <1>13, <1>14, <1>15, <1>16, <1>17, <1>18, <1>19, <1>20 DEF Next, Proceed

(* An execution that holds its lease announces what nobody has announced.  *)
LEMMA NewStep ==
  ASSUME Inductive, [Next]_vars
  PROVE  AnnouncesTheNew'
<1>t. /\ TypeOK /\ MadeOnce /\ RecordedExists /\ ReadyIsWhole
      /\ AnnouncedByOne /\ NothingUnannounced /\ NotYetSent /\ RecordsTheMade /\ AnnouncesTheNew /\ RolesInOrder
  BY DEF Inductive
<1>m. lease \in [Lease -> LeaseRecords] /\ made \in [Slot -> Nat] /\ sent \in [Slot -> Nat] /\ intent \subseteq Slot /\ recorded \subseteq Slot
      /\ run \in [Execution -> RunRecords]
  BY <1>t DEF TypeOK
<1>0. \A e \in Execution : ~At(e, "idle") => SlotOf(e) \in Slot /\ Inner(e) \in Lease
  BY <1>t, SlotsAndLeases DEF TypeOK, SlotOf, Inner
<1>1. ASSUME NEW e \in Execution, NEW j \in Project, Claim(e, j) PROVE AnnouncesTheNew'
  <2>1. \A d \in Execution : At(d, "intend")' => d # e /\ run'[d] = run[d]
    BY <1>m, <1>1 DEF Claim, At
  <2>2. \A l \in Lease : l # <<j, "ensure">> => lease'[l] = lease[l]
    BY <1>m, <1>1 DEF Claim
  <2>3. \A d \in Execution : ~At(d, "idle") => Inner(d)[2] # "ensure"
    BY <1>t, RootRoles DEF TypeOK, Inner, InnerKind, Role, ProjectRole
  <2>4. \A d \in Execution : At(d, "intend")' => StaysNew(d)
    BY <1>0, <1>1, <2>1, <2>2, <2>3 DEF Claim, Holds, Inner, StaysNew, At
  <2> QED BY <1>t, <2>4, NewStaysNew
<1>2. ASSUME NEW e \in Execution, Lock(e) PROVE AnnouncesTheNew'
  <2>1. \A d \in Execution : At(d, "intend")' => d # e /\ run'[d] = run[d]
    BY <1>t, <1>2, ToMoves DEF Lock, Moves, Step, At
  <2>2. \A l \in Lease : lease'[l] = lease[l] \/ lease'[l].owner = e
    BY <1>m, <1>2 DEF Lock
  <2>3. \A d \in Execution : At(d, "intend")' => StaysNew(d)
    BY <1>0, <1>2, <2>1, <2>2 DEF Lock, Holds, Inner, StaysNew, At
  <2> QED BY <1>t, <2>3, NewStaysNew
<1>3. ASSUME NEW e \in Execution, Look(e) PROVE AnnouncesTheNew'
  <2>1. UNCHANGED <<intent, recorded, lease>> /\ \A d \in Execution \ {e} : run'[d] = run[d]
    BY <1>t, <1>3, LookMoves DEF Moves
  <2>2. \A d \in Execution \ {e} : At(d, "intend")' => StaysNew(d)
    BY <2>1 DEF Holds, Inner, StaysNew
  <2>3. At(e, "intend")' => SlotOf(e)' \notin (intent \union recorded)'
    BY <1>t, <1>3, LookMoves DEF Moves, At, SlotOf
  <2> QED BY <1>t, <2>2, <2>3, NewStaysNew
<1>4. ASSUME NEW e \in Execution, Intend(e) PROVE AnnouncesTheNew'
  BY <1>4, <1>m, <1>0, ToMoves, <1>t, SMTT(20)
     DEF Intend, AnnouncesTheNew, Holds, Inner, LeaseRecords, Free, At, Moves, SlotOf, Step, google, Idle, Fenced
<1>5. ASSUME NEW e \in Execution, Send(e) PROVE AnnouncesTheNew'
  BY <1>5, <1>m, <1>0, ToMoves, <1>t, SMTT(20)
     DEF Send, AnnouncesTheNew, Holds, Inner, LeaseRecords, Free, At, Moves, SlotOf, Step, google, Idle
<1>6. ASSUME NEW e \in Execution, Answer(e) PROVE AnnouncesTheNew'
  BY <1>6, <1>m, <1>0, ToMoves, <1>t, SMTT(20)
     DEF Answer, AnnouncesTheNew, Holds, Inner, LeaseRecords, Free, At, Moves, SlotOf, Step, google, Idle
<1>7. ASSUME NEW e \in Execution, LoseAnswer(e) PROVE AnnouncesTheNew'
  BY <1>7, <1>m, <1>0, ToMoves, <1>t, SMTT(20)
     DEF LoseAnswer, AnnouncesTheNew, Holds, Inner, LeaseRecords, Free, At, Moves, SlotOf, Step, google, Idle
<1>8. ASSUME NEW e \in Execution, Reject(e) PROVE AnnouncesTheNew'
  BY <1>8, <1>m, <1>0, ToMoves, <1>t, SMTT(20)
     DEF Reject, AnnouncesTheNew, Holds, Inner, LeaseRecords, Free, At, Moves, SlotOf, Step, google, Idle
<1>9. ASSUME NEW e \in Execution, Withdraw(e) PROVE AnnouncesTheNew'
  BY <1>9, <1>m, <1>0, ToMoves, <1>t, SMTT(20)
     DEF Withdraw, AnnouncesTheNew, Holds, Inner, LeaseRecords, Free, At, Moves, SlotOf, Step, google, Idle
<1>10. ASSUME NEW e \in Execution, Record(e) PROVE AnnouncesTheNew'
  <2>1. \A d \in Execution : At(d, "intend")' => d # e /\ run'[d] = run[d]
    BY <1>t, <1>10, RecordMoves DEF Moves, At
  <2>2. \A d \in Execution : Holds(d, Inner(d)) /\ SlotOf(d) = SlotOf(e) /\ Fenced(e) => d = e
    BY SlotHasOneLease DEF Fenced, Holds
  <2>3. UNCHANGED <<intent, lease>> /\ (recorded' = recorded \/ (Fenced(e) /\ recorded' = recorded \union {SlotOf(e)}))
    BY <1>t, <1>10, RecordMoves DEF Record
  <2>4. \A d \in Execution : At(d, "intend")' => StaysNew(d)
    BY <2>1, <2>2, <2>3 DEF Holds, Inner, StaysNew
  <2> QED BY <1>t, <2>4, NewStaysNew
<1>11. ASSUME NEW e \in Execution, RootsReady(e) PROVE AnnouncesTheNew'
  <2>1. \A d \in Execution : At(d, "intend")' => run'[d] = run[d]
    BY <1>t, <1>11, RootsReadyMoves DEF Moves, At
  <2>2. \A l \in Lease : lease'[l] = lease[l] \/ ~lease'[l].live
    BY <1>t, <1>m, <1>11, RootsReadyMoves DEF Released, Free
  <2>3. \A d \in Execution : At(d, "intend")' => StaysNew(d)
    BY <1>0, <1>11, <2>1, <2>2 DEF RootsReady, Holds, Inner, StaysNew, At
  <2> QED BY <1>t, <2>3, NewStaysNew
<1>12. ASSUME NEW e \in Execution, Bind(e) PROVE AnnouncesTheNew'
  <2>1. \A d \in Execution : At(d, "intend")' => run'[d] = run[d]
    BY <1>t, <1>12, BindMoves DEF Moves, At
  <2>2. \A l \in Lease : lease'[l] = lease[l] \/ ~lease'[l].live
    BY <1>t, <1>m, <1>12, BindMoves DEF LeaseRecords
  <2>3. \A d \in Execution : At(d, "intend")' => StaysNew(d)
    <3>1. UNCHANGED <<intent, recorded>>
      BY <1>t, <1>12, BindMoves
    <3> QED BY <1>0, <2>1, <2>2, <3>1 DEF Holds, Inner, StaysNew, At
  <2> QED BY <1>t, <2>3, NewStaysNew
<1>13. ASSUME NEW e \in Execution, Complete(e) PROVE AnnouncesTheNew'
  BY <1>13, <1>m, <1>0, ToMoves, <1>t, SMTT(20)
     DEF Complete, AnnouncesTheNew, Holds, Inner, LeaseRecords, Free, At, Moves, SlotOf, Step, google, Idle
<1>14. ASSUME NEW e \in Execution, Stop(e) PROVE AnnouncesTheNew'
  BY <1>14, <1>m, <1>0, <1>t, SMTT(20)
     DEF Stop, AnnouncesTheNew, Holds, Inner, LeaseRecords, Free, At, Moves, SlotOf, Step, google, Idle
<1>15. ASSUME NEW e \in Execution, Crash(e) PROVE AnnouncesTheNew'
  <2>1. \A d \in Execution : At(d, "intend")' => run'[d] = run[d]
    BY <1>m, <1>15 DEF Crash, At, Idle
  <2>2. \A l \in Lease : lease'[l] = lease[l] \/ lease'[l].owner = None
    BY <1>m, <1>15 DEF Crash, LeaseRecords
  <2>3. \A d \in Execution : At(d, "intend")' => StaysNew(d)
    <3>1. UNCHANGED <<intent, recorded>>
      BY <1>15 DEF Crash
    <3> QED BY <1>0, <2>1, <2>2, <3>1, ProvisioningAssumption DEF Holds, Inner, StaysNew, At
  <2> QED BY <1>t, <2>3, NewStaysNew
<1>16. ASSUME NEW j \in Project, RecoverScript(j) PROVE AnnouncesTheNew'
  <2>1. \A d \in Execution : At(d, "intend") /\ SlotOf(d) = <<j, "SCRIPT">> => Inner(d) = <<j, "sync">>
    BY RootRoles DEF SlotOf, Inner, InnerKind, ProjectRole
  <2>2. UNCHANGED <<run, lease>> /\ ~lease[<<j, "sync">>].live
    BY <1>16 DEF RecoverScript
  <2>3. intent' \union recorded' = intent \union recorded \union {<<j, "SCRIPT">>}
    BY <1>16 DEF RecoverScript
  <2>4. \A d \in Execution : At(d, "intend")' => StaysNew(d)
    BY <2>1, <2>2, <2>3 DEF Holds, Inner, StaysNew, At
  <2> QED BY <1>t, <2>4, NewStaysNew
<1>17. ASSUME NEW l \in Lease, ExpireAbandoned(l) PROVE AnnouncesTheNew'
  BY <1>17, <1>m, <1>0, <1>t, SMTT(20)
     DEF ExpireAbandoned, AnnouncesTheNew, Holds, Inner, LeaseRecords, Free, At, Moves, SlotOf, Step, google, Idle
<1>18. ASSUME NEW l \in Lease, ExpireSlow(l) PROVE AnnouncesTheNew'
  BY <1>18, <1>m, <1>0, <1>t, SMTT(20)
     DEF ExpireSlow, AnnouncesTheNew, Holds, Inner, LeaseRecords, Free, At, Moves, SlotOf, Step, google, Idle
<1>19. ASSUME NEW s \in Slot, LandLate(s) PROVE AnnouncesTheNew'
  BY <1>19, <1>m, <1>0, <1>t, SMTT(20)
     DEF LandLate, AnnouncesTheNew, Holds, Inner, LeaseRecords, Free, At, Moves, SlotOf, Step, google, Idle
<1>20. CASE UNCHANGED vars
  BY <1>20, <1>m, <1>0, <1>t DEF vars, google, AnnouncesTheNew, Holds, Inner, LeaseRecords, Free, At, Moves, SlotOf, Step, google, Idle
<1> QED BY <1>1, <1>2, <1>3, <1>4, <1>5, <1>6, <1>7, <1>8, <1>9, <1>10, <1>11, <1>12, <1>13, <1>14, <1>15, <1>16, <1>17, <1>18, <1>19, <1>20 DEF Next, Proceed

(* The resources are dealt with in their order.                            *)
LEMMA RolesStep ==
  ASSUME Inductive, [Next]_vars
  PROVE  RolesInOrder'
<1>t. /\ TypeOK /\ MadeOnce /\ RecordedExists /\ ReadyIsWhole
      /\ AnnouncedByOne /\ NothingUnannounced /\ NotYetSent /\ RecordsTheMade /\ AnnouncesTheNew /\ RolesInOrder
  BY DEF Inductive
<1>m. made \in [Slot -> Nat] /\ sent \in [Slot -> Nat] /\ intent \subseteq Slot /\ recorded \subseteq Slot
      /\ run \in [Execution -> RunRecords]
  BY <1>t DEF TypeOK
<1>k. \A e \in Execution : ~At(e, "idle") => run[e].project \in Project /\ run[e].role \in Role
  BY <1>t DEF TypeOK
<1>0. \A e \in Execution : ~At(e, "idle") => SlotOf(e) \in Slot
  BY <1>t, SlotsAndLeases DEF TypeOK, SlotOf
<1>1. ASSUME NEW e \in Execution, NEW j \in Project, Claim(e, j) PROVE RolesInOrder'
  <2>1. \A d \in Execution \ {e} : run'[d] = run[d]
    BY <1>m, <1>1 DEF Claim
  <2>2. At(e, "lock")' /\ run'[e].role = FirstRole(j) /\ run'[e].project = j
    BY <1>m, <1>1 DEF Claim, At
  <2>3. FirstRole(j) \in RootRole \/ (FirstRole(j) = "FOLDER" /\ <<Account, Last(Roots)>> \in recorded)
    BY <1>t, RootRoles DEF FirstRole, RolesInOrder, FoldersAfterRoots
  <2>4. InOrder(e)'
    BY <1>1, <2>2, <2>3, RootRoles DEF Claim, InOrder, At
  <2>5. FoldersAfterRoots'
    BY <1>t, <1>1 DEF Claim, RolesInOrder, FoldersAfterRoots
  <2>6. recorded \subseteq recorded' /\ bound \subseteq bound'
    BY <1>1 DEF Claim
  <2> QED BY <1>t, <2>1, <2>4, <2>5, <2>6, OrderStays DEF RolesInOrder
<1>2. ASSUME NEW e \in Execution, Lock(e) PROVE RolesInOrder'
  BY <1>2, <1>m, <1>0, <1>k, ToMoves, <1>t, SMTT(20)
     DEF Lock, RolesInOrder, FoldersAfterRoots, InOrder, At, Moves, SlotOf, Step, google, Idle
<1>3. ASSUME NEW e \in Execution, Look(e) PROVE RolesInOrder'
  <2>1. UNCHANGED <<intent, recorded, bound>> /\ \A d \in Execution \ {e} : run'[d] = run[d]
    BY <1>t, <1>3, LookMoves DEF Moves
  <2>2. run[e].role \in Role /\ InOrder(e)
    BY <1>t, <1>k, <1>3, LookMoves DEF At, RolesInOrder
  <2>3. ASSUME SlotOf(e) \in recorded /\ Successor(run[e].role) # "none"
                       /\ Moves(e, "look", run[e].project, Successor(run[e].role)) PROVE InOrder(e)'
    BY <2>1, <2>2, <2>3, Successors, SlotsAndLeases, RootRoles DEF InOrder, Moves, At, SlotOf, Holder, Role, ProjectRole
  <2>4. ASSUME SlotOf(e) \in recorded
                       /\ Moves(e, "next", run[e].project, run[e].role) PROVE InOrder(e)'
    BY <2>1, <2>2, <2>4 DEF InOrder, Moves, At, SlotOf
  <2>5. ASSUME \E step \in {"record", "failed", "intend"} : Moves(e, step, run[e].project, run[e].role) PROVE InOrder(e)'
    BY <2>1, <2>2, <2>5 DEF InOrder, Moves, At, SlotOf
  <2>6. InOrder(e)'
    BY <1>t, <1>3, <2>3, <2>4, <2>5, LookMoves
  <2> QED BY <1>t, <2>1, <2>6, OrderStays DEF RolesInOrder, FoldersAfterRoots
<1>4. ASSUME NEW e \in Execution, Intend(e) PROVE RolesInOrder'
  <2>1. /\ UNCHANGED <<recorded, bound>> /\ intent' \subseteq intent \union {SlotOf(e)}
        /\ \E step \in {"send", "failed"} : Moves(e, step, run[e].project, run[e].role)
    BY <1>t, <1>4, ToMoves DEF Intend, Step
  <2>2. InOrder(e)
    BY <1>t, <1>4 DEF At, RolesInOrder, Intend
  <2>3. InOrder(e)'
    BY <2>1, <2>2 DEF InOrder, Moves, At
  <2>4. FoldersAfterRoots'
    <3>1. \A j \in Project : SlotOf(e) = <<j, "FOLDER">> => <<Account, Last(Roots)>> \in recorded
      BY <2>2, RootRoles DEF InOrder, SlotOf
    <3> QED BY <1>t, <2>1, <3>1 DEF RolesInOrder, FoldersAfterRoots
  <2>5. \A d \in Execution \ {e} : run'[d] = run[d]
    BY <2>1 DEF Moves
  <2> QED BY <1>t, <2>1, <2>3, <2>4, <2>5, OrderStays DEF RolesInOrder
<1>5. ASSUME NEW e \in Execution, Send(e) PROVE RolesInOrder'
  BY <1>5, <1>m, <1>0, <1>k, ToMoves, <1>t, SMTT(20)
     DEF Send, RolesInOrder, FoldersAfterRoots, InOrder, At, Moves, SlotOf, Step, google, Idle
<1>6. ASSUME NEW e \in Execution, Answer(e) PROVE RolesInOrder'
  BY <1>6, <1>m, <1>0, <1>k, ToMoves, <1>t, SMTT(20)
     DEF Answer, RolesInOrder, FoldersAfterRoots, InOrder, At, Moves, SlotOf, Step, google, Idle
<1>7. ASSUME NEW e \in Execution, LoseAnswer(e) PROVE RolesInOrder'
  BY <1>7, <1>m, <1>0, <1>k, ToMoves, <1>t, SMTT(20)
     DEF LoseAnswer, RolesInOrder, FoldersAfterRoots, InOrder, At, Moves, SlotOf, Step, google, Idle
<1>8. ASSUME NEW e \in Execution, Reject(e) PROVE RolesInOrder'
  BY <1>8, <1>m, <1>0, <1>k, ToMoves, <1>t, SMTT(20)
     DEF Reject, RolesInOrder, FoldersAfterRoots, InOrder, At, Moves, SlotOf, Step, google, Idle
<1>9. ASSUME NEW e \in Execution, Withdraw(e) PROVE RolesInOrder'
  BY <1>9, <1>m, <1>0, <1>k, ToMoves, <1>t, SMTT(20)
     DEF Withdraw, RolesInOrder, FoldersAfterRoots, InOrder, At, Moves, SlotOf, Step, google, Idle
<1>10. ASSUME NEW e \in Execution, Record(e) PROVE RolesInOrder'
  <2>1. /\ UNCHANGED <<intent, bound>> /\ recorded \subseteq recorded' /\ recorded' \subseteq recorded \union {SlotOf(e)}
        /\ \A d \in Execution \ {e} : run'[d] = run[d]
    BY <1>t, <1>10, RecordMoves DEF Moves, Record
  <2>2. run[e].role \in Role /\ InOrder(e)
    BY <1>t, <1>k, <1>10 DEF At, RolesInOrder, Record
  <2>3. ASSUME SlotOf(e) \in recorded' /\ Successor(run[e].role) # "none"
                       /\ Moves(e, "look", run[e].project, Successor(run[e].role)) PROVE InOrder(e)'
    BY <2>1, <2>2, <2>3, Successors, SlotsAndLeases, RootRoles DEF InOrder, Moves, At, SlotOf, Holder, Role, ProjectRole
  <2>4. ASSUME SlotOf(e) \in recorded'
                       /\ Moves(e, "next", run[e].project, run[e].role) PROVE InOrder(e)'
    BY <2>1, <2>2, <2>4 DEF InOrder, Moves, At, SlotOf
  <2>5. ASSUME Moves(e, "failed", run[e].project, run[e].role) PROVE InOrder(e)'
    BY <2>1, <2>2, <2>5 DEF InOrder, Moves, At, SlotOf
  <2>6. InOrder(e)'
    BY <1>t, <1>10, <2>3, <2>4, <2>5, RecordMoves
  <2>7. FoldersAfterRoots'
    <3>1. \A j \in Project : SlotOf(e) = <<j, "FOLDER">> => <<Account, Last(Roots)>> \in recorded
      BY <2>2, RootRoles DEF InOrder, SlotOf
    <3> QED BY <1>t, <2>1, <3>1 DEF RolesInOrder, FoldersAfterRoots
  <2> QED BY <1>t, <2>1, <2>6, <2>7, OrderStays DEF RolesInOrder
<1>11. ASSUME NEW e \in Execution, RootsReady(e) PROVE RolesInOrder'
  <2>1. UNCHANGED <<intent, recorded, bound>> /\ At(e, "next") /\ run[e].role = Last(Roots)
    BY <1>11 DEF RootsReady
  <2>2. InOrder(e)
    BY <1>t, <2>1 DEF At, RolesInOrder
  <2>3. <<Account, Last(Roots)>> \in recorded
    BY <1>k, <2>1, <2>2, RootRoles DEF InOrder, SlotOf, Holder, At
  <2>4. InOrder(e)'
    BY <1>t, <1>11, <2>1, <2>2, <2>3, RootsReadyMoves DEF InOrder, Moves, At
  <2>5. \A d \in Execution \ {e} : run'[d] = run[d]
    BY <1>t, <1>11, RootsReadyMoves DEF Moves
  <2> QED BY <1>t, <2>1, <2>4, <2>5, OrderStays DEF RolesInOrder, FoldersAfterRoots
<1>12. ASSUME NEW e \in Execution, Bind(e) PROVE RolesInOrder'
  <2>1. /\ UNCHANGED <<intent, recorded>> /\ At(e, "next") /\ run[e].role = "SPREADSHEET"
        /\ bound \subseteq bound' /\ \A d \in Execution \ {e} : run'[d] = run[d]
    BY <1>t, <1>12, BindMoves DEF Moves
  <2>2. InOrder(e)
    BY <1>t, <2>1 DEF At, RolesInOrder
  <2>3. ASSUME Moves(e, "lock", run[e].project, "SCRIPT") /\ bound' = bound \union {run[e].project} PROVE InOrder(e)'
    BY <2>1, <2>2, <2>3, RootRoles DEF InOrder, Moves, At
  <2>4. ASSUME Moves(e, "failed", run[e].project, run[e].role) PROVE InOrder(e)'
    BY <2>1, <2>2, <2>4 DEF InOrder, Moves, At
  <2>5. InOrder(e)'
    BY <1>t, <1>12, <2>3, <2>4, BindMoves
  <2> QED BY <1>t, <2>1, <2>5, OrderStays DEF RolesInOrder, FoldersAfterRoots
<1>13. ASSUME NEW e \in Execution, Complete(e) PROVE RolesInOrder'
  BY <1>13, <1>m, <1>0, <1>k, ToMoves, <1>t, SMTT(20)
     DEF Complete, RolesInOrder, FoldersAfterRoots, InOrder, At, Moves, SlotOf, Step, google, Idle
<1>14. ASSUME NEW e \in Execution, Stop(e) PROVE RolesInOrder'
  BY <1>14, <1>m, <1>0, <1>k, <1>t, SMTT(20)
     DEF Stop, RolesInOrder, FoldersAfterRoots, InOrder, At, Moves, SlotOf, Step, google, Idle
<1>15. ASSUME NEW e \in Execution, Crash(e) PROVE RolesInOrder'
  BY <1>15, <1>m, <1>0, <1>k, <1>t, SMTT(20)
     DEF Crash, RolesInOrder, FoldersAfterRoots, InOrder, At, Moves, SlotOf, Step, google, Idle
<1>16. ASSUME NEW j \in Project, RecoverScript(j) PROVE RolesInOrder'
  BY <1>16, <1>m, <1>0, <1>k, <1>t, SMTT(20)
     DEF RecoverScript, RolesInOrder, FoldersAfterRoots, InOrder, At, Moves, SlotOf, Step, google, Idle
<1>17. ASSUME NEW l \in Lease, ExpireAbandoned(l) PROVE RolesInOrder'
  BY <1>17, <1>m, <1>0, <1>k, <1>t, SMTT(20)
     DEF ExpireAbandoned, RolesInOrder, FoldersAfterRoots, InOrder, At, Moves, SlotOf, Step, google, Idle
<1>18. ASSUME NEW l \in Lease, ExpireSlow(l) PROVE RolesInOrder'
  BY <1>18, <1>m, <1>0, <1>k, <1>t, SMTT(20)
     DEF ExpireSlow, RolesInOrder, FoldersAfterRoots, InOrder, At, Moves, SlotOf, Step, google, Idle
<1>19. ASSUME NEW s \in Slot, LandLate(s) PROVE RolesInOrder'
  BY <1>19, <1>m, <1>0, <1>k, <1>t, SMTT(20)
     DEF LandLate, RolesInOrder, FoldersAfterRoots, InOrder, At, Moves, SlotOf, Step, google, Idle
<1>20. CASE UNCHANGED vars
  BY <1>20, <1>m, <1>0, <1>k, <1>t DEF vars, google, RolesInOrder, FoldersAfterRoots, InOrder, At, Moves, SlotOf, Step, google, Idle
<1> QED BY <1>1, <1>2, <1>3, <1>4, <1>5, <1>6, <1>7, <1>8, <1>9, <1>10, <1>11, <1>12, <1>13, <1>14, <1>15, <1>16, <1>17, <1>18, <1>19, <1>20 DEF Next, Proceed

(* What is recorded exists, and a binding names what is recorded.          *)
LEMMA RecordedStep ==
  ASSUME Inductive, [Next]_vars
  PROVE  RecordedExists'
<1>t. /\ TypeOK /\ MadeOnce /\ RecordedExists /\ ReadyIsWhole
      /\ AnnouncedByOne /\ NothingUnannounced /\ NotYetSent /\ RecordsTheMade /\ AnnouncesTheNew /\ RolesInOrder
  BY DEF Inductive
<1>m. made \in [Slot -> Nat] /\ sent \in [Slot -> Nat] /\ intent \subseteq Slot /\ recorded \subseteq Slot
      /\ run \in [Execution -> RunRecords]
  BY <1>t DEF TypeOK
<1>k. \A e \in Execution : ~At(e, "idle") => run[e].project \in Project /\ run[e].role \in Role
  BY <1>t DEF TypeOK
<1>0. \A e \in Execution : ~At(e, "idle") => SlotOf(e) \in Slot
  BY <1>t, SlotsAndLeases DEF TypeOK, SlotOf
<1>1. ASSUME NEW e \in Execution, NEW j \in Project, Claim(e, j) PROVE RecordedExists'
  BY <1>1, <1>m, <1>0, <1>k, <1>t, SMTT(20)
     DEF Claim, RecordedExists, At, Moves, SlotOf, Step, google, Idle
<1>2. ASSUME NEW e \in Execution, Lock(e) PROVE RecordedExists'
  BY <1>2, <1>m, <1>0, <1>k, ToMoves, <1>t, SMTT(20)
     DEF Lock, RecordedExists, At, Moves, SlotOf, Step, google, Idle
<1>3. ASSUME NEW e \in Execution, Look(e) PROVE RecordedExists'
  <2>1. UNCHANGED <<recorded, bound, made>>
    BY <1>t, <1>3, LookMoves
  <2> QED BY <1>t, <2>1 DEF RecordedExists
<1>4. ASSUME NEW e \in Execution, Intend(e) PROVE RecordedExists'
  BY <1>4, <1>m, <1>0, <1>k, ToMoves, <1>t, SMTT(20)
     DEF Intend, RecordedExists, At, Moves, SlotOf, Step, google, Idle
<1>5. ASSUME NEW e \in Execution, Send(e) PROVE RecordedExists'
  BY <1>5, <1>m, <1>0, <1>k, ToMoves, <1>t, SMTT(20)
     DEF Send, RecordedExists, At, Moves, SlotOf, Step, google, Idle
<1>6. ASSUME NEW e \in Execution, Answer(e) PROVE RecordedExists'
  BY <1>6, <1>m, <1>0, <1>k, ToMoves, <1>t, SMTT(20)
     DEF Answer, RecordedExists, At, Moves, SlotOf, Step, google, Idle
<1>7. ASSUME NEW e \in Execution, LoseAnswer(e) PROVE RecordedExists'
  BY <1>7, <1>m, <1>0, <1>k, ToMoves, <1>t, SMTT(20)
     DEF LoseAnswer, RecordedExists, At, Moves, SlotOf, Step, google, Idle
<1>8. ASSUME NEW e \in Execution, Reject(e) PROVE RecordedExists'
  BY <1>8, <1>m, <1>0, <1>k, ToMoves, <1>t, SMTT(20)
     DEF Reject, RecordedExists, At, Moves, SlotOf, Step, google, Idle
<1>9. ASSUME NEW e \in Execution, Withdraw(e) PROVE RecordedExists'
  BY <1>9, <1>m, <1>0, <1>k, ToMoves, <1>t, SMTT(20)
     DEF Withdraw, RecordedExists, At, Moves, SlotOf, Step, google, Idle
<1>10. ASSUME NEW e \in Execution, Record(e) PROVE RecordedExists'
  <2>1. UNCHANGED <<bound, made>> /\ recorded \subseteq recorded' /\ recorded' \subseteq recorded \union {SlotOf(e)}
    BY <1>t, <1>10, RecordMoves DEF Record, google
  <2>2. made[SlotOf(e)] > 0
    BY <1>t, <1>10 DEF Record, RecordsTheMade
  <2> QED BY <1>t, <2>1, <2>2 DEF RecordedExists
<1>11. ASSUME NEW e \in Execution, RootsReady(e) PROVE RecordedExists'
  BY <1>11, <1>m, <1>0, <1>k, RootsReadyMoves, <1>t, SMTT(20)
     DEF RootsReady, RecordedExists, At, Moves, SlotOf, Step, google, Idle
<1>12. ASSUME NEW e \in Execution, Bind(e) PROVE RecordedExists'
  <2>1. /\ UNCHANGED <<recorded, made>> /\ At(e, "next") /\ run[e].role = "SPREADSHEET"
        /\ bound' \subseteq bound \union {run[e].project}
    BY <1>t, <1>12, BindMoves
  <2>2. {<<Account, Last(Roots)>>, <<run[e].project, "FOLDER">>, <<run[e].project, "SPREADSHEET">>} \subseteq recorded
    BY <1>t, <2>1, RootRoles DEF RolesInOrder, InOrder, At, SlotOf, Holder
  <2> QED BY <1>t, <2>1, <2>2 DEF RecordedExists
<1>13. ASSUME NEW e \in Execution, Complete(e) PROVE RecordedExists'
  BY <1>13, <1>m, <1>0, <1>k, ToMoves, <1>t, SMTT(20)
     DEF Complete, RecordedExists, At, Moves, SlotOf, Step, google, Idle
<1>14. ASSUME NEW e \in Execution, Stop(e) PROVE RecordedExists'
  BY <1>14, <1>m, <1>0, <1>k, <1>t, SMTT(20)
     DEF Stop, RecordedExists, At, Moves, SlotOf, Step, google, Idle
<1>15. ASSUME NEW e \in Execution, Crash(e) PROVE RecordedExists'
  BY <1>15, <1>m, <1>0, <1>k, <1>t, SMTT(20)
     DEF Crash, RecordedExists, At, Moves, SlotOf, Step, google, Idle
<1>16. ASSUME NEW j \in Project, RecoverScript(j) PROVE RecordedExists'
  BY <1>16, <1>m, <1>0, <1>k, <1>t, SMTT(20)
     DEF RecoverScript, RecordedExists, At, Moves, SlotOf, Step, google, Idle
<1>17. ASSUME NEW l \in Lease, ExpireAbandoned(l) PROVE RecordedExists'
  BY <1>17, <1>m, <1>0, <1>k, <1>t, SMTT(20)
     DEF ExpireAbandoned, RecordedExists, At, Moves, SlotOf, Step, google, Idle
<1>18. ASSUME NEW l \in Lease, ExpireSlow(l) PROVE RecordedExists'
  BY <1>18, <1>m, <1>0, <1>k, <1>t, SMTT(20)
     DEF ExpireSlow, RecordedExists, At, Moves, SlotOf, Step, google, Idle
<1>19. ASSUME NEW s \in Slot, LandLate(s) PROVE RecordedExists'
  BY <1>19, <1>m, <1>0, <1>k, <1>t, SMTT(20)
     DEF LandLate, RecordedExists, At, Moves, SlotOf, Step, google, Idle
<1>20. CASE UNCHANGED vars
  BY <1>20, <1>m, <1>0, <1>k, <1>t DEF vars, google, RecordedExists, At, Moves, SlotOf, Step, google, Idle
<1> QED BY <1>1, <1>2, <1>3, <1>4, <1>5, <1>6, <1>7, <1>8, <1>9, <1>10, <1>11, <1>12, <1>13, <1>14, <1>15, <1>16, <1>17, <1>18, <1>19, <1>20 DEF Next, Proceed

(* A project that is ready is bound and has its script.                    *)
LEMMA ReadyStep ==
  ASSUME Inductive, [Next]_vars
  PROVE  ReadyIsWhole'
<1>t. /\ TypeOK /\ MadeOnce /\ RecordedExists /\ ReadyIsWhole
      /\ AnnouncedByOne /\ NothingUnannounced /\ NotYetSent /\ RecordsTheMade /\ AnnouncesTheNew /\ RolesInOrder
  BY DEF Inductive
<1>m. made \in [Slot -> Nat] /\ sent \in [Slot -> Nat] /\ intent \subseteq Slot /\ recorded \subseteq Slot
      /\ run \in [Execution -> RunRecords]
  BY <1>t DEF TypeOK
<1>k. \A e \in Execution : ~At(e, "idle") => run[e].project \in Project /\ run[e].role \in Role
  BY <1>t DEF TypeOK
<1>0. \A e \in Execution : ~At(e, "idle") => SlotOf(e) \in Slot
  BY <1>t, SlotsAndLeases DEF TypeOK, SlotOf
<1>1. ASSUME NEW e \in Execution, NEW j \in Project, Claim(e, j) PROVE ReadyIsWhole'
  BY <1>1, <1>m, <1>0, <1>k, <1>t, SMTT(20)
     DEF Claim, ReadyIsWhole, At, Moves, SlotOf, Step, google, Idle
<1>2. ASSUME NEW e \in Execution, Lock(e) PROVE ReadyIsWhole'
  BY <1>2, <1>m, <1>0, <1>k, ToMoves, <1>t, SMTT(20)
     DEF Lock, ReadyIsWhole, At, Moves, SlotOf, Step, google, Idle
<1>3. ASSUME NEW e \in Execution, Look(e) PROVE ReadyIsWhole'
  <2>1. UNCHANGED <<recorded, bound, status>>
    BY <1>t, <1>3, LookMoves
  <2> QED BY <1>t, <2>1 DEF ReadyIsWhole
<1>4. ASSUME NEW e \in Execution, Intend(e) PROVE ReadyIsWhole'
  BY <1>4, <1>m, <1>0, <1>k, ToMoves, <1>t, SMTT(20)
     DEF Intend, ReadyIsWhole, At, Moves, SlotOf, Step, google, Idle
<1>5. ASSUME NEW e \in Execution, Send(e) PROVE ReadyIsWhole'
  BY <1>5, <1>m, <1>0, <1>k, ToMoves, <1>t, SMTT(20)
     DEF Send, ReadyIsWhole, At, Moves, SlotOf, Step, google, Idle
<1>6. ASSUME NEW e \in Execution, Answer(e) PROVE ReadyIsWhole'
  BY <1>6, <1>m, <1>0, <1>k, ToMoves, <1>t, SMTT(20)
     DEF Answer, ReadyIsWhole, At, Moves, SlotOf, Step, google, Idle
<1>7. ASSUME NEW e \in Execution, LoseAnswer(e) PROVE ReadyIsWhole'
  BY <1>7, <1>m, <1>0, <1>k, ToMoves, <1>t, SMTT(20)
     DEF LoseAnswer, ReadyIsWhole, At, Moves, SlotOf, Step, google, Idle
<1>8. ASSUME NEW e \in Execution, Reject(e) PROVE ReadyIsWhole'
  BY <1>8, <1>m, <1>0, <1>k, ToMoves, <1>t, SMTT(20)
     DEF Reject, ReadyIsWhole, At, Moves, SlotOf, Step, google, Idle
<1>9. ASSUME NEW e \in Execution, Withdraw(e) PROVE ReadyIsWhole'
  BY <1>9, <1>m, <1>0, <1>k, ToMoves, <1>t, SMTT(20)
     DEF Withdraw, ReadyIsWhole, At, Moves, SlotOf, Step, google, Idle
<1>10. ASSUME NEW e \in Execution, Record(e) PROVE ReadyIsWhole'
  BY <1>10, <1>m, <1>0, <1>k, RecordMoves, <1>t, SMTT(20)
     DEF Record, ReadyIsWhole, At, Moves, SlotOf, Step, google, Idle
<1>11. ASSUME NEW e \in Execution, RootsReady(e) PROVE ReadyIsWhole'
  BY <1>11, <1>m, <1>0, <1>k, RootsReadyMoves, <1>t, SMTT(20)
     DEF RootsReady, ReadyIsWhole, At, Moves, SlotOf, Step, google, Idle
<1>12. ASSUME NEW e \in Execution, Bind(e) PROVE ReadyIsWhole'
  BY <1>12, <1>m, <1>0, <1>k, BindMoves, <1>t, SMTT(20)
     DEF ReadyIsWhole, At, Moves, SlotOf, Step, google, Idle
<1>13. ASSUME NEW e \in Execution, Complete(e) PROVE ReadyIsWhole'
  <2>1. UNCHANGED <<recorded, bound>> /\ At(e, "next") /\ run[e].role = "SCRIPT"
    BY <1>13 DEF Complete
  <2>2. run[e].project \in bound /\ <<run[e].project, "SCRIPT">> \in recorded
    BY <1>t, <2>1, RootRoles DEF RolesInOrder, InOrder, At, SlotOf, Holder
  <2>3. status' = status \/ status' = [status EXCEPT ![run[e].project] = "READY"]
    BY <1>13 DEF Complete
  <2>4. status \in [Project -> {"NOT_CONFIGURED", "PREPARING", "READY", "SCRIPT_CREATE_IDENTITY_UNCERTAIN"}]
    BY <1>t DEF TypeOK
  <2> QED BY <1>t, <2>1, <2>2, <2>3, <2>4 DEF ReadyIsWhole
<1>14. ASSUME NEW e \in Execution, Stop(e) PROVE ReadyIsWhole'
  BY <1>14, <1>m, <1>0, <1>k, <1>t, SMTT(20)
     DEF Stop, ReadyIsWhole, At, Moves, SlotOf, Step, google, Idle
<1>15. ASSUME NEW e \in Execution, Crash(e) PROVE ReadyIsWhole'
  BY <1>15, <1>m, <1>0, <1>k, <1>t, SMTT(20)
     DEF Crash, ReadyIsWhole, At, Moves, SlotOf, Step, google, Idle
<1>16. ASSUME NEW j \in Project, RecoverScript(j) PROVE ReadyIsWhole'
  BY <1>16, <1>m, <1>0, <1>k, <1>t, SMTT(20)
     DEF RecoverScript, ReadyIsWhole, At, Moves, SlotOf, Step, google, Idle
<1>17. ASSUME NEW l \in Lease, ExpireAbandoned(l) PROVE ReadyIsWhole'
  BY <1>17, <1>m, <1>0, <1>k, <1>t, SMTT(20)
     DEF ExpireAbandoned, ReadyIsWhole, At, Moves, SlotOf, Step, google, Idle
<1>18. ASSUME NEW l \in Lease, ExpireSlow(l) PROVE ReadyIsWhole'
  BY <1>18, <1>m, <1>0, <1>k, <1>t, SMTT(20)
     DEF ExpireSlow, ReadyIsWhole, At, Moves, SlotOf, Step, google, Idle
<1>19. ASSUME NEW s \in Slot, LandLate(s) PROVE ReadyIsWhole'
  BY <1>19, <1>m, <1>0, <1>k, <1>t, SMTT(20)
     DEF LandLate, ReadyIsWhole, At, Moves, SlotOf, Step, google, Idle
<1>20. CASE UNCHANGED vars
  BY <1>20, <1>m, <1>0, <1>k, <1>t DEF vars, google, ReadyIsWhole, At, Moves, SlotOf, Step, google, Idle
<1> QED BY <1>1, <1>2, <1>3, <1>4, <1>5, <1>6, <1>7, <1>8, <1>9, <1>10, <1>11, <1>12, <1>13, <1>14, <1>15, <1>16, <1>17, <1>18, <1>19, <1>20 DEF Next, Proceed

-----------------------------------------------------------------------------
(* The invariant holds at first and every step keeps it.                   *)
LEMMA InductiveInvariant == Spec => []Inductive
<1>1. Init => Inductive
  <2> SUFFICES ASSUME Init PROVE Inductive
    OBVIOUS
  <2>1. Free \in LeaseRecords /\ Idle \in RunRecords /\ Idle.step = "idle"
    BY DEF Free, LeaseRecords, Idle, RunRecords, Step
  <2>2. TypeOK
    BY <2>1 DEF Init, TypeOK, At
  <2>3. \A e \in Execution : run[e].step = "idle"
    BY <2>1 DEF Init
  <2> QED BY <2>2, <2>3, SMTT(20) DEF Init, Inductive, MadeOnce, RecordedExists, ReadyIsWhole, AnnouncedByOne, Announcing, NothingUnannounced,
         NotYetSent, RecordsTheMade, AnnouncesTheNew, RolesInOrder, FoldersAfterRoots, At
<1>2. Inductive /\ [Next]_vars => Inductive'
  BY TypeStep, AnnouncedStep, UnannouncedStep, NotYetSentStep, RecordStep, MadeOnceStep, NewStep, RolesStep,
     RecordedStep, ReadyStep DEF Inductive
<1> QED BY <1>1, <1>2, PTL DEF Spec

(* The receipts, leases and executions have their types (ensure).          *)
THEOREM ProvisioningTypes == Spec => []TypeOK
  BY InductiveInvariant, PTL DEF Inductive

(* No folder, spreadsheet or script is made twice, counting the requests   *)
(* on their way, for any number of projects, executions, crashes, lost     *)
(* leases, lost answers and late listings (the create intents of           *)
(* workspaceManagedRoot and projectGoogleWorkspace).                       *)
THEOREM NothingMadeTwice == Spec => []MadeOnce
  BY InductiveInvariant, PTL DEF Inductive

(* A saved id is that of a resource that exists, and a binding names a     *)
(* folder and a spreadsheet within the account's folders (provision).      *)
THEOREM SavedIdsExist == Spec => []RecordedExists
  BY InductiveInvariant, PTL DEF Inductive

(* A project is READY only when it is bound and has its script (ensure).   *)
THEOREM ReadyWorkspaceIsWhole == Spec => []ReadyIsWhole
  BY InductiveInvariant, PTL DEF Inductive
=============================================================================
