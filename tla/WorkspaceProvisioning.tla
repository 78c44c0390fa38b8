------------------------ MODULE WorkspaceProvisioning ------------------------
(***************************************************************************)
(* One-click provisioning of project workspaces (ensure):                   *)
(* workspaceProvisioning.server.ts over workspaceManagedRoot.server.ts and  *)
(* projectGoogleWorkspace.server.ts. An execution makes, one after another, *)
(* the account's two root folders, the project's folder and spreadsheet,    *)
(* binds the project to them, and makes the bound script. Drive offers no   *)
(* idempotent creation, so before each request an intent is saved, and a    *)
(* later execution that finds the intent but no id looks for the resource   *)
(* instead of making another one.                                           *)
(*                                                                          *)
(* A slot is the place for one resource: <<Account, role>> for the roots,   *)
(* <<project, role>> for the rest. The leases have no clock: Expire stands  *)
(* for the 120 seconds. What happens between binding and script (repair and *)
(* delivery) is module WorkspaceSync.                                       *)
(***************************************************************************)
EXTENDS Naturals, SequencesExt

CONSTANTS
  Project,
  Execution,  \* requests of ensure that may run at once
  Roots,      \* the account's folders: application root and Projects root
  Account,    \* the Google account that owns every project
  None,
  MaxFaults   \* bound: crashes, leases lost, answers lost, rejections, late listings, repeated ensures

ASSUME ProvisioningAssumption ==
  /\ Account \notin Project /\ None \notin Execution
  /\ Roots \in Seq({"WORKSPACE_ROOT", "PROJECTS_ROOT"}) \ {<<>>} /\ IsInjective(Roots)

VARIABLES
  intent,    \* slots for which a creation was announced and not withdrawn
  recorded,  \* slots whose id is saved
  bound,     \* projects with a binding
  status,    \* ensureOperation: READY, closed for its script, or neither
  lease,     \* who holds each lease, and whether it has expired
  run,       \* execution -> where it is
  made,      \* slot -> resources that exist at Google
  sent,      \* slot -> requests on their way
  faults

vars == <<intent, recorded, bound, status, lease, run, made, sent, faults>>

google == <<made, sent>>

RootRole == ToSet(Roots)
ProjectRole == {"FOLDER", "SPREADSHEET"}
Role == RootRole \union ProjectRole \union {"SCRIPT"}

Holder(j, r) == IF r \in RootRole THEN Account ELSE j
Slot == (({Account} \X RootRole) \union (Project \X (ProjectRole \union {"SCRIPT"})))

\* The lease under which a role is made, beside the project's own.
InnerKind(r) == CASE r \in RootRole -> "root" [] r \in ProjectRole -> "provision" [] r = "SCRIPT" -> "sync"
Lease == {<<Account, "root">>} \union (Project \X {"ensure", "provision", "sync"})

Idle == [step |-> "idle", project |-> None, role |-> "none"]
Free == [owner |-> None, live |-> FALSE]

Init ==
  /\ intent = {} /\ recorded = {} /\ bound = {}
  /\ status = [j \in Project |-> "NOT_CONFIGURED"]
  /\ lease = [l \in Lease |-> Free]
  /\ run = [e \in Execution |-> Idle]
  /\ made = [s \in Slot |-> 0] /\ sent = [s \in Slot |-> 0]
  /\ faults = 0

Fault == faults < MaxFaults /\ faults' = faults + 1

SlotOf(e) == <<Holder(run[e].project, run[e].role), run[e].role>>
Ensure(e) == <<run[e].project, "ensure">>
Inner(e) == <<Holder(run[e].project, run[e].role), InnerKind(run[e].role)>>

Holds(e, l) == lease[l].owner = e /\ lease[l].live

At(e, step) == run[e].step = step
To(e, step) == run' = [run EXCEPT ![e].step = step]

\* Every save verifies and renews both leases.
Fenced(e) == Holds(e, Ensure(e)) /\ Holds(e, Inner(e))

\* The resource made next under the same lease; "none" after the last one.
Successor(r) ==
  CASE r \in RootRole /\ r # Last(Roots) -> Roots[CHOOSE i \in 2 .. Len(Roots) : Roots[i - 1] = r]
    [] r = "FOLDER" -> "SPREADSHEET"
    [] OTHER -> "none"

\* The execution has dealt with its role.
Done(e) ==
  run' = IF Successor(run[e].role) = "none" THEN [run EXCEPT ![e].step = "next"]
         ELSE [run EXCEPT ![e].step = "look", ![e].role = Successor(@)]

-----------------------------------------------------------------------------
\* Claiming

\* A project whose folder was announced already keeps the root it has.
FirstRole(j) ==
  IF j \notin bound /\ <<j, "FOLDER">> \in intent \union recorded THEN "FOLDER" ELSE Roots[1]

\* An operation whose script is uncertain is left alone until an administrator has named the
\* script. A workspace that is ready may be ensured again.
Claim(e, j) ==
  /\ At(e, "idle")
  /\ status[j] = "SCRIPT_CREATE_IDENTITY_UNCERTAIN" => <<j, "SCRIPT">> \in recorded
  /\ IF status[j] = "READY" THEN Fault ELSE UNCHANGED faults
  /\ \A k \in {"ensure", "provision", "sync"} : ~lease[<<j, k>>].live
  /\ lease' = [lease EXCEPT ![<<j, "ensure">>] = [owner |-> e, live |-> TRUE]]
  /\ status' = [status EXCEPT ![j] = "PREPARING"]
  /\ run' = [run EXCEPT ![e] = [step |-> "lock", project |-> j, role |-> FirstRole(j)]]
  /\ UNCHANGED <<intent, recorded, bound, google>>

\* The lease of the managed root, of the provisioning or of the synchronization.
Lock(e) ==
  /\ At(e, "lock")
  /\ IF /\ Holds(e, Ensure(e)) /\ ~lease[Inner(e)].live
        /\ run[e].role = "FOLDER" => run[e].project \notin bound
     THEN /\ lease' = [lease EXCEPT ![Inner(e)] = [owner |-> e, live |-> TRUE]]
          /\ To(e, "look")
     ELSE To(e, "failed") /\ UNCHANGED lease
  /\ UNCHANGED <<intent, recorded, bound, status, google, faults>>

-----------------------------------------------------------------------------
\* One resource

\* Fault: an announced resource that is not listed is made again.
DecisionRetrying(s, r, shown) ==
  IF s \in recorded THEN "done" ELSE IF r # "SCRIPT" /\ shown THEN "record" ELSE "intend"

\* Fault: what was announced is taken for made.
DecisionTrusting(s, r, shown) ==
  IF s \in recorded THEN "done" ELSE IF shown \/ s \in intent THEN "record" ELSE "intend"

\* Fault: a script that was announced is taken for installed.
DecisionSkipping(s, r, shown) ==
  IF s \in recorded \union intent THEN "done" ELSE IF shown THEN "record" ELSE "intend"

\* Fault: what was announced is not looked for.
DecisionBlind(s, r, shown) ==
  IF s \in recorded THEN "done" ELSE IF s \in intent THEN "failed" ELSE "intend"

\* The roots adopt what the listing shows; project resources are looked for only once
\* announced; a script cannot be looked for.
Decision(s, r, shown) ==
  IF s \in recorded THEN "done"
  ELSE IF shown /\ (r \in RootRole \/ (r \in ProjectRole /\ s \in intent)) THEN "record"
  ELSE IF s \in intent THEN "failed" ELSE "intend"

\* The receipt is read and, where it leaves a question, the listing, which may lag behind.
Look(e) ==
  /\ At(e, "look")
  /\ LET s == SlotOf(e)
         r == run[e].role
     IN \/ /\ UNCHANGED faults
           /\ LET step == Decision(s, r, made[s] = 1)
              IN IF step = "done" THEN Done(e) ELSE To(e, step)
        \/ made[s] > 0 /\ s \notin recorded /\ r # "SCRIPT" /\ Fault /\ To(e, Decision(s, r, FALSE))
  /\ UNCHANGED <<intent, recorded, bound, status, lease, google>>

Intend(e) ==
  /\ At(e, "intend")
  /\ IF Fenced(e) THEN intent' = intent \union {SlotOf(e)} /\ To(e, "send")
     ELSE To(e, "failed") /\ UNCHANGED intent
  /\ UNCHANGED <<recorded, bound, status, lease, google, faults>>

\* The request leaves when both leases have just been verified.
Send(e) ==
  /\ At(e, "send")
  /\ IF Fenced(e) THEN sent' = [sent EXCEPT ![SlotOf(e)] = @ + 1] /\ To(e, "wait")
     ELSE To(e, "failed") /\ UNCHANGED sent
  /\ UNCHANGED <<intent, recorded, bound, status, lease, made, faults>>

\* Google made the resource and answers with its id.
Answer(e) ==
  /\ At(e, "wait") /\ sent[SlotOf(e)] > 0
  /\ made' = [made EXCEPT ![SlotOf(e)] = @ + 1]
  /\ sent' = [sent EXCEPT ![SlotOf(e)] = @ - 1]
  /\ To(e, "record")
  /\ UNCHANGED <<intent, recorded, bound, status, lease, faults>>

\* No answer: the request may still have its effect, or have had it.
LoseAnswer(e) ==
  /\ At(e, "wait") /\ Fault
  /\ To(e, "failed")
  /\ UNCHANGED <<intent, recorded, bound, status, lease, google>>

\* Google refuses.
Reject(e) ==
  /\ At(e, "wait") /\ sent[SlotOf(e)] > 0 /\ Fault
  /\ sent' = [sent EXCEPT ![SlotOf(e)] = @ - 1]
  /\ To(e, IF run[e].role \in RootRole THEN "withdraw" ELSE "failed")
  /\ UNCHANGED <<intent, recorded, bound, status, lease, made>>

\* A refused creation of a root withdraws its announcement.
Withdraw(e) ==
  /\ At(e, "withdraw")
  /\ intent' = IF Fenced(e) THEN intent \ {SlotOf(e)} ELSE intent
  /\ To(e, "failed")
  /\ UNCHANGED <<recorded, bound, status, lease, google, faults>>

Record(e) ==
  /\ At(e, "record")
  /\ IF Fenced(e) THEN recorded' = recorded \union {SlotOf(e)} /\ Done(e)
     ELSE To(e, "failed") /\ UNCHANGED recorded
  /\ UNCHANGED <<intent, bound, status, lease, google, faults>>

-----------------------------------------------------------------------------
\* From one resource to the next

Released(e, l) == IF lease[l].owner = e THEN [lease EXCEPT ![l] = Free] ELSE lease

\* The managed root is READY.
RootsReady(e) ==
  /\ At(e, "next") /\ run[e].role = Last(Roots)
  /\ IF Fenced(e)
     THEN /\ lease' = Released(e, Inner(e))
          /\ run' = [run EXCEPT ![e].step = "lock",
                                ![e].role = IF run[e].project \in bound THEN "SCRIPT" ELSE "FOLDER"]
     ELSE To(e, "failed") /\ UNCHANGED lease
  /\ UNCHANGED <<intent, recorded, bound, status, google, faults>>

\* The binding: the provisioning lease must still be owned, expired or not.
Bind(e) ==
  /\ At(e, "next") /\ run[e].role = "SPREADSHEET"
  /\ IF Holds(e, Ensure(e)) /\ lease[Inner(e)].owner = e /\ run[e].project \notin bound
     THEN /\ bound' = bound \union {run[e].project}
          /\ lease' = [lease EXCEPT ![Inner(e)].live = FALSE]
          /\ run' = [run EXCEPT ![e].step = "lock", ![e].role = "SCRIPT"]
     ELSE To(e, "failed") /\ UNCHANGED <<bound, lease>>
  /\ UNCHANGED <<intent, recorded, status, google, faults>>

\* Everything is verified once more and the operation is READY.
Complete(e) ==
  /\ At(e, "next") /\ run[e].role = "SCRIPT"
  /\ IF Holds(e, Ensure(e))
     THEN /\ status' = [status EXCEPT ![run[e].project] = "READY"]
          /\ lease' = [l \in Lease |-> IF lease[l].owner = e THEN Free ELSE lease[l]]
          /\ run' = [run EXCEPT ![e] = Idle]
     ELSE To(e, "failed") /\ UNCHANGED <<status, lease>>
  /\ UNCHANGED <<intent, recorded, bound, google, faults>>

\* A failed execution gives back the leases it still owns. When its script was announced and
\* has no id, the operation is closed to further attempts; every other error leaves it open.
Stop(e) ==
  /\ At(e, "failed")
  /\ status' = IF run[e].role = "SCRIPT" /\ Fenced(e) /\ SlotOf(e) \in intent \ recorded
               THEN [status EXCEPT ![run[e].project] = "SCRIPT_CREATE_IDENTITY_UNCERTAIN"] ELSE status
  /\ lease' = [l \in Lease |-> IF lease[l].owner = e THEN Free ELSE lease[l]]
  /\ run' = [run EXCEPT ![e] = Idle]
  /\ UNCHANGED <<intent, recorded, bound, google, faults>>

\* The process dies: its leases stay, without an owner, until they expire.
Crash(e) ==
  /\ ~At(e, "idle") /\ Fault
  /\ run' = [run EXCEPT ![e] = Idle]
  /\ lease' = [l \in Lease |-> IF lease[l].owner = e THEN [lease[l] EXCEPT !.owner = None] ELSE lease[l]]
  /\ UNCHANGED <<intent, recorded, bound, status, google>>

\* recoverAutomation: an administrator names the script that exists.
RecoverScript(j) ==
  /\ j \in bound /\ <<j, "SCRIPT">> \notin recorded /\ made[<<j, "SCRIPT">>] > 0
  /\ \A k \in {"ensure", "sync"} : ~lease[<<j, k>>].live
  /\ recorded' = recorded \union {<<j, "SCRIPT">>}
  /\ intent' = intent \union {<<j, "SCRIPT">>}
  /\ UNCHANGED <<bound, status, lease, run, google, faults>>

-----------------------------------------------------------------------------
\* Time and Google

ExpireAbandoned(l) ==
  /\ lease[l].live /\ lease[l].owner = None
  /\ lease' = [lease EXCEPT ![l].live = FALSE]
  /\ UNCHANGED <<intent, recorded, bound, status, run, google, faults>>

ExpireSlow(l) ==
  /\ lease[l].live /\ lease[l].owner # None /\ Fault
  /\ lease' = [lease EXCEPT ![l].live = FALSE]
  /\ UNCHANGED <<intent, recorded, bound, status, run, google>>

Waits(s) == \E e \in Execution : At(e, "wait") /\ SlotOf(e) = s

\* A request nobody waits for has its effect late, or never.
LandLate(s) ==
  /\ sent[s] > 0 /\ ~Waits(s)
  /\ sent' = [sent EXCEPT ![s] = @ - 1]
  /\ \/ made' = [made EXCEPT ![s] = @ + 1]
     \/ UNCHANGED made
  /\ UNCHANGED <<intent, recorded, bound, status, lease, run, faults>>

-----------------------------------------------------------------------------
Proceed(e) ==
  \/ Lock(e) \/ Look(e) \/ Intend(e) \/ Send(e) \/ Answer(e) \/ Withdraw(e) \/ Record(e)
  \/ RootsReady(e) \/ Bind(e) \/ Complete(e) \/ Stop(e)

Next ==
  \/ \E e \in Execution :
       \/ \E j \in Project : Claim(e, j)
       \/ Proceed(e) \/ LoseAnswer(e) \/ Reject(e) \/ Crash(e)
  \/ \E j \in Project : RecoverScript(j)
  \/ \E l \in Lease : ExpireAbandoned(l) \/ ExpireSlow(l)
  \/ \E s \in Slot : LandLate(s)

Spec == Init /\ [][Next]_vars

\* Executions go on, ensure is called again for a project that is not ready, leases without an
\* owner expire, and Google makes up its mind about every request.
FairSpec ==
  /\ Spec
  /\ \A e \in Execution : WF_vars(Proceed(e))
  /\ \A j \in Project : SF_vars(\E e \in Execution : Claim(e, j))
  /\ \A l \in Lease : WF_vars(ExpireAbandoned(l))
  /\ \A s \in Slot : WF_vars(LandLate(s))

-----------------------------------------------------------------------------
Step == {"idle", "lock", "look", "intend", "send", "wait", "withdraw", "record", "next", "failed"}

RunRecords == [step : Step, project : Project \union {None}, role : Role \union {"none"}]
LeaseRecords == [owner : Execution \union {None}, live : BOOLEAN]

TypeOK ==
  /\ intent \subseteq Slot /\ recorded \subseteq Slot
  /\ bound \subseteq Project
  /\ status \in [Project -> {"NOT_CONFIGURED", "PREPARING", "READY",
                             "SCRIPT_CREATE_IDENTITY_UNCERTAIN"}]
  /\ lease \in [Lease -> LeaseRecords]
  /\ run \in [Execution -> RunRecords]
  /\ made \in [Slot -> Nat] /\ sent \in [Slot -> Nat]
  /\ \A e \in Execution : At(e, "idle") \/ (run[e].project \in Project /\ run[e].role \in Role)
  /\ faults \in Nat

\* No resource is made twice, counting the requests that are still on their way, whatever
\* happens to the executions, their leases, the answers and the listing.
MadeOnce == \A s \in Slot : made[s] + sent[s] <= 1

\* A saved id is that of a resource that exists, and a binding names a folder and a
\* spreadsheet that were made, in the account's roots.
RecordedExists ==
  /\ \A s \in recorded : made[s] > 0
  /\ \A j \in bound : {<<Account, Last(Roots)>>, <<j, "FOLDER">>, <<j, "SPREADSHEET">>} \subseteq recorded

\* A project that is READY is bound and has its script.
ReadyIsWhole == \A j \in Project : status[j] = "READY" => j \in bound /\ <<j, "SCRIPT">> \in recorded

\* What was announced but was never made: nothing will ever show it.
Lost(s) == s \in intent \ recorded /\ made[s] = 0 /\ sent[s] = 0

\* What ensure leaves to people: a lost announcement of the project or of the roots, and a
\* script without an id.
NeedsAttention(j) ==
  \/ \E r \in Role : Lost(<<Holder(j, r), r>>)
  \/ <<j, "SCRIPT">> \in intent \ recorded

\* Calling ensure again and again completes the workspace, also after crashes, lost answers and
\* expired leases, unless a person is needed.
Recovers == \A j \in Project : <>(status[j] = "READY") \/ <>[]NeedsAttention(j)
=============================================================================
