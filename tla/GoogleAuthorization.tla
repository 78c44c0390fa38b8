------------------------- MODULE GoogleAuthorization -------------------------
(***************************************************************************)
(* The offline Google authorization of one bound project                    *)
(* (workspaceGoogleOfflineAuthorization.server.ts). An administrator begins *)
(* a consent, Google calls back with a code, the code is exchanged for a    *)
(* refresh token that is stored as a candidate, proved by a first refresh   *)
(* and then made the project's grant. Meanwhile other consents, executions  *)
(* that refresh the current grant (access) and revocations run.             *)
(*                                                                          *)
(* Every transaction is one action; between two of them lies a call to      *)
(* Google. A consent leads to at most one grant, so a grant is named by its *)
(* consent.                                                                 *)
(***************************************************************************)
EXTENDS Naturals, FiniteSets

CONSTANTS
  Consent,    \* consents, and the grants they may lead to
  Admin,      \* administrators of the project
  Access,     \* executions that ask for an access token
  Revocation, \* calls of revoke
  None,
  MaxFaults   \* bound: crashes, lost acknowledgements, refusals, refused refreshes

ASSUME NoneAssumption == None \notin Consent \union Admin

VARIABLES
  consent,     \* workspace_google_oauth_transactions
  grant,       \* workspace_google_authorizations
  pointer,     \* workspace_continuity: backgroundAuthorizationId
  version,     \* authorizationVersion
  connection,  \* backgroundAuthorization
  callback,    \* consent -> where its callback is
  access,      \* access -> where it is, who asks, the grant of its snapshot, its finding
  revocation,  \* revocation -> where it is, the grant of its snapshot
  overtaken,   \* history: consents begun before a later activation or revocation
  faults

vars == <<consent, grant, pointer, version, connection, callback, access, revocation, overtaken, faults>>

continuity == <<pointer, version, connection>>

Reason == {"missing", "inactive", "actor", "rejected"}

NoConsent == [status |-> "none", actor |-> None, version |-> 0, previous |-> None]
NoGrant == [status |-> "none", actor |-> None, lapsed |-> FALSE]
NoAccess == [step |-> "idle", actor |-> None, id |-> None, reason |-> "none"]

Init ==
  /\ consent = [c \in Consent |-> NoConsent]
  /\ grant = [c \in Consent |-> NoGrant]
  /\ pointer = None /\ version = 0 /\ connection = "NOT_CONNECTED"
  /\ callback = [c \in Consent |-> "idle"]
  /\ access = [x \in Access |-> NoAccess]
  /\ revocation = [v \in Revocation |-> [step |-> "idle", id |-> None]]
  /\ overtaken = {}
  /\ faults = 0

Fault == faults < MaxFaults /\ faults' = faults + 1

-----------------------------------------------------------------------------
\* Consent and callback

Begin(c, a) ==
  /\ consent[c].status = "none"
  /\ consent' = [consent EXCEPT ![c] = [status |-> "open", actor |-> a, version |-> version,
                                        previous |-> pointer]]
  /\ UNCHANGED <<grant, continuity, callback, access, revocation, overtaken, faults>>

\* The user denies (callbackCompletion), or ten minutes pass.
Close(c) ==
  /\ consent[c].status = "open"
  /\ consent' = [consent EXCEPT ![c].status = "closed"]
  /\ UNCHANGED <<grant, continuity, callback, access, revocation, overtaken, faults>>

\* Fault: only the pointer is compared, which a revocation leaves alone.
UnchangedPointer(c) == consent[c].previous = pointer

\* checkPendingBinding: nothing was activated or revoked since the consent began.
Unchanged(c) == consent[c].version = version /\ consent[c].previous = pointer

\* The callback consumes the consent; what follows cannot be replayed.
Consume(c) ==
  /\ consent[c].status = "open" /\ Unchanged(c)
  /\ consent' = [consent EXCEPT ![c].status = "used"]
  /\ callback' = [callback EXCEPT ![c] = "exchange"]
  /\ UNCHANGED <<grant, continuity, access, revocation, overtaken, faults>>

\* The code was exchanged; the candidate is stored if the consent is still unchanged.
StoreCandidate(c) ==
  /\ callback[c] = "exchange" /\ Unchanged(c)
  /\ grant' = [grant EXCEPT ![c] = [status |-> "PENDING_VALIDATION", actor |-> consent[c].actor,
                                    lapsed |-> FALSE]]
  /\ callback' = [callback EXCEPT ![c] = "activate"]
  /\ UNCHANGED <<consent, continuity, access, revocation, overtaken, faults>>

\* The exchange fails, or the consent is found changed: nothing was stored.
FailBeforeCandidate(c) ==
  /\ callback[c] = "exchange"
  /\ \/ ~Unchanged(c) /\ UNCHANGED faults
     \/ Fault
  /\ callback' = [callback EXCEPT ![c] = "failed"]
  /\ UNCHANGED <<consent, grant, continuity, access, revocation, overtaken>>

\* Ten minutes after it was stored a candidate is no longer accepted.
CandidateExpires(c) ==
  /\ grant[c].status = "PENDING_VALIDATION" /\ ~grant[c].lapsed
  /\ grant' = [grant EXCEPT ![c].lapsed = TRUE]
  /\ UNCHANGED <<consent, continuity, callback, access, revocation, overtaken, faults>>

Acceptable(c) ==
  /\ Unchanged(c)
  /\ grant[c].status = "PENDING_VALIDATION" /\ ~grant[c].lapsed

\* The consents that a change of the grant overtakes.
Begun == {c \in Consent : consent[c].status # "none"}

\* Fault: the previous grant is left as it is.
ActivateBeside(c) ==
  /\ callback[c] = "activate" /\ Acceptable(c)
  /\ grant' = [grant EXCEPT ![c].status = "ACTIVE"]
  /\ pointer' = c /\ version' = version + 1 /\ connection' = "CONNECTED"
  /\ overtaken' = overtaken \union (Begun \ {c})
  /\ callback' = [callback EXCEPT ![c] = "connected"]
  /\ UNCHANGED <<consent, access, revocation, faults>>

\* The first refresh proved the candidate: it replaces the previous grant. The callback may
\* not hear of it.
Activate(c) ==
  /\ callback[c] = "activate" /\ Acceptable(c)
  /\ grant' = [d \in Consent |->
                 IF d = c THEN [grant[d] EXCEPT !.status = "ACTIVE"]
                 ELSE IF d = consent[c].previous THEN [grant[d] EXCEPT !.status = "SUPERSEDED"]
                 ELSE grant[d]]
  /\ pointer' = c /\ version' = version + 1 /\ connection' = "CONNECTED"
  /\ overtaken' = overtaken \union (Begun \ {c})
  /\ \/ callback' = [callback EXCEPT ![c] = "connected"] /\ UNCHANGED faults
     \/ callback' = [callback EXCEPT ![c] = "cleanup"] /\ Fault
  /\ UNCHANGED <<consent, access, revocation>>

\* The first refresh fails, or the candidate is not acceptable any more.
FailCandidate(c) ==
  /\ callback[c] = "activate"
  /\ \/ ~Acceptable(c) /\ UNCHANGED faults
     \/ Fault
  /\ callback' = [callback EXCEPT ![c] = "cleanup"]
  /\ UNCHANGED <<consent, grant, continuity, access, revocation, overtaken>>

\* Fault: a failed callback never asks whether the activation was committed after all.
CleanupUnasked(c) ==
  /\ callback[c] = "cleanup"
  /\ callback' = [callback EXCEPT ![c] = "discarded"]
  /\ grant' = IF grant[c].status = "PENDING_VALIDATION" THEN [grant EXCEPT ![c] = NoGrant] ELSE grant
  /\ UNCHANGED <<consent, continuity, access, revocation, overtaken, faults>>

\* After any failure: a candidate that was accepted nevertheless is reported as connected,
\* one that still waits is deleted.
Cleanup(c) ==
  /\ callback[c] = "cleanup"
  /\ \/ /\ pointer = c /\ grant[c].status = "ACTIVE"
        /\ callback' = [callback EXCEPT ![c] = "connected"]
        /\ UNCHANGED grant
     \/ /\ ~(pointer = c /\ grant[c].status = "ACTIVE")
        /\ callback' = [callback EXCEPT ![c] = "discarded"]
        /\ grant' = IF grant[c].status = "PENDING_VALIDATION" THEN [grant EXCEPT ![c] = NoGrant] ELSE grant
  /\ UNCHANGED <<consent, continuity, access, revocation, overtaken, faults>>

\* The process dies during a callback.
CrashCallback(c) ==
  /\ callback[c] \in {"exchange", "activate", "cleanup"} /\ Fault
  /\ callback' = [callback EXCEPT ![c] = "failed"]
  /\ UNCHANGED <<consent, grant, continuity, access, revocation, overtaken>>

-----------------------------------------------------------------------------
\* Access

\* workspaceGrantFailure
GrantFailure(id, a) ==
  IF id = None THEN "missing"
  ELSE IF grant[id].status # "ACTIVE" THEN "inactive"
  ELSE IF grant[id].actor # a THEN "actor" ELSE "none"

StartAccess(x, a) ==
  /\ access[x].step = "idle"
  /\ LET reason == GrantFailure(pointer, a)
     IN access' = [access EXCEPT ![x] = [step |-> IF reason = "none" THEN "refresh" ELSE "record",
                                         actor |-> a, id |-> pointer, reason |-> reason]]
  /\ UNCHANGED <<consent, grant, continuity, callback, revocation, overtaken, faults>>

\* Google refuses the refresh token, or the subject or a scope is not the one agreed to.
RefreshRejected(x) ==
  /\ access[x].step = "refresh" /\ Fault
  /\ access' = [access EXCEPT ![x].step = "record", ![x].reason = "rejected"]
  /\ UNCHANGED <<consent, grant, continuity, callback, revocation, overtaken>>

\* Fault: the grant is written back as the snapshot had it.
RecheckFromSnapshot(x) ==
  /\ access[x].step = "refresh" /\ access[x].id = pointer
  /\ access' = [access EXCEPT ![x].step = "granted"]
  /\ grant' = [grant EXCEPT ![pointer].status = "ACTIVE"]
  /\ connection' = "CONNECTED"
  /\ UNCHANGED <<consent, pointer, version, callback, revocation, overtaken, faults>>

\* The refresh succeeded: pointer and grant are read again before the token is used.
Recheck(x) ==
  /\ access[x].step = "refresh"
  /\ LET id == access[x].id
         reason == GrantFailure(id, access[x].actor)
     IN \/ /\ pointer # id
           /\ access' = [access EXCEPT ![x].step = "fenced"]
           /\ UNCHANGED connection
        \/ /\ pointer = id /\ reason # "none"
           /\ access' = [access EXCEPT ![x].step = "record", ![x].reason = reason]
           /\ UNCHANGED connection
        \/ /\ pointer = id /\ reason = "none"
           /\ access' = [access EXCEPT ![x].step = "granted"]
           /\ connection' = "CONNECTED"
  /\ UNCHANGED <<consent, grant, pointer, version, callback, revocation, overtaken, faults>>

\* Fault: the failure of a grant that was replaced is recorded, too.
RecordStaleFailure(x) ==
  /\ access[x].step = "record"
  /\ connection' = IF access[x].reason = "actor" THEN connection ELSE "AUTHORIZATION_REQUIRED"
  /\ access' = [access EXCEPT ![x].step = "refused"]
  /\ UNCHANGED <<consent, grant, pointer, version, callback, revocation, overtaken, faults>>

\* recordFailure: never of a grant that has been replaced, and the attempt of another
\* administrator disables nothing.
RecordFailure(x) ==
  /\ access[x].step = "record"
  /\ LET id == access[x].id
         invalidates == pointer = id /\ access[x].reason # "actor"
     IN /\ connection' = IF invalidates THEN "AUTHORIZATION_REQUIRED" ELSE connection
        /\ grant' = IF /\ invalidates /\ id # None
                       /\ grant[id].status = "ACTIVE" /\ grant[id].actor = access[x].actor
                    THEN [grant EXCEPT ![id].status = "AUTHORIZATION_REQUIRED"] ELSE grant
  /\ access' = [access EXCEPT ![x].step = "refused"]
  /\ UNCHANGED <<consent, pointer, version, callback, revocation, overtaken, faults>>

\* A temporary failure of Google, or the end of the process: nothing is invalidated.
DropAccess(x) ==
  /\ access[x].step \in {"refresh", "record"} /\ Fault
  /\ access' = [access EXCEPT ![x].step = "refused"]
  /\ UNCHANGED <<consent, grant, continuity, callback, revocation, overtaken>>

-----------------------------------------------------------------------------
\* Revocation

StartRevocation(v) ==
  /\ revocation[v].step = "idle"
  /\ revocation' = [revocation EXCEPT ![v] = [step |-> "revoke", id |-> pointer]]
  /\ UNCHANGED <<consent, grant, continuity, callback, access, overtaken, faults>>

\* The grant of the snapshot is revoked if it still is the project's; the version moves even
\* when there is none.
Revoke(v) ==
  /\ revocation[v].step = "revoke"
  /\ pointer = revocation[v].id
  /\ grant' = IF pointer = None THEN grant ELSE [grant EXCEPT ![pointer].status = "REVOKED"]
  /\ version' = version + 1 /\ connection' = "AUTHORIZATION_REQUIRED"
  /\ revocation' = [revocation EXCEPT ![v].step = "done"]
  /\ overtaken' = overtaken \union Begun
  /\ UNCHANGED <<consent, pointer, callback, access, faults>>

RevokeFenced(v) ==
  /\ revocation[v].step = "revoke"
  /\ pointer # revocation[v].id
  /\ revocation' = [revocation EXCEPT ![v].step = "fenced"]
  /\ UNCHANGED <<consent, grant, continuity, callback, access, overtaken, faults>>

-----------------------------------------------------------------------------
Next ==
  \/ \E c \in Consent :
       \/ \E a \in Admin : Begin(c, a)
       \/ Close(c) \/ Consume(c) \/ StoreCandidate(c) \/ FailBeforeCandidate(c) \/ CandidateExpires(c)
       \/ Activate(c) \/ FailCandidate(c) \/ Cleanup(c) \/ CrashCallback(c)
  \/ \E x \in Access :
       \/ \E a \in Admin : StartAccess(x, a)
       \/ RefreshRejected(x) \/ Recheck(x) \/ RecordFailure(x) \/ DropAccess(x)
  \/ \E v \in Revocation : StartRevocation(v) \/ Revoke(v) \/ RevokeFenced(v)

Spec == Init /\ [][Next]_vars

-----------------------------------------------------------------------------
GrantStatus == {"none", "PENDING_VALIDATION", "ACTIVE", "AUTHORIZATION_REQUIRED", "SUPERSEDED", "REVOKED"}

ConsentRecords ==
  [status : {"none", "open", "closed", "used"}, actor : Admin \union {None}, version : Nat,
   previous : Consent \union {None}]
GrantRecords == [status : GrantStatus, actor : Admin \union {None}, lapsed : BOOLEAN]
AccessRecords ==
  [step : {"idle", "refresh", "record", "granted", "fenced", "refused"}, actor : Admin \union {None},
   id : Consent \union {None}, reason : Reason \union {"none"}]
RevocationRecords == [step : {"idle", "revoke", "done", "fenced"}, id : Consent \union {None}]

\* The types; and a callback runs for exactly the consents that were used up.
TypeOK ==
  /\ consent \in [Consent -> ConsentRecords]
  /\ grant \in [Consent -> GrantRecords]
  /\ pointer \in Consent \union {None}
  /\ version \in Nat
  /\ connection \in {"NOT_CONNECTED", "CONNECTED", "AUTHORIZATION_REQUIRED"}
  /\ callback \in [Consent -> {"idle", "exchange", "activate", "cleanup", "connected", "discarded", "failed"}]
  /\ access \in [Access -> AccessRecords]
  /\ revocation \in [Revocation -> RevocationRecords]
  /\ \A c \in Consent : callback[c] = "idle" <=> consent[c].status # "used"
  /\ overtaken \subseteq Consent
  /\ faults \in Nat

\* At most one grant is active, the one the project points to, however many consents were on
\* their way at once.
OneActiveGrant == \A c \in Consent : grant[c].status = "ACTIVE" => pointer = c

\* The project is CONNECTED exactly while its grant is active: the failure of an old refresh
\* does not disconnect a grant that replaced it, a late refresh does not reconnect a revoked one.
ConnectionTellsGrant ==
  connection = "CONNECTED" <=> pointer # None /\ grant[pointer].status = "ACTIVE"

\* A consent begun before another one was accepted, or before a revocation, never comes into
\* force afterwards.
OvertakenConsentsFenced == \A c \in overtaken : grant[c].status # "ACTIVE"

\* The project never points to a candidate or to a deleted grant, although every failed
\* callback cleans up after itself.
PointerNamesGrant ==
  pointer # None => grant[pointer].status \notin {"none", "PENDING_VALIDATION"}

\* A callback that reports its candidate discarded has left no active grant behind, and one
\* that reports the connection has made one, also when the acknowledgement of the activation
\* was lost.
AnswerIsTrue ==
  \A c \in Consent : /\ callback[c] = "discarded" => grant[c].status # "ACTIVE"
                     /\ callback[c] = "connected" => grant[c].status \notin {"none", "PENDING_VALIDATION"}

\* How GrantRegister sees the grants: the one in force, and those that were.
Active(c) == grant[c].status = "ACTIVE"
InForce == IF \E c \in Consent : Active(c) THEN CHOOSE c \in Consent : Active(c) ELSE None
Spent == {c \in Consent : grant[c].status \in {"AUTHORIZATION_REQUIRED", "SUPERSEDED", "REVOKED"}}

Register == INSTANCE GrantRegister WITH Grant <- Consent, inForce <- InForce, spent <- Spent

\* A grant comes into force once and, once superseded, revoked or refused by Google, never again.
RegisterSpec == Register!Spec
=============================================================================
