---------------------- MODULE GoogleAuthorization_proofs ----------------------
(***************************************************************************)
(* Theorems about the offline Google authorization, for every set of        *)
(* consents, administrators, executions and revocations.                    *)
(*                                                                         *)
(* The invariant Inductive says how far the grant of a consent can be at    *)
(* each point of its callback, that an overtaken consent carries a version  *)
(* below the project's, and what an execution that is about to record a     *)
(* failure knows of the grant it asked for.                                 *)
(***************************************************************************)
EXTENDS GoogleAuthorization, TLAPS

Waiting == {"none", "PENDING_VALIDATION"}

\* How far the grant of a consent can be.
GrantFollowsCallback ==
  \A c \in Consent :
    /\ callback[c] \in {"idle", "exchange"} => grant[c].status = "none"
    /\ callback[c] = "connected" => grant[c].status \notin Waiting

\* Versions only grow, and a consent that was overtaken shows an older one.
OvertakenAreOlder ==
  /\ \A c \in Consent : consent[c].version <= version
  /\ \A c \in overtaken : consent[c].status # "none" /\ consent[c].version < version

\* What an execution knows of the grant it asked for.
AccessKnowsGrant ==
  \A x \in Access :
    LET id == access[x].id
        asked == id # None /\ grant[id].status \notin Waiting
    IN /\ access[x].step = "refresh" => asked /\ grant[id].actor = access[x].actor
       /\ access[x].step = "record" =>
            /\ access[x].reason = "missing" => id = None
            /\ access[x].reason = "inactive" => asked /\ grant[id].status # "ACTIVE"
            /\ access[x].reason = "rejected" => asked /\ grant[id].actor = access[x].actor
            /\ access[x].reason # "none"

Inductive ==
  /\ TypeOK /\ OneActiveGrant /\ ConnectionTellsGrant /\ OvertakenConsentsFenced
  /\ PointerNamesGrant /\ AnswerIsTrue
  /\ GrantFollowsCallback /\ OvertakenAreOlder /\ AccessKnowsGrant

-----------------------------------------------------------------------------
(* Every step keeps the types. *)
LEMMA TypeStep ==
  ASSUME TypeOK, [Next]_vars
  PROVE  TypeOK'
<1> USE NoneAssumption
<1> USE DEF TypeOK, GrantStatus, Reason
<1>1. ASSUME NEW c \in Consent, NEW a \in Admin, Begin(c, a) PROVE TypeOK'
  BY <1>1, SMTT(20) DEF Begin, continuity, ConsentRecords
<1>2. ASSUME NEW c \in Consent, Close(c) PROVE TypeOK'
  BY <1>2, SMTT(20) DEF Close, continuity, ConsentRecords
<1>3. ASSUME NEW c \in Consent, Consume(c) PROVE TypeOK'
  BY <1>3, SMTT(20) DEF Consume, continuity, Unchanged, ConsentRecords
<1>4. ASSUME NEW c \in Consent, StoreCandidate(c) PROVE TypeOK'
  BY <1>4, SMTT(20) DEF StoreCandidate, continuity, Unchanged, GrantRecords, ConsentRecords
<1>5. ASSUME NEW c \in Consent, FailBeforeCandidate(c) PROVE TypeOK'
  BY <1>5, SMTT(20) DEF FailBeforeCandidate, continuity, Fault
<1>6. ASSUME NEW c \in Consent, CandidateExpires(c) PROVE TypeOK'
  <2>1. [grant[c] EXCEPT !.lapsed = TRUE] \in GrantRecords
    BY DEF GrantRecords
  <2> QED BY <1>6, <2>1 DEF CandidateExpires, continuity
<1>7. ASSUME NEW c \in Consent, Activate(c) PROVE TypeOK'
  <2>1. \A s \in GrantStatus, d \in Consent : [grant[d] EXCEPT !.status = s] \in GrantRecords
    BY DEF GrantRecords
  <2>2. grant' \in [Consent -> GrantRecords]
    BY <1>7, <2>1 DEF Activate
  <2>3. consent[c].status = "used"
    BY <1>7 DEF Activate
  <2> QED BY <1>7, <2>2, <2>3 DEF Activate, Fault, Begun
<1>8. ASSUME NEW c \in Consent, FailCandidate(c) PROVE TypeOK'
  BY <1>8, SMTT(20) DEF FailCandidate, continuity, Fault
<1>9. ASSUME NEW c \in Consent, Cleanup(c) PROVE TypeOK'
  <2>1. NoGrant \in GrantRecords
    BY DEF GrantRecords, NoGrant
  <2>2. grant' \in [Consent -> GrantRecords]
    BY <1>9, <2>1 DEF Cleanup
  <2>3. /\ callback' \in [Consent -> {"idle", "exchange", "activate", "cleanup", "connected", "discarded", "failed"}]
        /\ \A d \in Consent : callback'[d] = "idle" <=> callback[d] = "idle"
    BY <1>9 DEF Cleanup
  <2> QED BY <1>9, <2>2, <2>3 DEF Cleanup, continuity
<1>10. ASSUME NEW c \in Consent, CrashCallback(c) PROVE TypeOK'
  BY <1>10, SMTT(20) DEF CrashCallback, continuity, Fault
<1>11. ASSUME NEW x \in Access, NEW a \in Admin, StartAccess(x, a) PROVE TypeOK'
  BY <1>11, SMTT(20) DEF StartAccess, continuity, GrantFailure, AccessRecords
<1>12. ASSUME NEW x \in Access, RefreshRejected(x) PROVE TypeOK'
  <2>1. [access[x] EXCEPT !.step = "record", !.reason = "rejected"] \in AccessRecords
    BY DEF AccessRecords
  <2>2. access' = [access EXCEPT ![x] = [access[x] EXCEPT !.step = "record", !.reason = "rejected"]]
    BY <1>12 DEF RefreshRejected
  <2> QED BY <1>12, <2>1, <2>2 DEF RefreshRejected, continuity, Fault
<1>13. ASSUME NEW x \in Access, Recheck(x) PROVE TypeOK'
  BY <1>13, SMTT(20) DEF Recheck, continuity, GrantFailure, AccessRecords
<1>14. ASSUME NEW x \in Access, RecordFailure(x) PROVE TypeOK'
  BY <1>14, SMTT(20) DEF RecordFailure, continuity, AccessRecords, GrantRecords
<1>15. ASSUME NEW x \in Access, DropAccess(x) PROVE TypeOK'
  BY <1>15, SMTT(20) DEF DropAccess, continuity, Fault, AccessRecords
<1>16. ASSUME NEW v \in Revocation, StartRevocation(v) PROVE TypeOK'
  BY <1>16, SMTT(20) DEF StartRevocation, continuity, RevocationRecords
<1>17. ASSUME NEW v \in Revocation, Revoke(v) PROVE TypeOK'
  <2>1. pointer # None => [grant[pointer] EXCEPT !.status = "REVOKED"] \in GrantRecords
    BY DEF GrantRecords
  <2>2. grant' \in [Consent -> GrantRecords]
    BY <1>17, <2>1 DEF Revoke
  <2>3. revocation' \in [Revocation -> RevocationRecords]
    BY <1>17 DEF Revoke, RevocationRecords
  <2> QED BY <1>17, <2>2, <2>3 DEF Revoke, Begun
<1>18. ASSUME NEW v \in Revocation, RevokeFenced(v) PROVE TypeOK'
  BY <1>18, SMTT(20) DEF RevokeFenced, continuity, RevocationRecords
<1>19. CASE UNCHANGED vars
  BY <1>19 DEF vars, continuity
<1> QED BY <1>1, <1>2, <1>3, <1>4, <1>5, <1>6, <1>7, <1>8, <1>9, <1>10, <1>11, <1>12, <1>13, <1>14, <1>15, <1>16, <1>17, <1>18, <1>19 DEF Next

(* A grant keeps in step with its callback. *)
LEMMA CallbackStep ==
  ASSUME Inductive, [Next]_vars
  PROVE  GrantFollowsCallback'
<1> USE NoneAssumption
<1> USE DEF Inductive, TypeOK, GrantFollowsCallback, GrantStatus, Waiting, NoGrant, GrantRecords, ConsentRecords, PointerNamesGrant
<1>1. ASSUME NEW c \in Consent, NEW a \in Admin, Begin(c, a) PROVE GrantFollowsCallback'
  BY <1>1, SMTT(20) DEF Begin, continuity
<1>2. ASSUME NEW c \in Consent, Close(c) PROVE GrantFollowsCallback'
  BY <1>2, SMTT(20) DEF Close, continuity
<1>3. ASSUME NEW c \in Consent, Consume(c) PROVE GrantFollowsCallback'
  BY <1>3, SMTT(20) DEF Consume, continuity, Unchanged
<1>4. ASSUME NEW c \in Consent, StoreCandidate(c) PROVE GrantFollowsCallback'
  BY <1>4, SMTT(20) DEF StoreCandidate, continuity, Unchanged
<1>5. ASSUME NEW c \in Consent, FailBeforeCandidate(c) PROVE GrantFollowsCallback'
  BY <1>5, SMTT(20) DEF FailBeforeCandidate, continuity, Fault
<1>6. ASSUME NEW c \in Consent, CandidateExpires(c) PROVE GrantFollowsCallback'
  BY <1>6, SMTT(20) DEF CandidateExpires, continuity
<1>7. ASSUME NEW c \in Consent, Activate(c) PROVE GrantFollowsCallback'
  BY <1>7, SMTT(20) DEF Activate, continuity, Acceptable, Unchanged, Begun, Fault
<1>8. ASSUME NEW c \in Consent, FailCandidate(c) PROVE GrantFollowsCallback'
  BY <1>8, SMTT(20) DEF FailCandidate, continuity, Fault
<1>9. ASSUME NEW c \in Consent, Cleanup(c) PROVE GrantFollowsCallback'
  BY <1>9, SMTT(20) DEF Cleanup, continuity
<1>10. ASSUME NEW c \in Consent, CrashCallback(c) PROVE GrantFollowsCallback'
  BY <1>10, SMTT(20) DEF CrashCallback, continuity, Fault
<1>11. ASSUME NEW x \in Access, NEW a \in Admin, StartAccess(x, a) PROVE GrantFollowsCallback'
  BY <1>11, SMTT(20) DEF StartAccess, continuity, GrantFailure
<1>12. ASSUME NEW x \in Access, RefreshRejected(x) PROVE GrantFollowsCallback'
  BY <1>12, SMTT(20) DEF RefreshRejected, continuity, Fault
<1>13. ASSUME NEW x \in Access, Recheck(x) PROVE GrantFollowsCallback'
  BY <1>13, SMTT(20) DEF Recheck, continuity, GrantFailure
<1>14. ASSUME NEW x \in Access, RecordFailure(x) PROVE GrantFollowsCallback'
  BY <1>14, SMTT(20) DEF RecordFailure, continuity
<1>15. ASSUME NEW x \in Access, DropAccess(x) PROVE GrantFollowsCallback'
  BY <1>15, SMTT(20) DEF DropAccess, continuity, Fault
<1>16. ASSUME NEW v \in Revocation, StartRevocation(v) PROVE GrantFollowsCallback'
  BY <1>16, SMTT(20) DEF StartRevocation, continuity
<1>17. ASSUME NEW v \in Revocation, Revoke(v) PROVE GrantFollowsCallback'
  BY <1>17, SMTT(20) DEF Revoke, continuity
<1>18. ASSUME NEW v \in Revocation, RevokeFenced(v) PROVE GrantFollowsCallback'
  BY <1>18, SMTT(20) DEF RevokeFenced, continuity
<1>19. CASE UNCHANGED vars
  BY <1>19 DEF vars, continuity
<1> QED BY <1>1, <1>2, <1>3, <1>4, <1>5, <1>6, <1>7, <1>8, <1>9, <1>10, <1>11, <1>12, <1>13, <1>14, <1>15, <1>16, <1>17, <1>18, <1>19 DEF Next

(* An overtaken consent stays older than the project's version. *)
LEMMA OlderStep ==
  ASSUME Inductive, [Next]_vars
  PROVE  OvertakenAreOlder'
<1> USE NoneAssumption
<1> USE DEF Inductive, TypeOK, GrantStatus, Waiting, GrantRecords, ConsentRecords, NoGrant, NoConsent, OvertakenAreOlder
<1>1. ASSUME NEW c \in Consent, NEW a \in Admin, Begin(c, a) PROVE OvertakenAreOlder'
  BY <1>1, SMTT(20) DEF Begin, continuity
<1>2. ASSUME NEW c \in Consent, Close(c) PROVE OvertakenAreOlder'
  BY <1>2, SMTT(20) DEF Close, continuity
<1>3. ASSUME NEW c \in Consent, Consume(c) PROVE OvertakenAreOlder'
  BY <1>3, SMTT(20) DEF Consume, continuity, Unchanged
<1>4. ASSUME NEW c \in Consent, StoreCandidate(c) PROVE OvertakenAreOlder'
  BY <1>4, SMTT(20) DEF StoreCandidate, continuity, Unchanged
<1>5. ASSUME NEW c \in Consent, FailBeforeCandidate(c) PROVE OvertakenAreOlder'
  BY <1>5, SMTT(20) DEF FailBeforeCandidate, continuity, Fault
<1>6. ASSUME NEW c \in Consent, CandidateExpires(c) PROVE OvertakenAreOlder'
  BY <1>6, SMTT(20) DEF CandidateExpires, continuity
<1>7. ASSUME NEW c \in Consent, Activate(c) PROVE OvertakenAreOlder'
  BY <1>7, SMTT(20) DEF Activate, continuity, Acceptable, Unchanged, Begun, Fault
<1>8. ASSUME NEW c \in Consent, FailCandidate(c) PROVE OvertakenAreOlder'
  BY <1>8, SMTT(20) DEF FailCandidate, continuity, Fault
<1>9. ASSUME NEW c \in Consent, Cleanup(c) PROVE OvertakenAreOlder'
  BY <1>9, SMTT(20) DEF Cleanup, continuity
<1>10. ASSUME NEW c \in Consent, CrashCallback(c) PROVE OvertakenAreOlder'
  BY <1>10, SMTT(20) DEF CrashCallback, continuity, Fault
<1>11. ASSUME NEW x \in Access, NEW a \in Admin, StartAccess(x, a) PROVE OvertakenAreOlder'
  BY <1>11, SMTT(20) DEF StartAccess, continuity, GrantFailure
<1>12. ASSUME NEW x \in Access, RefreshRejected(x) PROVE OvertakenAreOlder'
  BY <1>12, SMTT(20) DEF RefreshRejected, continuity, Fault
<1>13. ASSUME NEW x \in Access, Recheck(x) PROVE OvertakenAreOlder'
  BY <1>13, SMTT(20) DEF Recheck, continuity, GrantFailure
<1>14. ASSUME NEW x \in Access, RecordFailure(x) PROVE OvertakenAreOlder'
  BY <1>14, SMTT(20) DEF RecordFailure, continuity
<1>15. ASSUME NEW x \in Access, DropAccess(x) PROVE OvertakenAreOlder'
  BY <1>15, SMTT(20) DEF DropAccess, continuity, Fault
<1>16. ASSUME NEW v \in Revocation, StartRevocation(v) PROVE OvertakenAreOlder'
  BY <1>16, SMTT(20) DEF StartRevocation, continuity
<1>17. ASSUME NEW v \in Revocation, Revoke(v) PROVE OvertakenAreOlder'
  BY <1>17, SMTT(20) DEF Revoke, continuity, Begun
<1>18. ASSUME NEW v \in Revocation, RevokeFenced(v) PROVE OvertakenAreOlder'
  BY <1>18, SMTT(20) DEF RevokeFenced, continuity
<1>19. CASE UNCHANGED vars
  BY <1>19 DEF vars, continuity
<1> QED BY <1>1, <1>2, <1>3, <1>4, <1>5, <1>6, <1>7, <1>8, <1>9, <1>10, <1>11, <1>12, <1>13, <1>14, <1>15, <1>16, <1>17, <1>18, <1>19 DEF Next

(* What an execution knows of its grant stays true. *)
LEMMA AccessStep ==
  ASSUME Inductive, [Next]_vars
  PROVE  AccessKnowsGrant'
<1> USE NoneAssumption
<1> USE DEF Inductive, TypeOK, GrantStatus, Waiting, GrantRecords, ConsentRecords, NoGrant, NoConsent, AccessKnowsGrant, GrantFollowsCallback, PointerNamesGrant, AccessRecords, Reason
<1>1. ASSUME NEW c \in Consent, NEW a \in Admin, Begin(c, a) PROVE AccessKnowsGrant'
  BY <1>1, SMTT(20) DEF Begin, continuity
<1>2. ASSUME NEW c \in Consent, Close(c) PROVE AccessKnowsGrant'
  BY <1>2, SMTT(20) DEF Close, continuity
<1>3. ASSUME NEW c \in Consent, Consume(c) PROVE AccessKnowsGrant'
  BY <1>3, SMTT(20) DEF Consume, continuity, Unchanged
<1>4. ASSUME NEW c \in Consent, StoreCandidate(c) PROVE AccessKnowsGrant'
  BY <1>4, SMTT(20) DEF StoreCandidate, continuity, Unchanged
<1>5. ASSUME NEW c \in Consent, FailBeforeCandidate(c) PROVE AccessKnowsGrant'
  BY <1>5, SMTT(20) DEF FailBeforeCandidate, continuity, Fault
<1>6. ASSUME NEW c \in Consent, CandidateExpires(c) PROVE AccessKnowsGrant'
  BY <1>6, SMTT(20) DEF CandidateExpires, continuity
<1>7. ASSUME NEW c \in Consent, Activate(c) PROVE AccessKnowsGrant'
  BY <1>7, SMTT(20) DEF Activate, continuity, Acceptable, Unchanged, Begun, Fault
<1>8. ASSUME NEW c \in Consent, FailCandidate(c) PROVE AccessKnowsGrant'
  BY <1>8, SMTT(20) DEF FailCandidate, continuity, Fault
<1>9. ASSUME NEW c \in Consent, Cleanup(c) PROVE AccessKnowsGrant'
  <2>1. \A d \in Consent : grant[d].status \notin Waiting => grant'[d] = grant[d]
    BY <1>9 DEF Cleanup
  <2>2. access' = access
    BY <1>9 DEF Cleanup
  <2> QED BY <2>1, <2>2
<1>10. ASSUME NEW c \in Consent, CrashCallback(c) PROVE AccessKnowsGrant'
  BY <1>10, SMTT(20) DEF CrashCallback, continuity, Fault
<1>11. ASSUME NEW x \in Access, NEW a \in Admin, StartAccess(x, a) PROVE AccessKnowsGrant'
  BY <1>11, SMTT(20) DEF StartAccess, continuity, GrantFailure
<1>12. ASSUME NEW x \in Access, RefreshRejected(x) PROVE AccessKnowsGrant'
  BY <1>12, SMTT(20) DEF RefreshRejected, continuity, Fault
<1>13. ASSUME NEW x \in Access, Recheck(x) PROVE AccessKnowsGrant'
  BY <1>13, SMTT(20) DEF Recheck, continuity, GrantFailure
<1>14. ASSUME NEW x \in Access, RecordFailure(x) PROVE AccessKnowsGrant'
  BY <1>14, SMTT(20) DEF RecordFailure, continuity
<1>15. ASSUME NEW x \in Access, DropAccess(x) PROVE AccessKnowsGrant'
  BY <1>15, SMTT(20) DEF DropAccess, continuity, Fault
<1>16. ASSUME NEW v \in Revocation, StartRevocation(v) PROVE AccessKnowsGrant'
  BY <1>16, SMTT(20) DEF StartRevocation, continuity
<1>17. ASSUME NEW v \in Revocation, Revoke(v) PROVE AccessKnowsGrant'
  BY <1>17, SMTT(20) DEF Revoke, continuity, Begun
<1>18. ASSUME NEW v \in Revocation, RevokeFenced(v) PROVE AccessKnowsGrant'
  BY <1>18, SMTT(20) DEF RevokeFenced, continuity
<1>19. CASE UNCHANGED vars
  BY <1>19 DEF vars, continuity
<1> QED BY <1>1, <1>2, <1>3, <1>4, <1>5, <1>6, <1>7, <1>8, <1>9, <1>10, <1>11, <1>12, <1>13, <1>14, <1>15, <1>16, <1>17, <1>18, <1>19 DEF Next

(* At most one grant stays active. *)
LEMMA OneActiveStep ==
  ASSUME Inductive, [Next]_vars
  PROVE  OneActiveGrant'
<1> USE NoneAssumption
<1> USE DEF Inductive, TypeOK, GrantStatus, Waiting, GrantRecords, ConsentRecords, NoGrant, NoConsent, OneActiveGrant
<1>1. ASSUME NEW c \in Consent, NEW a \in Admin, Begin(c, a) PROVE OneActiveGrant'
  BY <1>1, SMTT(20) DEF Begin, continuity
<1>2. ASSUME NEW c \in Consent, Close(c) PROVE OneActiveGrant'
  BY <1>2, SMTT(20) DEF Close, continuity
<1>3. ASSUME NEW c \in Consent, Consume(c) PROVE OneActiveGrant'
  BY <1>3, SMTT(20) DEF Consume, continuity, Unchanged
<1>4. ASSUME NEW c \in Consent, StoreCandidate(c) PROVE OneActiveGrant'
  BY <1>4, SMTT(20) DEF StoreCandidate, continuity, Unchanged
<1>5. ASSUME NEW c \in Consent, FailBeforeCandidate(c) PROVE OneActiveGrant'
  BY <1>5, SMTT(20) DEF FailBeforeCandidate, continuity, Fault
<1>6. ASSUME NEW c \in Consent, CandidateExpires(c) PROVE OneActiveGrant'
  BY <1>6, SMTT(20) DEF CandidateExpires, continuity
<1>7. ASSUME NEW c \in Consent, Activate(c) PROVE OneActiveGrant'
  BY <1>7, SMTT(20) DEF Activate, continuity, Acceptable, Unchanged, Begun, Fault
<1>8. ASSUME NEW c \in Consent, FailCandidate(c) PROVE OneActiveGrant'
  BY <1>8, SMTT(20) DEF FailCandidate, continuity, Fault
<1>9. ASSUME NEW c \in Consent, Cleanup(c) PROVE OneActiveGrant'
  BY <1>9, SMTT(20) DEF Cleanup, continuity
<1>10. ASSUME NEW c \in Consent, CrashCallback(c) PROVE OneActiveGrant'
  BY <1>10, SMTT(20) DEF CrashCallback, continuity, Fault
<1>11. ASSUME NEW x \in Access, NEW a \in Admin, StartAccess(x, a) PROVE OneActiveGrant'
  BY <1>11, SMTT(20) DEF StartAccess, continuity, GrantFailure
<1>12. ASSUME NEW x \in Access, RefreshRejected(x) PROVE OneActiveGrant'
  BY <1>12, SMTT(20) DEF RefreshRejected, continuity, Fault
<1>13. ASSUME NEW x \in Access, Recheck(x) PROVE OneActiveGrant'
  BY <1>13, SMTT(20) DEF Recheck, continuity, GrantFailure
<1>14. ASSUME NEW x \in Access, RecordFailure(x) PROVE OneActiveGrant'
  BY <1>14, SMTT(20) DEF RecordFailure, continuity
<1>15. ASSUME NEW x \in Access, DropAccess(x) PROVE OneActiveGrant'
  BY <1>15, SMTT(20) DEF DropAccess, continuity, Fault
<1>16. ASSUME NEW v \in Revocation, StartRevocation(v) PROVE OneActiveGrant'
  BY <1>16, SMTT(20) DEF StartRevocation, continuity
<1>17. ASSUME NEW v \in Revocation, Revoke(v) PROVE OneActiveGrant'
  BY <1>17, SMTT(20) DEF Revoke, continuity, Begun
<1>18. ASSUME NEW v \in Revocation, RevokeFenced(v) PROVE OneActiveGrant'
  BY <1>18, SMTT(20) DEF RevokeFenced, continuity
<1>19. CASE UNCHANGED vars
  BY <1>19 DEF vars, continuity
<1> QED BY <1>1, <1>2, <1>3, <1>4, <1>5, <1>6, <1>7, <1>8, <1>9, <1>10, <1>11, <1>12, <1>13, <1>14, <1>15, <1>16, <1>17, <1>18, <1>19 DEF Next

(* The connection goes on telling the state of the grant. *)
LEMMA ConnectionStep ==
  ASSUME Inductive, [Next]_vars
  PROVE  ConnectionTellsGrant'
<1> USE NoneAssumption
<1> USE DEF Inductive, TypeOK, GrantStatus, Waiting, GrantRecords, ConsentRecords, NoGrant, NoConsent, OneActiveGrant, ConnectionTellsGrant, PointerNamesGrant, GrantFollowsCallback, AccessKnowsGrant, AccessRecords, Reason
<1>1. ASSUME NEW c \in Consent, NEW a \in Admin, Begin(c, a) PROVE ConnectionTellsGrant'
  BY <1>1, SMTT(20) DEF Begin, continuity
<1>2. ASSUME NEW c \in Consent, Close(c) PROVE ConnectionTellsGrant'
  BY <1>2, SMTT(20) DEF Close, continuity
<1>3. ASSUME NEW c \in Consent, Consume(c) PROVE ConnectionTellsGrant'
  BY <1>3, SMTT(20) DEF Consume, continuity, Unchanged
<1>4. ASSUME NEW c \in Consent, StoreCandidate(c) PROVE ConnectionTellsGrant'
  BY <1>4, SMTT(20) DEF StoreCandidate, continuity, Unchanged
<1>5. ASSUME NEW c \in Consent, FailBeforeCandidate(c) PROVE ConnectionTellsGrant'
  BY <1>5, SMTT(20) DEF FailBeforeCandidate, continuity, Fault
<1>6. ASSUME NEW c \in Consent, CandidateExpires(c) PROVE ConnectionTellsGrant'
  BY <1>6, SMTT(20) DEF CandidateExpires, continuity
<1>7. ASSUME NEW c \in Consent, Activate(c) PROVE ConnectionTellsGrant'
  BY <1>7, SMTT(20) DEF Activate, continuity, Acceptable, Unchanged, Begun, Fault
<1>8. ASSUME NEW c \in Consent, FailCandidate(c) PROVE ConnectionTellsGrant'
  BY <1>8, SMTT(20) DEF FailCandidate, continuity, Fault
<1>9. ASSUME NEW c \in Consent, Cleanup(c) PROVE ConnectionTellsGrant'
  BY <1>9, SMTT(20) DEF Cleanup, continuity
<1>10. ASSUME NEW c \in Consent, CrashCallback(c) PROVE ConnectionTellsGrant'
  BY <1>10, SMTT(20) DEF CrashCallback, continuity, Fault
<1>11. ASSUME NEW x \in Access, NEW a \in Admin, StartAccess(x, a) PROVE ConnectionTellsGrant'
  BY <1>11, SMTT(20) DEF StartAccess, continuity, GrantFailure
<1>12. ASSUME NEW x \in Access, RefreshRejected(x) PROVE ConnectionTellsGrant'
  BY <1>12, SMTT(20) DEF RefreshRejected, continuity, Fault
<1>13. ASSUME NEW x \in Access, Recheck(x) PROVE ConnectionTellsGrant'
  BY <1>13, SMTT(20) DEF Recheck, continuity, GrantFailure
<1>14. ASSUME NEW x \in Access, RecordFailure(x) PROVE ConnectionTellsGrant'
  BY <1>14, SMTT(20) DEF RecordFailure, continuity
<1>15. ASSUME NEW x \in Access, DropAccess(x) PROVE ConnectionTellsGrant'
  BY <1>15, SMTT(20) DEF DropAccess, continuity, Fault
<1>16. ASSUME NEW v \in Revocation, StartRevocation(v) PROVE ConnectionTellsGrant'
  BY <1>16, SMTT(20) DEF StartRevocation, continuity
<1>17. ASSUME NEW v \in Revocation, Revoke(v) PROVE ConnectionTellsGrant'
  BY <1>17, SMTT(20) DEF Revoke, continuity, Begun
<1>18. ASSUME NEW v \in Revocation, RevokeFenced(v) PROVE ConnectionTellsGrant'
  BY <1>18, SMTT(20) DEF RevokeFenced, continuity
<1>19. CASE UNCHANGED vars
  BY <1>19 DEF vars, continuity
<1> QED BY <1>1, <1>2, <1>3, <1>4, <1>5, <1>6, <1>7, <1>8, <1>9, <1>10, <1>11, <1>12, <1>13, <1>14, <1>15, <1>16, <1>17, <1>18, <1>19 DEF Next

(* Overtaken consents stay fenced. *)
LEMMA FencedStep ==
  ASSUME Inductive, [Next]_vars
  PROVE  OvertakenConsentsFenced'
<1> USE NoneAssumption
<1> USE DEF Inductive, TypeOK, GrantStatus, Waiting, GrantRecords, ConsentRecords, NoGrant, NoConsent, OneActiveGrant, OvertakenConsentsFenced, OvertakenAreOlder, PointerNamesGrant
<1>1. ASSUME NEW c \in Consent, NEW a \in Admin, Begin(c, a) PROVE OvertakenConsentsFenced'
  BY <1>1, SMTT(20) DEF Begin, continuity
<1>2. ASSUME NEW c \in Consent, Close(c) PROVE OvertakenConsentsFenced'
  BY <1>2, SMTT(20) DEF Close, continuity
<1>3. ASSUME NEW c \in Consent, Consume(c) PROVE OvertakenConsentsFenced'
  BY <1>3, SMTT(20) DEF Consume, continuity, Unchanged
<1>4. ASSUME NEW c \in Consent, StoreCandidate(c) PROVE OvertakenConsentsFenced'
  BY <1>4, SMTT(20) DEF StoreCandidate, continuity, Unchanged
<1>5. ASSUME NEW c \in Consent, FailBeforeCandidate(c) PROVE OvertakenConsentsFenced'
  BY <1>5, SMTT(20) DEF FailBeforeCandidate, continuity, Fault
<1>6. ASSUME NEW c \in Consent, CandidateExpires(c) PROVE OvertakenConsentsFenced'
  BY <1>6, SMTT(20) DEF CandidateExpires, continuity
<1>7. ASSUME NEW c \in Consent, Activate(c) PROVE OvertakenConsentsFenced'
  BY <1>7, SMTT(20) DEF Activate, continuity, Acceptable, Unchanged, Begun, Fault
<1>8. ASSUME NEW c \in Consent, FailCandidate(c) PROVE OvertakenConsentsFenced'
  BY <1>8, SMTT(20) DEF FailCandidate, continuity, Fault
<1>9. ASSUME NEW c \in Consent, Cleanup(c) PROVE OvertakenConsentsFenced'
  BY <1>9, SMTT(20) DEF Cleanup, continuity
<1>10. ASSUME NEW c \in Consent, CrashCallback(c) PROVE OvertakenConsentsFenced'
  BY <1>10, SMTT(20) DEF CrashCallback, continuity, Fault
<1>11. ASSUME NEW x \in Access, NEW a \in Admin, StartAccess(x, a) PROVE OvertakenConsentsFenced'
  BY <1>11, SMTT(20) DEF StartAccess, continuity, GrantFailure
<1>12. ASSUME NEW x \in Access, RefreshRejected(x) PROVE OvertakenConsentsFenced'
  BY <1>12, SMTT(20) DEF RefreshRejected, continuity, Fault
<1>13. ASSUME NEW x \in Access, Recheck(x) PROVE OvertakenConsentsFenced'
  BY <1>13, SMTT(20) DEF Recheck, continuity, GrantFailure
<1>14. ASSUME NEW x \in Access, RecordFailure(x) PROVE OvertakenConsentsFenced'
  BY <1>14, SMTT(20) DEF RecordFailure, continuity
<1>15. ASSUME NEW x \in Access, DropAccess(x) PROVE OvertakenConsentsFenced'
  BY <1>15, SMTT(20) DEF DropAccess, continuity, Fault
<1>16. ASSUME NEW v \in Revocation, StartRevocation(v) PROVE OvertakenConsentsFenced'
  BY <1>16, SMTT(20) DEF StartRevocation, continuity
<1>17. ASSUME NEW v \in Revocation, Revoke(v) PROVE OvertakenConsentsFenced'
  BY <1>17, SMTT(20) DEF Revoke, continuity, Begun
<1>18. ASSUME NEW v \in Revocation, RevokeFenced(v) PROVE OvertakenConsentsFenced'
  BY <1>18, SMTT(20) DEF RevokeFenced, continuity
<1>19. CASE UNCHANGED vars
  BY <1>19 DEF vars, continuity
<1> QED BY <1>1, <1>2, <1>3, <1>4, <1>5, <1>6, <1>7, <1>8, <1>9, <1>10, <1>11, <1>12, <1>13, <1>14, <1>15, <1>16, <1>17, <1>18, <1>19 DEF Next

(* The project goes on pointing to a grant that was accepted. *)
LEMMA PointerStep ==
  ASSUME Inductive, [Next]_vars
  PROVE  PointerNamesGrant'
<1> USE NoneAssumption
<1> USE DEF Inductive, TypeOK, GrantStatus, Waiting, GrantRecords, ConsentRecords, NoGrant, NoConsent, PointerNamesGrant, GrantFollowsCallback
<1>1. ASSUME NEW c \in Consent, NEW a \in Admin, Begin(c, a) PROVE PointerNamesGrant'
  BY <1>1, SMTT(20) DEF Begin, continuity
<1>2. ASSUME NEW c \in Consent, Close(c) PROVE PointerNamesGrant'
  BY <1>2, SMTT(20) DEF Close, continuity
<1>3. ASSUME NEW c \in Consent, Consume(c) PROVE PointerNamesGrant'
  BY <1>3, SMTT(20) DEF Consume, continuity, Unchanged
<1>4. ASSUME NEW c \in Consent, StoreCandidate(c) PROVE PointerNamesGrant'
  BY <1>4, SMTT(20) DEF StoreCandidate, continuity, Unchanged
<1>5. ASSUME NEW c \in Consent, FailBeforeCandidate(c) PROVE PointerNamesGrant'
  BY <1>5, SMTT(20) DEF FailBeforeCandidate, continuity, Fault
<1>6. ASSUME NEW c \in Consent, CandidateExpires(c) PROVE PointerNamesGrant'
  BY <1>6, SMTT(20) DEF CandidateExpires, continuity
<1>7. ASSUME NEW c \in Consent, Activate(c) PROVE PointerNamesGrant'
  BY <1>7, SMTT(20) DEF Activate, continuity, Acceptable, Unchanged, Begun, Fault
<1>8. ASSUME NEW c \in Consent, FailCandidate(c) PROVE PointerNamesGrant'
  BY <1>8, SMTT(20) DEF FailCandidate, continuity, Fault
<1>9. ASSUME NEW c \in Consent, Cleanup(c) PROVE PointerNamesGrant'
  BY <1>9, SMTT(20) DEF Cleanup, continuity
<1>10. ASSUME NEW c \in Consent, CrashCallback(c) PROVE PointerNamesGrant'
  BY <1>10, SMTT(20) DEF CrashCallback, continuity, Fault
<1>11. ASSUME NEW x \in Access, NEW a \in Admin, StartAccess(x, a) PROVE PointerNamesGrant'
  BY <1>11, SMTT(20) DEF StartAccess, continuity, GrantFailure
<1>12. ASSUME NEW x \in Access, RefreshRejected(x) PROVE PointerNamesGrant'
  BY <1>12, SMTT(20) DEF RefreshRejected, continuity, Fault
<1>13. ASSUME NEW x \in Access, Recheck(x) PROVE PointerNamesGrant'
  BY <1>13, SMTT(20) DEF Recheck, continuity, GrantFailure
<1>14. ASSUME NEW x \in Access, RecordFailure(x) PROVE PointerNamesGrant'
  BY <1>14, SMTT(20) DEF RecordFailure, continuity
<1>15. ASSUME NEW x \in Access, DropAccess(x) PROVE PointerNamesGrant'
  BY <1>15, SMTT(20) DEF DropAccess, continuity, Fault
<1>16. ASSUME NEW v \in Revocation, StartRevocation(v) PROVE PointerNamesGrant'
  BY <1>16, SMTT(20) DEF StartRevocation, continuity
<1>17. ASSUME NEW v \in Revocation, Revoke(v) PROVE PointerNamesGrant'
  BY <1>17, SMTT(20) DEF Revoke, continuity, Begun
<1>18. ASSUME NEW v \in Revocation, RevokeFenced(v) PROVE PointerNamesGrant'
  BY <1>18, SMTT(20) DEF RevokeFenced, continuity
<1>19. CASE UNCHANGED vars
  BY <1>19 DEF vars, continuity
<1> QED BY <1>1, <1>2, <1>3, <1>4, <1>5, <1>6, <1>7, <1>8, <1>9, <1>10, <1>11, <1>12, <1>13, <1>14, <1>15, <1>16, <1>17, <1>18, <1>19 DEF Next

(* The answers of the callbacks stay true. *)
LEMMA AnswerStep ==
  ASSUME Inductive, [Next]_vars
  PROVE  AnswerIsTrue'
<1> USE NoneAssumption
<1> USE DEF Inductive, TypeOK, GrantStatus, Waiting, GrantRecords, ConsentRecords, NoGrant, NoConsent, AnswerIsTrue, GrantFollowsCallback, OneActiveGrant, PointerNamesGrant
<1>1. ASSUME NEW c \in Consent, NEW a \in Admin, Begin(c, a) PROVE AnswerIsTrue'
  BY <1>1, SMTT(20) DEF Begin, continuity
<1>2. ASSUME NEW c \in Consent, Close(c) PROVE AnswerIsTrue'
  BY <1>2, SMTT(20) DEF Close, continuity
<1>3. ASSUME NEW c \in Consent, Consume(c) PROVE AnswerIsTrue'
  BY <1>3, SMTT(20) DEF Consume, continuity, Unchanged
<1>4. ASSUME NEW c \in Consent, StoreCandidate(c) PROVE AnswerIsTrue'
  BY <1>4, SMTT(20) DEF StoreCandidate, continuity, Unchanged
<1>5. ASSUME NEW c \in Consent, FailBeforeCandidate(c) PROVE AnswerIsTrue'
  BY <1>5, SMTT(20) DEF FailBeforeCandidate, continuity, Fault
<1>6. ASSUME NEW c \in Consent, CandidateExpires(c) PROVE AnswerIsTrue'
  BY <1>6, SMTT(20) DEF CandidateExpires, continuity
<1>7. ASSUME NEW c \in Consent, Activate(c) PROVE AnswerIsTrue'
  BY <1>7, SMTT(20) DEF Activate, continuity, Acceptable, Unchanged, Begun, Fault
<1>8. ASSUME NEW c \in Consent, FailCandidate(c) PROVE AnswerIsTrue'
  BY <1>8, SMTT(20) DEF FailCandidate, continuity, Fault
<1>9. ASSUME NEW c \in Consent, Cleanup(c) PROVE AnswerIsTrue'
  BY <1>9, SMTT(20) DEF Cleanup, continuity
<1>10. ASSUME NEW c \in Consent, CrashCallback(c) PROVE AnswerIsTrue'
  BY <1>10, SMTT(20) DEF CrashCallback, continuity, Fault
<1>11. ASSUME NEW x \in Access, NEW a \in Admin, StartAccess(x, a) PROVE AnswerIsTrue'
  BY <1>11, SMTT(20) DEF StartAccess, continuity, GrantFailure
<1>12. ASSUME NEW x \in Access, RefreshRejected(x) PROVE AnswerIsTrue'
  BY <1>12, SMTT(20) DEF RefreshRejected, continuity, Fault
<1>13. ASSUME NEW x \in Access, Recheck(x) PROVE AnswerIsTrue'
  BY <1>13, SMTT(20) DEF Recheck, continuity, GrantFailure
<1>14. ASSUME NEW x \in Access, RecordFailure(x) PROVE AnswerIsTrue'
  BY <1>14, SMTT(20) DEF RecordFailure, continuity
<1>15. ASSUME NEW x \in Access, DropAccess(x) PROVE AnswerIsTrue'
  BY <1>15, SMTT(20) DEF DropAccess, continuity, Fault
<1>16. ASSUME NEW v \in Revocation, StartRevocation(v) PROVE AnswerIsTrue'
  BY <1>16, SMTT(20) DEF StartRevocation, continuity
<1>17. ASSUME NEW v \in Revocation, Revoke(v) PROVE AnswerIsTrue'
  BY <1>17, SMTT(20) DEF Revoke, continuity, Begun
<1>18. ASSUME NEW v \in Revocation, RevokeFenced(v) PROVE AnswerIsTrue'
  BY <1>18, SMTT(20) DEF RevokeFenced, continuity
<1>19. CASE UNCHANGED vars
  BY <1>19 DEF vars, continuity
<1> QED BY <1>1, <1>2, <1>3, <1>4, <1>5, <1>6, <1>7, <1>8, <1>9, <1>10, <1>11, <1>12, <1>13, <1>14, <1>15, <1>16, <1>17, <1>18, <1>19 DEF Next

-----------------------------------------------------------------------------
(* The invariant holds at first and every step keeps it.                   *)
LEMMA InductiveInvariant == Spec => []Inductive
<1>1. Init => Inductive
  BY NoneAssumption DEF Init, Inductive, TypeOK, OneActiveGrant, ConnectionTellsGrant, OvertakenConsentsFenced,
     PointerNamesGrant, AnswerIsTrue, GrantFollowsCallback, OvertakenAreOlder, AccessKnowsGrant,
     NoConsent, NoGrant, NoAccess, GrantStatus, Waiting, ConsentRecords, GrantRecords, AccessRecords,
     RevocationRecords, Reason
<1>2. Inductive /\ [Next]_vars => Inductive'
  BY TypeStep, CallbackStep, OlderStep, AccessStep, OneActiveStep, ConnectionStep, FencedStep,
     PointerStep, AnswerStep DEF Inductive
<1> QED BY <1>1, <1>2, PTL DEF Spec

(* The types are as declared, and callbacks run for used consents only     *)
(* (the documents of workspaceGoogleOfflineAuthorization.server.ts).       *)
THEOREM TypeCorrect == Spec => []TypeOK
  BY InductiveInvariant, PTL DEF Inductive

(* At most one grant is active, the one the project points to, however     *)
(* many consents, executions and revocations run at once (callback).       *)
THEOREM AtMostOneActiveGrant == Spec => []OneActiveGrant
  BY InductiveInvariant, PTL DEF Inductive

(* The project is CONNECTED exactly while its grant is active (callback,   *)
(* access, recordFailure, revoke).                                         *)
THEOREM ConnectionIsTruthful == Spec => []ConnectionTellsGrant
  BY InductiveInvariant, PTL DEF Inductive

(* A consent begun before another was accepted, or before a revocation,    *)
(* never comes into force (checkPendingBinding).                           *)
THEOREM OvertakenNeverActive == Spec => []OvertakenConsentsFenced
  BY InductiveInvariant, PTL DEF Inductive

(* Cleaning up after a failed callback never removes the grant the project *)
(* points to (callback).                                                   *)
THEOREM PointerNeverDangles == Spec => []PointerNamesGrant
  BY InductiveInvariant, PTL DEF Inductive

(* What a callback answers is true of its grant, also when the             *)
(* acknowledgement of the activation was lost (callback).                  *)
THEOREM AnswersAreTrue == Spec => []AnswerIsTrue
  BY InductiveInvariant, PTL DEF Inductive

-----------------------------------------------------------------------------
InForceNamesActive ==
  /\ \A c \in Consent : Active(c) <=> InForce = c
  /\ InForce \in Consent \union {None}

(* With at most one active grant, the grant in force is the active one.    *)
LEMMA InForceIsActive == OneActiveGrant => InForceNamesActive
<1> SUFFICES ASSUME OneActiveGrant PROVE InForceNamesActive
  OBVIOUS
<1> USE DEF InForceNamesActive
<1>1. CASE \E c \in Consent : Active(c)
  <2> DEFINE chosen == CHOOSE c \in Consent : Active(c)
  <2>1. chosen \in Consent /\ Active(chosen)
    BY <1>1
  <2>2. InForce = chosen
    BY <1>1 DEF InForce
  <2> HIDE DEF chosen
  <2> QED BY <2>1, <2>2 DEF OneActiveGrant, Active
<1>2. CASE ~\E c \in Consent : Active(c)
  BY <1>2, NoneAssumption DEF InForce
<1> QED BY <1>1, <1>2

\* A step only spends grants that were in force, and restores none.
SpendsInForce ==
  \A c \in Consent :
    /\ c \in Spent => c \in Spent'
    /\ Active(c) => Active(c)' \/ c \in Spent'
    /\ c \in Spent' => c \in Spent \/ Active(c)

(* What a step does to the status of a grant.                              *)
LEMMA SpendingStep ==
  ASSUME Inductive, [Next]_vars
  PROVE  SpendsInForce
<1> USE NoneAssumption
<1> USE DEF Inductive, TypeOK, GrantStatus, Waiting, GrantRecords, ConsentRecords, Active, Spent, SpendsInForce
<1>1. ASSUME NEW c \in Consent, NEW a \in Admin, Begin(c, a) PROVE SpendsInForce
  BY <1>1, SMTT(20) DEF Begin
<1>2. ASSUME NEW c \in Consent, Close(c) PROVE SpendsInForce
  BY <1>2, SMTT(20) DEF Close
<1>3. ASSUME NEW c \in Consent, Consume(c) PROVE SpendsInForce
  BY <1>3, SMTT(20) DEF Consume
<1>4. ASSUME NEW c \in Consent, StoreCandidate(c) PROVE SpendsInForce
  BY <1>4, SMTT(20) DEF StoreCandidate, GrantFollowsCallback
<1>5. ASSUME NEW c \in Consent, FailBeforeCandidate(c) PROVE SpendsInForce
  BY <1>5, SMTT(20) DEF FailBeforeCandidate
<1>6. ASSUME NEW c \in Consent, CandidateExpires(c) PROVE SpendsInForce
  BY <1>6, SMTT(20) DEF CandidateExpires
<1>7. ASSUME NEW c \in Consent, Activate(c) PROVE SpendsInForce
  BY <1>7, SMTT(20) DEF Activate, PointerNamesGrant, OneActiveGrant, Acceptable, Unchanged
<1>8. ASSUME NEW c \in Consent, FailCandidate(c) PROVE SpendsInForce
  BY <1>8, SMTT(20) DEF FailCandidate
<1>9. ASSUME NEW c \in Consent, Cleanup(c) PROVE SpendsInForce
  BY <1>9, SMTT(20) DEF Cleanup, NoGrant
<1>10. ASSUME NEW c \in Consent, CrashCallback(c) PROVE SpendsInForce
  BY <1>10, SMTT(20) DEF CrashCallback
<1>11. ASSUME NEW x \in Access, NEW a \in Admin, StartAccess(x, a) PROVE SpendsInForce
  BY <1>11, SMTT(20) DEF StartAccess
<1>12. ASSUME NEW x \in Access, RefreshRejected(x) PROVE SpendsInForce
  BY <1>12, SMTT(20) DEF RefreshRejected
<1>13. ASSUME NEW x \in Access, Recheck(x) PROVE SpendsInForce
  BY <1>13, SMTT(20) DEF Recheck
<1>14. ASSUME NEW x \in Access, RecordFailure(x) PROVE SpendsInForce
  BY <1>14, SMTT(20) DEF RecordFailure
<1>15. ASSUME NEW x \in Access, DropAccess(x) PROVE SpendsInForce
  BY <1>15, SMTT(20) DEF DropAccess
<1>16. ASSUME NEW v \in Revocation, StartRevocation(v) PROVE SpendsInForce
  BY <1>16, SMTT(20) DEF StartRevocation
<1>17. ASSUME NEW v \in Revocation, Revoke(v) PROVE SpendsInForce
  BY <1>17, SMTT(20) DEF Revoke, PointerNamesGrant
<1>18. ASSUME NEW v \in Revocation, RevokeFenced(v) PROVE SpendsInForce
  BY <1>18, SMTT(20) DEF RevokeFenced
<1>19. CASE UNCHANGED vars
  BY <1>19 DEF vars
<1> QED BY <1>1, <1>2, <1>3, <1>4, <1>5, <1>6, <1>7, <1>8, <1>9, <1>10, <1>11, <1>12, <1>13, <1>14, <1>15, <1>16, <1>17, <1>18, <1>19 DEF Next

(* Every step is a change of the register or leaves it as it is.           *)
LEMMA RegisterStep ==
  ASSUME Inductive, Inductive', [Next]_vars
  PROVE  [Register!Next]_(Register!registerVars)
<1>1. SpendsInForce
  BY SpendingStep
<1>2. InForceNamesActive
  BY InForceIsActive DEF Inductive
<1>3. InForceNamesActive'
  <2>1. OneActiveGrant'
    BY DEF Inductive
  <2> QED BY <2>1, InForceIsActive, PTL
<1>4. \A c \in Consent : Active(c)' => c \notin Spent'
  BY DEF Active, Spent
<1>5. Spent \subseteq Consent /\ Spent' \subseteq Consent
  BY DEF Spent
<1> HIDE DEF Active, InForce, Spent
<1>6. CASE InForce' = InForce
  <2>1. Spent' = Spent
    BY <1>1, <1>2, <1>3, <1>4, <1>5, <1>6 DEF SpendsInForce, InForceNamesActive
  <2> QED BY <1>6, <2>1 DEF Register!registerVars
<1>7. CASE InForce' # InForce
  <2>1. Spent' = Spent \union ({InForce} \ {None})
    BY <1>1, <1>2, <1>3, <1>5, <1>7, NoneAssumption DEF SpendsInForce, InForceNamesActive
  <2>2. InForce' \in (Consent \ (Spent \union {InForce})) \union {None}
    BY <1>1, <1>3, <1>4, <1>5, <1>7, NoneAssumption DEF SpendsInForce, InForceNamesActive
  <2> QED BY <2>1, <2>2 DEF Register!Next, Register!Change
<1> QED BY <1>6, <1>7

(* The detailed authorization implements GrantRegister: a grant comes into *)
(* force once and, once superseded, revoked or refused by Google, never    *)
(* again (callback, recordFailure, revoke).                                *)
THEOREM AuthorizationImplementsRegister == Spec => RegisterSpec
<1>1. Init => Register!Init
  BY DEF Init, Register!Init, InForce, Spent, Active, NoGrant
<1>2. Inductive /\ Inductive' /\ [Next]_vars => [Register!Next]_(Register!registerVars)
  BY RegisterStep
<1> QED BY <1>1, <1>2, InductiveInvariant, PTL DEF Spec, RegisterSpec, Register!Spec
=============================================================================
