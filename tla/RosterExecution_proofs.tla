------------------------ MODULE RosterExecution_proofs ------------------------
(***************************************************************************)
(* Proofs of the invariants of RosterExecution and of its refinement of     *)
(* ImportPlan, for every set of requests, number of groups and limit.       *)
(*                                                                          *)
(* The invariants the runs check are inductive together with two more facts:*)
(* what a commit read while it made its plan is still true as long as the   *)
(* session's version is the one it was called with (ReviewRead), and there  *)
(* is nothing under an operation that was not published (Fresh).            *)
(***************************************************************************)
EXTENDS RosterExecution, TLAPS

ReviewRead ==
  \A r \in Request : request[r].step = "publish" =>
    /\ request[r].review # 0
    /\ request[r].expected <= session.version
    /\ request[r].expected = session.version => request[r].review = session.review

Fresh ==
  /\ session.review # 0
  /\ IF Published THEN operation.review # 0 ELSE operation = NoOperation

IInv ==
  /\ TypeOK
  /\ JournalAgrees
  /\ FailureIsTrue
  /\ PlanIsReviewed
  /\ ReviewRead
  /\ Fresh

-----------------------------------------------------------------------------
\* What a step does to the documents: eight kinds

Edits == /\ ~session.managed
         /\ \E state \in {"REVIEW", "INTENT_REVIEWED", "CANCELLED"},
               review \in {session.review, session.review + 1} :
              session' = [session EXCEPT !.state = state, !.review = review, !.version = @ + 1]
         /\ UNCHANGED <<operation, receipts, audit, request>>

Publishes(r) ==
  /\ request[r].step = "publish" /\ CanPublish(r)
  /\ operation' = [NoOperation EXCEPT !.state = "READY", !.version = 1, !.review = request[r].review,
                     !.requestVersion = request[r].expected, !.sessionVersion = request[r].expected]
  /\ session' = [session EXCEPT !.managed = TRUE]
  /\ UNCHANGED <<receipts, audit>>

Claims(r) ==
  /\ CanClaim(r)
  /\ operation' = [operation EXCEPT !.state = "EXECUTING", !.fence = @ + 1, !.version = @ + 1]
  /\ UNCHANGED <<session, receipts, audit>>

Writes(r) == CanWrite(r) /\ WriteNext

Records(r) ==
  /\ Held(r)
  /\ operation' = [operation EXCEPT
       !.state = IF AlreadyCompleted(r) THEN "PARTIAL" ELSE request[r].outcome,
       !.failure = IF AlreadyCompleted(r) THEN {} ELSE request[r].failed,
       !.version = @ + 1]
  /\ UNCHANGED <<session, receipts, audit>>

Cancels(r) ==
  /\ CanCancel(r)
  /\ operation' = [operation EXCEPT !.state = "CANCELLED", !.fence = @ + 1, !.version = @ + 1,
                     !.sessionVersion = session.version + 1]
  /\ session' = [session EXCEPT !.state = "CANCELLED", !.version = @ + 1]
  /\ UNCHANGED <<receipts, audit>>

Reads == UNCHANGED durable

Kinds == \/ Edits \/ Reads
         \/ \E r \in Request : Publishes(r) \/ Claims(r) \/ Writes(r) \/ Records(r) \/ Cancels(r)

\* Requests begin to publish only as Prepare lets them.
Reviews == \A r \in Request : request'[r].step = "publish" =>
  \/ request'[r] = request[r]
  \/ /\ request'[r].review = session.review /\ request'[r].expected = session.version
     /\ session' = session

Types == request \in [Request -> RequestRecords]

LEMMA RequestSteps ==
  ASSUME TypeOK, NEW r \in Request, NEW new \in RequestRecords,
         request' = [request EXCEPT ![r] = new],
         \/ new.step # "publish"
         \/ new.review = session.review /\ new.expected = session.version /\ session' = session
  PROVE Types' /\ Reviews
  BY DEF TypeOK, Types, Reviews

\* Every step of Next is of one of the kinds, keeps the requests well formed, and lets only a
\* request that has just read the session publish.
LEMMA NextKinds == TypeOK /\ [Next]_vars => Kinds /\ Types' /\ Reviews
<1> SUFFICES ASSUME TypeOK, [Next]_vars PROVE Kinds /\ Types' /\ Reviews
  OBVIOUS
<1> USE DEF Types
<1>t. session \in SessionRecords /\ operation \in OperationRecords
      /\ receipts \subseteq Group /\ request \in [Request -> RequestRecords]
      /\ \A r \in Request : /\ request[r] \in RequestRecords /\ request[r].fence \in Nat
                            /\ request[r].turn \in Nat /\ request[r].review \in Nat
                            /\ request[r].expected \in Nat /\ request[r].group \in Nat
  BY DEF TypeOK, RequestRecords
<1>o. operation.version \in Nat /\ operation.fence \in Nat /\ operation.requestVersion \in Nat
      /\ operation.done \in Nat /\ session.version \in Nat /\ session.review \in Nat
  BY <1>t DEF OperationRecords, SessionRecords
<1>n. NoRequest \in RequestRecords /\ NoRequest.step = "idle"
  BY DEF NoRequest, RequestRecords, Step, Outcome
<1>0. CASE UNCHANGED vars
  BY <1>0, <1>t DEF vars, Kinds, Reads, durable, Reviews
<1>1. CASE Edit
  <2>1. Edits
    BY <1>1, <1>t DEF Edit, Checkpoint, Edits, SessionRecords
  <2> QED BY <2>1, <1>t DEF Edits, Kinds, Reviews
<1>2. ASSUME NEW r \in Request, Return(r) PROVE Types' /\ Reviews
  BY <1>2, <1>n, RequestSteps DEF Return
<1>3. ASSUME NEW r \in Request, NEW step, NEW guard, Throws(r, step, guard)
      PROVE Kinds /\ Types' /\ Reviews
  BY <1>3, <1>2 DEF Throws, Kinds, Reads
<1>4. ASSUME NEW r \in Request, NEW step \in Step \ {"publish"}, NEW expected \in Nat,
             Call(r, step, expected)
      PROVE Kinds /\ Types' /\ Reviews
  <2> DEFINE new == [NoRequest EXCEPT !.step = step, !.expected = expected]
  <2>1. new \in RequestRecords /\ new.step # "publish"
    BY <1>4 DEF NoRequest, RequestRecords, Outcome
  <2>2. request' = [request EXCEPT ![r] = new] /\ Reads
    BY <1>4 DEF Call, Reads, durable
  <2> HIDE DEF new
  <2> QED BY <2>1, <2>2, RequestSteps DEF Kinds
<1>5. ASSUME NEW r \in Request, Commit(r) \/ Retry(r) \/ CallCancel(r)
      PROVE Kinds /\ Types' /\ Reviews
  BY <1>4, <1>5, <1>o DEF Commit, Retry, CallCancel, Step
<1>6. ASSUME NEW r \in Request, Prepare(r) PROVE Kinds /\ Types' /\ Reviews
  <2>1. CASE Throws(r, "prepare", CanPrepare(r))
    BY <2>1, <1>3
  <2>2. ASSUME CanPrepare(r),
               request' = [request EXCEPT ![r].step = "publish", ![r].review = session.review],
               UNCHANGED durable
        PROVE Kinds /\ Types' /\ Reviews
    <3> DEFINE new == [request[r] EXCEPT !.step = "publish", !.review = session.review]
    <3>1. new \in RequestRecords /\ new.review = session.review /\ new.expected = session.version
      BY <2>2, <1>t, <1>o DEF RequestRecords, Step, CanPrepare
    <3>2. request' = [request EXCEPT ![r] = new] /\ session' = session
      BY <2>2, <1>t DEF durable
    <3> HIDE DEF new
    <3> QED BY <3>1, <3>2, <2>2, RequestSteps DEF Kinds, Reads
  <2> QED BY <1>6, <2>1, <2>2 DEF Prepare
<1>7. ASSUME NEW r \in Request, Stale(r) PROVE Kinds /\ Types' /\ Reviews
  BY <1>7, <1>2 DEF Stale, Kinds, Reads
<1>8. ASSUME NEW r \in Request, NEW step \in Step \ {"publish"}, NEW expected \in Nat,
             request' = [request EXCEPT ![r].step = step, ![r].expected = expected]
      PROVE Types' /\ Reviews
  <2> DEFINE new == [request[r] EXCEPT !.step = step, !.expected = expected]
  <2>1. new \in RequestRecords /\ new.step # "publish"
    BY <1>t DEF RequestRecords
  <2>2. request' = [request EXCEPT ![r] = new]
    BY <1>8, <1>t
  <2> HIDE DEF new
  <2> QED BY <2>1, <2>2, RequestSteps
<1>9. ASSUME NEW r \in Request, Publish(r) PROVE Kinds /\ Types' /\ Reviews
  <2>1. CASE Throws(r, "publish", CanPublish(r) \/ Joins(r))
    BY <2>1, <1>3
  <2>2. ASSUME request' = [request EXCEPT ![r].step = "started"] PROVE Types' /\ Reviews
    <3>1. request' = [request EXCEPT ![r].step = "started", ![r].expected = request[r].expected]
      BY <2>2, <1>t DEF RequestRecords
    <3> QED BY <3>1, <1>8, <1>t DEF Step
  <2>3. CASE ~Throws(r, "publish", CanPublish(r) \/ Joins(r))
    BY <2>2, <2>3, <1>9 DEF Publish, Publishes, Kinds, Reads, durable
  <2> QED BY <2>1, <2>3
<1>10. ASSUME NEW r \in Request, Started(r) PROVE Kinds /\ Types' /\ Reviews
  <2>1. CASE Throws(r, "started", Loads /\ operation.state = "READY")
    BY <2>1, <1>3
  <2>2. CASE ~Throws(r, "started", Loads /\ operation.state = "READY")
    BY <2>2, <1>10, <1>8, <1>o DEF Started, Step, Kinds, Reads
  <2> QED BY <2>1, <2>2
<1>11. ASSUME NEW r \in Request, Claim(r) PROVE Kinds /\ Types' /\ Reviews
  <2>1. CASE Throws(r, "claim", CanClaim(r))
    BY <2>1, <1>3
  <2>2. CASE ~Throws(r, "claim", CanClaim(r))
    <3> DEFINE new == [NoRequest EXCEPT !.step = "group", !.fence = operation.fence + 1]
    <3>1. new \in RequestRecords /\ new.step # "publish"
      <4>1. operation.fence + 1 \in Nat
        BY <1>o
      <4> QED BY <4>1, <1>n DEF RequestRecords, Step
    <3>2. request' = [request EXCEPT ![r] = new] /\ Claims(r)
      BY <2>2, <1>11 DEF Claim, Claims
    <3> HIDE DEF new
    <3> QED BY <3>1, <3>2, RequestSteps DEF Kinds
  <2> QED BY <2>1, <2>2
<1>12. ASSUME NEW r \in Request, NEW outcome \in Outcome, NEW failed \in SUBSET Nat,
              Ends(r, outcome, failed)
       PROVE Types' /\ Reviews
  <2> DEFINE new == [request[r] EXCEPT !.step = "finish", !.outcome = outcome, !.failed = failed]
  <2>1. new \in RequestRecords /\ new.step # "publish"
    BY <1>t DEF RequestRecords, Step
  <2>2. request' = [request EXCEPT ![r] = new]
    BY <1>12, <1>t DEF Ends
  <2> HIDE DEF new
  <2> QED BY <2>1, <2>2, RequestSteps
<1>13. NextGroup \in Nat
  BY <1>o DEF NextGroup
<1>14. ASSUME NEW r \in Request, request[r].step = "group",
              \/ request' = [request EXCEPT ![r].turn = @ + 1, ![r].group = NextGroup]
              \/ request' = [request EXCEPT ![r].group = NextGroup]
       PROVE Types' /\ Reviews
  <2> DEFINE one == [request[r] EXCEPT !.turn = @ + 1, !.group = NextGroup]
             two == [request[r] EXCEPT !.group = NextGroup]
  <2>0. request[r].turn + 1 \in Nat
    BY <1>t
  <2>1. one \in RequestRecords /\ one.step # "publish"
    BY <2>0, <1>14, <1>t, <1>13 DEF RequestRecords
  <2>2. two \in RequestRecords /\ two.step # "publish"
    BY <1>14, <1>t, <1>13 DEF RequestRecords
  <2>3. request' = [request EXCEPT ![r] = one] \/ request' = [request EXCEPT ![r] = two]
    BY <1>14, <1>t
  <2> HIDE DEF one, two
  <2> QED BY <2>1, <2>2, <2>3, RequestSteps
<1>15. ASSUME NEW r \in Request, WriteGroup(r) PROVE Kinds /\ Types' /\ Reviews
  <2>1. Kinds
    BY <1>15 DEF WriteGroup, Kinds, Writes
  <2>2. CASE Return(r)
    BY <2>1, <2>2, <1>2
  <2>3. CASE Ends(r, "PARTIAL", {})
    BY <2>1, <2>3, <1>12 DEF Outcome
  <2>4. CASE request' = [request EXCEPT ![r].turn = @ + 1, ![r].group = NextGroup]
    BY <2>1, <2>4, <1>14, <1>15 DEF WriteGroup, CanWrite
  <2> QED BY <1>15, <2>2, <2>3, <2>4 DEF WriteGroup
<1>16. ASSUME NEW r \in Request, LoseAck(r) PROVE Kinds /\ Types' /\ Reviews
  <2>1. Kinds
    BY <1>16 DEF LoseAck, Kinds, Writes
  <2>2. ASSUME NEW outcome \in {"PARTIAL", "REVIEW_REQUIRED"}, Ends(r, outcome, {NextGroup})
        PROVE Types' /\ Reviews
    BY <2>2, <1>12, <1>13 DEF Outcome
  <2>3. CASE request' = [request EXCEPT ![r].group = NextGroup]
    BY <2>1, <2>3, <1>14, <1>16 DEF LoseAck, CanWrite
  <2> QED BY <1>16, <2>1, <2>2, <2>3 DEF LoseAck
<1>17. ASSUME NEW r \in Request, FailGroup(r) PROVE Kinds /\ Types' /\ Reviews
  <2>1. PICK outcome \in Outcome, g \in Nat : Ends(r, outcome, {g})
    BY <1>17, <1>t, <1>13 DEF FailGroup, Outcome
  <2> QED BY <2>1, <1>12, <1>17 DEF FailGroup, Kinds, Reads
<1>18. ASSUME NEW r \in Request, RefuseGroup(r) PROVE Kinds /\ Types' /\ Reviews
  BY <1>18, <1>12, <1>13 DEF RefuseGroup, Outcome, Kinds, Reads
<1>19. ASSUME NEW r \in Request, Finish(r) PROVE Kinds /\ Types' /\ Reviews
  BY <1>19, <1>2, <1>3 DEF Finish, Records, Kinds
<1>20. ASSUME NEW r \in Request, Cancel(r) PROVE Kinds /\ Types' /\ Reviews
  BY <1>20, <1>2, <1>3 DEF Cancel, Cancels, Kinds
<1>21. ASSUME NEW r \in Request, Crash(r) PROVE Kinds /\ Types' /\ Reviews
  BY <1>21, <1>2 DEF Crash, Kinds, Reads
<1>22. ASSUME NEW r \in Request, Superseded(r) PROVE Kinds /\ Types' /\ Reviews
  BY <1>22, <1>3 DEF Superseded
<1> QED
  BY <1>0, <1>1, <1>5, <1>6, <1>7, <1>9, <1>10, <1>11, <1>15, <1>16, <1>17, <1>18, <1>19, <1>20,
     <1>21, <1>22 DEF Next

\* The counters of the bounds stay natural numbers.
LEMMA Counters == TypeOK /\ [Next]_vars => edits' \in Nat /\ calls' \in Nat /\ faults' \in Nat
<1> SUFFICES ASSUME TypeOK, [Next]_vars
             PROVE edits' \in Nat /\ calls' \in Nat /\ faults' \in Nat
  OBVIOUS
<1> DEFINE Bounds == edits' \in Nat /\ calls' \in Nat /\ faults' \in Nat
<1>t. edits \in Nat /\ calls \in Nat /\ faults \in Nat
  BY DEF TypeOK
<1>1. Same => Bounds
  BY <1>t DEF Same
<1>2. Fault /\ UNCHANGED <<edits, calls>> => Bounds
  BY <1>t DEF Fault
<1>3. UNCHANGED vars \/ Edit => Bounds
  BY <1>t DEF vars, Edit, Checkpoint
<1>4. ASSUME NEW r \in Request, Commit(r) \/ Retry(r) \/ CallCancel(r) PROVE Bounds
  BY <1>4, <1>t DEF Commit, Retry, CallCancel, Call
<1> HIDE DEF Bounds
<1>5. ASSUME NEW r \in Request,
             Prepare(r) \/ Stale(r) \/ Publish(r) \/ Started(r) \/ Claim(r) \/ WriteGroup(r)
               \/ RefuseGroup(r) \/ Superseded(r) \/ Finish(r) \/ Cancel(r)
      PROVE Bounds
  BY <1>5, <1>1 DEF Prepare, Stale, Publish, Started, Claim, WriteGroup, RefuseGroup, Superseded,
                    Finish, Cancel, Throws
<1>6. ASSUME NEW r \in Request, LoseAck(r) \/ FailGroup(r) \/ Crash(r) PROVE Bounds
  BY <1>6, <1>2 DEF LoseAck, FailGroup, Crash
<1>7. Bounds
  BY <1>3, <1>4, <1>5, <1>6 DEF Next
<1> QED BY <1>7 DEF Bounds

-----------------------------------------------------------------------------
\* The invariant

Documents == /\ session \in SessionRecords
             /\ operation \in OperationRecords /\ operation.done <= GroupCount
             /\ receipts \subseteq Group
             /\ audit \in Seq([group : Nat, review : Nat])

Agreement == JournalAgrees /\ FailureIsTrue /\ PlanIsReviewed /\ Fresh

\* The session's version grows with its review.
Ages == /\ session'.version >= session.version
        /\ session'.review = session.review \/ session'.version > session.version

Keeps == Documents' /\ Agreement' /\ Ages

LEMMA Facts ==
  ASSUME IInv
  PROVE  /\ session.state \in {"REVIEW", "INTENT_REVIEWED", "COMMITTED", "CANCELLED"}
         /\ session.version \in Nat /\ session.review \in Nat /\ session.managed \in BOOLEAN
         /\ operation.version \in Nat /\ operation.fence \in Nat /\ operation.done \in Nat
         /\ operation.sessionVersion \in Nat /\ operation.review \in Nat
         /\ operation.failure \in SUBSET Nat
         /\ GroupCount \in Nat /\ GroupCount > 0
         /\ Documents /\ Agreement
         /\ \A r \in Request : /\ request[r] \in RequestRecords
                                /\ request[r].expected \in Nat /\ request[r].review \in Nat
                                /\ request[r].outcome \in Outcome /\ request[r].failed \in SUBSET Nat
<1>1. Documents /\ Agreement
  BY DEF IInv, TypeOK, Documents, Agreement
<1>2. session \in SessionRecords /\ operation \in OperationRecords
  BY <1>1 DEF Documents
<1>3. /\ session.state \in {"REVIEW", "INTENT_REVIEWED", "COMMITTED", "CANCELLED"}
      /\ session.version \in Nat /\ session.review \in Nat /\ session.managed \in BOOLEAN
  BY <1>2 DEF SessionRecords
<1>4. /\ operation.version \in Nat /\ operation.fence \in Nat /\ operation.done \in Nat
      /\ operation.sessionVersion \in Nat /\ operation.review \in Nat
      /\ operation.failure \in SUBSET Nat
  BY <1>2 DEF OperationRecords
<1>5. \A r \in Request : request[r] \in RequestRecords
  BY DEF IInv, TypeOK
<1>6. \A r \in Request : /\ request[r].expected \in Nat /\ request[r].review \in Nat
                         /\ request[r].outcome \in Outcome /\ request[r].failed \in SUBSET Nat
  BY <1>5 DEF RequestRecords
<1>7. GroupCount \in Nat /\ GroupCount > 0
  BY CountsAssumption
<1> QED BY <1>1, <1>3, <1>4, <1>5, <1>6, <1>7

\* What the records of a step are made of is of the right type.
LEMMA Successors ==
  ASSUME IInv
  PROVE  /\ session \in SessionRecords /\ operation \in OperationRecords
         /\ session.version + 1 \in Nat /\ operation.version + 1 \in Nat
         /\ operation.fence + 1 \in Nat /\ operation.done + 1 \in Nat
  BY Facts DEF Documents

LEMMA EditsKeep == IInv /\ Edits => Keeps
<1> SUFFICES ASSUME IInv, Edits PROVE Keeps
  OBVIOUS
<1>f. session.version \in Nat /\ session.review \in Nat /\ session.review # 0 /\ ~Published
      /\ session \in SessionRecords
  BY Facts DEF Edits, Agreement, Fresh, JournalAgrees, Loads, Documents
<1>1. PICK state \in {"REVIEW", "INTENT_REVIEWED", "CANCELLED"},
           review \in {session.review, session.review + 1} :
        session' = [session EXCEPT !.state = state, !.review = review, !.version = @ + 1]
  BY DEF Edits
<1>2. /\ session'.version = session.version + 1 /\ session'.review = review
      /\ session'.managed = session.managed /\ session' \in SessionRecords
      /\ review \in Nat /\ review # 0
  <2>1. review \in Nat /\ review # 0
    BY <1>f
  <2> QED BY <1>1, <2>1, Successors DEF SessionRecords
<1>3. UNCHANGED <<operation, receipts, audit>> /\ ~session.managed
  BY DEF Edits
<1>4. Documents' /\ Ages
  BY <1>2, <1>3, <1>f, Facts DEF Documents, Ages, Group
<1>5. operation.done = 0 /\ ~Published'
  BY <1>f, <1>3, Facts DEF Agreement, Fresh, NoOperation, Published
<1>6. JournalAgrees' /\ FailureIsTrue'
  BY <1>2, <1>3, <1>5, Facts DEF Agreement, JournalAgrees, Loads, FailureIsTrue
<1>7. DOMAIN audit = {}
  BY <1>5, Facts DEF Agreement, JournalAgrees, Documents
<1>8. PlanIsReviewed' /\ Fresh'
  BY <1>2, <1>3, <1>5, <1>7, <1>f, Facts DEF Agreement, PlanIsReviewed, Fresh
<1> QED BY <1>4, <1>6, <1>8 DEF Keeps, Agreement

LEMMA ReadsKeep == IInv /\ Reads => Keeps
<1> SUFFICES ASSUME IInv, Reads PROVE Keeps
  OBVIOUS
<1>1. UNCHANGED <<session, operation, receipts, audit>>
  BY DEF Reads, durable
<1>2. Documents' /\ Ages
  BY <1>1, Facts DEF Documents, Ages, Group
<1>3. JournalAgrees' /\ FailureIsTrue' /\ PlanIsReviewed' /\ Fresh'
  BY <1>1, Facts DEF Agreement, JournalAgrees, Loads, Published, SessionState, FailureIsTrue,
                     PlanIsReviewed, Fresh
<1> QED BY <1>2, <1>3 DEF Keeps, Agreement

\* The steps that change the operation alone leave the session as the operation expects it.
LEMMA OperationKeeps ==
  ASSUME IInv, Published, UNCHANGED <<session, receipts, audit>>,
         operation.state \notin {"COMPLETED", "CANCELLED"},
         operation' \in OperationRecords,
         operation'.state \in {"EXECUTING", "PARTIAL", "REVIEW_REQUIRED"},
         operation'.done = operation.done, operation'.review = operation.review,
         operation'.sessionVersion = operation.sessionVersion,
         operation'.failure \intersect receipts = {}
  PROVE  Keeps
<1>1. Published' /\ SessionState' = "INTENT_REVIEWED" /\ SessionState = "INTENT_REVIEWED"
  BY DEF Published, SessionState
<1>2. Documents' /\ Ages
  BY Facts DEF Documents, Ages, Group
<1>3. JournalAgrees' /\ FailureIsTrue'
  BY <1>1, Facts DEF Agreement, JournalAgrees, Loads, FailureIsTrue
<1>4. PlanIsReviewed' /\ Fresh'
  BY <1>1, Facts DEF Agreement, PlanIsReviewed, Fresh
<1> QED BY <1>2, <1>3, <1>4 DEF Keeps, Agreement

LEMMA PublishesKeep == \A r \in Request : IInv /\ Publishes(r) => Keeps
<1> SUFFICES ASSUME NEW r \in Request, IInv, Publishes(r) PROVE Keeps
  OBVIOUS
<1>1. ~Published /\ operation = NoOperation /\ session.version = request[r].expected
      /\ session.state = "INTENT_REVIEWED" /\ request[r].step = "publish"
  BY Facts DEF Publishes, CanPublish, Agreement, Fresh
<1>2. request[r].review = session.review /\ session.review # 0
  BY <1>1, Facts DEF IInv, ReviewRead
<1>3. /\ operation'.state = "READY" /\ operation'.done = 0 /\ operation'.failure = {}
      /\ operation'.review = session.review /\ operation'.sessionVersion = session.version
  BY <1>1, <1>2 DEF Publishes, NoOperation
<1>4. operation' \in OperationRecords
  BY <1>2, Facts DEF Publishes, NoOperation, OperationRecords
<1>5. /\ session'.state = "INTENT_REVIEWED" /\ session'.managed /\ session'.version = session.version
      /\ session'.review = session.review /\ session' \in SessionRecords
  BY <1>1, Facts DEF Publishes, SessionRecords, Documents
<1>6. UNCHANGED <<receipts, audit>> /\ operation.done = 0
  BY <1>1 DEF Publishes, NoOperation
<1>7. Published' /\ SessionState' = "INTENT_REVIEWED"
  BY <1>3 DEF Published, SessionState
<1>8. Documents' /\ Ages
  BY <1>3, <1>4, <1>5, <1>6, Facts DEF Documents, Ages, Group
<1>9. JournalAgrees' /\ FailureIsTrue'
  BY <1>3, <1>5, <1>6, <1>7, Facts DEF Agreement, JournalAgrees, Loads, FailureIsTrue
<1>10. PlanIsReviewed' /\ Fresh'
  BY <1>2, <1>3, <1>5, <1>6, <1>7, Facts DEF Agreement, PlanIsReviewed, Fresh
<1> QED BY <1>8, <1>9, <1>10 DEF Keeps, Agreement

LEMMA ClaimsKeep == \A r \in Request : IInv /\ Claims(r) => Keeps
<1> SUFFICES ASSUME NEW r \in Request, IInv, Claims(r) PROVE Keeps
  OBVIOUS
<1>1. Published /\ operation.state \notin {"COMPLETED", "CANCELLED"}
      /\ UNCHANGED <<session, receipts, audit>>
  BY DEF Claims, CanClaim, Terminal
<1>2. /\ operation'.state = "EXECUTING" /\ operation'.done = operation.done
      /\ operation'.review = operation.review /\ operation'.failure = operation.failure
      /\ operation'.sessionVersion = operation.sessionVersion /\ operation' \in OperationRecords
  BY Successors DEF Claims, OperationRecords
<1>3. operation'.failure \intersect receipts = {}
  BY <1>2, Facts DEF Agreement, FailureIsTrue
<1> QED BY <1>1, <1>2, <1>3, OperationKeeps

LEMMA RecordsKeep == \A r \in Request : IInv /\ Records(r) => Keeps
<1> SUFFICES ASSUME NEW r \in Request, IInv, Records(r) PROVE Keeps
  OBVIOUS
<1>1. operation.state = "EXECUTING" /\ Published /\ UNCHANGED <<session, receipts, audit>>
  BY DEF Records, Held, Published
<1> DEFINE state == IF AlreadyCompleted(r) THEN "PARTIAL" ELSE request[r].outcome
           failure == IF AlreadyCompleted(r) THEN {} ELSE request[r].failed
<1>2. state \in Outcome /\ failure \in SUBSET Nat /\ failure \intersect receipts = {}
  BY Facts DEF AlreadyCompleted, Outcome
<1>3. operation' = [operation EXCEPT !.state = state, !.failure = failure, !.version = @ + 1]
  BY DEF Records
<1> HIDE DEF state, failure
<1>4. /\ operation'.state = state /\ operation'.done = operation.done
      /\ operation'.review = operation.review /\ operation'.failure = failure
      /\ operation'.sessionVersion = operation.sessionVersion /\ operation' \in OperationRecords
  BY <1>2, <1>3, Successors DEF OperationRecords, Outcome
<1> QED BY <1>1, <1>2, <1>4, OperationKeeps DEF Outcome

LEMMA WritesKeep == \A r \in Request : IInv /\ Writes(r) => Keeps
<1> SUFFICES ASSUME NEW r \in Request, IInv, Writes(r) PROVE Keeps
  OBVIOUS
<1> DEFINE entry == [group |-> NextGroup, review |-> session.review]
<1>1. operation.state = "EXECUTING" /\ Published /\ NextGroup \in Group /\ Loads
      /\ NextGroup = operation.done + 1
  BY DEF Writes, CanWrite, Held, Published, NextGroup
<1>2. /\ operation'.state = IF Completes THEN "COMPLETED" ELSE "EXECUTING"
      /\ operation'.done = operation.done + 1
      /\ operation'.review = operation.review /\ operation'.failure = {}
      /\ operation'.sessionVersion = session.version + 1 /\ operation' \in OperationRecords
  BY Successors DEF Writes, WriteNext, OperationRecords
<1>3. /\ session'.state = IF Completes THEN "COMMITTED" ELSE "INTENT_REVIEWED"
      /\ session'.version = session.version + 1 /\ session'.review = session.review
      /\ session'.managed = session.managed /\ session' \in SessionRecords
  BY Successors DEF Writes, WriteNext, SessionRecords
<1>4. receipts' = receipts \union {operation.done + 1} /\ audit' = Append(audit, entry)
  BY <1>1 DEF Writes, WriteNext
<1>5. operation.done + 1 <= GroupCount /\ operation.done + 1 \in Group
  BY <1>1, Facts DEF Group
<1>6. Completes <=> operation'.done = GroupCount
  BY <1>2 DEF Completes
<1>7. Published' /\ session.managed /\ session.review = operation.review
  BY <1>1, <1>2 DEF Published, Loads
<1>8. session'.state = SessionState'
  BY <1>2, <1>3 DEF SessionState
<1>9. entry \in [group : Nat, review : Nat] /\ entry.review = session.review
  BY <1>1, Facts
<1> HIDE DEF entry
<1>10. /\ audit' \in Seq([group : Nat, review : Nat]) /\ Len(audit') = Len(audit) + 1
       /\ \A i \in DOMAIN audit' : (i \in DOMAIN audit /\ audit'[i] = audit[i]) \/ audit'[i] = entry
  BY <1>4, <1>9, Facts DEF Documents
<1>11. Documents' /\ Ages
  BY <1>2, <1>3, <1>4, <1>5, <1>10, Facts DEF Documents, Ages, Group
<1>12. receipts' = 1 .. operation'.done
  BY <1>2, <1>4, Facts DEF Agreement, JournalAgrees
<1>13. JournalAgrees' /\ FailureIsTrue'
  BY <1>2, <1>3, <1>6, <1>7, <1>8, <1>10, <1>12, Facts
     DEF Agreement, JournalAgrees, Loads, FailureIsTrue
<1>14. PlanIsReviewed' /\ Fresh'
  BY <1>2, <1>3, <1>7, <1>9, <1>10, Facts DEF Agreement, PlanIsReviewed, Fresh
<1> QED BY <1>11, <1>13, <1>14 DEF Keeps, Agreement

LEMMA CancelsKeep == \A r \in Request : IInv /\ Cancels(r) => Keeps
<1> SUFFICES ASSUME NEW r \in Request, IInv, Cancels(r) PROVE Keeps
  OBVIOUS
<1>1. Published /\ Loads /\ operation.state \notin {"COMPLETED", "CANCELLED"}
  BY DEF Cancels, CanCancel, Terminal
<1>2. /\ operation'.state = "CANCELLED" /\ operation'.done = operation.done
      /\ operation'.review = operation.review /\ operation'.failure = operation.failure
      /\ operation'.sessionVersion = session.version + 1 /\ operation' \in OperationRecords
  BY Successors DEF Cancels, OperationRecords
<1>3. /\ session'.state = "CANCELLED" /\ session'.version = session.version + 1
      /\ session'.review = session.review /\ session'.managed = session.managed
      /\ session' \in SessionRecords
  BY Successors DEF Cancels, SessionRecords
<1>4. UNCHANGED <<receipts, audit>>
  BY DEF Cancels
<1>5. Published' /\ SessionState' = "CANCELLED" /\ session.managed /\ session.review = operation.review
  BY <1>1, <1>2 DEF Published, SessionState, Loads
<1>6. Documents' /\ Ages
  BY <1>2, <1>3, <1>4, Facts DEF Documents, Ages, Group
<1>7. JournalAgrees' /\ FailureIsTrue'
  BY <1>1, <1>2, <1>3, <1>4, <1>5, Facts DEF Agreement, JournalAgrees, Loads, FailureIsTrue
<1>8. PlanIsReviewed' /\ Fresh'
  BY <1>2, <1>3, <1>4, <1>5, Facts DEF Agreement, PlanIsReviewed, Fresh
<1> QED BY <1>6, <1>7, <1>8 DEF Keeps, Agreement

\* Every step keeps the documents, their agreement, and what unfinished commits have read.
LEMMA Preserved == IInv /\ [Next]_vars => IInv'
<1> SUFFICES ASSUME IInv, [Next]_vars PROVE IInv'
  OBVIOUS
<1>1. Kinds /\ Types' /\ Reviews
  BY NextKinds DEF IInv
<1>2. Keeps
  BY <1>1, EditsKeep, ReadsKeep, PublishesKeep, ClaimsKeep, RecordsKeep, WritesKeep, CancelsKeep
  DEF Kinds
<1>3. edits' \in Nat /\ calls' \in Nat /\ faults' \in Nat
  BY Counters DEF IInv
<1>4. TypeOK'
  BY <1>1, <1>2, <1>3 DEF Keeps, Documents, Types, TypeOK, Group
<1>5. ReviewRead'
  <2> SUFFICES ASSUME NEW r \in Request, request'[r].step = "publish"
               PROVE  /\ request'[r].review # 0
                      /\ request'[r].expected <= session'.version
                      /\ request'[r].expected = session'.version => request'[r].review = session'.review
    BY DEF ReviewRead
  <2>1. session.version \in Nat /\ session'.version \in Nat /\ session.review # 0
        /\ request[r].expected \in Nat
    BY <1>2, Facts DEF Keeps, Documents, SessionRecords, Agreement, Fresh
  <2>2. Ages
    BY <1>2 DEF Keeps
  <2>3. CASE request'[r] = request[r]
    BY <2>1, <2>2, <2>3 DEF IInv, ReviewRead, Ages
  <2>4. CASE request'[r].review = session.review /\ request'[r].expected = session.version
             /\ session' = session
    BY <2>1, <2>4
  <2> QED BY <1>1, <2>3, <2>4 DEF Reviews
<1> QED BY <1>2, <1>4, <1>5 DEF IInv, Keeps, Agreement

LEMMA Initially == Init => IInv
<1> SUFFICES ASSUME Init PROVE IInv
  OBVIOUS
<1>1. NoRequest \in RequestRecords /\ NoRequest.step = "idle"
  BY DEF NoRequest, RequestRecords, Step, Outcome
<1>2. NoOperation \in OperationRecords /\ ~Published /\ operation = NoOperation
      /\ operation.done = 0 /\ operation.failure = {} /\ operation.state = "NONE"
  BY DEF Init, NoOperation, OperationRecords, Published
<1>3. TypeOK
  BY <1>1, <1>2, CountsAssumption DEF Init, TypeOK, SessionRecords
<1>4. JournalAgrees /\ FailureIsTrue /\ PlanIsReviewed /\ ReviewRead /\ Fresh
  BY <1>1, <1>2, CountsAssumption DEF Init, JournalAgrees, Loads, FailureIsTrue, PlanIsReviewed,
                                      ReviewRead, Fresh
<1> QED BY <1>3, <1>4 DEF IInv

LEMMA Inductive == Spec => []IInv
  BY Initially, Preserved, PTL DEF Spec

-----------------------------------------------------------------------------
\* The theorems

\* Every document and every request is well formed, and no operation counts more groups than its
\* plan has, for every number of groups, requests and faults.
THEOREM TypeCorrect == Spec => []TypeOK
<1>1. IInv => TypeOK
  BY DEF IInv
<1> QED BY <1>1, Inductive, PTL

\* The integrity checks of load and status never fire: session, operation, receipts and audit log
\* agree after any interleaving of commits, attempts, cancellations, crashes and lost answers.
THEOREM JournalNeverDisagrees == Spec => []JournalAgrees
<1>1. IInv => JournalAgrees
  BY DEF IInv
<1> QED BY <1>1, Inductive, PTL

\* A failure that is shown is of a group that was not written.
THEOREM ShownFailuresAreTrue == Spec => []FailureIsTrue
<1>1. IInv => FailureIsTrue
  BY DEF IInv
<1> QED BY <1>1, Inductive, PTL

\* What is executed is the review the session holds.
THEOREM OnlyReviewedIsExecuted == Spec => []PlanIsReviewed
<1>1. IInv => PlanIsReviewed
  BY DEF IInv
<1> QED BY <1>1, Inductive, PTL

Told == CASE operation.state = "COMPLETED" -> "completed"
          [] operation.state = "CANCELLED" -> "cancelled"
          [] OTHER -> "open"

\* The execution implements ImportPlan: one plan, its groups in order and once, nothing after its
\* end.
THEOREM ExecutionImplementsPlan == Spec => PlanSpec
<1>1. Init => Plan!Init
  BY DEF Init, Plan!Init, NoOperation
<1>2. IInv /\ [Next]_vars => [Plan!Next]_(Plan!planVars)
  <2> SUFFICES ASSUME IInv, [Next]_vars PROVE [Plan!Next]_(Plan!planVars)
    OBVIOUS
  <2>k. Kinds
    BY NextKinds DEF IInv
  <2>s. ASSUME UNCHANGED <<operation.review, audit>>, Told' = Told PROVE UNCHANGED Plan!planVars
    BY <2>s DEF Plan!planVars, Told
  <2>1. CASE Edits \/ Reads
    BY <2>1, <2>s DEF Edits, Reads, durable, Told
  <2>2. ASSUME NEW r \in Request, Publishes(r) PROVE Plan!Adopt
    <3>1. operation.review = 0 /\ operation.state = "NONE"
      BY <2>2, Facts DEF Publishes, CanPublish, Agreement, Fresh, NoOperation
    <3>2. operation'.review = request[r].review /\ operation'.state = "READY" /\ audit' = audit
      BY <2>2 DEF Publishes, NoOperation
    <3>3. request[r].review \in Nat \ {0}
      BY <2>2, Facts DEF IInv, ReviewRead, Publishes
    <3> QED BY <3>1, <3>2, <3>3 DEF Plan!Adopt
  <2>3. ASSUME NEW r \in Request, Claims(r) PROVE UNCHANGED Plan!planVars
    <3>1. operation'.review = operation.review /\ audit' = audit /\ Told' = Told
      BY <2>3, Facts DEF Claims, CanClaim, Terminal, Told, Documents, OperationRecords
    <3> QED BY <3>1, <2>s
  <2>4. ASSUME NEW r \in Request, Records(r) PROVE UNCHANGED Plan!planVars
    <3>1. request[r].outcome \in Outcome /\ operation \in OperationRecords
      BY Facts DEF Documents
    <3>2. operation.state = "EXECUTING" /\ operation'.state \in Outcome
          /\ operation'.review = operation.review /\ audit' = audit
      BY <3>1, <2>4 DEF Records, Held, OperationRecords, Outcome
    <3> QED BY <3>2, <2>s DEF Told, Outcome
  <2>5. ASSUME NEW r \in Request, Cancels(r) PROVE Plan!Cancel
    <3>1. operation.review # 0 /\ operation.state \notin {"COMPLETED", "CANCELLED"}
      BY <2>5, Facts DEF Cancels, CanCancel, Terminal, Agreement, Fresh
    <3>2. operation'.review = operation.review /\ operation'.state = "CANCELLED" /\ audit' = audit
      BY <2>5, Facts DEF Cancels, Documents, OperationRecords
    <3> QED BY <3>1, <3>2 DEF Plan!Cancel
  <2>6. ASSUME NEW r \in Request, Writes(r) PROVE Plan!Write
    <3>1. /\ operation.state = "EXECUTING" /\ operation.review # 0
          /\ session.review = operation.review
          /\ NextGroup \in Group /\ NextGroup = operation.done + 1 /\ Len(audit) = operation.done
      BY <2>6, Facts DEF Writes, CanWrite, Held, Loads, Published, NextGroup, Agreement, Fresh,
                         JournalAgrees
    <3>2. /\ operation'.state = IF Completes THEN "COMPLETED" ELSE "EXECUTING"
          /\ operation'.review = operation.review
          /\ audit' = Append(audit, [group |-> NextGroup, review |-> session.review])
      BY <2>6, Facts DEF Writes, WriteNext, Documents, OperationRecords
    <3>3. Len(audit) < GroupCount
      BY <3>1, Facts DEF Group
    <3>4. Completes <=> Len(audit) + 1 = GroupCount
      BY <3>1 DEF Completes
    <3> QED BY <3>1, <3>2, <3>3, <3>4 DEF Plan!Write
  <2> QED BY <2>k, <2>1, <2>2, <2>3, <2>4, <2>5, <2>6 DEF Kinds, Plan!Next
<1> QED BY <1>1, <1>2, Inductive, PTL DEF Spec, PlanSpec, Plan!Spec
=============================================================================
