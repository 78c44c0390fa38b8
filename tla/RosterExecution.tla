--------------------------- MODULE RosterExecution ---------------------------
(***************************************************************************)
(* The recoverable execution of one reviewed roster import                  *)
(* (services/import/rosterExecution.server.ts). A commit seals the reviewed *)
(* intent of the import session as a plan of groups; each attempt takes a   *)
(* new fence and writes the next groups, one transaction each; whoever      *)
(* holds the current version may retry or cancel.                           *)
(*                                                                          *)
(* A request is a server call that survives nothing: a crash, or an answer  *)
(* that is lost, ends it, and only the session, the operation document, its *)
(* receipts and the audit log remain.                                       *)
(***************************************************************************)
EXTENDS Naturals, Sequences

CONSTANTS
  Request,     \* server calls that run at the same time
  GroupCount,  \* groups of the plan
  PerRequest,  \* groupsPerRequest
  MaxEdits,    \* bound: checkpoints of the session before it is sealed
  MaxCalls,    \* bound: calls made
  MaxFaults    \* bound: crashes, failed transactions, lost acknowledgements

ASSUME CountsAssumption == GroupCount \in Nat \ {0} /\ PerRequest \in Nat \ {0}

VARIABLES
  session,    \* the header of the import session
  operation,  \* importExecutions/{key}; state "NONE" while there is none
  receipts,   \* the groups that have a receipt under the operation
  audit,      \* audit_logs: the groups written to the canonical records
  request,    \* request -> the call it serves
  edits, calls, faults

vars == <<session, operation, receipts, audit, request, edits, calls, faults>>

durable == <<session, operation, receipts, audit>>

Group == 1 .. GroupCount

NoOperation == [state |-> "NONE", version |-> 0, fence |-> 0, done |-> 0, sessionVersion |-> 0,
                requestVersion |-> 0, review |-> 0, failure |-> {}]

\* expected: the version the call was made with; review: the reviewed intent it read;
\* fence, turn, group: of its attempt; outcome, failed: what finishAttempt is to record.
NoRequest == [step |-> "idle", expected |-> 0, review |-> 0, fence |-> 0, turn |-> 0, group |-> 0,
              outcome |-> "PARTIAL", failed |-> {}]

Init ==
  /\ session = [state |-> "INTENT_REVIEWED", version |-> 1, review |-> 1, managed |-> FALSE]
  /\ operation = NoOperation
  /\ receipts = {} /\ audit = <<>>
  /\ request = [r \in Request |-> NoRequest]
  /\ edits = 0 /\ calls = 0 /\ faults = 0

Fault == faults < MaxFaults /\ faults' = faults + 1
Same == UNCHANGED <<edits, calls, faults>>
Return(r) == request' = [request EXCEPT ![r] = NoRequest]

Published == operation.state # "NONE"
Terminal == operation.state \in {"COMPLETED", "CANCELLED"}

\* The state the session's header must be in, as load compares it.
SessionState == CASE operation.state = "COMPLETED" -> "COMMITTED"
                  [] operation.state = "CANCELLED" -> "CANCELLED"
                  [] OTHER -> "INTENT_REVIEWED"

\* load: without it a transaction fails, and so does every later one.
Loads == IF Published
         THEN /\ session.managed /\ session.review = operation.review
              /\ session.state = SessionState
              /\ session.version = operation.sessionVersion
         ELSE ~session.managed

-----------------------------------------------------------------------------
\* The session while it is nobody's plan (importSession.server.ts, update)

Checkpoint(state, review) ==
  /\ ~session.managed
  /\ session.state \in {"REVIEW", "INTENT_REVIEWED"}
  /\ edits < MaxEdits /\ edits' = edits + 1
  /\ session' = [session EXCEPT !.state = state, !.review = review, !.version = @ + 1]
  /\ UNCHANGED <<operation, receipts, audit, request, calls, faults>>

Edit ==
  \/ Checkpoint(session.state, session.review)
  \/ Checkpoint("REVIEW", session.review)
  \/ Checkpoint("INTENT_REVIEWED", session.review + 1)
  \/ Checkpoint("CANCELLED", session.review)

-----------------------------------------------------------------------------
\* The calls

Call(r, step, expected) ==
  /\ request[r].step = "idle" /\ calls < MaxCalls
  /\ request' = [request EXCEPT ![r] = [NoRequest EXCEPT !.step = step, !.expected = expected]]
  /\ calls' = calls + 1
  /\ UNCHANGED <<durable, edits, faults>>

\* requestCommit; the same request made again finds the operation and reads its status.
Commit(r) == \/ ~Published /\ session.state # "COMMITTED" /\ Call(r, "prepare", session.version)
             \/ Published /\ Call(r, "started", operation.requestVersion)

\* retry and cancel carry the version the client was last shown.
Retry(r) == Published /\ Call(r, "claim", operation.version)
CallCancel(r) == Published /\ Call(r, "cancel", operation.version)

\* A transaction that finds its guard false throws, and the call ends.
Throws(r, step, guard) ==
  /\ request[r].step = step /\ ~guard
  /\ Return(r)
  /\ Same /\ UNCHANGED durable

-----------------------------------------------------------------------------
\* start: the reviewed intent is read and rebuilt, the plan staged, the operation published

CanPrepare(r) == session.state = "INTENT_REVIEWED" /\ session.version = request[r].expected

Prepare(r) ==
  \/ /\ request[r].step = "prepare" /\ CanPrepare(r)
     /\ request' = [request EXCEPT ![r].step = "publish", ![r].review = session.review]
     /\ Same /\ UNCHANGED durable
  \/ Throws(r, "prepare", CanPrepare(r))

\* The canonical records no longer support the reviewed intent.
Stale(r) ==
  /\ request[r].step = "prepare" /\ CanPrepare(r)
  /\ Return(r)
  /\ Same /\ UNCHANGED durable

\* Fault: only the state of the session is looked at again before the plan is published.
CanPublishUnversioned(r) == ~Published /\ Loads /\ session.state = "INTENT_REVIEWED"

CanPublish(r) ==
  /\ ~Published /\ Loads
  /\ session.version = request[r].expected /\ session.state = "INTENT_REVIEWED"

\* Another call published first: the same binding is as good as one's own.
Joins(r) == Published /\ Loads /\ operation.review = request[r].review

Publish(r) ==
  \/ /\ request[r].step = "publish" /\ CanPublish(r)
     /\ operation' = [NoOperation EXCEPT !.state = "READY", !.version = 1, !.review = request[r].review,
                        !.requestVersion = request[r].expected, !.sessionVersion = request[r].expected]
     /\ session' = [session EXCEPT !.managed = TRUE]
     /\ request' = [request EXCEPT ![r].step = "started"]
     /\ Same /\ UNCHANGED <<receipts, audit>>
  \/ /\ request[r].step = "publish" /\ Joins(r)
     /\ request' = [request EXCEPT ![r].step = "started"]
     /\ Same /\ UNCHANGED durable
  \/ Throws(r, "publish", CanPublish(r) \/ Joins(r))

\* The status after start: only a fresh operation is advanced by the commit itself.
Started(r) ==
  \/ /\ request[r].step = "started" /\ Loads /\ operation.state = "READY"
     /\ request' = [request EXCEPT ![r].step = "claim", ![r].expected = operation.version]
     /\ Same /\ UNCHANGED durable
  \/ Throws(r, "started", Loads /\ operation.state = "READY")

-----------------------------------------------------------------------------
\* advance: an attempt takes the next fence and writes up to PerRequest groups

\* Fault: an operation that is over, or waits for review, may be retried like any other.
CanClaimAnyway(r) == Published /\ Loads /\ operation.version = request[r].expected

CanClaim(r) ==
  /\ Published /\ Loads /\ operation.version = request[r].expected
  /\ ~Terminal /\ operation.state # "REVIEW_REQUIRED"

Claim(r) ==
  \/ /\ request[r].step = "claim" /\ CanClaim(r)
     /\ operation' = [operation EXCEPT !.state = "EXECUTING", !.fence = @ + 1, !.version = @ + 1]
     /\ request' = [request EXCEPT ![r] = [NoRequest EXCEPT !.step = "group", !.fence = operation.fence + 1]]
     /\ Same /\ UNCHANGED <<session, receipts, audit>>
  \/ Throws(r, "claim", CanClaim(r))

\* The operation is still under this attempt's fence.
Held(r) == Loads /\ operation.fence = request[r].fence /\ operation.state = "EXECUTING"

\* groups[op.completedGroups], by the operation's own count
NextGroup == operation.done + 1

Completes == operation.done + 1 = GroupCount

\* The transaction of one group: canonical records, audit entry, receipt, operation, session.
WriteNext ==
  /\ operation' = [operation EXCEPT
       !.state = IF Completes THEN "COMPLETED" ELSE "EXECUTING", !.done = @ + 1, !.failure = {},
       !.version = @ + 1, !.sessionVersion = session.version + 1]
  /\ session' = [session EXCEPT !.state = IF Completes THEN "COMMITTED" ELSE "INTENT_REVIEWED",
                   !.version = @ + 1]
  /\ receipts' = receipts \union {NextGroup}
  /\ audit' = Append(audit, [group |-> NextGroup, review |-> session.review])

\* The group would be written: a receipt that already exists is an integrity error.
CanWrite(r) == request[r].step = "group" /\ Held(r) /\ NextGroup \in Group \ receipts

Ends(r, outcome, failed) ==
  request' = [request EXCEPT ![r].step = "finish", ![r].outcome = outcome, ![r].failed = failed]

WriteGroup(r) ==
  /\ CanWrite(r)
  /\ WriteNext
  /\ \/ Completes /\ Return(r)
     \/ /\ ~Completes /\ request[r].turn + 1 < PerRequest
        /\ request' = [request EXCEPT ![r].turn = @ + 1, ![r].group = NextGroup]
     \/ ~Completes /\ request[r].turn + 1 = PerRequest /\ Ends(r, "PARTIAL", {})
  /\ Same

\* The group is committed and its acknowledgement lost: the driver runs the transaction again,
\* or the attempt fails with a code that is, or is not, retryable.
LoseAck(r) ==
  /\ CanWrite(r) /\ Fault
  /\ WriteNext
  /\ \/ request' = [request EXCEPT ![r].group = NextGroup]
     \/ \E outcome \in {"PARTIAL", "REVIEW_REQUIRED"} : Ends(r, outcome, {NextGroup})
  /\ UNCHANGED <<edits, calls>>

\* The transaction fails before it is committed, before or after it knew its group.
FailGroup(r) ==
  /\ request[r].step = "group" /\ Held(r) /\ Fault
  /\ \E outcome \in {"PARTIAL", "REVIEW_REQUIRED"}, g \in {request[r].group, NextGroup} :
       Ends(r, outcome, {g})
  /\ UNCHANGED <<durable, edits, calls>>

\* validateRecoveryScope: the canonical records no longer fit the group's plan.
RefuseGroup(r) ==
  /\ CanWrite(r)
  /\ Ends(r, "REVIEW_REQUIRED", {NextGroup})
  /\ Same /\ UNCHANGED durable

\* EXECUTION_FENCE_STALE: another attempt or a cancellation took over, and this one only reads.
Superseded(r) == Throws(r, "group", Held(r))

-----------------------------------------------------------------------------
\* finishAttempt

\* Fault: the transport error is believed, whatever the receipts say.
AlreadyCompletedNever(r) == FALSE

\* A failed group that has a receipt was committed after all.
AlreadyCompleted(r) == request[r].failed \intersect receipts # {}

Finish(r) ==
  \/ /\ request[r].step = "finish" /\ Held(r)
     /\ operation' = [operation EXCEPT
          !.state = IF AlreadyCompleted(r) THEN "PARTIAL" ELSE request[r].outcome,
          !.failure = IF AlreadyCompleted(r) THEN {} ELSE request[r].failed,
          !.version = @ + 1]
     /\ Return(r)
     /\ Same /\ UNCHANGED <<session, receipts, audit>>
  \/ Throws(r, "finish", Held(r))

-----------------------------------------------------------------------------
\* cancel, and what ends a call early

CanCancel(r) == Published /\ Loads /\ operation.version = request[r].expected /\ ~Terminal

\* Fault: the session is cancelled and the operation keeps the session version it had.
CancelBeside(r) ==
  \/ /\ request[r].step = "cancel" /\ CanCancel(r)
     /\ operation' = [operation EXCEPT !.state = "CANCELLED", !.fence = @ + 1, !.version = @ + 1]
     /\ session' = [session EXCEPT !.state = "CANCELLED", !.version = @ + 1]
     /\ Return(r)
     /\ Same /\ UNCHANGED <<receipts, audit>>
  \/ Throws(r, "cancel", CanCancel(r))

Cancel(r) ==
  \/ /\ request[r].step = "cancel" /\ CanCancel(r)
     /\ operation' = [operation EXCEPT !.state = "CANCELLED", !.fence = @ + 1, !.version = @ + 1,
                        !.sessionVersion = session.version + 1]
     /\ session' = [session EXCEPT !.state = "CANCELLED", !.version = @ + 1]
     /\ Return(r)
     /\ Same /\ UNCHANGED <<receipts, audit>>
  \/ Throws(r, "cancel", CanCancel(r))

\* The server stops, or the answer of the last transaction is lost outside a group.
Crash(r) ==
  /\ request[r].step # "idle" /\ Fault
  /\ Return(r)
  /\ UNCHANGED <<durable, edits, calls>>

Next ==
  \/ Edit
  \/ \E r \in Request :
       \/ Commit(r) \/ Retry(r) \/ CallCancel(r)
       \/ Prepare(r) \/ Stale(r) \/ Publish(r) \/ Started(r)
       \/ Claim(r) \/ WriteGroup(r) \/ LoseAck(r) \/ FailGroup(r) \/ RefuseGroup(r) \/ Superseded(r)
       \/ Finish(r) \/ Cancel(r) \/ Crash(r)

Spec == Init /\ [][Next]_vars

-----------------------------------------------------------------------------
\* Properties

Step == {"idle", "prepare", "publish", "started", "claim", "group", "finish", "cancel"}
Outcome == {"PARTIAL", "REVIEW_REQUIRED"}

SessionRecords == [state : {"REVIEW", "INTENT_REVIEWED", "COMMITTED", "CANCELLED"}, version : Nat,
                   review : Nat, managed : BOOLEAN]
OperationRecords == [state : {"NONE", "READY", "EXECUTING", "COMPLETED", "CANCELLED"} \union Outcome,
                     version : Nat, fence : Nat, done : Nat, sessionVersion : Nat,
                     requestVersion : Nat, review : Nat, failure : SUBSET Nat]
RequestRecords == [step : Step, expected : Nat, review : Nat, fence : Nat, turn : Nat, group : Nat,
                   outcome : Outcome, failed : SUBSET Nat]

\* Every variable has its type, and the operation never counts more groups than its plan has.
TypeOK ==
  /\ session \in SessionRecords
  /\ operation \in OperationRecords /\ operation.done <= GroupCount
  /\ receipts \subseteq Group
  /\ audit \in Seq([group : Nat, review : Nat])
  /\ request \in [Request -> RequestRecords]
  /\ edits \in Nat /\ calls \in Nat /\ faults \in Nat

\* The integrity checks of load and status never fire: whatever attempts, cancellations, crashes
\* and edits come between each other, session, operation, receipts and audit log agree, so the
\* operation can always be read, and while it is open retried or cancelled.
JournalAgrees ==
  /\ Loads
  /\ receipts = 1 .. operation.done
  /\ Len(audit) = operation.done
  /\ operation.state = "COMPLETED" <=> operation.done = GroupCount

\* A failure that the operation shows is of a group that was really not written: what is sent to
\* review, or offered for retry, is undone, whatever acknowledgement was lost on the way.
FailureIsTrue == operation.failure \intersect receipts = {}

\* What is executed is what was reviewed: the plan was made from the very review the session
\* holds, and every group in the records came from it, though the session could be edited while
\* the plan was being made.
PlanIsReviewed ==
  /\ Published => operation.review = session.review
  /\ \A i \in DOMAIN audit : audit[i].review = session.review

Plan == INSTANCE ImportPlan WITH
  plan <- operation.review, written <- audit,
  outcome <- CASE operation.state = "COMPLETED" -> "completed"
               [] operation.state = "CANCELLED" -> "cancelled"
               [] OTHER -> "open"

\* The execution carries out one plan, group after group, each once, until it is complete or
\* cancelled; nothing is written after that.
PlanSpec == Plan!Spec
=============================================================================
