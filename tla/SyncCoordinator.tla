--------------------------- MODULE SyncCoordinator ---------------------------
(***************************************************************************)
(* The passes that deliver one administrator's projects                     *)
(* (server/workspaceSyncCoordinator.ts). A pass takes the administrator's   *)
(* lease, reads a page of his grants behind the stored cursor, looks at     *)
(* them one by one and delivers the first few that have pending work. What  *)
(* it did not get to is left to the passes that follow, so that the cursor  *)
(* decides whether every project is reached.                                *)
(*                                                                          *)
(* Grants are numbered in the order of their document ids; cursor 0 is      *)
(* null. The delivery itself (retrySync, module WorkspaceSync) is one step. *)
(***************************************************************************)
EXTENDS Naturals, FiniteSets, FiniteSetsExt

CONSTANTS
  Grant,       \* documents of the administrator, in order
  Pass,        \* requests that may run at once
  Candidates,  \* grants one pass looks at
  Attempts,    \* deliveries one pass makes
  Present,     \* grants that are active at the start
  Broken,      \* grants whose project no delivery succeeds for
  Watched,     \* the grant whose waiting is counted
  NoPass,
  MaxFaults    \* bound: crashes, lost leases, exhausted budgets, failed reads and deliveries

ASSUME CoordinatorAssumption ==
  /\ Grant \subseteq Nat \ {0} /\ IsFiniteSet(Grant)
  /\ Present \subseteq Grant /\ Broken \subseteq Grant /\ Watched \in Grant
  /\ Candidates \in Nat \ {0} /\ Attempts \in Nat \ {0}
  /\ NoPass \notin Pass

VARIABLES
  grant,    \* grant -> its status
  pending,  \* grants with undelivered work
  lease,    \* owner and expiresAt of the administrator's coordinator document
  cursor,   \* its cursor
  pass,     \* pass -> where it is and what it read
  skipped,  \* history: passes that ended without trying the watched grant, though it had work
  faults

vars == <<grant, pending, lease, cursor, pass, skipped, faults>>

\* A pass that has no page.
Empty(step, from, tried) ==
  [step |-> step, cursor |-> from, todo |-> {}, active |-> {}, more |-> FALSE, attempted |-> 0, tried |-> tried]

Idle == Empty("idle", 0, FALSE)

Init ==
  /\ grant = [g \in Grant |-> IF g \in Present THEN "ACTIVE" ELSE "absent"]
  /\ pending = {}
  /\ lease = [owner |-> NoPass, live |-> FALSE]
  /\ cursor = 0
  /\ pass = [p \in Pass |-> Idle]
  /\ skipped = 0
  /\ faults = 0

Fault == faults < MaxFaults /\ faults' = faults + 1

\* A grant that a pass should deliver.
Due(g) == g \in pending /\ grant[g] = "ACTIVE"

\* The first n grants of S.
First(S, n) == {g \in S : Cardinality({h \in S : h < g}) < n}

-----------------------------------------------------------------------------
\* Grants and work

\* An authorization is stored, accepted, and later revoked, replaced or refused by Google.
ChangeGrant(g) ==
  /\ \/ grant[g] = "absent" /\ grant' = [grant EXCEPT ![g] = "PENDING_VALIDATION"]
     \/ grant[g] = "PENDING_VALIDATION" /\ grant' = [grant EXCEPT ![g] = "ACTIVE"]
     \/ grant[g] = "ACTIVE" /\ grant' = [grant EXCEPT ![g] = "AUTHORIZATION_REQUIRED"]
  /\ skipped' = IF g = Watched THEN 0 ELSE skipped
  /\ UNCHANGED <<pending, lease, cursor, pass, faults>>

\* A trip or master data of the grant's project changes.
Change(g) ==
  /\ g \notin pending
  /\ pending' = pending \union {g}
  /\ UNCHANGED <<grant, lease, cursor, pass, skipped, faults>>

-----------------------------------------------------------------------------
\* One pass

\* Fault: only a released lease can be claimed.
ClaimReleased(p) ==
  /\ pass[p].step = "idle"
  /\ lease.owner = NoPass
  /\ lease' = [owner |-> p, live |-> TRUE]
  /\ pass' = [pass EXCEPT ![p] = Empty("query", cursor, FALSE)]
  /\ UNCHANGED <<grant, pending, cursor, skipped, faults>>

Claim(p) ==
  /\ pass[p].step = "idle"
  /\ lease.owner = NoPass \/ ~lease.live
  /\ lease' = [owner |-> p, live |-> TRUE]
  /\ pass' = [pass EXCEPT ![p] = Empty("query", cursor, FALSE)]
  /\ UNCHANGED <<grant, pending, cursor, skipped, faults>>

Stored == {g \in Grant : grant[g] # "absent"}

\* The page starts behind the cursor, or at the beginning when nothing is behind it.
StartOf(from) == IF \E g \in Stored : g > from THEN from ELSE 0

\* A page, as it was read: the grants to look at, and whether one more follows them.
Query(p) ==
  /\ pass[p].step = "query"
  /\ LET start == StartOf(pass[p].cursor)
         behind == {g \in Stored : g > start}
         todo == First(behind, Candidates)
     IN pass' = [pass EXCEPT ![p].step = "loop", ![p].cursor = start, ![p].todo = todo,
                             ![p].active = {g \in todo : grant[g] = "ACTIVE"},
                             ![p].more = behind # todo]
  /\ UNCHANGED <<grant, pending, lease, cursor, skipped, faults>>

\* The read fails: the pass ends where it began.
QueryFails(p) ==
  /\ pass[p].step = "query" /\ Fault
  /\ pass' = [pass EXCEPT ![p].step = "finish"]
  /\ UNCHANGED <<grant, pending, lease, cursor, skipped>>

\* Fault: the cursor moves only when there is something to deliver.
ExamineDue(p) ==
  /\ pass[p].step = "loop"
  /\ pass[p].todo # {} /\ pass[p].attempted < Attempts
  /\ LET g == Min(pass[p].todo)
     IN pass' = [pass EXCEPT ![p].cursor = IF g \in pass[p].active /\ Due(g) THEN g ELSE @,
                             ![p].todo = @ \ {g}, ![p].active = @ \ {g},
                             ![p].step = IF g \in pass[p].active /\ Due(g) THEN "renew" ELSE "loop"]
  /\ UNCHANGED <<grant, pending, lease, cursor, skipped, faults>>

\* The next grant of the page: the cursor passes it whether or not it has work.
Examine(p) ==
  /\ pass[p].step = "loop"
  /\ pass[p].todo # {} /\ pass[p].attempted < Attempts
  /\ LET g == Min(pass[p].todo)
     IN pass' = [pass EXCEPT ![p].cursor = g, ![p].todo = @ \ {g}, ![p].active = @ \ {g},
                             ![p].step = IF g \in pass[p].active /\ Due(g) THEN "renew" ELSE "loop"]
  /\ UNCHANGED <<grant, pending, lease, cursor, skipped, faults>>

\* Where a pass ends: at the beginning once it has looked at the whole of a last page.
Ending(p) ==
  Empty("finish", IF pass[p].todo = {} /\ ~pass[p].more THEN 0 ELSE pass[p].cursor, pass[p].tried)

\* The lease is renewed before each delivery; a pass that lost it stops.
Renew(p) ==
  /\ pass[p].step = "renew"
  /\ pass' = IF lease.owner = p /\ lease.live
             THEN [pass EXCEPT ![p].step = "attempt", ![p].attempted = @ + 1,
                               ![p].tried = @ \/ pass[p].cursor = Watched]
             ELSE [pass EXCEPT ![p] = Ending(p)]
  /\ UNCHANGED <<grant, pending, lease, cursor, skipped, faults>>

\* Access token and delivery. A broken project, or a grant that was just lost, is deferred
\* and does not stop the pass.
Attempt(p) ==
  /\ pass[p].step = "attempt"
  /\ LET g == pass[p].cursor
     IN \/ /\ pending' = IF g \notin Broken /\ grant[g] = "ACTIVE" THEN pending \ {g} ELSE pending
           /\ UNCHANGED faults
        \/ Fault /\ UNCHANGED pending
  /\ pass' = [pass EXCEPT ![p].step = "loop"]
  /\ skipped' = IF pass[p].cursor = Watched THEN 0 ELSE skipped
  /\ UNCHANGED <<grant, lease, cursor>>

\* The page or the attempts are used up, or the 25 seconds are.
EndLoop(p) ==
  /\ pass[p].step = "loop"
  /\ \/ (pass[p].todo = {} \/ pass[p].attempted >= Attempts) /\ UNCHANGED faults
     \/ pass[p].todo # {} /\ pass[p].attempted < Attempts /\ Fault
  /\ pass' = [pass EXCEPT ![p] = Ending(p)]
  /\ UNCHANGED <<grant, pending, lease, cursor, skipped>>

\* The cursor is stored and the lease released by the pass that still owns it.
Finish(p) ==
  /\ pass[p].step = "finish"
  /\ IF lease.owner = p
     THEN /\ lease' = [owner |-> NoPass, live |-> FALSE] /\ cursor' = pass[p].cursor
          /\ skipped' = IF Due(Watched) /\ ~pass[p].tried THEN skipped + 1 ELSE 0
     ELSE UNCHANGED <<lease, cursor, skipped>>
  /\ pass' = [pass EXCEPT ![p] = Idle]
  /\ UNCHANGED <<grant, pending, faults>>

\* The process dies, or the closing transaction fails: the lease stays until it expires.
Crash(p) ==
  /\ pass[p].step # "idle" /\ Fault
  /\ pass' = [pass EXCEPT ![p] = Idle]
  /\ UNCHANGED <<grant, pending, lease, cursor, skipped>>

\* 120 seconds without a renewal: of a dead pass' lease, or of a slow one's.
ExpireAbandoned ==
  /\ lease.live /\ pass[lease.owner].step = "idle"
  /\ lease' = [lease EXCEPT !.live = FALSE]
  /\ UNCHANGED <<grant, pending, cursor, pass, skipped, faults>>

ExpireSlow ==
  /\ lease.live /\ pass[lease.owner].step # "idle" /\ Fault
  /\ lease' = [lease EXCEPT !.live = FALSE]
  /\ UNCHANGED <<grant, pending, cursor, pass, skipped>>

-----------------------------------------------------------------------------
Step(p) == Claim(p) \/ Query(p) \/ Examine(p) \/ Renew(p) \/ Attempt(p) \/ EndLoop(p) \/ Finish(p)

Next ==
  \/ \E g \in Grant : ChangeGrant(g) \/ Change(g)
  \/ \E p \in Pass : Step(p) \/ QueryFails(p) \/ Crash(p)
  \/ ExpireAbandoned \/ ExpireSlow

Spec == Init /\ [][Next]_vars

\* Passes are requested again and again and make progress; leases of dead passes expire.
FairSpec == Spec /\ (\A p \in Pass : WF_vars(Step(p))) /\ WF_vars(ExpireAbandoned)

-----------------------------------------------------------------------------
TypeOK ==
  /\ grant \in [Grant -> {"absent", "PENDING_VALIDATION", "ACTIVE", "AUTHORIZATION_REQUIRED"}]
  /\ pending \subseteq Grant
  /\ lease \in [owner : Pass \union {NoPass}, live : BOOLEAN]
  /\ cursor \in Grant \union {0}
  /\ pass \in [Pass -> [step : {"idle", "query", "loop", "renew", "attempt", "finish"},
                        cursor : Grant \union {0}, todo : SUBSET Grant, active : SUBSET Grant,
                        more : BOOLEAN, attempted : 0 .. Attempts, tried : BOOLEAN]]
  /\ lease.live => lease.owner # NoPass
  /\ \A p \in Pass : pass[p].step \in {"renew", "attempt"} => pass[p].cursor # 0
  /\ skipped \in Nat
  /\ faults \in Nat

\* A grant with pending work is tried after a bounded number of passes, whatever the other
\* grants and their failures are: in every round of the cursor once, a round being at most as
\* many passes as there are grants, and one more for each thing that went wrong.
BoundedWait == skipped <= Cardinality(Grant) * (faults + 1)

\* No project starves: pending work of an active grant is delivered, although another project
\* fails for ever, passes die and leases run out.
EveryGrantServed == \A g \in Grant \ Broken : Due(g) ~> ~Due(g)
=============================================================================
