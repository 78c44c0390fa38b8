---------------------------- MODULE WorkspaceSync ----------------------------
(***************************************************************************)
(* The synchronization of one project's Google workbook                     *)
(* (projectGoogleWorkspace.server.ts: claimSync, renewSync, releaseSync,    *)
(* retrySync, finishSync, refreshOperationalReports) with the outbox that   *)
(* feeds it (projectGoogleSheetEvent, projectWorkspaceProjectionState) and  *)
(* the transport that fences every request (workspaceGoogleTransport).      *)
(*                                                                          *)
(* A pass is one call of retrySync, or of refreshOperationalReports, in one *)
(* server process. Time is counted in ticks relative to now: `left` is what *)
(* remains of the lease, `ttl` what remains of the life of a request.       *)
(***************************************************************************)
EXTENDS Integers, FiniteSets

CONSTANTS
  Trips,         \* trips of the project, all with an operational snapshot
  Tabs,          \* the master tabs of the workbook (MASTER_TABS)
  Capacity,      \* the rows the trip tab can hold
  Passes,        \* names for passes, each a fresh owner id when it is claimed
  Master,        \* the id of the single MASTER_DATA event
  None,
  LeaseTime,     \* 120 s
  RenewBelow,    \* 60 s: a lease with more than this left is not extended
  RequestLife,   \* 15 s: after this a provider request takes no effect
  Refreshes,     \* bound: report refreshes that may be started
  MaxChanges,    \* bound: canonical changes of trips and master data
  MaxFaults      \* bound: crashes, lost answers, refused requests, aborts

\* The trip tab has room for every trip (it may grow to 200 000 rows).
ASSUME CapacityAssumption == IsFiniteSet(Trips) /\ Capacity \in Nat /\ Cardinality(Trips) <= Capacity
Report == "report"

ASSUME NamesAssumption == /\ Trips \cap Tabs = {}
                          /\ Report \notin Trips \union Tabs \union {None}
                          /\ Master \notin Trips \union Tabs
                          /\ None \notin Trips \union Tabs \union Passes \union {Master}
\* A lease outlives every request sent under it only because of these numbers.
ASSUME TimesAssumption == /\ LeaseTime \in Nat /\ RenewBelow \in Nat /\ RequestLife \in Nat
                          /\ RequestLife <= RenewBelow /\ RenewBelow < LeaseTime

Records == Trips \union Tabs
Rows == 1 .. Capacity
Keys == Trips \union {Master}
Status == {"NONE", "PENDING", "DELIVERED"}
Events == [key : Keys, revision : Nat, tabs : SUBSET Tabs]
NoEvent == [key |-> None, revision |-> 0, tabs |-> {}]
DeliverySteps == {"query", "next", "trip", "rows", "row", "freshness", "snapshot", "tab", "wait",
                  "mark", "ack", "closing"}
ReportSteps == {"report", "answer", "reported"}
Steps == {"idle"} \union DeliverySteps \union ReportSteps

VARIABLES
  \* Firestore
  data,          \* revision of each trip and of the master data behind each tab
  outbox,        \* workspace_sync_outbox: revision, dirty tabs and status of each event
  dirtyTabs,     \* workspace_projection_state
  mutationRevision,
  lease,         \* workspace_continuity: syncOwner and what is left of syncLeaseExpiresAt
  \* the workbook
  cell,          \* the trip tab: row -> trip and revision
  shown,         \* the master tabs: the revision each one shows
  \* the passes, each in the memory of a server process
  pc, todo, event, read, row, fresh, due, rest,
  flight,        \* the write request of a pass that is on its way to Google
  \* bounds
  changes, refreshes, faults

store == <<data, outbox, dirtyTabs, mutationRevision>>
workbook == <<cell, shown>>
locals == <<todo, event, read, row, fresh, due, rest>>
bounds == <<changes, refreshes>>
vars == <<store, lease, workbook, pc, locals, flight, bounds, faults>>

Free == [owner |-> None, left |-> 0]
EmptyCell == [trip |-> None, revision |-> 0]
NoFlight == [target |-> None, revision |-> 0, row |-> 0, ttl |-> 0]
Init ==
  /\ data = [k \in Records |-> IF k \in Tabs THEN 1 ELSE 0]
  /\ outbox = [k \in Keys |-> IF k = Master
                              THEN [revision |-> 1, tabs |-> Tabs, status |-> "PENDING"]
                              ELSE [revision |-> 0, tabs |-> {}, status |-> "NONE"]]
  /\ dirtyTabs = Tabs
  /\ mutationRevision = 1
  /\ lease = Free
  /\ cell = [r \in Rows |-> EmptyCell]
  /\ shown = [m \in Tabs |-> 0]
  /\ pc = [p \in Passes |-> "idle"]
  /\ todo = [p \in Passes |-> {}]
  /\ event = [p \in Passes |-> NoEvent]
  /\ read = [p \in Passes |-> [k \in Records |-> 0]]
  /\ row = [p \in Passes |-> 0]
  /\ fresh = [p \in Passes |-> 0]
  /\ due = [p \in Passes |-> {}]
  /\ rest = [p \in Passes |-> {}]
  /\ flight = [p \in Passes |-> NoFlight]
  /\ changes = 0 /\ refreshes = 0 /\ faults = 0

-----------------------------------------------------------------------------
\* Canonical changes

\* A trip command commits: the trip and its outbox event in one transaction.
CommitTrip(t) ==
  /\ changes < MaxChanges /\ changes' = changes + 1
  /\ data' = [data EXCEPT ![t] = @ + 1]
  /\ outbox' = [outbox EXCEPT ![t] = [revision |-> @.revision + 1, tabs |-> {}, status |-> "PENDING"]]
  /\ UNCHANGED <<dirtyTabs, mutationRevision, lease, workbook, pc, locals, flight, refreshes, faults>>

\* Fault: an event that still waits is taken to cover the new change.
ChangeMasterQueuedOnce(T) ==
  /\ T # {}
  /\ changes < MaxChanges /\ changes' = changes + 1
  /\ data' = [k \in Records |-> IF k \in T THEN data[k] + 1 ELSE data[k]]
  /\ dirtyTabs' = dirtyTabs \union T
  /\ mutationRevision' = mutationRevision + 1
  /\ UNCHANGED <<outbox, lease, workbook, pc, locals, flight, refreshes, faults>>

\* A canonical change of the master data behind some tabs (markDirtyInTransaction).
ChangeMaster(T) ==
  /\ T # {}
  /\ changes < MaxChanges /\ changes' = changes + 1
  /\ data' = [k \in Records |-> IF k \in T THEN data[k] + 1 ELSE data[k]]
  /\ dirtyTabs' = dirtyTabs \union T
  /\ mutationRevision' = mutationRevision + 1
  /\ outbox' = [outbox EXCEPT ![Master] = [revision |-> mutationRevision', tabs |-> dirtyTabs',
                                           status |-> "PENDING"]]
  /\ UNCHANGED <<lease, workbook, pc, locals, flight, refreshes, faults>>

-----------------------------------------------------------------------------
\* The lease

Pending == {k \in Keys : outbox[k].status = "PENDING"}

Holds(p) == lease.owner = p /\ lease.left > 0

\* Fault: renewSync checks the lease without extending it.
RenewedNever == lease

\* What renewSync leaves of a lease it accepts.
Renewed == IF lease.left > RenewBelow THEN lease ELSE [lease EXCEPT !.left = LeaseTime]

Goto(p, step) == pc' = [pc EXCEPT ![p] = step]

\* Faults: a lease is claimed whoever holds it; or only when nobody is named, so that one
\* whose holder died is never taken over.
ClaimAnyway(p) ==
  /\ pc[p] = "idle" /\ flight[p] = NoFlight
  /\ lease.owner # p
  /\ lease' = [owner |-> p, left |-> LeaseTime]
  /\ UNCHANGED <<store, workbook, flight, locals, changes, faults>>

ClaimUnowned(p) ==
  /\ pc[p] = "idle" /\ flight[p] = NoFlight
  /\ lease.owner = None
  /\ lease' = [owner |-> p, left |-> LeaseTime]
  /\ UNCHANGED <<store, workbook, flight, locals, changes, faults>>

\* claimSync: only a free or an expired lease is taken; the event of a dirty tab that has
\* none is written again.
Claim(p) ==
  /\ pc[p] = "idle" /\ flight[p] = NoFlight
  /\ lease.owner # p /\ lease.left = 0
  /\ lease' = [owner |-> p, left |-> LeaseTime]
  /\ outbox' = IF dirtyTabs # {} /\ outbox[Master].status # "PENDING"
               THEN [outbox EXCEPT ![Master] = [revision |-> mutationRevision, tabs |-> dirtyTabs,
                                                status |-> "PENDING"]]
               ELSE outbox
  /\ UNCHANGED <<data, dirtyTabs, mutationRevision, workbook, flight, locals, changes, faults>>

StartPass(p) ==
  /\ Claim(p) /\ (Pending # {} \/ dirtyTabs # {})
  /\ Goto(p, "query")
  /\ UNCHANGED refreshes

StartRefresh(p) ==
  /\ Claim(p) /\ refreshes < Refreshes
  /\ Goto(p, "report")
  /\ refreshes' = refreshes + 1

\* The variables of one round of the drain's loop go out of scope.
EndEvent(p) ==
  /\ event' = [event EXCEPT ![p] = NoEvent]
  /\ read' = [read EXCEPT ![p] = [k \in Records |-> 0]]
  /\ row' = [row EXCEPT ![p] = 0]
  /\ fresh' = [fresh EXCEPT ![p] = 0]
  /\ due' = [due EXCEPT ![p] = {}]
  /\ rest' = [rest EXCEPT ![p] = {}]

\* A pass leaves its try block, or dies.
Leave(p, step) ==
  /\ Goto(p, step)
  /\ todo' = [todo EXCEPT ![p] = {}]
  /\ EndEvent(p)

Fail(p) == Leave(p, IF pc[p] \in ReportSteps THEN "reported" ELSE "closing")

\* finishSync and the finally block's releaseSync: whether the pass succeeded or failed, and
\* whether or not its lease has expired, a lease that still names the pass is given up.
Release(p) ==
  /\ pc[p] \in {"closing", "reported"}
  /\ lease' = IF lease.owner = p THEN Free ELSE lease
  /\ Leave(p, "idle")
  /\ UNCHANGED <<store, workbook, flight, bounds, faults>>

\* The heartbeat of a running delivery pass, every 30 s; its errors are ignored.
Heartbeat(p) ==
  /\ pc[p] \in DeliverySteps /\ Holds(p)
  /\ lease.left <= RenewBelow
  /\ lease' = Renewed
  /\ UNCHANGED <<store, workbook, pc, locals, flight, bounds, faults>>

-----------------------------------------------------------------------------
\* The steps of a delivery pass

\* The query for PENDING events, once per pass.
Query(p) ==
  /\ pc[p] = "query"
  /\ todo' = [todo EXCEPT ![p] = {[key |-> k, revision |-> outbox[k].revision, tabs |-> outbox[k].tabs] :
                                  k \in Pending}]
  /\ Goto(p, "next")
  /\ UNCHANGED <<store, lease, workbook, event, read, row, fresh, due, rest, flight, bounds, faults>>

\* The next event, the MASTER_DATA event before the trips; renewSync runs before each one.
Take(p) ==
  /\ pc[p] = "next" /\ Holds(p)
  /\ \E e \in todo[p] :
       /\ \A f \in todo[p] : f.key = Master => e.key = Master
       /\ event' = [event EXCEPT ![p] = e]
       /\ todo' = [todo EXCEPT ![p] = @ \ {e}]
       /\ Goto(p, IF e.key = Master THEN "freshness" ELSE "trip")
  /\ lease' = Renewed
  /\ UNCHANGED <<store, workbook, read, row, fresh, due, rest, flight, bounds, faults>>

\* The drain ends: finishSync checks the lease once more.
Drained(p) ==
  /\ pc[p] = "next" /\ Holds(p) /\ todo[p] = {}
  /\ Leave(p, "closing")
  /\ UNCHANGED <<store, lease, workbook, flight, bounds, faults>>

\* The trip is read from the store when its event is delivered, not when it was queried.
ReadTrip(p) ==
  /\ pc[p] = "trip"
  /\ read' = [read EXCEPT ![p][event[p].key] = data[event[p].key]]
  /\ Goto(p, "rows")
  /\ UNCHANGED <<store, lease, workbook, todo, event, row, fresh, due, rest, flight, bounds, faults>>

\* Fault: a trip is always appended after the last row in use.
RowAppended(t) ==
  {r \in Rows : \A q \in Rows : (q >= r => cell[q] = EmptyCell) /\ (q = r - 1 => cell[q] # EmptyCell)}

\* The rows the trip may be written to: its own, or else the one after the last row in use.
RowFor(t) ==
  {r \in Rows : \/ cell[r].trip = t
                \/ /\ \A q \in Rows : cell[q].trip # t /\ (q >= r => cell[q] = EmptyCell)
                   /\ \A q \in Rows : q = r - 1 => cell[q] # EmptyCell}

\* projectOwnedOperationalTable reads the primary keys and keeps a row coordinate.
ReadRows(p) ==
  /\ pc[p] = "rows" /\ Holds(p)
  /\ lease' = Renewed
  /\ \E r \in RowFor(event[p].key) : row' = [row EXCEPT ![p] = r]
  /\ Goto(p, "row")
  /\ UNCHANGED <<store, workbook, todo, event, read, fresh, due, rest, flight, bounds, faults>>

\* Fault: the lease is not checked again before a request.
SendUnfenced(p, target, r) ==
  /\ flight' = [flight EXCEPT ![p] = [target |-> target, revision |-> read[p][target], row |-> r,
                                      ttl |-> RequestLife]]
  /\ Goto(p, "wait")
  /\ UNCHANGED lease

\* A fenced write request (workspaceGoogleTransport, renewSync).
Send(p, target, r) ==
  /\ Holds(p)
  /\ lease' = Renewed
  /\ flight' = [flight EXCEPT ![p] = [target |-> target, revision |-> read[p][target], row |-> r,
                                      ttl |-> RequestLife]]
  /\ Goto(p, "wait")

SendTrip(p) ==
  /\ pc[p] = "row" /\ Send(p, event[p].key, row[p])
  /\ UNCHANGED <<store, workbook, locals, bounds, faults>>

\* projectionState before the snapshot: the tabs owed and the revision they are owed for.
ReadFreshness(p) ==
  /\ pc[p] = "freshness"
  /\ fresh' = [fresh EXCEPT ![p] = mutationRevision]
  /\ due' = [due EXCEPT ![p] = IF dirtyTabs # {} THEN dirtyTabs ELSE event[p].tabs]
  /\ rest' = [rest EXCEPT ![p] = due'[p]]
  /\ Goto(p, "snapshot")
  /\ UNCHANGED <<store, lease, workbook, todo, event, read, row, flight, bounds, faults>>

\* buildCanonicalProjection: collections are read one by one, outside any transaction.
ReadTab(p, m) ==
  /\ pc[p] = "snapshot" /\ m \in rest[p]
  /\ read' = [read EXCEPT ![p][m] = data[m]]
  /\ rest' = [rest EXCEPT ![p] = IF @ = {m} THEN due[p] ELSE @ \ {m}]
  /\ Goto(p, IF rest[p] = {m} THEN "tab" ELSE "snapshot")
  /\ UNCHANGED <<store, lease, workbook, todo, event, row, fresh, due, flight, bounds, faults>>

\* projectMasterTabs reconciles one tab after another.
SendTab(p, m) ==
  /\ pc[p] = "tab" /\ m \in rest[p] /\ Send(p, m, 0)
  /\ UNCHANGED <<store, workbook, locals, bounds, faults>>

\* markProjectionSuccessful: under the lease, and only if nothing was mutated since.
Mark(p) ==
  /\ pc[p] = "mark" /\ Holds(p)
  /\ \/ /\ mutationRevision = fresh[p]
        /\ dirtyTabs' = dirtyTabs \ due[p]
        /\ Goto(p, "ack")
        /\ UNCHANGED locals
     \/ /\ mutationRevision # fresh[p]
        /\ Leave(p, "closing")
        /\ UNCHANGED dirtyTabs
  /\ UNCHANGED <<data, outbox, mutationRevision, lease, workbook, flight, bounds, faults>>

\* Fault: the event is acknowledged whatever revision it has by now.
AckAnyway(p) ==
  /\ pc[p] = "ack" /\ Holds(p)
  /\ outbox' = [outbox EXCEPT ![event[p].key].status = "DELIVERED"]
  /\ EndEvent(p)
  /\ Goto(p, "next")
  /\ UNCHANGED <<data, dirtyTabs, mutationRevision, lease, workbook, todo, flight, bounds, faults>>

\* The acknowledgement: under the lease, and only of the revision that was delivered.
Ack(p) ==
  /\ pc[p] = "ack" /\ Holds(p)
  /\ LET k == event[p].key
     IN outbox' = IF outbox[k].revision = event[p].revision
                  THEN [outbox EXCEPT ![k].status = "DELIVERED"] ELSE outbox
  /\ EndEvent(p)
  /\ Goto(p, "next")
  /\ UNCHANGED <<data, dirtyTabs, mutationRevision, lease, workbook, todo, flight, bounds, faults>>

\* A fence refuses: the pass throws WORKSPACE_EXECUTION_FENCED.
FencedOff(p) ==
  /\ pc[p] \in {"next", "rows", "row", "tab", "mark", "ack"} /\ ~Holds(p)
  /\ Leave(p, "closing")
  /\ UNCHANGED <<store, lease, workbook, flight, bounds, faults>>

\* refreshOperationalReports sends its tables through a port without a delivery fence.
SendReport(p) ==
  /\ pc[p] = "report"
  /\ flight' = [flight EXCEPT ![p] = [target |-> Report, revision |-> 0, row |-> 0, ttl |-> RequestLife]]
  /\ Goto(p, "answer")
  /\ UNCHANGED <<store, lease, workbook, locals, bounds, faults>>

-----------------------------------------------------------------------------
\* The provider, failures and time

\* A write request takes effect.
Apply(f) ==
  /\ cell' = IF f.target \in Trips
             THEN [cell EXCEPT ![f.row] = [trip |-> f.target, revision |-> f.revision]] ELSE cell
  /\ shown' = IF f.target \in Tabs THEN [shown EXCEPT ![f.target] = f.revision] ELSE shown

\* Where a pass goes on when its request has been answered.
Answered(p) ==
  CASE flight[p].target \in Trips -> "ack"
    [] flight[p].target \in Tabs  -> IF rest[p] = {flight[p].target} THEN "mark" ELSE "tab"
    [] OTHER                      -> "reported"

Land(p) ==
  /\ flight[p] # NoFlight
  /\ Apply(flight[p])
  /\ flight' = [flight EXCEPT ![p] = NoFlight]
  /\ \/ /\ pc[p] \in {"wait", "answer"}
        /\ Goto(p, Answered(p))
        /\ rest' = [rest EXCEPT ![p] = @ \ {flight[p].target}]
        /\ UNCHANGED <<todo, event, read, row, fresh, due, faults>>
     \/ /\ pc[p] \in {"wait", "answer"} /\ faults < MaxFaults
        /\ faults' = faults + 1
        /\ Fail(p)
     \/ /\ pc[p] = "idle"
        /\ UNCHANGED <<pc, locals, faults>>
  /\ UNCHANGED <<store, lease, bounds>>

\* A request is refused or lost. One whose pass died may also have lived its life.
Reject(p) ==
  /\ flight[p] # NoFlight
  /\ flight' = [flight EXCEPT ![p] = NoFlight]
  /\ \/ /\ pc[p] \in {"wait", "answer"} /\ faults < MaxFaults
        /\ faults' = faults + 1
        /\ Fail(p)
     \/ /\ pc[p] = "idle"
        /\ UNCHANGED <<pc, locals, faults>>
  /\ UNCHANGED <<store, lease, workbook, bounds>>

\* Any other failure of a running pass: a read that fails, a grant that was revoked, ...
Abort(p) ==
  /\ pc[p] \notin {"idle", "wait", "answer", "closing", "reported"} /\ faults < MaxFaults
  /\ faults' = faults + 1
  /\ Fail(p)
  /\ UNCHANGED <<store, lease, workbook, flight, bounds>>

\* The server process dies: the lease and a request on its way outlive the pass.
Crash(p) ==
  /\ pc[p] # "idle" /\ faults < MaxFaults
  /\ faults' = faults + 1
  /\ Leave(p, "idle")
  /\ UNCHANGED <<store, lease, workbook, flight, bounds>>

\* The lease of a running delivery pass runs out although its heartbeat would have renewed
\* it: the process was suspended.
Stalled == \E p \in Passes : lease = [owner |-> p, left |-> 1] /\ pc[p] \in DeliverySteps

\* Time passes for the lease and for the requests on their way.
Tick ==
  /\ lease.left > 0 \/ \E p \in Passes : flight[p] # NoFlight
  /\ \A p \in Passes : flight[p] # NoFlight => flight[p].ttl > 0
  /\ lease' = [lease EXCEPT !.left = IF @ > 0 THEN @ - 1 ELSE 0]
  /\ flight' = [p \in Passes |-> IF flight[p] # NoFlight THEN [flight[p] EXCEPT !.ttl = @ - 1] ELSE NoFlight]
  /\ IF Stalled THEN faults < MaxFaults /\ faults' = faults + 1 ELSE UNCHANGED faults
  /\ UNCHANGED <<store, workbook, pc, locals, bounds>>

Deliver(p) ==
  \/ Query(p) \/ Take(p) \/ Drained(p) \/ ReadTrip(p) \/ ReadRows(p) \/ SendTrip(p)
  \/ ReadFreshness(p) \/ (\E m \in Tabs : ReadTab(p, m) \/ SendTab(p, m))
  \/ Mark(p) \/ Ack(p) \/ FencedOff(p) \/ SendReport(p) \/ Release(p)

Next ==
  \/ \E t \in Trips : CommitTrip(t)
  \/ \E T \in SUBSET Tabs : ChangeMaster(T)
  \/ \E p \in Passes : \/ StartPass(p) \/ StartRefresh(p) \/ Heartbeat(p) \/ Deliver(p)
                       \/ Land(p) \/ Reject(p) \/ Abort(p) \/ Crash(p)
  \/ Tick

Spec == Init /\ [][Next]_vars

Fairness ==
  /\ \A p \in Passes : WF_vars(Deliver(p)) /\ WF_vars(Land(p))
  /\ WF_vars(Tick)
  /\ WF_vars(\E p \in Passes : StartPass(p))

FairSpec == Spec /\ Fairness

-----------------------------------------------------------------------------
\* The types; in particular no renewal leaves a lease longer than LeaseTime.
TypeOK ==
  /\ data \in [Records -> Nat]
  /\ outbox \in [Keys -> [revision : Nat, tabs : SUBSET Tabs, status : Status]]
  /\ dirtyTabs \subseteq Tabs
  /\ mutationRevision \in Nat
  /\ lease \in [owner : Passes \union {None}, left : 0 .. LeaseTime]
  /\ cell \in [Rows -> [trip : Trips \union {None}, revision : Nat]]
  /\ shown \in [Tabs -> Nat]
  /\ pc \in [Passes -> Steps]
  /\ todo \in [Passes -> SUBSET Events]
  /\ event \in [Passes -> Events \union {NoEvent}]
  /\ read \in [Passes -> [Records -> Nat]]
  /\ row \in [Passes -> Nat]
  /\ fresh \in [Passes -> Nat]
  /\ due \in [Passes -> SUBSET Tabs]
  /\ rest \in [Passes -> SUBSET Tabs]
  /\ flight \in [Passes -> [target : Records \union {Report, None}, revision : Nat, row : Nat,
                            ttl : 0 .. RequestLife]]
  /\ changes \in Nat /\ refreshes \in Nat /\ faults \in Nat

\* The revision of a trip that the workbook shows.
ShownTrip(t) == IF \E r \in Rows : cell[r].trip = t
                THEN cell[CHOOSE r \in Rows : cell[r].trip = t].revision ELSE 0

\* A write of records that is on its way belongs to the owner of the lease and will have taken
\* effect, or never will, before that lease can pass to another pass: two passes never write
\* the workbook at the same time, not even through a request whose sender died.
OneWriter ==
  \A p \in Passes : flight[p].target \in Records => lease.owner = p /\ flight[p].ttl < lease.left

\* A trip's event that is DELIVERED means that the workbook shows the trip as it is now,
\* although the trip may have changed while its event was delivered.
DeliveredIsShown ==
  \A t \in Trips : outbox[t].status = "DELIVERED" => ShownTrip(t) = data[t]

\* A dirty tab is never without an event that waits for delivery, whatever passes took up,
\* acknowledged or dropped.
DirtyTabIsQueued == dirtyTabs # {} => outbox[Master].status = "PENDING"

\* A trip is never in two rows, although the row is chosen from a read that an earlier
\* request answered.
OneRowPerTrip ==
  \A r, q \in Rows : cell[r].trip # None /\ cell[r].trip = cell[q].trip => r = q

\* No write replaces one trip's row by another trip's.
RowsKept == [][\A r \in Rows : cell[r].trip # None => cell'[r].trip = cell[r].trip]_vars

\* The synchronization implements ProjectionMirror: the workbook only moves forward, to
\* revisions that were committed, and what is settled is shown.
Mirror == INSTANCE ProjectionMirror WITH
  Keys <- Records, committed <- data,
  shown <- [k \in Records |-> IF k \in Tabs THEN shown[k] ELSE ShownTrip(k)],
  settled <- {k \in Records : IF k \in Tabs THEN k \notin dirtyTabs
                              ELSE outbox[k].status # "PENDING"}

MirrorSpec == Mirror!Spec

Settled == Pending = {} /\ dirtyTabs = {}

\* When canonical changes and failures end, the workbook catches up for good.
Converges == <>[]Settled
=============================================================================
