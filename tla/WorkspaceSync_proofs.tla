------------------------- MODULE WorkspaceSync_proofs -------------------------
(***************************************************************************)
(* Theorems about the synchronization of one workbook, for every set of     *)
(* trips, tabs and passes and for all times that keep TimesAssumption.      *)
(*                                                                          *)
(* The invariant Inductive says what a pass knows: what it has read is not   *)
(* ahead of the records (Knows), what it has read and written under its     *)
(* lease is what the workbook shows (WhileOwner), and a write that is on    *)
(* its way fits the workbook it will find (FlightFits).                     *)
(***************************************************************************)
EXTENDS WorkspaceSync, TLAPS

\* The event of pass p is the master data's, resp. a trip's, and p has begun to read for it.
OnMaster(p) == pc[p] \in {"snapshot", "tab", "wait", "mark", "ack"} /\ event[p].key = Master
OnTrip(p) == pc[p] \in {"rows", "row", "wait", "ack"} /\ event[p].key # Master

\* The tabs whose master data pass p has read.
Fetched(p) == IF pc[p] = "snapshot" THEN due[p] \ rest[p] ELSE IF OnMaster(p) THEN due[p] ELSE {}

\* Where a pass is, what its event is and what it has sent.
Shape(p) ==
  /\ pc[p] \in {"trip", "rows", "row"} => event[p].key \in Trips
  /\ pc[p] \in {"freshness", "snapshot", "tab", "mark"} => event[p].key = Master
  /\ pc[p] \in {"wait", "ack"} => event[p].key \in Keys
  /\ pc[p] = "row" => row[p] \in Rows
  /\ rest[p] \subseteq due[p]
  /\ pc[p] = "mark" => rest[p] = {}
  /\ flight[p] # NoFlight => /\ pc[p] \in {"idle", "wait", "answer"}
                             /\ flight[p].target \in Records \union {Report}
  /\ pc[p] = "wait" => /\ IF event[p].key = Master THEN flight[p].target \in rest[p]
                                                   ELSE flight[p].target = event[p].key
                       /\ flight[p].revision = read[p][flight[p].target]
  /\ pc[p] = "answer" => flight[p].target = Report

\* What a pass has read is not ahead of the records; while the master data it read are still
\* current, the tabs that are dirty are those it delivers.
Knows(p) ==
  /\ \A k \in Records : read[p][k] <= data[k]
  /\ \A e \in todo[p] : e.revision <= outbox[e.key].revision
  /\ event[p].key \in Keys => event[p].revision <= outbox[event[p].key].revision
  /\ OnTrip(p) => event[p].revision <= read[p][event[p].key]
  /\ OnMaster(p) => event[p].revision <= fresh[p] /\ fresh[p] <= mutationRevision
  /\ OnMaster(p) /\ fresh[p] = mutationRevision =>
       /\ \A m \in Fetched(p) : read[p][m] = data[m]
       /\ IF pc[p] = "ack" THEN dirtyTabs = {} ELSE dirtyTabs \subseteq due[p]

\* Nobody else writes while the lease names a pass.
WhileOwner(p) ==
  lease.owner = p =>
    /\ \A m \in Fetched(p) : shown[m] <= read[p][m]
    /\ OnMaster(p) /\ pc[p] \in {"tab", "wait", "mark"} =>
         \A m \in due[p] \ rest[p] : shown[m] = read[p][m]
    /\ OnTrip(p) => \A r \in Rows : cell[r].trip = event[p].key => cell[r].revision <= read[p][event[p].key]
    /\ pc[p] = "row" => row[p] \in RowFor(event[p].key)
    /\ pc[p] = "ack" /\ OnTrip(p) =>
         \E r \in Rows : cell[r] = [trip |-> event[p].key, revision |-> read[p][event[p].key]]

\* A write on its way is under the lease and moves the workbook forward.
FlightFits(p) ==
  /\ flight[p].target \in Records => /\ lease.owner = p /\ flight[p].ttl < lease.left
                                     /\ flight[p].revision <= data[flight[p].target]
  /\ flight[p].target \in Trips =>
       /\ flight[p].row \in RowFor(flight[p].target)
       /\ \A r \in Rows : cell[r].trip = flight[p].target => cell[r].revision <= flight[p].revision
  /\ flight[p].target \in Tabs => shown[flight[p].target] <= flight[p].revision

PassOK(p) == Shape(p) /\ Knows(p) /\ WhileOwner(p) /\ FlightFits(p)

\* The events carry the revisions of the records.
EventsFollow == /\ \A t \in Trips : outbox[t].revision = data[t]
                /\ outbox[Master].revision = mutationRevision

\* The workbook is not ahead of the records, and a tab that is not dirty shows them.
WorkbookFollows == /\ \A r \in Rows : cell[r].trip \in Trips => cell[r].revision <= data[cell[r].trip]
                   /\ \A m \in Tabs : shown[m] <= data[m]
                   /\ \A m \in Tabs \ dirtyTabs : shown[m] = data[m]

Documents == EventsFollow /\ WorkbookFollows /\ DirtyTabIsQueued /\ DeliveredIsShown /\ OneRowPerTrip

Inductive == TypeOK /\ Documents /\ \A p \in Passes : PassOK(p)

-----------------------------------------------------------------------------
\* Types

LocalTypes ==
  /\ pc \in [Passes -> Steps]
  /\ todo \in [Passes -> SUBSET Events]
  /\ event \in [Passes -> Events \union {NoEvent}]
  /\ read \in [Passes -> [Records -> Nat]]
  /\ row \in [Passes -> Nat]
  /\ fresh \in [Passes -> Nat]
  /\ due \in [Passes -> SUBSET Tabs]
  /\ rest \in [Passes -> SUBSET Tabs]

FlightRecords == [target : Records \union {Report, None}, revision : Nat, row : Nat, ttl : 0 .. RequestLife]
OutboxRecords == [revision : Nat, tabs : SUBSET Tabs, status : Status]
LeaseRecords == [owner : Passes \union {None}, left : 0 .. LeaseTime]

SharedTypes ==
  /\ data \in [Records -> Nat]
  /\ outbox \in [Keys -> OutboxRecords]
  /\ dirtyTabs \subseteq Tabs
  /\ mutationRevision \in Nat
  /\ cell \in [Rows -> [trip : Trips \union {None}, revision : Nat]]
  /\ shown \in [Tabs -> Nat]

BoundTypes == changes \in Nat /\ refreshes \in Nat /\ faults \in Nat

(* TypeOK in the parts that a step touches. *)
LEMMA TypesSplit == TypeOK <=> /\ SharedTypes /\ LocalTypes /\ BoundTypes /\ lease \in LeaseRecords
                               /\ flight \in [Passes -> FlightRecords]
BY DEF TypeOK, SharedTypes, LocalTypes, BoundTypes, LeaseRecords, OutboxRecords, FlightRecords

(* The same of the next state. *)
LEMMA TypesSplitNext == TypeOK' <=> /\ SharedTypes' /\ LocalTypes' /\ BoundTypes' /\ lease' \in LeaseRecords
                                    /\ flight' \in [Passes -> FlightRecords]
BY DEF TypeOK, SharedTypes, LocalTypes, BoundTypes, LeaseRecords, OutboxRecords, FlightRecords

(* A pass that leaves keeps the types of its locals. *)
LEMMA LeaveTypes ==
  ASSUME LocalTypes, NEW p \in Passes, NEW step \in Steps, Leave(p, step)
  PROVE  LocalTypes'
BY DEF LocalTypes, Leave, EndEvent, Goto

(* A renewed lease is a lease, and no shorter. *)
LEMMA RenewedLease ==
  ASSUME lease \in LeaseRecords
  PROVE  /\ Renewed \in LeaseRecords
         /\ Renewed.owner = lease.owner /\ Renewed.left >= lease.left
         /\ Renewed.left > RenewBelow
BY TimesAssumption DEF Renewed, LeaseRecords

(* The types are right at the beginning. *)
LEMMA InitTypes == Init => TypeOK
BY NamesAssumption, TimesAssumption
   DEF Init, TypeOK, Records, Keys, Rows, Status, Events, NoEvent, Steps, DeliverySteps, ReportSteps,
       Free, EmptyCell, NoFlight

(* A canonical change keeps the types. *)
LEMMA ChangeTypes ==
  ASSUME TypeOK, \/ \E t \in Trips : CommitTrip(t)
                 \/ \E T \in SUBSET Tabs : ChangeMaster(T)
  PROVE  TypeOK'
<1>1. SharedTypes /\ LocalTypes /\ BoundTypes /\ lease \in LeaseRecords /\ flight \in [Passes -> FlightRecords]
  BY TypesSplit
<1>2. ASSUME NEW t \in Trips, CommitTrip(t) PROVE SharedTypes' /\ BoundTypes'
  <2>1. t \in Records /\ t \in Keys
    BY DEF Records, Keys
  <2>2. data[t] + 1 \in Nat /\ outbox[t].revision + 1 \in Nat
    BY <1>1, <2>1 DEF SharedTypes, OutboxRecords
  <2>3. [revision |-> outbox[t].revision + 1, tabs |-> {}, status |-> "PENDING"] \in OutboxRecords
    BY <2>2 DEF OutboxRecords, Status
  <2> QED BY <1>1, <1>2, <2>1, <2>2, <2>3 DEF CommitTrip, SharedTypes, BoundTypes, workbook
<1>3. ASSUME NEW T \in SUBSET Tabs, ChangeMaster(T) PROVE SharedTypes' /\ BoundTypes'
  <2>1. mutationRevision + 1 \in Nat /\ Master \in Keys
    BY <1>1 DEF SharedTypes, Keys
  <2>2. data' \in [Records -> Nat]
    BY <1>1, <1>3 DEF ChangeMaster, SharedTypes
  <2>3. dirtyTabs' \subseteq Tabs /\ mutationRevision' \in Nat
    BY <1>1, <1>3, <2>1 DEF ChangeMaster, SharedTypes
  <2>4. [revision |-> mutationRevision', tabs |-> dirtyTabs', status |-> "PENDING"] \in OutboxRecords
    BY <2>3 DEF OutboxRecords, Status
  <2> QED BY <1>1, <1>3, <2>1, <2>2, <2>3, <2>4 DEF ChangeMaster, SharedTypes, BoundTypes, workbook
<1>4. UNCHANGED <<locals, pc, lease, flight>>
  BY DEF CommitTrip, ChangeMaster
<1>5. LocalTypes' /\ lease' \in LeaseRecords /\ flight' \in [Passes -> FlightRecords]
  BY <1>1, <1>4 DEF LocalTypes, locals
<1> QED BY <1>2, <1>3, <1>5, TypesSplitNext

(* Claiming, heartbeats and the release of the lease keep the types. *)
LEMMA LeaseTypesKept ==
  ASSUME TypeOK, NEW p \in Passes,
         StartPass(p) \/ StartRefresh(p) \/ Heartbeat(p) \/ Release(p)
  PROVE  TypeOK'
<1>1. SharedTypes /\ LocalTypes /\ BoundTypes /\ lease \in LeaseRecords /\ flight \in [Passes -> FlightRecords]
  BY TypesSplit
<1>2. ASSUME Claim(p)
      PROVE /\ SharedTypes' /\ lease' \in LeaseRecords /\ UNCHANGED <<flight, locals, changes, faults>>
  <2>1. [owner |-> p, left |-> LeaseTime] \in LeaseRecords
    BY TimesAssumption DEF LeaseRecords
  <2>2. [revision |-> mutationRevision, tabs |-> dirtyTabs, status |-> "PENDING"] \in OutboxRecords
    BY <1>1 DEF SharedTypes, OutboxRecords, Status
  <2>3. Master \in Keys
    BY DEF Keys
  <2> QED BY <1>1, <1>2, <2>1, <2>2, <2>3 DEF Claim, SharedTypes, workbook
<1>3. CASE StartPass(p)
  <2>1. LocalTypes' /\ BoundTypes'
    BY <1>1, <1>2, <1>3 DEF StartPass, LocalTypes, BoundTypes, Goto, locals, Steps, DeliverySteps
  <2> QED BY <1>1, <1>2, <1>3, <2>1, TypesSplitNext DEF StartPass
<1>4. CASE StartRefresh(p)
  <2>1. LocalTypes' /\ BoundTypes'
    BY <1>1, <1>2, <1>4 DEF StartRefresh, LocalTypes, BoundTypes, Goto, locals, Steps, ReportSteps
  <2> QED BY <1>1, <1>2, <1>4, <2>1, TypesSplitNext DEF StartRefresh
<1>5. CASE Heartbeat(p)
  <2>1. UNCHANGED <<store, workbook, pc, locals, flight, bounds, faults>> /\ lease' = Renewed
    BY <1>5 DEF Heartbeat
  <2> QED BY <1>1, <2>1, RenewedLease, TypesSplitNext
          DEF store, workbook, locals, bounds, SharedTypes, LocalTypes, BoundTypes
<1>6. CASE Release(p)
  <2>1. Leave(p, "idle") /\ UNCHANGED <<store, workbook, flight, bounds, faults>>
        /\ lease' \in {Free, lease}
    BY <1>6 DEF Release
  <2>2. LocalTypes'
    BY <1>1, <2>1, LeaveTypes DEF Steps
  <2>3. Free \in LeaseRecords
    BY TimesAssumption DEF Free, LeaseRecords
  <2> QED BY <1>1, <2>1, <2>2, <2>3, TypesSplitNext
          DEF store, workbook, bounds, SharedTypes, BoundTypes
<1> QED BY <1>3, <1>4, <1>5, <1>6

(* The steps of a delivery pass keep the types. *)
LEMMA DeliveryTypes ==
  ASSUME TypeOK, NEW p \in Passes,
         \/ Query(p) \/ Take(p) \/ ReadTrip(p) \/ ReadRows(p) \/ ReadFreshness(p) \/ Mark(p) \/ Ack(p)
         \/ \E m \in Tabs : ReadTab(p, m)
  PROVE  TypeOK'
<1>1. SharedTypes /\ LocalTypes /\ BoundTypes /\ lease \in LeaseRecords /\ flight \in [Passes -> FlightRecords]
  BY TypesSplit
<1>2. Renewed \in LeaseRecords
  BY <1>1, RenewedLease
<1>3. {"next", "trip", "rows", "row", "freshness", "snapshot", "tab", "ack", "closing"} \subseteq Steps
  BY DEF Steps, DeliverySteps
<1> DEFINE Others == SharedTypes' /\ BoundTypes' /\ lease' \in LeaseRecords
<1>4. ASSUME UNCHANGED <<store, workbook, bounds, faults>>, lease' \in {lease, Renewed} PROVE Others
  BY <1>1, <1>2, <1>4 DEF store, workbook, bounds, SharedTypes, BoundTypes
<1>5. CASE Query(p)
  <2>1. ASSUME NEW k \in Pending
        PROVE  [key |-> k, revision |-> outbox[k].revision, tabs |-> outbox[k].tabs] \in Events
    BY <1>1 DEF Pending, SharedTypes, OutboxRecords, Events
  <2>2. LocalTypes'
    BY <1>1, <1>3, <1>5, <2>1 DEF Query, LocalTypes, Goto
  <2> QED BY <1>1, <1>4, <1>5, <2>2, TypesSplitNext DEF Query
<1>6. CASE Take(p)
  <2>1. PICK e \in todo[p] : /\ event' = [event EXCEPT ![p] = e]
                             /\ todo' = [todo EXCEPT ![p] = @ \ {e}]
                             /\ Goto(p, IF e.key = Master THEN "freshness" ELSE "trip")
    BY <1>6 DEF Take
  <2>2. e \in Events /\ todo[p] \ {e} \subseteq Events
    BY <1>1 DEF LocalTypes
  <2>3. UNCHANGED <<read, row, fresh, due, rest>>
    BY <1>6 DEF Take
  <2>4. LocalTypes'
    BY <1>1, <1>3, <2>1, <2>2, <2>3 DEF LocalTypes, Goto
  <2> QED BY <1>1, <1>4, <1>6, <2>4, TypesSplitNext DEF Take
<1>7. CASE ReadTrip(p)
  <2>1. LocalTypes'
    <3>1. ASSUME event[p].key \in Records PROVE data[event[p].key] \in Nat
      BY <1>1, <3>1 DEF SharedTypes
    <3>2. read'[p] \in [Records -> Nat]
      BY <1>1, <1>7, <3>1 DEF ReadTrip, LocalTypes
    <3> QED BY <1>1, <1>3, <1>7, <3>2 DEF ReadTrip, LocalTypes, Goto
  <2> QED BY <1>1, <1>4, <1>7, <2>1, TypesSplitNext DEF ReadTrip
<1>8. CASE ReadRows(p)
  <2>1. RowFor(event[p].key) \subseteq Nat
    BY CapacityAssumption DEF RowFor, Rows
  <2>2. LocalTypes'
    BY <1>1, <1>3, <1>8, <2>1 DEF ReadRows, LocalTypes, Goto
  <2> QED BY <1>1, <1>4, <1>8, <2>2, TypesSplitNext DEF ReadRows
<1>9. CASE ReadFreshness(p)
  <2>1. (IF dirtyTabs # {} THEN dirtyTabs ELSE event[p].tabs) \in SUBSET Tabs
    BY <1>1 DEF SharedTypes, LocalTypes, Events, NoEvent
  <2>2. LocalTypes'
    BY <1>1, <1>3, <1>9, <2>1 DEF ReadFreshness, LocalTypes, SharedTypes, Goto
  <2> QED BY <1>1, <1>4, <1>9, <2>2, TypesSplitNext DEF ReadFreshness
<1>10. CASE Mark(p)
  <2>1. LocalTypes'
    BY <1>1, <1>3, <1>10, LeaveTypes DEF Mark, LocalTypes, locals, Goto
  <2>2. Others
    BY <1>1, <1>10 DEF Mark, workbook, bounds, SharedTypes, BoundTypes
  <2> QED BY <1>1, <1>10, <2>1, <2>2, TypesSplitNext DEF Mark
<1>11. CASE Ack(p)
  <2>1. LocalTypes'
    BY <1>1, <1>3, <1>11 DEF Ack, EndEvent, LocalTypes, Goto
  <2>2. outbox' \in [Keys -> OutboxRecords]
    <3>1. ASSUME NEW o \in OutboxRecords PROVE [o EXCEPT !.status = "DELIVERED"] \in OutboxRecords
      BY <3>1 DEF OutboxRecords, Status
    <3>2. outbox' \in {outbox, [outbox EXCEPT ![event[p].key] = [@ EXCEPT !.status = "DELIVERED"]]}
      BY <1>11, Zenon DEF Ack
    <3> QED BY <1>1, <3>1, <3>2 DEF SharedTypes
  <2>3. Others
    BY <1>1, <1>11, <2>2 DEF Ack, workbook, bounds, SharedTypes, BoundTypes
  <2> QED BY <1>1, <1>11, <2>1, <2>3, TypesSplitNext DEF Ack
<1>12. CASE \E m \in Tabs : ReadTab(p, m)
  <2>1. PICK m \in Tabs : ReadTab(p, m)
    BY <1>12
  <2>2. m \in Records /\ data[m] \in Nat
    BY <1>1 DEF SharedTypes, Records
  <2>3. read'[p] \in [Records -> Nat]
    BY <1>1, <2>1, <2>2 DEF ReadTab, LocalTypes
  <2>4. LocalTypes'
    BY <1>1, <1>3, <2>1, <2>3 DEF ReadTab, LocalTypes, Goto
  <2> QED BY <1>1, <1>4, <2>1, <2>4, TypesSplitNext DEF ReadTab
<1> QED BY <1>5, <1>6, <1>7, <1>8, <1>9, <1>10, <1>11, <1>12

(* Requests, their answers, failures and time keep the types. *)
LEMMA RequestTypes ==
  ASSUME TypeOK, NEW p \in Passes, Shape(p),
         \/ SendTrip(p) \/ SendReport(p) \/ (\E m \in Tabs : SendTab(p, m)) \/ Land(p)
  PROVE  TypeOK'
<1>1. SharedTypes /\ LocalTypes /\ BoundTypes /\ lease \in LeaseRecords /\ flight \in [Passes -> FlightRecords]
  BY TypesSplit
<1>2. ASSUME NEW target \in Records, NEW r \in Nat, Send(p, target, r),
             UNCHANGED <<store, workbook, locals, bounds, faults>>
      PROVE  TypeOK'
  <2>1. read[p][target] \in Nat
    BY <1>1 DEF LocalTypes
  <2>2. [target |-> target, revision |-> read[p][target], row |-> r, ttl |-> RequestLife] \in FlightRecords
    BY <2>1, TimesAssumption DEF FlightRecords
  <2>3. flight' \in [Passes -> FlightRecords]
    BY <1>1, <1>2, <2>2 DEF Send
  <2>4. SharedTypes' /\ BoundTypes'
    BY <1>1, <1>2 DEF store, workbook, bounds, SharedTypes, BoundTypes
  <2>5. LocalTypes'
    BY <1>1, <1>2 DEF Send, Goto, LocalTypes, locals, Steps, DeliverySteps
  <2>6. lease' \in LeaseRecords
    BY <1>1, <1>2, RenewedLease DEF Send
  <2> QED BY <2>3, <2>4, <2>5, <2>6, TypesSplitNext
<1>3. CASE \E m \in Tabs : SendTab(p, m)
  BY <1>2, <1>3 DEF SendTab, Records
<1>4. CASE SendReport(p)
  <2>1. [target |-> Report, revision |-> 0, row |-> 0, ttl |-> RequestLife] \in FlightRecords
    BY TimesAssumption DEF FlightRecords
  <2>2. flight' \in [Passes -> FlightRecords]
    BY <1>1, <1>4, <2>1 DEF SendReport
  <2>3. SharedTypes' /\ BoundTypes' /\ lease' \in LeaseRecords
    BY <1>1, <1>4 DEF SendReport, store, workbook, bounds, SharedTypes, BoundTypes
  <2>4. LocalTypes'
    BY <1>1, <1>4 DEF SendReport, Goto, LocalTypes, locals, Steps, ReportSteps
  <2> QED BY <2>2, <2>3, <2>4, TypesSplitNext
<1>5. CASE Land(p)
  <2>1. NoFlight \in FlightRecords
    BY TimesAssumption DEF NoFlight, FlightRecords
  <2>2. flight' \in [Passes -> FlightRecords]
    BY <1>1, <1>5, <2>1 DEF Land
  <2>3. LocalTypes' /\ BoundTypes'
    BY <1>1, <1>5, LeaveTypes
       DEF Land, Fail, Answered, Goto, LocalTypes, locals, Steps, DeliverySteps, ReportSteps,
           BoundTypes, bounds
  <2>4. cell' \in [Rows -> [trip : Trips \union {None}, revision : Nat]] /\ shown' \in [Tabs -> Nat]
    <3>1. Apply(flight[p]) /\ flight[p].revision \in Nat
      BY <1>1, <1>5 DEF Land, FlightRecords
    <3>2. ASSUME flight[p].target \in Trips
          PROVE [trip |-> flight[p].target, revision |-> flight[p].revision]
                \in [trip : Trips \union {None}, revision : Nat]
      BY <3>1, <3>2
    <3>3. cell' \in [Rows -> [trip : Trips \union {None}, revision : Nat]]
      BY <1>1, <3>1, <3>2 DEF Apply, SharedTypes
    <3>4. shown' \in [Tabs -> Nat]
      BY <1>1, <3>1 DEF Apply, SharedTypes
    <3> QED BY <3>3, <3>4
  <2>5. SharedTypes' /\ lease' \in LeaseRecords
    BY <1>1, <1>5, <2>4 DEF Land, store, SharedTypes
  <2> QED BY <2>2, <2>3, <2>5, TypesSplitNext
<1>6. CASE SendTrip(p)
  <2>1. event[p].key \in Records /\ row[p] \in Nat
    BY <1>1, <1>6 DEF SendTrip, Shape, Records, LocalTypes
  <2> QED BY <1>2, <1>6, <2>1 DEF SendTrip
<1> QED BY <1>3, <1>4, <1>5, <1>6

(* A pass that stops, a lost request and the passing of time keep the types. *)
LEMMA FailureTypes ==
  ASSUME TypeOK, NEW p \in Passes,
         Drained(p) \/ FencedOff(p) \/ Abort(p) \/ Crash(p) \/ Reject(p) \/ Tick
  PROVE  TypeOK'
<1>1. SharedTypes /\ LocalTypes /\ BoundTypes /\ lease \in LeaseRecords /\ flight \in [Passes -> FlightRecords]
  BY TypesSplit
<1>2. CASE Drained(p) \/ FencedOff(p) \/ Abort(p) \/ Crash(p)
  <2>1. PICK step \in Steps : Leave(p, step)
    BY <1>2 DEF Drained, FencedOff, Abort, Crash, Fail, Steps, DeliverySteps, ReportSteps
  <2>2. LocalTypes'
    BY <1>1, <2>1, LeaveTypes
  <2>3. SharedTypes' /\ BoundTypes' /\ UNCHANGED <<lease, flight>>
    BY <1>1, <1>2 DEF Drained, FencedOff, Abort, Crash, store, workbook, bounds, SharedTypes, BoundTypes
  <2> QED BY <1>1, <2>2, <2>3, TypesSplitNext
<1>3. CASE Reject(p)
  <2>1. LocalTypes'
    BY <1>1, <1>3, LeaveTypes DEF Reject, Fail, LocalTypes, locals, Steps, DeliverySteps, ReportSteps
  <2>2. SharedTypes' /\ BoundTypes' /\ UNCHANGED lease
    BY <1>1, <1>3 DEF Reject, store, workbook, bounds, SharedTypes, BoundTypes
  <2>3. NoFlight \in FlightRecords
    BY TimesAssumption DEF NoFlight, FlightRecords
  <2>4. flight' \in [Passes -> FlightRecords]
    BY <1>1, <1>3, <2>3 DEF Reject
  <2> QED BY <1>1, <2>1, <2>2, <2>4, TypesSplitNext
<1>4. CASE Tick
  <2>1. LocalTypes'
    BY <1>1, <1>4 DEF Tick, LocalTypes, locals
  <2>2. SharedTypes' /\ BoundTypes'
    BY <1>1, <1>4 DEF Tick, store, workbook, bounds, SharedTypes, BoundTypes
  <2>3. lease' \in LeaseRecords
    BY <1>1, <1>4, TimesAssumption DEF Tick, LeaseRecords
  <2>4. ASSUME NEW q \in Passes, flight[q] # NoFlight
        PROVE  [flight[q] EXCEPT !.ttl = @ - 1] \in FlightRecords
    <3>1. flight[q] \in FlightRecords /\ flight[q].ttl > 0
      BY <1>1, <1>4, <2>4 DEF Tick
    <3>2. flight[q].ttl - 1 \in 0 .. RequestLife
      BY <3>1, TimesAssumption DEF FlightRecords
    <3> QED BY <3>1, <3>2 DEF FlightRecords
  <2>5. NoFlight \in FlightRecords
    BY TimesAssumption DEF NoFlight, FlightRecords
  <2>6. flight' \in [Passes -> FlightRecords]
    BY <1>4, <2>4, <2>5 DEF Tick
  <2> QED BY <2>1, <2>2, <2>3, <2>6, TypesSplitNext
<1> QED BY <1>2, <1>3, <1>4

(* Every step keeps the types. *)
LEMMA StepTypes ==
  ASSUME TypeOK, \A p \in Passes : Shape(p), [Next]_vars
  PROVE  TypeOK'
<1>1. CASE \/ \E t \in Trips : CommitTrip(t)
           \/ \E T \in SUBSET Tabs : ChangeMaster(T)
  BY <1>1, ChangeTypes
<1>2. ASSUME NEW p \in Passes,
             StartPass(p) \/ StartRefresh(p) \/ Heartbeat(p) \/ Deliver(p)
             \/ Land(p) \/ Reject(p) \/ Abort(p) \/ Crash(p)
      PROVE  TypeOK'
  BY <1>2, LeaseTypesKept, DeliveryTypes, RequestTypes, FailureTypes DEF Deliver
<1>3. CASE Tick
  <2>1. CASE Passes # {}
    BY <1>3, <2>1, FailureTypes
  <2>2. CASE Passes = {}
    <3>1. SharedTypes /\ LocalTypes /\ BoundTypes /\ lease \in LeaseRecords /\ flight \in [Passes -> FlightRecords]
      BY TypesSplit
    <3>2. LocalTypes' /\ SharedTypes' /\ BoundTypes'
      BY <1>3, <3>1 DEF Tick, LocalTypes, locals, store, workbook, bounds, SharedTypes, BoundTypes
    <3>3. lease' \in LeaseRecords
      BY <1>3, <3>1, TimesAssumption DEF Tick, LeaseRecords
    <3>4. flight' \in [Passes -> FlightRecords]
      BY <1>3, <2>2 DEF Tick
    <3> QED BY <3>2, <3>3, <3>4, TypesSplitNext
  <2> QED BY <2>1, <2>2
<1>4. CASE UNCHANGED vars
  BY <1>4, TypesSplit, TypesSplitNext
     DEF vars, LocalTypes, locals, store, workbook, bounds, SharedTypes, BoundTypes
<1> QED BY <1>1, <1>2, <1>3, <1>4 DEF Next


-----------------------------------------------------------------------------
\* What the passes know

\* A step neither takes back what the store has committed nor makes a tab dirty silently.
StoreGrows ==
  /\ \A k \in Records : data[k] <= data'[k]
  /\ \A k \in Keys : outbox[k].revision <= outbox'[k].revision
  /\ mutationRevision <= mutationRevision'
  /\ mutationRevision' = mutationRevision =>
       /\ \A m \in Tabs : data'[m] = data[m]
       /\ dirtyTabs' \subseteq dirtyTabs

\* A step of somebody else, seen by pass q.
Bystander(q) ==
  /\ pc'[q] = pc[q] /\ todo'[q] = todo[q] /\ event'[q] = event[q] /\ read'[q] = read[q]
  /\ row'[q] = row[q] /\ fresh'[q] = fresh[q] /\ due'[q] = due[q] /\ rest'[q] = rest[q]
  /\ flight'[q] = NoFlight <=> flight[q] = NoFlight
  /\ flight'[q].target = flight[q].target /\ flight'[q].revision = flight[q].revision
  /\ flight'[q].row = flight[q].row
  /\ lease'.owner = q => lease.owner = q
  /\ lease.owner = q => UNCHANGED workbook
  /\ flight[q].target \in Records => lease'.owner = q /\ flight'[q].ttl < lease'.left

(* A step of somebody else leaves what pass q knows true. *)
LEMMA BystanderOK ==
  ASSUME TypeOK, NEW q \in Passes, PassOK(q), StoreGrows, TypeOK', Bystander(q)
  PROVE  PassOK(q)'
<1>1. SharedTypes /\ LocalTypes /\ flight \in [Passes -> FlightRecords]
  BY TypesSplit
<1>2. SharedTypes'
  BY TypesSplitNext
<1>3. (OnMaster(q)' <=> OnMaster(q)) /\ (OnTrip(q)' <=> OnTrip(q)) /\ Fetched(q)' = Fetched(q)
  BY DEF Bystander, OnMaster, OnTrip, Fetched
<1>4. Shape(q)'
  BY DEF PassOK, Shape, Bystander
<1>5. Knows(q)'
  <2>1. Knows(q)
    BY DEF PassOK
  <2>2. data \in [Records -> Nat] /\ data' \in [Records -> Nat] /\ read[q] \in [Records -> Nat]
    BY <1>1, <1>2 DEF SharedTypes, LocalTypes
  <2>3. mutationRevision \in Nat /\ mutationRevision' \in Nat /\ fresh[q] \in Nat
    BY <1>1, <1>2 DEF SharedTypes, LocalTypes
  <2>4. \A k \in Keys : outbox[k].revision \in Nat /\ outbox'[k].revision \in Nat
    BY <1>1, <1>2 DEF SharedTypes, OutboxRecords
  <2>5. todo[q] \subseteq Events /\ event[q].revision \in Nat /\ due[q] \subseteq Tabs
    BY <1>1 DEF LocalTypes, Events, NoEvent
  <2>6. \A k \in Records : read[q][k] <= data'[k]
    BY <2>1, <2>2 DEF Knows, StoreGrows
  <2>7. \A e \in todo[q] : e.revision <= outbox'[e.key].revision
    BY <2>1, <2>4, <2>5 DEF Knows, StoreGrows, Events
  <2>8. event[q].key \in Keys => event[q].revision <= outbox'[event[q].key].revision
    BY <2>1, <2>4, <2>5 DEF Knows, StoreGrows
  <2>9. OnMaster(q) => event[q].revision <= fresh[q] /\ fresh[q] <= mutationRevision'
    BY <2>1, <2>3 DEF Knows, StoreGrows
  <2>10. ASSUME OnMaster(q), fresh[q] = mutationRevision'
         PROVE  /\ \A m \in Fetched(q) : read[q][m] = data'[m]
                /\ IF pc[q] = "ack" THEN dirtyTabs' = {} ELSE dirtyTabs' \subseteq due[q]
    <3>1. mutationRevision' = mutationRevision
      BY <2>1, <2>3, <2>10 DEF Knows, StoreGrows
    <3>2. Fetched(q) \subseteq Tabs
      BY <2>5 DEF Fetched
    <3> QED BY <2>1, <2>10, <3>1, <3>2 DEF Knows, StoreGrows
  <2>11. OnTrip(q) => event[q].revision <= read[q][event[q].key]
    BY <2>1 DEF Knows
  <2> QED BY <1>3, <2>6, <2>7, <2>8, <2>9, <2>10, <2>11 DEF Knows, Bystander
<1>6. WhileOwner(q)'
  BY <1>3 DEF PassOK, WhileOwner, Bystander, workbook, RowFor
<1>7. FlightFits(q)'
  <2>1. ASSUME flight[q].target \in Records
        PROVE  /\ lease.owner = q /\ UNCHANGED workbook
               /\ flight[q].revision <= data'[flight[q].target]
    BY <1>1, <1>2, <2>1 DEF PassOK, FlightFits, Bystander, StoreGrows, SharedTypes, FlightRecords
  <2> QED BY <2>1 DEF PassOK, FlightFits, Bystander, workbook, RowFor, Records
<1> QED BY <1>4, <1>5, <1>6, <1>7 DEF PassOK

(* A pass that leaves knows nothing more; a request it has sent goes on. *)
LEMMA LeftOK ==
  ASSUME TypeOK, TypeOK', NEW p \in Passes, PassOK(p),
         NEW step \in {"idle", "closing", "reported"}, Leave(p, step),
         \/ flight'[p] = NoFlight
         \/ step = "idle" /\ UNCHANGED <<data, lease, workbook, flight>>
  PROVE  PassOK(p)'
<1>1. LocalTypes /\ LocalTypes' /\ SharedTypes'
  BY TypesSplit, TypesSplitNext
<1>2. /\ pc'[p] = step /\ todo'[p] = {} /\ event'[p] = NoEvent
      /\ read'[p] = [k \in Records |-> 0] /\ rest'[p] = {} /\ due'[p] = {}
  BY <1>1 DEF LocalTypes, Leave, EndEvent, Goto
<1>3. NoEvent.key \notin Keys
  BY NamesAssumption DEF NoEvent, Keys
<1>4. NoFlight.target \notin Records
  BY NamesAssumption DEF NoFlight, Records
<1>5. Shape(p)'
  BY <1>2 DEF Shape, PassOK
<1>6. ~OnMaster(p)' /\ ~OnTrip(p)' /\ Fetched(p)' = {}
  BY <1>2 DEF OnMaster, OnTrip, Fetched
<1>7. Knows(p)'
  BY <1>1, <1>2, <1>3, <1>6 DEF Knows, SharedTypes
<1>8. WhileOwner(p)'
  BY <1>2, <1>6 DEF WhileOwner
<1>9. FlightFits(p)'
  BY <1>4 DEF FlightFits, PassOK, workbook, RowFor, Records
<1> QED BY <1>5, <1>7, <1>8, <1>9 DEF PassOK

(* While its request waits, and only then, a running pass has one on its way. *)
LEMMA NotInFlight ==
  ASSUME NEW p \in Passes, PassOK(p), pc[p] \notin {"idle", "wait", "answer"}
  PROVE  flight[p] = NoFlight
BY DEF PassOK, Shape

(* A pass that stops, or whose request is lost. *)
LEMMA StoppedOK ==
  ASSUME TypeOK, TypeOK', NEW p \in Passes, PassOK(p),
         \/ Drained(p) \/ FencedOff(p) \/ Abort(p) \/ Crash(p) \/ Release(p) \/ Reject(p)
  PROVE  PassOK(p)'
<1>1. LocalTypes /\ flight \in [Passes -> FlightRecords]
  BY TypesSplit
<1>2. CASE Crash(p)
  BY <1>2, LeftOK DEF Crash, store
<1>3. CASE Drained(p) \/ FencedOff(p) \/ Abort(p) \/ Release(p)
  <2>1. flight'[p] = NoFlight
    BY <1>3, NotInFlight DEF Drained, FencedOff, Abort, Release
  <2>2. PICK step \in {"idle", "closing", "reported"} : Leave(p, step)
    BY <1>3 DEF Drained, FencedOff, Abort, Release, Fail
  <2> QED BY <2>1, <2>2, LeftOK
<1>4. CASE Reject(p)
  <2>1. flight'[p] = NoFlight
    BY <1>1, <1>4 DEF Reject
  <2>2. CASE Fail(p)
    BY <2>1, <2>2, LeftOK DEF Fail
  <2>3. CASE pc[p] = "idle" /\ UNCHANGED <<pc, locals>>
    <3>1. UNCHANGED <<data, outbox, dirtyTabs, mutationRevision, lease, cell, shown>>
      BY <1>4 DEF Reject, store, workbook
    <3>2. NoFlight.target \notin Records
      BY NamesAssumption DEF NoFlight, Records
    <3>3. Shape(p)' /\ Knows(p)' /\ WhileOwner(p)'
      BY <2>1, <2>3, <3>1 DEF PassOK, Shape, Knows, WhileOwner, OnMaster, OnTrip, Fetched, locals
    <3>4. FlightFits(p)'
      BY <2>1, <3>2 DEF FlightFits, Records
    <3> QED BY <3>3, <3>4 DEF PassOK
  <2> QED BY <1>4, <2>2, <2>3 DEF Reject
<1> QED BY <1>2, <1>3, <1>4

(* Taking or prolonging the lease. *)
LEMMA LeaseOK ==
  ASSUME TypeOK, TypeOK', EventsFollow, NEW p \in Passes, PassOK(p),
         StartPass(p) \/ StartRefresh(p) \/ Heartbeat(p)
  PROVE  PassOK(p)'
<1>1. SharedTypes /\ LocalTypes /\ flight \in [Passes -> FlightRecords] /\ lease \in LeaseRecords
  BY TypesSplit
<1>2. CASE Heartbeat(p)
  <2>1. UNCHANGED <<data, outbox, dirtyTabs, mutationRevision, cell, shown, pc, locals, flight>> /\ lease' = Renewed
    BY <1>2 DEF Heartbeat, store, workbook
  <2>2. lease'.owner = lease.owner /\ lease'.left >= lease.left
    BY <1>1, <2>1, RenewedLease
  <2>3. Shape(p)' /\ Knows(p)' /\ WhileOwner(p)'
    BY <2>1, <2>2 DEF PassOK, Shape, Knows, WhileOwner, OnMaster, OnTrip, Fetched, locals, RowFor
  <2>4. flight[p].ttl \in Int /\ lease.left \in Int /\ lease'.left \in Int
    BY <1>1, <2>1, RenewedLease, TimesAssumption DEF FlightRecords, LeaseRecords
  <2>5. FlightFits(p)'
    BY <2>1, <2>2, <2>4 DEF PassOK, FlightFits, RowFor
  <2> QED BY <2>3, <2>5 DEF PassOK
<1>3. CASE StartPass(p) \/ StartRefresh(p)
  <2>1. /\ Claim(p) /\ flight[p] = NoFlight /\ flight' = flight
        /\ UNCHANGED <<locals, data, dirtyTabs, mutationRevision>>
    BY <1>3 DEF StartPass, StartRefresh, Claim
  <2>2. pc'[p] \in {"query", "report"}
    BY <1>1, <1>3 DEF StartPass, StartRefresh, Goto, LocalTypes
  <2>3. Master \in Keys
    BY DEF Keys
  <2>4. \A k \in Keys : outbox'[k].revision = outbox[k].revision
    BY <1>1, <2>1, <2>3 DEF Claim, EventsFollow, SharedTypes
  <2>5. ~OnMaster(p)' /\ ~OnTrip(p)' /\ Fetched(p)' = {}
    BY <2>2 DEF OnMaster, OnTrip, Fetched
  <2>6. Shape(p)'
    BY <2>1, <2>2 DEF PassOK, Shape, locals
  <2>7. Knows(p)'
    BY <1>1, <2>1, <2>4, <2>5 DEF PassOK, Knows, locals, LocalTypes, Events
  <2>8. WhileOwner(p)'
    BY <2>2, <2>5 DEF WhileOwner
  <2>9. FlightFits(p)'
    BY <2>1, NamesAssumption DEF FlightFits, NoFlight, Records
  <2> QED BY <2>6, <2>7, <2>8, <2>9 DEF PassOK
<1> QED BY <1>2, <1>3

(* What a request that is not on its way needs. *)
LEMMA NothingFlies ==
  ASSUME NEW p \in Passes, flight'[p] = NoFlight
  PROVE  FlightFits(p)'
BY NamesAssumption DEF FlightFits, NoFlight, Records

(* The query and the choice of the next event. *)
LEMMA TakeOK ==
  ASSUME TypeOK, TypeOK', NEW p \in Passes, PassOK(p), Query(p) \/ Take(p)
  PROVE  PassOK(p)'
<1>1. SharedTypes /\ LocalTypes
  BY TypesSplit
<1>2. flight[p] = NoFlight /\ flight' = flight /\ UNCHANGED <<data, outbox, read, rest, due>>
  BY NotInFlight DEF Query, Take, store
<1>3. FlightFits(p)'
  BY <1>2, NothingFlies
<1>4. pc'[p] \in {"next", "trip", "freshness"}
  BY <1>1 DEF Query, Take, Goto, LocalTypes
<1>5. ~OnMaster(p)' /\ ~OnTrip(p)' /\ Fetched(p)' = {}
  BY <1>4 DEF OnMaster, OnTrip, Fetched
<1>6. WhileOwner(p)'
  BY <1>4, <1>5 DEF WhileOwner
<1>7. CASE Query(p)
  <2>1. /\ todo'[p] = {[key |-> k, revision |-> outbox[k].revision, tabs |-> outbox[k].tabs] : k \in Pending}
        /\ event' = event /\ pc'[p] = "next"
    BY <1>1, <1>7 DEF Query, Goto, LocalTypes
  <2>2. Shape(p)'
    BY <1>2, <2>1 DEF PassOK, Shape
  <2>3. \A e \in todo'[p] : e.revision <= outbox'[e.key].revision
    BY <1>1, <1>2, <2>1 DEF Pending, SharedTypes, OutboxRecords
  <2>4. Knows(p)'
    BY <1>2, <1>5, <2>1, <2>3 DEF PassOK, Knows
  <2> QED BY <1>3, <1>6, <2>2, <2>4 DEF PassOK
<1>8. CASE Take(p)
  <2>1. PICK e \in todo[p] : /\ event'[p] = e /\ todo'[p] = todo[p] \ {e}
                             /\ pc'[p] = IF e.key = Master THEN "freshness" ELSE "trip"
    BY <1>1, <1>8 DEF Take, Goto, LocalTypes
  <2>2. e \in Events
    BY <1>1 DEF LocalTypes
  <2>3. Shape(p)'
    BY <1>2, <2>1, <2>2 DEF PassOK, Shape, Events, Keys
  <2>4. Knows(p)'
    BY <1>2, <1>5, <2>1 DEF PassOK, Knows
  <2> QED BY <1>3, <1>6, <2>3, <2>4 DEF PassOK
<1> QED BY <1>7, <1>8

(* Reading a trip, and the row it is to be written to. *)
LEMMA TripReadOK ==
  ASSUME TypeOK, TypeOK', EventsFollow, WorkbookFollows, NEW p \in Passes, PassOK(p),
         ReadTrip(p) \/ ReadRows(p)
  PROVE  PassOK(p)'
<1>1. SharedTypes /\ LocalTypes
  BY TypesSplit
<1>2. /\ flight[p] = NoFlight /\ flight' = flight
      /\ UNCHANGED <<data, outbox, mutationRevision, dirtyTabs, cell, shown, todo, event, fresh, due, rest>>
  BY NotInFlight DEF ReadTrip, ReadRows, store, workbook
<1>3. FlightFits(p)'
  BY <1>2, NothingFlies
<1>4. event[p].key \in Trips /\ event[p].key # Master
  BY NamesAssumption DEF ReadTrip, ReadRows, PassOK, Shape
<1>5. pc'[p] \in {"rows", "row"}
  BY <1>1 DEF ReadTrip, ReadRows, Goto, LocalTypes
<1>6. ~OnMaster(p)' /\ OnTrip(p)' /\ Fetched(p)' = {}
  BY <1>2, <1>4, <1>5 DEF OnMaster, OnTrip, Fetched
<1>7. CASE ReadTrip(p)
  <2> DEFINE t == event[p].key
  <2>1. pc'[p] = "rows" /\ read'[p] = [read[p] EXCEPT ![t] = data[t]] /\ lease' = lease /\ row' = row
    BY <1>1, <1>7 DEF ReadTrip, Goto, LocalTypes
  <2>2. t \in Records /\ t \in Keys /\ read[p] \in [Records -> Nat] /\ data \in [Records -> Nat]
    BY <1>1, <1>4 DEF Records, Keys, LocalTypes, SharedTypes
  <2>3. read'[p][t] = data[t] /\ \A k \in Records : read'[p][k] <= data[k]
    BY <2>1, <2>2 DEF PassOK, Knows
  <2>4. event[p].revision <= data[t]
    BY <1>4, <2>2 DEF PassOK, Knows, EventsFollow
  <2>5. Shape(p)'
    BY <1>2, <1>4, <2>1 DEF PassOK, Shape
  <2>6. Knows(p)'
    BY <1>2, <1>6, <2>3, <2>4 DEF PassOK, Knows
  <2>7. \A r \in Rows : cell[r].trip = t => cell[r].revision <= data[t]
    BY <1>4 DEF WorkbookFollows
  <2>8. WhileOwner(p)'
    BY <1>2, <1>6, <2>1, <2>3, <2>7 DEF WhileOwner
  <2> QED BY <1>3, <2>5, <2>6, <2>8 DEF PassOK
<1>8. CASE ReadRows(p)
  <2>1. /\ pc[p] = "rows" /\ lease.owner = p /\ pc'[p] = "row" /\ row'[p] \in RowFor(event[p].key)
        /\ read' = read
    BY <1>1, <1>8 DEF ReadRows, Goto, LocalTypes, Holds
  <2>2. OnTrip(p)
    BY <1>4, <2>1 DEF OnTrip
  <2>3. Shape(p)'
    BY <1>2, <1>4, <2>1 DEF PassOK, Shape, RowFor
  <2>4. Knows(p)'
    BY <1>2, <1>6, <2>1, <2>2 DEF PassOK, Knows
  <2>5. WhileOwner(p)'
    BY <1>2, <1>6, <2>1, <2>2 DEF PassOK, WhileOwner, RowFor
  <2> QED BY <1>3, <2>3, <2>4, <2>5 DEF PassOK
<1> QED BY <1>7, <1>8

(* Reading the master data: what is owed, and then tab after tab. *)
LEMMA TabsReadOK ==
  ASSUME TypeOK, TypeOK', EventsFollow, WorkbookFollows, NEW p \in Passes, PassOK(p),
         ReadFreshness(p) \/ \E m \in Tabs : ReadTab(p, m)
  PROVE  PassOK(p)'
<1>1. SharedTypes /\ LocalTypes
  BY TypesSplit
<1>2. /\ flight[p] = NoFlight /\ flight' = flight
      /\ UNCHANGED <<data, outbox, mutationRevision, dirtyTabs, cell, shown, lease, todo, event>>
  BY NotInFlight DEF ReadFreshness, ReadTab, store, workbook
<1>3. FlightFits(p)'
  BY <1>2, NothingFlies
<1>4. event[p].key = Master /\ Master \in Keys
  BY DEF ReadFreshness, ReadTab, PassOK, Shape, Keys
<1>5. pc'[p] \in {"snapshot", "tab"}
  BY <1>1 DEF ReadFreshness, ReadTab, Goto, LocalTypes
<1>6. OnMaster(p)' /\ ~OnTrip(p)'
  BY <1>2, <1>4, <1>5 DEF OnMaster, OnTrip
<1>7. CASE ReadFreshness(p)
  <2>1. /\ pc'[p] = "snapshot" /\ fresh'[p] = mutationRevision /\ rest'[p] = due'[p] /\ read' = read
        /\ due'[p] = IF dirtyTabs # {} THEN dirtyTabs ELSE event[p].tabs
    BY <1>1, <1>7 DEF ReadFreshness, Goto, LocalTypes
  <2>2. Shape(p)'
    BY <1>2, <1>4, <2>1 DEF PassOK, Shape
  <2>3. event[p].revision <= mutationRevision
    BY <1>4 DEF PassOK, Knows, EventsFollow
  <2>4. Fetched(p)' = {} /\ dirtyTabs' \subseteq due'[p]
    BY <1>2, <2>1 DEF Fetched
  <2>5. mutationRevision <= mutationRevision
    BY <1>1 DEF SharedTypes
  <2>6. Knows(p)'
    BY <1>2, <1>6, <2>1, <2>3, <2>4, <2>5 DEF PassOK, Knows
  <2>7. WhileOwner(p)'
    BY <1>6, <2>1, <2>4 DEF WhileOwner
  <2> QED BY <1>3, <2>2, <2>6, <2>7 DEF PassOK
<1>8. ASSUME NEW m \in Tabs, ReadTab(p, m) PROVE PassOK(p)'
  <2>1. /\ pc[p] = "snapshot" /\ m \in rest[p] /\ m \in due[p] /\ due' = due /\ fresh' = fresh
        /\ read'[p] = [read[p] EXCEPT ![m] = data[m]]
        /\ rest'[p] = IF rest[p] = {m} THEN due[p] ELSE rest[p] \ {m}
        /\ pc'[p] = IF rest[p] = {m} THEN "tab" ELSE "snapshot"
    BY <1>1, <1>8 DEF ReadTab, Goto, LocalTypes, PassOK, Shape
  <2>2. m \in Records /\ read[p] \in [Records -> Nat] /\ data \in [Records -> Nat]
    BY <1>1 DEF Records, LocalTypes, SharedTypes
  <2>3. /\ read'[p][m] = data[m]
        /\ \A k \in Records : k # m => read'[p][k] = read[p][k]
        /\ \A k \in Records : read'[p][k] <= data[k]
    BY <2>1, <2>2 DEF PassOK, Knows
  <2>4. Fetched(p) = due[p] \ rest[p] /\ Fetched(p)' = Fetched(p) \union {m} /\ Fetched(p)' \subseteq Tabs
    BY <1>1, <1>6, <2>1 DEF Fetched, PassOK, Shape, LocalTypes
  <2>5. OnMaster(p)
    BY <1>4, <2>1 DEF OnMaster
  <2>6. Shape(p)'
    BY <1>2, <1>4, <2>1 DEF PassOK, Shape
  <2>7. Knows(p)'
    BY <1>2, <1>6, <2>1, <2>3, <2>4, <2>5 DEF PassOK, Knows, Records
  <2>8. shown[m] <= data[m]
    BY DEF WorkbookFollows
  <2>9. pc'[p] = "tab" => due'[p] \ rest'[p] = {}
    BY <2>1
  <2>10. WhileOwner(p)'
    BY <1>2, <1>5, <1>6, <2>3, <2>4, <2>8, <2>9 DEF PassOK, WhileOwner, Records
  <2> QED BY <1>3, <2>6, <2>7, <2>10 DEF PassOK
<1> QED BY <1>7, <1>8

(* Marking the tabs and acknowledging the event. *)
LEMMA SettleOK ==
  ASSUME TypeOK, TypeOK', NEW p \in Passes, PassOK(p), Mark(p) \/ Ack(p)
  PROVE  PassOK(p)'
<1>1. SharedTypes /\ LocalTypes /\ SharedTypes'
  BY TypesSplit, TypesSplitNext
<1>2. /\ flight[p] = NoFlight /\ flight' = flight /\ UNCHANGED <<data, mutationRevision, cell, shown, lease>>
  BY NotInFlight DEF Mark, Ack, workbook
<1>3. FlightFits(p)'
  BY <1>2, NothingFlies
<1>4. CASE Ack(p)
  <2>1. /\ pc'[p] = "next" /\ event'[p] = NoEvent /\ read'[p] = [k \in Records |-> 0]
        /\ due'[p] = {} /\ rest'[p] = {} /\ todo' = todo
    BY <1>1, <1>4 DEF Ack, EndEvent, Goto, LocalTypes
  <2>2. \A k \in Keys : outbox'[k].revision = outbox[k].revision
    BY <1>1, <1>4 DEF Ack, SharedTypes, OutboxRecords
  <2>3. ~OnMaster(p)' /\ ~OnTrip(p)' /\ Fetched(p)' = {}
    BY <2>1 DEF OnMaster, OnTrip, Fetched
  <2>4. Shape(p)'
    BY <1>2, <2>1 DEF Shape
  <2>5. NoEvent.key \notin Keys
    BY NamesAssumption DEF NoEvent, Keys
  <2>6. \A e \in todo[p] : e.revision <= outbox'[e.key].revision
    BY <1>1, <2>2 DEF PassOK, Knows, LocalTypes, Events
  <2>7. Knows(p)'
    BY <1>1, <1>2, <2>1, <2>3, <2>5, <2>6 DEF Knows, SharedTypes
  <2>8. WhileOwner(p)'
    BY <2>1, <2>3 DEF WhileOwner
  <2> QED BY <1>3, <2>4, <2>7, <2>8 DEF PassOK
<1>5. CASE Mark(p)
  <2>1. CASE Leave(p, "closing")
    BY <1>2, <2>1, LeftOK
  <2>2. CASE mutationRevision = fresh[p] /\ dirtyTabs' = dirtyTabs \ due[p] /\ Goto(p, "ack") /\ UNCHANGED locals
    <3>1. pc[p] = "mark" /\ pc'[p] = "ack" /\ outbox' = outbox
      BY <1>1, <1>5, <2>2 DEF Mark, Goto, LocalTypes
    <3>2. event[p].key = Master /\ rest[p] = {} /\ Master \in Keys
      BY <3>1 DEF PassOK, Shape, Keys
    <3>3. OnMaster(p) /\ OnMaster(p)' /\ ~OnTrip(p)' /\ Fetched(p) = due[p] /\ Fetched(p)' = due[p]
      BY <2>2, <3>1, <3>2 DEF OnMaster, OnTrip, Fetched, locals
    <3>4. dirtyTabs' = {}
      BY <2>2, <3>1, <3>3 DEF PassOK, Knows
    <3>5. Shape(p)'
      BY <1>2, <2>2, <3>1, <3>2 DEF PassOK, Shape, locals
    <3>6. Knows(p)'
      BY <1>2, <2>2, <3>1, <3>3, <3>4 DEF PassOK, Knows, locals
    <3>7. WhileOwner(p)'
      BY <1>2, <2>2, <3>1, <3>3 DEF PassOK, WhileOwner, locals
    <3> QED BY <1>3, <3>5, <3>6, <3>7 DEF PassOK
  <2> QED BY <1>5, <2>1, <2>2 DEF Mark
<1> QED BY <1>4, <1>5

(* A request is sent under a lease that outlives it. *)
LEMMA SendOK ==
  ASSUME TypeOK, TypeOK', NEW p \in Passes, PassOK(p),
         SendTrip(p) \/ SendReport(p) \/ \E m \in Tabs : SendTab(p, m)
  PROVE  PassOK(p)'
<1>1. SharedTypes /\ LocalTypes /\ lease \in LeaseRecords /\ flight \in [Passes -> FlightRecords]
  BY TypesSplit
<1>2. flight[p] = NoFlight
  BY NotInFlight DEF SendTrip, SendReport, SendTab
<1>3. UNCHANGED <<data, outbox, dirtyTabs, mutationRevision, cell, shown, todo, event, read, row, fresh, due, rest>>
  BY DEF SendTrip, SendReport, SendTab, store, workbook, locals
<1>4. ASSUME NEW target, NEW r, Send(p, target, r)
      PROVE /\ lease.owner = p /\ lease'.owner = p /\ lease'.left > RequestLife /\ pc'[p] = "wait"
            /\ flight'[p] = [target |-> target, revision |-> read[p][target], row |-> r, ttl |-> RequestLife]
  <2>1. lease' = Renewed /\ Renewed.left > RenewBelow /\ Renewed.owner = lease.owner /\ Renewed.left \in Int
    BY <1>1, <1>4, RenewedLease, TimesAssumption DEF Send, LeaseRecords
  <2>2. lease'.left > RequestLife
    BY <2>1, TimesAssumption
  <2> QED BY <1>1, <1>4, <2>1, <2>2 DEF Send, Holds, Goto, LocalTypes
<1>5. CASE SendTrip(p)
  <2> DEFINE t == event[p].key
  <2>1. /\ lease.owner = p /\ lease'.owner = p /\ lease'.left > RequestLife /\ pc'[p] = "wait"
        /\ flight'[p] = [target |-> t, revision |-> read[p][t], row |-> row[p], ttl |-> RequestLife]
        /\ pc[p] = "row"
    BY <1>4, <1>5 DEF SendTrip
  <2>2. t \in Trips /\ t # Master /\ t \in Keys /\ t \in Records /\ t \notin Tabs
    BY <2>1, NamesAssumption DEF PassOK, Shape, Keys, Records
  <2>3. ~OnMaster(p)' /\ OnTrip(p) /\ OnTrip(p)' /\ Fetched(p)' = {}
    BY <1>3, <2>1, <2>2 DEF OnMaster, OnTrip, Fetched
  <2>4. Shape(p)'
    BY <1>3, <2>1, <2>2 DEF PassOK, Shape, Records
  <2>5. Knows(p)'
    BY <1>3, <2>3 DEF PassOK, Knows
  <2>6. WhileOwner(p)'
    BY <1>3, <2>1, <2>3 DEF PassOK, WhileOwner
  <2>7. read[p][t] <= data[t]
    BY <2>2 DEF PassOK, Knows
  <2>8. FlightFits(p)'
    BY <1>3, <2>1, <2>2, <2>3, <2>7 DEF PassOK, WhileOwner, FlightFits, RowFor
  <2> QED BY <2>4, <2>5, <2>6, <2>8 DEF PassOK
<1>6. ASSUME NEW m \in Tabs, SendTab(p, m) PROVE PassOK(p)'
  <2>1. /\ lease.owner = p /\ lease'.owner = p /\ lease'.left > RequestLife /\ pc'[p] = "wait"
        /\ flight'[p] = [target |-> m, revision |-> read[p][m], row |-> 0, ttl |-> RequestLife]
        /\ pc[p] = "tab" /\ m \in rest[p] /\ m \in due[p]
    BY <1>4, <1>6 DEF SendTab, PassOK, Shape
  <2>2. m \in Records /\ m \notin Trips /\ event[p].key = Master /\ Master \in Keys
    BY <2>1, NamesAssumption DEF PassOK, Shape, Keys, Records
  <2>3. OnMaster(p) /\ OnMaster(p)' /\ ~OnTrip(p)' /\ Fetched(p) = due[p] /\ Fetched(p)' = due[p]
    BY <1>3, <2>1, <2>2 DEF OnMaster, OnTrip, Fetched
  <2>4. Shape(p)'
    BY <1>3, <2>1, <2>2 DEF PassOK, Shape, Records
  <2>5. Knows(p)'
    BY <1>3, <2>1, <2>3 DEF PassOK, Knows
  <2>6. WhileOwner(p)'
    BY <1>3, <2>1, <2>3 DEF PassOK, WhileOwner
  <2>7. read[p][m] <= data[m] /\ shown[m] <= read[p][m]
    BY <2>1, <2>2, <2>3 DEF PassOK, Knows, WhileOwner
  <2>8. FlightFits(p)'
    BY <1>3, <2>1, <2>2, <2>7 DEF FlightFits
  <2> QED BY <2>4, <2>5, <2>6, <2>8 DEF PassOK
<1>7. CASE SendReport(p)
  <2>1. pc[p] = "report" /\ pc'[p] = "answer" /\ flight'[p].target = Report /\ lease' = lease
    BY <1>1, <1>7 DEF SendReport, Goto, LocalTypes
  <2>2. ~OnMaster(p)' /\ ~OnTrip(p)' /\ Fetched(p)' = {}
    BY <2>1 DEF OnMaster, OnTrip, Fetched
  <2>3. Shape(p)'
    BY <1>3, <2>1 DEF PassOK, Shape
  <2>4. Knows(p)'
    BY <1>3, <2>2 DEF PassOK, Knows
  <2>5. WhileOwner(p)'
    BY <2>1, <2>2 DEF WhileOwner
  <2>6. FlightFits(p)'
    BY <2>1, NamesAssumption DEF FlightFits, Records
  <2> QED BY <2>3, <2>4, <2>5, <2>6 DEF PassOK
<1> QED BY <1>5, <1>6, <1>7


-----------------------------------------------------------------------------
\* What the workbook shows

ShownTripIsItsRow ==
  \A t \in Trips : /\ \A r \in Rows : cell[r].trip = t => ShownTrip(t) = cell[r].revision
                   /\ (\A r \in Rows : cell[r].trip # t) => ShownTrip(t) = 0

(* With one row for each trip, the workbook shows a trip as its row says. *)
LEMMA OneRowShown == OneRowPerTrip => ShownTripIsItsRow
<1> SUFFICES ASSUME OneRowPerTrip, NEW t \in Trips
             PROVE  /\ \A r \in Rows : cell[r].trip = t => ShownTrip(t) = cell[r].revision
                    /\ (\A r \in Rows : cell[r].trip # t) => ShownTrip(t) = 0
  BY DEF ShownTripIsItsRow
<1>1. ASSUME NEW r \in Rows, cell[r].trip = t PROVE ShownTrip(t) = cell[r].revision
  <2> DEFINE chosen == CHOOSE q \in Rows : cell[q].trip = t
  <2>1. chosen \in Rows /\ cell[chosen].trip = t
    BY <1>1
  <2>2. ShownTrip(t) = cell[chosen].revision
    BY <1>1 DEF ShownTrip
  <2> HIDE DEF chosen
  <2>3. chosen = r
    BY <1>1, <2>1, NamesAssumption DEF OneRowPerTrip
  <2> QED BY <2>2, <2>3
<1>2. (\A r \in Rows : cell[r].trip # t) => ShownTrip(t) = 0
  BY DEF ShownTrip
<1> QED BY <1>1, <1>2

\* A revision of a trip is written to a row.
Write(t, r, v) == cell' = [cell EXCEPT ![r] = [trip |-> t, revision |-> v]]

\* What is then true of the rows.
Written(t, r, v) ==
  /\ r \in Rows /\ cell'[r] = [trip |-> t, revision |-> v]
  /\ cell[r].trip \in {t, None}
  /\ \A q \in Rows : q # r => cell'[q] = cell[q] /\ cell[q].trip # t

(* A trip is written to its own row or to one that is empty, and has no other. *)
LEMMA RowWritten ==
  ASSUME SharedTypes, OneRowPerTrip,
         NEW t \in Trips, NEW r \in RowFor(t), NEW v \in Nat, Write(t, r, v)
  PROVE  Written(t, r, v) /\ OneRowPerTrip'
<1>1. r \in Rows /\ cell'[r] = [trip |-> t, revision |-> v] /\ \A q \in Rows : q # r => cell'[q] = cell[q]
  BY DEF RowFor, SharedTypes, Write
<1>2. r <= r
  BY <1>1, CapacityAssumption DEF Rows
<1>3. cell[r].trip \in {t, None}
  BY <1>1, <1>2 DEF RowFor, EmptyCell
<1>4. \A q \in Rows : q # r => cell[q].trip # t
  BY <1>1, NamesAssumption DEF RowFor, OneRowPerTrip
<1>5. OneRowPerTrip'
  BY <1>1, <1>4 DEF OneRowPerTrip
<1> QED BY <1>1, <1>3, <1>4, <1>5 DEF Written

(* What the answer of a request tells its pass. *)
LEMMA LandOK ==
  ASSUME TypeOK, TypeOK', OneRowPerTrip, NEW p \in Passes, PassOK(p), Land(p)
  PROVE  PassOK(p)'
<1>1. SharedTypes /\ LocalTypes /\ flight \in [Passes -> FlightRecords]
  BY TypesSplit
<1>2. /\ flight[p] # NoFlight /\ flight'[p] = NoFlight
      /\ UNCHANGED <<data, outbox, dirtyTabs, mutationRevision, lease>> /\ Apply(flight[p])
  BY <1>1 DEF Land, store
<1>3. FlightFits(p)'
  BY <1>2, NothingFlies
<1>4. CASE Fail(p)
  BY <1>2, <1>4, LeftOK DEF Fail
<1>5. CASE pc[p] = "idle" /\ UNCHANGED <<pc, locals>>
  <2>1. Shape(p)' /\ Knows(p)'
    BY <1>2, <1>5 DEF PassOK, Shape, Knows, OnMaster, OnTrip, Fetched, locals
  <2>2. WhileOwner(p)'
    BY <1>5 DEF WhileOwner, OnMaster, OnTrip, Fetched
  <2> QED BY <1>3, <2>1, <2>2 DEF PassOK
<1>6. CASE /\ pc[p] \in {"wait", "answer"} /\ Goto(p, Answered(p))
           /\ rest' = [rest EXCEPT ![p] = @ \ {flight[p].target}]
           /\ UNCHANGED <<todo, event, read, row, fresh, due>>
  <2> DEFINE target == flight[p].target
  <2>1. pc'[p] = Answered(p) /\ rest'[p] = rest[p] \ {target}
    BY <1>1, <1>6 DEF Goto, LocalTypes
  <2>2. CASE pc[p] = "answer"
    <3>1. target = Report /\ target \notin Trips /\ target \notin Tabs
      BY <2>2, NamesAssumption DEF PassOK, Shape
    <3>2. pc'[p] = "reported"
      BY <2>1, <3>1 DEF Answered
    <3>3. ~OnMaster(p)' /\ ~OnTrip(p)' /\ Fetched(p)' = {}
      BY <3>2 DEF OnMaster, OnTrip, Fetched
    <3>4. Shape(p)'
      BY <1>2, <1>6, <2>1, <3>2 DEF PassOK, Shape
    <3>5. Knows(p)'
      BY <1>2, <1>6, <3>3 DEF PassOK, Knows
    <3>6. WhileOwner(p)'
      BY <3>2, <3>3 DEF WhileOwner
    <3> QED BY <1>3, <3>4, <3>5, <3>6 DEF PassOK
  <2>3. CASE pc[p] = "wait" /\ event[p].key # Master
    <3>1. /\ target = event[p].key /\ target \in Trips /\ target \in Keys /\ target \notin Tabs
          /\ flight[p].revision = read[p][target]
      BY <2>3, NamesAssumption DEF PassOK, Shape, Keys
    <3>2. pc'[p] = "ack"
      BY <2>1, <3>1 DEF Answered
    <3>3. ~OnMaster(p)' /\ OnTrip(p) /\ OnTrip(p)' /\ Fetched(p)' = {}
      BY <1>6, <2>3, <3>2 DEF OnMaster, OnTrip, Fetched
    <3>4. Shape(p)'
      BY <1>2, <1>6, <2>1, <3>1, <3>2 DEF PassOK, Shape
    <3>5. Knows(p)'
      BY <1>2, <1>6, <3>3 DEF PassOK, Knows
    <3>6. flight[p].row \in RowFor(target) /\ flight[p].revision \in Nat
      BY <1>1, <3>1 DEF PassOK, FlightFits, FlightRecords
    <3>7. Write(target, flight[p].row, flight[p].revision)
      BY <1>2, <3>1 DEF Apply, Write
    <3>8. Written(target, flight[p].row, flight[p].revision)
      BY <1>1, <3>1, <3>6, <3>7, RowWritten
    <3>9. WhileOwner(p)'
      BY <1>6, <3>1, <3>2, <3>3, <3>6, <3>8 DEF WhileOwner, Written
    <3> QED BY <1>3, <3>4, <3>5, <3>9 DEF PassOK
  <2>4. CASE pc[p] = "wait" /\ event[p].key = Master
    <3>1. /\ target \in rest[p] /\ target \in due[p] /\ target \in Tabs /\ target \notin Trips
          /\ flight[p].revision = read[p][target] /\ target \in Records
      BY <1>1, <2>4, NamesAssumption DEF PassOK, Shape, Keys, LocalTypes, Records
    <3>2. pc'[p] = IF rest[p] = {target} THEN "mark" ELSE "tab"
      BY <2>1, <3>1 DEF Answered
    <3>3. OnMaster(p) /\ OnMaster(p)' /\ ~OnTrip(p)' /\ Fetched(p) = due[p] /\ Fetched(p)' = due[p]
      BY <1>6, <2>4, <3>2 DEF OnMaster, OnTrip, Fetched
    <3>4. Shape(p)'
      BY <1>2, <1>6, <2>1, <2>4, <3>2 DEF PassOK, Shape
    <3>5. Knows(p)'
      BY <1>2, <1>6, <2>4, <3>2, <3>3 DEF PassOK, Knows
    <3>6. shown'[target] = read[p][target] /\ \A m \in Tabs : m # target => shown'[m] = shown[m]
      BY <1>1, <1>2, <3>1 DEF Apply, SharedTypes
    <3>7. due[p] \subseteq Tabs /\ read[p][target] <= read[p][target]
      BY <1>1, <3>1 DEF LocalTypes
    <3>8. WhileOwner(p)'
      BY <1>2, <1>6, <2>1, <2>4, <3>2, <3>3, <3>6, <3>7 DEF PassOK, WhileOwner
    <3> QED BY <1>3, <3>4, <3>5, <3>8 DEF PassOK
  <2> QED BY <1>6, <2>2, <2>3, <2>4
<1> QED BY <1>4, <1>5, <1>6 DEF Land


-----------------------------------------------------------------------------
\* The documents

(* A step that touches neither the store nor the workbook. *)
LEMMA DocumentsKept ==
  ASSUME TypeOK, Documents, UNCHANGED <<store, workbook>>
  PROVE  Documents' /\ StoreGrows
<1>1. Documents'
  BY DEF Documents, EventsFollow, WorkbookFollows, DirtyTabIsQueued, DeliveredIsShown, OneRowPerTrip,
         ShownTrip, store, workbook
<1>2. SharedTypes
  BY TypesSplit
<1>3. StoreGrows
  BY <1>2 DEF SharedTypes, OutboxRecords, StoreGrows, store
<1> QED BY <1>1, <1>3

(* A canonical change is queued with it. *)
LEMMA ChangeDocuments ==
  ASSUME TypeOK, TypeOK', Documents,
         \/ \E t \in Trips : CommitTrip(t)
         \/ \E T \in SUBSET Tabs : ChangeMaster(T)
  PROVE  Documents' /\ StoreGrows
<1>1. SharedTypes /\ SharedTypes'
  BY TypesSplit, TypesSplitNext
<1>2. UNCHANGED <<cell, shown>>
  BY DEF CommitTrip, ChangeMaster, workbook
<1>3. OneRowPerTrip' /\ \A t \in Trips : ShownTrip(t)' = ShownTrip(t)
  BY <1>2 DEF Documents, OneRowPerTrip, ShownTrip
<1>4. \A k \in Records : data[k] \in Nat /\ data'[k] \in Nat
  BY <1>1 DEF SharedTypes
<1>5. \A k \in Keys : outbox[k].revision \in Nat
  BY <1>1 DEF SharedTypes, OutboxRecords
<1>6. cell \in [Rows -> [trip : Trips \union {None}, revision : Nat]] /\ shown \in [Tabs -> Nat]
  BY <1>1 DEF SharedTypes
<1>7. ASSUME NEW t \in Trips, CommitTrip(t) PROVE Documents' /\ StoreGrows
  <2>1. t \in Records /\ t \in Keys /\ t # Master /\ t \notin Tabs
    BY NamesAssumption DEF Records, Keys
  <2>2. /\ data'[t] = data[t] + 1 /\ \A k \in Records : k # t => data'[k] = data[k]
        /\ outbox'[t] = [revision |-> outbox[t].revision + 1, tabs |-> {}, status |-> "PENDING"]
        /\ \A k \in Keys : k # t => outbox'[k] = outbox[k]
        /\ UNCHANGED <<dirtyTabs, mutationRevision>>
    BY <1>1, <1>7, <2>1 DEF CommitTrip, SharedTypes
  <2>3. \A m \in Tabs : m \in Records /\ m # t
    BY <2>1 DEF Records
  <2>4. \A u \in Trips : u \in Records /\ u \in Keys
    BY DEF Records, Keys
  <2>5. Master \in Keys
    BY DEF Keys
  <2>6. EventsFollow'
    BY <2>1, <2>2, <2>4, <2>5 DEF Documents, EventsFollow
  <2>7. WorkbookFollows'
    <3>1. \A r \in Rows : cell[r].trip \in Trips => cell[r].revision <= data'[cell[r].trip]
      BY <1>4, <1>6, <2>2, <2>4 DEF Documents, WorkbookFollows
    <3> QED BY <1>2, <2>2, <2>3, <3>1 DEF Documents, WorkbookFollows
  <2>8. DirtyTabIsQueued'
    BY <2>1, <2>2, <2>5 DEF Documents, DirtyTabIsQueued
  <2>9. DeliveredIsShown'
    BY <1>3, <2>2, <2>4 DEF Documents, DeliveredIsShown
  <2>10. StoreGrows
    BY <1>1, <1>4, <1>5, <2>1, <2>2, <2>3 DEF StoreGrows, SharedTypes
  <2> QED BY <1>3, <2>6, <2>7, <2>8, <2>9, <2>10 DEF Documents
<1>8. ASSUME NEW T \in SUBSET Tabs, ChangeMaster(T) PROVE Documents' /\ StoreGrows
  <2>1. Master \in Keys /\ \A t \in Trips : t \in Keys /\ t # Master /\ t \in Records /\ t \notin T
    BY NamesAssumption DEF Keys, Records
  <2>2. /\ \A k \in Records : data'[k] = IF k \in T THEN data[k] + 1 ELSE data[k]
        /\ outbox'[Master] = [revision |-> mutationRevision', tabs |-> dirtyTabs', status |-> "PENDING"]
        /\ \A k \in Keys : k # Master => outbox'[k] = outbox[k]
        /\ dirtyTabs' = dirtyTabs \union T /\ mutationRevision' = mutationRevision + 1
    BY <1>1, <1>8, <2>1 DEF ChangeMaster, SharedTypes
  <2>3. Tabs \subseteq Records
    BY DEF Records
  <2>4. mutationRevision \in Nat
    BY <1>1 DEF SharedTypes
  <2>5. EventsFollow'
    BY <2>1, <2>2 DEF Documents, EventsFollow
  <2>6. WorkbookFollows'
    <3>1. \A r \in Rows : cell[r].trip \in Trips => cell[r].revision <= data'[cell[r].trip]
      BY <2>1, <2>2 DEF Documents, WorkbookFollows
    <3>2. \A m \in Tabs : shown[m] <= data'[m]
      BY <1>4, <1>6, <2>2, <2>3 DEF Documents, WorkbookFollows
    <3> QED BY <1>2, <2>2, <2>3, <3>1, <3>2 DEF Documents, WorkbookFollows
  <2>7. DirtyTabIsQueued'
    BY <2>2 DEF DirtyTabIsQueued
  <2>8. DeliveredIsShown'
    BY <1>3, <2>1, <2>2 DEF Documents, DeliveredIsShown
  <2>9. StoreGrows
    <3>1. \A k \in Records : data[k] <= data'[k]
      BY <1>4, <2>2
    <3>2. \A k \in Keys : outbox[k].revision <= outbox'[k].revision
      BY <1>5, <2>1, <2>2, <2>4 DEF Documents, EventsFollow
    <3> QED BY <2>2, <2>4, <3>1, <3>2 DEF StoreGrows
  <2> QED BY <1>3, <2>5, <2>6, <2>7, <2>8, <2>9 DEF Documents
<1> QED BY <1>7, <1>8

(* A claim writes the event of the dirty tabs again; it keeps its revision. *)
LEMMA ClaimDocuments ==
  ASSUME TypeOK, Documents, NEW p \in Passes, Claim(p)
  PROVE  Documents' /\ StoreGrows
<1>1. SharedTypes
  BY TypesSplit
<1>2. UNCHANGED <<data, dirtyTabs, mutationRevision, cell, shown>>
  BY DEF Claim, workbook
<1>3. Master \in Keys /\ \A t \in Trips : t \in Keys /\ t # Master
  BY NamesAssumption DEF Keys
<1>4. /\ \A k \in Keys : outbox'[k].revision = outbox[k].revision
      /\ \A t \in Trips : outbox'[t] = outbox[t]
      /\ dirtyTabs # {} => outbox'[Master].status = "PENDING"
  BY <1>1, <1>3 DEF Claim, Documents, EventsFollow, SharedTypes
<1>5. Documents'
  BY <1>2, <1>3, <1>4 DEF Documents, EventsFollow, WorkbookFollows, DirtyTabIsQueued, DeliveredIsShown,
                          OneRowPerTrip, ShownTrip
<1>6. StoreGrows
  BY <1>1, <1>2, <1>4 DEF StoreGrows, SharedTypes, OutboxRecords
<1> QED BY <1>5, <1>6

(* A tab is marked, and an event acknowledged, for what the workbook shows. *)
LEMMA SettleDocuments ==
  ASSUME TypeOK, Documents, NEW p \in Passes, PassOK(p), Mark(p) \/ Ack(p)
  PROVE  Documents' /\ StoreGrows
<1>1. SharedTypes /\ LocalTypes
  BY TypesSplit
<1>2. UNCHANGED <<data, mutationRevision, cell, shown>> /\ lease.owner = p
  BY DEF Mark, Ack, workbook, Holds
<1>3. OneRowPerTrip' /\ \A t \in Trips : ShownTrip(t)' = ShownTrip(t)
  BY <1>2 DEF Documents, OneRowPerTrip, ShownTrip
<1>4. Master \in Keys /\ \A t \in Trips : t \in Keys /\ t # Master /\ t \in Records
  BY NamesAssumption DEF Keys, Records
<1>5. CASE Mark(p)
  <2>1. outbox' = outbox /\ dirtyTabs' \subseteq dirtyTabs
    BY <1>5 DEF Mark
  <2>2. ASSUME NEW m \in Tabs \ dirtyTabs' PROVE shown[m] = data[m]
    <3>1. CASE m \notin dirtyTabs
      BY <3>1 DEF Documents, WorkbookFollows
    <3>2. CASE m \in dirtyTabs
      <4>1. m \in due[p] /\ mutationRevision = fresh[p] /\ pc[p] = "mark"
        BY <1>5, <2>2, <3>2 DEF Mark
      <4>2. OnMaster(p) /\ rest[p] = {} /\ Fetched(p) = due[p]
        BY <4>1 DEF PassOK, Shape, OnMaster, Fetched
      <4>3. shown[m] = read[p][m]
        BY <1>2, <4>1, <4>2 DEF PassOK, WhileOwner
      <4>4. read[p][m] = data[m]
        BY <4>1, <4>2 DEF PassOK, Knows
      <4> QED BY <4>3, <4>4
    <3> QED BY <3>1, <3>2
  <2>3. WorkbookFollows'
    BY <1>2, <2>2 DEF Documents, WorkbookFollows
  <2>4. EventsFollow' /\ DirtyTabIsQueued' /\ DeliveredIsShown'
    BY <1>2, <1>3, <2>1 DEF Documents, EventsFollow, DirtyTabIsQueued, DeliveredIsShown
  <2>5. StoreGrows
    BY <1>1, <1>2, <2>1 DEF StoreGrows, SharedTypes, OutboxRecords
  <2> QED BY <1>3, <2>3, <2>4, <2>5 DEF Documents
<1>6. CASE Ack(p)
  <2> DEFINE k == event[p].key
  <2>1. dirtyTabs' = dirtyTabs /\ pc[p] = "ack" /\ k \in Keys
    BY <1>6 DEF Ack, PassOK, Shape
  <2>2. CASE outbox' = outbox
    <3>1. EventsFollow' /\ DirtyTabIsQueued' /\ DeliveredIsShown' /\ WorkbookFollows'
      BY <1>2, <1>3, <2>1, <2>2
         DEF Documents, EventsFollow, DirtyTabIsQueued, DeliveredIsShown, WorkbookFollows
    <3>2. StoreGrows
      BY <1>1, <1>2, <2>1, <2>2 DEF StoreGrows, SharedTypes, OutboxRecords
    <3> QED BY <1>3, <3>1, <3>2 DEF Documents
  <2>3. CASE outbox[k].revision = event[p].revision /\ outbox' = [outbox EXCEPT ![k].status = "DELIVERED"]
    <3>1. /\ \A j \in Keys : outbox'[j].revision = outbox[j].revision
          /\ \A j \in Keys : j # k => outbox'[j] = outbox[j]
      BY <1>1, <2>1, <2>3 DEF SharedTypes, OutboxRecords
    <3>2. EventsFollow' /\ WorkbookFollows'
      BY <1>2, <1>4, <2>1, <3>1 DEF Documents, EventsFollow, WorkbookFollows
    <3>3. StoreGrows
      BY <1>1, <1>2, <2>1, <3>1 DEF StoreGrows, SharedTypes, OutboxRecords
    <3>4. CASE k = Master
      <4>1. OnMaster(p) /\ event[p].revision = mutationRevision
        BY <2>1, <2>3, <3>4 DEF OnMaster, Documents, EventsFollow
      <4>2. fresh[p] = mutationRevision
        <5>1. event[p].revision <= fresh[p] /\ fresh[p] <= mutationRevision
          BY <4>1 DEF PassOK, Knows
        <5>2. fresh[p] \in Nat /\ mutationRevision \in Nat
          BY <1>1 DEF LocalTypes, SharedTypes
        <5> QED BY <4>1, <5>1, <5>2
      <4>3. dirtyTabs = {}
        BY <2>1, <4>1, <4>2 DEF PassOK, Knows
      <4>4. DirtyTabIsQueued' /\ DeliveredIsShown'
        BY <1>2, <1>3, <1>4, <2>1, <3>1, <3>4, <4>3 DEF Documents, DirtyTabIsQueued, DeliveredIsShown
      <4> QED BY <1>3, <3>2, <3>3, <4>4 DEF Documents
    <3>5. CASE k # Master
      <4>1. k \in Trips /\ k \in Records /\ OnTrip(p)
        BY <1>4, <2>1, <3>5 DEF Keys, OnTrip
      <4>2. event[p].revision <= read[p][k] /\ read[p][k] <= data[k] /\ event[p].revision = data[k]
        BY <2>3, <4>1 DEF PassOK, Knows, Documents, EventsFollow
      <4>3. read[p][k] \in Nat /\ data[k] \in Nat
        BY <1>1, <4>1 DEF LocalTypes, SharedTypes
      <4>4. read[p][k] = data[k]
        BY <4>2, <4>3
      <4>5. PICK r \in Rows : cell[r] = [trip |-> k, revision |-> read[p][k]]
        BY <1>2, <2>1, <4>1 DEF PassOK, WhileOwner
      <4>6. ShownTrip(k) = data[k]
        BY <4>1, <4>4, <4>5, OneRowShown DEF Documents, ShownTripIsItsRow
      <4>7. DirtyTabIsQueued' /\ DeliveredIsShown'
        BY <1>2, <1>3, <1>4, <2>1, <3>1, <3>5, <4>6 DEF Documents, DirtyTabIsQueued, DeliveredIsShown
      <4> QED BY <1>3, <3>2, <3>3, <4>7 DEF Documents
    <3> QED BY <3>4, <3>5
  <2> QED BY <1>6, <2>2, <2>3 DEF Ack
<1> QED BY <1>5, <1>6

\* The workbook moves forward, one record at a time, to revisions that were committed.
WorkbookMoves ==
  /\ \A m \in Tabs : shown'[m] # shown[m] =>
       /\ shown[m] <= shown'[m] /\ shown'[m] <= data[m]
       /\ UNCHANGED cell
       /\ \A n \in Tabs : n # m => shown'[n] = shown[n]
  /\ \A t \in Trips : ShownTrip(t)' # ShownTrip(t) =>
       /\ ShownTrip(t) <= ShownTrip(t)' /\ ShownTrip(t)' <= data[t]
       /\ UNCHANGED shown
       /\ \A u \in Trips : u # t => ShownTrip(u)' = ShownTrip(u)
  /\ \A r \in Rows : cell[r].trip # None => cell'[r].trip = cell[r].trip

(* A request that takes effect moves the workbook forward. *)
LEMMA LandDocuments ==
  ASSUME TypeOK, Documents, NEW p \in Passes, PassOK(p), Land(p)
  PROVE  Documents' /\ StoreGrows /\ WorkbookMoves
<1>1. SharedTypes /\ LocalTypes /\ flight \in [Passes -> FlightRecords]
  BY TypesSplit
<1> DEFINE target == flight[p].target
           v == flight[p].revision
<1>2. UNCHANGED <<data, outbox, mutationRevision, dirtyTabs>> /\ Apply(flight[p]) /\ v \in Nat
  BY <1>1 DEF Land, store, FlightRecords
<1>3. OneRowPerTrip
  BY DEF Documents
<1>4. ShownTripIsItsRow
  BY <1>3, OneRowShown
<1>5. StoreGrows
  BY <1>1, <1>2 DEF StoreGrows, SharedTypes, OutboxRecords
<1>6. EventsFollow' /\ DirtyTabIsQueued'
  BY <1>2 DEF Documents, EventsFollow, DirtyTabIsQueued
<1>7. CASE target \in Trips
  <2>1. PICK t \in Trips : t = target
    BY <1>7
  <2>2. t \notin Tabs /\ t \in Records
    BY <2>1, NamesAssumption DEF Records
  <2>3. Write(t, flight[p].row, v) /\ shown' = shown
    BY <1>2, <2>1, <2>2 DEF Apply, Write
  <2>4. /\ flight[p].row \in RowFor(t) /\ v <= data[t]
        /\ \A r \in Rows : cell[r].trip = t => cell[r].revision <= v
    BY <2>1, <2>2 DEF PassOK, FlightFits
  <2>5. Written(t, flight[p].row, v) /\ OneRowPerTrip'
    BY <1>1, <1>2, <1>3, <2>1, <2>3, <2>4, RowWritten
  <2>6. ShownTripIsItsRow'
    BY <2>5, OneRowShown, PTL
  <2>7. ShownTrip(t)' = v
    BY <2>1, <2>5, <2>6 DEF Written, ShownTripIsItsRow
  <2>8. ASSUME NEW u \in Trips, u # t PROVE ShownTrip(u)' = ShownTrip(u)
    <3>1. CASE \E q \in Rows : cell[q].trip = u
      <4>1. PICK q \in Rows : cell[q].trip = u
        BY <3>1
      <4>2. cell'[q] = cell[q]
        BY <2>5, <2>8, <4>1, NamesAssumption DEF Written
      <4>3. ShownTrip(u) = cell[q].revision
        BY <1>4, <4>1 DEF ShownTripIsItsRow
      <4>4. ShownTrip(u)' = cell'[q].revision
        BY <2>6, <4>1, <4>2 DEF ShownTripIsItsRow
      <4> QED BY <4>2, <4>3, <4>4
    <3>2. CASE \A q \in Rows : cell[q].trip # u
      <4>1. \A q \in Rows : cell'[q].trip # u
        BY <2>5, <2>8, <3>2 DEF Written
      <4>2. ShownTrip(u)' = 0
        BY <2>6, <4>1 DEF ShownTripIsItsRow
      <4>3. ShownTrip(u) = 0
        BY <1>4, <3>2 DEF ShownTripIsItsRow
      <4> QED BY <4>2, <4>3
    <3> QED BY <3>1, <3>2
  <2>9. ShownTrip(t) <= v
    BY <1>2, <1>4, <2>1, <2>4 DEF ShownTripIsItsRow
  <2>10. WorkbookMoves
    BY <1>2, <2>1, <2>3, <2>4, <2>5, <2>7, <2>8, <2>9 DEF WorkbookMoves, Written
  <2>11. WorkbookFollows'
    <3>1. \A r \in Rows : cell'[r].trip \in Trips => cell'[r].revision <= data[cell'[r].trip]
      BY <2>4, <2>5 DEF Documents, WorkbookFollows, Written
    <3> QED BY <1>2, <2>3, <3>1 DEF Documents, WorkbookFollows
  <2>12. outbox[t].status = "DELIVERED" => ShownTrip(t)' = data[t]
    <3>1. v \in Nat /\ data[t] \in Nat
      BY <1>1, <1>2, <2>2 DEF SharedTypes
    <3> QED BY <2>1, <2>4, <2>7, <2>9, <3>1 DEF Documents, DeliveredIsShown
  <2>13. DeliveredIsShown'
    BY <1>2, <2>8, <2>12 DEF Documents, DeliveredIsShown
  <2> QED BY <1>5, <1>6, <2>5, <2>10, <2>11, <2>13 DEF Documents
<1>8. CASE target \in Tabs
  <2>1. target \notin Trips /\ target \in Records
    BY <1>8, NamesAssumption DEF Records
  <2>2. cell' = cell /\ shown'[target] = v /\ \A m \in Tabs : m # target => shown'[m] = shown[m]
    BY <1>1, <1>2, <1>8, <2>1 DEF Apply, SharedTypes
  <2>3. v <= data[target] /\ shown[target] <= v
    BY <1>8, <2>1 DEF PassOK, FlightFits
  <2>4. OneRowPerTrip' /\ \A t \in Trips : ShownTrip(t)' = ShownTrip(t)
    BY <2>2 DEF Documents, OneRowPerTrip, ShownTrip
  <2>5. WorkbookMoves
    BY <2>2, <2>3, <2>4 DEF WorkbookMoves
  <2>6. shown[target] = data[target] => v = data[target]
    <3>1. v \in Nat /\ data[target] \in Nat
      BY <1>1, <1>2, <2>1 DEF SharedTypes
    <3> QED BY <2>3, <3>1
  <2>7. WorkbookFollows'
    BY <1>2, <2>2, <2>3, <2>6 DEF Documents, WorkbookFollows
  <2>8. DeliveredIsShown'
    BY <1>2, <2>4 DEF Documents, DeliveredIsShown
  <2> QED BY <1>5, <1>6, <2>4, <2>5, <2>7, <2>8 DEF Documents
<1>9. CASE target \notin Trips /\ target \notin Tabs
  <2>1. UNCHANGED <<store, workbook>>
    BY <1>2, <1>9 DEF Apply, store, workbook
  <2>2. Documents'
    BY <2>1, DocumentsKept
  <2>3. WorkbookMoves
    BY <2>1 DEF WorkbookMoves, ShownTrip, workbook
  <2> QED BY <1>5, <2>2, <2>3
<1> QED BY <1>7, <1>8, <1>9


-----------------------------------------------------------------------------
\* The other passes

\* A step of pass p is not one of pass q.
Apart(p, q) ==
  /\ pc'[q] = pc[q] /\ todo'[q] = todo[q] /\ event'[q] = event[q] /\ read'[q] = read[q]
  /\ row'[q] = row[q] /\ fresh'[q] = fresh[q] /\ due'[q] = due[q] /\ rest'[q] = rest[q]
  /\ flight'[q] = flight[q]

\* What a step of pass p does to the lease: it is kept or renewed by its owner, given up by
\* its owner, or taken when it has expired.
LeaseStep(p) ==
  \/ lease' = lease
  \/ lease.owner = p
  \/ lease.left = 0 /\ lease'.owner = p

\* The steps of pass p.
StepOf(p) == StartPass(p) \/ StartRefresh(p) \/ Heartbeat(p) \/ Deliver(p)
             \/ Land(p) \/ Reject(p) \/ Abort(p) \/ Crash(p)

(* The passes keep their memory to themselves. *)
LEMMA StepApart ==
  ASSUME TypeOK, NEW p \in Passes, StepOf(p), NEW q \in Passes \ {p}
  PROVE  Apart(p, q)
<1>1. LocalTypes /\ flight \in [Passes -> FlightRecords]
  BY TypesSplit
<1> USE <1>1 DEF LocalTypes, Apart, locals, Goto, Leave, EndEvent, Fail
<1>2. CASE StartPass(p) \/ StartRefresh(p)
  BY <1>2 DEF StartPass, StartRefresh, Claim
<1>3. CASE Heartbeat(p) \/ Release(p)
  BY <1>3 DEF Heartbeat, Release
<1>4. CASE Query(p) \/ Take(p) \/ Drained(p)
  BY <1>4 DEF Query, Take, Drained
<1>5. CASE ReadTrip(p) \/ ReadRows(p) \/ ReadFreshness(p)
  BY <1>5 DEF ReadTrip, ReadRows, ReadFreshness
<1>6. CASE \E m \in Tabs : ReadTab(p, m)
  BY <1>6 DEF ReadTab
<1>7. CASE SendTrip(p) \/ SendReport(p) \/ \E m \in Tabs : SendTab(p, m)
  BY <1>7 DEF SendTrip, SendReport, SendTab, Send
<1>8. CASE Mark(p) \/ Ack(p) \/ FencedOff(p)
  BY <1>8 DEF Mark, Ack, FencedOff
<1>9. CASE Land(p)
  BY <1>9 DEF Land
<1>10. CASE Reject(p) \/ Abort(p) \/ Crash(p)
  BY <1>10 DEF Reject, Abort, Crash
<1> QED BY <1>2, <1>3, <1>4, <1>5, <1>6, <1>7, <1>8, <1>9, <1>10 DEF StepOf, Deliver

(* Nobody takes a lease that has not expired, and nobody else gives it up. *)
LEMMA StepLease ==
  ASSUME TypeOK, NEW p \in Passes, StepOf(p)
  PROVE  LeaseStep(p) /\ lease'.owner \in {p, lease.owner, None}
<1>1. lease \in LeaseRecords
  BY TypesSplit
<1>2. Renewed.owner = lease.owner
  BY <1>1, RenewedLease
<1>3. Free.owner = None
  BY DEF Free
<1> USE DEF LeaseStep
<1>4. CASE StartPass(p) \/ StartRefresh(p)
  BY <1>4 DEF StartPass, StartRefresh, Claim
<1>5. CASE Heartbeat(p) \/ Release(p)
  BY <1>2, <1>3, <1>5 DEF Heartbeat, Release, Holds
<1>6. CASE Take(p) \/ ReadRows(p) \/ SendTrip(p) \/ \E m \in Tabs : SendTab(p, m)
  BY <1>2, <1>6 DEF Take, ReadRows, SendTrip, SendTab, Send, Holds
<1>7. CASE \/ Query(p) \/ Drained(p) \/ ReadTrip(p) \/ ReadFreshness(p) \/ (\E m \in Tabs : ReadTab(p, m))
           \/ Mark(p) \/ Ack(p) \/ FencedOff(p) \/ SendReport(p)
           \/ Land(p) \/ Reject(p) \/ Abort(p) \/ Crash(p)
  BY <1>7 DEF Query, Drained, ReadTrip, ReadFreshness, ReadTab, Mark, Ack, FencedOff, SendReport,
              Land, Reject, Abort, Crash
<1> QED BY <1>4, <1>5, <1>6, <1>7 DEF StepOf, Deliver

(* Only a request that takes effect changes the workbook. *)
LEMMA StepWorkbook ==
  ASSUME NEW p \in Passes, StepOf(p), ~Land(p)
  PROVE  UNCHANGED workbook
<1>1. StartPass(p) \/ StartRefresh(p) \/ Heartbeat(p) \/ Reject(p) \/ Abort(p) \/ Crash(p) => UNCHANGED workbook
  BY DEF StartPass, StartRefresh, Claim, Heartbeat, Reject, Abort, Crash
<1>2. Deliver(p) => UNCHANGED workbook
  BY DEF Deliver, Query, Take, Drained, ReadTrip, ReadRows, SendTrip, ReadFreshness, ReadTab, SendTab,
         Mark, Ack, FencedOff, SendReport, Release
<1> QED BY <1>1, <1>2 DEF StepOf

(* To every other pass, the step of a pass is that of a bystander. *)
LEMMA StepBystander ==
  ASSUME TypeOK, NEW p \in Passes, PassOK(p), StepOf(p), NEW q \in Passes \ {p}, PassOK(q)
  PROVE  Bystander(q)
<1>1. Apart(p, q)
  BY StepApart
<1>2. LeaseStep(p) /\ lease'.owner \in {p, lease.owner, None}
  BY StepLease
<1>3. lease'.owner = q => lease.owner = q
  BY <1>2, NamesAssumption
<1>4. lease.owner = q => UNCHANGED workbook
  <2>1. CASE Land(p)
    <3>1. flight[p].target \in Trips \/ flight[p].target \in Tabs => lease.owner = p
      BY DEF PassOK, FlightFits, Records
    <3>2. Apply(flight[p])
      BY <2>1 DEF Land
    <3> QED BY <3>1, <3>2 DEF Apply, workbook
  <2> QED BY <2>1, StepWorkbook
<1>5. ASSUME flight[q].target \in Records PROVE lease'.owner = q /\ flight'[q].ttl < lease'.left
  <2>1. lease.owner = q /\ flight[q].ttl < lease.left
    BY <1>5 DEF PassOK, FlightFits
  <2>2. lease.left # 0
    <3>1. flight[q].ttl \in 0 .. RequestLife
      BY DEF TypeOK
    <3> QED BY <2>1, <3>1
  <2>3. lease' = lease
    BY <1>2, <2>1, <2>2 DEF LeaseStep
  <2> QED BY <1>1, <2>1, <2>3 DEF Apart
<1> QED BY <1>1, <1>3, <1>4, <1>5 DEF Apart, Bystander

(* So is the passing of time, and a canonical change, to every pass. *)
LEMMA TimeBystander ==
  ASSUME TypeOK, NEW q \in Passes, PassOK(q),
         \/ Tick
         \/ \E t \in Trips : CommitTrip(t)
         \/ \E T \in SUBSET Tabs : ChangeMaster(T)
         \/ UNCHANGED vars
  PROVE  Bystander(q)
<1>1. lease \in LeaseRecords /\ flight \in [Passes -> FlightRecords]
  BY TypesSplit
<1>2. flight[q].target \in Records => lease.owner = q /\ flight[q].ttl < lease.left
  BY DEF PassOK, FlightFits
<1>3. CASE \/ \E t \in Trips : CommitTrip(t)
           \/ \E T \in SUBSET Tabs : ChangeMaster(T)
           \/ UNCHANGED vars
  BY <1>2, <1>3 DEF CommitTrip, ChangeMaster, vars, locals, workbook, Bystander
<1>4. CASE Tick
  <2>1. UNCHANGED <<workbook, pc, locals>>
    BY <1>4 DEF Tick
  <2>2. lease'.owner = lease.owner /\ lease'.left = IF lease.left > 0 THEN lease.left - 1 ELSE 0
    BY <1>1, <1>4 DEF Tick, LeaseRecords
  <2>3. CASE flight[q] = NoFlight
    <3>1. flight'[q] = NoFlight
      BY <1>4, <2>3 DEF Tick
    <3>2. NoFlight.target \notin Records
      BY NamesAssumption DEF NoFlight, Records
    <3> QED BY <2>1, <2>2, <2>3, <3>1, <3>2 DEF Bystander, locals
  <2>4. CASE flight[q] # NoFlight
    <3>1. flight[q].ttl > 0 /\ flight'[q] = [flight[q] EXCEPT !.ttl = @ - 1]
      BY <1>4, <2>4 DEF Tick
    <3>2. /\ flight'[q].target = flight[q].target /\ flight'[q].revision = flight[q].revision
          /\ flight'[q].row = flight[q].row /\ flight'[q].ttl = flight[q].ttl - 1
      BY <1>1, <3>1 DEF FlightRecords
    <3>3. flight[q].ttl \in Int /\ lease.left \in Int
      BY <1>1, TimesAssumption DEF FlightRecords, LeaseRecords
    <3>4. flight[q].target \in Records => lease'.owner = q /\ flight'[q].ttl < lease'.left
      BY <1>2, <2>2, <3>1, <3>2, <3>3
    <3>5. flight'[q] # NoFlight
      BY <3>2, <2>4, NamesAssumption DEF NoFlight, PassOK, Shape, Records
    <3> QED BY <2>1, <2>2, <2>4, <3>2, <3>4, <3>5 DEF Bystander, locals
  <2> QED BY <2>3, <2>4
<1> QED BY <1>3, <1>4


-----------------------------------------------------------------------------
\* The invariant

(* The invariant holds at the beginning. *)
LEMMA InitInductive == Init => Inductive
<1> SUFFICES ASSUME Init PROVE Inductive
  OBVIOUS
<1>1. TypeOK
  BY InitTypes
<1>2. Master \in Keys /\ \A t \in Trips : t \in Keys /\ t # Master /\ t \in Records /\ t \notin Tabs
  BY NamesAssumption DEF Keys, Records
<1>3. Documents
  <2>1. EventsFollow /\ DirtyTabIsQueued
    BY <1>2 DEF Init, EventsFollow, DirtyTabIsQueued
  <2>2. \A r \in Rows : cell[r].trip \notin Trips
    BY NamesAssumption DEF Init, EmptyCell
  <2>3. \A r \in Rows : cell[r].trip = None
    BY DEF Init, EmptyCell
  <2>4. OneRowPerTrip
    BY <2>3 DEF OneRowPerTrip
  <2>5. WorkbookFollows
    BY <2>2 DEF Init, WorkbookFollows, Records
  <2>6. DeliveredIsShown
    BY <1>2 DEF Init, DeliveredIsShown
  <2> QED BY <2>1, <2>4, <2>5, <2>6 DEF Documents
<1>4. ASSUME NEW p \in Passes PROVE PassOK(p)
  <2>1. /\ pc[p] = "idle" /\ todo[p] = {} /\ event[p] = NoEvent /\ read[p] = [k \in Records |-> 0]
        /\ rest[p] = {} /\ due[p] = {} /\ flight[p] = NoFlight
    BY DEF Init
  <2>2. ~OnMaster(p) /\ ~OnTrip(p) /\ Fetched(p) = {}
    BY <2>1 DEF OnMaster, OnTrip, Fetched
  <2>3. Shape(p)
    BY <2>1 DEF Shape
  <2>4. NoEvent.key \notin Keys /\ NoFlight.target \notin Records
    BY NamesAssumption DEF NoEvent, Keys, NoFlight, Records
  <2>5. Knows(p)
    BY <1>1, <2>1, <2>2, <2>4 DEF Knows, TypeOK
  <2>6. WhileOwner(p)
    BY <2>1, <2>2 DEF WhileOwner
  <2>7. FlightFits(p)
    BY <2>1, <2>4 DEF FlightFits, Records
  <2> QED BY <2>3, <2>5, <2>6, <2>7 DEF PassOK
<1> QED BY <1>1, <1>3, <1>4 DEF Inductive

(* A step of a pass keeps the documents in order. *)
LEMMA StepDocuments ==
  ASSUME TypeOK, Documents, NEW p \in Passes, PassOK(p), StepOf(p)
  PROVE  Documents' /\ StoreGrows
<1>1. CASE StartPass(p) \/ StartRefresh(p)
  BY <1>1, ClaimDocuments DEF StartPass, StartRefresh
<1>2. CASE Mark(p) \/ Ack(p)
  BY <1>2, SettleDocuments
<1>3. CASE Land(p)
  BY <1>3, LandDocuments
<1>4. CASE Heartbeat(p) \/ Reject(p) \/ Abort(p) \/ Crash(p)
  BY <1>4, DocumentsKept DEF Heartbeat, Reject, Abort, Crash
<1>5. CASE \/ Query(p) \/ Take(p) \/ Drained(p) \/ ReadTrip(p) \/ ReadRows(p) \/ SendTrip(p)
           \/ ReadFreshness(p) \/ (\E m \in Tabs : ReadTab(p, m) \/ SendTab(p, m))
           \/ FencedOff(p) \/ SendReport(p) \/ Release(p)
  <2>1. UNCHANGED <<store, workbook>>
    BY <1>5 DEF Query, Take, Drained, ReadTrip, ReadRows, SendTrip, ReadFreshness, ReadTab, SendTab,
                FencedOff, SendReport, Release
  <2> QED BY <2>1, DocumentsKept
<1> QED BY <1>1, <1>2, <1>3, <1>4, <1>5 DEF StepOf, Deliver

(* A step of a pass keeps what that pass knows true. *)
LEMMA StepPass ==
  ASSUME TypeOK, TypeOK', Documents, NEW p \in Passes, PassOK(p), StepOf(p)
  PROVE  PassOK(p)'
<1>1. EventsFollow /\ WorkbookFollows /\ OneRowPerTrip
  BY DEF Documents
<1>2. CASE StartPass(p) \/ StartRefresh(p) \/ Heartbeat(p)
  BY <1>1, <1>2, LeaseOK
<1>3. CASE Query(p) \/ Take(p)
  BY <1>3, TakeOK
<1>4. CASE ReadTrip(p) \/ ReadRows(p)
  BY <1>1, <1>4, TripReadOK
<1>5. CASE ReadFreshness(p) \/ \E m \in Tabs : ReadTab(p, m)
  BY <1>1, <1>5, TabsReadOK
<1>6. CASE SendTrip(p) \/ SendReport(p) \/ \E m \in Tabs : SendTab(p, m)
  BY <1>6, SendOK
<1>7. CASE Mark(p) \/ Ack(p)
  BY <1>7, SettleOK
<1>8. CASE Land(p)
  BY <1>1, <1>8, LandOK
<1>9. CASE Drained(p) \/ FencedOff(p) \/ Abort(p) \/ Crash(p) \/ Release(p) \/ Reject(p)
  BY <1>9, StoppedOK
<1> QED BY <1>2, <1>3, <1>4, <1>5, <1>6, <1>7, <1>8, <1>9 DEF StepOf, Deliver

(* Every step keeps the invariant. *)
LEMMA InductiveStep ==
  ASSUME Inductive, [Next]_vars
  PROVE  Inductive'
<1>1. TypeOK /\ Documents /\ \A p \in Passes : PassOK(p)
  BY DEF Inductive
<1>2. TypeOK'
  BY <1>1, StepTypes DEF PassOK
<1>3. ASSUME NEW p \in Passes, StepOf(p) PROVE Inductive'
  <2>1. Documents' /\ StoreGrows
    BY <1>1, <1>3, StepDocuments
  <2>2. PassOK(p)'
    BY <1>1, <1>2, <1>3, StepPass
  <2>3. ASSUME NEW q \in Passes \ {p} PROVE PassOK(q)'
    <3>1. Bystander(q)
      BY <1>1, <1>3, StepBystander
    <3> QED BY <1>1, <1>2, <2>1, <3>1, BystanderOK
  <2> QED BY <1>2, <2>1, <2>2, <2>3 DEF Inductive
<1>4. CASE \/ Tick
           \/ \E t \in Trips : CommitTrip(t)
           \/ \E T \in SUBSET Tabs : ChangeMaster(T)
           \/ UNCHANGED vars
  <2>1. Documents' /\ StoreGrows
    <3>1. CASE Tick \/ UNCHANGED vars
      BY <1>1, <3>1, DocumentsKept DEF Tick, vars, workbook
    <3> QED BY <1>1, <1>2, <1>4, <3>1, ChangeDocuments
  <2>2. ASSUME NEW q \in Passes PROVE PassOK(q)'
    <3>1. Bystander(q)
      BY <1>1, <1>4, TimeBystander
    <3> QED BY <1>1, <1>2, <2>1, <3>1, BystanderOK
  <2> QED BY <1>2, <2>1, <2>2 DEF Inductive
<1> QED BY <1>3, <1>4 DEF Next, StepOf

(* What Inductive says is true of every reachable state. *)
THEOREM InductiveInvariant == Spec => []Inductive
  BY InitInductive, InductiveStep, PTL DEF Spec

(* The types; no renewal leaves a lease longer than LeaseTime (claimSync,   *)
(* renewSync).                                                              *)
THEOREM TypeCorrect == Spec => []TypeOK
  BY InductiveInvariant, PTL DEF Inductive

(* OneWriter is a part of the invariant. *)
LEMMA OneWriterHolds == Inductive => OneWriter
BY DEF Inductive, PassOK, FlightFits, OneWriter

(* Two passes never write the workbook at the same time, not even through   *)
(* a request whose sender died (renewSync before every request, the life of *)
(* a request in workspaceGoogleTransport).                                  *)
THEOREM OneWriterAlways == Spec => []OneWriter
  BY InductiveInvariant, OneWriterHolds, PTL

(* So are the properties of the documents. *)
LEMMA DocumentsHold == Inductive => OneRowPerTrip /\ DeliveredIsShown /\ DirtyTabIsQueued
BY DEF Inductive, Documents

(* No trip is ever in two rows (projectOwnedOperationalTable).              *)
THEOREM OneRowAlways == Spec => []OneRowPerTrip
  BY InductiveInvariant, DocumentsHold, PTL

(* A trip whose event is DELIVERED is shown as it is (drainOutbox).         *)
THEOREM DeliveredAlwaysShown == Spec => []DeliveredIsShown
  BY InductiveInvariant, DocumentsHold, PTL

(* A dirty tab always has an event that waits (markDirtyInTransaction,      *)
(* claimSync, markProjectionSuccessful).                                    *)
THEOREM DirtyTabAlwaysQueued == Spec => []DirtyTabIsQueued
  BY InductiveInvariant, DocumentsHold, PTL


-----------------------------------------------------------------------------
\* Steps and the refinement

(* Every step moves the workbook forward or leaves it as it is. *)
LEMMA StepMoves ==
  ASSUME Inductive, [Next]_vars
  PROVE  WorkbookMoves /\ StoreGrows
<1>1. TypeOK /\ Documents /\ \A p \in Passes : PassOK(p)
  BY DEF Inductive
<1>2. ASSUME UNCHANGED workbook PROVE WorkbookMoves
  BY <1>2 DEF WorkbookMoves, ShownTrip, workbook
<1>3. ASSUME NEW p \in Passes, StepOf(p) PROVE WorkbookMoves /\ StoreGrows
  BY <1>1, <1>2, <1>3, StepDocuments, StepWorkbook, LandDocuments
<1>4. CASE Tick \/ UNCHANGED vars
  <2>1. UNCHANGED <<store, workbook>>
    BY <1>4 DEF Tick, vars
  <2> QED BY <1>1, <1>2, <2>1, DocumentsKept
<1>5. CASE \/ \E t \in Trips : CommitTrip(t)
           \/ \E T \in SUBSET Tabs : ChangeMaster(T)
  <2>1. UNCHANGED workbook
    BY <1>5 DEF CommitTrip, ChangeMaster
  <2>2. TypeOK'
    BY <1>1, StepTypes DEF PassOK
  <2> QED BY <1>1, <1>2, <1>5, <2>1, <2>2, ChangeDocuments
<1> QED BY <1>3, <1>4, <1>5 DEF Next, StepOf

(* No write replaces one trip's row by another trip's (sheetRow).           *)
THEOREM RowsAlwaysKept == Spec => RowsKept
<1>1. Inductive /\ [Next]_vars => [\A r \in Rows : cell[r].trip # None => cell'[r].trip = cell[r].trip]_vars
  BY StepMoves DEF WorkbookMoves
<1> QED BY <1>1, InductiveInvariant, PTL DEF Spec, RowsKept

\* The state of the mirror, and its steps in terms of it.
MirrorShown == [k \in Records |-> IF k \in Tabs THEN shown[k] ELSE ShownTrip(k)]
MirrorSettled == {k \in Records : IF k \in Tabs THEN k \notin dirtyTabs ELSE outbox[k].status # "PENDING"}

MirrorCommits ==
  /\ \E K \in SUBSET Records :
       /\ data' = [k \in Records |-> IF k \in K THEN data[k] + 1 ELSE data[k]]
       /\ MirrorSettled' = MirrorSettled \ K
  /\ MirrorShown' = MirrorShown

MirrorShows ==
  /\ \E k \in Records : \E r \in MirrorShown[k] .. data[k] : MirrorShown' = [MirrorShown EXCEPT ![k] = r]
  /\ data' = data /\ MirrorSettled' = MirrorSettled

MirrorSettles ==
  /\ \E K \in SUBSET {k \in Records : MirrorShown[k] = data[k]} : MirrorSettled' = MirrorSettled \union K
  /\ data' = data /\ MirrorShown' = MirrorShown

MirrorStutters == data' = data /\ MirrorShown' = MirrorShown /\ MirrorSettled' = MirrorSettled

(* A canonical change commits. *)
LEMMA ChangeCommits ==
  ASSUME TypeOK,
         \/ \E t \in Trips : CommitTrip(t)
         \/ \E T \in SUBSET Tabs : ChangeMaster(T)
  PROVE  MirrorCommits
<1>1. SharedTypes
  BY TypesSplit
<1>2. MirrorShown' = MirrorShown
  <2>1. UNCHANGED <<cell, shown>>
    BY DEF CommitTrip, ChangeMaster, workbook
  <2>2. \A t : ShownTrip(t)' = ShownTrip(t)
    BY <2>1 DEF ShownTrip
  <2> QED BY <2>1, <2>2 DEF MirrorShown
<1>3. Records = Trips \union Tabs /\ Keys = Trips \union {Master} /\ Trips \cap Tabs = {} /\ Master \notin Trips
  BY NamesAssumption DEF Records, Keys
<1>4. ASSUME NEW t \in Trips, CommitTrip(t) PROVE MirrorCommits
  <2>1. /\ outbox'[t].status = "PENDING" /\ \A k \in Trips : k # t => outbox'[k] = outbox[k]
        /\ dirtyTabs' = dirtyTabs
    BY <1>1, <1>3, <1>4 DEF CommitTrip, SharedTypes
  <2>2. MirrorSettled' = MirrorSettled \ {t}
    BY <1>3, <2>1 DEF MirrorSettled
  <2>3. data' = [k \in Records |-> IF k \in {t} THEN data[k] + 1 ELSE data[k]]
    BY <1>1, <1>3, <1>4 DEF CommitTrip, SharedTypes
  <2>4. {t} \in SUBSET Records
    BY <1>3
  <2> QED BY <1>2, <2>2, <2>3, <2>4 DEF MirrorCommits
<1>5. ASSUME NEW T \in SUBSET Tabs, ChangeMaster(T) PROVE MirrorCommits
  <2>1. dirtyTabs' = dirtyTabs \union T /\ \A k \in Trips : outbox'[k] = outbox[k]
    BY <1>1, <1>3, <1>5 DEF ChangeMaster, SharedTypes
  <2>2. MirrorSettled' = MirrorSettled \ T
    BY <1>3, <2>1 DEF MirrorSettled
  <2>3. T \in SUBSET Records /\ data' = [k \in Records |-> IF k \in T THEN data[k] + 1 ELSE data[k]]
    BY <1>3, <1>5 DEF ChangeMaster
  <2> QED BY <1>2, <2>2, <2>3 DEF MirrorCommits
<1> QED BY <1>4, <1>5

(* A request that takes effect shows. *)
LEMMA LandShows ==
  ASSUME TypeOK, Documents, NEW p \in Passes, PassOK(p), Land(p)
  PROVE  MirrorShows \/ MirrorStutters
<1>1. SharedTypes
  BY TypesSplit
<1>2. WorkbookMoves /\ TypeOK'
  BY LandDocuments, RequestTypes DEF PassOK
<1>3. UNCHANGED <<data, outbox, dirtyTabs>>
  BY DEF Land, store
<1>4. MirrorSettled' = MirrorSettled
  BY <1>3 DEF MirrorSettled
<1>5. Records = Trips \union Tabs /\ Trips \cap Tabs = {}
  BY NamesAssumption DEF Records
<1>6. CASE \E m \in Tabs : shown'[m] # shown[m]
  <2>1. PICK m \in Tabs : shown'[m] # shown[m]
    BY <1>6
  <2>2. /\ shown[m] <= shown'[m] /\ shown'[m] <= data[m] /\ UNCHANGED cell
        /\ \A n \in Tabs : n # m => shown'[n] = shown[n]
    BY <1>2, <2>1 DEF WorkbookMoves
  <2>3. shown[m] \in Nat /\ shown'[m] \in Nat /\ data[m] \in Nat
    BY <1>1, <1>2, <1>5 DEF TypeOK, SharedTypes
  <2>4. shown'[m] \in MirrorShown[m] .. data[m]
    BY <1>5, <2>2, <2>3 DEF MirrorShown
  <2>5. MirrorShown' = [MirrorShown EXCEPT ![m] = shown'[m]]
    BY <1>5, <2>2 DEF MirrorShown, ShownTrip
  <2> QED BY <1>3, <1>4, <1>5, <2>4, <2>5 DEF MirrorShows
<1>7. CASE \E t \in Trips : ShownTrip(t)' # ShownTrip(t)
  <2>1. PICK t \in Trips : ShownTrip(t)' # ShownTrip(t)
    BY <1>7
  <2>2. /\ ShownTrip(t) <= ShownTrip(t)' /\ ShownTrip(t)' <= data[t] /\ UNCHANGED shown
        /\ \A u \in Trips : u # t => ShownTrip(u)' = ShownTrip(u)
    BY <1>2, <2>1 DEF WorkbookMoves
  <2>3. ShownTrip(t) \in Nat /\ ShownTrip(t)' \in Nat
    BY <1>1, <1>2 DEF TypeOK, SharedTypes, ShownTrip
  <2>4. ShownTrip(t)' \in MirrorShown[t] .. data[t]
    BY <1>1, <1>5, <2>2, <2>3 DEF MirrorShown, SharedTypes
  <2>5. MirrorShown' = [MirrorShown EXCEPT ![t] = ShownTrip(t)']
    BY <1>5, <2>2 DEF MirrorShown
  <2> QED BY <1>3, <1>4, <1>5, <2>4, <2>5 DEF MirrorShows
<1>8. CASE (\A m \in Tabs : shown'[m] = shown[m]) /\ \A t \in Trips : ShownTrip(t)' = ShownTrip(t)
  <2>1. MirrorShown' = MirrorShown
    BY <1>5, <1>8 DEF MirrorShown
  <2> QED BY <1>3, <1>4, <2>1 DEF MirrorStutters
<1> QED BY <1>6, <1>7, <1>8

(* What is marked or acknowledged settles. *)
LEMMA OthersSettle ==
  ASSUME TypeOK, Documents', UNCHANGED <<data, workbook>>, dirtyTabs' \subseteq dirtyTabs,
         \A t \in Trips : outbox'[t] = outbox[t] \/ outbox'[t].status = "DELIVERED"
  PROVE  MirrorSettles
<1>1. MirrorShown' = MirrorShown
  <2>1. \A t : ShownTrip(t)' = ShownTrip(t)
    BY DEF workbook, ShownTrip
  <2> QED BY <2>1 DEF workbook, MirrorShown
<1>2. Records = Trips \union Tabs /\ Trips \cap Tabs = {}
  BY NamesAssumption DEF Records
<1> DEFINE K == MirrorSettled' \ MirrorSettled
<1>3. MirrorSettled \subseteq MirrorSettled'
  BY <1>2 DEF MirrorSettled
<1>4. ASSUME NEW k \in K PROVE k \in Records /\ MirrorShown[k] = data[k]
  <2>1. k \in Records
    BY DEF MirrorSettled
  <2>2. CASE k \in Tabs
    <3>1. k \notin dirtyTabs'
      BY <2>2 DEF MirrorSettled
    <3>2. shown'[k] = data'[k]
      BY <2>2, <3>1 DEF Documents, WorkbookFollows
    <3> QED BY <2>1, <2>2, <3>2 DEF MirrorShown, workbook
  <2>3. CASE k \in Trips
    <3>1. outbox'[k].status = "DELIVERED"
      BY <1>2, <2>3 DEF MirrorSettled
    <3>2. ShownTrip(k)' = data'[k]
      BY <2>3, <3>1 DEF Documents, DeliveredIsShown
    <3>3. ShownTrip(k)' = ShownTrip(k)
      BY DEF ShownTrip, workbook
    <3> QED BY <1>2, <2>1, <2>3, <3>2, <3>3 DEF MirrorShown
  <2> QED BY <1>2, <2>1, <2>2, <2>3
<1>5. MirrorSettled' = MirrorSettled \union K
  BY <1>3
<1>6. K \in SUBSET {k \in Records : MirrorShown[k] = data[k]}
  BY <1>4
<1> QED BY <1>1, <1>5, <1>6 DEF MirrorSettles

(* Every step of the synchronization is a step of the mirror or none. *)
LEMMA MirrorStep ==
  ASSUME Inductive, Inductive', [Next]_vars
  PROVE  MirrorCommits \/ MirrorShows \/ MirrorSettles \/ MirrorStutters
<1>1. TypeOK /\ Documents /\ Documents' /\ \A p \in Passes : PassOK(p)
  BY DEF Inductive
<1>2. CASE \/ \E t \in Trips : CommitTrip(t)
           \/ \E T \in SUBSET Tabs : ChangeMaster(T)
  BY <1>1, <1>2, ChangeCommits
<1>3. ASSUME NEW p \in Passes, Land(p) PROVE MirrorShows \/ MirrorStutters
  BY <1>1, <1>3, LandShows
<1>4. ASSUME NEW p \in Passes, StepOf(p), ~Land(p) PROVE MirrorSettles
  <2>1. UNCHANGED workbook
    BY <1>4, StepWorkbook
  <2>2. Keys = Trips \union {Master} /\ Master \notin Trips /\ outbox \in [Keys -> OutboxRecords]
    BY <1>1, NamesAssumption, TypesSplit DEF Keys, SharedTypes
  <2>3. CASE Mark(p) \/ Ack(p) \/ StartPass(p) \/ StartRefresh(p)
    <3>1. data' = data /\ dirtyTabs' \subseteq dirtyTabs
      BY <2>3 DEF Mark, Ack, StartPass, StartRefresh, Claim
    <3>2. \A t \in Trips : outbox'[t] = outbox[t] \/ outbox'[t].status = "DELIVERED"
      BY <2>2, <2>3 DEF Mark, Ack, StartPass, StartRefresh, Claim, OutboxRecords
    <3> QED BY <1>1, <2>1, <3>1, <3>2, OthersSettle
  <2>4. CASE ~(Mark(p) \/ Ack(p) \/ StartPass(p) \/ StartRefresh(p))
    <3>1. UNCHANGED store
      BY <1>4, <2>4
         DEF StepOf, Deliver, Heartbeat, Reject, Abort, Crash, Query, Take, Drained, ReadTrip, ReadRows,
             SendTrip, ReadFreshness, ReadTab, SendTab, FencedOff, SendReport, Release
    <3> QED BY <1>1, <2>1, <3>1, OthersSettle DEF store
  <2> QED BY <2>3, <2>4
<1>5. CASE Tick \/ UNCHANGED vars
  <2>1. UNCHANGED <<store, workbook>>
    BY <1>5 DEF Tick, vars
  <2> QED BY <2>1 DEF MirrorStutters, MirrorShown, MirrorSettled, ShownTrip, store, workbook
<1> QED BY <1>2, <1>3, <1>4, <1>5 DEF Next, StepOf

(* The synchronization implements ProjectionMirror: the workbook shows what *)
(* was committed, never goes back, and what is settled is shown, through    *)
(* lost leases, late requests and dead passes (retrySync).                  *)
THEOREM SynchronizationMirrors == Spec => MirrorSpec
<1>1. Init => Mirror!Init
  <2> SUFFICES ASSUME Init PROVE Mirror!Init
    OBVIOUS
  <2>1. Records = Trips \union Tabs /\ Trips \cap Tabs = {} /\ \A t \in Trips : t \in Keys /\ t # Master /\ t # None
    BY NamesAssumption DEF Records, Keys
  <2>2. data \in [Records -> Nat]
    BY DEF Init
  <2>3. ASSUME NEW t \in Trips PROVE ShownTrip(t) = 0
    BY <2>1 DEF Init, EmptyCell, ShownTrip
  <2>4. MirrorShown = [k \in Records |-> 0]
    BY <2>1, <2>3 DEF Init, MirrorShown
  <2>5. MirrorSettled = {k \in Records : data[k] = 0}
    BY <2>1 DEF Init, MirrorSettled
  <2> QED BY <2>2, <2>4, <2>5 DEF Mirror!Init, MirrorShown, MirrorSettled
<1>2. MirrorCommits => Mirror!Commit
  BY DEF MirrorCommits, Mirror!Commit, MirrorShown, MirrorSettled
<1>3. MirrorShows => Mirror!Show
  BY DEF MirrorShows, Mirror!Show, MirrorShown, MirrorSettled
<1>4. MirrorSettles => Mirror!Settle
  BY DEF MirrorSettles, Mirror!Settle, MirrorShown, MirrorSettled
<1>5. MirrorStutters => UNCHANGED Mirror!mirrorVars
  BY DEF MirrorStutters, Mirror!mirrorVars, MirrorShown, MirrorSettled
<1>6. Inductive /\ Inductive' /\ [Next]_vars => [Mirror!Next]_(Mirror!mirrorVars)
  BY <1>2, <1>3, <1>4, <1>5, MirrorStep DEF Mirror!Next
<1> QED BY <1>1, <1>6, InductiveInvariant, PTL DEF Spec, MirrorSpec, Mirror!Spec
=============================================================================
