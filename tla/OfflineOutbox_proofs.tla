------------------------ MODULE OfflineOutbox_proofs ------------------------
(***************************************************************************)
(* Theorems about a field device and the command service together, for any *)
(* script of operations, any number of tabs and of people, and any number  *)
(* of lost messages, reloads and resolutions.                              *)
(***************************************************************************)
EXTENDS OfflineOutbox, TripCommands_proofs, SequenceTheorems

-----------------------------------------------------------------------------
(* What the device sends *)

OfDevice(r) == r.op \in Op => /\ r.command = Intent[r.op].command
                              /\ r.trip = Intent[r.op].trip

DeviceRequests == {Intent[op] : op \in Op} \cup {Amended[op] : op \in Op}

LEMMA OpKnown == Op \subseteq OpId
<1>1. Script \in Seq(OpId)
  BY OutboxAssumption
<1> QED BY <1>1 DEF Op

(* A request of the device names its operation, its command and its trip.  *)
LEMMA RequestsKnown ==
  /\ \A op \in Op : /\ Intent[op] \in Request /\ Intent[op].op = op
                    /\ Intent[op].command \in QueuedCommand
                    /\ Amended[op] \in Request /\ Amended[op].op = op
                    /\ Amended[op].command = Intent[op].command
                    /\ Amended[op].trip = Intent[op].trip
  /\ \A r \in DeviceRequests : r \in Request /\ r.op \in Op /\ OfDevice(r)
<1>1. \A op \in Op : /\ Intent[op] \in Request /\ Intent[op].op = op
                     /\ Intent[op].command \in QueuedCommand
                     /\ Amended[op] \in Request /\ Amended[op].op = op
                     /\ Amended[op].command = Intent[op].command
                     /\ Amended[op].trip = Intent[op].trip
  BY OutboxAssumption
<1> QED BY <1>1 DEF DeviceRequests, OfDevice

(* A trip that is still only queued is cached under its operation.         *)
LEMMA KeyCached == \A op \in Op : Key(op) \in Cached
<1> SUFFICES ASSUME NEW op \in Op PROVE Key(op) \in Cached
  OBVIOUS
<1>1. Intent[op].command \notin Creation => Intent[op].trip \in Trip
  BY RequestsKnown, RequestTyped
<1> QED BY <1>1 DEF Key, Cached

-----------------------------------------------------------------------------
(* What the device sees of the service *)

\* A step of the composition, as the service sees it.
ServiceMoves ==
  \/ UNCHANGED vars
  \/ \E u \in User, r \in Request : /\ Execute(u, r) /\ OfDevice(r)
                                    /\ r.op \in Op => r.op \in Posted

\* The entries of the device's operations are of the commands it queued.
AppliedAs ==
  \A u \in User, op \in Op : ledger[u][op] # None =>
    /\ ledger[u][op].command = Intent[op].command
    /\ ledger[u][op].request = Intent[op].trip

\* A trip that an operation of the device made has its entry.
TripsLedgered ==
  \A t \in Existing : trip[t].clientUUID \in Op =>
    /\ trip[t].createdBy \in User
    /\ ledger[trip[t].createdBy][trip[t].clientUUID] # None

ServiceInv == TypeOK /\ LedgerHolds /\ AppliedAs /\ TripsLedgered

\* What of the service never goes back.
ServiceGrows ==
  /\ Existing \subseteq Existing'
  /\ \A t \in Existing : Rank[trip'[t].status] >= Rank[trip[t].status]
  /\ \A op \in Op : Committed(op) => Committed(op)'

LEMMA MovesAreSteps == ServiceMoves => [Next]_vars
  BY DEF ServiceMoves, Next, Commands

LEMMA ServiceStarts == Init => ServiceInv
<1> SUFFICES ASSUME Init PROVE ServiceInv
  OBVIOUS
<1>1. TypeOK
  BY InitTyped
<1>2. LedgerHolds /\ AppliedAs
  BY OpKnown DEF Init, LedgerHolds, AppliedAs
<1>3. ASSUME NEW t \in Existing PROVE trip[t].clientUUID \notin Op
  <2>1. trip[t] \in LegacyTrip
    BY DEF Init, Existing
  <2> QED BY <2>1, OutboxAssumption
<1> QED BY <1>1, <1>2, <1>3 DEF ServiceInv, TripsLedgered

(* An execution adds one entry to the ledger, and keeps what was there.    *)
LEMMA ExecutionKeeps ==
  ASSUME ServiceInv, NEW u \in User, NEW r \in Request, Execute(u, r), OfDevice(r)
  PROVE  /\ AppliedAs' /\ TripsLedgered'
         /\ \A v \in User, op \in OpId : ledger'[v][op] # None <=>
              ledger[v][op] # None \/ (v = u /\ op = r.op)
<1>1. PICK t \in Trip, record \in TripRecords, new \in SUBSET EventRecords :
        /\ Commit(u, r, t, record, new)
        /\ Creates(u, r, t, record) \/ Updates(r, t, record)
  BY CommandShape DEF ServiceInv, Shape
<1>2. /\ r.op \in OpId
      /\ ledger' = [ledger EXCEPT ![u][r.op] = Entry(u, r, t)]
      /\ ledger \in [User -> [OpId -> Entries \cup {None}]]
  BY <1>1, RequestTyped DEF Commit, ServiceInv, TypeOK
<1>3. /\ Entry(u, r, t) # None /\ Entry(u, r, t).command = r.command
      /\ Entry(u, r, t).request = r.trip
  BY EntryTyped, ConstantsAssumption DEF ServiceInv, Entry
<1>4. \A v \in User, op \in OpId :
        ledger'[v][op] = IF v = u /\ op = r.op THEN Entry(u, r, t) ELSE ledger[v][op]
  BY <1>2
<1>5. AppliedAs'
  BY <1>3, <1>4, OpKnown DEF AppliedAs, OfDevice, ServiceInv
<1>6. \A v \in User, op \in OpId : ledger'[v][op] # None <=>
        ledger[v][op] # None \/ (v = u /\ op = r.op)
  BY <1>3, <1>4
<1>7. TripsLedgered'
  <2>1. /\ trip'[t] = record /\ Existing' = Existing \cup {t}
        /\ \A s \in Trip \ {t} : trip'[s] = trip[s]
    BY <1>1, CommitEffect DEF ServiceInv
  <2>2. SUFFICES ASSUME NEW s \in Existing', trip'[s].clientUUID \in Op
                 PROVE  /\ trip'[s].createdBy \in User
                        /\ ledger'[trip'[s].createdBy][trip'[s].clientUUID] # None
    BY DEF TripsLedgered
  <2>3. CASE Creates(u, r, t, record) /\ s = t
    BY <1>2, <1>6, <2>1, <2>3 DEF Creates
  <2>4. CASE ~(Creates(u, r, t, record) /\ s = t)
    <3>1. /\ s \in Existing /\ trip'[s].createdBy = trip[s].createdBy
          /\ trip'[s].clientUUID = trip[s].clientUUID
      BY <1>1, <2>1, <2>4 DEF Updates, Identity, Existing
    <3> QED BY <1>6, <2>2, <3>1, OpKnown DEF ServiceInv, TripsLedgered
  <2> QED BY <2>3, <2>4
<1> QED BY <1>5, <1>6, <1>7

(* The service keeps its invariant and never goes back.                    *)
LEMMA ServiceKeeps ==
  ASSUME ServiceInv, ServiceMoves
  PROVE  ServiceInv' /\ ServiceGrows
<1>1. TypeOK' /\ LedgerHolds'
  BY MovesAreSteps, NextTyped, LedgerStep DEF ServiceInv
<1>2. \A t \in Existing : trip'[t] # None /\ Rank[trip'[t].status] >= Rank[trip[t].status]
  BY MovesAreSteps, TripStep DEF ServiceInv, GoesForward
<1>3. Existing \subseteq Existing'
  BY <1>2 DEF Existing
<1>4. CASE UNCHANGED vars
  <2>1. AppliedAs' /\ TripsLedgered'
    BY <1>4 DEF vars, ServiceInv, AppliedAs, TripsLedgered, Existing
  <2>2. \A op \in Op : Committed(op) => Committed(op)'
    BY <1>4 DEF vars, Committed
  <2> QED BY <1>1, <1>2, <1>3, <2>1, <2>2 DEF ServiceInv, ServiceGrows
<1>5. CASE \E u \in User, r \in Request : Execute(u, r) /\ OfDevice(r)
  <2>1. /\ AppliedAs' /\ TripsLedgered'
        /\ \A v \in User, op \in OpId : ledger[v][op] # None => ledger'[v][op] # None
    BY <1>5, ExecutionKeeps
  <2>2. \A op \in Op : Committed(op) => Committed(op)'
    BY <2>1, OpKnown DEF Committed
  <2> QED BY <1>1, <1>2, <1>3, <2>1, <2>2 DEF ServiceInv, ServiceGrows
<1> QED BY <1>4, <1>5 DEF ServiceMoves

-----------------------------------------------------------------------------
(* Once for one account *)

\* The edges of both tables lead up, so no status is reached twice.
LEMMA EdgesGoUp ==
  ASSUME NEW t \in TripRecords, NEW target \in Status, CanAdvance(t, target)
  PROVE  Rank[target] > Rank[t.status]
<1>1. \A s \in Status : \A n \in StandardNext[s] : n \in Status => Rank[n] > Rank[s]
  BY SMTT(60) DEF StandardNext, Status, Rank
<1>2. \A c \in Configurations, s \in Status : \A n \in ProfileNext(c, s) :
        n \in Status => Rank[n] > Rank[s]
  BY SMTT(60) DEF ProfileNext, Status, Rank
<1>3. t.status \in Status /\ t.profile \in Configurations \cup {None}
  BY DEF TripRecords
<1> QED BY <1>1, <1>2, <1>3 DEF CanAdvance, ProfileAllows

(* A transition or a loading that was executed for one account is refused  *)
(* to every other: the trip has its status, or carries the operation id.   *)
LEMMA SecondIsRefused ==
  ASSUME ServiceInv, NEW u \in User, NEW r \in Request, Execute(u, r), OfDevice(r),
         r.op \in Op, r.command # "REPORT_EXCEPTION", NEW v \in User
  PROVE  ledger[v][r.op] = None
<1> SUFFICES ASSUME ledger[v][r.op] # None PROVE FALSE
  OBVIOUS
<1> DEFINE e == ledger[v][r.op]
<1>1. e \in Entries /\ e.command = r.command /\ e.request = r.trip /\ Explained(v, r.op, e)
  BY OpKnown DEF ServiceInv, TypeOK, AppliedAs, OfDevice, LedgerHolds
<1>2. r.command \in StatusCommand \cup {"RECORD_LOADING"}
  BY RequestsKnown DEF OfDevice, QueuedCommand
<1>3. e.tripId \in Existing
  BY <1>1 DEF Explained
<1> HIDE DEF e
<1>4. CASE r.command = "RECORD_LOADING"
  <2>1. r.command \in Creation
    BY <1>4 DEF Creation
  <2>2. e.tripId \in Published(r.op)
    BY <1>1, <1>3, <2>1 DEF Explained, Published
  <2> QED BY <2>1, <2>2, CommandShape DEF ServiceInv, IsFresh
<1>5. CASE r.command \in StatusCommand
  <2>1. r.command \notin Creation /\ Target[r.command] \in Status
    BY <1>5 DEF StatusCommand, Creation, Target, Status
  <2>2. /\ e.tripId = r.trip
        /\ Rank[trip[r.trip].status] >= Rank[Target[r.command]]
    BY <1>1, <1>5, <2>1 DEF Explained
  <2>3. CanAdvance(trip[r.trip], Target[r.command])
    BY <1>5 DEF Execute, DispatchTrip, RecordLoading, ImportTrip, AdvanceStatus,
                RecordCheckpoint, AssociateDriver, ReportException, StatusCommand,
                CheckpointCommand
  <2>4. trip[r.trip] \in TripRecords
    BY <1>3, <2>2 DEF ServiceInv, TypeOK, Existing
  <2>5. Rank[Target[r.command]] > Rank[trip[r.trip].status]
    BY <2>1, <2>3, <2>4, EdgesGoUp
  <2>6. Rank[Target[r.command]] \in 0 .. 9 /\ Rank[trip[r.trip].status] \in 0 .. 9
    BY <2>1, <2>4, RankIsStage DEF TripRecords
  <2> QED BY <2>2, <2>5, <2>6
<1> QED BY <1>2, <1>4, <1>5

\* AppliedOnce, without counting.
OneAccount ==
  \A op \in Op : Intent[op].command # "REPORT_EXCEPTION" =>
    \A u, v \in User : ledger[u][op] # None /\ ledger[v][op] # None => u = v

LEMMA OneAccountKept ==
  ASSUME ServiceInv, OneAccount, ServiceMoves
  PROVE  OneAccount'
<1>1. CASE UNCHANGED vars
  BY <1>1 DEF vars, OneAccount
<1>2. ASSUME NEW w \in User, NEW r \in Request, Execute(w, r), OfDevice(r)
      PROVE  OneAccount'
  <2>1. SUFFICES ASSUME NEW op \in Op, Intent[op].command # "REPORT_EXCEPTION",
                        NEW u \in User, NEW v \in User,
                        ledger'[u][op] # None, ledger'[v][op] # None
                 PROVE  u = v
    BY DEF OneAccount
  <2>2. \A x \in User : ledger'[x][op] # None => ledger[x][op] # None \/ (x = w /\ op = r.op)
    BY <1>2, ExecutionKeeps, OpKnown
  <2>3. CASE op = r.op
    <3>1. \A x \in User : ledger[x][op] = None
      BY <1>2, <2>1, <2>3, SecondIsRefused DEF OfDevice
    <3> QED BY <2>1, <2>2, <3>1
  <2>4. CASE op # r.op
    BY <2>1, <2>2, <2>4 DEF OneAccount
  <2> QED BY <2>3, <2>4
<1> QED BY <1>1, <1>2 DEF ServiceMoves

LEMMA OneAccountCounts == OneAccount => AppliedOnce
<1> SUFFICES ASSUME OneAccount, NEW op \in Op, Intent[op].command # "REPORT_EXCEPTION"
             PROVE  Cardinality({u \in User : ledger[u][op] # None}) <= 1
  BY DEF AppliedOnce
<1> DEFINE A == {u \in User : ledger[u][op] # None}
<1>1. \A u, v \in A : u = v
  BY DEF OneAccount
<1>2. A = {} \/ \E u \in A : A = {u}
  BY <1>1
<1>3. Cardinality(A) <= 1
  <2> HIDE DEF A
  <2>1. CASE A = {}
    <3>1. Cardinality({}) = 0
      BY FS_EmptySet
    <3> QED BY <2>1, <3>1
  <2>2. ASSUME NEW u \in A, A = {u} PROVE Cardinality(A) <= 1
    <3>1. Cardinality({u}) = 1
      BY FS_Singleton
    <3> QED BY <2>2, <3>1
  <2> QED BY <1>2, <2>1, <2>2
<1> QED BY <1>3

-----------------------------------------------------------------------------
(* What the service answers *)

(* An operation of the device that is acknowledged is in the ledger.       *)
LEMMA ReplayIsCommitted ==
  ASSUME ServiceInv, NEW u \in User, NEW r \in Request, r.op \in Op, IsReplay(u, r)
  PROVE  ledger[u][r.op] # None
<1>1. CASE IsLedgerReplay(u, r)
  BY <1>1 DEF IsLedgerReplay
<1>2. CASE IsLegacyReplay(u, r)
  BY <1>2 DEF IsLegacyReplay, Published, ServiceInv, TripsLedgered
<1> QED BY <1>1, <1>2 DEF IsReplay

(* An answer carries a trip that exists.                                   *)
LEMMA AnswerExists ==
  ASSUME ServiceInv, NEW u \in User, NEW r \in DeviceRequests, r.op \in Posted,
         Execute(u, r) \/ (IsReplay(u, r) /\ UNCHANGED vars)
  PROVE  AnsweredTrip(u, r) \in Existing'
<1>1. r \in Request /\ r.op \in Op /\ OfDevice(r) /\ r.op \in OpId
  BY RequestsKnown, OpKnown
<1>2. ServiceMoves
  BY <1>1 DEF ServiceMoves
<1>3. ServiceInv' /\ Existing \subseteq Existing'
  BY <1>2, ServiceKeeps DEF ServiceGrows
<1>4. Authorized(u, r)
  BY <1>1, CommandShape DEF ServiceInv, IsFresh, IsReplay, IsLedgerReplay, IsLegacyReplay
<1>5. CASE r.trip # None
  <2>1. r.command \notin Creation
    BY <1>1, <1>5, ConstantsAssumption DEF WellFormed
  <2> QED BY <1>3, <1>4, <1>5, <2>1 DEF Authorized, AnsweredTrip
<1>6. CASE r.trip = None
  <2>1. r.command \in Creation
    BY <1>1, <1>6, ConstantsAssumption, RequestTyped
  <2>2. ledger'[u][r.op] # None
    <3>1. CASE Execute(u, r)
      BY <1>1, <3>1, ExecutionKeeps
    <3>2. CASE IsReplay(u, r) /\ UNCHANGED vars
      BY <1>1, <3>2, ReplayIsCommitted DEF vars
    <3> QED BY <3>1, <3>2
  <2> DEFINE t == ledger'[u][r.op].tripId
  <2>3. t \in Existing' /\ trip'[t].clientUUID = r.op
    <3>1. ledger'[u][r.op].command = r.command
      BY <1>1, <1>3, <2>2 DEF ServiceInv, AppliedAs, OfDevice
    <3>2. Explained(u, r.op, ledger[u][r.op])'
      BY <1>1, <1>3, <2>2 DEF ServiceInv, LedgerHolds
    <3> QED BY <2>1, <3>1, <3>2 DEF Explained
  <2> HIDE DEF t
  <2>4. t \in Trip /\ trip'[t] # None /\ trip'[t].clientUUID = r.op
    BY <2>3 DEF Existing
  <2> QED BY <1>6, <2>4 DEF AnsweredTrip, Existing
<1> QED BY <1>5, <1>6

(* The presentation never runs ahead of the status it presents.            *)
LEMMA ProjectedIsBehind ==
  \A s \in Status : /\ Projected(s) \in ClientStatus
                    /\ ClientRank(Projected(s)) <= Rank[s]
  BY SMTT(60) DEF Status, Projected, ClientStatus, ClientRank, Rank

-----------------------------------------------------------------------------
(* The inductive invariant of the device *)

Phases == {"IDLE", "NEXT", "MARKED", "WAITING"}
Passes == [phase : Phases, queue : Seq(Op), retry : [Op -> Nat], amended : [Op -> BOOLEAN]]

\* What waits on the wire of a tab.
Messages == [state : {"NONE", "SENT", "OK", "DENIED"}, user : User \cup {None},
             request : DeviceRequests \cup {None}, trip : Trip \cup {None},
             status : ClientStatus \cup {None}]

Conflicts == {"OPEN", "DISMISSED"} \cup Dismissing \cup Replaying
Cells     == [status : ClientStatus \cup {None}, sync : {"PENDING", "SYNCED", None}]
Writes    == [op : Op, record : Record]

RecordsTyped ==
  /\ outbox \in [Op -> Record]
  /\ writing \in [Tab \cup {Person} -> Writes \cup {None}]
  /\ clearing \subseteq Op
  /\ clock \in Nat
  /\ queued \in 0 .. Len(Script)

BoundsTyped ==
  /\ conflict \in [Op -> SUBSET Conflicts]
  /\ signedIn \in FieldUser \cup {None}
  /\ budget \in [Hazards -> Nat]

\* A pass that is not idle has an operation it works on, and a request on
\* the wire of a tab is of that operation.
PassesTyped ==
  /\ pass \in [Tab -> Passes]
  /\ wire \in [Tab -> Messages]
  /\ \A tab \in Tab :
       /\ pass[tab].phase = "IDLE" <=> pass[tab].queue = <<>>
       /\ pass[tab].phase = "WAITING" <=> wire[tab].state # "NONE"
       /\ wire[tab].state # "NONE" =>
            /\ wire[tab].user \in User
            /\ wire[tab].request \in {Intent[Current(tab)], Amended[Current(tab)]}

\* Only what was queued is in the passes, on its way, or at odds.
QueuesPosted == \A tab \in Tab : pass[tab].queue \in Seq(Posted)

OrphansTyped == orphans \subseteq User \X {r \in DeviceRequests : r.op \in Posted}

ConflictsPosted == \A op \in Op : conflict[op] # {} => op \in Posted

\* A record exists, or existed, for what was queued.
RecordsPosted ==
  /\ \A op \in Op : outbox[op].status # "NONE" <=> op \in Posted
  /\ \A who \in Tab \cup {Person} : writing[who] # None => writing[who].op \in Posted
  /\ clearing \subseteq Posted

\* What a cached copy of trip k may show.
Truthful(k, cell) ==
  k \in Trip /\ cell.sync # "PENDING" /\ cell # Nothing =>
    /\ k \in Existing
    /\ ClientRank(cell.status) <= Rank[trip[k].status]

ViewTrue ==
  /\ view \in [Tab \cup {Disk} -> [Cached -> Cells]]
  /\ \A v \in Tab \cup {Disk}, k \in Cached : Truthful(k, view[v][k])

\* What the server has committed or a person has dismissed.
Done == Delivered \cup Dismissed

\* A record that may be put back, however late.
Sound(op, record) ==
  /\ record.status \notin {"NONE", "CLEARED"}
  /\ record.status = "SYNCED" => op \in Done

DoneKnown ==
  /\ \A op \in Op : outbox[op].status \in {"SYNCED", "CLEARED"} => op \in Done
  /\ \A who \in Tab \cup {Person} :
       writing[who] # None => Sound(writing[who].op, writing[who].record)
  /\ clearing \subseteq Done

AnswersKnown ==
  \A tab \in Tab : wire[tab].state = "OK" =>
    /\ Current(tab) \in Delivered
    /\ wire[tab].trip \in Existing
    /\ wire[tab].status \in ClientStatus
    /\ ClientRank(wire[tab].status) <= Rank[trip[wire[tab].trip].status]

OutboxInv ==
  /\ ServiceInv /\ OneAccount
  /\ RecordsTyped /\ BoundsTyped /\ PassesTyped /\ OrphansTyped
  /\ RecordsPosted /\ QueuesPosted /\ ConflictsPosted /\ Delivered \subseteq Posted
  /\ ViewTrue /\ DoneKnown /\ AnswersKnown /\ OnlyEndedTripsConflict

\* A pass that runs works on an operation of the device.
LEMMA CurrentKnown ==
  ASSUME PassesTyped, NEW tab \in Tab, pass[tab].phase # "IDLE"
  PROVE  /\ Current(tab) \in Op /\ pass[tab].queue \in Seq(Op) /\ pass[tab].queue # <<>>
         /\ pass[tab].retry[Current(tab)] \in Nat
<1>1. pass[tab] \in Passes /\ pass[tab].queue # <<>>
  BY DEF PassesTyped
<1>2. pass[tab].queue \in Seq(Op)
  BY <1>1 DEF Passes
<1>3. Current(tab) \in Op
  BY <1>1, <1>2, HeadTailProperties DEF Current
<1> QED BY <1>1, <1>2, <1>3 DEF Passes

(* What waits on the wire of a tab was queued on the device.               *)
LEMMA WireKnown ==
  ASSUME PassesTyped, QueuesPosted, NEW tab \in Tab, wire[tab].state # "NONE"
  PROVE  /\ wire[tab].user \in User
         /\ wire[tab].request \in DeviceRequests
         /\ wire[tab].request.op = Current(tab)
         /\ Current(tab) \in Op /\ Current(tab) \in Posted
<1>1. pass[tab].phase # "IDLE" /\ wire[tab].user \in User
      /\ wire[tab].request \in {Intent[Current(tab)], Amended[Current(tab)]}
  BY DEF PassesTyped
<1>2. Current(tab) \in Op /\ pass[tab].queue # <<>>
  BY <1>1, CurrentKnown
<1>3. Current(tab) \in Posted
  BY <1>2, HeadTailProperties DEF QueuesPosted, Current
<1> QED BY <1>1, <1>2, <1>3, RequestsKnown DEF DeviceRequests

(* What a step is to the service: nothing, or a command it executes.       *)
LEMMA StepMoves ==
  ASSUME PassesTyped, QueuesPosted, OrphansTyped, [OutboxNext]_allVars
  PROVE  ServiceMoves
<1>1. ASSUME NEW tab \in Tab, HandleRequest(tab) PROVE ServiceMoves
  <2>1. /\ wire[tab].user \in User /\ wire[tab].request \in DeviceRequests
        /\ wire[tab].request.op \in Posted
    BY <1>1, WireKnown DEF HandleRequest
  <2>2. UNCHANGED vars \/ Execute(wire[tab].user, wire[tab].request)
    BY <1>1 DEF HandleRequest
  <2> QED BY <2>1, <2>2, RequestsKnown DEF ServiceMoves
<1>2. ASSUME HandleOrphan PROVE ServiceMoves
  <2>1. PICK m \in orphans : UNCHANGED vars \/ Execute(m[1], m[2])
    BY <1>2 DEF HandleOrphan
  <2>2. m[1] \in User /\ m[2] \in DeviceRequests /\ m[2].op \in Posted
    BY DEF OrphansTyped
  <2> QED BY <2>1, <2>2, RequestsKnown DEF ServiceMoves
<1>3. ASSUME OfficeCommand PROVE ServiceMoves
  <2>1. PICK m \in Office : Execute(m[1], m[2])
    BY <1>3 DEF OfficeCommand
  <2>2. m[1] \in User /\ m[2] \in Request /\ m[2].op \notin Op
    BY OutboxAssumption
  <2> QED BY <2>1, <2>2 DEF ServiceMoves, OfDevice
<1>4. ASSUME UserStep \/ \E tab \in Tab : StartPass(tab) \/ PassStep(tab)
                                          \/ ConnectionLost(tab) \/ Reload(tab)
      PROVE  UNCHANGED vars
  BY <1>4 DEF UserStep, PassStep, Enqueue, StartUnloading, RefreshTrips, ReadTrip,
     RetryOperation, ClearSynced, DeleteRecord, PutRecord, SignIn, ResolveConflict,
     FinishResolution, StartPass, MarkSending, FlagConflict, SendCommand, Unauthenticated,
     Acknowledge, Refused, ConnectionLost, Reload
<1>5. UNCHANGED allVars => UNCHANGED vars
  BY DEF allVars
<1> QED BY <1>1, <1>2, <1>3, <1>4, <1>5 DEF OutboxNext, ServiceMoves

-----------------------------------------------------------------------------
(* The records of the outbox *)

\* All a step may do to the records there are: nothing; put one back; read
\* one and change the copy; read what is to be cleared; delete a record;
\* forget what was being written.
OldRecordMoves ==
  \/ UNCHANGED records
  \/ \E who \in Tab \cup {Person} :
       /\ writing[who] # None
       /\ outbox' = [outbox EXCEPT ![writing[who].op] = writing[who].record]
       /\ writing' = [writing EXCEPT ![who] = None] /\ UNCHANGED clearing
  \/ \E who \in Tab \cup {Person}, op \in Op, r \in Record :
       /\ r.status \notin {"NONE", "CLEARED"}
       /\ r.status = "SYNCED" => op \in Done'
       /\ Update(who, op, r) /\ UNCHANGED <<outbox, clearing>>
  \/ /\ clearing' = {op \in Op : outbox[op].status = "SYNCED"}
     /\ UNCHANGED <<outbox, writing>>
  \/ \E op \in clearing : /\ clearing' = clearing \ {op}
                          /\ outbox' = [outbox EXCEPT ![op].status = "CLEARED"]
                          /\ UNCHANGED writing
  \/ /\ \E lost \in SUBSET (Tab \cup {Person}) :
          writing' = [who \in Tab \cup {Person} |-> IF who \in lost THEN None ELSE writing[who]]
     /\ clearing' \in {clearing, {}} /\ UNCHANGED outbox

\* Or it queues an operation.
RecordMoves ==
  \/ \E op \in Op, r \in Record :
       /\ r.status = "PENDING" /\ op \notin Posted /\ Posted' = Posted \cup {op}
       /\ outbox' = [outbox EXCEPT ![op] = r] /\ UNCHANGED <<writing, clearing>>
  \/ UNCHANGED queued /\ OldRecordMoves

LEMMA MarkedIsRecord ==
  ASSUME RecordsTyped, NEW op \in Op, NEW status \in Statuses
  PROVE  /\ [outbox[op] EXCEPT !.status = status] \in Record
         /\ [outbox[op] EXCEPT !.status = status].status = status
BY DEF RecordsTyped, Record

LEMMA PostedGrowth ==
  ASSUME RecordsTyped, NEW tab \in Tab, Enqueue(tab)
  PROVE  /\ Script[queued + 1] \in Op \ Posted
         /\ Posted' = Posted \cup {Script[queued + 1]}
<1>1. queued \in Nat /\ queued + 1 \in 1 .. Len(Script) /\ queued' = queued + 1
  BY OutboxAssumption DEF Enqueue, RecordsTyped
<1>2. DOMAIN Script = 1 .. Len(Script) /\ Len(Script) \in Nat
  BY OutboxAssumption
<1>3. \A i \in 1 .. queued : Script[i] # Script[queued + 1]
  <2> SUFFICES ASSUME NEW i \in 1 .. queued, Script[i] = Script[queued + 1] PROVE FALSE
    OBVIOUS
  <2>1. i \in 1 .. Len(Script) /\ i # queued + 1
    BY <1>1, <1>2
  <2> QED BY <1>1, <1>2, <2>1, OutboxAssumption DEF IsInjective
<1>4. 1 .. queued + 1 = (1 .. queued) \cup {queued + 1}
  BY <1>1
<1> QED BY <1>1, <1>3, <1>4 DEF Posted, Op

LEMMA FailureMoves ==
  ASSUME RecordsTyped, PassesTyped, NEW tab \in Tab, pass[tab].phase # "IDLE",
         Fail(tab), UNCHANGED <<outbox, clearing, queued>>
  PROVE  RecordMoves
<1> DEFINE op == Current(tab)
           r  == [outbox[op] EXCEPT !.status = "FAILED", !.retry = pass[tab].retry[op] + 1]
<1>1. op \in Op /\ pass[tab].retry[op] + 1 \in Nat
  BY CurrentKnown
<1>2. r \in Record /\ r.status = "FAILED"
  BY <1>1 DEF RecordsTyped, Record, Statuses
<1>3. Update(tab, op, r)
  BY DEF Fail
<1> HIDE DEF op, r
<1> QED BY <1>1, <1>2, <1>3 DEF RecordMoves, OldRecordMoves

LEMMA MarkMoves ==
  ASSUME RecordsTyped, NEW who \in Tab \cup {Person}, NEW op \in Op,
         NEW status \in Statuses \ {"NONE", "CLEARED"}, status = "SYNCED" => op \in Done',
         Mark(who, op, status), UNCHANGED <<outbox, clearing, queued>>
  PROVE  RecordMoves
<1> DEFINE r == [outbox[op] EXCEPT !.status = status]
<1>1. r \in Record /\ r.status = status
  BY MarkedIsRecord
<1>2. Update(who, op, r)
  BY DEF Mark
<1> HIDE DEF r
<1> QED BY <1>1, <1>2 DEF RecordMoves, OldRecordMoves

(* A dismissal is final, like a commitment; conflicts, budgets and who is  *)
(* signed in stay what they may be.                                        *)
LEMMA BoundsStep ==
  ASSUME BoundsTyped, [OutboxNext]_allVars
  PROVE  /\ BoundsTyped'
         /\ \A op \in Op : "DISMISSED" \in conflict[op] => "DISMISSED" \in conflict'[op]
<1> DEFINE Bounds == <<conflict, signedIn, budget>>
<1>1. CASE UNCHANGED <<conflict, signedIn, budget>>
  BY <1>1 DEF BoundsTyped
<1>2. ASSUME NEW h \in Hazards, Spend(h), UNCHANGED <<conflict, signedIn>>
      PROVE  BoundsTyped' /\ UNCHANGED conflict
  BY <1>2 DEF Spend, BoundsTyped
<1>3. {"loss", "reload", "retry", "clear"} \subseteq Hazards
  BY DEF Hazards
<1>4. ASSUME NEW u \in FieldUser \cup {None}, SignIn(u)
      PROVE  BoundsTyped' /\ UNCHANGED conflict
  BY <1>4 DEF SignIn, Spend, BoundsTyped, Hazards
<1>5. ASSUME NEW tab \in Tab, NEW op \in Op, NEW strategy \in Dismissing \cup Replaying,
             ResolveConflict(tab, op, strategy)
      PROVE  /\ BoundsTyped'
             /\ \A o \in Op : "DISMISSED" \in conflict[o] => "DISMISSED" \in conflict'[o]
  <2>1. conflict' = [conflict EXCEPT ![op] = (@ \ {"OPEN"}) \cup {strategy}]
    BY <1>5 DEF ResolveConflict
  <2>2. signedIn' = signedIn /\ budget' \in [Hazards -> Nat]
    BY <1>5 DEF ResolveConflict, Spend, BoundsTyped, Hazards
  <2> QED BY <2>1, <2>2 DEF BoundsTyped, Conflicts
<1>6. ASSUME NEW op \in Op, NEW strategy \in Dismissing \cup Replaying,
             FinishResolution(op, strategy)
      PROVE  /\ BoundsTyped'
             /\ \A o \in Op : "DISMISSED" \in conflict[o] => "DISMISSED" \in conflict'[o]
  <2>1. \E new \in SUBSET {"DISMISSED"} :
          conflict' = [conflict EXCEPT ![op] = (@ \ {strategy}) \cup new]
    BY <1>6 DEF FinishResolution
  <2>2. strategy # "DISMISSED"
    BY DEF Dismissing, Replaying
  <2>3. UNCHANGED <<signedIn, budget>>
    BY <1>6 DEF FinishResolution
  <2> QED BY <2>1, <2>2, <2>3 DEF BoundsTyped, Conflicts
<1>7. ASSUME NEW tab \in Tab, FlagConflict(tab)
      PROVE  /\ BoundsTyped'
             /\ \A o \in Op : "DISMISSED" \in conflict[o] => "DISMISSED" \in conflict'[o]
  <2>1. /\ conflict' = [conflict EXCEPT ![Current(tab)] = @ \cup {"OPEN"}]
        /\ UNCHANGED <<signedIn, budget>>
    BY <1>7 DEF FlagConflict
  <2> QED BY <2>1 DEF BoundsTyped, Conflicts
<1>8. ASSUME UserStep
      PROVE  \/ UNCHANGED Bounds
             \/ \E h \in {"retry", "clear"} : Spend(h) /\ UNCHANGED <<conflict, signedIn>>
             \/ \E u \in FieldUser \cup {None} : SignIn(u)
             \/ \E tab \in Tab, op \in Op, strategy \in Dismissing \cup Replaying :
                  ResolveConflict(tab, op, strategy)
             \/ \E op \in Op, strategy \in Dismissing \cup Replaying :
                  FinishResolution(op, strategy)
  BY <1>8 DEF UserStep, Enqueue, StartUnloading, RefreshTrips, ReadTrip, RetryOperation,
     ClearSynced, DeleteRecord, PutRecord
<1>9. ASSUME NEW tab \in Tab, \/ StartPass(tab) \/ PassStep(tab) \/ HandleRequest(tab)
                              \/ HandleOrphan \/ OfficeCommand
      PROVE  UNCHANGED Bounds \/ FlagConflict(tab)
  BY <1>9 DEF PassStep, StartPass, MarkSending, SendCommand, Unauthenticated, Acknowledge,
     Refused, PutRecord, HandleRequest, HandleOrphan, OfficeCommand, deviceVars
<1>10. ASSUME NEW tab \in Tab, ConnectionLost(tab) \/ Reload(tab)
       PROVE  \E h \in {"loss", "reload"} : Spend(h) /\ UNCHANGED <<conflict, signedIn>>
  BY <1>10 DEF ConnectionLost, Reload
<1>11. (HandleOrphan \/ OfficeCommand \/ UNCHANGED allVars) => UNCHANGED Bounds
  BY DEF HandleOrphan, OfficeCommand, deviceVars, allVars
<1> QED
  BY <1>1, <1>2, <1>3, <1>4, <1>5, <1>6, <1>7, <1>8, <1>9, <1>10, <1>11 DEF OutboxNext

LEMMA DoneGrows ==
  ASSUME ServiceInv, BoundsTyped, PassesTyped, QueuesPosted, OrphansTyped, [OutboxNext]_allVars
  PROVE  Delivered \subseteq Delivered' /\ Done \subseteq Done'
<1>1. \A op \in Op : Committed(op) => Committed(op)'
  BY StepMoves, ServiceKeeps DEF ServiceGrows
<1> QED BY <1>1, BoundsStep DEF Delivered, Dismissed, Done

(* Every step treats the records in one of these ways.  What is marked     *)
(* SYNCED was acknowledged, or is dismissed by the same step.              *)
LEMMA RecordsMove ==
  ASSUME OutboxInv, [OutboxNext]_allVars
  PROVE  RecordMoves
<1> USE DEF OutboxInv
<1>1. CASE UNCHANGED <<records, queued>>
  BY <1>1 DEF RecordMoves, OldRecordMoves
<1>2. ASSUME NEW tab \in Tab, Enqueue(tab) PROVE RecordMoves
  <2>1. PICK time \in {clock, clock + 1} :
          outbox' = [outbox EXCEPT ![Script[queued + 1]] =
                       [status |-> "PENDING", retry |-> 0, created |-> time, amended |-> FALSE]]
    BY <1>2 DEF Enqueue
  <2>2. /\ Script[queued + 1] \in Op \ Posted
        /\ Posted' = Posted \cup {Script[queued + 1]}
    BY <1>2, PostedGrowth
  <2>4. UNCHANGED <<writing, clearing>>
    BY <1>2 DEF Enqueue
  <2>3. [status |-> "PENDING", retry |-> 0, created |-> time, amended |-> FALSE] \in Record
    BY DEF RecordsTyped, Record, Statuses
  <2> QED BY <2>1, <2>2, <2>3, <2>4 DEF RecordMoves
<1>3. ASSUME NEW op \in Op, RetryOperation(op) PROVE RecordMoves
  <2>1. Mark(Person, op, "PENDING") /\ UNCHANGED <<outbox, clearing, queued>>
    BY <1>3 DEF RetryOperation
  <2> QED BY <2>1, MarkMoves DEF Statuses
<1>4. CASE ClearSynced
  BY <1>4 DEF ClearSynced, RecordMoves, OldRecordMoves
<1>5. ASSUME NEW op \in Op, DeleteRecord(op) PROVE RecordMoves
  BY <1>5 DEF DeleteRecord, RecordMoves, OldRecordMoves
<1>6. ASSUME NEW who \in Tab \cup {Person}, PutRecord(who) PROVE RecordMoves
  BY <1>6 DEF PutRecord, RecordMoves, OldRecordMoves
<1>7. ASSUME NEW op \in Op, NEW strategy \in Dismissing \cup Replaying,
             FinishResolution(op, strategy)
      PROVE  RecordMoves
  <2>1. UNCHANGED <<outbox, clearing, queued>>
    BY <1>7 DEF FinishResolution
  <2>2. CASE strategy \in Dismissing
    <3>1. "DISMISSED" \in conflict'[op]
      BY <1>7, <2>2 DEF FinishResolution, BoundsTyped
    <3>2. Mark(Person, op, "SYNCED")
      BY <1>7, <2>2 DEF FinishResolution
    <3> QED BY <2>1, <3>1, <3>2, MarkMoves DEF Done, Dismissed, Statuses
  <2>3. CASE strategy \notin Dismissing
    <3> DEFINE r == [outbox[op] EXCEPT !.status = "PENDING", !.retry = 0,
                       !.amended = @ \/ strategy = "UPDATE_MASTER_DATA_RELATION"]
    <3>1. Update(Person, op, r)
      BY <1>7, <2>3 DEF FinishResolution
    <3>2. r \in Record /\ r.status = "PENDING"
      BY DEF RecordsTyped, Record, Statuses
    <3> HIDE DEF r
    <3> QED BY <2>1, <3>1, <3>2 DEF RecordMoves, OldRecordMoves
  <2> QED BY <2>2, <2>3
<1>8. ASSUME NEW tab \in Tab, MarkSending(tab) PROVE RecordMoves
  <2>1. /\ pass[tab].phase # "IDLE" /\ Mark(tab, Current(tab), "SENDING")
        /\ UNCHANGED <<outbox, clearing, queued>>
    BY <1>8 DEF MarkSending
  <2> QED BY <2>1, CurrentKnown, MarkMoves DEF Statuses
<1>9. ASSUME NEW tab \in Tab, FlagConflict(tab) PROVE RecordMoves
  <2>1. /\ pass[tab].phase # "IDLE" /\ Mark(tab, Current(tab), "CONFLICT")
        /\ UNCHANGED <<outbox, clearing, queued>>
    BY <1>9 DEF FlagConflict
  <2> QED BY <2>1, CurrentKnown, MarkMoves DEF Statuses
<1>10. ASSUME NEW tab \in Tab, Unauthenticated(tab) \/ Refused(tab) \/ ConnectionLost(tab)
       PROVE  RecordMoves
  <2>1. Fail(tab) /\ UNCHANGED <<outbox, clearing, queued>>
    BY <1>10 DEF Unauthenticated, Refused, ConnectionLost
  <2>2. pass[tab].phase = "MARKED" \/ wire[tab].state # "NONE"
    BY <1>10 DEF Unauthenticated, Refused, ConnectionLost
  <2>3. pass[tab].phase # "IDLE"
    BY <2>2 DEF PassesTyped
  <2> QED BY <2>1, <2>3, FailureMoves
<1>11. ASSUME NEW tab \in Tab, Acknowledge(tab) PROVE RecordMoves
  <2>1. /\ wire[tab].state = "OK" /\ Mark(tab, Current(tab), "SYNCED")
        /\ UNCHANGED <<outbox, clearing, queued>>
    BY <1>11 DEF Acknowledge
  <2>2. Current(tab) \in Op /\ Current(tab) \in Done
    BY <2>1, CurrentKnown DEF PassesTyped, AnswersKnown, Done
  <2> QED BY <2>1, <2>2, DoneGrows, MarkMoves DEF Statuses
<1>12. ASSUME NEW tab \in Tab, Reload(tab) PROVE RecordMoves
  <2>1. clearing' \in {clearing, {}} /\ UNCHANGED <<outbox, queued>>
    BY <1>12 DEF Reload
  <2>2. PICK lost \in SUBSET (Tab \cup {Person}) :
          writing' = [who \in Tab \cup {Person} |-> IF who \in lost THEN None ELSE writing[who]]
    <3>1. CASE writing' = [writing EXCEPT ![tab] = None]
      <4>1. writing' = [who \in Tab \cup {Person} |-> IF who \in {tab} THEN None
                                                                      ELSE writing[who]]
        BY <3>1 DEF RecordsTyped
      <4> QED BY <4>1
    <3>2. CASE writing' = [writing EXCEPT ![tab] = None, ![Person] = None]
      <4>1. writing' = [who \in Tab \cup {Person} |-> IF who \in {tab, Person} THEN None
                                                                      ELSE writing[who]]
        BY <3>2 DEF RecordsTyped
      <4> QED BY <4>1
    <3> QED BY <1>12, <3>1, <3>2 DEF Reload
  <2> QED BY <2>1, <2>2 DEF RecordMoves, OldRecordMoves
<1>13. ASSUME \/ \E tab \in Tab, t \in Trip : StartUnloading(tab, t)
              \/ \E tab \in Tab : \/ RefreshTrips(tab) \/ StartPass(tab) \/ SendCommand(tab)
                                  \/ HandleRequest(tab)
              \/ \E tab \in Tab, k \in Cached : ReadTrip(tab, k)
              \/ \E u \in FieldUser \cup {None} : SignIn(u)
              \/ \E tab \in Tab, op \in Op, strategy \in Dismissing \cup Replaying :
                   ResolveConflict(tab, op, strategy)
              \/ HandleOrphan \/ OfficeCommand \/ UNCHANGED allVars
       PROVE  UNCHANGED <<records, queued>>
  BY <1>13 DEF StartUnloading, RefreshTrips, ReadTrip, SignIn, ResolveConflict, StartPass,
     SendCommand, HandleRequest, HandleOrphan, OfficeCommand, deviceVars, allVars
<1> QED
  BY <1>1, <1>2, <1>3, <1>4, <1>5, <1>6, <1>7, <1>8, <1>9, <1>10, <1>11, <1>12, <1>13
  DEF OutboxNext, UserStep, PassStep

(* The clock and the script only move when an operation is queued.         *)
LEMMA ScriptStep ==
  ASSUME RecordsTyped, [OutboxNext]_allVars
  PROVE  clock' \in Nat /\ queued' \in 0 .. Len(Script) /\ queued <= queued'
<1>1. ASSUME NEW tab \in Tab, Enqueue(tab)
      PROVE  clock' \in Nat /\ queued' \in 0 .. Len(Script) /\ queued <= queued'
  <2>1. clock' \in {clock, clock + 1} /\ queued < Len(Script) /\ queued' = queued + 1
    BY <1>1 DEF Enqueue
  <2> QED BY <2>1, OutboxAssumption DEF RecordsTyped
<1>2. ASSUME UserStep PROVE (\E tab \in Tab : Enqueue(tab)) \/ UNCHANGED <<clock, queued>>
  BY <1>2 DEF UserStep, StartUnloading, RefreshTrips, ReadTrip, RetryOperation, ClearSynced,
     DeleteRecord, PutRecord, SignIn, ResolveConflict, FinishResolution
<1>3. ASSUME OutboxNext, ~UserStep PROVE UNCHANGED <<clock, queued>>
  BY <1>3 DEF OutboxNext, PassStep, StartPass, MarkSending, FlagConflict, SendCommand,
     Unauthenticated, Acknowledge, Refused, PutRecord, ConnectionLost, Reload, HandleRequest,
     HandleOrphan, OfficeCommand, deviceVars
<1>4. UNCHANGED allVars => UNCHANGED <<clock, queued>>
  BY DEF allVars, deviceVars
<1>5. UNCHANGED <<clock, queued>> => clock' \in Nat /\ queued' \in 0 .. Len(Script) /\ queued <= queued'
  BY DEF RecordsTyped
<1> QED BY <1>1, <1>2, <1>3, <1>4, <1>5

LEMMA RecordsStep ==
  ASSUME RecordsTyped, RecordMoves, clock' \in Nat, queued' \in 0 .. Len(Script)
  PROVE  RecordsTyped'
<1> USE DEF RecordsTyped
<1>1. CASE UNCHANGED records
  BY <1>1 DEF records
<1>2. ASSUME NEW op \in Op, NEW r \in Record, outbox' = [outbox EXCEPT ![op] = r],
             UNCHANGED <<writing, clearing>>
      PROVE  RecordsTyped'
  BY <1>2
<1>3. ASSUME NEW who \in Tab \cup {Person}, writing[who] # None,
             outbox' = [outbox EXCEPT ![writing[who].op] = writing[who].record],
             writing' = [writing EXCEPT ![who] = None], UNCHANGED clearing
      PROVE  RecordsTyped'
  <2>1. writing[who].record \in Record
    BY <1>3 DEF Writes
  <2> QED BY <1>3, <2>1
<1>4. ASSUME NEW who \in Tab \cup {Person}, NEW op \in Op, NEW r \in Record,
             Update(who, op, r), UNCHANGED <<outbox, clearing>>
      PROVE  RecordsTyped'
  BY <1>4 DEF Update, Writes
<1>5. CASE clearing' = {op \in Op : outbox[op].status = "SYNCED"} /\ UNCHANGED <<outbox, writing>>
  BY <1>5
<1>6. ASSUME NEW op \in clearing, clearing' = clearing \ {op},
             outbox' = [outbox EXCEPT ![op].status = "CLEARED"], UNCHANGED writing
      PROVE  RecordsTyped'
  <2>1. [outbox[op] EXCEPT !.status = "CLEARED"] \in Record
    BY MarkedIsRecord DEF Statuses
  <2> QED BY <1>6, <2>1
<1>7. ASSUME NEW lost \in SUBSET (Tab \cup {Person}),
             writing' = [who \in Tab \cup {Person} |-> IF who \in lost THEN None
                                                                     ELSE writing[who]],
             clearing' \in {clearing, {}}, UNCHANGED outbox
      PROVE  RecordsTyped'
  BY <1>7
<1> QED BY <1>1, <1>2, <1>3, <1>4, <1>5, <1>6, <1>7 DEF RecordMoves, OldRecordMoves

(* What is SYNCED, about to be put back as SYNCED, or about to be cleared, *)
(* is done, and a record that disappears is done.                          *)
LEMMA DoneStep ==
  ASSUME RecordsTyped, DoneKnown, RecordMoves, Done \subseteq Done'
  PROVE  /\ DoneKnown'
         /\ \A op \in Op : Present(op) /\ ~Present(op)' => op \in Done
<1> USE DEF RecordsTyped, DoneKnown
<1> DEFINE Kept == \A op \in Op : Present(op) /\ ~Present(op)' => op \in Done
<1>1. CASE UNCHANGED records
  BY <1>1 DEF records, Sound, Present
<1>2. ASSUME NEW op \in Op, NEW r \in Record, r.status = "PENDING",
             outbox' = [outbox EXCEPT ![op] = r], UNCHANGED <<writing, clearing>>
      PROVE  DoneKnown' /\ Kept
  BY <1>2 DEF Sound, Present
<1>3. ASSUME NEW who \in Tab \cup {Person}, writing[who] # None,
             outbox' = [outbox EXCEPT ![writing[who].op] = writing[who].record],
             writing' = [writing EXCEPT ![who] = None], UNCHANGED clearing
      PROVE  DoneKnown' /\ Kept
  <2>1. Sound(writing[who].op, writing[who].record)
    BY <1>3
  <2>2. \A op \in Op : outbox'[op] = outbox[op] \/ Sound(op, outbox'[op])
    BY <1>3, <2>1
  <2>3. \A x \in Tab \cup {Person} : writing'[x] # None => writing'[x] = writing[x]
    BY <1>3
  <2> QED BY <1>3, <2>2, <2>3 DEF Sound, Present
<1>4. ASSUME NEW who \in Tab \cup {Person}, NEW op \in Op, NEW r \in Record,
             r.status \notin {"NONE", "CLEARED"}, r.status = "SYNCED" => op \in Done',
             Update(who, op, r), UNCHANGED <<outbox, clearing>>
      PROVE  DoneKnown' /\ Kept
  <2>1. \A x \in Tab \cup {Person} :
          writing'[x] = None \/ writing'[x] = writing[x] \/ writing'[x] = [op |-> op, record |-> r]
    BY <1>4 DEF Update
  <2>2. SUFFICES ASSUME NEW x \in Tab \cup {Person}, writing'[x] # None
                 PROVE  /\ writing'[x].record.status \notin {"NONE", "CLEARED"}
                        /\ writing'[x].record.status = "SYNCED" => writing'[x].op \in Done'
    BY <1>4 DEF Sound, Present
  <2>3. CASE writing'[x] = writing[x]
    BY <2>2, <2>3 DEF Sound
  <2>4. CASE writing'[x] = [op |-> op, record |-> r]
    BY <1>4, <2>4
  <2> QED BY <2>1, <2>2, <2>3, <2>4
<1>5. CASE clearing' = {op \in Op : outbox[op].status = "SYNCED"} /\ UNCHANGED <<outbox, writing>>
  BY <1>5 DEF Sound, Present
<1>6. ASSUME NEW op \in clearing, clearing' = clearing \ {op},
             outbox' = [outbox EXCEPT ![op].status = "CLEARED"], UNCHANGED writing
      PROVE  DoneKnown' /\ Kept
  <2>1. \A o \in Op : outbox'[o] = outbox[o] \/ (o = op /\ outbox'[o].status = "CLEARED")
    BY <1>6 DEF Record
  <2> QED BY <1>6, <2>1 DEF Sound, Present
<1>7. ASSUME NEW lost \in SUBSET (Tab \cup {Person}),
             writing' = [who \in Tab \cup {Person} |-> IF who \in lost THEN None
                                                                     ELSE writing[who]],
             clearing' \in {clearing, {}}, UNCHANGED outbox
      PROVE  DoneKnown' /\ Kept
  BY <1>7 DEF Sound, Present
<1> QED BY <1>1, <1>2, <1>3, <1>4, <1>5, <1>6, <1>7 DEF RecordMoves, OldRecordMoves

-----------------------------------------------------------------------------
(* Passes and requests *)

LEMMA IdleTyped == Idle \in Passes /\ Silent \in Messages
BY DEF Idle, Passes, Phases, Silent, Messages

(* The snapshot of a pass lists operations of the device, one at least.    *)
LEMMA SnapshotTyped ==
  ASSUME Sendable # {}, NEW q \in SetToSeqs(Sendable)
  PROVE  q \in Seq(Sendable) /\ q \in Seq(Op) /\ q # <<>>
<1>1. IsFiniteSet(Op)
  <2>1. Len(Script) \in Nat /\ DOMAIN Script = 1 .. Len(Script)
    BY OutboxAssumption
  <2>2. IsFiniteSet(1 .. Len(Script))
    BY <2>1, FS_Interval
  <2> DEFINE f == [i \in 1 .. Len(Script) |-> Script[i]]
  <2>3. f \in Surjection(1 .. Len(Script), Op)
    BY DEF Op, Surjection
  <2> QED BY <2>2, <2>3, FS_Surjection
<1>2. Sendable \subseteq Op
  BY DEF Sendable
<1>3. Cardinality(Sendable) \in Nat /\ Cardinality(Sendable) # 0
  BY <1>1, <1>2, FS_Subset, FS_CardinalityType, FS_EmptySet
<1>4. q \in [1 .. Cardinality(Sendable) -> Sendable]
  BY DEF SetToSeqs
<1>5. q \in Seq(Sendable) /\ Len(q) = Cardinality(Sendable)
  BY <1>3, <1>4
<1> QED BY <1>2, <1>3, <1>5

(* After an operation the pass has another one, or is over.                *)
LEMMA ProceedTyped ==
  ASSUME PassesTyped, NEW tab \in Tab, pass[tab].phase # "IDLE", Proceed(tab),
         wire' \in {wire, [wire EXCEPT ![tab] = Silent]}, wire'[tab].state = "NONE"
  PROVE  PassesTyped'
<1> DEFINE q == pass[tab].queue
<1>1. q \in Seq(Op) /\ q # <<>> /\ pass[tab] \in Passes
  BY CurrentKnown DEF PassesTyped
<1>2. Len(q) # 1 => Tail(q) \in Seq(Op) /\ Tail(q) # <<>>
  <2> HIDE DEF q
  <2>1. Tail(q) \in Seq(Op) /\ Len(Tail(q)) = Len(q) - 1
    BY <1>1, HeadTailProperties
  <2>2. Len(q) \in Nat
    BY <1>1, LenProperties
  <2>3. Len(<<>>) = 0
    BY EmptySeq
  <2>4. Tail(q) = <<>> => Len(Tail(q)) = 0
    BY <2>3, Zenon
  <2> QED BY <2>1, <2>2, <2>4
<1>3. pass'[tab] \in Passes /\ (pass'[tab].phase = "IDLE" <=> pass'[tab].queue = <<>>)
      /\ pass'[tab].phase # "WAITING"
  <2>1. CASE Len(q) = 1
    <3>1. pass'[tab] = Idle
      BY <2>1 DEF Proceed, PassesTyped
    <3> QED BY <3>1, IdleTyped DEF Idle
  <2>2. CASE Len(q) # 1
    <3>1. pass'[tab] = [pass[tab] EXCEPT !.phase = "NEXT", !.queue = Tail(q)]
      BY <2>2 DEF Proceed, PassesTyped
    <3> HIDE DEF q
    <3> QED BY <1>1, <1>2, <2>2, <3>1 DEF Passes, Phases
  <2> QED BY <2>1, <2>2
<1>4. pass' \in [Tab -> Passes] /\ \A o \in Tab \ {tab} : pass'[o] = pass[o]
  BY <1>3 DEF Proceed, PassesTyped
<1>5. wire' \in [Tab -> Messages] /\ \A o \in Tab \ {tab} : wire'[o] = wire[o]
  BY IdleTyped DEF PassesTyped
<1> QED BY <1>3, <1>4, <1>5 DEF PassesTyped, Current

(* A tab's answer names its trip and the status the trip has.              *)
LEMMA AnswerGiven ==
  ASSUME ServiceInv, PassesTyped, QueuesPosted, NEW tab \in Tab, HandleRequest(tab)
  PROVE  \/ wire' = [wire EXCEPT ![tab].state = "DENIED"]
         \/ \E t \in Existing' :
              /\ wire' = [wire EXCEPT ![tab] =
                            [wire[tab] EXCEPT !.state = "OK", !.trip = t,
                                              !.status = Projected(trip'[t].status)]]
              /\ Current(tab) \in Delivered'
<1> DEFINE u == wire[tab].user
           r == wire[tab].request
<1>1. wire[tab].state # "NONE"
  BY DEF HandleRequest
<1>2. u \in User /\ Current(tab) \in Op
  BY <1>1, WireKnown
<1>3. r \in DeviceRequests /\ r.op = Current(tab) /\ r.op \in Posted
  BY <1>1, WireKnown
<1>4. r \in Request /\ r.op \in Op /\ OfDevice(r) /\ r.op \in OpId
  BY <1>3, RequestsKnown, OpKnown
<1>5. \/ wire' = [wire EXCEPT ![tab].state = "DENIED"]
      \/ /\ Execute(u, r) \/ (IsReplay(u, r) /\ UNCHANGED vars)
         /\ wire' = [wire EXCEPT ![tab] =
                       [wire[tab] EXCEPT !.state = "OK", !.trip = AnsweredTrip(u, r),
                          !.status = Projected(trip'[AnsweredTrip(u, r)].status)]]
  BY DEF HandleRequest
<1> HIDE DEF u, r
<1>6. ASSUME Execute(u, r) \/ (IsReplay(u, r) /\ UNCHANGED vars)
      PROVE  ledger'[u][r.op] # None /\ AnsweredTrip(u, r) \in Existing'
  <2>1. Execute(u, r) => ledger'[u][r.op] # None
    BY <1>2, <1>4, ExecutionKeeps
  <2>2. IsReplay(u, r) /\ UNCHANGED vars => ledger'[u][r.op] # None
    BY <1>2, <1>4, ReplayIsCommitted DEF vars
  <2> QED BY <1>2, <1>3, <1>6, <2>1, <2>2, AnswerExists
<1>7. Current(tab) \in Delivered' <=> \E v \in User : ledger'[v][Current(tab)] # None
  BY <1>2 DEF Delivered, Committed
<1> QED BY <1>2, <1>3, <1>5, <1>6, <1>7

\* An answer that is new, or was there with the operation it is for.
Answered(tab, t) ==
  /\ wire'[tab].state = "OK" /\ wire'[tab].trip = t
  /\ wire'[tab].status = Projected(trip'[t].status)
  /\ pass'[tab] = pass[tab] /\ Current(tab) \in Delivered'

LEMMA PassesStep ==
  ASSUME ServiceInv, PassesTyped, QueuesPosted, BoundsTyped, RecordsTyped, OrphansTyped,
         [OutboxNext]_allVars
  PROVE  /\ PassesTyped'
         /\ \A tab \in Tab : wire'[tab].state = "OK" =>
              \/ wire'[tab] = wire[tab] /\ pass'[tab] = pass[tab]
              \/ \E t \in Existing' : Answered(tab, t)
<1> DEFINE Old(tab) == wire'[tab] = wire[tab] /\ pass'[tab] = pass[tab]
           Answers == \A tab \in Tab : wire'[tab].state = "OK" =>
                        Old(tab) \/ \E t \in Existing' : Answered(tab, t)
<1>1. ASSUME UNCHANGED <<pass, wire>> PROVE PassesTyped' /\ Answers
  BY <1>1 DEF PassesTyped, Current
<1>2. ASSUME NEW tab \in Tab, NEW p \in Passes, p.phase \in {"NEXT", "MARKED"}, p.queue # <<>>,
             pass[tab].phase # "WAITING", pass' = [pass EXCEPT ![tab] = p], wire' = wire
      PROVE  PassesTyped' /\ Answers
  BY <1>2 DEF PassesTyped, Current
<1>3. ASSUME NEW tab \in Tab, StartPass(tab) PROVE PassesTyped' /\ Answers
  <2>1. PICK q \in SetToSeqs(Sendable) :
          pass' = [pass EXCEPT ![tab] = [phase |-> "NEXT", queue |-> q,
                                         retry |-> [op \in Op |-> outbox[op].retry],
                                         amended |-> [op \in Op |-> outbox[op].amended]]]
    BY <1>3 DEF StartPass
  <2> DEFINE p == [phase |-> "NEXT", queue |-> q, retry |-> [op \in Op |-> outbox[op].retry],
                   amended |-> [op \in Op |-> outbox[op].amended]]
  <2>2. q \in Seq(Op) /\ q # <<>>
    BY <1>3, SnapshotTyped DEF StartPass
  <2>3. p \in Passes
    BY <2>2 DEF Passes, Phases, RecordsTyped, Record
  <2>4. p.phase = "NEXT" /\ p.queue # <<>>
    BY <2>2
  <2>5. pass[tab].phase # "WAITING" /\ wire' = wire
    BY <1>3 DEF StartPass, Idle
  <2>6. pass' = [pass EXCEPT ![tab] = p]
    BY <2>1
  <2> HIDE DEF p
  <2> QED BY <1>2, <2>3, <2>4, <2>5, <2>6
<1>4. ASSUME NEW tab \in Tab, MarkSending(tab) PROVE PassesTyped' /\ Answers
  <2> DEFINE p == [pass[tab] EXCEPT !.phase = "MARKED"]
  <2>1. pass[tab].phase = "NEXT" /\ wire' = wire /\ pass' = [pass EXCEPT ![tab] = p]
    BY <1>4 DEF MarkSending
  <2>2. p \in Passes /\ p.phase = "MARKED" /\ p.queue = pass[tab].queue
    BY DEF PassesTyped, Passes, Phases
  <2> HIDE DEF p
  <2>3. p.queue # <<>>
    BY <2>1, <2>2, CurrentKnown
  <2> QED BY <1>2, <2>1, <2>2, <2>3
<1>5. ASSUME NEW tab \in Tab, SendCommand(tab) PROVE PassesTyped' /\ Answers
  <2> DEFINE r == IF pass[tab].amended[Current(tab)] THEN Amended[Current(tab)]
                                                     ELSE Intent[Current(tab)]
             m == [Silent EXCEPT !.state = "SENT", !.user = signedIn, !.request = r]
             p == [pass[tab] EXCEPT !.phase = "WAITING"]
  <2>1. /\ pass[tab].phase = "MARKED" /\ signedIn # None
        /\ wire' = [wire EXCEPT ![tab] = m] /\ pass' = [pass EXCEPT ![tab] = p]
    BY <1>5 DEF SendCommand
  <2>2. Current(tab) \in Op /\ pass[tab].queue # <<>>
    BY <2>1, CurrentKnown
  <2>3. r \in DeviceRequests /\ r \in {Intent[Current(tab)], Amended[Current(tab)]}
    BY <2>2 DEF DeviceRequests
  <2>4. signedIn \in User
    BY <2>1, OutboxAssumption DEF BoundsTyped
  <2> HIDE DEF r
  <2>5. m \in Messages /\ m.state = "SENT" /\ m.user \in User /\ m.request = r
    BY <2>3, <2>4 DEF Silent, Messages
  <2>6. p \in Passes /\ p.phase = "WAITING" /\ p.queue = pass[tab].queue
    BY DEF PassesTyped, Passes, Phases
  <2> HIDE DEF m, p
  <2> QED BY <2>1, <2>2, <2>3, <2>5, <2>6 DEF PassesTyped, Current
<1>6. ASSUME NEW tab \in Tab, \/ FlagConflict(tab) \/ Unauthenticated(tab) \/ Acknowledge(tab)
                              \/ Refused(tab) \/ ConnectionLost(tab)
      PROVE  PassesTyped' /\ Answers
  <2>1. /\ Proceed(tab) /\ pass[tab].phase # "IDLE"
        /\ \/ pass[tab].phase = "MARKED" /\ wire' = wire
           \/ wire' = [wire EXCEPT ![tab] = Silent]
    BY <1>6 DEF FlagConflict, Unauthenticated, Acknowledge, Refused, ConnectionLost, PassesTyped
  <2>2. wire'[tab].state = "NONE" /\ \A o \in Tab \ {tab} : wire'[o] = wire[o]
    BY <2>1 DEF PassesTyped, Silent
  <2>3. \A o \in Tab \ {tab} : pass'[o] = pass[o]
    BY <2>1 DEF Proceed, PassesTyped
  <2>4. PassesTyped'
    BY <2>1, <2>2, ProceedTyped
  <2> QED BY <2>2, <2>3, <2>4
<1>7. ASSUME NEW tab \in Tab, Reload(tab) PROVE PassesTyped' /\ Answers
  <2>1. pass' = [pass EXCEPT ![tab] = Idle] /\ wire' = [wire EXCEPT ![tab] = Silent]
    BY <1>7 DEF Reload
  <2>2. Idle.phase = "IDLE" /\ Idle.queue = <<>> /\ Silent.state = "NONE"
    BY DEF Idle, Silent
  <2> QED BY <2>1, <2>2, IdleTyped DEF PassesTyped, Current
<1>8. ASSUME NEW tab \in Tab, HandleRequest(tab) PROVE PassesTyped' /\ Answers
  <2>1. pass' = pass /\ wire[tab].state = "SENT" /\ wire[tab] \in Messages
    BY <1>8 DEF HandleRequest, PassesTyped
  <2>2. CASE wire' = [wire EXCEPT ![tab].state = "DENIED"]
    BY <2>1, <2>2 DEF PassesTyped, Messages, Current
  <2>3. ASSUME NEW t \in Existing', Current(tab) \in Delivered',
               wire' = [wire EXCEPT ![tab] = [wire[tab] EXCEPT !.state = "OK", !.trip = t,
                                                !.status = Projected(trip'[t].status)]]
        PROVE  PassesTyped' /\ Answers
    <3> DEFINE m == [wire[tab] EXCEPT !.state = "OK", !.trip = t,
                                      !.status = Projected(trip'[t].status)]
    <3>1. t \in Trip /\ Projected(trip'[t].status) \in ClientStatus
      <4>1. ServiceInv'
        BY StepMoves, ServiceKeeps
      <4>2. t \in Trip /\ trip'[t] \in TripRecords
        BY <4>1 DEF Existing, ServiceInv, TypeOK
      <4> QED BY <4>2, ProjectedIsBehind DEF TripRecords
    <3>2. /\ m \in Messages /\ m.state = "OK" /\ m.trip = t
          /\ m.status = Projected(trip'[t].status)
          /\ m.user = wire[tab].user /\ m.request = wire[tab].request
      BY <2>1, <3>1 DEF Messages
    <3>3. wire' = [wire EXCEPT ![tab] = m]
      BY <2>3
    <3> HIDE DEF m
    <3>4. PassesTyped'
      BY <2>1, <3>2, <3>3 DEF PassesTyped, Current
    <3>5. Answered(tab, t)
      BY <2>1, <2>3, <3>2, <3>3 DEF Answered, PassesTyped
    <3>6. \A o \in Tab \ {tab} : Old(o)
      BY <2>1, <3>3 DEF PassesTyped
    <3> QED BY <3>4, <3>5, <3>6
  <2> QED BY <1>8, <2>2, <2>3, AnswerGiven
<1>9. ASSUME UserStep \/ HandleOrphan \/ OfficeCommand \/ UNCHANGED allVars
             \/ \E tab \in Tab : PutRecord(tab)
      PROVE  UNCHANGED <<pass, wire>>
  BY <1>9 DEF UserStep, Enqueue, StartUnloading, RefreshTrips, ReadTrip, RetryOperation,
     ClearSynced, DeleteRecord, PutRecord, SignIn, ResolveConflict, FinishResolution,
     HandleOrphan, OfficeCommand, deviceVars, allVars
<1> HIDE DEF Answers
<1>10. PassesTyped' /\ Answers
  BY <1>1, <1>3, <1>4, <1>5, <1>6, <1>7, <1>8, <1>9 DEF OutboxNext, PassStep
<1> QED BY <1>10 DEF Answers

LEMMA RanksAreNumbers ==
  /\ \A s \in Status : Rank[s] \in 0 .. 9
  /\ \A s : ClientRank(s) \in 0 .. 9
<1>1. \A s \in Status : Rank[s] \in 0 .. 9
  BY RankIsStage
<1>2. \A s : ClientRank(s) \in 0 .. 9
  BY DEF ClientRank
<1> QED BY <1>1, <1>2

(* The service goes forward only: what was behind it stays behind.         *)
LEMMA StaysBehind ==
  ASSUME ServiceInv, ServiceMoves, NEW t \in Existing, NEW s,
         ClientRank(s) <= Rank[trip[t].status]
  PROVE  t \in Existing' /\ ClientRank(s) <= Rank[trip'[t].status]
<1>1. /\ t \in Existing' /\ Rank[trip'[t].status] >= Rank[trip[t].status]
      /\ ServiceInv'
  BY ServiceKeeps DEF ServiceGrows
<1>2. trip[t] \in TripRecords /\ trip'[t] \in TripRecords
  BY <1>1 DEF ServiceInv, TypeOK, Existing
<1>3. trip[t].status \in Status /\ trip'[t].status \in Status
  BY <1>2 DEF TripRecords
<1> QED BY <1>1, <1>3, RanksAreNumbers

LEMMA AnswersStep ==
  ASSUME ServiceInv, ServiceMoves, PassesTyped, AnswersKnown, Delivered \subseteq Delivered',
         \A tab \in Tab : wire'[tab].state = "OK" =>
           \/ wire'[tab] = wire[tab] /\ pass'[tab] = pass[tab]
           \/ \E t \in Existing' : Answered(tab, t)
  PROVE  AnswersKnown'
<1> SUFFICES ASSUME NEW tab \in Tab, wire'[tab].state = "OK"
             PROVE  /\ Head(pass'[tab].queue) \in Delivered'
                    /\ wire'[tab].trip \in Existing'
                    /\ wire'[tab].status \in ClientStatus
                    /\ ClientRank(wire'[tab].status) <= Rank[trip'[wire'[tab].trip].status]
  BY DEF AnswersKnown, Current
<1>1. CASE wire'[tab] = wire[tab] /\ pass'[tab] = pass[tab]
  <2>1. /\ Current(tab) \in Delivered /\ wire[tab].trip \in Existing
        /\ wire[tab].status \in ClientStatus
        /\ ClientRank(wire[tab].status) <= Rank[trip[wire[tab].trip].status]
    BY <1>1 DEF AnswersKnown
  <2> QED BY <1>1, <2>1, StaysBehind DEF Current
<1>2. ASSUME NEW t \in Existing', Answered(tab, t)
      PROVE  /\ Head(pass'[tab].queue) \in Delivered'
             /\ wire'[tab].trip \in Existing'
             /\ wire'[tab].status \in ClientStatus
             /\ ClientRank(wire'[tab].status) <= Rank[trip'[wire'[tab].trip].status]
  <2>1. trip'[t] \in TripRecords
    BY ServiceKeeps DEF ServiceInv, TypeOK, Existing
  <2>2. trip'[t].status \in Status
    BY <2>1 DEF TripRecords
  <2> QED BY <1>2, <2>2, ProjectedIsBehind DEF Answered, Current
<1> QED BY <1>1, <1>2

-----------------------------------------------------------------------------
(* Only what was queued *)

LEMMA PostedGrows ==
  ASSUME RecordsTyped, [OutboxNext]_allVars
  PROVE  Posted \subseteq Posted'
<1>1. queued \in Nat /\ queued' \in Nat /\ queued <= queued'
  BY ScriptStep, OutboxAssumption DEF RecordsTyped
<1>2. 1 .. queued \subseteq 1 .. queued'
  BY <1>1
<1> QED BY <1>2 DEF Posted

LEMMA RecordsPostedStep ==
  ASSUME RecordsTyped, DoneKnown, RecordsPosted, RecordMoves
  PROVE  RecordsPosted'
<1> USE DEF RecordsTyped, RecordsPosted
<1>1. ASSUME NEW op \in Op, NEW r \in Record, r.status = "PENDING", op \notin Posted,
             Posted' = Posted \cup {op}, outbox' = [outbox EXCEPT ![op] = r],
             UNCHANGED <<writing, clearing>>
      PROVE  RecordsPosted'
  <2>1. \A o \in Op : outbox'[o].status # "NONE" <=> o \in Posted'
    BY <1>1
  <2> QED BY <1>1, <2>1
<1>2. ASSUME UNCHANGED queued PROVE Posted' = Posted
  BY <1>2 DEF Posted
<1>3. CASE UNCHANGED records /\ UNCHANGED queued
  BY <1>2, <1>3 DEF records
<1>4. ASSUME NEW who \in Tab \cup {Person}, writing[who] # None,
             outbox' = [outbox EXCEPT ![writing[who].op] = writing[who].record],
             writing' = [writing EXCEPT ![who] = None], UNCHANGED <<clearing, queued>>
      PROVE  RecordsPosted'
  <2>1. writing[who].record.status # "NONE" /\ writing[who].op \in Posted
    BY <1>4 DEF DoneKnown, Sound
  <2>2. \A op \in Op : outbox'[op] = IF op = writing[who].op THEN writing[who].record
                                                             ELSE outbox[op]
    BY <1>4
  <2>3. \A x \in Tab \cup {Person} : writing'[x] # None => writing'[x] = writing[x]
    BY <1>4
  <2> QED BY <1>2, <1>4, <2>1, <2>2, <2>3
<1>5. ASSUME NEW who \in Tab \cup {Person}, NEW op \in Op, NEW r \in Record,
             Update(who, op, r), UNCHANGED <<outbox, clearing, queued>>
      PROVE  RecordsPosted'
  <2>1. \A x \in Tab \cup {Person} :
          \/ writing'[x] = None \/ writing'[x] = writing[x]
          \/ writing'[x].op = op /\ op \in Posted
    BY <1>5 DEF Update, Present
  <2> QED BY <1>2, <1>5, <2>1
<1>6. CASE clearing' = {op \in Op : outbox[op].status = "SYNCED"}
           /\ UNCHANGED <<outbox, writing, queued>>
  BY <1>2, <1>6
<1>7. ASSUME NEW op \in clearing, clearing' = clearing \ {op},
             outbox' = [outbox EXCEPT ![op].status = "CLEARED"], UNCHANGED <<writing, queued>>
      PROVE  RecordsPosted'
  <2>1. \A o \in Op : outbox'[o] = outbox[o] \/ (o = op /\ outbox'[o].status = "CLEARED")
    BY <1>7 DEF Record
  <2>2. op \in Posted /\ outbox'[op].status # "NONE"
    BY <1>7 DEF Record
  <2> QED BY <1>2, <1>7, <2>1, <2>2
<1>8. ASSUME NEW lost \in SUBSET (Tab \cup {Person}),
             writing' = [who \in Tab \cup {Person} |-> IF who \in lost THEN None
                                                                     ELSE writing[who]],
             clearing' \in {clearing, {}}, UNCHANGED <<outbox, queued>>
      PROVE  RecordsPosted'
  BY <1>2, <1>8
<1> QED BY <1>1, <1>3, <1>4, <1>5, <1>6, <1>7, <1>8 DEF RecordMoves, OldRecordMoves

(* A pass takes its operations from the records, and only loses them.      *)
LEMMA QueuesStep ==
  ASSUME RecordsTyped, RecordsPosted, PassesTyped, QueuesPosted, [OutboxNext]_allVars
  PROVE  QueuesPosted'
<1> DEFINE Known(tab) == pass'[tab].queue \in Seq(Posted)
<1>1. SUFFICES \A tab \in Tab : Known(tab)
  <2>1. Seq(Posted) \subseteq Seq(Posted')
    BY PostedGrows
  <2> QED BY <2>1 DEF QueuesPosted
<1>2. CASE UNCHANGED pass
  BY <1>2 DEF QueuesPosted
<1>3. ASSUME NEW tab \in Tab, MarkSending(tab) \/ SendCommand(tab)
      PROVE  \A o \in Tab : Known(o)
  <2>1. \E phase \in Phases : pass' = [pass EXCEPT ![tab].phase = phase]
    BY <1>3 DEF MarkSending, SendCommand, Phases
  <2>2. \A o \in Tab : pass'[o].queue = pass[o].queue
    BY <2>1 DEF PassesTyped, Passes
  <2> QED BY <2>2 DEF QueuesPosted
<1>4. ASSUME NEW tab \in Tab, StartPass(tab) PROVE \A o \in Tab : Known(o)
  <2>1. PICK q \in SetToSeqs(Sendable) : pass'[tab].queue = q
    BY <1>4 DEF StartPass, PassesTyped
  <2>2. \A o \in Tab \ {tab} : pass'[o] = pass[o]
    BY <1>4 DEF StartPass, PassesTyped
  <2>3. q \in Seq(Sendable)
    BY <1>4, SnapshotTyped DEF StartPass
  <2>4. Sendable \subseteq Posted
    BY DEF Sendable, RecordsPosted
  <2> QED BY <2>1, <2>2, <2>3, <2>4 DEF QueuesPosted
<1>5. ASSUME NEW tab \in Tab, \/ FlagConflict(tab) \/ Unauthenticated(tab) \/ Acknowledge(tab)
                              \/ Refused(tab) \/ ConnectionLost(tab)
      PROVE  \A o \in Tab : Known(o)
  <2>1. Proceed(tab) /\ pass[tab].phase # "IDLE"
    BY <1>5 DEF FlagConflict, Unauthenticated, Acknowledge, Refused, ConnectionLost, PassesTyped
  <2>2. pass[tab] \in Passes /\ pass[tab].queue # <<>> /\ pass[tab].queue \in Seq(Posted)
    BY <2>1, CurrentKnown DEF PassesTyped, QueuesPosted
  <2>3. Tail(pass[tab].queue) \in Seq(Posted) /\ <<>> \in Seq(Posted)
    BY <2>2, HeadTailProperties
  <2>4. pass'[tab].queue \in {<<>>, Tail(pass[tab].queue)}
    BY <2>1, <2>2 DEF Proceed, PassesTyped, Idle, Passes
  <2>5. \A o \in Tab \ {tab} : pass'[o] = pass[o]
    BY <2>1 DEF Proceed, PassesTyped
  <2> QED BY <2>3, <2>4, <2>5 DEF QueuesPosted
<1>6. ASSUME NEW tab \in Tab, Reload(tab) PROVE \A o \in Tab : Known(o)
  <2>1. /\ pass'[tab].queue = <<>> /\ <<>> \in Seq(Posted)
        /\ \A o \in Tab \ {tab} : pass'[o] = pass[o]
    BY <1>6 DEF Reload, PassesTyped, Idle
  <2> QED BY <2>1 DEF QueuesPosted
<1>7. ASSUME UserStep \/ HandleOrphan \/ OfficeCommand \/ UNCHANGED allVars
             \/ \E tab \in Tab : PutRecord(tab) \/ HandleRequest(tab)
      PROVE  UNCHANGED pass
  BY <1>7 DEF UserStep, Enqueue, StartUnloading, RefreshTrips, ReadTrip, RetryOperation,
     ClearSynced, DeleteRecord, PutRecord, SignIn, ResolveConflict, FinishResolution,
     HandleOrphan, OfficeCommand, HandleRequest, deviceVars, allVars
<1> HIDE DEF Known
<1> QED BY <1>2, <1>3, <1>4, <1>5, <1>6, <1>7 DEF OutboxNext, PassStep

(* Only requests of the device are ever on their way without a sender.     *)
LEMMA OrphansStep ==
  ASSUME RecordsTyped, PassesTyped, QueuesPosted, OrphansTyped, [OutboxNext]_allVars
  PROVE  OrphansTyped'
<1> DEFINE Sent == User \X {r \in DeviceRequests : r.op \in Posted}
<1>0. SUFFICES orphans' \subseteq Sent
  BY PostedGrows DEF OrphansTyped
<1>1. ASSUME NEW tab \in Tab, ConnectionLost(tab) \/ Reload(tab) PROVE orphans' \subseteq Sent
  <2>1. \/ UNCHANGED orphans
        \/ /\ wire[tab].state = "SENT"
           /\ orphans' = orphans \cup {<<wire[tab].user, wire[tab].request>>}
    BY <1>1 DEF ConnectionLost, Reload
  <2>2. ASSUME wire[tab].state = "SENT"
        PROVE  <<wire[tab].user, wire[tab].request>> \in Sent
    BY <2>2, WireKnown
  <2> QED BY <2>1, <2>2 DEF OrphansTyped
<1>2. ASSUME HandleOrphan PROVE orphans' \subseteq Sent
  BY <1>2 DEF HandleOrphan, OrphansTyped
<1>3. ASSUME UserStep \/ OfficeCommand \/ UNCHANGED allVars
             \/ \E tab \in Tab : StartPass(tab) \/ PassStep(tab) \/ HandleRequest(tab)
      PROVE  orphans' = orphans
  BY <1>3 DEF UserStep, Enqueue, StartUnloading, RefreshTrips, ReadTrip, RetryOperation,
     ClearSynced, DeleteRecord, PutRecord, SignIn, ResolveConflict, FinishResolution,
     OfficeCommand, deviceVars, allVars, StartPass, PassStep, MarkSending, FlagConflict,
     SendCommand, Unauthenticated, Acknowledge, Refused, HandleRequest
<1> QED BY <1>1, <1>2, <1>3 DEF OutboxNext, OrphansTyped

(* The records of conflicts are of operations that were queued.            *)
LEMMA ConflictsStep ==
  ASSUME RecordsTyped, BoundsTyped, PassesTyped, QueuesPosted, ConflictsPosted,
         [OutboxNext]_allVars
  PROVE  ConflictsPosted'
<1>1. SUFFICES \A op \in Op : conflict'[op] # {} => op \in Posted
  BY PostedGrows DEF ConflictsPosted
<1>2. CASE UNCHANGED conflict
  BY <1>2 DEF ConflictsPosted
<1>3. ASSUME NEW op \in Op, conflict[op] # {}, \A o \in Op \ {op} : conflict'[o] = conflict[o]
      PROVE  \A o \in Op : conflict'[o] # {} => o \in Posted
  BY <1>3 DEF ConflictsPosted
<1>4. ASSUME NEW op \in Op,
             \/ \E tab \in Tab, strategy \in Dismissing \cup Replaying :
                  ResolveConflict(tab, op, strategy)
             \/ \E strategy \in Dismissing \cup Replaying : FinishResolution(op, strategy)
      PROVE  conflict[op] # {} /\ \A o \in Op \ {op} : conflict'[o] = conflict[o]
  BY <1>4 DEF ResolveConflict, FinishResolution, BoundsTyped
<1>5. ASSUME NEW tab \in Tab, FlagConflict(tab)
      PROVE  \A o \in Op : conflict'[o] # {} => o \in Posted
  <2>1. pass[tab].phase # "IDLE"
        /\ conflict' = [conflict EXCEPT ![Current(tab)] = @ \cup {"OPEN"}]
    BY <1>5 DEF FlagConflict
  <2>2. Current(tab) \in Posted
    BY <2>1, CurrentKnown, HeadTailProperties DEF QueuesPosted, Current
  <2> QED BY <2>1, <2>2 DEF ConflictsPosted, BoundsTyped
<1>6. ASSUME NEW tab \in Tab,
             \/ Enqueue(tab) \/ RefreshTrips(tab) \/ StartPass(tab) \/ MarkSending(tab)
             \/ SendCommand(tab) \/ Unauthenticated(tab) \/ Acknowledge(tab) \/ Refused(tab)
             \/ ConnectionLost(tab) \/ Reload(tab) \/ HandleRequest(tab)
             \/ \E t \in Trip : StartUnloading(tab, t)
             \/ \E k \in Cached : ReadTrip(tab, k)
      PROVE  UNCHANGED conflict
  BY <1>6 DEF Enqueue, RefreshTrips, StartPass, MarkSending, SendCommand, Unauthenticated,
     Acknowledge, Refused, ConnectionLost, Reload, HandleRequest, StartUnloading, ReadTrip
<1>7. ASSUME \/ \E op \in Op : RetryOperation(op) \/ DeleteRecord(op)
             \/ \E who \in Tab \cup {Person} : PutRecord(who)
             \/ \E u \in FieldUser \cup {None} : SignIn(u)
             \/ ClearSynced \/ HandleOrphan \/ OfficeCommand \/ UNCHANGED allVars
      PROVE  UNCHANGED conflict
  BY <1>7 DEF RetryOperation, DeleteRecord, PutRecord, SignIn, ClearSynced, HandleOrphan,
     OfficeCommand, deviceVars, allVars
<1> QED BY <1>2, <1>3, <1>4, <1>5, <1>6, <1>7 DEF OutboxNext, UserStep, PassStep

(* A step of the service commits one operation of the device at most, and  *)
(* one that was queued.                                                    *)
LEMMA DeliveredStep ==
  ASSUME ServiceInv, ServiceMoves
  PROVE  \/ Delivered' = Delivered
         \/ \E op \in Op \cap Posted : Delivered' = Delivered \cup {op}
<1>1. CASE UNCHANGED vars
  BY <1>1 DEF vars, Delivered, Committed
<1>2. ASSUME NEW u \in User, NEW r \in Request, Execute(u, r), OfDevice(r),
             r.op \in Op => r.op \in Posted
      PROVE  \/ Delivered' = Delivered
             \/ \E op \in Op \cap Posted : Delivered' = Delivered \cup {op}
  <2>1. \A op \in Op : Committed(op)' <=> Committed(op) \/ op = r.op
    BY <1>2, ExecutionKeeps, OpKnown DEF Committed
  <2>2. CASE r.op \in Op
    BY <1>2, <2>1, <2>2 DEF Delivered
  <2>3. CASE r.op \notin Op
    BY <2>1, <2>3 DEF Delivered
  <2> QED BY <2>2, <2>3
<1> QED BY <1>1, <1>2 DEF ServiceMoves

-----------------------------------------------------------------------------
(* The cache *)

LEMMA NothingTrue == Nothing \in Cells /\ \A k : Truthful(k, Nothing)
BY DEF Nothing, Cells, Truthful

(* A cell of the cache may be replaced by any that is true.                *)
LEMMA StoreTrue ==
  ASSUME ViewTrue, NEW tab \in Tab, NEW changes,
         \A k \in DOMAIN changes : changes[k] \in Cells /\ Truthful(k, changes[k]),
         Store(tab, changes), UNCHANGED vars
  PROVE  ViewTrue'
<1>1. \A v \in Tab \cup {Disk}, k \in Cached :
        view'[v][k] = IF v \in {tab, Disk} /\ k \in DOMAIN changes THEN changes[k] ELSE view[v][k]
  BY DEF Store
<1>2. \A v \in Tab \cup {Disk}, k \in Cached : view'[v][k] \in Cells /\ Truthful(k, view'[v][k])
  BY <1>1 DEF ViewTrue
<1>3. view' \in [Tab \cup {Disk} -> [Cached -> Cells]]
  BY <1>2 DEF Store
<1>4. Existing' = Existing /\ trip' = trip
  BY DEF vars, Existing
<1> QED BY <1>2, <1>3, <1>4 DEF ViewTrue, Truthful

(* What a screen writes for itself is not marked as the server's.          *)
LEMMA OnlyTrue ==
  ASSUME ViewTrue, NEW tab \in Tab, NEW key \in Cached, NEW copy \in Cells, Truthful(key, copy),
         Store(tab, Only(key, copy)), UNCHANGED vars
  PROVE  ViewTrue'
<1>1. \A k \in DOMAIN Only(key, copy) :
        Only(key, copy)[k] \in Cells /\ Truthful(k, Only(key, copy)[k])
  BY DEF Only
<1> QED BY <1>1, StoreTrue

LEMMA ViewStep ==
  ASSUME ServiceInv, RecordsTyped, PassesTyped, QueuesPosted, OrphansTyped, AnswersKnown,
         ViewTrue, [OutboxNext]_allVars
  PROVE  ViewTrue'
<1>1. ASSUME UNCHANGED view PROVE ViewTrue'
  <2>1. ServiceMoves
    BY StepMoves
  <2>2. SUFFICES ASSUME NEW v \in Tab \cup {Disk}, NEW k \in Cached,
                        k \in Trip, view[v][k].sync # "PENDING", view[v][k] # Nothing
                 PROVE  /\ k \in Existing'
                        /\ ClientRank(view[v][k].status) <= Rank[trip'[k].status]
    BY <1>1 DEF ViewTrue, Truthful
  <2> QED BY <2>1, <2>2, StaysBehind DEF ViewTrue, Truthful
<1>2. ASSUME NEW tab \in Tab, Enqueue(tab) PROVE ViewTrue'
  <2> DEFINE op   == Script[queued + 1]
             copy == [status |-> LocalStatus[op],
                      sync |-> IF Intent[op].command \in Creation THEN None ELSE "PENDING"]
  <2>1. op \in Op /\ UNCHANGED vars
    BY <1>2 DEF Enqueue, RecordsTyped, Op
  <2>2. Store(tab, Only(Key(op), copy)) \/ UNCHANGED view
    BY <1>2 DEF Enqueue
  <2>3. LocalStatus[op] \in ClientStatus \cup {None}
    BY <2>1, OutboxAssumption
  <2>4. copy \in Cells /\ Truthful(Key(op), copy)
    BY <2>1, <2>3, OutboxAssumption DEF Cells, Truthful, Key
  <2> HIDE DEF op, copy
  <2> QED BY <1>1, <2>1, <2>2, <2>4, KeyCached, OnlyTrue
<1>3. ASSUME NEW tab \in Tab, NEW t \in Trip, StartUnloading(tab, t) PROVE ViewTrue'
  <2> DEFINE copy == [status |-> "UNLOADING", sync |-> "PENDING"]
  <2>1. Store(tab, Only(t, copy)) /\ UNCHANGED vars
    BY <1>3 DEF StartUnloading
  <2>2. copy \in Cells /\ Truthful(t, copy) /\ t \in Cached
    BY DEF Cells, ClientStatus, Cached, Truthful
  <2> HIDE DEF copy
  <2> QED BY <2>1, <2>2, OnlyTrue
<1>4. ASSUME NEW tab \in Tab, RefreshTrips(tab) PROVE ViewTrue'
  <2> DEFINE fresh == [t \in Existing |-> [status |-> Projected(trip[t].status), sync |-> "SYNCED"]]
  <2>1. Store(tab, fresh) /\ UNCHANGED vars
    BY <1>4 DEF RefreshTrips
  <2>2. \A t \in Existing : trip[t].status \in Status
    BY DEF ServiceInv, TypeOK, Existing, TripRecords
  <2>3. \A t \in DOMAIN fresh : fresh[t] \in Cells /\ Truthful(t, fresh[t])
    BY <2>2, ProjectedIsBehind DEF Cells, Truthful
  <2> HIDE DEF fresh
  <2> QED BY <2>1, <2>3, StoreTrue
<1>5. ASSUME NEW tab \in Tab, NEW k \in Cached, ReadTrip(tab, k) PROVE ViewTrue'
  <2>1. view' = [view EXCEPT ![tab][k] = view[Disk][k]] /\ UNCHANGED vars
    BY <1>5 DEF ReadTrip
  <2>2. view[Disk][k] \in Cells /\ Truthful(k, view[Disk][k])
    BY DEF ViewTrue
  <2>3. \A v \in Tab \cup {Disk}, key \in Cached : Truthful(key, view'[v][key])
    BY <2>1, <2>2 DEF ViewTrue
  <2>4. view' \in [Tab \cup {Disk} -> [Cached -> Cells]]
    BY <2>1, <2>2 DEF ViewTrue
  <2> QED BY <2>1, <2>3, <2>4 DEF ViewTrue, Truthful, vars, Existing
<1>6. ASSUME NEW tab \in Tab, NEW op \in Op, NEW strategy, ResolveConflict(tab, op, strategy)
      PROVE  ViewTrue'
  <2>1. (Store(tab, Only(Key(op), Nothing)) \/ UNCHANGED view) /\ UNCHANGED vars
    BY <1>6 DEF ResolveConflict
  <2> QED BY <1>1, <2>1, NothingTrue, KeyCached, OnlyTrue
<1>7. ASSUME NEW tab \in Tab, Acknowledge(tab) PROVE ViewTrue'
  <2> DEFINE op     == Current(tab)
             answer == wire[tab]
             fresh  == [status |-> answer.status, sync |-> "SYNCED"]
             found  == IF view[Disk][Key(op)] # Nothing THEN view[Disk][Key(op)]
                                                        ELSE view[tab][Key(op)]
             both   == [k \in {answer.trip, op} |-> IF k = answer.trip THEN fresh ELSE Nothing]
  <2>1. wire[tab].state = "OK" /\ UNCHANGED vars
    BY <1>7 DEF Acknowledge
  <2>2. \/ Store(tab, both)
        \/ Store(tab, Only(Key(op), found))
        \/ Store(tab, Only(answer.trip, fresh))
    BY <1>7 DEF Acknowledge
  <2>3. op \in Op /\ Key(op) \in Cached
    BY <2>1, CurrentKnown, KeyCached DEF PassesTyped
  <2>4. answer.trip \in Cached /\ fresh \in Cells /\ Truthful(answer.trip, fresh)
    BY <2>1 DEF AnswersKnown, Truthful, Cells, Existing, Cached
  <2>5. found \in Cells /\ Truthful(Key(op), found)
    BY <2>3 DEF ViewTrue
  <2>6. \A k \in DOMAIN both : both[k] \in Cells /\ Truthful(k, both[k])
    BY <2>4, NothingTrue
  <2> HIDE DEF answer, fresh, found, both, op
  <2> QED BY <2>1, <2>2, <2>3, <2>4, <2>5, <2>6, OnlyTrue, StoreTrue
<1>8. ASSUME NEW tab \in Tab, Reload(tab) PROVE ViewTrue'
  <2>1. view' = [view EXCEPT ![tab] = [k \in Cached |-> Nothing]] /\ UNCHANGED vars
    BY <1>8 DEF Reload
  <2>2. view' \in [Tab \cup {Disk} -> [Cached -> Cells]]
    BY <2>1, NothingTrue DEF ViewTrue
  <2>3. \A v \in Tab \cup {Disk}, k \in Cached : Truthful(k, view'[v][k])
    BY <2>1, NothingTrue DEF ViewTrue
  <2> QED BY <2>1, <2>2, <2>3 DEF ViewTrue, Truthful, vars, Existing
<1>9. ASSUME \/ \E op \in Op : RetryOperation(op) \/ DeleteRecord(op)
             \/ ClearSynced \/ PutRecord(Person)
             \/ \E u \in FieldUser \cup {None} : SignIn(u)
             \/ \E op \in Op, strategy \in Dismissing \cup Replaying :
                  FinishResolution(op, strategy)
             \/ \E tab \in Tab : \/ StartPass(tab) \/ MarkSending(tab) \/ FlagConflict(tab)
                                 \/ SendCommand(tab) \/ Unauthenticated(tab) \/ Refused(tab)
                                 \/ PutRecord(tab) \/ ConnectionLost(tab) \/ HandleRequest(tab)
             \/ HandleOrphan \/ OfficeCommand \/ UNCHANGED allVars
      PROVE  UNCHANGED view
  BY <1>9 DEF RetryOperation, DeleteRecord, ClearSynced, PutRecord, SignIn, FinishResolution,
     StartPass, MarkSending, FlagConflict, SendCommand, Unauthenticated, Refused,
     ConnectionLost, HandleRequest, HandleOrphan, OfficeCommand, deviceVars, allVars
<1> QED BY <1>1, <1>2, <1>3, <1>4, <1>5, <1>6, <1>7, <1>8, <1>9
        DEF OutboxNext, UserStep, PassStep

-----------------------------------------------------------------------------
(* Conflicts *)

\* The end of a trip is its last rank, which it does not leave.
LEMMA EndsAreLast ==
  \A s \in Status : s \in Terminal <=> Rank[s] = 9
BY SMTT(60) DEF Status, Rank, Terminal

LEMMA EndStays ==
  ASSUME ServiceInv, ServiceMoves, NEW t \in Existing, trip[t].status \in Terminal
  PROVE  t \in Existing' /\ trip'[t].status \in Terminal
<1>1. /\ t \in Existing' /\ Rank[trip'[t].status] >= Rank[trip[t].status]
      /\ ServiceInv'
  BY ServiceKeeps DEF ServiceGrows
<1>2. trip[t] \in TripRecords /\ trip'[t] \in TripRecords
  BY <1>1 DEF ServiceInv, TypeOK, Existing
<1>3. trip[t].status \in Status /\ trip'[t].status \in Status
  BY <1>2 DEF TripRecords
<1> QED BY <1>1, <1>3, EndsAreLast, RanksAreNumbers

\* What the conflict check takes for the end of a trip is one.
LEMMA WitnessIsTrue ==
  ASSUME ServiceInv, ViewTrue, NEW tab \in Tab, NEW op \in Op,
         Intent[op].command \notin Creation, MayConflict(tab, op)
  PROVE  Intent[op].trip \in Existing /\ trip[Intent[op].trip].status \in Terminal
<1> DEFINE t    == Intent[op].trip
           seen == view[tab][t]
<1>1. Key(op) = t /\ t \in Trip
  BY RequestsKnown, RequestTyped DEF Key
<1>2. seen.sync # "PENDING" /\ seen.status \in {"COMPLETED", "RETURNED"}
  BY <1>1 DEF MayConflict
<1>3. Truthful(t, seen)
  BY <1>1 DEF ViewTrue, Cached
<1>4. seen # Nothing
  BY <1>2, OutboxAssumption DEF Nothing, ClientStatus
<1> HIDE DEF seen
<1>5. t \in Existing /\ ClientRank(seen.status) <= Rank[trip[t].status]
  BY <1>1, <1>2, <1>3, <1>4 DEF Truthful
<1>6. ClientRank(seen.status) = 9
  BY <1>2 DEF ClientRank
<1>7. trip[t].status \in Status
  BY <1>5 DEF ServiceInv, TypeOK, Existing, TripRecords
<1> QED BY <1>5, <1>6, <1>7, EndsAreLast, RanksAreNumbers

\* A step opens a conflict of one operation at most, where the check allows.
LEMMA ConflictsOpen ==
  ASSUME RecordsTyped, BoundsTyped, PassesTyped, [OutboxNext]_allVars,
         NEW op \in Op, conflict'[op] # {}
  PROVE  conflict[op] # {} \/ \E tab \in Tab : MayConflict(tab, op)
<1>1. CASE UNCHANGED conflict
  BY <1>1
<1>2. ASSUME NEW o \in Op,
             \/ \E tab \in Tab, strategy \in Dismissing \cup Replaying :
                  ResolveConflict(tab, o, strategy)
             \/ \E strategy \in Dismissing \cup Replaying : FinishResolution(o, strategy)
      PROVE  conflict[op] # {}
  <2>1. conflict[o] # {} /\ \A x \in Op \ {o} : conflict'[x] = conflict[x]
    BY <1>2 DEF ResolveConflict, FinishResolution, BoundsTyped
  <2> QED BY <2>1
<1>3. ASSUME NEW tab \in Tab, FlagConflict(tab)
      PROVE  conflict[op] # {} \/ MayConflict(tab, op)
  <2>1. /\ conflict' = [conflict EXCEPT ![Current(tab)] = @ \cup {"OPEN"}]
        /\ MayConflict(tab, Current(tab))
    BY <1>3 DEF FlagConflict
  <2>2. CASE op = Current(tab)
    BY <2>1, <2>2
  <2>3. CASE op # Current(tab)
    BY <2>1, <2>3 DEF BoundsTyped
  <2> QED BY <2>2, <2>3
<1>4. ASSUME NEW tab \in Tab,
             \/ Enqueue(tab) \/ RefreshTrips(tab) \/ StartPass(tab) \/ MarkSending(tab)
             \/ SendCommand(tab) \/ Unauthenticated(tab) \/ Acknowledge(tab) \/ Refused(tab)
             \/ ConnectionLost(tab) \/ Reload(tab) \/ HandleRequest(tab)
             \/ \E t \in Trip : StartUnloading(tab, t)
             \/ \E k \in Cached : ReadTrip(tab, k)
      PROVE  UNCHANGED conflict
  BY <1>4 DEF Enqueue, RefreshTrips, StartPass, MarkSending, SendCommand, Unauthenticated,
     Acknowledge, Refused, ConnectionLost, Reload, HandleRequest, StartUnloading, ReadTrip
<1>5. ASSUME \/ \E o \in Op : RetryOperation(o) \/ DeleteRecord(o)
             \/ \E who \in Tab \cup {Person} : PutRecord(who)
             \/ \E u \in FieldUser \cup {None} : SignIn(u)
             \/ ClearSynced \/ HandleOrphan \/ OfficeCommand \/ UNCHANGED allVars
      PROVE  UNCHANGED conflict
  BY <1>5 DEF RetryOperation, DeleteRecord, PutRecord, SignIn, ClearSynced, HandleOrphan,
     OfficeCommand, deviceVars, allVars
<1> QED BY <1>1, <1>2, <1>3, <1>4, <1>5 DEF OutboxNext, UserStep, PassStep

LEMMA EndedStep ==
  ASSUME ServiceInv, ServiceMoves, ViewTrue, RecordsTyped, BoundsTyped, PassesTyped,
         OnlyEndedTripsConflict, [OutboxNext]_allVars
  PROVE  OnlyEndedTripsConflict'
<1>1. SUFFICES ASSUME NEW op \in Op, conflict'[op] # {}, Intent[op].command \notin Creation
               PROVE  /\ Intent[op].trip \in Existing'
                      /\ trip'[Intent[op].trip].status \in Terminal
  BY DEF OnlyEndedTripsConflict
<1>2. Intent[op].trip \in Existing /\ trip[Intent[op].trip].status \in Terminal
  BY <1>1, ConflictsOpen, WitnessIsTrue DEF OnlyEndedTripsConflict
<1> QED BY <1>2, EndStays

-----------------------------------------------------------------------------
(* Together *)

LEMMA OutboxInvStarts == OutboxInit => OutboxInv
<1> SUFFICES ASSUME OutboxInit PROVE OutboxInv
  OBVIOUS
<1>1. ServiceInv
  BY ServiceStarts DEF OutboxInit
<1>2. OneAccount
  BY OpKnown DEF OutboxInit, Init, OneAccount
<1>3. RecordsTyped
  BY OutboxAssumption DEF OutboxInit, RecordsTyped, Record, Statuses
<1>4. BoundsTyped
  BY OutboxAssumption DEF OutboxInit, BoundsTyped
<1>5. PassesTyped
  BY IdleTyped DEF OutboxInit, PassesTyped, Idle, Silent
<1>6. OrphansTyped
  BY DEF OutboxInit, OrphansTyped
<1>7. ViewTrue
  BY NothingTrue DEF OutboxInit, ViewTrue
<1>8. DoneKnown /\ AnswersKnown /\ OnlyEndedTripsConflict
  BY DEF OutboxInit, DoneKnown, AnswersKnown, Silent, OnlyEndedTripsConflict
<1>9. RecordsPosted /\ QueuesPosted /\ ConflictsPosted
  <2>1. Posted = {}
    BY DEF OutboxInit, Posted
  <2>2. RecordsPosted /\ ConflictsPosted
    BY <2>1 DEF OutboxInit, RecordsPosted, ConflictsPosted
  <2>3. <<>> \in Seq(Posted)
    BY EmptySeq
  <2>4. QueuesPosted
    BY <2>3 DEF OutboxInit, QueuesPosted, Idle
  <2> QED BY <2>2, <2>4
<1>10. Delivered \subseteq Posted
  BY OpKnown DEF OutboxInit, Init, Delivered, Committed
<1> QED BY <1>1, <1>2, <1>3, <1>4, <1>5, <1>6, <1>7, <1>8, <1>9, <1>10 DEF OutboxInv

LEMMA OutboxInvStep == OutboxInv /\ [OutboxNext]_allVars => OutboxInv'
<1> SUFFICES ASSUME OutboxInv, [OutboxNext]_allVars PROVE OutboxInv'
  OBVIOUS
<1> USE DEF OutboxInv
<1>1. ServiceMoves
  BY StepMoves
<1>2. ServiceInv' /\ OneAccount'
  BY <1>1, ServiceKeeps, OneAccountKept
<1>3. BoundsTyped' /\ OrphansTyped'
  BY BoundsStep, OrphansStep
<1>4. Delivered \subseteq Delivered' /\ Done \subseteq Done'
  BY DoneGrows
<1>5. RecordMoves
  BY RecordsMove
<1>6. RecordsTyped' /\ DoneKnown'
  BY <1>4, <1>5, ScriptStep, RecordsStep, DoneStep
<1>7. PassesTyped' /\ AnswersKnown'
  BY <1>1, <1>4, PassesStep, AnswersStep
<1>8. ViewTrue' /\ OnlyEndedTripsConflict'
  BY <1>1, ViewStep, EndedStep
<1>9. RecordsPosted' /\ QueuesPosted' /\ ConflictsPosted'
  BY <1>5, RecordsPostedStep, QueuesStep, ConflictsStep
<1>10. Delivered' \subseteq Posted'
  BY <1>1, PostedGrows, DeliveredStep
<1> QED BY <1>2, <1>3, <1>6, <1>7, <1>8, <1>9, <1>10

LEMMA OutboxInvHolds == OutboxSpec => []OutboxInv
<1> QED BY OutboxInvStarts, OutboxInvStep, PTL DEF OutboxSpec

(* Every record of the device is one its readers understand, however the   *)
(* tabs interleave, and a tab that waits for an answer works on one of the *)
(* operations it took into its pass.                                       *)
THEOREM OutboxTypeCorrect == OutboxSpec => []OutboxTypeOK
<1>1. OutboxInv => OutboxTypeOK
  <2> SUFFICES ASSUME OutboxInv PROVE OutboxTypeOK
    OBVIOUS
  <2>1. \A tab \in Tab : /\ pass[tab].phase \in {"IDLE", "NEXT", "MARKED", "WAITING"}
                         /\ pass[tab].phase = "IDLE" <=> pass[tab].queue = <<>>
                         /\ pass[tab].phase = "WAITING" <=> wire[tab].state # "NONE"
                         /\ wire[tab].state \in {"NONE", "SENT", "OK", "DENIED"}
    BY DEF OutboxInv, PassesTyped, Passes, Phases, Messages
  <2>2. orphans \subseteq User \X Request
    BY RequestsKnown DEF OutboxInv, OrphansTyped
  <2> QED BY <2>1, <2>2 DEF OutboxInv, OutboxTypeOK, RecordsTyped, BoundsTyped, ViewTrue,
                            Writes, Conflicts, Cells
<1> QED BY <1>1, OutboxInvHolds, PTL

(* The outbox says SYNCED only for what the server has committed or what a *)
(* person explicitly dismissed, whatever is lost, reloaded, late or put    *)
(* back after it changed.                                                  *)
THEOREM DoneIsCommitted == OutboxSpec => []DoneMeansCommitted
<1>1. OutboxInv => DoneMeansCommitted
  BY DEF OutboxInv, DoneKnown, Done, Delivered, Dismissed, DoneMeansCommitted
<1> QED BY <1>1, OutboxInvHolds, PTL

(* A queued transition or loading is executed for one account at most.     *)
THEOREM OutboxAppliesOnce == OutboxSpec => []AppliedOnce
<1>1. OutboxInv => AppliedOnce
  BY OneAccountCounts DEF OutboxInv
<1> QED BY <1>1, OutboxInvHolds, PTL

(* A cached trip that is not the device's own writing never shows more     *)
(* than the server has committed.                                          *)
THEOREM CacheStaysBehind == OutboxSpec => []CacheNotAhead
<1>1. OutboxInv => CacheNotAhead
  BY OutboxAssumption DEF OutboxInv, ViewTrue, Truthful, CacheNotAhead, Cached, Nothing
<1> QED BY <1>1, OutboxInvHolds, PTL

(* An operation on a trip is only held back as a conflict when the trip    *)
(* has really ended at the server, whatever copies of it the tabs keep.    *)
THEOREM ConflictsAreReal == OutboxSpec => []OnlyEndedTripsConflict
<1>1. OutboxInv => OnlyEndedTripsConflict
  BY DEF OutboxInv
<1> QED BY <1>1, OutboxInvHolds, PTL

(* The device and its office are clients of the command service and no     *)
(* more: whatever they do, it only executes commands and other steps of    *)
(* its own, so all that TripCommands_proofs states of it holds for the     *)
(* composition.                                                            *)
THEOREM DeviceIsClient == OutboxSpec => Spec
<1>1. OutboxInit => Init
  BY DEF OutboxInit
<1>2. OutboxInv /\ [OutboxNext]_allVars => [Next]_vars
  BY StepMoves, MovesAreSteps DEF OutboxInv
<1> QED BY <1>1, <1>2, OutboxInvHolds, PTL DEF OutboxSpec, Spec

-----------------------------------------------------------------------------
(* The outbox is a postbox *)

\* What the box holds.
Kept == {op \in Op : Present(op)}

LEMMA OutsideService ==
  ASSUME UNCHANGED vars
  PROVE  Delivered' = Delivered
BY DEF vars, Delivered, Committed

LEMMA SameRecords ==
  ASSUME UNCHANGED outbox
  PROVE  Kept' = Kept
BY DEF Kept, Present

(* Queueing an operation posts it.                                         *)
LEMMA EnqueuePosts ==
  ASSUME OutboxInv, NEW tab \in Tab, Enqueue(tab)
  PROVE  \E op \in Op : Box!Post(op)
<1> DEFINE op == Script[queued + 1]
<1>1. op \in Op \ Posted /\ Posted' = Posted \cup {op}
  BY PostedGrowth DEF OutboxInv
<1>2. \E r \in [status : {"PENDING"}, retry : {0}, created : {clock, clock + 1},
                amended : {FALSE}] : outbox' = [outbox EXCEPT ![op] = r]
  BY DEF Enqueue
<1> HIDE DEF op
<1>3. Kept' = Kept \cup {op}
  BY <1>1, <1>2 DEF OutboxInv, RecordsTyped, Kept, Present
<1>4. UNCHANGED <<vars, conflict>>
  BY DEF Enqueue
<1>5. Delivered' = Delivered /\ Dismissed' = Dismissed
  BY <1>4, OutsideService DEF Dismissed
<1> QED BY <1>1, <1>3, <1>5 DEF Box!Post, Kept

(* Finishing a resolution drops the operation or changes nothing.          *)
LEMMA FinishDrops ==
  ASSUME OutboxInv, NEW op \in Op, NEW strategy \in Dismissing \cup Replaying,
         FinishResolution(op, strategy)
  PROVE  Box!Drop(op) \/ UNCHANGED Box!boxVars
<1>1. UNCHANGED <<vars, outbox, queued>> /\ strategy \in conflict[op]
  BY DEF FinishResolution
<1>2. op \in Posted /\ Posted' = Posted
  BY <1>1 DEF OutboxInv, ConflictsPosted, Posted
<1>3. Delivered' = Delivered /\ Kept' = Kept
  BY <1>1, OutsideService, SameRecords
<1>4. \E new \in SUBSET {"DISMISSED"} :
        conflict' = [conflict EXCEPT ![op] = (@ \ {strategy}) \cup new]
  BY DEF FinishResolution
<1>5. strategy # "DISMISSED"
  BY DEF Dismissing, Replaying
<1>6. \A o \in Op \ {op} : o \in Dismissed' <=> o \in Dismissed
  BY <1>4 DEF OutboxInv, BoundsTyped, Dismissed
<1>7. op \in Dismissed => op \in Dismissed'
  BY <1>4, <1>5 DEF OutboxInv, BoundsTyped, Dismissed
<1>8. Dismissed' = Dismissed \/ Dismissed' = Dismissed \cup {op}
  BY <1>6, <1>7 DEF Dismissed
<1> QED BY <1>2, <1>3, <1>8 DEF Box!Drop, Box!boxVars, Kept

(* A record that is put back may return one that was cleared, and the      *)
(* deletion of a record forgets it: both are of settled operations.        *)
LEMMA PutReturns ==
  ASSUME OutboxInv, NEW who \in Tab \cup {Person}, PutRecord(who)
  PROVE  (\E op \in Op : Box!Return(op)) \/ UNCHANGED Box!boxVars
<1> DEFINE op == writing[who].op
<1>1. /\ writing[who] # None /\ UNCHANGED <<vars, queued, conflict>>
      /\ outbox' = [outbox EXCEPT ![op] = writing[who].record]
  BY DEF PutRecord
<1>2. /\ op \in Op /\ op \in Posted
      /\ writing[who].record.status \notin {"NONE", "CLEARED"}
  BY <1>1 DEF OutboxInv, RecordsTyped, Writes, RecordsPosted, DoneKnown, Sound
<1> HIDE DEF op
<1>3. Kept' = Kept \cup {op}
  BY <1>1, <1>2 DEF OutboxInv, RecordsTyped, Kept, Present
<1>4. Posted' = Posted /\ Delivered' = Delivered /\ Dismissed' = Dismissed
  BY <1>1, OutsideService DEF Posted, Dismissed
<1>5. op \in Kept \/ op \in Done
  BY <1>2 DEF OutboxInv, RecordsPosted, DoneKnown, Kept, Present
<1> QED BY <1>2, <1>3, <1>4, <1>5 DEF Box!Return, Box!Settled, Box!boxVars, Kept, Done

LEMMA DeleteForgets ==
  ASSUME OutboxInv, NEW op \in Op, DeleteRecord(op)
  PROVE  Box!Forget(op) \/ UNCHANGED Box!boxVars
<1>1. /\ op \in clearing /\ UNCHANGED <<vars, queued, conflict>>
      /\ outbox' = [outbox EXCEPT ![op].status = "CLEARED"]
  BY DEF DeleteRecord
<1>2. Kept' = Kept \ {op}
  BY <1>1 DEF OutboxInv, RecordsTyped, Record, Kept, Present
<1>3. Posted' = Posted /\ Delivered' = Delivered /\ Dismissed' = Dismissed
  BY <1>1, OutsideService DEF Posted, Dismissed
<1>4. op \in Done
  BY <1>1 DEF OutboxInv, DoneKnown
<1> QED BY <1>2, <1>3, <1>4 DEF Box!Forget, Box!Settled, Box!boxVars, Kept, Done

(* The service delivers one operation at most, whoever sent it.            *)
LEMMA ServiceDelivers ==
  ASSUME OutboxInv, ServiceMoves, UNCHANGED <<outbox, queued, conflict>>
  PROVE  (\E op \in Op : Box!Deliver(op)) \/ UNCHANGED Box!boxVars
<1>1. Kept' = Kept /\ Posted' = Posted /\ Dismissed' = Dismissed
  BY SameRecords DEF Posted, Dismissed
<1> QED BY <1>1, DeliveredStep DEF OutboxInv, Box!Deliver, Box!boxVars, Kept

(* Every other step of the device concerns no postbox: the records it      *)
(* reads, the passes, the cache and the conflicts that are opened or       *)
(* resolved are its own business.                                          *)
LEMMA BoxStep ==
  ASSUME OutboxInv, [OutboxNext]_allVars
  PROVE  [Box!Next]_(Box!boxVars)
<1>1. ASSUME NEW tab \in Tab, Enqueue(tab) PROVE Box!Next
  BY <1>1, EnqueuePosts DEF Box!Next
<1>2. ASSUME NEW op \in Op, NEW strategy \in Dismissing \cup Replaying,
             FinishResolution(op, strategy)
      PROVE  [Box!Next]_(Box!boxVars)
  BY <1>2, FinishDrops DEF Box!Next
<1>3. ASSUME NEW who \in Tab \cup {Person}, PutRecord(who) PROVE [Box!Next]_(Box!boxVars)
  BY <1>3, PutReturns DEF Box!Next
<1>4. ASSUME NEW op \in Op, DeleteRecord(op) PROVE [Box!Next]_(Box!boxVars)
  BY <1>4, DeleteForgets DEF Box!Next
<1>5. ASSUME UNCHANGED <<outbox, queued, conflict>> PROVE [Box!Next]_(Box!boxVars)
  <2>1. ServiceMoves
    BY StepMoves DEF OutboxInv
  <2> QED BY <1>5, <2>1, ServiceDelivers DEF Box!Next
<1>6. ASSUME UNCHANGED <<vars, outbox, queued>>, Dismissed' = Dismissed
      PROVE  UNCHANGED Box!boxVars
  BY <1>6, OutsideService, SameRecords DEF Posted, Box!boxVars, Kept
<1>7. ASSUME NEW tab \in Tab, NEW op \in Op, NEW strategy \in Dismissing \cup Replaying,
             ResolveConflict(tab, op, strategy)
      PROVE  UNCHANGED Box!boxVars
  <2>1. /\ conflict' = [conflict EXCEPT ![op] = (@ \ {"OPEN"}) \cup {strategy}]
        /\ UNCHANGED <<vars, outbox, queued>>
    BY <1>7 DEF ResolveConflict, records
  <2>2. strategy # "DISMISSED"
    BY DEF Dismissing, Replaying
  <2>3. Dismissed' = Dismissed
    BY <2>1, <2>2 DEF OutboxInv, BoundsTyped, Dismissed
  <2> QED BY <1>6, <2>1, <2>3
<1>8. ASSUME NEW tab \in Tab, FlagConflict(tab) PROVE UNCHANGED Box!boxVars
  <2>1. /\ conflict' = [conflict EXCEPT ![Current(tab)] = @ \cup {"OPEN"}]
        /\ UNCHANGED <<vars, outbox, queued>>
    BY <1>8 DEF FlagConflict
  <2>2. Dismissed' = Dismissed
    BY <2>1 DEF OutboxInv, BoundsTyped, Dismissed
  <2> QED BY <1>6, <2>1, <2>2
<1>9. ASSUME NEW tab \in Tab,
             \/ RefreshTrips(tab) \/ StartPass(tab) \/ MarkSending(tab) \/ SendCommand(tab)
             \/ Unauthenticated(tab) \/ Acknowledge(tab) \/ Refused(tab)
             \/ ConnectionLost(tab) \/ Reload(tab) \/ HandleRequest(tab)
             \/ \E t \in Trip : StartUnloading(tab, t)
             \/ \E k \in Cached : ReadTrip(tab, k)
      PROVE  UNCHANGED <<outbox, queued, conflict>>
  BY <1>9 DEF RefreshTrips, StartPass, MarkSending, SendCommand, Unauthenticated, Acknowledge,
     Refused, ConnectionLost, Reload, HandleRequest, StartUnloading, ReadTrip, records
<1>10. ASSUME \/ \E op \in Op : RetryOperation(op)
              \/ \E u \in FieldUser \cup {None} : SignIn(u)
              \/ ClearSynced \/ HandleOrphan \/ OfficeCommand \/ UNCHANGED allVars
       PROVE  UNCHANGED <<outbox, queued, conflict>>
  BY <1>10 DEF RetryOperation, SignIn, ClearSynced, HandleOrphan, OfficeCommand, deviceVars,
     allVars, records
<1> QED BY <1>1, <1>2, <1>3, <1>4, <1>5, <1>7, <1>8, <1>9, <1>10
        DEF OutboxNext, UserStep, PassStep

(* The outbox implements a postbox: what was queued stays until it is      *)
(* committed or dismissed, only settled records disappear or come back,    *)
(* and nothing is committed that was not queued.                           *)
THEOREM OutboxIsPostbox == OutboxSpec => PostboxSpec
<1>1. OutboxInit => Box!Init
  <2> SUFFICES ASSUME OutboxInit PROVE Box!Init
    OBVIOUS
  <2>1. Posted = {} /\ Kept = {} /\ Dismissed = {}
    BY DEF OutboxInit, Posted, Kept, Present, Dismissed
  <2>2. Delivered = {}
    BY OpKnown DEF OutboxInit, Init, Delivered, Committed
  <2> QED BY <2>1, <2>2 DEF Box!Init, Kept
<1>2. OutboxInv /\ [OutboxNext]_allVars => [Box!Next]_(Box!boxVars)
  BY BoxStep
<1> QED BY <1>1, <1>2, OutboxInvHolds, PTL DEF OutboxSpec, PostboxSpec, Box!Spec

(* At any time every queued operation has a record on the device, is       *)
(* committed, or was dismissed; and there is nothing else on the device or *)
(* in the ledger under an operation id of its own.                         *)
THEOREM NothingIsLost == OutboxSpec => []Box!NothingLost
<1>1. OutboxInv => Box!NothingLost
  <2> SUFFICES ASSUME OutboxInv PROVE Posted = Kept \cup (Delivered \cup Dismissed)
    BY DEF Box!NothingLost, Box!Settled, Kept
  <2>1. Posted \subseteq Op
    BY OutboxAssumption DEF OutboxInv, RecordsTyped, Posted, Op
  <2>2. \A op \in Posted : op \in Kept \/ op \in Done
    BY <2>1 DEF OutboxInv, RecordsPosted, DoneKnown, Kept, Present
  <2>3. Kept \subseteq Posted
    BY DEF OutboxInv, RecordsPosted, Kept, Present
  <2>4. Dismissed \subseteq Posted /\ Delivered \subseteq Posted
    BY DEF OutboxInv, ConflictsPosted, Dismissed
  <2> QED BY <2>2, <2>3, <2>4 DEF Done
<1> QED BY <1>1, OutboxInvHolds, PTL

=============================================================================
