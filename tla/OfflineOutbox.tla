---------------------------- MODULE OfflineOutbox ----------------------------
(***************************************************************************)
(* The offline outbox of a field device, composed with the command service *)
(* it talks to.  Operations are queued in IndexedDB, which every tab of    *)
(* the browser shares and which survives a reload.  A synchronization pass *)
(* runs in one tab: it takes a snapshot of the operations to send, newest  *)
(* first, and for each of them marks the record SENDING, looks for a       *)
(* conflict with the tab's cached copy of the trip, sends the command and  *)
(* waits for the answer.  Everything between two awaits is one action;     *)
(* between the actions other tabs, the user, the server and other people's *)
(* commands may move.                                                      *)
(***************************************************************************)
EXTENDS TripCommands, Sequences, SequencesExt, TLC

CONSTANTS
  Tab,          \* browser tabs of the device
  Script,       \* the operations in the order the field user queues them
  Intent,       \* operation -> the command it stands for
  Amended,      \* operation -> the same command after a resolution edited its payload
  LocalStatus,  \* operation -> what the screen writes in its cache, or None
  FieldUser,    \* the people who sign in on this device
  Office,       \* commands other people send meanwhile
  RetryLimit,   \* automatic attempts of a failed operation
  Budget        \* bounds on lost messages, reloads, and what the user does beside queueing

Op == {Script[i] : i \in 1 .. Len(Script)}

(* The tab caches a trip under its server id; a trip that is still only    *)
(* queued is cached under a local id, here the operation that creates it.  *)
Key(op) == IF Intent[op].command \in Creation THEN op ELSE Intent[op].trip
Cached == Trip \cup Op

ClientStatus == {"DRAFT", "LOADED", "IN_TRANSIT", "ARRIVED", "UNLOADING", "OFFLOADED",
                 "COMPLETED", "RETURNED", "CANCELLED"}

Person == "user"  \* writes records for the user, in one of the tabs

Hazards == {"loss", "reload", "retry", "signin", "clear", "resolve"}

(* What a queued operation can stand for (queuedTripCommand).              *)
QueuedCommand == StatusCommand \cup {"RECORD_LOADING", "REPORT_EXCEPTION"}

(* The operations of the script pass the device's own check of required    *)
(* fields, so a command can only be refused by the server.  An operation   *)
(* id is made when the operation is queued: neither trips from before the  *)
(* ledger nor the commands of others carry it, and the local id of a trip  *)
(* that is only queued is not one of the server's.                         *)
ASSUME OutboxAssumption ==
  /\ Script \in Seq(OpId) /\ IsInjective(Script)
  /\ \A op \in Op : /\ Intent[op] \in Request /\ Intent[op].op = op
                    /\ Intent[op].command \in QueuedCommand
                    /\ Intent[op].command \in Creation => Intent[op].payload.driver # None
                    /\ Amended[op] \in Request /\ Amended[op].op = op
                    /\ Amended[op].command = Intent[op].command
                    /\ Amended[op].trip = Intent[op].trip
                    /\ LocalStatus[op] \in ClientStatus \cup {None}
  /\ FieldUser \subseteq User
  /\ Office \subseteq User \X {r \in Request : r.op \notin Op}
  /\ \A t \in LegacyTrip : t.clientUUID \notin Op
  /\ Op \cap Trip = {}
  /\ None \notin {"PENDING", "SYNCED"} \cup ClientStatus
  /\ RetryLimit \in Nat
  /\ Budget \in [Hazards -> Nat]

VARIABLES
  outbox,      \* op -> IndexedDB record
  writing,     \* tab or the user -> the record it has read and is about to put back
  clearing,    \* the records that are still to be deleted by clearSynced
  clock,       \* createdAt of the latest operation
  queued,      \* how much of the script has been queued
  conflict,    \* op -> the states its conflict records are in
  view,        \* cached trips: in the memory of each tab, and on disk
  pass,        \* tab -> synchronization pass, IDLE when isSyncing is false
  wire,        \* tab -> the request it waits for
  orphans,     \* requests nobody waits for and the server may still receive
  signedIn,    \* current user of the device, or None
  budget       \* what is left of Budget

records == <<outbox, writing, clearing>>
deviceVars == <<records, clock, queued, conflict, view, pass, wire, orphans, signedIn, budget>>
allVars == <<vars, deviceVars>>

Nothing  == [status |-> None, sync |-> None]
Idle     == [phase |-> "IDLE", queue |-> <<>>, retry |-> [op \in Op |-> 0],
             amended |-> [op \in Op |-> FALSE]]
Silent   == [state |-> "NONE", user |-> None, request |-> None, trip |-> None, status |-> None]

(* The presentation status of a server status (adaptTripEntityToRecord).   *)
Projected(s) ==
  CASE s \in {"DISPATCHED", "AT_ORIGIN", "LOADING", "WEIGHED_ORIGIN"} -> "LOADED"
    [] s \in {"AT_DESTINATION", "WEIGHED_DESTINATION"} -> "ARRIVED"
    [] s = "REJECTED" -> "RETURNED"
    [] OTHER -> s

(* The trips store of IndexedDB is shared by the tabs; a tab writes it     *)
(* together with its memory, and copies a record into memory when it reads *)
(* it by key.                                                              *)
Disk == "disk"
Store(tab, changes) ==
  view' = [v \in Tab \cup {Disk} |->
             [k \in Cached |-> IF v \in {tab, Disk} /\ k \in DOMAIN changes
                              THEN changes[k] ELSE view[v][k]]]

Only(key, copy) == [k \in {key} |-> copy]

Spend(hazard) == /\ budget[hazard] > 0
                 /\ budget' = [budget EXCEPT ![hazard] = @ - 1]

Present(op) == outbox[op].status \notin {"NONE", "CLEARED"}

(* updateOutboxStatus reads the record, does nothing if it is gone, and    *)
(* else puts the changed record back in a transaction of its own.          *)
Update(who, op, changed) ==
  writing' = [writing EXCEPT ![who] = IF Present(op) THEN [op |-> op, record |-> changed] ELSE None]
Mark(who, op, status) == Update(who, op, [outbox[op] EXCEPT !.status = status])

PutRecord(who) ==
  /\ writing[who] # None
  /\ outbox' = [outbox EXCEPT ![writing[who].op] = writing[who].record]
  /\ writing' = [writing EXCEPT ![who] = None]
  /\ UNCHANGED <<vars, clearing, clock, queued, conflict, view, pass, wire, orphans, signedIn, budget>>

-----------------------------------------------------------------------------
(* The user's screens *)

(* Fault: the optimistic trip is not marked as such. *)
EnqueueUnmarked(tab) ==
  /\ queued < Len(Script)
  /\ LET op == Script[queued + 1] IN
     /\ clock' = clock + 1
     /\ outbox' = [outbox EXCEPT ![op] = [status |-> "PENDING", retry |-> 0,
                                          created |-> clock + 1, amended |-> FALSE]]
     /\ IF LocalStatus[op] = None THEN UNCHANGED view
        ELSE Store(tab, Only(Key(op), [status |-> LocalStatus[op], sync |-> "SYNCED"]))
  /\ queued' = queued + 1
  /\ UNCHANGED <<vars, writing, clearing, conflict, pass, wire, orphans, signedIn, budget>>

(* A screen writes its optimistic trip, which it marks PENDING unless the   *)
(* trip is new, and queues the operation.  Two operations may be queued in *)
(* the same millisecond.                                                   *)
Enqueue(tab) ==
  /\ queued < Len(Script)
  /\ LET op == Script[queued + 1] IN
     /\ \E time \in {clock, clock + 1} :
          /\ queued = 0 => time = clock + 1
          /\ clock' = time
          /\ outbox' = [outbox EXCEPT ![op] = [status |-> "PENDING", retry |-> 0,
                                               created |-> time, amended |-> FALSE]]
     /\ IF LocalStatus[op] = None THEN UNCHANGED view
        ELSE Store(tab, Only(Key(op), [status |-> LocalStatus[op],
                                       sync |-> IF Intent[op].command \in Creation
                                                THEN None ELSE "PENDING"]))
  /\ queued' = queued + 1
  /\ UNCHANGED <<vars, writing, clearing, conflict, pass, wire, orphans, signedIn, budget>>

(* Starting to unload is only written in the cache.                        *)
StartUnloading(tab, t) ==
  /\ view[tab][t].status = "ARRIVED"
  /\ Store(tab, Only(t, [status |-> "UNLOADING", sync |-> "PENDING"]))
  /\ UNCHANGED <<vars, records, clock, queued, conflict, pass, wire, orphans, signedIn, budget>>

(* refreshInboundTrips overwrites the cache with what the server has.      *)
RefreshTrips(tab) ==
  /\ Store(tab, [t \in Existing |-> [status |-> Projected(trip[t].status), sync |-> "SYNCED"]])
  /\ UNCHANGED <<vars, records, clock, queued, conflict, pass, wire, orphans, signedIn, budget>>

ReadTrip(tab, k) ==
  /\ view[Disk][k] # Nothing
  /\ view' = [view EXCEPT ![tab][k] = view[Disk][k]]
  /\ UNCHANGED <<vars, records, clock, queued, conflict, pass, wire, orphans, signedIn, budget>>

RetryOperation(op) ==
  /\ writing[Person] = None
  /\ outbox[op].status \in {"FAILED", "CONFLICT"}
  /\ Spend("retry")
  /\ Mark(Person, op, "PENDING")
  /\ UNCHANGED <<vars, outbox, clearing, clock, queued, conflict, view, pass, wire, orphans, signedIn>>

(* Fault: everything that is not waiting is cleared. *)
ClearNotPending ==
  /\ clearing = {}
  /\ clearing' = {op \in Op : outbox[op].status \in {"SYNCED", "FAILED", "CONFLICT"}}
  /\ Spend("clear")
  /\ UNCHANGED <<vars, outbox, writing, clock, queued, conflict, view, pass, wire, orphans, signedIn>>

(* clearSynced reads all records and deletes, one by one, those it read as *)
(* SYNCED.                                                                 *)
ClearSynced ==
  /\ clearing = {}
  /\ clearing' = {op \in Op : outbox[op].status = "SYNCED"}
  /\ Spend("clear")
  /\ UNCHANGED <<vars, outbox, writing, clock, queued, conflict, view, pass, wire, orphans, signedIn>>

DeleteRecord(op) ==
  /\ op \in clearing
  /\ clearing' = clearing \ {op}
  /\ outbox' = [outbox EXCEPT ![op].status = "CLEARED"]
  /\ UNCHANGED <<vars, writing, clock, queued, conflict, view, pass, wire, orphans, signedIn, budget>>

(* Signing in or out leaves the outbox and a running pass alone.          *)
SignIn(u) ==
  /\ u # signedIn
  /\ Spend("signin")
  /\ signedIn' = u
  /\ UNCHANGED <<vars, records, clock, queued, conflict, view, pass, wire, orphans>>

-----------------------------------------------------------------------------
(* Explicit resolution of a conflict: the record is closed first, the      *)
(* outbox is updated after an await.                                       *)

(* ACCEPT_SERVER_STATE stands for every strategy that drops the local      *)
(* command (it deletes the copy of the server's trip it has just written), *)
(* FORCE_CLIENT_STATE for those that send the same command again, and      *)
(* UPDATE_MASTER_DATA_RELATION for those that change the carrier or the    *)
(* pricing rule first; of what a resolution edits only these reach the     *)
(* server.                                                                 *)
Dismissing == {"ACCEPT_SERVER_STATE"}
Replaying  == {"FORCE_CLIENT_STATE", "UPDATE_MASTER_DATA_RELATION"}

ResolveConflict(tab, op, strategy) ==
  /\ "OPEN" \in conflict[op] /\ Spend("resolve")
  /\ conflict' = [conflict EXCEPT ![op] = (@ \ {"OPEN"}) \cup {strategy}]
  /\ IF strategy \in Dismissing THEN Store(tab, Only(Key(op), Nothing)) ELSE UNCHANGED view
  /\ UNCHANGED <<vars, records, clock, queued, pass, wire, orphans, signedIn>>

(* Fault: every strategy closes the record. *)
FinishByClosing(op, strategy) ==
  /\ strategy \in conflict[op] /\ writing[Person] = None
  /\ conflict' = [conflict EXCEPT ![op] = (@ \ {strategy}) \cup
                     (IF strategy \in Dismissing THEN {"DISMISSED"} ELSE {})]
  /\ Mark(Person, op, "SYNCED")
  /\ UNCHANGED <<vars, outbox, clearing, clock, queued, view, pass, wire, orphans, signedIn, budget>>

(* A replayed command starts over with no attempts, a dismissed one is     *)
(* closed as if it had been acknowledged.                                  *)
FinishResolution(op, strategy) ==
  /\ strategy \in conflict[op] /\ writing[Person] = None
  /\ conflict' = [conflict EXCEPT ![op] = (@ \ {strategy}) \cup
                     (IF strategy \in Dismissing THEN {"DISMISSED"} ELSE {})]
  /\ IF strategy \in Dismissing THEN Mark(Person, op, "SYNCED")
     ELSE Update(Person, op, [outbox[op] EXCEPT !.status = "PENDING", !.retry = 0,
                                !.amended = @ \/ strategy = "UPDATE_MASTER_DATA_RELATION"])
  /\ UNCHANGED <<vars, outbox, clearing, clock, queued, view, pass, wire, orphans, signedIn, budget>>

-----------------------------------------------------------------------------
(* A synchronization pass *)

(* Fault: a failed operation is not sent again. *)
SendableOnce == {op \in Op : outbox[op].status = "PENDING"}

Sendable == {op \in Op : \/ outbox[op].status = "PENDING"
                         \/ outbox[op].status = "FAILED" /\ outbox[op].retry < RetryLimit}

(* The snapshot, sorted by descending creation time; operations of one     *)
(* millisecond come in the order of their random ids.                      *)
NewestFirst(q) ==
  \A i, j \in 1 .. Len(q) : i < j => outbox[q[i]].created >= outbox[q[j]].created

StartPass(tab) ==
  /\ pass[tab] = Idle /\ writing[tab] = None
  /\ Sendable # {}
  /\ \E q \in SetToSeqs(Sendable) :
       /\ NewestFirst(q)
       /\ pass' = [pass EXCEPT ![tab] = [phase |-> "NEXT", queue |-> q,
                                         retry |-> [op \in Op |-> outbox[op].retry],
                                         amended |-> [op \in Op |-> outbox[op].amended]]]
  /\ UNCHANGED <<vars, records, clock, queued, conflict, view, wire, orphans, signedIn, budget>>

Current(tab) == Head(pass[tab].queue)

(* The pass goes on with the next operation of its snapshot, or ends.      *)
Proceed(tab) ==
  pass' = [pass EXCEPT ![tab] =
             IF Len(pass[tab].queue) = 1 THEN Idle
             ELSE [pass[tab] EXCEPT !.phase = "NEXT", !.queue = Tail(pass[tab].queue)]]

MarkSending(tab) ==
  /\ pass[tab].phase = "NEXT" /\ writing[tab] = None
  /\ Mark(tab, Current(tab), "SENDING")
  /\ pass' = [pass EXCEPT ![tab].phase = "MARKED"]
  /\ UNCHANGED <<vars, outbox, clearing, clock, queued, conflict, view, wire, orphans, signedIn, budget>>

CompletesTrip(op) == Intent[op].command = "COMPLETE_TRIP"

(* Fault: an optimistic copy is a witness too. *)
MayConflictOptimistic(tab, op) ==
  LET seen == view[tab][Key(op)] IN
  \/ seen.status = "COMPLETED" /\ ~CompletesTrip(op)
  \/ seen.status = "RETURNED"
  \/ Intent[op].command \in Creation

(* The cached copy is a witness unless the device itself wrote it.  For a  *)
(* creation the cached price list or affiliations may speak against it.    *)
MayConflict(tab, op) ==
  LET seen == view[tab][Key(op)] IN
  /\ seen.sync # "PENDING"
  /\ \/ seen.status = "COMPLETED" /\ ~CompletesTrip(op)
     \/ seen.status = "RETURNED"
     \/ Intent[op].command \in Creation
MustConflict(tab, op) == MayConflict(tab, op) /\ Intent[op].command \notin Creation

(* The conflict check reads no answer of the server and comes before it.   *)
FlagConflict(tab) ==
  /\ pass[tab].phase = "MARKED" /\ writing[tab] = None
  /\ LET op == Current(tab) IN
     /\ MayConflict(tab, op)
     /\ Mark(tab, op, "CONFLICT")
     /\ conflict' = [conflict EXCEPT ![op] = @ \cup {"OPEN"}]
  /\ Proceed(tab)
  /\ UNCHANGED <<vars, outbox, clearing, clock, queued, view, wire, orphans, signedIn, budget>>

(* The request is built from the snapshot of the operation and sent as     *)
(* whoever is signed in now.                                               *)
SendCommand(tab) ==
  /\ pass[tab].phase = "MARKED" /\ writing[tab] = None
  /\ signedIn # None
  /\ LET op == Current(tab) IN
     /\ ~MustConflict(tab, op)
     /\ wire' = [wire EXCEPT ![tab] =
                   [Silent EXCEPT !.state = "SENT", !.user = signedIn,
                                  !.request = IF pass[tab].amended[op] THEN Amended[op]
                                                                       ELSE Intent[op]]]
  /\ pass' = [pass EXCEPT ![tab].phase = "WAITING"]
  /\ UNCHANGED <<vars, records, clock, queued, conflict, view, orphans, signedIn, budget>>

(* A failed attempt; the count comes from the snapshot.                    *)
Fail(tab) ==
  LET op == Current(tab)
  IN Update(tab, op, [outbox[op] EXCEPT !.status = "FAILED", !.retry = pass[tab].retry[op] + 1])

Unauthenticated(tab) ==
  /\ pass[tab].phase = "MARKED" /\ writing[tab] = None
  /\ signedIn = None
  /\ ~MustConflict(tab, Current(tab))
  /\ Fail(tab)
  /\ Proceed(tab)
  /\ UNCHANGED <<vars, outbox, clearing, clock, queued, conflict, view, wire, orphans, signedIn, budget>>

(* An acknowledgement puts the server's trip in the cache, in place of the *)
(* local one if the operation created it, and closes the record.  That of  *)
(* an exception only rewrites the cached trip, wherever it is found.       *)
Acknowledge(tab) ==
  /\ wire[tab].state = "OK"
  /\ LET op == Current(tab)
         answer == wire[tab]
         fresh == [status |-> answer.status, sync |-> "SYNCED"]
         found == IF view[Disk][Key(op)] # Nothing THEN view[Disk][Key(op)]
                                                   ELSE view[tab][Key(op)]
     IN /\ CASE Intent[op].command \in Creation ->
                  Store(tab, [k \in {answer.trip, op} |->
                                IF k = answer.trip THEN fresh ELSE Nothing])
             [] Intent[op].command = "REPORT_EXCEPTION" -> Store(tab, Only(Key(op), found))
             [] OTHER -> Store(tab, Only(answer.trip, fresh))
        /\ Mark(tab, op, "SYNCED")
  /\ Proceed(tab)
  /\ wire' = [wire EXCEPT ![tab] = Silent]
  /\ UNCHANGED <<vars, outbox, clearing, clock, queued, conflict, orphans, signedIn, budget>>

Refused(tab) ==
  /\ wire[tab].state = "DENIED"
  /\ Fail(tab)
  /\ Proceed(tab)
  /\ wire' = [wire EXCEPT ![tab] = Silent]
  /\ UNCHANGED <<vars, outbox, clearing, clock, queued, conflict, view, orphans, signedIn, budget>>

(* The connection fails: the request is lost, or is still on its way, or   *)
(* was handled and the answer is lost.                                     *)
ConnectionLost(tab) ==
  /\ wire[tab].state # "NONE"
  /\ Spend("loss")
  /\ Fail(tab)
  /\ Proceed(tab)
  /\ wire' = [wire EXCEPT ![tab] = Silent]
  /\ \/ UNCHANGED orphans
     \/ /\ wire[tab].state = "SENT"
        /\ orphans' = orphans \cup {<<wire[tab].user, wire[tab].request>>}
  /\ UNCHANGED <<vars, outbox, clearing, clock, queued, conflict, view, signedIn>>

(* Closing or reloading a tab forgets its memory, and what the user began  *)
(* in it; IndexedDB stays.                                                 *)
Reload(tab) ==
  /\ Spend("reload")
  /\ pass' = [pass EXCEPT ![tab] = Idle]
  /\ view' = [view EXCEPT ![tab] = [k \in Cached |-> Nothing]]
  /\ wire' = [wire EXCEPT ![tab] = Silent]
  /\ \/ UNCHANGED orphans
     \/ /\ wire[tab].state = "SENT"
        /\ orphans' = orphans \cup {<<wire[tab].user, wire[tab].request>>}
  /\ writing' \in {[writing EXCEPT ![tab] = None], [writing EXCEPT ![tab] = None, ![Person] = None]}
  /\ clearing' \in {clearing, {}}
  /\ UNCHANGED <<vars, outbox, clock, queued, conflict, signedIn>>

-----------------------------------------------------------------------------
(* The server *)

Accepts(u, r) == ENABLED Execute(u, r)

(* The trip an answer carries: the one just written, or the one the        *)
(* operation made before.                                                  *)
AnsweredTrip(u, r) == IF r.trip # None THEN r.trip
                      ELSE CHOOSE t \in Trip : trip'[t] # None /\ trip'[t].clientUUID = r.op

HandleRequest(tab) ==
  /\ wire[tab].state = "SENT"
  /\ LET u == wire[tab].user
         r == wire[tab].request
         answered == [wire[tab] EXCEPT !.state = "OK", !.trip = AnsweredTrip(u, r),
                        !.status = Projected(trip'[AnsweredTrip(u, r)].status)]
     IN \/ /\ Execute(u, r)
           /\ wire' = [wire EXCEPT ![tab] = answered]
        \/ /\ IsReplay(u, r)
           /\ UNCHANGED vars
           /\ wire' = [wire EXCEPT ![tab] = answered]
        \/ /\ ~Accepts(u, r) /\ ~IsReplay(u, r)
           /\ UNCHANGED vars
           /\ wire' = [wire EXCEPT ![tab].state = "DENIED"]
  /\ UNCHANGED <<records, clock, queued, conflict, view, pass, orphans, signedIn, budget>>

(* A request its sender gave up on arrives late, or never.                 *)
HandleOrphan ==
  /\ \E m \in orphans : /\ orphans' = orphans \ {m}
                        /\ \/ Execute(m[1], m[2])
                           \/ UNCHANGED vars
  /\ UNCHANGED <<records, clock, queued, conflict, view, pass, wire, signedIn, budget>>

OfficeCommand ==
  /\ \E m \in Office : Execute(m[1], m[2])
  /\ UNCHANGED deviceVars

-----------------------------------------------------------------------------
OutboxInit ==
  /\ Init
  /\ outbox = [op \in Op |-> [status |-> "NONE", retry |-> 0, created |-> 0, amended |-> FALSE]]
  /\ writing = [who \in Tab \cup {Person} |-> None]
  /\ clearing = {}
  /\ clock = 0
  /\ queued = 0
  /\ conflict = [op \in Op |-> {}]
  /\ view = [v \in Tab \cup {Disk} |-> [k \in Cached |-> Nothing]]
  /\ pass = [tab \in Tab |-> Idle]
  /\ wire = [tab \in Tab |-> Silent]
  /\ orphans = {}
  /\ signedIn \in FieldUser
  /\ budget = Budget

PassStep(tab) == \/ MarkSending(tab)
                 \/ FlagConflict(tab)
                 \/ SendCommand(tab)
                 \/ Unauthenticated(tab)
                 \/ Acknowledge(tab)
                 \/ Refused(tab)
                 \/ PutRecord(tab)

UserStep == \/ \E tab \in Tab : Enqueue(tab)
            \/ \E tab \in Tab, t \in Trip : StartUnloading(tab, t)
            \/ \E tab \in Tab : RefreshTrips(tab)
            \/ \E tab \in Tab, k \in Cached : ReadTrip(tab, k)
            \/ \E op \in Op : RetryOperation(op)
            \/ ClearSynced
            \/ \E op \in Op : DeleteRecord(op)
            \/ PutRecord(Person)
            \/ \E u \in FieldUser \cup {None} : SignIn(u)
            \/ \E tab \in Tab, op \in Op, strategy \in Dismissing \cup Replaying :
                 ResolveConflict(tab, op, strategy)
            \/ \E op \in Op, strategy \in Dismissing \cup Replaying :
                 FinishResolution(op, strategy)

OutboxNext == \/ UserStep
              \/ \E tab \in Tab : StartPass(tab)
              \/ \E tab \in Tab : PassStep(tab)
              \/ \E tab \in Tab : ConnectionLost(tab)
              \/ \E tab \in Tab : Reload(tab)
              \/ \E tab \in Tab : HandleRequest(tab)
              \/ HandleOrphan
              \/ OfficeCommand

OutboxSpec == OutboxInit /\ [][OutboxNext]_allVars

(* A pass runs to its end, the server answers, and passes keep being       *)
(* triggered: the browser's online event fires each time the connection    *)
(* comes back, and the drawer has a button.                                *)
Fairness == \A tab \in Tab : /\ WF_allVars(StartPass(tab))
                             /\ WF_allVars(PassStep(tab))
                             /\ WF_allVars(HandleRequest(tab))

FairOutboxSpec == OutboxSpec /\ Fairness

-----------------------------------------------------------------------------
(* Properties *)

Statuses == {"NONE", "PENDING", "SENDING", "SYNCED", "FAILED", "CONFLICT", "CLEARED"}

Record == [status : Statuses, retry : Nat, created : Nat, amended : BOOLEAN]

(* Every record of the device is one its readers understand. *)
OutboxTypeOK ==
  /\ outbox \in [Op -> Record]
  /\ writing \in [Tab \cup {Person} -> [op : Op, record : Record] \cup {None}]
  /\ clearing \subseteq Op
  /\ clock \in Nat
  /\ queued \in 0 .. Len(Script)
  /\ conflict \in [Op -> SUBSET ({"OPEN", "DISMISSED"} \cup Dismissing \cup Replaying)]
  /\ view \in [Tab \cup {Disk} -> [Cached -> [status : ClientStatus \cup {None},
                                           sync : {"PENDING", "SYNCED", None}]]]
  /\ \A tab \in Tab : /\ pass[tab].phase \in {"IDLE", "NEXT", "MARKED", "WAITING"}
                      /\ pass[tab].phase = "IDLE" <=> pass[tab].queue = <<>>
                      /\ pass[tab].phase = "WAITING" <=> wire[tab].state # "NONE"
                      /\ wire[tab].state \in {"NONE", "SENT", "OK", "DENIED"}
  /\ orphans \subseteq User \X Request
  /\ signedIn \in FieldUser \cup {None}
  /\ budget \in [Hazards -> Nat]

Committed(op) == \E u \in User : ledger[u][op] # None

(* The outbox says SYNCED only for what the server has committed or what a *)
(* person explicitly dismissed; lost answers, reloads, late requests and   *)
(* records that other tabs put back after they changed do not change that. *)
DoneMeansCommitted ==
  \A op \in Op : outbox[op].status = "SYNCED" => Committed(op) \/ "DISMISSED" \in conflict[op]

(* A queued transition or loading is executed for one account at most,     *)
(* although the ledger is kept per account and the device sends as whoever *)
(* is signed in: the trip's status and the search for the operation id of  *)
(* a creation stand in for the ledger then.                                *)
AppliedOnce ==
  \A op \in Op : Intent[op].command # "REPORT_EXCEPTION" =>
    Cardinality({u \in User : ledger[u][op] # None}) <= 1

ClientRank(s) ==
  CASE s = "DRAFT" -> 0 [] s = "LOADED" -> 1 [] s = "IN_TRANSIT" -> 5 [] s = "ARRIVED" -> 6
    [] s = "UNLOADING" -> 6 [] s = "OFFLOADED" -> 8 [] OTHER -> 9

(* A cached trip, in memory or on disk, that is not marked as the device's *)
(* own writing never shows more than the server has committed: an answer   *)
(* may be old when it is stored, but never ahead.                          *)
CacheNotAhead ==
  \A v \in Tab \cup {Disk}, t \in Trip : view[v][t].sync = "SYNCED" =>
    /\ t \in Existing
    /\ ClientRank(view[v][t].status) <= Rank[trip[t].status]

(* An operation on a trip is only held back as a conflict, for a person to *)
(* decide on, when the trip has really ended at the server: no copy in the *)
(* cache that the device wrote ahead of it, and none that an answer, a     *)
(* refresh or another tab left there, is taken for the end of a trip that  *)
(* could still take the operation.                                         *)
OnlyEndedTripsConflict ==
  \A op \in Op : conflict[op] # {} /\ Intent[op].command \notin Creation =>
    /\ Intent[op].trip \in Existing
    /\ trip[Intent[op].trip].status \in Terminal

(* The outbox is a postbox of the field users: an operation is handed in   *)
(* when it is queued, delivered when the server commits it, whoever was    *)
(* waiting for the answer, and given up when a resolution dismisses it.    *)
Posted    == {Script[i] : i \in 1 .. queued}
Delivered == {op \in Op : Committed(op)}
Dismissed == {op \in Op : "DISMISSED" \in conflict[op]}

Box == INSTANCE Postbox WITH
  Letter    <- Op,
  posted    <- Posted,
  kept      <- {op \in Op : Present(op)},
  delivered <- Delivered,
  dropped   <- Dismissed

PostboxSpec == Box!Spec

(* Every queued operation is committed in the end: the passes, newest      *)
(* operation first, deliver a chain of dependent transitions before the    *)
(* limit of attempts is reached, when a message is lost as well.           *)
EventuallyCommitted == \A op \in Op : outbox[op].status = "PENDING" ~> Committed(op)
=============================================================================
