---------------------------- MODULE TripCommands ----------------------------
(***************************************************************************)
(* The authoritative trip command service of one project.  A command is    *)
(* one Firestore transaction: it reads the caller's account, the trip and  *)
(* the caller's ledger entry for the operation id, runs the domain rules   *)
(* on buffered documents and then writes the trip, its events, the         *)
(* workspace projection event and the ledger entry together.  Firestore    *)
(* transactions are serializable, so each command is one action here; a    *)
(* command that is denied writes nothing and is a stuttering step.         *)
(*                                                                         *)
(* Around the commands the model has the other writers whose changes a     *)
(* command reads: account administration, the canonical relationships a    *)
(* dispatch must satisfy, the driver's own status and the project's        *)
(* operational configuration.                                              *)
(***************************************************************************)
EXTENDS TripLifecycle

CONSTANTS
  User,           \* principals with an account
  OpId,           \* operation ids the clients generate
  Trip,           \* trip ids the server may generate
  Driver,         \* driver identities
  Ids,            \* carrier, truck, material and pricing rule of a payload; two
                  \* members differ in the carrier, the truck or the material
  Request,        \* the commands the clients of this instance send
  Account,        \* the account documents administration may write
  Eligibility,    \* the sets of <<ids, driver>> that reference data may allow
  Configuration,  \* the operational configurations a project may be given
  Pricing,        \* the pricing types of the rules that resolve
  LegacyTrip,     \* trips written before commands had a ledger
  MaxTime         \* bound on the server clock, in milliseconds

Payloads == [ids          : Ids \cup {None},
             driver       : Driver \cup {None},
             loadNet      : BOOLEAN,
             unloadNet    : BOOLEAN,
             points       : SUBSET Checkpoint,
             legacyStatus : Status \cup {None}]

Requests == [command : Command, op : OpId, trip : Trip \cup {None}, payload : Payloads]

Accounts == [active : BOOLEAN, role : Role, assigned : BOOLEAN, linked : Driver \cup {None}]

TripRecords == [status        : Status,
                clientUUID    : OpId,
                createdBy     : User,
                ids           : Ids,
                driver        : Driver \cup {None},
                number        : Nat,
                profile       : Configurations \cup {None},
                pricing       : {"PER_TON", "PER_TRIP", "LEGACY_UNRESOLVED"},
                loadNet       : BOOLEAN,
                unloadNet     : BOOLEAN,
                points        : SUBSET Checkpoint,
                finalized     : BOOLEAN,
                hasExceptions : BOOLEAN]

(* What sync_operations keeps of an accepted command. *)
Entries == [command : Command, request : Trip \cup {None}, payload : Payloads,
            tripId : Trip, linked : Driver \cup {None}]

(* The shape the request validation lets through. *)
WellFormed(r) ==
  /\ r.command \in Creation <=> r.trip = None
  /\ r.command \in Creation => r.payload.ids # None
  /\ r.command = "ASSOCIATE_DRIVER" => r.payload.driver # None
  /\ r.command = "IMPORT_TRIP" =>
       r.payload.points \subseteq {"loadingCompletedAt", "unloadingCompletedAt"}

(* Trips from before the ledger carry no operational snapshot and always   *)
(* have a driver.                                                          *)
ASSUME ConstantsAssumption ==
  /\ None \notin User \cup OpId \cup Trip \cup Driver \cup Ids \cup Status \cup Nat
  /\ None \notin Configurations \cup TripRecords \cup Entries
  /\ IsFiniteSet(Trip)
  /\ Request \subseteq {r \in Requests : WellFormed(r)}
  /\ Account \subseteq Accounts
  /\ Eligibility \subseteq SUBSET (Ids \X (Driver \cup {None}))
  /\ Configuration \subseteq Configurations
  /\ Pricing \subseteq {"PER_TON", "PER_TRIP"}
  /\ LegacyTrip \subseteq {t \in TripRecords : t.profile = None /\ t.driver # None
                                              /\ ~t.hasExceptions}
  /\ MaxTime \in Nat

VARIABLES
  trip,           \* Trip -> trip document, or None while the id is unused
  ledger,         \* User -> OpId -> sync_operations entry, or None
  revision,       \* Trip -> revision of its workspace_sync_outbox event
  nextNumber,     \* systemCounters/tripNumber_P, None while it is absent
  events,         \* trip_events of the project
  account,        \* User -> users document
  activeDriver,   \* drivers whose canonical status is ACTIVE
  eligible,       \* <<ids, driver>> that pass the canonical entity validation
  configuration,  \* operational configuration of the project, or None
  now             \* server clock

vars == <<trip, ledger, revision, nextNumber, events, account, activeDriver, eligible,
          configuration, now>>
committed   == <<trip, ledger, revision, nextNumber, events>>
environment == <<account, activeDriver, eligible, configuration, now>>

Existing == {t \in Trip : trip[t] # None}

-----------------------------------------------------------------------------
(* Authorization and the two idempotency checks *)

MayAct(u) == /\ account[u].active
             /\ account[u].role = "SUPER_ADMIN" \/ account[u].assigned

OwnsTrip(u, t) == /\ account[u].linked \in activeDriver
                  /\ t \in Existing
                  /\ trip[t].driver = account[u].linked

Authorized(u, r) == /\ MayAct(u)
                    /\ account[u].role \in RolesOf[r.command]
                    /\ r.command \notin Creation => r.trip \in Existing
                    /\ account[u].role = "DRIVER" => OwnsTrip(u, r.trip)

(* The fingerprint is a digest of the command, the trip it names and its   *)
(* payload; the model compares what is digested.                           *)
SameRequest(entry, r) == /\ entry.command = r.command
                         /\ entry.request = r.trip
                         /\ entry.payload = r.payload

(* Fault: the domain rules are checked again before a replay. *)
IsLedgerReplayRevalidated(u, r) ==
  /\ Authorized(u, r)
  /\ ledger[u][r.op] # None
  /\ SameRequest(ledger[u][r.op], r)
  /\ r.command \in Creation => <<r.payload.ids, r.payload.driver>> \in eligible

IsLedgerReplay(u, r) ==
  /\ Authorized(u, r)
  /\ ledger[u][r.op] # None
  /\ SameRequest(ledger[u][r.op], r)
  /\ account[u].role = "DRIVER" =>
       /\ ledger[u][r.op].linked = account[u].linked
       /\ ledger[u][r.op].tripId = r.trip

Published(op) == {t \in Existing : trip[t].clientUUID = op}

IsLegacyReplay(u, r) ==
  /\ Authorized(u, r)
  /\ ledger[u][r.op] = None
  /\ r.command \in Creation
  /\ \E t \in Published(r.op) : /\ trip[t].createdBy = u
                                /\ trip[t].ids = r.payload.ids
                                /\ trip[t].driver = r.payload.driver

(* Faults: only the caller's ledger is asked; or an entry of another       *)
(* request does not stop a command.                                        *)
IsFreshPerAccount(u, r) == /\ Authorized(u, r)
                           /\ ledger[u][r.op] = None

IsFreshPerRequest(u, r) == /\ Authorized(u, r)
                           /\ ledger[u][r.op] # None => ~SameRequest(ledger[u][r.op], r)
                           /\ r.command \in Creation => Published(r.op) = {}

IsFresh(u, r) == /\ Authorized(u, r)
                 /\ ledger[u][r.op] = None
                 /\ r.command \in Creation => Published(r.op) = {}

-----------------------------------------------------------------------------
(* What every accepted command writes besides the trip *)

Event(at, kind, of, t) == [at |-> at, kind |-> kind, of |-> of, trip |-> t]

(* Events whose id is a clock reading and a status, and those whose id     *)
(* names the trip.                                                         *)
StageEvents(t, kinds)  == {Event(now, kind, None, t) : kind \in kinds}
TripEvent(t, kind)     == {Event(None, kind, t, t)}

SameId(e, f) == e.at = f.at /\ e.kind = f.kind /\ e.of = f.of

(* set() on a document id replaces the document that has it. *)
Put(new) == {e \in events : \A n \in new : ~SameId(e, n)} \cup new

(* Fault: the entry keeps the trip id of the request. *)
EntryOfRequest(u, r, t) == [command |-> r.command, request |-> r.trip, payload |-> r.payload,
                            tripId |-> r.trip, linked |-> account[u].linked]

Entry(u, r, t) == [command |-> r.command, request |-> r.trip, payload |-> r.payload,
                   tripId |-> t, linked |-> account[u].linked]

Commit(u, r, t, record, new) ==
  /\ trip'     = [trip EXCEPT ![t] = record]
  /\ events'   = Put(new)
  /\ revision' = [revision EXCEPT ![t] = @ + 1]
  /\ ledger'   = [ledger EXCEPT ![u][r.op] = Entry(u, r, t)]
  /\ UNCHANGED environment

-----------------------------------------------------------------------------
(* Creation commands *)

Numbers == {trip[t].number : t \in Existing}

(* Fault: a missing counter starts at one. *)
FreeNumberFromOne == IF nextNumber # None THEN nextNumber ELSE 1

(* The counter; when it is absent, one past the highest number in use. *)
FreeNumber == IF nextNumber # None THEN nextNumber
              ELSE IF Numbers = {} THEN 1
              ELSE (CHOOSE n \in Numbers : \A m \in Numbers : m <= n) + 1

DriverRequired == configuration = None \/ configuration.driverRequired

Dispatchable(p) == /\ p.driver = None => ~DriverRequired
                   /\ <<p.ids, p.driver>> \in eligible

NewTrip(u, r, status, pricing) ==
  [status |-> status, clientUUID |-> r.op, createdBy |-> u, ids |-> r.payload.ids,
   driver |-> r.payload.driver, number |-> FreeNumber, profile |-> configuration,
   pricing |-> pricing, loadNet |-> FALSE, unloadNet |-> FALSE, points |-> {},
   finalized |-> FALSE, hasExceptions |-> FALSE]

DispatchTrip(u, r) ==
  /\ r.command = "DISPATCH_TRIP"
  /\ IsFresh(u, r)
  /\ Dispatchable(r.payload)
  /\ \E t \in Trip \ Existing, pricing \in Pricing :
       Commit(u, r, t, NewTrip(u, r, "DISPATCHED", pricing), StageEvents(t, {"DISPATCHED"}))
  /\ nextNumber' = FreeNumber + 1

(* The compound loading action: a dispatch and four transitions, each of   *)
(* which must be legal where it is taken.                                  *)
RecordLoading(u, r) ==
  /\ r.command = "RECORD_LOADING"
  /\ IsFresh(u, r)
  /\ Dispatchable(r.payload)
  /\ \E t \in Trip \ Existing, pricing \in Pricing :
       LET dispatched == NewTrip(u, r, "DISPATCHED", pricing)
           atOrigin   == Advanced(dispatched, "AT_ORIGIN")
           loading    == Advanced(atOrigin, "LOADING")
           weighed    == Advanced(loading, "WEIGHED_ORIGIN")
       IN /\ CanAdvance(dispatched, "AT_ORIGIN")
          /\ CanAdvance(atOrigin, "LOADING")
          /\ CanAdvance(loading, "WEIGHED_ORIGIN")
          /\ CanAdvance(weighed, "IN_TRANSIT")
          /\ Commit(u, r, t, Advanced(weighed, "IN_TRANSIT"),
                    StageEvents(t, {"DISPATCHED", "AT_ORIGIN", "LOADING", "WEIGHED_ORIGIN",
                                    "IN_TRANSIT"}))
  /\ nextNumber' = FreeNumber + 1

(* The status the row names, or, when it names none the import knows, the  *)
(* one its weights suggest.                                                *)
ImportedStatus(p) ==
  CASE p.legacyStatus = "OFFLOADED" -> "COMPLETED"
    [] p.legacyStatus \in {"COMPLETED", "WEIGHED_ORIGIN", "IN_TRANSIT", "LOADING", "DISPATCHED",
                           "DRAFT", "REJECTED", "CANCELLED"} -> p.legacyStatus
    [] OTHER -> IF p.unloadNet THEN "COMPLETED"
                ELSE IF p.loadNet THEN "WEIGHED_ORIGIN" ELSE "DISPATCHED"

(* Fault: a finished row may lack weights and checkpoints. *)
ImportFitsUnfenced(p) ==
  configuration # None => /\ p.loadNet => configuration.loadingMeasured
                          /\ p.unloadNet => configuration.unloadingMeasured

(* What an imported row must satisfy in a project with a configuration. *)
ImportFitsProfile(p) ==
  configuration # None =>
    /\ p.loadNet => configuration.loadingMeasured
    /\ p.unloadNet => configuration.unloadingMeasured
    /\ ImportedStatus(p) = "COMPLETED" =>
         /\ configuration.loadingMeasured => p.loadNet
         /\ configuration.unloadingMeasured => p.unloadNet
         /\ configuration.required \subseteq p.points

ImportTrip(u, r) ==
  /\ r.command = "IMPORT_TRIP"
  /\ IsFresh(u, r)
  /\ Dispatchable(r.payload)
  /\ ImportFitsProfile(r.payload)
  /\ \E t \in Trip \ Existing, pricing \in Pricing \cup {"LEGACY_UNRESOLVED"} :
       Commit(u, r, t,
              [NewTrip(u, r, ImportedStatus(r.payload), pricing) EXCEPT
                 !.loadNet   = r.payload.loadNet,
                 !.unloadNet = r.payload.unloadNet,
                 !.points    = IF configuration = None THEN {} ELSE r.payload.points],
              TripEvent(t, "DISPATCHED_IMPORTED"))
  /\ nextNumber' = FreeNumber + 1

-----------------------------------------------------------------------------
(* Commands on an existing trip *)

AdvanceStatus(u, r) ==
  /\ r.command \in StatusCommand
  /\ IsFresh(u, r)
  /\ LET t == r.trip
         target == Target[r.command]
     IN /\ CanAdvance(trip[t], target)
        /\ r.command = "ACCEPT_ORIGIN_NET" => trip[t].profile = None /\ trip[t].loadNet
        /\ Commit(u, r, t, Advanced(trip[t], target), StageEvents(t, {target}))
  /\ UNCHANGED nextNumber

CheckpointOf(command) == IF command = "COMPLETE_LOADING" THEN "loadingCompletedAt"
                                                         ELSE "unloadingStartedAt"
CheckpointStatuses(command) ==
  IF command = "COMPLETE_LOADING" THEN {"LOADING", "WEIGHED_ORIGIN"}
                                  ELSE {"AT_DESTINATION", "WEIGHED_DESTINATION"}

(* A checkpoint that is already set is acknowledged without an update or   *)
(* an event, but the command still gets its ledger entry.                  *)
RecordCheckpoint(u, r) ==
  /\ r.command \in CheckpointCommand
  /\ IsFresh(u, r)
  /\ LET t == r.trip
         point == CheckpointOf(r.command)
     IN /\ trip[t].profile # None
        /\ ~trip[t].finalized
        /\ trip[t].status \in CheckpointStatuses(r.command)
        /\ Commit(u, r, t, [trip[t] EXCEPT !.points = @ \cup {point}],
                  IF point \in trip[t].points THEN {} ELSE TripEvent(t, point))
  /\ UNCHANGED nextNumber

AssociateDriver(u, r) ==
  /\ r.command = "ASSOCIATE_DRIVER"
  /\ IsFresh(u, r)
  /\ LET t == r.trip
     IN /\ trip[t].profile # None
        /\ trip[t].driver = None
        /\ ~trip[t].finalized
        /\ trip[t].status \notin Terminal
        /\ <<trip[t].ids, r.payload.driver>> \in eligible
        /\ Commit(u, r, t, [trip[t] EXCEPT !.driver = r.payload.driver], TripEvent(t, "DRIVER"))
  /\ UNCHANGED nextNumber

(* An exception may be reported on any trip, a closed one included. *)
ReportException(u, r) ==
  /\ r.command = "REPORT_EXCEPTION"
  /\ IsFresh(u, r)
  /\ Commit(u, r, r.trip, [trip[r.trip] EXCEPT !.hasExceptions = TRUE], {})
  /\ UNCHANGED nextNumber

Execute(u, r) == \/ DispatchTrip(u, r)
                 \/ RecordLoading(u, r)
                 \/ ImportTrip(u, r)
                 \/ AdvanceStatus(u, r)
                 \/ RecordCheckpoint(u, r)
                 \/ AssociateDriver(u, r)
                 \/ ReportException(u, r)

(* The caller gets an acknowledgement without an execution. *)
IsReplay(u, r) == IsLedgerReplay(u, r) \/ IsLegacyReplay(u, r)

-----------------------------------------------------------------------------
(* The other writers of what a command reads *)

ChangeAccount(u) ==
  /\ \E a \in Account : account' = [account EXCEPT ![u] = a]
  /\ UNCHANGED <<committed, activeDriver, eligible, configuration, now>>

SetDriverStatus(d) ==
  /\ activeDriver' = IF d \in activeDriver THEN activeDriver \ {d} ELSE activeDriver \cup {d}
  /\ UNCHANGED <<committed, account, eligible, configuration, now>>

ChangeRelationships ==
  /\ eligible' \in Eligibility
  /\ UNCHANGED <<committed, account, activeDriver, configuration, now>>

(* Fault: the impact on existing trips is not assessed. *)
ConfigureUnassessed(c) ==
  /\ c # configuration
  /\ configuration' = c
  /\ UNCHANGED <<committed, account, activeDriver, eligible, now>>

(* Once the project has trips, only a configuration of the same            *)
(* measurement profile may replace another.                                *)
ConfigureOperations(c) ==
  /\ c # configuration
  /\ configuration # None /\ Existing # {} => SameProfile(c, configuration)
  /\ configuration' = c
  /\ UNCHANGED <<committed, account, activeDriver, eligible, now>>

Tick ==
  /\ now < MaxTime
  /\ now' = now + 1
  /\ UNCHANGED <<committed, account, activeDriver, eligible, configuration>>

-----------------------------------------------------------------------------
Init ==
  /\ trip \in [Trip -> LegacyTrip \cup {None}]
  /\ \A s, t \in Existing : s # t => /\ trip[s].clientUUID # trip[t].clientUUID
                                     /\ trip[s].number # trip[t].number
  /\ ledger = [u \in User |-> [op \in OpId |-> None]]
  /\ revision = [t \in Trip |-> 0]
  /\ nextNumber = None
  /\ events = {}
  /\ account \in [User -> Account]
  /\ activeDriver = Driver
  /\ eligible \in Eligibility
  /\ configuration \in Configuration \cup {None}
  /\ now = 0

Commands == \E u \in User, r \in Request : Execute(u, r)

Environment == \/ \E u \in User : ChangeAccount(u)
               \/ \E d \in Driver : SetDriverStatus(d)
               \/ ChangeRelationships
               \/ \E c \in Configuration : ConfigureOperations(c)
               \/ Tick

Next == Commands \/ Environment

Spec == Init /\ [][Next]_vars

-----------------------------------------------------------------------------
(* Properties *)

EventRecords == [at : Nat \cup {None},
                 kind : Status \cup Checkpoint \cup {"DRIVER", "DISPATCHED_IMPORTED"},
                 of : Trip \cup {None}, trip : Trip]

(* Every document holds what its decoder accepts. *)
TypeOK ==
  /\ trip \in [Trip -> TripRecords \cup {None}]
  /\ ledger \in [User -> [OpId -> Entries \cup {None}]]
  /\ revision \in [Trip -> Nat]
  /\ nextNumber \in Nat \cup {None}
  /\ events \subseteq EventRecords
  /\ account \in [User -> Accounts]
  /\ activeDriver \subseteq Driver
  /\ eligible \subseteq Ids \X (Driver \cup {None})
  /\ configuration \in Configurations \cup {None}
  /\ now \in Nat

(* Two trips never come from one operation id, whoever retries it and      *)
(* whichever of the three creation commands is used: the service looks for *)
(* a trip with the operation id as well as for the caller's ledger entry.  *)
OneTripPerOperation ==
  \A s, t \in Existing : trip[s].clientUUID = trip[t].clientUUID => s = t

(* A trip number is used once in the project, also when the counter        *)
(* document is created after trips already exist.                          *)
NumbersUnique ==
  /\ \A s, t \in Existing : trip[s].number = trip[t].number => s = t
  /\ nextNumber # None => \A t \in Existing : trip[t].number < nextNumber

(* What the ledger acknowledged is still true of the trip: a creation      *)
(* entry names a trip that its author made with that operation id, a       *)
(* status entry a trip that has come at least that far, a completion or a  *)
(* cancellation a trip that is still completed or cancelled.               *)
LedgerExplained ==
  \A u \in User, op \in OpId : ledger[u][op] # None =>
    LET e == ledger[u][op] IN
    /\ e.tripId \in Existing
    /\ e.command \in Creation => /\ trip[e.tripId].clientUUID = op
                                 /\ trip[e.tripId].createdBy = u
    /\ e.command \notin Creation => e.request = e.tripId
    /\ e.command = "RECORD_LOADING" => Rank[trip[e.tripId].status] >= Rank["IN_TRANSIT"]
    /\ e.command \in StatusCommand =>
         Rank[trip[e.tripId].status] >= Rank[Target[e.command]]
    /\ e.command \in {"COMPLETE_TRIP", "CANCEL_TRIP"} =>
         trip[e.tripId].status = Target[e.command]
    /\ e.command \in CheckpointCommand => CheckpointOf(e.command) \in trip[e.tripId].points
    /\ e.command = "ASSOCIATE_DRIVER" => trip[e.tripId].driver = e.payload.driver
    /\ e.command = "REPORT_EXCEPTION" => trip[e.tripId].hasExceptions

EntriesOf(t) == {p \in User \X OpId : /\ ledger[p[1]][p[2]] # None
                                      /\ ledger[p[1]][p[2]].tripId = t}

(* Every accepted command moved the workspace projection by exactly one    *)
(* revision, and nothing else did: no update of a trip is invisible to the *)
(* projection and no retry produces a second delivery.                     *)
RevisionCountsCommands == \A t \in Trip : revision[t] = Cardinality(EntriesOf(t))

(* A caller who is authorized and repeats what the ledger holds is         *)
(* acknowledged, whatever happened to the trip, the relationships, the     *)
(* pricing or the configuration since.  A driver account must still be the *)
(* one that sent the command.                                              *)
RetryIsAcknowledged ==
  \A u \in User, op \in OpId : ledger[u][op] # None =>
    LET e == ledger[u][op]
        r == [command |-> e.command, op |-> op, trip |-> e.request, payload |-> e.payload]
    IN /\ MayAct(u)
       /\ account[u].role \in RolesOf[e.command]
       /\ account[u].role = "DRIVER" => /\ account[u].linked = e.linked
                                        /\ OwnsTrip(u, e.tripId)
       => IsReplay(u, r)

(* All configured trips of a project were frozen under the measurement     *)
(* profile it still has.                                                   *)
SnapshotsShareProfile ==
  \A t \in Existing : trip[t].profile # None =>
    /\ configuration # None
    /\ SameProfile(trip[t].profile, configuration)

(* A configured trip that completed has every required checkpoint, and the *)
(* unloading weight when unloading is measured, on each road to COMPLETED: *)
(* transitions, the compound command and an import of a finished row.      *)
CompletedIsFenced ==
  \A t \in Existing : trip[t].profile # None /\ trip[t].status = "COMPLETED" =>
    /\ trip[t].profile.required \subseteq trip[t].points
    /\ trip[t].profile.unloadingMeasured => trip[t].unloadNet

(* A status never moves backwards, and a finished trip keeps its status,   *)
(* its weights and its financial closing.                                  *)
TripsOnlyMoveForward ==
  [][\A t \in Existing :
       /\ trip'[t] # None
       /\ Rank[trip'[t].status] >= Rank[trip[t].status]
       /\ trip[t].finalized => [trip'[t] EXCEPT !.hasExceptions = FALSE]
                                 = [trip[t] EXCEPT !.hasExceptions = FALSE]
       /\ trip[t].status \in Terminal => trip'[t].status = trip[t].status]_vars

(* A driver, once on a trip, is never replaced, and the identity of a trip *)
(* never changes.                                                          *)
IdentityFixed ==
  [][\A t \in Existing :
       /\ trip[t].driver # None => trip'[t].driver = trip[t].driver
       /\ \A f \in {"clientUUID", "createdBy", "ids", "number", "profile", "pricing"} :
            trip'[t][f] = trip[t][f]]_vars

(* The service implements the log of operations: the ledger is the record  *)
(* of effects, the projection revision their count and the status of a     *)
(* trip its stage.                                                         *)
Log == INSTANCE OperationLog WITH
  Caller    <- User,
  Operation <- OpId,
  Subject   <- Trip,
  LastStage <- 9,
  effect    <- [u \in User |-> [op \in OpId |->
                  IF ledger[u][op] = None THEN None ELSE ledger[u][op].tripId]],
  count     <- revision,
  stage     <- [t \in Trip |-> IF trip[t] = None THEN -1 ELSE Rank[trip[t].status]]

ImplementsLog == Log!LogSpec
=============================================================================
