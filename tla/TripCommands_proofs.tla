------------------------ MODULE TripCommands_proofs ------------------------
(***************************************************************************)
(* Theorems about the trip command service, for every set of users, trips, *)
(* operation ids, requests, accounts and configurations.                   *)
(*                                                                         *)
(* The proofs rest on one lemma, CommandShape: whatever the command, an    *)
(* execution either creates a trip under an unused id, with the identity   *)
(* the request gives it, or changes an existing trip without touching its  *)
(* identity and without moving it backwards; and it leaves the trip as the *)
(* ledger will say, completed only behind the fences.                      *)
(***************************************************************************)
EXTENDS TripCommands, FiniteSetTheorems, TLAPS

-----------------------------------------------------------------------------
(* A finite nonempty set of natural numbers has a greatest element: the    *)
(* search for a free trip number finds one.                                *)
LEMMA MaximumExists ==
  ASSUME NEW S \in SUBSET Nat, S # {}, IsFiniteSet(S)
  PROVE  \E n \in S : \A m \in S : m <= n
<1> DEFINE HasMax(T) == \E n \in T : \A m \in T : m <= n
           Bad == {T \in SUBSET S : T # {} /\ ~HasMax(T)}
<1>1. SUFFICES ASSUME Bad # {} PROVE FALSE
  OBVIOUS
<1>2. Bad \subseteq FiniteSubsetsOf(S)
  BY FS_FiniteSubsetsOfFinite
<1>3. PICK T \in Bad : \A U \in Bad : <<U, T>> \notin StrictSubsetOrdering(S)
  <2> HIDE DEF Bad
  <2> QED BY <1>1, <1>2, FS_StrictSubsetOrderingWellFounded, WFMin
<1>4. PICK x \in T : TRUE
  OBVIOUS
<1> DEFINE U == T \ {x}
<1>5. U \notin Bad
  BY <1>3, <1>4 DEF StrictSubsetOrdering
<1>6. HasMax(U) \/ U = {}
  BY <1>5
<1>7. CASE U = {}
  BY <1>4, <1>7
<1>8. CASE HasMax(U)
  <2>1. PICK y \in U : \A m \in U : m <= y
    BY <1>8
  <2>2. x \in Nat /\ y \in Nat
    OBVIOUS
  <2>3. CASE x <= y
    BY <2>1, <2>2, <2>3
  <2>4. CASE y <= x
    BY <2>1, <2>2, <2>4
  <2> QED BY <2>2, <2>3, <2>4
<1> QED BY <1>6, <1>7, <1>8

(* The number a dispatch takes is a natural number, and without a counter  *)
(* it is greater than every number in use.                                 *)
LEMMA FreeNumberIsFree ==
  ASSUME TypeOK
  PROVE  /\ FreeNumber \in Nat
         /\ nextNumber = None => \A t \in Existing : trip[t].number < FreeNumber
<1>1. Numbers \subseteq Nat
  BY DEF Numbers, TypeOK, TripRecords, Existing
<1>2. IsFiniteSet(Numbers)
  <2> DEFINE f == [t \in Existing |-> trip[t].number]
  <2>1. f \in Surjection(Existing, Numbers)
    BY DEF Surjection, Numbers
  <2>2. IsFiniteSet(Existing)
    BY ConstantsAssumption, FS_Subset DEF Existing
  <2> QED BY <2>1, <2>2, FS_Surjection
<1>3. CASE nextNumber # None
  BY <1>3 DEF FreeNumber, TypeOK
<1>4. CASE nextNumber = None /\ Numbers = {}
  BY <1>4 DEF FreeNumber, Numbers
<1>5. CASE nextNumber = None /\ Numbers # {}
  <2> DEFINE greatest == CHOOSE n \in Numbers : \A m \in Numbers : m <= n
  <2>1. greatest \in Numbers /\ \A m \in Numbers : m <= greatest
    BY <1>1, <1>2, <1>5, MaximumExists
  <2>2. FreeNumber = greatest + 1
    BY <1>5 DEF FreeNumber
  <2>3. \A t \in Existing : trip[t].number \in Numbers
    BY DEF Numbers
  <2> HIDE DEF greatest
  <2>4. greatest \in Nat
    BY <1>1, <2>1
  <2>5. ASSUME NEW t \in Existing PROVE trip[t].number < greatest + 1
    <3>1. trip[t].number \in Nat /\ trip[t].number <= greatest
      BY <1>1, <2>1, <2>3
    <3> QED BY <3>1, <2>4
  <2> QED BY <2>2, <2>4, <2>5
<1> QED BY <1>3, <1>4, <1>5

-----------------------------------------------------------------------------
(* One transition of a trip *)

(* Every status is at one of the ten stages of the log.                    *)
LEMMA RankIsStage == \A s \in Status : Rank[s] \in 0 .. 9
  BY DEF Rank, Status

(* An edge of either table starts at a status that is not final and never  *)
(* leads back.                                                             *)
LEMMA EdgesGoForward ==
  /\ \A s \in Status : \A target \in StandardNext[s] :
       target \in Status /\ s \notin Terminal /\ Rank[target] >= Rank[s]
  /\ \A c \in Configurations, s \in Status : \A target \in ProfileNext(c, s) :
       target \in Status /\ s \notin Terminal /\ Rank[target] >= Rank[s]
<1>1. ASSUME NEW s \in Status, NEW target \in StandardNext[s]
      PROVE  target \in Status /\ s \notin Terminal /\ Rank[target] >= Rank[s]
  BY <1>1, SMTT(60) DEF StandardNext, Status, Terminal, Rank
<1>2. ASSUME NEW c \in Configurations, NEW s \in Status, NEW target \in ProfileNext(c, s)
      PROVE  target \in Status /\ s \notin Terminal /\ Rank[target] >= Rank[s]
  BY <1>2, SMTT(60) DEF ProfileNext, Status, Terminal, Rank
<1> QED BY <1>1, <1>2

Identity == {"clientUUID", "createdBy", "ids", "number", "profile", "pricing"}

(* Taking one transition keeps the record well formed and its identity     *)
(* untouched.                                                              *)
LEMMA AdvancedIsTrip ==
  ASSUME NEW t \in TripRecords, NEW target \in Status
  PROVE  /\ Advanced(t, target) \in TripRecords
         /\ Advanced(t, target).status = target
         /\ Advanced(t, target).driver = t.driver
         /\ Advanced(t, target).hasExceptions = t.hasExceptions
         /\ t.points \subseteq Advanced(t, target).points
         /\ \A f \in Identity : Advanced(t, target)[f] = t[f]
<1>1. PointOf(target) \subseteq Checkpoint
  BY DEF PointOf, Checkpoint
<1> QED BY <1>1 DEF Advanced, TripRecords, SettlementPending, Identity

(* What must hold of a trip record that is completed. *)
Fenced(record) ==
  record.profile # None /\ record.status = "COMPLETED" =>
    /\ record.profile.required \subseteq record.points
    /\ record.profile.unloadingMeasured => record.unloadNet

(* The last edge of the road has the fences of a completed trip.           *)
LEMMA AdvancedIsFenced ==
  ASSUME NEW t \in TripRecords, NEW target \in Status, CanAdvance(t, target)
  PROVE  Fenced(Advanced(t, target))
<1> DEFINE record == Advanced(t, target)
<1> SUFFICES ASSUME t.profile # None, target = "COMPLETED" PROVE Fenced(record)
  BY AdvancedIsTrip DEF Fenced, Identity
<1>1. /\ t.profile.required \subseteq t.points
      /\ t.profile.unloadingMeasured => t.unloadNet
  BY DEF CanAdvance, ProfileAllows
<1>2. record.profile = t.profile /\ t.points \subseteq record.points
  BY AdvancedIsTrip DEF Identity
<1>3. t.unloadNet => record.unloadNet
  BY DEF Advanced, TripRecords
<1> HIDE DEF record
<1> QED BY <1>1, <1>2, <1>3 DEF Fenced

-----------------------------------------------------------------------------
(* What an execution may do *)

(* The trip the command makes. *)
Creates(u, r, t, record) ==
  /\ r.command \in Creation
  /\ t \notin Existing
  /\ record.clientUUID = r.op
  /\ record.createdBy = u
  /\ record.number = FreeNumber
  /\ record.profile = configuration
  /\ nextNumber' = FreeNumber + 1

(* The trip the command changes. *)
Updates(r, t, record) ==
  /\ r.command \notin Creation
  /\ t \in Existing /\ t = r.trip
  /\ \A f \in Identity : record[f] = trip[t][f]
  /\ trip[t].driver # None => record.driver = trip[t].driver
  /\ trip[t].hasExceptions => record.hasExceptions
  /\ trip[t].points \subseteq record.points
  /\ Rank[record.status] >= Rank[trip[t].status]
  /\ trip[t].status \in Terminal => record.status = trip[t].status
  /\ trip[t].finalized => [record EXCEPT !.hasExceptions = FALSE]
                            = [trip[t] EXCEPT !.hasExceptions = FALSE]
  /\ nextNumber' = nextNumber

(* What the ledger may say of a command that left this record. *)
Fulfils(r, t, record) ==
  /\ r.command \notin Creation => r.trip = t
  /\ r.command = "RECORD_LOADING" => Rank[record.status] >= Rank["IN_TRANSIT"]
  /\ r.command \in StatusCommand => record.status = Target[r.command]
  /\ r.command \in CheckpointCommand => CheckpointOf(r.command) \in record.points
  /\ r.command = "ASSOCIATE_DRIVER" => record.driver = r.payload.driver
  /\ r.command = "REPORT_EXCEPTION" => record.hasExceptions

(* A request of the instance is one the service's validation lets through. *)
LEMMA RequestTyped ==
  ASSUME NEW r \in Request
  PROVE  /\ r.command \in Command /\ r.op \in OpId /\ r.payload \in Payloads
         /\ r.command \in Creation => r.payload.ids \in Ids
         /\ r.command \notin Creation => r.trip \in Trip
         /\ r.command = "ASSOCIATE_DRIVER" => r.payload.driver \in Driver
  BY ConstantsAssumption DEF Requests, WellFormed, Payloads

(* The ledger entry of a command is well formed.                           *)
LEMMA EntryTyped ==
  ASSUME TypeOK, NEW u \in User, NEW r \in Request, NEW t \in Trip
  PROVE  Entry(u, r, t) \in Entries
<1>1. r.command \in Command /\ r.payload \in Payloads
  BY RequestTyped
<1>2. r.trip \in Trip \cup {None} /\ account[u].linked \in Driver \cup {None}
  BY ConstantsAssumption DEF Requests, TypeOK, Accounts
<1> QED BY <1>1, <1>2 DEF Entry, Entries

(* What a command puts in the event stream is well formed.                 *)
LEMMA EventsTyped ==
  ASSUME TypeOK, NEW t \in Trip
  PROVE  /\ \A kinds \in SUBSET Status : StageEvents(t, kinds) \subseteq EventRecords
         /\ \A kind \in Status \cup Checkpoint \cup {"DRIVER", "DISPATCHED_IMPORTED"} :
              TripEvent(t, kind) \subseteq EventRecords
  BY DEF StageEvents, TripEvent, Event, EventRecords, TypeOK

(* The record a dispatch starts from is well formed, and freezes the       *)
(* project's configuration and a free number.                              *)
LEMMA NewTripTyped ==
  ASSUME TypeOK, NEW u \in User, NEW r \in Request, r.command \in Creation,
         NEW status \in Status, NEW pricing \in {"PER_TON", "PER_TRIP", "LEGACY_UNRESOLVED"}
  PROVE  /\ NewTrip(u, r, status, pricing) \in TripRecords
         /\ NewTrip(u, r, status, pricing).status = status
         /\ NewTrip(u, r, status, pricing).clientUUID = r.op
         /\ NewTrip(u, r, status, pricing).createdBy = u
         /\ NewTrip(u, r, status, pricing).number = FreeNumber
         /\ NewTrip(u, r, status, pricing).profile = configuration
<1>1. FreeNumber \in Nat
  BY FreeNumberIsFree
<1>2. r.op \in OpId /\ r.payload.ids \in Ids /\ r.payload.driver \in Driver \cup {None}
  BY RequestTyped DEF Payloads
<1>3. configuration \in Configurations \cup {None}
  BY DEF TypeOK
<1> QED BY <1>1, <1>2, <1>3 DEF NewTrip, TripRecords

(* Every accepted command commits one trip record, together with its       *)
(* events, its revision and its ledger entry.  The record is what the      *)
(* ledger will say, and if it is completed it was so before or passed the  *)
(* fences.                                                                 *)
Shape(u, r) == \E t \in Trip, record \in TripRecords, new \in SUBSET EventRecords :
                 /\ Commit(u, r, t, record, new)
                 /\ Creates(u, r, t, record) \/ Updates(r, t, record)
                 /\ Fulfils(r, t, record)
                 /\ (t \in Existing => Fenced(trip[t])) => Fenced(record)

(* What a dispatch does: one commit of a new trip.                         *)
LEMMA DispatchShape ==
  ASSUME TypeOK, NEW u \in User, NEW r \in Request, DispatchTrip(u, r)
  PROVE  Shape(u, r)
<1>1. PICK t \in Trip \ Existing, pricing \in Pricing :
        Commit(u, r, t, NewTrip(u, r, "DISPATCHED", pricing), StageEvents(t, {"DISPATCHED"}))
  BY DEF DispatchTrip
<1> DEFINE record == NewTrip(u, r, "DISPATCHED", pricing)
<1>2. r.command \in Creation /\ nextNumber' = FreeNumber + 1
  BY DEF DispatchTrip, Creation
<1>3. pricing \in {"PER_TON", "PER_TRIP", "LEGACY_UNRESOLVED"} /\ "DISPATCHED" \in Status
  BY ConstantsAssumption DEF Status
<1>4. /\ record \in TripRecords
      /\ Creates(u, r, t, record)
  BY <1>1, <1>2, <1>3, NewTripTyped DEF Creates
<1>5. StageEvents(t, {"DISPATCHED"}) \subseteq EventRecords
  BY <1>3, EventsTyped
<1>6. r.command = "DISPATCH_TRIP" /\ record.status = "DISPATCHED"
  BY <1>2, <1>3, NewTripTyped DEF DispatchTrip
<1> HIDE DEF record
<1>7. Fulfils(r, t, record) /\ Fenced(record)
  BY <1>6 DEF Fulfils, Fenced, Creation, StatusCommand, CheckpointCommand
<1> QED BY <1>1, <1>4, <1>5, <1>7 DEF Shape, record

(* What the compound loading does: one commit of a new trip.               *)
LEMMA RecordLoadingShape ==
  ASSUME TypeOK, NEW u \in User, NEW r \in Request, RecordLoading(u, r)
  PROVE  Shape(u, r)
<1> DEFINE Kinds == {"DISPATCHED", "AT_ORIGIN", "LOADING", "WEIGHED_ORIGIN", "IN_TRANSIT"}
           Dispatched(pricing) == NewTrip(u, r, "DISPATCHED", pricing)
           Loaded(pricing) == Advanced(Advanced(Advanced(Dispatched(pricing), "AT_ORIGIN"),
                                                "LOADING"), "WEIGHED_ORIGIN")
<1>1. PICK t \in Trip \ Existing, pricing \in Pricing :
        Commit(u, r, t, Advanced(Loaded(pricing), "IN_TRANSIT"), StageEvents(t, Kinds))
  BY DEF RecordLoading
<1>2. r.command \in Creation /\ nextNumber' = FreeNumber + 1
  BY DEF RecordLoading, Creation
<1>3. pricing \in {"PER_TON", "PER_TRIP", "LEGACY_UNRESOLVED"} /\ Kinds \subseteq Status
  BY ConstantsAssumption DEF Status
<1> DEFINE record == Advanced(Loaded(pricing), "IN_TRANSIT")
<1>4. /\ Dispatched(pricing) \in TripRecords
      /\ Dispatched(pricing).clientUUID = r.op
      /\ Dispatched(pricing).createdBy = u
      /\ Dispatched(pricing).number = FreeNumber
      /\ Dispatched(pricing).profile = configuration
  BY <1>2, <1>3, NewTripTyped
<1>5. /\ record \in TripRecords
      /\ record.status = "IN_TRANSIT"
      /\ \A f \in Identity : record[f] = Dispatched(pricing)[f]
  <2> HIDE DEF Dispatched
  <2>1. {"AT_ORIGIN", "LOADING", "WEIGHED_ORIGIN", "IN_TRANSIT"} \subseteq Status
    BY DEF Status
  <2> QED BY <1>4, <2>1, AdvancedIsTrip
<1>6. Creates(u, r, t, record)
  <2> HIDE DEF record, Dispatched
  <2> QED BY <1>1, <1>2, <1>4, <1>5 DEF Creates, Identity
<1>7. StageEvents(t, Kinds) \subseteq EventRecords
  BY <1>3, EventsTyped
<1>8. Fulfils(r, t, record) /\ Fenced(record)
  <2>1. r.command = "RECORD_LOADING" /\ Rank["IN_TRANSIT"] >= Rank["IN_TRANSIT"]
    BY DEF RecordLoading, Rank, Status
  <2> HIDE DEF record
  <2> QED BY <1>5, <2>1 DEF Fulfils, Fenced, Creation, StatusCommand, CheckpointCommand
<1> HIDE DEF record
<1> QED BY <1>1, <1>5, <1>6, <1>7, <1>8 DEF Shape, record

(* What an import does: one commit of a new trip.                          *)
LEMMA ImportShape ==
  ASSUME TypeOK, NEW u \in User, NEW r \in Request, ImportTrip(u, r)
  PROVE  Shape(u, r)
<1> DEFINE Row(pricing) ==
             [NewTrip(u, r, ImportedStatus(r.payload), pricing) EXCEPT
                !.loadNet   = r.payload.loadNet,
                !.unloadNet = r.payload.unloadNet,
                !.points    = IF configuration = None THEN {} ELSE r.payload.points]
<1>1. PICK t \in Trip \ Existing, pricing \in Pricing \cup {"LEGACY_UNRESOLVED"} :
        Commit(u, r, t, Row(pricing), TripEvent(t, "DISPATCHED_IMPORTED"))
  BY DEF ImportTrip
<1>2. r.command \in Creation /\ nextNumber' = FreeNumber + 1
  BY DEF ImportTrip, Creation
<1>3. pricing \in {"PER_TON", "PER_TRIP", "LEGACY_UNRESOLVED"}
  BY ConstantsAssumption
<1>4. ImportedStatus(r.payload) \in Status
  BY DEF ImportedStatus, Status
<1> DEFINE made == NewTrip(u, r, ImportedStatus(r.payload), pricing)
<1>5. /\ made \in TripRecords
      /\ made.status = ImportedStatus(r.payload)
      /\ made.clientUUID = r.op /\ made.createdBy = u
      /\ made.number = FreeNumber /\ made.profile = configuration
  BY <1>2, <1>3, <1>4, NewTripTyped
<1>6. r.payload.loadNet \in BOOLEAN /\ r.payload.unloadNet \in BOOLEAN
        /\ r.payload.points \subseteq Checkpoint
  BY RequestTyped DEF Payloads
<1>7. Row(pricing) \in TripRecords /\ Creates(u, r, t, Row(pricing))
  <2> HIDE DEF made
  <2>1. Row(pricing) = [made EXCEPT !.loadNet = r.payload.loadNet,
                          !.unloadNet = r.payload.unloadNet,
                          !.points    = IF configuration = None THEN {} ELSE r.payload.points]
    BY DEF made
  <2> HIDE DEF Row
  <2> QED BY <1>1, <1>2, <1>5, <1>6, <2>1 DEF Creates, TripRecords
<1>8. TripEvent(t, "DISPATCHED_IMPORTED") \subseteq EventRecords
  BY EventsTyped
<1>9. Fulfils(r, t, Row(pricing))
  BY DEF Fulfils, ImportTrip, Creation, StatusCommand, CheckpointCommand
<1>10. Fenced(Row(pricing))
  <2>1. /\ Row(pricing).status = ImportedStatus(r.payload)
        /\ Row(pricing).profile = configuration
        /\ Row(pricing).unloadNet = r.payload.unloadNet
        /\ configuration # None => Row(pricing).points = r.payload.points
    BY DEF NewTrip
  <2>2. configuration # None /\ ImportedStatus(r.payload) = "COMPLETED" =>
          /\ configuration.unloadingMeasured => r.payload.unloadNet
          /\ configuration.required \subseteq r.payload.points
    BY DEF ImportTrip, ImportFitsProfile
  <2> HIDE DEF Row
  <2> QED BY <2>1, <2>2 DEF Fenced
<1> HIDE DEF Row
<1> QED BY <1>1, <1>7, <1>8, <1>9, <1>10 DEF Shape

(* What a status command does: one commit of an existing trip, forward.    *)
LEMMA AdvanceShape ==
  ASSUME TypeOK, NEW u \in User, NEW r \in Request, AdvanceStatus(u, r)
  PROVE  Shape(u, r)
<1> DEFINE t == r.trip
           target == Target[r.command]
           record == Advanced(trip[t], target)
<1>1. /\ r.command \in StatusCommand
      /\ Authorized(u, r)
      /\ CanAdvance(trip[t], target)
      /\ Commit(u, r, t, record, StageEvents(t, {target}))
      /\ nextNumber' = nextNumber
  BY DEF AdvanceStatus, IsFresh
<1>2. r.command \notin Creation
  BY <1>1 DEF StatusCommand, Creation
<1>3. t \in Existing /\ t \in Trip /\ trip[t] \in TripRecords
  BY <1>1, <1>2 DEF Authorized, Existing, TypeOK
<1>4. ~trip[t].finalized
  BY <1>1 DEF CanAdvance
<1>5. target \in Status /\ trip[t].status \notin Terminal /\ Rank[target] >= Rank[trip[t].status]
  <2>1. trip[t].status \in Status /\ (trip[t].profile # None => trip[t].profile \in Configurations)
    BY <1>3 DEF TripRecords
  <2>2. CASE trip[t].profile = None
    BY <1>1, <2>1, <2>2, EdgesGoForward DEF CanAdvance
  <2>3. CASE trip[t].profile # None
    <3>1. target \in ProfileNext(trip[t].profile, trip[t].status)
      BY <1>1, <2>3 DEF CanAdvance, ProfileAllows
    <3> QED BY <2>1, <2>3, <3>1, EdgesGoForward
  <2> QED BY <2>2, <2>3
<1>6. /\ record \in TripRecords
      /\ record.status = target
      /\ record.driver = trip[t].driver
      /\ record.hasExceptions = trip[t].hasExceptions
      /\ trip[t].points \subseteq record.points
      /\ \A f \in Identity : record[f] = trip[t][f]
  BY <1>3, <1>5, AdvancedIsTrip
<1>7. Updates(r, t, record)
  <2> HIDE DEF record, target
  <2> QED BY <1>1, <1>2, <1>3, <1>4, <1>5, <1>6 DEF Updates
<1>8. StageEvents(t, {target}) \subseteq EventRecords
  BY <1>3, <1>5, EventsTyped
<1>9. Fenced(record)
  BY <1>1, <1>3, <1>5, AdvancedIsFenced
<1>10. Fulfils(r, t, record)
  <2> HIDE DEF record
  <2> QED BY <1>1, <1>6 DEF Fulfils, StatusCommand, CheckpointCommand
<1> HIDE DEF record, target
<1> QED BY <1>1, <1>3, <1>6, <1>7, <1>8, <1>9, <1>10 DEF Shape, target

(* What a checkpoint command does: one commit of an existing trip.         *)
LEMMA CheckpointShape ==
  ASSUME TypeOK, NEW u \in User, NEW r \in Request, RecordCheckpoint(u, r)
  PROVE  Shape(u, r)
<1> DEFINE t == r.trip
           point == CheckpointOf(r.command)
           record == [trip[t] EXCEPT !.points = @ \cup {point}]
           new == IF point \in trip[t].points THEN {} ELSE TripEvent(t, point)
<1>1. /\ r.command \in CheckpointCommand
      /\ Authorized(u, r)
      /\ ~trip[t].finalized
      /\ Commit(u, r, t, record, new)
      /\ nextNumber' = nextNumber
  BY DEF RecordCheckpoint, IsFresh
<1>2. r.command \notin Creation
  BY <1>1 DEF CheckpointCommand, Creation
<1>3. t \in Existing /\ t \in Trip /\ trip[t] \in TripRecords
  BY <1>1, <1>2 DEF Authorized, Existing, TypeOK
<1>4. point \in Checkpoint
  BY DEF CheckpointOf, Checkpoint
<1>5. record \in TripRecords /\ \A f \in DOMAIN trip[t] : f # "points" => record[f] = trip[t][f]
  <2> HIDE DEF point
  <2> QED BY <1>3, <1>4 DEF TripRecords
<1>6. new \subseteq EventRecords
  BY <1>3, <1>4, EventsTyped
<1>7. Rank[record.status] >= Rank[trip[t].status]
  BY <1>3 DEF TripRecords, Rank, Status
<1>8. Updates(r, t, record)
  <2>1. DOMAIN trip[t] = {"status", "clientUUID", "createdBy", "ids", "driver", "number", "profile",
                          "pricing", "loadNet", "unloadNet", "points", "finalized",
                          "hasExceptions"}
    BY <1>3 DEF TripRecords
  <2>2. trip[t].points \subseteq record.points
    BY <1>3 DEF TripRecords
  <2> HIDE DEF record
  <2> QED BY <1>1, <1>2, <1>3, <1>5, <1>7, <2>1, <2>2 DEF Updates, Identity
<1>9. point \in record.points
  BY <1>3 DEF TripRecords
<1> HIDE DEF record, new
<1>10. Fulfils(r, t, record)
  BY <1>1, <1>9 DEF Fulfils, StatusCommand, CheckpointCommand
<1>11. Fenced(trip[t]) => Fenced(record)
  BY <1>3, <1>5, <1>8 DEF Fenced, Updates, TripRecords
<1> QED BY <1>1, <1>3, <1>5, <1>6, <1>8, <1>10, <1>11 DEF Shape

(* What a late driver does: one commit of a trip that had none.            *)
LEMMA AssociateShape ==
  ASSUME TypeOK, NEW u \in User, NEW r \in Request, AssociateDriver(u, r)
  PROVE  Shape(u, r)
<1> DEFINE t == r.trip
           record == [trip[t] EXCEPT !.driver = r.payload.driver]
<1>1. /\ r.command = "ASSOCIATE_DRIVER"
      /\ Authorized(u, r)
      /\ trip[t].driver = None
      /\ ~trip[t].finalized
      /\ Commit(u, r, t, record, TripEvent(t, "DRIVER"))
      /\ nextNumber' = nextNumber
  BY DEF AssociateDriver, IsFresh
<1>2. r.command \notin Creation /\ r.payload.driver \in Driver
  BY <1>1, RequestTyped DEF Creation
<1>3. t \in Existing /\ t \in Trip /\ trip[t] \in TripRecords
  BY <1>1, <1>2 DEF Authorized, Existing, TypeOK
<1>4. record \in TripRecords /\ \A f \in DOMAIN trip[t] : f # "driver" => record[f] = trip[t][f]
  BY <1>2, <1>3 DEF TripRecords
<1>5. Rank[record.status] >= Rank[trip[t].status]
  BY <1>3 DEF TripRecords, Rank, Status
<1>6. Updates(r, t, record)
  <2>1. DOMAIN trip[t] = {"status", "clientUUID", "createdBy", "ids", "driver", "number", "profile",
                          "pricing", "loadNet", "unloadNet", "points", "finalized",
                          "hasExceptions"}
    BY <1>3 DEF TripRecords
  <2> HIDE DEF record
  <2> QED BY <1>1, <1>2, <1>3, <1>4, <1>5, <2>1 DEF Updates, Identity
<1>7. TripEvent(t, "DRIVER") \subseteq EventRecords
  BY <1>3, EventsTyped
<1>8. record.driver = r.payload.driver
  BY <1>3 DEF TripRecords
<1> HIDE DEF record
<1>9. Fulfils(r, t, record)
  BY <1>1, <1>8 DEF Fulfils, StatusCommand, CheckpointCommand
<1>10. Fenced(trip[t]) => Fenced(record)
  BY <1>3, <1>4 DEF Fenced, TripRecords
<1> QED BY <1>1, <1>3, <1>4, <1>6, <1>7, <1>9, <1>10 DEF Shape

(* What an exception report does: one commit that only flags the trip.     *)
LEMMA ExceptionShape ==
  ASSUME TypeOK, NEW u \in User, NEW r \in Request, ReportException(u, r)
  PROVE  Shape(u, r)
<1> DEFINE t == r.trip
           record == [trip[t] EXCEPT !.hasExceptions = TRUE]
<1>1. /\ r.command = "REPORT_EXCEPTION"
      /\ Authorized(u, r)
      /\ Commit(u, r, t, record, {})
      /\ nextNumber' = nextNumber
  BY DEF ReportException, IsFresh
<1>2. r.command \notin Creation
  BY <1>1 DEF Creation
<1>3. t \in Existing /\ t \in Trip /\ trip[t] \in TripRecords
  BY <1>1, <1>2 DEF Authorized, Existing, TypeOK
<1>4. /\ record \in TripRecords
      /\ record.hasExceptions
      /\ \A f \in DOMAIN trip[t] : f # "hasExceptions" => record[f] = trip[t][f]
      /\ [record EXCEPT !.hasExceptions = FALSE] = [trip[t] EXCEPT !.hasExceptions = FALSE]
  BY <1>3 DEF TripRecords
<1>5. Rank[record.status] >= Rank[trip[t].status]
  BY <1>3 DEF TripRecords, Rank, Status
<1>6. Updates(r, t, record)
  <2>1. DOMAIN trip[t] = {"status", "clientUUID", "createdBy", "ids", "driver", "number", "profile",
                          "pricing", "loadNet", "unloadNet", "points", "finalized",
                          "hasExceptions"}
    BY <1>3 DEF TripRecords
  <2> HIDE DEF record
  <2> QED BY <1>1, <1>2, <1>3, <1>4, <1>5, <2>1 DEF Updates, Identity
<1> HIDE DEF record
<1>7. Fulfils(r, t, record)
  BY <1>1, <1>4 DEF Fulfils, StatusCommand, CheckpointCommand
<1>8. Fenced(trip[t]) => Fenced(record)
  BY <1>3, <1>4 DEF Fenced, TripRecords
<1> QED BY <1>1, <1>3, <1>4, <1>6, <1>7, <1>8 DEF Shape

(* Every command is one commit that makes a new trip or advances one.      *)
LEMMA CommandShape ==
  ASSUME TypeOK, NEW u \in User, NEW r \in Request, Execute(u, r)
  PROVE  IsFresh(u, r) /\ Shape(u, r)
<1>1. IsFresh(u, r)
  BY DEF Execute, DispatchTrip, RecordLoading, ImportTrip, AdvanceStatus, RecordCheckpoint,
         AssociateDriver, ReportException
<1>2. Shape(u, r)
  BY DispatchShape, RecordLoadingShape, ImportShape, AdvanceShape, CheckpointShape,
     AssociateShape, ExceptionShape DEF Execute
<1> QED BY <1>1, <1>2

(* The steps around the commands leave what the commands wrote alone.      *)
LEMMA EnvironmentShape ==
  ASSUME TypeOK, Environment
  PROVE  /\ UNCHANGED committed
         /\ account' \in [User -> Accounts] /\ activeDriver' \subseteq Driver
         /\ eligible' \subseteq Ids \X (Driver \cup {None})
         /\ configuration' \in Configurations \cup {None} /\ now' \in Nat
<1>1. CASE \E u \in User : ChangeAccount(u)
  BY <1>1, ConstantsAssumption DEF ChangeAccount, TypeOK
<1>2. CASE \E d \in Driver : SetDriverStatus(d)
  BY <1>2 DEF SetDriverStatus, TypeOK
<1>3. CASE ChangeRelationships
  BY <1>3, ConstantsAssumption DEF ChangeRelationships, TypeOK
<1>4. CASE \E c \in Configuration : ConfigureOperations(c)
  BY <1>4, ConstantsAssumption DEF ConfigureOperations, TypeOK
<1>5. CASE Tick
  BY <1>5 DEF Tick, TypeOK
<1> QED BY <1>1, <1>2, <1>3, <1>4, <1>5 DEF Environment

(* How a commit changes the set of trips.                                  *)
LEMMA CommitEffect ==
  ASSUME TypeOK, NEW u \in User, NEW r \in Request, NEW t \in Trip,
         NEW record \in TripRecords, NEW new \in SUBSET EventRecords,
         Commit(u, r, t, record, new), Creates(u, r, t, record) \/ Updates(r, t, record)
  PROVE  /\ trip' \in [Trip -> TripRecords \cup {None}]
         /\ trip'[t] = record /\ record # None
         /\ \A s \in Trip \ {t} : trip'[s] = trip[s]
         /\ Existing' = Existing \cup {t}
         /\ UNCHANGED environment
<1>1. trip' = [trip EXCEPT ![t] = record] /\ UNCHANGED environment
  BY DEF Commit
<1>2. record # None
  BY ConstantsAssumption
<1> QED BY <1>1, <1>2 DEF TypeOK, Existing

-----------------------------------------------------------------------------
(* Type correctness *)

(* The initial documents are well formed.                                  *)
LEMMA InitTyped == Init => TypeOK
<1> SUFFICES ASSUME Init PROVE TypeOK
  OBVIOUS
<1>1. trip \in [Trip -> TripRecords \cup {None}]
  BY ConstantsAssumption DEF Init
<1>2. account \in [User -> Accounts]
  BY ConstantsAssumption DEF Init
<1>3. eligible \subseteq Ids \X (Driver \cup {None})
  BY ConstantsAssumption DEF Init
<1>4. configuration \in Configurations \cup {None}
  BY ConstantsAssumption DEF Init
<1> QED BY <1>1, <1>2, <1>3, <1>4 DEF Init, TypeOK

(* Every step keeps the documents well formed.                             *)
LEMMA NextTyped == TypeOK /\ [Next]_vars => TypeOK'
<1> SUFFICES ASSUME TypeOK, [Next]_vars PROVE TypeOK'
  OBVIOUS
<1>1. ASSUME NEW u \in User, NEW r \in Request, Execute(u, r) PROVE TypeOK'
  <2>1. PICK t \in Trip, record \in TripRecords, new \in SUBSET EventRecords :
          /\ Commit(u, r, t, record, new)
          /\ Creates(u, r, t, record) \/ Updates(r, t, record)
    BY <1>1, CommandShape DEF Shape
  <2>2. trip' \in [Trip -> TripRecords \cup {None}] /\ UNCHANGED environment
    BY <2>1, CommitEffect
  <2>3. ledger' \in [User -> [OpId -> Entries \cup {None}]]
    <3>1. Entry(u, r, t) \in Entries
      BY EntryTyped
    <3>2. r.op \in OpId /\ ledger' = [ledger EXCEPT ![u][r.op] = Entry(u, r, t)]
      BY <2>1, RequestTyped DEF Commit
    <3> QED BY <3>1, <3>2 DEF TypeOK
  <2>4. revision' \in [Trip -> Nat]
    BY <2>1 DEF Commit, TypeOK
  <2>5. nextNumber' \in Nat \cup {None}
    BY <2>1, FreeNumberIsFree DEF Creates, Updates, TypeOK
  <2>6. events' \subseteq EventRecords
    BY <2>1 DEF Commit, Put, TypeOK
  <2> QED BY <2>2, <2>3, <2>4, <2>5, <2>6 DEF TypeOK, environment
<1>2. CASE Environment
  BY <1>2, EnvironmentShape DEF TypeOK, committed
<1>3. CASE UNCHANGED vars
  BY <1>3 DEF TypeOK, vars
<1> QED BY <1>1, <1>2, <1>3 DEF Next, Commands

(* Every document the service keeps is one its decoder accepts, for every  *)
(* instance: in particular the search for a free trip number always finds  *)
(* one (dispatchTrip, transitionTripStatus and the counter they share).    *)
THEOREM TypeCorrect == Spec => []TypeOK
<1>1. Init => TypeOK
  BY InitTyped
<1>2. TypeOK /\ [Next]_vars => TypeOK'
  BY NextTyped
<1> QED BY <1>1, <1>2, PTL DEF Spec

-----------------------------------------------------------------------------
(* A command changes one trip; the others stay as they are *)

(* What a step may do to the trips: nothing, or what one command may.      *)
LEMMA StepShape ==
  ASSUME TypeOK, [Next]_vars
  PROVE  \/ UNCHANGED committed
         \/ \E u \in User, r \in Request : IsFresh(u, r) /\ Shape(u, r)
<1>1. CASE Commands
  BY <1>1, CommandShape DEF Commands
<1>2. CASE Environment
  BY <1>2, EnvironmentShape
<1>3. CASE UNCHANGED vars
  BY <1>3 DEF vars, committed
<1> QED BY <1>1, <1>2, <1>3 DEF Next

(* No step makes a second trip of one operation id.                        *)
LEMMA OneTripStep ==
  ASSUME TypeOK, OneTripPerOperation, [Next]_vars
  PROVE  OneTripPerOperation'
<1>1. CASE UNCHANGED committed
  BY <1>1 DEF committed, OneTripPerOperation, Existing
<1>2. ASSUME NEW u \in User, NEW r \in Request, IsFresh(u, r), Shape(u, r)
      PROVE  OneTripPerOperation'
  <2>1. PICK t \in Trip, record \in TripRecords, new \in SUBSET EventRecords :
          /\ Commit(u, r, t, record, new)
          /\ Creates(u, r, t, record) \/ Updates(r, t, record)
    BY <1>2 DEF Shape
  <2>2. /\ Existing' = Existing \cup {t} /\ trip'[t] = record
        /\ \A s \in Trip \ {t} : trip'[s] = trip[s]
    BY <2>1, CommitEffect
  <2>3. CASE Creates(u, r, t, record)
    <3>1. \A s \in Existing : trip[s].clientUUID # r.op
      BY <1>2, <2>3 DEF IsFresh, Published, Creates
    <3> QED BY <2>2, <2>3, <3>1 DEF OneTripPerOperation, Creates, Existing
  <2>4. CASE Updates(r, t, record)
    <3>1. record.clientUUID = trip[t].clientUUID /\ t \in Existing
      BY <2>4 DEF Updates, Identity
    <3> QED BY <2>2, <3>1 DEF OneTripPerOperation, Existing
  <2> QED BY <2>1, <2>3, <2>4
<1> QED BY <1>1, <1>2, StepShape

(* However often, by whomever and with whichever creation command an       *)
(* operation id is sent, at most one trip carries it (executeCommand's     *)
(* search for a trip with the operation id, next to the caller's ledger).  *)
THEOREM AtMostOneTrip == Spec => []OneTripPerOperation
<1>1. Init => OneTripPerOperation
  BY DEF Init, OneTripPerOperation
<1>2. TypeOK /\ OneTripPerOperation /\ [Next]_vars => OneTripPerOperation'
  BY OneTripStep
<1> QED BY <1>1, <1>2, TypeCorrect, PTL DEF Spec

(* No step gives a number twice or takes the counter below one in use.     *)
LEMMA NumbersStep ==
  ASSUME TypeOK, NumbersUnique, [Next]_vars
  PROVE  NumbersUnique'
<1>1. CASE UNCHANGED committed
  BY <1>1 DEF committed, NumbersUnique, Existing
<1>2. ASSUME NEW u \in User, NEW r \in Request, Shape(u, r)
      PROVE  NumbersUnique'
  <2>1. PICK t \in Trip, record \in TripRecords, new \in SUBSET EventRecords :
          /\ Commit(u, r, t, record, new)
          /\ Creates(u, r, t, record) \/ Updates(r, t, record)
    BY <1>2 DEF Shape
  <2>2. /\ Existing' = Existing \cup {t} /\ trip'[t] = record
        /\ \A s \in Trip \ {t} : trip'[s] = trip[s]
    BY <2>1, CommitEffect
  <2>3. \A s \in Existing : s \in Trip /\ trip[s].number \in Nat
    BY DEF Existing, TypeOK, TripRecords
  <2>4. CASE Creates(u, r, t, record)
    <3>1. FreeNumber \in Nat /\ \A s \in Existing : trip[s].number < FreeNumber
      BY FreeNumberIsFree DEF NumbersUnique, FreeNumber
    <3>2. record.number = FreeNumber /\ nextNumber' = FreeNumber + 1 /\ t \notin Existing
      BY <2>4 DEF Creates
    <3>3. \A s \in Existing' : trip'[s].number < nextNumber'
      BY <2>2, <2>3, <3>1, <3>2
    <3>4. \A s, v \in Existing' : trip'[s].number = trip'[v].number => s = v
      BY <2>2, <2>3, <3>1, <3>2 DEF NumbersUnique
    <3> QED BY <3>3, <3>4 DEF NumbersUnique
  <2>5. CASE Updates(r, t, record)
    <3>1. record.number = trip[t].number /\ t \in Existing /\ nextNumber' = nextNumber
      BY <2>5 DEF Updates, Identity
    <3> QED BY <2>2, <2>3, <3>1 DEF NumbersUnique
  <2> QED BY <2>1, <2>4, <2>5
<1> QED BY <1>1, <1>2, StepShape

(* A trip number is never given twice, also when the counter document is   *)
(* only created after trips already carry numbers (nextTripNumber).        *)
THEOREM TripNumbersUnique == Spec => []NumbersUnique
<1>1. Init => NumbersUnique
  BY DEF Init, NumbersUnique
<1>2. TypeOK /\ NumbersUnique /\ [Next]_vars => NumbersUnique'
  BY NumbersStep
<1> QED BY <1>1, <1>2, TypeCorrect, PTL DEF Spec

(* No step separates a snapshot from the profile the project has.          *)
LEMMA ProfileStep ==
  ASSUME TypeOK, SnapshotsShareProfile, [Next]_vars
  PROVE  SnapshotsShareProfile'
<1>1. ASSUME NEW u \in User, NEW r \in Request, Execute(u, r)
      PROVE  SnapshotsShareProfile'
  <2>1. PICK t \in Trip, record \in TripRecords, new \in SUBSET EventRecords :
          /\ Commit(u, r, t, record, new)
          /\ Creates(u, r, t, record) \/ Updates(r, t, record)
    BY <1>1, CommandShape DEF Shape
  <2>2. /\ Existing' = Existing \cup {t} /\ trip'[t] = record
        /\ \A s \in Trip \ {t} : trip'[s] = trip[s]
        /\ configuration' = configuration
    BY <2>1, CommitEffect DEF environment
  <2>3. \/ record.profile = configuration
        \/ t \in Existing /\ record.profile = trip[t].profile
    BY <2>1 DEF Creates, Updates, Identity
  <2> QED BY <2>2, <2>3 DEF SnapshotsShareProfile, SameProfile, Existing
<1>2. ASSUME NEW c \in Configuration, ConfigureOperations(c)
      PROVE  SnapshotsShareProfile'
  <2>1. c # None
    BY ConstantsAssumption
  <2>2. UNCHANGED trip /\ configuration' = c
    BY <1>2 DEF ConfigureOperations, committed
  <2>3. configuration # None /\ Existing # {} => SameProfile(c, configuration)
    BY <1>2 DEF ConfigureOperations
  <2> QED BY <2>1, <2>2, <2>3 DEF SnapshotsShareProfile, SameProfile, Existing
<1>3. CASE UNCHANGED <<trip, configuration>>
  BY <1>3 DEF SnapshotsShareProfile, Existing
<1> QED
  BY <1>1, <1>2, <1>3 DEF Next, Commands, Environment, ChangeAccount, SetDriverStatus,
     ChangeRelationships, Tick, vars, committed

(* The trips of a project were all frozen under the measurement profile    *)
(* the project still has, whatever is configured in between                *)
(* (configureOperations and its assessment of the existing trips).         *)
THEOREM SnapshotsAgree == Spec => []SnapshotsShareProfile
<1>1. Init => SnapshotsShareProfile
  BY ConstantsAssumption DEF Init, SnapshotsShareProfile, Existing
<1>2. TypeOK /\ SnapshotsShareProfile /\ [Next]_vars => SnapshotsShareProfile'
  BY ProfileStep
<1> QED BY <1>1, <1>2, TypeCorrect, PTL DEF Spec

-----------------------------------------------------------------------------
(* The ledger, the projection and the trips agree *)

(* No step takes a fence down or completes a trip without it.              *)
LEMMA FencedStep ==
  ASSUME TypeOK, CompletedIsFenced, [Next]_vars
  PROVE  CompletedIsFenced'
<1>1. CASE UNCHANGED committed
  BY <1>1 DEF committed, CompletedIsFenced, Existing
<1>2. ASSUME NEW u \in User, NEW r \in Request, Shape(u, r)
      PROVE  CompletedIsFenced'
  <2>1. PICK t \in Trip, record \in TripRecords, new \in SUBSET EventRecords :
          /\ Commit(u, r, t, record, new)
          /\ Creates(u, r, t, record) \/ Updates(r, t, record)
          /\ (t \in Existing => Fenced(trip[t])) => Fenced(record)
    BY <1>2 DEF Shape
  <2>2. /\ Existing' = Existing \cup {t} /\ trip'[t] = record
        /\ \A s \in Trip \ {t} : trip'[s] = trip[s]
    BY <2>1, CommitEffect
  <2>3. \A s \in Existing : Fenced(trip[s])
    BY DEF CompletedIsFenced, Fenced
  <2>4. Fenced(record)
    BY <2>1, <2>3
  <2>5. \A s \in Existing' : Fenced(trip'[s])
    BY <2>2, <2>3, <2>4 DEF Existing
  <2> QED BY <2>5 DEF CompletedIsFenced, Fenced
<1> QED BY <1>1, <1>2, StepShape

(* No road to COMPLETED, the import of a finished row included, skips a    *)
(* required checkpoint or a measured unloading weight (the transition      *)
(* fences of operationalProfileResolver and those of dispatchImportedTrip).*)
THEOREM CompletedTripsFenced == Spec => []CompletedIsFenced
<1>1. Init => CompletedIsFenced
  BY ConstantsAssumption DEF Init, CompletedIsFenced, Existing
<1>2. TypeOK /\ CompletedIsFenced /\ [Next]_vars => CompletedIsFenced'
  BY FencedStep
<1> QED BY <1>1, <1>2, TypeCorrect, PTL DEF Spec

(* With finitely many entries of a trip, to count them is to count its     *)
(* revisions; that they are finite keeps the count inductive.              *)
RevisionsCounted ==
  \A t \in Trip : IsFiniteSet(EntriesOf(t)) /\ revision[t] = Cardinality(EntriesOf(t))

(* Every commit adds one entry and one revision to one trip.               *)
LEMMA RevisionsStep ==
  ASSUME TypeOK, RevisionsCounted, [Next]_vars
  PROVE  RevisionsCounted'
<1>1. CASE UNCHANGED committed
  BY <1>1 DEF committed, RevisionsCounted, EntriesOf
<1>2. ASSUME NEW u \in User, NEW r \in Request, IsFresh(u, r), Shape(u, r)
      PROVE  RevisionsCounted'
  <2>1. PICK t \in Trip, record \in TripRecords, new \in SUBSET EventRecords :
          Commit(u, r, t, record, new)
    BY <1>2 DEF Shape
  <2>2. /\ r.op \in OpId /\ ledger[u][r.op] = None
        /\ Entry(u, r, t) # None /\ Entry(u, r, t).tripId = t
    BY <1>2, RequestTyped, EntryTyped, ConstantsAssumption DEF IsFresh, Entry
  <2>3. ledger' = [ledger EXCEPT ![u][r.op] = Entry(u, r, t)]
    BY <2>1 DEF Commit
  <2>4. ASSUME NEW c \in User, NEW op \in OpId
        PROVE  ledger'[c][op] = IF c = u /\ op = r.op THEN Entry(u, r, t) ELSE ledger[c][op]
    <3> HIDE DEF Entry
    <3> QED BY <2>2, <2>3 DEF TypeOK
  <2>5. ASSUME NEW v \in Trip
        PROVE  IsFiniteSet(EntriesOf(v)') /\ revision'[v] = Cardinality(EntriesOf(v)')
    <3>1. IsFiniteSet(EntriesOf(v)) /\ revision[v] = Cardinality(EntriesOf(v))
      BY DEF RevisionsCounted
    <3>2. CASE v # t
      <4>1. EntriesOf(v)' = EntriesOf(v)
        BY <2>2, <2>4, <3>2 DEF EntriesOf
      <4>2. revision'[v] = revision[v]
        BY <2>1, <3>2 DEF Commit, TypeOK
      <4> QED BY <3>1, <4>1, <4>2
    <3>3. CASE v = t
      <4>1. EntriesOf(v)' = EntriesOf(v) \cup {<<u, r.op>>}
        BY <2>2, <2>4, <3>3 DEF EntriesOf
      <4>2. <<u, r.op>> \notin EntriesOf(v)
        BY <2>2 DEF EntriesOf
      <4>3. revision'[v] = revision[v] + 1
        BY <2>1, <3>3 DEF Commit, TypeOK
      <4> DEFINE before == EntriesOf(v)
      <4>4. IsFiniteSet(before) /\ revision[v] = Cardinality(before)
        BY <3>1
      <4>5. EntriesOf(v)' = before \cup {<<u, r.op>>} /\ <<u, r.op>> \notin before
        BY <4>1, <4>2
      <4> HIDE DEF before
      <4>6. /\ IsFiniteSet(before \cup {<<u, r.op>>})
            /\ Cardinality(before \cup {<<u, r.op>>}) = Cardinality(before) + 1
        BY <4>4, <4>5, FS_AddElement
      <4> QED BY <4>3, <4>4, <4>5, <4>6
    <3> QED BY <3>2, <3>3
  <2> QED BY <2>5 DEF RevisionsCounted
<1> QED BY <1>1, <1>2, StepShape

(* Every accepted command moves the workspace projection of its trip by    *)
(* exactly one revision, and nothing else does (the transaction that       *)
(* writes trip, ledger and workspace_sync_outbox together).                *)
THEOREM RevisionsCountCommands == Spec => []RevisionCountsCommands
<1>1. Init => RevisionsCounted
  <2> SUFFICES ASSUME Init, NEW t \in Trip
               PROVE  IsFiniteSet(EntriesOf(t)) /\ revision[t] = Cardinality(EntriesOf(t))
    BY DEF RevisionsCounted
  <2>1. EntriesOf(t) = {}
    BY DEF Init, EntriesOf
  <2> QED BY <2>1, FS_EmptySet DEF Init
<1>2. TypeOK /\ RevisionsCounted /\ [Next]_vars => RevisionsCounted'
  BY RevisionsStep
<1>3. RevisionsCounted => RevisionCountsCommands
  BY DEF RevisionsCounted, RevisionCountsCommands
<1> QED BY <1>1, <1>2, <1>3, TypeCorrect, PTL DEF Spec

(* What LedgerExplained says of one entry e, filed by u under op. *)
Explained(u, op, e) ==
  /\ e.tripId \in Existing
  /\ e.command \in Creation => /\ trip[e.tripId].clientUUID = op
                               /\ trip[e.tripId].createdBy = u
  /\ e.command \notin Creation => e.request = e.tripId
  /\ e.command = "RECORD_LOADING" => Rank[trip[e.tripId].status] >= Rank["IN_TRANSIT"]
  /\ e.command \in StatusCommand => Rank[trip[e.tripId].status] >= Rank[Target[e.command]]
  /\ e.command \in {"COMPLETE_TRIP", "CANCEL_TRIP"} => trip[e.tripId].status = Target[e.command]
  /\ e.command \in CheckpointCommand => CheckpointOf(e.command) \in trip[e.tripId].points
  /\ e.command = "ASSOCIATE_DRIVER" => trip[e.tripId].driver = e.payload.driver
  /\ e.command = "REPORT_EXCEPTION" => trip[e.tripId].hasExceptions

(* A late driver is somebody: without that the entry would not say that    *)
(* the trip has a driver, which is what keeps another from replacing him.  *)
Associates(e) == e.command = "ASSOCIATE_DRIVER" => e.payload.driver # None

LedgerHolds ==
  \A u \in User, op \in OpId :
    ledger[u][op] # None => Explained(u, op, ledger[u][op]) /\ Associates(ledger[u][op])

(* The entry of a command says what the command has just done.             *)
LEMMA NewEntryExplained ==
  ASSUME TypeOK, NEW u \in User, NEW r \in Request, NEW t \in Trip,
         NEW record \in TripRecords, NEW new \in SUBSET EventRecords,
         Commit(u, r, t, record, new), Creates(u, r, t, record) \/ Updates(r, t, record),
         Fulfils(r, t, record)
  PROVE  Explained(u, r.op, Entry(u, r, t))' /\ Associates(Entry(u, r, t))
<1> DEFINE e == Entry(u, r, t)
<1>1. /\ e.tripId = t /\ e.command = r.command
      /\ e.request = r.trip /\ e.payload = r.payload
  BY DEF Entry
<1>2. t \in Existing' /\ trip'[t] = record
  BY CommitEffect
<1>3. Associates(e)
  BY <1>1, RequestTyped, ConstantsAssumption DEF Associates
<1>4. r.command \in Creation => record.clientUUID = r.op /\ record.createdBy = u
  BY DEF Creates, Updates
<1>5. r.command \in StatusCommand =>
        /\ record.status = Target[r.command]
        /\ Rank[record.status] >= Rank[Target[r.command]]
  <2> SUFFICES ASSUME r.command \in StatusCommand
               PROVE  /\ record.status = Target[r.command]
                      /\ Rank[record.status] >= Rank[record.status]
    BY DEF Fulfils
  <2>1. Rank[record.status] \in 0 .. 9
    BY RankIsStage DEF TripRecords
  <2> QED BY <2>1 DEF Fulfils
<1>6. {"COMPLETE_TRIP", "CANCEL_TRIP"} \subseteq StatusCommand
  BY DEF StatusCommand
<1>7. Explained(u, r.op, Entry(u, r, t))'
  <2>1. e' = [command |-> r.command, request |-> r.trip, payload |-> r.payload,
              tripId |-> t, linked |-> account'[u].linked]
    BY DEF Entry
  <2>2. /\ e'.tripId = t /\ e'.command = r.command
        /\ e'.request = r.trip /\ e'.payload = r.payload
    BY <2>1
  <2> HIDE DEF e
  <2> QED BY <1>2, <1>4, <1>5, <1>6, <2>2 DEF Explained, Fulfils, e
<1> QED BY <1>3, <1>7

(* What an entry says of a trip, no later command makes untrue.            *)
LEMMA OldEntryExplained ==
  ASSUME TypeOK, NEW u \in User, NEW r \in Request, NEW t \in Trip,
         NEW record \in TripRecords, NEW new \in SUBSET EventRecords,
         Commit(u, r, t, record, new), Creates(u, r, t, record) \/ Updates(r, t, record),
         NEW c \in User, NEW op \in OpId, NEW e \in Entries,
         Explained(c, op, e), Associates(e)
  PROVE  Explained(c, op, e)'
<1>1. /\ Existing' = Existing \cup {t} /\ trip'[t] = record
      /\ \A s \in Trip \ {t} : trip'[s] = trip[s]
  BY CommitEffect
<1>2. e.tripId \in Existing /\ e.tripId \in Trip
  BY DEF Explained, Existing
<1>3. CASE e.tripId # t
  <2>1. trip'[e.tripId] = trip[e.tripId] /\ e.tripId \in Existing'
    BY <1>1, <1>2, <1>3
  <2> QED BY <2>1 DEF Explained
<1>4. CASE e.tripId = t
  <2>1. Updates(r, t, record)
    BY <1>2, <1>4 DEF Creates
  <2>2. trip'[e.tripId] = record /\ e.tripId \in Existing' /\ trip[t] \in TripRecords
    BY <1>1, <1>2, <1>4 DEF TypeOK, Existing
  <2>3. /\ record.clientUUID = trip[t].clientUUID /\ record.createdBy = trip[t].createdBy
        /\ trip[t].points \subseteq record.points
        /\ trip[t].hasExceptions => record.hasExceptions
        /\ trip[t].driver # None => record.driver = trip[t].driver
    BY <2>1 DEF Updates, Identity
  <2>4. \A n \in 0 .. 9 : Rank[trip[t].status] >= n => Rank[record.status] >= n
    <3>1. Rank[trip[t].status] \in 0 .. 9 /\ Rank[record.status] \in 0 .. 9
      BY <2>2, RankIsStage DEF TripRecords
    <3>2. Rank[record.status] >= Rank[trip[t].status]
      BY <2>1 DEF Updates
    <3> QED BY <3>1, <3>2
  <2>5. /\ Rank["IN_TRANSIT"] \in 0 .. 9
        /\ e.command \in StatusCommand => Rank[Target[e.command]] \in 0 .. 9
    BY RankIsStage DEF Status, Target
  <2>6. e.command \in {"COMPLETE_TRIP", "CANCEL_TRIP"} => record.status = trip[t].status
    <3>1. Target["COMPLETE_TRIP"] \in Terminal /\ Target["CANCEL_TRIP"] \in Terminal
      BY DEF Target, StatusCommand, Terminal
    <3> QED BY <1>4, <2>1, <3>1 DEF Explained, Updates
  <2> QED BY <1>4, <2>2, <2>3, <2>4, <2>5, <2>6 DEF Explained, Associates
<1> QED BY <1>3, <1>4

(* No step makes an entry of the ledger untrue.                            *)
LEMMA LedgerStep ==
  ASSUME TypeOK, LedgerHolds, [Next]_vars
  PROVE  LedgerHolds'
<1>1. CASE UNCHANGED committed
  BY <1>1 DEF committed, LedgerHolds, Explained, Existing
<1>2. ASSUME NEW u \in User, NEW r \in Request, Shape(u, r)
      PROVE  LedgerHolds'
  <2>1. PICK t \in Trip, record \in TripRecords, new \in SUBSET EventRecords :
          /\ Commit(u, r, t, record, new)
          /\ Creates(u, r, t, record) \/ Updates(r, t, record)
          /\ Fulfils(r, t, record)
    BY <1>2 DEF Shape
  <2>2. r.op \in OpId /\ ledger' = [ledger EXCEPT ![u][r.op] = Entry(u, r, t)]
    BY <2>1, RequestTyped DEF Commit
  <2>3. ASSUME NEW c \in User, NEW op \in OpId, ledger'[c][op] # None
        PROVE  Explained(c, op, ledger[c][op])' /\ Associates(ledger'[c][op])
    <3>1. CASE c = u /\ op = r.op
      <4>1. ledger'[c][op] = Entry(u, r, t)
        BY <2>2, <3>1 DEF TypeOK
      <4>2. Explained(u, r.op, Entry(u, r, t))' /\ Associates(Entry(u, r, t))
        BY <2>1, NewEntryExplained
      <4>3. Entry(u, r, t)' = Entry(u, r, t)
        BY <2>1, CommitEffect DEF Entry, environment
      <4> QED BY <3>1, <4>1, <4>2, <4>3
    <3>2. CASE ~(c = u /\ op = r.op)
      <4>1. ledger'[c][op] = ledger[c][op]
        BY <2>2, <3>2 DEF TypeOK
      <4>2. /\ ledger[c][op] \in Entries
            /\ Explained(c, op, ledger[c][op]) /\ Associates(ledger[c][op])
        BY <2>3, <4>1 DEF LedgerHolds, TypeOK
      <4> DEFINE e == ledger[c][op]
      <4> QED BY <2>1, <4>1, <4>2, OldEntryExplained DEF Explained
    <3> QED BY <3>1, <3>2
  <2> QED BY <2>3 DEF LedgerHolds
<1> QED BY <1>1, <1>2, StepShape

(* The ledger with its entries explained holds in every state.             *)
LEMMA LedgerAlwaysHolds == Spec => []LedgerHolds
<1>1. Init => LedgerHolds
  BY DEF Init, LedgerHolds
<1>2. TypeOK /\ LedgerHolds /\ [Next]_vars => LedgerHolds'
  BY LedgerStep
<1> QED BY <1>1, <1>2, TypeCorrect, PTL DEF Spec

(* What a command was acknowledged with stays true of the trip, whatever   *)
(* commands follow (the ledger entry executeCommand answers retries from). *)
THEOREM AcknowledgementsStayTrue == Spec => []LedgerExplained
<1>1. LedgerHolds => LedgerExplained
  BY DEF LedgerHolds, LedgerExplained, Explained
<1> QED BY <1>1, LedgerAlwaysHolds, PTL

(* A caller who is still authorized and repeats an operation is            *)
(* acknowledged without an execution, in every reachable state             *)
(* (executeCommand looks at the ledger before it runs a domain rule).      *)
THEOREM RetriesAcknowledged == Spec => []RetryIsAcknowledged
<1>1. TypeOK /\ LedgerHolds => RetryIsAcknowledged
  <2> SUFFICES ASSUME TypeOK, LedgerHolds, NEW u \in User, NEW op \in OpId,
                      ledger[u][op] # None, MayAct(u),
                      account[u].role \in RolesOf[ledger[u][op].command],
                      account[u].role = "DRIVER" =>
                        /\ account[u].linked = ledger[u][op].linked
                        /\ OwnsTrip(u, ledger[u][op].tripId)
               PROVE  IsReplay(u, [command |-> ledger[u][op].command, op |-> op,
                                   trip |-> ledger[u][op].request,
                                   payload |-> ledger[u][op].payload])
    BY DEF RetryIsAcknowledged
  <2> DEFINE e == ledger[u][op]
             r == [command |-> e.command, op |-> op, trip |-> e.request, payload |-> e.payload]
  <2>1. e \in Entries /\ Explained(u, op, e)
    BY DEF TypeOK, LedgerHolds
  <2>2. e.tripId \in Existing /\ (e.command \notin Creation => e.request = e.tripId)
    BY <2>1 DEF Explained
  <2>3. account[u].role = "DRIVER" => e.command \notin Creation
    BY <2>1 DEF Entries, RolesOf, OriginRoles, ScaleRoles, Creation, Command
  <2>4. Authorized(u, r)
    BY <2>2, <2>3 DEF Authorized
  <2> QED BY <2>2, <2>3, <2>4 DEF IsReplay, IsLedgerReplay, SameRequest
<1> QED BY <1>1, TypeCorrect, LedgerAlwaysHolds, PTL

-----------------------------------------------------------------------------
(* Action properties *)

(* What one step may do to one trip. *)
KeepsIdentity(t) ==
  /\ trip[t].driver # None => trip'[t].driver = trip[t].driver
  /\ \A f \in Identity : trip'[t][f] = trip[t][f]

GoesForward(t) ==
  /\ trip'[t] # None
  /\ Rank[trip'[t].status] >= Rank[trip[t].status]
  /\ trip[t].finalized => [trip'[t] EXCEPT !.hasExceptions = FALSE]
                            = [trip[t] EXCEPT !.hasExceptions = FALSE]
  /\ trip[t].status \in Terminal => trip'[t].status = trip[t].status

(* No step takes a trip backwards or reopens a finished one.               *)
LEMMA TripStep ==
  ASSUME TypeOK, [Next]_vars, NEW t \in Existing
  PROVE  KeepsIdentity(t) /\ GoesForward(t)
<1>1. t \in Trip /\ trip[t] \in TripRecords /\ trip[t] # None
  BY DEF Existing, TypeOK
<1>2. CASE trip'[t] = trip[t]
  <2>1. Rank[trip[t].status] \in Int
    BY <1>1 DEF Rank, TripRecords, Status
  <2> QED BY <1>1, <1>2, <2>1 DEF KeepsIdentity, GoesForward
<1>3. ASSUME NEW u \in User, NEW r \in Request, Shape(u, r), trip'[t] # trip[t]
      PROVE  KeepsIdentity(t) /\ GoesForward(t)
  <2>1. PICK v \in Trip, record \in TripRecords, new \in SUBSET EventRecords :
          /\ Commit(u, r, v, record, new)
          /\ Creates(u, r, v, record) \/ Updates(r, v, record)
    BY <1>3 DEF Shape
  <2>2. v = t /\ trip'[t] = record /\ record # None
    BY <1>1, <1>3, <2>1, CommitEffect
  <2>3. Updates(r, t, record)
    BY <2>1, <2>2 DEF Creates
  <2> QED BY <2>2, <2>3 DEF Updates, KeepsIdentity, GoesForward
<1>4. UNCHANGED committed => trip' = trip
  BY DEF committed
<1> QED BY <1>2, <1>3, <1>4, StepShape

(* Nothing replaces the driver of a trip once there is one, and nothing    *)
(* rewrites who made it, from what, under which number and configuration   *)
(* (dispatchTrip freezes them, no other command writes them).              *)
THEOREM TripIdentityFixed == Spec => IdentityFixed
<1>1. TypeOK /\ [Next]_vars => [\A t \in Existing : KeepsIdentity(t)]_vars
  BY TripStep
<1>2. Spec => [][\A t \in Existing : KeepsIdentity(t)]_vars
  BY <1>1, TypeCorrect, PTL DEF Spec
<1> QED BY <1>2 DEF IdentityFixed, KeepsIdentity, Identity

(* A trip never moves backwards, and a finished one keeps its status, its  *)
(* weights and its closing, for every mix of commands and configurations   *)
(* (transitionTripStatus and its two tables).                              *)
THEOREM TripsMoveForward == Spec => TripsOnlyMoveForward
<1>1. TypeOK /\ [Next]_vars => [\A t \in Existing : GoesForward(t)]_vars
  BY TripStep
<1>2. Spec => [][\A t \in Existing : GoesForward(t)]_vars
  BY <1>1, TypeCorrect, PTL DEF Spec
<1> QED BY <1>2 DEF TripsOnlyMoveForward, GoesForward

-----------------------------------------------------------------------------
(* The service implements the log of operations *)

(* The service starts with an empty log.                                   *)
LEMMA LogInitially == Init => Log!LogInit
<1> SUFFICES ASSUME Init PROVE Log!LogInit
  OBVIOUS
<1>1. \A t \in Trip : trip[t] # None => Rank[trip[t].status] \in 0 .. 9
  BY InitTyped, RankIsStage DEF TypeOK, TripRecords
<1>2. [t \in Trip |-> IF trip[t] = None THEN -1 ELSE Rank[trip[t].status]] \in [Trip -> -1 .. 9]
  BY <1>1
<1> QED BY <1>2 DEF Init, Log!LogInit, Log!Stages

(* Every step of the service is a step of the log or leaves it alone.      *)
LEMMA LogStep ==
  ASSUME TypeOK, [Next]_vars
  PROVE  [Log!LogNext]_(Log!logVars)
<1>1. CASE UNCHANGED committed
  BY <1>1 DEF committed, Log!logVars
<1>2. ASSUME NEW u \in User, NEW r \in Request, IsFresh(u, r), Shape(u, r)
      PROVE  Log!LogNext
  <2>1. PICK t \in Trip, record \in TripRecords, new \in SUBSET EventRecords :
          /\ Commit(u, r, t, record, new)
          /\ Creates(u, r, t, record) \/ Updates(r, t, record)
    BY <1>2 DEF Shape
  <2>2. /\ trip'[t] = record /\ record # None
        /\ \A s \in Trip \ {t} : trip'[s] = trip[s]
    BY <2>1, CommitEffect
  <2>3. r.op \in OpId /\ ledger[u][r.op] = None
    BY <1>2, RequestTyped DEF IsFresh
  <2>4. Entry(u, r, t) # None /\ Entry(u, r, t).tripId = t
    BY <1>2, <2>1, EntryTyped, ConstantsAssumption DEF Entry
  <2> DEFINE effect == [c \in User |-> [op \in OpId |->
                          IF ledger[c][op] = None THEN None ELSE ledger[c][op].tripId]]
             stage == [s \in Trip |-> IF trip[s] = None THEN -1 ELSE Rank[trip[s].status]]
             n == Rank[record.status]
  <2>5. effect[u][r.op] = None
    BY <2>3
  <2>6. effect' = [effect EXCEPT ![u][r.op] = t]
    <3>1. ledger' = [ledger EXCEPT ![u][r.op] = Entry(u, r, t)]
      BY <2>1 DEF Commit
    <3> HIDE DEF Entry
    <3> QED BY <2>3, <2>4, <3>1 DEF TypeOK
  <2>7. revision' = [revision EXCEPT ![t] = @ + 1]
    BY <2>1 DEF Commit
  <2>8. stage' = [stage EXCEPT ![t] = n]
    BY <2>2
  <2>9. n \in 0 .. 9 /\ n >= stage[t]
    <3>1. n \in 0 .. 9
      BY RankIsStage DEF TripRecords
    <3>2. CASE trip[t] = None
      BY <3>1, <3>2
    <3>3. CASE trip[t] # None
      BY <2>1, <3>1, <3>3 DEF Creates, Updates, Existing
    <3> QED BY <3>1, <3>2, <3>3
  <2>10. Log!TakeEffect(u, r.op, t)
    <3> HIDE DEF n
    <3>1. n \in Log!Stages /\ n >= stage[t] /\ n >= 0
      BY <2>9 DEF Log!Stages
    <3> QED BY <2>5, <2>6, <2>7, <2>8, <3>1 DEF Log!TakeEffect
  <2> QED BY <2>3, <2>10 DEF Log!LogNext
<1> QED BY <1>1, <1>2, StepShape

(* The ledger, the projection revisions and the statuses together behave   *)
(* as a log of operations: each operation of a caller takes effect at most *)
(* once and for good, each effect counts one revision of its trip, and     *)
(* trips only come forward (executeCommand as a whole).                    *)
THEOREM ServiceImplementsLog == Spec => ImplementsLog
<1>1. Init => Log!LogInit
  BY LogInitially
<1>2. TypeOK /\ [Next]_vars => [Log!LogNext]_(Log!logVars)
  BY LogStep
<1> QED BY <1>1, <1>2, TypeCorrect, PTL DEF Spec, ImplementsLog, Log!LogSpec
=============================================================================
