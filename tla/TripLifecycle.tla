--------------------------- MODULE TripLifecycle ---------------------------
(***************************************************************************)
(* The vocabulary of a trip: its statuses, the two transition tables the   *)
(* server enforces (the standard one and the one of a project with an      *)
(* operational configuration), the commands with the roles that may send   *)
(* them, and the effect one transition has on a trip record.  Everything   *)
(* here is a pure operator; TripCommands holds the state.                  *)
(***************************************************************************)
EXTENDS Integers, FiniteSets

CONSTANT None  \* null / undefined in the documents

-----------------------------------------------------------------------------
(* Statuses and the standard transition table *)

Status == {"DRAFT", "DISPATCHED", "AT_ORIGIN", "LOADING", "WEIGHED_ORIGIN",
           "IN_TRANSIT", "AT_DESTINATION", "WEIGHED_DESTINATION", "OFFLOADED",
           "COMPLETED", "REJECTED", "CANCELLED"}

Terminal == {"COMPLETED", "REJECTED", "CANCELLED"}

(* Fault: a truck on the road may be weighed at the origin again. *)
StandardNextReturning ==
  [s \in Status |->
     CASE s = "DISPATCHED"          -> {"AT_ORIGIN", "CANCELLED"}
       [] s = "AT_ORIGIN"           -> {"LOADING", "CANCELLED"}
       [] s = "LOADING"             -> {"WEIGHED_ORIGIN", "REJECTED"}
       [] s = "WEIGHED_ORIGIN"      -> {"IN_TRANSIT", "CANCELLED"}
       [] s = "IN_TRANSIT"          -> {"WEIGHED_ORIGIN", "AT_DESTINATION", "REJECTED"}
       [] OTHER                     -> {}]

StandardNext ==
  [s \in Status |->
     CASE s = "DRAFT"               -> {"DISPATCHED", "CANCELLED"}
       [] s = "DISPATCHED"          -> {"AT_ORIGIN", "CANCELLED"}
       [] s = "AT_ORIGIN"           -> {"LOADING", "CANCELLED"}
       [] s = "LOADING"             -> {"WEIGHED_ORIGIN", "REJECTED"}
       [] s = "WEIGHED_ORIGIN"      -> {"IN_TRANSIT", "CANCELLED"}
       [] s = "IN_TRANSIT"          -> {"AT_DESTINATION", "REJECTED"}
       [] s = "AT_DESTINATION"      -> {"WEIGHED_DESTINATION", "REJECTED"}
       [] s = "WEIGHED_DESTINATION" -> {"OFFLOADED", "REJECTED"}
       [] s = "OFFLOADED"           -> {"COMPLETED"}
       [] OTHER                     -> {}]

(* How far a status is along the road; no edge of either table goes down.  *)
Rank ==
  [s \in Status |->
     CASE s = "DRAFT"               -> 0
       [] s = "DISPATCHED"          -> 1
       [] s = "AT_ORIGIN"           -> 2
       [] s = "LOADING"             -> 3
       [] s = "WEIGHED_ORIGIN"      -> 4
       [] s = "IN_TRANSIT"          -> 5
       [] s = "AT_DESTINATION"      -> 6
       [] s = "WEIGHED_DESTINATION" -> 7
       [] s = "OFFLOADED"           -> 8
       [] OTHER                     -> 9]

-----------------------------------------------------------------------------
(* Operational configurations.  Only what the trip rules read is kept: the *)
(* two measurement modes, whether the roster must name a driver, and the   *)
(* required checkpoints.                                                   *)

Checkpoint == {"loadingStartedAt", "loadingCompletedAt", "departedAt",
               "arrivedAt", "unloadingStartedAt", "unloadingCompletedAt"}

Configurations == [loadingMeasured   : BOOLEAN,
                   unloadingMeasured : BOOLEAN,
                   driverRequired    : BOOLEAN,
                   required          : SUBSET Checkpoint]

SameProfile(c, d) == /\ c.loadingMeasured = d.loadingMeasured
                     /\ c.unloadingMeasured = d.unloadingMeasured

ProfileNext(c, s) ==
  CASE s = "DISPATCHED"          -> {"AT_ORIGIN", "LOADING", "CANCELLED"}
                                      \cup (IF c.loadingMeasured THEN {} ELSE {"IN_TRANSIT"})
    [] s = "AT_ORIGIN"           -> {"LOADING", "CANCELLED"}
                                      \cup (IF c.loadingMeasured THEN {} ELSE {"IN_TRANSIT"})
    [] s = "LOADING"             -> {"REJECTED", IF c.loadingMeasured THEN "WEIGHED_ORIGIN"
                                                                      ELSE "IN_TRANSIT"}
    [] s = "WEIGHED_ORIGIN"      -> {"IN_TRANSIT", "CANCELLED"}
    [] s = "IN_TRANSIT"          -> {"AT_DESTINATION", "REJECTED"}
    [] s = "AT_DESTINATION"      -> {"REJECTED", IF c.unloadingMeasured THEN "WEIGHED_DESTINATION"
                                                                        ELSE "OFFLOADED"}
    [] s = "WEIGHED_DESTINATION" -> {"OFFLOADED", "REJECTED"}
    [] s = "OFFLOADED"           -> {"COMPLETED"}
    [] OTHER                     -> {}

(* The measurement and checkpoint fences of a configured trip. *)
ProfileAllows(t, target) ==
  LET c == t.profile IN
  /\ target \in ProfileNext(c, t.status)
  /\ target = "IN_TRANSIT" /\ c.loadingMeasured => t.loadNet
  /\ target \in {"OFFLOADED", "COMPLETED"} /\ c.unloadingMeasured => t.unloadNet
  /\ target = "IN_TRANSIT" =>
       c.required \cap {"loadingStartedAt", "loadingCompletedAt"} \subseteq t.points
  /\ target = "COMPLETED" => c.required \subseteq t.points

-----------------------------------------------------------------------------
(* One transition of a trip record *)

(* May the trip take this step now: it is not financially closed and the   *)
(* table of its kind has the edge.                                         *)
CanAdvance(t, target) ==
  /\ ~t.finalized
  /\ IF t.profile = None THEN target \in StandardNext[t.status]
                         ELSE ProfileAllows(t, target)

PointOf(target) ==
  CASE target = "LOADING"        -> {"loadingStartedAt"}
    [] target = "WEIGHED_ORIGIN" -> {"loadingCompletedAt"}
    [] target = "IN_TRANSIT"     -> {"departedAt"}
    [] target = "AT_DESTINATION" -> {"arrivedAt"}
    [] target = "OFFLOADED"      -> {"unloadingCompletedAt"}
    [] OTHER                     -> {}

(* A configured PER_TON trip that completes without any measured weight    *)
(* stays financially open.                                                 *)
SettlementPending(t) ==
  /\ t.profile # None
  /\ t.pricing = "PER_TON"
  /\ ~t.loadNet /\ ~t.unloadNet

Advanced(t, target) ==
  [t EXCEPT !.status    = target,
            !.loadNet   = @ \/ target = "WEIGHED_ORIGIN",
            !.unloadNet = @ \/ target = "WEIGHED_DESTINATION",
            !.points    = IF t.profile = None THEN @ ELSE @ \cup PointOf(target),
            !.finalized = target = "COMPLETED" /\ ~SettlementPending(t)]

-----------------------------------------------------------------------------
(* Commands and the roles that may send them *)

Role == {"SUPER_ADMIN", "PROJECT_ADMIN", "SITE_SUPERVISOR", "SUPERVISOR", "DISPATCHER",
         "FINANCE_AUDITOR", "SCALE_OPERATOR", "DRIVER", "VIEWER"}

OriginRoles == {"SUPER_ADMIN", "PROJECT_ADMIN", "DISPATCHER", "SUPERVISOR", "SITE_SUPERVISOR"}
ScaleRoles  == {"SUPER_ADMIN", "PROJECT_ADMIN", "SCALE_OPERATOR", "SUPERVISOR", "SITE_SUPERVISOR"}

Creation    == {"DISPATCH_TRIP", "RECORD_LOADING", "IMPORT_TRIP"}
CheckpointCommand == {"COMPLETE_LOADING", "START_UNLOADING"}
StatusCommand == {"ARRIVE_ORIGIN", "START_LOADING", "RECORD_ORIGIN_WEIGHT", "START_TRANSIT",
                  "RECORD_ARRIVAL", "RECORD_DESTINATION_WEIGHT", "RECORD_DESTINATION_NET",
                  "ACCEPT_ORIGIN_NET", "COMPLETE_UNLOADING", "COMPLETE_TRIP", "CANCEL_TRIP"}
Command == Creation \cup CheckpointCommand \cup StatusCommand
             \cup {"ASSOCIATE_DRIVER", "REPORT_EXCEPTION"}

RolesOf ==
  [c \in Command |->
     CASE c \in {"RECORD_LOADING", "START_LOADING", "RECORD_ORIGIN_WEIGHT", "REPORT_EXCEPTION"}
            -> OriginRoles \cup {"SCALE_OPERATOR"}
       [] c = "RECORD_ARRIVAL" -> ScaleRoles \cup {"DRIVER"}
       [] c \in {"START_UNLOADING", "RECORD_DESTINATION_WEIGHT", "RECORD_DESTINATION_NET",
                 "ACCEPT_ORIGIN_NET", "COMPLETE_UNLOADING", "COMPLETE_TRIP"}
            -> ScaleRoles
       [] OTHER -> OriginRoles]

Target ==
  [c \in StatusCommand |->
     CASE c = "ARRIVE_ORIGIN"        -> "AT_ORIGIN"
       [] c = "START_LOADING"        -> "LOADING"
       [] c = "RECORD_ORIGIN_WEIGHT" -> "WEIGHED_ORIGIN"
       [] c = "START_TRANSIT"        -> "IN_TRANSIT"
       [] c = "RECORD_ARRIVAL"       -> "AT_DESTINATION"
       [] c = "COMPLETE_UNLOADING"   -> "OFFLOADED"
       [] c = "COMPLETE_TRIP"        -> "COMPLETED"
       [] c = "CANCEL_TRIP"          -> "CANCELLED"
       [] OTHER                      -> "WEIGHED_DESTINATION"]
=============================================================================
