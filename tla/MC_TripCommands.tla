-------------------------- MODULE MC_TripCommands --------------------------
(***************************************************************************)
(* Small instances of TripCommands.  Each run picks the requests its       *)
(* clients send, the accounts, the relationships and the configurations.   *)
(***************************************************************************)
EXTENDS TripCommands, TLC

CONSTANTS op1, op2, t1, t2, d1, d2, u1, u2, i1, i2

NoPayload == [ids |-> None, driver |-> None, loadNet |-> FALSE, unloadNet |-> FALSE,
              points |-> {}, legacyStatus |-> None]

CreatePayload(i, d) == [NoPayload EXCEPT !.ids = i, !.driver = d]

Imported(d, load, unload, pts, status) ==
  [CreatePayload(i1, d) EXCEPT !.loadNet = load, !.unloadNet = unload,
                               !.points = pts, !.legacyStatus = status]

Send(commands, t, payloads) ==
  [command : commands, op : OpId, trip : {t}, payload : payloads]

Dual(required)    == [loadingMeasured |-> TRUE,  unloadingMeasured |-> TRUE,
                      driverRequired |-> TRUE, required |-> required]
NoScale(required) == [loadingMeasured |-> FALSE, unloadingMeasured |-> FALSE,
                      driverRequired |-> FALSE, required |-> required]

Supervisor == [active |-> TRUE, role |-> "SUPERVISOR", assigned |-> TRUE, linked |-> None]

-----------------------------------------------------------------------------
(* lifecycle: one supervisor takes one trip along every road, in a project *)
(* without a configuration, with scales on both sides, or with none, while *)
(* the configuration changes and one of two drivers is associated late.    *)
(* Each command is sent under an operation id of its own, so the longest   *)
(* road (a dispatch, eight transitions and those beside them) is walked.   *)

Once(commands, t, payloads) ==
  UNION {[command : {c}, op : {c}, trip : {t}, payload : payloads] : c \in commands}

LifecycleRequests ==
  Once({"RECORD_LOADING", "DISPATCH_TRIP"}, None, {CreatePayload(i1, d1), CreatePayload(i1, None)})
    \cup Once({"IMPORT_TRIP"}, None,
              {Imported(None, FALSE, FALSE, {}, "IN_TRANSIT"),
               Imported(d1, TRUE, FALSE, {}, "AT_DESTINATION"),
               Imported(d1, TRUE, TRUE, {"loadingCompletedAt"}, None),
               Imported(d1, TRUE, TRUE, {"loadingCompletedAt", "unloadingCompletedAt"}, None)})
    \cup Once(StatusCommand \cup CheckpointCommand \cup {"REPORT_EXCEPTION"}, t1, {NoPayload})
    \cup Once({"ASSOCIATE_DRIVER"}, t1, {[NoPayload EXCEPT !.driver = d] : d \in {d1, d2}})

LifecycleConfigurations == {Dual({"loadingCompletedAt", "unloadingCompletedAt"}),
                            NoScale({}), NoScale({"unloadingStartedAt"})}

JustSupervisor == {Supervisor}

LifecycleEligibility == {{<<i1, d1>>, <<i1, d2>>, <<i1, None>>}}

-----------------------------------------------------------------------------
(* idempotency: two accounts, which administration may turn from a         *)
(* supervisor into a driver and back, reuse two operation ids for          *)
(* creations and arrivals, while relationships change, the driver is       *)
(* suspended and a trip from before the ledger may exist.                  *)

IdempotencyRequests ==
  Send({"DISPATCH_TRIP", "RECORD_LOADING"}, None, {CreatePayload(i1, d1), CreatePayload(i2, d1)})
    \cup Send({"RECORD_ARRIVAL"}, t1, {NoPayload})
    \cup Send({"RECORD_ARRIVAL", "CANCEL_TRIP"}, t2, {NoPayload})

IdempotencyAccounts ==
  {Supervisor, [active |-> TRUE, role |-> "DRIVER", assigned |-> TRUE, linked |-> d1]}

IdempotencyEligibility == {{<<i1, d1>>, <<i2, d1>>}, {}}

-----------------------------------------------------------------------------
(* Trips from before the ledger, in the instances that have them *)

OldTrip(op, u) ==
  [status |-> "IN_TRANSIT", clientUUID |-> op, createdBy |-> u, ids |-> i1, driver |-> d1,
   number |-> 4, profile |-> None, pricing |-> "PER_TON", loadNet |-> TRUE,
   unloadNet |-> FALSE, points |-> {}, finalized |-> FALSE, hasExceptions |-> FALSE]

IdempotencyLegacy == {OldTrip(op1, u1)}
=============================================================================
