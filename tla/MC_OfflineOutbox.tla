-------------------------- MODULE MC_OfflineOutbox --------------------------
(***************************************************************************)
(* Small instances of OfflineOutbox.  A supervisor u1 unloads trip t1,     *)
(* which was dispatched before; a second supervisor u2 works in the office *)
(* or takes over the device.                                               *)
(***************************************************************************)
EXTENDS OfflineOutbox

CONSTANTS a, b, u1, u2, t1, t2, t3, d1, i1, i2, arrive, receive, unload, complete, report, load, other

NoPayload == [ids |-> None, driver |-> None, loadNet |-> FALSE, unloadNet |-> FALSE,
              points |-> {}, legacyStatus |-> None]

CommandOf(op) == CASE op = arrive   -> "RECORD_ARRIVAL"
                  [] op = receive  -> "RECORD_DESTINATION_NET"
                  [] op = unload   -> "COMPLETE_UNLOADING"
                  [] op = complete -> "COMPLETE_TRIP"
                  [] op = report   -> "REPORT_EXCEPTION"
                  [] op = load     -> "RECORD_LOADING"

FieldOps == {arrive, receive, unload, complete, report, load}

FieldIntent ==
  [op \in FieldOps |->
     [command |-> CommandOf(op), op |-> op,
      trip |-> IF op = load THEN None ELSE t1,
      payload |-> IF op = load THEN [NoPayload EXCEPT !.ids = i1, !.driver = d1]
                               ELSE NoPayload]]

(* What the screens write in the cache: the arrival when it is recorded,   *)
(* the completed trip before the receipt is queued, the new trip.          *)
FieldCache == [op \in FieldOps |-> CASE op = arrive  -> "ARRIVED"
                                     [] op = receive -> "COMPLETED"
                                     [] op = load    -> "IN_TRANSIT"
                                     [] OTHER        -> None]

Supervisors == {[active |-> TRUE, role |-> "SUPERVISOR", assigned |-> TRUE, linked |-> None]}

Relationships == {{<<i1, d1>>, <<i2, d1>>}}

(* An office command is sent under an operation id of its own.             *)
Arrival == [FieldIntent[arrive] EXCEPT !.op = other]

NoTrip == {}

OldTrip(status) ==
  {[status |-> status, clientUUID |-> other, createdBy |-> u2, ids |-> i1, driver |-> d1,
    number |-> 1, profile |-> None, pricing |-> "PER_TON", loadNet |-> TRUE,
    unloadNet |-> FALSE, points |-> {}, finalized |-> FALSE, hasExceptions |-> FALSE]}

(* A resolution may change the carrier of a loading.                       *)
FieldAmended == [FieldIntent EXCEPT ![load].payload.ids = i2]

FieldRequests == Range(FieldIntent) \cup Range(FieldAmended) \cup {Arrival}

OnTheRoad == OldTrip("IN_TRANSIT")
Arrived   == OldTrip("AT_DESTINATION")

Finish  == <<receive, unload, complete>>
Mixed   == <<load, arrive>>
JustLoad == <<load>>
TabSymmetry  == Permutations({a, b})
TripSymmetry == Permutations({t2, t3})

ArrivalByOffice == {<<u2, Arrival>>}

NoHazards    == [loss |-> 0, reload |-> 0, retry |-> 0, signin |-> 0, clear |-> 0, resolve |-> 0]
OneReload    == [NoHazards EXCEPT !.reload = 1]
LossAndRetry == [NoHazards EXCEPT !.loss = 1, !.retry = 1]
TwoTabs      == [NoHazards EXCEPT !.loss = 1, !.reload = 1, !.clear = 1, !.resolve = 2]
OneDevice    == [NoHazards EXCEPT !.loss = 1, !.signin = 2, !.resolve = 1]

(* The trip on the road exists, and its supervisor is signed in.           *)
FieldInit     == OutboxInit /\ trip[t1] # None /\ signedIn = u1
FieldSpec     == FieldInit /\ [][OutboxNext]_allVars
FairFieldSpec == FieldSpec /\ Fairness
=============================================================================
