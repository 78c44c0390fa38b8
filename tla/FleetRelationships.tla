------------------------- MODULE FleetRelationships -------------------------
(***************************************************************************)
(* Who takes part in a project and who works with whom: memberships,       *)
(* carrier affiliations, driver-truck assignments and truck-material       *)
(* allocations (projectParticipationAuthority, membershipConsequences,     *)
(* temporalRelationshipAuthority, driverTruckIntake, reviewedRosterCommit, *)
(* projectProvisioning, globalIdentityAuthority, temporalRelationshipReads)*)
(*                                                                         *)
(* A relationship document is ACTIVE or CLOSED and is never deleted; slot  *)
(* documents name the ACTIVE one of a driver, of a truck and of the load   *)
(* of a truck, without any constraint of the database between them.  Every *)
(* command is one transaction, and an action here.  `at` is the clock it   *)
(* read before the last of its reads: it may be older than the relation-   *)
(* ships it then finds.  Commands that change nothing are left out.        *)
(***************************************************************************)
EXTENDS Integers, FiniteSets, Functions

CONSTANTS
  Driver, Truck, Carrier, Material,
  Id,                \* names for relationship documents (random UUIDs)
  Enrolled,          \* carriers and materials that are ACTIVE members at first
  Hired,             \* the carriers of the drivers and trucks that are, too
  Volatile,          \* identities whose global status changes
  ConsequenceLimit,  \* MEMBERSHIP_CONSEQUENCE_LIMIT, 50
  None,
  MaxTime,           \* bound: the last reading of the clock
  MaxChanges         \* bound: commands that are executed

Fleet    == Driver \cup Truck
Entity   == Fleet \cup Carrier \cup Material
Partner  == Driver \cup Material
Tab      == {"CARRIERS", "MATERIALS", "DRIVERS", "FLEET_ROSTER"}
Status   == {"ACTIVE", "SUSPENDED", "REMOVED"}

\* The owners of slots: driver_active_assignments, truck_active_assignments
\* and truck_active_material_allocations.
Holder == ({"driver"} \X Driver) \cup ({"truck", "load"} \X Truck)

ASSUME EntityAssumption ==
  /\ Driver \cap Truck = {} /\ Driver \cap Carrier = {} /\ Driver \cap Material = {}
  /\ Truck \cap Carrier = {} /\ Truck \cap Material = {} /\ Carrier \cap Material = {}
  /\ None \notin Entity \cup Id
  /\ Enrolled \subseteq Carrier \cup Material /\ Volatile \subseteq Entity
  /\ Hired \in UNION {[who -> Carrier \cap Enrolled] : who \in SUBSET Fleet}
ASSUME BoundAssumption == ConsequenceLimit \in Nat /\ MaxTime \in Nat /\ MaxChanges \in Nat

VARIABLES
  eligible,     \* the identities whose global status is ACTIVE
  membership,   \* *_memberships of the project
  affiliation,  \* driver_ and truck_carrier_affiliations
  record,       \* driver_truck_assignments and truck_material_allocations
  slot,         \* the three collections of slots
  marked,       \* the tabs the last transaction marked dirty
  now,
  changes

vars == <<eligible, membership, affiliation, record, slot, marked, now, changes>>

Affiliations == [carrier : Carrier, status : {"ACTIVE", "INACTIVE"}]
Relations    == [truck : Truck, partner : Partner]
Records      == [truck : Truck, partner : Partner, status : {"ACTIVE", "CLOSED"},
                 from : Nat, to : Nat \cup {None}]

ASSUME NoneAssumption == None \notin Records /\ None \notin Affiliations /\ None \notin Status

TypeOK ==
  /\ eligible \subseteq Entity
  /\ membership \in [Entity -> Status \cup {None}]
  /\ affiliation \in [Fleet -> Affiliations \cup {None}]
  /\ record \in [Id -> Records \cup {None}]
  /\ slot \in [Holder -> Id \cup {None}]
  /\ marked \subseteq Tab
  /\ now \in Nat /\ changes \in Nat

Init ==
  /\ eligible = Entity
  /\ membership = [e \in Entity |-> IF e \in Enrolled \cup DOMAIN Hired THEN "ACTIVE" ELSE None]
  /\ affiliation = [e \in Fleet |-> IF e \in DOMAIN Hired
                                     THEN [carrier |-> Hired[e], status |-> "ACTIVE"] ELSE None]
  /\ record = [i \in Id |-> None]
  /\ slot = [h \in Holder |-> None]
  /\ marked = {} /\ now = 0 /\ changes = 0

-----------------------------------------------------------------------------
(* Reading the current relationships *)

\* An assignment occupies the slots of both sides, an allocation the load's.
Holders(rel) == IF rel.partner \in Driver
                THEN {<<"driver", rel.partner>>, <<"truck", rel.truck>>}
                ELSE {<<"load", rel.truck>>}

Open(i)    == record[i] # None /\ record[i].status = "ACTIVE"
OpenFor(h) == {i \in Id : Open(i) /\ h \in Holders(record[i])}

\* Fault: a relationship that begins later than the clock read is accepted.
AgreeingOnly(h, at) ==
  \/ slot[h] = None /\ OpenFor(h) = {}
  \/ /\ OpenFor(h) = {slot[h]}
     /\ \A g \in Holders(record[slot[h]]) : slot[g] = slot[h] /\ OpenFor(g) = {slot[h]}

\* readCurrentAssignment, readCurrentAllocation: slot and history agree, on
\* the other side too, and the relationship has begun at that time.
Readable(h, at) ==
  \/ slot[h] = None /\ OpenFor(h) = {}
  \/ /\ OpenFor(h) = {slot[h]}
     /\ record[slot[h]].from <= at
     /\ \A g \in Holders(record[slot[h]]) : slot[g] = slot[h] /\ OpenFor(g) = {slot[h]}

Member(e, mem)        == e \in eligible /\ mem[e] = "ACTIVE"
Affiliated(e, c, aff) == aff[e] = [carrier |-> c, status |-> "ACTIVE"]

\* assertAssignmentParticipation, assertAllocationParticipation, on the
\* memberships and affiliations the transaction leaves.
Participates(rel, mem, aff) ==
  /\ Member(rel.truck, mem) /\ Member(rel.partner, mem)
  /\ \E c \in Carrier : /\ Member(c, mem)
                        /\ Affiliated(rel.truck, c, aff)
                        /\ rel.partner \in Driver => Affiliated(rel.partner, c, aff)

Current(rel) ==
  \E i \in Id : Open(i) /\ record[i].truck = rel.truck /\ record[i].partner = rel.partner

Displaced(rels) == {slot[h] : h \in UNION {Holders(rel) : rel \in rels}} \ {None}

-----------------------------------------------------------------------------
(* Writing relationships *)

Opened(rel, at) == [truck |-> rel.truck, partner |-> rel.partner, status |-> "ACTIVE",
                    from |-> at, to |-> None]
Closed(r, at)   == [r EXCEPT !.status = "CLOSED", !.to = at]

NothingMade == [rel \in {} |-> None]

\* Every new relationship gets an id that was never used; which, is immaterial.
Unused == {i \in Id : record[i] = None}
Numbering(rels) == CHOOSE made \in Injection(rels, Unused) : TRUE

\* Fault: the closures are written last and delete the slots just taken.
WriteClosuresLast(closing, made, at) ==
  LET new == Inverse(made, DOMAIN made, Range(made)) IN
  /\ record' = [i \in Id |-> IF i \in Range(made) THEN Opened(new[i], at)
                             ELSE IF i \in closing THEN Closed(record[i], at) ELSE record[i]]
  /\ slot' = [h \in Holder |->
                IF \E i \in closing : h \in Holders(record[i]) THEN None
                ELSE IF \E rel \in DOMAIN made : h \in Holders(rel)
                     THEN made[CHOOSE rel \in DOMAIN made : h \in Holders(rel)] ELSE slot[h]]

\* writeTemporalClosures for all plans, then writeTemporalPlan for each: the
\* slots of what is closed are deleted before a new relationship takes them.
Write(closing, made, at) ==
  LET new == Inverse(made, DOMAIN made, Range(made)) IN
  /\ record' = [i \in Id |-> IF i \in Range(made) THEN Opened(new[i], at)
                             ELSE IF i \in closing THEN Closed(record[i], at) ELSE record[i]]
  /\ slot' = [h \in Holder |->
                IF \E rel \in DOMAIN made : h \in Holders(rel)
                THEN made[CHOOSE rel \in DOMAIN made : h \in Holders(rel)]
                ELSE IF \E i \in closing : h \in Holders(record[i]) THEN None ELSE slot[h]]

\* planAssignment (REASSIGN) and planAllocation (REALLOCATE) for every
\* relation of a transaction; what holds already is left alone.  ASSIGN and
\* ALLOCATE differ only in being refused where something is displaced.
Establish(rels, mem, aff, at) ==
  /\ \A rel \in rels : /\ Participates(rel, mem, aff)
                       /\ \A h \in Holders(rel) : Readable(h, at)
  /\ LET new == {rel \in rels : ~Current(rel)}
     IN /\ ExistsInjection(new, Unused)
        /\ Write(Displaced(new), Numbering(new), at)

Command == changes < MaxChanges /\ changes' = changes + 1

-----------------------------------------------------------------------------
(* Memberships (ProjectParticipationAuthority.membership) *)

\* Fault: a membership marks the tab of its own kind, not where it shows.
MembershipTabsOwn(e) == CASE e \in Carrier  -> {"CARRIERS"}
                          [] e \in Material -> {"MATERIALS"}
                          [] e \in Driver   -> {"DRIVERS"}
                          [] OTHER          -> {"FLEET_ROSTER"}

MembershipTabs(e) == CASE e \in Carrier  -> {"CARRIERS", "DRIVERS", "FLEET_ROSTER"}
                       [] e \in Material -> {"MATERIALS", "FLEET_ROSTER"}
                       [] OTHER          -> {"DRIVERS", "FLEET_ROSTER"}

Become(e, status) == membership' = [membership EXCEPT ![e] = status]

Enroll(e) ==
  /\ Command
  /\ e \in eligible /\ membership[e] = None
  /\ Become(e, "ACTIVE") /\ marked' = MembershipTabs(e)
  /\ UNCHANGED <<eligible, affiliation, record, slot, now>>

\* setupProjectCarrier, setupProjectMaterial
Setup(e) ==
  /\ Command
  /\ e \in eligible /\ membership[e] = None
  /\ Become(e, "ACTIVE")
  /\ marked' = IF e \in Carrier THEN {"CARRIERS"} ELSE {"MATERIALS"}
  /\ UNCHANGED <<eligible, affiliation, record, slot, now>>

Reactivate(e) ==
  /\ Command
  /\ e \in eligible /\ membership[e] \in {"SUSPENDED", "REMOVED"}
  /\ Become(e, "ACTIVE") /\ marked' = MembershipTabs(e)
  /\ UNCHANGED <<eligible, affiliation, record, slot, now>>

\* The slots of the relationships that end with a membership.
HeldBy(e) ==
  IF e \in Material
  THEN {<<"load", record[i].truck>> : i \in {j \in Id : Open(j) /\ record[j].partner = e}}
  ELSE {h \in Holder : h[2] = e}

\* A carrier leaves only when nobody is affiliated with it and nobody who
\* ever was affiliated with it last has an assignment or an allocation.
Dispensable(c) ==
  \A e \in Fleet : affiliation[e] # None /\ affiliation[e].carrier = c =>
    /\ affiliation[e].status # "ACTIVE"
    /\ \A i \in Id : Open(i) => e \notin {record[i].truck, record[i].partner}

Leave(e, command) ==
  \E at \in 0 .. now :
    /\ Command
    /\ membership[e] # None
    /\ command = "SUSPEND" => membership[e] # "REMOVED"
    /\ e \in Carrier => Dispensable(e)
    /\ e \in Material => Cardinality(HeldBy(e)) <= ConsequenceLimit
    /\ \A h \in HeldBy(e) : Readable(h, at)
    /\ Become(e, IF command = "SUSPEND" THEN "SUSPENDED" ELSE "REMOVED")
    /\ Write({slot[h] : h \in HeldBy(e)} \ {None}, NothingMade, at)
    /\ <<membership', record'>> # <<membership, record>>
    /\ marked' = MembershipTabs(e)
    /\ UNCHANGED <<eligible, affiliation, now>>

-----------------------------------------------------------------------------
(* Affiliations (ProjectParticipationAuthority.affiliation) *)

PairSlot(e) == IF e \in Driver THEN <<"driver", e>> ELSE <<"truck", e>>

\* Fault: the load of a truck does not protect its affiliation.
ProtectedPair(e, c, status) ==
  /\ slot[PairSlot(e)] \in OpenFor(PairSlot(e)) \cup {None}
  /\ \A i, j \in OpenFor(PairSlot(e)) : i = j
  /\ \A i \in OpenFor(PairSlot(e)) :
       /\ status = "ACTIVE"
       /\ Affiliated(IF e \in Driver THEN record[i].truck ELSE record[i].partner, c, affiliation)

\* protectAffiliationAssignment: the other side of an assignment must agree
\* with the new affiliation, and a truck with a load keeps one.
Protected(e, c, status) ==
  /\ slot[PairSlot(e)] \in OpenFor(PairSlot(e)) \cup {None}
  /\ \A i, j \in OpenFor(PairSlot(e)) : i = j
  /\ \A i \in OpenFor(PairSlot(e)) :
       /\ status = "ACTIVE"
       /\ Affiliated(IF e \in Driver THEN record[i].truck ELSE record[i].partner, c, affiliation)
  /\ e \in Truck /\ status # "ACTIVE" =>
       slot[<<"load", e>>] = None /\ OpenFor(<<"load", e>>) = {}

AffiliationCommand == {"SET_AFFILIATION", "REACTIVATE_AFFILIATION", "REASSIGN", "INACTIVATE"}

Affiliate(e, c, command) ==
  LET before == affiliation[e]
      status == IF command = "INACTIVATE" THEN "INACTIVE" ELSE "ACTIVE"
  IN /\ Command
     /\ command # "INACTIVATE" => Member(e, membership) /\ Member(c, membership)
     /\ CASE command = "SET_AFFILIATION"        -> before = None
          [] command = "REACTIVATE_AFFILIATION" -> before = [carrier |-> c, status |-> "INACTIVE"]
          [] command = "REASSIGN"               -> before # None /\ before.carrier # c
          [] command = "INACTIVATE"             -> before = [carrier |-> c, status |-> "ACTIVE"]
     /\ Protected(e, c, status)
     /\ affiliation' = [affiliation EXCEPT ![e] = [carrier |-> c, status |-> status]]
     /\ marked' = {}
     /\ UNCHANGED <<eligible, membership, record, slot, now>>

-----------------------------------------------------------------------------
(* Assignments and allocations (TemporalRelationshipAuthority.execute) *)

TemporalTabs(partner) == IF partner \in Driver THEN {"DRIVERS", "FLEET_ROSTER"} ELSE {"FLEET_ROSTER"}

Relate(rel) ==
  \E at \in 0 .. now :
    /\ Command
    /\ ~Current(rel)
    /\ Establish({rel}, membership, affiliation, at)
    /\ marked' = TemporalTabs(rel.partner)
    /\ UNCHANGED <<eligible, membership, affiliation, now>>

Close(i) ==
  \E at \in 0 .. now :
    /\ Command
    /\ Open(i)
    /\ \A h \in Holders(record[i]) : Readable(h, at)
    /\ Write({i}, NothingMade, at)
    /\ marked' = TemporalTabs(record[i].partner)
    /\ UNCHANGED <<eligible, membership, affiliation, now>>

-----------------------------------------------------------------------------
(* Intake: identities enter the project and join carriers in one step.     *)
(* `home` gives their carriers; a new identity is one without membership.  *)

\* planMembership (ENROLL), planAffiliation (SET_AFFILIATION), with the
\* protection of assignments where the affiliation is new.
MayEnter(home) ==
  \A e \in DOMAIN home :
    /\ e \in eligible /\ membership[e] \in {None, "ACTIVE"}
    /\ Member(home[e], membership)
    /\ \/ affiliation[e] = None /\ Protected(e, home[e], "ACTIVE")
       \/ Affiliated(e, home[e], affiliation)

WithMembers(home)    == [e \in Entity |-> IF e \in DOMAIN home THEN "ACTIVE" ELSE membership[e]]
WithAffiliates(home) == [e \in Fleet |-> IF e \in DOMAIN home
                                         THEN [carrier |-> home[e], status |-> "ACTIVE"]
                                         ELSE affiliation[e]]

Enter(home) ==
  /\ MayEnter(home)
  /\ membership' = WithMembers(home) /\ affiliation' = WithAffiliates(home)

Joins(e) == membership'[e] # membership[e] \/ affiliation'[e] # affiliation[e]

StandaloneDriver(d, c) ==
  /\ Command
  /\ Enter([e \in {d} |-> c]) /\ Joins(d)
  /\ marked' = IF membership[d] = None THEN {"DRIVERS"} ELSE {}
  /\ UNCHANGED <<eligible, record, slot, now>>

StandaloneTruck(t, c) ==
  /\ Command
  /\ Enter([e \in {t} |-> c]) /\ Joins(t)
  /\ marked' = {"FLEET_ROSTER"}
  /\ UNCHANGED <<eligible, record, slot, now>>

SharedIntake(d, t, c, m) ==
  \E at \in 0 .. now :
    /\ Command
    /\ Enter([e \in {d, t} |-> c])
    /\ Establish({[truck |-> t, partner |-> d], [truck |-> t, partner |-> m]},
                 membership', affiliation', at)
    /\ <<affiliation', record'>> # <<affiliation, record>>
    /\ marked' = {"FLEET_ROSTER"} \cup (IF membership[d] = None THEN {"DRIVERS"} ELSE {})
    /\ UNCHANGED <<eligible, now>>

\* A reviewed roster: rows name drivers and trucks, no driver and no truck
\* twice with different partners, and a material for every truck.
Rosters ==
  {rels \in SUBSET Relations :
     /\ \A r, s \in rels : r # s => Holders(r) \cap Holders(s) = {}
     /\ \A r \in rels : \E s \in rels : s.truck = r.truck /\ s.partner \in Material}

\* Prepared identities; who is affiliated already gains nothing by being one.
Homes == UNION {[who -> Carrier] : who \in SUBSET {e \in Fleet : affiliation[e] = None}}

\* The intent names who is displaced, and all it names must take part.
DisplacedTakePart(rels) ==
  \A i \in Displaced(rels) : \A e \in {record[i].truck, record[i].partner} :
    /\ Member(e, membership)
    /\ e \in Fleet => \E c \in Carrier : Affiliated(e, c, affiliation)

RosterCommit(rels, home) ==
  \E at \in 0 .. now :
    /\ Command
    /\ \A t \in Truck \cap DOMAIN home : \E rel \in rels : rel.truck = t
    /\ Enter(home)
    /\ DisplacedTakePart({rel \in rels : ~Current(rel)})
    /\ Establish(rels, membership', affiliation', at)
    /\ <<affiliation', record'>> # <<affiliation, record>>
    /\ marked' = {"FLEET_ROSTER"} \cup
                 (IF \/ \E d \in Driver : Joins(d)
                     \/ \E rel \in rels : rel.partner \in Driver /\ ~Current(rel)
                  THEN {"DRIVERS"} ELSE {})
    /\ UNCHANGED <<eligible, now>>

-----------------------------------------------------------------------------
(* Global status (GlobalIdentityGovernanceService.setStatus): it cascades   *)
(* to nothing in the project but the tabs that show it.                     *)
SetStatus(e) ==
  /\ Command
  /\ eligible' = IF e \in eligible THEN eligible \ {e} ELSE eligible \cup {e}
  /\ marked' = IF membership[e] = None THEN {} ELSE MembershipTabs(e)
  /\ UNCHANGED <<membership, affiliation, record, slot, now>>

Tick ==
  /\ now < MaxTime /\ now' = now + 1 /\ marked' = {}
  /\ UNCHANGED <<eligible, membership, affiliation, record, slot, changes>>

Next ==
  \/ \E e \in Entity : Enroll(e) \/ Reactivate(e)
  \/ \E e \in Carrier \cup Material : Setup(e)
  \/ \E e \in Entity, command \in {"SUSPEND", "REMOVE"} : Leave(e, command)
  \/ \E e \in Fleet, c \in Carrier, command \in AffiliationCommand : Affiliate(e, c, command)
  \/ \E rel \in Relations : Relate(rel)
  \/ \E i \in Id : Close(i)
  \/ \E d \in Driver, c \in Carrier : StandaloneDriver(d, c)
  \/ \E t \in Truck, c \in Carrier : StandaloneTruck(t, c)
  \/ \E d \in Driver, t \in Truck, c \in Carrier, m \in Material : SharedIntake(d, t, c, m)
  \/ changes < MaxChanges /\ \E home \in Homes, rels \in Rosters : RosterCommit(rels, home)
  \/ \E e \in Volatile : SetStatus(e)
  \/ Tick

Spec == Init /\ [][Next]_vars

-----------------------------------------------------------------------------
(* Properties *)

(* Every slot names an ACTIVE relationship of its owner, and every ACTIVE  *)
(* relationship holds the slots of all its sides: two sets of documents no *)
(* constraint ties together, written by seven commands                     *)
(* (writeTemporalClosures, writeTemporalPlan).                             *)
SlotsAgree ==
  /\ \A h \in Holder : slot[h] # None => slot[h] \in OpenFor(h)
  /\ \A i \in Id : Open(i) => \A h \in Holders(record[i]) : slot[h] = i

(* Nobody works for a carrier that left the project; a driver and a truck  *)
(* who work together are members with the same carrier; a truck that       *)
(* carries a material is an affiliated member and the material a member    *)
(* (planMembershipConsequences, protectAffiliationAssignment, the checks   *)
(* of participation).                                                      *)
ParticipantsOnly ==
  /\ \A e \in Fleet : affiliation[e] # None /\ affiliation[e].status = "ACTIVE" =>
       membership[affiliation[e].carrier] = "ACTIVE"
  /\ \A i \in Id : Open(i) =>
       /\ membership[record[i].truck] = "ACTIVE" /\ membership[record[i].partner] = "ACTIVE"
       /\ \E c \in Carrier : /\ Affiliated(record[i].truck, c, affiliation)
                             /\ record[i].partner \in Driver =>
                                  Affiliated(record[i].partner, c, affiliation)

(* History is kept: a closed relationship never changes, and one that is   *)
(* open is only ever closed, at a time not before it began, although the   *)
(* clock of the closing transaction may be older than its reads            *)
(* (isCurrentTemporal, decodeTemporal, writeTemporalClosures).             *)
HistoryKept ==
  [][\A i \in Id : record[i] # None /\ record'[i] # record[i] =>
       /\ Open(i) /\ record'[i] = Closed(record[i], record'[i].to)
       /\ record'[i].to >= record[i].from]_vars

\* What the roster shows of a truck (buildCanonicalProjection, fleetRows).
PartnerAt(h) == IF slot[h] = None THEN None ELSE record[slot[h]].partner
FleetRow(t) ==
  IF membership[t] = None THEN None
  ELSE [global |-> t \in eligible, membership |-> membership[t],
        carrier |-> IF affiliation[t] # None /\ affiliation[t].status = "ACTIVE"
                    THEN affiliation[t].carrier ELSE None,
        driver |-> PartnerAt(<<"truck", t>>), material |-> PartnerAt(<<"load", t>>)]

(* A step that changes what the roster shows of a truck marks the roster   *)
(* for delivery, whichever command takes it; only the affiliation commands *)
(* mark nothing (markDirtyInTransaction and its callers).                  *)
RosterMarked ==
  [][\A t \in Truck : FleetRow(t)' # FleetRow(t) =>
       \/ "FLEET_ROSTER" \in marked'
       \/ \E c \in Carrier, command \in AffiliationCommand : Affiliate(t, c, command)]_vars
=============================================================================
