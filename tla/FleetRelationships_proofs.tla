---------------------- MODULE FleetRelationships_proofs ----------------------
(***************************************************************************)
(* Proofs about FleetRelationships for any number of drivers, trucks,      *)
(* carriers, materials, documents, commands and clock readings.  The       *)
(* inductive invariant is TypeOK, SlotsAgree and ParticipantsOnly          *)
(* together: who takes part needs the slots, since a membership ends what  *)
(* its slots name, and the slots need the types.                           *)
(***************************************************************************)
EXTENDS FleetRelationships, TLAPS

IInv == TypeOK /\ SlotsAgree /\ ParticipantsOnly

-----------------------------------------------------------------------------
(* Writing relationships *)

\* What the commands hand to Write: what is closed is open and began by then,
\* what is opened takes new ids, different slots, and none that stays in use.
Writable(closing, made, at) ==
  /\ at \in Nat
  /\ closing \subseteq Id
  /\ \A i \in closing : Open(i) /\ record[i].from <= at
  /\ DOMAIN made \subseteq Relations
  /\ \A rel \in DOMAIN made : made[rel] \in Unused
  /\ \A r, s \in DOMAIN made : r # s => made[r] # made[s] /\ Holders(r) \cap Holders(s) = {}
  /\ \A rel \in DOMAIN made : \A h \in Holders(rel) : slot[h] # None => slot[h] \in closing

\* What a transaction does to the relationships, whatever command it serves.
Written(closing, made, at) ==
  /\ record' \in [Id -> Records \cup {None}]
  /\ slot' \in [Holder -> Id \cup {None}]
  /\ \A rel \in DOMAIN made : made[rel] \in Id /\ record'[made[rel]] = Opened(rel, at)
  /\ \A i \in closing : record'[i] = Closed(record[i], at)
  /\ \A i \in Id : (\A rel \in DOMAIN made : i # made[rel]) /\ i \notin closing
                     => record'[i] = record[i]

(* Both holders of a relationship are slots that exist.                    *)
LEMMA HoldersExist ==
  ASSUME NEW rel, rel.truck \in Truck, rel.partner \in Partner
  PROVE  Holders(rel) \subseteq Holder
BY DEF Holders, Holder, Partner

(* The id made for a relation leads back to it.                            *)
LEMMA BackToRelation ==
  ASSUME NEW made, NEW rel \in DOMAIN made,
         \A r, s \in DOMAIN made : r # s => made[r] # made[s]
  PROVE  /\ made[rel] \in Range(made)
         /\ Inverse(made, DOMAIN made, Range(made))[made[rel]] = rel
<1>1. made[rel] \in Range(made)
  BY DEF Range
<1>2. Inverse(made, DOMAIN made, Range(made))[made[rel]]
        = CHOOSE s \in DOMAIN made : made[rel] \in Range(made) => made[s] = made[rel]
  BY <1>1 DEF Inverse
<1> QED BY <1>1, <1>2

(* What is opened is a relationship like any other.                        *)
LEMMA OpenedIsRecord ==
  ASSUME NEW rel \in Relations, NEW at \in Nat
  PROVE  Opened(rel, at) \in Records
BY DEF Opened, Records, Relations

(* Write does what Written says: the new ids are the relations' own.       *)
LEMMA WriteWrites ==
  ASSUME TypeOK, NEW closing, NEW made, NEW at,
         Writable(closing, made, at), Write(closing, made, at)
  PROVE  Written(closing, made, at)
<1> DEFINE new == Inverse(made, DOMAIN made, Range(made))
<1>1. \A rel \in DOMAIN made : made[rel] \in Range(made) /\ new[made[rel]] = rel
  BY BackToRelation DEF Writable
<1>2. \A i \in Range(made) : \E rel \in DOMAIN made : i = made[rel]
  BY DEF Range
<1>3. record' = [i \in Id |-> IF i \in Range(made) THEN Opened(new[i], at)
                             ELSE IF i \in closing THEN Closed(record[i], at) ELSE record[i]]
  BY DEF Write
<1>4. slot' = [h \in Holder |->
                IF \E rel \in DOMAIN made : h \in Holders(rel)
                THEN made[CHOOSE rel \in DOMAIN made : h \in Holders(rel)]
                ELSE IF \E i \in closing : h \in Holders(record[i]) THEN None ELSE slot[h]]
  BY DEF Write
<1> HIDE DEF new
<1>5. \A i \in closing : i \notin Range(made)
  BY <1>2 DEF Writable, Unused, Open
<1>6. \A rel \in DOMAIN made : Opened(rel, at) \in Records
  BY DEF Writable, Opened, Records, Relations
<1>7. \A i \in closing : Closed(record[i], at) \in Records
  BY DEF Writable, Closed, Records, Open, TypeOK
<1>8. \A i \in Id : record'[i] \in Records \cup {None}
  BY <1>1, <1>2, <1>3, <1>6, <1>7 DEF TypeOK
<1>9. record' \in [Id -> Records \cup {None}]
  BY <1>3, <1>8
<1>10. slot' \in [Holder -> Id \cup {None}]
  BY <1>4 DEF TypeOK, Writable, Unused
<1>11. \A rel \in DOMAIN made : made[rel] \in Id
  BY DEF Writable, Unused
<1>12. \A rel \in DOMAIN made : record'[made[rel]] = Opened(rel, at)
  BY <1>1, <1>3, <1>11
<1>13. \A i \in closing : record'[i] = Closed(record[i], at)
  BY <1>3, <1>5 DEF Writable
<1>14. \A i \in Id : (\A rel \in DOMAIN made : i # made[rel]) /\ i \notin closing
                       => record'[i] = record[i]
  BY <1>2, <1>3
<1> QED BY <1>9, <1>10, <1>11, <1>12, <1>13, <1>14 DEF Written

(* What is open after a transaction was opened by it or stays as it was.   *)
LEMMA OpenAfter ==
  ASSUME TypeOK, NEW closing, NEW made, NEW at,
         Writable(closing, made, at), Written(closing, made, at), NEW i \in Id, Open(i)'
  PROVE  \/ \E rel \in DOMAIN made : i = made[rel] /\ record'[i] = Opened(rel, at)
         \/ /\ Open(i) /\ i \notin closing /\ record'[i] = record[i]
            /\ \A rel \in DOMAIN made : i # made[rel]
<1>1. CASE \E rel \in DOMAIN made : i = made[rel]
  BY <1>1 DEF Written
<1>2. CASE (\A rel \in DOMAIN made : i # made[rel]) /\ i \in closing
  <2>1. record'[i] = Closed(record[i], at) /\ record[i] \in Records
    BY <1>2 DEF Written, Writable, Open, TypeOK
  <2>2. record'[i].status = "CLOSED"
    BY <2>1 DEF Closed, Records
  <2> QED BY <2>2 DEF Open
<1>3. CASE (\A rel \in DOMAIN made : i # made[rel]) /\ i \notin closing
  BY <1>3 DEF Written, Open
<1> QED BY <1>1, <1>2, <1>3

(* The slots agree with the relationships after every transaction.         *)
LEMMA SlotsAfter ==
  ASSUME TypeOK, SlotsAgree, NEW closing, NEW made, NEW at,
         Writable(closing, made, at), Write(closing, made, at)
  PROVE  SlotsAgree'
<1> DEFINE Taker(h) == CHOOSE rel \in DOMAIN made : h \in Holders(rel)
           Taken(h) == \E rel \in DOMAIN made : h \in Holders(rel)
           Freed(h) == \E i \in closing : h \in Holders(record[i])
<1>1. Written(closing, made, at)
  BY WriteWrites
<1>2. \A h \in Holder : slot'[h] = IF Taken(h) THEN made[Taker(h)]
                                   ELSE IF Freed(h) THEN None ELSE slot[h]
  BY DEF Write
<1>3. \A h : Taken(h) => Taker(h) \in DOMAIN made /\ h \in Holders(Taker(h))
  OBVIOUS
<1>4. \A h : \A rel \in DOMAIN made : h \in Holders(rel) => Taker(h) = rel
  BY <1>3 DEF Writable
<1> HIDE DEF Taker
<1>5. \A rel \in DOMAIN made : Holders(Opened(rel, at)) = Holders(rel)
  BY DEF Holders, Opened
<1>6. \A i \in Id : Open(i) => Holders(record[i]) \subseteq Holder
  BY HoldersExist DEF TypeOK, Open, Records
<1>7. ASSUME NEW h \in Holder, slot'[h] # None
      PROVE  slot'[h] \in OpenFor(h)'
  <2>1. CASE Taken(h)
    <3>1. slot'[h] = made[Taker(h)] /\ Taker(h) \in DOMAIN made /\ h \in Holders(Taker(h))
      BY <1>2, <1>3, <2>1
    <3>2. record'[slot'[h]] = Opened(Taker(h), at) /\ slot'[h] \in Id
      BY <1>1, <3>1 DEF Written
    <3>3. record'[slot'[h]].status = "ACTIVE" /\ h \in Holders(record'[slot'[h]])
      BY <1>5, <3>1, <3>2 DEF Opened
    <3>4. record'[slot'[h]] # None
      BY <1>1, <3>1, <3>2, NoneAssumption, OpenedIsRecord DEF Writable
    <3> QED BY <3>2, <3>3, <3>4 DEF OpenFor, Open, Holders
  <2>2. CASE ~Taken(h)
    <3>1. ~Freed(h) /\ slot'[h] = slot[h]
      BY <1>2, <1>7, <2>2
    <3>2. slot[h] \in Id /\ Open(slot[h]) /\ h \in Holders(record[slot[h]])
      BY <1>7, <3>1 DEF SlotsAgree, OpenFor
    <3>3. slot[h] \notin closing /\ \A rel \in DOMAIN made : slot[h] # made[rel]
      BY <3>1, <3>2 DEF Writable, Unused, Open
    <3>4. record'[slot[h]] = record[slot[h]]
      BY <1>1, <3>2, <3>3 DEF Written
    <3> QED BY <3>1, <3>2, <3>4 DEF OpenFor, Open, Holders
  <2> QED BY <2>1, <2>2
<1>8. ASSUME NEW i \in Id, Open(i)', NEW h \in Holders(record'[i])
      PROVE  slot'[h] = i
  <2>1. CASE \E rel \in DOMAIN made : i = made[rel] /\ record'[i] = Opened(rel, at)
    <3>1. PICK rel \in DOMAIN made : i = made[rel] /\ record'[i] = Opened(rel, at)
      BY <2>1
    <3>2. h \in Holders(rel) /\ h \in Holder
      BY <1>5, <1>8, <3>1, HoldersExist DEF Writable, Relations
    <3> QED BY <1>2, <1>4, <3>1, <3>2
  <2>2. CASE /\ Open(i) /\ i \notin closing /\ record'[i] = record[i]
             /\ \A rel \in DOMAIN made : i # made[rel]
    <3>1. h \in Holder /\ h \in Holders(record[i]) /\ slot[h] = i
      BY <1>6, <1>8, <2>2 DEF SlotsAgree
    <3>2. ~Taken(h)
      BY <2>2, <3>1, EntityAssumption DEF Writable
    <3>3. ~Freed(h)
      BY <2>2, <3>1 DEF Writable, SlotsAgree
    <3> QED BY <1>2, <3>1, <3>2, <3>3
  <2> QED BY <1>1, <1>8, <2>1, <2>2, OpenAfter
<1>9. \A h \in Holder : slot'[h] # None => slot'[h] \in OpenFor(h)'
  BY <1>7
<1>10. \A i \in Id : Open(i)' => \A h \in Holders(record'[i]) : slot'[h] = i
  BY <1>8
<1> QED BY <1>9, <1>10 DEF SlotsAgree, Holders

(* An open relationship is only closed, at a time not before it began.     *)
LEMMA HistoryAfter ==
  ASSUME TypeOK, NEW closing, NEW made, NEW at,
         Writable(closing, made, at), Written(closing, made, at),
         NEW i \in Id, record[i] # None, record'[i] # record[i]
  PROVE  /\ Open(i) /\ record'[i] = Closed(record[i], record'[i].to)
         /\ record'[i].to >= record[i].from
<1>1. \A rel \in DOMAIN made : i # made[rel]
  BY DEF Writable, Unused
<1>2. i \in closing
  BY <1>1 DEF Written
<1>3. record'[i] = Closed(record[i], at) /\ Open(i) /\ record[i].from <= at
  BY <1>2 DEF Written, Writable
<1>4. record[i] \in Records /\ at \in Nat
  BY DEF TypeOK, Writable
<1>5. Closed(record[i], at).to = at
  BY <1>4 DEF Closed, Records
<1> QED BY <1>3, <1>4, <1>5 DEF Records

(* Numbering gives every new relationship an id of its own.                *)
LEMMA NumberingNumbers ==
  ASSUME NEW new, ExistsInjection(new, Unused)
  PROVE  /\ Numbering(new) \in [new -> Unused]
         /\ \A r, s \in new : r # s => Numbering(new)[r] # Numbering(new)[s]
<1>1. Numbering(new) \in Injection(new, Unused)
  BY DEF Numbering, ExistsInjection
<1> QED BY <1>1 DEF Injection, IsInjective

(* Relations with different slots can be established together.             *)
LEMMA EstablishWrites ==
  ASSUME TypeOK, NEW rels \in SUBSET Relations, NEW mem, NEW aff, NEW at \in Nat,
         \A r, s \in rels : r # s => Holders(r) \cap Holders(s) = {},
         Establish(rels, mem, aff, at)
  PROVE  \E closing, made : /\ Writable(closing, made, at) /\ Write(closing, made, at)
                            /\ DOMAIN made \subseteq rels
                            /\ \A rel \in DOMAIN made : Participates(rel, mem, aff)
<1> DEFINE new     == {rel \in rels : ~Current(rel)}
           made    == Numbering(new)
           closing == Displaced(new)
<1>1. /\ Write(closing, made, at)
      /\ ExistsInjection(new, Unused)
      /\ \A rel \in rels : Participates(rel, mem, aff) /\ \A h \in Holders(rel) : Readable(h, at)
  BY DEF Establish
<1>2. /\ made \in [new -> Unused]
      /\ \A r, s \in new : r # s => made[r] # made[s]
  BY <1>1, NumberingNumbers
<1>3. \A h : h \in UNION {Holders(rel) : rel \in new} /\ slot[h] # None
               => slot[h] \in Id /\ Open(slot[h]) /\ record[slot[h]].from <= at
  BY <1>1 DEF Readable, OpenFor
<1>4. closing \subseteq Id /\ \A i \in closing : Open(i) /\ record[i].from <= at
  BY <1>3 DEF Displaced
<1>5. \A rel \in new : \A h \in Holders(rel) : slot[h] # None => slot[h] \in closing
  BY DEF Displaced
<1> HIDE DEF made, closing
<1>6. DOMAIN made = new /\ new \subseteq rels
  BY <1>2
<1> HIDE DEF new
<1>7. Writable(closing, made, at)
  BY <1>2, <1>4, <1>5, <1>6 DEF Writable
<1> QED BY <1>1, <1>6, <1>7

-----------------------------------------------------------------------------
(* Who takes part *)

\* The two parts of ParticipantsOnly: the affiliations, and one relationship.
Staffed == \A e \in Fleet : affiliation[e] # None /\ affiliation[e].status = "ACTIVE" =>
             membership[affiliation[e].carrier] = "ACTIVE"

TakesPart(r) ==
  /\ membership[r.truck] = "ACTIVE" /\ membership[r.partner] = "ACTIVE"
  /\ \E c \in Carrier : /\ Affiliated(r.truck, c, affiliation)
                        /\ r.partner \in Driver => Affiliated(r.partner, c, affiliation)

\* TakesPart after the step, of a relationship as it is before it.
WillTakePart(r) ==
  /\ membership'[r.truck] = "ACTIVE" /\ membership'[r.partner] = "ACTIVE"
  /\ \E c \in Carrier : /\ Affiliated(r.truck, c, affiliation')
                        /\ r.partner \in Driver => Affiliated(r.partner, c, affiliation')

\* A step that only closes and opens relationships keeps their history.
HistoryStep == \A i \in Id : record[i] # None /\ record'[i] # record[i] =>
                 /\ Open(i) /\ record'[i] = Closed(record[i], record'[i].to)
                 /\ record'[i].to >= record[i].from

PeopleTyped == /\ membership \in [Entity -> Status \cup {None}]
               /\ affiliation \in [Fleet -> Affiliations \cup {None}]

LEMMA ParticipantsParts == ParticipantsOnly <=> Staffed /\ \A i \in Id : Open(i) => TakesPart(record[i])
BY DEF ParticipantsOnly, Staffed, TakesPart

(* What remains open and what is opened takes part: so does all, then.     *)
LEMMA ParticipantsAfter ==
  ASSUME TypeOK, NEW closing, NEW made, NEW at,
         Writable(closing, made, at), Written(closing, made, at),
         Staffed',
         \A i \in Id : Open(i) /\ i \notin closing => WillTakePart(record[i]),
         \A rel \in DOMAIN made : WillTakePart(rel)
  PROVE  ParticipantsOnly'
<1>1. ASSUME NEW i \in Id, Open(i)' PROVE WillTakePart(record'[i])
  <2>1. CASE \E rel \in DOMAIN made : i = made[rel] /\ record'[i] = Opened(rel, at)
    <3>1. PICK rel \in DOMAIN made : record'[i] = Opened(rel, at)
      BY <2>1
    <3>2. Opened(rel, at).truck = rel.truck /\ Opened(rel, at).partner = rel.partner
      BY DEF Opened
    <3> QED BY <3>1, <3>2 DEF WillTakePart
  <2>2. CASE Open(i) /\ i \notin closing /\ record'[i] = record[i]
    BY <2>2
  <2> QED BY <1>1, <2>1, <2>2, OpenAfter
<1> QED BY <1>1 DEF ParticipantsOnly, Staffed, WillTakePart, Affiliated

(* A transaction that writes relationships, with the people it leaves.     *)
LEMMA TransactionKeeps ==
  ASSUME IInv, NEW closing, NEW made, NEW at,
         Writable(closing, made, at), Write(closing, made, at),
         PeopleTyped', Staffed',
         \A i \in Id : Open(i) /\ i \notin closing => WillTakePart(record[i]),
         \A rel \in DOMAIN made : WillTakePart(rel),
         eligible' \subseteq Entity, marked' \subseteq Tab, now' \in Nat, changes' \in Nat
  PROVE  IInv' /\ HistoryStep
<1> USE DEF IInv
<1>1. Written(closing, made, at)
  BY WriteWrites
<1>2. TypeOK'
  BY <1>1 DEF TypeOK, PeopleTyped, Written
<1>3. SlotsAgree'
  BY SlotsAfter
<1>4. ParticipantsOnly'
  BY <1>1, ParticipantsAfter
<1>5. HistoryStep
  BY <1>1, HistoryAfter DEF HistoryStep
<1> QED BY <1>2, <1>3, <1>4, <1>5

(* A transaction that leaves the relationships alone.                      *)
LEMMA QuietKeeps ==
  ASSUME IInv, UNCHANGED <<record, slot>>, PeopleTyped', Staffed',
         \A i \in Id : Open(i) => WillTakePart(record[i]),
         eligible' \subseteq Entity, marked' \subseteq Tab, now' \in Nat, changes' \in Nat
  PROVE  IInv' /\ HistoryStep
<1>1. TypeOK'
  BY DEF IInv, TypeOK, PeopleTyped
<1>2. SlotsAgree'
  BY DEF IInv, SlotsAgree, OpenFor, Open, Holders
<1>3. ParticipantsOnly'
  BY DEF ParticipantsOnly, Staffed, WillTakePart, Affiliated, Open
<1>4. HistoryStep
  BY DEF HistoryStep
<1> QED BY <1>1, <1>2, <1>3, <1>4 DEF IInv

(* With the same people, who took part does so still.                      *)
LEMMA SamePeople ==
  ASSUME IInv, UNCHANGED <<membership, affiliation>>
  PROVE  PeopleTyped' /\ Staffed' /\ \A i \in Id : Open(i) => WillTakePart(record[i])
<1>1. PeopleTyped'
  BY DEF IInv, TypeOK, PeopleTyped
<1>2. Staffed /\ \A i \in Id : Open(i) => TakesPart(record[i])
  BY ParticipantsParts DEF IInv
<1> QED BY <1>1, <1>2 DEF Staffed, TakesPart, WillTakePart, Affiliated

(* What takes part has the truck, the partner and the carrier it names.    *)
LEMMA OpenRecords ==
  ASSUME TypeOK, NEW i \in Id, Open(i)
  PROVE  /\ record[i] \in Records
         /\ record[i].truck \in Truck /\ record[i].partner \in Partner
BY DEF TypeOK, Open, Records

-----------------------------------------------------------------------------
(* Memberships *)

(* Another active member disturbs nobody.                                  *)
LEMMA BecomeActive ==
  ASSUME IInv, NEW e \in Entity, Become(e, "ACTIVE"), affiliation' = affiliation
  PROVE  PeopleTyped' /\ Staffed' /\ \A i \in Id : Open(i) => WillTakePart(record[i])
<1>1. PeopleTyped'
  BY DEF IInv, TypeOK, PeopleTyped, Become, Status
<1>2. \A x : membership[x] = "ACTIVE" => membership'[x] = "ACTIVE"
  BY DEF IInv, TypeOK, Become
<1>3. Staffed /\ \A i \in Id : Open(i) => TakesPart(record[i])
  BY ParticipantsParts DEF IInv
<1> QED BY <1>1, <1>2, <1>3 DEF Staffed, TakesPart, WillTakePart, Affiliated

LEMMA MembershipTabsTyped == ASSUME NEW e PROVE MembershipTabs(e) \subseteq Tab
BY DEF MembershipTabs, Tab

LEMMA ArrivalsKeep ==
  ASSUME IInv, NEW e \in Entity,
         Enroll(e) \/ Reactivate(e) \/ (e \in Carrier \cup Material /\ Setup(e))
  PROVE  IInv' /\ HistoryStep
<1>1. Become(e, "ACTIVE") /\ UNCHANGED <<eligible, affiliation, record, slot, now>>
  BY DEF Enroll, Reactivate, Setup
<1>2. marked' \subseteq Tab
  BY MembershipTabsTyped DEF Enroll, Reactivate, Setup, Tab
<1>3. changes' \in Nat
  BY DEF Enroll, Reactivate, Setup, Command, IInv, TypeOK
<1>4. eligible' \subseteq Entity /\ now' \in Nat
  BY <1>1 DEF IInv, TypeOK
<1>5. PeopleTyped' /\ Staffed' /\ \A i \in Id : Open(i) => WillTakePart(record[i])
  BY <1>1, BecomeActive
<1>6. UNCHANGED <<record, slot>>
  BY <1>1
<1> QED BY <1>2, <1>3, <1>4, <1>5, <1>6, QuietKeeps

(* A relationship of a driver, truck or material that leaves holds one of  *)
(* the slots that end with the membership.                                 *)
LEMMA HeldByHoldsAll ==
  ASSUME TypeOK, NEW e \in Fleet \cup Material, NEW i \in Id, Open(i),
         e \in {record[i].truck, record[i].partner}
  PROVE  \E h \in HeldBy(e) : h \in Holders(record[i])
<1>1. record[i].truck \in Truck /\ record[i].partner \in Driver \cup Material
  BY OpenRecords DEF Partner
<1>2. CASE e \in Material
  <2>1. record[i].partner = e /\ record[i].partner \notin Driver
    BY <1>1, <1>2, EntityAssumption
  <2>2. Holders(record[i]) = {<<"load", record[i].truck>>}
    BY <2>1 DEF Holders
  <2>3. <<"load", record[i].truck>> \in HeldBy(e)
    BY <1>2, <2>1 DEF HeldBy
  <2> QED BY <2>2, <2>3
<1>3. CASE e \in Fleet
  <2>1. e \notin Material
    BY <1>3, EntityAssumption DEF Fleet
  <2>2. HeldBy(e) = {h \in Holder : h[2] = e}
    BY <2>1 DEF HeldBy
  <2>3. Holders(record[i]) \subseteq Holder
    BY <1>1, HoldersExist DEF Partner
  <2>4. \E h \in Holders(record[i]) : h[2] = e
    <3>1. CASE record[i].partner \in Driver
      <4>1. /\ <<"driver", record[i].partner>> \in Holders(record[i])
            /\ <<"truck", record[i].truck>> \in Holders(record[i])
        BY <3>1 DEF Holders
      <4> QED BY <4>1
    <3>2. CASE record[i].partner \notin Driver
      <4>1. <<"load", record[i].truck>> \in Holders(record[i])
        BY <3>2 DEF Holders
      <4>2. e = record[i].truck
        BY <1>1, <1>3, <3>2, EntityAssumption DEF Fleet
      <4> QED BY <4>1, <4>2
    <3> QED BY <3>1, <3>2
  <2> QED BY <2>2, <2>3, <2>4
<1> QED BY <1>2, <1>3

(* What a command reads as current is open and had begun.                  *)
LEMMA ReadableNamesOpen ==
  ASSUME NEW h, NEW at, Readable(h, at), slot[h] # None
  PROVE  slot[h] \in Id /\ Open(slot[h]) /\ record[slot[h]].from <= at
BY DEF Readable, OpenFor

LEMMA NothingWritable ==
  ASSUME NEW closing \in SUBSET Id, NEW at \in Nat,
         \A i \in closing : Open(i) /\ record[i].from <= at
  PROVE  Writable(closing, NothingMade, at) /\ DOMAIN NothingMade = {}
<1>1. DOMAIN NothingMade = {}
  BY DEF NothingMade
<1> QED BY <1>1 DEF Writable

LEMMA LeaveKeeps ==
  ASSUME IInv, NEW e \in Entity, NEW command, Leave(e, command)
  PROVE  IInv' /\ HistoryStep
<1> DEFINE closing == {slot[h] : h \in HeldBy(e)} \ {None}
<1>1. PICK at \in 0 .. now :
        /\ Command
        /\ e \in Carrier => Dispensable(e)
        /\ \A h \in HeldBy(e) : Readable(h, at)
        /\ Become(e, IF command = "SUSPEND" THEN "SUSPENDED" ELSE "REMOVED")
        /\ Write(closing, NothingMade, at)
        /\ marked' = MembershipTabs(e)
        /\ UNCHANGED <<eligible, affiliation, now>>
  BY DEF Leave
<1>2. at \in Nat
  BY DEF IInv, TypeOK
<1>3. closing \in SUBSET Id /\ \A i \in closing : Open(i) /\ record[i].from <= at
  BY <1>1, ReadableNamesOpen
<1>4. \A i \in Id : Open(i) /\ e \in Fleet \cup Material
                      /\ e \in {record[i].truck, record[i].partner} => i \in closing
  <2> SUFFICES ASSUME NEW i \in Id, Open(i), e \in Fleet \cup Material,
                      e \in {record[i].truck, record[i].partner}
               PROVE  i \in closing
    OBVIOUS
  <2>1. PICK h \in HeldBy(e) : h \in Holders(record[i])
    BY HeldByHoldsAll DEF IInv
  <2>2. slot[h] = i
    BY <2>1 DEF IInv, SlotsAgree
  <2>3. i # None
    BY EntityAssumption
  <2> QED BY <2>1, <2>2, <2>3
<1> HIDE DEF closing
<1>5. Writable(closing, NothingMade, at) /\ DOMAIN NothingMade = {}
  BY <1>2, <1>3, NothingWritable
<1>6. PeopleTyped'
  BY <1>1 DEF IInv, TypeOK, PeopleTyped, Become, Status
<1>7. \A x \in Entity \ {e} : membership'[x] = membership[x]
  BY <1>1 DEF IInv, TypeOK, Become
<1>8. Staffed /\ \A i \in Id : Open(i) => TakesPart(record[i])
  BY ParticipantsParts DEF IInv
<1>9. Staffed'
  <2> SUFFICES ASSUME NEW x \in Fleet, affiliation[x] # None, affiliation[x].status = "ACTIVE"
               PROVE  membership'[affiliation[x].carrier] = "ACTIVE"
    BY <1>1 DEF Staffed
  <2>1. affiliation[x].carrier \in Carrier
    BY DEF IInv, TypeOK, Affiliations
  <2>2. affiliation[x].carrier # e
    BY <1>1, <2>1 DEF Dispensable
  <2> QED BY <1>7, <1>8, <2>1, <2>2 DEF Staffed, Entity
<1>10. ASSUME NEW i \in Id, Open(i), i \notin closing PROVE WillTakePart(record[i])
  <2>1. record[i].truck \in Truck /\ record[i].partner \in Driver \cup Material
    BY <1>10, OpenRecords DEF IInv, Partner
  <2>2. record[i].truck # e /\ record[i].partner # e
    BY <1>4, <1>10, <2>1 DEF Fleet
  <2>3. /\ membership'[record[i].truck] = membership[record[i].truck]
        /\ membership'[record[i].partner] = membership[record[i].partner]
    BY <1>7, <2>1, <2>2 DEF Entity, Fleet
  <2> QED BY <1>1, <1>8, <1>10, <2>3 DEF TakesPart, WillTakePart, Affiliated
<1>11. /\ eligible' \subseteq Entity /\ marked' \subseteq Tab
       /\ now' \in Nat /\ changes' \in Nat
  BY <1>1, MembershipTabsTyped DEF IInv, TypeOK, Command
<1> QED BY <1>1, <1>5, <1>6, <1>9, <1>10, <1>11, TransactionKeeps

-----------------------------------------------------------------------------
(* Affiliations *)

(* Who has an open relationship finds it under one of its slots.           *)
LEMMA OpenForItsSides ==
  ASSUME TypeOK, NEW i \in Id, Open(i)
  PROVE  /\ record[i].partner \in Driver => /\ i \in OpenFor(PairSlot(record[i].partner))
                                            /\ i \in OpenFor(PairSlot(record[i].truck))
         /\ record[i].partner \notin Driver => i \in OpenFor(<<"load", record[i].truck>>)
<1>1. record[i].truck \notin Driver
  BY OpenRecords, EntityAssumption
<1> QED BY <1>1 DEF OpenFor, Holders, PairSlot

LEMMA AffiliateKeeps ==
  ASSUME IInv, NEW e \in Fleet, NEW c \in Carrier, NEW command \in AffiliationCommand,
         Affiliate(e, c, command)
  PROVE  IInv' /\ HistoryStep
<1> DEFINE status == IF command = "INACTIVATE" THEN "INACTIVE" ELSE "ACTIVE"
<1>1. /\ Command
      /\ command # "INACTIVATE" => Member(c, membership)
      /\ Protected(e, c, status)
      /\ affiliation' = [affiliation EXCEPT ![e] = [carrier |-> c, status |-> status]]
      /\ marked' = {}
      /\ UNCHANGED <<eligible, membership, record, slot, now>>
  BY DEF Affiliate
<1>2. status \in {"ACTIVE", "INACTIVE"} /\ (status = "ACTIVE" => Member(c, membership))
  BY <1>1
<1> HIDE DEF status
<1> DEFINE next == [carrier |-> c, status |-> status]
<1>3. next \in Affiliations /\ next.carrier = c /\ next.status = status
  BY <1>2 DEF Affiliations
<1>4. affiliation'[e] = next /\ \A x \in Fleet \ {e} : affiliation'[x] = affiliation[x]
  BY <1>1 DEF IInv, TypeOK
<1>5. PeopleTyped'
  BY <1>1, <1>3 DEF IInv, TypeOK, PeopleTyped
<1> HIDE DEF next
<1>6. Staffed /\ \A i \in Id : Open(i) => TakesPart(record[i])
  BY ParticipantsParts DEF IInv
<1>7. Staffed'
  BY <1>1, <1>2, <1>3, <1>4, <1>6 DEF Staffed, Member
<1>8. ASSUME NEW i \in Id, Open(i) PROVE WillTakePart(record[i])
  <2> DEFINE truck   == record[i].truck
             partner == record[i].partner
  <2>1. truck \in Truck /\ partner \in Driver \cup Material /\ truck \in Fleet
    BY <1>8, OpenRecords DEF IInv, Partner, Fleet
  <2>2. truck \notin Driver /\ (partner \in Driver => partner \notin Truck /\ partner \in Fleet)
    BY <2>1, EntityAssumption DEF Fleet
  <2>3. membership'[truck] = "ACTIVE" /\ membership'[partner] = "ACTIVE"
    BY <1>1, <1>6, <1>8 DEF TakesPart
  <2>4. PICK b \in Carrier : /\ Affiliated(truck, b, affiliation)
                             /\ partner \in Driver => Affiliated(partner, b, affiliation)
    BY <1>6, <1>8 DEF TakesPart
  <2>5. CASE e # truck /\ (partner \in Driver => e # partner)
    BY <1>4, <2>1, <2>2, <2>3, <2>4, <2>5 DEF WillTakePart, Affiliated
  <2>6. CASE e = truck /\ partner \in Driver
    <3>1. i \in OpenFor(PairSlot(e)) /\ e \notin Driver
      BY <1>8, <2>2, <2>6, OpenForItsSides DEF IInv
    <3>2. status = "ACTIVE" /\ Affiliated(partner, c, affiliation)
      BY <1>1, <3>1 DEF Protected
    <3>3. Affiliated(truck, c, affiliation') /\ Affiliated(partner, c, affiliation')
      BY <1>4, <2>2, <2>6, <3>2 DEF Affiliated, next
    <3> QED BY <2>3, <3>3 DEF WillTakePart
  <2>7. CASE e = partner /\ partner \in Driver
    <3>1. i \in OpenFor(PairSlot(e)) /\ e \in Driver
      BY <1>8, <2>7, OpenForItsSides DEF IInv
    <3>2. status = "ACTIVE" /\ Affiliated(truck, c, affiliation)
      BY <1>1, <3>1 DEF Protected
    <3>3. Affiliated(truck, c, affiliation') /\ Affiliated(partner, c, affiliation')
      BY <1>4, <2>1, <2>2, <2>7, <3>2 DEF Affiliated, next
    <3> QED BY <2>3, <3>3 DEF WillTakePart
  <2>8. CASE e = truck /\ partner \notin Driver
    <3>1. i \in OpenFor(<<"load", e>>) /\ e \in Truck
      BY <1>8, <2>1, <2>8, OpenForItsSides DEF IInv
    <3>2. status = "ACTIVE"
      BY <1>1, <3>1 DEF Protected
    <3>3. Affiliated(truck, c, affiliation')
      BY <1>4, <2>8, <3>2 DEF Affiliated, next
    <3> QED BY <2>3, <2>8, <3>3 DEF WillTakePart
  <2> QED BY <2>5, <2>6, <2>7, <2>8
<1>9. /\ UNCHANGED <<record, slot>> /\ eligible' \subseteq Entity /\ marked' \subseteq Tab
      /\ now' \in Nat /\ changes' \in Nat
  BY <1>1 DEF IInv, TypeOK, Command
<1> QED BY <1>5, <1>7, <1>8, <1>9, QuietKeeps

-----------------------------------------------------------------------------
(* Assignments and allocations *)

(* Who is checked against the people of the next state takes part in it.   *)
LEMMA ParticipatesThen ==
  ASSUME NEW rel, Participates(rel, membership', affiliation')
  PROVE  WillTakePart(rel)
BY DEF Participates, Member, WillTakePart

LEMMA RelateKeeps ==
  ASSUME IInv, NEW rel \in Relations, Relate(rel)
  PROVE  IInv' /\ HistoryStep
<1>1. PICK at \in 0 .. now :
        /\ Command
        /\ Establish({rel}, membership, affiliation, at)
        /\ marked' = TemporalTabs(rel.partner)
        /\ UNCHANGED <<eligible, membership, affiliation, now>>
  BY DEF Relate
<1>2. at \in Nat
  BY DEF IInv, TypeOK
<1>3. \E closing, made : /\ Writable(closing, made, at) /\ Write(closing, made, at)
                         /\ \A r \in DOMAIN made : Participates(r, membership, affiliation)
  BY <1>1, <1>2, EstablishWrites DEF IInv
<1>4. PICK closing, made : /\ Writable(closing, made, at) /\ Write(closing, made, at)
                           /\ \A r \in DOMAIN made : Participates(r, membership, affiliation)
  BY <1>3
<1>5. \A r \in DOMAIN made : WillTakePart(r)
  BY <1>1, <1>4 DEF Participates, Member, WillTakePart
<1>6. PeopleTyped' /\ Staffed' /\ \A i \in Id : Open(i) => WillTakePart(record[i])
  BY <1>1, SamePeople
<1>7. /\ eligible' \subseteq Entity /\ marked' \subseteq Tab
      /\ now' \in Nat /\ changes' \in Nat
  BY <1>1 DEF IInv, TypeOK, Command, TemporalTabs, Tab
<1> QED BY <1>4, <1>5, <1>6, <1>7, TransactionKeeps

LEMMA CloseKeeps ==
  ASSUME IInv, NEW i \in Id, Close(i)
  PROVE  IInv' /\ HistoryStep
<1>1. PICK at \in 0 .. now :
        /\ Command
        /\ Open(i)
        /\ \A h \in Holders(record[i]) : Readable(h, at)
        /\ Write({i}, NothingMade, at)
        /\ marked' = TemporalTabs(record[i].partner)
        /\ UNCHANGED <<eligible, membership, affiliation, now>>
  BY DEF Close
<1>2. at \in Nat
  BY DEF IInv, TypeOK
<1>3. PICK h \in Holders(record[i]) : TRUE
  BY DEF Holders
<1>4. slot[h] = i /\ slot[h] # None
  BY <1>1, <1>3, EntityAssumption DEF IInv, SlotsAgree
<1>5. record[i].from <= at
  BY <1>1, <1>3, <1>4, ReadableNamesOpen
<1>6. Writable({i}, NothingMade, at) /\ DOMAIN NothingMade = {}
  <2>1. {i} \in SUBSET Id /\ \A j \in {i} : Open(j) /\ record[j].from <= at
    BY <1>1, <1>5
  <2> QED BY <1>2, <2>1, NothingWritable
<1>7. PeopleTyped' /\ Staffed' /\ \A j \in Id : Open(j) => WillTakePart(record[j])
  BY <1>1, SamePeople
<1>8. /\ eligible' \subseteq Entity /\ marked' \subseteq Tab
      /\ now' \in Nat /\ changes' \in Nat
  BY <1>1 DEF IInv, TypeOK, Command, TemporalTabs, Tab
<1> QED BY <1>1, <1>6, <1>7, <1>8, TransactionKeeps

-----------------------------------------------------------------------------
(* Intake *)

\* The carriers of identities that enter together.
Home(home) == DOMAIN home \subseteq Fleet /\ \A e \in DOMAIN home : home[e] \in Carrier

(* Whoever enters was without a carrier, hence without relationships; so   *)
(* nobody else is disturbed.                                               *)
LEMMA EntryDisturbsNobody ==
  ASSUME IInv, NEW home, Home(home), Enter(home)
  PROVE  PeopleTyped' /\ Staffed' /\ \A i \in Id : Open(i) => WillTakePart(record[i])
<1>1. /\ MayEnter(home)
      /\ membership' = WithMembers(home) /\ affiliation' = WithAffiliates(home)
  BY DEF Enter
<1>2. \A e \in Entity : membership'[e] = IF e \in DOMAIN home THEN "ACTIVE" ELSE membership[e]
  BY <1>1 DEF WithMembers
<1>3. \A e \in Fleet : affiliation'[e] = IF e \in DOMAIN home
                                         THEN [carrier |-> home[e], status |-> "ACTIVE"]
                                         ELSE affiliation[e]
  BY <1>1 DEF WithAffiliates
<1>4. \A e \in Entity : membership[e] = "ACTIVE" => membership'[e] = "ACTIVE"
  BY <1>2
<1>5. \A e \in Fleet, c \in Carrier :
        Affiliated(e, c, affiliation) => Affiliated(e, c, affiliation')
  <2> SUFFICES ASSUME NEW e \in Fleet, NEW c \in Carrier, Affiliated(e, c, affiliation)
               PROVE  Affiliated(e, c, affiliation')
    OBVIOUS
  <2>1. CASE e \in DOMAIN home
    <3>1. affiliation[e] # None
      BY NoneAssumption DEF Affiliated, Affiliations
    <3>2. Affiliated(e, home[e], affiliation)
      BY <1>1, <2>1, <3>1 DEF MayEnter
    <3> QED BY <1>3, <2>1, <3>2 DEF Affiliated
  <2>2. CASE e \notin DOMAIN home
    BY <1>3, <2>2 DEF Affiliated
  <2> QED BY <2>1, <2>2
<1>6. PeopleTyped'
  <2>1. \A e \in Entity : membership'[e] \in Status \cup {None}
    BY <1>2 DEF IInv, TypeOK, Status
  <2>2. \A e \in Fleet : affiliation'[e] \in Affiliations \cup {None}
    <3>1. \A e \in DOMAIN home : [carrier |-> home[e], status |-> "ACTIVE"] \in Affiliations
      BY DEF Affiliations, Home
    <3> QED BY <1>3, <3>1 DEF IInv, TypeOK
  <2>3. /\ membership' = [e \in Entity |-> IF e \in DOMAIN home THEN "ACTIVE" ELSE membership[e]]
        /\ affiliation' = [e \in Fleet |-> IF e \in DOMAIN home
                                           THEN [carrier |-> home[e], status |-> "ACTIVE"]
                                           ELSE affiliation[e]]
    BY <1>1 DEF WithMembers, WithAffiliates
  <2> QED BY <2>1, <2>2, <2>3 DEF PeopleTyped
<1>7. Staffed /\ \A i \in Id : Open(i) => TakesPart(record[i])
  BY ParticipantsParts DEF IInv
<1>8. Staffed'
  <2> SUFFICES ASSUME NEW e \in Fleet, affiliation'[e] # None, affiliation'[e].status = "ACTIVE"
               PROVE  membership'[affiliation'[e].carrier] = "ACTIVE"
    BY DEF Staffed
  <2>1. CASE e \in DOMAIN home
    <3>1. affiliation'[e].carrier = home[e] /\ home[e] \in Carrier
      <4>1. affiliation'[e] = [carrier |-> home[e], status |-> "ACTIVE"]
        BY <1>3, <2>1
      <4>2. home[e] \in Carrier
        BY <2>1 DEF Home
      <4> QED BY <4>1, <4>2
    <3>2. membership[home[e]] = "ACTIVE" /\ home[e] \in Entity
      BY <1>1, <2>1, <3>1 DEF MayEnter, Member, Entity
    <3> QED BY <1>4, <3>1, <3>2
  <2>2. CASE e \notin DOMAIN home
    <3>1. affiliation[e] # None /\ affiliation[e].status = "ACTIVE"
          /\ affiliation'[e].carrier = affiliation[e].carrier
      BY <1>3, <2>2
    <3>2. membership[affiliation[e].carrier] = "ACTIVE" /\ affiliation[e].carrier \in Carrier
      BY <1>7, <3>1 DEF Staffed, IInv, TypeOK, Affiliations
    <3> QED BY <1>4, <3>1, <3>2 DEF Entity
  <2> QED BY <2>1, <2>2
<1>9. ASSUME NEW i \in Id, Open(i) PROVE WillTakePart(record[i])
  <2>1. record[i].truck \in Truck /\ record[i].partner \in Driver \cup Material
    BY <1>9, OpenRecords DEF IInv, Partner
  <2>2. TakesPart(record[i])
    BY <1>7, <1>9
  <2> QED BY <1>4, <1>5, <2>1, <2>2 DEF TakesPart, WillTakePart, Entity, Fleet
<1> QED BY <1>6, <1>8, <1>9

LEMMA StandaloneKeeps ==
  ASSUME IInv, NEW e \in Fleet, NEW c \in Carrier,
         (e \in Driver /\ StandaloneDriver(e, c)) \/ (e \in Truck /\ StandaloneTruck(e, c))
  PROVE  IInv' /\ HistoryStep
<1> DEFINE home == [x \in {e} |-> c]
<1>1. Home(home)
  BY DEF Home
<1>2. Enter(home) /\ Command /\ UNCHANGED <<eligible, record, slot, now>>
  BY DEF StandaloneDriver, StandaloneTruck
<1> HIDE DEF home
<1>3. PeopleTyped' /\ Staffed' /\ \A i \in Id : Open(i) => WillTakePart(record[i])
  BY <1>1, <1>2, EntryDisturbsNobody
<1>4. marked' \subseteq Tab
  BY DEF StandaloneDriver, StandaloneTruck, Tab
<1>5. UNCHANGED <<record, slot>> /\ eligible' \subseteq Entity /\ now' \in Nat /\ changes' \in Nat
  BY <1>2 DEF IInv, TypeOK, Command
<1> QED BY <1>3, <1>4, <1>5, QuietKeeps

(* A transaction in which identities enter and relations are established.  *)
LEMMA IntakeKeeps ==
  ASSUME IInv, NEW home, Home(home), Enter(home), NEW rels \in SUBSET Relations, NEW at \in Nat,
         \A r, s \in rels : r # s => Holders(r) \cap Holders(s) = {},
         Establish(rels, membership', affiliation', at),
         Command, UNCHANGED <<eligible, now>>, marked' \subseteq Tab
  PROVE  IInv' /\ HistoryStep
<1>1. PICK closing, made : /\ Writable(closing, made, at) /\ Write(closing, made, at)
                           /\ \A r \in DOMAIN made : Participates(r, membership', affiliation')
  BY EstablishWrites DEF IInv
<1>2. \A r \in DOMAIN made : WillTakePart(r)
  BY <1>1, ParticipatesThen
<1>3. PeopleTyped' /\ Staffed' /\ \A i \in Id : Open(i) => WillTakePart(record[i])
  BY EntryDisturbsNobody
<1>4. eligible' \subseteq Entity /\ now' \in Nat /\ changes' \in Nat
  BY DEF IInv, TypeOK, Command
<1> QED BY <1>1, <1>2, <1>3, <1>4, TransactionKeeps

LEMMA SharedIntakeKeeps ==
  ASSUME IInv, NEW d \in Driver, NEW t \in Truck, NEW c \in Carrier, NEW m \in Material,
         SharedIntake(d, t, c, m)
  PROVE  IInv' /\ HistoryStep
<1> DEFINE home == [e \in {d, t} |-> c]
           pair == [truck |-> t, partner |-> d]
           load == [truck |-> t, partner |-> m]
<1>1. PICK at \in 0 .. now :
        /\ Command
        /\ Enter(home)
        /\ Establish({pair, load}, membership', affiliation', at)
        /\ marked' = {"FLEET_ROSTER"} \cup (IF membership[d] = None THEN {"DRIVERS"} ELSE {})
        /\ UNCHANGED <<eligible, now>>
  BY DEF SharedIntake
<1>2. Home(home)
  BY DEF Home, Fleet
<1>3. at \in Nat
  BY DEF IInv, TypeOK
<1>4. {pair, load} \in SUBSET Relations
  BY DEF Relations, Partner
<1>5. m \notin Driver /\ d \in Driver
  BY EntityAssumption
<1>6. Holders(pair) = {<<"driver", d>>, <<"truck", t>>} /\ Holders(load) = {<<"load", t>>}
  BY <1>5 DEF Holders
<1>7. Holders(pair) \cap Holders(load) = {}
  BY <1>6
<1>8. \A r, s \in {pair, load} : r # s => Holders(r) \cap Holders(s) = {}
  BY <1>7
<1>9. marked' \subseteq Tab
  BY <1>1 DEF Tab
<1> HIDE DEF home, pair, load
<1> QED BY <1>1, <1>2, <1>3, <1>4, <1>8, <1>9, IntakeKeeps

LEMMA RosterCommitKeeps ==
  ASSUME IInv, NEW home \in Homes, NEW rels \in Rosters, RosterCommit(rels, home)
  PROVE  IInv' /\ HistoryStep
<1>1. PICK at \in 0 .. now :
        /\ Command
        /\ Enter(home)
        /\ Establish(rels, membership', affiliation', at)
        /\ marked' \subseteq Tab
        /\ UNCHANGED <<eligible, now>>
  BY DEF RosterCommit, Tab
<1>2. Home(home)
  BY DEF Homes, Home
<1>3. at \in Nat
  BY DEF IInv, TypeOK
<1>4. rels \in SUBSET Relations /\ \A r, s \in rels : r # s => Holders(r) \cap Holders(s) = {}
  BY DEF Rosters
<1> QED BY <1>1, <1>2, <1>3, <1>4, IntakeKeeps

-----------------------------------------------------------------------------
(* The inductive invariant *)

LEMMA SetStatusKeeps ==
  ASSUME IInv, NEW e \in Volatile, SetStatus(e)
  PROVE  IInv' /\ HistoryStep
<1>1. PeopleTyped' /\ Staffed' /\ \A i \in Id : Open(i) => WillTakePart(record[i])
  BY SamePeople DEF SetStatus
<1>2. eligible' \subseteq Entity
  BY EntityAssumption DEF SetStatus, IInv, TypeOK
<1>3. marked' \subseteq Tab
  BY MembershipTabsTyped DEF SetStatus
<1>4. UNCHANGED <<record, slot>> /\ now' \in Nat /\ changes' \in Nat
  BY DEF SetStatus, IInv, TypeOK, Command
<1> QED BY <1>1, <1>2, <1>3, <1>4, QuietKeeps

LEMMA TickKeeps == ASSUME IInv, Tick PROVE IInv' /\ HistoryStep
<1>1. PeopleTyped' /\ Staffed' /\ \A i \in Id : Open(i) => WillTakePart(record[i])
  BY SamePeople DEF Tick
<1>2. /\ UNCHANGED <<record, slot>> /\ eligible' \subseteq Entity /\ marked' \subseteq Tab
      /\ now' \in Nat /\ changes' \in Nat
  BY DEF Tick, IInv, TypeOK
<1> QED BY <1>1, <1>2, QuietKeeps

LEMMA InitHolds == Init => IInv
<1> SUFFICES ASSUME Init PROVE IInv
  OBVIOUS
<1>1. \A e \in DOMAIN Hired : e \in Fleet /\ Hired[e] \in Carrier \cap Enrolled
  BY EntityAssumption
<1>2. TypeOK
  <2>1. membership \in [Entity -> Status \cup {None}]
    BY DEF Init, Status
  <2>2. affiliation \in [Fleet -> Affiliations \cup {None}]
    <3>1. \A e \in DOMAIN Hired : [carrier |-> Hired[e], status |-> "ACTIVE"] \in Affiliations
      BY <1>1 DEF Affiliations
    <3> QED BY <3>1 DEF Init
  <2> QED BY <2>1, <2>2 DEF Init, TypeOK
<1>3. \A i \in Id : ~Open(i)
  BY DEF Init, Open
<1>4. SlotsAgree
  BY <1>3 DEF SlotsAgree, Init
<1>5. Staffed
  <2> SUFFICES ASSUME NEW e \in Fleet, affiliation[e] # None
               PROVE  membership[affiliation[e].carrier] = "ACTIVE"
    BY DEF Staffed
  <2>1. e \in DOMAIN Hired /\ affiliation[e] = [carrier |-> Hired[e], status |-> "ACTIVE"]
    BY DEF Init
  <2>2. Hired[e] \in Entity /\ Hired[e] \in Enrolled
    BY <1>1, <2>1 DEF Entity
  <2>3. affiliation[e].carrier = Hired[e]
    BY <2>1
  <2> QED BY <2>2, <2>3 DEF Init
<1> QED BY <1>2, <1>3, <1>4, <1>5, ParticipantsParts DEF IInv

(* Every step keeps the invariant and the history.                         *)
LEMMA StepKeeps == ASSUME IInv, [Next]_vars PROVE IInv' /\ HistoryStep
<1>1. CASE \E e \in Entity : Enroll(e) \/ Reactivate(e)
  BY <1>1, ArrivalsKeep
<1>2. CASE \E e \in Carrier \cup Material : Setup(e)
  BY <1>2, ArrivalsKeep DEF Entity
<1>3. CASE \E e \in Entity, command \in {"SUSPEND", "REMOVE"} : Leave(e, command)
  BY <1>3, LeaveKeeps
<1>4. CASE \E e \in Fleet, c \in Carrier, command \in AffiliationCommand : Affiliate(e, c, command)
  BY <1>4, AffiliateKeeps
<1>5. CASE \E rel \in Relations : Relate(rel)
  BY <1>5, RelateKeeps
<1>6. CASE \E i \in Id : Close(i)
  BY <1>6, CloseKeeps
<1>7. CASE \E d \in Driver, c \in Carrier : StandaloneDriver(d, c)
  BY <1>7, StandaloneKeeps DEF Fleet
<1>8. CASE \E t \in Truck, c \in Carrier : StandaloneTruck(t, c)
  BY <1>8, StandaloneKeeps DEF Fleet
<1>9. CASE \E d \in Driver, t \in Truck, c \in Carrier, m \in Material : SharedIntake(d, t, c, m)
  BY <1>9, SharedIntakeKeeps
<1>10. CASE \E home \in Homes, rels \in Rosters : RosterCommit(rels, home)
  BY <1>10, RosterCommitKeeps
<1>11. CASE \E e \in Volatile : SetStatus(e)
  BY <1>11, SetStatusKeeps
<1>12. CASE Tick
  BY <1>12, TickKeeps
<1>13. CASE UNCHANGED vars
  <2>1. PeopleTyped' /\ Staffed' /\ \A i \in Id : Open(i) => WillTakePart(record[i])
    BY <1>13, SamePeople DEF vars
  <2>2. /\ UNCHANGED <<record, slot>> /\ eligible' \subseteq Entity /\ marked' \subseteq Tab
        /\ now' \in Nat /\ changes' \in Nat
    BY <1>13 DEF vars, IInv, TypeOK
  <2> QED BY <2>1, <2>2, QuietKeeps
<1> QED BY <1>1, <1>2, <1>3, <1>4, <1>5, <1>6, <1>7, <1>8, <1>9, <1>10, <1>11, <1>12, <1>13
     DEF Next

LEMMA Invariant == Spec => []IInv
<1>1. Init => IInv
  BY InitHolds
<1>2. IInv /\ [Next]_vars => IInv'
  BY StepKeeps
<1> QED BY <1>1, <1>2, PTL DEF Spec

-----------------------------------------------------------------------------
(* Every reachable state is well typed.                                    *)
THEOREM TypeCorrect == Spec => []TypeOK
<1>1. IInv => TypeOK
  BY DEF IInv
<1> QED BY <1>1, Invariant, PTL

(* Slots and relationships agree after any number of commands, however     *)
(* many plans one transaction writes (writeTemporalClosures first, then    *)
(* writeTemporalPlan).                                                     *)
THEOREM SlotsAlwaysAgree == Spec => []SlotsAgree
<1>1. IInv => SlotsAgree
  BY DEF IInv
<1> QED BY <1>1, Invariant, PTL

(* Nobody works for a carrier that left, and who works together shares a   *)
(* carrier, for any number of identities and commands.                     *)
THEOREM OnlyParticipants == Spec => []ParticipantsOnly
<1>1. IInv => ParticipantsOnly
  BY DEF IInv
<1> QED BY <1>1, Invariant, PTL

(* Relationships are only ever closed, at a time not before they began.    *)
THEOREM HistoryAlwaysKept == Spec => HistoryKept
<1>1. IInv /\ [Next]_vars => [HistoryStep]_vars
  BY StepKeeps
<1>2. [][HistoryStep]_vars => HistoryKept
  BY PTL DEF HistoryStep, HistoryKept
<1> QED BY <1>1, <1>2, Invariant, PTL DEF Spec

-----------------------------------------------------------------------------
(* What the roster shows *)

(* What a row shows is what the documents of its truck say.                *)
LEMMA RowUnchanged ==
  ASSUME NEW t \in Truck, membership'[t] = membership[t], affiliation'[t] = affiliation[t],
         UNCHANGED <<record, slot>>,
         membership[t] # None => (t \in eligible' <=> t \in eligible)
  PROVE  FleetRow(t)' = FleetRow(t)
<1>1. CASE membership[t] = None
  BY <1>1 DEF FleetRow
<1>2. CASE membership[t] # None
  <2>1. (t \in eligible') = (t \in eligible)
    BY <1>2
  <2>2. \A h : PartnerAt(h)' = PartnerAt(h)
    BY DEF PartnerAt
  <2> QED BY <1>2, <2>1, <2>2 DEF FleetRow
<1> QED BY <1>1, <1>2

\* What RosterMarked says of one step.
RosterStep == \A t \in Truck : FleetRow(t)' # FleetRow(t) =>
                \/ "FLEET_ROSTER" \in marked'
                \/ \E c \in Carrier, command \in AffiliationCommand : Affiliate(t, c, command)

LEMMA TabsShowFleet == ASSUME NEW e PROVE "FLEET_ROSTER" \in MembershipTabs(e)
BY DEF MembershipTabs

(* The commands that mark no roster change none of its rows.               *)
LEMMA UnmarkedKeepsRows ==
  ASSUME IInv, [Next]_vars, "FLEET_ROSTER" \notin marked',
         NEW t \in Truck,
         \A c \in Carrier, command \in AffiliationCommand : ~Affiliate(t, c, command)
  PROVE  FleetRow(t)' = FleetRow(t)
<1>1. ASSUME NEW e \in Entity, Enroll(e) \/ Reactivate(e) PROVE FALSE
  BY <1>1, TabsShowFleet DEF Enroll, Reactivate
<1>2. ASSUME NEW e \in Entity, NEW command, Leave(e, command) PROVE FALSE
  BY <1>2, TabsShowFleet DEF Leave
<1>3. ASSUME NEW rel \in Relations, Relate(rel) PROVE FALSE
  BY <1>3 DEF Relate, TemporalTabs
<1>4. ASSUME NEW i \in Id, Close(i) PROVE FALSE
  BY <1>4 DEF Close, TemporalTabs
<1>5. ASSUME NEW u \in Truck, NEW c \in Carrier, StandaloneTruck(u, c) PROVE FALSE
  BY <1>5 DEF StandaloneTruck
<1>6. ASSUME NEW d \in Driver, NEW u \in Truck, NEW c \in Carrier, NEW m \in Material,
             SharedIntake(d, u, c, m)
      PROVE  FALSE
  BY <1>6 DEF SharedIntake
<1>7. ASSUME NEW home \in Homes, NEW rels \in Rosters, RosterCommit(rels, home) PROVE FALSE
  BY <1>7 DEF RosterCommit
<1>8. ASSUME NEW e \in Carrier \cup Material, Setup(e) PROVE FleetRow(t)' = FleetRow(t)
  <2>1. e # t /\ t \in Entity
    BY <1>8, EntityAssumption DEF Entity, Fleet
  <2>2. membership'[t] = membership[t]
    BY <1>8, <2>1 DEF Setup, Become, IInv, TypeOK
  <2> QED BY <1>8, <2>2, RowUnchanged DEF Setup
<1>9. ASSUME NEW d \in Driver, NEW c \in Carrier, StandaloneDriver(d, c)
      PROVE  FleetRow(t)' = FleetRow(t)
  <2>1. t \notin {d} /\ t \in Entity /\ t \in Fleet
    BY EntityAssumption DEF Entity, Fleet
  <2>2. membership'[t] = membership[t] /\ affiliation'[t] = affiliation[t]
    BY <1>9, <2>1 DEF StandaloneDriver, Enter, WithMembers, WithAffiliates
  <2> QED BY <1>9, <2>2, RowUnchanged DEF StandaloneDriver
<1>10. ASSUME NEW e \in Fleet, NEW c \in Carrier, NEW command \in AffiliationCommand,
              Affiliate(e, c, command)
       PROVE  FleetRow(t)' = FleetRow(t)
  <2>1. e # t /\ t \in Fleet
    BY <1>10 DEF Fleet
  <2>2. affiliation'[t] = affiliation[t]
    BY <1>10, <2>1 DEF Affiliate, IInv, TypeOK
  <2> QED BY <1>10, <2>2, RowUnchanged DEF Affiliate
<1>11. ASSUME NEW e \in Volatile, SetStatus(e) PROVE FleetRow(t)' = FleetRow(t)
  <2>1. membership[e] = None
    BY <1>11, TabsShowFleet DEF SetStatus
  <2>2. membership[t] # None => (t \in eligible' <=> t \in eligible)
    BY <1>11, <2>1 DEF SetStatus
  <2> QED BY <1>11, <2>2, RowUnchanged DEF SetStatus
<1>12. ASSUME Tick PROVE FleetRow(t)' = FleetRow(t)
  BY <1>12, RowUnchanged DEF Tick
<1>13. ASSUME UNCHANGED vars PROVE FleetRow(t)' = FleetRow(t)
  BY <1>13, RowUnchanged DEF vars
<1> QED BY <1>1, <1>2, <1>3, <1>4, <1>5, <1>6, <1>7, <1>8, <1>9, <1>10, <1>11, <1>12, <1>13
     DEF Next, Entity

(* Whatever command changes what the roster shows of a truck, other than   *)
(* one of its affiliation, marks the roster for delivery.                  *)
THEOREM RosterAlwaysMarked == Spec => RosterMarked
<1>1. IInv /\ [Next]_vars => [RosterStep]_vars
  BY UnmarkedKeepsRows DEF RosterStep
<1>2. [][RosterStep]_vars => RosterMarked
  BY PTL DEF RosterStep, RosterMarked
<1> QED BY <1>1, <1>2, Invariant, PTL DEF Spec
=============================================================================
