------------------------ MODULE SyncCoordinator_proofs ------------------------
(***************************************************************************)
(* Theorems about the passes over one administrator's grants, for every     *)
(* set of grants and passes, every page size and number of deliveries.      *)
(*                                                                          *)
(* The argument is a distance: how many grants the cursor still has to pass *)
(* before it reaches the watched one. A pass that goes wrong nowhere brings *)
(* the cursor nearer, so the passes that skip the watched grant and the     *)
(* distance left are together bounded by the number of grants, once for     *)
(* each thing that went wrong.                                              *)
(***************************************************************************)
EXTENDS SyncCoordinator, FiniteSetTheorems, TLAPS

N == Cardinality(Grant)

\* The grants between a cursor and the watched grant, in the order of a round.
Ahead(c) == {g \in Grant : IF c < Watched THEN c < g /\ g < Watched ELSE g > c \/ g < Watched}

Distance(c) == Cardinality(Ahead(c))

\* What the waiting may cost after f things went wrong.
Allowed(f) == N * (f + 1)

Running == {"query", "loop", "renew", "attempt", "finish"}
Looking == {"loop", "renew", "attempt"}

\* A wait is counted only while the watched grant has work.
CountedIsDue == skipped > 0 => Due(Watched)

\* The waiting so far and the way ahead of the stored cursor.
Near == skipped + Distance(cursor) <= Allowed(faults)

\* Pages list what lies behind the cursor, in order.
PageBehind == \A p \in Pass : \A g \in pass[p].todo : pass[p].cursor < g

\* A pass renews its lease for a delivery it may still make.
AttemptLeft == \A p \in Pass : pass[p].step = "renew" => pass[p].attempted < Attempts

\* A pass that lost its lease without being overtaken has a fault to its credit.
LostIsPaid(p) == pass[p].step \in Running /\ ~lease.live => skipped + N <= Allowed(faults)

\* What the owner has read: the watched grant, if it has work, is still ahead of him.
SeesWatched(p) ==
  pass[p].step \in Looking /\ ~pass[p].tried /\ skipped > 0 =>
    /\ Watched \in pass[p].todo => Watched \in pass[p].active
    /\ pass[p].cursor < Watched => /\ pass[p].more \/ Watched \in pass[p].todo
                                   /\ Watched \in pass[p].todo \/ \A g \in pass[p].todo : g < Watched

\* The owner comes nearer with the first grant he examines.
ComesNearer(p) ==
  /\ pass[p].step = "query" => pass[p].cursor = cursor /\ ~pass[p].tried /\ pass[p].attempted = 0
  /\ pass[p].step = "loop" /\ ~pass[p].tried =>
       \/ /\ pass[p].attempted = 0 /\ (skipped > 0 => pass[p].todo # {})
          /\ skipped + Distance(pass[p].cursor) <= Allowed(faults)
       \/ skipped + 1 + Distance(pass[p].cursor) <= Allowed(faults)
  /\ pass[p].step = "renew" /\ ~pass[p].tried =>
       pass[p].cursor = Watched \/ skipped + 1 + Distance(pass[p].cursor) <= Allowed(faults)
  /\ pass[p].step \in {"attempt", "finish"} /\ ~pass[p].tried =>
       skipped + 1 + Distance(pass[p].cursor) <= Allowed(faults)

OwnerOK == \A p \in Pass : lease.owner = p => LostIsPaid(p) /\ SeesWatched(p) /\ ComesNearer(p)

Inductive == TypeOK /\ CountedIsDue /\ Near /\ PageBehind /\ AttemptLeft /\ OwnerOK

-----------------------------------------------------------------------------
\* Grants in order

(* There are grants, and a number of them.                                 *)
LEMMA GrantsAreFinite == Grant \subseteq Nat /\ IsFiniteSet(Grant) /\ N \in Nat /\ 1 <= N
<1>1. Grant \subseteq Nat /\ IsFiniteSet(Grant) /\ Watched \in Grant
  BY CoordinatorAssumption
<1>2. N \in Nat
  BY <1>1, FS_CardinalityType DEF N
<1>3. N # 0
  BY <1>1, FS_EmptySet DEF N
<1> QED BY <1>1, <1>2, <1>3

(* What the waiting may cost grows by a round with each thing that goes    *)
(* wrong.                                                                  *)
LEMMA AllowedGrows ==
  ASSUME NEW f \in Nat
  PROVE  Allowed(f) \in Nat /\ N <= Allowed(f) /\ Allowed(f + 1) = Allowed(f) + N
<1>1. N \in Nat
  BY GrantsAreFinite
<1>2. N * (f + 1) \in Nat /\ N * (f + 1 + 1) = N * (f + 1) + N
  BY <1>1
<1>3. N * (f + 1) = N * f + N /\ N * f \in Nat
  BY <1>1
<1> QED BY <1>1, <1>2, <1>3 DEF Allowed

(* The distance is shorter than a round.                                   *)
LEMMA DistanceInRound ==
  ASSUME NEW c \in Nat
  PROVE  Distance(c) \in Nat /\ Distance(c) + 1 <= N
<1>1. Grant \subseteq Nat /\ IsFiniteSet(Grant) /\ Watched \in Grant
  BY CoordinatorAssumption
<1>2. Ahead(c) \in SUBSET Grant /\ Watched \notin Ahead(c)
  BY <1>1 DEF Ahead
<1>3. IsFiniteSet(Ahead(c)) /\ Distance(c) <= N /\ (Distance(c) = N => Ahead(c) = Grant)
  BY <1>1, <1>2, FS_Subset DEF Distance, N
<1>4. Distance(c) \in Nat /\ N \in Nat
  BY <1>3, GrantsAreFinite, FS_CardinalityType DEF Distance
<1> QED BY <1>1, <1>2, <1>3, <1>4

(* A cursor that moves on without passing the watched grant comes nearer.  *)
LEMMA MovingOn ==
  ASSUME NEW c \in Nat, NEW g \in Grant, c < g, g # Watched, c < Watched => g < Watched
  PROVE  Distance(g) + 1 <= Distance(c)
<1>1. Grant \subseteq Nat /\ IsFiniteSet(Grant) /\ Watched \in Grant
  BY CoordinatorAssumption
<1>2. Ahead(g) \subseteq Ahead(c) /\ g \in Ahead(c) /\ g \notin Ahead(g)
  <2>1. g \in Nat /\ Watched \in Nat
    BY <1>1
  <2>2. ASSUME NEW h \in Ahead(g) PROVE h \in Ahead(c)
    <3>1. h \in Grant /\ h \in Nat /\ IF g < Watched THEN g < h /\ h < Watched ELSE h > g \/ h < Watched
      BY <1>1 DEF Ahead
    <3>2. IF c < Watched THEN c < h /\ h < Watched ELSE h > c \/ h < Watched
      BY <2>1, <3>1
    <3> QED BY <3>1, <3>2 DEF Ahead
  <2>3. IF c < Watched THEN c < g /\ g < Watched ELSE g > c \/ g < Watched
    BY <2>1
  <2>4. ~(IF g < Watched THEN g < g /\ g < Watched ELSE g > g \/ g < Watched)
    BY <2>1
  <2> QED BY <2>2, <2>3, <2>4 DEF Ahead
<1>3. IsFiniteSet(Ahead(c))
  BY <1>1, FS_Subset DEF Ahead
<1>4. Distance(g) <= Distance(c) /\ (Distance(g) = Distance(c) => Ahead(g) = Ahead(c))
  BY <1>2, <1>3, FS_Subset DEF Distance
<1>5. Distance(g) \in Nat /\ Distance(c) \in Nat
  BY <1>1, DistanceInRound
<1> QED BY <1>2, <1>4, <1>5

(* So does one that starts again behind the watched grant.                 *)
LEMMA StartingAgain ==
  ASSUME NEW c \in Nat, ~(c < Watched)
  PROVE  Distance(0) <= Distance(c)
<1>1. Grant \subseteq Nat \ {0} /\ IsFiniteSet(Grant) /\ Watched \in Grant
  BY CoordinatorAssumption
<1>2. Ahead(0) \subseteq Ahead(c)
  BY <1>1 DEF Ahead
<1>3. IsFiniteSet(Ahead(c))
  BY <1>1, FS_Subset DEF Ahead
<1> QED BY <1>2, <1>3, FS_Subset DEF Distance

(* Every page that lists grants has a first one.                           *)
LEMMA LeastGrant ==
  ASSUME NEW S \in SUBSET Grant, S # {}
  PROVE  Min(S) \in S /\ \A y \in S : Min(S) <= y
<1> DEFINE HasMin(T) == \E x \in T : \A y \in T : x <= y
           Bad == {T \in SUBSET S : T # {} /\ ~HasMin(T)}
<1>1. IsFiniteSet(S) /\ \A x \in S : x \in Nat
  BY GrantsAreFinite, FS_Subset
<1>2. HasMin(S)
  <2>1. SUFFICES ASSUME Bad # {} PROVE FALSE
    OBVIOUS
  <2>2. Bad \subseteq FiniteSubsetsOf(S)
    BY <1>1, FS_FiniteSubsetsOfFinite
  <2>3. PICK T \in Bad : \A U \in Bad : <<U, T>> \notin StrictSubsetOrdering(S)
    <3> HIDE DEF Bad
    <3> QED BY <2>1, <2>2, FS_StrictSubsetOrderingWellFounded, WFMin
  <2>4. PICK x \in T : TRUE
    OBVIOUS
  <2> DEFINE U == T \ {x}
  <2>5. U \notin Bad
    BY <2>3, <2>4 DEF StrictSubsetOrdering
  <2>6. CASE U = {}
    BY <1>1, <2>4, <2>6
  <2>7. CASE HasMin(U)
    <3>1. PICK y \in U : \A z \in U : y <= z
      BY <2>7
    <3>2. x \in Nat /\ y \in Nat /\ \A z \in U : z \in Nat
      BY <1>1, <2>4
    <3>3. HasMin(T)
      <4>1. CASE y <= x
        BY <3>1, <3>2, <4>1
      <4>2. CASE x <= y
        BY <2>4, <3>1, <3>2, <4>2
      <4> QED BY <3>2, <4>1, <4>2
    <3> QED BY <3>3
  <2> QED BY <2>5, <2>6, <2>7
<1> QED BY <1>2 DEF Min

(* A page is the beginning of what is behind the cursor.                   *)
LEMMA PageIsBeginning ==
  ASSUME NEW S \in SUBSET Grant
  PROVE  /\ First(S, Candidates) \subseteq S
         /\ S # {} => First(S, Candidates) # {}
         /\ \A g \in First(S, Candidates), h \in S : h < g => h \in First(S, Candidates)
<1>1. Grant \subseteq Nat /\ IsFiniteSet(Grant) /\ Candidates \in Nat \ {0}
  BY CoordinatorAssumption
<1>2. IsFiniteSet(S)
  BY <1>1, FS_Subset
<1> DEFINE Before(g) == {h \in S : h < g}
<1>3. \A g \in Nat : IsFiniteSet(Before(g)) /\ Cardinality(Before(g)) \in Nat
  BY <1>2, FS_Subset, FS_CardinalityType
<1>4. First(S, Candidates) = {g \in S : Cardinality(Before(g)) < Candidates}
  BY DEF First
<1>5. ASSUME S # {} PROVE First(S, Candidates) # {}
  <2>1. Min(S) \in S /\ \A y \in S : Min(S) <= y
    BY <1>5, LeastGrant
  <2>2. \A y \in S : y \in Nat
    BY <1>1
  <2>3. Before(Min(S)) = {}
    BY <2>1, <2>2
  <2>4. Cardinality(Before(Min(S))) = 0
    BY <2>3, FS_EmptySet
  <2> QED BY <1>1, <1>4, <2>1, <2>4
<1>6. ASSUME NEW g \in First(S, Candidates), NEW h \in S, h < g PROVE h \in First(S, Candidates)
  <2>1. g \in S /\ Cardinality(Before(g)) < Candidates /\ g \in Nat /\ h \in Nat
    BY <1>1, <1>4
  <2>2. ASSUME NEW x \in Before(h) PROVE x \in Before(g)
    <3>1. x \in S /\ x < h /\ x \in Nat
      BY <1>1
    <3> QED BY <1>6, <2>1, <3>1
  <2>3. Before(h) \in SUBSET Before(g)
    BY <2>2
  <2> HIDE DEF Before
  <2>4. Cardinality(Before(h)) <= Cardinality(Before(g))
    BY <1>3, <2>1, <2>3, FS_Subset
  <2> QED BY <1>1, <1>3, <1>4, <2>1, <2>4
<1> QED BY <1>4, <1>5, <1>6

-----------------------------------------------------------------------------
\* Types

PassRecords == [step : {"idle", "query", "loop", "renew", "attempt", "finish"},
                cursor : Grant \union {0}, todo : SUBSET Grant, active : SUBSET Grant,
                more : BOOLEAN, attempted : 0 .. Attempts, tried : BOOLEAN]
LeaseRecords == [owner : Pass \union {NoPass}, live : BOOLEAN]

SharedTypes ==
  /\ grant \in [Grant -> {"absent", "PENDING_VALIDATION", "ACTIVE", "AUTHORIZATION_REQUIRED"}]
  /\ pending \subseteq Grant
  /\ lease \in LeaseRecords
  /\ cursor \in Grant \union {0}
  /\ lease.live => lease.owner # NoPass
  /\ skipped \in Nat
  /\ faults \in Nat

\* A pass that delivers has a grant.
AtGrant(r) == r.step \in {"renew", "attempt"} => r.cursor # 0

PassTypes == pass \in [Pass -> PassRecords] /\ \A p \in Pass : AtGrant(pass[p])

(* TypeOK in the parts that a step touches.                                *)
LEMMA TypesSplit == TypeOK <=> SharedTypes /\ PassTypes
BY DEF TypeOK, SharedTypes, PassTypes, PassRecords, LeaseRecords, AtGrant

(* The same of the next state.                                             *)
LEMMA TypesSplitNext == TypeOK' <=> SharedTypes' /\ PassTypes'
BY DEF TypeOK, SharedTypes, PassTypes, PassRecords, LeaseRecords, AtGrant

\* Pass p is now as r says, and the others are as they were.
Becomes(p, r) == pass' = [pass EXCEPT ![p] = r]

(* A pass that becomes a pass keeps the types.                             *)
LEMMA BecomesTyped ==
  ASSUME PassTypes, NEW p \in Pass, NEW r \in PassRecords, AtGrant(r), Becomes(p, r)
  PROVE  PassTypes' /\ pass'[p] = r /\ \A q \in Pass \ {p} : pass'[q] = pass[q]
BY DEF PassTypes, Becomes

(* The record of a pass that is idle, begins or ends.                      *)
LEMMA EmptyRecords ==
  ASSUME NEW c \in Grant \union {0}, NEW t \in BOOLEAN, NEW step \in {"idle", "query", "finish"}
  PROVE  Empty(step, c, t) \in PassRecords /\ AtGrant(Empty(step, c, t))
<1>1. 0 \in 0 .. Attempts
  BY CoordinatorAssumption
<1> QED BY <1>1 DEF Empty, PassRecords, AtGrant

\* The record of a pass after it read its page, examined a grant, renewed its lease, or
\* delivered; each with what it keeps of the record before.

(* What reading a page makes of a pass.                                    *)
LEMMA QueryEffect ==
  ASSUME SharedTypes, PassTypes, NEW p \in Pass, Query(p)
  PROVE  \E r \in PassRecords : \E start \in Grant \union {0} : \E behind \in SUBSET Grant :
           /\ Becomes(p, r) /\ AtGrant(r)
           /\ start = StartOf(pass[p].cursor) /\ behind = {g \in Stored : g > start}
           /\ r.step = "loop" /\ r.cursor = start /\ r.todo = First(behind, Candidates)
           /\ r.active = {g \in r.todo : grant[g] = "ACTIVE"}
           /\ r.more = (behind # r.todo)
           /\ r.attempted = pass[p].attempted /\ r.tried = pass[p].tried
<1> DEFINE start == StartOf(pass[p].cursor)
           behind == {g \in Stored : g > start}
           todo == First(behind, Candidates)
           active == {g \in todo : grant[g] = "ACTIVE"}
           r == [pass[p] EXCEPT !.step = "loop", !.cursor = start, !.todo = todo,
                                !.active = active, !.more = behind # todo]
<1>1. pass[p] \in PassRecords
  BY DEF PassTypes
<1>2. start \in Grant \union {0}
  BY <1>1 DEF StartOf, PassRecords
<1>3. behind \in SUBSET Grant /\ todo \in SUBSET behind /\ active \in SUBSET todo
  BY DEF Stored, First
<1>4. pass \in [Pass -> PassRecords] /\ pass' = [pass EXCEPT ![p] =
        [pass[p] EXCEPT !.step = "loop", !.cursor = start, !.todo = todo,
                        !.active = active, !.more = behind # todo]]
  <2>1. pass' = [pass EXCEPT ![p].step = "loop", ![p].cursor = start, ![p].todo = todo,
                             ![p].active = active, ![p].more = behind # todo]
    BY DEF Query
  <2> HIDE DEF start, behind, todo, active
  <2> QED BY <2>1 DEF PassTypes
<1> HIDE DEF start, behind, todo, active
<1>5. /\ r \in PassRecords /\ r.step = "loop" /\ r.cursor = start /\ r.todo = todo
      /\ r.active = active /\ r.more = (behind # todo)
      /\ r.attempted = pass[p].attempted /\ r.tried = pass[p].tried
  <2>1. (behind # todo) \in BOOLEAN /\ todo \in SUBSET Grant /\ active \in SUBSET Grant
    BY <1>3
  <2> QED BY <1>1, <1>2, <2>1 DEF PassRecords
<1>6. Becomes(p, r)
  BY <1>4 DEF Becomes
<1> HIDE DEF r
<1>7. AtGrant(r)
  BY <1>5 DEF AtGrant
<1>8. r.active = {g \in r.todo : grant[g] = "ACTIVE"} /\ r.todo = First(behind, Candidates)
  BY <1>5 DEF active, todo
<1>9. start = StartOf(pass[p].cursor) /\ behind = {g \in Stored : g > start}
  BY DEF start, behind
<1> QED BY <1>2, <1>3, <1>5, <1>6, <1>7, <1>8, <1>9

(* What examining the next grant of the page makes of a pass.              *)
LEMMA ExamineEffect ==
  ASSUME SharedTypes, PassTypes, NEW p \in Pass, Examine(p)
  PROVE  \E r \in PassRecords : \E g \in Grant :
           /\ Becomes(p, r) /\ AtGrant(r)
           /\ g \in pass[p].todo /\ \A h \in pass[p].todo : g <= h
           /\ pass[p].attempted < Attempts
           /\ r.step = IF g \in pass[p].active /\ Due(g) THEN "renew" ELSE "loop"
           /\ r.cursor = g /\ r.todo = pass[p].todo \ {g} /\ r.active = pass[p].active \ {g}
           /\ r.more = pass[p].more /\ r.attempted = pass[p].attempted /\ r.tried = pass[p].tried
<1> DEFINE g == Min(pass[p].todo)
           step == IF g \in pass[p].active /\ Due(g) THEN "renew" ELSE "loop"
           r == [pass[p] EXCEPT !.cursor = g, !.todo = pass[p].todo \ {g},
                                !.active = pass[p].active \ {g}, !.step = step]
<1>1. pass[p] \in PassRecords /\ pass[p].todo \in SUBSET Grant /\ pass[p].todo # {}
      /\ pass[p].attempted < Attempts
  BY DEF PassTypes, PassRecords, Examine
<1>2. g \in pass[p].todo /\ \A h \in pass[p].todo : g <= h
  BY <1>1, LeastGrant
<1>3. Becomes(p, r)
  <2>1. pass' = [pass EXCEPT ![p].cursor = g, ![p].todo = @ \ {g}, ![p].active = @ \ {g},
                             ![p].step = step]
    BY DEF Examine
  <2> HIDE DEF g, step
  <2> QED BY <2>1 DEF PassTypes, Becomes
<1>4. step \in {"renew", "loop"}
  OBVIOUS
<1>5. step = IF g \in pass[p].active /\ Due(g) THEN "renew" ELSE "loop"
  OBVIOUS
<1> HIDE DEF g, step
<1>6. /\ r \in PassRecords /\ r.step = step /\ r.cursor = g /\ r.todo = pass[p].todo \ {g}
      /\ r.active = pass[p].active \ {g} /\ r.more = pass[p].more
      /\ r.attempted = pass[p].attempted /\ r.tried = pass[p].tried
  BY <1>1, <1>2, <1>4 DEF PassRecords
<1> HIDE DEF r
<1>7. g \in Grant /\ AtGrant(r)
  BY <1>1, <1>2, <1>6, CoordinatorAssumption DEF AtGrant
<1> QED BY <1>1, <1>2, <1>3, <1>5, <1>6, <1>7

(* What a renewed lease makes of a pass.                                   *)
LEMMA RenewEffect ==
  ASSUME PassTypes, AttemptLeft, NEW p \in Pass, Renew(p), lease.owner = p, lease.live
  PROVE  \E r \in PassRecords :
           /\ Becomes(p, r) /\ AtGrant(r)
           /\ r.step = "attempt" /\ r.cursor = pass[p].cursor /\ r.todo = pass[p].todo
           /\ r.active = pass[p].active /\ r.more = pass[p].more
           /\ r.tried = (pass[p].tried \/ pass[p].cursor = Watched)
<1> DEFINE tried == pass[p].tried \/ pass[p].cursor = Watched
           attempted == pass[p].attempted + 1
           r == [pass[p] EXCEPT !.step = "attempt", !.attempted = attempted, !.tried = tried]
<1>1. pass[p] \in PassRecords /\ pass[p].step = "renew" /\ pass[p].cursor # 0
  BY DEF PassTypes, Renew, AtGrant
<1>2. tried \in BOOLEAN /\ attempted \in 0 .. Attempts
  <2>1. pass[p].attempted \in 0 .. Attempts /\ pass[p].attempted < Attempts /\ Attempts \in Nat
        /\ pass[p].tried \in BOOLEAN
    BY <1>1, CoordinatorAssumption DEF PassRecords, AttemptLeft
  <2> QED BY <2>1
<1>3. Becomes(p, r)
  <2>1. pass' = [pass EXCEPT ![p].step = "attempt", ![p].attempted = attempted, ![p].tried = tried]
    BY DEF Renew
  <2> HIDE DEF attempted, tried
  <2> QED BY <2>1 DEF PassTypes, Becomes
<1>4. tried = (pass[p].tried \/ pass[p].cursor = Watched)
  OBVIOUS
<1> HIDE DEF tried, attempted
<1>5. /\ r \in PassRecords /\ r.step = "attempt" /\ r.tried = tried /\ r.cursor = pass[p].cursor
      /\ r.todo = pass[p].todo /\ r.active = pass[p].active /\ r.more = pass[p].more
  BY <1>1, <1>2 DEF PassRecords
<1> HIDE DEF r
<1> QED BY <1>1, <1>3, <1>4, <1>5 DEF AtGrant

(* What a delivery makes of a pass.                                        *)
LEMMA AttemptEffect ==
  ASSUME PassTypes, NEW p \in Pass, Attempt(p)
  PROVE  \E r \in PassRecords :
           /\ Becomes(p, r) /\ AtGrant(r)
           /\ r.step = "loop" /\ r.cursor = pass[p].cursor /\ r.todo = pass[p].todo
           /\ r.active = pass[p].active /\ r.more = pass[p].more /\ r.tried = pass[p].tried
<1> DEFINE r == [pass[p] EXCEPT !.step = "loop"]
<1>1. pass[p] \in PassRecords /\ pass[p].attempted \in 0 .. Attempts /\ pass[p].tried \in BOOLEAN
  BY DEF PassTypes, PassRecords
<1>2. Becomes(p, r)
  <2>1. pass' = [pass EXCEPT ![p].step = "loop"]
    BY DEF Attempt
  <2> QED BY <1>1, <2>1 DEF PassTypes, PassRecords, Becomes
<1>3. /\ r \in PassRecords /\ r.step = "loop" /\ r.tried = pass[p].tried
      /\ r.cursor = pass[p].cursor /\ r.todo = pass[p].todo /\ r.active = pass[p].active
      /\ r.more = pass[p].more
  BY <1>1 DEF PassRecords
<1> QED BY <1>2, <1>3 DEF AtGrant

(* What a failed read makes of a pass.                                     *)
LEMMA QueryFailsEffect ==
  ASSUME PassTypes, NEW p \in Pass, QueryFails(p)
  PROVE  \E r \in PassRecords :
           /\ Becomes(p, r) /\ AtGrant(r)
           /\ r.step = "finish" /\ r.cursor = pass[p].cursor /\ r.todo = pass[p].todo
           /\ r.tried = pass[p].tried
<1> DEFINE r == [pass[p] EXCEPT !.step = "finish"]
<1>1. pass[p] \in PassRecords /\ pass' = [pass EXCEPT ![p].step = "finish"]
  BY DEF PassTypes, QueryFails
<1>2. Becomes(p, r)
  BY <1>1 DEF PassTypes, PassRecords, Becomes
<1>3. /\ r \in PassRecords /\ r.step = "finish" /\ r.tried = pass[p].tried
      /\ r.cursor = pass[p].cursor /\ r.todo = pass[p].todo
  BY <1>1 DEF PassRecords
<1> QED BY <1>2, <1>3 DEF AtGrant

(* What the end of the loop makes of a pass.                               *)
LEMMA EndingEffect ==
  ASSUME PassTypes, NEW p \in Pass
  PROVE  /\ Ending(p) \in PassRecords /\ AtGrant(Ending(p))
         /\ Ending(p).step = "finish" /\ Ending(p).todo = {} /\ Ending(p).tried = pass[p].tried
         /\ Ending(p).cursor = IF pass[p].todo = {} /\ ~pass[p].more THEN 0 ELSE pass[p].cursor
<1>1. pass[p].cursor \in Grant \union {0} /\ pass[p].tried \in BOOLEAN
  BY DEF PassTypes, PassRecords
<1>2. (IF pass[p].todo = {} /\ ~pass[p].more THEN 0 ELSE pass[p].cursor) \in Grant \union {0}
  BY <1>1
<1>3. Ending(p) \in PassRecords /\ AtGrant(Ending(p))
  BY <1>1, <1>2, EmptyRecords DEF Ending
<1> QED BY <1>3 DEF Ending, Empty

-----------------------------------------------------------------------------
\* What a step leaves as it was

Guarded(p) == LostIsPaid(p) /\ SeesWatched(p) /\ ComesNearer(p)

(* Types of what the obligations of the owner add up.                      *)
LEMMA Numbers ==
  ASSUME TypeOK
  PROVE  /\ skipped \in Nat /\ faults \in Nat /\ cursor \in Nat
         /\ \A p \in Pass : pass[p] \in PassRecords /\ pass[p].cursor \in Nat
<1>1. SharedTypes /\ PassTypes /\ Grant \subseteq Nat
  BY TypesSplit, GrantsAreFinite
<1>2. skipped \in Nat /\ faults \in Nat /\ cursor \in Nat
  BY <1>1 DEF SharedTypes
<1>3. \A p \in Pass : pass[p] \in PassRecords
  BY <1>1 DEF PassTypes
<1>4. \A r \in PassRecords : r.cursor \in Grant \union {0}
  BY DEF PassRecords
<1>5. \A c \in Grant \union {0} : c \in Nat
  BY <1>1
<1> QED BY <1>2, <1>3, <1>4, <1>5

\* Another fault may have been met, and the wait may be over.
Milder ==
  /\ UNCHANGED <<cursor, lease>>
  /\ skipped' \in {skipped, 0}
  /\ faults' \in {faults, faults + 1}

(* Then no more may be waited for than before.                             *)
LEMMA AllowedNext ==
  ASSUME TypeOK, Milder
  PROVE  /\ skipped' \in Nat /\ skipped' <= skipped /\ (skipped' > 0 => skipped > 0 /\ skipped' = skipped)
         /\ Allowed(faults') \in Nat /\ Allowed(faults) \in Nat /\ Allowed(faults) <= Allowed(faults')
         /\ faults' # faults => Allowed(faults') = Allowed(faults) + N
         /\ faults' \in Nat
<1>1. skipped \in Nat /\ faults \in Nat /\ N \in Nat
  BY Numbers, GrantsAreFinite
<1>2. Allowed(faults) \in Nat /\ Allowed(faults + 1) = Allowed(faults) + N
  BY <1>1, AllowedGrows
<1> QED BY <1>1, <1>2 DEF Milder

(* A pass that does nothing keeps its obligations.                         *)
LEMMA StillGuarded ==
  ASSUME TypeOK, Milder, NEW q \in Pass, Guarded(q), pass'[q] = pass[q]
  PROVE  Guarded(q)'
<1>1. /\ skipped \in Nat /\ skipped' \in Nat /\ skipped' <= skipped
      /\ Allowed(faults) \in Nat /\ Allowed(faults') \in Nat /\ Allowed(faults) <= Allowed(faults')
      /\ (skipped' > 0 => skipped > 0)
  BY AllowedNext, Numbers
<1>2. N \in Nat /\ Distance(pass[q].cursor) \in Nat
  BY Numbers, GrantsAreFinite, DistanceInRound
<1>3. LostIsPaid(q)'
  BY <1>1, <1>2 DEF Guarded, LostIsPaid, Milder
<1>4. SeesWatched(q)'
  BY <1>1 DEF Guarded, SeesWatched
<1>5. ComesNearer(q)'
  <2> DEFINE d == Distance(pass[q].cursor)
             a == Allowed(faults)
             b == Allowed(faults')
  <2>1. d \in Nat /\ a \in Nat /\ b \in Nat /\ a <= b
    BY <1>1, <1>2
  <2>2. Distance(pass'[q].cursor) = d
    OBVIOUS
  <2>3. cursor' = cursor
    BY DEF Milder
  <2>4. /\ skipped + d <= a => skipped' + d <= b
        /\ skipped + 1 + d <= a => skipped' + 1 + d <= b
    BY <1>1, <2>1
  <2> QED BY <1>1, <2>2, <2>3, <2>4 DEF Guarded, ComesNearer, Distance, Ahead
<1> QED BY <1>3, <1>4, <1>5 DEF Guarded

(* The stored cursor stays as near as it was.                              *)
LEMMA StillNear ==
  ASSUME TypeOK, Near, Milder
  PROVE  Near'
<1>1. /\ skipped \in Nat /\ skipped' \in Nat /\ skipped' <= skipped
      /\ Allowed(faults) \in Nat /\ Allowed(faults') \in Nat /\ Allowed(faults) <= Allowed(faults')
      /\ Distance(cursor) \in Nat /\ cursor' = cursor
  BY AllowedNext, Numbers, DistanceInRound DEF Milder
<1>2. Distance(cursor)' = Distance(cursor)
  BY <1>1 DEF Distance, Ahead
<1> QED BY <1>1, <1>2 DEF Near, Allowed

(* A step of one pass: what is to be shown of it, and what then holds.     *)
LEMMA StepOfPass ==
  ASSUME Inductive, Milder, CountedIsDue', SharedTypes', NEW p \in Pass, NEW r \in PassRecords,
         Becomes(p, r), AtGrant(r), \A g \in r.todo : r.cursor < g,
         r.step = "renew" => r.attempted < Attempts,
         lease.owner = p => Guarded(p)'
  PROVE  Inductive'
<1>1. TypeOK /\ PassTypes /\ PassTypes' /\ pass'[p] = r /\ \A q \in Pass \ {p} : pass'[q] = pass[q]
  BY TypesSplit, BecomesTyped DEF Inductive
<1>2. TypeOK'
  BY <1>1, TypesSplitNext
<1>3. Near'
  BY <1>1, StillNear DEF Inductive
<1>4. PageBehind' /\ AttemptLeft'
  BY <1>1 DEF Inductive, PageBehind, AttemptLeft
<1>5. ASSUME NEW q \in Pass, lease'.owner = q PROVE Guarded(q)'
  <2>1. lease.owner = q
    BY <1>5 DEF Milder
  <2>2. CASE q = p
    BY <2>1, <2>2
  <2>3. CASE q # p
    <3>1. Guarded(q)
      BY <2>1 DEF Inductive, OwnerOK, Guarded
    <3> QED BY <1>1, <2>3, <3>1, StillGuarded
  <2> QED BY <2>2, <2>3
<1>6. OwnerOK'
  BY <1>5 DEF OwnerOK, Guarded
<1> QED BY <1>2, <1>3, <1>4, <1>6 DEF Inductive

(* A step that changes no pass.                                            *)
LEMMA StepOfOthers ==
  ASSUME Inductive, Milder, CountedIsDue', SharedTypes', UNCHANGED pass
  PROVE  Inductive'
<1>1. TypeOK /\ PassTypes /\ PassTypes' /\ \A q \in Pass : pass'[q] = pass[q]
  BY TypesSplit DEF Inductive, PassTypes
<1>2. TypeOK'
  BY <1>1, TypesSplitNext
<1>3. Near'
  BY <1>1, StillNear DEF Inductive
<1>4. PageBehind' /\ AttemptLeft'
  BY <1>1 DEF Inductive, PageBehind, AttemptLeft
<1>5. ASSUME NEW q \in Pass, lease'.owner = q PROVE Guarded(q)'
  <2>1. lease.owner = q
    BY <1>5 DEF Milder
  <2>2. Guarded(q)
    BY <2>1 DEF Inductive, OwnerOK, Guarded
  <2> QED BY <1>1, <2>2, StillGuarded
<1>6. OwnerOK'
  BY <1>5 DEF OwnerOK, Guarded
<1> QED BY <1>2, <1>3, <1>4, <1>6 DEF Inductive

(* Any cursor is near enough after one thing more went wrong, and any is   *)
(* when nobody waits.                                                      *)
LEMMA RoundIsEnough ==
  ASSUME NEW k \in Nat, NEW c \in Nat, NEW f \in Nat, k + N <= Allowed(f) \/ k = 0
  PROVE  k + 1 + Distance(c) <= Allowed(f)
<1>1. N \in Nat /\ Distance(c) \in Nat /\ Distance(c) + 1 <= N /\ Allowed(f) \in Nat /\ N <= Allowed(f)
  BY GrantsAreFinite, DistanceInRound, AllowedGrows
<1> QED BY <1>1

(* What the stored cursor leaves to be waited for.                         *)
LEMMA NearIsAllowed ==
  ASSUME TypeOK, Near
  PROVE  skipped <= Allowed(faults) /\ skipped + N <= Allowed(faults + 1)
<1>1. skipped \in Nat /\ faults \in Nat /\ cursor \in Nat /\ N \in Nat
  BY Numbers, GrantsAreFinite
<1>2. Distance(cursor) \in Nat /\ Allowed(faults) \in Nat /\ Allowed(faults + 1) = Allowed(faults) + N
  BY <1>1, DistanceInRound, AllowedGrows
<1> QED BY <1>1, <1>2 DEF Near

-----------------------------------------------------------------------------
\* The steps

(* A grant that changes ends the wait for it, and the others are not       *)
(* concerned.                                                              *)
LEMMA ChangeGrantStep ==
  ASSUME Inductive, NEW g \in Grant, ChangeGrant(g)
  PROVE  Inductive'
<1>1. SharedTypes /\ Watched \in Grant
  BY TypesSplit, CoordinatorAssumption DEF Inductive
<1>2. Milder /\ UNCHANGED pass
  BY DEF ChangeGrant, Milder
<1>3. SharedTypes'
  BY <1>1 DEF SharedTypes, ChangeGrant
<1>4. CountedIsDue'
  <2>1. SUFFICES ASSUME skipped' > 0 PROVE Due(Watched)'
    BY DEF CountedIsDue
  <2>2. g # Watched /\ skipped' = skipped
    BY <2>1 DEF ChangeGrant
  <2>3. Due(Watched)
    BY <2>1, <2>2 DEF Inductive, CountedIsDue
  <2> QED BY <1>1, <2>2, <2>3 DEF ChangeGrant, Due, SharedTypes
<1> QED BY <1>2, <1>3, <1>4, StepOfOthers

(* New work keeps nobody waiting.                                          *)
LEMMA ChangeStep ==
  ASSUME Inductive, NEW g \in Grant, Change(g)
  PROVE  Inductive'
<1>1. SharedTypes
  BY TypesSplit DEF Inductive
<1>2. Milder /\ UNCHANGED pass
  BY DEF Change, Milder
<1>3. SharedTypes'
  BY <1>1 DEF SharedTypes, Change
<1>4. CountedIsDue'
  BY DEF Inductive, CountedIsDue, Due, Change
<1> QED BY <1>2, <1>3, <1>4, StepOfOthers

(* A pass begins at the stored cursor, under a lease of its own.           *)
LEMMA ClaimStep ==
  ASSUME Inductive, NEW p \in Pass, Claim(p)
  PROVE  Inductive'
<1> DEFINE r == Empty("query", cursor, FALSE)
<1>1. SharedTypes /\ PassTypes /\ cursor \in Grant \union {0} /\ p # NoPass
  BY TypesSplit, CoordinatorAssumption DEF Inductive, SharedTypes
<1>2. r \in PassRecords /\ AtGrant(r) /\ Becomes(p, r)
  BY <1>1, EmptyRecords DEF Claim, Becomes
<1>3. /\ r.step = "query" /\ r.cursor = cursor /\ r.tried = FALSE /\ r.todo = {} /\ r.attempted = 0
  BY DEF Empty
<1> HIDE DEF r
<1>4. PassTypes' /\ pass'[p] = r /\ \A q \in Pass \ {p} : pass'[q] = pass[q]
  BY <1>1, <1>2, BecomesTyped
<1>5. SharedTypes'
  <2>1. lease' \in LeaseRecords /\ lease'.owner = p /\ lease'.live = TRUE
    BY DEF Claim, LeaseRecords
  <2> QED BY <1>1, <2>1 DEF Claim, SharedTypes
<1>6. TypeOK'
  BY <1>4, <1>5, TypesSplitNext
<1>7. CountedIsDue' /\ Near'
  <2>1. UNCHANGED <<grant, pending, cursor, skipped, faults>>
    BY DEF Claim
  <2> QED BY <2>1 DEF Inductive, CountedIsDue, Due, Near, Distance, Ahead, Allowed
<1>8. PageBehind' /\ AttemptLeft'
  BY <1>3, <1>4 DEF Inductive, PageBehind, AttemptLeft
<1>9. OwnerOK'
  <2>1. SUFFICES ASSUME NEW q \in Pass, lease'.owner = q
                 PROVE  LostIsPaid(q)' /\ SeesWatched(q)' /\ ComesNearer(q)'
    BY DEF OwnerOK
  <2>2. q = p /\ lease'.live /\ cursor' = cursor
    BY <2>1 DEF Claim
  <2> QED BY <1>3, <1>4, <2>2 DEF LostIsPaid, SeesWatched, ComesNearer, Looking
<1> QED BY <1>6, <1>7, <1>8, <1>9 DEF Inductive

(* The page that is read behind the cursor, or from the beginning when     *)
(* nothing is behind it, lists the watched grant or has more behind it.    *)
LEMMA QueryStep ==
  ASSUME Inductive, NEW p \in Pass, Query(p)
  PROVE  Inductive'
<1>1. TypeOK /\ SharedTypes /\ PassTypes
  BY TypesSplit DEF Inductive
<1>2. PICK r \in PassRecords, start \in Grant \union {0}, behind \in SUBSET Grant :
           /\ Becomes(p, r) /\ AtGrant(r)
           /\ start = StartOf(pass[p].cursor) /\ behind = {g \in Stored : g > start}
           /\ r.step = "loop" /\ r.cursor = start /\ r.todo = First(behind, Candidates)
           /\ r.active = {g \in r.todo : grant[g] = "ACTIVE"}
           /\ r.more = (behind # r.todo)
           /\ r.attempted = pass[p].attempted /\ r.tried = pass[p].tried
  BY <1>1, QueryEffect
<1>3. /\ UNCHANGED <<grant, pending, lease, cursor, skipped, faults>> /\ pass[p].step = "query"
  BY DEF Query
<1>4. SharedTypes' /\ CountedIsDue' /\ Milder
  BY <1>1, <1>3 DEF SharedTypes, Inductive, CountedIsDue, Due, Milder
<1>5. r.todo \subseteq behind /\ (behind # {} => r.todo # {})
      /\ \A g \in r.todo, h \in behind : h < g => h \in r.todo
  <2> DEFINE page == First(behind, Candidates)
  <2>1. page \subseteq behind /\ (behind # {} => page # {})
        /\ \A g \in page, h \in behind : h < g => h \in page
    BY PageIsBeginning
  <2>2. r.todo = page
    BY <1>2
  <2> HIDE DEF page
  <2> QED BY <2>1, <2>2
<1>6. /\ Grant \subseteq Nat \ {0} /\ Watched \in Grant /\ Watched \in Nat /\ 0 < Watched
      /\ start \in Nat /\ \A g \in behind : g \in Nat /\ start < g
  <2>1. Grant \subseteq Nat \ {0} /\ Watched \in Grant
    BY CoordinatorAssumption
  <2>2. \A c \in Grant \union {0} : c \in Nat
    BY <2>1
  <2>3. \A g \in behind : g \in Nat /\ start < g
    BY <1>2, <2>2
  <2> QED BY <2>1, <2>2, <2>3
<1>7. skipped > 0 => Watched \in Stored /\ grant[Watched] = "ACTIVE"
  BY <1>6 DEF Inductive, CountedIsDue, Due, Stored
<1>8. ASSUME lease.owner = p PROVE Guarded(p)'
  <2>1. pass'[p] = r
    BY <1>1, <1>2, BecomesTyped
  <2>2. LostIsPaid(p) /\ pass[p].cursor = cursor /\ ~pass[p].tried /\ pass[p].attempted = 0
    BY <1>3, <1>8 DEF Inductive, OwnerOK, ComesNearer
  <2>3. LostIsPaid(p)'
    BY <1>2, <1>3, <2>1, <2>2 DEF LostIsPaid, Running, Allowed
  <2>4. ASSUME skipped > 0, start < Watched
        PROVE  /\ r.more \/ Watched \in r.todo
               /\ Watched \in r.todo \/ \A g \in r.todo : g < Watched
    <3>1. Watched \in behind
      BY <1>2, <1>6, <1>7, <2>4
    <3>2. r.more \/ Watched \in r.todo
      BY <1>2, <3>1
    <3>3. ASSUME Watched \notin r.todo, NEW g \in r.todo PROVE g < Watched
      <4>1. ~(Watched < g) /\ g # Watched
        BY <1>5, <3>1, <3>3
      <4>2. g \in Nat
        BY <1>5, <1>6
      <4> QED BY <1>6, <4>1, <4>2
    <3> QED BY <3>2, <3>3
  <2>5. SeesWatched(p)'
    <3>1. skipped > 0 /\ Watched \in r.todo => Watched \in r.active
      BY <1>2, <1>7
    <3> QED BY <1>2, <1>3, <2>1, <2>4, <3>1 DEF SeesWatched
  <2>6. skipped > 0 => r.todo # {}
    <3>1. SUFFICES ASSUME skipped > 0 PROVE behind # {}
      BY <1>5
    <3>2. CASE \E g \in Stored : g > pass[p].cursor
      BY <1>2, <3>2 DEF StartOf
    <3>3. CASE ~\E g \in Stored : g > pass[p].cursor
      <4>1. start = 0
        BY <1>2, <3>3 DEF StartOf
      <4>2. Watched \in behind
        BY <1>2, <1>6, <1>7, <3>1, <4>1
      <4> QED BY <4>2
    <3> QED BY <3>2, <3>3
  <2>7. skipped + Distance(start) <= Allowed(faults)
    <3>1. skipped \in Nat /\ faults \in Nat /\ cursor \in Nat /\ Distance(start) \in Nat
          /\ Distance(cursor) \in Nat /\ N \in Nat /\ Allowed(faults) \in Nat /\ N <= Allowed(faults)
          /\ Distance(start) + 1 <= N
      BY <1>1, <1>6, Numbers, DistanceInRound, AllowedGrows, GrantsAreFinite
    <3>2. CASE skipped = 0
      BY <3>1, <3>2
    <3>3. CASE skipped > 0 /\ \E g \in Stored : g > pass[p].cursor
      BY <1>2, <2>2, <3>3 DEF StartOf, Inductive, Near
    <3>4. CASE skipped > 0 /\ ~\E g \in Stored : g > pass[p].cursor
      <4>1. start = 0 /\ ~(cursor < Watched)
        BY <1>2, <1>6, <1>7, <2>2, <3>1, <3>4 DEF StartOf
      <4>2. Distance(start) <= Distance(cursor)
        BY <3>1, <4>1, StartingAgain
      <4> QED BY <3>1, <4>2 DEF Inductive, Near
    <3> QED BY <3>1, <3>2, <3>3, <3>4
  <2>8. ComesNearer(p)'
    BY <1>2, <1>3, <2>1, <2>2, <2>6, <2>7 DEF ComesNearer, Distance, Ahead, Allowed
  <2> QED BY <2>3, <2>5, <2>8 DEF Guarded
<1>9. \A g \in r.todo : r.cursor < g
  BY <1>2, <1>5, <1>6
<1> QED BY <1>2, <1>4, <1>8, <1>9, StepOfPass DEF Inductive

(* A failed read pays for the pass.                                        *)
LEMMA QueryFailsStep ==
  ASSUME Inductive, NEW p \in Pass, QueryFails(p)
  PROVE  Inductive'
<1>1. TypeOK /\ SharedTypes /\ PassTypes
  BY TypesSplit DEF Inductive
<1>2. PICK r \in PassRecords :
           /\ Becomes(p, r) /\ AtGrant(r)
           /\ r.step = "finish" /\ r.cursor = pass[p].cursor /\ r.todo = pass[p].todo
           /\ r.tried = pass[p].tried
  BY <1>1, QueryFailsEffect
<1>3. UNCHANGED <<grant, pending, lease, cursor, skipped>> /\ faults' = faults + 1
  BY DEF QueryFails, Fault
<1>4. SharedTypes' /\ CountedIsDue' /\ Milder
  BY <1>1, <1>3 DEF SharedTypes, Inductive, CountedIsDue, Due, Milder
<1>5. Guarded(p)'
  <2>1. pass'[p] = r
    BY <1>1, <1>2, BecomesTyped
  <2>2. skipped \in Nat /\ faults + 1 \in Nat /\ r.cursor \in Nat
    BY <1>1, <1>2, Numbers
  <2>3. skipped + N <= Allowed(faults + 1)
    BY NearIsAllowed DEF Inductive
  <2>4. skipped + 1 + Distance(r.cursor) <= Allowed(faults + 1)
    BY <2>2, <2>3, RoundIsEnough
  <2> QED BY <1>2, <1>3, <2>1, <2>3, <2>4
       DEF Guarded, LostIsPaid, SeesWatched, ComesNearer, Looking, Distance, Ahead, Allowed, N
<1>6. \A g \in r.todo : r.cursor < g
  BY <1>2 DEF Inductive, PageBehind
<1> QED BY <1>2, <1>4, <1>5, <1>6, StepOfPass

(* A pass that dies owes nothing.                                          *)
LEMMA CrashStep ==
  ASSUME Inductive, NEW p \in Pass, Crash(p)
  PROVE  Inductive'
<1>1. TypeOK /\ SharedTypes /\ PassTypes
  BY TypesSplit DEF Inductive
<1>2. Idle \in PassRecords /\ AtGrant(Idle) /\ Becomes(p, Idle) /\ Idle.step = "idle" /\ Idle.todo = {}
  <2>1. Idle \in PassRecords /\ AtGrant(Idle)
    BY EmptyRecords DEF Idle
  <2> QED BY <2>1 DEF Crash, Becomes, Idle, Empty
<1>3. UNCHANGED <<grant, pending, lease, cursor, skipped>> /\ faults' = faults + 1
  BY DEF Crash, Fault
<1>4. SharedTypes' /\ CountedIsDue' /\ Milder
  BY <1>1, <1>3 DEF SharedTypes, Inductive, CountedIsDue, Due, Milder
<1>5. Guarded(p)'
  <2>1. pass'[p] = Idle
    BY <1>1, <1>2, BecomesTyped
  <2> QED BY <1>2, <2>1 DEF Guarded, LostIsPaid, SeesWatched, ComesNearer, Looking, Running
<1> QED BY <1>2, <1>4, <1>5, StepOfPass

(* The first grant that a pass looks at brings it nearer, and the watched  *)
(* one is not passed over while it has work.                               *)
LEMMA ExamineStep ==
  ASSUME Inductive, NEW p \in Pass, Examine(p)
  PROVE  Inductive'
<1>1. TypeOK /\ SharedTypes /\ PassTypes
  BY TypesSplit DEF Inductive
<1>2. PICK r \in PassRecords, g \in Grant :
           /\ Becomes(p, r) /\ AtGrant(r)
           /\ g \in pass[p].todo /\ \A h \in pass[p].todo : g <= h
           /\ pass[p].attempted < Attempts
           /\ r.step = IF g \in pass[p].active /\ Due(g) THEN "renew" ELSE "loop"
           /\ r.cursor = g /\ r.todo = pass[p].todo \ {g} /\ r.active = pass[p].active \ {g}
           /\ r.more = pass[p].more /\ r.attempted = pass[p].attempted /\ r.tried = pass[p].tried
  BY <1>1, ExamineEffect
<1>3. UNCHANGED <<grant, pending, lease, cursor, skipped, faults>> /\ pass[p].step = "loop"
  BY DEF Examine
<1>4. SharedTypes' /\ CountedIsDue' /\ Milder
  BY <1>1, <1>3 DEF SharedTypes, Inductive, CountedIsDue, Due, Milder
<1>5. /\ Watched \in Grant /\ Watched \in Nat /\ g \in Nat /\ pass[p].cursor < g
      /\ \A h \in pass[p].todo : h \in Nat
  <2>1. Grant \subseteq Nat /\ Watched \in Grant /\ pass[p].todo \subseteq Grant
    BY CoordinatorAssumption, <1>1, Numbers DEF PassRecords
  <2> QED BY <1>2, <2>1 DEF Inductive, PageBehind
<1>6. r.step \in {"loop", "renew"} /\ pass'[p] = r
  BY <1>1, <1>2, BecomesTyped
<1>7. ASSUME lease.owner = p PROVE Guarded(p)'
  <2>1. LostIsPaid(p) /\ SeesWatched(p) /\ ComesNearer(p)
    BY <1>7 DEF Inductive, OwnerOK
  <2>2. LostIsPaid(p)'
    BY <1>3, <1>6, <2>1 DEF LostIsPaid, Running, Allowed
  <2>3. ASSUME ~pass[p].tried, skipped > 0
        PROVE  /\ Watched \in pass[p].todo => Watched \in pass[p].active
               /\ pass[p].cursor < Watched =>
                    /\ pass[p].more \/ Watched \in pass[p].todo
                    /\ Watched \in pass[p].todo \/ \A h \in pass[p].todo : h < Watched
    BY <1>3, <2>1, <2>3 DEF SeesWatched, Looking
  <2>4. pass[p].cursor \in Nat
    BY <1>1, Numbers
  <2>5. SeesWatched(p)'
    <3>1. SUFFICES ASSUME ~pass[p].tried, skipped > 0
          PROVE /\ Watched \in r.todo => Watched \in r.active
                /\ g < Watched => /\ r.more \/ Watched \in r.todo
                                  /\ Watched \in r.todo \/ \A h \in r.todo : h < Watched
      BY <1>2, <1>3, <1>6 DEF SeesWatched
    <3>2. Watched \in r.todo => Watched \in r.active
      BY <1>2, <2>3, <3>1
    <3>3. ASSUME g < Watched
          PROVE  /\ r.more \/ Watched \in r.todo
                 /\ Watched \in r.todo \/ \A h \in r.todo : h < Watched
      <4>1. pass[p].cursor < Watched /\ g # Watched
        BY <1>5, <2>4, <3>3
      <4> QED BY <1>2, <2>3, <3>1, <4>1
    <3> QED BY <3>2, <3>3
  <2>6. ASSUME ~pass[p].tried
        PROVE  (r.step = "renew" /\ g = Watched) \/ skipped + 1 + Distance(g) <= Allowed(faults)
    <3>1. skipped \in Nat /\ faults \in Nat /\ Distance(g) \in Nat /\ Distance(pass[p].cursor) \in Nat
          /\ Allowed(faults) \in Nat
      BY <1>1, <1>5, Numbers, DistanceInRound, AllowedGrows
    <3>2. CASE skipped = 0
      BY <1>5, <3>1, <3>2, RoundIsEnough
    <3>3. CASE skipped > 0 /\ g = Watched
      <4>1. Due(g) /\ g \in pass[p].active
        BY <1>2, <2>3, <2>6, <3>3 DEF Inductive, CountedIsDue
      <4> QED BY <1>2, <3>3, <4>1
    <3>4. CASE skipped > 0 /\ g # Watched
      <4>1. ASSUME pass[p].cursor < Watched PROVE g < Watched
        <5>1. CASE Watched \in pass[p].todo
          BY <1>2, <1>5, <3>4, <5>1
        <5>2. CASE Watched \notin pass[p].todo
          BY <1>2, <2>3, <2>6, <3>4, <4>1, <5>2
        <5> QED BY <5>1, <5>2
      <4>2. Distance(g) + 1 <= Distance(pass[p].cursor)
        BY <1>5, <2>4, <3>4, <4>1, MovingOn
      <4>3. skipped + Distance(pass[p].cursor) <= Allowed(faults)
        BY <1>3, <2>1, <2>6, <3>1 DEF ComesNearer
      <4> QED BY <3>1, <4>2, <4>3
    <3> QED BY <3>1, <3>2, <3>3, <3>4
  <2>7. ComesNearer(p)'
    BY <1>2, <1>3, <1>6, <2>6 DEF ComesNearer, Distance, Ahead, Allowed
  <2> QED BY <2>2, <2>5, <2>7 DEF Guarded
<1>8. \A h \in r.todo : r.cursor < h
  <2>1. SUFFICES ASSUME NEW h \in r.todo PROVE g < h
    BY <1>2
  <2>2. h \in pass[p].todo /\ h # g /\ g <= h
    BY <1>2
  <2> QED BY <1>5, <2>2
<1>9. r.step = "renew" => r.attempted < Attempts
  BY <1>2
<1> QED BY <1>2, <1>4, <1>7, <1>8, <1>9, StepOfPass

(* The wait that a pass adds when it ends, wherever it leaves the cursor.  *)
LEMMA EndingGuarded ==
  ASSUME TypeOK, NEW p \in Pass, UNCHANGED <<lease, cursor, skipped>>, faults' \in Nat,
         pass'[p] = Ending(p), LostIsPaid(p)',
         ~pass[p].tried => skipped + 1 + Distance(Ending(p).cursor) <= Allowed(faults')
  PROVE  Guarded(p)'
<1>1. Ending(p).step = "finish" /\ Ending(p).tried = pass[p].tried
  BY TypesSplit, EndingEffect
<1> QED BY <1>1 DEF Guarded, SeesWatched, ComesNearer, Looking, Distance, Ahead, Allowed

(* A renewed lease goes on to deliver, a lost one was paid for.            *)
LEMMA RenewStep ==
  ASSUME Inductive, NEW p \in Pass, Renew(p)
  PROVE  Inductive'
<1>1. TypeOK /\ SharedTypes /\ PassTypes /\ AttemptLeft
  BY TypesSplit DEF Inductive
<1>2. UNCHANGED <<grant, pending, lease, cursor, skipped, faults>> /\ pass[p].step = "renew"
  BY DEF Renew
<1>3. SharedTypes' /\ CountedIsDue' /\ Milder
  BY <1>1, <1>2 DEF SharedTypes, Inductive, CountedIsDue, Due, Milder
<1>4. CASE lease.owner = p /\ lease.live
  <2>1. PICK r \in PassRecords :
           /\ Becomes(p, r) /\ AtGrant(r)
           /\ r.step = "attempt" /\ r.cursor = pass[p].cursor /\ r.todo = pass[p].todo
           /\ r.active = pass[p].active /\ r.more = pass[p].more
           /\ r.tried = (pass[p].tried \/ pass[p].cursor = Watched)
    BY <1>1, <1>4, RenewEffect
  <2>2. pass'[p] = r
    BY <1>1, <2>1, BecomesTyped
  <2>3. LostIsPaid(p) /\ SeesWatched(p) /\ ComesNearer(p)
    BY <1>4 DEF Inductive, OwnerOK
  <2>4. LostIsPaid(p)'
    BY <1>2, <2>1, <2>2, <2>3 DEF LostIsPaid, Running, Allowed
  <2>5. SeesWatched(p)'
    BY <1>2, <2>1, <2>2, <2>3 DEF SeesWatched, Looking
  <2>6. ComesNearer(p)'
    <3>1. ~r.tried => skipped + 1 + Distance(r.cursor) <= Allowed(faults)
      BY <1>2, <2>1, <2>3 DEF ComesNearer
    <3> QED BY <1>2, <2>1, <2>2, <3>1 DEF ComesNearer, Distance, Ahead, Allowed
  <2>7. \A g \in r.todo : r.cursor < g
    BY <2>1 DEF Inductive, PageBehind
  <2> QED BY <1>3, <2>1, <2>4, <2>5, <2>6, <2>7, StepOfPass DEF Guarded
<1>5. CASE ~(lease.owner = p /\ lease.live)
  <2>1. Becomes(p, Ending(p))
    BY <1>1, <1>5 DEF Renew, Becomes
  <2>2. /\ Ending(p) \in PassRecords /\ AtGrant(Ending(p))
        /\ Ending(p).step = "finish" /\ Ending(p).todo = {} /\ Ending(p).tried = pass[p].tried
    BY <1>1, EndingEffect
  <2>3. ASSUME lease.owner = p PROVE Guarded(p)'
    <3>1. pass'[p] = Ending(p)
      BY <1>1, <2>1, <2>2, BecomesTyped
    <3>2. skipped + N <= Allowed(faults)
      BY <1>2, <1>5, <2>3 DEF Inductive, OwnerOK, LostIsPaid, Running
    <3>3. skipped \in Nat /\ faults \in Nat /\ faults' = faults /\ Ending(p).cursor \in Nat
      <4>1. \A c \in Grant \union {0} : c \in Nat
        BY GrantsAreFinite
      <4>2. Ending(p).cursor \in Grant \union {0}
        BY <2>2 DEF PassRecords
      <4> QED BY <1>1, <1>2, <4>1, <4>2, Numbers
    <3>4. skipped + 1 + Distance(Ending(p).cursor) <= Allowed(faults)
      BY <3>2, <3>3, RoundIsEnough
    <3>5. LostIsPaid(p)'
      BY <1>2, <3>2 DEF LostIsPaid, Allowed, N
    <3> QED BY <1>1, <1>2, <3>1, <3>3, <3>4, <3>5, EndingGuarded
  <2> QED BY <1>3, <2>1, <2>2, <2>3, StepOfPass
<1> QED BY <1>4, <1>5

(* Whatever becomes of a delivery, the pass goes on where it was.          *)
LEMMA AttemptStep ==
  ASSUME Inductive, NEW p \in Pass, Attempt(p)
  PROVE  Inductive'
<1>1. TypeOK /\ SharedTypes /\ PassTypes
  BY TypesSplit DEF Inductive
<1>2. PICK r \in PassRecords :
           /\ Becomes(p, r) /\ AtGrant(r)
           /\ r.step = "loop" /\ r.cursor = pass[p].cursor /\ r.todo = pass[p].todo
           /\ r.active = pass[p].active /\ r.more = pass[p].more /\ r.tried = pass[p].tried
  BY <1>1, AttemptEffect
<1>3. /\ UNCHANGED <<grant, lease, cursor>> /\ faults' \in {faults, faults + 1}
      /\ pending' \in SUBSET pending /\ pending \ {pass[p].cursor} \subseteq pending'
      /\ skipped' = IF pass[p].cursor = Watched THEN 0 ELSE skipped
      /\ pass[p].step = "attempt"
  BY DEF Attempt, Fault
<1>4. Milder
  BY <1>3 DEF Milder
<1>5. SharedTypes'
  BY <1>1, <1>3 DEF SharedTypes
<1>6. CountedIsDue'
  BY <1>3 DEF Inductive, CountedIsDue, Due
<1>7. ASSUME lease.owner = p PROVE Guarded(p)'
  <2>1. pass'[p] = r
    BY <1>1, <1>2, BecomesTyped
  <2>2. LostIsPaid(p) /\ SeesWatched(p) /\ ComesNearer(p)
    BY <1>7 DEF Inductive, OwnerOK
  <2>3. /\ skipped \in Nat /\ skipped' \in Nat /\ skipped' <= skipped /\ (skipped' > 0 => skipped > 0)
        /\ Allowed(faults) \in Nat /\ Allowed(faults') \in Nat /\ Allowed(faults) <= Allowed(faults')
        /\ N \in Nat /\ Distance(r.cursor) \in Nat
    BY <1>1, <1>2, <1>4, AllowedNext, Numbers, GrantsAreFinite, DistanceInRound
  <2>4. LostIsPaid(p)'
    <3>1. ~lease.live => skipped + N <= Allowed(faults)
      BY <1>3, <2>2 DEF LostIsPaid, Running
    <3>2. ~lease.live => skipped' + N <= Allowed(faults')
      BY <2>3, <3>1
    <3> QED BY <1>3, <3>2 DEF LostIsPaid, Allowed, N
  <2>5. SeesWatched(p)'
    BY <1>2, <1>3, <2>1, <2>2, <2>3 DEF SeesWatched, Looking
  <2>6. ~r.tried => skipped' + 1 + Distance(r.cursor) <= Allowed(faults')
    <3>1. ~r.tried => skipped + 1 + Distance(r.cursor) <= Allowed(faults)
      BY <1>2, <1>3, <2>2 DEF ComesNearer
    <3> QED BY <2>3, <3>1
  <2>7. ComesNearer(p)'
    BY <1>2, <1>3, <2>1, <2>6 DEF ComesNearer, Distance, Ahead, Allowed
  <2> QED BY <2>4, <2>5, <2>7 DEF Guarded
<1>8. \A g \in r.todo : r.cursor < g
  BY <1>2 DEF Inductive, PageBehind
<1> QED BY <1>2, <1>4, <1>5, <1>6, <1>7, <1>8, StepOfPass

(* A pass that used up its page or its attempts came nearer, and one that  *)
(* ran out of time is paid for.                                            *)
LEMMA EndLoopStep ==
  ASSUME Inductive, NEW p \in Pass, EndLoop(p)
  PROVE  Inductive'
<1>1. TypeOK /\ SharedTypes /\ PassTypes
  BY TypesSplit DEF Inductive
<1>2. /\ UNCHANGED <<grant, pending, lease, cursor, skipped>> /\ pass[p].step = "loop"
      /\ \/ (pass[p].todo = {} \/ pass[p].attempted >= Attempts) /\ faults' = faults
         \/ faults' = faults + 1
  BY DEF EndLoop, Fault
<1>3. SharedTypes' /\ CountedIsDue' /\ Milder
  BY <1>1, <1>2 DEF SharedTypes, Inductive, CountedIsDue, Due, Milder
<1>4. Becomes(p, Ending(p))
  BY DEF EndLoop, Becomes
<1>5. /\ Ending(p) \in PassRecords /\ AtGrant(Ending(p))
      /\ Ending(p).step = "finish" /\ Ending(p).todo = {} /\ Ending(p).tried = pass[p].tried
      /\ Ending(p).cursor = IF pass[p].todo = {} /\ ~pass[p].more THEN 0 ELSE pass[p].cursor
  BY <1>1, EndingEffect
<1>6. ASSUME lease.owner = p PROVE Guarded(p)'
  <2>1. pass'[p] = Ending(p)
    BY <1>1, <1>4, <1>5, BecomesTyped
  <2>2. LostIsPaid(p) /\ SeesWatched(p) /\ ComesNearer(p)
    BY <1>6 DEF Inductive, OwnerOK
  <2>3. /\ skipped \in Nat /\ faults \in Nat /\ faults' \in Nat /\ Ending(p).cursor \in Nat
        /\ pass[p].cursor \in Nat /\ N \in Nat /\ Allowed(faults) \in Nat /\ Allowed(faults') \in Nat
        /\ Allowed(faults) <= Allowed(faults')
    <3>1. pass[p].cursor \in Nat
      BY <1>1, Numbers
    <3> QED BY <1>1, <1>3, <1>5, <3>1, AllowedNext, Numbers, GrantsAreFinite
  <2>4. LostIsPaid(p)'
    <3>1. ~lease.live => skipped + N <= Allowed(faults')
      BY <1>2, <2>2, <2>3 DEF LostIsPaid, Running
    <3> QED BY <1>2, <3>1 DEF LostIsPaid, Allowed, N
  <2>5. ASSUME ~pass[p].tried PROVE skipped + 1 + Distance(Ending(p).cursor) <= Allowed(faults')
    <3>1. CASE faults' = faults + 1
      <4>1. skipped + N <= Allowed(faults')
        BY <3>1, NearIsAllowed DEF Inductive
      <4> QED BY <2>3, <4>1, RoundIsEnough
    <3>2. CASE skipped = 0
      BY <2>3, <3>2, RoundIsEnough
    <3>3. CASE skipped > 0 /\ faults' = faults /\ (pass[p].todo = {} \/ pass[p].attempted >= Attempts)
      <4>1. skipped + 1 + Distance(pass[p].cursor) <= Allowed(faults)
        <5>1. ~(pass[p].attempted = 0 /\ pass[p].todo # {})
          BY <3>3, CoordinatorAssumption
        <5> QED BY <1>2, <2>2, <2>5, <3>3, <5>1 DEF ComesNearer
      <4>2. CASE pass[p].todo = {} /\ ~pass[p].more
        <5>1. ~(pass[p].cursor < Watched)
          BY <1>2, <2>2, <2>5, <3>3, <4>2 DEF SeesWatched, Looking
        <5>2. Distance(0) <= Distance(pass[p].cursor) /\ Distance(0) \in Nat
              /\ Distance(pass[p].cursor) \in Nat
          BY <2>3, <5>1, StartingAgain, DistanceInRound
        <5> QED BY <1>5, <2>3, <3>3, <4>1, <4>2, <5>2
      <4>3. CASE ~(pass[p].todo = {} /\ ~pass[p].more)
        BY <1>5, <3>3, <4>1, <4>3
      <4> QED BY <4>2, <4>3
    <3> QED BY <1>2, <2>3, <3>1, <3>2, <3>3
  <2> QED BY <1>1, <1>2, <2>1, <2>3, <2>4, <2>5, EndingGuarded
<1> QED BY <1>3, <1>4, <1>5, <1>6, StepOfPass

(* The pass that still owns the lease stores a cursor that is nearer.      *)
LEMMA FinishStep ==
  ASSUME Inductive, NEW p \in Pass, Finish(p)
  PROVE  Inductive'
<1>1. TypeOK /\ SharedTypes /\ PassTypes
  BY TypesSplit DEF Inductive
<1>2. Idle \in PassRecords /\ AtGrant(Idle) /\ Becomes(p, Idle) /\ Idle.step = "idle" /\ Idle.todo = {}
  <2>1. Idle \in PassRecords /\ AtGrant(Idle)
    BY EmptyRecords DEF Idle
  <2> QED BY <2>1 DEF Finish, Becomes, Idle, Empty
<1>3. UNCHANGED <<grant, pending, faults>> /\ pass[p].step = "finish"
  BY DEF Finish
<1>4. PassTypes' /\ pass'[p] = Idle /\ \A q \in Pass \ {p} : pass'[q] = pass[q]
  BY <1>1, <1>2, BecomesTyped
<1>5. CASE lease.owner = p
  <2>1. /\ lease' = [owner |-> NoPass, live |-> FALSE] /\ cursor' = pass[p].cursor
        /\ skipped' = IF Due(Watched) /\ ~pass[p].tried THEN skipped + 1 ELSE 0
    BY <1>5 DEF Finish
  <2>2. ComesNearer(p)
    BY <1>5 DEF Inductive, OwnerOK
  <2>3. /\ skipped \in Nat /\ skipped' \in Nat /\ faults \in Nat /\ pass[p].cursor \in Nat
        /\ Distance(pass[p].cursor) \in Nat /\ Allowed(faults) \in Nat
        /\ Distance(pass[p].cursor) <= Allowed(faults)
    <3>1. skipped \in Nat /\ faults \in Nat /\ pass[p].cursor \in Nat /\ N \in Nat
      BY <1>1, Numbers, GrantsAreFinite
    <3>2. Distance(pass[p].cursor) \in Nat /\ Distance(pass[p].cursor) + 1 <= N
          /\ Allowed(faults) \in Nat /\ N <= Allowed(faults)
      BY <3>1, DistanceInRound, AllowedGrows
    <3> QED BY <2>1, <3>1, <3>2
  <2>4. SharedTypes'
    <3>1. lease' \in LeaseRecords /\ lease'.live = FALSE
      BY <2>1 DEF LeaseRecords
    <3>2. cursor' \in Grant \union {0}
      BY <1>1, <2>1, Numbers DEF PassRecords
    <3> QED BY <1>1, <1>3, <2>3, <3>1, <3>2 DEF SharedTypes
  <2>5. CountedIsDue'
    BY <1>3, <2>1 DEF CountedIsDue, Due
  <2>6. skipped' + Distance(pass[p].cursor) <= Allowed(faults)
    <3>1. CASE Due(Watched) /\ ~pass[p].tried
      BY <1>3, <2>1, <2>2, <3>1 DEF ComesNearer
    <3>2. CASE ~(Due(Watched) /\ ~pass[p].tried)
      BY <2>1, <2>3, <3>2
    <3> QED BY <3>1, <3>2
  <2>7. Near'
    BY <1>3, <2>1, <2>6 DEF Near, Distance, Ahead, Allowed
  <2>8. PageBehind' /\ AttemptLeft'
    BY <1>2, <1>4 DEF Inductive, PageBehind, AttemptLeft
  <2>9. OwnerOK'
    BY <2>1, CoordinatorAssumption DEF OwnerOK
  <2>10. TypeOK'
    BY <1>4, <2>4, TypesSplitNext
  <2> QED BY <2>5, <2>7, <2>8, <2>9, <2>10 DEF Inductive
<1>6. CASE lease.owner # p
  <2>1. UNCHANGED <<lease, cursor, skipped>>
    BY <1>6 DEF Finish
  <2>2. SharedTypes' /\ CountedIsDue' /\ Milder
    BY <1>1, <1>3, <2>1 DEF SharedTypes, Inductive, CountedIsDue, Due, Milder
  <2> QED BY <1>2, <1>6, <2>2, StepOfPass
<1> QED BY <1>5, <1>6

(* A lease that runs out: a dead pass owes nothing, a slow one is paid for. *)
LEMMA ExpireStep ==
  ASSUME Inductive, ExpireAbandoned \/ ExpireSlow
  PROVE  Inductive'
<1>1. TypeOK /\ SharedTypes /\ PassTypes
  BY TypesSplit DEF Inductive
<1>2. /\ lease.live /\ lease' = [lease EXCEPT !.live = FALSE]
      /\ UNCHANGED <<grant, pending, cursor, pass, skipped>>
      /\ \/ pass[lease.owner].step = "idle" /\ faults' = faults
         \/ faults' = faults + 1
  BY DEF ExpireAbandoned, ExpireSlow, Fault
<1>3. lease \in LeaseRecords /\ lease' \in LeaseRecords /\ lease'.owner = lease.owner /\ ~lease'.live
  BY <1>1, <1>2 DEF SharedTypes, LeaseRecords
<1>4. SharedTypes' /\ PassTypes' /\ CountedIsDue' /\ PageBehind' /\ AttemptLeft'
  BY <1>1, <1>2, <1>3
     DEF SharedTypes, PassTypes, Inductive, CountedIsDue, Due, PageBehind, AttemptLeft
<1>5. TypeOK'
  BY <1>4, TypesSplitNext
<1>6. /\ skipped \in Nat /\ faults \in Nat /\ cursor \in Nat /\ Distance(cursor) \in Nat /\ N \in Nat
      /\ Allowed(faults) \in Nat /\ Allowed(faults + 1) = Allowed(faults) + N
      /\ skipped + N <= Allowed(faults + 1)
  BY <1>1, Numbers, GrantsAreFinite, DistanceInRound, AllowedGrows, NearIsAllowed DEF Inductive
<1>7. Near'
  <2>1. skipped + Distance(cursor) <= Allowed(faults')
    BY <1>2, <1>6 DEF Inductive, Near
  <2> QED BY <1>2, <2>1 DEF Near, Distance, Ahead, Allowed
<1>8. OwnerOK'
  <2>1. SUFFICES ASSUME NEW q \in Pass, lease'.owner = q
                 PROVE  LostIsPaid(q)' /\ SeesWatched(q)' /\ ComesNearer(q)'
    BY DEF OwnerOK
  <2>2. lease.owner = q /\ pass'[q] = pass[q]
    BY <1>2, <1>3, <2>1
  <2>3. SeesWatched(q) /\ ComesNearer(q)
    BY <2>2 DEF Inductive, OwnerOK
  <2>4. SeesWatched(q)'
    BY <1>2, <2>2, <2>3 DEF SeesWatched
  <2>5. CASE pass[q].step = "idle"
    BY <1>2, <2>2, <2>4, <2>5 DEF LostIsPaid, ComesNearer, Running
  <2>6. CASE faults' = faults + 1
    <3>1. LostIsPaid(q)'
      BY <1>2, <1>6, <2>6 DEF LostIsPaid, Allowed, N
    <3>2. pass[q].cursor \in Nat /\ Distance(pass[q].cursor) \in Nat
      BY <1>1, Numbers, DistanceInRound
    <3>3. ComesNearer(q)'
      <4> DEFINE d == Distance(pass[q].cursor)
      <4>1. /\ skipped + d <= Allowed(faults) => skipped + d <= Allowed(faults')
            /\ skipped + 1 + d <= Allowed(faults) => skipped + 1 + d <= Allowed(faults')
        BY <1>6, <2>6, <3>2
      <4> QED BY <1>2, <2>2, <2>3, <4>1 DEF ComesNearer, Distance, Ahead, Allowed
    <3> QED BY <2>4, <3>1, <3>3
  <2> QED BY <1>2, <2>2, <2>5, <2>6
<1> QED BY <1>4, <1>5, <1>7, <1>8 DEF Inductive

-----------------------------------------------------------------------------
\* The theorems

(* Nobody waits before the first pass.                                     *)
LEMMA InitInductive == Init => Inductive
<1> SUFFICES ASSUME Init PROVE Inductive
  OBVIOUS
<1>1. SharedTypes
  BY CoordinatorAssumption DEF Init, SharedTypes, LeaseRecords
<1>2. PassTypes /\ \A p \in Pass : pass[p] = Idle
  <2>1. Idle \in PassRecords /\ AtGrant(Idle)
    BY EmptyRecords DEF Idle
  <2>2. pass = [p \in Pass |-> Idle]
    BY DEF Init
  <2> QED BY <2>1, <2>2 DEF PassTypes
<1>3. TypeOK
  BY <1>1, <1>2, TypesSplit
<1>4. CountedIsDue
  BY DEF Init, CountedIsDue
<1>5. Near
  <2>1. Distance(0) \in Nat /\ Distance(0) + 1 <= N /\ N \in Nat /\ Allowed(0) \in Nat /\ N <= Allowed(0)
    BY DistanceInRound, AllowedGrows, GrantsAreFinite
  <2> QED BY <2>1 DEF Init, Near
<1>6. PageBehind /\ AttemptLeft
  BY <1>2 DEF PageBehind, AttemptLeft, Idle, Empty
<1>7. OwnerOK
  BY CoordinatorAssumption DEF Init, OwnerOK
<1> QED BY <1>3, <1>4, <1>5, <1>6, <1>7 DEF Inductive

(* Every step keeps the invariant.                                         *)
LEMMA NextInductive == Inductive /\ [Next]_vars => Inductive'
<1> SUFFICES ASSUME Inductive, [Next]_vars PROVE Inductive'
  OBVIOUS
<1>1. ASSUME NEW g \in Grant, ChangeGrant(g) PROVE Inductive'
  BY <1>1, ChangeGrantStep
<1>2. ASSUME NEW g \in Grant, Change(g) PROVE Inductive'
  BY <1>2, ChangeStep
<1>3. ASSUME NEW p \in Pass, Step(p) PROVE Inductive'
  BY <1>3, ClaimStep, QueryStep, ExamineStep, RenewStep, AttemptStep, EndLoopStep, FinishStep DEF Step
<1>4. ASSUME NEW p \in Pass, QueryFails(p) PROVE Inductive'
  BY <1>4, QueryFailsStep
<1>5. ASSUME NEW p \in Pass, Crash(p) PROVE Inductive'
  BY <1>5, CrashStep
<1>6. ASSUME ExpireAbandoned \/ ExpireSlow PROVE Inductive'
  BY <1>6, ExpireStep
<1>7. ASSUME UNCHANGED vars PROVE Inductive'
  BY <1>7 DEF vars, Inductive, TypeOK, CountedIsDue, Due, Near, Distance, Ahead, Allowed, PageBehind,
              AttemptLeft, OwnerOK, LostIsPaid, SeesWatched, ComesNearer
<1> QED BY <1>1, <1>2, <1>3, <1>4, <1>5, <1>6, <1>7 DEF Next

(* The invariant of the passes: the passes that skipped the watched grant  *)
(* and the way ahead of the cursor fit in a round, and one more for each   *)
(* thing that went wrong.                                                  *)
THEOREM InductiveInvariant == Spec => []Inductive
BY InitInductive, NextInductive, PTL DEF Spec

(* The leases, pages and cursors are what the code makes of them.          *)
THEOREM TypeCorrect == Spec => []TypeOK
<1>1. Inductive => TypeOK
  BY DEF Inductive
<1> QED BY <1>1, InductiveInvariant, PTL

(* Work of a grant is tried after no more passes than there are grants,    *)
(* and that many again for each thing that went wrong, however the grants  *)
(* are ordered, whatever fails, and however many passes run.               *)
THEOREM WaitIsBounded == Spec => []BoundedWait
<1>1. Inductive => BoundedWait
  <2>1. SUFFICES ASSUME Inductive PROVE BoundedWait
    OBVIOUS
  <2>2. skipped <= Allowed(faults)
    BY <2>1, NearIsAllowed DEF Inductive
  <2> QED BY <2>2 DEF BoundedWait, Allowed, N
<1> QED BY <1>1, InductiveInvariant, PTL
=============================================================================
