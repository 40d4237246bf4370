---------------------------- MODULE SeriesProofs ----------------------------
(***************************************************************************)
(* What holds of Series for any number of items and units, any placement   *)
(* of fan-outs and any values of the dials.                                *)
(***************************************************************************)
EXTENDS Series, FiniteSetTheorems, WellFoundedInduction, TLAPS

-----------------------------------------------------------------------------
(* Types *)

\* What the helpers return.
LEMMA HigherType ==
  ASSUME NEW a \in Int, NEW b \in Int
  PROVE  Higher(a, b) \in Int /\ Higher(a, b) >= a /\ Higher(a, b) >= b
            /\ Higher(a, b) \in {a, b}
  BY DEF Higher

LEMMA CountType ==
  ASSUME NEW S, NEW u \in Units
  PROVE  Count(S)[u] \in Int
  BY DEF Count

LEMMA RankType ==
  \A u \in Units : Rank(u) \in Nat /\ QueueRank(u) \in Int /\ QueueRank(u) = Rank(u) - 1
  BY NUnitsNat DEF Units, Rank, QueueRank

LEMMA InFlightAreItems == TypeOK => inFlight \subseteq Items
  BY NItemsNat DEF TypeOK, Items

\* The mutation halves of the moves keep the types of what they assign.
LEMMA TakeUnitType ==
  ASSUME TypeOK, NEW i \in Items, NEW u \in Units, TakeUnit(i, u)
  PROVE  /\ occupancy' \in [Units -> Int]
         /\ queued' \in [Units -> Int]
         /\ occupied' \in [Items -> SUBSET Units]
         /\ entered' \in [Items -> SUBSET Units]
         /\ queuedAt' \in [Items -> Units \union {NoUnit}]
         /\ reachedRank' \in [Items -> Int]
         /\ maxRank' \in [Items -> Int]
         /\ body' \in [Items -> {"none", "idle", "busy"}]
<1> USE DEF TypeOK, TakeUnit
<1>1. occupancy' \in [Units -> Int] /\ queued' \in [Units -> Int]
  BY CountType
<1>2. occupied' \in [Items -> SUBSET Units] /\ entered' \in [Items -> SUBSET Units]
  BY DEF Behind
<1>3. queuedAt' \in [Items -> Units \union {NoUnit}]
  OBVIOUS
<1>4. reachedRank' \in [Items -> Int] /\ maxRank' \in [Items -> Int]
  <2> DEFINE published == IF u \notin FanOuts THEN Rank(u) ELSE QueueRank(u)
  <2>1. Rank(u) \in Int /\ published \in Int
    BY RankType
  <2>2. Higher(reachedRank[i], Rank(u)) \in Int /\ Higher(maxRank[i], published) \in Int
    BY <2>1, HigherType
  <2> QED BY <2>2
<1>5. body' \in [Items -> {"none", "idle", "busy"}]
  OBVIOUS
<1> QED BY <1>1, <1>2, <1>3, <1>4, <1>5

LEMMA TakeQueueType ==
  ASSUME TypeOK, NEW i \in Items, NEW u \in Units, TakeQueue(i, u)
  PROVE  /\ occupancy' \in [Units -> Int]
         /\ queued' \in [Units -> Int]
         /\ occupied' \in [Items -> SUBSET Units]
         /\ queuedAt' \in [Items -> Units \union {NoUnit}]
         /\ reachedRank' \in [Items -> Int]
         /\ maxRank' \in [Items -> Int]
<1> USE DEF TypeOK, TakeQueue
<1>1. occupancy' \in [Units -> Int] /\ queued' \in [Units -> Int]
  BY CountType
<1>2. occupied' \in [Items -> SUBSET Units]
  BY DEF Behind
<1>3. queuedAt' \in [Items -> Units \union {NoUnit}]
  OBVIOUS
<1>4. reachedRank' \in [Items -> Int] /\ maxRank' \in [Items -> Int]
  BY HigherType, RankType
<1> QED BY <1>1, <1>2, <1>3, <1>4

LEMMA ReleaseBelowType ==
  ASSUME TypeOK, NEW i \in Items, NEW r \in Int, NEW keep, ReleaseBelow(i, r, keep)
  PROVE  /\ occupancy' \in [Units -> Int]
         /\ queued' \in [Units -> Int]
         /\ occupied' \in [Items -> SUBSET Units]
         /\ queuedAt' \in [Items -> Units \union {NoUnit}]
<1> USE DEF TypeOK, ReleaseBelow
<1>1. occupancy' \in [Units -> Int] /\ queued' \in [Units -> Int]
  BY CountType
<1>2. occupied' \in [Items -> SUBSET Units]
  BY DEF Behind
<1>3. queuedAt' \in [Items -> Units \union {NoUnit}]
  OBVIOUS
<1> QED BY <1>1, <1>2, <1>3

\* The initial state is well typed.
LEMMA InitType == Init => TypeOK
<1> SUFFICES ASSUME Init PROVE TypeOK
  OBVIOUS
<1>1. limit \in [Units -> Nat \ {0}] /\ queueSize \in [Units -> Nat]
  <2>1. \A u \in Units : LimitValues[u] \subseteq Nat \ {0} /\ QueueValues[u] \subseteq Nat
    BY LimitsPositive, QueueSizesNat
  <2> QED BY <2>1 DEF Init
<1>2. created \in 0 .. NItems
  BY NItemsNat DEF Init
<1> QED BY <1>1, <1>2 DEF Init, TypeOK

\* A late failure cancels items only.
LEMMA LateFailureType ==
    ASSUME TypeOK, NEW i \in Items, MayFailLate(i)
    PROVE  canceled' \subseteq Items
<1>1. Younger(i) \subseteq Items
  BY InFlightAreItems DEF Younger
<1>2. canceled \subseteq Items
  BY DEF TypeOK
<1> QED BY <1>1, <1>2 DEF MayFailLate

\* Every step keeps the types.
LEMMA NextType == TypeOK /\ [Next]_vars => TypeOK'
<1> SUFFICES ASSUME TypeOK, [Next]_vars PROVE TypeOK'
  OBVIOUS
<1> USE DEF life, dials, counters, ranks, kept
<1>1. CASE UNCHANGED vars
  BY <1>1 DEF TypeOK, vars
<1>2. CASE Create
  <2>1. created + 1 \in Items /\ 0 \in Units
    BY <1>2, NItemsNat, NUnitsNat DEF Create, TypeOK, Items, Units
  <2>2. created' \in 0 .. NItems /\ inFlight' \subseteq 1 .. created'
    BY <1>2, NItemsNat DEF Create, TypeOK
  <2> QED BY <1>2, <2>1, <2>2 DEF Create, TypeOK
<1>3. CASE CancelInFlight
  <2> QED BY <1>3, InFlightAreItems DEF CancelInFlight, TypeOK
<1>4. CASE Quiet
  BY <1>4 DEF Quiet, TypeOK, vars
<1>5. ASSUME NEW i \in Items,
             \/ CloseBody(i) \/ MoveFails(i) \/ Schedule(i)
             \/ BodyIdle(i) \/ Return(i)
      PROVE  TypeOK'
  <2>1. CASE CloseBody(i)
    BY <2>1 DEF CloseBody, TypeOK
  <2>2. CASE MoveFails(i)
    BY <2>2 DEF MoveFails, TypeOK
  <2>3. CASE Schedule(i)
    <3>1. maxRank' \in [Items -> Int]
      BY <2>3, HigherType DEF Schedule, TypeOK
    <3> QED BY <2>3, <3>1 DEF Schedule, TypeOK
  <2>4. CASE BodyIdle(i)
    <3>1. canceled' \subseteq Items
      BY <2>4, LateFailureType DEF BodyIdle
    <3> QED BY <2>4, <3>1 DEF BodyIdle, TypeOK
  <2>5. CASE Return(i)
    <3>1. Younger(i) \subseteq Items
      BY InFlightAreItems DEF Younger
    <3>2. canceled' \subseteq Items /\ returned' \subseteq Items
      <4>1. canceled' \in {canceled, canceled \union Younger(i)}
            /\ returned' = returned \union {i}
        BY <2>5 DEF Return
      <4>2. canceled \subseteq Items /\ returned \subseteq Items
        BY DEF TypeOK
      <4> QED BY <3>1, <4>1, <4>2
    <3>3. body' \in [Items -> {"none", "idle", "busy"}]
      BY <2>5 DEF Return, TypeOK
    <3> QED BY <2>5, <3>2, <3>3 DEF Return, TypeOK
  <2> QED BY <1>5, <2>1, <2>2, <2>3, <2>4, <2>5
<1>6. ASSUME NEW i \in Items, Enter(i) PROVE TypeOK'
  <2>1. target[i] \in Units
    BY <1>6 DEF Enter, Waiting, TypeOK
  <2>2. TakeUnit(i, target[i])
    BY <1>6 DEF Enter
  <2> QED BY <1>6, <2>1, <2>2, TakeUnitType DEF Enter, TypeOK
<1>7. ASSUME NEW i \in Items, StepAside(i) PROVE TypeOK'
  <2>1. target[i] \in Units
    BY <1>7 DEF StepAside, Waiting, TypeOK
  <2>2. TakeQueue(i, target[i])
    BY <1>7 DEF StepAside
  <2> QED BY <1>7, <2>1, <2>2, TakeQueueType DEF StepAside, TypeOK
<1>8. ASSUME NEW i \in Items, Finish(i) PROVE TypeOK'
  <2>1. occupancy' \in [Units -> Int] /\ queued' \in [Units -> Int]
    BY <1>8, CountType DEF Finish, TypeOK
  <2>2. canceled' \subseteq Items
    BY <1>8, LateFailureType DEF Finish
  <2> QED BY <1>8, <2>1, <2>2 DEF Finish, TypeOK
<1>9. ASSUME NEW i \in Items, NEW u \in Units,
             \/ MoveTo(i, u) \/ Retain(i, u) \/ RetainFor(i, u) \/ RetainBody(i, u)
      PROVE  TypeOK'
  <2>1. CASE MoveTo(i, u)
    BY <2>1 DEF MoveTo, TypeOK
  <2>2. CASE Retain(i, u)
    BY <2>2 DEF Retain, TypeOK
  <2>3. CASE RetainFor(i, u)
    BY <2>3 DEF RetainFor, TypeOK
  <2>4. CASE RetainBody(i, u)
    <3>1. maxRank' \in [Items -> Int]
      BY <2>4, HigherType, RankType DEF RetainBody, TypeOK
    <3> QED BY <2>4, <3>1 DEF RetainBody, TypeOK
  <2> QED BY <1>9, <2>1, <2>2, <2>3, <2>4
<1>10. ASSUME NEW i \in Items, NEW u \in Units, TryMoveTo(i, u) PROVE TypeOK'
  <2>1. CASE TakeUnit(i, u)
    BY <1>10, <2>1, TakeUnitType DEF TryMoveTo, TypeOK
  <2>2. CASE body' = [body EXCEPT ![i] = "none"] /\
             UNCHANGED <<counters, occupied, entered, queuedAt, ranks>>
    BY <1>10, <2>2 DEF TryMoveTo, TypeOK
  <2> QED BY <1>10, <2>1, <2>2 DEF TryMoveTo
<1>11. ASSUME NEW i \in Items, NEW u \in Units,
              ReleaseStageHold(i, u) \/ ReleaseRetained(i, u)
       PROVE  TypeOK'
  <2>1. reachedRank[i] \in Int
    BY DEF TypeOK
  <2>2. CASE ReleaseStageHold(i, u)
    BY <2>1, <2>2, ReleaseBelowType DEF ReleaseStageHold, TypeOK
  <2>3. CASE ReleaseRetained(i, u)
    <3>1. canceled' \subseteq Items
      BY <2>3, LateFailureType DEF ReleaseRetained
    <3> QED BY <2>1, <2>3, <3>1, ReleaseBelowType DEF ReleaseRetained, TypeOK
  <2> QED BY <1>11, <2>2, <2>3
<1>12. ASSUME NEW u \in Units, SetLimit(u) \/ SetQueueSize(u) PROVE TypeOK'
  <2>1. LimitValues[u] \subseteq Nat \ {0} /\ QueueValues[u] \subseteq Nat
    BY LimitsPositive, QueueSizesNat
  <2>2. CASE SetLimit(u)
    <3>1. PICK l \in LimitValues[u] : limit' = [limit EXCEPT ![u] = l]
      BY <2>2 DEF SetLimit
    <3>2. limit' \in [Units -> Nat \ {0}]
      BY <2>1, <3>1 DEF TypeOK
    <3> QED BY <2>2, <3>2 DEF SetLimit, TypeOK
  <2>3. CASE SetQueueSize(u)
    <3>1. PICK n \in QueueValues[u] : queueSize' = [queueSize EXCEPT ![u] = n]
      BY <2>3 DEF SetQueueSize
    <3>2. queueSize' \in [Units -> Nat]
      BY <2>1, <3>1 DEF TypeOK
    <3> QED BY <2>3, <3>2 DEF SetQueueSize, TypeOK
  <2> QED BY <1>12, <2>2, <2>3
<1> QED
  BY <1>1, <1>2, <1>3, <1>4, <1>5, <1>6, <1>7, <1>8, <1>9, <1>10, <1>11, <1>12 DEF Next

\* Every variable keeps its type, for all constants the assumptions allow.
THEOREM TypeCorrect == Spec => []TypeOK
<1>1. Init => TypeOK
  BY InitType
<1>2. TypeOK /\ [Next]_vars => TypeOK'
  BY NextType
<1> QED BY <1>1, <1>2, PTL DEF Spec

-----------------------------------------------------------------------------
(* Order *)

\* A nonempty set of items has a youngest.
LEMMA YoungestExists ==
  ASSUME NEW S \in SUBSET Items, S # {}
  PROVE  \E j \in S : \A k \in S : k <= j
<1> DEFINE R == {ss \in Nat \X Nat : ss[1] < ss[2]}
           T == {n \in Nat : NItems - n \in S}
<1>1. IsWellFoundedOn(R, Nat)
  BY NatLessThanWellFounded DEF OpToRel
<1>2. T # {} /\ T \subseteq Nat
  <2>1. PICK j \in S : TRUE
    OBVIOUS
  <2>2. NItems - j \in Nat /\ NItems - (NItems - j) = j
    BY NItemsNat DEF Items
  <2> QED BY <2>1, <2>2
<1> HIDE DEF R, T
<1>3. PICK n \in T : \A m \in T : <<m, n>> \notin R
  BY <1>1, <1>2, WFMin
<1>4. n \in Nat /\ NItems - n \in S
  BY <1>3 DEF T
<1>5. ASSUME NEW k \in S PROVE k <= NItems - n
  <2>1. NItems - k \in Nat /\ NItems - (NItems - k) = k
    BY NItemsNat DEF Items
  <2>2. NItems - k \in T
    BY <2>1 DEF T
  <2>3. ~(NItems - k < n)
    BY <1>3, <1>4, <2>1, <2>2 DEF R, T
  <2> QED BY <1>4, <2>1, <2>3, NItemsNat DEF Items
<1> QED BY <1>4, <1>5

\* The gate asks the predecessor only, and that is enough: with the order of
\* the list intact, everybody older has published the rank too.
LEMMA GateSpeaksForAll ==
  ASSUME TypeOK, OrderGate, NEW i \in inFlight, NEW r \in Int, GateOpen(i, r)
  PROVE  \A old \in Older(i) : maxRank[old] >= r
<1> SUFFICES ASSUME NEW old \in Older(i) PROVE maxRank[old] >= r
  OBVIOUS
<1>1. Older(i) \subseteq Items /\ Older(i) \subseteq inFlight
  BY InFlightAreItems DEF Older
<1>2. PICK j \in Older(i) : \A k \in Older(i) : k <= j
  BY <1>1, YoungestExists
<1>3. IsPrev(j, i)
  BY <1>2 DEF IsPrev
<1>4. maxRank[j] >= r
  BY <1>1, <1>3 DEF GateOpen
<1>5. maxRank[old] >= maxRank[j]
  <2>1. CASE old = j
    BY <1>1, <2>1 DEF TypeOK
  <2>2. CASE old # j
    <3>1. old < j
      BY <1>1, <1>2, <2>2 DEF Items
    <3> QED BY <1>1, <3>1 DEF OrderGate
  <2> QED BY <2>1, <2>2
<1>6. maxRank[old] \in Int /\ maxRank[j] \in Int
  BY <1>1 DEF TypeOK
<1> QED BY <1>4, <1>5, <1>6

\* Item i publishes rank r and enters the units of E, which everybody older
\* has published: the order stays.
LEMMA AdvanceKeepsOrder ==
  ASSUME TypeOK, OrderGate, NoOvertaking,
         NEW i \in inFlight, NEW r \in Int, NEW E \in SUBSET Units,
         r >= maxRank[i],
         \A old \in Older(i) : maxRank[old] >= r,
         \A old \in Older(i) : \A u \in E : maxRank[old] >= Rank(u),
         inFlight' = inFlight,
         maxRank' = [maxRank EXCEPT ![i] = r],
         entered' = [entered EXCEPT ![i] = @ \union E]
  PROVE  OrderGate' /\ NoOvertaking'
<1> inFlight \subseteq Items
  BY InFlightAreItems
<1>1. \A j \in inFlight : maxRank[j] \in Int /\ maxRank'[j] \in Int /\ maxRank'[j] >= maxRank[j]
  BY DEF TypeOK
<1>2. \A u \in Units : Rank(u) \in Int
  BY RankType
<1>3. ASSUME NEW old \in inFlight, NEW young \in inFlight, old < young
      PROVE  maxRank'[old] >= maxRank'[young]
  <2>1. CASE young = i
    BY <1>1, <1>3, <2>1 DEF Older, TypeOK, Items
  <2>2. CASE young # i
    BY <1>1, <1>3, <2>2 DEF OrderGate, TypeOK
  <2> QED BY <2>1, <2>2
<1>4. ASSUME NEW old \in inFlight, NEW young \in inFlight, old < young,
             NEW u \in entered'[young]
      PROVE  maxRank'[old] >= Rank(u)
  <2>1. u \in entered[young] \/ (young = i /\ u \in E)
    BY <1>4 DEF TypeOK
  <2>2. u \in Units
    BY <2>1 DEF TypeOK
  <2>3. maxRank[old] >= Rank(u)
    BY <1>4, <2>1 DEF NoOvertaking, Older
  <2> QED BY <1>1, <1>2, <2>2, <2>3
<1> QED BY <1>3, <1>4 DEF OrderGate, NoOvertaking

OrderInv == TypeOK /\ PositionsFit /\ OrderGate /\ NoOvertaking

LEMMA OrderInit == Init => OrderInv
<1> SUFFICES ASSUME Init PROVE OrderInv
  OBVIOUS
<1>1. TypeOK
  BY InitType
<1>2. PositionsFit
  BY DEF Init, PositionsFit
<1>3. OrderGate /\ NoOvertaking
  BY DEF Init, OrderGate, NoOvertaking
<1> QED BY <1>1, <1>2, <1>3 DEF OrderInv

\* An item admitted to u: the invariant but for its types.
LEMMA TakeUnitKeepsOrder ==
  ASSUME OrderInv, NEW i \in inFlight, NEW u \in Units, TakeUnit(i, u),
         GateOpen(i, Rank(u)), Rank(u) >= reachedRank[i],
         inFlight' = inFlight, created' = created,
         target' = [target EXCEPT ![i] = NoUnit]
  PROVE  PositionsFit' /\ OrderGate' /\ NoOvertaking'
<1> DEFINE published == IF u \notin FanOuts THEN Rank(u) ELSE QueueRank(u)
           r == Higher(maxRank[i], published)
<1>1. TypeOK /\ OrderGate /\ NoOvertaking /\ PositionsFit /\ i \in Items
  BY InFlightAreItems DEF OrderInv
<1>2. Rank(u) \in Nat /\ published \in Int /\ published <= Rank(u)
  BY RankType
<1>3. r \in Int /\ r >= maxRank[i] /\ (r = maxRank[i] \/ r = published)
  BY <1>1, <1>2, HigherType DEF TypeOK
<1>4. \A old \in Older(i) : maxRank[old] \in Int /\ maxRank[old] >= Rank(u)
  BY <1>1, <1>2, GateSpeaksForAll, InFlightAreItems DEF Older, TypeOK
<1>5. \A old \in Older(i) : maxRank[old] >= r
  BY <1>1, <1>2, <1>3, <1>4 DEF OrderGate, Older
<1>6. maxRank' = [maxRank EXCEPT ![i] = r] /\ entered' = [entered EXCEPT ![i] = @ \union {u}]
  BY DEF TakeUnit
<1>7. OrderGate' /\ NoOvertaking'
  <2> DEFINE E == {u}
  <2>1. E \in SUBSET Units /\ \A old \in Older(i) : \A v \in E : maxRank[old] >= Rank(v)
    BY <1>4
  <2>2. entered' = [entered EXCEPT ![i] = @ \union E]
    BY <1>6
  <2>3. maxRank' = [maxRank EXCEPT ![i] = r]
    BY <1>6
  <2> HIDE DEF r, E
  <2> QED BY <1>1, <1>3, <1>5, <2>1, <2>2, <2>3, AdvanceKeepsOrder
<1>8. reachedRank' = [reachedRank EXCEPT ![i] = Rank(u)]
  <2>1. Higher(reachedRank[i], Rank(u)) = Rank(u)
    BY <1>1, <1>2 DEF Higher, TypeOK
  <2> QED BY <2>1 DEF TakeUnit
<1>9. ASSUME NEW j \in Items
      PROVE  /\ occupied'[j] \subseteq entered'[j]
             /\ maxRank'[j] >= 0
             /\ j > created => maxRank'[j] = 0 /\ body'[j] = "none"
             /\ target'[j] # NoUnit => Rank(target'[j]) >= reachedRank'[j]
             /\ body'[j] # "none" => \E v \in entered'[j] : reachedRank'[j] = Rank(v)
  <2>1. CASE j # i
    BY <1>1, <1>6, <1>8, <2>1 DEF TakeUnit, PositionsFit, TypeOK
  <2>2. CASE j = i
    <3>1. occupied'[i] \subseteq entered'[i]
      BY <1>1 DEF TakeUnit, PositionsFit, TypeOK
    <3>2. maxRank'[i] >= 0
      BY <1>1, <1>3, <1>6 DEF PositionsFit, TypeOK
    <3>3. ~(i > created)
      BY <1>1, NItemsNat DEF TypeOK
    <3>4. target'[i] = NoUnit
      BY <1>1 DEF TypeOK
    <3>5. u \in entered'[i] /\ reachedRank'[i] = Rank(u)
      BY <1>1, <1>6, <1>8 DEF TypeOK
    <3> QED BY <2>2, <3>1, <3>2, <3>3, <3>4, <3>5
  <2> QED BY <2>1, <2>2
<1>10. PositionsFit'
  BY <1>9 DEF PositionsFit
<1> QED BY <1>7, <1>10

\* An item that steps aside.
LEMMA TakeQueueKeepsOrder ==
  ASSUME OrderInv, NEW i \in inFlight, NEW u \in Units, TakeQueue(i, u),
         GateOpen(i, QueueRank(u)), target[i] = u, body[i] = "none",
         UNCHANGED <<inFlight, created, entered, target, body>>
  PROVE  PositionsFit' /\ OrderGate' /\ NoOvertaking'
<1> DEFINE r == IF QueueRank(u) > reachedRank[i]
                   THEN Higher(maxRank[i], QueueRank(u)) ELSE maxRank[i]
<1>1. TypeOK /\ OrderGate /\ NoOvertaking /\ PositionsFit /\ i \in Items
  BY InFlightAreItems DEF OrderInv
<1>2. Rank(u) \in Nat /\ QueueRank(u) \in Int /\ QueueRank(u) <= Rank(u)
  BY RankType
<1>3. r \in Int /\ r >= maxRank[i] /\ (r = maxRank[i] \/ r = QueueRank(u))
  BY <1>1, <1>2, HigherType DEF TypeOK
<1>4. \A old \in Older(i) : maxRank[old] >= r
  BY <1>1, <1>2, <1>3, GateSpeaksForAll DEF OrderGate, Older
<1>5. maxRank' = [maxRank EXCEPT ![i] = r]
  BY DEF TakeQueue
<1>6. OrderGate' /\ NoOvertaking'
  <2> DEFINE E == {}
  <2>1. E \in SUBSET Units /\ \A old \in Older(i) : \A v \in E : maxRank[old] >= Rank(v)
    OBVIOUS
  <2>2. entered' = [entered EXCEPT ![i] = @ \union E]
    BY <1>1 DEF TypeOK
  <2> HIDE DEF r, E
  <2> QED BY <1>1, <1>3, <1>4, <1>5, <2>1, <2>2, AdvanceKeepsOrder
<1>7. Rank(u) >= reachedRank'[i]
  <2>1. Rank(u) >= reachedRank[i]
    BY <1>1 DEF PositionsFit, Units, NoUnit
  <2>2. Higher(reachedRank[i], QueueRank(u)) <= Rank(u)
    BY <1>1, <1>2, <2>1 DEF Higher, TypeOK
  <2>3. reachedRank'[i] = Higher(reachedRank[i], QueueRank(u))
    BY <1>1 DEF TakeQueue, TypeOK
  <2> QED BY <2>2, <2>3
<1>8. ASSUME NEW j \in Items
      PROVE  /\ occupied'[j] \subseteq entered'[j]
             /\ maxRank'[j] >= 0
             /\ j > created' => maxRank'[j] = 0 /\ body'[j] = "none"
             /\ target'[j] # NoUnit => Rank(target'[j]) >= reachedRank'[j]
             /\ body'[j] # "none" => \E v \in entered'[j] : reachedRank'[j] = Rank(v)
  <2>1. CASE j # i
    <3>1. occupied'[j] = occupied[j] /\ maxRank'[j] = maxRank[j]
          /\ reachedRank'[j] = reachedRank[j]
      BY <1>1, <2>1 DEF TakeQueue, TypeOK
    <3> QED BY <1>1, <3>1 DEF PositionsFit
  <2>2. CASE j = i
    <3>1. occupied'[i] \subseteq entered'[i]
      BY <1>1 DEF TakeQueue, PositionsFit, TypeOK
    <3>2. maxRank'[i] >= 0
      BY <1>1, <1>3, <1>5 DEF PositionsFit, TypeOK
    <3>3. ~(i > created')
      BY <1>1, NItemsNat DEF TypeOK
    <3> QED BY <1>7, <2>2, <3>1, <3>2, <3>3
  <2> QED BY <2>1, <2>2
<1>9. PositionsFit'
  BY <1>8 DEF PositionsFit
<1> QED BY <1>6, <1>9

\* A new item joins behind everybody.
LEMMA CreateKeepsOrder ==
  ASSUME OrderInv, Create
  PROVE  PositionsFit' /\ OrderGate' /\ NoOvertaking'
<1> DEFINE new == created + 1
<1>1. TypeOK /\ OrderGate /\ NoOvertaking /\ PositionsFit
  BY DEF OrderInv
<1>2. /\ new \in Items /\ new > created /\ \A j \in inFlight : j \in Items /\ j < new
      /\ 0 \in Units
  BY <1>1, NItemsNat, NUnitsNat, InFlightAreItems DEF Create, TypeOK, Items, Units
<1>3. /\ inFlight' = inFlight \union {new} /\ created' = new
      /\ occupied' = [occupied EXCEPT ![new] = {0}]
      /\ entered' = [entered EXCEPT ![new] = {0}]
      /\ UNCHANGED <<maxRank, reachedRank, target, body>>
  BY DEF Create, ranks
<1> HIDE DEF new
<1>4. maxRank[new] = 0 /\ \A j \in Items : maxRank[j] \in Int /\ maxRank[j] >= 0
  BY <1>1, <1>2 DEF PositionsFit, TypeOK
<1>5. Rank(0) = 0
  BY DEF Rank
<1>6. ASSUME NEW old \in inFlight', NEW young \in inFlight', old < young
      PROVE  maxRank'[old] >= maxRank'[young] /\ \A u \in entered'[young] : maxRank'[old] >= Rank(u)
  <2>1. old \in inFlight /\ old \in Items
    <3>1. old # new
      BY <1>2, <1>3, <1>6 DEF Items
    <3> QED BY <1>2, <1>3, <3>1
  <2>2. CASE young = new
    BY <1>1, <1>2, <1>3, <1>4, <1>5, <2>1, <2>2 DEF TypeOK
  <2>3. CASE young # new
    BY <1>1, <1>2, <1>3, <1>6, <2>1, <2>3 DEF OrderGate, NoOvertaking, TypeOK
  <2> QED BY <2>2, <2>3
<1>7. PositionsFit'
  <2>1. ASSUME NEW j \in Items
        PROVE  /\ occupied'[j] \subseteq entered'[j]
               /\ maxRank'[j] >= 0
               /\ j > created' => maxRank'[j] = 0 /\ body'[j] = "none"
               /\ target'[j] # NoUnit => Rank(target'[j]) >= reachedRank'[j]
    <3>1. occupied'[j] \subseteq entered'[j]
      BY <1>1, <1>3 DEF PositionsFit, TypeOK
    <3>2. j > created' => j > created
      BY <1>1, <1>2, <1>3 DEF TypeOK, Items
    <3> QED BY <1>1, <1>3, <3>1, <3>2 DEF PositionsFit
  <2>2. ASSUME NEW j \in Items, body'[j] # "none"
        PROVE  \E v \in entered'[j] : reachedRank'[j] = Rank(v)
    <3>1. CASE j # new
      BY <1>1, <1>3, <2>2, <3>1 DEF PositionsFit, TypeOK
    <3>2. CASE j = new
      BY <1>1, <1>2, <1>3, <2>2, <3>2 DEF PositionsFit
    <3> QED BY <3>1, <3>2
  <2> QED BY <2>1, <2>2 DEF PositionsFit
<1> QED BY <1>6, <1>7 DEF OrderGate, NoOvertaking

\* Steps that publish nothing, enter nothing and create nothing: items only
\* leave, and what remains of PositionsFit concerns the item that steps.
LEMMA QuietKeepsOrder ==
  ASSUME OrderInv, UNCHANGED <<created, entered, ranks>>, inFlight' \subseteq inFlight
  PROVE  OrderGate' /\ NoOvertaking'
  BY DEF OrderInv, OrderGate, NoOvertaking, ranks

LEMMA OrderNext == OrderInv /\ [Next]_vars => OrderInv'
<1> SUFFICES ASSUME OrderInv, [Next]_vars PROVE OrderInv'
  OBVIOUS
<1>1. TypeOK /\ TypeOK' /\ PositionsFit /\ OrderGate /\ NoOvertaking
  BY NextType DEF OrderInv
<1>2. inFlight \subseteq Items
  BY <1>1, InFlightAreItems
<1> SUFFICES PositionsFit' /\ OrderGate' /\ NoOvertaking'
  BY <1>1 DEF OrderInv
<1> USE DEF life, dials, counters, ranks, kept
<1>3. CASE UNCHANGED vars
  BY <1>1, <1>3 DEF vars, PositionsFit, OrderGate, NoOvertaking
<1>4. CASE Create
  BY <1>4, CreateKeepsOrder
<1>5. CASE CancelInFlight
  BY <1>1, <1>5 DEF CancelInFlight, PositionsFit, OrderGate, NoOvertaking
<1>6. CASE Quiet
  BY <1>1, <1>6 DEF Quiet, vars, PositionsFit, OrderGate, NoOvertaking
<1>7. ASSUME NEW i \in Items, CloseBody(i) \/ MoveFails(i) \/ BodyIdle(i) \/ Return(i)
      PROVE  PositionsFit' /\ OrderGate' /\ NoOvertaking'
  <2>1. /\ UNCHANGED <<created, entered, occupied, ranks, inFlight>>
        /\ i \in inFlight
    BY <1>7 DEF CloseBody, MoveFails, BodyIdle, Return, Waiting, Running
  <2>2. \A j \in Items : target'[j] \in {target[j], NoUnit}
    BY <1>1, <1>7 DEF CloseBody, MoveFails, BodyIdle, Return, TypeOK
  <2>3. \A j \in Items : body'[j] # "none" => body[j] # "none"
    <3>1. CASE CloseBody(i)
      BY <1>1, <3>1 DEF CloseBody, TypeOK
    <3>2. CASE MoveFails(i)
      BY <1>1, <3>2 DEF MoveFails, TypeOK
    <3>3. CASE BodyIdle(i)
      BY <1>1, <3>3 DEF BodyIdle, TypeOK
    <3>4. CASE Return(i)
      BY <1>1, <3>4 DEF Return, TypeOK
    <3> QED BY <1>7, <3>1, <3>2, <3>3, <3>4
  <2>4. PositionsFit'
    BY <1>1, <2>1, <2>2, <2>3 DEF PositionsFit
  <2> QED BY <2>1, <2>4, QuietKeepsOrder
<1>8. ASSUME NEW i \in Items, Finish(i)
      PROVE  PositionsFit' /\ OrderGate' /\ NoOvertaking'
  <2>1. UNCHANGED <<created, entered, ranks, target, body>> /\ inFlight' \subseteq inFlight
    BY <1>8 DEF Finish
  <2>2. \A j \in Items : occupied'[j] \subseteq occupied[j]
    BY <1>1, <1>8 DEF Finish, TypeOK
  <2>3. PositionsFit'
    BY <1>1, <2>1, <2>2 DEF PositionsFit
  <2> QED BY <2>1, <2>3, QuietKeepsOrder
<1>9. ASSUME NEW i \in Items, Schedule(i)
      PROVE  PositionsFit' /\ OrderGate' /\ NoOvertaking'
  <2> DEFINE r == Higher(maxRank[i], reachedRank[i])
  <2>1. i \in inFlight /\ body[i] # "none"
    BY <1>9 DEF Schedule, Running
  <2>2. PICK u \in entered[i] : reachedRank[i] = Rank(u)
    BY <1>1, <2>1 DEF PositionsFit
  <2>3. r \in Int /\ r >= maxRank[i] /\ (r = maxRank[i] \/ r = Rank(u))
    BY <1>1, <2>2, HigherType DEF TypeOK
  <2>4. \A old \in Older(i) : maxRank[old] >= r
    BY <1>1, <2>1, <2>2, <2>3 DEF OrderGate, NoOvertaking, Older
  <2>5. /\ maxRank' = [maxRank EXCEPT ![i] = r]
        /\ body' = [body EXCEPT ![i] = "busy"]
        /\ UNCHANGED <<created, inFlight, occupied, entered, reachedRank, target>>
    BY <1>9 DEF Schedule
  <2> HIDE DEF r
  <2>6. OrderGate' /\ NoOvertaking'
    <3> DEFINE E == {}
    <3>1. E \in SUBSET Units /\ \A old \in Older(i) : \A v \in E : maxRank[old] >= Rank(v)
      OBVIOUS
    <3>2. entered' = [entered EXCEPT ![i] = @ \union E]
      BY <1>1, <2>5 DEF TypeOK
    <3> HIDE DEF E
    <3> QED BY <1>1, <2>1, <2>3, <2>4, <2>5, <3>1, <3>2, AdvanceKeepsOrder
  <2>7. PositionsFit'
    <3>1. ~(i > created) /\ maxRank[i] \in Int /\ maxRank[i] >= 0
      BY <1>1, <1>2, <2>1, NItemsNat DEF TypeOK, PositionsFit
    <3>2. \A j \in Items : /\ maxRank'[j] >= 0
                           /\ j > created => maxRank'[j] = 0 /\ body'[j] = "none"
      BY <1>1, <2>3, <2>5, <3>1 DEF PositionsFit, TypeOK
    <3>3. \A j \in Items : body'[j] # "none" => body[j] # "none"
      BY <1>1, <2>1, <2>5 DEF TypeOK
    <3> QED BY <1>1, <2>5, <3>2, <3>3 DEF PositionsFit
  <2> QED BY <2>6, <2>7
<1>10. ASSUME NEW i \in Items, NEW u \in Units, RetainBody(i, u)
       PROVE  PositionsFit' /\ OrderGate' /\ NoOvertaking'
  <2> DEFINE r == Higher(maxRank[i], Rank(u))
  <2>1. i \in inFlight /\ u \in entered[i]
    BY <1>1, <1>10 DEF RetainBody, Running, InUnit, PositionsFit
  <2>2. r \in Int /\ r >= maxRank[i] /\ (r = maxRank[i] \/ r = Rank(u))
    <3>1. Rank(u) \in Int /\ maxRank[i] \in Int
      BY <1>1, RankType DEF TypeOK
    <3> QED BY <3>1, HigherType
  <2>3. \A old \in Older(i) : maxRank[old] >= r
    BY <1>1, <2>1, <2>2 DEF OrderGate, NoOvertaking, Older
  <2>4. /\ maxRank' = [maxRank EXCEPT ![i] = r]
        /\ body' = [body EXCEPT ![i] = "none"]
        /\ UNCHANGED <<created, inFlight, occupied, entered, reachedRank, target>>
    BY <1>10 DEF RetainBody
  <2> HIDE DEF r
  <2>5. OrderGate' /\ NoOvertaking'
    <3> DEFINE E == {}
    <3>1. E \in SUBSET Units /\ \A old \in Older(i) : \A v \in E : maxRank[old] >= Rank(v)
      OBVIOUS
    <3>2. entered' = [entered EXCEPT ![i] = @ \union E]
      BY <1>1, <2>4 DEF TypeOK
    <3> HIDE DEF E
    <3> QED BY <1>1, <2>1, <2>2, <2>3, <2>4, <3>1, <3>2, AdvanceKeepsOrder
  <2>6. PositionsFit'
    <3>1. ~(i > created) /\ maxRank[i] \in Int /\ maxRank[i] >= 0
      BY <1>1, <1>2, <2>1, NItemsNat DEF TypeOK, PositionsFit
    <3>2. \A j \in Items : /\ maxRank'[j] >= 0
                           /\ j > created => maxRank'[j] = 0 /\ body'[j] = "none"
      BY <1>1, <2>2, <2>4, <3>1 DEF PositionsFit, TypeOK
    <3>3. \A j \in Items : body'[j] # "none" => body[j] # "none"
      BY <1>1, <2>1, <2>4 DEF TypeOK
    <3> QED BY <1>1, <2>4, <3>2, <3>3 DEF PositionsFit
  <2> QED BY <2>5, <2>6
<1>11. ASSUME NEW i \in Items, Enter(i)
       PROVE  PositionsFit' /\ OrderGate' /\ NoOvertaking'
  <2>1. i \in inFlight /\ target[i] \in Units /\ target[i] # NoUnit
    BY <1>1, <1>11 DEF Enter, Waiting, TypeOK
  <2>2. Rank(target[i]) >= reachedRank[i]
    BY <1>1, <2>1 DEF PositionsFit
  <2>3. /\ TakeUnit(i, target[i]) /\ GateOpen(i, Rank(target[i]))
        /\ inFlight' = inFlight /\ created' = created
        /\ target' = [target EXCEPT ![i] = NoUnit]
    BY <1>11 DEF Enter, CanEnter
  <2> QED BY <2>1, <2>2, <2>3, TakeUnitKeepsOrder
<1>12. ASSUME NEW i \in Items, StepAside(i)
       PROVE  PositionsFit' /\ OrderGate' /\ NoOvertaking'
  <2>1. i \in inFlight /\ target[i] \in Units /\ body[i] = "none"
    BY <1>1, <1>12 DEF StepAside, Waiting, TypeOK
  <2>2. /\ TakeQueue(i, target[i]) /\ GateOpen(i, QueueRank(target[i]))
        /\ UNCHANGED <<inFlight, created, entered, target, body>>
    BY <1>12 DEF StepAside, CanEnterQueue
  <2> QED BY <2>1, <2>2, TakeQueueKeepsOrder
<1>13. ASSUME NEW i \in Items, NEW u \in Units, TryMoveTo(i, u)
       PROVE  PositionsFit' /\ OrderGate' /\ NoOvertaking'
  <2>1. /\ i \in inFlight /\ target[i] = NoUnit /\ Rank(u) >= reachedRank[i]
        /\ GateOpen(i, Rank(u))
        /\ UNCHANGED <<created, inFlight, target>>
    BY <1>13 DEF TryMoveTo, Running, LegalMove, CanEnter
  <2>2. CASE TakeUnit(i, u)
    <3>1. target' = [target EXCEPT ![i] = NoUnit]
      BY <1>1, <2>1 DEF TypeOK
    <3> QED BY <2>1, <2>2, <3>1, TakeUnitKeepsOrder
  <2>3. CASE /\ body[i] = "idle"
             /\ body' = [body EXCEPT ![i] = "none"]
             /\ UNCHANGED <<counters, occupied, entered, queuedAt, ranks>>
    <3>1. \A j \in Items : body'[j] # "none" => body[j] # "none"
      BY <1>1, <2>3 DEF TypeOK
    <3>2. PositionsFit'
      BY <1>1, <2>1, <2>3, <3>1 DEF PositionsFit
    <3> QED BY <2>1, <2>3, <3>2, QuietKeepsOrder
  <2> QED BY <1>13, <2>2, <2>3 DEF TryMoveTo
<1>14. ASSUME NEW i \in Items, NEW u \in Units, MoveTo(i, u)
       PROVE  PositionsFit' /\ OrderGate' /\ NoOvertaking'
  <2>1. UNCHANGED <<created, inFlight, entered, occupied, ranks, body>>
    BY <1>14 DEF MoveTo
  <2>2. target' = [target EXCEPT ![i] = u] /\ Rank(u) >= reachedRank[i]
    BY <1>14 DEF MoveTo, LegalMove
  <2>3. PositionsFit'
    BY <1>1, <2>1, <2>2 DEF PositionsFit, TypeOK
  <2> QED BY <2>1, <2>3, QuietKeepsOrder
<1>15. ASSUME NEW i \in Items, NEW u \in Units, Retain(i, u) \/ RetainFor(i, u)
       PROVE  PositionsFit' /\ OrderGate' /\ NoOvertaking'
  <2>1. UNCHANGED <<created, inFlight, entered, occupied, ranks, body, target>>
    BY <1>15 DEF Retain, RetainFor
  <2>2. PositionsFit'
    BY <1>1, <2>1 DEF PositionsFit
  <2> QED BY <2>1, <2>2, QuietKeepsOrder
<1>16. ASSUME NEW i \in Items, NEW u \in Units,
              ReleaseStageHold(i, u) \/ ReleaseRetained(i, u)
       PROVE  PositionsFit' /\ OrderGate' /\ NoOvertaking'
  <2>1. UNCHANGED <<created, inFlight, entered, ranks, body, target>>
    BY <1>16 DEF ReleaseStageHold, ReleaseRetained
  <2>2. \A j \in Items : occupied'[j] \subseteq occupied[j]
    <3>1. PICK r \in Int, keep \in SUBSET Units : ReleaseBelow(i, r, keep)
      <4>1. reachedRank[i] \in Int /\ stageHolds[i] \subseteq Units /\ liveGroups[i] \subseteq Units
        BY <1>1 DEF TypeOK
      <4>2. (stageHolds[i] \ {u}) \union liveGroups[i] \in SUBSET Units
            /\ stageHolds[i] \union (liveGroups[i] \ {u}) \in SUBSET Units
        BY <4>1
      <4> QED BY <1>16, <4>1, <4>2 DEF ReleaseStageHold, ReleaseRetained
    <3>2. occupied' = [occupied EXCEPT ![i] = @ \ Behind(i, r, keep)]
      BY <3>1 DEF ReleaseBelow
    <3> QED BY <1>1, <3>2 DEF TypeOK
  <2>3. PositionsFit'
    BY <1>1, <2>1, <2>2 DEF PositionsFit
  <2> QED BY <2>1, <2>3, QuietKeepsOrder
<1>17. ASSUME NEW u \in Units, SetLimit(u) \/ SetQueueSize(u)
       PROVE  PositionsFit' /\ OrderGate' /\ NoOvertaking'
  <2>1. UNCHANGED <<created, inFlight, entered, occupied, ranks, body, target>>
    BY <1>17 DEF SetLimit, SetQueueSize
  <2>2. PositionsFit'
    BY <1>1, <2>1 DEF PositionsFit
  <2> QED BY <2>1, <2>2, QuietKeepsOrder
<1> QED
  BY <1>3, <1>4, <1>5, <1>6, <1>7, <1>8, <1>9, <1>10, <1>11, <1>12, <1>13, <1>14,
     <1>15, <1>16, <1>17 DEF Next

\* Checking only the predecessor keeps the whole in-flight list in order:
\* whatever the number of items, an older item in flight has always published
\* at least the rank of a younger one (canEnter, submitClaimed).
THEOREM OrderGateHolds == Spec => []OrderGate
<1>1. OrderInv => OrderGate
  BY DEF OrderInv
<1> QED BY <1>1, OrderInit, OrderNext, PTL DEF Spec

\* No item is ever inside or past a node that an older item in flight has not
\* published: no overtaking, fan-outs with their closed door included.
THEOREM NobodyOvertakes == Spec => []NoOvertaking
<1>1. OrderInv => NoOvertaking
  BY DEF OrderInv
<1> QED BY <1>1, OrderInit, OrderNext, PTL DEF Spec

-----------------------------------------------------------------------------
(* The series implements the ordered line *)

\* Publishing a rank everybody older has published is a step of the line.
LEMMA AdvanceRefines ==
  ASSUME TypeOK, PositionsFit, NEW i \in inFlight, NEW r \in Int,
         r >= maxRank[i], r <= Rank(NUnits),
         \A old \in Older(i) : maxRank[old] >= r,
         inFlight' = inFlight, created' = created,
         maxRank' = [maxRank EXCEPT ![i] = r]
  PROVE  [Line!LineNext]_(Line!lineVars)
<1>1. i \in Items /\ maxRank[i] \in Int /\ maxRank[i] >= 0
  BY InFlightAreItems DEF PositionsFit, TypeOK
<1>2. CASE r = maxRank[i]
  <2>1. maxRank' = maxRank
    BY <1>2 DEF TypeOK
  <2> QED BY <2>1 DEF Line!lineVars
<1>3. CASE r # maxRank[i]
  <2>1. r > maxRank[i] /\ r \in 0 .. Rank(NUnits)
    BY <1>1, <1>3, NUnitsNat DEF Rank
  <2>2. Line!Advance(i, r)
    BY <2>1 DEF Line!Advance, Older
  <2>3. Line!LineNext
    BY <1>1, <2>1, <2>2 DEF Line!LineNext, Line!LineItems, Items
  <2> QED BY <2>3
<1> QED BY <1>2, <1>3

LEMMA TakeUnitRefines ==
  ASSUME OrderInv, NEW i \in inFlight, NEW u \in Units, TakeUnit(i, u),
         GateOpen(i, Rank(u)), inFlight' = inFlight, created' = created
  PROVE  [Line!LineNext]_(Line!lineVars)
<1> DEFINE published == IF u \notin FanOuts THEN Rank(u) ELSE QueueRank(u)
           r == Higher(maxRank[i], published)
<1>1. TypeOK /\ OrderGate /\ PositionsFit /\ i \in Items
  BY InFlightAreItems DEF OrderInv
<1>2. Rank(u) \in Nat /\ published \in Int /\ published <= Rank(u)
  BY RankType
<1>3. r \in Int /\ r >= maxRank[i] /\ (r = maxRank[i] \/ r = published)
  BY <1>1, <1>2, HigherType DEF TypeOK
<1>4. CASE r = maxRank[i]
  <2>1. maxRank' = maxRank
    BY <1>1, <1>4 DEF TakeUnit, TypeOK
  <2> QED BY <2>1 DEF Line!lineVars
<1>5. CASE r = published
  <2>1. \A old \in Older(i) : maxRank[old] \in Int /\ maxRank[old] >= Rank(u)
    BY <1>1, <1>2, GateSpeaksForAll, InFlightAreItems DEF Older, TypeOK
  <2>2. \A old \in Older(i) : maxRank[old] >= r
    BY <1>2, <1>3, <1>5, <2>1
  <2>3. Rank(u) <= Rank(NUnits) /\ Rank(NUnits) \in Int
    BY NUnitsNat DEF Units, Rank
  <2>4. r <= Rank(NUnits)
    BY <1>2, <1>5, <2>3
  <2>5. maxRank' = [maxRank EXCEPT ![i] = r]
    BY DEF TakeUnit
  <2> HIDE DEF r
  <2> QED BY <1>1, <1>3, <2>2, <2>4, <2>5, AdvanceRefines
<1> QED BY <1>3, <1>4, <1>5

LEMMA RefineInit == Init => Line!LineInit
  BY DEF Init, Line!LineInit, Line!LineItems, Items

LEMMA RefineNext == OrderInv /\ [Next]_vars => [Line!LineNext]_(Line!lineVars)
<1> SUFFICES ASSUME OrderInv, [Next]_vars PROVE [Line!LineNext]_(Line!lineVars)
  OBVIOUS
<1>1. TypeOK /\ OrderGate /\ NoOvertaking /\ PositionsFit /\ inFlight \subseteq Items
  BY InFlightAreItems DEF OrderInv
<1> USE DEF life, ranks
<1>2. ASSUME UNCHANGED <<created, inFlight, maxRank>> PROVE UNCHANGED Line!lineVars
  BY <1>2 DEF Line!lineVars
<1>3. ASSUME NEW u \in Units PROVE Rank(u) <= Rank(NUnits)
  BY NUnitsNat DEF Units, Rank
<1>4. CASE UNCHANGED vars
  BY <1>2, <1>4 DEF vars
<1>5. CASE Create
  <2>1. Line!Join
    BY <1>5 DEF Create, Line!Join
  <2> QED BY <2>1 DEF Line!LineNext
<1>6. CASE CancelInFlight \/ Quiet
  BY <1>2, <1>6 DEF CancelInFlight, Quiet, vars
<1>7. ASSUME NEW i \in Items, CloseBody(i) \/ MoveFails(i) \/ BodyIdle(i) \/ Return(i)
      PROVE  [Line!LineNext]_(Line!lineVars)
  BY <1>2, <1>7 DEF CloseBody, MoveFails, BodyIdle, Return
<1>8. ASSUME NEW i \in Items, Finish(i) PROVE [Line!LineNext]_(Line!lineVars)
  <2>1. Line!Leave(i)
    BY <1>8 DEF Finish, Line!Leave
  <2> QED BY <2>1 DEF Line!LineNext, Line!LineItems, Items
<1>9. ASSUME NEW i \in inFlight, NEW u \in entered[i], created' = created,
             inFlight' = inFlight, maxRank' = [maxRank EXCEPT ![i] = Higher(@, Rank(u))]
      PROVE  [Line!LineNext]_(Line!lineVars)
  <2> DEFINE r == Higher(maxRank[i], Rank(u))
  <2>1. u \in Units /\ Rank(u) \in Int /\ maxRank[i] \in Int /\ Rank(NUnits) \in Int
    BY <1>1, NUnitsNat DEF TypeOK, Rank, Units
  <2>2. r \in Int /\ r >= maxRank[i] /\ (r = maxRank[i] \/ r = Rank(u))
    BY <2>1, HigherType
  <2>3. CASE r = maxRank[i]
    <3>1. maxRank' = maxRank
      BY <1>1, <1>9, <2>3 DEF TypeOK
    <3> QED BY <1>2, <1>9, <3>1
  <2>4. CASE r = Rank(u)
    <3>1. \A old \in Older(i) : maxRank[old] >= r
      BY <1>1, <2>4 DEF NoOvertaking, Older
    <3>2. r <= Rank(NUnits)
      BY <1>3, <2>1, <2>4
    <3>3. maxRank' = [maxRank EXCEPT ![i] = r]
      BY <1>9
    <3> HIDE DEF r
    <3> QED BY <1>1, <1>9, <2>2, <3>1, <3>2, <3>3, AdvanceRefines
  <2> QED BY <2>2, <2>3, <2>4
<1>10. ASSUME NEW i \in Items, Schedule(i) PROVE [Line!LineNext]_(Line!lineVars)
  <2>1. i \in inFlight /\ body[i] # "none"
    BY <1>10 DEF Schedule, Running
  <2>2. PICK u \in entered[i] : reachedRank[i] = Rank(u)
    BY <1>1, <2>1 DEF PositionsFit
  <2>3. maxRank' = [maxRank EXCEPT ![i] = Higher(@, Rank(u))]
    BY <1>10, <2>2 DEF Schedule
  <2>4. created' = created /\ inFlight' = inFlight
    BY <1>10 DEF Schedule
  <2> QED BY <1>9, <2>1, <2>3, <2>4
<1>11. ASSUME NEW i \in Items, NEW u \in Units, RetainBody(i, u)
       PROVE  [Line!LineNext]_(Line!lineVars)
  <2>1. i \in inFlight /\ u \in entered[i]
    BY <1>1, <1>11 DEF RetainBody, Running, InUnit, PositionsFit
  <2>2. /\ maxRank' = [maxRank EXCEPT ![i] = Higher(@, Rank(u))]
        /\ created' = created /\ inFlight' = inFlight
    BY <1>11 DEF RetainBody
  <2> QED BY <1>9, <2>1, <2>2
<1>12. ASSUME NEW i \in Items, Enter(i) PROVE [Line!LineNext]_(Line!lineVars)
  <2>1. i \in inFlight /\ target[i] \in Units
    BY <1>1, <1>12 DEF Enter, Waiting, TypeOK
  <2>2. /\ TakeUnit(i, target[i]) /\ GateOpen(i, Rank(target[i]))
        /\ inFlight' = inFlight /\ created' = created
    BY <1>12 DEF Enter, CanEnter
  <2> QED BY <2>1, <2>2, TakeUnitRefines
<1>13. ASSUME NEW i \in Items, NEW u \in Units, TryMoveTo(i, u)
       PROVE  [Line!LineNext]_(Line!lineVars)
  <2>1. i \in inFlight /\ GateOpen(i, Rank(u)) /\ created' = created /\ inFlight' = inFlight
    BY <1>13 DEF TryMoveTo, Running, CanEnter
  <2>2. CASE TakeUnit(i, u)
    BY <2>1, <2>2, TakeUnitRefines
  <2>3. CASE UNCHANGED <<counters, occupied, entered, queuedAt, ranks>>
    BY <1>2, <2>1, <2>3
  <2> QED BY <1>13, <2>2, <2>3 DEF TryMoveTo
<1>14. ASSUME NEW i \in Items, StepAside(i) PROVE [Line!LineNext]_(Line!lineVars)
  <2> DEFINE u == target[i]
             r == IF QueueRank(u) > reachedRank[i]
                     THEN Higher(maxRank[i], QueueRank(u)) ELSE maxRank[i]
  <2>1. i \in inFlight /\ u \in Units
    BY <1>1, <1>14 DEF StepAside, Waiting, TypeOK
  <2>2. /\ TakeQueue(i, u) /\ GateOpen(i, QueueRank(u))
        /\ inFlight' = inFlight /\ created' = created
    BY <1>14 DEF StepAside, CanEnterQueue
  <2> HIDE DEF u
  <2>3. QueueRank(u) \in Int /\ QueueRank(u) <= Rank(u) /\ Rank(u) \in Int
    BY <2>1, RankType
  <2>4. r \in Int /\ r >= maxRank[i] /\ (r = maxRank[i] \/ r = QueueRank(u))
    BY <1>1, <2>3, HigherType DEF TypeOK
  <2>5. maxRank' = [maxRank EXCEPT ![i] = r]
    BY <2>2 DEF TakeQueue
  <2>6. CASE r = maxRank[i]
    <3>1. maxRank' = maxRank
      BY <1>1, <2>5, <2>6 DEF TypeOK
    <3> QED BY <1>2, <2>2, <3>1
  <2>7. CASE r = QueueRank(u)
    <3>1. \A old \in Older(i) : maxRank[old] >= r
      BY <1>1, <2>1, <2>2, <2>3, <2>7, GateSpeaksForAll
    <3>2. r <= Rank(NUnits)
      <4>1. Rank(u) <= Rank(NUnits) /\ Rank(NUnits) \in Int
        BY <1>3, <2>1, NUnitsNat DEF Rank
      <4> QED BY <2>3, <2>7, <4>1
    <3> HIDE DEF r
    <3> QED BY <1>1, <2>1, <2>2, <2>4, <2>5, <3>1, <3>2, AdvanceRefines
  <2> QED BY <2>4, <2>6, <2>7
<1>15. ASSUME NEW i \in Items, NEW u \in Units,
              \/ MoveTo(i, u) \/ Retain(i, u) \/ RetainFor(i, u)
              \/ ReleaseStageHold(i, u) \/ ReleaseRetained(i, u)
       PROVE  [Line!LineNext]_(Line!lineVars)
  BY <1>2, <1>15 DEF MoveTo, Retain, RetainFor, ReleaseStageHold, ReleaseRetained
<1>16. ASSUME NEW u \in Units, SetLimit(u) \/ SetQueueSize(u)
       PROVE  [Line!LineNext]_(Line!lineVars)
  BY <1>2, <1>16 DEF SetLimit, SetQueueSize
<1> QED
  BY <1>4, <1>5, <1>6, <1>7, <1>8, <1>10, <1>11, <1>12, <1>13, <1>14, <1>15, <1>16
  DEF Next

\* To whoever sees only the published ranks, a series with its waiting rooms,
\* retained slots, failing moves, cancellation and dials is an ordered line.
THEOREM SeriesImplementsOrderedLine == Spec => ImplementsOrderedLine
<1> QED
  BY OrderInit, OrderNext, RefineInit, RefineNext, PTL
  DEF Spec, ImplementsOrderedLine, Line!LineSpec

-----------------------------------------------------------------------------
(* Slots: nobody is nowhere, a slot behind an item is one that is kept, and the
   counters the code adjusts at every move count what the items hold. *)

\* How the fields of an item fit together.
Fit(i) ==
    /\ \A u \in occupied[i] :
          /\ i \in inFlight
          /\ Rank(u) <= reachedRank[i]
          /\ Rank(u) < reachedRank[i] => u \in Kept(i)
    /\ queuedAt[i] # NoUnit =>
          i \in inFlight /\ reachedRank[i] = QueueRank(queuedAt[i])
    /\ Kept(i) \subseteq occupied[i]
    /\ i \in inFlight =>
          (\E u \in occupied[i] : reachedRank[i] = Rank(u)) \/ queuedAt[i] # NoUnit
    /\ target[i] # NoUnit => target[i] \notin entered[i]
    /\ i > created => reachedRank[i] = 0 /\ target[i] = NoUnit

SlotInv == OrderInv /\ (\A i \in Items : Fit(i)) /\ CountersAgree

\* An item's fields fit as long as nobody touches them.
LEMMA Untouched ==
  ASSUME NEW i \in Items, Fit(i),
         occupied'[i] = occupied[i], queuedAt'[i] = queuedAt[i],
         reachedRank'[i] = reachedRank[i], entered'[i] = entered[i],
         stageHolds'[i] = stageHolds[i], liveGroups'[i] = liveGroups[i],
         target'[i] = target[i],
         i \in inFlight' <=> i \in inFlight, i > created' => i > created
  PROVE  Fit(i)'
  BY DEF Fit, Kept

-----------------------------------------------------------------------------
(* The counters *)

Has(S, v) == IF v \in S THEN 1 ELSE 0

LEMMA HasType == \A S, v : Has(S, v) \in {0, 1}
  BY DEF Has

\* A set that changes by one element at most changes its size accordingly.
LEMMA SizeChanges ==
  ASSUME NEW A \in SUBSET Items, NEW B \in SUBSET Items, NEW i \in Items, A \ {i} = B \ {i}
  PROVE  /\ Cardinality(A) \in Nat /\ Cardinality(B) \in Nat
         /\ Cardinality(B) = Cardinality(A) + Has(B, i) - Has(A, i)
<1>1. IsFiniteSet(Items)
  BY NItemsNat, FS_Interval DEF Items
<1>2. IsFiniteSet(A) /\ IsFiniteSet(B)
  BY <1>1, FS_Subset
<1>3. Cardinality(A) \in Nat /\ Cardinality(B) \in Nat
  BY <1>2, FS_CardinalityType
<1>4. CASE i \in A <=> i \in B
  <2>1. A = B
    BY <1>4
  <2> QED BY <1>3, <2>1 DEF Has
<1>5. CASE i \in B /\ i \notin A
  <2>1. B = A \union {i}
    BY <1>5
  <2> QED BY <1>2, <1>3, <1>5, <2>1, FS_AddElement DEF Has
<1>6. CASE i \in A /\ i \notin B
  <2>1. A = B \union {i}
    BY <1>6
  <2>2. Cardinality(A) = Cardinality(B) + 1
    BY <1>2, <1>6, <2>1, FS_AddElement
  <2> QED BY <1>3, <1>6, <2>2 DEF Has
<1> QED BY <1>4, <1>5, <1>6

\* One item's slots and place change, and the counters with them.
LEMMA CountersFollow ==
  ASSUME TypeOK, CountersAgree, NEW i \in Items,
         NEW S \in SUBSET Units, NEW q \in Units \union {NoUnit},
         occupied' = [occupied EXCEPT ![i] = S],
         queuedAt' = [queuedAt EXCEPT ![i] = q],
         \A u \in Units :
            /\ occupancy'[u] = occupancy[u] + Has(S, u) - Has(occupied[i], u)
            /\ queued'[u] = queued[u] + Has({q}, u) - Has({queuedAt[i]}, u)
  PROVE  CountersAgree'
<1> SUFFICES ASSUME NEW u \in Units
             PROVE  occupancy'[u] = InsideCount(u)' /\ queued'[u] = WaitingCount(u)'
  BY DEF CountersAgree
<1>1. /\ \A j \in Items : occupied'[j] = IF j = i THEN S ELSE occupied[j]
      /\ \A j \in Items : queuedAt'[j] = IF j = i THEN q ELSE queuedAt[j]
  BY DEF TypeOK
<1>2. occupancy[u] = InsideCount(u) /\ queued[u] = WaitingCount(u)
  BY DEF CountersAgree
<1>3. occupancy'[u] = InsideCount(u)'
  <2> DEFINE A == {j \in Items : u \in occupied[j]}
             B == {j \in Items : u \in occupied'[j]}
  <2>1. InsideCount(u) = Cardinality(A) /\ InsideCount(u)' = Cardinality(B)
    BY DEF InsideCount
  <2>2. A \ {i} = B \ {i} /\ (i \in A <=> u \in occupied[i]) /\ (i \in B <=> u \in S)
    BY <1>1
  <2>3. A \in SUBSET Items /\ B \in SUBSET Items
    OBVIOUS
  <2> HIDE DEF A, B
  <2>4. Cardinality(B) = Cardinality(A) + Has(B, i) - Has(A, i)
    BY <2>2, <2>3, SizeChanges
  <2>5. Has(B, i) = Has(S, u) /\ Has(A, i) = Has(occupied[i], u)
    BY <2>2 DEF Has
  <2> QED BY <1>2, <2>1, <2>4, <2>5
<1>4. queued'[u] = WaitingCount(u)'
  <2> DEFINE A == {j \in Items : queuedAt[j] = u}
             B == {j \in Items : queuedAt'[j] = u}
  <2>1. WaitingCount(u) = Cardinality(A) /\ WaitingCount(u)' = Cardinality(B)
    BY DEF WaitingCount
  <2>2. A \ {i} = B \ {i} /\ (i \in A <=> u = queuedAt[i]) /\ (i \in B <=> u = q)
    BY <1>1
  <2>3. A \in SUBSET Items /\ B \in SUBSET Items
    OBVIOUS
  <2> HIDE DEF A, B
  <2>4. Cardinality(B) = Cardinality(A) + Has(B, i) - Has(A, i)
    BY <2>2, <2>3, SizeChanges
  <2>5. Has(B, i) = Has({q}, u) /\ Has(A, i) = Has({queuedAt[i]}, u)
    BY <2>2 DEF Has
  <2> QED BY <1>2, <2>1, <2>4, <2>5
<1> QED BY <1>3, <1>4

\* No counter and nothing it counts changes.
LEMMA CountersStay ==
  ASSUME CountersAgree, UNCHANGED <<occupancy, queued, occupied, queuedAt>>
  PROVE  CountersAgree'
  BY DEF CountersAgree, InsideCount, WaitingCount

-----------------------------------------------------------------------------
(* The three ways in which an item's slots change *)

\* Types and ranks at hand: an item's rank is a node's or a waiting room's.
LEMMA SlotFacts ==
  ASSUME SlotInv, NEW i \in Items
  PROVE  /\ TypeOK /\ PositionsFit /\ CountersAgree /\ Fit(i)
         /\ occupied[i] \subseteq entered[i] /\ occupied[i] \subseteq Units
         /\ Kept(i) \subseteq occupied[i]
         /\ reachedRank[i] \in Int /\ queuedAt[i] \in Units \union {NoUnit}
         /\ \A u \in Units : occupancy[u] \in Int /\ queued[u] \in Int
         /\ \A j \in Items : Fit(j)
  BY DEF SlotInv, OrderInv, TypeOK, PositionsFit, Fit

LEMMA RanksDiffer ==
  ASSUME NEW u \in Units, NEW v \in Units
  PROVE  /\ Rank(u) # QueueRank(v)
         /\ Rank(u) = Rank(v) => u = v
         /\ QueueRank(u) = QueueRank(v) => u = v
         /\ Rank(u) \in Nat /\ QueueRank(u) \in Int /\ QueueRank(u) = Rank(u) - 1
         /\ Rank(u) < Rank(v) => Rank(u) < QueueRank(v)
         /\ u # NoUnit
  BY NUnitsNat DEF Units, Rank, QueueRank, NoUnit

\* takeUnit.
LEMMA TakeUnitKeepsSlots ==
  ASSUME SlotInv, NEW i \in inFlight, NEW u \in Units, TakeUnit(i, u),
         u \notin entered[i], Rank(u) >= reachedRank[i],
         target' = [target EXCEPT ![i] = NoUnit],
         UNCHANGED <<inFlight, created, stageHolds, liveGroups>>
  PROVE  (\A j \in Items : Fit(j)') /\ CountersAgree'
<1> DEFINE behind == Behind(i, Rank(u), Kept(i))
           left == LeftQueue(i, Rank(u))
           S == (occupied[i] \ behind) \union {u}
           q == IF queuedAt[i] \in left THEN NoUnit ELSE queuedAt[i]
<1>1. i \in Items /\ TypeOK
  BY InFlightAreItems DEF SlotInv, OrderInv
<1>2. /\ Fit(i) /\ Kept(i) \subseteq occupied[i] /\ reachedRank[i] \in Int
      /\ occupied[i] \subseteq Units /\ u \notin occupied[i]
      /\ queuedAt[i] \in Units \union {NoUnit}
      /\ CountersAgree /\ \A v \in Units : occupancy[v] \in Int /\ queued[v] \in Int
  BY <1>1, SlotFacts
<1>3. /\ occupied' = [occupied EXCEPT ![i] = S]
      /\ queuedAt' = [queuedAt EXCEPT ![i] = q]
      /\ reachedRank' = [reachedRank EXCEPT ![i] = Higher(@, Rank(u))]
      /\ entered' = [entered EXCEPT ![i] = @ \union {u}]
  BY DEF TakeUnit
<1>4. reachedRank'[i] = Rank(u)
  BY <1>1, <1>2, <1>3, RanksDiffer DEF TypeOK, Higher
<1>5. q = NoUnit
  BY <1>2, RanksDiffer DEF Fit, LeftQueue
<1>6. \A v \in S : /\ Rank(v) <= Rank(u)
                   /\ Rank(v) < Rank(u) => v \in Kept(i)
  BY <1>2, RanksDiffer DEF Behind, Fit
<1>7. Kept(i) \subseteq S /\ u \in S /\ S \in SUBSET Units
  BY <1>2 DEF Behind
<1>8. \A v \in Units : occupancy'[v] = occupancy[v] + Has(S, v) - Has(occupied[i], v)
  <2>1. \A v \in Units : occupancy'[v] = occupancy[v] + Count({u})[v] - Count(behind)[v]
    BY DEF TakeUnit
  <2>2. behind \subseteq occupied[i]
    BY DEF Behind
  <2> HIDE DEF behind
  <2>3. \A v \in Units : Count({u})[v] = Has({u}, v) /\ Count(behind)[v] = Has(behind, v)
    BY DEF Count, Has
  <2>4. \A v \in Units :
           Has({u}, v) - Has(behind, v) = Has(S, v) - Has(occupied[i], v)
    BY <1>2, <2>2 DEF Has
  <2> HIDE DEF S
  <2> QED BY <1>2, <2>1, <2>3, <2>4, HasType
<1>9. \A v \in Units : queued'[v] = queued[v] + Has({q}, v) - Has({queuedAt[i]}, v)
  <2>1. \A v \in Units : queued'[v] = queued[v] - Count(left)[v]
    BY DEF TakeUnit
  <2>2. \A v \in Units : v \in left <=> v = queuedAt[i]
    BY <1>2, <1>5, RanksDiffer DEF LeftQueue
  <2>3. \A v \in Units : Count(left)[v] = Has({queuedAt[i]}, v)
    BY <2>2 DEF Count, Has
  <2>4. \A v \in Units : Has({q}, v) = 0
    BY <1>5, RanksDiffer DEF Has
  <2> QED BY <1>2, <2>1, <2>3, <2>4 DEF Has
<1> HIDE DEF S, q
<1>10. CountersAgree'
  <2>1. q \in Units \union {NoUnit}
    BY <1>5
  <2> QED BY <1>1, <1>2, <1>3, <1>7, <1>8, <1>9, <2>1, CountersFollow
<1>11. /\ occupied'[i] = S /\ queuedAt'[i] = NoUnit /\ target'[i] = NoUnit
       /\ Kept(i)' = Kept(i)
  BY <1>1, <1>3, <1>5 DEF TypeOK, Kept
<1>12. ~(i > created)
  BY <1>1 DEF TypeOK
<1>13. Fit(i)'
  BY <1>4, <1>6, <1>7, <1>11, <1>12 DEF Fit
<1>14. ASSUME NEW j \in Items, j # i PROVE Fit(j)'
  <2>1. /\ occupied'[j] = occupied[j] /\ queuedAt'[j] = queuedAt[j]
        /\ reachedRank'[j] = reachedRank[j] /\ entered'[j] = entered[j]
        /\ target'[j] = target[j]
    BY <1>1, <1>3, <1>14 DEF TypeOK
  <2> QED BY <2>1, SlotFacts, Untouched
<1> QED BY <1>10, <1>13, <1>14

\* takeQueue.
LEMMA TakeQueueKeepsSlots ==
  ASSUME SlotInv, NEW i \in inFlight, NEW u \in Units, TakeQueue(i, u),
         target[i] = u, queuedAt[i] # u,
         UNCHANGED <<inFlight, created, entered, target, stageHolds, liveGroups>>
  PROVE  (\A j \in Items : Fit(j)') /\ CountersAgree'
<1> DEFINE behind == Behind(i, QueueRank(u), Kept(i))
           S == occupied[i] \ behind
<1>1. i \in Items /\ TypeOK
  BY InFlightAreItems DEF SlotInv, OrderInv
<1>2. /\ Fit(i) /\ Kept(i) \subseteq occupied[i] /\ reachedRank[i] \in Int
      /\ occupied[i] \subseteq Units /\ occupied[i] \subseteq entered[i]
      /\ queuedAt[i] \in Units \union {NoUnit}
      /\ CountersAgree /\ \A v \in Units : occupancy[v] \in Int /\ queued[v] \in Int
  BY <1>1, SlotFacts
<1>3. /\ occupied' = [occupied EXCEPT ![i] = S]
      /\ queuedAt' = [queuedAt EXCEPT ![i] = u]
      /\ reachedRank' = [reachedRank EXCEPT ![i] = Higher(@, QueueRank(u))]
  BY DEF TakeQueue
<1>4. u \notin entered[i] /\ u # NoUnit /\ Rank(u) >= reachedRank[i]
  BY <1>1, <1>2, RanksDiffer, SlotFacts DEF Fit, PositionsFit
<1>5. reachedRank[i] < QueueRank(u)
  <2>1. CASE \E v \in occupied[i] : reachedRank[i] = Rank(v)
    BY <1>2, <1>4, <2>1, RanksDiffer
  <2>2. CASE queuedAt[i] # NoUnit
    BY <1>2, <1>4, <2>2, RanksDiffer DEF Fit
  <2> QED BY <1>2, <2>1, <2>2 DEF Fit
<1>6. reachedRank'[i] = QueueRank(u)
  BY <1>1, <1>2, <1>3, <1>5, RanksDiffer DEF TypeOK, Higher
<1>7. \A v \in S : Rank(v) <= QueueRank(u) /\ v \in Kept(i)
  BY <1>2, <1>5, RanksDiffer DEF Behind, Fit
<1>8. Kept(i) \subseteq S /\ S \in SUBSET Units
  BY <1>2 DEF Behind
<1>9. \A v \in Units : occupancy'[v] = occupancy[v] + Has(S, v) - Has(occupied[i], v)
  <2>1. \A v \in Units : occupancy'[v] = occupancy[v] - Count(behind)[v]
    BY DEF TakeQueue
  <2>2. behind \subseteq occupied[i]
    BY DEF Behind
  <2> HIDE DEF behind
  <2>3. \A v \in Units : Count(behind)[v] = Has(behind, v)
    BY DEF Count, Has
  <2>4. \A v \in Units : 0 - Has(behind, v) = Has(S, v) - Has(occupied[i], v)
    BY <1>2, <2>2 DEF Has
  <2> QED BY <1>2, <2>1, <2>3, <2>4 DEF Has
<1>10. \A v \in Units : queued'[v] = queued[v] + Has({u}, v) - Has({queuedAt[i]}, v)
  BY <1>2 DEF TakeQueue, Count, Has
<1> HIDE DEF S
<1>11. CountersAgree'
  <2>1. u \in Units \union {NoUnit}
    OBVIOUS
  <2> QED BY <1>1, <1>2, <1>3, <1>8, <1>9, <1>10, <2>1, CountersFollow
<1>12. /\ occupied'[i] = S /\ queuedAt'[i] = u /\ Kept(i)' = Kept(i)
       /\ target'[i] \notin entered'[i] /\ ~(i > created)
  BY <1>1, <1>3, <1>4 DEF TypeOK, Kept
<1>13. Fit(i)'
  BY <1>4, <1>6, <1>7, <1>8, <1>12 DEF Fit
<1>14. ASSUME NEW j \in Items, j # i PROVE Fit(j)'
  <2>1. /\ occupied'[j] = occupied[j] /\ queuedAt'[j] = queuedAt[j]
        /\ reachedRank'[j] = reachedRank[j]
    BY <1>1, <1>3, <1>14 DEF TypeOK
  <2> QED BY <2>1, SlotFacts, Untouched
<1> QED BY <1>11, <1>13, <1>14

\* releaseBelow at the end of a Retain or of a task group.
LEMMA ReleaseKeepsSlots ==
  ASSUME SlotInv, NEW i \in inFlight, NEW keep, ReleaseBelow(i, reachedRank[i], keep),
         Kept(i)' = keep, keep \subseteq Kept(i),
         \A j \in Items : j # i => stageHolds'[j] = stageHolds[j] /\ liveGroups'[j] = liveGroups[j],
         UNCHANGED <<inFlight, created, entered, target, reachedRank>>
  PROVE  (\A j \in Items : Fit(j)') /\ CountersAgree'
<1> DEFINE behind == Behind(i, reachedRank[i], keep)
           S == occupied[i] \ behind
<1>1. i \in Items /\ TypeOK
  BY InFlightAreItems DEF SlotInv, OrderInv
<1>2. /\ Fit(i) /\ Kept(i) \subseteq occupied[i] /\ reachedRank[i] \in Int
      /\ occupied[i] \subseteq Units
      /\ queuedAt[i] \in Units \union {NoUnit}
      /\ CountersAgree /\ \A v \in Units : occupancy[v] \in Int /\ queued[v] \in Int
  BY <1>1, SlotFacts
<1>3. LeftQueue(i, reachedRank[i]) = {}
  BY <1>2, RanksDiffer DEF LeftQueue, Fit
<1>4. occupied' = [occupied EXCEPT ![i] = S] /\ queuedAt' = [queuedAt EXCEPT ![i] = queuedAt[i]]
  BY <1>1, <1>3 DEF ReleaseBelow, TypeOK
<1>5. \A v \in S : /\ v \in occupied[i] /\ Rank(v) <= reachedRank[i]
                   /\ Rank(v) < reachedRank[i] => v \in keep
  BY <1>2 DEF Behind, Fit
<1>6. keep \subseteq S /\ S \in SUBSET Units
  BY <1>2 DEF Behind
<1>7. \A v \in occupied[i] : reachedRank[i] = Rank(v) => v \in S
  BY <1>2, RanksDiffer DEF Behind
<1>8. \A v \in Units : occupancy'[v] = occupancy[v] + Has(S, v) - Has(occupied[i], v)
  <2>1. \A v \in Units : occupancy'[v] = occupancy[v] - Count(behind)[v]
    BY DEF ReleaseBelow
  <2>2. behind \subseteq occupied[i]
    BY DEF Behind
  <2> HIDE DEF behind
  <2>3. \A v \in Units : Count(behind)[v] = Has(behind, v)
    BY DEF Count, Has
  <2>4. \A v \in Units : 0 - Has(behind, v) = Has(S, v) - Has(occupied[i], v)
    BY <1>2, <2>2 DEF Has
  <2> QED BY <1>2, <2>1, <2>3, <2>4 DEF Has
<1>9. \A v \in Units : queued'[v] = queued[v] + Has({queuedAt[i]}, v) - Has({queuedAt[i]}, v)
  BY <1>2, <1>3 DEF ReleaseBelow, Count, Has
<1> HIDE DEF S
<1>10. CountersAgree'
  BY <1>1, <1>2, <1>4, <1>6, <1>8, <1>9, CountersFollow
<1>11. occupied'[i] = S /\ queuedAt'[i] = queuedAt[i]
  BY <1>1, <1>4 DEF TypeOK
<1>12. Fit(i)'
  BY <1>2, <1>5, <1>6, <1>7, <1>11 DEF Fit
<1>13. ASSUME NEW j \in Items, j # i PROVE Fit(j)'
  <2>1. occupied'[j] = occupied[j] /\ queuedAt'[j] = queuedAt[j]
    BY <1>1, <1>4, <1>13 DEF TypeOK
  <2> QED BY <1>13, <2>1, SlotFacts, Untouched
<1> QED BY <1>10, <1>12, <1>13

-----------------------------------------------------------------------------
(* The steps *)

\* finishItem: everything the item holds is freed and nobody keeps anything.
LEMMA FinishKeepsSlots ==
  ASSUME SlotInv, NEW i \in Items, Finish(i)
  PROVE  (\A j \in Items : Fit(j)') /\ CountersAgree'
<1>1. /\ TypeOK /\ Fit(i) /\ occupied[i] \subseteq Units
      /\ queuedAt[i] \in Units \union {NoUnit}
      /\ CountersAgree /\ \A v \in Units : occupancy[v] \in Int /\ queued[v] \in Int
  BY SlotFacts
<1>2. /\ i \in inFlight /\ liveGroups[i] = {}
      /\ occupied' = [occupied EXCEPT ![i] = {}]
      /\ queuedAt' = [queuedAt EXCEPT ![i] = NoUnit]
      /\ stageHolds' = [stageHolds EXCEPT ![i] = {}] /\ inFlight' = inFlight \ {i}
      /\ UNCHANGED <<created, entered, ranks, target, liveGroups>>
  BY DEF Finish
<1>3. \A v \in Units : occupancy'[v] = occupancy[v] + Has({}, v) - Has(occupied[i], v)
  BY <1>1 DEF Finish, Count, Has
<1>4. \A v \in Units : queued'[v] = queued[v] + Has({NoUnit}, v) - Has({queuedAt[i]}, v)
  BY <1>1, RanksDiffer DEF Finish, Count, Has
<1>5. CountersAgree'
  <2>1. {} \in SUBSET Units /\ NoUnit \in Units \union {NoUnit}
    OBVIOUS
  <2> QED BY <1>1, <1>2, <1>3, <1>4, <2>1, CountersFollow
<1>6. Fit(i)'
  BY <1>1, <1>2 DEF Fit, Kept, TypeOK, ranks
<1>7. ASSUME NEW j \in Items, j # i PROVE Fit(j)'
  <2>1. /\ occupied'[j] = occupied[j] /\ queuedAt'[j] = queuedAt[j]
        /\ stageHolds'[j] = stageHolds[j] /\ (j \in inFlight' <=> j \in inFlight)
    BY <1>1, <1>2, <1>7 DEF TypeOK
  <2> QED BY <1>2, <2>1, SlotFacts, Untouched DEF ranks
<1> QED BY <1>5, <1>6, <1>7

\* A new item at the start gate.
LEMMA CreateKeepsSlots ==
  ASSUME SlotInv, Create
  PROVE  (\A j \in Items : Fit(j)') /\ CountersAgree'
<1>1. TypeOK
  BY DEF SlotInv, OrderInv
<1>2. PICK i \in Items : i = created + 1
  BY <1>1, NItemsNat DEF Create, TypeOK, Items
<1>3. i > created /\ i \notin inFlight /\ 0 \in Units
  BY <1>1, <1>2, NUnitsNat DEF TypeOK, Items, Units
<1>4. /\ Fit(i) /\ CountersAgree
      /\ queuedAt[i] \in Units \union {NoUnit}
      /\ \A v \in Units : occupancy[v] \in Int /\ queued[v] \in Int
  BY <1>2, SlotFacts
<1>5. /\ created' = i /\ inFlight' = inFlight \union {i}
      /\ occupied' = [occupied EXCEPT ![i] = {0}]
      /\ entered' = [entered EXCEPT ![i] = {0}]
      /\ occupancy' = [occupancy EXCEPT ![0] = @ + 1]
      /\ UNCHANGED <<queued, queuedAt, ranks, target, kept>>
  BY <1>2 DEF Create
<1>6. /\ occupied[i] = {} /\ queuedAt[i] = NoUnit /\ Kept(i) = {}
      /\ reachedRank[i] = 0 /\ target[i] = NoUnit
  BY <1>4, <1>3 DEF Fit
<1>7. \A v \in Units : occupancy'[v] = occupancy[v] + Has({0}, v) - Has(occupied[i], v)
  BY <1>1, <1>3, <1>4, <1>5, <1>6 DEF Has, TypeOK
<1>8. /\ queuedAt' = [queuedAt EXCEPT ![i] = queuedAt[i]]
      /\ \A v \in Units : queued'[v] = queued[v] + Has({queuedAt[i]}, v) - Has({queuedAt[i]}, v)
  BY <1>1, <1>4, <1>5, HasType DEF TypeOK
<1>9. CountersAgree'
  <2>1. {0} \in SUBSET Units
    BY <1>3
  <2> QED BY <1>1, <1>4, <1>5, <1>7, <1>8, <2>1, CountersFollow
<1>10. /\ occupied'[i] = {0} /\ queuedAt'[i] = NoUnit /\ Kept(i)' = {}
      /\ reachedRank'[i] = 0 /\ target'[i] = NoUnit /\ Rank(0) = 0
      /\ i \in inFlight' /\ ~(i > created')
  BY <1>1, <1>2, <1>5, <1>6 DEF TypeOK, Kept, ranks, kept, Rank, Items
<1>11. Fit(i)'
  BY <1>10 DEF Fit
<1>12. ASSUME NEW j \in Items, j # i PROVE Fit(j)'
  <2>1. /\ occupied'[j] = occupied[j] /\ entered'[j] = entered[j]
        /\ (j \in inFlight' <=> j \in inFlight)
        /\ j > created' => j > created
    BY <1>1, <1>2, <1>5, <1>12 DEF TypeOK, Items
  <2> QED BY <1>5, <2>1, SlotFacts, Untouched DEF ranks, kept
<1> QED BY <1>9, <1>11, <1>12

\* A step that moves nobody: what one item keeps or calls for may change.
LEMMA StayingKeepsSlots ==
  ASSUME SlotInv,
         UNCHANGED <<created, inFlight, counters, occupied, entered, queuedAt, reachedRank>>,
         \A j \in Items : Kept(j)' \subseteq occupied[j] /\ Kept(j) \subseteq Kept(j)',
         \A j \in Items : \/ target'[j] \in {target[j], NoUnit}
                          \/ target'[j] \notin entered[j] /\ j \in inFlight
  PROVE  (\A j \in Items : Fit(j)') /\ CountersAgree'
<1>1. TypeOK /\ CountersAgree /\ \A j \in Items : Fit(j)
  BY DEF SlotInv, OrderInv
<1>2. CountersAgree'
  BY <1>1, CountersStay DEF counters
<1>3. ASSUME NEW j \in Items PROVE Fit(j)'
  <2>1. j > created => j \notin inFlight
    BY <1>1 DEF TypeOK, Items
  <2> QED BY <1>1, <1>3, <2>1 DEF Fit
<1> QED BY <1>2, <1>3

LEMMA SlotInit == Init => SlotInv
<1> SUFFICES ASSUME Init PROVE SlotInv
  OBVIOUS
<1>1. OrderInv
  BY OrderInit
<1>2. \A i \in Items : Fit(i)
  BY DEF Init, Fit, Kept
<1>3. CountersAgree
  <2>1. \A u \in Units : /\ {i \in Items : u \in occupied[i]} = {}
                         /\ {i \in Items : queuedAt[i] = u} = {}
    BY RanksDiffer DEF Init
  <2>2. Cardinality({}) = 0
    BY FS_EmptySet
  <2> QED BY <2>1, <2>2 DEF Init, CountersAgree, InsideCount, WaitingCount
<1> QED BY <1>1, <1>2, <1>3 DEF SlotInv

LEMMA SlotNext == SlotInv /\ [Next]_vars => SlotInv'
<1> SUFFICES ASSUME SlotInv, [Next]_vars PROVE SlotInv'
  OBVIOUS
<1>1. OrderInv' /\ TypeOK /\ PositionsFit /\ TypeOK'
  BY OrderNext DEF SlotInv, OrderInv
<1>2. inFlight \subseteq Items
  BY <1>1, InFlightAreItems
<1>3. \A j \in Items : Kept(j) \subseteq occupied[j]
  BY SlotFacts
<1> SUFFICES (\A j \in Items : Fit(j)') /\ CountersAgree'
  BY <1>1 DEF SlotInv
<1> USE DEF life, dials, counters, ranks, kept
<1>4. CASE \/ UNCHANGED vars \/ Quiet \/ CancelInFlight
          \/ \E u \in Units : SetLimit(u) \/ SetQueueSize(u)
  <2>1. /\ UNCHANGED <<created, inFlight, counters, occupied, entered, queuedAt,
                       reachedRank, target, kept>>
    BY <1>4 DEF vars, Quiet, CancelInFlight, SetLimit, SetQueueSize
  <2> QED BY <1>3, <2>1, StayingKeepsSlots DEF Kept
<1>5. CASE Create
  BY <1>5, CreateKeepsSlots
<1>6. ASSUME NEW i \in Items,
             CloseBody(i) \/ MoveFails(i) \/ Schedule(i) \/ BodyIdle(i) \/ Return(i)
      PROVE  (\A j \in Items : Fit(j)') /\ CountersAgree'
  <2>1. UNCHANGED <<created, inFlight, counters, occupied, entered, queuedAt,
                    reachedRank, kept>>
    BY <1>6 DEF CloseBody, MoveFails, Schedule, BodyIdle, Return
  <2>2. \A j \in Items : target'[j] \in {target[j], NoUnit}
    BY <1>1, <1>6 DEF CloseBody, MoveFails, Schedule, BodyIdle, Return, TypeOK
  <2> QED BY <1>3, <2>1, <2>2, StayingKeepsSlots DEF Kept
<1>7. ASSUME NEW i \in Items, Finish(i)
      PROVE  (\A j \in Items : Fit(j)') /\ CountersAgree'
  BY <1>7, FinishKeepsSlots
<1>8. ASSUME NEW i \in Items, Enter(i)
      PROVE  (\A j \in Items : Fit(j)') /\ CountersAgree'
  <2>1. /\ i \in inFlight /\ target[i] # NoUnit
        /\ TakeUnit(i, target[i]) /\ target' = [target EXCEPT ![i] = NoUnit]
        /\ UNCHANGED <<inFlight, created, stageHolds, liveGroups>>
    BY <1>8 DEF Enter, Waiting
  <2>2. /\ target[i] \in Units /\ target[i] \notin entered[i]
        /\ Rank(target[i]) >= reachedRank[i]
    BY <1>1, <2>1, SlotFacts DEF Fit, PositionsFit, TypeOK
  <2> QED BY <2>1, <2>2, TakeUnitKeepsSlots
<1>9. ASSUME NEW i \in Items, StepAside(i)
      PROVE  (\A j \in Items : Fit(j)') /\ CountersAgree'
  <2>1. /\ i \in inFlight /\ target[i] # NoUnit /\ queuedAt[i] # target[i]
        /\ TakeQueue(i, target[i])
        /\ UNCHANGED <<inFlight, created, entered, target, stageHolds, liveGroups>>
    BY <1>9 DEF StepAside, Waiting
  <2>2. target[i] \in Units
    BY <1>1, <2>1 DEF TypeOK
  <2> QED BY <2>1, <2>2, TakeQueueKeepsSlots
<1>10. ASSUME NEW i \in Items, NEW u \in Units, MoveTo(i, u)
       PROVE  (\A j \in Items : Fit(j)') /\ CountersAgree'
  <2>1. /\ i \in inFlight /\ u \notin entered[i]
        /\ target' = [target EXCEPT ![i] = u]
        /\ UNCHANGED <<created, inFlight, counters, occupied, entered, queuedAt,
                       reachedRank, kept>>
    BY <1>10 DEF MoveTo, Running, LegalMove
  <2>2. \A j \in Items : \/ target'[j] \in {target[j], NoUnit}
                         \/ target'[j] \notin entered[j] /\ j \in inFlight
    BY <1>1, <2>1 DEF TypeOK
  <2> QED BY <1>3, <2>1, <2>2, StayingKeepsSlots DEF Kept
<1>11. ASSUME NEW i \in Items, NEW u \in Units, TryMoveTo(i, u)
       PROVE  (\A j \in Items : Fit(j)') /\ CountersAgree'
  <2>1. /\ i \in inFlight /\ u \notin entered[i] /\ Rank(u) >= reachedRank[i]
        /\ target[i] = NoUnit
        /\ UNCHANGED <<created, inFlight, target, stageHolds, liveGroups>>
    BY <1>11 DEF TryMoveTo, Running, LegalMove
  <2>2. CASE TakeUnit(i, u)
    <3>1. target' = [target EXCEPT ![i] = NoUnit]
      BY <1>1, <2>1 DEF TypeOK
    <3> QED BY <2>1, <2>2, <3>1, TakeUnitKeepsSlots
  <2>3. CASE UNCHANGED <<counters, occupied, entered, queuedAt, ranks>>
    BY <1>3, <2>1, <2>3, StayingKeepsSlots DEF Kept
  <2> QED BY <1>11, <2>2, <2>3 DEF TryMoveTo
<1>12. ASSUME NEW i \in Items, NEW u \in Units,
              Retain(i, u) \/ RetainFor(i, u) \/ RetainBody(i, u)
       PROVE  (\A j \in Items : Fit(j)') /\ CountersAgree'
  <2>1. /\ u \in occupied[i]
        /\ UNCHANGED <<created, inFlight, counters, occupied, entered, queuedAt,
                       reachedRank, target>>
    BY <1>12 DEF Retain, RetainFor, RetainBody, InUnit
  <2>2. \A j \in Items : /\ stageHolds[j] \subseteq stageHolds'[j]
                         /\ liveGroups[j] \subseteq liveGroups'[j]
                         /\ stageHolds'[j] \union liveGroups'[j]
                              \subseteq Kept(j) \union (IF j = i THEN {u} ELSE {})
    BY <1>1, <1>12 DEF Retain, RetainFor, RetainBody, TypeOK, Kept
  <2>3. \A j \in Items : Kept(j)' \subseteq occupied[j] /\ Kept(j) \subseteq Kept(j)'
    BY <1>3, <2>1, <2>2 DEF Kept
  <2> QED BY <2>1, <2>3, StayingKeepsSlots
<1>13. ASSUME NEW i \in Items, NEW u \in Units, ReleaseStageHold(i, u)
       PROVE  (\A j \in Items : Fit(j)') /\ CountersAgree'
  <2> DEFINE keep == (stageHolds[i] \ {u}) \union liveGroups[i]
  <2>1. /\ i \in inFlight /\ ReleaseBelow(i, reachedRank[i], keep)
        /\ stageHolds' = [stageHolds EXCEPT ![i] = @ \ {u}]
        /\ UNCHANGED <<inFlight, created, entered, target, reachedRank, liveGroups>>
    BY <1>13 DEF ReleaseStageHold
  <2>2. /\ Kept(i)' = keep /\ keep \subseteq Kept(i)
        /\ \A j \in Items : j # i => stageHolds'[j] = stageHolds[j]
    BY <1>1, <2>1 DEF TypeOK, Kept
  <2> HIDE DEF keep
  <2> QED BY <2>1, <2>2, ReleaseKeepsSlots
<1>14. ASSUME NEW i \in Items, NEW u \in Units, ReleaseRetained(i, u)
       PROVE  (\A j \in Items : Fit(j)') /\ CountersAgree'
  <2> DEFINE keep == stageHolds[i] \union (liveGroups[i] \ {u})
  <2>1. /\ i \in inFlight /\ ReleaseBelow(i, reachedRank[i], keep)
        /\ liveGroups' = [liveGroups EXCEPT ![i] = @ \ {u}]
        /\ UNCHANGED <<inFlight, created, entered, target, reachedRank, stageHolds>>
    BY <1>14 DEF ReleaseRetained
  <2>2. /\ Kept(i)' = keep /\ keep \subseteq Kept(i)
        /\ \A j \in Items : j # i => liveGroups'[j] = liveGroups[j]
    BY <1>1, <2>1 DEF TypeOK, Kept
  <2> HIDE DEF keep
  <2> QED BY <2>1, <2>2, ReleaseKeepsSlots
<1> QED BY <1>4, <1>5, <1>6, <1>7, <1>8, <1>9, <1>10, <1>11, <1>12, <1>13, <1>14 DEF Next

\* An item in flight is never nowhere: it has the slot of the node it stands in
\* or a place in the waiting room it stands in, after any moves, failed moves,
\* retained slots and releases (takeUnit, takeQueue, releaseBelow).
THEOREM NobodyIsNowhere == Spec => []HoldsItsPosition
<1>1. SlotInv => HoldsItsPosition
  <2> SUFFICES ASSUME SlotInv, NEW i \in inFlight
               PROVE  \/ \E u \in occupied[i] : reachedRank[i] = Rank(u)
                      \/ queuedAt[i] # NoUnit /\ reachedRank[i] = QueueRank(queuedAt[i])
    BY DEF HoldsItsPosition
  <2>1. i \in Items
    BY InFlightAreItems DEF SlotInv, OrderInv
  <2> QED BY <2>1, SlotFacts DEF Fit
<1> QED BY <1>1, SlotInit, SlotNext, PTL DEF Spec

\* No slot leaks and none is given back too early, and the counters that admit
\* the next item count what is really held.
THEOREM SlotsAreThoseHeld == Spec => []SlotsMatchHolds
<1>1. SlotInv => SlotsMatchHolds
  <2> SUFFICES ASSUME SlotInv PROVE NoLeak /\ RetainedIsHeld /\ CountersAgree
    BY DEF SlotsMatchHolds
  <2>1. \A i \in Items : Fit(i)
    BY DEF SlotInv
  <2> QED BY <2>1 DEF SlotInv, Fit, NoLeak, RetainedIsHeld
<1> QED BY <1>1, SlotInit, SlotNext, PTL DEF Spec
=============================================================================
