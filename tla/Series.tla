------------------------------- MODULE Series -------------------------------
(***************************************************************************)
(* Admission to the nodes of one series (a scope): the start gate, then    *)
(* stages and fan-outs in a row.  Every operation of the code runs under   *)
(* the run's one mutex, so it is one atomic action here; a blocking call   *)
(* (MoveTo) is a call action that parks the item at its target and the     *)
(* actions by which the parked call goes on when it is woken: the body of  *)
(* the fan-out is closed (CloseBody), the node is entered (Enter), the     *)
(* item steps aside into the waiting room (StepAside), or the call fails   *)
(* (MoveFails).  A broadcast wakes every parked call, and each re-checks   *)
(* its condition, so an action is enabled when its condition holds.        *)
(*                                                                         *)
(* The series' in-flight list is the set inFlight ordered by creation: an  *)
(* item's prev is the youngest in-flight item older than it.  A fan-out's  *)
(* body is reduced to whether its work is outstanding; its branches and    *)
(* the upstream hold of Balanced and Strict admission are in FanOut.       *)
(***************************************************************************)
EXTENDS Integers, FiniteSets

CONSTANTS NItems,       \* bound: how many items are ever created
          NUnits,       \* the start gate is unit 0, the nodes are 1 .. NUnits
          FanOuts,      \* the units that are fan-outs; the others are stages
          LimitValues,  \* LimitValues[u]: the limits u may be given, live
          QueueValues   \* QueueValues[u]: the waiting-room sizes of u

Units == 0 .. NUnits
Items == 1 .. NItems

ASSUME NItemsNat == NItems \in Nat
ASSUME NUnitsNat == NUnits \in Nat
ASSUME FanOutsAreNodes == FanOuts \subseteq 1 .. NUnits
ASSUME LimitsPositive == LimitValues \in [Units -> SUBSET (Nat \ {0})]
ASSUME QueueSizesNat == QueueValues \in [Units -> SUBSET Nat]

NoUnit == -1

\* A node's waiting room has a rank of its own, one below the node's.
Rank(u) == 2 * u
QueueRank(u) == 2 * u - 1

VARIABLES
    created,      \* items 1 .. created have been created, in that order
    inFlight,     \* created and not finished
    occupancy,    \* occupancy[u]: the slots taken in u
    queued,       \* queued[u]: the places taken in u's waiting room
    limit,        \* limit[u], set live by SetLimit
    queueSize,    \* queueSize[u], set live by SetQueueSize
    occupied,     \* occupied[i]: the units in which i holds its slot
    entered,      \* entered[i]: the units i has ever entered
    queuedAt,     \* queuedAt[i]: the unit in whose waiting room i stands
    reachedRank,  \* reachedRank[i]: how far i has got
    maxRank,      \* maxRank[i]: how far the items behind i see it
    target,       \* target[i]: the unit of i's parked MoveTo
    body,         \* body[i]: i's open fan-out body: "none", "idle", "busy"
    stageHolds,   \* stageHolds[i]: the stages kept by an unreleased Retain
    liveGroups,   \* liveGroups[i]: the units kept by RetainFor or FanOut.Retain
    canceled,     \* the items in flight the run has canceled
    returned      \* the items whose processor has returned

life == <<created, inFlight, canceled, returned>>
dials == <<limit, queueSize>>
counters == <<occupancy, queued>>
ranks == <<reachedRank, maxRank>>
kept == <<stageHolds, liveGroups>>
vars == <<life, dials, counters, occupied, entered, queuedAt, ranks, target,
          body, kept>>

TypeOK ==
    /\ created \in 0 .. NItems
    /\ inFlight \subseteq 1 .. created
    /\ occupancy \in [Units -> Int]
    /\ queued \in [Units -> Int]
    /\ limit \in [Units -> Nat \ {0}]
    /\ queueSize \in [Units -> Nat]
    /\ occupied \in [Items -> SUBSET Units]
    /\ entered \in [Items -> SUBSET Units]
    /\ queuedAt \in [Items -> Units \union {NoUnit}]
    /\ reachedRank \in [Items -> Int]
    /\ maxRank \in [Items -> Int]
    /\ target \in [Items -> Units \union {NoUnit}]
    /\ body \in [Items -> {"none", "idle", "busy"}]
    /\ stageHolds \in [Items -> SUBSET Units]
    /\ liveGroups \in [Items -> SUBSET Units]
    /\ canceled \subseteq Items
    /\ returned \subseteq Items

-----------------------------------------------------------------------------
(* Conditions *)

Older(i) == {j \in inFlight : j < i}

\* j is i's predecessor in the in-flight list.
IsPrev(j, i) == j \in Older(i) /\ \A k \in Older(i) : k <= j

\* Mutant of GateOpen: where the predecessor is, not what it has published.
GateOpenAtReached(i, r) == \A j \in Items : IsPrev(j, i) => reachedRank[j] >= r

\* The ordering gate: the predecessor has published rank r.
GateOpen(i, r) == \A j \in Items : IsPrev(j, i) => maxRank[j] >= r

UnitHasFreeSlot(u) == occupancy[u] < limit[u]

CanEnter(i, u) == UnitHasFreeSlot(u) /\ GateOpen(i, Rank(u))

\* Mutant of CanEnterQueue: no ordering gate on the waiting room.
CanEnterQueueIfRoom(i, u) == queued[u] < queueSize[u]

CanEnterQueue(i, u) == queued[u] < queueSize[u] /\ GateOpen(i, QueueRank(u))

\* The units whose slot outlives the item's move out of them.
Kept(i) == stageHolds[i] \union liveGroups[i]

\* i's processor is running its own code, between two calls.
Running(i) == i \in inFlight \ returned /\ target[i] = NoUnit

\* A move that is not misuse (misuse panics): forward, to a node never entered.
LegalMove(i, u) ==
    /\ u # 0
    /\ Rank(u) >= reachedRank[i]
    /\ u \notin entered[i]

\* i stands in u now; a slot kept from an earlier stop does not count.
InUnit(i, u) == u \in occupied[i] /\ reachedRank[i] = Rank(u)

-----------------------------------------------------------------------------
(* The release sweep and the mutation half of a move *)

Higher(a, b) == IF a > b THEN a ELSE b

\* Mutant of Behind: the slot of the item's own node as well.
BehindOrAt(i, r, keep) == {u \in occupied[i] : Rank(u) <= r /\ u \notin keep}

\* The slots releaseBelow frees: behind rank r and not kept.
Behind(i, r, keep) == {u \in occupied[i] : Rank(u) < r /\ u \notin keep}

\* Mutant of LeftQueue: the sweep forgets the waiting room.
LeftQueueNever(i, r) == {}

\* The place in a waiting room releaseBelow gives back, as a set.
LeftQueue(i, r) == {u \in Units : u = queuedAt[i] /\ QueueRank(u) < r}

\* One per unit of a set: what a counter over the units goes up or down by.
Count(units) == [u \in Units |-> IF u \in units THEN 1 ELSE 0]

\* The whole of releaseBelow for item i, which keeps what keep names.
ReleaseBelow(i, r, keep) ==
    LET behind == Behind(i, r, keep)
        left == LeftQueue(i, r)
    IN  /\ occupied' = [occupied EXCEPT ![i] = @ \ behind]
        /\ occupancy' = [u \in Units |-> occupancy[u] - Count(behind)[u]]
        /\ queuedAt' = [queuedAt EXCEPT ![i] = IF @ \in left THEN NoUnit ELSE @]
        /\ queued' = [u \in Units |-> queued[u] - Count(left)[u]]

\* i is admitted to u: occupy, then releaseBelow, whose sweep also gives back
\* the place in the waiting room, one rank below the node.
TakeUnit(i, u) ==
    LET publish == u \notin FanOuts
        behind == Behind(i, Rank(u), Kept(i))
        left == LeftQueue(i, Rank(u))
        published == IF publish THEN Rank(u) ELSE QueueRank(u)
    IN  /\ occupied' = [occupied EXCEPT ![i] = (@ \ behind) \union {u}]
        /\ occupancy' = [v \in Units |-> occupancy[v] + Count({u})[v] - Count(behind)[v]]
        /\ entered' = [entered EXCEPT ![i] = @ \union {u}]
        /\ reachedRank' = [reachedRank EXCEPT ![i] = Higher(@, Rank(u))]
        /\ maxRank' = [maxRank EXCEPT ![i] = Higher(@, published)]
        /\ queuedAt' = [queuedAt EXCEPT ![i] = IF @ \in left THEN NoUnit ELSE @]
        /\ queued' = [v \in Units |-> queued[v] - Count(left)[v]]
        /\ body' = [body EXCEPT ![i] = IF publish THEN "none" ELSE "idle"]

\* i stands aside in front of u: it gives up a place in front of an earlier
\* node and everything behind it.  It has not entered u.
TakeQueue(i, u) ==
    LET behind == Behind(i, QueueRank(u), Kept(i))
        farther == QueueRank(u) > reachedRank[i]
    IN  /\ occupied' = [occupied EXCEPT ![i] = @ \ behind]
        /\ occupancy' = [v \in Units |-> occupancy[v] - Count(behind)[v]]
        /\ queued' = [v \in Units |-> queued[v] + Count({u})[v] - Count({queuedAt[i]})[v]]
        /\ queuedAt' = [queuedAt EXCEPT ![i] = u]
        /\ reachedRank' = [reachedRank EXCEPT ![i] = Higher(@, QueueRank(u))]
        /\ maxRank' = [maxRank EXCEPT ![i] = IF farther THEN Higher(@, QueueRank(u)) ELSE @]

-----------------------------------------------------------------------------
(* Items come, call the nodes and go *)

Init ==
    /\ created = 0
    /\ inFlight = {}
    /\ canceled = {}
    /\ returned = {}
    /\ limit \in [Units -> UNION {LimitValues[u] : u \in Units}]
    /\ queueSize \in [Units -> UNION {QueueValues[u] : u \in Units}]
    /\ \A u \in Units : limit[u] \in LimitValues[u] /\ queueSize[u] \in QueueValues[u]
    /\ occupancy = [u \in Units |-> 0]
    /\ queued = [u \in Units |-> 0]
    /\ occupied = [i \in Items |-> {}]
    /\ entered = [i \in Items |-> {}]
    /\ queuedAt = [i \in Items |-> NoUnit]
    /\ reachedRank = [i \in Items |-> 0]
    /\ maxRank = [i \in Items |-> 0]
    /\ target = [i \in Items |-> NoUnit]
    /\ body = [i \in Items |-> "none"]
    /\ stageHolds = [i \in Items |-> {}]
    /\ liveGroups = [i \in Items |-> {}]

\* A new item at the start gate, last in the in-flight list.  (Nobody is
\* canceled before shutdown has stopped the creation of items.)
Create ==
    /\ created < NItems
    /\ canceled = {}
    /\ UnitHasFreeSlot(0)
    /\ LET i == created + 1
       IN  /\ created' = i
           /\ inFlight' = inFlight \union {i}
           /\ occupied' = [occupied EXCEPT ![i] = {0}]
           /\ entered' = [entered EXCEPT ![i] = {0}]
           /\ occupancy' = [occupancy EXCEPT ![0] = @ + 1]
    /\ UNCHANGED <<canceled, returned, dials, queued, queuedAt, ranks, target,
                   body, kept>>

\* The processor calls MoveTo.
MoveTo(i, u) ==
    /\ Running(i)
    /\ LegalMove(i, u)
    /\ target' = [target EXCEPT ![i] = u]
    /\ UNCHANGED <<life, dials, counters, occupied, entered, queuedAt, ranks,
                   body, kept>>

\* i's MoveTo is parked and i is not canceled.
Waiting(i) == i \in inFlight \ canceled /\ target[i] # NoUnit

\* joinPending: before it waits for room the call closes the item's idle body.
CloseBody(i) ==
    /\ Waiting(i)
    /\ body[i] = "idle"
    /\ body' = [body EXCEPT ![i] = "none"]
    /\ UNCHANGED <<life, dials, counters, occupied, entered, queuedAt, ranks,
                   target, kept>>

\* enterUnit: there is room in the node and the gate is open.
Enter(i) ==
    /\ Waiting(i)
    /\ body[i] = "none"
    /\ CanEnter(i, target[i])
    /\ TakeUnit(i, target[i])
    /\ target' = [target EXCEPT ![i] = NoUnit]
    /\ UNCHANGED <<life, dials, kept>>

\* enterUnit: only the waiting room is open; the call stays parked.
StepAside(i) ==
    /\ Waiting(i)
    /\ body[i] = "none"
    /\ queuedAt[i] # target[i]
    /\ ~CanEnter(i, target[i])
    /\ CanEnterQueue(i, target[i])
    /\ TakeQueue(i, target[i])
    /\ UNCHANGED <<life, dials, entered, target, body, kept>>

\* The call's context or the item's is canceled, or the body it closes failed:
\* the call returns an error.  The item keeps its place in a waiting room; a
\* body still busy stays open, an idle one is closed.
MoveFails(i) ==
    /\ i \in inFlight
    /\ target[i] # NoUnit
    /\ target' = [target EXCEPT ![i] = NoUnit]
    /\ body' = [body EXCEPT ![i] = IF @ = "idle" THEN "none" ELSE @]
    /\ UNCHANGED <<life, dials, counters, occupied, entered, queuedAt, ranks, kept>>

\* TryMoveTo finds room in the node itself and no work of the item outstanding.
\* It enters, past any waiting room, or reports the error of the body it closes.
TryMoveTo(i, u) ==
    /\ Running(i)
    /\ i \notin canceled
    /\ LegalMove(i, u)
    /\ body[i] # "busy"
    /\ CanEnter(i, u)
    /\ \/ TakeUnit(i, u)
       \/ /\ body[i] = "idle"
          /\ body' = [body EXCEPT ![i] = "none"]
          /\ UNCHANGED <<counters, occupied, entered, queuedAt, ranks>>
    /\ UNCHANGED <<life, dials, target, kept>>

\* Schedule at the fan-out the item is in: work is outstanding, and the door
\* opens for the items behind.
Schedule(i) ==
    /\ Running(i)
    /\ i \notin canceled
    /\ body[i] # "none"
    /\ body' = [body EXCEPT ![i] = "busy"]
    /\ maxRank' = [maxRank EXCEPT ![i] = Higher(@, reachedRank[i])]
    /\ UNCHANGED <<life, dials, counters, occupied, entered, queuedAt,
                   reachedRank, target, kept>>

\* The items behind i.
Younger(i) == {j \in inFlight : j > i}

\* Work nobody joined any more fails the item whose processor has returned, and
\* a failure cancels every younger item at once.
MayFailLate(i) ==
    canceled' \in {canceled, canceled \union (IF i \in returned THEN Younger(i) ELSE {})}

\* The last outstanding work of the body is done: a body sealed by the return
\* of the processor is finished with it, an open one stays open.
BodyIdle(i) ==
    /\ i \in inFlight
    /\ body[i] = "busy"
    /\ body' = [body EXCEPT ![i] = IF i \in returned THEN "none" ELSE "idle"]
    /\ MayFailLate(i)
    /\ UNCHANGED <<created, inFlight, returned, dials, counters, occupied, entered, queuedAt, ranks,
                   target, kept>>

-----------------------------------------------------------------------------
(* Retained slots *)

\* Retain: the stage's slot is kept until the release is called.
Retain(i, u) ==
    /\ Running(i)
    /\ u \notin FanOuts
    /\ InUnit(i, u)
    /\ u \notin stageHolds[i]        \* bound: one live Retain per item and stage
    /\ stageHolds' = [stageHolds EXCEPT ![i] = @ \union {u}]
    /\ UNCHANGED <<life, dials, counters, occupied, entered, queuedAt, ranks,
                   target, body, liveGroups>>

\* RetainFor: the stage's slot is kept while a background task runs.
RetainFor(i, u) ==
    /\ Running(i)
    /\ i \notin canceled
    /\ u \notin FanOuts
    /\ InUnit(i, u)
    /\ u \notin liveGroups[i]        \* bound: one live RetainFor per item and stage
    /\ liveGroups' = [liveGroups EXCEPT ![i] = @ \union {u}]
    /\ UNCHANGED <<life, dials, counters, occupied, entered, queuedAt, ranks,
                   target, body, stageHolds>>

\* FanOut.Retain: the body is sealed and its outstanding work keeps the slot
\* (an idle one is finished at once); the door opens.
RetainBody(i, u) ==
    /\ Running(i)
    /\ u \in FanOuts
    /\ InUnit(i, u)
    /\ body[i] # "none"
    /\ liveGroups' = [liveGroups EXCEPT ![i] =
                         IF body[i] = "busy" THEN @ \union {u} ELSE @]
    /\ body' = [body EXCEPT ![i] = "none"]
    /\ maxRank' = [maxRank EXCEPT ![i] = Higher(@, Rank(u))]
    /\ UNCHANGED <<life, dials, counters, occupied, entered, queuedAt,
                   reachedRank, target, stageHolds>>

\* The release of a Retain is called, from any goroutine; the slot goes if the
\* item has moved on and no task group keeps it.
ReleaseStageHold(i, u) ==
    /\ i \in inFlight
    /\ u \in stageHolds[i]
    /\ stageHolds' = [stageHolds EXCEPT ![i] = @ \ {u}]
    /\ ReleaseBelow(i, reachedRank[i], (stageHolds[i] \ {u}) \union liveGroups[i])
    /\ UNCHANGED <<life, dials, entered, ranks, target, body, liveGroups>>

\* A RetainFor task, or the last work of a retained body, returns: the task
\* group settles and gives back its slot by the same rule.
ReleaseRetained(i, u) ==
    /\ i \in inFlight
    /\ u \in liveGroups[i]
    /\ liveGroups' = [liveGroups EXCEPT ![i] = @ \ {u}]
    /\ ReleaseBelow(i, reachedRank[i], stageHolds[i] \union (liveGroups[i] \ {u}))
    /\ MayFailLate(i)
    /\ UNCHANGED <<created, inFlight, returned, dials, entered, ranks, target, body, stageHolds>>

-----------------------------------------------------------------------------
(* Completion, cancellation, dials *)

\* Mutant of Return: the open body is not sealed.
ReturnUnsealed(i) ==
    /\ Running(i)
    /\ returned' = returned \union {i}
    /\ canceled' \in {canceled, canceled \union Younger(i)}
    /\ UNCHANGED <<created, inFlight, dials, counters, occupied, entered,
                   queuedAt, ranks, target, body, kept>>

\* The processor returns.  A failure, or an abort while the run shuts down,
\* cancels every younger item at once; an idle body is sealed and so finished.
Return(i) ==
    /\ Running(i)
    /\ returned' = returned \union {i}
    /\ canceled' \in {canceled, canceled \union Younger(i)}
    /\ body' = [body EXCEPT ![i] = IF @ = "idle" THEN "none" ELSE @]
    /\ UNCHANGED <<created, inFlight, dials, counters, occupied, entered,
                   queuedAt, ranks, target, kept>>

\* completeItem's join is over (no live task group): an abort found only now
\* cancels the younger items, everything the item still holds is freed, a
\* Retain never released included, and it leaves the list.
Finish(i) ==
    /\ i \in inFlight \cap returned
    /\ body[i] = "none"
    /\ liveGroups[i] = {}
    /\ inFlight' = inFlight \ {i}
    /\ stageHolds' = [stageHolds EXCEPT ![i] = {}]
    /\ occupied' = [occupied EXCEPT ![i] = {}]
    /\ occupancy' = [u \in Units |-> occupancy[u] - Count(occupied[i])[u]]
    /\ queuedAt' = [queuedAt EXCEPT ![i] = NoUnit]
    /\ queued' = [u \in Units |-> queued[u] - Count({queuedAt[i]})[u]]
    /\ MayFailLate(i)
    /\ UNCHANGED <<created, returned, dials, entered, ranks, target, body,
                   liveGroups>>

\* The drain timeout cancels everybody in flight.
CancelInFlight ==
    /\ inFlight # {}
    /\ canceled' = canceled \union inFlight
    /\ UNCHANGED <<created, inFlight, returned, dials, counters, occupied, entered,
                   queuedAt, ranks, target, body, kept>>

SetLimit(u) ==
    /\ \E l \in LimitValues[u] \ {limit[u]} : limit' = [limit EXCEPT ![u] = l]
    /\ UNCHANGED <<life, queueSize, counters, occupied, entered, queuedAt, ranks,
                   target, body, kept>>

SetQueueSize(u) ==
    /\ \E n \in QueueValues[u] \ {queueSize[u]} : queueSize' = [queueSize EXCEPT ![u] = n]
    /\ UNCHANGED <<life, limit, counters, occupied, entered, queuedAt, ranks,
                   target, body, kept>>

\* Nothing is in flight: the run may be over, or wait for its next item.
Quiet == inFlight = {} /\ UNCHANGED vars

Next ==
    \/ Create
    \/ Quiet
    \/ CancelInFlight
    \/ \E i \in Items :
         \/ CloseBody(i) \/ Enter(i) \/ StepAside(i) \/ MoveFails(i)
         \/ Schedule(i) \/ BodyIdle(i) \/ Return(i) \/ Finish(i)
    \/ \E i \in Items, u \in Units :
         \/ MoveTo(i, u) \/ TryMoveTo(i, u)
         \/ Retain(i, u) \/ RetainFor(i, u) \/ RetainBody(i, u)
         \/ ReleaseStageHold(i, u) \/ ReleaseRetained(i, u)
    \/ \E u \in Units : SetLimit(u) \/ SetQueueSize(u)

Spec == Init /\ [][Next]_vars

-----------------------------------------------------------------------------
(* Safety *)

\* The ordering gate holds for the whole list, though every check looks at the
\* predecessor alone: an older item in flight has always published at least
\* the rank a younger one has (the invariant canEnter and submitClaimed rely on).
OrderGate ==
    \A old, young \in inFlight : old < young => maxRank[old] >= maxRank[young]

\* Nobody overtakes: an item has entered a node only if every older item still
\* in flight has published that node, or got past it.  At a fan-out this
\* is the door: entered, but not yet scheduled, does not let the next item in.
NoOvertaking ==
    \A old, young \in inFlight :
        old < young => \A u \in entered[young] : maxRank[old] >= Rank(u)

\* What the two rest on: an item has entered what it occupies, its parked move
\* goes forward, and an open body is the body of the node it stands in.
PositionsFit ==
    \A i \in Items :
        /\ occupied[i] \subseteq entered[i]
        /\ maxRank[i] >= 0
        /\ i > created => maxRank[i] = 0 /\ body[i] = "none"
        /\ target[i] # NoUnit => Rank(target[i]) >= reachedRank[i]
        /\ body[i] # "none" => \E u \in entered[i] : reachedRank[i] = Rank(u)

\* An item is never nowhere: in flight, it holds the slot of the node it is in
\* or the place in the waiting room it stands in, whatever failed moves,
\* retained slots and their releases came before.
HoldsItsPosition ==
    \A i \in inFlight :
        \/ \E u \in occupied[i] : reachedRank[i] = Rank(u)
        \/ queuedAt[i] # NoUnit /\ reachedRank[i] = QueueRank(queuedAt[i])

\* No slot leaks: a slot behind the item's position is there for a Retain or
\* a task group still alive, a place in a waiting room only in front of the
\* node the item has come to, and an item that is over holds nothing.
NoLeak ==
    \A i \in Items :
        /\ \A u \in occupied[i] :
              i \in inFlight /\ (Rank(u) < reachedRank[i] => u \in Kept(i))
        /\ queuedAt[i] # NoUnit =>
              i \in inFlight /\ reachedRank[i] = QueueRank(queuedAt[i])

\* A retained slot is really there as long as the Retain or the background
\* work that keeps it lives, wherever the item has gone meanwhile.
RetainedIsHeld == \A i \in Items : Kept(i) \subseteq occupied[i]

InsideCount(u) == Cardinality({i \in Items : u \in occupied[i]})
WaitingCount(u) == Cardinality({i \in Items : queuedAt[i] = u})

\* The run's counters, kept up by increments and decrements at every move,
\* agree with what the items hold.
CountersAgree ==
    \A u \in Units : occupancy[u] = InsideCount(u) /\ queued[u] = WaitingCount(u)

\* What is kept is there, what is there is kept, and what is there is counted:
\* the slots behind an item are those of its live Retain calls and task groups.
SlotsMatchHolds == NoLeak /\ RetainedIsHeld /\ CountersAgree

\* To an observer of the published ranks the series is an ordered line.
Line == INSTANCE OrderedLine
            WITH LastRank <- Rank(NUnits), joined <- created, line <- inFlight,
                 rank <- maxRank

ImplementsOrderedLine == Line!LineSpec

-----------------------------------------------------------------------------
(* Liveness *)

\* A parked call is woken by the broadcast of every step that may let it go on,
\* a canceled one is woken by its context, the work of task groups returns, and
\* a processor, however often its calls fail, returns in the end (the contract
\* of ItemProcessor).  Nobody has to call the release of a Retain.
Fairness ==
    \A i \in Items :
        /\ WF_vars(CloseBody(i)) /\ WF_vars(Enter(i))
        /\ WF_vars(i \in canceled /\ MoveFails(i))
        /\ WF_vars(BodyIdle(i))
        /\ \A u \in Units : WF_vars(ReleaseRetained(i, u))
        /\ SF_vars(Return(i))
        /\ WF_vars(Finish(i))

FairSpec == Spec /\ Fairness

\* Every item leaves the series: no combination of retained slots, waiting rooms
\* and outstanding work has the items wait for each other for ever.
EverybodyFinishes == \A i \in Items : (i \in inFlight) ~> (i \notin inFlight)
=============================================================================
