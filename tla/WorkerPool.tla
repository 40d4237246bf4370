----------------------------- MODULE WorkerPool -----------------------------
(***************************************************************************)
(* The pool of workers that create the items of a run and execute the      *)
(* processor.  Workers are interchangeable, so the model counts the        *)
(* workers at each point of run.worker and run.acquireItem, next to the    *)
(* counters the code itself keeps under the run's mutex (idle, spawning,   *)
(* liveWorkers, inFlight, the occupancy of the start gate, the WaitGroup). *)
(*                                                                         *)
(* A worker parked on the condition variable is asleep until a broadcast   *)
(* and only then re-checks, so a state change that forgets its broadcast   *)
(* shows.  SetItemLimit stores its value outside the mutex and broadcasts  *)
(* under it later: two steps.                                              *)
(***************************************************************************)
EXTENDS Integers

CONSTANTS MaxItems,        \* bound: how many items the run may create
          ItemLimitValues  \* what SetItemLimit may store; 0 is unlimited

ASSUME MaxItemsNat == MaxItems \in Nat
ASSUME ItemLimitsNat == ItemLimitValues \subseteq Nat

GateLimit == 1   \* the start stage admits one item at a time

VARIABLES
    \* the counters of the code
    idle, spawning, liveWorkers, inFlight, gate, waitGroup,
    stopCreating, itemLimit,
    created,         \* items ever created
    \* the workers, by where they are
    started,         \* goroutine started, not yet counted as live
    arriving,        \* before the first acquireItem
    seeking,         \* before a later acquireItem
    asleep, woken,   \* parked in acquireItem; woken has seen a broadcast
    atGate,          \* running an item that holds the start gate
    moved,           \* running an item that has given it up
    leaving,         \* acquireItem returned nil
    \* the rest of the world
    unannounced,     \* calls of SetItemLimit between store and broadcast
    runState         \* "init", "running", "returned"

codeVars == <<idle, spawning, liveWorkers, inFlight, gate, waitGroup,
              stopCreating, itemLimit, created>>
workers == <<started, arriving, seeking, asleep, woken, atGate, moved, leaving>>
vars == <<codeVars, workers, unannounced, runState>>

TypeOK ==
    /\ idle \in Nat /\ spawning \in Nat /\ liveWorkers \in Nat /\ inFlight \in Nat
    /\ gate \in Nat /\ waitGroup \in Nat /\ created \in 0 .. MaxItems
    /\ stopCreating \in BOOLEAN /\ itemLimit \in Nat
    /\ started \in Nat /\ arriving \in Nat /\ seeking \in Nat /\ asleep \in Nat
    /\ woken \in Nat /\ atGate \in Nat /\ moved \in Nat /\ leaving \in Nat
    /\ unannounced \in {0, 1} /\ runState \in {"init", "running", "returned"}

Init ==
    /\ idle = 0 /\ spawning = 0 /\ liveWorkers = 0 /\ inFlight = 0
    /\ gate = 0 /\ waitGroup = 0 /\ created = 0
    /\ stopCreating = FALSE /\ itemLimit \in ItemLimitValues
    /\ started = 0 /\ arriving = 0 /\ seeking = 0 /\ asleep = 0
    /\ woken = 0 /\ atGate = 0 /\ moved = 0 /\ leaving = 0
    /\ unannounced = 0 /\ runState = "init"

-----------------------------------------------------------------------------
UnitHasFreeSlot == gate < GateLimit

HasItemsRoom == itemLimit = 0 \/ inFlight < itemLimit

Room == UnitHasFreeSlot /\ HasItemsRoom

\* cond.Broadcast: whoever is parked will re-check.
Broadcast == asleep' = 0 /\ woken' = woken + asleep

\* Run starts the first worker.
StartRun ==
    /\ runState = "init"
    /\ runState' = "running"
    /\ spawning' = spawning + 1
    /\ waitGroup' = waitGroup + 1
    /\ started' = started + 1
    /\ UNCHANGED <<idle, liveWorkers, inFlight, gate, stopCreating, itemLimit,
                   created, arriving, seeking, asleep, woken, atGate, moved,
                   leaving, unannounced>>

\* The goroutine counts itself as a live worker.
Arrive ==
    /\ started > 0
    /\ started' = started - 1
    /\ arriving' = arriving + 1
    /\ liveWorkers' = liveWorkers + 1
    /\ UNCHANGED <<idle, spawning, inFlight, gate, waitGroup, stopCreating,
                   itemLimit, created, seeking, asleep, woken, atGate, moved,
                   leaving, unannounced, runState>>

\* Mutant of StandsBy: a worker that is only on its way does not count.
IdleStandsBy(i, s) == i > 0

\* Somebody else stands by for the next item, idle or on its way.
StandsBy(i, s) == i + s > 0

\* What a turn of acquireItem's loop may do, under the mutex, for a worker that
\* is not itself counted in idle or spawning any more (i and s are what the two
\* hold then): it exits, because the run stops or somebody else stands by,
Retire(i, s) ==
    /\ stopCreating \/ (~Room /\ StandsBy(i, s))
    /\ leaving' = leaving + 1
    /\ idle' = i /\ spawning' = s
    /\ UNCHANGED <<inFlight, gate, created, started, waitGroup, atGate, asleep>>

\* it creates an item, and a worker to stand by in its place if there is none,
CreateItem(i, s) ==
    /\ ~stopCreating /\ Room
    /\ created < MaxItems
    /\ created' = created + 1
    /\ inFlight' = inFlight + 1
    /\ gate' = gate + 1
    /\ atGate' = atGate + 1
    /\ idle' = i
    /\ LET spawned == IF StandsBy(i, s) THEN 0 ELSE 1
       IN  /\ spawning' = s + spawned
           /\ started' = started + spawned
           /\ waitGroup' = waitGroup + spawned
    /\ UNCHANGED <<leaving, asleep>>

\* or it parks on the condition variable.
Park(i, s) ==
    /\ ~stopCreating /\ ~Room /\ ~StandsBy(i, s)
    /\ idle' = i + 1 /\ spawning' = s
    /\ asleep' = asleep + 1
    /\ UNCHANGED <<inFlight, gate, created, started, waitGroup, atGate, leaving>>

AcquireLoop(i, s) == Retire(i, s) \/ CreateItem(i, s) \/ Park(i, s)

\* acquireItem, first call: the worker's reservation in spawning is cleared.
AcquireFirst ==
    /\ arriving > 0
    /\ arriving' = arriving - 1
    /\ AcquireLoop(idle, spawning - 1)
    /\ UNCHANGED <<liveWorkers, stopCreating, itemLimit, seeking, woken, moved,
                   unannounced, runState>>

\* acquireItem, called again after an item is done.
AcquireNext ==
    /\ seeking > 0
    /\ seeking' = seeking - 1
    /\ AcquireLoop(idle, spawning)
    /\ UNCHANGED <<liveWorkers, stopCreating, itemLimit, arriving, woken, moved,
                   unannounced, runState>>

\* cond.Wait returns in acquireItem: the worker is idle no more and goes round
\* the loop again.
Recheck ==
    /\ woken > 0
    /\ woken' = woken - 1
    /\ AcquireLoop(idle - 1, spawning)
    /\ UNCHANGED <<liveWorkers, stopCreating, itemLimit, arriving, seeking, moved,
                   unannounced, runState>>

\* Mutant of WorkerDone: the WaitGroup is not told.
WorkerDoneUnsaid ==
    /\ leaving > 0
    /\ leaving' = leaving - 1 /\ liveWorkers' = liveWorkers - 1
    /\ UNCHANGED <<idle, spawning, inFlight, gate, waitGroup, stopCreating, itemLimit,
                   created, started, arriving, seeking, asleep, woken, atGate, moved,
                   unannounced, runState>>

\* A worker's goroutine ends.
WorkerDone ==
    /\ leaving > 0
    /\ leaving' = leaving - 1
    /\ liveWorkers' = liveWorkers - 1
    /\ waitGroup' = waitGroup - 1
    /\ UNCHANGED <<idle, spawning, inFlight, gate, stopCreating, itemLimit, created,
                   started, arriving, seeking, asleep, woken, atGate, moved,
                   unannounced, runState>>

-----------------------------------------------------------------------------
\* Mutant of LeaveGate: nobody is woken.
LeaveGateQuietly ==
    /\ atGate > 0
    /\ atGate' = atGate - 1 /\ moved' = moved + 1 /\ gate' = gate - 1
    /\ UNCHANGED <<idle, spawning, liveWorkers, inFlight, waitGroup, stopCreating,
                   itemLimit, created, started, arriving, seeking, asleep, woken,
                   leaving, unannounced, runState>>

\* An item gives up the start gate as it moves on (takeUnit, takeQueue).
LeaveGate ==
    /\ atGate > 0
    /\ atGate' = atGate - 1
    /\ moved' = moved + 1
    /\ gate' = gate - 1
    /\ Broadcast
    /\ UNCHANGED <<idle, spawning, liveWorkers, inFlight, waitGroup, stopCreating,
                   itemLimit, created, started, arriving, seeking, leaving,
                   unannounced, runState>>

\* completeItem: the item is finished, its slots are free, and its worker goes
\* back to acquireItem.
CompleteItem ==
    /\ \/ /\ atGate > 0
          /\ atGate' = atGate - 1
          /\ gate' = gate - 1
          /\ UNCHANGED moved
       \/ /\ moved > 0
          /\ moved' = moved - 1
          /\ UNCHANGED <<atGate, gate>>
    /\ inFlight' = inFlight - 1
    /\ seeking' = seeking + 1
    /\ Broadcast
    /\ UNCHANGED <<idle, spawning, liveWorkers, waitGroup, stopCreating, itemLimit,
                   created, started, arriving, leaving, unannounced, runState>>

\* Shutdown begins: by a failed item or by the Run context.
BeginShutdown ==
    /\ runState = "running"
    /\ ~stopCreating
    /\ stopCreating' = TRUE
    /\ Broadcast
    /\ UNCHANGED <<idle, spawning, liveWorkers, inFlight, gate, waitGroup, itemLimit,
                   created, started, arriving, seeking, atGate, moved, leaving,
                   unannounced, runState>>

\* SetItemLimit: the atomic store, without the mutex.
StoreItemLimit ==
    /\ unannounced = 0        \* bound: one call of SetItemLimit at a time
    /\ itemLimit' \in ItemLimitValues \ {itemLimit}
    /\ unannounced' = 1
    /\ UNCHANGED <<idle, spawning, liveWorkers, inFlight, gate, waitGroup,
                   stopCreating, created, workers, runState>>

\* SetItemLimit: the broadcast under the mutex.
AnnounceItemLimit ==
    /\ unannounced = 1
    /\ unannounced' = 0
    /\ Broadcast
    /\ UNCHANGED <<codeVars, started, arriving, seeking, atGate, moved, leaving,
                   runState>>

\* Mutant of RunReturns: the items are waited for, not the workers.
RunReturnsEmpty ==
    /\ runState = "running" /\ stopCreating /\ inFlight = 0
    /\ runState' = "returned"
    /\ UNCHANGED <<codeVars, workers, unannounced>>

\* Run's workers.Wait returns.
RunReturns ==
    /\ runState = "running"
    /\ waitGroup = 0
    /\ runState' = "returned"
    /\ UNCHANGED <<codeVars, workers, unannounced>>

Next ==
    \/ StartRun \/ Arrive \/ AcquireFirst \/ AcquireNext \/ Recheck \/ WorkerDone
    \/ LeaveGate \/ CompleteItem \/ BeginShutdown
    \/ StoreItemLimit \/ AnnounceItemLimit \/ RunReturns

Spec == Init /\ [][Next]_vars

\* Goroutines are scheduled, a call of SetItemLimit returns, and Run gets the
\* WaitGroup.  Nothing makes anybody begin a shutdown or change a limit, and a
\* processor may hang for ever.
Fairness ==
    /\ WF_vars(StartRun) /\ WF_vars(Arrive) /\ WF_vars(AcquireFirst)
    /\ WF_vars(AcquireNext) /\ WF_vars(Recheck) /\ WF_vars(WorkerDone)
    /\ WF_vars(AnnounceItemLimit) /\ WF_vars(RunReturns)

FairSpec == Spec /\ Fairness

-----------------------------------------------------------------------------
(* The code's counters tell the truth *)

Accounting ==
    /\ spawning = started + arriving
    /\ idle = asleep + woken
    /\ inFlight = atGate + moved
    /\ gate = atGate
    /\ liveWorkers = arriving + seeking + idle + inFlight + leaving
    /\ waitGroup = liveWorkers + started

\* While the run creates items exactly one worker stands by for the next one,
\* idle or on its way: never a herd that every broadcast would wake, and never
\* nobody, which would end the run without a shutdown.
OneStandby ==
    /\ idle + spawning <= 1
    /\ (runState = "running" /\ ~stopCreating) => idle + spawning = 1
    /\ runState = "returned" => stopCreating

\* No wake-up is lost: a worker sleeps while it could create an item, or while
\* the run stops, only until a broadcast already on its way.
NoLostWakeup ==
    asleep > 0 => ~stopCreating /\ (Room => unannounced = 1)

\* The pool is no larger than the work: one worker per item in flight, the
\* standby, and those that have just finished an item or are about to exit.
PoolIsBounded == waitGroup <= inFlight + 1 + seeking + leaving

\* Run returns only when no item is in flight and no goroutine of the pool is left.
ReturnsDrained ==
    runState = "returned" =>
        inFlight = 0 /\ started + arriving + seeking + asleep + woken + leaving = 0

\* Once shutdown has begun Run returns, provided that processors return too, as
\* their contract asks.
ShutdownEnds == WF_vars(CompleteItem) => (stopCreating ~> runState = "returned")
=============================================================================
