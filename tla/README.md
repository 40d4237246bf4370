# A TLA+ model of go-conveyor

go-conveyor is a Go library that moves *items* through a line of *nodes*
(stages and fan-outs) in order: every item is a goroutine that calls
`node.MoveTo`, works, moves on, and finally returns; no item ever overtakes an
older one. This directory holds TLA+ modules translated from the code, the TLC
configurations that check them on small instances, and theorems about them that
TLAPS proves for every value of the constants.

All paths below are relative to the repository. The library proper is the
package in the repository's root, some 4,500 lines with their comments and
without the tests.

---------------------------------------------------------------------------

## 1. The system

### Components

| Component | Code | State | Operations |
|---|---|---|---|
| Topology builder | `builder.go`, parts of `conveyor.go`, `branch.go`, `unit.go` | nodes with their ranks, scopes, branches | `AddStage`, `AddFanOut`, `AddBranch`, `Build` (`assignRanks`) |
| Admission and order gate | `state.go`, `stage.go`, `unit.go` | per unit: occupancy, queued; per item: `occupied`, `queuedAt`, `reachedRank`, `maxRank`, `prev` / `next` of the scope's in-flight list | `MoveTo`, `TryMoveTo`, `enterUnit`, `takeUnit`, `takeQueue`, `releaseBelow` |
| Retains | `stage.go`, `task_group.go`, `state.go` | `stageHolds`, live groups with a `retainUnit` | `Retain` and the function it returns, `RetainFor`, `FanOut.Retain` |
| Fan-out bodies and branch queues | `fanout.go`, `task.go`, `state.go` | the body's state and task group, per branch: queue of collections, occupancy, workers | `Schedule` before and after entry, `Wait`, `submitClaimed`, `insertCollection`, `pump`, `branchWorker`, `dropCollection` |
| Upstream hold (backpressure) | `state.go` | the hold of an admission: its token, mode, awaiting set | `newHold`, `branchStarted`, `dischargeHold`, `SetBackpressure` |
| Task groups | `task_group.go` | counters of unexhausted sources and live tasks, first error, joined, Finished | `settle`, `recordErr`, `releaseRetained`, `Wait` |
| Item worker pool | `run.go` | `idle`, `spawning`, in-flight gauge, `stopCreating`, a WaitGroup | `acquireItem`, `worker`, `spawn`, `Run` |
| Completion, errors, cascade | `run.go`, `item.go` | `finished`, `reported`, per-item context | `completeItem`, `settleOutcome`, `itemFailed`, `failRoot`, `cancelLater` |
| Shutdown and drain | `run.go` | `shutdownErr`, `drainErr`, the watcher goroutine | `watchShutdown`, `markShutdownLocked`, `cancelInFlight`, `result` |
| UntilShutdown contexts | `context.go` | `shutdownBegun` (an atomic mirror), `shutdownCtx`, `AfterFunc` watches | `UntilShutdown`, `newUntilShutdown` |
| Dynamic dials | `state.go`, `conveyor.go` | atomics of the conveyor, `currentRun` | `SetLimit`, `SetQueueSize`, `SetBackpressure`, `SetItemLimit`, against `tryRun` / `stopRun` |
| Lanes (branches with nodes) | `branch.go`, `state.go`, `run.go`, `item.go` | a scope per branch, its entrance, child items, work that keeps the entrance | `startWork` of a child, its `MoveTo`, `Schedule`, `Lane.Retain` / `RetainFor`, its completion |
| Demo backend | `demo/internal/runtime/manager.go`, `demo/internal/topology/process.go` | the manager's flags; the registries Failures, Retains, LanePaths, BlockedEntries, FanOutEntry | `Run`, `CancelCtx`, `Stop`, the clicks, `ItemProcessor`, `sleepInStage` |
| Misuse checks, errors, stats, debug | `context.go`, `errors.go`, `stats.go`, `debug.go` | – | panics, wrapping, snapshots |
| Benchmarks, demo's UI | `bench/`, `demo/web` | – | programs around the library |

### How they interact

Everything a run owns sits under **one mutex** (`run.mu`) with **one condition
variable**. A public call locks it, does its whole cascade, broadcasts if
something may have become possible, and unlocks; a blocking call re-checks its
condition in a loop. So a handler is atomic with respect to other handlers, and
the interleavings that matter are those *between* critical sections:

- between the calls of different items, of tasks and of release functions;
- between a parked call and whatever happens before it is woken;
- between an item's return and its finish (it joins its body and its task groups
  without the mutex);
- between `watchShutdown`'s `select` and its next lock.

Four things happen outside the mutex, and each has a module that breaks it into
its loads and stores: the dials' atomics (`Dials`), the store of the item limit
between a worker's check and its sleep (`WorkerPool`, `Dials`), the mirror
`shutdownBegun` and the `AfterFunc` watches (`UntilShutdown`), and the watcher's
`select` (`Shutdown`).

### What is hard, and what makes each part correct

| Part | Hard because | Correct if |
|---|---|---|
| Order gate | it compares an item with its *next older neighbour* only; items leave from anywhere in the line, limits change live | nobody overtakes; the line refines `OrderedLine` |
| Slots | a slot may be given back by a move, a waiting room, a failed move, a Retain's end, a task's end, a hold's end, the item's return | exactly once, never too early, never forgotten |
| Fan-out door | an item is inside before its first batch is queued; the door is a rank published later | first batches reach the branches in the order of items |
| Upstream hold | the hold owns a slot of the node behind, taken over from the item; seven ways to end it | it lasts exactly as long as its mode says |
| Prepared work | scheduled before its node is entered, kept by the item, submitted by the step that enters, forgotten by a move past it | what is not overtaken by the item itself is activated |
| Lanes | the entrance passes from child to child by whatever ends its use; a child's failure climbs two levels while the entrance is handed on | one holder, no idle entrance, children in order, no orphan, no lost error, nothing started for a failed body |
| Completion | the outcome is settled twice (before and after the join), a task may fail between | no error is lost, nobody gets past a failure, everybody finishes |
| Worker pool | two counters decide whether to spawn, park or retire | one standby, no lost wake-up, bounded, drained at the end |
| Shutdown | several channels ready at once; the drain limit fires as the last item goes | the result is what happened, the drain is bounded, Run returns |
| UntilShutdown | lock-free fast path beside the mutex | a late context is born done, no watch leaks |
| Dials | a setter uses a run it loaded without a lock | no turn of a dial is lost |
| Demo | a sleeper takes two channels and looks at two registries in five lock holds; a release happens after its unlock | no lost click, every hold can be released, what is shown is so, Stop ends the run |

`PROJECT.json` lists these hazards at their lines, with the properties that
would notice.

---------------------------------------------------------------------------

## 2. The modules

```
   OrderedLine      what a series and a fan-out promise: an ordered line of ranks
   ^        ^
   |        |  refinement (ImplementsOrderedLine)
 Series   FanOut   Lanes   WorkerPool   Shutdown   UntilShutdown   Dials   Demo
   |        |        |         |            |            |           |       |
 MCSeries MCFanOut MCLanes MCWorkerPool MCShutdown MCUntilShutdown MCDials MCDemo   TLC
   |                 |         |            |            |           |       |
 SeriesProofs | LanesProofs WorkerPoolProofs |   UntilShutdownProofs  |  DemoProofs  TLAPS
         FanOutProofs                 ShutdownProofs            DialsProofs
```

The modules cut the system along what one step can see. They meet at named
points: `Series` reduces a body to *outstanding or not*, `FanOut` and `Lanes`
reduce the rest of the line to *the gate behind and room ahead*; `FanOut`
details what branches without nodes do, `Lanes` what a branch with nodes does;
`Shutdown` takes from `Series` only that an item enters a node after everybody
ahead of it; `WorkerPool` and `Shutdown` share the moment at which Run's workers
are gone; `Dials` abstracts whatever condition a parked call waits for to *the
dial admits*; `Demo` uses the conveyor through its public operations only.

### OrderedLine
The abstract specification. Members join at the back of a line, each has a rank
that only grows, nobody's rank passes that of somebody ahead, and members leave
from anywhere. It knows nothing of slots, rooms, bodies or errors. `Series` and
`FanOut` both implement it, with the published rank (`maxRank`) of the code, not the
rank reached: an item inside a fan-out that has not brought its first batch is
past the gate, but to the items behind it is still where it was.

### Series (`state.go`, `stage.go`, `unit.go`, `item.go`)
One scope: the start gate (unit 0) and nodes 1..NUnits, each a stage or a
fan-out. Variables carry the names of the code's fields. A blocking `MoveTo` is
`MoveTo` (the call: it joins the body the item stands in, and enters at once if
it can) and then `CloseBody`, `Enter`, `StepAside` (into the waiting room) or
`MoveFails`, as the parked call goes on. `TryMoveTo` is one step. `Retain`,
`RetainFor` and `RetainBody` (`FanOut.Retain`) keep a slot past the next move;
`ReleaseStageHold` and `ReleaseRetained` end that, at any time, also after the
item has moved on or returned. `Return` is `completeItem` up to its join (it
seals what is open), `Finish` the rest. `CancelInFlight`, `SetLimit` and
`SetQueueSize` come from outside. `TakeUnit`, `TakeQueue` and `ReleaseBelow`
are the code's mutation halves, sweep included.

An item's `prev` pointer is *derived* from the set of items in flight, ordered
by creation (`IsPrev`); the linked list itself is not modelled yet.

### FanOut (`fanout.go`, `task_group.go`, `state.go`, `run.go`)
One fan-out between the gate behind and free room ahead. The code runs a long
cascade in one critical section (a task that starts may end a hold, whose end
frees the node behind; a dropped collection may settle a task group, which fails
the item, which cancels the items behind). Each method of the cascade is an
operator, from the record of one item to the next where it touches that item
only (`DischargeHold`, `BranchStarted`, `Settle`, `SealBody`, `MarkEntering`), from
the state of the run to the next where it does more (`ItemFailed`, `StartWork`,
`DropCollection`, `SubmitClaimed`). The code's loops are recursive functions:
`GrabNext` drops dead heads (`DropDead`), as many as the queue is long at most;
`Pump` pulls as many tasks as the limit allows; `InsertAll` and `PumpAll` go
through the branches a batch touches. An action commits one whole cascade. Branches are
*pools*: workers pull tasks from the queue's head, queues are ordered by the age
of the item. `Schedule` comes from the item before it enters (`Prepare`, whose
batch `Enter` activates, `DropDormant` forgets and `Refused` drops), from the
item inside its body, or from a running task of the body, which may bring more
work after the body is sealed. A task fails, or returns a `ShutdownError`
without having been canceled: `RecordErr` keeps that as an abort, and replaces
it by a failure that comes later. Two fields of an item are history, for the
properties alone: `begun` (its first batch started under a balanced hold) and `broke` (a
task of it has failed).

### Lanes (`fanout.go`, `branch.go`, `state.go`, `run.go`, `item.go`)
A fan-out whose branch has nodes of its own: the tasks are child items with a line
of their own, and the tree has two levels. The actions of the items are
`EnterFanOut`, `Schedule`, `Join`, `Leave`, `MoveOn`, `Return`, `Finish`; those of the
children `Move`, `Spawn` (more work onto the body it belongs to), `Retain`,
`Release`, `RetainFor`, `WorkReturns`, `JoinWork`, `ChildReturns`,
`ChildFinishes`. As in `FanOut` a helper is one method of the cascade. `Pump` is the
heart: whatever ends the use of the entrance ends with it. The gates, of the
fan-out (`DoorOpen`) and of the lane's stages (`GateOpen`), ask the next older
item or child only, as `canEnter` asks `it.prev`. A task, work or a processor may
return a `ShutdownError` of its own accord (`"abort"` in `Failures`). On one branch the
collections of an item are neighbours and are served front to back, so the
queue, kept in the age of items, is the number of tasks each item has in it
(`queued`), and the counters of a task group are the sizes of sets.

### Demo (`demo/internal/runtime/manager.go`, `demo/internal/topology/process.go`)
The program with the richest protocol around the library: a manager with `Run`,
`CancelCtx`, `Stop` and the clicks, and the registries through which the
goroutines of the items, the clicks and the snapshot see each other. Every hold of a
registry's mutex that changes it is a step: `sleepInStage` alone is `Arm`, `ArmRetain`, `Apply`,
`Test`, `Wake` / `Timer` / `CtxDone`, `Look`; `ReleaseItem` calls the conveyor's
release function after its unlock (`ReleaseHold`); a walker that the next node refuses
gives up its entry in `LanePaths` behind (`ReleaseBehind`) and then the one ahead
(`ReleaseAhead`). Only what walks nodes is marked as blocked: a pool's task goes
from its sleep to its end. The children and tasks of an item are queued together; `Start`
goes on serving them in a graceful drain, while new items are not created. A walker is an item, a
child of item 1 or a task of it, by `scope`; the two latter share an item number and are
told apart by their path. What the conveyor does (admit, cancel, drain) is
abstract, at the strength the other modules establish.

### WorkerPool (`run.go`, `state.go`)
The goroutines that create items. `acquireItem`'s loop is `AcquireLoop` (retire,
create and spawn a successor, or park), reached for the first time
(`AcquireFirst`, which clears the reservation in `spawning`), after an item
(`AcquireNext`) and after a wake-up (`Recheck`). `StoreItemLimit` and
`AnnounceItemLimit` are two steps, as in the code. Goroutines are counted, not
named: they are interchangeable.

### Shutdown (`run.go`)
Items that walk through nodes, fail, abort, or leave work behind that they never
join, against the watcher (`Select`, `Mark`, `Ask`, `Bound`, `Overrun`), the Run context, the
drain function and its context, and Run's return. The watcher's selects and the
critical sections after them are separate steps; items go on between them. A node is
entered when the next older item in flight has been there (`GateOpen`). Unjoined work
ends well, fails, or returns a `ShutdownError`, of this run or another, whether
its item is canceled or not; `WorkEnds` reports a failure at once if the processor has
returned, and only records a `ShutdownError`, on which `Finish` acts when it
settles the outcome for the second time.

### UntilShutdown (`context.go`, `run.go`)
The steps of `markShutdownLocked` (`SetError`, `StoreBegun`, `CancelShutdown`,
`Unlock`) against callers on the lock-free path (`FastPath`) and the locked one
(`SlowPath`), and the `AfterFunc` watches, each in a goroutine of its own
(`WatchRuns`, `StopRuns`). The `context` package is modelled from its use:
canceling a context closes everything derived from it.

### Dials (`state.go`, `conveyor.go`, `run.go`)
Setters at the granularity of their atomic operations: `Load` the run, `Store`
(under that run's mutex if it is the live one), `Reread`, `Wake`; or
`StoreItemLimit` first, as `SetItemLimit` does. Calls that wait in a run read the
dial under the mutex (`Decide`) and park (`Park`) or go on. What follows depends on the
dial: a capacity is tested again before it is used, and waited for again if it is gone
(`Retest`; the calls in `Retesting`), a mode is read again but not tested
(`Proceed`). Runs start and end around them.

---------------------------------------------------------------------------

## 3. What TLC checks

Each run's properties are stated in full, in words and in TLA+, in the module.
Every property is accompanied by a mutant of a definition (marked *Mutant of* in
the modules) that breaks it under the same configuration, so that none of them
holds by the shape of the model.

| Run | Instance | Shows |
|---|---|---|
| `series_order` | 3 items, fan-out (limit 2, room 1), stage (limit 1, room 1), fixed dials; 318,000 states | order (`NoOvertaking`, `ImplementsOrderedLine`), slots (`HoldsItsPosition`, `SlotsMatchHolds`) |
| `series_live` | 3 items, one fan-out, limit 1..2 and room 0..1 turned live, fairness; 79,000 states | `EverybodyFinishes` |
| `worker_pool` | 4 items, item limits 0 (none) to 2, turned live, fairness | `OneStandby`, `NoLostWakeup`, `ReturnsDrained`, `ShutdownEnds` |
| `fanout` | 2 items, 2 pools, 2 submissions each, prepared or not, from the item or a task, room 1, strict and balanced; 1,128,000 states | `FirstBatchesInOrder`, `ServedByAge`, `PreparedIsActivated`, `HoldEndsInTime`, `SlotsMatchHolds` |
| `fanout_failures` | 2 items, 1 pool with limit 1..2 turned live, 2 tasks; tasks that fail or abort, failing processors, an overrun drain; 1,115,000 states | `NoStrandedWork`, `JoinsEnd`, `NoErrorLost`, `NobodyPassesAFailure`, `ImplementsOrderedLine` |
| `lanes` | 2 items, a lane of 2 stages (limits 1 and 2), 3 children, the oldest of which may keep the entrance; children, work and processors that fail or abort, an overrun drain; 953,000 states | `EntranceInUse`, `ChildrenInOrder`, `NoOrphans`, `NoErrorLost`, `FailedBodyStops` |
| `shutdown` | 2 items, 2 nodes, any drain function; processors and work that fail or abort; 149,000 states | `NobodyGetsPast`, `OlderLeftAlone`, `ResultTellsEvents`, `FailuresReported`, `DrainIsBounded`, `RunEnds` |
| `shutdown_foreign` | the same, with processors and work that return another run's ShutdownError | a divergence, below |
| `dials` | 2 setters (one stores first), 2 calls (one tests again), 2 runs, fairness; 62,000 states | `NoLostWakeup`, `SettledDialAdmits` |
| `dials_one_value` | 1 setter, 1 call, 1 run | a divergence, below |
| `until_shutdown` | 1 item with its two kinds of context, 2 goroutines | `BornDone`, `NoWatchLeaks`, `EveryContextCloses` |
| `demo` | 2 walkers (items, children, tasks), nodes 0..2 with a fan-out, 2 clicks, fairness; 693,000 states | `NoLostClick`, `HoldsAreReleasable`, `OccupantsAreLabelled`, `BlockedHaveFinished`, `StopEnds` |

Every module's type invariant is a theorem, and not checked besides. The
invariants and action properties in the table are theorems too (section 4): the
runs found out cheaply whether they hold, and their mutants keep them honest. The
liveness properties are checked only.

Two properties stand for liveness that is too dear to check on instances of a useful
size. `JoinsEnd` (in `fanout_failures`): once a body is sealed, its task group is
finished, or somebody is at work who brings that about, so no join waits for
ever unless a task does. `EntranceInUse` (in `lanes`): no queued task waits
for an entrance that nobody has.

### Bounds, and why they are enough

- `NItems`. Order is a relation between two items; a third makes *next older
  neighbour* differ from *any older item*, which is what the gate's induction
  is about, and lets an item leave between two others. Where the question is
  about an item and what is behind it (`FanOut`, `Shutdown`), two suffice to
  violate it. With two, the neighbour is every older item: that asking it is
enough for any number is what the theorems on `Series`, `FanOut` and `Shutdown`
show (in `Shutdown` the lemma `GateOpens`), not these runs.
- `NUnits`, `NSteps`. Two nodes behind the gate: an item can hold a slot in one
  while it is in the other, the only relation between nodes the code looks at.
  The fan-out comes first so that its outstanding body, retained slot and
  waiting room are all behind another node.
- Limits 1 and 2: full with one item, and room for exactly one more; 2 items
  inside a node is the least that makes an order inside it matter. Rooms of
  size 1: empty, full.
- `MaxTasks`, `MaxSubmits`: two submissions make the first batch differ from
  later ones; two tasks make *first start* differ from *last start* and let a
  task be running while another is queued.
- `MaxItems = 4` in the pool, with limits up to 2: the limit is reached, lowered
  below what is in flight, and left again. Creating nothing beyond the bound is
  no loss of behaviour: the pool has no memory of past items.
- `MaxRuns = 2`: a setter's loaded run may be over and followed by another one,
  the only confusion the code's re-read has to resolve. A third run adds a
  value for the same inequality; the theorem holds for any number.
- `Callers = 2` goroutines of one item: they share the item's own context and
  race each other and the shutdown; items do not share contexts.
- `Lanes`: two stages behind the entrance, the first for one child, the second
  for two, so that a child may wait for room, wait for the gate, or stand beside
  its elder; `MaxKids = 3` children with at most one task each time, scheduled by
  the item or by a child: with the third the neighbour differs from *any older child*, and
  a child in the middle may leave, which hands its neighbour on to the next. Its mutant
  `GateOpenOnceItIsOver` forgets that. `Keepers = 1`: only the oldest child keeps the
  entrance; a hand-over has one holder at a time, whoever it is, and the theorems
  hold for any number. Two items are needed for the cascade from one body to the next.
- `Demo`: two walkers are the least that share an item number (in the lane and
  on the pool) or a room; nodes 0..2 with a fan-out at the end have one stage of
  each kind behind and ahead of another; two clicks make a request and its
  release, or a failure beside a retain. One run, because `Run` makes
  everything anew; the theorems hold for any number.
- `submits`, `created`, `asked`, `log`, `submitted`, `clicks` and `runs` are
  bounded by these; nothing else is bounded.

`CHECK_DEADLOCK FALSE` is given where the modelled thing ends (Run has returned,
all setters' calls are over, all contexts are closed); in `Series`, `FanOut`,
`Lanes` and `Demo`, whose runs check deadlock, a step `Quiet` marks the one
legitimate end.

### Fairness, and what in the code justifies it

- A parked call is re-checked after every broadcast, and every step that can
  enable it broadcasts, so its continuation is weakly fair (`CloseBody`,
  `Enter`, `Recheck`). The mutants that drop a broadcast show what
  this rests on; in `WorkerPool` and `Dials`, which are about broadcasts, the
  sleeping and the waking are explicit steps.
- Goroutines are scheduled: `Arrive`, `WorkerNext`, `Finish`, the watcher's steps,
  `AfterFunc` watches. Go's mutex does not starve waiters (its starvation mode),
  hence strong fairness of the steps in `Dials` that lock a contended mutex.
- Tasks return and processors return: the documented contract of `ItemProcessor`
  and `Task` (weak fairness of `BodyIdle`, `ReleaseRetained`, `Return`). In
  `Series`, `Return` is strongly fair, because a processor
  returns *between* calls and it may call again and again.
- What is **not** assumed: that anybody calls the function `Retain` returned,
  that a processor calls anything, that a drain context expires, that a
  shutdown begins, that a delay of the demo passes. `DrainIsBounded` assumes only
  that the watcher is scheduled.
  `ShutdownEnds` and `RunEnds` state the completion of items as their own
  premise.
- `Demo` has one fairness condition for all that goes on by itself,
  `WF_vars(GoOn)`: something is done as long as something can be done. None of its
  steps can be taken for ever (a sleep is woken by clicks, which are bounded,
  and ends for a canceled walker), so this is all `StopEnds` needs.

### Where the code and its words disagree

Two runs end in a counterexample, and each refutes a sentence of the repository.

1. `shutdown_foreign`, `NobodyGetsPast`. The docs say that an item counts as
   aborted if it returns an error that is or wraps a `ShutdownError`, and that
   an item that fails or is aborted cancels all younger items
   (`src/conveyor.go`). `settleOutcome` (`src/run.go`) lets an abort cancel
   the younger items only if *this* run's shutdown has begun. An item that
   returns the `ShutdownError` of another run (a nested conveyor, an error kept
   from before), or leaves work behind that does, counts as aborted, cancels
   nobody, and is no failure either; a younger item goes past it. `NobodyPassesStoppedHere`
   says that nobody ever gets past an item stopped by a failure or by an abort of
   this run, whatever else is returned; so an error of another run, returned by a
   processor or by its work, is the only way (`NobodyPassesStopped`).
2. `dials_one_value`, `AdmissionSeesOneValue`. The comment of `storeDial`
   (`src/state.go`) says an admission must see one value of every dial, and the
   store therefore happens under the run's mutex while a run is live. A setter
   that finds *no* run stores without a mutex, and a run may have started since
   its load; its store may then fall between two reads of one admission. (The
   wake-up is not lost: `Reread` covers that, and `NoLostWakeup` checks it.)

Smaller disagreements met on the way. None is a run of its own: each concerns a
display, or a use that the demo's own topologies avoid.

- `stillBlocked` (`src/demo/internal/runtime/manager.go:276-279`) rests on *no
  snapshot can ever show one occurrence occupying two stage bodies at once*. An
  item that keeps a stage through `RetainItem` and has moved on occupies both,
  so it is still listed as blocked in the one behind. `BlockedHaveFinished`
  therefore says `at[w] > n` or *waiting in n*.
- `runNodes` (`src/demo/internal/topology/process.go:630-632`) says that during a walk
  *exactly one LanePaths entry* is alive, and `LanePaths` (`:267-271`) speaks of the
  *current occupancy*. A walker that waits for its next node has two, the second at a
  node it may never enter; and one that is refused has, between its two releases,
  only the entry at that node and none where it still stands.
  `OccupantsAreLabelled` states what does hold, with these two exceptions spelled out.
- `Retains` (`src/demo/internal/topology/process.go:338`) says that *a request
  that was never applied does not stay*. One made between the processor's
  `forget` and the moment the item is gone does, for the rest of the run.
- The pending mark of `FanOutEntry` stays when the `Schedule` or the `MoveTo`
  after it fails; and it names an item number only, which the children of a
  lane share.
- `laneTask` (`src/demo/internal/topology/process.go:443`) says that an item
  runs at most one task per lane of a fan-out at a time; with more than one task
  per item it may run several.
- The goroutine of the demo's `Run` hides every error that wraps the
  cancellation of its context, also the failure of an item after `CancelCtx`.

---------------------------------------------------------------------------

## 4. What TLAPS proves

Every theorem is for all values of the constants, under the named assumptions
of the modules (counts are naturals, limits at least one, known kinds of
outcomes). Each proof is: an inductive invariant, one lemma or step per action,
and a temporal step.

**SeriesProofs** (any number of items and nodes, any mix of stages and fan-outs,
any sets of limits and rooms, turned at any time)
- `TypeCorrect`: `TypeOK`.
- `OrderGateHolds`: `OrderGate`, the ranks published along the line never
  increase. The gate looks at the nearest older item only, so `OrderGate` over
  *all pairs* is itself the induction hypothesis: the neighbour has published
  the rank, and everybody older has published at least what the neighbour has.
  It needs `PositionsFit`: an item that has published a node's rank may publish
  a higher one *without* the gate when it schedules in a fan-out or passes it;
  that this is no further than what it had been admitted to is a fact about
  `body`, `reachedRank` and `target`.
- `NobodyOvertakes`: `NoOvertaking`, from the same invariant.
- `SeriesImplementsOrderedLine`: every step of `Series` is a step of
  `OrderedLine` under the mapping that shows the published ranks, or a stutter.
- `NobodyIsNowhere`: `HoldsItsPosition`. What an item holds is a fact about the
  item alone, `Fit(i)`: behind the rank it has published it keeps only what was
  retained; at it, it has the node's slot or the place in the waiting room whose
  rank is the published one; ahead of it, nothing. `Fit` needs the order gate's
  invariant for a parked call (its target is not entered yet).
- `SlotsAreThoseHeld`: `SlotsMatchHolds`, the counters that decide about
  admission count what is held. A step changes one item's holds and the
  counters of the units concerned; `SizeChanges` and `CountersFollow` turn one
  into the other, for any number of items.

**FanOutProofs** (any items, branches and limits, turned at any time, any batches,
modes and failures; the assumptions are that limits are at least one, the
branches finitely many and the bounds naturals)
- The invariant is `IInv`: a predicate of the state record, `Core`, that the whole
  cascade is stepped through with, and `NoStrandedWork`. `Core` says of one item
  how its fields fit (`Placed`, `Slotted`, `Told`), that its upstream hold is one that
  its mode and its body allow (`Held`) and that a sealed idle task group is finished
  (`Settled`); and of all, that the counters of a task group are the numbers of its
  collections in the queues and of its tasks in the slots (`Counted`), that work
  belongs to items that have opened the door (`Working`), that nobody has
  been admitted further than what every older item has published (`Ordered`), that
  queues are sorted by age (`Sorted`), that an item has one entering collection on a
  branch at most (`Single`) and its hold awaits exactly the branches where that has not begun
  (`HoldOf`, together `Holding`), and that everybody behind a reported failure is over or canceled
  (`Stopped`). The properties do not say any of this: `JoinsEnd`, for one, holds
  because an unfinished group counts something, and only `Counted` says
  that what is counted is there.
- The steps of a cascade are small: a head collection loses a task, or leaves
  (`HeadStep`); a batch is queued (`Queueing`); an item changes on its own, with the
  others canceled at most (`ItemStep`, `Allowed`, `Reported`), which leaves its hold alone
  unless it is over (`HoldKept`). What a whole cascade
  may do to the rest, `Worked`, is transitive; that carries it through the loops.
- The loops are functions over the naturals. The library's induction theorems are
  out of reach, since they take an operator, so induction is proved here from the
  least element of a set of naturals (`NatMin`, `Induction`, `Iteration`), and used
  with the set of rounds after which a loop stands where it should (`DropLoop`,
  `PumpLoop`, `PumpAllLoop`, `InsertLoop`). `PumpLoop` counts: after n rounds n slots
  are in use or nothing is left to pull; so `limit` rounds are enough, which is
  what `NoStrandedWork` needs.
- Each action has a lemma `...Goes`: it keeps `IInv` and does what the
  action properties ask (`Goes`). From it `TypeCorrect` (`TypeOK`), `WorkIsInOrder`
  (`FirstBatchesInOrder`), `HoldsEnd` (`HoldEndsInTime`), `SlotsMatch`
  (`SlotsMatchHolds`), `NothingStranded` (`NoStrandedWork`), `ErrorsAreTold`
  (`NoErrorLost`), `JoinsAreServed` (`JoinsEnd`), `OldestFirst` (`ServedByAge`),
  `PreparedWorkSurvives` (`PreparedIsActivated`) and `FailureStopsTheLine`
  (`NobodyPassesAFailure`).
- `FanOutImplementsOrderedLine`: every step is a step of `OrderedLine`, or a stutter.
  That one item at most moves in a step, however long its cascade is, comes from
  the same lemmas (`Lined`, `Climbs`); that it may move comes from `IInv` after
  the step: it has published no more than it has reached (`Placed`), which is no
  more than what everybody older has published (`Ordered`). The gate, the early
  publication at entry and the late one at the first batch are all covered by that.

**WorkerPoolProofs** (any item limit, turned at any time)
- `PoolTypeCorrect`, `ExactlyOneStandby`, `NoWakeupIsLost`, `PoolStaysBounded`,
  `RunReturnsDrained`. The inductive invariant adds `Accounting`, the equations
  between the code's counters and the goroutines there are; without them *idle
  plus spawning is one* says nothing of an actual worker.

**ShutdownProofs** (any number of items and nodes, any drain function)
- `ShutdownTypeCorrect`, with `AskedLast` for the one counter.
- `NobodyPassesStoppedHere`: nobody gets past an item stopped by a failure or by an
  abort of this run, whatever is returned; and `NobodyPassesStopped`: `NobodyGetsPast`,
  if `"foreign"` is not among the outcomes. The invariant: items stand in order
  (`InOrder`), which the gate keeps although it asks a neighbour only
  (`GateOpens`); a reported item has nobody behind it who is not canceled (`ReportedClosed`);
  before the shutdown has begun nothing is reported and nobody canceled
  but by a foreign error of his own (`Begun`), and no abort of this run is known
  (`AbortBegun`); of an item that has returned, a failure is reported, and if it was
  aborted everybody behind is canceled once it has left the line (`StoppedKnown`).
  While an aborted item still joins its work nobody behind it need be canceled: the order
  of the line keeps them back.
- `EveryFailureReported`: `FailuresReported`, from the same invariant, for any outcomes.
- `ResultIsWhatHappened`: `ResultTellsEvents`, for any outcomes.
  `LogTells` says at any time that trigger and drain error are the first two
  events; `Watched`, that the watcher is past its first select only once a
  shutdown has begun, so an overrun never becomes the trigger.

- `GracefulDrain`: `OlderLeftAlone`, for any outcomes. Until the timeout is in the
  log, whoever is canceled has somebody at or ahead of him who stopped
  (`BehindAStopped`), and what stopped stays so (`StoppedStays`).

**LanesProofs** (any items, interior stages, limits, tasks)
- `Invariance`: the inductive invariant. A step is a composition of the helpers
  of the cascade, so the invariant is a predicate of a state record, split in two.
  `Core` (the line, the tree, who may hold what) is kept by every helper;
  *the entrance is in use* is broken in the middle of a cascade and restored by
  `Pump`, which every step that ends a use ends with; helpers that leave the
  entrance alone are `Calm`.
- `TypeCorrect`, `EntranceIsUsed` (`EntranceInUse`), `LaneKeepsOrder`
  (`ChildrenInOrder`), `NobodyIsOrphaned` (`NoOrphans`), from it. For the order, `GateOpens`
  derives from the neighbour's place and the order so far that everybody older has
  been there: whoever was between has left the line, from anywhere in it.
- `ErrorsArrive`: `NoErrorLost`. `Heard` says where the failure of a child is
  known, at each point of its way: in the child, in its body, in the item.
- `FailedBodiesStop`: `FailedBodyStops`. A child is started only for a body that
  is alive; and where a step both settles a failure and hands on the entrance
  (`ChildFinishes`), it settles first.

**DemoProofs** (any walkers, nodes, fan-outs, clicks, runs)
- `TypeCorrect`, with `Within`: a walker on its way has a next node.
- `ClicksAreHeard` (`NoLostClick`). `Heard` follows a walker through its sleep: from
  the moment it has taken a channel, a request of its own is either still
  ahead of its look or has closed that channel.
- `HoldsReleasable` (`HoldsAreReleasable`): `Booked`, a key is requested, live or
  being released, and only one of them; a walker not yet started has no hold.
- `OccupantsLabelled` (`OccupantsAreLabelled`): `Tagged`, the entry of the
  next node is there before the move, that of the node behind goes after it, and a
  walker that is refused gives up both, in this order.
- `BlockedFinished` (`BlockedHaveFinished`): `Marked`, a mark is set only by whoever
  is done with the node; `Occurrence` tells the walkers of a body apart.

**UntilShutdownProofs** (any items and callers)
- `ContextsTypeCorrect`, `NoLiveContextAfterShutdown` (`BornDone`),
  `WatchesAreStopped` (`NoWatchLeaks`). The invariant's core is `MirrorFirst`:
  the mirror is stored before the shutdown context is canceled, so whoever
  has seen any context close finds the mirror set.

**DialsProofs** (any setters, calls, values and number of runs)
- `DialsTypeCorrect`, `NoTurnIsLost` (`NoLostWakeup`).

### Only model-checked
Liveness (`EverybodyFinishes`, `SettledDialAdmits`, `DrainIsBounded`, `RunEnds`,
`ShutdownEnds`, `EveryContextCloses`, `StopEnds`) is out of the prover's reach.
Every safety property of the passing runs, action properties and the
two refinements included, is proved.

---------------------------------------------------------------------------

## 5. What is not modelled

- **A fan-out inside a lane**, and trees of more than two levels. A body does
  not know whether its item is a child, so each level is as `Lanes` has it; the
  composition is not checked. Nor are **several lanes** of one fan-out side by
  side in one module (`FanOut` has several branches, `Lanes` one).
- **An upstream hold together with `Retain` or `RetainFor` on the same unit.** `Series`
  has the retained units and no upstream holds, `FanOut` the holds of a gate
  and a room that nobody retains.
- **Liveness of `FanOut` and `Lanes`.** Instances with enough tasks to be of
  interest are too large for a fair run; `JoinsEnd`, `NoStrandedWork` and
  `EntranceInUse` are their safety counterparts.
- **The builder** runs before any item; only its ranks appear. **Misuse panics**
  are guards (`LegalMove`, `InUnit`): a program that gets one is broken.
  **Error formatting** and **debug views** change no state. The minima and
  maxima that **stats** keep feed a report only.
- **The demo's** dials for delays and task counts, which only choose numbers;
  building a topology from JSON; the WASM glue and the web UI. `State` reads the
  registries one after the other; what is checked is each registry against the
  conveyor, not a snapshot made of all of them.
- **Benchmarks** have no protocol of their own.
- **Memory effects of Go's atomics** are sequentially consistent, as Go's are.
- Whether the drain function is asked at all when the last item is gone before
  the watcher looks: `impl_details.md` leaves it open; the code asks once a
  shutdown has begun, and so does `Select`.

---------------------------------------------------------------------------

## 6. Plan

Done: `OrderedLine` and `Series` with the refinement and its slots; `WorkerPool`;
`FanOut` with prepared work, work scheduled by tasks, and the refinement;
`Shutdown` with the graceful drain; `Dials`; `UntilShutdown`; `Lanes`; `Demo`.
Proofs of all the safety properties of all of them.

Left, in the order of what it would add:

1. A fan-out inside a lane: `Lanes` with a body per child.
2. `FanOut` with a gate that is retained, for the upstream hold beside a `Retain`.
3. `ScopeList`: the linked in-flight list (`prev`, `next`, append, unlink)
   implementing *the youngest older item in flight*, on which `IsPrev` rests.
4. Liveness of `FanOut` and `Lanes`.

## 7. Running

```
tlc -workers 2 -config MCSeries.cfg MCSeries     # likewise the others; PROJECT.json pairs them
tlapm SeriesProofs.tla                           # likewise FanOutProofs, LanesProofs, ...
```

TLC needs the community modules (`SequencesExt`, `FiniteSetsExt`) for `FanOut`, `Lanes`,
`Shutdown` and `Demo`;
the proofs need the TLAPS library. The longest run takes about two and a half
minutes with two workers, the longest proof module (`FanOutProofs`) about twelve.
