-------------------------------- MODULE Demo --------------------------------
(***************************************************************************)
(* The demo's backend: the manager with its Run, CancelCtx and Stop, the   *)
(* clicks it passes on (FailItem, FailTask, RetainItem, ReleaseItem), the  *)
(* processor that walks the nodes and sleeps in each of them, and the      *)
(* registries through which the goroutines of the items, the clicks and    *)
(* State see each other.                                                   *)
(*                                                                         *)
(* A run is one line of walkers through the nodes 0 .. Last: the items of  *)
(* the conveyor (scope "root"), or the children of item 1 in a lane or its *)
(* tasks on a pool.  A walker of the two latter has a path, its ordinal,   *)
(* and shares the item's number with the others.  What the conveyor itself *)
(* does (admission, cancellation, shutdown) is abstract here.              *)
(*                                                                         *)
(* Every lock hold that changes a registry is a step of its own; calls of  *)
(* the manager exclude each other.                                         *)
(***************************************************************************)
EXTENDS Integers, FiniteSets, FiniteSetsExt

CONSTANTS Walkers,   \* items, children or tasks: 1 .. N
          Last,      \* the nodes beyond the first are 1 .. Last
          FanOuts,   \* those of them that are fan-outs
          Scopes,    \* bound: the topologies that get run
          MaxClicks, \* bound: the clicks of all runs
          MaxRuns    \* bound: the runs

Nodes == 0 .. Last

ASSUME WalkersNat == Walkers \in SUBSET (Nat \ {0})
ASSUME LastNat == Last \in Nat
ASSUME FanOutsInside == FanOuts \subseteq 1 .. Last
ASSUME ScopesKnown == Scopes \subseteq {"root", "lane", "pool"}

VARIABLES
    running, stopping, forced,  \* the manager's flags
    runErr,                     \* it has an error to show
    runCtx, drainCtx,           \* canceled: the run's, the drain context
    scope, trigger,             \* the conveyor: what runs, why it shuts down
    pc, at, err, canceled,      \* the walkers
    held,                       \* held[<<n, w>>]: the live Retain calls of w on n
    failItem, failTask,         \* Failures: the item numbers asked to fail
    failClosed,                 \* the walkers whose channel of Failures is closed
    requested, live,            \* Retains, by node and item number
    retClosed,                  \* the walkers whose channel of Retains is closed
    releasing,                  \* a ReleaseItem between its unlock and its release()
    entries,                    \* LanePaths: node and walker, named by its path
    marks,                      \* BlockedEntries: node and occurrence
    pending,                    \* FanOutEntry: node and item number
    clicks, runs                \* bounds

manager == <<running, stopping, forced, runErr, runs>>
contexts == <<runCtx, drainCtx>>
conveyor == <<scope, trigger>>
walkers == <<pc, at, err, canceled>>
failures == <<failItem, failTask, failClosed>>
retains == <<requested, live, retClosed, releasing, held>>
shown == <<entries, marks, pending>>
vars == <<manager, contexts, conveyor, walkers, failures, retains, shown, clicks>>

\* Where the goroutine of a walker is: not created, at the registration of its
\* path, in the loop of a sleep, on its way to the next node, refused by it,
\* leaving.
PCs == {"none", "begin", "arm", "armRetain", "apply", "test", "asleep", "look",
        "mark", "enter", "prepare", "moving", "admitted", "confirm", "check",
        "refused", "unwound", "leave", "return", "over"}

-----------------------------------------------------------------------------
(* The walkers and the conveyor they are in *)

HasPath == scope # "root"
NoOf(w) == IF HasPath THEN 1 ELSE w
PathOf(w) == IF HasPath THEN <<w>> ELSE <<>>

\* Mutant of Occurrence: the item's number is enough.
OccurrenceByNo(w) == <<NoOf(w), <<>> >>

\* blockedKey.
Occurrence(w) == <<NoOf(w), PathOf(w)>>

End == IF scope = "pool" THEN 0 ELSE Last

Alive(w) == pc[w] \notin {"none", "over"}
Present(w, n) == Alive(w) /\ (at[w] = n \/ held[<<n, w>>] > 0)
InBody(n) == {w \in Walkers : Present(w, n)}

\* One at a time in every node, two tasks on the pool; nobody overtakes.
HasRoom(n) == Cardinality(InBody(n)) < (IF scope = "pool" THEN 2 ELSE 1)
Ahead(w) == {v \in Walkers : v < w /\ Alive(v)}
GateOpen(w, n) == Ahead(w) # {} => at[Max(Ahead(w))] >= n

Created(w) == pc[w] # "none"

\* The predicates of the sleeps: an item's own, and its tasks' as well.
Failed(w) ==
    \/ NoOf(w) \in failItem
    \/ scope = "pool" /\ NoOf(w) \in failTask

TakesRetains(w) == ~HasPath /\ at[w] \notin FanOuts

TypeOK ==
    /\ running \in BOOLEAN /\ stopping \in BOOLEAN /\ forced \in BOOLEAN
    /\ runErr \in BOOLEAN /\ runCtx \in BOOLEAN /\ drainCtx \in BOOLEAN
    /\ scope \in {"root", "lane", "pool"} /\ trigger \in {"none", "ctx", "item"}
    /\ pc \in [Walkers -> PCs] /\ at \in [Walkers -> Nodes]
    /\ err \in [Walkers -> {"ok", "fail"}] /\ canceled \subseteq Walkers
    /\ held \in [Nodes \X Walkers -> Nat]
    /\ failItem \subseteq Walkers \cup {1} /\ failTask \subseteq Walkers \cup {1}
    /\ failClosed \subseteq Walkers /\ retClosed \subseteq Walkers
    /\ requested \subseteq Nodes \X Walkers /\ live \subseteq Nodes \X Walkers
    /\ releasing \subseteq Nodes \X Walkers
    /\ entries \subseteq Nodes \X Walkers
    /\ pending \subseteq Nodes \X (Walkers \cup {1})
    /\ clicks \in Nat /\ runs \in Nat

-----------------------------------------------------------------------------
(* The manager *)

NobodyWalks == pc' = [w \in Walkers |-> "none"] /\ at' = [w \in Walkers |-> 0]
               /\ err' = [w \in Walkers |-> "ok"] /\ canceled' = {}

FreshRegistries ==
    /\ failItem' = {} /\ failTask' = {} /\ failClosed' = {}
    /\ requested' = {} /\ live' = {} /\ retClosed' = {} /\ releasing' = {}
    /\ held' = [k \in Nodes \X Walkers |-> 0]
    /\ entries' = {} /\ marks' = {} /\ pending' = {}

Init ==
    /\ running = FALSE /\ stopping = FALSE /\ forced = FALSE /\ runErr = FALSE
    /\ runCtx = FALSE /\ drainCtx = FALSE
    /\ scope = "root" /\ trigger = "none"
    /\ pc = [w \in Walkers |-> "none"] /\ at = [w \in Walkers |-> 0]
    /\ err = [w \in Walkers |-> "ok"] /\ canceled = {}
    /\ failItem = {} /\ failTask = {} /\ failClosed = {}
    /\ requested = {} /\ live = {} /\ retClosed = {} /\ releasing = {}
    /\ held = [k \in Nodes \X Walkers |-> 0]
    /\ entries = {} /\ marks = {} /\ pending = {}
    /\ clicks = 0 /\ runs = 0

\* Run: everything but the bounds is made anew.
Run(sc) ==
    /\ ~running /\ runs < MaxRuns
    /\ running' = TRUE /\ stopping' = FALSE /\ forced' = FALSE /\ runErr' = FALSE
    /\ runCtx' = FALSE /\ drainCtx' = FALSE
    /\ scope' = sc /\ trigger' = "none"
    /\ NobodyWalks /\ FreshRegistries
    /\ runs' = runs + 1
    /\ UNCHANGED clicks

\* No call of the manager is half done.
Free == running /\ releasing = {}

CancelCtx ==
    /\ Free /\ ~stopping
    /\ stopping' = TRUE /\ runCtx' = TRUE
    /\ UNCHANGED <<running, forced, runErr, runs, drainCtx, conveyor, walkers,
                   failures, retains, shown, clicks>>

\* Mutant of Stop: the drain context is left alone.
StopGracefully ==
    /\ Free /\ ~forced
    /\ stopping' = TRUE /\ forced' = TRUE /\ runCtx' = TRUE
    /\ UNCHANGED <<running, runErr, runs, drainCtx, conveyor, walkers,
                   failures, retains, shown, clicks>>

Stop ==
    /\ Free /\ ~forced
    /\ stopping' = TRUE /\ forced' = TRUE /\ runCtx' = TRUE /\ drainCtx' = TRUE
    /\ UNCHANGED <<running, runErr, runs, conveyor, walkers,
                   failures, retains, shown, clicks>>

\* The children and tasks of an item are queued at once, and one of them starts
\* with that; the others stay queued until they start or their body is canceled.
Queued(w) == HasPath /\ ~Created(w) /\ w \notin canceled /\ \E v \in Walkers : Created(v)

\* The goroutine of Run: the conveyor has drained, the flags go down; an error
\* that is the cancellation of the run's context is not shown.
EndRun ==
    /\ Free /\ trigger # "none" /\ \A w \in Walkers : ~Alive(w) /\ ~Queued(w)
    /\ running' = FALSE /\ stopping' = FALSE /\ forced' = FALSE
    /\ runErr' = (trigger = "item")
    /\ drainCtx' = TRUE
    /\ UNCHANGED <<runs, runCtx, conveyor, walkers, failures, retains, shown, clicks>>

-----------------------------------------------------------------------------
(* The clicks *)

Click == Free /\ clicks < MaxClicks /\ clicks' = clicks + 1

\* broadcastLocked: whoever has taken the channel finds it closed.
Broadcast == failClosed' = Walkers

FailItem(no) ==
    /\ Click
    /\ failItem' = failItem \cup {no} /\ Broadcast
    /\ UNCHANGED <<manager, contexts, conveyor, walkers, failTask, retains, shown>>

\* It names a pool: the run is about one, or has one in a fan-out.
FailTask(no) ==
    /\ Click /\ (scope = "pool" \/ FanOuts # {})
    /\ failTask' = failTask \cup {no} /\ Broadcast
    /\ UNCHANGED <<manager, contexts, conveyor, walkers, failItem, retains, shown>>

\* Mutant of RetainItem: a live hold may be asked for again.
RetainItemAgain(n, no) ==
    /\ Click /\ ~HasPath /\ n \notin FanOuts
    /\ requested' = requested \cup {<<n, no>>} /\ retClosed' = Walkers
    /\ UNCHANGED <<manager, contexts, conveyor, walkers, failures, live, releasing,
                   held, shown>>

\* Retains.Request: nothing, if the hold is live.
Request(k) ==
    IF k \in live THEN UNCHANGED <<requested, retClosed>>
    ELSE requested' = requested \cup {k} /\ retClosed' = Walkers

\* It names a top-level stage.
RetainItem(n, no) ==
    /\ Click /\ ~HasPath /\ n \notin FanOuts
    /\ Request(<<n, no>>)
    /\ UNCHANGED <<manager, contexts, conveyor, walkers, failures, live, releasing,
                   held, shown>>

\* Retains.Release under the mutex: what is requested or live is dropped ...
ReleaseItem(n, no) ==
    /\ Click /\ ~HasPath /\ n \notin FanOuts
    /\ requested' = requested \ {<<n, no>>}
    /\ live' = live \ {<<n, no>>}
    /\ releasing' = live \cap {<<n, no>>}
    /\ UNCHANGED <<manager, contexts, conveyor, walkers, failures, retClosed, held, shown>>

\* ... and, the mutex unlocked, the hold that was live is released; that of a
\* finished item is gone already.
ReleaseHold ==
    /\ releasing # {} /\ releasing' = {}
    /\ held' = [k \in Nodes \X Walkers |->
                   IF k \in releasing /\ held[k] > 0 THEN held[k] - 1 ELSE held[k]]
    /\ UNCHANGED <<manager, contexts, conveyor, walkers, failures, requested, live,
                   retClosed, shown, clicks>>

-----------------------------------------------------------------------------
(* sleepInStage *)

\* Nothing but the walker's place in its program changes.
Goto(w, p) == pc' = [pc EXCEPT ![w] = p]
Same == UNCHANGED <<manager, contexts, conveyor, clicks>>

Fails(w) == Goto(w, "leave") /\ err' = [err EXCEPT ![w] = "fail"]

\* failures.Changed(): the channel of now.
Arm(w) ==
    /\ pc[w] = "arm"
    /\ failClosed' = failClosed \ {w}
    /\ Goto(w, IF TakesRetains(w) THEN "armRetain" ELSE "test")
    /\ UNCHANGED <<at, err, canceled, failItem, failTask, retains, shown>> /\ Same

\* The effect of retains.apply: the request becomes a Retain of the conveyor.
TakeRequest(w) ==
    LET k == <<at[w], w>>
    IN  IF k \in requested
        THEN /\ requested' = requested \ {k} /\ live' = live \cup {k}
             /\ held' = [held EXCEPT ![k] = @ + 1]
        ELSE UNCHANGED <<requested, live, held>>

\* retains.Changed().
ArmRetain(w) ==
    /\ pc[w] = "armRetain"
    /\ retClosed' = retClosed \ {w}
    /\ Goto(w, "apply")
    /\ UNCHANGED <<at, err, canceled, failures, requested, live, releasing, held, shown>>
    /\ Same

\* retains.apply, all of it under the mutex.
Apply(w) ==
    /\ pc[w] = "apply" /\ Goto(w, "test")
    /\ TakeRequest(w)
    /\ UNCHANGED <<at, err, canceled, failures, retClosed, releasing, shown>> /\ Same

\* Slept out: what the work of a node does next.  Nothing marks a pool's task.
Slept == IF scope = "pool" THEN "leave" ELSE "mark"

\* Mutant of Test: the channel is taken when the request has been looked for.
TestThenArm(w) ==
    /\ \/ /\ pc[w] = "test"
          /\ IF Failed(w) THEN Fails(w)
             ELSE (Goto(w, Slept) \/ Goto(w, "late")) /\ UNCHANGED err
          /\ UNCHANGED failClosed
       \/ /\ pc[w] = "late" /\ Goto(w, "asleep") /\ failClosed' = failClosed \ {w}
          /\ UNCHANGED err
    /\ UNCHANGED <<at, canceled, failItem, failTask, retains, shown>> /\ Same

\* failed(), then the deadline: it has passed or there is something left.
Test(w) ==
    /\ pc[w] = "test"
    /\ IF Failed(w) THEN Fails(w)
       ELSE (Goto(w, Slept) \/ Goto(w, "asleep")) /\ UNCHANGED err
    /\ UNCHANGED <<at, canceled, failures, retains, shown>> /\ Same

\* The select: a channel was closed, and the loop goes on ...
Wake(w) ==
    /\ pc[w] = "asleep"
    /\ w \in failClosed \/ (TakesRetains(w) /\ w \in retClosed)
    /\ Goto(w, "arm")
    /\ UNCHANGED <<at, err, canceled, failures, retains, shown>> /\ Same

\* ... or the timer has fired, or the context is done: one last look.
Timer(w) ==
    /\ pc[w] = "asleep" /\ Goto(w, "look")
    /\ UNCHANGED <<at, err, canceled, failures, retains, shown>> /\ Same

CtxDone(w) ==
    /\ pc[w] = "asleep" /\ w \in canceled /\ Goto(w, "look")
    /\ UNCHANGED <<at, err, canceled, failures, retains, shown>> /\ Same

Look(w) ==
    /\ pc[w] = "look"
    /\ IF Failed(w) THEN Fails(w) ELSE Goto(w, Slept) /\ UNCHANGED err
    /\ UNCHANGED <<at, canceled, failures, retains, shown>> /\ Same

-----------------------------------------------------------------------------
(* ItemProcessor and runNodes *)

\* The conveyor starts an item, unless it shuts down, or a child or a task from
\* the queue of a branch, which a graceful drain goes on to serve.
Start(w) ==
    /\ running /\ ~Created(w) /\ w \notin canceled
    /\ HasPath \/ trigger = "none"
    /\ \A v \in Walkers : v < w => Created(v)
    /\ HasRoom(0)
    /\ Goto(w, IF HasPath THEN "begin" ELSE "arm")
    /\ UNCHANGED <<at, err, canceled, failures, retains, shown>> /\ Same

\* lanePaths.Enter of a branch's entrance.
Begin(w) ==
    /\ pc[w] = "begin" /\ Goto(w, "arm")
    /\ entries' = entries \cup {<<0, w>>}
    /\ UNCHANGED <<at, err, canceled, failures, retains, marks, pending>> /\ Same

\* blocked.Mark; behind the last node the walk is over.
Mark(w) ==
    /\ pc[w] = "mark"
    /\ Goto(w, IF at[w] = End THEN "leave" ELSE "enter")
    /\ marks' = marks \cup {<<at[w], Occurrence(w)>>}
    /\ UNCHANGED <<at, err, canceled, failures, retains, entries, pending>> /\ Same

Following(w) == at[w] + 1

\* Mutant of Enter: the entry of the node it leaves is released here.
EnterReleasing(w) ==
    /\ pc[w] = "enter"
    /\ Goto(w, IF Following(w) \in FanOuts THEN "prepare" ELSE "moving")
    /\ entries' = IF HasPath THEN (entries \ {<<at[w], w>>}) \cup {<<Following(w), w>>} ELSE entries
    /\ UNCHANGED <<at, err, canceled, failures, retains, marks, pending>> /\ Same

\* lanePaths.Enter of the next node, before the move.
Enter(w) ==
    /\ pc[w] = "enter"
    /\ Goto(w, IF Following(w) \in FanOuts THEN "prepare" ELSE "moving")
    /\ entries' = IF HasPath THEN entries \cup {<<Following(w), w>>} ELSE entries
    /\ UNCHANGED <<at, err, canceled, failures, retains, marks, pending>> /\ Same

Refused(w) == Goto(w, "refused") /\ err' = [err EXCEPT ![w] = "fail"]

\* entries.MarkPending and Schedule, which a canceled item is refused.
Prepare(w) ==
    /\ pc[w] = "prepare"
    /\ pending' = pending \cup {<<Following(w), NoOf(w)>>}
    /\ IF w \in canceled THEN Refused(w) ELSE Goto(w, "moving") /\ UNCHANGED err
    /\ UNCHANGED <<at, canceled, failures, retains, entries, marks>> /\ Same

\* MoveTo lets the walker in; its old place is free unless it is kept.
Admit(w) ==
    /\ pc[w] = "moving" /\ w \notin canceled
    /\ HasRoom(Following(w)) /\ GateOpen(w, Following(w))
    /\ at' = [at EXCEPT ![w] = @ + 1]
    /\ Goto(w, "admitted")
    /\ UNCHANGED <<err, canceled, failures, retains, shown>> /\ Same

\* MoveTo returns the cancellation, or the TaskError of the fan-out it leaves.
MoveFails(w) ==
    /\ pc[w] = "moving"
    /\ \/ w \in canceled
       \/ at[w] \in FanOuts /\ NoOf(w) \in failItem \cup failTask
    /\ Refused(w)
    /\ UNCHANGED <<at, canceled, failures, retains, shown>> /\ Same

\* release(): the entry of the node behind.
Admitted(w) ==
    /\ pc[w] = "admitted"
    /\ entries' = entries \ {<<at[w] - 1, w>>}
    /\ Goto(w, IF at[w] \in FanOuts THEN "confirm" ELSE "check")
    /\ UNCHANGED <<at, err, canceled, failures, retains, marks, pending>> /\ Same

\* entries.MarkConfirmed.
Confirm(w) ==
    /\ pc[w] = "confirm" /\ Goto(w, "check")
    /\ pending' = pending \ {<<at[w], NoOf(w)>>}
    /\ UNCHANGED <<at, err, canceled, failures, retains, entries, marks>> /\ Same

\* itemFailed() behind the admission; no code runs in a fan-out.
Check(w) ==
    /\ pc[w] = "check"
    /\ IF NoOf(w) \in failItem THEN Fails(w)
       ELSE /\ Goto(w, IF at[w] \notin FanOuts THEN "arm"
                       ELSE IF at[w] = End THEN "leave" ELSE "enter")
            /\ UNCHANGED err
    /\ UNCHANGED <<at, canceled, failures, retains, shown>> /\ Same

\* Retains.forget, of an item.
Forget(w) == requested' = IF HasPath THEN requested ELSE {k \in requested : k[2] # w}

\* A walker that is refused gives up both its entries, one after the other:
\* release(), of the node it stands in ...
ReleaseBehind(w) ==
    /\ pc[w] = "refused" /\ Goto(w, "unwound")
    /\ entries' = entries \ {<<at[w], w>>}
    /\ UNCHANGED <<at, err, canceled, failures, retains, marks, pending>> /\ Same

\* ... and releaseThis(), of the node it has not got to; forget, of an item.
ReleaseAhead(w) ==
    /\ pc[w] = "unwound" /\ Goto(w, "return")
    /\ entries' = entries \ {<<Following(w), w>>}
    /\ Forget(w)
    /\ UNCHANGED <<at, err, canceled, failures, live, retClosed, releasing, held,
                   marks, pending>>
    /\ Same

\* The walk ends in a node, well or not: release(), of a path; forget, of an item.
Leave(w) ==
    /\ pc[w] = "leave" /\ Goto(w, "return")
    /\ entries' = entries \ {<<at[w], w>>}
    /\ Forget(w)
    /\ UNCHANGED <<at, err, canceled, failures, live, retClosed, releasing, held,
                   marks, pending>>
    /\ Same

\* The conveyor takes the result: the holds end; an error stops the run and
\* cancels the items behind, or all the walkers of the same body.
Return(w) ==
    /\ pc[w] = "return" /\ Goto(w, "over")
    /\ held' = [k \in Nodes \X Walkers |-> IF k[2] = w THEN 0 ELSE held[k]]
    /\ IF err[w] = "fail" /\ w \notin canceled
       THEN /\ trigger' = IF trigger = "none" THEN "item" ELSE trigger
            /\ canceled' = canceled \cup {v \in Walkers : HasPath \/ v > w}
       ELSE UNCHANGED <<trigger, canceled>>
    /\ UNCHANGED <<at, err, failures, requested, live, retClosed, releasing, shown,
                   manager, contexts, scope, clicks>>

-----------------------------------------------------------------------------
(* The conveyor's shutdown *)

\* watchShutdown: the run's context is canceled ...
BeginShutdown ==
    /\ running /\ runCtx /\ trigger = "none"
    /\ trigger' = "ctx"
    /\ UNCHANGED <<manager, contexts, scope, walkers, failures, retains, shown, clicks>>

\* ... and, whatever began the shutdown, the drain context.
CancelInFlight ==
    /\ running /\ trigger # "none" /\ drainCtx
    /\ canceled # Walkers /\ canceled' = Walkers
    /\ UNCHANGED <<manager, contexts, conveyor, pc, at, err, failures, retains, shown, clicks>>

-----------------------------------------------------------------------------

\* What a walker does by itself; only the timer takes its time.
Step(w) ==
    \/ Begin(w) \/ Arm(w) \/ ArmRetain(w) \/ Apply(w) \/ Test(w) \/ Wake(w)
    \/ CtxDone(w) \/ Look(w) \/ Mark(w) \/ Enter(w) \/ Prepare(w) \/ MoveFails(w)
    \/ Admit(w) \/ Admitted(w) \/ Confirm(w) \/ Check(w)
    \/ ReleaseBehind(w) \/ ReleaseAhead(w) \/ Leave(w) \/ Return(w)

Quiet ==
    /\ running => trigger = "none"
    /\ UNCHANGED vars

Next ==
    \/ CancelCtx \/ Stop \/ EndRun \/ ReleaseHold \/ BeginShutdown \/ CancelInFlight
    \/ \E sc \in Scopes : Run(sc)
    \/ \E no \in Walkers :
         FailItem(no) \/ FailTask(no)
    \/ \E n \in Nodes, no \in Walkers :
         RetainItem(n, no) \/ ReleaseItem(n, no)
    \/ \E w \in Walkers : Start(w) \/ Timer(w) \/ Step(w)
    \/ Quiet

Spec == Init /\ [][Next]_vars

\* Goroutines go on, except for what is left of a delay.  None of these steps
\* can be repeated for ever, so one of them being taken is enough.
GoOn ==
    \/ \E w \in Walkers : Step(w)
    \/ ReleaseHold \/ BeginShutdown \/ CancelInFlight \/ EndRun

FairSpec == Spec /\ WF_vars(GoOn)

-----------------------------------------------------------------------------
(* What State shows of a node *)

Labelled(n) == {w \in Walkers : <<n, w>> \in entries}

\* BlockedEntries.StillBlocked: the marks of those who are there now.
StillBlocked(n, occupants) == {w \in occupants : <<n, Occurrence(w)>> \in marks}

\* stillBlocked.
BlockedLeaving(n) == StillBlocked(n, IF HasPath THEN Labelled(n) ELSE InBody(n))

-----------------------------------------------------------------------------
(* Safety *)

\* No click gets lost: nobody is parked on two open channels with a failure or
\* a retain of its own requested, in whatever order its goroutine took the
\* channels, looked, and was clicked at.
NoLostClick ==
    \A w \in Walkers : pc[w] = "asleep" =>
        /\ Failed(w) => w \in failClosed
        /\ TakesRetains(w) /\ <<at[w], w>> \in requested => w \in retClosed

\* Every hold that the conveyor keeps for an item can be released by a click:
\* it is the one that is live, or its release is on the way.
HoldsAreReleasable ==
    \A n \in Nodes, w \in Walkers : Alive(w) =>
        held[<<n, w>>] = (IF <<n, w>> \in live THEN 1 ELSE 0)
                         + (IF <<n, w>> \in releasing THEN 1 ELSE 0)

\* The walk of a child or a task is in progress: it has registered its path,
\* and has not begun to give up its entries for good.
Walking(w) == pc[w] \notin {"none", "begin", "unwound", "return", "over"}

\* While a walk is in progress the node it is in has an entry for it, so no
\* snapshot shows a bare number there: it is labelled where it stands until the
\* next node has let it in.  And no entry outlasts its walk or points where its
\* walker is not: there is one in the node it stands in, one in the node ahead
\* until that has let it in or refused it, one in the node behind until the
\* release that follows the admission.
OccupantsAreLabelled ==
    HasPath => \A w \in Walkers :
        /\ Walking(w) => w \in Labelled(at[w])
        /\ \A n \in Nodes : w \in Labelled(n) =>
              \/ Walking(w) /\ n = at[w]
              \/ pc[w] \in {"prepare", "moving", "refused", "unwound"} /\ n = at[w] + 1
              \/ pc[w] = "admitted" /\ n = at[w] - 1

\* Whoever is shown as blocked in a node has done the work of that node: nobody
\* inherits the mark of another child of the same item.
BlockedHaveFinished ==
    \A n \in Nodes : \A w \in BlockedLeaving(n) :
        \/ at[w] > n
        \/ at[w] = n /\ pc[w] \in {"enter", "prepare", "moving", "refused", "unwound",
                                  "leave", "return"}

-----------------------------------------------------------------------------
(* Liveness *)

\* Stop ends the run, whatever the delays, the holds and the waits for room.
StopEnds == forced ~> ~running
=============================================================================
