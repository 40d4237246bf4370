------------------------------- MODULE FanOut -------------------------------
(***************************************************************************)
(* One fan-out between the start gate and what lies beyond it: the bodies  *)
(* of the items inside, the queues and workers of its branches (pools),    *)
(* the door that keeps the work of the items in order, the upstream hold   *)
(* of Balanced and Strict admission, the outcome of a body and what it     *)
(* does to its item and to the items behind.                               *)
(*                                                                         *)
(* The code runs a whole cascade under one hold of the run's mutex: a task *)
(* that is handed out may end a hold, whose release frees the node behind; *)
(* a dropped collection may finish a task group.  Each helper below is one *)
(* method of the cascade, a function from a state s of the run (a record   *)
(* of the variables) or of one item to the next, and each action commits   *)
(* one cascade.                                                            *)
(* Counters that Series keeps and checks (occupancy, queued) are the sizes *)
(* of sets here.  The nodes beyond have room for everybody.                *)
(***************************************************************************)
EXTENDS Integers, Sequences, FiniteSets, FiniteSetsExt, SequencesExt

CONSTANTS NItems,         \* bound: how many items are ever created
          Branches,       \* the pools of the fan-out
          NodeLimit,      \* how many items may be inside the fan-out
          RoomSize,       \* the size of the waiting room in front of it
          BranchLimits,   \* the limits a pool may be given, live
          Modes,          \* the modes SetBackpressure may be given
          MaxTasks,       \* bound: tasks of one submission on one branch
          MaxSubmits,     \* bound: submissions to one body
          Failures        \* what may go wrong: "task", "proc", "abort", "drain"

ASSUME NItemsNat == NItems \in Nat
ASSUME BranchesFinite == IsFiniteSet(Branches)
ASSUME LimitsPositive == BranchLimits \subseteq Nat \ {0}
ASSUME ModesKnown == Modes \subseteq {"buffered", "balanced", "strict"}
ASSUME TasksNat == MaxTasks \in Nat

Items == 1 .. NItems

GateRank == 0
RoomRank == 1
NodeRank == 2
BeyondRank == 4

UnitRank(u) == IF u = "gate" THEN GateRank ELSE NodeRank

Batches == [Branches -> 0 .. MaxTasks]

VARIABLES
    created,   \* items 1 .. created have been created
    item,      \* item[i]: the record of item i, with its body's task group
    queue,     \* queue[b]: the collections queued on b, head first
    running,   \* running[b][i]: how many tasks of i run on b
    loose,     \* loose[b]: workers of b between a task and their next pull
    limit,     \* limit[b]
    mode,      \* the backpressure dial
    stopping   \* shutdown has begun

vars == <<created, item, queue, running, loose, limit, mode, stopping>>

Bodies == {"none", "open", "closed", "retained"}
Tokens == {"none", "gate", "room", "nothing"}

ItemRecords ==
    [reached : Int, published : Int,        \* reachedRank and maxRank
     slots : SUBSET {"gate", "node"},       \* occupied
     queuedAt : BOOLEAN,                    \* in the fan-out's waiting room
     dormant : SUBSET Batches,              \* work prepared before entry, if any
     canceled : {"no", "self", "conveyor"}, \* the item's own context, and by whom
     returned : BOOLEAN, finished : BOOLEAN, failed : BOOLEAN,
     proc : {"ok", "fail", "abort"},        \* what its processor returned
     \* the task group of its body
     body : Bodies, root : BOOLEAN,         \* bodyState, rootSubmitted
     unexhausted : Int, tasks : Int,        \* its collections and tasks alive
     err : {"none", "task", "abort"}, joined : BOOLEAN,
     dead : BOOLEAN,                        \* the body's context is canceled
     done : BOOLEAN,                        \* Finished is closed
     retains : BOOLEAN,                     \* retainUnit is the fan-out
     \* the upstream hold of its admission, if alive
     token : Tokens, held : {"buffered", "balanced", "strict"},
     awaiting : SUBSET Branches,
     submits : Nat,                         \* bound of the model
     \* history, which no action reads: has a task of the batch that a Balanced
     \* hold waits for started, has a task of the body really failed
     begun : BOOLEAN, broke : BOOLEAN]

NewItem ==
    [reached |-> GateRank, published |-> GateRank, slots |-> {"gate"},
     queuedAt |-> FALSE, dormant |-> {}, canceled |-> "no",
     returned |-> FALSE, finished |-> FALSE, failed |-> FALSE, proc |-> "ok",
     body |-> "none", root |-> FALSE, unexhausted |-> 0, tasks |-> 0,
     err |-> "none", joined |-> FALSE, dead |-> FALSE, done |-> FALSE,
     retains |-> FALSE, token |-> "none", held |-> "buffered", awaiting |-> {},
     submits |-> 0, begun |-> FALSE, broke |-> FALSE]

\* begun, which no action reads: a task of the collection has started.
Collections == [item : Items, left : Nat \ {0}, entering : BOOLEAN, begun : BOOLEAN]

TypeOK ==
    /\ created \in 0 .. NItems
    /\ item \in [1 .. created -> ItemRecords]
    /\ queue \in [Branches -> Seq(Collections)]
    /\ running \in [Branches -> [Items -> Nat]]
    /\ loose \in [Branches -> Nat]
    /\ limit \in [Branches -> Nat \ {0}]
    /\ mode \in Modes /\ stopping \in BOOLEAN

\* The variables a cascade works on.
State == [item |-> item, queue |-> queue, running |-> running, limit |-> limit,
          stopping |-> stopping]

Commit(s) ==
    /\ item' = s.item /\ queue' = s.queue /\ running' = s.running
    /\ limit' = s.limit /\ stopping' = s.stopping

InFlight(s) == {i \in DOMAIN s.item : ~s.item[i].finished}

-----------------------------------------------------------------------------
(* The release sweep and the upstream hold *)

\* isRetaining and holdsUnit: the slots the sweep leaves alone.
Protected(it) ==
    {u \in {"gate", "node"} : \/ u = "node" /\ it.retains /\ ~it.done
                              \/ u = it.token}

\* Mutant of DropDormant: one rank too early.
DropDormantHereToo(it, r) == IF NodeRank <= r THEN {} ELSE it.dormant

\* dropDormant: the fan-out is behind rank r.
DropDormant(it, r) == IF NodeRank < r THEN {} ELSE it.dormant

\* releaseBelow: everything behind rank r, prepared work included.
ReleaseBelow(it, r) ==
    [it EXCEPT !.slots = {u \in @ : UnitRank(u) >= r \/ u \in Protected(it)},
               !.queuedAt = @ /\ RoomRank >= r,
               !.dormant = DropDormant(it, r)]

\* newHold: the token the admission would have released stays with the item;
\* a place in the waiting room is taken over from queuedAt.
NewHold(it) ==
    IF mode = "buffered" THEN it
    ELSE [it EXCEPT !.token = IF it.queuedAt THEN "room"
                              ELSE IF "gate" \in it.slots THEN "gate" ELSE "nothing",
                    !.held = mode, !.queuedAt = FALSE]

\* Mutant of DischargeHold: the deferred release is forgotten.
DischargeWithoutSweep(it) == [it EXCEPT !.token = "none", !.awaiting = {}]

\* dischargeHold: once, and the release it deferred is made up for.
DischargeHold(it) ==
    LET ended == [it EXCEPT !.token = "none", !.awaiting = {}]
    IN  IF it.token = "none" THEN it
        ELSE IF it.finished THEN ended ELSE ReleaseBelow(ended, it.reached)

\* Mutant of BranchStarted: every hold waits for all its branches.
BranchStartedAsStrict(it, col, b, started) ==
    LET waiting == [it EXCEPT !.awaiting = @ \ {b}]
    IN  IF ~col.entering \/ it.token = "none" THEN it
        ELSE IF waiting.awaiting = {} THEN DischargeHold(waiting)
             ELSE waiting

\* branchStarted: an entering collection has started on b, or left its queue.
BranchStarted(it, col, b, started) ==
    LET waiting == [it EXCEPT !.awaiting = @ \ {b}]
    IN  IF ~col.entering \/ it.token = "none" THEN it
        ELSE IF waiting.awaiting = {} \/ (started /\ it.held = "balanced")
             THEN DischargeHold(waiting)
             ELSE waiting

-----------------------------------------------------------------------------
(* The task group of a body *)

Idle(it) == it.unexhausted = 0 /\ it.tasks = 0

\* settle, with releaseRetained: a sealed idle task group is finished.
Settle(it) ==
    LET settled == [it EXCEPT !.done = TRUE, !.dead = TRUE]
    IN  IF it.body \in {"none", "open"} \/ ~Idle(it) \/ it.done THEN it
        ELSE IF it.retains /\ ~it.finished THEN ReleaseBelow(settled, it.reached)
             ELSE settled

SourceExhausted(it) == Settle([it EXCEPT !.unexhausted = @ - 1])

\* cancelLater: the first cancellation of a context wins.
CancelLater(s, i) ==
    [s EXCEPT !.item = [j \in DOMAIN @ |->
        IF j > i /\ ~@[j].finished /\ @[j].canceled = "no"
        THEN [@[j] EXCEPT !.canceled = "conveyor"] ELSE @[j]]]

\* Mutant of ItemFailed: the item right behind is forgotten.
ItemFailedSparingNext(s, i) ==
    IF s.item[i].failed THEN s
    ELSE CancelLater([s EXCEPT !.item[i].failed = TRUE, !.stopping = TRUE], i + 1)

\* itemFailed and failRoot: reported once; shutdown begins, the younger items
\* are canceled.
ItemFailed(s, i) ==
    IF s.item[i].failed THEN s
    ELSE CancelLater([s EXCEPT !.item[i].failed = TRUE, !.stopping = TRUE], i)

\* asAbort: the error of an item the conveyor canceled follows from that.
AsAbort(it, e) == IF e # "none" /\ it.canceled = "conveyor" THEN "abort" ELSE e

\* Mutant of RecordErr: an abort is kept although a task fails later.
RecordErrOnce(s, i, err) ==
    LET it == s.item[i]
        e == AsAbort(it, err)
        recorded == [s EXCEPT !.item[i] = [it EXCEPT !.err = e, !.dead = @ \/ e = "task"]]
    IN  IF e = "none" \/ it.err # "none" THEN s
        ELSE IF e = "task" /\ it.returned /\ ~it.joined THEN ItemFailed(recorded, i)
        ELSE recorded

\* recordErr: the first real error wins, over an abort as well, and kills the
\* body; if the processor is over and nobody joined, the item fails with it.
RecordErr(s, i, err) ==
    LET it == s.item[i]
        e == AsAbort(it, err)
        recorded == [s EXCEPT !.item[i] = [it EXCEPT !.err = e, !.dead = @ \/ e = "task"]]
    IN  IF e = "none" \/ it.err = "task" THEN s
        ELSE IF e = "task" /\ it.returned /\ ~it.joined THEN ItemFailed(recorded, i)
        ELSE recorded

\* workDone.
WorkDone(s, i, err) ==
    LET t == RecordErr([s EXCEPT !.item[i].tasks = @ - 1], i, err)
    IN  [t EXCEPT !.item[i] = Settle(@)]

\* sealBody: the item's own path into its body ends; a body that never got a
\* root submission closes as an empty batch, which ends the hold.
SealBody(it, body) ==
    LET sealed == Settle([it EXCEPT !.body = body])
    IN  IF it.root THEN sealed ELSE DischargeHold(sealed)

-----------------------------------------------------------------------------
(* The branch runtime *)

\* The collection's body may not go on: its own context or the item's is canceled.
Dead(it) == it.dead \/ it.canceled # "no"

\* The tasks that run on b, told apart by a number.
Slots(s, b) == UNION {{i} \X (1 .. s.running[b][i]) : i \in Items}

Occupied(s, b) == Cardinality(Slots(s, b))

UnitHasFreeSlot(s, b) == Occupied(s, b) < s.limit[b]

\* Mutant of InsertCollection: first come, first served.
InsertLast(s, b, col) ==
    [s EXCEPT !.queue[b] = Append(@, col), !.item[col.item].unexhausted = @ + 1]

\* insertCollection: behind the queued work of the same item and of older ones.
InsertCollection(s, b, col) ==
    LET q == s.queue[b]
        before == {k \in DOMAIN q : q[k].item <= col.item}
        place == IF before = {} THEN 1 ELSE 1 + Max(before)
    IN  [s EXCEPT !.queue[b] = InsertAt(q, place, col),
                  !.item[col.item].unexhausted = @ + 1]

\* The head of b and the item it belongs to.
First(s, b) == Head(s.queue[b])

\* dequeue of the head: an entering collection that leaves without a start
\* still ends its wait.
Dequeue(s, b) ==
    LET col == First(s, b)
    IN  [s EXCEPT !.queue[b] = Tail(@),
                  !.item[col.item] = BranchStarted(@, col, b, FALSE)]

\* recordAbandoned: it counts only as long as there is no error.
RecordAbandoned(it) == [it EXCEPT !.err = IF @ = "none" THEN "abort" ELSE @]

\* dropCollection: its group records that work was thrown away, and is told.
DropCollection(s, b) ==
    [Dequeue(s, b) EXCEPT
        !.item[First(s, b).item] = SourceExhausted(RecordAbandoned(@))]

\* settleCollection: the head has handed out a task, perhaps its last.
SettleCollection(s, b) ==
    LET col == First(s, b)
        begun == [col EXCEPT !.left = @ - 1, !.begun = TRUE]
    IN  IF col.left > 1 THEN [s EXCEPT !.queue[b][1] = begun]
        ELSE [Dequeue(s, b) EXCEPT !.item[col.item] = SourceExhausted(@)]

\* startWork: one task of the head collection starts.
StartWork(s, b) ==
    LET col == First(s, b)
        started(it) == BranchStarted([it EXCEPT !.tasks = @ + 1], col, b, TRUE)
        noted(it) == [it EXCEPT !.begun = @ \/ (col.entering /\ it.held = "balanced")]
    IN  SettleCollection([s EXCEPT !.running[b][col.item] = @ + 1,
                                   !.item[col.item] = noted(started(@))], b)

\* There is a slot to fill and something to fill it with.
Pullable(s, b) == UnitHasFreeSlot(s, b) /\ s.queue[b] # <<>>

\* One turn of grabNext's loop: a dead head is dropped.
DropDead(s, b) ==
    IF Pullable(s, b) /\ Dead(s.item[First(s, b).item])
    THEN DropCollection(s, b) ELSE s

\* grabNext: fill one free slot from the head, dropping what is dead first.
GrabNext(s, b) ==
    LET dropped[n \in Nat] == IF n = 0 THEN s ELSE DropDead(dropped[n - 1], b)
        t == dropped[Len(s.queue[b])]
    IN  IF Pullable(t, b) THEN StartWork(t, b) ELSE t

\* Mutant of Pump: one slot only.
PumpOne(s, b) == GrabNext(s, b)

\* pump: fill every free slot, of which there are no more than the limit.
Pump(s, b) ==
    LET pulled[n \in Nat] == IF n = 0 THEN s ELSE GrabNext(pulled[n - 1], b)
    IN  pulled[s.limit[b]]

\* markEntering: the branches a first root submission touches are those its hold
\* waits for; with none the hold ends.
MarkEntering(it, branches) ==
    IF branches = {} THEN DischargeHold(it) ELSE [it EXCEPT !.awaiting = branches]

\* The batch of i is queued on the branches it touches, one after the other.
InsertAll(s, i, batch, entering, touched) ==
    LET inserted[n \in 0 .. Len(touched)] ==
            IF n = 0 THEN s
            ELSE InsertCollection(inserted[n - 1], touched[n],
                     [item |-> i, left |-> batch[touched[n]], entering |-> entering,
                      begun |-> FALSE])
    IN  inserted[Len(touched)]

\* The branches are pumped, one after the other.
PumpAll(s, touched) ==
    LET pumped[n \in 0 .. Len(touched)] ==
            IF n = 0 THEN s ELSE Pump(pumped[n - 1], touched[n])
    IN  pumped[Len(touched)]

\* submitClaimed: the batch is queued on every branch it touches, the first root
\* submission becomes the one that ends the hold, the door opens, the work starts.
SubmitClaimed(s, i, batch, root) ==
    LET it == s.item[i]
        branches == {b \in Branches : batch[b] > 0}
        touched == SetToSeq(branches)
        first == root /\ ~it.root
        entering == first /\ it.token # "none"
        queued == InsertAll(s, i, batch, entering, touched)
        marked(r) == IF entering THEN MarkEntering(r, branches) ELSE r
        opened(r) == [marked(r) EXCEPT !.root = @ \/ root,
                                       !.published = Max({@, NodeRank})]
    IN  PumpAll([queued EXCEPT !.item[i] = opened(@)], touched)

-----------------------------------------------------------------------------
(* Items come and move *)

Init ==
    /\ created = 0
    /\ item = <<>>
    /\ queue = [b \in Branches |-> <<>>]
    /\ running = [b \in Branches |-> [i \in Items |-> 0]]
    /\ loose = [b \in Branches |-> 0]
    /\ limit \in [Branches -> BranchLimits]
    /\ mode \in Modes
    /\ stopping = FALSE

\* A new item at the start gate, which has one slot.
Create ==
    /\ created < NItems
    /\ ~stopping
    /\ \A j \in InFlight(State) : "gate" \notin item[j].slots
    /\ created' = created + 1
    /\ item' = Append(item, NewItem)
    /\ UNCHANGED <<queue, running, loose, limit, mode, stopping>>

\* i's processor is running and the item is not canceled.
Active(i) == i \in DOMAIN item /\ ~item[i].returned
Able(i) == Active(i) /\ item[i].canceled = "no"

\* The items in flight ahead of i.
Ahead(i) == {j \in InFlight(State) : j < i}

\* Mutant of GateOpen: how far the item ahead has got, published or not.
GateOpenAtReached(i, r) == Ahead(i) # {} => item[Max(Ahead(i))].reached >= r

\* The ordering gate: the item right ahead has published rank r.
GateOpen(i, r) == Ahead(i) # {} => item[Max(Ahead(i))].published >= r

InRoom == {j \in InFlight(State) : item[j].queuedAt \/ item[j].token = "room"}

CanEnter(i) ==
    /\ Cardinality({j \in InFlight(State) : "node" \in item[j].slots}) < NodeLimit
    /\ GateOpen(i, NodeRank)

CanEnterQueue(i) == Cardinality(InRoom) < RoomSize /\ GateOpen(i, RoomRank)

\* activateDormant: what was prepared is the initial batch.
ActivateDormant(s, i, batch) ==
    SubmitClaimed([s EXCEPT !.item[i].dormant = {}], i, batch, TRUE)

\* MoveTo and TryMoveTo admit the item: it gives up what it held behind, but
\* for the held token, its body opens, and the work it prepared is submitted
\* in the same step.
Enter(i) ==
    /\ Able(i)
    /\ item[i].body = "none" /\ item[i].reached <= NodeRank
    /\ CanEnter(i)
    /\ LET occupied == [item[i] EXCEPT !.slots = @ \union {"node"}, !.reached = NodeRank,
                                       !.published = Max({@, RoomRank})]
           inside == [ReleaseBelow(NewHold(occupied), NodeRank) EXCEPT !.body = "open"]
           entered == [State EXCEPT !.item[i] = inside]
       IN  IF inside.dormant = {} THEN Commit(entered)
           ELSE \E batch \in inside.dormant : Commit(ActivateDormant(entered, i, batch))
    /\ UNCHANGED <<created, loose, mode>>

\* MoveTo finds only the waiting room open.
StepAside(i) ==
    /\ Able(i)
    /\ item[i].body = "none" /\ item[i].reached = GateRank
    /\ ~CanEnter(i) /\ CanEnterQueue(i)
    /\ LET waiting == [item[i] EXCEPT !.queuedAt = TRUE, !.reached = RoomRank,
                                      !.published = Max({@, RoomRank})]
       IN  item' = [item EXCEPT ![i] = ReleaseBelow(waiting, RoomRank)]
    /\ UNCHANGED <<created, queue, running, loose, limit, mode, stopping>>

\* A move past the fan-out, from an earlier place or out of a body closed before.
MoveOn(i) ==
    /\ Able(i)
    /\ item[i].body # "open" /\ item[i].reached < BeyondRank
    /\ GateOpen(i, BeyondRank)
    /\ LET beyond == [item[i] EXCEPT !.reached = BeyondRank, !.published = BeyondRank]
       IN  item' = [item EXCEPT ![i] = ReleaseBelow(beyond, BeyondRank)]
    /\ UNCHANGED <<created, queue, running, loose, limit, mode, stopping>>

-----------------------------------------------------------------------------
(* Work is scheduled, joined, handed over *)

\* Schedule before entry: the work is prepared and stays dormant.
Prepare(i, batch) ==
    /\ Able(i)
    /\ item[i].body = "none" /\ item[i].reached <= NodeRank
    /\ item[i].dormant = {}             \* bound: one prepared batch
    /\ item' = [item EXCEPT ![i].dormant = {batch}, ![i].submits = @ + 1]
    /\ UNCHANGED <<created, queue, running, loose, limit, mode, stopping>>

\* dropDormantIfCanceled: a move or a Schedule of a canceled item is refused, and
\* what it has prepared dropped.
Refused(i) ==
    /\ Active(i) /\ item[i].canceled # "no"
    /\ item[i].dormant # {}
    /\ item' = [item EXCEPT ![i].dormant = {}]
    /\ UNCHANGED <<created, queue, running, loose, limit, mode, stopping>>

\* Schedule from the processor, into the open body, or from a running task of
\* the body, whatever has become of the body's place in the item.  A body whose
\* work has failed, or whose item is canceled, takes nothing more.
Schedule(i, batch) ==
    /\ i \in DOMAIN item
    /\ item[i].submits < MaxSubmits
    /\ ~Dead(item[i])
    /\ \E root \in BOOLEAN :
          /\ IF root THEN Active(i) /\ item[i].body = "open"
             ELSE \E b \in Branches : running[b][i] > 0
          /\ LET claimed == [item[i] EXCEPT !.joined = FALSE, !.submits = @ + 1]
             IN  Commit(SubmitClaimed([State EXCEPT !.item[i] = claimed], i, batch, root))
    /\ UNCHANGED <<created, loose, mode>>

\* FanOut.Wait on an idle body, or TaskGroup.Wait on a finished one: the outcome
\* is joined, unless it is clean and the item canceled.
Join(i) ==
    /\ Active(i)
    /\ \/ item[i].body = "open" /\ Idle(item[i])
       \/ item[i].body = "retained" /\ item[i].done
    /\ item[i].canceled = "no" \/ item[i].err # "none"
    /\ ~item[i].joined
    /\ item' = [item EXCEPT ![i].joined = TRUE]
    /\ UNCHANGED <<created, queue, running, loose, limit, mode, stopping>>

\* closeBody: a move that leaves the fan-out closes the idle body first, and
\* joins it.  A failed body is then the answer of the move; the item stays.
CloseBody(i) ==
    /\ Active(i)
    /\ item[i].body = "open" /\ Idle(item[i])
    /\ item' = [item EXCEPT ![i] = SealBody([@ EXCEPT !.joined = TRUE], "closed")]
    /\ UNCHANGED <<created, queue, running, loose, limit, mode, stopping>>

\* FanOut.Retain: the slot is the work's from now on, and the door opens.
Retain(i) ==
    /\ Active(i)
    /\ item[i].body = "open"
    /\ LET sealed == SealBody([item[i] EXCEPT !.retains = TRUE], "retained")
       IN  item' = [item EXCEPT ![i] =
                       [sealed EXCEPT !.published = Max({sealed.published, NodeRank})]]
    /\ UNCHANGED <<created, queue, running, loose, limit, mode, stopping>>

-----------------------------------------------------------------------------
(* The branches work *)

\* The goroutine of a pool ends a task of i, which fails, or returns a
\* ShutdownError ("abort") whether its item is canceled or not: that of an
\* UntilShutdown context, of another run, or one it has kept.
TaskReturns(b, i, err) ==
    /\ i \in DOMAIN item /\ running[b][i] > 0
    /\ err = "none" \/ err \in Failures
    /\ LET ended == WorkDone([State EXCEPT !.running[b][i] = @ - 1], i, err)
           broke == item[i].broke \/ AsAbort(item[i], err) = "task"
       IN  Commit([ended EXCEPT !.item[i].broke = broke])
    /\ loose' = [loose EXCEPT ![b] = @ + 1]
    /\ UNCHANGED <<created, mode>>

\* In a later hold of the mutex it pulls its next task, or ends.
WorkerNext(b) ==
    /\ loose[b] > 0
    /\ loose' = [loose EXCEPT ![b] = @ - 1]
    /\ Commit(GrabNext(State, b))
    /\ UNCHANGED <<created, mode>>

\* Pool.SetLimit: a raise starts queued work at once.
SetLimit(b, l) ==
    /\ l # limit[b]
    /\ Commit(Pump([State EXCEPT !.limit[b] = l], b))
    /\ UNCHANGED <<created, loose, mode>>

\* SetBackpressure: for the items admitted from now on.
SetBackpressure(m) ==
    /\ m # mode
    /\ mode' = m
    /\ UNCHANGED <<created, item, queue, running, loose, limit, stopping>>

-----------------------------------------------------------------------------
(* Completion and cancellation *)

\* settleOutcome: the processor's own failure, else the error of a body it has
\* not joined, else nothing or an abort, which cascades once shutdown has begun.
SettleOutcome(s, i) ==
    LET it == s.item[i]
        unjoined == ~it.joined /\ it.err # "none"
        err == IF it.proc # "fail" /\ unjoined THEN it.err ELSE it.proc
    IN  IF err \in {"fail", "task"} THEN ItemFailed(s, i)
        ELSE IF err = "abort" /\ s.stopping THEN CancelLater(s, i)
        ELSE s

\* Mutant of Return: the open body is not sealed.
ReturnUnsealed(i, proc) ==
    /\ Active(i)
    /\ proc = "ok"
    /\ Commit(SettleOutcome([State EXCEPT !.item[i].returned = TRUE,
                                          !.item[i].dormant = {}], i))
    /\ UNCHANGED <<created, loose, mode>>

\* completeItem up to its join: prepared work is dropped, an error cancels the
\* item's own work, the outcome known so far acts, an open body is sealed.
Return(i, proc) ==
    /\ Active(i)
    /\ proc = "fail" => "proc" \in Failures
    /\ proc = "abort" => "abort" \in Failures
    /\ LET p == AsAbort(item[i], IF proc = "ok" THEN "none" ELSE proc)
           outcome == IF p = "none" THEN "ok" ELSE p
           by == IF outcome = "fail" THEN "self" ELSE "conveyor"
           over == [item[i] EXCEPT !.returned = TRUE, !.proc = outcome, !.dormant = {},
                                   !.canceled = IF outcome # "ok" /\ @ = "no"
                                                THEN by ELSE @]
           settled == SettleOutcome([State EXCEPT !.item[i] = over], i)
           closed(it) == IF it.body = "open" THEN SealBody(it, "closed") ELSE it
       IN  Commit([settled EXCEPT !.item[i] = closed(@)])
    /\ UNCHANGED <<created, loose, mode>>

\* completeItem after its join: the outcome is settled again, and finishItem
\* frees everything the item holds and ends its hold.
Finish(i) ==
    /\ i \in InFlight(State) /\ item[i].returned
    /\ item[i].body = "none" \/ item[i].done
    /\ LET over(it) == [it EXCEPT !.finished = TRUE, !.slots = {}, !.queuedAt = FALSE,
                                  !.token = "none", !.awaiting = {}, !.begun = FALSE]
       IN  Commit([SettleOutcome(State, i) EXCEPT !.item[i] = over(@)])
    /\ UNCHANGED <<created, loose, mode>>

\* The Run context is canceled; the drain timeout cancels whoever is in flight.
BeginShutdown ==
    /\ "drain" \in Failures
    /\ ~stopping /\ stopping' = TRUE
    /\ UNCHANGED <<created, item, queue, running, loose, limit, mode>>

DrainOverrun ==
    /\ "drain" \in Failures
    /\ stopping /\ InFlight(State) # {}
    /\ Commit(CancelLater(State, 0))
    /\ UNCHANGED <<created, loose, mode>>

\* Everybody is over: the run may end here.
Quiet ==
    /\ InFlight(State) = {} /\ (stopping \/ created = NItems)
    /\ UNCHANGED vars

Next ==
    \/ Create \/ Quiet \/ BeginShutdown \/ DrainOverrun
    \/ \E i \in Items :
         \/ Enter(i) \/ StepAside(i) \/ MoveOn(i) \/ Refused(i) \/ Join(i) \/ CloseBody(i)
         \/ Retain(i) \/ Finish(i)
         \/ \E proc \in {"ok", "fail", "abort"} : Return(i, proc)
         \/ \E batch \in Batches : Prepare(i, batch) \/ Schedule(i, batch)
    \/ \E b \in Branches :
         \/ WorkerNext(b)
         \/ \E l \in BranchLimits : SetLimit(b, l)
         \/ \E i \in Items, err \in {"none", "task", "abort"} : TaskReturns(b, i, err)
    \/ \E m \in Modes : SetBackpressure(m)

Spec == Init /\ [][Next]_vars

-----------------------------------------------------------------------------
(* Safety *)

\* i has work queued or running on b.
HasWork(i, b) ==
    running[b][i] > 0 \/ \E k \in DOMAIN queue[b] : queue[b][k].item = i

\* The work of the items is in order: as long as an older item in flight may
\* yet bring its first batch, no younger one has work on any branch.
FirstBatchesInOrder ==
    \A old, young \in InFlight(State) :
        old < young /\ (\E b \in Branches : HasWork(young, b)) =>
            item[old].published >= NodeRank

\* A branch serves its queue by the age of the items: a task starts only when
\* no older item has work left in the queue, whenever that was submitted.
ServedByAge ==
    [][\A b \in Branches, i \in Items : running'[b][i] > running[b][i] =>
          \A k \in DOMAIN queue'[b] : queue'[b][k].item >= i]_vars

\* Prepared work is never lost on the way: it becomes the initial batch as the
\* item enters, and is dropped only where it can never be: past the fan-out,
\* at the processor's return, or when the item is canceled.
PreparedIsActivated ==
    [][\A i \in DOMAIN item : item[i].dormant # {} =>
          \/ item'[i].dormant = item[i].dormant /\ item'[i].body = "none"
          \/ item'[i].body = "open" /\ item'[i].root
          \/ item'[i].reached > NodeRank \/ item'[i].returned
          \/ item[i].canceled # "no"]_vars

\* No queued task waits for a free slot, but for the moment in which a worker
\* is on its way to pull it.
NoStrandedWork ==
    \A b \in Branches :
        queue[b] # <<>> => Occupied(State, b) + loose[b] >= limit[b]

\* No join waits for ever.  Once the body of an item is sealed, which its
\* processor's return does at the latest, either its task group is finished or
\* there is somebody who brings that about: a task of the item is running, or
\* it has queued work on a branch all of whose slots are in use or about to be.
JoinsEnd ==
    \A i \in InFlight(State) :
        LET it == item[i]
        IN  it.body \in {"closed", "retained"} \/ (it.returned /\ it.body # "none") =>
                \/ it.done
                \/ \E b \in Branches :
                      \/ running[b][i] > 0
                      \/ HasWork(i, b) /\ Occupied(State, b) + loose[b] >= limit[b]

\* What makes an item a failure: its processor's own error, or that of any task
\* of a body its processor has not joined, while it ran or after it returned.
Failure(it) ==
    it.returned /\ (it.proc = "fail" \/ (it.broke /\ ~it.joined))

\* No error gets lost: an item that failed is reported before it is over, and no
\* abort, of another of its tasks or of dropped work, earlier or later, hides it.
NoErrorLost ==
    \A i \in DOMAIN item : item[i].finished /\ Failure(item[i]) => item[i].failed

NobodyPassesAFailure ==
    [][\A i, j \in DOMAIN item :
          i < j /\ Failure(item[i]) => item'[j].reached = item[j].reached]_vars

\* The upstream hold is real: its slot is there, and a place in the waiting
\* room is the hold's alone.
HoldIsReal ==
    \A i \in DOMAIN item :
        /\ item[i].token = "gate" => "gate" \in item[i].slots
        /\ item[i].token = "room" => ~item[i].queuedAt /\ item[i].reached >= NodeRank

\* The branches on which the first batch of i is queued and has not begun.
Unstarted(i) ==
    {b \in Branches : \E k \in DOMAIN queue[b] :
        queue[b][k].item = i /\ queue[b][k].entering /\ ~queue[b][k].begun}

\* The hold of an admission lasts exactly as long as its mode says.  It waits for
\* the first batch, unless the body is sealed without one.  Under Strict it then
\* lasts while on some branch the batch waits for its first start; under Balanced
\* (begun is recorded for these) only until the batch starts anywhere.  The item's end
\* ends every hold.
HoldEndsInTime ==
    \A i \in DOMAIN item :
        LET it == item[i]
            lasts ==
                IF it.root
                THEN Unstarted(i) # {} /\ ~it.begun
                ELSE it.body = "open"
        IN  it.token # "none" <=> it.held # "buffered" /\ ~it.finished /\ lasts

\* No slot outlives what it is held for: the gate's goes with the hold, the
\* fan-out's with the retained work, and an item that is over has none.
NoLeak ==
    \A i \in DOMAIN item :
        LET it == item[i]
        IN  /\ "gate" \in it.slots => it.reached = GateRank \/ it.token = "gate"
            /\ "node" \in it.slots => it.reached = NodeRank \/ (it.retains /\ ~it.done)
            /\ it.finished => it.slots = {} /\ ~it.queuedAt /\ it.token = "none"

\* Slots and what they are kept for match.
SlotsMatchHolds == HoldIsReal /\ NoLeak

\* The rank each item has published; one that has not been created yet is at
\* the gate.
Published == [i \in Items |-> IF i \in DOMAIN item THEN item[i].published ELSE GateRank]

\* To an observer of the published ranks the fan-out is an ordered line, too.
Line == INSTANCE OrderedLine
            WITH LastRank <- BeyondRank, joined <- created, line <- InFlight(State),
                 rank <- Published

\* Where an item stands to those behind it is what it has published, not what
\* it has reached: between its entry and its first batch it holds the others
\* back.  An item that is canceled or has failed keeps its place until it is over.
ImplementsOrderedLine == Line!LineSpec
=============================================================================
