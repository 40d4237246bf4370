-------------------------------- MODULE Lanes --------------------------------
(***************************************************************************)
(* A fan-out with one lane: the work of an item is a set of child items,   *)
(* each of which is started at the lane's entrance, travels its interior   *)
(* stages in a line of its own and reports to the body of the item that    *)
(* scheduled it.  The tree is two levels deep: an item, its body, the      *)
(* children of the body.                                                   *)
(*                                                                         *)
(* As in FanOut, a helper is one method of the cascade the code runs under *)
(* one hold of the run's mutex, a function from a state s of the run to    *)
(* the next.  On one branch the collections of an item are neighbours in   *)
(* the queue and are served front to back, so the queue, kept in the age   *)
(* of its items, is the number of tasks each item has in it.  The counters *)
(* of a task group (unexhausted, running) are the sizes of sets here.      *)
(***************************************************************************)
EXTENDS Integers, Sequences, FiniteSets, FiniteSetsExt

CONSTANTS NItems,     \* bound: the items that use the fan-out
          Stages,     \* the interior stages of the lane are 1 .. Stages
          StageLimit, \* StageLimit[r]: how many children stage r takes
          MaxTasks,   \* bound: the tasks of one Schedule
          MaxKids,    \* bound: the tasks of all of them
          Keepers,    \* bound: who may keep the entrance, the oldest children
          Failures    \* what may go wrong: "child", "proc", "drain", and
                      \* "abort", a callback's own ShutdownError at any time

Items == 1 .. NItems
Places == 0 .. Stages   \* 0 is the entrance, which takes one child

ASSUME NItemsNat == NItems \in Nat
ASSUME StagesNat == Stages \in Nat \ {0}
ASSUME LimitsPositive == StageLimit \in [1 .. Stages -> Nat \ {0}]
ASSUME TasksNat == MaxTasks \in Nat /\ MaxKids \in Nat /\ Keepers \in Nat

VARIABLES
    item,      \* item[p]: the item p and the task group of its body
    queued,    \* queued[p]: how many tasks of p the lane has in its queue
    child,     \* the children, in the order of their creation
    submitted, \* bound: tasks scheduled so far
    stopping   \* shutdown has begun

vars == <<item, queued, child, submitted, stopping>>

\* Why a context is canceled: by a task of the body, by the item's own error,
\* by the conveyor; the first cause stays.
Causes == {"no", "task", "self", "conveyor"}
Outcomes == {"ok", "fail", "abort"}
Errors == {"none", "task", "abort"}

ItemRecords ==
    [body : {"none", "open", "left", "sealed"}, \* left: closed by a leave
     published : BOOLEAN,            \* the door to the fan-out is open
     canceled : Causes,              \* the item's own context
     dead : Causes,                  \* the body's context
     err : Errors, joined : BOOLEAN, \* of the task group
     returned : BOOLEAN, finished : BOOLEAN,
     proc : Outcomes, failed : BOOLEAN]

ChildRecords ==
    [of : Items, at : Places,
     hold : BOOLEAN,                          \* Retain of the entrance
     work : {"none", "running", "done"},      \* RetainFor of the entrance
     workErr : Errors, workJoined : BOOLEAN,  \* its task group
     returned : BOOLEAN, finished : BOOLEAN,
     proc : Outcomes, failed : BOOLEAN]

NewItem ==
    [body |-> "none", published |-> FALSE, canceled |-> "no", dead |-> "no",
     err |-> "none", joined |-> FALSE, returned |-> FALSE, finished |-> FALSE,
     proc |-> "ok", failed |-> FALSE]

NewChild(p) ==
    [of |-> p, at |-> 0, hold |-> FALSE, work |-> "none", workErr |-> "none",
     workJoined |-> FALSE, returned |-> FALSE, finished |-> FALSE,
     proc |-> "ok", failed |-> FALSE]

TypeOK ==
    /\ item \in [Items -> ItemRecords]
    /\ queued \in [Items -> Nat]
    /\ child \in Seq(ChildRecords)
    /\ submitted \in Nat
    /\ stopping \in BOOLEAN

State == [item |-> item, queued |-> queued, child |-> child, stopping |-> stopping]

Commit(s) ==
    /\ item' = s.item /\ queued' = s.queued
    /\ child' = s.child /\ stopping' = s.stopping

Kids(s) == {c \in DOMAIN s.child : ~s.child[c].finished}

\* idle of p's task group: nothing queued, no child alive.
Idle(s, p) == s.queued[p] = 0 /\ \A c \in Kids(s) : s.child[c].of # p

\* c has a slot of the entrance: it stands there, or keeps it by a Retain or
\* by work that still runs (releaseBelow and isRetaining).
HoldsEntrance(k) == ~k.finished /\ (k.at = 0 \/ k.hold \/ k.work = "running")

EntranceTaken(s) == \E c \in DOMAIN s.child : HoldsEntrance(s.child[c])

-----------------------------------------------------------------------------
(* Failure and cancellation *)

\* asAbort: what follows from a cancellation by the conveyor is an abort.
AsAbort(cause, e) == IF e # "none" /\ cause = "conveyor" THEN "abort" ELSE e

\* A cancellation of p's context reaches its body; a context keeps its first cause.
Canceled(it, cause) ==
    [it EXCEPT !.canceled = IF @ = "no" THEN cause ELSE @,
               !.dead = IF @ = "no" THEN cause ELSE @]

CancelLater(s, p) ==
    [s EXCEPT !.item = [q \in Items |->
        IF q > p /\ ~s.item[q].finished THEN Canceled(s.item[q], "conveyor")
        ELSE s.item[q]]]

\* itemFailed of an item, with failRoot.
ItemFailed(s, p) ==
    IF s.item[p].failed THEN s
    ELSE CancelLater([s EXCEPT !.item[p].failed = TRUE, !.stopping = TRUE], p)

\* Mutant of RecordErr: whatever came first is kept.
RecordFirst(s, p, err) ==
    LET e == AsAbort(s.item[p].canceled, err)
    IN  IF e = "none" \/ s.item[p].err # "none" THEN s
        ELSE [s EXCEPT !.item[p].err = e,
                       !.item[p].dead = IF @ = "no" /\ e = "task" THEN "task" ELSE @]

\* recordErr of p's body: the first real error wins, over an abort as well, and
\* stops the body; if p's processor is over and nobody joined, p fails with it.
RecordErr(s, p, err) ==
    LET it == s.item[p]
        e == AsAbort(it.canceled, err)
        recorded == [s EXCEPT !.item[p].err = e,
                              !.item[p].dead = IF @ = "no" /\ e = "task" THEN "task" ELSE @]
    IN  IF e = "none" \/ it.err = "task" THEN s
        ELSE IF e = "task" /\ it.returned /\ ~it.joined THEN ItemFailed(recorded, p)
        ELSE recorded

\* itemFailed of a child, once: its body fails.
ChildFailed(s, c) ==
    IF s.child[c].failed THEN s
    ELSE RecordErr([s EXCEPT !.child[c].failed = TRUE], s.child[c].of, "task")

\* settleOutcome of an item: the error of its body counts if its processor
\* brought none of its own and has not joined the body.
SettleItem(s, p) ==
    LET it == s.item[p]
        unjoined == ~it.joined /\ it.err # "none"
        err == IF it.proc # "fail" /\ unjoined THEN it.err ELSE it.proc
    IN  IF err \in {"fail", "task"} THEN ItemFailed(s, p)
        ELSE IF err = "abort" /\ s.stopping THEN CancelLater(s, p)
        ELSE s

\* The outcome of a child: its callback's failure, else the error of work it
\* has not joined, else nothing or an abort.
ChildErr(k) ==
    IF k.proc = "fail" THEN "task"
    ELSE IF ~k.workJoined /\ k.workErr # "none" THEN k.workErr
    ELSE IF k.proc = "abort" THEN "abort" ELSE "none"

\* Mutant of SettleChild: the body hears of the failure when the child is over.
SettleChildAfterwards(s, c) == s

\* settleOutcome of a child: the children behind it are not canceled by it,
\* those of its own body are when that fails.
SettleChild(s, c) == IF ChildErr(s.child[c]) = "task" THEN ChildFailed(s, c) ELSE s

-----------------------------------------------------------------------------
(* The lane's queue *)

Waiting(s) == {p \in Items : s.queued[p] > 0}
Alive(s) == {p \in Waiting(s) : s.item[p].dead = "no"}

\* Everybody of S is p's age or younger.
Oldest(p, S) == p \in S /\ \A q \in S : p <= q

\* grabNext drops what a dead body has at the head of the queue.
Dropped(s) == {p \in Waiting(s) : \A q \in Alive(s) : p < q}

DropDead(s) ==
    [s EXCEPT !.queued = [p \in Items |-> IF p \in Dropped(s) THEN 0 ELSE s.queued[p]],
              !.item = [p \in Items |->
                  IF p \in Dropped(s) /\ s.item[p].err = "none"
                  THEN [s.item[p] EXCEPT !.err = "abort"] ELSE s.item[p]]]

\* startWork: a new child at the entrance, last of the lane's line.
StartChild(s, p) ==
    [s EXCEPT !.queued[p] = @ - 1, !.child = Append(@, NewChild(p))]

\* Mutant of Pump: a dead body at the head of the queue is left there.
PumpKeepingDead(s) ==
    LET head == CHOOSE p \in Items : Oldest(p, Waiting(s))
    IN  IF EntranceTaken(s) \/ Waiting(s) = {} THEN s
        ELSE IF head \in Alive(s) THEN StartChild(s, head) ELSE s

\* pump: the entrance has one slot; the oldest living body gets it.
Pump(s) ==
    IF EntranceTaken(s) THEN s
    ELSE IF Alive(s) = {} THEN DropDead(s)
    ELSE StartChild(DropDead(s), CHOOSE p \in Items : Oldest(p, Alive(s)))

-----------------------------------------------------------------------------
(* Completion *)

\* finishItem: what remains of a child is whose it was and whether it failed.
Gone(k) ==
    [NewChild(k.of) EXCEPT !.returned = TRUE, !.finished = TRUE, !.failed = k.failed,
                           !.proc = IF ChildErr(k) = "task" THEN "fail" ELSE "ok"]

\* completeItem of a child after its join: the outcome is settled, finishItem
\* frees the entrance if the child has it, and its body is told last.
CompleteChild(s, c) ==
    LET settled == SettleChild(s, c)
        freed == Pump([settled EXCEPT !.child[c] = Gone(settled.child[c])])
    IN  RecordErr(freed, s.child[c].of, ChildErr(s.child[c]))

\* completeItem of an item after its join.
CompleteItem(s, p) == [SettleItem(s, p) EXCEPT !.item[p].finished = TRUE]

-----------------------------------------------------------------------------
(* The items *)

Init ==
    /\ item = [p \in Items |-> NewItem]
    /\ queued = [p \in Items |-> 0]
    /\ child = <<>>
    /\ submitted = 0
    /\ stopping = FALSE

Active(p) == ~item[p].returned
Able(p) == Active(p) /\ item[p].canceled = "no"

\* The item ahead of p, if there is one, has opened the door: it is inside with
\* its first batch submitted, or past the fan-out.
ItemsAhead(p) == {q \in Items : q < p /\ ~item[q].finished}
DoorOpen(p) == ItemsAhead(p) # {} => item[Max(ItemsAhead(p))].published

\* MoveTo the fan-out; its limit lets everybody in.
EnterFanOut(p) ==
    /\ Able(p) /\ item[p].body = "none"
    /\ DoorOpen(p)
    /\ item' = [item EXCEPT ![p].body = "open"]
    /\ UNCHANGED <<queued, child, submitted, stopping>>

\* addToBody: n tasks on the lane, which a join has to report.
AddToBody(p, n) ==
    /\ submitted + n <= MaxKids
    /\ submitted' = submitted + n
    /\ Commit(Pump([State EXCEPT !.queued[p] = @ + n, !.item[p].joined = FALSE,
                                 !.item[p].published = TRUE]))

\* Schedule from the processor: a body that has failed takes nothing more.
Schedule(p, n) ==
    /\ Able(p) /\ item[p].body = "open" /\ item[p].dead = "no"
    /\ AddToBody(p, n)

\* FanOut.Wait on an idle body: its outcome is joined, unless the answer is the
\* cancellation.
Join(p) ==
    /\ Active(p) /\ item[p].body = "open" /\ Idle(State, p)
    /\ item[p].canceled = "no" \/ item[p].err # "none"
    /\ item' = [item EXCEPT ![p].joined = TRUE]
    /\ UNCHANGED <<queued, child, submitted, stopping>>

\* Mutant of Leave: the queue is empty, but children travel.
LeaveWhenQueueEmpty(p) ==
    /\ Active(p) /\ item[p].body = "open" /\ queued[p] = 0
    /\ item' = [item EXCEPT ![p].body = "left", ![p].joined = TRUE]
    /\ UNCHANGED <<queued, child, submitted, stopping>>

\* closeBody: a move that leaves joins the idle body and closes it, whatever
\* becomes of the move.
Leave(p) ==
    /\ Active(p) /\ item[p].body = "open" /\ Idle(State, p)
    /\ item' = [item EXCEPT ![p].body = "left", ![p].joined = TRUE]
    /\ UNCHANGED <<queued, child, submitted, stopping>>

\* The move goes on to a node beyond, or past the fan-out from before it.
MoveOn(p) ==
    /\ Able(p) /\ item[p].body \in {"none", "left"} /\ ~item[p].published
    /\ DoorOpen(p)
    /\ item' = [item EXCEPT ![p].body = "left", ![p].published = TRUE]
    /\ UNCHANGED <<queued, child, submitted, stopping>>

\* completeItem: an error stops the item's own work, the outcome acts at once,
\* an open body is sealed and, if it is idle, the item is over.
Return(p, proc) ==
    /\ Active(p)
    /\ proc = "fail" => "proc" \in Failures
    /\ proc = "abort" => stopping \/ "abort" \in Failures
    /\ LET e == AsAbort(item[p].canceled, IF proc = "ok" THEN "none" ELSE proc)
           outcome == IF e = "none" THEN "ok" ELSE e
           cause == IF outcome = "fail" THEN "self" ELSE "conveyor"
           it == IF outcome = "ok" THEN item[p] ELSE Canceled(item[p], cause)
           over == [State EXCEPT !.item[p] =
                       [it EXCEPT !.returned = TRUE, !.proc = outcome,
                                  !.body = IF it.body = "open" THEN "sealed" ELSE it.body]]
           settled == SettleItem(over, p)
       IN  Commit(IF Idle(settled, p) THEN CompleteItem(settled, p) ELSE settled)
    /\ UNCHANGED submitted

\* The join of completeItem is over: nothing of the body is left.
Finish(p) ==
    /\ item[p].returned /\ ~item[p].finished
    /\ Idle(State, p)
    /\ Commit(CompleteItem(State, p))
    /\ UNCHANGED submitted

-----------------------------------------------------------------------------
(* The children *)

Running(c) == c \in DOMAIN child /\ ~child[c].returned
Dead(c) == item[child[c].of].dead # "no"

Ahead(c) == {d \in Kids(State) : d < c}

\* Mutant of GateOpen: the neighbour that is over leaves nobody in its place.
GateOpenOnceItIsOver(c, r) == c - 1 \in Ahead(c) => child[c - 1].at >= r

\* canEnter: the neighbour ahead in the lane, whoever's it is, has got to stage
\* r.  Nobody is asked about the children before it.
GateOpen(c, r) == Ahead(c) # {} => child[Max(Ahead(c))].at >= r

StageHasRoom(r) == Cardinality({d \in Kids(State) : child[d].at = r}) < StageLimit[r]

\* MoveTo and TryMoveTo of an interior stage; leaving the entrance pumps the lane.
Move(c, r) ==
    /\ Running(c) /\ ~Dead(c)
    /\ r > child[c].at /\ StageHasRoom(r) /\ GateOpen(c, r)
    /\ Commit(Pump([State EXCEPT !.child[c].at = r]))
    /\ UNCHANGED submitted

\* Schedule from a child, onto the body it belongs to, while its callback runs.
Spawn(c, n) ==
    /\ Running(c) /\ ~Dead(c)
    /\ AddToBody(child[c].of, n)

\* Lane.Retain, which a canceled child may call too, and the call that ends it.
Retain(c) ==
    /\ c <= Keepers
    /\ Running(c) /\ child[c].at = 0 /\ ~child[c].hold
    /\ child' = [child EXCEPT ![c].hold = TRUE]
    /\ UNCHANGED <<item, queued, submitted, stopping>>

Release(c) ==
    /\ c \in Kids(State) /\ child[c].hold
    /\ Commit(Pump([State EXCEPT !.child[c].hold = FALSE]))
    /\ UNCHANGED submitted

\* Lane.RetainFor: the entrance is kept by background work of the child.
RetainFor(c) ==
    /\ c <= Keepers
    /\ Running(c) /\ ~Dead(c)
    /\ child[c].at = 0 /\ child[c].work = "none"
    /\ child' = [child EXCEPT ![c].work = "running"]
    /\ UNCHANGED <<item, queued, submitted, stopping>>

\* runRetain: the work is over, with an error of its own perhaps or with a
\* ShutdownError, which is no failure; a failure nobody can join any more is the
\* child's at once, and the entrance is free if the child has moved on.
WorkReturns(c, err) ==
    /\ c \in DOMAIN child /\ child[c].work = "running"
    /\ err = "task" => "child" \in Failures
    /\ err = "abort" => stopping \/ "abort" \in Failures
    /\ LET k == child[c]
           e == AsAbort(item[k.of].dead, err)
           done == [State EXCEPT !.child[c] = [@ EXCEPT !.work = "done", !.workErr = e]]
       IN  Commit(Pump(IF e = "task" /\ k.returned THEN ChildFailed(done, c) ELSE done))
    /\ UNCHANGED submitted

\* TaskGroup.Wait of the child on that work.
JoinWork(c) ==
    /\ Running(c) /\ child[c].work = "done" /\ ~child[c].workJoined
    /\ ~Dead(c) \/ child[c].workErr # "none"
    /\ child' = [child EXCEPT ![c].workJoined = TRUE]
    /\ UNCHANGED <<item, queued, submitted, stopping>>

\* completeItem of a child: its outcome acts at once, and the child is over if
\* it has no work left.
ChildReturns(c, proc) ==
    /\ Running(c)
    /\ proc = "fail" => "child" \in Failures \/ Dead(c)
    /\ proc = "abort" => stopping \/ "abort" \in Failures
    /\ LET e == AsAbort(item[child[c].of].dead, IF proc = "ok" THEN "none" ELSE proc)
           outcome == IF e = "none" THEN "ok" ELSE e
           over == [State EXCEPT !.child[c] = [@ EXCEPT !.returned = TRUE, !.proc = outcome]]
           settled == SettleChild(over, c)
       IN  Commit(IF child[c].work = "running" THEN settled ELSE CompleteChild(settled, c))
    /\ UNCHANGED submitted

\* Its join is over.
ChildFinishes(c) ==
    /\ c \in Kids(State) /\ child[c].returned /\ child[c].work # "running"
    /\ Commit(CompleteChild(State, c))
    /\ UNCHANGED submitted

-----------------------------------------------------------------------------
(* The run *)

\* The Run context is canceled; the drain timeout cancels whoever is in flight.
BeginShutdown ==
    /\ "drain" \in Failures
    /\ ~stopping /\ stopping' = TRUE
    /\ UNCHANGED <<item, queued, child, submitted>>

DrainOverrun ==
    /\ "drain" \in Failures
    /\ stopping /\ \E p \in Items : ~item[p].finished
    /\ Commit(CancelLater(State, 0))
    /\ UNCHANGED submitted

Quiet ==
    /\ \A p \in Items : item[p].finished
    /\ UNCHANGED vars

Next ==
    \/ BeginShutdown \/ DrainOverrun \/ Quiet
    \/ \E p \in Items :
         \/ EnterFanOut(p) \/ Join(p) \/ Leave(p) \/ MoveOn(p) \/ Finish(p)
         \/ \E n \in 0 .. MaxTasks : Schedule(p, n)
         \/ \E proc \in Outcomes : Return(p, proc)
    \/ \E c \in DOMAIN child :
         \/ \E r \in 1 .. Stages : Move(c, r)
         \/ \E n \in 1 .. MaxTasks : Spawn(c, n)
         \/ Retain(c) \/ Release(c) \/ RetainFor(c) \/ JoinWork(c) \/ ChildFinishes(c)
         \/ \E err \in Errors : WorkReturns(c, err)
         \/ \E proc \in Outcomes : ChildReturns(c, proc)

Spec == Init /\ [][Next]_vars

-----------------------------------------------------------------------------
(* Safety *)

\* The entrance of the lane is one child's, and no queued task waits for an
\* entrance that is free.
EntranceInUse ==
    /\ \A c, d \in DOMAIN child :
          HoldsEntrance(child[c]) /\ HoldsEntrance(child[d]) => c = d
    /\ (\E p \in Items : queued[p] > 0) => EntranceTaken(State)

\* The children of a lane keep the order of their creation, whoever's they are.
ChildrenInOrder ==
    \A c, d \in Kids(State) : c < d => child[c].at >= child[d].at

\* No child outlives what it belongs to: a body that was left, and an item
\* that is over, has nothing queued and nobody on the way.
NoOrphans ==
    \A p \in Items :
        item[p].finished \/ item[p].body \in {"none", "left"} => Idle(State, p)

\* A body that has failed starts nothing any more, not even in the step in
\* which it fails: the child that fails it hands its entrance to no sibling.
FailedBodyStops ==
    [][\A c \in DOMAIN child' \ DOMAIN child : item'[child'[c].of].dead = "no"]_vars

\* No error gets lost on its way up: a child's failure is its body's, unless
\* the conveyor has canceled the item; an unjoined failure of the body, or of
\* the processor, is the item's.
NoErrorLost ==
    /\ \A c \in DOMAIN child :
          child[c].finished /\ child[c].proc = "fail" =>
              \/ item[child[c].of].err = "task"
              \/ item[child[c].of].canceled = "conveyor"
    /\ \A p \in Items :
          item[p].finished /\ (item[p].proc = "fail" \/ (item[p].err = "task" /\ ~item[p].joined))
              => item[p].failed
=============================================================================
