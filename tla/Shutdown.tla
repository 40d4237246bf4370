------------------------------ MODULE Shutdown ------------------------------
(***************************************************************************)
(* How a run ends: the failure or the abort of an item, the cancellation   *)
(* of the Run context, the watcher goroutine that bounds the drain, and    *)
(* the result Run returns.  Every handler runs under the run's mutex; the  *)
(* watcher selects outside of it and takes it in a later step, so an item  *)
(* may fail, or the run drain, in between.                                 *)
(*                                                                         *)
(* An item walks through NSteps nodes in order (Series says why it may); it *)
(* may leave one piece of background work behind that it never joins.      *)
(***************************************************************************)
EXTENDS Integers, Sequences, FiniteSets, FiniteSetsExt

CONSTANTS NItems,      \* bound: how many items are ever created
          NSteps,      \* the nodes behind the start stage
          DrainFuncs,  \* the drain function: "none", "declines", "bounds"
          Outcomes     \* what a processor or its work may return: "ok", "fail",
                       \* "abort", "foreign" (a ShutdownError of this run, of another)

ASSUME NItemsNat == NItems \in Nat
ASSUME NStepsNat == NSteps \in Nat
ASSUME KnownOutcomes == Outcomes \subseteq {"ok", "fail", "abort", "foreign"}

Items == 1 .. NItems

\* What is recorded as a trigger or a problem of the drain: an item, or these.
Nothing == 0
RunCtx == NItems + 1
DrainTimeout == NItems + 2
Events == 0 .. NItems + 2

VARIABLES
    \* the items
    created, inFlight,
    pos,         \* pos[i]: how many nodes i has entered
    work,        \* work[i]: its unjoined work: "none", "live", or how it ended
    outcome,     \* outcome[i]: what its processor returned, "running" before
    canceled,    \* items whose context has a ShutdownError as its cause
    reported,    \* items whose failure has been reported
    \* the run
    trigger,     \* why the shutdown began; with it the run stops creating
    drainErr,    \* the first problem of the drain
    runCtx,      \* the Run context: "live", "canceled"
    drainFunc,   \* the configured drain function
    drainCtx,    \* the context it gave: "none", "live", "done"
    asked,       \* how often it was asked
    watcher,     \* "select", "marking", "asking", "bounding", "overrun", "done"
    phase,       \* of Run: "working", "drained", "returned"
    log          \* history: the events of the run that count, in order

itemVars == <<created, inFlight, pos, work, outcome>>
shutVars == <<canceled, reported, trigger, drainErr, log>>
watchVars == <<drainFunc, drainCtx, asked, watcher>>
vars == <<itemVars, shutVars, watchVars, runCtx, phase>>

TypeOK ==
    /\ created \in 0 .. NItems /\ inFlight \subseteq 1 .. created
    /\ pos \in [Items -> 0 .. NSteps]
    /\ work \in [Items -> {"none", "live", "fail", "abort", "foreign"}]
    /\ outcome \in [Items -> {"running", "ok", "fail", "abort", "foreign"}]
    /\ canceled \subseteq 1 .. created /\ reported \subseteq 1 .. created
    /\ trigger \in Events /\ drainErr \in Events
    /\ runCtx \in {"live", "canceled"} /\ drainFunc \in DrainFuncs
    /\ drainCtx \in {"none", "live", "done"} /\ asked \in 0 .. 1
    /\ watcher \in {"select", "marking", "asking", "bounding", "overrun", "done"}
    /\ phase \in {"working", "drained", "returned"}

Init ==
    /\ created = 0 /\ inFlight = {}
    /\ pos = [i \in Items |-> 0]
    /\ work = [i \in Items |-> "none"]
    /\ outcome = [i \in Items |-> "running"]
    /\ canceled = {} /\ reported = {}
    /\ trigger = Nothing /\ drainErr = Nothing /\ log = <<>>
    /\ runCtx = "live"
    /\ drainFunc \in DrainFuncs /\ drainCtx = "none" /\ asked = 0
    /\ watcher = "select" /\ phase = "working"

-----------------------------------------------------------------------------
(* The items *)

Younger(i) == {j \in inFlight : j > i}
Running(i) == i \in inFlight /\ outcome[i] = "running"

\* A new item, once the one before has left the start stage.
Create ==
    /\ phase = "working" /\ trigger = Nothing
    /\ created < NItems
    /\ \A j \in inFlight : pos[j] > 0
    /\ created' = created + 1
    /\ inFlight' = inFlight \union {created + 1}
    /\ UNCHANGED <<pos, work, outcome, shutVars, watchVars, runCtx, phase>>

\* canEnter: the next older item in flight has been there; nobody else is asked.
Ahead(i) == {j \in inFlight : j < i}
GateOpen(i) == Ahead(i) # {} => pos[Max(Ahead(i))] > pos[i]

\* A node admits the item.
MoveTo(i) ==
    /\ Running(i) /\ i \notin canceled
    /\ pos[i] < NSteps /\ GateOpen(i)
    /\ pos' = [pos EXCEPT ![i] = @ + 1]
    /\ UNCHANGED <<created, inFlight, work, outcome, shutVars, watchVars, runCtx, phase>>

\* The item starts background work that it will not join.
StartWork(i) ==
    /\ Running(i) /\ i \notin canceled
    /\ work[i] = "none"
    /\ work' = [work EXCEPT ![i] = "live"]
    /\ UNCHANGED <<created, inFlight, pos, outcome, shutVars, watchVars, runCtx, phase>>

-----------------------------------------------------------------------------
(* Outcomes *)

\* Mutant of Cascade: everybody in flight is canceled.
CascadeToAll(i) == canceled \union inFlight

\* cancelLater.
Cascade(i) == canceled \union Younger(i)

\* itemFailed, failRoot and markShutdownLocked: the first failure of the run
\* begins the shutdown, the first after that is the problem of the drain.
ItemFailed(i) ==
    IF i \in reported THEN UNCHANGED shutVars
    ELSE /\ reported' = reported \union {i}
         /\ drainErr' = IF trigger # Nothing /\ drainErr = Nothing THEN i ELSE drainErr
         /\ trigger' = IF trigger = Nothing THEN i ELSE trigger
         /\ canceled' = Cascade(i)
         /\ log' = Append(log, i)

\* A ShutdownError, whichever run's.
Aborts == {"abort", "foreign"}

\* Mutant of SettleOutcome: the work nobody joined is not asked.
SettleProcessorOnly(i, out, self) ==
    IF out = "fail" THEN ItemFailed(i)
    ELSE /\ canceled' = IF out \in Aborts /\ trigger # Nothing
                        THEN Cascade(i) \union self ELSE canceled \union self
         /\ UNCHANGED <<reported, trigger, drainErr, log>>

\* settleOutcome: the processor's failure, else the error of unjoined work, else
\* an abort, which cascades once shutdown has begun; self: the item's own
\* context is canceled with the abort it returned.
SettleOutcome(i, out, self) ==
    IF "fail" \in {out, work[i]} THEN ItemFailed(i)
    ELSE /\ canceled' = IF {out, work[i]} \cap Aborts # {} /\ trigger # Nothing
                        THEN Cascade(i) \union self ELSE canceled \union self
         /\ UNCHANGED <<reported, trigger, drainErr, log>>

\* asAbort: a failure of a canceled item is what canceled it, the conveyor or the
\* foreign error its processor has returned.
AsAbort(i, err) ==
    IF err = "fail" /\ i \in canceled
    THEN IF outcome[i] = "foreign" THEN "foreign" ELSE "abort" ELSE err

\* completeItem up to its join.  A processor may return the abort of its
\* UntilShutdown context, or the ShutdownError of a run of some other conveyor.
Return(i, out) ==
    /\ Running(i)
    /\ out = "abort" => i \in canceled \/ trigger # Nothing
    /\ LET effective == AsAbort(i, out)
       IN  /\ outcome' = [outcome EXCEPT ![i] = effective]
           /\ SettleOutcome(i, effective, IF effective \in Aborts THEN {i} ELSE {})
    /\ UNCHANGED <<created, inFlight, pos, work, watchVars, runCtx, phase>>

\* recordErr: the background work ends.  Once the processor has returned, its
\* failure fails the item at once; a ShutdownError of its own is only recorded.
WorkEnds(i, end) ==
    /\ i \in inFlight /\ work[i] = "live"
    /\ end = "abort" => trigger # Nothing
    /\ LET effective == AsAbort(i, end)
       IN  /\ work' = [work EXCEPT ![i] = IF effective = "ok" THEN "none" ELSE effective]
           /\ IF effective = "fail" /\ outcome[i] # "running"
              THEN ItemFailed(i) ELSE UNCHANGED shutVars
    /\ UNCHANGED <<created, inFlight, pos, outcome, watchVars, runCtx, phase>>

\* Mutant of Finish: an abort found only by the join is not acted on.
FinishUnsettled(i) ==
    /\ i \in inFlight /\ outcome[i] # "running" /\ work[i] # "live"
    /\ inFlight' = inFlight \ {i}
    /\ UNCHANGED <<created, pos, work, outcome, shutVars, watchVars, runCtx, phase>>

\* completeItem after its join: the outcome is settled again, and the item goes.
Finish(i) ==
    /\ i \in inFlight /\ outcome[i] # "running" /\ work[i] # "live"
    /\ SettleOutcome(i, outcome[i], {})
    /\ inFlight' = inFlight \ {i}
    /\ UNCHANGED <<created, pos, work, outcome, watchVars, runCtx, phase>>

-----------------------------------------------------------------------------
(* The watcher and Run *)

CancelRunCtx ==
    /\ runCtx = "live" /\ phase # "returned"
    /\ runCtx' = "canceled"
    /\ UNCHANGED <<itemVars, shutVars, watchVars, phase>>

Go(at) ==
    /\ watcher' = at
    /\ UNCHANGED <<itemVars, drainFunc, runCtx, phase>>

\* The first select of watchShutdown, of what is ready any.
Select ==
    /\ watcher = "select"
    /\ \/ phase # "working" /\ Go(IF trigger = Nothing THEN "done" ELSE "asking")
       \/ runCtx = "canceled" /\ Go("marking")
       \/ trigger # Nothing /\ Go("asking")
    /\ UNCHANGED <<shutVars, drainCtx, asked>>

\* beginShutdown with the cause of the Run context.
Mark ==
    /\ watcher = "marking"
    /\ trigger' = IF trigger = Nothing THEN RunCtx ELSE trigger
    /\ log' = IF trigger = Nothing THEN Append(log, RunCtx) ELSE log
    /\ Go("asking")
    /\ UNCHANGED <<canceled, reported, drainErr, drainCtx, asked>>

\* The drain function is asked; what it gives may be done already.
Ask ==
    /\ watcher = "asking"
    /\ asked' = IF drainFunc = "none" THEN asked ELSE asked + 1
    /\ IF drainFunc = "bounds"
       THEN drainCtx' \in {"live", "done"} /\ Go("bounding")
       ELSE UNCHANGED drainCtx /\ Go("done")
    /\ UNCHANGED shutVars

DrainExpires ==
    /\ drainCtx = "live" /\ phase # "returned"
    /\ drainCtx' = "done"
    /\ UNCHANGED <<itemVars, shutVars, drainFunc, asked, watcher, runCtx, phase>>

\* Mutant of Bound: the drain context alone is waited for.
BoundUnstoppable ==
    /\ watcher = "bounding"
    /\ drainCtx = "done" /\ Go("overrun")
    /\ UNCHANGED <<shutVars, drainCtx, asked>>

\* The second select.
Bound ==
    /\ watcher = "bounding"
    /\ \/ drainCtx = "done" /\ Go("overrun")
       \/ phase # "working" /\ Go("done")
    /\ UNCHANGED <<shutVars, drainCtx, asked>>

\* Mutants of Overrun: the overrun is only recorded; nobody looks whether anything is in flight.
OverrunRecorded ==
    /\ watcher = "overrun"
    /\ drainErr' = IF drainErr = Nothing /\ inFlight # {} THEN DrainTimeout ELSE drainErr
    /\ log' = IF inFlight # {} THEN Append(log, DrainTimeout) ELSE log
    /\ Go("done")
    /\ UNCHANGED <<canceled, reported, trigger, drainCtx, asked>>
OverrunUnchecked ==
    /\ watcher = "overrun"
    /\ drainErr' = IF drainErr = Nothing THEN DrainTimeout ELSE drainErr
    /\ canceled' = canceled \union inFlight
    /\ log' = IF inFlight # {} THEN Append(log, DrainTimeout) ELSE log
    /\ Go("done")
    /\ UNCHANGED <<reported, trigger, drainCtx, asked>>

\* Under the mutex: if anything is in flight still, the items have outlived the
\* drain and are canceled.
Overrun ==
    /\ watcher = "overrun"
    /\ IF inFlight = {} THEN UNCHANGED <<drainErr, canceled, log>>
       ELSE /\ drainErr' = IF drainErr = Nothing THEN DrainTimeout ELSE drainErr
            /\ canceled' = canceled \union inFlight
            /\ log' = Append(log, DrainTimeout)
    /\ Go("done")
    /\ UNCHANGED <<reported, trigger, drainCtx, asked>>

\* workers.Wait returns (see WorkerPool), and stopWatch is closed.
Drained ==
    /\ phase = "working"
    /\ trigger # Nothing /\ inFlight = {}
    /\ phase' = "drained"
    /\ UNCHANGED <<itemVars, shutVars, watchVars, runCtx>>

\* Run has joined the watcher and returns result.
RunReturns ==
    /\ phase = "drained" /\ watcher = "done"
    /\ phase' = "returned"
    /\ UNCHANGED <<itemVars, shutVars, watchVars, runCtx>>

Next ==
    \/ Create \/ CancelRunCtx \/ Select \/ Mark \/ Ask \/ DrainExpires \/ Bound
    \/ Overrun \/ Drained \/ RunReturns
    \/ \E i \in Items :
         \/ MoveTo(i) \/ StartWork(i) \/ Finish(i)
         \/ \E out \in Outcomes : Return(i, out) \/ WorkEnds(i, out)

Spec == Init /\ [][Next]_vars

-----------------------------------------------------------------------------
(* Safety *)

Returned(i) == i <= created /\ outcome[i] # "running"

\* The item failed or was aborted, by its own hand or by work it left behind.
StoppedHere(i) == Returned(i) /\ {outcome[i], work[i]} \cap {"fail", "abort"} # {}

\* The same with the ShutdownErrors of other runs, which the docs count as aborts.
Stopped(i) == StoppedHere(i) \/ (Returned(i) /\ "foreign" \in {outcome[i], work[i]})

\* No younger item ever gets past one that failed or was aborted: not while the
\* failed item joins its work, not after it has left the line, and not when the
\* abort comes to light only at the end of that join.
NobodyGetsPast ==
    \A i, j \in 1 .. created : i < j /\ Stopped(i) => pos[j] <= pos[i]

\* The drain is graceful: before its timeout only items behind a stopped one
\* are canceled (and a stopped item's own context).
OlderLeftAlone ==
    DrainTimeout \notin {log[k] : k \in DOMAIN log} =>
        \A i \in canceled : \E j \in 1 .. i : Stopped(j)

\* What Run reports is what happened: the first event of the run began the
\* shutdown, and the first of those after it is the problem of the drain,
\* whatever the watcher and the items saw in whatever order.
ResultTellsEvents ==
    phase = "returned" =>
        /\ log # <<>> /\ trigger = log[1]
        /\ drainErr = IF Len(log) > 1 THEN log[2] ELSE Nothing

\* A failure is never swallowed: at the end every failed item has been reported.
FailuresReported ==
    phase = "returned" =>
        \A i \in 1 .. created : "fail" \in {outcome[i], work[i]} => i \in reported

-----------------------------------------------------------------------------
(* Liveness *)

\* Only the watcher is fair: processors and work may hang.
WatcherFairness ==
    /\ WF_vars(Select) /\ WF_vars(Mark) /\ WF_vars(Ask) /\ WF_vars(Bound)
    /\ WF_vars(Overrun)

FairSpec == Spec /\ WatcherFairness

\* Processors return (their contract), and the work they leave behind ends.
ItemFairness ==
    /\ \A i \in Items : WF_vars(Return(i, "ok")) /\ WF_vars(WorkEnds(i, "ok"))
                        /\ WF_vars(Finish(i))
    /\ WF_vars(Drained) /\ WF_vars(RunReturns)

\* The drain is bounded: once the drain context is done, whoever is left in
\* flight is canceled, though no processor ever moves.
DrainIsBounded == (drainCtx = "done") ~> (inFlight \subseteq canceled)

\* Once the shutdown has begun Run returns, provided the items do: the watcher
\* does not wait for a drain context that outlives the items, nor Run for a
\* watcher that waits.
RunEnds == ItemFairness => ((trigger # Nothing) ~> (phase = "returned"))
=============================================================================
