-------------------------------- MODULE Dials --------------------------------
(***************************************************************************)
(* The live dials (SetLimit, SetQueueSize, SetBackpressure, SetItemLimit)  *)
(* against the life of a run.  A dial belongs to the conveyor and is       *)
(* atomic; runs come and go, one at a time, each with a mutex and a        *)
(* condition variable of its own.  A call parked in a run reads the dial   *)
(* under the run's mutex and sleeps until a broadcast; a setter finds the  *)
(* run, if there is one, with a lock-free load.                            *)
(*                                                                         *)
(* Only the current run's mutex can be contended: an earlier run has       *)
(* nobody left.  A setter locks and unlocks it in one step; an admission   *)
(* reads the dial more than once under it, so it is two steps or more.     *)
(***************************************************************************)
EXTENDS Integers

CONSTANTS Setters,    \* goroutines that turn the dial
          CapSetters, \* those among them that store first, as SetItemLimit does
          Calls,      \* the calls that wait for the dial in a run
          Retesting,  \* those among them that test it again before they act on
                      \* it, as a move does with a capacity
          Values,     \* what the dial may be set to
          Admitting,  \* the values that let a call go on
          MaxRuns     \* bound: how often Run is called

ASSUME CapSettersAreSetters == CapSetters \subseteq Setters
ASSUME RetestingAreCalls == Retesting \subseteq Calls
ASSUME AdmittingValues == Admitting \subseteq Values
ASSUME MaxRunsNat == MaxRuns \in Nat

NoRun == 0
Runs == 1 .. MaxRuns

VARIABLES
    dial,       \* the atomic
    current,    \* conveyor.currentRun
    lastRun,    \* how many runs there have been
    call,       \* call[w]: "outside", "ready", "deciding" and "again" (with the
                \* mutex), "asleep", "through"
    seen,       \* seen[w]: the dial's value as w's decision first read it
    acted,      \* acted[w]: the value w's admission acted on
    step,       \* step[s]: "idle", "loaded", "reread", "waking"
    value,      \* value[s]: what s is about to store
    loaded      \* loaded[s]: the run s has loaded

runVars == <<current, lastRun>>
callVars == <<call, seen, acted>>
setterVars == <<step, value, loaded>>
vars == <<dial, runVars, callVars, setterVars>>

TypeOK ==
    /\ dial \in Values
    /\ current \in Runs \union {NoRun} /\ lastRun \in Runs \union {NoRun}
    /\ call \in [Calls -> {"outside", "ready", "deciding", "again", "asleep", "through"}]
    /\ seen \in [Calls -> Values] /\ acted \in [Calls -> Values]
    /\ step \in [Setters -> {"idle", "loaded", "reread", "waking"}]
    /\ value \in [Setters -> Values]
    /\ loaded \in [Setters -> Runs \union {NoRun}]
    \* a call is in the current run, which its end waits for
    /\ \A w \in Calls : call[w] \notin {"outside", "through"} => current # NoRun

Init ==
    /\ dial \in Values
    /\ current = NoRun /\ lastRun = NoRun
    /\ call = [w \in Calls |-> "outside"]
    /\ seen = [w \in Calls |-> dial] /\ acted = [w \in Calls |-> dial]
    /\ step = [s \in Setters |-> "idle"]
    /\ value = [s \in Setters |-> dial]
    /\ loaded = [s \in Setters |-> NoRun]

-----------------------------------------------------------------------------
(* Runs and the calls in them *)

\* The current run's mutex is free.
MutexFree == \A w \in Calls : call[w] \notin {"deciding", "again"}

\* tryRun: a second Run beside a current one is refused.
TryRun ==
    /\ current = NoRun
    /\ lastRun < MaxRuns
    /\ lastRun' = lastRun + 1
    /\ current' = lastRun + 1
    /\ call' = [w \in Calls |-> "outside"]
    /\ UNCHANGED <<dial, seen, acted, setterVars>>

\* stopRun, after the workers' join: no call is left in the run.
StopRun ==
    /\ current # NoRun
    /\ \A w \in Calls : call[w] \in {"outside", "through"}
    /\ current' = NoRun
    /\ UNCHANGED <<dial, lastRun, callVars, setterVars>>

\* An item of the run makes a call that depends on the dial.
Arrive(w) ==
    /\ current # NoRun
    /\ call[w] = "outside"
    /\ call' = [call EXCEPT ![w] = "ready"]
    /\ UNCHANGED <<dial, runVars, seen, acted, setterVars>>

\* The call has the mutex and evaluates its condition (waitUntil).
Decide(w) ==
    /\ call[w] = "again" \/ (call[w] = "ready" /\ MutexFree)
    /\ call' = [call EXCEPT ![w] = "deciding"]
    /\ seen' = [seen EXCEPT ![w] = dial]
    /\ UNCHANGED <<dial, runVars, acted, setterVars>>

\* The condition does not hold: the call parks.
Park(w) ==
    /\ call[w] = "deciding" /\ seen[w] \notin Admitting
    /\ call' = [call EXCEPT ![w] = "asleep"]
    /\ UNCHANGED <<dial, runVars, seen, acted, setterVars>>

\* It holds, and the call goes on with what it has read, or with the dial read a
\* second time and not tested (the mode of a new hold).
Proceed(w) ==
    /\ w \notin Retesting
    /\ call[w] = "deciding" /\ seen[w] \in Admitting
    /\ call' = [call EXCEPT ![w] = "through"]
    /\ \E v \in {seen[w], dial} : acted' = [acted EXCEPT ![w] = v]
    /\ UNCHANGED <<dial, runVars, seen, setterVars>>

\* enterUnit tests a capacity again: it takes the unit, or begins anew.
Retest(w) ==
    /\ w \in Retesting
    /\ call[w] = "deciding" /\ seen[w] \in Admitting
    /\ IF dial \in Admitting
       THEN call' = [call EXCEPT ![w] = "through"] /\ acted' = [acted EXCEPT ![w] = dial]
       ELSE call' = [call EXCEPT ![w] = "again"] /\ UNCHANGED acted
    /\ UNCHANGED <<dial, runVars, seen, setterVars>>

\* cond.Broadcast in the current run.
Woken == [w \in Calls |-> IF call[w] = "asleep" THEN "ready" ELSE call[w]]

-----------------------------------------------------------------------------
(* Setters *)

\* storeDial loads the current run.
Load(s, v) ==
    /\ s \notin CapSetters
    /\ step[s] = "idle"
    /\ step' = [step EXCEPT ![s] = "loaded"]
    /\ value' = [value EXCEPT ![s] = v]
    /\ loaded' = [loaded EXCEPT ![s] = current]
    /\ UNCHANGED <<dial, runVars, callVars>>

\* storeDial stores the value: under the mutex of the run it has loaded, which
\* it then wakes, or without any if it found none.
Store(s) ==
    /\ step[s] = "loaded"
    /\ dial' = value[s]
    /\ IF loaded[s] = current /\ current # NoRun
       THEN MutexFree /\ call' = Woken
       ELSE UNCHANGED call
    /\ step' = [step EXCEPT ![s] = "reread"]
    /\ UNCHANGED <<runVars, seen, acted, value, loaded>>

\* SetItemLimit stores first and then loads the run to wake.
StoreItemLimit(s, v) ==
    /\ s \in CapSetters
    /\ step[s] = "idle"
    /\ dial' = v
    /\ step' = [step EXCEPT ![s] = "reread"]
    /\ loaded' = [loaded EXCEPT ![s] = NoRun]
    /\ UNCHANGED <<runVars, callVars, value>>

\* Mutant of Reread: the run is not looked up again.
RereadNever(s) ==
    /\ step[s] = "reread"
    /\ step' = [step EXCEPT ![s] = "idle"]
    /\ UNCHANGED <<dial, runVars, callVars, value, loaded>>

\* The current run is loaded again; one that was not the run stored under has
\* to be woken too.
Reread(s) ==
    /\ step[s] = "reread"
    /\ LET missed == current \notin {NoRun, loaded[s]}
       IN  /\ step' = [step EXCEPT ![s] = IF missed THEN "waking" ELSE "idle"]
           /\ loaded' = [loaded EXCEPT ![s] = IF missed THEN current ELSE @]
    /\ UNCHANGED <<dial, runVars, callVars, value>>

\* Mutant of Wake: the broadcast is missing.
WakeNobody(s) ==
    /\ step[s] = "waking"
    /\ step' = [step EXCEPT ![s] = "idle"]
    /\ UNCHANGED <<dial, runVars, callVars, value, loaded>>

\* The broadcast under the mutex of that run, which may be over by now.
Wake(s) ==
    /\ step[s] = "waking"
    /\ IF loaded[s] = current THEN MutexFree /\ call' = Woken ELSE UNCHANGED call
    /\ step' = [step EXCEPT ![s] = "idle"]
    /\ UNCHANGED <<dial, runVars, seen, acted, value, loaded>>

Next ==
    \/ TryRun \/ StopRun
    \/ \E w \in Calls :
         Arrive(w) \/ Decide(w) \/ Park(w) \/ Proceed(w) \/ Retest(w)
    \/ \E s \in Setters :
         \/ \E v \in Values : Load(s, v) \/ StoreItemLimit(s, v)
         \/ Store(s) \/ Reread(s) \/ Wake(s)

Spec == Init /\ [][Next]_vars

-----------------------------------------------------------------------------
\* Setter s is going to wake the current run.
WillWake(s) ==
    \/ step[s] = "reread" /\ loaded[s] # current
    \/ step[s] = "waking" /\ loaded[s] = current

\* No turn of a dial gets lost, whenever runs start, end and replace each other
\* around it: a call sleeps (or is about to, on a value read before) under a dial
\* that would let it go on only while a setter is on its way to wake its run.
NoLostWakeup ==
    \A w \in Calls :
        /\ dial \in Admitting
        /\ call[w] = "asleep" \/ (call[w] = "deciding" /\ seen[w] \notin Admitting)
        => \E s \in Setters : WillWake(s)

\* What the comment of storeDial says of every dial it stores: an admission is
\* several steps (the condition, then what it does) that see one value of the
\* dial.  A setter that has found no run, or an earlier one, stores without the
\* mutex of the run that has started since, between two of its steps.
AdmissionSeesOneValue == \A w \in Calls : call[w] = "through" => acted[w] = seen[w]

\* Goroutines go on, and a run's mutex starves nobody.
Fairness ==
    /\ \A w \in Calls :
          SF_vars(Decide(w)) /\ WF_vars(Park(w) \/ Proceed(w) \/ Retest(w))
    /\ \A s \in Setters : SF_vars(Store(s)) /\ WF_vars(Reread(s)) /\ SF_vars(Wake(s))

FairSpec == Spec /\ Fairness

\* Once the dial is set for good to a value that admits, no call sleeps for ever.
SettledDialAdmits ==
    <>[](dial \in Admitting) =>
        \A w \in Calls : [](call[w] = "asleep" => <>(call[w] # "asleep"))
=============================================================================
