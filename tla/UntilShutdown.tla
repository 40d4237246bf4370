---------------------------- MODULE UntilShutdown ----------------------------
(***************************************************************************)
(* The contexts made by UntilShutdown and the moment a shutdown begins.    *)
(* markShutdownLocked takes several steps under the run's mutex: the error *)
(* is set, its lock-free mirror shutdownBegun is stored, the context that  *)
(* every watch hangs on is canceled, the mutex is freed.  UntilShutdown    *)
(* looks at the mirror without the mutex when it is called with a context  *)
(* it has made itself, and takes the mutex otherwise.  Watches run in      *)
(* goroutines of their own, so a context may close later than it should.   *)
(*                                                                         *)
(* A context is named by its item and by what it was derived from: "own",  *)
(* the item's one context made from the item's context, or "other".  The   *)
(* context package cancels a context and everything below it in one step.  *)
(***************************************************************************)
EXTENDS Integers

CONSTANTS Items,
          Callers    \* goroutines of items, each with one call at a time

Contexts == Items \X {"own", "other"}

VARIABLES
    marking,      \* markShutdownLocked: "idle", "set", "stored", "canceled", "over"
    shutdownErr,  \* set, under the mutex
    begun,        \* the atomic shutdownBegun
    shutdownCtx,  \* "live", "shutdown", or "returned": canceled by Run's return
    itemCtx,      \* itemCtx[i]: "live", "canceled"
    ctx,          \* ctx[c]: "none", "live", "done"
    watch,        \* watch[c], on shutdownCtx: "none", "armed", "fired", "over"
    stop,         \* stop[c], on c itself, ends its watch: likewise
    call,         \* call[k]: "none", "fast", "slow", "done"
    arg,          \* arg[k]: the context the call is about
    late,         \* late[k]: shutdown could be known when the call began
    result        \* result[k]: what the call returned was "live" or "done"

markVars == <<marking, shutdownErr, begun, shutdownCtx>>
ctxVars == <<itemCtx, ctx, watch, stop>>
callVars == <<call, arg, late, result>>
vars == <<markVars, ctxVars, callVars>>

TypeOK ==
    /\ marking \in {"idle", "set", "stored", "canceled", "over"}
    /\ shutdownErr \in BOOLEAN /\ begun \in BOOLEAN
    /\ shutdownCtx \in {"live", "shutdown", "returned"}
    /\ itemCtx \in [Items -> {"live", "canceled"}]
    /\ ctx \in [Contexts -> {"none", "live", "done"}]
    /\ watch \in [Contexts -> {"none", "armed", "fired", "over"}]
    /\ stop \in [Contexts -> {"none", "armed", "fired", "over"}]
    /\ call \in [Callers -> {"none", "fast", "slow", "done"}]
    /\ arg \in [Callers -> Contexts] /\ late \in [Callers -> BOOLEAN]
    /\ result \in [Callers -> {"live", "done"}]
    \* a context has a watch or was born done, and a fired watch means shutdown
    /\ \A c \in Contexts : ctx[c] = "live" => watch[c] \in {"armed", "fired"}
    /\ \A c \in Contexts : watch[c] = "fired" => shutdownCtx # "live"

Init ==
    /\ marking = "idle" /\ shutdownErr = FALSE /\ begun = FALSE
    /\ shutdownCtx = "live"
    /\ itemCtx = [i \in Items |-> "live"]
    /\ ctx = [c \in Contexts |-> "none"]
    /\ watch = [c \in Contexts |-> "none"] /\ stop = [c \in Contexts |-> "none"]
    /\ call = [k \in Callers |-> "none"]
    /\ arg \in [Callers -> Contexts]
    /\ late = [k \in Callers |-> FALSE] /\ result = [k \in Callers |-> "live"]

-----------------------------------------------------------------------------
(* Canceling *)

MutexFree == marking \in {"idle", "over"}

\* What is registered on a context is started when the context is done.
Fire(hook, cs) == [c \in Contexts |-> IF c \in cs /\ hook[c] = "armed" THEN "fired" ELSE hook[c]]

\* The contexts cs are canceled, if they are not yet.
Cancel(cs) ==
    LET live == {c \in cs : ctx[c] = "live"}
    IN  /\ ctx' = [c \in Contexts |-> IF c \in live THEN "done" ELSE ctx[c]]
        /\ stop' = Fire(stop, live)

-----------------------------------------------------------------------------
(* The shutdown begins *)

SetError ==
    /\ marking = "idle" /\ shutdownCtx = "live"
    /\ marking' = "set" /\ shutdownErr' = TRUE
    /\ UNCHANGED <<begun, shutdownCtx, ctxVars, callVars>>

StoreBegun ==
    /\ marking = "set"
    /\ marking' = "stored" /\ begun' = TRUE
    /\ UNCHANGED <<shutdownErr, shutdownCtx, ctxVars, callVars>>

\* Mutant of CancelShutdown: the context is canceled before the mirror is stored.
CancelBeforeStore ==
    /\ marking = "stored" \/ (marking = "set" /\ shutdownCtx = "live")
    /\ marking' = IF marking = "set" THEN "set" ELSE "canceled"
    /\ shutdownCtx' = "shutdown"
    /\ watch' = Fire(watch, Contexts)
    /\ UNCHANGED <<shutdownErr, begun, itemCtx, ctx, stop, callVars>>

CancelShutdown ==
    /\ marking = "stored"
    /\ marking' = "canceled" /\ shutdownCtx' = "shutdown"
    /\ watch' = Fire(watch, Contexts)
    /\ UNCHANGED <<shutdownErr, begun, itemCtx, ctx, stop, callVars>>

Unlock ==
    /\ marking = "canceled"
    /\ marking' = "over"
    /\ UNCHANGED <<shutdownErr, begun, shutdownCtx, ctxVars, callVars>>

\* The watch of c runs and cancels c.
WatchRuns(c) ==
    /\ watch[c] = "fired"
    /\ watch' = [watch EXCEPT ![c] = "over"]
    /\ Cancel({c})
    /\ UNCHANGED <<markVars, itemCtx, callVars>>

\* Mutant of StopRuns: the watch is left on shutdownCtx.
StopForgotten(c) ==
    /\ stop[c] = "fired"
    /\ stop' = [stop EXCEPT ![c] = "over"]
    /\ UNCHANGED <<markVars, itemCtx, ctx, watch, callVars>>

\* c is done: its watch is taken off shutdownCtx, unless it has fired.
StopRuns(c) ==
    /\ stop[c] = "fired"
    /\ stop' = [stop EXCEPT ![c] = "over"]
    /\ watch' = [watch EXCEPT ![c] = IF @ = "armed" THEN "over" ELSE @]
    /\ UNCHANGED <<markVars, itemCtx, ctx, callVars>>

\* The item's context is canceled, by a cascade or because the item is over.
ItemCanceled(i) ==
    /\ itemCtx[i] = "live"
    /\ itemCtx' = [itemCtx EXCEPT ![i] = "canceled"]
    /\ Cancel({c \in Contexts : c[1] = i})
    /\ UNCHANGED <<markVars, watch, callVars>>

\* Run returns, when every item is over.
RunReturns ==
    /\ \A i \in Items : itemCtx[i] = "canceled"
    /\ marking \in {"idle", "over"} /\ shutdownCtx # "returned"
    /\ shutdownCtx' = "returned"
    /\ watch' = Fire(watch, Contexts)
    /\ UNCHANGED <<marking, shutdownErr, begun, itemCtx, ctx, stop, callVars>>

-----------------------------------------------------------------------------
(* Calls of UntilShutdown *)

\* Anybody may know that the shutdown has begun: the mutex has been freed since,
\* or some context of the run is done because of it.
Known ==
    \/ marking = "over"
    \/ \E c \in Contexts : ctx[c] = "done" /\ itemCtx[c[1]] = "live"

\* The call begins: with a context UntilShutdown has made, with any other.
Begin(k, c, path) ==
    /\ call[k] \in {"none", "done"}
    /\ itemCtx[c[1]] = "live"
    /\ path = "fast" => ctx[c] # "none"
    /\ path = "slow" /\ c[2] = "other" => ctx[c] = "none"   \* bound: one of these
    /\ call' = [call EXCEPT ![k] = path]
    /\ arg' = [arg EXCEPT ![k] = c]
    /\ late' = [late EXCEPT ![k] = Known]
    /\ UNCHANGED <<markVars, ctxVars, result>>

Return(k, r) ==
    /\ call' = [call EXCEPT ![k] = "done"]
    /\ result' = [result EXCEPT ![k] = r]
    /\ UNCHANGED <<markVars, itemCtx, arg, late>>

\* The lock-free path: the context itself is returned if no shutdown has begun
\* or if it is done; otherwise a new one is made, and born done.
FastPath(k) ==
    /\ call[k] = "fast"
    /\ \/ ~begun \/ ctx[arg[k]] = "done"
       \/ MutexFree
    /\ Return(k, IF ~begun THEN ctx[arg[k]] ELSE "done")
    /\ UNCHANGED <<ctx, watch, stop>>

\* Mutant of NewContext: not closed at birth, though it gets no watch.
NewContextUnclosed(c) ==
    LET born == IF itemCtx[c[1]] = "canceled" THEN "done" ELSE "live"
    IN  /\ ctx' = [ctx EXCEPT ![c] = born]
        /\ watch' = [watch EXCEPT ![c] =
                        IF shutdownErr THEN "over"
                        ELSE IF shutdownCtx = "live" THEN "armed" ELSE "fired"]
        /\ stop' = [stop EXCEPT ![c] = IF born = "done" THEN "fired" ELSE "armed"]

\* newUntilShutdown, under the mutex: born done after the shutdown has begun,
\* watched otherwise (by a watch that fires at once when Run has returned).
NewContext(c) ==
    LET born == IF shutdownErr \/ itemCtx[c[1]] = "canceled" THEN "done" ELSE "live"
    IN  /\ ctx' = [ctx EXCEPT ![c] = born]
        /\ watch' = [watch EXCEPT ![c] =
                        IF shutdownErr THEN "over"
                        ELSE IF shutdownCtx = "live" THEN "armed" ELSE "fired"]
        /\ stop' = [stop EXCEPT ![c] =
                        IF shutdownErr THEN "over"
                        ELSE IF born = "done" THEN "fired" ELSE "armed"]

\* The path under the mutex: the item's own context is made once, and closed by
\* the call if the shutdown has begun and its watch has not run.
SlowPath(k) ==
    LET c == arg[k]
    IN  /\ call[k] = "slow"
        /\ MutexFree
        /\ IF ctx[c] = "none" THEN NewContext(c)
           ELSE /\ IF shutdownErr THEN Cancel({c}) ELSE UNCHANGED <<ctx, stop>>
                /\ UNCHANGED watch
        /\ Return(k, ctx'[c])

Next ==
    \/ SetError \/ StoreBegun \/ CancelShutdown \/ Unlock \/ RunReturns
    \/ \E c \in Contexts : WatchRuns(c) \/ StopRuns(c)
    \/ \E i \in Items : ItemCanceled(i)
    \/ \E k \in Callers :
         \/ FastPath(k) \/ SlowPath(k)
         \/ \E c \in Contexts, path \in {"fast", "slow"} : Begin(k, c, path)

Spec == Init /\ [][Next]_vars

-----------------------------------------------------------------------------
\* "If shutdown has already begun, the context is born done": whoever could know
\* of the shutdown, from the run or from a context another goroutine has seen
\* close, never gets a context that is not done, though the fast path takes no
\* lock and the watches lag behind.
BornDone == \A k \in Callers : call[k] = "done" /\ late[k] => result[k] = "done"

\* Items and their contexts go, watches are freed: no watch stays on the run's
\* shutdownCtx for a context that is done, but for the moment until it is stopped.
NoWatchLeaks ==
    \A c \in Contexts : ctx[c] = "done" /\ watch[c] = "armed" => stop[c] = "fired"

Fairness ==
    /\ WF_vars(StoreBegun) /\ WF_vars(CancelShutdown) /\ WF_vars(Unlock)
    /\ \A c \in Contexts : WF_vars(WatchRuns(c)) /\ WF_vars(StopRuns(c))

FairSpec == Spec /\ Fairness

\* Every context closes soon after the shutdown has begun, also one made meanwhile.
EveryContextCloses ==
    \A c \in Contexts : (shutdownErr /\ ctx[c] = "live") ~> (ctx[c] = "done")
=============================================================================
