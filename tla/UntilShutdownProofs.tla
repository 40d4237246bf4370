------------------------- MODULE UntilShutdownProofs -------------------------
(***************************************************************************)
(* Theorems about UntilShutdown, for any number of items and callers.      *)
(***************************************************************************)
EXTENDS UntilShutdown, TLAPS

\* What the lock-free path rests on: the mirror is stored before anything by
\* which others could learn of the shutdown.
MirrorFirst ==
    /\ begun => shutdownErr
    /\ marking # "idle" <=> shutdownErr
    /\ marking \in {"stored", "canceled", "over"} => begun
    /\ shutdownCtx = "shutdown" => begun
    /\ shutdownCtx = "returned" => \A i \in Items : itemCtx[i] = "canceled"

\* Why a context may be done while its item is not.
DoneMeansShutdown ==
    \A c \in Contexts : itemCtx[c[1]] = "live" =>
        /\ ctx[c] = "done" => begun
        /\ watch[c] = "fired" => begun

\* A context and what is registered on it.
Hooked ==
    \A c \in Contexts :
        /\ ctx[c] = "live" => stop[c] = "armed"
        /\ ctx[c] = "none" => stop[c] = "none" /\ watch[c] = "none"
        /\ stop[c] = "fired" => ctx[c] = "done"

LateCallers ==
    \A k \in Callers :
        /\ late[k] => begun
        /\ call[k] = "fast" => ctx[arg[k]] # "none"

Inv == TypeOK /\ MirrorFirst /\ DoneMeansShutdown /\ Hooked /\ LateCallers /\ BornDone /\ NoWatchLeaks

LEMMA InvInit == Init => Inv
<1> SUFFICES ASSUME Init PROVE Inv
  OBVIOUS
<1>1. TypeOK
  BY DEF Init, TypeOK
<1>2. MirrorFirst /\ DoneMeansShutdown /\ Hooked /\ LateCallers /\ BornDone /\ NoWatchLeaks
  BY DEF Init, MirrorFirst, DoneMeansShutdown, Hooked, LateCallers, BornDone, NoWatchLeaks
<1> QED BY <1>1, <1>2 DEF Inv

LEMMA InvNext == Inv /\ [Next]_vars => Inv'
<1> SUFFICES ASSUME Inv, [Next]_vars PROVE Inv'
  OBVIOUS
<1> USE DEF Inv, TypeOK, MirrorFirst, DoneMeansShutdown, Hooked, LateCallers, BornDone,
            NoWatchLeaks, Fire, Cancel, MutexFree
<1>1. CASE UNCHANGED vars
  BY <1>1 DEF vars, markVars, ctxVars, callVars
<1>2. CASE SetError
  BY <1>2 DEF SetError, ctxVars, callVars
<1>3. CASE StoreBegun
  BY <1>3 DEF StoreBegun, ctxVars, callVars
<1>4. CASE CancelShutdown
  BY <1>4 DEF CancelShutdown, callVars
<1>5. CASE Unlock
  BY <1>5 DEF Unlock, ctxVars, callVars
<1>6. CASE RunReturns
  BY <1>6 DEF RunReturns, callVars, Contexts
<1>7. ASSUME NEW c \in Contexts, WatchRuns(c) PROVE Inv'
  BY <1>7 DEF WatchRuns, markVars, callVars
<1>8. ASSUME NEW c \in Contexts, StopRuns(c) PROVE Inv'
  BY <1>8 DEF StopRuns, markVars, callVars
<1>9. ASSUME NEW i \in Items, ItemCanceled(i) PROVE Inv'
  BY <1>9 DEF ItemCanceled, markVars, callVars, Contexts
<1>10. ASSUME NEW k \in Callers, FastPath(k) PROVE Inv'
  BY <1>10 DEF FastPath, Return, markVars
<1>11. ASSUME NEW k \in Callers, SlowPath(k) PROVE Inv'
  <2> DEFINE c == arg[k]
  <2>1. c \in Contexts /\ call[k] = "slow" /\ marking \in {"idle", "over"}
    BY <1>11 DEF SlowPath
  <2>2. /\ call' = [call EXCEPT ![k] = "done"]
        /\ result' = [result EXCEPT ![k] = ctx'[c]]
        /\ UNCHANGED <<marking, shutdownErr, begun, shutdownCtx, itemCtx, arg, late>>
    BY <1>11 DEF SlowPath, Return, markVars
  <2>6. shutdownErr => begun
    BY <2>1
  <2> HIDE DEF c
  <2>3. CASE ctx[c] = "none"
    <3>1. NewContext(c)
      BY <1>11, <2>3 DEF SlowPath, c
    <3>2. ctx'[c] # "none" /\ (shutdownErr => ctx'[c] = "done")
      BY <2>1, <3>1 DEF NewContext
    <3>3. TypeOK'
      BY <2>1, <2>2, <2>3, <3>1, <3>2 DEF NewContext, c
    <3>4. MirrorFirst' /\ DoneMeansShutdown'
      <4>1. MirrorFirst'
        BY <2>2
      <4>2. ASSUME NEW d \in Contexts, itemCtx'[d[1]] = "live"
            PROVE  (ctx'[d] = "done" => begun') /\ (watch'[d] = "fired" => begun')
        <5>1. CASE d = c
          BY <2>1, <2>2, <2>6, <3>1, <4>2, <5>1 DEF NewContext, Contexts
        <5>2. CASE d # c
          BY <2>2, <3>1, <4>2, <5>2 DEF NewContext
        <5> QED BY <5>1, <5>2
      <4> QED BY <4>1, <4>2
    <3>5. Hooked' /\ NoWatchLeaks'
      BY <2>1, <2>2, <2>3, <3>1, <3>2 DEF NewContext, c
    <3>6. LateCallers' /\ BornDone'
      BY <2>1, <2>2, <2>3, <3>1, <3>2 DEF NewContext, c
    <3> QED BY <3>3, <3>4, <3>5, <3>6 DEF Inv
  <2>4. CASE ctx[c] # "none" /\ shutdownErr
    <3>1. Cancel({c}) /\ UNCHANGED watch
      BY <1>11, <2>4 DEF SlowPath, c
    <3>2. ctx'[c] = "done"
      BY <2>1, <2>4, <3>1
    <3>3. TypeOK'
      BY <2>1, <2>2, <2>4, <3>1, <3>2 DEF c
    <3>4. MirrorFirst' /\ DoneMeansShutdown'
      BY <2>1, <2>2, <2>4, <3>1, <3>2 DEF c
    <3>5. Hooked' /\ NoWatchLeaks'
      BY <2>1, <2>2, <2>4, <3>1, <3>2 DEF c
    <3>6. LateCallers' /\ BornDone'
      BY <2>1, <2>2, <2>4, <3>1, <3>2 DEF c
    <3> QED BY <3>3, <3>4, <3>5, <3>6 DEF Inv
  <2>5. CASE ctx[c] # "none" /\ ~shutdownErr
    <3>1. UNCHANGED <<ctx, stop, watch>>
      BY <1>11, <2>5 DEF SlowPath, c
    <3> QED BY <2>1, <2>2, <2>5, <3>1 DEF c
  <2> QED BY <2>3, <2>4, <2>5
<1>12. ASSUME NEW k \in Callers, NEW c \in Contexts, NEW path \in {"fast", "slow"},
              Begin(k, c, path)
       PROVE  Inv'
  BY <1>12 DEF Begin, Known, markVars, ctxVars
<1> QED
  BY <1>1, <1>2, <1>3, <1>4, <1>5, <1>6, <1>7, <1>8, <1>9, <1>10, <1>11, <1>12 DEF Next

\* The run, the contexts and the calls of UntilShutdown have the states of the
\* code; a context has its watch unless it was born done (newUntilShutdown).
THEOREM ContextsTypeCorrect == Spec => []TypeOK
<1>1. Inv => TypeOK
  BY DEF Inv
<1> QED BY <1>1, InvInit, InvNext, PTL DEF Spec

\* "If shutdown has already begun, the context is born done", for whoever could
\* know of it (UntilShutdown's fast path and its locked one).
THEOREM NoLiveContextAfterShutdown == Spec => []BornDone
<1>1. Inv => BornDone
  BY DEF Inv
<1> QED BY <1>1, InvInit, InvNext, PTL DEF Spec

\* No watch stays behind on the run for a context that is done (newUntilShutdown).
THEOREM WatchesAreStopped == Spec => []NoWatchLeaks
<1>1. Inv => NoWatchLeaks
  BY DEF Inv
<1> QED BY <1>1, InvInit, InvNext, PTL DEF Spec
=============================================================================
