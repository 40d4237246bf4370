-------------------------- MODULE WorkerPoolProofs --------------------------
(***************************************************************************)
(* The standby worker of the pool, for any bound on the items and any      *)
(* limits: the invariants of WorkerPool are inductive together.            *)
(***************************************************************************)
EXTENDS WorkerPool, TLAPS

\* Before Run and after it nobody works, and no shutdown precedes Run.
NobodyOutsideRun ==
    /\ runState # "running" => waitGroup = 0
    /\ stopCreating => runState # "init"

\* The invariants are inductive together: the standby is counted in idle and
\* spawning, so its bound needs the books, and Run's return needs the standby.
PoolInv ==
    TypeOK /\ Accounting /\ OneStandby /\ NoLostWakeup /\ NobodyOutsideRun

LEMMA PoolInit == Init => PoolInv
<1> SUFFICES ASSUME Init PROVE PoolInv
  OBVIOUS
<1>1. TypeOK
  <2>1. created \in 0 .. MaxItems /\ itemLimit \in Nat
    BY MaxItemsNat, ItemLimitsNat DEF Init
  <2> QED BY <2>1 DEF Init, TypeOK
<1>2. Accounting /\ OneStandby /\ NoLostWakeup /\ NobodyOutsideRun
  BY DEF Init, Accounting, OneStandby, NoLostWakeup, NobodyOutsideRun
<1> QED BY <1>1, <1>2 DEF PoolInv

LEMMA PoolNext == PoolInv /\ [Next]_vars => PoolInv'
<1> SUFFICES ASSUME PoolInv, [Next]_vars PROVE PoolInv'
  OBVIOUS
<1>1. CASE UNCHANGED vars
  <2>1. TypeOK'
    BY <1>1 DEF vars, codeVars, workers, PoolInv, TypeOK
  <2>2. Accounting'
    BY <1>1 DEF vars, codeVars, workers, PoolInv, Accounting
  <2>3. OneStandby' /\ NobodyOutsideRun'
    BY <1>1 DEF vars, codeVars, workers, PoolInv, OneStandby, NobodyOutsideRun
  <2>4. NoLostWakeup'
    BY <1>1 DEF vars, codeVars, workers, PoolInv, NoLostWakeup, Room,
                UnitHasFreeSlot, HasItemsRoom
  <2> QED BY <2>1, <2>2, <2>3, <2>4 DEF PoolInv
<1> USE MaxItemsNat, ItemLimitsNat
    DEF PoolInv, TypeOK, Accounting, OneStandby, NoLostWakeup, NobodyOutsideRun,
        Room, UnitHasFreeSlot, HasItemsRoom, GateLimit, codeVars, workers
<1>2. CASE StartRun
  BY <1>2 DEF StartRun
<1>3. CASE Arrive
  BY <1>3 DEF Arrive
<1>4. CASE AcquireFirst
  <2>1. CASE Retire(idle, spawning - 1)
    BY <1>4, <2>1 DEF AcquireFirst, Retire, StandsBy
  <2>2. CASE CreateItem(idle, spawning - 1)
    <3>1. TypeOK' /\ NobodyOutsideRun'
      BY <1>4, <2>2 DEF AcquireFirst, CreateItem, StandsBy
    <3>2. Accounting'
      BY <1>4, <2>2 DEF AcquireFirst, CreateItem, StandsBy
    <3>3. OneStandby' /\ NoLostWakeup'
      BY <1>4, <2>2 DEF AcquireFirst, CreateItem, StandsBy
    <3> QED BY <3>1, <3>2, <3>3
  <2>3. CASE Park(idle, spawning - 1)
    BY <1>4, <2>3 DEF AcquireFirst, Park, StandsBy
  <2> QED BY <1>4, <2>1, <2>2, <2>3 DEF AcquireFirst, AcquireLoop
<1>5. CASE AcquireNext
  <2>1. CASE Retire(idle, spawning)
    BY <1>5, <2>1 DEF AcquireNext, Retire, StandsBy
  <2>2. CASE CreateItem(idle, spawning)
    <3>1. TypeOK' /\ NobodyOutsideRun'
      BY <1>5, <2>2 DEF AcquireNext, CreateItem, StandsBy
    <3>2. Accounting'
      BY <1>5, <2>2 DEF AcquireNext, CreateItem, StandsBy
    <3>3. OneStandby' /\ NoLostWakeup'
      BY <1>5, <2>2 DEF AcquireNext, CreateItem, StandsBy
    <3> QED BY <3>1, <3>2, <3>3
  <2>3. CASE Park(idle, spawning)
    BY <1>5, <2>3 DEF AcquireNext, Park, StandsBy
  <2> QED BY <1>5, <2>1, <2>2, <2>3 DEF AcquireNext, AcquireLoop
<1>6. CASE Recheck
  <2>1. CASE Retire(idle - 1, spawning)
    BY <1>6, <2>1 DEF Recheck, Retire, StandsBy
  <2>2. CASE CreateItem(idle - 1, spawning)
    <3>1. TypeOK' /\ NobodyOutsideRun'
      BY <1>6, <2>2 DEF Recheck, CreateItem, StandsBy
    <3>2. Accounting'
      BY <1>6, <2>2 DEF Recheck, CreateItem, StandsBy
    <3>3. OneStandby' /\ NoLostWakeup'
      BY <1>6, <2>2 DEF Recheck, CreateItem, StandsBy
    <3> QED BY <3>1, <3>2, <3>3
  <2>3. CASE Park(idle - 1, spawning)
    BY <1>6, <2>3 DEF Recheck, Park, StandsBy
  <2> QED BY <1>6, <2>1, <2>2, <2>3 DEF Recheck, AcquireLoop
<1>7. CASE WorkerDone
  BY <1>7 DEF WorkerDone
<1>8. CASE LeaveGate
  BY <1>8 DEF LeaveGate, Broadcast
<1>9. CASE CompleteItem
  BY <1>9 DEF CompleteItem, Broadcast
<1>10. CASE BeginShutdown
  BY <1>10 DEF BeginShutdown, Broadcast
<1>11. CASE StoreItemLimit
  BY <1>11 DEF StoreItemLimit
<1>12. CASE AnnounceItemLimit
  BY <1>12 DEF AnnounceItemLimit, Broadcast
<1>13. CASE RunReturns
  BY <1>13 DEF RunReturns
<1> QED
  BY <1>1, <1>2, <1>3, <1>4, <1>5, <1>6, <1>7, <1>8, <1>9, <1>10, <1>11, <1>12, <1>13
  DEF Next

\* Every variable of the pool keeps its type.
THEOREM PoolTypeCorrect == Spec => []TypeOK
<1>1. PoolInv => TypeOK
  BY DEF PoolInv
<1> QED BY <1>1, PoolInit, PoolNext, PTL DEF Spec

\* While items are created exactly one worker stands by (acquireItem's count
\* of idle and spawning workers), and Run does not return before a shutdown.
THEOREM ExactlyOneStandby == Spec => []OneStandby
<1>1. PoolInv => OneStandby
  BY DEF PoolInv
<1> QED BY <1>1, PoolInit, PoolNext, PTL DEF Spec

\* A parked worker never misses room for an item or the stop of the run: every
\* change that lets it go on broadcasts, SetItemLimit's unlocked store included.
THEOREM NoWakeupIsLost == Spec => []NoLostWakeup
<1>1. PoolInv => NoLostWakeup
  BY DEF PoolInv
<1> QED BY <1>1, PoolInit, PoolNext, PTL DEF Spec

\* The pool never outgrows the items in flight by more than the standby and
\* the workers on their way back or out.
THEOREM PoolStaysBounded == Spec => []PoolIsBounded
<1>1. PoolInv => PoolIsBounded
  BY DEF PoolInv, PoolIsBounded, TypeOK, Accounting, OneStandby
<1> QED BY <1>1, PoolInit, PoolNext, PTL DEF Spec

\* workers.Wait returns to Run only when nothing is in flight any more.
THEOREM RunReturnsDrained == Spec => []ReturnsDrained
<1>1. PoolInv => ReturnsDrained
  BY DEF PoolInv, ReturnsDrained, TypeOK, Accounting, NobodyOutsideRun
<1> QED BY <1>1, PoolInit, PoolNext, PTL DEF Spec
=============================================================================
