----------------------------- MODULE DialsProofs -----------------------------
(***************************************************************************)
(* No turn of a dial is lost, for any number of setters, calls and runs.   *)
(***************************************************************************)
EXTENDS Dials, TLAPS

LEMMA DialsTypeInit == Init => TypeOK
BY DEF Init, TypeOK

LEMMA DialsTypeNext == TypeOK /\ [Next]_vars => TypeOK'
<1> SUFFICES ASSUME TypeOK, [Next]_vars PROVE TypeOK'
  OBVIOUS
<1> USE MaxRunsNat DEF TypeOK, Runs, NoRun, runVars, callVars, setterVars
<1>1. CASE TryRun
  BY <1>1 DEF TryRun
<1>2. CASE StopRun
  BY <1>2 DEF StopRun
<1>3. ASSUME NEW w \in Calls, Arrive(w) PROVE TypeOK'
  BY <1>3 DEF Arrive
<1>4. ASSUME NEW w \in Calls, Decide(w) PROVE TypeOK'
  BY <1>4 DEF Decide
<1>5. ASSUME NEW w \in Calls, Park(w) \/ Proceed(w) \/ Retest(w) PROVE TypeOK'
  BY <1>5 DEF Park, Proceed, Retest
<1>6. ASSUME NEW s \in Setters, NEW v \in Values, Load(s, v) \/ StoreItemLimit(s, v)
      PROVE TypeOK'
  BY <1>6 DEF Load, StoreItemLimit
<1>7. ASSUME NEW s \in Setters, Store(s) PROVE TypeOK'
  BY <1>7 DEF Store, Woken
<1>8. ASSUME NEW s \in Setters, Reread(s) PROVE TypeOK'
  BY <1>8 DEF Reread
<1>9. ASSUME NEW s \in Setters, Wake(s) PROVE TypeOK'
  BY <1>9 DEF Wake, Woken
<1>10. CASE UNCHANGED vars
  BY <1>10 DEF vars
<1> QED BY <1>1, <1>2, <1>3, <1>4, <1>5, <1>6, <1>7, <1>8, <1>9, <1>10 DEF Next

\* The calls, setters, dial and runs have the states of the code, and a run is
\* current as long as a call is in it (tryRun, stopRun).
THEOREM DialsTypeCorrect == Spec => []TypeOK
BY DialsTypeInit, DialsTypeNext, PTL DEF Spec

\* The calls a lost wake-up would strand.
Stranded(w) ==
    /\ dial \in Admitting
    /\ call[w] = "asleep" \/ (call[w] = "deciding" /\ seen[w] \notin Admitting)

LEMMA NoLostWakeupStep == TypeOK /\ NoLostWakeup /\ [Next]_vars => NoLostWakeup'
<1> SUFFICES ASSUME TypeOK, NoLostWakeup, [Next]_vars,
                    NEW w \in Calls, Stranded(w)'
             PROVE  \E s \in Setters : WillWake(s)'
  BY DEF NoLostWakeup, Stranded
<1>t. TypeOK'
  BY DialsTypeNext
<1>old. Stranded(w) => \E s \in Setters : WillWake(s)
  BY DEF NoLostWakeup, Stranded
<1>in. current # NoRun /\ current' # NoRun
  BY <1>t DEF TypeOK, Stranded, Next, vars, runVars, callVars, TryRun, StopRun, Arrive,
     Decide, Park, Proceed, Retest, Load, StoreItemLimit, Store, Reread, Wake
<1> USE DEF TypeOK, Stranded, WillWake, runVars, callVars, setterVars
<1>1. CASE TryRun \/ StopRun
  BY <1>1, <1>in DEF TryRun, StopRun
<1>2. ASSUME NEW x \in Calls, Arrive(x) \/ Decide(x) \/ Park(x) \/ Proceed(x) \/ Retest(x)
      PROVE  \E s \in Setters : WillWake(s)'
  BY <1>2, <1>old DEF Arrive, Decide, Park, Proceed, Retest
<1>3. ASSUME NEW x \in Setters, NEW v \in Values, Load(x, v)
      PROVE  \E s \in Setters : WillWake(s)'
  BY <1>3, <1>old DEF Load
<1>4. ASSUME NEW x \in Setters, NEW v \in Values, StoreItemLimit(x, v)
      PROVE  \E s \in Setters : WillWake(s)'
  BY <1>4, <1>in DEF StoreItemLimit
<1>5. ASSUME NEW x \in Setters, Store(x)
      PROVE  \E s \in Setters : WillWake(s)'
  BY <1>5, <1>in DEF Store, Woken, MutexFree
<1>6. ASSUME NEW x \in Setters, Reread(x)
      PROVE  \E s \in Setters : WillWake(s)'
  BY <1>6, <1>in, <1>old DEF Reread
<1>7. ASSUME NEW x \in Setters, Wake(x)
      PROVE  \E s \in Setters : WillWake(s)'
  BY <1>7, <1>in, <1>old DEF Wake, Woken, MutexFree
<1>8. CASE UNCHANGED vars
  BY <1>8, <1>old DEF vars
<1> QED BY <1>1, <1>2, <1>3, <1>4, <1>5, <1>6, <1>7, <1>8 DEF Next

\* No turn of a dial gets lost (storeDial, SetItemLimit), however runs start, end
\* and replace each other between the steps of a setter.
THEOREM NoTurnIsLost == Spec => []NoLostWakeup
<1>1. Init => NoLostWakeup
  BY DEF Init, NoLostWakeup
<1> QED BY <1>1, DialsTypeInit, DialsTypeNext, NoLostWakeupStep, PTL DEF Spec
=============================================================================
