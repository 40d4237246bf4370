---------------------------- MODULE ShutdownProofs ----------------------------
(***************************************************************************)
(* Theorems about Shutdown, for any number of items and nodes: types, that *)
(* nobody gets past an item that failed or was aborted, that no failure is *)
(* swallowed, and that Run returns what happened.                          *)
(***************************************************************************)
EXTENDS Shutdown, WellFoundedInduction, TLAPS

LEMMA FailType ==
  ASSUME TypeOK, NEW i \in inFlight, ItemFailed(i)
  PROVE  /\ canceled' \subseteq 1 .. created /\ reported' \subseteq 1 .. created
         /\ trigger' \in Events /\ drainErr' \in Events
<1>1. i \in 1 .. created /\ i \in Events /\ Younger(i) \subseteq 1 .. created
  <2>1. inFlight \subseteq 1 .. created /\ created \in 0 .. NItems
    BY DEF TypeOK
  <2>2. i \in 1 .. created
    BY <2>1
  <2>3. i \in 0 .. NItems + 2
    BY <2>1, <2>2, NItemsNat
  <2> QED
    BY <2>1, <2>2, <2>3 DEF Events, Younger
<1>2. CASE i \in reported
  BY <1>2 DEF ItemFailed, TypeOK, shutVars
<1>3. CASE i \notin reported
  BY <1>1, <1>3 DEF ItemFailed, Cascade, TypeOK
<1> QED
  BY <1>2, <1>3

\* How a processor or its work may end.
Ends == {"ok", "fail", "abort", "foreign"}

LEMMA AsAbortType == ASSUME NEW i, NEW err \in Outcomes PROVE AsAbort(i, err) \in Ends
  BY KnownOutcomes DEF AsAbort, Ends

\* What an outcome may change, whatever it is.
LEMMA SettleType ==
  ASSUME TypeOK, NEW i \in inFlight, NEW out, NEW self, self \subseteq {i},
         SettleOutcome(i, out, self)
  PROVE  /\ canceled' \subseteq 1 .. created /\ reported' \subseteq 1 .. created
         /\ trigger' \in Events /\ drainErr' \in Events
<1>1. i \in 1 .. created /\ Younger(i) \subseteq 1 .. created
  BY NItemsNat DEF TypeOK, Younger
<1>2. CASE "fail" \in {out, work[i]}
  BY <1>2, FailType DEF SettleOutcome
<1>3. CASE "fail" \notin {out, work[i]}
  <2>1. canceled' = Cascade(i) \union self \/ canceled' = canceled \union self
    BY <1>3 DEF SettleOutcome
  <2> QED
    BY <1>1, <1>3, <2>1 DEF SettleOutcome, Cascade, TypeOK
<1> QED
  BY <1>2, <1>3

\* The drain function has not been asked before the watcher asks it.
AskedLast == watcher \in {"select", "marking", "asking"} => asked = 0

LEMMA TypeInit == Init => TypeOK /\ AskedLast
  BY NItemsNat, NStepsNat DEF Init, TypeOK, Items, Events, Nothing, AskedLast

LEMMA AskedNext == AskedLast /\ [Next]_vars => AskedLast'
<1> SUFFICES ASSUME AskedLast, [Next]_vars PROVE AskedLast'
  OBVIOUS
<1>1. CASE Select \/ Mark \/ Ask \/ Bound \/ Overrun
  BY <1>1 DEF AskedLast, Select, Mark, Ask, Bound, Overrun, Go
<1>2. CASE UNCHANGED <<watcher, asked>>
  BY <1>2 DEF AskedLast
<1> QED
  BY <1>1, <1>2 DEF Next, vars, watchVars, Create, CancelRunCtx, DrainExpires, Drained,
     RunReturns, MoveTo, StartWork, Finish, Return, WorkEnds

LEMMA TypeNext == TypeOK /\ AskedLast /\ [Next]_vars => TypeOK'
<1> SUFFICES ASSUME TypeOK, AskedLast, [Next]_vars PROVE TypeOK'
  OBVIOUS
<1> USE NItemsNat, NStepsNat
<1>1. CASE UNCHANGED vars
  BY <1>1 DEF TypeOK, vars, itemVars, shutVars, watchVars
<1>2. CASE Create
  <2>1. created' \in 0 .. NItems /\ inFlight' \subseteq 1 .. created'
    BY <1>2 DEF TypeOK, Create
  <2>2. 1 .. created \subseteq 1 .. created'
    BY <1>2 DEF TypeOK, Create
  <2> QED
    BY <1>2, <2>1, <2>2 DEF TypeOK, Create, shutVars, watchVars
<1>3. CASE CancelRunCtx \/ DrainExpires \/ Drained \/ RunReturns
  BY <1>3 DEF TypeOK, CancelRunCtx, DrainExpires, Drained, RunReturns,
     itemVars, shutVars, watchVars
<1>4. CASE Select \/ Bound
  BY <1>4 DEF TypeOK, Select, Bound, Go, itemVars, shutVars, watchVars
<1>5. CASE Mark
  BY <1>5 DEF TypeOK, Mark, Go, itemVars, Events, RunCtx
<1>6. CASE Ask
  <2>1. asked' \in 0 .. 1
    BY <1>6 DEF AskedLast, Ask
  <2>2. drainCtx' \in {"none", "live", "done"} /\ watcher' \in {"bounding", "done"}
    BY <1>6 DEF TypeOK, Ask, Go
  <2>3. UNCHANGED <<itemVars, shutVars, drainFunc, runCtx, phase>>
    BY <1>6 DEF Ask, Go
  <2> QED
    BY <2>1, <2>2, <2>3 DEF TypeOK, itemVars, shutVars
<1>7. CASE Overrun
  <2>1. DrainTimeout \in Events
    BY DEF Events, DrainTimeout
  <2>4. inFlight \subseteq 1 .. created /\ canceled \subseteq 1 .. created /\ drainErr \in Events
    BY DEF TypeOK
  <2>5. drainErr' \in Events /\ canceled' \subseteq 1 .. created
    BY <1>7, <2>1, <2>4 DEF Overrun
  <2>2. watcher' = "done" /\ UNCHANGED <<itemVars, drainFunc, runCtx, phase>>
    BY <1>7 DEF Overrun, Go
  <2>3. UNCHANGED <<reported, trigger, drainCtx, asked>>
    BY <1>7 DEF Overrun
  <2> QED
    BY <2>5, <2>2, <2>3 DEF TypeOK, itemVars
<1>8. ASSUME NEW i \in Items, MoveTo(i) \/ StartWork(i) PROVE TypeOK'
  <2>1. pos' \in [Items -> 0 .. NSteps]
    BY <1>8 DEF TypeOK, MoveTo, StartWork
  <2>2. work' \in [Items -> {"none", "live", "fail", "abort", "foreign"}]
    BY <1>8 DEF TypeOK, MoveTo, StartWork
  <2> QED
    BY <1>8, <2>1, <2>2 DEF TypeOK, MoveTo, StartWork, shutVars, watchVars
<1>9. ASSUME NEW i \in Items, Finish(i) PROVE TypeOK'
  <2>1. i \in inFlight /\ SettleOutcome(i, outcome[i], {})
    BY <1>9 DEF Finish
  <2> QED
    BY <1>9, <2>1, SettleType DEF TypeOK, Finish, watchVars
<1>10. ASSUME NEW i \in Items, NEW out \in Outcomes, Return(i, out) PROVE TypeOK'
  <2>1. PICK eff, self : /\ eff \in Ends /\ self \subseteq {i}
                         /\ outcome' = [outcome EXCEPT ![i] = eff]
                         /\ SettleOutcome(i, eff, self)
    BY <1>10, AsAbortType DEF Return
  <2>2. i \in inFlight
    BY <1>10 DEF Return, Running
  <2>3. /\ canceled' \subseteq 1 .. created /\ reported' \subseteq 1 .. created
        /\ trigger' \in Events /\ drainErr' \in Events
    BY <2>1, <2>2, SettleType
  <2>4. outcome' \in [Items -> {"running", "ok", "fail", "abort", "foreign"}]
    BY <2>1 DEF TypeOK, Ends
  <2> QED
    BY <1>10, <2>3, <2>4 DEF TypeOK, Return, watchVars
<1>11. ASSUME NEW i \in Items, NEW end \in Outcomes, WorkEnds(i, end) PROVE TypeOK'
  <2>1. i \in inFlight /\ (ItemFailed(i) \/ UNCHANGED shutVars)
    BY <1>11 DEF WorkEnds
  <2>2. /\ canceled' \subseteq 1 .. created /\ reported' \subseteq 1 .. created
        /\ trigger' \in Events /\ drainErr' \in Events
    BY <2>1, FailType DEF TypeOK, shutVars
  <2>3. work' \in [Items -> {"none", "live", "fail", "abort", "foreign"}]
    BY <1>11, AsAbortType DEF TypeOK, WorkEnds, Ends
  <2> QED
    BY <1>11, <2>2, <2>3 DEF TypeOK, WorkEnds, watchVars
<1> QED
  BY <1>1, <1>2, <1>3, <1>4, <1>5, <1>6, <1>7, <1>8, <1>9, <1>10, <1>11 DEF Next

-----------------------------------------------------------------------------
\* Every state of a run that may shut down is well formed.
THEOREM ShutdownTypeCorrect == Spec => []TypeOK
<1>1. Init => TypeOK /\ AskedLast
  BY TypeInit
<1>2. TypeOK /\ AskedLast /\ [Next]_vars => (TypeOK /\ AskedLast)'
  BY TypeNext, AskedNext
<1> QED
  BY <1>1, <1>2, PTL DEF Spec

-----------------------------------------------------------------------------
(* The inductive invariant *)

\* Items in flight stand in the order of their numbers.
InOrder == \A i \in inFlight : \A j \in 1 .. created : i < j => pos[j] <= pos[i]

\* A number not yet given out has no history.
Unborn == \A i \in Items : i > created => pos[i] = 0 /\ outcome[i] = "running" /\ work[i] = "none"

\* An item leaves the line after its processor has returned, Run's workers after
\* the last item.
LeftReturned ==
    /\ \A i \in 1 .. created : i \in inFlight \/ outcome[i] # "running"
    /\ phase # "working" => trigger # Nothing /\ inFlight = {}

\* Nobody is reported, nor the drain watched, before the shutdown has begun, and
\* nobody canceled but by the foreign error he returned.
Begun ==
    /\ trigger = Nothing => reported = {} /\ \A i \in canceled : outcome[i] = "foreign"
    /\ watcher \in {"asking", "bounding", "overrun"} => trigger # Nothing

\* An item whose failure was reported has nobody behind it who is not canceled.
ReportedClosed == \A i \in reported : Younger(i) \subseteq canceled

\* An abort of this run is known only once its shutdown has begun.
AbortBegun == \A i \in 1 .. created : "abort" \in {outcome[i], work[i]} => trigger # Nothing

\* Of an item that has returned, a failure was reported; one that was aborted
\* canceled everybody behind it, at the latest when it left the line.
StoppedKnown ==
    \A i \in 1 .. created : Returned(i) =>
        /\ "fail" \in {outcome[i], work[i]} => i \in reported
        /\ i \notin inFlight /\ "abort" \in {outcome[i], work[i]} => Younger(i) \subseteq canceled

\* NobodyGetsPast, of what stops an item in this run.
NobodyPasses ==
    \A i, j \in 1 .. created : i < j /\ StoppedHere(i) => pos[j] <= pos[i]

Inv ==
    /\ TypeOK /\ InOrder /\ Unborn /\ LeftReturned /\ Begun
    /\ ReportedClosed /\ AbortBegun /\ StoppedKnown /\ NobodyPasses

LEMMA InvInit == Init => Inv
<1> SUFFICES ASSUME Init PROVE Inv
  OBVIOUS
<1>1. created = 0 /\ inFlight = {} /\ 1 .. created = {}
  BY DEF Init
<1> QED
  BY <1>1, TypeInit DEF Init, Inv, InOrder, Unborn, LeftReturned, Begun, ReportedClosed,
     AbortBegun, StoppedKnown, NobodyPasses

-----------------------------------------------------------------------------
(* What the outcome of an item does to the others *)

\* Others are canceled only together with everybody behind the item, and only
\* once the shutdown has begun.
Effect(i, self) ==
    /\ canceled \subseteq canceled' /\ canceled' \subseteq canceled \union Younger(i) \union self
    /\ reported \subseteq reported' /\ reported' \subseteq reported \union {i}
    /\ trigger # Nothing => trigger' # Nothing
    /\ \/ canceled' = canceled \union self /\ reported' = reported
       \/ Younger(i) \subseteq canceled' /\ trigger' # Nothing

LEMMA FailEffect ==
  ASSUME Inv, NEW i \in inFlight, ItemFailed(i), NEW self, self \subseteq {i}
  PROVE  Effect(i, self) /\ i \in reported' /\ trigger' # Nothing /\ Younger(i) \subseteq canceled'
<1>1. i # Nothing /\ i \in 1 .. created
  BY DEF Inv, TypeOK, Nothing
<1>2. CASE i \in reported
  BY <1>2 DEF Inv, Begun, ReportedClosed, ItemFailed, Effect, shutVars
<1>3. CASE i \notin reported
  BY <1>1, <1>3 DEF ItemFailed, Cascade, Effect
<1> QED
  BY <1>2, <1>3

LEMMA SettleEffect ==
  ASSUME Inv, NEW i \in inFlight, NEW out, NEW self, SettleOutcome(i, out, self), self \subseteq {i}
  PROVE  /\ Effect(i, self)
         /\ "fail" \in {out, work[i]} => i \in reported'
         /\ "abort" \in {out, work[i]} /\ trigger # Nothing => Younger(i) \subseteq canceled'
<1>1. CASE "fail" \in {out, work[i]}
  BY <1>1, FailEffect DEF SettleOutcome
<1>2. CASE "fail" \notin {out, work[i]}
  <2>1. CASE {out, work[i]} \cap Aborts # {} /\ trigger # Nothing
    BY <1>2, <2>1 DEF SettleOutcome, Cascade, Effect
  <2>2. CASE ~({out, work[i]} \cap Aborts # {} /\ trigger # Nothing)
    BY <1>2, <2>2 DEF SettleOutcome, Effect, Aborts
  <2> QED
    BY <2>1, <2>2
<1> QED
  BY <1>1, <1>2

\* What holds of reported items survives an outcome.
LEMMA EffectKeeps ==
  ASSUME Inv, NEW i \in inFlight, NEW self, Effect(i, self), inFlight' \subseteq inFlight
  PROVE  ReportedClosed'
<1>1. \A a : Younger(a)' \subseteq Younger(a)
  BY DEF Younger
<1> SUFFICES ASSUME NEW a \in reported' PROVE Younger(a) \subseteq canceled'
  BY <1>1 DEF ReportedClosed
<1>2. CASE a \in reported
  BY <1>2 DEF Inv, ReportedClosed, Effect
<1>3. CASE a \notin reported
  BY <1>3 DEF Effect
<1> QED
  BY <1>2, <1>3

\* Whoever stops while in flight has nobody in front of it out of order; so only
\* a move could let an item past a stopped one.
LEMMA StandingOrder ==
  ASSUME Inv, created' = created, pos' = pos, inFlight' \subseteq inFlight,
         \A i \in 1 .. created : StoppedHere(i)' => StoppedHere(i) \/ i \in inFlight
  PROVE  InOrder' /\ NobodyPasses'
<1>1. InOrder'
  BY DEF Inv, InOrder
<1>2. NobodyPasses'
  <2> SUFFICES ASSUME NEW i \in 1 .. created, NEW j \in 1 .. created, i < j, StoppedHere(i)'
               PROVE  pos[j] <= pos[i]
    BY DEF NobodyPasses
  <2> QED
    BY DEF Inv, InOrder, NobodyPasses
<1> QED
  BY <1>1, <1>2

-----------------------------------------------------------------------------
(* One lemma per handler that touches the items *)

LEMMA CreateKeeps == Inv /\ TypeOK' /\ Create => Inv'
<1> SUFFICES ASSUME Inv, TypeOK', Create PROVE Inv'
  OBVIOUS
<1> DEFINE new == created + 1
<1>1. /\ created' = new /\ inFlight' = inFlight \union {new} /\ new \in Items
      /\ created \in Nat /\ inFlight \subseteq 1 .. created /\ 1 .. new = 1 .. created \union {new}
  BY NItemsNat DEF Inv, TypeOK, Create, Items
<1>2. UNCHANGED <<pos, work, outcome, canceled, reported, trigger, watcher, phase>>
  BY DEF Create, shutVars, watchVars
<1>3. reported = {} /\ trigger = Nothing /\ phase = "working"
  BY DEF Inv, Begun, Create
<1>4. pos[new] = 0 /\ outcome[new] = "running" /\ work[new] = "none"
  BY <1>1 DEF Inv, Unborn
<1>5. \A i \in 1 .. new : ~StoppedHere(i)'
  <2> SUFFICES ASSUME NEW i \in 1 .. new, StoppedHere(i)' PROVE FALSE
    OBVIOUS
  <2>1. i \in 1 .. created /\ StoppedHere(i)
    BY <1>1, <1>2, <1>4 DEF StoppedHere, Returned
  <2> QED
    BY <2>1, <1>3 DEF Inv, StoppedKnown, AbortBegun, StoppedHere
<1>6. InOrder'
  <2> SUFFICES ASSUME NEW i \in inFlight', NEW j \in 1 .. new, i < j PROVE pos[j] <= pos[i]
    BY <1>1, <1>2 DEF InOrder
  <2>1. i \in inFlight
    BY <1>1
  <2>2. i \in Items /\ pos[i] \in Nat
    BY <2>1, <1>1, NItemsNat, NStepsNat DEF Inv, TypeOK, Items
  <2> QED
    BY <2>1, <2>2, <1>1, <1>4 DEF Inv, InOrder
<1>7. Unborn'
  BY <1>1, <1>2 DEF Inv, Unborn, Items
<1>8. LeftReturned' /\ Begun' /\ ReportedClosed'
  BY <1>1, <1>2, <1>3 DEF Inv, LeftReturned, Begun, ReportedClosed
<1>9. AbortBegun' /\ StoppedKnown' /\ NobodyPasses'
  <2>1. StoppedKnown'
    <3> SUFFICES ASSUME NEW i \in 1 .. new, Returned(i)'
                 PROVE  "fail" \notin {outcome[i]', work[i]'} /\ "abort" \notin {outcome[i]', work[i]'}
      BY <1>1 DEF StoppedKnown
    <3> QED
      BY <1>5 DEF StoppedHere
  <2>3. AbortBegun'
    BY <1>1, <1>2, <1>4 DEF Inv, AbortBegun
  <2>2. NobodyPasses'
    BY <1>1, <1>5 DEF NobodyPasses
  <2> QED
    BY <2>1, <2>2, <2>3
<1> QED
  BY <1>6, <1>7, <1>8, <1>9 DEF Inv

\* The naturals are well ordered.
LEMMA NatMin ==
  ASSUME NEW T \in SUBSET Nat, T # {}
  PROVE  \E n \in T : \A m \in T : n <= m
<1> DEFINE R == OpToRel(<, Nat)
<1>1. IsWellFoundedOn(R, Nat)
  BY NatLessThanWellFounded
<1>2. \A m, n \in Nat : m < n => <<m,n>> \in R
  BY DEF OpToRel
<1> HIDE DEF R
<1>3. \E x \in T : \A y \in T : ~ (<<y, x>> \in R)
  BY <1>1, WFMin
<1>4. PICK n \in T : \A m \in T : ~ (<<m, n>> \in R)
  BY <1>3
<1>5. \A m \in T : ~ (m < n)
  BY <1>2, <1>4
<1> QED BY <1>5

\* The maximum of a non-empty bounded set of naturals.
LEMMA SetMax ==
  ASSUME NEW m \in Nat, NEW A \in SUBSET (1 .. m), A # {}
  PROVE  Max(A) \in A /\ \A a \in A : a <= Max(A)
<1> DEFINE B == {m - a : a \in A}
<1>1. B \in SUBSET Nat /\ B # {}
  <2>1. \A a \in A : a \in Nat /\ m - a \in Nat
    OBVIOUS
  <2> QED BY <2>1
<1>2. PICK c \in B : \A d \in B : c <= d
  BY <1>1, NatMin
<1>3. PICK a \in A : c = m - a
  BY <1>2
<1>4. \A d \in A : a >= d
  <2> TAKE d \in A
  <2>1. m - d \in B
    OBVIOUS
  <2>2. c <= m - d /\ a \in Nat /\ d \in Nat
    BY <1>2, <2>1
  <2> QED BY <1>3, <2>2
<1>5. Max(A) \in A /\ \A d \in A : Max(A) >= d
  BY <1>4 DEF Max
<1> QED BY <1>5

\* Asking the neighbour is enough: who has left the neighbour behind has left
\* everybody older behind.
LEMMA GateOpens ==
  ASSUME Inv, NEW i \in inFlight, GateOpen(i), NEW j \in inFlight, j < i
  PROVE  pos[j] > pos[i]
<1>1. /\ inFlight \subseteq 1 .. created /\ created \in Nat
      /\ \A k \in 1 .. created : pos[k] \in Int
  BY NItemsNat, NStepsNat DEF Inv, TypeOK, Items
<1>2. Ahead(i) \in SUBSET (1 .. created) /\ j \in Ahead(i)
  BY <1>1 DEF Ahead
<1>3. Max(Ahead(i)) \in Ahead(i) /\ j <= Max(Ahead(i))
  BY <1>1, <1>2, SetMax
<1> DEFINE k == Max(Ahead(i))
<1>4. pos[k] > pos[i]
  BY <1>2 DEF GateOpen
<1>5. k \in inFlight /\ k < i /\ j <= k
  BY <1>3 DEF Ahead
<1> HIDE DEF k
<1>6. pos[k] <= pos[j]
  <2>1. CASE k = j
    BY <1>1, <1>5, <2>1
  <2>2. CASE k # j
    <3>1. j < k
      BY <1>1, <1>5, <2>2
    <3> QED
      BY <3>1, <1>1, <1>5 DEF Inv, InOrder
  <2> QED
    BY <2>1, <2>2
<1> QED
  BY <1>1, <1>4, <1>5, <1>6

LEMMA MoveToKeeps ==
  ASSUME Inv, TypeOK', NEW i \in Items, MoveTo(i)
  PROVE  Inv'
<1>1. /\ pos' = [pos EXCEPT ![i] = @ + 1] /\ i \in inFlight /\ i \notin canceled
      /\ outcome[i] = "running" /\ \A j \in inFlight : j < i => pos[j] > pos[i]
      /\ UNCHANGED <<created, inFlight, work, outcome, canceled, reported, trigger, watcher, phase>>
  BY GateOpens DEF MoveTo, Running, shutVars, watchVars
<1>2. /\ created \in 0 .. NItems /\ inFlight \subseteq 1 .. created /\ 1 .. created \subseteq Items
      /\ pos \in [Items -> 0 .. NSteps] /\ pos \in [Items -> Int]
  BY NItemsNat, NStepsNat DEF Inv, TypeOK, Items
<1>3. InOrder'
  <2> SUFFICES ASSUME NEW a \in inFlight, NEW b \in 1 .. created, a < b PROVE pos'[b] <= pos'[a]
    BY <1>1 DEF InOrder
  <2>1. pos[b] <= pos[a] /\ a \in Items /\ b \in Items
    BY <1>2 DEF Inv, InOrder
  <2>2. CASE b = i
    BY <1>1, <1>2, <2>1, <2>2
  <2>3. CASE b # i
    BY <1>1, <1>2, <2>1, <2>3
  <2> QED
    BY <2>2, <2>3
<1>4. NobodyPasses'
  <2> SUFFICES ASSUME NEW a \in 1 .. created, NEW b \in 1 .. created, a < b, StoppedHere(a)
               PROVE  pos'[b] <= pos'[a]
    BY <1>1 DEF NobodyPasses, StoppedHere, Returned
  <2>1. pos[b] <= pos[a] /\ a \in Items /\ b \in Items
    BY <1>2 DEF Inv, NobodyPasses
  <2>2. a # i
    BY <1>1 DEF StoppedHere, Returned
  <2>3. CASE a \in inFlight
    BY <1>1, <1>3, <2>3 DEF InOrder
  <2>4. CASE a \notin inFlight
    <3>1. Younger(a) \subseteq canceled
      BY <2>4 DEF Inv, StoppedKnown, ReportedClosed, StoppedHere
    <3>2. b # i
      BY <3>1, <1>1 DEF Younger
    <3> QED
      BY <1>1, <1>2, <2>1, <2>2, <3>2
  <2> QED
    BY <2>3, <2>4
<1>5. Unborn'
  BY <1>1, <1>2 DEF Inv, Unborn
<1>6. /\ LeftReturned' /\ Begun' /\ ReportedClosed' /\ AbortBegun' /\ StoppedKnown'
  BY <1>1 DEF Inv, LeftReturned, Begun, ReportedClosed, AbortBegun, StoppedKnown,
     Returned, Younger
<1> QED
  BY <1>3, <1>4, <1>5, <1>6 DEF Inv

LEMMA ReturnKeeps ==
  ASSUME Inv, TypeOK', NEW i \in Items, NEW out \in Outcomes, Return(i, out)
  PROVE  Inv'
<1>1. /\ i \in inFlight /\ outcome[i] = "running" /\ i \in 1 .. created
      /\ UNCHANGED <<created, inFlight, pos, work, watcher, phase>>
      /\ outcome \in [Items -> {"running", "ok", "fail", "abort", "foreign"}]
      /\ 1 .. created \subseteq Items
  BY NItemsNat DEF Inv, TypeOK, Items, Return, Running, watchVars
\* That the conveyor has canceled an item, or an abort of this run, is known only
\* once the shutdown has begun.
<1> DEFINE eff == AsAbort(i, out)
           self == IF eff \in Aborts THEN {i} ELSE {}
<1>2. /\ outcome' = [outcome EXCEPT ![i] = eff] /\ SettleOutcome(i, eff, self)
      /\ eff \in Ends
  BY AsAbortType DEF Return
<1>3. /\ eff = "abort" => trigger # Nothing
      /\ self \subseteq {i} /\ (self # {} => eff \in Aborts)
  BY <1>1 DEF Inv, Begun, Return, AsAbort
<1> HIDE DEF eff, self
<1>4. /\ Effect(i, self)
      /\ "fail" \in {eff, work[i]} => i \in reported'
  BY <1>1, <1>2, <1>3, SettleEffect
<1>5. outcome'[i] = eff /\ \A a \in 1 .. created : a # i => outcome'[a] = outcome[a]
  BY <1>1, <1>2
<1>6. ReportedClosed'
  BY <1>1, <1>4, EffectKeeps
<1>7. Begun'
  <2>1. \A a \in canceled : a \in 1 .. created
    BY DEF Inv, TypeOK
  <2> QED
    BY <1>1, <1>3, <1>4, <1>5, <2>1 DEF Inv, Begun, Effect, Aborts
<1>8. InOrder' /\ NobodyPasses'
  BY <1>1, <1>5, StandingOrder DEF StoppedHere, Returned
<1>9. Unborn'
  BY <1>1, <1>2, NItemsNat DEF Inv, Unborn, TypeOK, Items
<1>10. LeftReturned'
  BY <1>1, <1>4, <1>5 DEF Inv, LeftReturned, Effect
<1>11. AbortBegun'
  BY <1>1, <1>3, <1>4, <1>5 DEF Inv, AbortBegun, Effect
<1>12. StoppedKnown'
  <2> SUFFICES ASSUME NEW a \in 1 .. created, Returned(a)'
               PROVE  /\ "fail" \in {outcome'[a], work[a]} => a \in reported'
                      /\ a \notin inFlight /\ "abort" \in {outcome'[a], work[a]}
                           => Younger(a) \subseteq canceled'
    BY <1>1 DEF StoppedKnown, Younger
  <2>1. CASE a = i
    BY <2>1, <1>1, <1>4, <1>5
  <2>2. CASE a # i
    BY <2>2, <1>1, <1>4, <1>5 DEF Inv, StoppedKnown, Returned, Effect
  <2> QED
    BY <2>1, <2>2
<1> QED
  BY <1>6, <1>7, <1>8, <1>9, <1>10, <1>11, <1>12 DEF Inv

LEMMA WorkEndsKeeps ==
  ASSUME Inv, TypeOK', NEW i \in Items, NEW end \in Outcomes, WorkEnds(i, end)
  PROVE  Inv'
<1>1. /\ i \in inFlight /\ i \in 1 .. created /\ work[i] = "live"
      /\ UNCHANGED <<created, inFlight, pos, outcome, watcher, phase>>
      /\ work \in [Items -> {"none", "live", "fail", "abort", "foreign"}]
      /\ 1 .. created \subseteq Items
  BY NItemsNat DEF Inv, TypeOK, Items, WorkEnds, watchVars
<1> DEFINE err == AsAbort(i, end)
           eff == IF err = "ok" THEN "none" ELSE err
<1>2. /\ work' = [work EXCEPT ![i] = eff]
      /\ eff = "abort" => trigger # Nothing
      /\ IF eff = "fail" /\ outcome[i] # "running" THEN ItemFailed(i) ELSE UNCHANGED shutVars
  <2>1. err = "abort" => trigger # Nothing
    BY DEF WorkEnds, AsAbort, Inv, Begun
  <2>2. /\ work' = [work EXCEPT ![i] = eff]
        /\ IF err = "fail" /\ outcome[i] # "running" THEN ItemFailed(i) ELSE UNCHANGED shutVars
    BY DEF WorkEnds
  <2> HIDE DEF err
  <2> QED
    BY <2>1, <2>2
<1> HIDE DEF err, eff
<1>3. Effect(i, {}) /\ (eff = "fail" /\ outcome[i] # "running" => i \in reported')
  <2>1. CASE eff = "fail" /\ outcome[i] # "running"
    <3> DEFINE self == {}
    <3>1. self \subseteq {i} /\ ItemFailed(i)
      BY <1>2, <2>1
    <3> HIDE DEF self
    <3>2. Effect(i, self) /\ i \in reported'
      BY <1>1, <3>1, FailEffect
    <3> QED
      BY <3>2 DEF self
  <2>2. CASE ~(eff = "fail" /\ outcome[i] # "running")
    BY <1>2, <2>2 DEF Effect, shutVars
  <2> QED
    BY <2>1, <2>2
<1>4. ReportedClosed' /\ Begun'
  <2>1. ReportedClosed'
    BY <1>1, <1>3, EffectKeeps
  <2>2. Begun'
    BY <1>1, <1>3 DEF Inv, Begun, Effect
  <2> QED
    BY <2>1, <2>2
<1>5. work'[i] = eff /\ \A a \in 1 .. created : a # i => work'[a] = work[a]
  BY <1>1, <1>2
<1>6. InOrder' /\ NobodyPasses'
  BY <1>1, <1>5, StandingOrder DEF StoppedHere, Returned
<1>7. Unborn'
  BY <1>1, <1>2, NItemsNat DEF Inv, Unborn, TypeOK, Items
<1>8. LeftReturned'
  BY <1>1, <1>3 DEF Inv, LeftReturned, Effect
<1>9. AbortBegun'
  BY <1>1, <1>2, <1>3, <1>5 DEF Inv, AbortBegun, Effect
<1>10. StoppedKnown'
  <2> SUFFICES ASSUME NEW a \in 1 .. created, Returned(a)
               PROVE  /\ "fail" \in {outcome[a], work'[a]} => a \in reported'
                      /\ a \notin inFlight /\ "abort" \in {outcome[a], work'[a]}
                           => Younger(a) \subseteq canceled'
    BY <1>1 DEF StoppedKnown, Younger, Returned
  <2>1. CASE a = i
    BY <2>1, <1>1, <1>3, <1>5 DEF Inv, StoppedKnown, Returned, Effect
  <2>2. CASE a # i
    BY <2>2, <1>1, <1>3, <1>5 DEF Inv, StoppedKnown, Returned, Effect
  <2> QED
    BY <2>1, <2>2
<1> QED
  BY <1>4, <1>6, <1>7, <1>8, <1>9, <1>10 DEF Inv

\* An abort that only the join has brought to light cancels everybody behind in
\* the step in which the item leaves the line.
LEMMA FinishKeeps ==
  ASSUME Inv, TypeOK', NEW i \in Items, Finish(i)
  PROVE  Inv'
<1>1. /\ i \in inFlight /\ i \in 1 .. created /\ outcome[i] # "running"
      /\ inFlight' = inFlight \ {i} /\ SettleOutcome(i, outcome[i], {})
      /\ UNCHANGED <<created, pos, work, outcome, watcher, phase>>
  BY DEF Inv, TypeOK, Finish, watchVars
<1>2. /\ Effect(i, {})
      /\ "fail" \in {outcome[i], work[i]} => i \in reported'
      /\ "abort" \in {outcome[i], work[i]} => Younger(i) \subseteq canceled'
  <2> DEFINE self == {}
  <2>1. SettleOutcome(i, outcome[i], self) /\ self \subseteq {i}
    BY <1>1
  <2> HIDE DEF self
  <2>2. /\ Effect(i, self)
        /\ "fail" \in {outcome[i], work[i]} => i \in reported'
        /\ "abort" \in {outcome[i], work[i]} => Younger(i) \subseteq canceled'
    BY <1>1, <2>1, SettleEffect DEF Inv, AbortBegun
  <2> QED
    BY <2>2 DEF self
<1>3. ReportedClosed' /\ Begun'
  <2>1. ReportedClosed'
    BY <1>1, <1>2, EffectKeeps
  <2>2. Begun'
    BY <1>1, <1>2 DEF Inv, Begun, Effect
  <2> QED
    BY <2>1, <2>2
<1>4. InOrder' /\ NobodyPasses'
  BY <1>1, StandingOrder DEF StoppedHere, Returned
<1>5. Unborn' /\ LeftReturned' /\ AbortBegun'
  BY <1>1, <1>2 DEF Inv, Unborn, LeftReturned, AbortBegun, Effect
<1>6. StoppedKnown'
  BY <1>1, <1>2 DEF Inv, StoppedKnown, Returned, Younger, Effect
<1> QED
  BY <1>3, <1>4, <1>5, <1>6 DEF Inv

LEMMA OverrunKeeps == Inv /\ TypeOK' /\ Overrun => Inv'
<1> SUFFICES ASSUME Inv, TypeOK', Overrun PROVE Inv'
  OBVIOUS
<1>1. /\ trigger # Nothing /\ canceled \subseteq canceled' /\ watcher' = "done"
      /\ canceled' = canceled \/ inFlight \subseteq canceled'
      /\ UNCHANGED <<created, inFlight, pos, work, outcome, phase, reported, trigger>>
  BY DEF Inv, Begun, Overrun, Go, itemVars
<1>2. Begun' /\ LeftReturned' /\ Unborn' /\ InOrder'
  BY <1>1 DEF Inv, Begun, LeftReturned, Unborn, InOrder
<1>3. ReportedClosed'
  BY <1>1 DEF Inv, ReportedClosed, Younger
<1>4. AbortBegun' /\ StoppedKnown'
  BY <1>1 DEF Inv, AbortBegun, StoppedKnown, Returned, Younger
<1>5. NobodyPasses'
  BY <1>1, StandingOrder DEF StoppedHere, Returned
<1> QED
  BY <1>2, <1>3, <1>4, <1>5 DEF Inv

\* The watcher's other steps and Run's leave the items alone.
LEMMA OthersKeep ==
  ASSUME Inv, TypeOK',
         UNCHANGED vars \/ CancelRunCtx \/ Select \/ Mark \/ Ask \/ DrainExpires \/ Bound
           \/ Drained \/ RunReturns
  PROVE  Inv'
<1>1. UNCHANGED <<created, inFlight, pos, work, outcome, canceled, reported>>
  BY DEF vars, CancelRunCtx, Select, Mark, Ask, DrainExpires, Bound, Drained, RunReturns, Go,
     itemVars, shutVars
<1>2. /\ trigger # Nothing => trigger' # Nothing
      /\ watcher' \in {"asking", "bounding", "overrun"} => trigger' # Nothing
  <2>1. RunCtx # Nothing
    BY NItemsNat DEF RunCtx, Nothing
  <2> QED
    BY <2>1 DEF Inv, Begun, vars, CancelRunCtx, Select, Mark, Ask, DrainExpires, Bound, Drained,
       RunReturns, Go, itemVars, shutVars, watchVars
<1>3. phase' # "working" => trigger # Nothing /\ inFlight = {}
  BY DEF Inv, LeftReturned, vars, CancelRunCtx, Select, Mark, Ask, DrainExpires, Bound, Drained,
     RunReturns, Go, itemVars, shutVars, watchVars
<1>4. LeftReturned' /\ Begun'
  BY <1>1, <1>2, <1>3 DEF Inv, LeftReturned, Begun
<1>5. InOrder' /\ Unborn' /\ ReportedClosed' /\ AbortBegun' /\ StoppedKnown'
  BY <1>1, <1>2 DEF Inv, InOrder, Unborn, ReportedClosed, AbortBegun, StoppedKnown,
     Returned, Younger
<1>6. NobodyPasses'
  BY <1>1, StandingOrder DEF StoppedHere, Returned
<1> QED
  BY <1>4, <1>5, <1>6 DEF Inv

LEMMA StartWorkKeeps ==
  ASSUME Inv, TypeOK', NEW i \in Items, StartWork(i)
  PROVE  Inv'
<1>1. /\ i \in inFlight /\ i \in 1 .. created /\ outcome[i] = "running"
      /\ work' = [work EXCEPT ![i] = "live"] /\ 1 .. created \subseteq Items
      /\ work \in [Items -> {"none", "live", "fail", "abort", "foreign"}]
      /\ UNCHANGED <<created, inFlight, pos, outcome, canceled, reported, trigger, watcher, phase>>
  BY NItemsNat DEF Inv, TypeOK, Items, StartWork, Running, shutVars, watchVars
<1>2. work'[i] = "live" /\ \A a \in 1 .. created : a # i => work'[a] = work[a]
  BY <1>1
<1>3. InOrder' /\ NobodyPasses'
  BY <1>1, <1>2, StandingOrder DEF StoppedHere, Returned
<1>4. Unborn'
  BY <1>1, NItemsNat DEF Inv, Unborn, TypeOK, Items
<1>5. LeftReturned' /\ Begun' /\ ReportedClosed'
  BY <1>1 DEF Inv, LeftReturned, Begun, ReportedClosed, Younger
<1>6. AbortBegun' /\ StoppedKnown'
  BY <1>1, <1>2 DEF Inv, AbortBegun, StoppedKnown, Returned, Younger
<1> QED
  BY <1>3, <1>4, <1>5, <1>6 DEF Inv

-----------------------------------------------------------------------------
(* The theorems *)

LEMMA InvNext == Inv /\ AskedLast /\ [Next]_vars => Inv'
<1> SUFFICES ASSUME Inv, AskedLast, [Next]_vars PROVE Inv'
  OBVIOUS
<1>1. TypeOK'
  BY TypeNext DEF Inv
<1> QED
  BY <1>1, CreateKeeps, MoveToKeeps, StartWorkKeeps, FinishKeeps, ReturnKeeps, WorkEndsKeeps,
     OverrunKeeps, OthersKeep DEF Next

LEMMA InvHolds == Spec => []Inv
<1>1. Init => Inv /\ AskedLast
  BY InvInit, TypeInit
<1>2. Inv /\ AskedLast /\ [Next]_vars => (Inv /\ AskedLast)'
  BY InvNext, AskedNext
<1> QED
  BY <1>1, <1>2, PTL DEF Spec

\* No younger item ever gets past one that failed or was aborted in this run, by
\* its processor or by work nobody joined, whatever else items return.
THEOREM NobodyPassesStoppedHere == Spec => []NobodyPasses
<1>1. Inv => NobodyPasses
  BY DEF Inv
<1> QED
  BY <1>1, InvHolds, PTL

\* Where the ShutdownError of another run comes from.
ForeignReturned ==
    \A i \in Items : "foreign" \in {outcome[i], work[i]} => "foreign" \in Outcomes

LEMMA ForeignNext == TypeOK /\ ForeignReturned /\ [Next]_vars => ForeignReturned'
<1> SUFFICES ASSUME TypeOK, ForeignReturned, [Next]_vars PROVE ForeignReturned'
  OBVIOUS
<1>0. /\ outcome \in [Items -> {"running", "ok", "fail", "abort", "foreign"}]
      /\ work \in [Items -> {"none", "live", "fail", "abort", "foreign"}]
  BY DEF TypeOK
<1>1. \A i \in Items, err \in Outcomes : AsAbort(i, err) = "foreign" => "foreign" \in Outcomes
  BY DEF AsAbort, ForeignReturned
<1>2. ASSUME NEW i \in Items, NEW out \in Outcomes, Return(i, out) PROVE ForeignReturned'
  <2> DEFINE eff == AsAbort(i, out)
  <2>1. /\ outcome' = [outcome EXCEPT ![i] = eff] /\ work' = work
        /\ eff = "foreign" => "foreign" \in Outcomes
    BY <1>1, <1>2 DEF Return
  <2> HIDE DEF eff
  <2> QED
    BY <1>0, <2>1 DEF ForeignReturned
<1>3. ASSUME NEW i \in Items, NEW end \in Outcomes, WorkEnds(i, end) PROVE ForeignReturned'
  <2> DEFINE eff == AsAbort(i, end)
  <2>1. /\ work' = [work EXCEPT ![i] = IF eff = "ok" THEN "none" ELSE eff] /\ outcome' = outcome
        /\ eff = "foreign" => "foreign" \in Outcomes
    BY <1>1, <1>3 DEF WorkEnds
  <2> HIDE DEF eff
  <2> QED
    BY <1>0, <2>1 DEF ForeignReturned
<1>4. ASSUME NEW i \in Items, StartWork(i) PROVE ForeignReturned'
  BY <1>0, <1>4 DEF StartWork, ForeignReturned
<1>5. CASE UNCHANGED <<outcome, work>>
  BY <1>5 DEF ForeignReturned
<1> QED
  BY <1>2, <1>3, <1>4, <1>5 DEF Next, vars, itemVars, Create, CancelRunCtx, Select, Mark, Ask,
     DrainExpires, Bound, Overrun, Drained, RunReturns, MoveTo, Finish, Go

\* So the ShutdownError of another run is the only way past a stopped item: where
\* neither a processor nor its work returns one, nobody ever gets past.
THEOREM NobodyPassesStopped ==
  ASSUME "foreign" \notin Outcomes
  PROVE  Spec => []NobodyGetsPast
<1>1. Init => TypeOK /\ AskedLast /\ ForeignReturned
  BY TypeInit DEF Init, ForeignReturned
<1>2. TypeOK /\ AskedLast /\ ForeignReturned /\ [Next]_vars
        => (TypeOK /\ AskedLast /\ ForeignReturned)'
  BY TypeNext, AskedNext, ForeignNext
<1>3. TypeOK /\ ForeignReturned /\ NobodyPasses => NobodyGetsPast
  BY NItemsNat DEF TypeOK, ForeignReturned, NobodyPasses, NobodyGetsPast, Stopped, Items
<1> QED
  BY <1>1, <1>2, <1>3, NobodyPassesStoppedHere, PTL DEF Spec

\* When Run returns, every failure has been reported, whatever else items return.
THEOREM EveryFailureReported == Spec => []FailuresReported
<1>1. Inv => FailuresReported
  BY DEF Inv, FailuresReported, LeftReturned, StoppedKnown, Returned, TypeOK
<1> QED
  BY <1>1, InvHolds, PTL

-----------------------------------------------------------------------------
(* The result of Run *)

\* The recorded trigger and problem are the first two events, at any time.
LogTells ==
    /\ log \in Seq(Events \ {Nothing})
    /\ log = <<>> => trigger = Nothing /\ drainErr = Nothing
    /\ log # <<>> => /\ trigger = log[1]
                     /\ drainErr = IF Len(log) > 1 THEN log[2] ELSE Nothing

\* Behind the first select the shutdown has begun, and it has when Run's workers
\* are gone.
Watched ==
    /\ watcher \in {"asking", "bounding", "overrun"} => trigger # Nothing
    /\ phase # "working" => trigger # Nothing

\* An event is appended, and recorded where there is room for it.
LEMMA EventKeeps ==
  ASSUME LogTells, NEW e \in Events \ {Nothing}, log' = Append(log, e),
         trigger' = IF trigger = Nothing THEN e ELSE trigger,
         drainErr' = IF trigger # Nothing /\ drainErr = Nothing THEN e ELSE drainErr
  PROVE  LogTells' /\ trigger' # Nothing
<1>1. log \in Seq(Events \ {Nothing}) /\ log' \in Seq(Events \ {Nothing}) /\ log' # <<>>
  BY DEF LogTells
<1>2. CASE log = <<>>
  <2>1. Len(log') = 1 /\ log'[1] = e
    BY <1>1, <1>2
  <2> QED
    BY <1>1, <1>2, <2>1 DEF LogTells
<1>3. CASE log # <<>>
  <2>1. Len(log) \in Nat \ {0} /\ Len(log') = Len(log) + 1 /\ log'[1] = log[1]
        /\ log[1] # Nothing
    BY <1>1, <1>3
  <2>2. CASE Len(log) = 1
    BY <1>1, <1>3, <2>1, <2>2 DEF LogTells
  <2>3. CASE Len(log) > 1
    <3>1. log'[2] = log[2] /\ log[2] # Nothing
      BY <1>1, <2>3
    <3> QED
      BY <1>1, <1>3, <2>1, <2>3, <3>1 DEF LogTells
  <2>4. Len(log) = 1 \/ Len(log) > 1
    <3>1. \A n \in Nat \ {0} : n = 1 \/ n > 1
      OBVIOUS
    <3> QED
      BY <2>1, <3>1
  <2> QED
    BY <2>2, <2>3, <2>4
<1> QED
  BY <1>2, <1>3

\* So does a failure, whether or not it is the item's first.
LEMMA FailTells ==
  ASSUME TypeOK, LogTells, NEW i \in inFlight, ItemFailed(i)
  PROVE  LogTells' /\ (trigger # Nothing => trigger' # Nothing)
<1>1. i \in Events \ {Nothing}
  <2>1. i \in 1 .. created /\ created \in 0 .. NItems
    BY DEF TypeOK
  <2> QED
    BY <2>1, NItemsNat DEF Events, Nothing
<1>2. CASE i \in reported
  BY <1>2 DEF ItemFailed, LogTells, shutVars
<1>3. CASE i \notin reported
  BY <1>1, <1>3, EventKeeps DEF ItemFailed
<1> QED
  BY <1>2, <1>3

LEMMA SettleTells ==
  ASSUME TypeOK, LogTells, NEW i \in inFlight, NEW out, NEW self, SettleOutcome(i, out, self)
  PROVE  LogTells' /\ (trigger # Nothing => trigger' # Nothing)
<1>1. CASE "fail" \in {out, work[i]}
  BY <1>1, FailTells DEF SettleOutcome
<1>2. CASE "fail" \notin {out, work[i]}
  BY <1>2 DEF SettleOutcome, LogTells
<1> QED
  BY <1>1, <1>2

LEMMA TellsNext ==
  TypeOK /\ LogTells /\ Watched /\ [Next]_vars => (LogTells /\ Watched)'
<1> SUFFICES ASSUME TypeOK, LogTells, Watched, [Next]_vars PROVE (LogTells /\ Watched)'
  OBVIOUS
<1>1. CASE Mark
  <2>1. RunCtx \in Events \ {Nothing}
    BY NItemsNat DEF RunCtx, Events, Nothing
  <2>2. CASE trigger = Nothing
    <3>1. LogTells' /\ trigger' # Nothing
      BY <1>1, <2>1, <2>2, EventKeeps DEF Mark
    <3> QED
      BY <3>1 DEF Watched
  <2>3. CASE trigger # Nothing
    BY <1>1, <2>3 DEF Mark, LogTells, Watched
  <2> QED
    BY <2>2, <2>3
<1>2. CASE Overrun
  <2>1. /\ trigger # Nothing /\ trigger' = trigger
        /\ DrainTimeout \in Events \ {Nothing}
    BY <1>2, NItemsNat DEF Watched, Overrun, DrainTimeout, Events, Nothing
  <2>2. CASE inFlight = {}
    BY <1>2, <2>1, <2>2 DEF Overrun, LogTells, Watched
  <2>3. CASE inFlight # {}
    BY <1>2, <2>1, <2>3, EventKeeps DEF Overrun, Watched
  <2> QED
    BY <2>2, <2>3
<1>3. ASSUME NEW i \in Items, NEW out \in Outcomes, Return(i, out) PROVE (LogTells /\ Watched)'
  <2>1. /\ i \in inFlight /\ UNCHANGED <<watcher, phase>>
        /\ \E eff, self : SettleOutcome(i, eff, self)
    BY <1>3 DEF Return, Running, watchVars
  <2> QED
    BY <2>1, SettleTells DEF Watched
<1>4. ASSUME NEW i \in Items, Finish(i) PROVE (LogTells /\ Watched)'
  <2>1. /\ i \in inFlight /\ UNCHANGED <<watcher, phase>>
        /\ \E eff, self : SettleOutcome(i, eff, self)
    BY <1>4 DEF Finish, watchVars
  <2> QED
    BY <2>1, SettleTells DEF Watched
<1>5. ASSUME NEW i \in Items, NEW end \in Outcomes, WorkEnds(i, end)
      PROVE  (LogTells /\ Watched)'
  <2>1. /\ i \in inFlight /\ UNCHANGED <<watcher, phase>>
        /\ ItemFailed(i) \/ UNCHANGED shutVars
    BY <1>5 DEF WorkEnds, watchVars
  <2>2. LogTells' /\ (trigger # Nothing => trigger' # Nothing)
    BY <2>1, FailTells DEF LogTells, shutVars
  <2> QED
    BY <2>1, <2>2 DEF Watched
<1>6. ASSUME UNCHANGED vars \/ Create \/ CancelRunCtx \/ Select \/ Ask \/ DrainExpires \/ Bound
               \/ Drained \/ RunReturns \/ \E i \in Items : MoveTo(i) \/ StartWork(i)
      PROVE  (LogTells /\ Watched)'
  <2>1. UNCHANGED <<log, trigger, drainErr>>
    BY <1>6 DEF vars, shutVars, Create, CancelRunCtx, Select, Ask, DrainExpires, Bound, Drained,
       RunReturns, MoveTo, StartWork
  <2>2. Watched'
    BY <1>6, <2>1 DEF Watched, vars, watchVars, Go, Create, CancelRunCtx, Select, Ask,
       DrainExpires, Bound, Drained, RunReturns, MoveTo, StartWork
  <2> QED
    BY <2>1, <2>2 DEF LogTells
<1> QED
  BY <1>1, <1>2, <1>3, <1>4, <1>5, <1>6 DEF Next

\* Run returns the first event of the run as the reason of the shutdown and the
\* second as the problem of the drain, in whatever order they are noticed.
THEOREM ResultIsWhatHappened == Spec => []ResultTellsEvents
<1>1. Init => TypeOK /\ AskedLast /\ LogTells /\ Watched
  BY TypeInit DEF Init, LogTells, Watched, Nothing
<1>2. TypeOK /\ AskedLast /\ LogTells /\ Watched /\ [Next]_vars
        => (TypeOK /\ AskedLast /\ LogTells /\ Watched)'
  BY TypeNext, AskedNext, TellsNext
<1>3. LogTells /\ Watched => ResultTellsEvents
  BY DEF LogTells, Watched, ResultTellsEvents
<1> QED
  BY <1>1, <1>2, <1>3, PTL DEF Spec

-----------------------------------------------------------------------------
(* The drain is graceful *)

\* The drain has not run into its timeout.
NoTimeoutYet == DrainTimeout \notin {log[k] : k \in DOMAIN log}

\* Every canceled item stands at or behind a stopped one.
BehindAStopped == \A a \in canceled : \E j \in 1 .. a : Stopped(j)

LEMMA TimeoutStays ==
  ASSUME LogTells, NEW e, log' = Append(log, e), NoTimeoutYet'
  PROVE  NoTimeoutYet /\ e # DrainTimeout
<1>1. /\ DOMAIN log = 1 .. Len(log) /\ DOMAIN log' = 1 .. Len(log) + 1
      /\ Len(log) \in Nat /\ log'[Len(log) + 1] = e
      /\ \A k \in 1 .. Len(log) : log'[k] = log[k]
  BY DEF LogTells
<1> QED BY <1>1 DEF NoTimeoutYet

\* An item that stopped stays so: what it returned and how its work ended are final.
LEMMA StoppedStays ==
  ASSUME TypeOK, [Next]_vars, NEW a \in Int, 1 <= a, Stopped(a)
  PROVE  Stopped(a)'
<1>1. a \in Items /\ a <= created /\ created \in Int
  BY NItemsNat DEF Stopped, StoppedHere, Returned, TypeOK, Items
<1>2. created' = created \/ created' = created + 1
  BY DEF Next, vars, itemVars, Create,
     MoveTo, StartWork, Finish, Return, WorkEnds, CancelRunCtx, Select, Mark, Ask, DrainExpires,
     Bound, Overrun, Drained, RunReturns, Go
<1>3. a <= created'
  BY <1>1, <1>2
<1>4. outcome[a] # "running" => outcome'[a] = outcome[a]
  BY <1>1 DEF TypeOK, Next, vars, itemVars, Create, Running,
     MoveTo, StartWork, Finish, Return, WorkEnds, CancelRunCtx, Select, Mark, Ask, DrainExpires,
     Bound, Overrun, Drained, RunReturns, Go
<1>5. work[a] \notin {"none", "live"} => work'[a] = work[a]
  BY <1>1 DEF TypeOK, Next, vars, itemVars, Create, Running,
     MoveTo, StartWork, Finish, Return, WorkEnds, CancelRunCtx, Select, Mark, Ask, DrainExpires,
     Bound, Overrun, Drained, RunReturns, Go
<1> QED BY <1>4, <1>5, <1>3 DEF Stopped, StoppedHere, Returned

\* What an item's failure or abort cancels is itself or behind it, and it has stopped.
LEMMA OwnCascade ==
  ASSUME TypeOK, [Next]_vars, BehindAStopped, NEW i \in inFlight,
         canceled' \subseteq canceled \union {i} \union Younger(i),
         canceled' \subseteq canceled \/ Stopped(i)'
  PROVE  BehindAStopped'
<1>1. /\ canceled \subseteq 1 .. created /\ created \in Int /\ i \in 1 .. created
      /\ inFlight \subseteq 1 .. created
  BY NItemsNat DEF TypeOK
<1> SUFFICES ASSUME NEW a \in canceled' PROVE \E j \in 1 .. a : Stopped(j)'
  BY DEF BehindAStopped
<1>2. CASE a \in canceled
  <2>1. PICK j \in 1 .. a : Stopped(j)
    BY <1>2 DEF BehindAStopped
  <2>2. j \in Int /\ 1 <= j
    BY <1>1, <1>2
  <2> QED BY <2>1, <2>2, StoppedStays
<1>3. CASE a \notin canceled
  <2>1. Stopped(i)' /\ i \in 1 .. a
    BY <1>1, <1>3 DEF Younger
  <2> QED BY <2>1
<1> QED BY <1>2, <1>3

\* What stops an item.
Stops == {"fail", "abort", "foreign"}

LEMMA SettleCancels ==
  ASSUME TypeOK, LogTells, NEW i \in inFlight, NEW out, NEW self,
         SettleOutcome(i, out, self), self \subseteq {i}, self = {} \/ out \in Aborts
  PROVE  /\ canceled' \subseteq canceled \union {i} \union Younger(i)
         /\ \/ canceled' \subseteq canceled
            \/ {out, work[i]} \cap Stops # {}
         /\ NoTimeoutYet' => NoTimeoutYet
<1>1. CASE "fail" \in {out, work[i]}
  BY <1>1, TimeoutStays DEF SettleOutcome, ItemFailed, Cascade, NoTimeoutYet, shutVars, Stops
<1>2. CASE "fail" \notin {out, work[i]}
  BY <1>2 DEF SettleOutcome, Cascade, NoTimeoutYet, Aborts, Stops
<1> QED BY <1>1, <1>2

LEMMA GraceNext ==
  ASSUME TypeOK, LogTells, NoTimeoutYet => BehindAStopped, [Next]_vars, NoTimeoutYet'
  PROVE  BehindAStopped'
<1>0. /\ outcome \in [Items -> {"running", "ok", "fail", "abort", "foreign"}]
      /\ work \in [Items -> {"none", "live", "fail", "abort", "foreign"}]
      /\ inFlight \subseteq 1 .. created /\ created \in Int
  BY NItemsNat DEF TypeOK
<1>1. ASSUME NEW i \in Items, NEW out \in Outcomes, Return(i, out) PROVE BehindAStopped'
  <2>1. PICK eff, self :
          /\ eff \in Ends /\ outcome' = [outcome EXCEPT ![i] = eff]
          /\ self \subseteq {i} /\ (self = {} \/ eff \in Aborts)
          /\ SettleOutcome(i, eff, self)
    BY <1>1, AsAbortType DEF Return
  <2>2. /\ i \in inFlight /\ i <= created /\ work' = work /\ created' = created
        /\ outcome'[i] = eff
    BY <1>0, <1>1, <2>1 DEF Return, Running
  <2>3. /\ canceled' \subseteq canceled \union {i} \union Younger(i)
        /\ NoTimeoutYet' => NoTimeoutYet
        /\ \/ canceled' \subseteq canceled
           \/ {eff, work[i]} \cap Stops # {}
    BY <2>1, <2>2, SettleCancels
  <2>4. canceled' \subseteq canceled \/ Stopped(i)'
    BY <2>1, <2>2, <2>3 DEF Stopped, StoppedHere, Returned, Stops, Ends
  <2> QED BY <2>2, <2>3, <2>4, OwnCascade
<1>2. ASSUME NEW i \in Items, Finish(i) PROVE BehindAStopped'
  <2> DEFINE self == {}
  <2>1. /\ i \in inFlight /\ i <= created /\ outcome[i] # "running"
        /\ SettleOutcome(i, outcome[i], self) /\ UNCHANGED <<created, outcome, work>>
    BY <1>0, <1>2 DEF Finish
  <2>2. self = {}
    OBVIOUS
  <2> HIDE DEF self
  <2>3. /\ canceled' \subseteq canceled \union {i} \union Younger(i)
        /\ NoTimeoutYet' => NoTimeoutYet
        /\ \/ canceled' \subseteq canceled
           \/ {outcome[i], work[i]} \cap Stops # {}
    BY <2>1, <2>2, SettleCancels
  <2>4. canceled' \subseteq canceled \/ Stopped(i)'
    BY <2>1, <2>3 DEF Stopped, StoppedHere, Returned, Stops
  <2> QED BY <2>1, <2>3, <2>4, OwnCascade
<1>3. ASSUME NEW i \in Items, NEW end \in Outcomes, WorkEnds(i, end)
      PROVE  BehindAStopped'
  <2>1. /\ i \in inFlight /\ i <= created /\ UNCHANGED <<created, outcome>>
    BY <1>0, <1>3 DEF WorkEnds
  <2>2. CASE UNCHANGED shutVars
    BY <2>1, <2>2, OwnCascade DEF shutVars, NoTimeoutYet
  <2>3. CASE ItemFailed(i) /\ work'[i] = "fail" /\ outcome[i] # "running"
    <3>1. Stopped(i)'
      BY <2>1, <2>3 DEF Stopped, StoppedHere, Returned
    <3>2. /\ canceled' \subseteq canceled \union {i} \union Younger(i)
          /\ NoTimeoutYet
      BY <2>3, TimeoutStays DEF ItemFailed, Cascade, NoTimeoutYet, shutVars
    <3> QED BY <2>1, <3>1, <3>2, OwnCascade
  <2> QED BY <1>0, <1>3, <2>2, <2>3 DEF WorkEnds
<1>4. CASE \/ UNCHANGED vars \/ Create \/ CancelRunCtx \/ Select \/ Mark \/ Ask \/ DrainExpires
           \/ Bound \/ Overrun \/ Drained \/ RunReturns
           \/ \E i \in Items : MoveTo(i) \/ StartWork(i)
  <2>1. canceled' = canceled /\ NoTimeoutYet
    <3>1. CASE Overrun
      BY <3>1, TimeoutStays DEF Overrun, NoTimeoutYet
    <3>2. CASE Mark
      BY <3>2, TimeoutStays DEF Mark, NoTimeoutYet
    <3>3. CASE ~Overrun /\ ~Mark
      BY <1>4, <3>3 DEF NoTimeoutYet, vars, shutVars, Create, CancelRunCtx, Select, Ask,
         DrainExpires, Bound, Drained, RunReturns, MoveTo, StartWork
    <3> QED BY <3>1, <3>2, <3>3
  <2>2. \A a \in canceled : a \in Int
    BY NItemsNat DEF TypeOK
  <2> SUFFICES ASSUME NEW a \in canceled PROVE \E j \in 1 .. a : Stopped(j)'
    BY <2>1 DEF BehindAStopped
  <2>3. PICK j \in 1 .. a : Stopped(j)
    BY <2>1 DEF BehindAStopped
  <2>4. j \in Int /\ 1 <= j
    BY <2>2
  <2> QED BY <2>3, <2>4, StoppedStays
<1> QED BY <1>1, <1>2, <1>3, <1>4 DEF Next

\* The drain is graceful: before its timeout only items at or behind one that
\* failed or was aborted are canceled, whatever processors return.
THEOREM GracefulDrain == Spec => []OlderLeftAlone
<1> DEFINE Grace == NoTimeoutYet => BehindAStopped
<1>1. Init => TypeOK /\ AskedLast /\ LogTells /\ Watched /\ Grace
  BY TypeInit DEF Init, LogTells, Watched, Nothing, BehindAStopped
<1>2. TypeOK /\ AskedLast /\ LogTells /\ Watched /\ Grace /\ [Next]_vars
        => (TypeOK /\ AskedLast /\ LogTells /\ Watched /\ Grace)'
  BY TypeNext, AskedNext, TellsNext, GraceNext
<1>3. Grace => OlderLeftAlone
  BY DEF OlderLeftAlone, NoTimeoutYet, BehindAStopped
<1> QED
  BY <1>1, <1>2, <1>3, PTL DEF Spec
=============================================================================
