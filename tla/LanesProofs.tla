---------------------------- MODULE LanesProofs ----------------------------
(***************************************************************************)
(* The lane's safety, for any number of items, stages and tasks.           *)
(*                                                                         *)
(* A step of Lanes commits a composition of helpers.  The proofs follow    *)
(* that: Core is what every helper keeps of a state record, also where the *)
(* entrance is free although somebody waits for it; helpers that only deal *)
(* in errors, cancellations and reports are Calm; pump turns Core into     *)
(* Core and InUse, and every step ends with both.  The second half follows *)
(* the errors in the same way: Heard is what every helper keeps of them,   *)
(* and the calm ones are Soft, too: they add errors and hide none.         *)
(***************************************************************************)
EXTENDS Lanes, WellFoundedInduction, SequenceTheorems, TLAPS

\* The state records a step works on.
States == [item : [Items -> ItemRecords], queued : [Items -> Nat],
           child : Seq(ChildRecords), stopping : BOOLEAN]

\* t differs from s in nothing but errors, cancellations and reports.
Calm(s, t) ==
    /\ t \in States
    /\ t.queued = s.queued
    /\ Len(t.child) = Len(s.child)
    /\ \A c \in 1 .. Len(s.child) :
          /\ t.child[c].of = s.child[c].of /\ t.child[c].at = s.child[c].at
          /\ t.child[c].hold = s.child[c].hold /\ t.child[c].work = s.child[c].work
          /\ t.child[c].returned = s.child[c].returned
          /\ t.child[c].finished = s.child[c].finished
    /\ \A p \in Items :
          /\ t.item[p].body = s.item[p].body
          /\ t.item[p].returned = s.item[p].returned
          /\ t.item[p].finished = s.item[p].finished

\* What a child is made of.
LEMMA ChildType ==
  ASSUME NEW s \in States
  PROVE  /\ s.child \in Seq(ChildRecords) /\ Len(s.child) \in Nat
         /\ DOMAIN s.child = 1 .. Len(s.child)
         /\ \A c \in 1 .. Len(s.child) :
               s.child[c] \in ChildRecords /\ s.child[c].at \in Nat /\ s.child[c].of \in Items
<1>1. s.child \in Seq(ChildRecords)
  BY DEF States
<1>2. \A k \in ChildRecords : k.at \in Nat /\ k.of \in Items
  BY StagesNat DEF ChildRecords, Places
<1>3. \A c \in 1 .. Len(s.child) : s.child[c] \in ChildRecords
  BY <1>1
<1> QED BY <1>1, <1>2, <1>3

\* The naturals are well ordered.
LEMMA NatMin ==
  ASSUME NEW T \in SUBSET Nat, T # {}
  PROVE  \E n \in T : \A m \in T : n <= m
<1> DEFINE R == OpToRel(<, Nat)
<1>1. IsWellFoundedOn(R, Nat)
  BY NatLessThanWellFounded
<1>2. \A m, n \in Nat : m < n => <<m,n>> \in R
  BY DEF OpToRel
<1> HIDE DEF R
<1>3. \E x \in T : \A y \in T : ~ (<<y, x>> \in R)
  BY <1>1, WFMin
<1>4. PICK n \in T : \A m \in T : ~ (<<m, n>> \in R)
  BY <1>3
<1>5. \A m \in T : ~ (m < n)
  BY <1>2, <1>4
<1> QED BY <1>5

\* The maximum of a non-empty bounded set of naturals.
LEMMA SetMax ==
  ASSUME NEW m \in Nat, NEW A \in SUBSET (1 .. m), A # {}
  PROVE  Max(A) \in A /\ \A a \in A : a <= Max(A)
<1> DEFINE B == {m - a : a \in A}
<1>1. B \in SUBSET Nat /\ B # {}
  <2>1. \A a \in A : a \in Nat /\ m - a \in Nat
    OBVIOUS
  <2> QED BY <2>1
<1>2. PICK c \in B : \A d \in B : c <= d
  BY <1>1, NatMin
<1>3. PICK a \in A : c = m - a
  BY <1>2
<1>4. \A d \in A : a >= d
  <2> TAKE d \in A
  <2>1. m - d \in B
    OBVIOUS
  <2>2. c <= m - d /\ a \in Nat /\ d \in Nat
    BY <1>2, <2>1
  <2> QED BY <1>3, <2>2
<1>5. Max(A) \in A /\ \A d \in A : Max(A) >= d
  BY <1>4 DEF Max
<1> QED BY <1>5

\* The helpers that are calm, innermost first.
LEMMA CanceledType ==
  ASSUME NEW it \in ItemRecords, NEW cause \in Causes
  PROVE  /\ Canceled(it, cause) \in ItemRecords
         /\ Canceled(it, cause).body = it.body
         /\ Canceled(it, cause).returned = it.returned
         /\ Canceled(it, cause).finished = it.finished
  BY DEF Canceled, ItemRecords, Causes

LEMMA CancelLaterCalm ==
  ASSUME NEW s \in States, NEW p \in Nat
  PROVE  Calm(s, CancelLater(s, p))
<1> DEFINE t == CancelLater(s, p)
<1>1. s.item \in [Items -> ItemRecords] /\ s.child \in Seq(ChildRecords)
  BY DEF States
<1>2. \A q \in Items : Canceled(s.item[q], "conveyor") \in ItemRecords
  BY <1>1, CanceledType DEF Causes
<1>3. t.item \in [Items -> ItemRecords] /\ t.queued = s.queued /\ t.child = s.child
         /\ t \in States
  BY <1>1, <1>2 DEF CancelLater, States
<1>4. \A q \in Items : /\ t.item[q].body = s.item[q].body
                       /\ t.item[q].returned = s.item[q].returned
                       /\ t.item[q].finished = s.item[q].finished
  BY <1>1, CanceledType DEF CancelLater, States, Causes
<1> QED BY <1>1, <1>3, <1>4 DEF Calm

LEMMA CalmTransitive ==
  ASSUME NEW s \in States, NEW t, NEW u, Calm(s, t), Calm(t, u)
  PROVE  Calm(s, u)
  BY DEF Calm

LEMMA CalmReflexive ==
  ASSUME NEW s \in States
  PROVE  Calm(s, s)
  BY DEF Calm

LEMMA FailedCalm ==
  ASSUME NEW s \in States, NEW p \in Items
  PROVE  Calm(s, [s EXCEPT !.item[p].failed = TRUE, !.stopping = TRUE])
<1>1. s.item[p] \in ItemRecords
  BY DEF States
<1>2. [s.item[p] EXCEPT !.failed = TRUE] \in ItemRecords
  BY <1>1 DEF ItemRecords
<1> QED BY <1>1, <1>2 DEF Calm, States, ItemRecords

LEMMA RecordedCalm ==
  ASSUME NEW s \in States, NEW p \in Items, NEW e \in Errors
  PROVE  Calm(s, [s EXCEPT !.item[p].err = e,
                           !.item[p].dead = IF @ = "no" /\ e = "task" THEN "task" ELSE @])
<1> DEFINE cause == IF s.item[p].dead = "no" /\ e = "task" THEN "task" ELSE s.item[p].dead
<1>1. s.item[p] \in ItemRecords /\ cause \in Causes
  BY DEF States, ItemRecords, Causes
<1>2. [s.item[p] EXCEPT !.err = e, !.dead = cause] \in ItemRecords
  BY <1>1 DEF ItemRecords
<1> HIDE DEF cause
<1>3. Calm(s, [s EXCEPT !.item[p].err = e, !.item[p].dead = cause])
  BY <1>1, <1>2 DEF Calm, States, ItemRecords
<1>4. [s EXCEPT !.item[p].err = e,
                !.item[p].dead = IF @ = "no" /\ e = "task" THEN "task" ELSE @]
        = [s EXCEPT !.item[p].err = e, !.item[p].dead = cause]
  BY <1>1 DEF cause, States, ItemRecords
<1> QED BY <1>3, <1>4

LEMMA ItemFailedCalm ==
  ASSUME NEW s \in States, NEW p \in Items
  PROVE  Calm(s, ItemFailed(s, p))
<1> DEFINE u == [s EXCEPT !.item[p].failed = TRUE, !.stopping = TRUE]
<1>1. ItemFailed(s, p) = IF s.item[p].failed THEN s ELSE CancelLater(u, p)
  BY DEF ItemFailed
<1>2. Calm(s, u)
  BY FailedCalm
<1> HIDE DEF u
<1>3. u \in States
  BY <1>2 DEF Calm
<1>4. Calm(u, CancelLater(u, p))
  BY <1>3, CancelLaterCalm DEF Items
<1>5. Calm(s, CancelLater(u, p))
  BY <1>2, <1>4, CalmTransitive
<1> QED BY <1>1, <1>5, CalmReflexive

LEMMA RecordErrCalm ==
  ASSUME NEW s \in States, NEW p \in Items, NEW err \in Errors
  PROVE  Calm(s, RecordErr(s, p, err))
<1> DEFINE e == AsAbort(s.item[p].canceled, err)
           u == [s EXCEPT !.item[p].err = e,
                          !.item[p].dead = IF @ = "no" /\ e = "task" THEN "task" ELSE @]
<1>1. \/ RecordErr(s, p, err) = s
      \/ RecordErr(s, p, err) = u
      \/ RecordErr(s, p, err) = ItemFailed(u, p)
  BY DEF RecordErr
<1>2. e \in Errors
  BY DEF AsAbort, Errors
<1> HIDE DEF e
<1>3. Calm(s, u)
  BY <1>2, RecordedCalm
<1> HIDE DEF u
<1>4. u \in States
  BY <1>3 DEF Calm
<1>5. Calm(s, ItemFailed(u, p))
  BY <1>3, <1>4, ItemFailedCalm, CalmTransitive
<1> QED BY <1>1, <1>3, <1>5, CalmReflexive

\* One child is replaced.
LEMMA ChildReplaced ==
  ASSUME NEW s \in States, NEW c \in 1 .. Len(s.child), NEW k \in ChildRecords,
         NEW t, t = [s EXCEPT !.child = [@ EXCEPT ![c] = k]]
  PROVE  /\ t \in States /\ Len(t.child) = Len(s.child)
         /\ t.child[c] = k
         /\ \A d \in 1 .. Len(s.child) : d # c => t.child[d] = s.child[d]
         /\ t.item = s.item /\ t.queued = s.queued /\ t.stopping = s.stopping
<1>1. s.child \in Seq(ChildRecords) /\ DOMAIN s.child = 1 .. Len(s.child)
  BY DEF States
<1>2. [s.child EXCEPT ![c] = k] \in Seq(ChildRecords)
         /\ Len([s.child EXCEPT ![c] = k]) = Len(s.child)
  BY <1>1
<1>3. t.child = [s.child EXCEPT ![c] = k]
  BY DEF States
<1> QED BY <1>1, <1>2, <1>3 DEF States

LEMMA ChildFailedCalm ==
  ASSUME NEW s \in States, NEW c \in 1 .. Len(s.child)
  PROVE  Calm(s, ChildFailed(s, c))
<1> DEFINE k == [s.child[c] EXCEPT !.failed = TRUE]
           u == [s EXCEPT !.child[c].failed = TRUE]
           p == s.child[c].of
<1>1. ChildFailed(s, c) = IF s.child[c].failed THEN s ELSE RecordErr(u, p, "task")
  BY DEF ChildFailed
<1>2. s.child[c] \in ChildRecords
  BY DEF States
<1>3. /\ k \in ChildRecords /\ p \in Items
      /\ k.of = s.child[c].of /\ k.at = s.child[c].at /\ k.hold = s.child[c].hold
      /\ k.work = s.child[c].work /\ k.returned = s.child[c].returned
      /\ k.finished = s.child[c].finished
  BY <1>2 DEF ChildRecords
<1>4. u = [s EXCEPT !.child = [@ EXCEPT ![c] = k]]
  OBVIOUS
<1> HIDE DEF u, k
<1>5. /\ u \in States /\ Len(u.child) = Len(s.child)
      /\ u.child[c] = k
      /\ \A d \in 1 .. Len(s.child) : d # c => u.child[d] = s.child[d]
      /\ u.item = s.item /\ u.queued = s.queued
  BY <1>3, <1>4, ChildReplaced
<1>6. Calm(s, u)
  BY <1>3, <1>5 DEF Calm
<1> HIDE DEF p
<1>7. Calm(u, RecordErr(u, p, "task"))
  BY <1>3, <1>5, RecordErrCalm DEF Errors
<1>8. Calm(s, RecordErr(u, p, "task"))
  BY <1>6, <1>7, CalmTransitive
<1> QED BY <1>1, <1>8, CalmReflexive

LEMMA SettleCalm ==
  ASSUME NEW s \in States
  PROVE  /\ \A p \in Items : Calm(s, SettleItem(s, p))
         /\ \A c \in 1 .. Len(s.child) : Calm(s, SettleChild(s, c))
<1>1. Calm(s, s)
  BY DEF Calm
<1>2. \A p \in Items : Calm(s, SettleItem(s, p))
  BY <1>1, ItemFailedCalm, CancelLaterCalm DEF SettleItem, Items
<1>3. \A c \in 1 .. Len(s.child) : Calm(s, SettleChild(s, c))
  BY <1>1, ChildFailedCalm DEF SettleChild
<1> QED BY <1>2, <1>3

-----------------------------------------------------------------------------
(* The lane's queue *)

\* A nonempty set of items has an oldest.
LEMMA OldestExists ==
  ASSUME NEW S \in SUBSET Items, S # {}
  PROVE  \E p \in Items : Oldest(p, S)
<1> DEFINE R == {ss \in Nat \X Nat : ss[1] < ss[2]}
<1>1. IsWellFoundedOn(R, Nat)
  BY NatLessThanWellFounded DEF OpToRel
<1>2. S \subseteq Nat
  BY DEF Items
<1> HIDE DEF R
<1>3. PICK p \in S : \A q \in S : <<q, p>> \notin R
  BY <1>1, <1>2, WFMin
<1>4. \A q \in S : q < p => <<q, p>> \in R
  BY <1>2 DEF R
<1>5. \A q \in S : ~(q < p)
  BY <1>3, <1>4
<1>6. \A q \in S : p <= q
  BY <1>2, <1>5
<1> QED BY <1>3, <1>6 DEF Oldest

\* grabNext's drops empty queues and touch nobody's life.
LEMMA DropDeadType ==
  ASSUME NEW s \in States
  PROVE  /\ DropDead(s) \in States
         /\ DropDead(s).child = s.child
         /\ \A p \in Items :
               /\ DropDead(s).queued[p] = IF p \in Dropped(s) THEN 0 ELSE s.queued[p]
               /\ DropDead(s).item[p].body = s.item[p].body
               /\ DropDead(s).item[p].returned = s.item[p].returned
               /\ DropDead(s).item[p].finished = s.item[p].finished
<1>1. \A p \in Items : s.item[p] \in ItemRecords
                        /\ [s.item[p] EXCEPT !.err = "abort"] \in ItemRecords
  BY DEF States, ItemRecords, Errors
<1> QED BY <1>1 DEF DropDead, States, ItemRecords

\* pump: the entrance is taken, or nobody living waits, or one child starts.
LEMMA PumpCases ==
  ASSUME NEW s \in States, NEW t, t = Pump(s)
  PROVE  /\ t \in States
         /\ \A q \in Items : /\ t.item[q].body = s.item[q].body
                              /\ t.item[q].returned = s.item[q].returned
                              /\ t.item[q].finished = s.item[q].finished
         /\ \/ EntranceTaken(s) /\ t.child = s.child /\ t.queued = s.queued
            \/ /\ ~EntranceTaken(s) /\ t.child = s.child
               /\ \A q \in Items : t.queued[q] = 0
            \/ /\ ~EntranceTaken(s)
               /\ \A q \in Items : s.queued[q] = 0 => t.queued[q] = 0
               /\ \E p \in Items : /\ s.queued[p] > 0
                                   /\ t.child = Append(s.child, NewChild(p))
<1> DEFINE d == DropDead(s)
<1>1. CASE EntranceTaken(s)
  BY <1>1 DEF Pump
<1>2. CASE ~EntranceTaken(s) /\ Alive(s) = {}
  <2>1. t = d
    BY <1>2 DEF Pump
  <2>2. \A q \in Items : q \in Dropped(s) \/ s.queued[q] = 0
    BY <1>2 DEF Dropped, Waiting, States
  <2> QED BY <1>2, <2>1, <2>2, DropDeadType
<1>3. CASE ~EntranceTaken(s) /\ Alive(s) # {}
  <2> DEFINE p == CHOOSE q \in Items : Oldest(q, Alive(s))
  <2>1. p \in Items /\ Oldest(p, Alive(s))
    BY <1>3, OldestExists DEF Alive, Waiting
  <2>2. t = StartChild(d, p)
    BY <1>3 DEF Pump
  <2>3. \A q \in Items : d.queued[q] = IF q \in Dropped(s) THEN 0 ELSE s.queued[q]
    BY DropDeadType
  <2>4. /\ d \in States /\ d.child = s.child
        /\ \A q \in Items : /\ d.item[q].body = s.item[q].body
                             /\ d.item[q].returned = s.item[q].returned
                             /\ d.item[q].finished = s.item[q].finished
    BY DropDeadType
  <2> HIDE DEF p, d
  <2>5. p \in Alive(s)
    BY <2>1 DEF Oldest
  <2>6. s.queued[p] > 0
    BY <2>5 DEF Alive, Waiting
  <2>7. p \notin Dropped(s)
    <3>1. ~(p < p)
      BY <2>1 DEF Items
    <3> QED BY <2>5, <3>1 DEF Dropped
  <2>8. NewChild(p) \in ChildRecords
    BY <2>1, StagesNat DEF NewChild, ChildRecords, Errors, Outcomes, Places
  <2>9. /\ d.queued[p] = s.queued[p] /\ d.queued \in [Items -> Nat]
        /\ d.child \in Seq(ChildRecords)
    BY <2>1, <2>3, <2>4, <2>7 DEF States
  <2>10. d.queued[p] - 1 \in Nat
    BY <2>1, <2>6, <2>9
  <2>11. /\ t \in States
         /\ t.child = Append(d.child, NewChild(p)) /\ t.item = d.item
         /\ t.queued = [d.queued EXCEPT ![p] = @ - 1]
    <3>1. t = [d EXCEPT !.queued = [d.queued EXCEPT ![p] = d.queued[p] - 1],
                        !.child = Append(d.child, NewChild(p))]
      BY <2>2 DEF StartChild, States
    <3>2. Append(d.child, NewChild(p)) \in Seq(ChildRecords)
      BY <2>8, <2>9
    <3>3. [d.queued EXCEPT ![p] = @ - 1] \in [Items -> Nat]
      BY <2>9, <2>10
    <3>4. t = [item |-> d.item, queued |-> [d.queued EXCEPT ![p] = @ - 1],
               child |-> Append(d.child, NewChild(p)), stopping |-> d.stopping]
      BY <2>4, <3>1 DEF States
    <3>5. d.item \in [Items -> ItemRecords] /\ d.stopping \in BOOLEAN
      BY <2>4 DEF States
    <3>6. t \in States
      BY <3>2, <3>3, <3>4, <3>5 DEF States
    <3> QED BY <3>4, <3>6
  <2>12. \A q \in Items : s.queued[q] = 0 => t.queued[q] = 0
    BY <2>1, <2>3, <2>6, <2>9, <2>11
  <2> QED BY <1>3, <2>1, <2>4, <2>6, <2>11, <2>12
<1> QED BY <1>1, <1>2, <1>3

-----------------------------------------------------------------------------
(* The invariant, of a state record *)

OneHolder(s) ==
    \A c, d \in DOMAIN s.child :
        HoldsEntrance(s.child[c]) /\ HoldsEntrance(s.child[d]) => c = d

InUse(s) == (\E p \in Items : s.queued[p] > 0) => EntranceTaken(s)

InOrder(s) ==
    \A c, d \in Kids(s) : c < d => s.child[c].at >= s.child[d].at

Attached(s) ==
    \A p \in Items :
        s.item[p].finished \/ s.item[p].body \in {"none", "left"} => Idle(s, p)

\* Nobody is over whose callback still runs.
ReturnsFirst(s) ==
    /\ \A p \in Items : s.item[p].finished => s.item[p].returned
    /\ \A c \in DOMAIN s.child : s.child[c].finished => s.child[c].returned

\* What holds between the methods of a cascade, too; the entrance may be free
\* there although somebody waits.
Core(s) ==
    s \in States /\ OneHolder(s) /\ InOrder(s) /\ Attached(s) /\ ReturnsFirst(s)

\* A calm helper keeps it all.
LEMMA CalmKeeps ==
  ASSUME NEW s, Core(s), NEW t, Calm(s, t)
  PROVE  /\ Core(t)
         /\ InUse(s) => InUse(t)
         /\ \A p \in Items : Idle(t, p) <=> Idle(s, p)
<1>1. s \in States /\ t \in States /\ t.queued = s.queued
  BY DEF Core, Calm
<1>2. /\ DOMAIN s.child = 1 .. Len(s.child) /\ DOMAIN t.child = 1 .. Len(s.child)
      /\ Len(t.child) = Len(s.child)
  BY <1>1 DEF States, Calm
<1>3. \A c \in 1 .. Len(s.child) :
         /\ HoldsEntrance(t.child[c]) <=> HoldsEntrance(s.child[c])
         /\ t.child[c].of = s.child[c].of /\ t.child[c].at = s.child[c].at
         /\ t.child[c].finished = s.child[c].finished
         /\ t.child[c].returned = s.child[c].returned
  BY DEF Calm, HoldsEntrance
<1>4. Kids(t) = Kids(s)
  BY <1>2, <1>3 DEF Kids
<1>5. Kids(s) \subseteq 1 .. Len(s.child)
  BY <1>2 DEF Kids
<1>6. \A p \in Items : Idle(t, p) <=> Idle(s, p)
  BY <1>1, <1>3, <1>4, <1>5 DEF Idle
<1>7. OneHolder(t)
  BY <1>2, <1>3 DEF OneHolder, Core
<1>8. InOrder(t)
  BY <1>3, <1>4, <1>5 DEF InOrder, Core
<1>9. Attached(t)
  BY <1>6 DEF Attached, Core, Calm
<1>10. ReturnsFirst(t)
  BY <1>2, <1>3 DEF ReturnsFirst, Core, Calm
<1>11. InUse(s) => InUse(t)
  BY <1>1, <1>2, <1>3 DEF InUse, EntranceTaken
<1> QED BY <1>1, <1>6, <1>7, <1>8, <1>9, <1>10, <1>11 DEF Core

\* pump keeps what holds in a cascade, and after it no task waits for nothing.
LEMMA PumpRestores ==
  ASSUME NEW s, Core(s), NEW t, t = Pump(s)
  PROVE  Core(t) /\ InUse(t)
<1>1. /\ s \in States /\ DOMAIN s.child = 1 .. Len(s.child)
      /\ s.child \in Seq(ChildRecords) /\ Len(s.child) \in Nat
  BY DEF Core, States
<1>2. /\ t \in States
      /\ \A q \in Items : /\ t.item[q].body = s.item[q].body
                           /\ t.item[q].returned = s.item[q].returned
                           /\ t.item[q].finished = s.item[q].finished
  BY <1>1, PumpCases
<1>3. CASE EntranceTaken(s) /\ t.child = s.child /\ t.queued = s.queued
  BY <1>2, <1>3
     DEF Core, InUse, EntranceTaken, OneHolder, InOrder, Attached, Idle, Kids, ReturnsFirst
<1>4. CASE /\ ~EntranceTaken(s) /\ t.child = s.child
           /\ \A q \in Items : t.queued[q] = 0
  BY <1>2, <1>4
     DEF Core, InUse, OneHolder, InOrder, Attached, Idle, Kids, ReturnsFirst
<1>5. CASE /\ ~EntranceTaken(s)
           /\ \A q \in Items : s.queued[q] = 0 => t.queued[q] = 0
           /\ \E p \in Items : s.queued[p] > 0 /\ t.child = Append(s.child, NewChild(p))
  <2> DEFINE n == Len(s.child) + 1
  <2>1. PICK p \in Items : s.queued[p] > 0 /\ t.child = Append(s.child, NewChild(p))
    BY <1>5
  <2>2. /\ NewChild(p).of = p /\ NewChild(p).at = 0
        /\ ~NewChild(p).finished /\ ~NewChild(p).returned
    BY DEF NewChild
  <2>3. /\ DOMAIN t.child = 1 .. n /\ n \in 1 .. n /\ n \notin 1 .. Len(s.child)
        /\ 1 .. n = (1 .. Len(s.child)) \cup {n}
        /\ \A c \in 1 .. Len(s.child) : c < n
    BY <1>1, <2>1
  <2>4. t.child[n] = NewChild(p) /\ \A c \in 1 .. Len(s.child) : t.child[c] = s.child[c]
    BY <1>1, <2>1
  <2> HIDE DEF n
  <2>5. Kids(t) = Kids(s) \cup {n} /\ Kids(s) \subseteq 1 .. Len(s.child)
    BY <1>1, <2>2, <2>3, <2>4 DEF Kids
  <2>6. HoldsEntrance(t.child[n])
    BY <2>2, <2>4 DEF HoldsEntrance
  <2>7. OneHolder(t)
    BY <1>1, <1>5, <2>3, <2>4 DEF OneHolder, EntranceTaken
  <2>8. InOrder(t)
    <3> SUFFICES ASSUME NEW c \in Kids(t), NEW d \in Kids(t), c < d
                 PROVE  t.child[c].at >= t.child[d].at
      BY DEF InOrder
    <3>1. c \in Kids(s)
      BY <1>1, <2>3, <2>5
    <3>2. CASE d \in Kids(s)
      BY <2>4, <2>5, <3>1, <3>2 DEF InOrder, Core
    <3>3. CASE d = n
      <4>1. s.child[c].at \in Nat
        BY <1>1, <2>5, <3>1, ChildType
      <4> QED BY <2>2, <2>4, <2>5, <3>1, <3>3, <4>1
    <3> QED BY <2>5, <3>2, <3>3
  <2>9. Attached(t)
    <3> SUFFICES ASSUME NEW q \in Items,
                        s.item[q].finished \/ s.item[q].body \in {"none", "left"}
                 PROVE  Idle(t, q)
      BY <1>2 DEF Attached
    <3>1. Idle(s, q)
      BY DEF Core, Attached
    <3>2. q # p
      BY <2>1, <3>1 DEF Idle
    <3> QED BY <1>5, <2>2, <2>4, <2>5, <3>1, <3>2 DEF Idle
  <2>10. ReturnsFirst(t)
    BY <1>1, <1>2, <2>2, <2>3, <2>4 DEF ReturnsFirst, Core
  <2>11. InUse(t)
    BY <2>3, <2>6 DEF InUse, EntranceTaken
  <2> QED BY <1>2, <2>7, <2>8, <2>9, <2>10, <2>11 DEF Core
<1> QED BY <1>1, <1>3, <1>4, <1>5, PumpCases

\* One item is replaced.
LEMMA ItemReplaced ==
  ASSUME NEW s, Core(s), NEW p \in Items, NEW it \in ItemRecords,
         it.finished => it.returned,
         it.finished \/ it.body \in {"none", "left"} => Idle(s, p),
         NEW t, t = [s EXCEPT !.item = [@ EXCEPT ![p] = it]]
  PROVE  /\ Core(t)
         /\ InUse(s) => InUse(t)
         /\ t.item[p] = it
         /\ \A q \in Items : Idle(t, q) <=> Idle(s, q)
<1>1. s \in States
  BY DEF Core
<1>2. /\ t \in States /\ t.child = s.child /\ t.queued = s.queued
      /\ t.item = [s.item EXCEPT ![p] = it]
  BY <1>1 DEF States
<1>3. \A q \in Items : t.item[q] = IF q = p THEN it ELSE s.item[q]
  BY <1>1, <1>2 DEF States
<1>4. /\ OneHolder(t) /\ InOrder(t)
      /\ InUse(s) => InUse(t)
      /\ \A q \in Items : Idle(t, q) <=> Idle(s, q)
  BY <1>2 DEF OneHolder, InOrder, InUse, EntranceTaken, Idle, Kids, Core
<1>5. Attached(t)
  BY <1>3, <1>4 DEF Attached, Core
<1>6. ReturnsFirst(t)
  BY <1>2, <1>3 DEF ReturnsFirst, Core
<1> QED BY <1>2, <1>3, <1>4, <1>5, <1>6 DEF Core

\* One child is replaced by itself, moved forward as far as the children ahead
\* let it, or over; it takes the entrance only if it had it.
LEMMA ChildMoved ==
  ASSUME NEW s, Core(s), NEW c \in 1 .. Len(s.child), NEW k \in ChildRecords,
         k.of = s.child[c].of,
         s.child[c].finished => k.finished, k.finished => k.returned,
         HoldsEntrance(k) => HoldsEntrance(s.child[c]),
         \/ k.finished \/ k.at = s.child[c].at
         \/ k.at >= s.child[c].at /\ \A d \in Kids(s) : d < c => s.child[d].at >= k.at,
         NEW t, t = [s EXCEPT !.child = [@ EXCEPT ![c] = k]]
  PROVE  /\ Core(t)
         /\ InUse(s) /\ (HoldsEntrance(s.child[c]) => HoldsEntrance(k)) => InUse(t)
<1>1. /\ s \in States /\ DOMAIN s.child = 1 .. Len(s.child)
      /\ \A d \in 1 .. Len(s.child) : s.child[d].at \in Nat
  BY ChildType DEF Core
<1>2. /\ t \in States /\ Len(t.child) = Len(s.child)
      /\ t.child[c] = k
      /\ \A d \in 1 .. Len(s.child) : d # c => t.child[d] = s.child[d]
      /\ t.item = s.item /\ t.queued = s.queued
  BY <1>1, ChildReplaced
<1>3. DOMAIN t.child = 1 .. Len(s.child)
  BY <1>2 DEF States
<1>4. /\ Kids(t) \subseteq Kids(s) /\ Kids(s) \subseteq 1 .. Len(s.child)
      /\ c \in Kids(t) => ~k.finished
  BY <1>1, <1>2, <1>3 DEF Kids
<1>5. OneHolder(t)
  BY <1>1, <1>2, <1>3 DEF OneHolder, Core
<1>6. InOrder(t)
  <2> SUFFICES ASSUME NEW e \in Kids(t), NEW d \in Kids(t), e < d
               PROVE  t.child[e].at >= t.child[d].at
    BY DEF InOrder
  <2>1. /\ e \in Kids(s) /\ d \in Kids(s) /\ e \in 1 .. Len(s.child) /\ d \in 1 .. Len(s.child)
        /\ s.child[e].at >= s.child[d].at
    BY <1>4 DEF Core, InOrder
  <2>2. k.at \in Nat
    BY StagesNat DEF ChildRecords, Places
  <2>3. CASE e = c
    BY <1>1, <1>2, <1>4, <2>1, <2>2, <2>3
  <2>4. CASE d = c
    BY <1>1, <1>2, <1>4, <2>1, <2>2, <2>4
  <2> QED BY <1>2, <2>1, <2>3, <2>4
<1>7. Attached(t)
  <2>1. \A d \in Kids(t) : t.child[d].of = s.child[d].of
    BY <1>2, <1>4
  <2>2. \A p \in Items : Idle(s, p) => Idle(t, p)
    BY <1>2, <1>4, <2>1 DEF Idle
  <2> QED BY <1>2, <2>2 DEF Attached, Core
<1>8. ReturnsFirst(t)
  BY <1>1, <1>2, <1>3 DEF ReturnsFirst, Core
<1>9. HoldsEntrance(k) => InUse(t)
  BY <1>2, <1>3 DEF InUse, EntranceTaken
<1>10. ~HoldsEntrance(s.child[c]) /\ InUse(s) => InUse(t)
  BY <1>1, <1>2, <1>3 DEF InUse, EntranceTaken
<1> QED BY <1>2, <1>5, <1>6, <1>7, <1>8, <1>9, <1>10 DEF Core

-----------------------------------------------------------------------------
(* Completion *)

\* Whoever completes with nothing left on the body is over.
LEMMA CompleteItemKeeps ==
  ASSUME NEW s, Core(s), InUse(s), NEW p \in Items, s.item[p].returned, Idle(s, p)
  PROVE  Core(CompleteItem(s, p)) /\ InUse(CompleteItem(s, p))
<1> DEFINE u == SettleItem(s, p)
           it == [u.item[p] EXCEPT !.finished = TRUE]
           t == CompleteItem(s, p)
<1>1. Calm(s, u)
  BY SettleCalm DEF Core
<1>2. t = [u EXCEPT !.item = [@ EXCEPT ![p] = it]]
  BY DEF CompleteItem
<1> HIDE DEF u, t
<1>3. Core(u) /\ InUse(u) /\ Idle(u, p) /\ u.item[p].returned
  BY <1>1, CalmKeeps DEF Calm
<1>4. u.item[p] \in ItemRecords
  BY <1>3 DEF Core, States
<1>5. it \in ItemRecords /\ it.returned
  BY <1>3, <1>4 DEF ItemRecords
<1> HIDE DEF it
<1>6. Core(t) /\ InUse(t)
  BY <1>2, <1>3, <1>5, ItemReplaced
<1> QED BY <1>6 DEF t

\* What remains of a child.
LEMMA GoneType ==
  ASSUME NEW k \in ChildRecords
  PROVE  /\ Gone(k) \in ChildRecords /\ Gone(k).of = k.of
         /\ Gone(k).finished /\ Gone(k).returned /\ ~HoldsEntrance(Gone(k))
<1> DEFINE proc == IF ChildErr(k) = "task" THEN "fail" ELSE "ok"
<1>1. Gone(k) = [of |-> k.of, at |-> 0, hold |-> FALSE, work |-> "none",
                 workErr |-> "none", workJoined |-> FALSE, returned |-> TRUE,
                 finished |-> TRUE, proc |-> proc, failed |-> k.failed]
  <2> DEFINE new == [of |-> k.of, at |-> 0, hold |-> FALSE, work |-> "none",
                     workErr |-> "none", workJoined |-> FALSE, returned |-> FALSE,
                     finished |-> FALSE, proc |-> "ok", failed |-> FALSE]
  <2>1. Gone(k) = [new EXCEPT !.returned = TRUE, !.finished = TRUE,
                              !.failed = k.failed, !.proc = proc]
    BY DEF Gone, NewChild
  <2> HIDE DEF proc
  <2> QED BY <2>1
<1>2. proc \in Outcomes /\ "none" \in Errors /\ 0 \in Places
  BY StagesNat DEF Outcomes, Errors, Places
<1>3. k.of \in Items /\ k.failed \in BOOLEAN
  BY DEF ChildRecords
<1> HIDE DEF proc
<1>4. Gone(k) \in ChildRecords
  BY <1>1, <1>2, <1>3 DEF ChildRecords
<1> QED BY <1>1, <1>4 DEF HoldsEntrance

\* A child that is over gives its entrance to the next.
LEMMA CompleteChildKeeps ==
  ASSUME NEW s, Core(s), NEW c \in 1 .. Len(s.child)
  PROVE  Core(CompleteChild(s, c)) /\ InUse(CompleteChild(s, c))
<1> DEFINE u == SettleChild(s, c)
           k == Gone(u.child[c])
           v == [u EXCEPT !.child[c] = k]
           freed == Pump(v)
           p == s.child[c].of
           e == ChildErr(s.child[c])
<1>1. CompleteChild(s, c) = RecordErr(freed, p, e)
  BY DEF CompleteChild
<1>2. Calm(s, u)
  BY SettleCalm DEF Core
<1>3. s \in States /\ s.child[c] \in ChildRecords /\ p \in Items
  BY ChildType DEF Core
<1>4. e \in Errors
  BY <1>3 DEF ChildErr, ChildRecords, Errors, Outcomes
<1>5. v = [u EXCEPT !.child = [@ EXCEPT ![c] = k]]
  OBVIOUS
<1> HIDE DEF u, v, e, p
<1>6. Core(u) /\ c \in 1 .. Len(u.child)
  BY <1>2, CalmKeeps DEF Calm
<1>7. u.child[c] \in ChildRecords
  BY <1>6, ChildType DEF Core
<1>8. /\ k \in ChildRecords /\ k.of = u.child[c].of /\ k.finished /\ k.returned
      /\ ~HoldsEntrance(k)
  BY <1>7, GoneType
<1> HIDE DEF k
<1>9. Core(v)
  BY <1>5, <1>6, <1>8, ChildMoved
<1>10. Core(freed) /\ InUse(freed)
  BY <1>9, PumpRestores
<1> HIDE DEF freed
<1>11. Calm(freed, RecordErr(freed, p, e))
  BY <1>3, <1>4, <1>10, RecordErrCalm DEF Core, p
<1> QED BY <1>1, <1>10, <1>11, CalmKeeps

\* A batch joins the queue of a body that is open: an idle body may take one,
\* too, before it is left.
LEMMA AddedCore ==
  ASSUME NEW s, Core(s), NEW p \in Items, NEW n \in Nat,
         ~s.item[p].finished, s.item[p].body \notin {"none", "left"},
         NEW t, t = [s EXCEPT !.queued[p] = @ + n, !.item[p].joined = FALSE,
                              !.item[p].published = TRUE]
  PROVE  Core(t)
<1> DEFINE u == [s EXCEPT !.queued[p] = @ + n, !.item[p].joined = FALSE,
                          !.item[p].published = TRUE]
           it == [s.item[p] EXCEPT !.joined = FALSE, !.published = TRUE]
<1>1. s \in States /\ s.item[p] \in ItemRecords /\ s.queued[p] \in Nat
  BY DEF Core, States
<1>2. /\ it \in ItemRecords /\ it.body = s.item[p].body
      /\ it.finished = s.item[p].finished /\ it.returned = s.item[p].returned
  BY <1>1 DEF ItemRecords
<1>3. u = [item |-> [s.item EXCEPT ![p] = it],
           queued |-> [s.queued EXCEPT ![p] = s.queued[p] + n],
           child |-> s.child, stopping |-> s.stopping]
  <2>1. [[s.item EXCEPT ![p].joined = FALSE] EXCEPT ![p].published = TRUE]
          = [s.item EXCEPT ![p] = it]
    BY <1>1 DEF States, ItemRecords
  <2>2. u = [s EXCEPT !.queued = [s.queued EXCEPT ![p] = s.queued[p] + n],
                      !.item = [[s.item EXCEPT ![p].joined = FALSE]
                                    EXCEPT ![p].published = TRUE]]
    BY <1>1 DEF States
  <2> HIDE DEF it, u
  <2> QED BY <1>1, <2>1, <2>2 DEF States
<1> HIDE DEF u, it
<1>4. /\ u.item = [s.item EXCEPT ![p] = it] /\ u.child = s.child
      /\ u.queued = [s.queued EXCEPT ![p] = s.queued[p] + n]
  BY <1>3
<1>5. /\ u.item \in [Items -> ItemRecords] /\ u.queued \in [Items -> Nat]
  BY <1>1, <1>2, <1>4 DEF States
<1>6. u \in States
  BY <1>1, <1>3, <1>4, <1>5 DEF States
<1>7. \A q \in Items : u.item[q] = IF q = p THEN it ELSE s.item[q]
  BY <1>1, <1>4 DEF States
<1>8. \A q \in Items : q # p => u.queued[q] = s.queued[q]
  BY <1>1, <1>4 DEF States
<1>9. OneHolder(u) /\ InOrder(u)
  BY <1>4 DEF OneHolder, InOrder, Kids, Core
<1>10. Attached(u)
  BY <1>2, <1>4, <1>7, <1>8 DEF Attached, Idle, Kids, Core
<1>11. ReturnsFirst(u)
  BY <1>2, <1>4, <1>7 DEF ReturnsFirst, Core
<1> QED BY <1>6, <1>9, <1>10, <1>11 DEF Core, u

-----------------------------------------------------------------------------
(* The inductive invariant and the steps that preserve it *)

IInv == submitted \in Nat /\ Core(State) /\ InUse(State)

\* A step ends in the record it commits.
LEMMA Committed ==
  ASSUME NEW s, Core(s), InUse(s), Commit(s), submitted' \in Nat
  PROVE  IInv'
<1>1. State' = s
  BY DEF State, Commit, Core, States
<1> QED BY <1>1 DEF IInv

\* What the fields of the state record are.
LEMMA Fields ==
  ASSUME IInv
  PROVE  /\ State \in States /\ Core(State) /\ InUse(State) /\ submitted \in Nat
         /\ State.item = item /\ State.queued = queued /\ State.child = child
         /\ \A p \in Items : item[p] \in ItemRecords
         /\ DOMAIN child = 1 .. Len(child)
         /\ \A c \in 1 .. Len(child) : child[c] \in ChildRecords /\ child[c].of \in Items
<1>1. State \in States
  BY DEF IInv, Core
<1>2. State.item = item /\ State.queued = queued /\ State.child = child
  BY DEF State
<1>3. \A p \in Items : item[p] \in ItemRecords
  BY <1>1, <1>2 DEF States
<1> QED BY <1>1, <1>2, <1>3, ChildType DEF IInv

\* A step that changes one item only.
LEMMA ItemStep ==
  ASSUME IInv, NEW p \in Items, NEW it \in ItemRecords,
         it.finished => it.returned,
         it.finished \/ it.body \in {"none", "left"} => Idle(State, p),
         item' = [item EXCEPT ![p] = it],
         UNCHANGED <<queued, child, submitted, stopping>>
  PROVE  IInv'
<1> DEFINE t == [State EXCEPT !.item = [@ EXCEPT ![p] = it]]
<1>1. t = [item |-> [item EXCEPT ![p] = it], queued |-> queued,
           child |-> child, stopping |-> stopping]
  BY DEF State
<1>2. Commit(t)
  BY <1>1 DEF Commit
<1>3. Core(t) /\ InUse(t)
  BY Fields, ItemReplaced
<1> HIDE DEF t
<1> QED BY <1>2, <1>3, Fields, Committed

\* A step that changes one child only, and not whether it has the entrance.
LEMMA ChildStep ==
  ASSUME IInv, NEW c \in 1 .. Len(child), NEW k \in ChildRecords,
         k.of = child[c].of, k.at = child[c].at,
         child[c].finished => k.finished, k.finished => k.returned,
         HoldsEntrance(k) <=> HoldsEntrance(child[c]),
         child' = [child EXCEPT ![c] = k],
         UNCHANGED <<item, queued, submitted, stopping>>
  PROVE  IInv'
<1> DEFINE t == [State EXCEPT !.child = [@ EXCEPT ![c] = k]]
<1>1. t = [item |-> item, queued |-> queued,
           child |-> [child EXCEPT ![c] = k], stopping |-> stopping]
  BY DEF State
<1>2. Commit(t)
  BY <1>1 DEF Commit
<1>3. Core(t) /\ InUse(t)
  BY Fields, ChildMoved
<1> HIDE DEF t
<1> QED BY <1>2, <1>3, Fields, Committed

LEMMA FanOutSteps ==
  ASSUME IInv, NEW p \in Items, EnterFanOut(p) \/ Join(p) \/ Leave(p) \/ MoveOn(p)
  PROVE  IInv'
<1> DEFINE Fit(it) == /\ it \in ItemRecords
                      /\ it.finished => it.returned
                      /\ it.finished \/ it.body \in {"none", "left"} => Idle(State, p)
<1>1. /\ item[p] \in ItemRecords
      /\ item[p].finished => item[p].returned
      /\ item[p].finished \/ item[p].body \in {"none", "left"} => Idle(State, p)
  BY Fields DEF Core, Attached, ReturnsFirst
<1>2. CASE EnterFanOut(p)
  <2> DEFINE it == [item[p] EXCEPT !.body = "open"]
  <2>1. Fit(it)
    BY <1>1, <1>2 DEF ItemRecords, EnterFanOut, Able, Active
  <2>2. item' = [item EXCEPT ![p] = it] /\ UNCHANGED <<queued, child, submitted, stopping>>
    BY <1>2 DEF EnterFanOut
  <2> HIDE DEF it
  <2> QED BY <2>1, <2>2, ItemStep
<1>3. CASE Join(p)
  <2> DEFINE it == [item[p] EXCEPT !.joined = TRUE]
  <2>1. Fit(it)
    BY <1>1 DEF ItemRecords
  <2>2. item' = [item EXCEPT ![p] = it] /\ UNCHANGED <<queued, child, submitted, stopping>>
    BY <1>3 DEF Join
  <2> HIDE DEF it
  <2> QED BY <2>1, <2>2, ItemStep
<1>4. CASE Leave(p)
  <2> DEFINE it == [item[p] EXCEPT !.body = "left", !.joined = TRUE]
  <2>1. Fit(it)
    BY <1>1, <1>4 DEF ItemRecords, Leave
  <2>2. item' = [item EXCEPT ![p] = it] /\ UNCHANGED <<queued, child, submitted, stopping>>
    BY <1>1, <1>4 DEF Leave
  <2> HIDE DEF it
  <2> QED BY <2>1, <2>2, ItemStep
<1>5. CASE MoveOn(p)
  <2> DEFINE it == [item[p] EXCEPT !.body = "left", !.published = TRUE]
  <2>1. Fit(it)
    BY <1>1, <1>5 DEF ItemRecords, MoveOn
  <2>2. item' = [item EXCEPT ![p] = it] /\ UNCHANGED <<queued, child, submitted, stopping>>
    BY <1>1, <1>5 DEF MoveOn
  <2> HIDE DEF it
  <2> QED BY <2>1, <2>2, ItemStep
<1> QED BY <1>2, <1>3, <1>4, <1>5

LEMMA AddToBodyStep ==
  ASSUME IInv, NEW p \in Items, NEW n \in Nat, AddToBody(p, n),
         ~item[p].finished, item[p].body \notin {"none", "left"}
  PROVE  IInv'
<1> DEFINE t == [State EXCEPT !.queued[p] = @ + n, !.item[p].joined = FALSE,
                              !.item[p].published = TRUE]
<1>1. Commit(Pump(t)) /\ submitted' = submitted + n
  BY DEF AddToBody
<1>2. submitted' \in Nat
  BY <1>1, Fields
<1>3. Core(t)
  BY Fields, AddedCore
<1> HIDE DEF t
<1> QED BY <1>1, <1>2, <1>3, PumpRestores, Committed

LEMMA ScheduleStep ==
  ASSUME IInv, NEW p \in Items, NEW n \in Nat, Schedule(p, n)
  PROVE  IInv'
<1>1. ~item[p].finished /\ item[p].body = "open"
  BY Fields DEF Schedule, Able, Active, Core, ReturnsFirst
<1> QED BY <1>1, AddToBodyStep DEF Schedule

\* A child that works keeps its body open.
LEMMA SpawnStep ==
  ASSUME IInv, NEW c \in 1 .. Len(child), NEW n \in Nat, Spawn(c, n)
  PROVE  IInv'
<1> DEFINE p == child[c].of
<1>1. p \in Items /\ c \in Kids(State)
  BY Fields DEF Spawn, Running, Kids, Core, ReturnsFirst
<1>2. ~Idle(State, p)
  BY <1>1, Fields DEF Idle
<1>3. ~item[p].finished /\ item[p].body \notin {"none", "left"}
  BY <1>1, <1>2, Fields DEF Core, Attached
<1> QED BY <1>1, <1>3, AddToBodyStep DEF Spawn

LEMMA ReturnStep ==
  ASSUME IInv, NEW p \in Items, NEW proc \in Outcomes, Return(p, proc)
  PROVE  IInv'
<1> DEFINE e == AsAbort(item[p].canceled, IF proc = "ok" THEN "none" ELSE proc)
           outcome == IF e = "none" THEN "ok" ELSE e
           cause == IF outcome = "fail" THEN "self" ELSE "conveyor"
           kept == IF outcome = "ok" THEN item[p] ELSE Canceled(item[p], cause)
           it == [kept EXCEPT !.returned = TRUE, !.proc = outcome,
                              !.body = IF kept.body = "open" THEN "sealed" ELSE kept.body]
           over == [State EXCEPT !.item[p] = it]
           settled == SettleItem(over, p)
<1>1. /\ ~item[p].returned
      /\ Commit(IF Idle(settled, p) THEN CompleteItem(settled, p) ELSE settled)
      /\ UNCHANGED submitted
  BY DEF Return, Active
<1>2. outcome \in Outcomes /\ cause \in Causes
  BY DEF AsAbort, Outcomes, Causes
<1>3. over = [State EXCEPT !.item = [@ EXCEPT ![p] = it]]
  BY DEF State
<1> HIDE DEF e, outcome, cause, over
<1>4. /\ item[p] \in ItemRecords /\ ~item[p].finished
      /\ item[p].body \in {"none", "left"} => Idle(State, p)
  BY <1>1, Fields DEF Core, Attached, ReturnsFirst
<1>5. /\ kept \in ItemRecords /\ kept.body = item[p].body
      /\ kept.finished = item[p].finished
  BY <1>2, <1>4, CanceledType
<1> HIDE DEF kept
<1>6. /\ it \in ItemRecords /\ it.returned /\ ~it.finished
      /\ it.body \in {"none", "left"} => item[p].body \in {"none", "left"}
  BY <1>2, <1>4, <1>5 DEF ItemRecords
<1> HIDE DEF it
<1>7. Core(over) /\ InUse(over) /\ over.item[p].returned
  BY <1>3, <1>4, <1>6, Fields, ItemReplaced
<1>8. Calm(over, settled)
  BY <1>7, SettleCalm DEF Core
<1> HIDE DEF settled
<1>9. Core(settled) /\ InUse(settled) /\ settled.item[p].returned
  BY <1>7, <1>8, CalmKeeps DEF Calm
<1>10. Idle(settled, p) => Core(CompleteItem(settled, p)) /\ InUse(CompleteItem(settled, p))
  BY <1>9, CompleteItemKeeps
<1>11. submitted' \in Nat
  BY <1>1, Fields
<1> QED BY <1>1, <1>9, <1>10, <1>11, Committed

LEMMA FinishStep ==
  ASSUME IInv, NEW p \in Items, Finish(p)
  PROVE  IInv'
<1>1. Core(CompleteItem(State, p)) /\ InUse(CompleteItem(State, p))
  BY Fields, CompleteItemKeeps DEF Finish
<1>2. Commit(CompleteItem(State, p)) /\ submitted' \in Nat
  BY Fields DEF Finish
<1> QED BY <1>1, <1>2, Committed

\* A child is moved on or gives up what it keeps: the lane is pumped.
LEMMA PumpedStep ==
  ASSUME IInv, NEW t, Core(t), Commit(Pump(t)), UNCHANGED submitted
  PROVE  IInv'
  BY Fields, PumpRestores, Committed

\* What the gate asks of the neighbour holds of everybody ahead, the lane being
\* in order.
LEMMA GateOpens ==
  ASSUME IInv, NEW c \in 1 .. Len(child), NEW r \in Nat, GateOpen(c, r)
  PROVE  \A d \in Kids(State) : d < c => State.child[d].at >= r
<1>1. /\ Core(State) /\ State \in States /\ State.child = child
      /\ DOMAIN child = 1 .. Len(child) /\ Len(child) \in Nat
      /\ \A d \in 1 .. Len(child) : child[d].at \in Nat
  BY Fields, ChildType
<1> SUFFICES ASSUME NEW d \in Kids(State), d < c
             PROVE  child[d].at >= r
  BY <1>1
<1> DEFINE A == Ahead(c)
           m == Max(A)
<1>2. A \in SUBSET (1 .. Len(child)) /\ d \in A /\ A \subseteq Kids(State)
  BY <1>1 DEF Ahead, Kids
<1> HIDE DEF A
<1>3. m \in A /\ \A k \in A : k <= m
  BY <1>1, <1>2, SetMax
<1>4. child[m].at >= r
  BY <1>2 DEF GateOpen, A
<1> HIDE DEF m
<1>5. CASE d = m
  BY <1>4, <1>5
<1>6. CASE d # m
  <2>1. d < m /\ m \in Kids(State)
    BY <1>1, <1>2, <1>3, <1>6
  <2>2. child[d].at >= child[m].at
    BY <1>1, <2>1 DEF Core, InOrder
  <2> QED BY <1>1, <1>2, <1>3, <1>4, <2>2
<1> QED BY <1>5, <1>6

LEMMA MoveStep ==
  ASSUME IInv, NEW c \in 1 .. Len(child), NEW r \in 1 .. Stages, Move(c, r)
  PROVE  IInv'
<1> DEFINE k == [child[c] EXCEPT !.at = r]
           t == [State EXCEPT !.child[c].at = r]
<1>1. /\ r > child[c].at /\ \A d \in Kids(State) : d < c => State.child[d].at >= r
      /\ Commit(Pump(t)) /\ UNCHANGED submitted
  BY Fields, GateOpens DEF Move
<1>2. /\ child[c] \in ChildRecords /\ child[c].at \in Nat /\ r \in Nat /\ r # 0
      /\ child[c].finished => child[c].returned
  BY Fields, ChildType, StagesNat DEF Core, ReturnsFirst
<1>3. /\ k \in ChildRecords /\ k.of = child[c].of /\ k.at = r
      /\ k.finished = child[c].finished /\ k.returned = child[c].returned
      /\ k.hold = child[c].hold /\ k.work = child[c].work
  BY <1>2, StagesNat DEF ChildRecords, Places
<1>4. t = [State EXCEPT !.child = [@ EXCEPT ![c] = k]]
  BY DEF State
<1> HIDE DEF t, k
<1>5. HoldsEntrance(k) => HoldsEntrance(child[c])
  BY <1>2, <1>3 DEF HoldsEntrance
<1>6. k.at >= child[c].at
  BY <1>1, <1>2, <1>3
<1>7. Core(t)
  BY <1>1, <1>2, <1>3, <1>4, <1>5, <1>6, Fields, ChildMoved
<1> QED BY <1>1, <1>7, PumpedStep

LEMMA ReleaseStep ==
  ASSUME IInv, NEW c \in 1 .. Len(child), Release(c)
  PROVE  IInv'
<1> DEFINE k == [child[c] EXCEPT !.hold = FALSE]
           t == [State EXCEPT !.child[c].hold = FALSE]
<1>1. Commit(Pump(t)) /\ UNCHANGED submitted
  BY DEF Release
<1>2. child[c] \in ChildRecords /\ (child[c].finished => child[c].returned)
  BY Fields DEF Core, ReturnsFirst
<1>3. /\ k \in ChildRecords /\ k.of = child[c].of /\ k.at = child[c].at
      /\ k.finished = child[c].finished /\ k.returned = child[c].returned
      /\ ~k.hold /\ k.work = child[c].work
  BY <1>2 DEF ChildRecords
<1>4. t = [State EXCEPT !.child = [@ EXCEPT ![c] = k]]
  BY DEF State
<1> HIDE DEF t, k
<1>5. HoldsEntrance(k) => HoldsEntrance(child[c])
  BY <1>3 DEF HoldsEntrance
<1>6. Core(t)
  BY <1>2, <1>3, <1>4, <1>5, Fields, ChildMoved
<1> QED BY <1>1, <1>6, PumpedStep

LEMMA KeepSteps ==
  ASSUME IInv, NEW c \in 1 .. Len(child), Retain(c) \/ RetainFor(c) \/ JoinWork(c)
  PROVE  IInv'
<1>1. child[c] \in ChildRecords /\ (child[c].finished => child[c].returned)
  BY Fields DEF Core, ReturnsFirst
<1>2. CASE Retain(c)
  <2> DEFINE k == [child[c] EXCEPT !.hold = TRUE]
  <2>1. /\ k \in ChildRecords /\ k.of = child[c].of /\ k.at = child[c].at
        /\ k.finished = child[c].finished /\ k.returned = child[c].returned
    BY <1>1 DEF ChildRecords
  <2>2. child[c].at = 0 /\ child' = [child EXCEPT ![c] = k]
        /\ UNCHANGED <<item, queued, submitted, stopping>>
    BY <1>2 DEF Retain
  <2> HIDE DEF k
  <2>3. HoldsEntrance(k) <=> HoldsEntrance(child[c])
    BY <2>1, <2>2 DEF HoldsEntrance
  <2> QED BY <1>1, <2>1, <2>2, <2>3, ChildStep
<1>3. CASE RetainFor(c)
  <2> DEFINE k == [child[c] EXCEPT !.work = "running"]
  <2>1. /\ k \in ChildRecords /\ k.of = child[c].of /\ k.at = child[c].at
        /\ k.finished = child[c].finished /\ k.returned = child[c].returned
    BY <1>1 DEF ChildRecords
  <2>2. child[c].at = 0 /\ child' = [child EXCEPT ![c] = k]
        /\ UNCHANGED <<item, queued, submitted, stopping>>
    BY <1>3 DEF RetainFor
  <2> HIDE DEF k
  <2>3. HoldsEntrance(k) <=> HoldsEntrance(child[c])
    BY <2>1, <2>2 DEF HoldsEntrance
  <2> QED BY <1>1, <2>1, <2>2, <2>3, ChildStep
<1>4. CASE JoinWork(c)
  <2> DEFINE k == [child[c] EXCEPT !.workJoined = TRUE]
  <2>1. /\ k \in ChildRecords /\ k.of = child[c].of /\ k.at = child[c].at
        /\ k.finished = child[c].finished /\ k.returned = child[c].returned
        /\ k.hold = child[c].hold /\ k.work = child[c].work
    BY <1>1 DEF ChildRecords
  <2>2. child' = [child EXCEPT ![c] = k]
        /\ UNCHANGED <<item, queued, submitted, stopping>>
    BY <1>4 DEF JoinWork
  <2> HIDE DEF k
  <2>3. HoldsEntrance(k) <=> HoldsEntrance(child[c])
    BY <2>1 DEF HoldsEntrance
  <2> QED BY <1>1, <2>1, <2>2, <2>3, ChildStep
<1> QED BY <1>2, <1>3, <1>4

LEMMA WorkReturnsStep ==
  ASSUME IInv, NEW c \in 1 .. Len(child), NEW err \in Errors, WorkReturns(c, err)
  PROVE  IInv'
<1> DEFINE e == AsAbort(item[child[c].of].dead, err)
           k == [State.child[c] EXCEPT !.work = "done", !.workErr = e]
           done == [State EXCEPT !.child[c] = k]
           told == IF e = "task" /\ child[c].returned THEN ChildFailed(done, c) ELSE done
<1>1. Commit(Pump(told)) /\ UNCHANGED submitted
  BY DEF WorkReturns
<1>2. /\ State.child[c] = child[c] /\ child[c] \in ChildRecords
      /\ (child[c].finished => child[c].returned)
  BY Fields DEF Core, ReturnsFirst
<1>3. e \in Errors
  BY DEF AsAbort, Errors
<1> HIDE DEF e
<1>4. /\ k \in ChildRecords /\ k.of = child[c].of /\ k.at = child[c].at
      /\ k.finished = child[c].finished /\ k.returned = child[c].returned
      /\ k.hold = child[c].hold /\ k.work = "done"
  BY <1>2, <1>3 DEF ChildRecords
<1> HIDE DEF k
<1>5. done = [State EXCEPT !.child = [@ EXCEPT ![c] = k]]
  BY DEF State
<1> HIDE DEF done
<1>6. HoldsEntrance(k) => HoldsEntrance(child[c])
  BY <1>4 DEF HoldsEntrance
<1>7. Core(done)
  BY <1>2, <1>4, <1>5, <1>6, Fields, ChildMoved
<1>8. c \in 1 .. Len(done.child)
  BY <1>4, <1>5, Fields, ChildReplaced
<1>9. Core(ChildFailed(done, c))
  <2>1. Calm(done, ChildFailed(done, c))
    BY <1>7, <1>8, ChildFailedCalm DEF Core
  <2> QED BY <1>7, <2>1, CalmKeeps
<1>10. Core(told)
  BY <1>7, <1>9
<1> HIDE DEF told
<1> QED BY <1>1, <1>10, PumpedStep

LEMMA ChildReturnsStep ==
  ASSUME IInv, NEW c \in 1 .. Len(child), NEW proc \in Outcomes, ChildReturns(c, proc)
  PROVE  IInv'
<1> DEFINE e == AsAbort(item[child[c].of].dead, IF proc = "ok" THEN "none" ELSE proc)
           outcome == IF e = "none" THEN "ok" ELSE e
           k == [State.child[c] EXCEPT !.returned = TRUE, !.proc = outcome]
           over == [State EXCEPT !.child[c] = k]
           settled == SettleChild(over, c)
<1>1. /\ Commit(IF child[c].work = "running" THEN settled ELSE CompleteChild(settled, c))
      /\ UNCHANGED submitted
  BY DEF ChildReturns
<1>2. State.child[c] = child[c] /\ child[c] \in ChildRecords
  BY Fields
<1>3. outcome \in Outcomes
  BY DEF AsAbort, Outcomes
<1> HIDE DEF e, outcome
<1>4. /\ k \in ChildRecords /\ k.of = child[c].of /\ k.at = child[c].at
      /\ k.finished = child[c].finished /\ k.returned
      /\ k.hold = child[c].hold /\ k.work = child[c].work
  BY <1>2, <1>3 DEF ChildRecords
<1> HIDE DEF k
<1>5. over = [State EXCEPT !.child = [@ EXCEPT ![c] = k]]
  BY DEF State
<1> HIDE DEF over
<1>6. HoldsEntrance(k) <=> HoldsEntrance(child[c])
  BY <1>4 DEF HoldsEntrance
<1>7. Core(over) /\ InUse(over)
  BY <1>4, <1>5, <1>6, Fields, ChildMoved
<1>8. c \in 1 .. Len(over.child)
  BY <1>4, <1>5, Fields, ChildReplaced
<1>9. Calm(over, settled)
  BY <1>7, <1>8, SettleCalm DEF Core
<1> HIDE DEF settled
<1>10. Core(settled) /\ InUse(settled) /\ c \in 1 .. Len(settled.child)
  BY <1>7, <1>8, <1>9, CalmKeeps DEF Calm
<1>11. Core(CompleteChild(settled, c)) /\ InUse(CompleteChild(settled, c))
  BY <1>10, CompleteChildKeeps
<1>12. submitted' \in Nat
  BY <1>1, Fields
<1> QED BY <1>1, <1>10, <1>11, <1>12, Committed

LEMMA ChildFinishesStep ==
  ASSUME IInv, NEW c \in 1 .. Len(child), ChildFinishes(c)
  PROVE  IInv'
<1>1. Core(CompleteChild(State, c)) /\ InUse(CompleteChild(State, c))
  BY Fields, CompleteChildKeeps
<1>2. Commit(CompleteChild(State, c)) /\ submitted' \in Nat
  BY Fields DEF ChildFinishes
<1> QED BY <1>1, <1>2, Committed

LEMMA RunSteps ==
  ASSUME IInv, BeginShutdown \/ DrainOverrun \/ UNCHANGED vars
  PROVE  IInv'
<1>1. CASE BeginShutdown
  <2> DEFINE t == [State EXCEPT !.stopping = TRUE]
  <2>1. Commit(t) /\ UNCHANGED submitted
    BY <1>1 DEF BeginShutdown, Commit, State
  <2>2. t.item = item /\ t.queued = queued /\ t.child = child
    BY DEF State
  <2>3. t \in States
    BY Fields DEF States
  <2> HIDE DEF t
  <2>4. Calm(State, t)
    BY <2>2, <2>3, Fields DEF Calm
  <2> QED BY <2>1, <2>4, Fields, CalmKeeps, Committed
<1>2. CASE DrainOverrun
  <2>1. Commit(CancelLater(State, 0)) /\ UNCHANGED submitted
    BY <1>2 DEF DrainOverrun
  <2>2. Calm(State, CancelLater(State, 0))
    BY Fields, CancelLaterCalm
  <2>3. Core(CancelLater(State, 0)) /\ InUse(CancelLater(State, 0))
    BY <2>2, Fields, CalmKeeps
  <2> QED BY <2>1, <2>3, Fields, Committed
<1>3. CASE UNCHANGED vars
  <2>1. Commit(State) /\ UNCHANGED submitted
    BY <1>3 DEF Commit, State, vars
  <2> QED BY <2>1, Fields, Committed
<1> QED BY <1>1, <1>2, <1>3

\* Nobody has entered the fan-out, and no child exists.
LEMMA Initially ==
  ASSUME Init
  PROVE  IInv
<1>1. /\ State.item = item /\ State.queued = queued /\ State.child = <<>>
      /\ State = [item |-> item, queued |-> queued, child |-> <<>>, stopping |-> FALSE]
  BY DEF Init, State
<1>2. NewItem \in ItemRecords
  BY DEF NewItem, ItemRecords, Causes, Errors, Outcomes
<1>3. item \in [Items -> ItemRecords] /\ queued \in [Items -> Nat]
  BY <1>2 DEF Init
<1>4. State \in States
  BY <1>1, <1>3 DEF States
<1>5. DOMAIN State.child = {} /\ \A p \in Items : queued[p] = 0 /\ ~item[p].finished
  BY <1>1 DEF Init, NewItem
<1> QED BY <1>1, <1>4, <1>5
        DEF IInv, Core, OneHolder, InOrder, Attached, Idle, ReturnsFirst, InUse, Kids, Init

LEMMA NextKeeps ==
  ASSUME IInv, [Next]_vars
  PROVE  IInv'
<1>1. DOMAIN child = 1 .. Len(child)
  BY Fields
<1>2. CASE BeginShutdown \/ DrainOverrun \/ Quiet \/ UNCHANGED vars
  BY <1>2, RunSteps DEF Quiet
<1>3. ASSUME NEW p \in Items,
             \/ EnterFanOut(p) \/ Join(p) \/ Leave(p) \/ MoveOn(p) \/ Finish(p)
             \/ \E n \in 0 .. MaxTasks : Schedule(p, n)
             \/ \E proc \in Outcomes : Return(p, proc)
      PROVE  IInv'
  <2>1. 0 .. MaxTasks \subseteq Nat
    BY TasksNat
  <2> QED BY <1>3, <2>1, FanOutSteps, FinishStep, ScheduleStep, ReturnStep
<1>4. ASSUME NEW c \in DOMAIN child,
             \/ \E r \in 1 .. Stages : Move(c, r)
             \/ \E n \in 1 .. MaxTasks : Spawn(c, n)
             \/ Retain(c) \/ Release(c) \/ RetainFor(c) \/ JoinWork(c) \/ ChildFinishes(c)
             \/ \E err \in Errors : WorkReturns(c, err)
             \/ \E proc \in Outcomes : ChildReturns(c, proc)
      PROVE  IInv'
  <2>1. 1 .. MaxTasks \subseteq Nat
    BY TasksNat
  <2> QED BY <1>1, <1>4, <2>1, MoveStep, SpawnStep, KeepSteps, ReleaseStep,
             ChildFinishesStep, WorkReturnsStep, ChildReturnsStep
<1> QED BY <1>2, <1>3, <1>4 DEF Next

\* The inductive invariant holds of every run of a lane, whatever the numbers
\* of items, stages and tasks, and whatever goes wrong.
THEOREM Invariance == Spec => []IInv
<1>1. Init => IInv
  BY Initially
<1>2. IInv /\ [Next]_vars => IInv'
  BY NextKeeps
<1> QED BY <1>1, <1>2, PTL DEF Spec

\* The variables of the lane keep their types.
THEOREM TypeCorrect == Spec => []TypeOK
<1>1. IInv => TypeOK
  BY DEF IInv, Core, States, State, TypeOK
<1> QED BY <1>1, Invariance, PTL

\* At most one child has the lane's entrance, and a queued task waits only for
\* somebody who has it (pump after every method that may free it).
THEOREM EntranceIsUsed == Spec => []EntranceInUse
<1>1. IInv => EntranceInUse
  BY DEF IInv, Core, OneHolder, InUse, State, EntranceInUse
<1> QED BY <1>1, Invariance, PTL

\* The gate asks the neighbour ahead alone, and keeps the whole lane in the
\* order of creation: a child that is over leaves the next one ahead in its
\* place, and with the order that one answers for everybody before it.
THEOREM LaneKeepsOrder == Spec => []ChildrenInOrder
<1>1. IInv => ChildrenInOrder
  BY DEF IInv, Core, InOrder, State, ChildrenInOrder
<1> QED BY <1>1, Invariance, PTL

\* A body that was left, and an item that is over, has no task in the queue
\* and no child on the way, though children add tasks to it all the time.
THEOREM NobodyIsOrphaned == Spec => []NoOrphans
<1>1. IInv => NoOrphans
  BY DEF IInv, Core, Attached, State, NoOrphans
<1> QED BY <1>1, Invariance, PTL

-----------------------------------------------------------------------------
(* Errors on their way up *)

\* A failed child has been heard of by its body, unless the conveyor canceled
\* the item; what is over has failed if it had an unjoined failure.
Heard(s) ==
    /\ \A c \in 1 .. Len(s.child) :
          /\ s.child[c].failed =>
                \/ s.item[s.child[c].of].err = "task"
                \/ s.item[s.child[c].of].canceled = "conveyor"
          /\ s.child[c].finished /\ s.child[c].proc = "fail" => s.child[c].failed
    /\ \A p \in Items :
          s.item[p].finished
            /\ (s.item[p].proc = "fail" \/ (s.item[p].err = "task" /\ ~s.item[p].joined))
              => s.item[p].failed

\* The item r, as a helper leaves it that only adds errors and cancellations.
Worse(it, r) ==
    /\ r.finished = it.finished /\ r.proc = it.proc /\ r.joined = it.joined
    /\ it.err = "task" => r.err = "task"
    /\ it.canceled = "conveyor" => r.canceled = "conveyor"
    /\ it.failed => r.failed

\* It also fails an item that is over if it adds to it.
Fatal(it, r) ==
    r.finished /\ ~r.joined /\ r.err = "task" => it.err = "task" \/ r.failed

\* What a child did is the same in t; it has failed in t only if it had in s,
\* or if its body has heard of it.
Same(s, t) ==
    /\ Len(t.child) = Len(s.child)
    /\ \A c \in 1 .. Len(s.child) :
          /\ t.child[c].of = s.child[c].of /\ t.child[c].finished = s.child[c].finished
          /\ t.child[c].proc = s.child[c].proc
          /\ t.child[c].workErr = s.child[c].workErr
          /\ t.child[c].workJoined = s.child[c].workJoined
          /\ s.child[c].failed => t.child[c].failed
          /\ t.child[c].failed =>
                \/ s.child[c].failed
                \/ t.item[t.child[c].of].err = "task"
                \/ t.item[t.child[c].of].canceled = "conveyor"

Soft(s, t) ==
    /\ Same(s, t)
    /\ \A q \in Items : Worse(s.item[q], t.item[q]) /\ Fatal(s.item[q], t.item[q])

LEMMA SoftTransitive ==
  ASSUME NEW s \in States, NEW t, NEW u, Soft(s, t), Soft(t, u)
  PROVE  Soft(s, u)
<1>1. \A c \in 1 .. Len(s.child) : s.child[c].of \in Items
  BY ChildType
<1> QED BY <1>1 DEF Soft, Same, Worse, Fatal

LEMMA SoftReflexive ==
  ASSUME NEW s
  PROVE  Soft(s, s)
  BY DEF Soft, Same, Worse, Fatal

LEMMA SoftKeeps ==
  ASSUME NEW s \in States, NEW t, Heard(s), Soft(s, t)
  PROVE  Heard(t)
<1>1. \A c \in 1 .. Len(s.child) : s.child[c].of \in Items
  BY ChildType
<1> QED BY <1>1 DEF Soft, Same, Worse, Fatal, Heard

LEMMA CanceledWorse ==
  ASSUME NEW it \in ItemRecords, NEW cause
  PROVE  /\ Worse(it, Canceled(it, cause)) /\ Fatal(it, Canceled(it, cause))
         /\ Canceled(it, cause).err = it.err
  BY DEF Canceled, ItemRecords, Worse, Fatal

LEMMA CancelLaterSoft ==
  ASSUME NEW s \in States, NEW p \in Nat
  PROVE  /\ Soft(s, CancelLater(s, p))
         /\ \A q \in Items : CancelLater(s, p).item[q].err = s.item[q].err
<1> DEFINE t == CancelLater(s, p)
<1>1. \A q \in Items : s.item[q] \in ItemRecords
  BY DEF States
<1>2. /\ t.child = s.child
      /\ \A q \in Items : t.item[q] = s.item[q] \/ t.item[q] = Canceled(s.item[q], "conveyor")
  BY DEF CancelLater, States
<1>3. \A q \in Items : /\ Worse(s.item[q], t.item[q]) /\ Fatal(s.item[q], t.item[q])
                       /\ t.item[q].err = s.item[q].err
  <2> SUFFICES ASSUME NEW q \in Items
               PROVE  /\ Worse(s.item[q], t.item[q]) /\ Fatal(s.item[q], t.item[q])
                      /\ t.item[q].err = s.item[q].err
    OBVIOUS
  <2>1. CASE t.item[q] = s.item[q]
    BY <2>1 DEF Worse, Fatal
  <2>2. CASE t.item[q] = Canceled(s.item[q], "conveyor")
    BY <1>1, <2>2, CanceledWorse
  <2> QED BY <1>2, <2>1, <2>2
<1> HIDE DEF t
<1>4. Same(s, t)
  BY <1>2 DEF Same
<1>5. Soft(s, t)
  BY <1>3, <1>4 DEF Soft
<1> QED BY <1>3, <1>5 DEF t

LEMMA ItemFailedSoft ==
  ASSUME NEW s \in States, NEW p \in Items
  PROVE  /\ Soft(s, ItemFailed(s, p)) /\ ItemFailed(s, p).item[p].failed
         /\ \A q \in Items : ItemFailed(s, p).item[q].err = s.item[q].err
<1> DEFINE u == [s EXCEPT !.item[p].failed = TRUE, !.stopping = TRUE]
<1>1. ItemFailed(s, p) = IF s.item[p].failed THEN s ELSE CancelLater(u, p)
  BY DEF ItemFailed
<1>2. \A q \in Items : s.item[q] \in ItemRecords
  BY DEF States
<1>3. /\ u.child = s.child
      /\ \A q \in Items : u.item[q] = IF q = p THEN [s.item[p] EXCEPT !.failed = TRUE]
                                      ELSE s.item[q]
  BY DEF States
<1>4. u \in States
  BY FailedCalm DEF Calm
<1> HIDE DEF u
<1>5. /\ \A q \in Items : Worse(s.item[q], u.item[q]) /\ Fatal(s.item[q], u.item[q])
                          /\ u.item[q].err = s.item[q].err
      /\ u.item[p].failed
  BY <1>2, <1>3 DEF Worse, Fatal, ItemRecords
<1>6. Soft(s, u)
  BY <1>3, <1>5 DEF Soft, Same
<1>7. /\ Soft(u, CancelLater(u, p))
      /\ \A q \in Items : CancelLater(u, p).item[q].err = u.item[q].err
  BY <1>4, CancelLaterSoft DEF Items
<1>8. CancelLater(u, p).item[p].failed
  BY <1>5, <1>7 DEF Soft, Worse
<1>9. Soft(s, CancelLater(u, p))
  BY <1>6, <1>7, SoftTransitive
<1> QED BY <1>1, <1>5, <1>7, <1>8, <1>9, SoftReflexive

\* After a report the body has heard of it, or its item is canceled; and only a
\* failure it had not heard of stops the body.
LEMMA RecordErrSoft ==
  ASSUME NEW s, Core(s), NEW p \in Items, NEW err \in Errors
  PROVE  /\ Soft(s, RecordErr(s, p, err))
         /\ err = "task" => \/ RecordErr(s, p, err).item[p].err = "task"
                            \/ RecordErr(s, p, err).item[p].canceled = "conveyor"
         /\ \/ \A q \in Items : RecordErr(s, p, err).item[q].dead = s.item[q].dead
            \/ err = "task" /\ s.item[p].err # "task" /\ s.item[p].canceled # "conveyor"
<1> DEFINE e == AsAbort(s.item[p].canceled, err)
           cause == IF s.item[p].dead = "no" /\ e = "task" THEN "task" ELSE s.item[p].dead
           it == [s.item[p] EXCEPT !.err = e, !.dead = cause]
           u == [s EXCEPT !.item[p].err = e,
                          !.item[p].dead = IF @ = "no" /\ e = "task" THEN "task" ELSE @]
           r == RecordErr(s, p, err)
<1>1. /\ s \in States /\ \A q \in Items : s.item[q] \in ItemRecords
      /\ s.item[p].finished => s.item[p].returned
  BY DEF Core, States, ReturnsFirst
<1>2. r = IF e = "none" \/ s.item[p].err = "task" THEN s
          ELSE IF e = "task" /\ s.item[p].returned /\ ~s.item[p].joined THEN ItemFailed(u, p)
          ELSE u
  BY DEF RecordErr
<1>3. /\ e \in Errors
      /\ err = "task" => e = "task" \/ s.item[p].canceled = "conveyor"
      /\ e = "task" => err = "task" /\ s.item[p].canceled # "conveyor"
  BY DEF AsAbort, Errors
<1>4. u \in States
  BY <1>1, <1>3, RecordedCalm DEF Calm
<1>5. u.child = s.child /\ \A q \in Items : u.item[q] = IF q = p THEN it ELSE s.item[q]
  BY <1>1 DEF States, ItemRecords
<1>6. /\ it.err = e /\ it.dead = cause /\ it.finished = s.item[p].finished
      /\ it.proc = s.item[p].proc /\ it.joined = s.item[p].joined
      /\ it.canceled = s.item[p].canceled /\ it.failed = s.item[p].failed
  BY <1>1 DEF ItemRecords
<1> HIDE DEF e, u, it, r
<1>7. CASE e = "none" \/ s.item[p].err = "task"
  BY <1>2, <1>3, <1>7, SoftReflexive DEF r
<1>8. CASE ~(e = "none" \/ s.item[p].err = "task")
  <2>1. /\ Same(s, u)
        /\ \A q \in Items : Worse(s.item[q], u.item[q])
        /\ \A q \in Items : q # p => Fatal(s.item[q], u.item[q])
    BY <1>5, <1>6, <1>8 DEF Same, Worse, Fatal
  <2>2. \A q \in Items : u.item[q].dead = s.item[q].dead \/ (q = p /\ e = "task")
    BY <1>5, <1>6
  <2>3. CASE r = u /\ ~(e = "task" /\ s.item[p].returned /\ ~s.item[p].joined)
    <3>1. Fatal(s.item[p], u.item[p])
      BY <1>1, <1>5, <1>6, <2>3 DEF Fatal
    <3>2. Soft(s, u)
      BY <2>1, <3>1 DEF Soft
    <3> QED BY <1>3, <1>5, <1>6, <1>8, <2>2, <2>3, <3>2 DEF r
  <2>4. CASE r = ItemFailed(u, p) /\ e = "task"
    <3>1. /\ Soft(u, r) /\ r.item[p].failed
          /\ \A q \in Items : r.item[q].err = u.item[q].err
      BY <1>4, <2>4, ItemFailedSoft
    <3>2. \A q \in Items : Worse(s.item[q], r.item[q])
      BY <2>1, <3>1 DEF Soft, Worse
    <3>3. \A q \in Items : Fatal(s.item[q], r.item[q])
      BY <2>1, <3>1 DEF Soft, Worse, Fatal
    <3>4. Same(s, r)
      BY <1>5, <3>1 DEF Soft, Same
    <3>5. Soft(s, r) /\ r.item[p].err = "task"
      BY <1>5, <1>6, <2>4, <3>1, <3>2, <3>3, <3>4 DEF Soft
    <3> QED BY <1>3, <1>8, <2>4, <3>5 DEF r
  <2> QED BY <1>2, <1>8, <2>3, <2>4
<1> QED BY <1>7, <1>8

LEMMA ChildFailedSoft ==
  ASSUME NEW s, Core(s), NEW c \in 1 .. Len(s.child)
  PROVE  Soft(s, ChildFailed(s, c)) /\ ChildFailed(s, c).child[c].failed
<1> DEFINE k == [s.child[c] EXCEPT !.failed = TRUE]
           u == [s EXCEPT !.child[c].failed = TRUE]
           p == s.child[c].of
           r == RecordErr(u, p, "task")
<1>1. ChildFailed(s, c) = IF s.child[c].failed THEN s ELSE r
  BY DEF ChildFailed
<1>2. s \in States /\ s.child[c] \in ChildRecords
  BY DEF Core, States
<1>3. /\ k \in ChildRecords /\ p \in Items
      /\ k.of = s.child[c].of /\ k.at = s.child[c].at /\ k.hold = s.child[c].hold
      /\ k.work = s.child[c].work /\ k.returned = s.child[c].returned
      /\ k.finished = s.child[c].finished /\ k.proc = s.child[c].proc
      /\ k.workErr = s.child[c].workErr /\ k.workJoined = s.child[c].workJoined /\ k.failed
  BY <1>2 DEF ChildRecords
<1>4. u = [s EXCEPT !.child = [@ EXCEPT ![c] = k]]
  OBVIOUS
<1> HIDE DEF u, k
<1>5. /\ u \in States /\ Len(u.child) = Len(s.child)
      /\ u.child[c] = k
      /\ \A d \in 1 .. Len(s.child) : d # c => u.child[d] = s.child[d]
      /\ u.item = s.item /\ u.queued = s.queued
  BY <1>2, <1>3, <1>4, ChildReplaced
<1>6. Calm(s, u)
  BY <1>3, <1>5 DEF Calm
<1>7. Core(u)
  BY <1>6, CalmKeeps
<1>8. /\ Soft(u, r)
      /\ r.item[p].err = "task" \/ r.item[p].canceled = "conveyor"
  BY <1>3, <1>7, RecordErrSoft DEF Errors
<1> HIDE DEF r
<1>9. /\ Same(u, r) /\ Len(r.child) = Len(s.child)
      /\ r.child[c].failed
  BY <1>3, <1>5, <1>8 DEF Soft, Same
<1>10. Same(s, r)
  BY <1>3, <1>5, <1>8, <1>9 DEF Same
<1>11. Soft(s, r)
  BY <1>5, <1>8, <1>10 DEF Soft
<1> QED BY <1>1, <1>9, <1>11, SoftReflexive

LEMMA SettleChildSoft ==
  ASSUME NEW s, Core(s), NEW c \in 1 .. Len(s.child)
  PROVE  /\ Soft(s, SettleChild(s, c))
         /\ ChildErr(s.child[c]) = "task" => SettleChild(s, c).child[c].failed
  BY ChildFailedSoft, SoftReflexive DEF SettleChild

LEMMA SettleItemSoft ==
  ASSUME NEW s \in States, NEW p \in Items
  PROVE  /\ Soft(s, SettleItem(s, p))
         /\ \A q \in Items : SettleItem(s, p).item[q].err = s.item[q].err
         /\ s.item[p].proc = "fail" \/ (s.item[p].err = "task" /\ ~s.item[p].joined)
              => SettleItem(s, p).item[p].failed
<1>1. p \in Nat
  BY DEF Items
<1> QED BY <1>1, ItemFailedSoft, CancelLaterSoft, SoftReflexive DEF SettleItem

\* The children that t has and s had not belong to bodies that live.
FreshAlive(s, t) ==
    \A c \in DOMAIN t.child \ DOMAIN s.child : t.item[t.child[c].of].dead = "no"

\* grabNext reports only drops, which replace no error.
LEMMA DropDeadSoft ==
  ASSUME NEW s \in States
  PROVE  /\ Soft(s, DropDead(s))
         /\ \A q \in Items : DropDead(s).item[q].dead = s.item[q].dead
<1>1. \A q \in Items : s.item[q] \in ItemRecords
  BY DEF States
<1> DEFINE d == DropDead(s)
<1>2. /\ d.child = s.child
      /\ \A q \in Items : \/ d.item[q] = s.item[q]
                          \/ s.item[q].err = "none"
                               /\ d.item[q] = [s.item[q] EXCEPT !.err = "abort"]
  BY DEF DropDead, States
<1> HIDE DEF d
<1>3. \A q \in Items : /\ Worse(s.item[q], d.item[q]) /\ Fatal(s.item[q], d.item[q])
                       /\ d.item[q].dead = s.item[q].dead
  <2> SUFFICES ASSUME NEW q \in Items
               PROVE  /\ Worse(s.item[q], d.item[q]) /\ Fatal(s.item[q], d.item[q])
                      /\ d.item[q].dead = s.item[q].dead
    OBVIOUS
  <2>1. CASE d.item[q] = s.item[q]
    BY <2>1 DEF Worse, Fatal
  <2>2. CASE s.item[q].err = "none" /\ d.item[q] = [s.item[q] EXCEPT !.err = "abort"]
    BY <1>1, <2>2 DEF Worse, Fatal, ItemRecords
  <2> QED BY <1>2, <2>1, <2>2
<1>4. Soft(s, d)
  BY <1>2, <1>3 DEF Soft, Same
<1> QED BY <1>3, <1>4 DEF d

LEMMA PumpHeard ==
  ASSUME NEW s, Core(s), Heard(s), NEW t, t = Pump(s)
  PROVE  /\ Heard(t) /\ FreshAlive(s, t)
         /\ Len(t.child) >= Len(s.child)
         /\ \A c \in 1 .. Len(s.child) : t.child[c] = s.child[c]
<1> DEFINE d == DropDead(s)
<1>1. /\ s \in States /\ s.child \in Seq(ChildRecords) /\ Len(s.child) \in Nat
      /\ DOMAIN s.child = 1 .. Len(s.child)
  BY DEF Core, States
<1>2. /\ d \in States /\ d.child = s.child /\ Heard(d)
      /\ \A q \in Items : d.item[q].dead = s.item[q].dead
  BY <1>1, DropDeadType, DropDeadSoft, SoftKeeps
<1>3. CASE EntranceTaken(s)
  BY <1>1, <1>3 DEF Pump, FreshAlive
<1>4. CASE ~EntranceTaken(s) /\ Alive(s) = {}
  BY <1>1, <1>2, <1>4 DEF Pump, FreshAlive
<1>5. CASE ~EntranceTaken(s) /\ Alive(s) # {}
  <2> DEFINE p == CHOOSE q \in Items : Oldest(q, Alive(s))
             n == Len(s.child) + 1
  <2>1. p \in Items /\ Oldest(p, Alive(s))
    BY <1>5, OldestExists DEF Alive, Waiting
  <2>2. t = StartChild(d, p)
    BY <1>5 DEF Pump
  <2> HIDE DEF p, d
  <2>3. s.item[p].dead = "no"
    BY <2>1 DEF Oldest, Alive
  <2>4. t.child = Append(s.child, NewChild(p)) /\ t.item = d.item
    BY <1>2, <2>2 DEF StartChild, States
  <2>5. /\ NewChild(p).of = p /\ ~NewChild(p).failed /\ ~NewChild(p).finished
    BY DEF NewChild
  <2>6. /\ Len(t.child) = n /\ DOMAIN t.child = 1 .. n /\ t.child[n] = NewChild(p)
        /\ \A c \in 1 .. Len(s.child) : t.child[c] = s.child[c]
    BY <1>1, <2>4
  <2>7. \A c \in 1 .. n : c \in 1 .. Len(s.child) \/ c = n
    BY <1>1
  <2>8. n >= Len(s.child)
    BY <1>1
  <2> HIDE DEF n
  <2>9. Heard(t)
    BY <1>2, <2>4, <2>5, <2>6, <2>7 DEF Heard
  <2>10. FreshAlive(s, t)
    BY <1>1, <1>2, <2>1, <2>3, <2>4, <2>5, <2>6, <2>7 DEF FreshAlive
  <2> QED BY <2>6, <2>8, <2>9, <2>10
<1> QED BY <1>3, <1>4, <1>5

\* One item, or one child, is replaced.
LEMMA ItemHeard ==
  ASSUME NEW s \in States, Heard(s), NEW p \in Items, NEW it \in ItemRecords,
         s.item[p].err = "task" => it.err = "task",
         s.item[p].canceled = "conveyor" => it.canceled = "conveyor",
         it.finished /\ (it.proc = "fail" \/ (it.err = "task" /\ ~it.joined)) => it.failed,
         NEW t, t = [s EXCEPT !.item = [@ EXCEPT ![p] = it]]
  PROVE  Heard(t)
<1>1. t.child = s.child /\ \A q \in Items : t.item[q] = IF q = p THEN it ELSE s.item[q]
  BY DEF States
<1>2. \A c \in 1 .. Len(s.child) : s.child[c].of \in Items
  BY ChildType
<1> QED BY <1>1, <1>2 DEF Heard

LEMMA ChildHeard ==
  ASSUME NEW s \in States, Heard(s), NEW c \in 1 .. Len(s.child), NEW k \in ChildRecords,
         k.of = s.child[c].of, k.failed => s.child[c].failed,
         k.finished /\ k.proc = "fail" => k.failed,
         NEW t, t = [s EXCEPT !.child = [@ EXCEPT ![c] = k]]
  PROVE  Heard(t)
<1>1. /\ Len(t.child) = Len(s.child) /\ t.item = s.item
      /\ \A d \in 1 .. Len(s.child) : t.child[d] = IF d = c THEN k ELSE s.child[d]
  BY ChildReplaced
<1> QED BY <1>1 DEF Heard

LEMMA CompleteItemHeard ==
  ASSUME NEW s \in States, Heard(s), NEW p \in Items
  PROVE  Heard(CompleteItem(s, p)) /\ CompleteItem(s, p).child = SettleItem(s, p).child
<1> DEFINE u == SettleItem(s, p)
           it == [u.item[p] EXCEPT !.finished = TRUE]
           t == CompleteItem(s, p)
<1>1. /\ Soft(s, u) /\ u.item[p].err = s.item[p].err
      /\ s.item[p].proc = "fail" \/ (s.item[p].err = "task" /\ ~s.item[p].joined)
           => u.item[p].failed
  BY SettleItemSoft
<1>2. t = [u EXCEPT !.item = [@ EXCEPT ![p] = it]]
  BY DEF CompleteItem
<1>3. u \in States
  BY SettleCalm DEF Calm
<1> HIDE DEF u, t
<1>4. u.item[p] \in ItemRecords
  BY <1>3 DEF States
<1>5. /\ it \in ItemRecords /\ it.err = u.item[p].err /\ it.canceled = u.item[p].canceled
      /\ it.proc = u.item[p].proc /\ it.joined = u.item[p].joined
      /\ it.failed = u.item[p].failed
  BY <1>4 DEF ItemRecords
<1> HIDE DEF it
<1>6. it.proc = "fail" \/ (it.err = "task" /\ ~it.joined) => it.failed
  BY <1>1, <1>5 DEF Soft, Worse
<1>7. Heard(u)
  BY <1>1, SoftKeeps
<1>8. Heard(t)
  BY <1>2, <1>3, <1>5, <1>6, <1>7, ItemHeard
<1>9. t.child = u.child
  BY <1>2
<1> QED BY <1>8, <1>9 DEF t, u

\* The last report of a child that is over adds nothing that would stop a body:
\* its failure has been settled before the entrance was given away.
LEMMA CompleteChildHeard ==
  ASSUME NEW s, Core(s), Heard(s), NEW c \in 1 .. Len(s.child), NEW t, t = CompleteChild(s, c)
  PROVE  Heard(t) /\ FreshAlive(s, t)
<1> DEFINE u == SettleChild(s, c)
           k == Gone(u.child[c])
           v == [u EXCEPT !.child[c] = k]
           freed == Pump(v)
           p == s.child[c].of
           e == ChildErr(s.child[c])
<1>1. t = RecordErr(freed, p, e)
  BY DEF CompleteChild
<1>2. Calm(s, u) /\ Soft(s, u) /\ (e = "task" => u.child[c].failed)
  BY SettleCalm, SettleChildSoft DEF Core
<1>3. s \in States /\ s.child[c] \in ChildRecords /\ p \in Items
  BY ChildType DEF Core
<1>4. e \in Errors
  BY <1>3 DEF ChildErr, ChildRecords, Errors, Outcomes
<1>5. v = [u EXCEPT !.child = [@ EXCEPT ![c] = k]]
  OBVIOUS
<1> HIDE DEF u, v
<1>6. Core(u) /\ Heard(u) /\ c \in 1 .. Len(u.child) /\ Len(u.child) = Len(s.child)
  BY <1>2, <1>3, CalmKeeps, SoftKeeps DEF Calm
<1>7. u \in States /\ u.child[c] \in ChildRecords
  BY <1>6, ChildType DEF Core
<1>8. ChildErr(u.child[c]) = e
  BY <1>2 DEF ChildErr, Soft, Same
<1>9. /\ k \in ChildRecords /\ k.of = u.child[c].of /\ k.of = p /\ k.finished /\ k.returned
      /\ ~HoldsEntrance(k)
  BY <1>2, <1>7, GoneType DEF Calm
<1>10. /\ k.failed = u.child[c].failed
       /\ k.proc = "fail" => e = "task"
  BY <1>8 DEF Gone, NewChild
<1> HIDE DEF k, e, p
<1>11. Core(v)
  BY <1>5, <1>6, <1>9, ChildMoved
<1>12. Heard(v)
  BY <1>2, <1>5, <1>6, <1>7, <1>9, <1>10, ChildHeard
<1>13. Len(v.child) = Len(s.child) /\ v.child[c] = k
  BY <1>5, <1>6, <1>7, <1>9, ChildReplaced
<1>14. /\ Core(freed) /\ Heard(freed) /\ FreshAlive(v, freed)
       /\ c \in 1 .. Len(freed.child) /\ freed.child[c] = k
  <2>1. Len(s.child) \in Nat /\ Len(freed.child) \in Nat
    BY <1>11, PumpRestores, ChildType, <1>3 DEF Core
  <2> QED BY <1>11, <1>12, <1>13, <2>1, PumpRestores, PumpHeard
<1> HIDE DEF freed
<1>15. e = "task" => freed.item[p].err = "task" \/ freed.item[p].canceled = "conveyor"
  BY <1>2, <1>9, <1>10, <1>14 DEF Heard
<1>16. /\ Soft(freed, t) /\ Calm(freed, t)
       /\ \A q \in Items : t.item[q].dead = freed.item[q].dead
  BY <1>1, <1>3, <1>4, <1>14, <1>15, RecordErrSoft, RecordErrCalm DEF Core, p
<1>17. Heard(t)
  BY <1>14, <1>16, SoftKeeps DEF Core
<1>18. FreshAlive(s, t)
  <2>1. /\ DOMAIN freed.child = 1 .. Len(freed.child) /\ DOMAIN t.child = 1 .. Len(freed.child)
        /\ DOMAIN v.child = DOMAIN s.child
        /\ \A d \in 1 .. Len(freed.child) :
              freed.child[d].of \in Items /\ t.child[d].of = freed.child[d].of
    BY <1>3, <1>11, <1>13, <1>14, <1>16, ChildType DEF Core, Calm
  <2> QED BY <1>14, <1>16, <2>1 DEF FreshAlive
<1> QED BY <1>17, <1>18

-----------------------------------------------------------------------------
(* The steps, once more *)

\* A step that tells what it must, and starts children of living bodies only.
Telling == Heard(State)' /\ FreshAlive(State, State')

LEMMA CommittedTells ==
  ASSUME NEW t \in States, Heard(t), FreshAlive(State, t), Commit(t)
  PROVE  Telling
<1>1. State' = t
  BY DEF State, Commit, States
<1> QED BY <1>1 DEF Telling

\* No child is born.
LEMMA QuietTells ==
  ASSUME NEW t \in States, Heard(t), Len(t.child) = Len(State.child), State \in States, Commit(t)
  PROVE  Telling
<1>1. DOMAIN t.child = DOMAIN State.child
  BY ChildType
<1> QED BY <1>1, CommittedTells DEF FreshAlive

LEMMA SoftTells ==
  ASSUME IInv, Heard(State), NEW t, Calm(State, t), Soft(State, t), Commit(t)
  PROVE  Telling
<1>1. t \in States /\ Heard(t) /\ Len(t.child) = Len(State.child)
  BY Fields, SoftKeeps DEF Calm
<1> QED BY <1>1, Fields, QuietTells

LEMMA ItemTells ==
  ASSUME IInv, Heard(State), NEW p \in Items, NEW it \in ItemRecords,
         item[p].err = "task" => it.err = "task",
         item[p].canceled = "conveyor" => it.canceled = "conveyor",
         it.finished /\ (it.proc = "fail" \/ (it.err = "task" /\ ~it.joined)) => it.failed,
         item' = [item EXCEPT ![p] = it], UNCHANGED <<queued, child, stopping>>
  PROVE  Telling
<1> DEFINE t == [State EXCEPT !.item = [@ EXCEPT ![p] = it]]
<1>1. t = [item |-> [item EXCEPT ![p] = it], queued |-> queued,
           child |-> child, stopping |-> stopping]
  BY DEF State
<1>2. Commit(t) /\ t.child = State.child
  BY <1>1 DEF Commit, State
<1>3. Heard(t)
  BY Fields, ItemHeard
<1>4. t \in States
  BY Fields DEF States
<1> HIDE DEF t
<1> QED BY <1>2, <1>3, <1>4, Fields, QuietTells

LEMMA ChildTells ==
  ASSUME IInv, Heard(State), NEW c \in 1 .. Len(child), NEW k \in ChildRecords,
         k.of = child[c].of, k.failed => child[c].failed,
         k.finished /\ k.proc = "fail" => k.failed,
         child' = [child EXCEPT ![c] = k], UNCHANGED <<item, queued, stopping>>
  PROVE  Telling
<1> DEFINE t == [State EXCEPT !.child = child']
<1>1. Commit(t)
  BY DEF Commit, State
<1>2. t = [State EXCEPT !.child = [@ EXCEPT ![c] = k]]
  BY DEF State
<1> HIDE DEF t
<1>3. t \in States /\ Len(t.child) = Len(State.child)
  BY <1>2, Fields, ChildReplaced
<1>4. Heard(t)
  BY <1>2, Fields, ChildHeard
<1> QED BY <1>1, <1>3, <1>4, Fields, QuietTells

\* pump comes last.
LEMMA PumpTells ==
  ASSUME IInv, NEW t, Core(t), Heard(t), Len(t.child) = Len(State.child), Commit(Pump(t))
  PROVE  Telling
<1>1. Pump(t) \in States /\ Heard(Pump(t)) /\ FreshAlive(t, Pump(t))
  BY PumpRestores, PumpHeard DEF Core
<1>2. DOMAIN t.child = DOMAIN State.child
  BY Fields, ChildType DEF Core
<1>3. FreshAlive(State, Pump(t))
  BY <1>1, <1>2 DEF FreshAlive
<1> QED BY <1>1, <1>3, CommittedTells

LEMMA CompletedTells ==
  ASSUME NEW s \in States, Heard(s), Len(s.child) = Len(State.child), State \in States,
         NEW p \in Items, Commit(CompleteItem(s, p))
  PROVE  Telling
<1>1. /\ Heard(CompleteItem(s, p))
      /\ CompleteItem(s, p).child = SettleItem(s, p).child
  BY CompleteItemHeard
<1>2. SettleItem(s, p) \in States /\ Len(SettleItem(s, p).child) = Len(s.child)
  BY SettleCalm DEF Calm
<1>3. CompleteItem(s, p) \in States
  <2>1. SettleItem(s, p).item[p] \in ItemRecords
    BY <1>2 DEF States
  <2>2. [SettleItem(s, p).item[p] EXCEPT !.finished = TRUE] \in ItemRecords
    BY <2>1 DEF ItemRecords
  <2> QED BY <1>2, <2>2 DEF CompleteItem, States
<1> QED BY <1>1, <1>2, <1>3, QuietTells

LEMMA FanOutTells ==
  ASSUME IInv, Heard(State), NEW p \in Items,
         EnterFanOut(p) \/ Join(p) \/ Leave(p) \/ MoveOn(p)
  PROVE  Telling
<1> DEFINE Fit(it) ==
             /\ it \in ItemRecords /\ it.err = item[p].err /\ it.canceled = item[p].canceled
             /\ it.finished /\ (it.proc = "fail" \/ (it.err = "task" /\ ~it.joined)) => it.failed
<1>1. /\ item[p] \in ItemRecords
      /\ item[p].finished
           /\ (item[p].proc = "fail" \/ (item[p].err = "task" /\ ~item[p].joined))
             => item[p].failed
  BY Fields DEF Heard
<1>2. CASE EnterFanOut(p)
  <2> DEFINE it == [item[p] EXCEPT !.body = "open"]
  <2>1. Fit(it)
    BY <1>1 DEF ItemRecords
  <2>2. item' = [item EXCEPT ![p] = it] /\ UNCHANGED <<queued, child, stopping>>
    BY <1>2 DEF EnterFanOut
  <2> HIDE DEF it
  <2> QED BY <2>1, <2>2, ItemTells
<1>3. CASE Join(p)
  <2> DEFINE it == [item[p] EXCEPT !.joined = TRUE]
  <2>1. Fit(it)
    BY <1>1 DEF ItemRecords
  <2>2. item' = [item EXCEPT ![p] = it] /\ UNCHANGED <<queued, child, stopping>>
    BY <1>3 DEF Join
  <2> HIDE DEF it
  <2> QED BY <2>1, <2>2, ItemTells
<1>4. CASE Leave(p)
  <2> DEFINE it == [item[p] EXCEPT !.body = "left", !.joined = TRUE]
  <2>1. Fit(it)
    BY <1>1 DEF ItemRecords
  <2>2. item' = [item EXCEPT ![p] = it] /\ UNCHANGED <<queued, child, stopping>>
    BY <1>1, <1>4 DEF Leave
  <2> HIDE DEF it
  <2> QED BY <2>1, <2>2, ItemTells
<1>5. CASE MoveOn(p)
  <2> DEFINE it == [item[p] EXCEPT !.body = "left", !.published = TRUE]
  <2>1. Fit(it)
    BY <1>1 DEF ItemRecords
  <2>2. item' = [item EXCEPT ![p] = it] /\ UNCHANGED <<queued, child, stopping>>
    BY <1>1, <1>5 DEF MoveOn
  <2> HIDE DEF it
  <2> QED BY <2>1, <2>2, ItemTells
<1> QED BY <1>2, <1>3, <1>4, <1>5

\* A batch makes the outcome of the body unjoined again, of an item that is not over.
LEMMA AddToBodyTells ==
  ASSUME IInv, Heard(State), NEW p \in Items, NEW n \in Nat, AddToBody(p, n),
         ~item[p].finished, item[p].body \notin {"none", "left"}
  PROVE  Telling
<1> DEFINE u == [State EXCEPT !.queued[p] = @ + n, !.item[p].joined = FALSE,
                              !.item[p].published = TRUE]
           it == [item[p] EXCEPT !.joined = FALSE, !.published = TRUE]
<1>1. Commit(Pump(u))
  BY DEF AddToBody
<1>2. Core(u)
  BY Fields, AddedCore
<1>3. u.child = child /\ \A q \in Items : u.item[q] = IF q = p THEN it ELSE item[q]
  BY Fields DEF State, States, ItemRecords
<1> HIDE DEF u
<1>4. /\ it.err = item[p].err /\ it.canceled = item[p].canceled /\ ~it.finished
      /\ State.item = item /\ State.child = child
      /\ \A c \in 1 .. Len(child) : child[c].of \in Items
  BY Fields DEF ItemRecords
<1> HIDE DEF it
<1>5. Heard(u)
  BY <1>3, <1>4 DEF Heard
<1> QED BY <1>1, <1>2, <1>3, <1>4, <1>5, PumpTells

LEMMA BatchTells ==
  ASSUME IInv, Heard(State), NEW n \in Nat,
         \/ \E p \in Items : Schedule(p, n)
         \/ \E c \in 1 .. Len(child) : Spawn(c, n)
  PROVE  Telling
<1>1. ASSUME NEW p \in Items, Schedule(p, n) PROVE Telling
  <2>1. ~item[p].finished /\ item[p].body = "open"
    BY <1>1, Fields DEF Schedule, Able, Active, Core, ReturnsFirst
  <2> QED BY <1>1, <2>1, AddToBodyTells DEF Schedule
<1>2. ASSUME NEW c \in 1 .. Len(child), Spawn(c, n) PROVE Telling
  <2> DEFINE p == child[c].of
  <2>1. p \in Items /\ c \in Kids(State)
    BY <1>2, Fields DEF Spawn, Running, Kids, Core, ReturnsFirst
  <2>2. ~Idle(State, p)
    BY <2>1, Fields DEF Idle
  <2>3. ~item[p].finished /\ item[p].body \notin {"none", "left"}
    BY <2>1, <2>2, Fields DEF Core, Attached
  <2> QED BY <1>2, <2>1, <2>3, AddToBodyTells DEF Spawn
<1> QED BY <1>1, <1>2

LEMMA ReturnTells ==
  ASSUME IInv, Heard(State), NEW p \in Items, NEW proc \in Outcomes, Return(p, proc)
  PROVE  Telling
<1> DEFINE e == AsAbort(item[p].canceled, IF proc = "ok" THEN "none" ELSE proc)
           outcome == IF e = "none" THEN "ok" ELSE e
           cause == IF outcome = "fail" THEN "self" ELSE "conveyor"
           kept == IF outcome = "ok" THEN item[p] ELSE Canceled(item[p], cause)
           it == [kept EXCEPT !.returned = TRUE, !.proc = outcome,
                              !.body = IF kept.body = "open" THEN "sealed" ELSE kept.body]
           over == [State EXCEPT !.item[p] = it]
           settled == SettleItem(over, p)
<1>1. /\ ~item[p].returned
      /\ Commit(IF Idle(settled, p) THEN CompleteItem(settled, p) ELSE settled)
  BY DEF Return, Active
<1>2. outcome \in Outcomes /\ cause \in Causes
  BY DEF AsAbort, Outcomes, Causes
<1>3. over = [State EXCEPT !.item = [@ EXCEPT ![p] = it]]
  BY DEF State
<1> HIDE DEF e, outcome, cause, over
<1>4. item[p] \in ItemRecords /\ ~item[p].finished
  BY <1>1, Fields DEF Core, ReturnsFirst
<1>5. /\ kept \in ItemRecords /\ kept.err = item[p].err /\ ~kept.finished
      /\ item[p].canceled = "conveyor" => kept.canceled = "conveyor"
  BY <1>2, <1>4, CanceledType, CanceledWorse DEF Worse
<1> HIDE DEF kept
<1>6. /\ it \in ItemRecords /\ it.err = kept.err /\ it.canceled = kept.canceled
      /\ ~it.finished
  BY <1>2, <1>5 DEF ItemRecords
<1> HIDE DEF it
<1>7. Heard(over) /\ over \in States /\ over.child = State.child
  <2>1. over.item = [item EXCEPT ![p] = it]
    BY <1>3, Fields
  <2> QED BY <1>3, <1>5, <1>6, Fields, ItemHeard DEF States
<1>8. Calm(over, settled) /\ Soft(over, settled)
  BY <1>7, SettleCalm, SettleItemSoft
<1> HIDE DEF settled
<1>9. settled \in States /\ Heard(settled) /\ Len(settled.child) = Len(State.child)
  BY <1>7, <1>8, SoftKeeps DEF Calm
<1>10. CASE ~Idle(settled, p)
  BY <1>1, <1>9, <1>10, Fields, QuietTells
<1>11. CASE Idle(settled, p)
  BY <1>1, <1>9, <1>11, Fields, CompletedTells
<1> QED BY <1>10, <1>11

LEMMA FinishTells ==
  ASSUME IInv, Heard(State), NEW p \in Items, Finish(p)
  PROVE  Telling
  BY Fields, CompletedTells DEF Finish

LEMMA MoveTells ==
  ASSUME IInv, Heard(State), NEW c \in 1 .. Len(child),
         (\E r \in 1 .. Stages : Move(c, r)) \/ Release(c)
  PROVE  Telling
<1>1. child[c] \in ChildRecords /\ (child[c].finished => child[c].returned)
  BY Fields DEF Core, ReturnsFirst
<1>2. ASSUME NEW r \in 1 .. Stages, Move(c, r) PROVE Telling
  <2> DEFINE k == [child[c] EXCEPT !.at = r]
             t == [State EXCEPT !.child[c].at = r]
  <2>1. /\ r > child[c].at /\ \A d \in Kids(State) : d < c => State.child[d].at >= r
        /\ Commit(Pump(t))
    BY <1>2, Fields, GateOpens DEF Move
  <2>2. child[c].at \in Nat /\ r \in Nat /\ r # 0
    BY Fields, ChildType, StagesNat
  <2>3. /\ k \in ChildRecords /\ k.of = child[c].of /\ k.at = r
        /\ k.finished = child[c].finished /\ k.returned = child[c].returned
        /\ k.hold = child[c].hold /\ k.work = child[c].work
        /\ k.failed = child[c].failed /\ k.proc = child[c].proc
    BY <1>1, <2>2, StagesNat DEF ChildRecords, Places
  <2>4. t = [State EXCEPT !.child = [@ EXCEPT ![c] = k]]
    BY DEF State
  <2> HIDE DEF t, k
  <2>5. HoldsEntrance(k) => HoldsEntrance(child[c])
    BY <2>2, <2>3 DEF HoldsEntrance
  <2>6. Core(t)
    BY <1>1, <2>1, <2>2, <2>3, <2>4, <2>5, Fields, ChildMoved
  <2>7. Heard(t) /\ Len(t.child) = Len(State.child)
    BY <2>3, <2>4, Fields, ChildHeard, ChildReplaced DEF Heard
  <2> QED BY <2>1, <2>6, <2>7, PumpTells
<1>3. ASSUME Release(c) PROVE Telling
  <2> DEFINE k == [child[c] EXCEPT !.hold = FALSE]
             t == [State EXCEPT !.child[c].hold = FALSE]
  <2>1. Commit(Pump(t))
    BY <1>3 DEF Release
  <2>2. /\ k \in ChildRecords /\ k.of = child[c].of /\ k.at = child[c].at
        /\ k.finished = child[c].finished /\ k.returned = child[c].returned
        /\ ~k.hold /\ k.work = child[c].work
        /\ k.failed = child[c].failed /\ k.proc = child[c].proc
    BY <1>1 DEF ChildRecords
  <2>3. t = [State EXCEPT !.child = [@ EXCEPT ![c] = k]]
    BY DEF State
  <2> HIDE DEF t, k
  <2>4. HoldsEntrance(k) => HoldsEntrance(child[c])
    BY <2>2 DEF HoldsEntrance
  <2>5. Core(t)
    BY <1>1, <2>2, <2>3, <2>4, Fields, ChildMoved
  <2>6. Heard(t) /\ Len(t.child) = Len(State.child)
    BY <2>2, <2>3, Fields, ChildHeard, ChildReplaced DEF Heard
  <2> QED BY <2>1, <2>5, <2>6, PumpTells
<1> QED BY <1>2, <1>3

LEMMA KeepTells ==
  ASSUME IInv, Heard(State), NEW c \in 1 .. Len(child),
         Retain(c) \/ RetainFor(c) \/ JoinWork(c)
  PROVE  Telling
<1> DEFINE Fit(k) == /\ k \in ChildRecords /\ k.of = child[c].of
                     /\ k.failed = child[c].failed /\ k.proc = child[c].proc
                     /\ k.finished = child[c].finished
<1>1. /\ child[c] \in ChildRecords
      /\ child[c].finished /\ child[c].proc = "fail" => child[c].failed
  BY Fields DEF Heard
<1>2. CASE Retain(c)
  <2> DEFINE k == [child[c] EXCEPT !.hold = TRUE]
  <2>1. Fit(k)
    BY <1>1 DEF ChildRecords
  <2>2. child' = [child EXCEPT ![c] = k] /\ UNCHANGED <<item, queued, stopping>>
    BY <1>2 DEF Retain
  <2> HIDE DEF k
  <2> QED BY <1>1, <2>1, <2>2, ChildTells
<1>3. CASE RetainFor(c)
  <2> DEFINE k == [child[c] EXCEPT !.work = "running"]
  <2>1. Fit(k)
    BY <1>1 DEF ChildRecords
  <2>2. child' = [child EXCEPT ![c] = k] /\ UNCHANGED <<item, queued, stopping>>
    BY <1>3 DEF RetainFor
  <2> HIDE DEF k
  <2> QED BY <1>1, <2>1, <2>2, ChildTells
<1>4. CASE JoinWork(c)
  <2> DEFINE k == [child[c] EXCEPT !.workJoined = TRUE]
  <2>1. Fit(k)
    BY <1>1 DEF ChildRecords
  <2>2. child' = [child EXCEPT ![c] = k] /\ UNCHANGED <<item, queued, stopping>>
    BY <1>4 DEF JoinWork
  <2> HIDE DEF k
  <2> QED BY <1>1, <2>1, <2>2, ChildTells
<1> QED BY <1>2, <1>3, <1>4

LEMMA WorkReturnsTells ==
  ASSUME IInv, Heard(State), NEW c \in 1 .. Len(child), NEW err \in Errors, WorkReturns(c, err)
  PROVE  Telling
<1> DEFINE e == AsAbort(item[child[c].of].dead, err)
           k == [State.child[c] EXCEPT !.work = "done", !.workErr = e]
           done == [State EXCEPT !.child[c] = k]
           told == IF e = "task" /\ child[c].returned THEN ChildFailed(done, c) ELSE done
<1>1. Commit(Pump(told))
  BY DEF WorkReturns
<1>2. /\ State.child[c] = child[c] /\ child[c] \in ChildRecords
      /\ (child[c].finished => child[c].returned)
      /\ child[c].finished /\ child[c].proc = "fail" => child[c].failed
  BY Fields DEF Core, ReturnsFirst, Heard
<1>3. e \in Errors
  BY DEF AsAbort, Errors
<1> HIDE DEF e
<1>4. /\ k \in ChildRecords /\ k.of = child[c].of /\ k.at = child[c].at
      /\ k.finished = child[c].finished /\ k.returned = child[c].returned
      /\ k.hold = child[c].hold /\ k.work = "done"
      /\ k.failed = child[c].failed /\ k.proc = child[c].proc
  BY <1>2, <1>3 DEF ChildRecords
<1> HIDE DEF k
<1>5. done = [State EXCEPT !.child = [@ EXCEPT ![c] = k]]
  BY DEF State
<1> HIDE DEF done
<1>6. HoldsEntrance(k) => HoldsEntrance(child[c])
  BY <1>4 DEF HoldsEntrance
<1>7. Core(done)
  BY <1>2, <1>4, <1>5, <1>6, Fields, ChildMoved
<1>8. Heard(done) /\ Len(done.child) = Len(State.child)
  BY <1>2, <1>4, <1>5, Fields, ChildHeard, ChildReplaced
<1>9. c \in 1 .. Len(done.child)
  BY <1>8, Fields
<1>10. Calm(done, ChildFailed(done, c)) /\ Soft(done, ChildFailed(done, c))
  BY <1>7, <1>9, ChildFailedCalm, ChildFailedSoft DEF Core
<1>11. /\ Core(ChildFailed(done, c)) /\ Heard(ChildFailed(done, c))
       /\ Len(ChildFailed(done, c).child) = Len(State.child)
  BY <1>7, <1>8, <1>10, CalmKeeps, SoftKeeps DEF Core, Calm
<1>12. Core(told) /\ Heard(told) /\ Len(told.child) = Len(State.child)
  BY <1>7, <1>8, <1>11
<1> HIDE DEF told
<1> QED BY <1>1, <1>12, PumpTells

\* A child completes, in a record in which nobody has been born yet.
LEMMA CompletedChildTells ==
  ASSUME State \in States, NEW s, Core(s), Heard(s), Len(s.child) = Len(State.child),
         NEW c \in 1 .. Len(s.child), Commit(CompleteChild(s, c))
  PROVE  Telling
<1> DEFINE t == CompleteChild(s, c)
<1>1. t \in States /\ Heard(t) /\ FreshAlive(s, t)
  BY CompleteChildKeeps, CompleteChildHeard DEF Core
<1> HIDE DEF t
<1>2. DOMAIN s.child = DOMAIN State.child
  BY ChildType DEF Core
<1>3. FreshAlive(State, t)
  BY <1>1, <1>2 DEF FreshAlive
<1> QED BY <1>1, <1>3, CommittedTells DEF t

LEMMA ChildReturnsTells ==
  ASSUME IInv, Heard(State), NEW c \in 1 .. Len(child), NEW proc \in Outcomes,
         ChildReturns(c, proc)
  PROVE  Telling
<1> DEFINE e == AsAbort(item[child[c].of].dead, IF proc = "ok" THEN "none" ELSE proc)
           outcome == IF e = "none" THEN "ok" ELSE e
           k == [State.child[c] EXCEPT !.returned = TRUE, !.proc = outcome]
           over == [State EXCEPT !.child[c] = k]
           settled == SettleChild(over, c)
<1>1. /\ ~child[c].returned
      /\ Commit(IF child[c].work = "running" THEN settled ELSE CompleteChild(settled, c))
  BY DEF ChildReturns, Running
<1>2. State.child[c] = child[c] /\ child[c] \in ChildRecords /\ ~child[c].finished
  BY <1>1, Fields DEF Core, ReturnsFirst
<1>3. outcome \in Outcomes
  BY DEF AsAbort, Outcomes
<1> HIDE DEF e, outcome
<1>4. /\ k \in ChildRecords /\ k.of = child[c].of /\ k.at = child[c].at
      /\ ~k.finished /\ k.returned
      /\ k.hold = child[c].hold /\ k.work = child[c].work /\ k.failed = child[c].failed
  BY <1>2, <1>3 DEF ChildRecords
<1> HIDE DEF k
<1>5. over = [State EXCEPT !.child = [@ EXCEPT ![c] = k]]
  BY DEF State
<1> HIDE DEF over
<1>6. HoldsEntrance(k) <=> HoldsEntrance(child[c])
  BY <1>2, <1>4 DEF HoldsEntrance
<1>7. Core(over)
  BY <1>2, <1>4, <1>5, <1>6, Fields, ChildMoved
<1>8. Heard(over) /\ Len(over.child) = Len(State.child)
  BY <1>4, <1>5, Fields, ChildHeard, ChildReplaced
<1>9. c \in 1 .. Len(over.child)
  BY <1>8, Fields
<1>10. Calm(over, settled) /\ Soft(over, settled)
  BY <1>7, <1>9, SettleCalm, SettleChildSoft DEF Core
<1> HIDE DEF settled
<1>11. /\ Core(settled) /\ Heard(settled) /\ settled \in States
       /\ Len(settled.child) = Len(State.child) /\ c \in 1 .. Len(settled.child)
  BY <1>7, <1>8, <1>9, <1>10, CalmKeeps, SoftKeeps DEF Core, Calm
<1>12. CASE child[c].work = "running"
  BY <1>1, <1>11, <1>12, Fields, QuietTells
<1>13. CASE child[c].work # "running"
  BY <1>1, <1>11, <1>13, Fields, CompletedChildTells
<1> QED BY <1>12, <1>13

LEMMA ChildFinishesTells ==
  ASSUME IInv, Heard(State), NEW c \in 1 .. Len(child), ChildFinishes(c)
  PROVE  Telling
  BY Fields, CompletedChildTells DEF ChildFinishes

LEMMA RunTells ==
  ASSUME IInv, Heard(State), BeginShutdown \/ DrainOverrun \/ UNCHANGED vars
  PROVE  Telling
<1>1. CASE BeginShutdown
  <2> DEFINE t == [State EXCEPT !.stopping = TRUE]
  <2>1. Commit(t)
    BY <1>1 DEF BeginShutdown, Commit, State
  <2>2. t.item = State.item /\ t.child = State.child /\ t \in States
    BY Fields DEF States
  <2> HIDE DEF t
  <2>3. Heard(t)
    BY <2>2 DEF Heard
  <2> QED BY <2>1, <2>2, <2>3, Fields, QuietTells
<1>2. CASE DrainOverrun
  <2>1. Commit(CancelLater(State, 0))
    BY <1>2 DEF DrainOverrun
  <2> QED BY <2>1, Fields, CancelLaterCalm, CancelLaterSoft, SoftTells
<1>3. CASE UNCHANGED vars
  <2>1. Commit(State)
    BY <1>3 DEF Commit, State, vars
  <2> QED BY <2>1, Fields, QuietTells
<1> QED BY <1>1, <1>2, <1>3

LEMMA NextTells ==
  ASSUME IInv, Heard(State), [Next]_vars
  PROVE  Telling
<1>1. DOMAIN child = 1 .. Len(child)
  BY Fields
<1>2. CASE BeginShutdown \/ DrainOverrun \/ Quiet \/ UNCHANGED vars
  BY <1>2, RunTells DEF Quiet
<1>3. ASSUME NEW p \in Items,
             \/ EnterFanOut(p) \/ Join(p) \/ Leave(p) \/ MoveOn(p) \/ Finish(p)
             \/ \E n \in 0 .. MaxTasks : Schedule(p, n)
             \/ \E proc \in Outcomes : Return(p, proc)
      PROVE  Telling
  <2>1. 0 .. MaxTasks \subseteq Nat
    BY TasksNat
  <2> QED BY <1>3, <2>1, FanOutTells, FinishTells, BatchTells, ReturnTells
<1>4. ASSUME NEW c \in DOMAIN child,
             \/ \E r \in 1 .. Stages : Move(c, r)
             \/ \E n \in 1 .. MaxTasks : Spawn(c, n)
             \/ Retain(c) \/ Release(c) \/ RetainFor(c) \/ JoinWork(c) \/ ChildFinishes(c)
             \/ \E err \in Errors : WorkReturns(c, err)
             \/ \E proc \in Outcomes : ChildReturns(c, proc)
      PROVE  Telling
  <2>1. 1 .. MaxTasks \subseteq Nat
    BY TasksNat
  <2> QED BY <1>1, <1>4, <2>1, MoveTells, BatchTells, KeepTells,
             ChildFinishesTells, WorkReturnsTells, ChildReturnsTells
<1> QED BY <1>2, <1>3, <1>4 DEF Next

LEMMA HeardInitially ==
  ASSUME Init
  PROVE  Heard(State)
<1>1. Len(State.child) = 0 /\ \A p \in Items : ~State.item[p].finished
  BY DEF Init, State, NewItem
<1> QED BY <1>1 DEF Heard

\* A child's failure reaches its body and, if nobody joins that, the item: on
\* every path, for any numbers of items, stages and tasks.
THEOREM ErrorsArrive == Spec => []NoErrorLost
<1>1. Init => IInv /\ Heard(State)
  BY Initially, HeardInitially
<1>2. IInv /\ Heard(State) /\ [Next]_vars => (IInv /\ Heard(State))'
  BY NextKeeps, NextTells DEF Telling
<1>3. IInv /\ Heard(State) => NoErrorLost
  BY Fields DEF Heard, NoErrorLost
<1> QED BY <1>1, <1>2, <1>3, PTL DEF Spec

\* No child is ever started for a body that has failed, not even by the child
\* that fails it and gives up the entrance in the same step.
THEOREM FailedBodiesStop == Spec => FailedBodyStops
<1>1. Init => IInv /\ Heard(State)
  BY Initially, HeardInitially
<1>2. IInv /\ Heard(State) /\ [Next]_vars => (IInv /\ Heard(State))'
  BY NextKeeps, NextTells DEF Telling
<1>3. IInv /\ Heard(State) /\ [Next]_vars
        => [\A c \in DOMAIN child' \ DOMAIN child : item'[child'[c].of].dead = "no"]_vars
  BY NextTells DEF Telling, FreshAlive, State
<1> QED BY <1>1, <1>2, <1>3, PTL DEF Spec, FailedBodyStops
=============================================================================
