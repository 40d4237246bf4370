---------------------------- MODULE FanOutProofs ----------------------------
EXTENDS FanOut, FiniteSetTheorems, FunctionTheorems, SequenceTheorems,
        WellFoundedInduction, TLAPS

-----------------------------------------------------------------------------
(* The inductive invariant *)

\* The queues of the branches, and the tasks that run there, as they may be.
Queues == [Branches -> Seq(Collections)]
Running == [Branches -> [Items -> Nat]]

\* The states of a run in which n items have been created.
States(n) ==
    [item : [1 .. n -> ItemRecords], queue : Queues, running : Running,
     limit : [Branches -> Nat \ {0}], stopping : BOOLEAN]

\* How the fields of an item fit together.
Placed(it) ==
    /\ it.reached \in {GateRank, RoomRank, NodeRank, BeyondRank}
    /\ GateRank <= it.published /\ it.published <= it.reached
    /\ it.reached < NodeRank => it.body = "none"
    /\ it.body = "none" => it.reached # NodeRank
    /\ it.root => it.body # "none" /\ it.published >= NodeRank
    /\ it.dormant # {} => it.body = "none" /\ it.reached < NodeRank /\ ~it.returned

\* The slots and the upstream hold of an item: each kept for a reason.
Slotted(it) ==
    /\ it.token = "gate" => "gate" \in it.slots
    /\ it.token = "room" => ~it.queuedAt
    /\ it.token # "none" => it.body # "none" /\ ~it.finished
    /\ "gate" \in it.slots => it.reached = GateRank \/ it.token = "gate"
    /\ "node" \in it.slots => it.reached = NodeRank \/ (it.retains /\ ~it.done)
    /\ it.finished => it.slots = {} /\ ~it.queuedAt

\* An error that nobody can take any more.
Failing(it) ==
    it.returned /\ (it.proc = "fail" \/ (it.err = "task" /\ ~it.joined))

\* What has failed is known, at every point of the item's life.
Told(it) ==
    /\ it.finished => it.returned
    /\ it.returned => it.body # "open"
    /\ it.err = "task" => it.dead
    /\ it.broke => it.err = "task"
    /\ Failing(it) => it.failed

\* The hold of an item: as long as the body is open and the first batch has not
\* come it lives, and it ends before the batch that it waits for under Balanced
\* begins.
Held(it) ==
    /\ it.body = "none" => it.held = "buffered"
    /\ it.begun => it.root
    /\ it.token # "none" => it.held # "buffered" /\ ~it.begun /\ (it.root \/ it.body = "open")
    /\ it.body = "open" /\ ~it.root /\ ~it.finished /\ it.held # "buffered" => it.token # "none"

Fit(it) == Placed(it) /\ Slotted(it) /\ Told(it)

\* A sealed idle task group is finished.
Settled(it) == it.body \notin {"none", "open"} /\ Idle(it) => it.done

\* The places in the queues and the slots that an item has.
QueuedOf(q, i) ==
    {x \in Branches \X Nat : x[2] \in DOMAIN q[x[1]] /\ q[x[1]][x[2]].item = i}
RunningOf(r, i) == {x \in Branches \X Nat : x[2] \in 1 .. r[x[1]][i]}

\* The counters of a task group are what it has in the queues and in the slots.
Counted(s, n) ==
    /\ \A i \in 1 .. n :
          /\ IsFiniteSet(QueuedOf(s.queue, i)) /\ IsFiniteSet(RunningOf(s.running, i))
          /\ s.item[i].unexhausted = Cardinality(QueuedOf(s.queue, i))
          /\ s.item[i].tasks = Cardinality(RunningOf(s.running, i))
    /\ \A b \in Branches : IsFiniteSet(Slots(s, b))

\* Item i exists and has opened the door of the fan-out.
Within(s, n, i) == i <= n /\ s.item[i].published >= NodeRank

\* Work belongs to items that have opened the door.
Working(s, n) ==
    \A b \in Branches :
        /\ \A i \in Items : s.running[b][i] > 0 => Within(s, n, i)
        /\ \A k \in DOMAIN s.queue[b] : Within(s, n, s.queue[b][k].item)

\* Nobody is admitted further than what everybody ahead has published.
Ordered(s, n) ==
    \A old, young \in 1 .. n :
        old < young /\ ~s.item[old].finished /\ ~s.item[young].finished =>
            s.item[young].reached <= s.item[old].published

\* A queue is sorted by the age of its items.
ByAge(q) == \A k, l \in DOMAIN q : k < l => q[k].item <= q[l].item

Sorted(s) == \A b \in Branches : ByAge(s.queue[b])

\* The place k of the queue of b is the entering batch of item i.
Entering(s, i, b, k) == s.queue[b][k].item = i /\ s.queue[b][k].entering

\* Item i has its entering batch queued on b, and it has not begun there.
Waits(s, i, b) ==
    \E k \in DOMAIN s.queue[b] : Entering(s, i, b, k) /\ ~s.queue[b][k].begun

\* An item has one entering batch, with one collection on a branch.
Single(s) ==
    \A b \in Branches : \A k, l \in DOMAIN s.queue[b] :
        Entering(s, s.queue[b][k].item, b, k) /\ Entering(s, s.queue[b][k].item, b, l) => k = l

\* A hold waits for the branches where the entering batch waits, and for as long.
HoldOf(s, i) ==
    LET it == s.item[i]
    IN  /\ ~it.root => \A b \in Branches : \A k \in DOMAIN s.queue[b] : ~Entering(s, i, b, k)
        /\ it.token # "none" /\ it.root =>
              it.awaiting # {} /\ \A b \in Branches : b \in it.awaiting <=> Waits(s, i, b)
        /\ it.token = "none" /\ it.held # "buffered" /\ ~it.begun /\ ~it.finished =>
              \A b \in Branches : ~Waits(s, i, b)

Holding(s, n) == Single(s) /\ \A i \in 1 .. n : HoldOf(s, i)

\* Everybody behind a reported failure is over or canceled.
Stopped(s, n) ==
    \A i \in 1 .. n : s.item[i].failed =>
        /\ s.stopping
        /\ \A j \in i + 1 .. n : s.item[j].finished \/ s.item[j].canceled # "no"

\* What holds at every point of a cascade, in which n items have been created.
Core(s, n) ==
    /\ s \in States(n)
    /\ \A i \in 1 .. n : Fit(s.item[i]) /\ Held(s.item[i]) /\ Settled(s.item[i])
    /\ Counted(s, n) /\ Working(s, n) /\ Ordered(s, n) /\ Sorted(s) /\ Holding(s, n)
    /\ Stopped(s, n)

\* The inductive invariant.
IInv ==
    /\ created \in 0 .. NItems /\ loose \in [Branches -> Nat] /\ mode \in Modes
    /\ Core(State, created)
    /\ NoStrandedWork

-----------------------------------------------------------------------------
(* Induction: every non-empty set of naturals has a least element, hence what
   is iterated is defined and keeps what each of its steps keeps. *)

\* The naturals are well ordered.
LEMMA NatMin ==
  ASSUME NEW T \in SUBSET Nat, T # {}
  PROVE  \E n \in T : \A m \in T : n <= m
<1> DEFINE R == OpToRel(<, Nat)
<1>1. IsWellFoundedOn(R, Nat)
  BY NatLessThanWellFounded
<1>2. \A m, n \in Nat : m < n => <<m,n>> \in R
  BY DEF OpToRel
<1> HIDE DEF R
<1>3. \E x \in T : \A y \in T : ~ (<<y, x>> \in R)
  BY <1>1, WFMin
<1>4. PICK n \in T : \A m \in T : ~ (<<m, n>> \in R)
  BY <1>3
<1>5. \A m \in T : ~ (m < n)
  BY <1>2, <1>4
<1> QED BY <1>5

\* Induction, for sets.
LEMMA Induction ==
  ASSUME NEW T, 0 \in T, \A n \in Nat : n \in T => n + 1 \in T
  PROVE  Nat \subseteq T
<1> DEFINE Bad == Nat \ T
<1> SUFFICES ASSUME Bad # {} PROVE FALSE
  OBVIOUS
<1>1. PICK n \in Bad : \A m \in Bad : n <= m
  BY NatMin
<1>2. n # 0 /\ n - 1 \in Nat
  BY <1>1
<1>3. n - 1 \in T
  BY <1>1, <1>2
<1>4. (n - 1) + 1 \in T
  BY <1>2, <1>3
<1> QED BY <1>1, <1>4

\* f lists x and what g makes of it, step by step.
Iterates(f, S, g, x) ==
    f \in [Nat -> S] /\ f[0] = x /\ \A n \in Nat : f[n+1] = g[<<n + 1, f[n]>>]

\* What is iterated stays in S if each of its steps does.
LEMMA Iteration ==
  ASSUME NEW S, NEW g \in [(Nat \ {0}) \X S -> S], NEW x \in S
  PROVE  \E f : Iterates(f, S, g, x)
<1> DEFINE Upto(n, f) == /\ f \in [0 .. n -> S] /\ f[0] = x
                         /\ \A m \in 0 .. n : m # n => f[m+1] = g[<<m + 1, f[m]>>]
           T == {n \in Nat : \E f : Upto(n, f)}
<1>1. 0 \in T
  <2>1. Upto(0, [m \in 0 .. 0 |-> x])
    OBVIOUS
  <2> QED BY <2>1
<1>2. ASSUME NEW n \in Nat, n \in T PROVE n + 1 \in T
  <2>1. PICK f : Upto(n, f)
    BY <1>2
  <2> DEFINE h == [m \in 0 .. n + 1 |-> IF m = n + 1 THEN g[<<n + 1, f[n]>>] ELSE f[m]]
  <2>2. h \in [0 .. n + 1 -> S]
    <3>1. f[n] \in S BY <2>1
    <3>2. \A m \in 0 .. n + 1 : m # n + 1 => m \in 0 .. n
      OBVIOUS
    <3> QED BY <2>1, <3>1, <3>2
  <2>3. h[0] = x
    BY <2>1
  <2>4. ASSUME NEW m \in 0 .. n + 1, m # n + 1 PROVE h[m+1] = g[<<m + 1, h[m]>>]
    <3>1. m \in 0 .. n /\ h[m] = f[m] /\ m + 1 \in 0 .. n + 1
      BY <2>4
    <3>2. CASE m = n
      BY <3>1, <3>2
    <3>3. CASE m # n
      <4>1. h[m+1] = f[m+1]
        BY <3>1, <3>3
      <4> QED BY <2>1, <3>1, <3>3, <4>1
    <3> QED BY <3>2, <3>3
  <2> HIDE DEF h
  <2>5. Upto(n + 1, h)
    BY <2>2, <2>3, <2>4
  <2> QED BY <2>5
<1>3. Nat \subseteq T
  <2> HIDE DEF T
  <2> QED BY <1>1, <1>2, Induction
<1>4. \A n \in Nat : \E f : Upto(n, f)
  BY <1>3
<1> HIDE DEF Upto
<1> DEFINE F == [n \in Nat |-> (CHOOSE f : Upto(n, f))[n]]
<1>5. \A n \in Nat : Upto(n, CHOOSE f : Upto(n, f))
  BY <1>4
\* Two of them agree as far as both go.
<1>6. ASSUME NEW n \in Nat, NEW f, Upto(n, f), NEW h, Upto(n + 1, h)
      PROVE  h[n] = f[n]
  <2> DEFINE A == {m \in Nat : m <= n => h[m] = f[m]}
  <2>1. 0 \in A
    BY <1>6 DEF Upto
  <2>2. ASSUME NEW m \in Nat, m \in A PROVE m + 1 \in A
    <3> SUFFICES ASSUME m + 1 <= n PROVE h[m+1] = f[m+1]
      OBVIOUS
    <3>1. m \in 0 .. n /\ m # n /\ m \in 0 .. n + 1 /\ m # n + 1
      OBVIOUS
    <3>2. h[m+1] = g[<<m + 1, h[m]>>] /\ f[m+1] = g[<<m + 1, f[m]>>]
      BY <1>6, <3>1 DEF Upto
    <3> QED BY <2>2, <3>1, <3>2
  <2>3. Nat \subseteq A
    <3> HIDE DEF A
    <3> QED BY <2>1, <2>2, Induction
  <2> QED BY <2>3
<1>7. F \in [Nat -> S]
  <2>1. ASSUME NEW n \in Nat PROVE F[n] \in S
    <3>1. n \in 0 .. n
      OBVIOUS
    <3> QED BY <1>5, <3>1 DEF Upto
  <2> QED BY <2>1
<1>8. F[0] = x
  BY <1>5 DEF Upto
<1>9. ASSUME NEW n \in Nat PROVE F[n+1] = g[<<n + 1, F[n]>>]
  <2> DEFINE f == CHOOSE f : Upto(n, f)
             h == CHOOSE h : Upto(n + 1, h)
  <2>1. Upto(n, f) /\ Upto(n + 1, h)
    BY <1>5
  <2>2. F[n] = f[n] /\ F[n+1] = h[n+1]
    OBVIOUS
  <2> HIDE DEF f, h, F
  <2>3. h[n] = f[n]
    BY <1>6, <2>1
  <2>4. h[n+1] = g[<<n + 1, h[n]>>]
    <3>1. n \in 0 .. n + 1 /\ n # n + 1
      OBVIOUS
    <3> QED BY <2>1, <3>1 DEF Upto
  <2> QED BY <2>2, <2>3, <2>4
<1> HIDE DEF F
<1>10. Iterates(F, S, g, x)
  BY <1>7, <1>8, <1>9 DEF Iterates
<1> QED BY <1>10

-----------------------------------------------------------------------------
(* Queues *)

\* Taking the head of a queue.
LEMMA TailOfQueue ==
  ASSUME NEW q \in Seq(Collections), q # <<>>
  PROVE  /\ Head(q) = q[1] /\ Len(q) \in Nat \ {0} /\ q[1] \in Collections
         /\ Tail(q) \in Seq(Collections) /\ Len(Tail(q)) = Len(q) - 1
         /\ \A k \in 1 .. Len(q) - 1 : Tail(q)[k] = q[k + 1]
<1>1. Len(q) \in Nat /\ DOMAIN q = 1 .. Len(q) /\ Len(q) # 0
  OBVIOUS
<1>2. q[1] \in Collections
  BY <1>1
<1> QED BY <1>1, <1>2

\* The maximum of a non-empty bounded set of naturals.
LEMMA SetMax ==
  ASSUME NEW m \in Nat, NEW A \in SUBSET (1 .. m), A # {}
  PROVE  Max(A) \in A /\ \A a \in A : a <= Max(A)
<1> DEFINE B == {m - a : a \in A}
<1>1. B \in SUBSET Nat /\ B # {}
  <2>1. \A a \in A : a \in Nat /\ m - a \in Nat
    OBVIOUS
  <2> QED BY <2>1
<1>2. PICK c \in B : \A d \in B : c <= d
  BY <1>1, NatMin
<1>3. PICK a \in A : c = m - a
  BY <1>2
<1>4. \A d \in A : a >= d
  <2> TAKE d \in A
  <2>1. m - d \in B
    OBVIOUS
  <2>2. c <= m - d /\ a \in Nat /\ d \in Nat
    BY <1>2, <2>1
  <2> QED BY <1>3, <2>2
<1>5. Max(A) \in A /\ \A d \in A : Max(A) >= d
  BY <1>4 DEF Max
<1> QED BY <1>5

\* The maximum of two numbers, as in the raise of a published rank.
LEMMA MaxOfTwo ==
  ASSUME NEW a \in Int, NEW b \in Int
  PROVE  Max({a, b}) = IF a >= b THEN a ELSE b
<1> DEFINE c == IF a >= b THEN a ELSE b
<1>1. c \in {a, b} /\ \A y \in {a, b} : c >= y
  OBVIOUS
<1>2. \A d \in {a, b} : (\A y \in {a, b} : d >= y) => d = c
  OBVIOUS
<1>3. Max({a, b}) \in {a, b} /\ \A y \in {a, b} : Max({a, b}) >= y
  BY <1>1 DEF Max
<1> QED BY <1>2, <1>3

\* Where a collection goes in a queue by age.
Place(q, i) ==
    LET before == {k \in DOMAIN q : q[k].item <= i}
    IN  IF before = {} THEN 1 ELSE 1 + Max(before)

\* The place of a new collection is in the queue or right behind it.
LEMMA PlaceRange ==
  ASSUME NEW q \in Seq(Collections), NEW i
  PROVE  Place(q, i) \in 1 .. Len(q) + 1
<1> DEFINE before == {k \in DOMAIN q : q[k].item <= i}
<1>1. DOMAIN q = 1 .. Len(q) /\ Len(q) \in Nat
  OBVIOUS
<1>2. CASE before = {}
  BY <1>1, <1>2 DEF Place
<1>3. CASE before # {}
  <2>1. Place(q, i) = 1 + Max(before)
    BY <1>3 DEF Place
  <2>2. before \in SUBSET (1 .. Len(q))
    BY <1>1
  <2> HIDE DEF before
  <2>3. Max(before) \in 1 .. Len(q)
    BY <1>1, <1>3, <2>2, SetMax
  <2> QED BY <1>1, <2>1, <2>3
<1> QED BY <1>2, <1>3

\* In a sorted queue that place is behind the same item and older ones.
LEMMA PlaceInQueue ==
  ASSUME NEW q \in Seq(Collections), NEW i \in Items, ByAge(q)
  PROVE  /\ Place(q, i) \in 1 .. Len(q) + 1
         /\ \A k \in DOMAIN q : k < Place(q, i) <=> q[k].item <= i
<1> DEFINE before == {k \in DOMAIN q : q[k].item <= i}
<1>1. DOMAIN q = 1 .. Len(q) /\ Len(q) \in Nat /\ \A k \in DOMAIN q : q[k].item \in Int /\ i \in Int
  <2>1. \A k \in DOMAIN q : q[k] \in Collections
    OBVIOUS
  <2>2. \A j \in Items : j \in Int
    BY NItemsNat DEF Items
  <2> QED BY <2>1, <2>2 DEF Collections
<1>2. CASE before = {}
  BY <1>1, <1>2 DEF Place
<1>3. CASE before # {}
  <2>1. Max(before) \in before /\ \A k \in before : k <= Max(before)
    BY <1>1, <1>3, SetMax
  <2>2. Place(q, i) = 1 + Max(before)
    BY <1>3 DEF Place
  <2> HIDE DEF before
  <2> DEFINE m == Max(before)
  <2>3. m \in 1 .. Len(q) /\ q[m].item <= i
    BY <1>1, <2>1 DEF before
  <2>4. ASSUME NEW k \in DOMAIN q, k < 1 + m PROVE q[k].item <= i
    <3>1. k = m \/ k < m
      BY <1>1, <2>3, <2>4
    <3>2. k < m => q[k].item <= q[m].item
      BY <1>1, <2>3 DEF ByAge
    <3>3. q[k].item \in Int /\ q[m].item \in Int /\ i \in Int
      BY <1>1, <2>3
    <3> QED BY <2>3, <3>1, <3>2, <3>3
  <2>5. ASSUME NEW k \in DOMAIN q, q[k].item <= i PROVE k < 1 + m
    <3>1. k \in before
      BY <2>5 DEF before
    <3> QED BY <1>1, <2>1, <2>3, <3>1
  <2> HIDE DEF m
  <2>6. Place(q, i) = 1 + m
    BY <2>2 DEF m
  <2> QED BY <1>1, <2>3, <2>4, <2>5, <2>6
<1> QED BY <1>2, <1>3

\* A queue with one collection more.
LEMMA InsertedQueue ==
  ASSUME NEW q \in Seq(Collections), NEW p \in 1 .. Len(q) + 1, NEW col \in Collections
  PROVE  /\ InsertAt(q, p, col) \in Seq(Collections)
         /\ Len(InsertAt(q, p, col)) = Len(q) + 1
         /\ InsertAt(q, p, col)[p] = col
         /\ \A k \in 1 .. Len(q) + 1 :
               InsertAt(q, p, col)[k] = IF k < p THEN q[k] ELSE IF k = p THEN col ELSE q[k - 1]
<1>1. Len(q) \in Nat /\ SubSeq(q, 1, p - 1) \in Seq(Collections)
      /\ SubSeq(q, p, Len(q)) \in Seq(Collections)
  OBVIOUS
<1>2. Len(SubSeq(q, 1, p - 1)) = p - 1 /\ \A k \in 1 .. p - 1 : SubSeq(q, 1, p - 1)[k] = q[k]
  BY <1>1
<1>3. /\ Len(SubSeq(q, p, Len(q))) = Len(q) - p + 1
      /\ \A k \in 1 .. Len(q) - p + 1 : SubSeq(q, p, Len(q))[k] = q[p + k - 1]
  BY <1>1
<1> DEFINE u == SubSeq(q, 1, p - 1)
           v == SubSeq(q, p, Len(q))
           w == u \o <<col>>
<1> HIDE DEF u, v
<1>4. w \in Seq(Collections) /\ Len(w) = p /\ w[p] = col /\ \A k \in 1 .. p - 1 : w[k] = q[k]
  BY <1>1, <1>2 DEF u
<1> HIDE DEF w
<1>5. /\ w \o v \in Seq(Collections) /\ Len(w \o v) = Len(q) + 1
      /\ \A k \in 1 .. p : (w \o v)[k] = w[k]
      /\ \A k \in p + 1 .. Len(q) + 1 : (w \o v)[k] = q[k - 1]
  BY <1>1, <1>3, <1>4 DEF v
<1>6. InsertAt(q, p, col) = w \o v
  BY DEF InsertAt, u, v, w
<1> QED BY <1>1, <1>4, <1>5, <1>6

-----------------------------------------------------------------------------
(* Counting *)

\* Taking the place p of b out of a queue takes it out of what its item has.
LEMMA CountWithout ==
  ASSUME NEW q \in Queues, NEW r \in Queues, NEW b \in Branches, NEW p \in DOMAIN q[b],
         NEW i \in Items,
         Len(r[b]) = Len(q[b]) - 1,
         \A k \in DOMAIN r[b] : r[b][k].item = IF k < p THEN q[b][k].item ELSE q[b][k + 1].item,
         \A c \in Branches \ {b} : r[c] = q[c]
  PROVE  /\ IsFiniteSet(QueuedOf(q, i)) <=> IsFiniteSet(QueuedOf(r, i))
         /\ IsFiniteSet(QueuedOf(q, i)) =>
               Cardinality(QueuedOf(q, i)) =
                   Cardinality(QueuedOf(r, i)) + (IF q[b][p].item = i THEN 1 ELSE 0)
<1> DEFINE A == QueuedOf(q, i) \ {<<b, p>>}
           B == QueuedOf(r, i)
           up(x) == <<x[1], IF x[1] = b /\ x[2] >= p THEN x[2] + 1 ELSE x[2]>>
           f == [x \in B |-> up(x)]
<1>1. /\ DOMAIN q[b] = 1 .. Len(q[b]) /\ DOMAIN r[b] = 1 .. Len(r[b])
      /\ Len(q[b]) \in Nat /\ Len(r[b]) \in Nat /\ p \in 1 .. Len(q[b])
      /\ \A k \in 1 .. Len(q[b]) - 1 :
            /\ k < p => r[b][k].item = q[b][k].item
            /\ k >= p => r[b][k].item = q[b][k + 1].item
  <2>1. q[b] \in Seq(Collections) /\ r[b] \in Seq(Collections)
    BY DEF Queues
  <2>2. /\ DOMAIN q[b] = 1 .. Len(q[b]) /\ DOMAIN r[b] = 1 .. Len(r[b])
        /\ Len(q[b]) \in Nat /\ Len(r[b]) \in Nat
    BY <2>1
  <2> QED BY <2>2
<1>2. /\ \A c \in Branches, k \in Nat :
            /\ <<c, k>> \in B <=> k \in DOMAIN r[c] /\ r[c][k].item = i
            /\ <<c, k>> \in A <=>
                  k \in DOMAIN q[c] /\ q[c][k].item = i /\ ~(c = b /\ k = p)
      /\ \A x \in A \union B : \E c \in Branches, k \in Nat : x = <<c, k>>
  BY DEF QueuedOf
<1>3. \A c \in Branches, k \in Nat : <<c, k>> \in B =>
          f[<<c, k>>] = <<c, IF c = b /\ k >= p THEN k + 1 ELSE k>>
  OBVIOUS
<1> HIDE DEF A, B, f
<1>4. ASSUME NEW x \in B PROVE f[x] \in A
  <2>1. PICK c \in Branches, k \in Nat : x = <<c, k>>
    BY <1>2
  <2>2. k \in DOMAIN r[c] /\ r[c][k].item = i
    BY <1>2, <2>1
  <2>3. CASE c = b /\ k >= p
    <3>1. k + 1 \in DOMAIN q[b] /\ k + 1 # p /\ k + 1 \in Nat /\ q[b][k + 1].item = i
      <4>1. k \in 1 .. Len(q[b]) - 1 /\ r[b][k].item = i /\ k >= p
        BY <1>1, <2>2, <2>3
      <4> QED BY <1>1, <4>1
    <3>2. <<b, k + 1>> \in A
      BY <1>2, <3>1
    <3> QED BY <1>3, <2>1, <2>3, <3>2
  <2>4. CASE ~(c = b /\ k >= p)
    <3>1. k \in DOMAIN q[c] /\ q[c][k].item = i /\ ~(c = b /\ k = p)
      <4>1. CASE c = b
        <5>1. k < p /\ r[b][k].item = q[b][k].item
          BY <1>1, <2>2, <2>4, <4>1
        <5> QED BY <1>1, <2>2, <4>1, <5>1
      <4>2. CASE c # b
        BY <2>2, <4>2
      <4> QED BY <4>1, <4>2
    <3>2. <<c, k>> \in A
      BY <1>2, <3>1
    <3> QED BY <1>3, <2>1, <2>4, <3>2
  <2> QED BY <2>3, <2>4
<1>5. ASSUME NEW x \in B, NEW y \in B, f[x] = f[y] PROVE x = y
  <2>1. PICK c \in Branches, k \in Nat : x = <<c, k>>
    BY <1>2
  <2>2. PICK d \in Branches, l \in Nat : y = <<d, l>>
    BY <1>2
  <2>3. f[x] = <<c, IF c = b /\ k >= p THEN k + 1 ELSE k>>
    BY <1>3, <2>1
  <2>4. f[y] = <<d, IF d = b /\ l >= p THEN l + 1 ELSE l>>
    BY <1>3, <2>2
  <2> DEFINE k1 == IF c = b /\ k >= p THEN k + 1 ELSE k
             l1 == IF d = b /\ l >= p THEN l + 1 ELSE l
  <2>5. c = d /\ k1 = l1
    <3> HIDE DEF k1, l1
    <3>1. f[x] = <<c, k1>> /\ f[y] = <<d, l1>>
      BY <2>3, <2>4 DEF k1, l1
    <3>2. <<c, k1>>[1] = c /\ <<c, k1>>[2] = k1 /\ <<d, l1>>[1] = d /\ <<d, l1>>[2] = l1
      OBVIOUS
    <3> QED BY <1>5, <3>1, <3>2
  <2>6. k = l
    BY <1>1, <2>5
  <2> QED BY <2>1, <2>2, <2>5, <2>6
<1>6. ASSUME NEW z \in A PROVE \E x \in B : f[x] = z
  <2>1. PICK c \in Branches, k \in Nat : z = <<c, k>>
    BY <1>2
  <2>2. k \in DOMAIN q[c] /\ q[c][k].item = i /\ ~(c = b /\ k = p)
    BY <1>2, <2>1
  <2>3. CASE c = b /\ k > p
    <3>1. PICK j \in Nat : k = j + 1 /\ j >= p
      <4>1. k - 1 \in Nat /\ k = (k - 1) + 1 /\ k - 1 >= p
        BY <1>1, <2>3
      <4> WITNESS k - 1 \in Nat
      <4> QED BY <4>1
    <3>2. j \in 1 .. Len(q[b]) - 1 /\ q[b][j + 1].item = i
      BY <1>1, <2>2, <2>3, <3>1
    <3>3. j \in DOMAIN r[b] /\ r[b][j].item = i
      BY <1>1, <3>1, <3>2
    <3>4. <<b, j>> \in B
      BY <1>2, <3>3
    <3>5. f[<<b, j>>] = <<b, j + 1>>
      BY <1>3, <3>1, <3>4
    <3> QED BY <2>1, <2>3, <3>1, <3>4, <3>5
  <2>4. CASE ~(c = b /\ k > p)
    <3>1. k \in DOMAIN r[c] /\ r[c][k].item = i /\ ~(c = b /\ k >= p)
      <4>1. CASE c = b
        <5>1. k \in DOMAIN r[b] /\ k < p
          BY <1>1, <2>2, <2>4, <4>1
        <5>2. r[b][k].item = q[b][k].item
          BY <5>1
        <5> QED BY <2>2, <4>1, <5>1, <5>2
      <4>2. CASE c # b
        BY <2>2, <4>2
      <4> QED BY <4>1, <4>2
    <3>2. <<c, k>> \in B
      BY <1>2, <3>1
    <3>3. f[<<c, k>>] = <<c, k>>
      BY <1>3, <3>1, <3>2
    <3> QED BY <2>1, <3>2, <3>3
  <2> QED BY <2>3, <2>4
<1>7. ExistsBijection(B, A) /\ ExistsBijection(A, B)
  <2>1. f \in Bijection(B, A)
    <3>1. f \in [B -> A]
      BY <1>4 DEF f
    <3> QED BY <1>5, <1>6, <3>1 DEF Bijection, Injection, Surjection, IsInjective
  <2>2. ExistsBijection(B, A)
    BY <2>1 DEF ExistsBijection
  <2> QED BY <2>2, Fun_ExistsBijSymmetric
<1>8. /\ IsFiniteSet(A) <=> IsFiniteSet(B)
      /\ IsFiniteSet(A) => Cardinality(A) = Cardinality(B)
  <2> QED BY <1>7, FS_Bijection
<1>9. CASE q[b][p].item # i
  <2>1. A = QueuedOf(q, i)
    BY <1>9 DEF QueuedOf, A
  <2>2. IsFiniteSet(B) => Cardinality(B) \in Nat
    BY FS_CardinalityType
  <2> QED BY <1>8, <1>9, <2>1, <2>2 DEF B
<1>10. CASE q[b][p].item = i
  <2>1. <<b, p>> \in QueuedOf(q, i) /\ QueuedOf(q, i) = A \union {<<b, p>>} /\ <<b, p>> \notin A
    BY <1>1, <1>10 DEF QueuedOf, A
  <2>2. IsFiniteSet(A) <=> IsFiniteSet(QueuedOf(q, i))
    BY <2>1, FS_AddElement, FS_Subset
  <2>3. IsFiniteSet(A) => Cardinality(QueuedOf(q, i)) = Cardinality(A) + 1
    BY <2>1, FS_AddElement
  <2> QED BY <1>8, <1>10, <2>2, <2>3 DEF B
<1> QED BY <1>9, <1>10

\* One task more, or one less, of i on b.
OneMore(s, t, b, i) ==
    /\ s.running \in Running /\ t.running \in Running
    /\ t.running[b][i] = s.running[b][i] + 1
    /\ \A c \in Branches, j \in Items :
          c # b \/ j # i => t.running[c][j] = s.running[c][j]

\* A task more in a slot is a task more of its item.
LEMMA CountRunning ==
  ASSUME NEW s, NEW t, NEW b \in Branches, NEW i \in Items, OneMore(s, t, b, i),
         NEW j \in Items
  PROVE  /\ IsFiniteSet(RunningOf(s.running, j)) <=> IsFiniteSet(RunningOf(t.running, j))
         /\ IsFiniteSet(RunningOf(s.running, j)) =>
               Cardinality(RunningOf(t.running, j)) =
                   Cardinality(RunningOf(s.running, j)) + (IF i = j THEN 1 ELSE 0)
<1> DEFINE n == s.running[b][i]
           A == RunningOf(s.running, j)
           B == RunningOf(t.running, j)
<1>1. n \in Nat /\ \A c \in Branches : s.running[c][j] \in Nat /\ t.running[c][j] \in Nat
  BY DEF OneMore, Running
<1>2. CASE i # j
  <2>1. \A c \in Branches : t.running[c][j] = s.running[c][j]
    BY <1>2 DEF OneMore
  <2>2. A = B
    BY <2>1 DEF RunningOf
  <2>3. IsFiniteSet(A) => Cardinality(A) \in Nat
    BY FS_CardinalityType
  <2> QED BY <1>2, <2>2, <2>3
<1>3. CASE i = j
  <2>1. \A c \in Branches, k \in Nat :
           k \in 1 .. t.running[c][j] <=>
               k \in 1 .. s.running[c][j] \/ (c = b /\ k = n + 1)
    BY <1>1, <1>3 DEF OneMore
  <2>2. B = A \union {<<b, n + 1>>}
    <3>1. \A c \in Branches, k \in Nat : <<c, k>> \in B <=> <<c, k>> \in A \/ (c = b /\ k = n + 1)
      BY <2>1 DEF RunningOf
    <3>2. \A x \in A \union B : \E c \in Branches, k \in Nat : x = <<c, k>>
      BY DEF RunningOf
    <3>3. n + 1 \in Nat
      BY <1>1
    <3> HIDE DEF A, B, n
    <3>4. \A x \in A \union B : x \in B <=> x \in A \/ x = <<b, n + 1>>
      <4> TAKE x \in A \union B
      <4>1. PICK c \in Branches, k \in Nat : x = <<c, k>>
        BY <3>2
      <4>2. x = <<b, n + 1>> <=> c = b /\ k = n + 1
        BY <4>1
      <4> QED BY <3>1, <4>1, <4>2
    <3>5. <<b, n + 1>> \in B
      BY <3>1, <3>3
    <3> QED BY <3>4, <3>5
  <2>3. <<b, n + 1>> \notin A
    BY <1>1, <1>3 DEF RunningOf
  <2> HIDE DEF A, B, n
  <2>4. IsFiniteSet(A) <=> IsFiniteSet(B)
    BY <2>2, FS_AddElement, FS_Subset
  <2>5. IsFiniteSet(A) => Cardinality(B) = Cardinality(A) + 1
    BY <2>2, <2>3, FS_AddElement
  <2> QED BY <1>3, <2>4, <2>5 DEF A, B
<1> QED BY <1>2, <1>3

\* The slots of a branch are numbered pairs.
LEMMA SlotsMember ==
  ASSUME NEW s, NEW c \in Branches, s.running \in Running
  PROVE  /\ \A j \in Items, k \in Nat :
               <<j, k>> \in Slots(s, c) <=> k \in 1 .. s.running[c][j]
         /\ \A x \in Slots(s, c) : \E j \in Items, k \in Nat : x = <<j, k>>
<1>1. \A j \in Items : s.running[c][j] \in Nat
  BY DEF Running
<1>2. \A j \in Items : 1 .. s.running[c][j] \subseteq Nat
  BY <1>1
<1> QED BY <1>2 DEF Slots

\* A task more is a slot more in use, on its branch only.
LEMMA CountSlots ==
  ASSUME NEW s, NEW t, NEW b \in Branches, NEW i \in Items, OneMore(s, t, b, i),
         NEW c \in Branches
  PROVE  /\ IsFiniteSet(Slots(s, c)) <=> IsFiniteSet(Slots(t, c))
         /\ IsFiniteSet(Slots(s, c)) =>
               Occupied(t, c) = Occupied(s, c) + (IF b = c THEN 1 ELSE 0)
<1> DEFINE n == s.running[b][i]
           A == Slots(s, c)
           B == Slots(t, c)
<1>1. n \in Nat /\ \A j \in Items : s.running[c][j] \in Nat /\ t.running[c][j] \in Nat
  BY DEF OneMore, Running
<1>2. s.running \in Running /\ t.running \in Running
  BY DEF OneMore
<1>3. \A x \in A \union B : \E j \in Items, k \in Nat : x = <<j, k>>
  BY <1>2, SlotsMember
<1>4. CASE b # c
  <2>1. \A j \in Items : t.running[c][j] = s.running[c][j]
    BY <1>4 DEF OneMore
  <2>2. A = B
    <3>1. \A j \in Items, k \in Nat : <<j, k>> \in A <=> <<j, k>> \in B
      BY <1>2, <2>1, SlotsMember
    <3> HIDE DEF A, B
    <3> QED BY <1>3, <3>1
  <2>3. IsFiniteSet(A) => Cardinality(A) \in Nat
    BY FS_CardinalityType
  <2> QED BY <1>4, <2>2, <2>3 DEF Occupied
<1>5. CASE b = c
  <2>1. \A j \in Items, k \in Nat :
           k \in 1 .. t.running[c][j] <=>
               k \in 1 .. s.running[c][j] \/ (i = j /\ k = n + 1)
    BY <1>1, <1>5 DEF OneMore
  <2>2. B = A \union {<<i, n + 1>>}
    <3>1. \A j \in Items, k \in Nat : <<j, k>> \in B <=> <<j, k>> \in A \/ (i = j /\ k = n + 1)
      BY <1>2, <2>1, SlotsMember
    <3>3. n + 1 \in Nat
      BY <1>1
    <3> HIDE DEF A, B, n
    <3>4. \A x \in A \union B : x \in B <=> x \in A \/ x = <<i, n + 1>>
      <4> TAKE x \in A \union B
      <4>1. PICK j \in Items, k \in Nat : x = <<j, k>>
        BY <1>3
      <4>2. x = <<i, n + 1>> <=> i = j /\ k = n + 1
        BY <4>1
      <4> QED BY <3>1, <4>1, <4>2
    <3>5. <<i, n + 1>> \in B
      BY <3>1, <3>3
    <3> QED BY <3>4, <3>5
  <2>3. <<i, n + 1>> \notin A
    <3>1. n + 1 \in Nat /\ n + 1 \notin 1 .. s.running[c][i]
      BY <1>1, <1>5
    <3> QED BY <1>2, <3>1, SlotsMember
  <2> HIDE DEF A, B, n
  <2>4. IsFiniteSet(A) <=> IsFiniteSet(B)
    BY <2>2, FS_AddElement, FS_Subset
  <2>5. IsFiniteSet(A) => Cardinality(B) = Cardinality(A) + 1
    BY <2>2, <2>3, FS_AddElement
  <2> QED BY <1>5, <2>4, <2>5 DEF A, B, Occupied
<1> QED BY <1>4, <1>5

-----------------------------------------------------------------------------
(* What the steps of a cascade do to the record of one item *)

\* The fields that queues, workers and task groups leave alone.
Same(it, x) ==
    /\ x.reached = it.reached /\ x.published = it.published /\ x.canceled = it.canceled
    /\ x.returned = it.returned /\ x.finished = it.finished /\ x.failed = it.failed
    /\ x.proc = it.proc /\ x.body = it.body /\ x.root = it.root /\ x.joined = it.joined
    /\ x.retains = it.retains /\ x.held = it.held /\ x.submits = it.submits /\ x.broke = it.broke

\* The fields of a task group.
SameGroup(it, x) ==
    /\ x.unexhausted = it.unexhausted /\ x.tasks = it.tasks /\ x.err = it.err
    /\ x.dead = it.dead /\ x.done = it.done

\* What may happen to an item whose work is queued, started or dropped.
Soft(it, x) ==
    /\ x \in ItemRecords /\ Same(it, x)
    /\ it.body = "none" => x.dormant = it.dormant
    /\ it.dead => x.dead
    /\ x.token # "none" => x.token = it.token
    /\ x.awaiting \subseteq it.awaiting
    /\ it.awaiting # {} /\ x.token # "none" => x.awaiting # {}

\* Such changes add up.
LEMMA SoftTransitive ==
  ASSUME NEW x, NEW y, NEW z, Soft(x, y), Soft(y, z)
  PROVE  Soft(x, z)
BY DEF Soft, Same

\* releaseBelow changes slots, the room and what is prepared, nothing else.
LEMMA ReleaseBelowFields ==
  ASSUME NEW it \in ItemRecords, NEW r \in Int
  PROVE  LET x == ReleaseBelow(it, r)
         IN  /\ x \in ItemRecords /\ Same(it, x) /\ SameGroup(it, x)
             /\ x.slots = {u \in it.slots : UnitRank(u) >= r \/ u \in Protected(it)}
             /\ x.queuedAt = (it.queuedAt /\ RoomRank >= r)
             /\ x.dormant = DropDormant(it, r)
             /\ x.token = it.token /\ x.awaiting = it.awaiting /\ x.begun = it.begun
<1> DEFINE slots == {u \in it.slots : UnitRank(u) >= r \/ u \in Protected(it)}
           queuedAt == it.queuedAt /\ RoomRank >= r
           dormant == DropDormant(it, r)
           x == [it EXCEPT !.slots = slots, !.queuedAt = queuedAt, !.dormant = dormant]
<1>1. slots \in SUBSET {"gate", "node"} /\ queuedAt \in BOOLEAN /\ dormant \in SUBSET Batches
  BY DEF ItemRecords, DropDormant
<1>2. x = ReleaseBelow(it, r)
  BY DEF ReleaseBelow
<1> HIDE DEF slots, queuedAt, dormant
<1>3. x \in ItemRecords
  BY <1>1, Zenon DEF ItemRecords
<1>4. /\ Same(it, x) /\ SameGroup(it, x) /\ x.token = it.token /\ x.awaiting = it.awaiting
      /\ x.begun = it.begun
      /\ x.slots = slots /\ x.queuedAt = queuedAt /\ x.dormant = dormant
  BY DEF ItemRecords, Same, SameGroup
<1> HIDE DEF x
<1> QED BY <1>2, <1>3, <1>4 DEF slots, queuedAt, dormant

\* A discharged hold is gone, and what it kept is released.
LEMMA DischargeHoldFits ==
  ASSUME NEW it \in ItemRecords, Fit(it), it.body = "none" => it.held = "buffered",
         it.begun => it.root
  PROVE  LET x == DischargeHold(it)
         IN  /\ Soft(it, x) /\ SameGroup(it, x) /\ Fit(x)
             /\ it.root \/ it.body # "open" => Held(x)
             /\ x.token = "none" /\ x.begun = it.begun
             /\ it.body = "none" => x.held = "buffered"
<1> DEFINE ended == [it EXCEPT !.token = "none", !.awaiting = {}]
           x == DischargeHold(it)
<1>1. CASE it.token = "none"
  <2>1. x = it
    BY <1>1 DEF DischargeHold
  <2> QED BY <1>1, <2>1 DEF Soft, Same, SameGroup, Held
<1>2. CASE it.token # "none"
  <2>1. it.body # "none" /\ ~it.finished /\ it.reached \in Int
    BY <1>2 DEF Fit, Slotted, ItemRecords
  <2>2. /\ ended \in ItemRecords /\ Same(it, ended) /\ SameGroup(it, ended)
        /\ ended.slots = it.slots /\ ended.queuedAt = it.queuedAt
        /\ ended.dormant = it.dormant /\ ended.token = "none" /\ ended.awaiting = {}
        /\ ended.begun = it.begun
    <3>1. ended \in ItemRecords
      BY Zenon DEF ItemRecords, Tokens
    <3> QED BY <3>1 DEF ItemRecords, Same, SameGroup
  <2>3. x = ReleaseBelow(ended, it.reached)
    BY <1>2, <2>1 DEF DischargeHold
  <2> HIDE DEF ended, x
  <2>4. /\ x \in ItemRecords /\ Same(ended, x) /\ SameGroup(ended, x)
        /\ x.slots = {u \in it.slots : UnitRank(u) >= it.reached \/ u \in Protected(ended)}
        /\ x.queuedAt = (it.queuedAt /\ RoomRank >= it.reached)
        /\ x.dormant \subseteq it.dormant
        /\ x.token = "none" /\ x.awaiting = {} /\ x.begun = it.begun
    BY <2>1, <2>2, <2>3, ReleaseBelowFields DEF DropDormant
  <2>5. Same(it, x) /\ SameGroup(it, x)
    BY <2>2, <2>4 DEF Same, SameGroup
  <2>6. Placed(x)
    BY <2>4, <2>5 DEF Fit, Placed, Same
  <2>7. Slotted(x)
    BY <2>1, <2>2, <2>4, <2>5 DEF Fit, Slotted, Placed, Same, SameGroup, Protected, UnitRank,
       GateRank, RoomRank, NodeRank, BeyondRank
  <2>8. Told(x)
    BY <2>5 DEF Fit, Told, Same, SameGroup, Failing
  <2>9. Soft(it, x)
    BY <2>1, <2>4, <2>5 DEF Soft, SameGroup
  <2>10. Fit(x) /\ (it.root \/ it.body # "open" => Held(x))
    BY <2>4, <2>5, <2>6, <2>7, <2>8 DEF Fit, Held, Same
  <2> QED BY <2>1, <2>4, <2>5, <2>9, <2>10 DEF x
<1> QED BY <1>1, <1>2

\* What becomes of the hold of an item as its collection col leaves the queue of b,
\* and as the first task of col starts there.
Leaves(it, x, col, b) ==
    /\ x.begun = it.begun
    /\ col.entering /\ x.token # "none" => x.awaiting = it.awaiting \ {b}
    /\ col.entering /\ it.token # "none" /\ x.token = "none" => it.awaiting \subseteq {b}
    /\ ~col.entering => x.token = it.token /\ x.awaiting = it.awaiting
Starts(it, x, col, b) ==
    /\ x.begun = it.begun
    /\ col.entering /\ x.token # "none" =>
          x.awaiting = it.awaiting \ {b} /\ it.held # "balanced"
    /\ col.entering /\ it.token # "none" /\ x.token = "none" =>
          it.awaiting \subseteq {b} \/ it.held = "balanced"
    /\ ~col.entering => x.token = it.token /\ x.awaiting = it.awaiting

\* A collection that leaves its queue ends the wait for its branch, perhaps the hold.
LEMMA LeaveFits ==
  ASSUME NEW it \in ItemRecords, Fit(it), Held(it), NEW col \in Collections,
         NEW b \in Branches, col.entering => it.root, NEW x,
         x = BranchStarted(it, col, b, FALSE)
  PROVE  Soft(it, x) /\ SameGroup(it, x) /\ Fit(x) /\ Held(x) /\ Leaves(it, x, col, b)
<1> DEFINE a == it.awaiting \ {b}
           waiting == [it EXCEPT !.awaiting = a]
<1>1. CASE ~col.entering \/ it.token = "none"
  <2>1. x = it
    BY <1>1 DEF BranchStarted
  <2> QED BY <1>1, <2>1 DEF Soft, Same, SameGroup, Leaves
<1>2. CASE col.entering /\ it.token # "none"
  <2>1. a \in SUBSET Branches
    BY DEF ItemRecords
  <2>2. /\ waiting \in ItemRecords /\ Same(it, waiting) /\ SameGroup(it, waiting)
        /\ waiting.slots = it.slots /\ waiting.queuedAt = it.queuedAt
        /\ waiting.dormant = it.dormant /\ waiting.token = it.token /\ waiting.awaiting = a
        /\ waiting.begun = it.begun
    <3> HIDE DEF a
    <3>1. waiting \in ItemRecords
      BY <2>1, Zenon DEF ItemRecords
    <3> QED BY <3>1 DEF ItemRecords, Same, SameGroup
  <2>3. \/ x = DischargeHold(waiting) /\ a = {}
        \/ x = waiting /\ a # {}
    BY <1>2, <2>2 DEF Same, BranchStarted
  <2> HIDE DEF waiting
  <2>4. Fit(waiting) /\ Held(waiting)
    BY <2>2 DEF Fit, Held, Placed, Slotted, Told, Same, SameGroup, Failing
  <2>5. CASE x = DischargeHold(waiting) /\ a = {}
    <3>1. /\ Soft(waiting, x) /\ SameGroup(waiting, x) /\ Fit(x) /\ Held(x) /\ x.token = "none"
          /\ x.begun = it.begun
      BY <1>2, <2>2, <2>4, <2>5, DischargeHoldFits DEF Held, Same
    <3>2. Soft(it, x)
      <4>1. Same(it, x)
        BY <2>2, <3>1 DEF Soft, Same
      <4>2. x.awaiting \subseteq a
        BY <2>2, <3>1 DEF Soft
      <4> QED BY <2>2, <3>1, <4>1, <4>2 DEF Soft, Same, SameGroup
    <3>3. SameGroup(it, x)
      BY <2>2, <3>1 DEF SameGroup
    <3> QED BY <1>2, <2>5, <3>1, <3>2, <3>3 DEF Leaves
  <2>6. CASE x = waiting /\ a # {}
    <3>1. Soft(it, x)
      BY <2>2, <2>6 DEF Soft, SameGroup
    <3> QED BY <1>2, <2>2, <2>4, <2>6, <3>1 DEF Leaves
  <2> QED BY <2>3, <2>5, <2>6
<1> QED BY <1>1, <1>2

\* A first start ends the wait for its branch, a Balanced hold altogether.
LEMMA StartFits ==
  ASSUME NEW it \in ItemRecords, Fit(it), Held(it), NEW col \in Collections,
         NEW b \in Branches, col.entering => it.root, NEW x,
         x = BranchStarted(it, col, b, TRUE)
  PROVE  Soft(it, x) /\ SameGroup(it, x) /\ Fit(x) /\ Held(x) /\ Starts(it, x, col, b)
<1> DEFINE a == it.awaiting \ {b}
           waiting == [it EXCEPT !.awaiting = a]
<1>1. CASE ~col.entering \/ it.token = "none"
  <2>1. x = it
    BY <1>1 DEF BranchStarted
  <2> QED BY <1>1, <2>1 DEF Soft, Same, SameGroup, Starts
<1>2. CASE col.entering /\ it.token # "none"
  <2>1. a \in SUBSET Branches
    BY DEF ItemRecords
  <2>2. /\ waiting \in ItemRecords /\ Same(it, waiting) /\ SameGroup(it, waiting)
        /\ waiting.slots = it.slots /\ waiting.queuedAt = it.queuedAt
        /\ waiting.dormant = it.dormant /\ waiting.token = it.token /\ waiting.awaiting = a
        /\ waiting.begun = it.begun
    <3> HIDE DEF a
    <3>1. waiting \in ItemRecords
      BY <2>1, Zenon DEF ItemRecords
    <3> QED BY <3>1 DEF ItemRecords, Same, SameGroup
  <2>3. \/ x = DischargeHold(waiting) /\ (a = {} \/ it.held = "balanced")
        \/ x = waiting /\ a # {} /\ it.held # "balanced"
    BY <1>2, <2>2 DEF Same, BranchStarted
  <2> HIDE DEF waiting
  <2>4. Fit(waiting) /\ Held(waiting)
    BY <2>2 DEF Fit, Held, Placed, Slotted, Told, Same, SameGroup, Failing
  <2>5. CASE x = DischargeHold(waiting) /\ (a = {} \/ it.held = "balanced")
    <3>1. /\ Soft(waiting, x) /\ SameGroup(waiting, x) /\ Fit(x) /\ Held(x) /\ x.token = "none"
          /\ x.begun = it.begun
      BY <1>2, <2>2, <2>4, <2>5, DischargeHoldFits DEF Held, Same
    <3>2. Soft(it, x)
      <4>1. Same(it, x)
        BY <2>2, <3>1 DEF Soft, Same
      <4>2. x.awaiting \subseteq a
        BY <2>2, <3>1 DEF Soft
      <4> QED BY <2>2, <3>1, <4>1, <4>2 DEF Soft, Same, SameGroup
    <3>3. SameGroup(it, x)
      BY <2>2, <3>1 DEF SameGroup
    <3> QED BY <1>2, <2>5, <3>1, <3>2, <3>3 DEF Starts
  <2>6. CASE x = waiting /\ a # {} /\ it.held # "balanced"
    <3>1. Soft(it, x)
      BY <2>2, <2>6 DEF Soft, SameGroup
    <3> QED BY <1>2, <2>2, <2>4, <2>6, <3>1 DEF Starts
  <2> QED BY <2>3, <2>5, <2>6
<1> QED BY <1>1, <1>2

\* A settled group is finished if it is sealed and idle.
LEMMA SettleFits ==
  ASSUME NEW it \in ItemRecords, Fit(it)
  PROVE  LET x == Settle(it)
         IN  /\ Soft(it, x) /\ Fit(x) /\ Settled(x)
             /\ x.unexhausted = it.unexhausted /\ x.tasks = it.tasks /\ x.err = it.err
             /\ x.token = it.token /\ x.awaiting = it.awaiting /\ x.begun = it.begun
<1> DEFINE settled == [it EXCEPT !.done = TRUE, !.dead = TRUE]
           x == Settle(it)
<1>1. CASE it.body \in {"none", "open"} \/ ~Idle(it) \/ it.done
  <2>1. x = it
    BY <1>1 DEF Settle
  <2> QED BY <1>1, <2>1 DEF Soft, Same, Settled
<1>2. CASE it.body \notin {"none", "open"} /\ Idle(it) /\ ~it.done
  <2>1. /\ settled \in ItemRecords /\ Same(it, settled)
        /\ settled.unexhausted = it.unexhausted /\ settled.tasks = it.tasks
        /\ settled.err = it.err /\ settled.dead = TRUE /\ settled.done = TRUE
        /\ settled.slots = it.slots /\ settled.queuedAt = it.queuedAt
        /\ settled.dormant = it.dormant /\ settled.token = it.token
        /\ settled.awaiting = it.awaiting /\ settled.begun = it.begun
    <3>1. settled \in ItemRecords
      BY Zenon DEF ItemRecords
    <3> QED BY <3>1 DEF ItemRecords, Same
  <2>2. x = IF it.retains /\ ~it.finished THEN ReleaseBelow(settled, it.reached) ELSE settled
    BY <1>2 DEF Settle
  <2> HIDE DEF settled, x
  <2>3. it.reached \in Int /\ it.reached >= NodeRank
    BY <1>2 DEF Fit, Placed, NodeRank, GateRank, RoomRank, BeyondRank
  <2>4. /\ x \in ItemRecords /\ Same(it, x)
        /\ x.unexhausted = it.unexhausted /\ x.tasks = it.tasks /\ x.err = it.err
        /\ x.dead = TRUE /\ x.done = TRUE /\ x.dormant \subseteq it.dormant
        /\ x.token = it.token /\ x.awaiting = it.awaiting /\ x.begun = it.begun
        /\ x.slots \subseteq it.slots /\ (x.queuedAt => it.queuedAt)
        /\ it.token = "gate" /\ "gate" \in it.slots => "gate" \in x.slots
        /\ it.retains /\ ~it.finished /\ "node" \in x.slots => it.reached <= NodeRank
    <3>1. CASE it.retains /\ ~it.finished
      <4>1. /\ x \in ItemRecords /\ Same(settled, x) /\ SameGroup(settled, x)
            /\ x.slots = {u \in it.slots : UnitRank(u) >= it.reached \/ u \in Protected(settled)}
            /\ x.queuedAt = (it.queuedAt /\ RoomRank >= it.reached)
            /\ x.dormant \subseteq it.dormant
            /\ x.token = it.token /\ x.awaiting = it.awaiting /\ x.begun = it.begun
        BY <2>1, <2>2, <2>3, <3>1, ReleaseBelowFields DEF DropDormant
      <4>2. "node" \notin Protected(settled)
        BY <2>1 DEF Protected, ItemRecords, Tokens
      <4>3. it.token = "gate" => "gate" \in Protected(settled)
        BY <2>1 DEF Protected
      <4> QED BY <2>1, <2>3, <4>1, <4>2, <4>3 DEF Same, SameGroup, UnitRank
    <3>2. CASE ~(it.retains /\ ~it.finished)
      BY <2>1, <2>2, <3>2
    <3> QED BY <3>1, <3>2
  <2>5. Placed(x)
    BY <2>4 DEF Fit, Placed, Same
  <2>6. Slotted(x)
    BY <1>2, <2>3, <2>4 DEF Fit, Slotted, Placed, Same,
       GateRank, RoomRank, NodeRank, BeyondRank
  <2>7. Told(x)
    BY <2>4 DEF Fit, Told, Same, Failing
  <2>8. Soft(it, x) /\ Settled(x)
    BY <1>2, <2>4 DEF Soft, Settled
  <2> QED BY <2>4, <2>5, <2>6, <2>7, <2>8 DEF Fit, x
<1> QED BY <1>1, <1>2

-----------------------------------------------------------------------------
(* What a branch does keeps the invariant of a cascade *)

\* The queue of b loses its head, or keeps all its places.
HeadLeft(s, t, b) == t.queue[b] = Tail(s.queue[b])

\* The queue of b keeps its places.
HeadKept(s, t, b) ==
    /\ Len(t.queue[b]) = Len(s.queue[b])
    /\ \A k \in DOMAIN s.queue[b] :
          /\ t.queue[b][k].item = s.queue[b][k].item
          /\ t.queue[b][k].entering = s.queue[b][k].entering
          /\ t.queue[b][k].begun = (k = 1 \/ s.queue[b][k].begun)

\* What is left alone when branches work off their queues, and how they do it.
Worked(s, t, n) ==
    /\ t.limit = s.limit /\ t.stopping = s.stopping
    /\ \A i \in 1 .. n : Same(s.item[i], t.item[i])
    /\ \A i \in 1 .. n : s.item[i].body = "none" => t.item[i].dormant = s.item[i].dormant
    /\ \A b \in Branches : Occupied(s, b) <= Occupied(t, b)
    /\ \A b \in Branches : \A k \in DOMAIN t.queue[b] :
          \E l \in DOMAIN s.queue[b] : s.queue[b][l].item = t.queue[b][k].item
    /\ \A b \in Branches, i \in Items :
          /\ s.running[b][i] <= t.running[b][i]
          /\ s.running[b][i] < t.running[b][i] =>
                \A k \in DOMAIN t.queue[b] : i <= t.queue[b][k].item

\* The types of the fields of a state.
LEMMA StateFields ==
  ASSUME NEW n \in 0 .. NItems, NEW s \in States(n)
  PROVE  /\ s.item \in [1 .. n -> ItemRecords] /\ s.queue \in Queues
         /\ s.running \in Running /\ s.limit \in [Branches -> Nat \ {0}]
         /\ s.stopping \in BOOLEAN
         /\ n \in Nat /\ 1 .. n \subseteq Items
         /\ \A b \in Branches :
               /\ s.queue[b] \in Seq(Collections)
               /\ DOMAIN s.queue[b] = 1 .. Len(s.queue[b]) /\ Len(s.queue[b]) \in Nat
               /\ \A k \in DOMAIN s.queue[b] :
                     /\ s.queue[b][k] \in Collections
                     /\ s.queue[b][k].item \in Items /\ s.queue[b][k].entering \in BOOLEAN
                     /\ s.queue[b][k].begun \in BOOLEAN
               /\ \A i \in Items : s.running[b][i] \in Nat
               /\ s.limit[b] \in Nat \ {0}
<1>1. /\ s.item \in [1 .. n -> ItemRecords] /\ s.queue \in Queues
      /\ s.running \in Running /\ s.limit \in [Branches -> Nat \ {0}]
      /\ s.stopping \in BOOLEAN
  BY DEF States
<1>2. n \in Nat /\ 1 .. n \subseteq Items
  BY NItemsNat DEF Items
<1>3. ASSUME NEW b \in Branches
      PROVE  /\ s.queue[b] \in Seq(Collections)
             /\ DOMAIN s.queue[b] = 1 .. Len(s.queue[b]) /\ Len(s.queue[b]) \in Nat
             /\ \A k \in DOMAIN s.queue[b] : s.queue[b][k] \in Collections
  <2>1. s.queue[b] \in Seq(Collections)
    BY <1>1 DEF Queues
  <2> QED BY <2>1
<1>4. \A x \in Collections : x.item \in Items /\ x.entering \in BOOLEAN /\ x.begun \in BOOLEAN
  BY DEF Collections
<1> QED BY <1>1, <1>2, <1>3, <1>4 DEF Running

\* The slots in use are a number.
LEMMA Occupies ==
  ASSUME NEW n \in 0 .. NItems, NEW s, Core(s, n), NEW b \in Branches
  PROVE  Occupied(s, b) \in Nat
BY FS_CardinalityType DEF Core, Counted, Occupied

\* Items whose other fields are the same are as much in order as before.
LEMMA ItemsAsBefore ==
  ASSUME NEW n \in 0 .. NItems, NEW s, Core(s, n), NEW t,
         t.stopping = s.stopping, \A j \in 1 .. n : Same(s.item[j], t.item[j])
  PROVE  /\ Ordered(t, n) /\ Stopped(t, n)
         /\ \A j \in Items : Within(s, n, j) => Within(t, n, j)
<1>1. Ordered(t, n)
  BY DEF Core, Ordered, Same
<1>2. Stopped(t, n)
  <2>1. \A i \in 1 .. n : i + 1 .. n \subseteq 1 .. n
    OBVIOUS
  <2> QED BY <2>1 DEF Core, Stopped, Same
<1>3. \A j \in Items : j <= n => j \in 1 .. n
  BY NItemsNat DEF Items
<1> QED BY <1>1, <1>2, <1>3 DEF Within, Same

\* Working off is transitive: it is what a loop does as a whole.
LEMMA WorkedTransitive ==
  ASSUME NEW n \in 0 .. NItems, NEW s, NEW u, NEW t,
         Core(s, n), Core(u, n), Core(t, n), Worked(s, u, n), Worked(u, t, n)
  PROVE  Worked(s, t, n)
<1>1. \A i \in 1 .. n : Same(s.item[i], t.item[i])
  BY DEF Worked, Same
<1>2. \A i \in 1 .. n : s.item[i].body = "none" => t.item[i].dormant = s.item[i].dormant
  BY DEF Worked, Same
<1>3. ASSUME NEW b \in Branches
      PROVE  Occupied(s, b) <= Occupied(t, b)
  <2>1. Occupied(s, b) \in Nat /\ Occupied(u, b) \in Nat /\ Occupied(t, b) \in Nat
    BY Occupies
  <2>2. Occupied(s, b) <= Occupied(u, b) /\ Occupied(u, b) <= Occupied(t, b)
    BY DEF Worked
  <2> QED BY <2>1, <2>2
<1>4. \A b \in Branches : \A k \in DOMAIN t.queue[b] :
          \E l \in DOMAIN s.queue[b] : s.queue[b][l].item = t.queue[b][k].item
  BY DEF Worked
<1>5. ASSUME NEW b \in Branches, NEW i \in Items
      PROVE  /\ s.running[b][i] <= t.running[b][i]
             /\ s.running[b][i] < t.running[b][i] =>
                   \A k \in DOMAIN t.queue[b] : i <= t.queue[b][k].item
  <2>1. /\ s.running[b][i] \in Nat /\ u.running[b][i] \in Nat /\ t.running[b][i] \in Nat
    BY StateFields DEF Core
  <2>2. /\ s.running[b][i] <= u.running[b][i] /\ u.running[b][i] <= t.running[b][i]
        /\ s.running[b][i] < u.running[b][i] =>
              \A k \in DOMAIN u.queue[b] : i <= u.queue[b][k].item
        /\ u.running[b][i] < t.running[b][i] =>
              \A k \in DOMAIN t.queue[b] : i <= t.queue[b][k].item
        /\ \A k \in DOMAIN t.queue[b] :
              \E l \in DOMAIN u.queue[b] : u.queue[b][l].item = t.queue[b][k].item
    BY DEF Worked
  <2> QED BY <2>1, <2>2
<1> QED BY <1>1, <1>2, <1>3, <1>4, <1>5 DEF Worked

\* And it may be nothing.
LEMMA WorkedReflexive ==
  ASSUME NEW n \in 0 .. NItems, NEW s, Core(s, n)
  PROVE  Worked(s, s, n)
<1>1. \A b \in Branches : Occupied(s, b) \in Nat
  BY Occupies
<1>2. \A b \in Branches, i \in Items : s.running[b][i] \in Nat
  BY StateFields DEF Core
<1> QED BY <1>1, <1>2 DEF Worked, Same

\* What the head col of the queue of b does to the hold of its item as it starts
\* or leaves.
Eased(old, new, col, b) ==
    /\ old.begun => new.begun
    /\ new.token # "none" => old.token # "none"
    /\ IF col.entering
       THEN /\ new.token # "none" => new.awaiting = old.awaiting \ {b}
            /\ old.token # "none" /\ new.token = "none" =>
                  new.begun \/ old.awaiting \subseteq {b}
       ELSE new.token = old.token /\ new.awaiting = old.awaiting /\ new.begun = old.begun

\* A step of the branch b that touches the head of its queue and the head's item.
HeadStep(s, t, n, b) ==
    LET i == First(s, b).item
        old == s.item[i]
        new == t.item[i]
    IN  /\ t \in States(n) /\ t.limit = s.limit /\ t.stopping = s.stopping
        /\ \A j \in 1 .. n : j # i => t.item[j] = s.item[j]
        /\ \A c \in Branches : c # b => t.queue[c] = s.queue[c]
        /\ Soft(old, new) /\ Fit(new) /\ Held(new) /\ Settled(new)
        /\ Eased(old, new, First(s, b), b)
        /\ \/ t.running = s.running /\ new.tasks = old.tasks
           \/ OneMore(s, t, b, i) /\ new.tasks = old.tasks + 1
        /\ \/ HeadKept(s, t, b) /\ new.unexhausted = old.unexhausted
           \/ HeadLeft(s, t, b) /\ new.unexhausted = old.unexhausted - 1

\* Where the places of the queue of b are found in the queue before.
LEMMA HeadStepQueue ==
  ASSUME NEW n \in 0 .. NItems, NEW s, Core(s, n), NEW b \in Branches, s.queue[b] # <<>>,
         NEW t \in States(n), HeadKept(s, t, b) \/ HeadLeft(s, t, b)
  PROVE  \E d \in {0, 1} :
            /\ d = 0 <=> HeadKept(s, t, b)
            /\ d = 1 => HeadLeft(s, t, b)
            /\ Len(t.queue[b]) = Len(s.queue[b]) - d
            /\ \A k \in DOMAIN t.queue[b] :
                  /\ k \in Nat /\ k + d \in DOMAIN s.queue[b]
                  /\ t.queue[b][k].item = s.queue[b][k + d].item
                  /\ t.queue[b][k].entering = s.queue[b][k + d].entering
                  /\ t.queue[b][k].begun = (k + d = 1 \/ s.queue[b][k + d].begun)
            /\ \A k \in DOMAIN s.queue[b] : k > d => k - d \in DOMAIN t.queue[b]
<1> DEFINE q == s.queue[b]
           r == t.queue[b]
<1>1. /\ q \in Seq(Collections) /\ DOMAIN q = 1 .. Len(q) /\ Len(q) \in Nat
      /\ r \in Seq(Collections) /\ DOMAIN r = 1 .. Len(r) /\ Len(r) \in Nat
  BY StateFields DEF Core
<1>2. CASE HeadKept(s, t, b)
  <2>1. Len(r) = Len(q) - 0
    BY <1>1, <1>2 DEF HeadKept
  <2>2. \A k \in DOMAIN r : k \in Nat /\ k + 0 = k /\ k \in DOMAIN q
    BY <1>1, <2>1
  <2>3. \A k \in DOMAIN q : k - 0 = k /\ k \in DOMAIN r
    BY <1>1, <2>1
  <2>4. \A k \in DOMAIN q : r[k].item = q[k].item /\ r[k].entering = q[k].entering
                         /\ r[k].begun = (k = 1 \/ q[k].begun)
    BY <1>2 DEF HeadKept
  <2> HIDE DEF q, r
  <2> WITNESS 0 \in {0, 1}
  <2> QED BY <1>2, <2>1, <2>2, <2>3, <2>4 DEF q, r
<1>3. CASE HeadLeft(s, t, b) /\ ~HeadKept(s, t, b)
  <2>1. r = Tail(q) /\ Len(q) \in Nat \ {0}
    BY <1>1, <1>3, TailOfQueue DEF HeadLeft
  <2>2. Len(r) = Len(q) - 1 /\ \A k \in 1 .. Len(q) - 1 : r[k] = q[k + 1]
    BY <1>1, <2>1, TailOfQueue
  <2>3. \A k \in DOMAIN r : k \in Nat /\ k + 1 \in DOMAIN q /\ k \in 1 .. Len(q) - 1
    BY <1>1, <2>2
  <2>5. \A k \in DOMAIN r : r[k].item = q[k + 1].item /\ r[k].entering = q[k + 1].entering
                         /\ r[k].begun = (k + 1 = 1 \/ q[k + 1].begun)
    <3>1. \A k \in DOMAIN r : k + 1 # 1 /\ r[k] = q[k + 1]
      BY <1>1, <2>2, <2>3
    <3>2. \A k \in DOMAIN r : r[k].begun \in BOOLEAN
      BY StateFields
    <3> QED BY <3>1, <3>2
  <2>4. \A k \in DOMAIN q : k > 1 => k - 1 \in DOMAIN r
    BY <1>1, <2>2
  <2> HIDE DEF q, r
  <2> WITNESS 1 \in {0, 1}
  <2>6. 1 = 0 <=> HeadKept(s, t, b)
    BY <1>3
  <2>7. HeadLeft(s, t, b)
    BY <1>3
  <2> QED BY <2>2, <2>3, <2>4, <2>5, <2>6, <2>7 DEF q, r
<1> QED BY <1>2, <1>3

\* The head of a queue: its item is in the fan-out and the oldest queued.
LEMMA HeadOfQueue ==
  ASSUME NEW n \in 0 .. NItems, NEW s, Core(s, n), NEW b \in Branches, s.queue[b] # <<>>
  PROVE  LET col == First(s, b)
         IN  /\ col = s.queue[b][1] /\ 1 \in DOMAIN s.queue[b] /\ col \in Collections
             /\ col.item \in 1 .. n /\ col.item \in Items /\ col.entering \in BOOLEAN
             /\ col.begun \in BOOLEAN
             /\ col.left \in Nat \ {0}
             /\ Within(s, n, col.item)
             /\ \A k \in DOMAIN s.queue[b] : col.item <= s.queue[b][k].item
<1>1. /\ s.queue[b] \in Seq(Collections) /\ DOMAIN s.queue[b] = 1 .. Len(s.queue[b])
      /\ \A k \in DOMAIN s.queue[b] : s.queue[b][k] \in Collections
      /\ n \in Nat
  BY StateFields DEF Core
<1>2. /\ First(s, b) = s.queue[b][1] /\ 1 \in DOMAIN s.queue[b]
      /\ \A k \in DOMAIN s.queue[b] : k = 1 \/ 1 < k
  BY <1>1, TailOfQueue DEF First
<1>3. s.queue[b][1] \in Collections /\ Within(s, n, s.queue[b][1].item)
  BY <1>1, <1>2 DEF Core, Working
<1>4. \A k \in DOMAIN s.queue[b] : s.queue[b][1].item <= s.queue[b][k].item
  <2>1. s.queue[b][1].item \in Int
    BY <1>3, NItemsNat DEF Collections, Items
  <2> QED BY <1>2, <2>1 DEF Core, Sorted, ByAge
<1>5. \A x \in Collections : x.item \in Items /\ x.left \in Nat \ {0} /\ x.entering \in BOOLEAN
                               /\ x.begun \in BOOLEAN
  BY DEF Collections
<1>6. \A j \in Items : j <= n => j \in 1 .. n
  BY <1>1, NItemsNat DEF Items
<1> QED BY <1>1, <1>2, <1>3, <1>4, <1>5, <1>6 DEF Within

\* A step at the head keeps the books.
LEMMA HeadStepCounts ==
  ASSUME NEW n \in 0 .. NItems, NEW s, Core(s, n), NEW b \in Branches, s.queue[b] # <<>>,
         NEW t, HeadStep(s, t, n, b)
  PROVE  /\ Counted(t, n)
         /\ \A c \in Branches : Occupied(s, c) <= Occupied(t, c)
<1> DEFINE i == First(s, b).item
<1>1. t \in States(n) /\ s \in States(n) /\ i \in 1 .. n /\ i \in Items /\ 1 .. n \subseteq Items
  BY HeadOfQueue, StateFields DEF Core, HeadStep
<1>2. /\ HeadKept(s, t, b) \/ HeadLeft(s, t, b)
      /\ \A c \in Branches : c # b => t.queue[c] = s.queue[c]
      /\ \A j \in 1 .. n : j # i => t.item[j] = s.item[j]
      /\ t.item[i].unexhausted = s.item[i].unexhausted - (IF HeadKept(s, t, b) THEN 0 ELSE 1)
      /\ s.item[i].unexhausted \in Int /\ s.item[i].tasks \in Int
  <2>1. s.item[i] \in ItemRecords
    BY <1>1, StateFields
  <2>2. s.item[i].unexhausted \in Int /\ s.item[i].tasks \in Int
    BY <2>1 DEF ItemRecords
  <2>3. HeadKept(s, t, b) => ~HeadLeft(s, t, b)
    <3>1. s.queue[b] \in Seq(Collections)
      BY <1>1, StateFields
    <3>2. Len(Tail(s.queue[b])) = Len(s.queue[b]) - 1 /\ Len(s.queue[b]) \in Nat
      BY <3>1, TailOfQueue
    <3> DEFINE r == Tail(s.queue[b])
    <3> HIDE DEF r
    <3>3. HeadLeft(s, t, b) => t.queue[b] = r
      BY DEF HeadLeft, r
    <3>4. Len(r) # Len(s.queue[b])
      BY <3>2 DEF r
    <3> QED BY <3>3, <3>4 DEF HeadKept
  <2> QED BY <2>2, <2>3 DEF HeadStep
<1>3. s.queue \in Queues /\ t.queue \in Queues /\ s.running \in Running /\ t.running \in Running
  BY <1>1, StateFields
<1>4. PICK d \in {0, 1} :
            /\ d = 0 <=> HeadKept(s, t, b)
            /\ Len(t.queue[b]) = Len(s.queue[b]) - d
            /\ \A k \in DOMAIN t.queue[b] :
                  /\ k \in Nat /\ k + d \in DOMAIN s.queue[b]
                  /\ t.queue[b][k].item = s.queue[b][k + d].item
            /\ \A k \in DOMAIN s.queue[b] : k > d => k - d \in DOMAIN t.queue[b]
  BY <1>1, <1>2, HeadStepQueue
<1>5. ASSUME NEW j \in 1 .. n
      PROVE  /\ IsFiniteSet(QueuedOf(t.queue, j))
             /\ t.item[j].unexhausted = Cardinality(QueuedOf(t.queue, j))
  <2>1. /\ IsFiniteSet(QueuedOf(s.queue, j))
        /\ s.item[j].unexhausted = Cardinality(QueuedOf(s.queue, j))
    BY DEF Core, Counted
  <2>2. CASE d = 0
    <3>1. QueuedOf(t.queue, j) = QueuedOf(s.queue, j)
      <4>1. DOMAIN s.queue[b] = DOMAIN t.queue[b]
        BY <1>1, <1>4, <2>2, StateFields
      <4>2. \A k \in DOMAIN s.queue[b] : t.queue[b][k].item = s.queue[b][k].item
        BY <1>4, <2>2 DEF HeadKept
      <4> QED BY <1>2, <4>1, <4>2 DEF QueuedOf
    <3>2. t.item[j].unexhausted = s.item[j].unexhausted
      BY <1>2, <1>4, <2>2
    <3> QED BY <2>1, <3>1, <3>2
  <2>3. CASE d = 1
    <3>1. /\ 1 \in DOMAIN s.queue[b] /\ s.queue[b][1].item = i
          /\ Len(t.queue[b]) = Len(s.queue[b]) - 1
          /\ \A c \in Branches \ {b} : t.queue[c] = s.queue[c]
      BY <1>2, <1>4, <2>3, HeadOfQueue
    <3>2. \A k \in DOMAIN t.queue[b] : t.queue[b][k].item =
              IF k < 1 THEN s.queue[b][k].item ELSE s.queue[b][k + 1].item
      <4>1. \A k \in DOMAIN t.queue[b] : ~(k < 1) /\ k + d = k + 1
        BY <1>1, <2>3, StateFields
      <4> QED BY <1>4, <4>1
    <3>3. /\ IsFiniteSet(QueuedOf(t.queue, j))
          /\ Cardinality(QueuedOf(s.queue, j)) =
                 Cardinality(QueuedOf(t.queue, j)) + (IF i = j THEN 1 ELSE 0)
      <4>1. j \in Items
        BY <1>1
      <4>2. /\ IsFiniteSet(QueuedOf(s.queue, j)) <=> IsFiniteSet(QueuedOf(t.queue, j))
            /\ IsFiniteSet(QueuedOf(s.queue, j)) =>
                  Cardinality(QueuedOf(s.queue, j)) =
                      Cardinality(QueuedOf(t.queue, j)) + (IF s.queue[b][1].item = j THEN 1 ELSE 0)
        <5> DEFINE q == s.queue
                   r == t.queue
        <5>1. /\ q \in Queues /\ r \in Queues /\ 1 \in DOMAIN q[b]
              /\ Len(r[b]) = Len(q[b]) - 1
              /\ \A k \in DOMAIN r[b] :
                    r[b][k].item = IF k < 1 THEN q[b][k].item ELSE q[b][k + 1].item
              /\ \A c \in Branches \ {b} : r[c] = q[c]
          BY <1>3, <3>1, <3>2
        <5> HIDE DEF q, r
        <5>2. /\ IsFiniteSet(QueuedOf(q, j)) <=> IsFiniteSet(QueuedOf(r, j))
              /\ IsFiniteSet(QueuedOf(q, j)) =>
                    Cardinality(QueuedOf(q, j)) =
                        Cardinality(QueuedOf(r, j)) + (IF q[b][1].item = j THEN 1 ELSE 0)
          BY <4>1, <5>1, CountWithout
        <5> QED BY <5>2 DEF q, r
      <4> QED BY <2>1, <3>1, <4>2
    <3>4. Cardinality(QueuedOf(t.queue, j)) \in Nat
      BY <3>3, FS_CardinalityType
    <3>5. t.item[j].unexhausted = s.item[j].unexhausted - (IF i = j THEN 1 ELSE 0)
      <4>1. s.item[j].unexhausted \in Int
        BY <2>1, FS_CardinalityType
      <4> QED BY <1>2, <1>4, <2>3, <4>1
    <3> HIDE DEF i
    <3> QED BY <2>1, <3>3, <3>4, <3>5
  <2> QED BY <2>2, <2>3
<1>6. \/ t.running = s.running /\ t.item[i].tasks = s.item[i].tasks
      \/ OneMore(s, t, b, i) /\ t.item[i].tasks = s.item[i].tasks + 1
  BY DEF HeadStep
<1>7. ASSUME NEW j \in 1 .. n
      PROVE  /\ IsFiniteSet(RunningOf(t.running, j))
             /\ t.item[j].tasks = Cardinality(RunningOf(t.running, j))
  <2>1. /\ IsFiniteSet(RunningOf(s.running, j))
        /\ s.item[j].tasks = Cardinality(RunningOf(s.running, j))
        /\ Cardinality(RunningOf(s.running, j)) \in Nat
    BY FS_CardinalityType DEF Core, Counted
  <2>2. CASE t.running = s.running /\ t.item[i].tasks = s.item[i].tasks
    BY <1>2, <2>1, <2>2
  <2>3. CASE OneMore(s, t, b, i) /\ t.item[i].tasks = s.item[i].tasks + 1
    <3>1. /\ IsFiniteSet(RunningOf(t.running, j))
          /\ Cardinality(RunningOf(t.running, j)) =
                 Cardinality(RunningOf(s.running, j)) + (IF i = j THEN 1 ELSE 0)
      BY <1>1, <2>1, <2>3, CountRunning
    <3> HIDE DEF i
    <3> QED BY <1>2, <2>1, <2>3, <3>1
  <2> QED BY <1>6, <2>2, <2>3
<1>8. ASSUME NEW c \in Branches
      PROVE  IsFiniteSet(Slots(t, c)) /\ Occupied(s, c) <= Occupied(t, c)
  <2>1. IsFiniteSet(Slots(s, c)) /\ Occupied(s, c) \in Nat
    BY Occupies DEF Core, Counted
  <2>2. CASE t.running = s.running
    <3>1. Slots(t, c) = Slots(s, c)
      BY <2>2 DEF Slots
    <3> QED BY <2>1, <3>1 DEF Occupied
  <2>3. CASE OneMore(s, t, b, i)
    <3>1. IsFiniteSet(Slots(t, c)) /\ Occupied(t, c) = Occupied(s, c) + (IF b = c THEN 1 ELSE 0)
      BY <1>1, <2>1, <2>3, CountSlots
    <3> QED BY <2>1, <3>1
  <2> QED BY <1>6, <2>2, <2>3
<1> QED BY <1>5, <1>7, <1>8 DEF Counted

\* Holds and what they wait for agree after a step at the head of a queue.
LEMMA HeadStepHolding ==
  ASSUME NEW n \in 0 .. NItems, NEW s, Core(s, n), NEW b \in Branches, s.queue[b] # <<>>,
         NEW t, HeadStep(s, t, n, b)
  PROVE  Holding(t, n)
<1> DEFINE col == First(s, b)
           i == col.item
<1>1. /\ t \in States(n) /\ s \in States(n) /\ i \in 1 .. n
      /\ col = s.queue[b][1] /\ 1 \in DOMAIN s.queue[b]
  BY HeadOfQueue DEF Core, HeadStep
<1>2. /\ \A j \in 1 .. n : j # i => t.item[j] = s.item[j]
      /\ \A c \in Branches : c # b => t.queue[c] = s.queue[c]
      /\ Soft(s.item[i], t.item[i]) /\ Held(t.item[i])
      /\ Eased(s.item[i], t.item[i], col, b)
      /\ HeadKept(s, t, b) \/ HeadLeft(s, t, b)
  BY DEF HeadStep
<1>3. PICK d \in {0, 1} :
            /\ \A k \in DOMAIN t.queue[b] :
                  /\ k \in Nat /\ k + d \in DOMAIN s.queue[b]
                  /\ t.queue[b][k].item = s.queue[b][k + d].item
                  /\ t.queue[b][k].entering = s.queue[b][k + d].entering
                  /\ t.queue[b][k].begun = (k + d = 1 \/ s.queue[b][k + d].begun)
            /\ \A k \in DOMAIN s.queue[b] : k > d => k - d \in DOMAIN t.queue[b]
  <2>1. t \in States(n) /\ (HeadKept(s, t, b) \/ HeadLeft(s, t, b))
    BY <1>1, <1>2
  <2> QED BY <2>1, HeadStepQueue
<1> HIDE DEF i, col
<1>4. \A j \in 1 .. n, k \in DOMAIN t.queue[b] :
         Entering(t, j, b, k) => k + d \in DOMAIN s.queue[b] /\ Entering(s, j, b, k + d)
  BY <1>3 DEF Entering
<1>5. Single(t)
  <2>1. ASSUME NEW c \in Branches, NEW k \in DOMAIN t.queue[c], NEW l \in DOMAIN t.queue[c],
               Entering(t, t.queue[c][k].item, c, k), Entering(t, t.queue[c][k].item, c, l)
        PROVE  k = l
    <3>1. CASE c # b
      <4>1. t.queue[c] = s.queue[c]
        BY <1>2, <3>1
      <4> QED BY <2>1, <4>1 DEF Core, Holding, Single, Entering
    <3>2. CASE c = b
      <4>1. /\ k \in Nat /\ l \in Nat /\ k + d \in DOMAIN s.queue[b] /\ l + d \in DOMAIN s.queue[b]
            /\ t.queue[b][k].item = s.queue[b][k + d].item
            /\ t.queue[b][k].entering = s.queue[b][k + d].entering
            /\ t.queue[b][l].item = s.queue[b][l + d].item
            /\ t.queue[b][l].entering = s.queue[b][l + d].entering
        BY <1>3, <3>2
      <4>2. k + d = l + d
        BY <2>1, <3>2, <4>1 DEF Core, Holding, Single, Entering
      <4> QED BY <4>1, <4>2
    <3> QED BY <3>1, <3>2
  <2> QED BY <2>1 DEF Single
<1>6. ASSUME NEW j \in 1 .. n, NEW c \in Branches
      PROVE  Waits(t, j, c) <=> Waits(s, j, c) /\ ~(j = i /\ c = b /\ col.entering)
  <2>1. CASE c # b
    BY <1>2, <2>1 DEF Waits, Entering
  <2>2. CASE c = b
    <3>1. ASSUME Waits(t, j, b)
          PROVE  Waits(s, j, b) /\ ~(j = i /\ col.entering)
      <4>1. PICK k \in DOMAIN t.queue[b] : Entering(t, j, b, k) /\ ~t.queue[b][k].begun
        BY <3>1 DEF Waits
      <4>2. /\ k \in Nat /\ k + d \in DOMAIN s.queue[b] /\ Entering(s, j, b, k + d)
            /\ k + d # 1 /\ ~s.queue[b][k + d].begun
        BY <1>3, <1>4, <4>1
      <4>3. Waits(s, j, b)
        BY <4>2 DEF Waits
      <4>4. ~(j = i /\ col.entering)
        <5> SUFFICES ASSUME j = i, col.entering PROVE FALSE
          OBVIOUS
        <5>1. Entering(s, j, b, 1) /\ s.queue[b][1].item = j
          BY <1>1 DEF Entering, i
        <5>2. 1 = k + d
          BY <1>1, <4>2, <5>1 DEF Core, Holding, Single
        <5> QED BY <4>2, <5>2
      <4> QED BY <4>3, <4>4
    <3>2. ASSUME Waits(s, j, b), ~(j = i /\ col.entering)
          PROVE  Waits(t, j, b)
      <4>1. PICK k \in DOMAIN s.queue[b] : Entering(s, j, b, k) /\ ~s.queue[b][k].begun
        BY <3>2 DEF Waits
      <4>2. k \in Nat /\ k # 0 /\ k # 1
        <5>1. k \in Nat /\ k # 0
          BY <1>1, StateFields
        <5>2. ~Entering(s, j, b, 1)
          BY <1>1, <3>2 DEF Entering, i
        <5> QED BY <4>1, <5>1, <5>2
      <4>3. k - d \in DOMAIN t.queue[b] /\ (k - d) + d = k
        <5>1. k > d /\ (k - d) + d = k
          BY <4>2
        <5> QED BY <1>3, <5>1
      <4>4. Entering(t, j, b, k - d) /\ ~t.queue[b][k - d].begun
        <5> DEFINE m == k - d
        <5>1. m \in DOMAIN t.queue[b] /\ m + d = k
          BY <4>3
        <5> HIDE DEF m
        <5>2. Entering(t, j, b, m) /\ ~t.queue[b][m].begun
          BY <1>3, <4>1, <4>2, <5>1 DEF Entering
        <5> QED BY <5>2 DEF m
      <4> QED BY <4>3, <4>4 DEF Waits
    <3> QED BY <2>2, <3>1, <3>2
  <2> QED BY <2>1, <2>2
<1>7. ASSUME NEW j \in 1 .. n, ~t.item[j].root, NEW c \in Branches, NEW k \in DOMAIN t.queue[c]
      PROVE  ~Entering(t, j, c, k)
  <2>1. ~s.item[j].root
    BY <1>2, <1>7 DEF Soft, Same
  <2>2. \A m \in DOMAIN s.queue[c] : ~Entering(s, j, c, m)
    BY <2>1 DEF Core, Holding, HoldOf
  <2>3. CASE c # b
    BY <1>2, <2>2, <2>3 DEF Entering
  <2>4. CASE c = b
    BY <1>4, <2>2, <2>4
  <2> QED BY <2>3, <2>4
<1>8. ASSUME NEW j \in 1 .. n
      PROVE  HoldOf(t, j)
  <2>1. HoldOf(s, j)
    BY DEF Core, Holding
  <2>2. CASE j # i
    <3>1. t.item[j] = s.item[j] /\ \A c \in Branches : Waits(t, j, c) <=> Waits(s, j, c)
      BY <1>2, <1>6, <2>2
    <3> QED BY <1>7, <2>1, <3>1 DEF HoldOf
  <2>3. CASE j = i
    <3> DEFINE old == s.item[j]
               new == t.item[j]
    <3>1. /\ new.root = old.root /\ new.held = old.held /\ new.finished = old.finished
          /\ Soft(old, new) /\ Held(new) /\ Eased(old, new, col, b)
          /\ old.awaiting \subseteq Branches /\ old.begun \in BOOLEAN /\ new.begun \in BOOLEAN
      <4>1. old \in ItemRecords /\ new \in ItemRecords
        BY <1>1, StateFields
      <4> QED BY <1>2, <2>3, <4>1 DEF Soft, Same, ItemRecords
    <3>2. \A c \in Branches : Waits(t, j, c) <=> Waits(s, j, c) /\ ~(c = b /\ col.entering)
      BY <1>6, <2>3
    <3>3. ASSUME new.token # "none", new.root
          PROVE  new.awaiting # {} /\ \A c \in Branches : c \in new.awaiting <=> Waits(t, j, c)
      <4>1. old.token # "none" /\ old.root
        BY <3>1, <3>3 DEF Eased
      <4>2. old.awaiting # {} /\ \A c \in Branches : c \in old.awaiting <=> Waits(s, j, c)
        BY <2>1, <4>1 DEF HoldOf
      <4>3. new.awaiting # {}
        BY <3>1, <3>3, <4>2 DEF Soft
      <4> QED BY <3>1, <3>2, <3>3, <4>2, <4>3 DEF Eased
    <3>4. ASSUME new.token = "none", new.held # "buffered", ~new.begun, ~new.finished,
                 NEW c \in Branches
          PROVE  ~Waits(t, j, c)
      <4>1. CASE old.token = "none"
        BY <2>1, <3>1, <3>2, <3>4, <4>1 DEF HoldOf, Eased
      <4>2. CASE old.token # "none"
        <5>1. col.entering /\ old.awaiting \subseteq {b}
          BY <3>1, <3>4, <4>2 DEF Eased
        <5>2. CASE old.root
          BY <2>1, <3>2, <4>2, <5>1, <5>2 DEF HoldOf
        <5>3. CASE ~old.root
          BY <2>1, <3>2, <5>3 DEF HoldOf, Waits
        <5> QED BY <5>2, <5>3
      <4> QED BY <4>1, <4>2
    <3> HIDE DEF old, new
    <3>5. new = t.item[j]
      BY DEF new
    <3> QED BY <1>7, <3>3, <3>4, <3>5 DEF HoldOf
  <2> QED BY <2>2, <2>3
<1> QED BY <1>5, <1>8 DEF Holding

\* A step at the head keeps the invariant of a cascade.
LEMMA HeadStepKeeps ==
  ASSUME NEW n \in 0 .. NItems, NEW s, Core(s, n), NEW b \in Branches, s.queue[b] # <<>>,
         NEW t, HeadStep(s, t, n, b)
  PROVE  Core(t, n) /\ Worked(s, t, n)
<1> DEFINE col == First(s, b)
           i == col.item
<1>1. /\ t \in States(n) /\ s \in States(n) /\ i \in 1 .. n /\ i \in Items
      /\ Within(s, n, i) /\ col = s.queue[b][1] /\ 1 \in DOMAIN s.queue[b]
      /\ \A k \in DOMAIN s.queue[b] : i <= s.queue[b][k].item
  BY HeadOfQueue, StateFields DEF Core, HeadStep
<1>2. /\ t.limit = s.limit /\ t.stopping = s.stopping
      /\ \A j \in 1 .. n : j # i => t.item[j] = s.item[j]
      /\ \A c \in Branches : c # b => t.queue[c] = s.queue[c]
      /\ Soft(s.item[i], t.item[i])
      /\ Fit(t.item[i]) /\ Held(t.item[i]) /\ Settled(t.item[i])
      /\ t.running = s.running \/ OneMore(s, t, b, i)
      /\ HeadKept(s, t, b) \/ HeadLeft(s, t, b)
  BY DEF HeadStep
<1>3. \A j \in 1 .. n : Same(s.item[j], t.item[j])
  <2>1. \A j \in 1 .. n : j # i => Same(s.item[j], t.item[j])
    BY <1>2 DEF Same
  <2> QED BY <1>2, <2>1 DEF Soft
<1>4. /\ Ordered(t, n) /\ Stopped(t, n)
      /\ \A j \in Items : Within(s, n, j) => Within(t, n, j)
  BY <1>2, <1>3, ItemsAsBefore
<1>5. PICK d \in {0, 1} :
            /\ d = 0 <=> HeadKept(s, t, b)
            /\ d = 1 => HeadLeft(s, t, b)
            /\ Len(t.queue[b]) = Len(s.queue[b]) - d
            /\ \A k \in DOMAIN t.queue[b] :
                  /\ k \in Nat /\ k + d \in DOMAIN s.queue[b]
                  /\ t.queue[b][k].item = s.queue[b][k + d].item
                  /\ t.queue[b][k].entering = s.queue[b][k + d].entering
            /\ \A k \in DOMAIN s.queue[b] : k > d => k - d \in DOMAIN t.queue[b]
  <2>1. t \in States(n) /\ (HeadKept(s, t, b) \/ HeadLeft(s, t, b))
    BY <1>1, <1>2
  <2> QED BY <2>1, HeadStepQueue
<1> HIDE DEF i, col
\* The items of a queue were in it before, in this order.
<1>6. /\ \A c \in Branches : \A k \in DOMAIN t.queue[c] :
             \E l \in DOMAIN s.queue[c] : s.queue[c][l].item = t.queue[c][k].item
      /\ \A k \in DOMAIN t.queue[b] : i <= t.queue[b][k].item
  <2>1. ASSUME NEW c \in Branches, NEW k \in DOMAIN t.queue[c]
        PROVE  \E l \in DOMAIN s.queue[c] : s.queue[c][l].item = t.queue[c][k].item
    <3>1. CASE c = b
      BY <1>5, <3>1
    <3>2. CASE c # b
      BY <1>2, <3>2
    <3> QED BY <3>1, <3>2
  <2>2. \A k \in DOMAIN t.queue[b] : i <= t.queue[b][k].item
    BY <1>1, <1>5
  <2> QED BY <2>1, <2>2
<1>7. Counted(t, n) /\ \A c \in Branches : Occupied(s, c) <= Occupied(t, c)
  BY HeadStepCounts
<1>8. \A c \in Branches, j \in Items :
         /\ s.running[c][j] \in Nat /\ t.running[c][j] \in Nat
         /\ \/ t.running[c][j] = s.running[c][j]
            \/ c = b /\ j = i /\ s.running[c][j] < t.running[c][j]
  <2>1. \A c \in Branches, j \in Items : s.running[c][j] \in Nat /\ t.running[c][j] \in Nat
    BY <1>1, StateFields
  <2> QED BY <1>1, <1>2, <2>1 DEF OneMore
<1>9. Worked(s, t, n)
  <2>1. \A j \in 1 .. n : s.item[j].body = "none" => t.item[j].dormant = s.item[j].dormant
    BY <1>2 DEF Soft
  <2>2. \A c \in Branches, j \in Items :
          /\ s.running[c][j] <= t.running[c][j]
          /\ s.running[c][j] < t.running[c][j] =>
                \A k \in DOMAIN t.queue[c] : j <= t.queue[c][k].item
    BY <1>6, <1>8
  <2> QED BY <1>2, <1>3, <1>6, <1>7, <2>1, <2>2 DEF Worked
<1>10. \A j \in 1 .. n : Fit(t.item[j]) /\ Held(t.item[j]) /\ Settled(t.item[j])
  BY <1>2 DEF Core
<1>11. Working(t, n)
  <2>1. \A c \in Branches, j \in Items : t.running[c][j] > 0 => Within(s, n, j)
    BY <1>1, <1>8 DEF Core, Working
  <2>2. ASSUME NEW c \in Branches, NEW k \in DOMAIN t.queue[c]
        PROVE  Within(s, n, t.queue[c][k].item)
    BY <1>6 DEF Core, Working
  <2>3. \A c \in Branches, k \in Nat : k \in DOMAIN t.queue[c] => t.queue[c][k].item \in Items
    BY <1>1, StateFields
  <2>4. \A c \in Branches : \A k \in DOMAIN t.queue[c] : k \in Nat
    BY <1>1, StateFields
  <2> QED BY <1>4, <2>1, <2>2, <2>3, <2>4 DEF Working
<1>12. Sorted(t)
  <2>1. \A c \in Branches : c # b => ByAge(t.queue[c])
    BY <1>2 DEF Core, Sorted
  <2>2. ByAge(t.queue[b])
    <3>1. ByAge(s.queue[b])
      BY DEF Core, Sorted
    <3>2. \A k, l \in DOMAIN t.queue[b] : k < l => k + d < l + d
      BY <1>5
    <3> QED BY <1>5, <3>1, <3>2 DEF ByAge
  <2> QED BY <2>1, <2>2 DEF Sorted
<1>13. Holding(t, n)
  BY HeadStepHolding
<1> QED BY <1>1, <1>4, <1>7, <1>9, <1>10, <1>11, <1>12, <1>13 DEF Core

\* A collection less.
LEMMA SourceExhaustedFits ==
  ASSUME NEW it \in ItemRecords, Fit(it), Held(it)
  PROVE  LET x == SourceExhausted(it)
         IN  /\ Soft(it, x) /\ Fit(x) /\ Held(x) /\ Settled(x)
             /\ x.unexhausted = it.unexhausted - 1 /\ x.tasks = it.tasks
             /\ x.token = it.token /\ x.awaiting = it.awaiting /\ x.begun = it.begun
<1> DEFINE n == it.unexhausted - 1
           y == [it EXCEPT !.unexhausted = n]
           x == SourceExhausted(it)
<1>1. n \in Int
  BY DEF ItemRecords
<1>2. x = Settle(y)
  BY DEF SourceExhausted
<1> HIDE DEF n, x
<1>3. y \in ItemRecords
  BY <1>1, Zenon DEF ItemRecords
<1>4. /\ Same(it, y) /\ y.unexhausted = n /\ y.tasks = it.tasks /\ y.err = it.err
      /\ y.dead = it.dead /\ y.done = it.done /\ y.token = it.token /\ y.awaiting = it.awaiting /\ y.begun = it.begun
      /\ y.slots = it.slots /\ y.queuedAt = it.queuedAt /\ y.dormant = it.dormant
  BY DEF ItemRecords, Same
<1> HIDE DEF y
<1>5. Fit(y) /\ Held(y) /\ Soft(it, y)
  BY <1>3, <1>4 DEF Fit, Held, Placed, Slotted, Told, Same, Failing, Soft
<1>6. /\ Soft(y, x) /\ Fit(x) /\ Settled(x)
      /\ x.unexhausted = n /\ x.tasks = it.tasks /\ x.token = it.token /\ x.awaiting = it.awaiting /\ x.begun = it.begun
  BY <1>2, <1>3, <1>4, <1>5, SettleFits
<1>7. Soft(it, x)
  BY <1>5, <1>6, SoftTransitive
<1>8. Held(x)
  BY <1>5, <1>6 DEF Soft, Same, Held
<1> QED BY <1>6, <1>7, <1>8 DEF n, x

\* Thrown away work leaves at most an abort.
LEMMA RecordAbandonedFits ==
  ASSUME NEW it \in ItemRecords, Fit(it), Held(it)
  PROVE  LET x == RecordAbandoned(it)
         IN  /\ Soft(it, x) /\ Fit(x) /\ Held(x)
             /\ x.unexhausted = it.unexhausted /\ x.tasks = it.tasks
             /\ x.token = it.token /\ x.awaiting = it.awaiting /\ x.begun = it.begun
<1> DEFINE e == IF it.err = "none" THEN "abort" ELSE it.err
           x == [it EXCEPT !.err = e]
<1>1. e \in {"none", "task", "abort"} /\ (e = "task" <=> it.err = "task")
  BY DEF ItemRecords
<1>2. x = RecordAbandoned(it)
  BY DEF RecordAbandoned
<1> HIDE DEF e
<1>3. x \in ItemRecords
  BY <1>1, Zenon DEF ItemRecords
<1>4. /\ Same(it, x) /\ x.unexhausted = it.unexhausted /\ x.tasks = it.tasks /\ x.err = e
      /\ x.dead = it.dead /\ x.done = it.done /\ x.token = it.token /\ x.awaiting = it.awaiting /\ x.begun = it.begun
      /\ x.slots = it.slots /\ x.queuedAt = it.queuedAt /\ x.dormant = it.dormant
  BY DEF ItemRecords, Same
<1> HIDE DEF x
<1>5. Fit(x) /\ Held(x) /\ Soft(it, x)
  BY <1>1, <1>3, <1>4 DEF Fit, Held, Placed, Slotted, Told, Same, Failing, Soft
<1> QED BY <1>2, <1>4, <1>5

\* A task more.
LEMMA TaskStartedFits ==
  ASSUME NEW it \in ItemRecords, Fit(it), Held(it)
  PROVE  LET x == [it EXCEPT !.tasks = @ + 1]
         IN  /\ Soft(it, x) /\ Fit(x) /\ Held(x)
             /\ x.unexhausted = it.unexhausted /\ x.tasks = it.tasks + 1
             /\ x.token = it.token /\ x.awaiting = it.awaiting /\ x.begun = it.begun
<1> DEFINE n == it.tasks + 1
           x == [it EXCEPT !.tasks = n]
<1>1. n \in Int
  BY DEF ItemRecords
<1>2. x = [it EXCEPT !.tasks = @ + 1]
  OBVIOUS
<1> HIDE DEF n
<1>3. x \in ItemRecords
  BY <1>1, Zenon DEF ItemRecords
<1>4. /\ Same(it, x) /\ x.unexhausted = it.unexhausted /\ x.tasks = n /\ x.err = it.err
      /\ x.dead = it.dead /\ x.done = it.done /\ x.token = it.token /\ x.awaiting = it.awaiting /\ x.begun = it.begun
      /\ x.slots = it.slots /\ x.queuedAt = it.queuedAt /\ x.dormant = it.dormant
  BY DEF ItemRecords, Same
<1> HIDE DEF x
<1>5. Fit(x) /\ Held(x) /\ Soft(it, x)
  BY <1>3, <1>4 DEF Fit, Held, Placed, Slotted, Told, Same, Failing, Soft
<1> QED BY <1>2, <1>4, <1>5 DEF n

\* The head leaves the queue, its item becomes x, the tasks that run r.
HeadGone(s, b, i, x, r) == [s EXCEPT !.item[i] = x, !.running = r, !.queue[b] = Tail(@)]

\* The state after the head has left the queue.
LEMMA HeadGoneFields ==
  ASSUME NEW n \in 0 .. NItems, NEW s \in States(n), NEW b \in Branches, s.queue[b] # <<>>,
         NEW i \in 1 .. n, NEW x \in ItemRecords, NEW r \in Running, NEW t,
         t = HeadGone(s, b, i, x, r)
  PROVE  /\ t \in States(n) /\ t.limit = s.limit /\ t.stopping = s.stopping
         /\ t.item[i] = x /\ \A j \in 1 .. n : j # i => t.item[j] = s.item[j]
         /\ t.running = r /\ HeadLeft(s, t, b)
         /\ \A c \in Branches : c # b => t.queue[c] = s.queue[c]
<1> DEFINE f == [s.item EXCEPT ![i] = x]
           q == [s.queue EXCEPT ![b] = Tail(@)]
<1>1. f \in [1 .. n -> ItemRecords] /\ f[i] = x /\ \A j \in 1 .. n : j # i => f[j] = s.item[j]
  BY StateFields
<1>2. /\ q \in Queues /\ q[b] = Tail(s.queue[b])
      /\ \A c \in Branches : c # b => q[c] = s.queue[c]
  <2>1. Tail(s.queue[b]) \in Seq(Collections) /\ s.queue \in [Branches -> Seq(Collections)]
    BY StateFields, TailOfQueue DEF Queues
  <2> QED BY <2>1 DEF Queues
<1>3. t = [s EXCEPT !.item = f, !.running = r, !.queue = q]
  BY DEF States, HeadGone
<1> HIDE DEF f, q
<1>4. t \in States(n)
  BY <1>1, <1>2, <1>3, Zenon DEF States
<1>5. t.limit = s.limit /\ t.stopping = s.stopping /\ t.item = f /\ t.running = r /\ t.queue = q
  BY <1>3 DEF States
<1> QED BY <1>1, <1>2, <1>4, <1>5 DEF HeadLeft

\* A first batch at the head of a queue belongs to a body that was submitted to.
LEMMA HeadIsRooted ==
  ASSUME NEW n \in 0 .. NItems, NEW s, Core(s, n), NEW b \in Branches, s.queue[b] # <<>>,
         First(s, b).entering
  PROVE  s.item[First(s, b).item].root
<1> DEFINE i == First(s, b).item
<1>1. i \in 1 .. n /\ 1 \in DOMAIN s.queue[b] /\ First(s, b) = s.queue[b][1]
  BY HeadOfQueue
<1>2. Entering(s, i, b, 1)
  BY <1>1 DEF Entering
<1>3. HoldOf(s, i)
  BY <1>1 DEF Core, Holding
<1> QED BY <1>1, <1>2, <1>3 DEF HoldOf

\* That a first batch has begun is recorded once its hold has ended.
LEMMA NotedFits ==
  ASSUME NEW it \in ItemRecords, Fit(it), Held(it), NEW e \in BOOLEAN,
         e => it.root /\ it.token = "none"
  PROVE  LET x == [it EXCEPT !.begun = @ \/ e]
         IN  /\ Soft(it, x) /\ SameGroup(it, x) /\ Fit(x) /\ Held(x)
             /\ x.begun = (it.begun \/ e) /\ x.token = it.token /\ x.awaiting = it.awaiting
<1> DEFINE c == it.begun \/ e
           x == [it EXCEPT !.begun = c]
<1>1. c \in BOOLEAN /\ x = [it EXCEPT !.begun = @ \/ e]
  BY DEF ItemRecords
<1> HIDE DEF c
<1>2. x \in ItemRecords
  BY <1>1, Zenon DEF ItemRecords
<1>3. /\ Same(it, x) /\ SameGroup(it, x) /\ x.begun = c
      /\ x.token = it.token /\ x.awaiting = it.awaiting
      /\ x.slots = it.slots /\ x.queuedAt = it.queuedAt /\ x.dormant = it.dormant
  BY DEF ItemRecords, Same, SameGroup
<1> HIDE DEF x
<1>4. Fit(x)
  BY <1>3 DEF Fit, Placed, Slotted, Told, Same, SameGroup, Failing
<1>5. Held(x)
  BY <1>3 DEF Held, Same, c
<1>6. Soft(it, x)
  BY <1>2, <1>3 DEF Soft, SameGroup
<1> QED BY <1>1, <1>3, <1>4, <1>5, <1>6 DEF c

\* Dropping a dead head is a step at the head.
LEMMA DropCollectionKeeps ==
  ASSUME NEW n \in 0 .. NItems, NEW s, Core(s, n), NEW b \in Branches, s.queue[b] # <<>>
  PROVE  LET t == DropCollection(s, b)
         IN  Core(t, n) /\ Worked(s, t, n)
<1> DEFINE col == First(s, b)
           i == col.item
           old == s.item[i]
           y == BranchStarted(old, col, b, FALSE)
           z == RecordAbandoned(y)
           x == SourceExhausted(z)
           t == DropCollection(s, b)
<1>1. /\ s \in States(n) /\ i \in 1 .. n /\ col \in Collections
      /\ old \in ItemRecords /\ Fit(old) /\ Held(old) /\ s.running \in Running
      /\ \A j \in 1 .. n : s.item[j] \in ItemRecords
  <2>1. s \in States(n) /\ i \in 1 .. n /\ col \in Collections
    BY HeadOfQueue DEF Core
  <2>2. s.running \in Running /\ \A j \in 1 .. n : s.item[j] \in ItemRecords
    BY <2>1, StateFields
  <2> QED BY <2>1, <2>2 DEF Core
<1>2. t = HeadGone(s, b, i, x, s.running)
  BY <1>1 DEF HeadGone, DropCollection, Dequeue, States
<1> HIDE DEF t, i, col, old, x, y, z
<1>3. /\ Soft(old, y) /\ SameGroup(old, y) /\ Fit(y) /\ Held(y) /\ Eased(old, y, col, b)
  <2>1. /\ old \in ItemRecords /\ Fit(old) /\ Held(old) /\ col \in Collections
        /\ col.entering => old.root
    BY <1>1, HeadIsRooted DEF col, i, old
  <2>2. y = BranchStarted(old, col, b, FALSE)
    BY DEF y
  <2>3. Soft(old, y) /\ SameGroup(old, y) /\ Fit(y) /\ Held(y) /\ Leaves(old, y, col, b)
    BY <2>1, <2>2, LeaveFits
  <2> QED BY <2>3 DEF Eased, Soft, Leaves
<1>4. /\ Soft(y, z) /\ Fit(z) /\ Held(z)
      /\ z.unexhausted = y.unexhausted /\ z.tasks = y.tasks
      /\ z.token = y.token /\ z.awaiting = y.awaiting /\ z.begun = y.begun
  BY <1>3, RecordAbandonedFits DEF z, Soft
<1>5. /\ Soft(z, x) /\ Fit(x) /\ Held(x) /\ Settled(x)
      /\ x.unexhausted = z.unexhausted - 1 /\ x.tasks = z.tasks
      /\ x.token = z.token /\ x.awaiting = z.awaiting /\ x.begun = z.begun
  BY <1>4, SourceExhaustedFits DEF x, Soft
<1>6. Soft(old, x)
  BY <1>3, <1>4, <1>5, SoftTransitive
<1>7. /\ t \in States(n) /\ t.limit = s.limit /\ t.stopping = s.stopping
      /\ t.item[i] = x /\ \A j \in 1 .. n : j # i => t.item[j] = s.item[j]
      /\ t.running = s.running /\ HeadLeft(s, t, b)
      /\ \A c \in Branches : c # b => t.queue[c] = s.queue[c]
  <2>1. x \in ItemRecords
    BY <1>6 DEF Soft
  <2> QED BY <1>1, <1>2, <2>1, HeadGoneFields
<1>8. HeadStep(s, t, n, b)
  <2>1. x.unexhausted = old.unexhausted - 1 /\ x.tasks = old.tasks
    BY <1>3, <1>4, <1>5 DEF SameGroup
  <2>2. Eased(old, x, col, b)
    BY <1>3, <1>4, <1>5 DEF Eased
  <2> QED BY <1>5, <1>6, <1>7, <2>1, <2>2 DEF HeadStep, i, col, old
<1>9. Core(t, n) /\ Worked(s, t, n)
  BY <1>8, HeadStepKeeps
<1> QED BY <1>9 DEF t

\* Starting a task of the head is one, and fills a slot.
LEMMA StartWorkKeeps ==
  ASSUME NEW n \in 0 .. NItems, NEW s, Core(s, n), NEW b \in Branches, s.queue[b] # <<>>
  PROVE  LET t == StartWork(s, b)
         IN  Core(t, n) /\ Worked(s, t, n) /\ Occupied(t, b) = Occupied(s, b) + 1
<1> DEFINE col == First(s, b)
           i == col.item
           old == s.item[i]
           z == [old EXCEPT !.tasks = @ + 1]
           v == BranchStarted(z, col, b, TRUE)
           e == col.entering /\ v.held = "balanced"
           y == [v EXCEPT !.begun = @ \/ e]
           r == [s.running EXCEPT ![b][i] = @ + 1]
           u == [s EXCEPT !.running[b][i] = @ + 1, !.item[i] = y]
           t == StartWork(s, b)
<1>1. /\ s \in States(n) /\ i \in 1 .. n /\ i \in Items /\ col \in Collections
      /\ old \in ItemRecords /\ Fit(old) /\ Held(old) /\ s.running \in Running
      /\ \A j \in 1 .. n : s.item[j] \in ItemRecords
      /\ col = s.queue[b][1] /\ col.left \in Nat \ {0}
  <2>1. /\ s \in States(n) /\ i \in 1 .. n /\ i \in Items /\ col \in Collections
        /\ col = s.queue[b][1] /\ col.left \in Nat \ {0}
    BY HeadOfQueue DEF Core
  <2>2. s.running \in Running /\ \A j \in 1 .. n : s.item[j] \in ItemRecords
    BY <2>1, StateFields
  <2> QED BY <2>1, <2>2 DEF Core
<1>2. r \in Running /\ \A w : w.running = r => OneMore(s, w, b, i)
  <2>1. s.running[b] \in [Items -> Nat] /\ s.running \in [Branches -> [Items -> Nat]]
    BY <1>1 DEF Running
  <2> HIDE DEF i
  <2>2. r \in [Branches -> [Items -> Nat]]
    BY <1>1, <2>1
  <2>3. r[b][i] = s.running[b][i] + 1
    BY <1>1, <2>1
  <2>4. \A c \in Branches, j \in Items : c # b \/ j # i => r[c][j] = s.running[c][j]
    BY <1>1, <2>1
  <2> HIDE DEF r
  <2> QED BY <1>1, <2>2, <2>3, <2>4 DEF Running, OneMore
<1>3. t = SettleCollection(u, b)
  BY DEF StartWork
<1>4. /\ First(u, b) = col /\ u = [s EXCEPT !.running = r, !.item = [@ EXCEPT ![i] = y]]
  BY <1>1 DEF First, States
<1> HIDE DEF t, i, old, v, e, y, z, r
<1>5. /\ Soft(old, z) /\ Fit(z) /\ Held(z)
      /\ z.unexhausted = old.unexhausted /\ z.tasks = old.tasks + 1
      /\ z.token = old.token /\ z.awaiting = old.awaiting /\ z.begun = old.begun
  BY <1>1, TaskStartedFits DEF z
<1>11. col.entering => old.root
  BY <1>1, HeadIsRooted DEF col, i, old
<1>6. /\ Soft(z, y) /\ SameGroup(z, y) /\ Fit(y) /\ Held(y) /\ Eased(old, y, col, b)
  <2>1. z \in ItemRecords /\ (col.entering => z.root)
    BY <1>5, <1>11 DEF Soft, Same
  <2>2. Soft(z, v) /\ SameGroup(z, v) /\ Fit(v) /\ Held(v) /\ Starts(z, v, col, b)
    BY <1>1, <1>5, <2>1, StartFits DEF v
  <2>3. v \in ItemRecords /\ v.held = z.held /\ v.root = z.root
    BY <2>2 DEF Soft, Same
  <2>4. e \in BOOLEAN /\ (e => v.root /\ v.token = "none" /\ z.held = "balanced")
    <3>1. col.entering \in BOOLEAN
      BY <1>1 DEF Collections
    <3> QED BY <2>1, <2>2, <2>3, <3>1 DEF e, Starts
  <2>5. /\ Soft(v, y) /\ SameGroup(v, y) /\ Fit(y) /\ Held(y)
        /\ y.begun = (v.begun \/ e) /\ y.token = v.token /\ y.awaiting = v.awaiting
    BY <2>2, <2>3, <2>4, NotedFits DEF y
  <2>6. Soft(z, y) /\ SameGroup(z, y)
    BY <2>2, <2>5, SoftTransitive DEF SameGroup
  <2>7. e <=> col.entering /\ z.held = "balanced"
    BY <2>3 DEF e
  <2>8. v.token # "none" => z.token # "none"
    BY <2>2 DEF Soft
  <2>9. Eased(old, y, col, b)
    <3>1. CASE col.entering
      BY <1>5, <2>2, <2>5, <2>7, <2>8, <3>1 DEF Eased, Starts
    <3>2. CASE ~col.entering
      <4>1. ~e /\ v.begun \in BOOLEAN
        BY <2>3, <2>7, <3>2 DEF ItemRecords
      <4> QED BY <1>5, <2>2, <2>5, <2>8, <3>2, <4>1 DEF Eased, Starts
    <3> QED BY <3>1, <3>2
  <2> QED BY <2>5, <2>6, <2>9
<1>7. /\ Soft(old, y) /\ y \in ItemRecords /\ y.unexhausted = old.unexhausted
      /\ y.tasks = old.tasks + 1
  BY <1>5, <1>6, SoftTransitive DEF SameGroup, Soft
<1>8. HeadStep(s, t, n, b) /\ t.running = r
  <2> DEFINE f == [s.item EXCEPT ![i] = y]
  <2>1. /\ f \in [1 .. n -> ItemRecords] /\ f[i] = y
        /\ \A j \in 1 .. n : j # i => f[j] = s.item[j]
    BY <1>1, <1>7, StateFields
  <2>2. u = [s EXCEPT !.running = r, !.item = f]
    BY <1>4
  <2> HIDE DEF f, u
  <2>3. CASE col.left > 1
    <3> DEFINE h == [col EXCEPT !.left = @ - 1, !.begun = TRUE]
               l == [s.queue[b] EXCEPT ![1] = h]
               q == [s.queue EXCEPT ![b] = l]
    <3>1. h \in Collections /\ h.item = col.item /\ h.entering = col.entering /\ h.begun
      <4>1. col.left - 1 \in Nat \ {0}
        BY <1>1, <2>3
      <4> DEFINE l0 == col.left - 1
      <4>2. h = [col EXCEPT !.left = l0, !.begun = TRUE]
        OBVIOUS
      <4> HIDE DEF l0, h
      <4>3. l0 \in Nat \ {0}
        BY <4>1 DEF l0
      <4> QED BY <1>1, <4>2, <4>3 DEF Collections
    <3>2. /\ l \in Seq(Collections) /\ Len(l) = Len(s.queue[b])
          /\ \A k \in DOMAIN s.queue[b] : l[k] = IF k = 1 THEN h ELSE s.queue[b][k]
      <4>1. s.queue[b] \in Seq(Collections) /\ 1 \in DOMAIN s.queue[b]
        BY <1>1, StateFields, HeadOfQueue
      <4> HIDE DEF h
      <4> QED BY <3>1, <4>1
    <3>3. t = [s EXCEPT !.item = f, !.running = r, !.queue = q]
      <4>1. t = [u EXCEPT !.queue[b][1] = h]
        BY <1>3, <1>4, <2>3 DEF SettleCollection
      <4>2. u.queue = s.queue
        BY <1>1, <2>2 DEF States
      <4> HIDE DEF h
      <4>3. t = [u EXCEPT !.queue = q]
        BY <4>1, <4>2
      <4> HIDE DEF q
      <4> QED BY <1>1, <2>2, <4>3 DEF States
    <3> HIDE DEF h, l
    <3>4. q \in Queues /\ q[b] = l /\ \A c \in Branches : c # b => q[c] = s.queue[c]
      <4>1. s.queue \in [Branches -> Seq(Collections)]
        BY <1>1, StateFields DEF Queues
      <4> QED BY <3>2, <4>1 DEF Queues
    <3> HIDE DEF q
    <3>5. t \in States(n)
      BY <1>1, <1>2, <2>1, <3>3, <3>4, Zenon DEF States
    <3>6. /\ t.limit = s.limit /\ t.stopping = s.stopping
          /\ t.item = f /\ t.running = r /\ t.queue = q
      BY <1>1, <3>3 DEF States
    <3>7. HeadKept(s, t, b)
      <4>1. \A k \in DOMAIN s.queue[b] : s.queue[b][k].begun \in BOOLEAN
        BY <1>1, StateFields
      <4> QED BY <1>1, <3>1, <3>2, <3>4, <3>6, <4>1 DEF HeadKept
    <3>8. Settled(y)
      <4>1. old.tasks = Cardinality(RunningOf(s.running, i)) /\ IsFiniteSet(RunningOf(s.running, i))
        BY <1>1 DEF Core, Counted, old
      <4>2. old.tasks \in Nat
        BY <4>1, FS_CardinalityType
      <4> QED BY <1>7, <4>2 DEF Settled, Idle
    <3> QED BY <1>2, <1>6, <1>7, <2>1, <3>4, <3>5, <3>6, <3>7, <3>8 DEF HeadStep, i, col, old
  <2>4. CASE ~(col.left > 1)
    <3> DEFINE w == BranchStarted(y, col, b, FALSE)
               x == SourceExhausted(w)
    <3>1. t = HeadGone(s, b, i, x, r)
      <4> DEFINE rest == Dequeue(u, b)
                 g == [f EXCEPT ![i] = w]
      <4> HIDE DEF w, x
      <4>1. t = [rest EXCEPT !.item[i] = SourceExhausted(@)]
        BY <1>3, <1>4, <2>4 DEF SettleCollection, i
      <4>2. rest = [u EXCEPT !.queue[b] = Tail(@), !.item[i] = BranchStarted(@, col, b, FALSE)]
        BY <1>4 DEF Dequeue, i
      <4>3. u.item = f /\ u.queue = s.queue
        BY <1>1, <2>2 DEF States
      <4>4. rest = [s EXCEPT !.running = r, !.item = g, !.queue[b] = Tail(@)]
        BY <1>1, <2>1, <2>2, <4>2, <4>3 DEF States, w
      <4>5. rest.item = g /\ g[i] = w
        BY <1>1, <2>1, <4>4 DEF States
      <4>6. [g EXCEPT ![i] = x] = [s.item EXCEPT ![i] = x]
        BY <2>1 DEF f
      <4> HIDE DEF rest, g
      <4>7. t = [rest EXCEPT !.item = [s.item EXCEPT ![i] = x]]
        BY <4>1, <4>5, <4>6 DEF x
      <4> QED BY <1>1, <4>4, <4>7 DEF States, HeadGone
    <3> HIDE DEF w, x
    <3>2. /\ Soft(y, w) /\ SameGroup(y, w) /\ Fit(w) /\ Held(w) /\ Eased(old, w, col, b)
      <4>1. col.entering => y.root
        BY <1>7, <1>11 DEF Soft, Same
      <4>2. Soft(y, w) /\ SameGroup(y, w) /\ Fit(w) /\ Held(w) /\ Leaves(y, w, col, b)
        BY <1>1, <1>6, <1>7, <4>1, LeaveFits DEF w
      <4>3. w.token # "none" => y.token # "none"
        BY <4>2 DEF Soft
      <4>4. old.token # "none" /\ y.token = "none" => y.begun \/ old.awaiting \subseteq {b} \/ ~col.entering
        BY <1>6 DEF Eased
      <4>5. Eased(old, w, col, b)
        BY <1>6, <4>2, <4>3, <4>4 DEF Eased, Leaves
      <4> QED BY <4>2, <4>5
    <3>3. /\ Soft(w, x) /\ Fit(x) /\ Held(x) /\ Settled(x)
          /\ x.unexhausted = w.unexhausted - 1 /\ x.tasks = w.tasks
          /\ x.token = w.token /\ x.awaiting = w.awaiting /\ x.begun = w.begun
      BY <3>2, SourceExhaustedFits DEF x, Soft
    <3>4. Soft(old, x) /\ x \in ItemRecords
      BY <1>7, <3>2, <3>3, SoftTransitive DEF Soft
    <3>5. /\ t \in States(n) /\ t.limit = s.limit /\ t.stopping = s.stopping
          /\ t.item[i] = x /\ \A j \in 1 .. n : j # i => t.item[j] = s.item[j]
          /\ t.running = r /\ HeadLeft(s, t, b)
          /\ \A c \in Branches : c # b => t.queue[c] = s.queue[c]
      BY <1>1, <1>2, <3>1, <3>4, HeadGoneFields
    <3>6. x.unexhausted = old.unexhausted - 1 /\ x.tasks = old.tasks + 1
      BY <1>7, <3>2, <3>3 DEF SameGroup
    <3>7. Eased(old, x, col, b)
      BY <3>2, <3>3 DEF Eased
    <3> QED BY <1>2, <3>3, <3>4, <3>5, <3>6, <3>7 DEF HeadStep, i, col, old
  <2> QED BY <2>3, <2>4
<1>9. Core(t, n) /\ Worked(s, t, n)
  BY <1>8, HeadStepKeeps
<1>10. Occupied(t, b) = Occupied(s, b) + 1
  <2>1. OneMore(s, t, b, i)
    BY <1>2, <1>8
  <2>2. IsFiniteSet(Slots(s, b))
    BY DEF Core, Counted
  <2> QED BY <1>1, <2>1, <2>2, CountSlots
<1> QED BY <1>9, <1>10 DEF t

-----------------------------------------------------------------------------
(* The loops of a cascade *)

\* What a loop that starts at s may reach.
Reach(s, n) == {t \in States(n) : Core(t, n) /\ Worked(s, t, n)}

\* A loop may end where it starts.
LEMMA ReachSelf ==
  ASSUME NEW n \in 0 .. NItems, NEW s, Core(s, n)
  PROVE  s \in Reach(s, n)
BY WorkedReflexive DEF Reach, Core

\* A loop goes on from where it is.
LEMMA ReachFurther ==
  ASSUME NEW n \in 0 .. NItems, NEW s, Core(s, n), NEW u \in Reach(s, n),
         NEW t, Core(t, n), Worked(u, t, n)
  PROVE  t \in Reach(s, n)
BY WorkedTransitive DEF Reach, Core

\* One turn of grabNext's loop.
LEMMA DropDeadKeeps ==
  ASSUME NEW n \in 0 .. NItems, NEW s, Core(s, n), NEW b \in Branches
  PROVE  Core(DropDead(s, b), n) /\ Worked(s, DropDead(s, b), n)
<1>1. CASE Pullable(s, b) /\ Dead(s.item[First(s, b).item])
  <2>1. s.queue[b] # <<>> /\ DropDead(s, b) = DropCollection(s, b)
    BY <1>1 DEF DropDead, Pullable
  <2> QED BY <2>1, DropCollectionKeeps
<1>2. CASE ~(Pullable(s, b) /\ Dead(s.item[First(s, b).item]))
  <2>1. DropDead(s, b) = s
    BY <1>2 DEF DropDead
  <2> QED BY <2>1, WorkedReflexive
<1> QED BY <1>1, <1>2

\* All its turns.
LEMMA DropLoop ==
  ASSUME NEW n \in 0 .. NItems, NEW s, Core(s, n), NEW b \in Branches,
         NEW f, f = CHOOSE d : d = [m \in Nat |-> IF m = 0 THEN s ELSE DropDead(d[m - 1], b)]
  PROVE  \A m \in Nat : f[m] \in Reach(s, n)
<1> DEFINE S == Reach(s, n)
           g == [y \in (Nat \ {0}) \X S |-> DropDead(y[2], b)]
<1>1. g \in [(Nat \ {0}) \X S -> S]
  <2>1. ASSUME NEW u \in S PROVE DropDead(u, b) \in S
    <3>1. Core(u, n)
      BY DEF Reach
    <3> QED BY <3>1, DropDeadKeeps, ReachFurther
  <2> QED BY <2>1
<1>2. s \in S
  BY ReachSelf
<1> HIDE DEF S, g
<1>3. PICK h : Iterates(h, S, g, s)
  BY <1>1, <1>2, Iteration
<1>4. ASSUME NEW m \in Nat \ {0} PROVE h[m] = DropDead(h[m - 1], b)
  <2>1. m - 1 \in Nat /\ (m - 1) + 1 = m
    OBVIOUS
  <2>2. h[m] = g[<<m, h[m - 1]>>]
    BY <1>3, <2>1 DEF Iterates
  <2>3. h[m - 1] \in S
    BY <1>3, <2>1 DEF Iterates
  <2> QED BY <2>2, <2>3 DEF g
<1>5. h = [m \in Nat |-> IF m = 0 THEN s ELSE DropDead(h[m - 1], b)]
  BY <1>3, <1>4 DEF Iterates
<1>6. f = [m \in Nat |-> IF m = 0 THEN s ELSE DropDead(f[m - 1], b)]
  BY <1>5
<1> DEFINE P == {m \in Nat : f[m] \in S}
<1>7. 0 \in P
  BY <1>2, <1>6
<1>8. ASSUME NEW m \in Nat, m \in P PROVE m + 1 \in P
  <2>1. (m + 1) - 1 = m /\ m + 1 # 0 /\ m + 1 \in Nat
    OBVIOUS
  <2>2. f[m + 1] = DropDead(f[m], b)
    BY <1>6, <2>1
  <2>3. Core(f[m], n) /\ f[m] \in S
    BY <1>8 DEF S, Reach
  <2> QED BY <2>2, <2>3, DropDeadKeeps, ReachFurther DEF S
<1>9. Nat \subseteq P
  <2> HIDE DEF P
  <2> QED BY <1>7, <1>8, Induction
<1> QED BY <1>9 DEF S

\* grabNext fills a slot, unless there is nothing to pull.
LEMMA GrabNextKeeps ==
  ASSUME NEW n \in 0 .. NItems, NEW s, Core(s, n), NEW b \in Branches
  PROVE  LET t == GrabNext(s, b)
         IN  /\ Core(t, n) /\ Worked(s, t, n)
             /\ ~Pullable(t, b) \/ Occupied(s, b) + 1 <= Occupied(t, b)
<1> DEFINE f == CHOOSE d : d = [m \in Nat |-> IF m = 0 THEN s ELSE DropDead(d[m - 1], b)]
           u == f[Len(s.queue[b])]
           t == GrabNext(s, b)
<1>1. t = IF Pullable(u, b) THEN StartWork(u, b) ELSE u
  BY DEF GrabNext
<1> HIDE DEF f, t
<1>2. u \in Reach(s, n)
  <2>1. Len(s.queue[b]) \in Nat
    BY StateFields DEF Core
  <2> QED BY <2>1, DropLoop DEF f
<1> HIDE DEF u
<1>3. Core(u, n) /\ Worked(s, u, n)
  BY <1>2 DEF Reach
<1>4. CASE Pullable(u, b)
  <2>1. t = StartWork(u, b) /\ u.queue[b] # <<>>
    BY <1>1, <1>4 DEF Pullable
  <2>2. Core(t, n) /\ Worked(u, t, n) /\ Occupied(t, b) = Occupied(u, b) + 1
    BY <1>3, <2>1, StartWorkKeeps
  <2>3. Worked(s, t, n)
    BY <1>3, <2>2, WorkedTransitive
  <2>4. Occupied(s, b) \in Nat /\ Occupied(u, b) \in Nat /\ Occupied(s, b) <= Occupied(u, b)
    BY <1>3, Occupies DEF Worked
  <2> QED BY <2>2, <2>3, <2>4 DEF t
<1>5. CASE ~Pullable(u, b)
  BY <1>1, <1>3, <1>5 DEF t
<1> QED BY <1>4, <1>5

\* What is no longer to be pulled stays so.
LEMMA StillFull ==
  ASSUME NEW n \in 0 .. NItems, NEW s, Core(s, n), NEW t, Core(t, n), Worked(s, t, n),
         NEW b \in Branches, ~Pullable(s, b)
  PROVE  ~Pullable(t, b)
<1>1. /\ Occupied(s, b) \in Nat /\ Occupied(t, b) \in Nat /\ s.limit[b] \in Nat
      /\ Occupied(s, b) <= Occupied(t, b) /\ t.limit[b] = s.limit[b]
  BY Occupies, StateFields DEF Worked, Core
<1>2. CASE s.queue[b] = <<>>
  <2>1. DOMAIN s.queue[b] = {}
    BY <1>2
  <2>2. DOMAIN t.queue[b] = {}
    BY <2>1 DEF Worked
  <2>3. t.queue[b] = <<>>
    <3>1. /\ t.queue[b] \in Seq(Collections) /\ Len(t.queue[b]) \in Nat
          /\ DOMAIN t.queue[b] = 1 .. Len(t.queue[b])
      BY StateFields DEF Core
    <3>2. Len(t.queue[b]) = 0
      <4>1. Len(t.queue[b]) # 0 => 1 \in 1 .. Len(t.queue[b])
        BY <3>1
      <4> QED BY <2>2, <3>1, <4>1
    <3> QED BY <3>1, <3>2
  <2> QED BY <2>3 DEF Pullable
<1>3. CASE s.queue[b] # <<>>
  <2>1. ~(Occupied(s, b) < s.limit[b])
    BY <1>3 DEF Pullable, UnitHasFreeSlot
  <2> QED BY <1>1, <2>1 DEF Pullable, UnitHasFreeSlot
<1> QED BY <1>2, <1>3

\* After m turns of pump m slots are in use, or there is nothing to pull.
LEMMA PumpLoop ==
  ASSUME NEW n \in 0 .. NItems, NEW s, Core(s, n), NEW b \in Branches,
         NEW f, f = CHOOSE d : d = [m \in Nat |-> IF m = 0 THEN s ELSE GrabNext(d[m - 1], b)]
  PROVE  \A m \in Nat : f[m] \in Reach(s, n) /\ (~Pullable(f[m], b) \/ m <= Occupied(f[m], b))
<1> DEFINE S == Reach(s, n)
           g == [y \in (Nat \ {0}) \X S |-> GrabNext(y[2], b)]
<1>1. g \in [(Nat \ {0}) \X S -> S]
  <2>1. ASSUME NEW u \in S PROVE GrabNext(u, b) \in S
    <3>1. Core(u, n)
      BY DEF Reach
    <3> QED BY <3>1, GrabNextKeeps, ReachFurther
  <2> QED BY <2>1
<1>2. s \in S
  BY ReachSelf
<1> HIDE DEF S, g
<1>3. PICK h : Iterates(h, S, g, s)
  BY <1>1, <1>2, Iteration
<1>4. ASSUME NEW m \in Nat \ {0} PROVE h[m] = GrabNext(h[m - 1], b)
  <2>1. m - 1 \in Nat /\ (m - 1) + 1 = m
    OBVIOUS
  <2>2. h[m] = g[<<m, h[m - 1]>>]
    BY <1>3, <2>1 DEF Iterates
  <2>3. h[m - 1] \in S
    BY <1>3, <2>1 DEF Iterates
  <2> QED BY <2>2, <2>3 DEF g
<1>5. h = [m \in Nat |-> IF m = 0 THEN s ELSE GrabNext(h[m - 1], b)]
  BY <1>3, <1>4 DEF Iterates
<1>6. f = [m \in Nat |-> IF m = 0 THEN s ELSE GrabNext(f[m - 1], b)]
  BY <1>5
<1> DEFINE P == {m \in Nat : f[m] \in S /\ (~Pullable(f[m], b) \/ m <= Occupied(f[m], b))}
<1>7. 0 \in P
  <2>1. Occupied(s, b) \in Nat
    BY Occupies
  <2> QED BY <1>2, <1>6, <2>1
<1>8. ASSUME NEW m \in Nat, m \in P PROVE m + 1 \in P
  <2>1. (m + 1) - 1 = m /\ m + 1 # 0 /\ m + 1 \in Nat
    OBVIOUS
  <2>2. f[m + 1] = GrabNext(f[m], b)
    BY <1>6, <2>1
  <2>3. Core(f[m], n) /\ f[m] \in S /\ (~Pullable(f[m], b) \/ m <= Occupied(f[m], b))
    BY <1>8 DEF S, Reach
  <2>4. /\ Core(f[m + 1], n) /\ Worked(f[m], f[m + 1], n)
        /\ ~Pullable(f[m + 1], b) \/ Occupied(f[m], b) + 1 <= Occupied(f[m + 1], b)
    BY <2>2, <2>3, GrabNextKeeps
  <2>5. f[m + 1] \in S
    BY <2>3, <2>4, ReachFurther DEF S
  <2>6. ~Pullable(f[m + 1], b) \/ m + 1 <= Occupied(f[m + 1], b)
    <3>1. CASE ~Pullable(f[m], b)
      BY <2>3, <2>4, <3>1, StillFull
    <3>2. CASE m <= Occupied(f[m], b)
      <4>1. Occupied(f[m], b) \in Nat /\ Occupied(f[m + 1], b) \in Nat
        BY <2>3, <2>4, Occupies
      <4> QED BY <2>4, <3>2, <4>1
    <3> QED BY <2>3, <3>1, <3>2
  <2> QED BY <2>1, <2>5, <2>6
<1>9. Nat \subseteq P
  <2> HIDE DEF P
  <2> QED BY <1>7, <1>8, Induction
<1> QED BY <1>9 DEF S

\* pump leaves no slot free that could be filled.
LEMMA PumpKeeps ==
  ASSUME NEW n \in 0 .. NItems, NEW s, Core(s, n), NEW b \in Branches
  PROVE  LET t == Pump(s, b)
         IN  Core(t, n) /\ Worked(s, t, n) /\ ~Pullable(t, b)
<1> DEFINE f == CHOOSE d : d = [m \in Nat |-> IF m = 0 THEN s ELSE GrabNext(d[m - 1], b)]
           t == Pump(s, b)
<1>1. t = f[s.limit[b]]
  BY DEF Pump
<1> HIDE DEF f, t
<1>2. s.limit[b] \in Nat
  BY StateFields DEF Core
<1>3. /\ Core(t, n) /\ Worked(s, t, n)
      /\ ~Pullable(t, b) \/ s.limit[b] <= Occupied(t, b)
  BY <1>1, <1>2, PumpLoop DEF f, Reach
<1>4. Occupied(t, b) \in Nat /\ t.limit = s.limit
  BY <1>3, Occupies DEF Worked
<1>5. ~Pullable(t, b)
  BY <1>2, <1>3, <1>4 DEF Pullable, UnitHasFreeSlot
<1> QED BY <1>3, <1>5 DEF t

\* Branch by branch: what has been pumped stays full.
LEMMA PumpAllLoop ==
  ASSUME NEW n \in 0 .. NItems, NEW s, Core(s, n), NEW touched \in Seq(Branches),
         NEW f, f = CHOOSE d : d = [m \in 0 .. Len(touched) |->
                                       IF m = 0 THEN s ELSE Pump(d[m - 1], touched[m])]
  PROVE  \A m \in Nat : m <= Len(touched) =>
            f[m] \in Reach(s, n) /\ \A k \in 1 .. m : ~Pullable(f[m], touched[k])
<1> DEFINE S == Reach(s, n)
           L == Len(touched)
           g == [y \in (Nat \ {0}) \X S |-> IF y[1] <= L THEN Pump(y[2], touched[y[1]]) ELSE y[2]]
<1>1. L \in Nat /\ \A m \in Nat \ {0} : m <= L => touched[m] \in Branches
  OBVIOUS
<1>2. g \in [(Nat \ {0}) \X S -> S]
  <2>1. ASSUME NEW u \in S, NEW m \in Nat \ {0}, m <= L PROVE Pump(u, touched[m]) \in S
    <3>1. Core(u, n) /\ touched[m] \in Branches
      BY <1>1, <2>1 DEF Reach
    <3> QED BY <3>1, PumpKeeps, ReachFurther
  <2> HIDE DEF S, L
  <2> QED BY <2>1
<1>3. s \in S
  BY ReachSelf
<1> HIDE DEF S, L, g
<1>4. PICK h : Iterates(h, S, g, s)
  BY <1>2, <1>3, Iteration
<1> DEFINE r == [m \in 0 .. L |-> h[m]]
<1>5. ASSUME NEW m \in 1 .. L PROVE r[m] = Pump(r[m - 1], touched[m])
  <2>1. m - 1 \in Nat /\ (m - 1) + 1 = m /\ m \in Nat \ {0} /\ m <= L /\ m - 1 \in 0 .. L
        /\ m \in 0 .. L
    BY <1>1
  <2>2. h[m] = g[<<m, h[m - 1]>>]
    BY <1>4, <2>1 DEF Iterates
  <2>3. h[m - 1] \in S
    BY <1>4, <2>1 DEF Iterates
  <2>4. h[m] = Pump(h[m - 1], touched[m])
    BY <2>1, <2>2, <2>3 DEF g
  <2> QED BY <2>1, <2>4
<1>6. r[0] = s
  BY <1>1, <1>4 DEF Iterates
<1>7. r = [m \in 0 .. L |-> IF m = 0 THEN s ELSE Pump(r[m - 1], touched[m])]
  <2>1. \A m \in 0 .. L : m = 0 \/ m \in 1 .. L
    BY <1>1
  <2>2. r = [m \in 0 .. L |-> r[m]]
    OBVIOUS
  <2> HIDE DEF r
  <2> QED BY <1>5, <1>6, <2>1, <2>2
<1> HIDE DEF r
<1>8. f = [m \in 0 .. L |-> IF m = 0 THEN s ELSE Pump(f[m - 1], touched[m])]
  BY <1>7 DEF L
<1> DEFINE P == {m \in Nat : m <= L =>
                    f[m] \in S /\ \A k \in 1 .. m : ~Pullable(f[m], touched[k])}
<1>9. 0 \in P
  BY <1>1, <1>3, <1>8
<1>10. ASSUME NEW m \in Nat, m \in P PROVE m + 1 \in P
  <2> SUFFICES ASSUME m + 1 <= L
               PROVE  f[m + 1] \in S /\ \A k \in 1 .. m + 1 : ~Pullable(f[m + 1], touched[k])
    OBVIOUS
  <2>1. /\ (m + 1) - 1 = m /\ m + 1 # 0 /\ m + 1 \in 0 .. L /\ m <= L
        /\ touched[m + 1] \in Branches
        /\ \A k \in 1 .. m + 1 : k = m + 1 \/ (k \in 1 .. m /\ touched[k] \in Branches)
    BY <1>1
  <2>2. f[m + 1] = Pump(f[m], touched[m + 1])
    BY <1>8, <2>1
  <2>3. Core(f[m], n) /\ f[m] \in S /\ \A k \in 1 .. m : ~Pullable(f[m], touched[k])
    BY <1>10, <2>1 DEF S, Reach
  <2>4. /\ Core(f[m + 1], n) /\ Worked(f[m], f[m + 1], n)
        /\ ~Pullable(f[m + 1], touched[m + 1])
    BY <2>1, <2>2, <2>3, PumpKeeps
  <2>5. f[m + 1] \in S
    BY <2>3, <2>4, ReachFurther DEF S
  <2>6. \A k \in 1 .. m + 1 : ~Pullable(f[m + 1], touched[k])
    BY <2>1, <2>3, <2>4, StillFull
  <2> QED BY <2>5, <2>6
<1>11. Nat \subseteq P
  <2> HIDE DEF P
  <2> QED BY <1>9, <1>10, Induction
<1> QED BY <1>11 DEF S, L

\* In the end all of them are.
LEMMA PumpAllKeeps ==
  ASSUME NEW n \in 0 .. NItems, NEW s, Core(s, n), NEW touched \in Seq(Branches)
  PROVE  LET t == PumpAll(s, touched)
         IN  /\ Core(t, n) /\ Worked(s, t, n)
             /\ \A k \in 1 .. Len(touched) : ~Pullable(t, touched[k])
<1> DEFINE f == CHOOSE d : d = [m \in 0 .. Len(touched) |->
                                   IF m = 0 THEN s ELSE Pump(d[m - 1], touched[m])]
           t == PumpAll(s, touched)
<1>1. t = f[Len(touched)]
  BY DEF PumpAll
<1> HIDE DEF f, t
<1>2. Len(touched) \in Nat
  OBVIOUS
<1>3. t \in Reach(s, n) /\ \A k \in 1 .. Len(touched) : ~Pullable(t, touched[k])
  BY <1>1, <1>2, PumpAllLoop DEF f
<1> QED BY <1>3 DEF t, Reach

-----------------------------------------------------------------------------
(* A batch is queued *)

\* The branches a batch touches, as a list.
LEMMA SeqOfSet ==
  ASSUME NEW B, IsFiniteSet(B)
  PROVE  LET q == SetToSeq(B)
         IN  /\ q \in Seq(B) /\ \A b \in B : \E k \in 1 .. Len(q) : q[k] = b
             /\ \A k, l \in 1 .. Len(q) : q[k] = q[l] => k = l
<1> DEFINE c == Cardinality(B)
           q == SetToSeq(B)
<1>1. c \in Nat /\ ExistsBijection(1 .. c, B)
  BY FS_CardinalityType
<1>2. \E f \in [1 .. c -> B] : IsInjective(f)
  BY <1>1 DEF ExistsBijection, Bijection, Injection
<1>3. q \in [1 .. c -> B] /\ IsInjective(q)
  BY <1>2 DEF SetToSeq
<1> HIDE DEF q, c
<1>4. q \in Injection(1 .. c, B)
  BY <1>3 DEF Injection
<1>5. Cardinality(1 .. c) = Cardinality(B)
  BY <1>1, FS_Interval DEF c
<1>6. q \in Surjection(1 .. c, B)
  BY <1>4, <1>5, FS_Injection
<1>7. q \in Seq(B) /\ Len(q) = c
  BY <1>1, <1>3
<1>8. \A k, l \in 1 .. Len(q) : q[k] = q[l] => k = l
  BY <1>1, <1>3, <1>7 DEF IsInjective
<1> QED BY <1>6, <1>7, <1>8 DEF q, Surjection

\* Item i has its entering batch queued on b.
Enters(s, i, b) == \E k \in DOMAIN s.queue[b] : Entering(s, i, b, k)

\* On b the entering batch of i stands as before.
SameEntrance(s, u, i, b) ==
    (Enters(u, i, b) <=> Enters(s, i, b)) /\ (Waits(u, i, b) <=> Waits(s, i, b))

\* What a state u has of s while the batch of i is queued on the branches B.
Queueing(s, u, n, i, e, B) ==
    /\ u \in States(n) /\ u.running = s.running /\ u.limit = s.limit
    /\ u.stopping = s.stopping
    /\ \A j \in 1 .. n : j # i => u.item[j] = s.item[j]
    /\ u.item[i] = [s.item[i] EXCEPT !.unexhausted = u.item[i].unexhausted]
    /\ \A j \in 1 .. n : /\ IsFiniteSet(QueuedOf(u.queue, j))
                         /\ u.item[j].unexhausted = Cardinality(QueuedOf(u.queue, j))
    /\ Sorted(u)
    /\ \A b \in Branches \ B : u.queue[b] = s.queue[b]
    /\ \A b \in Branches : \A k \in DOMAIN u.queue[b] :
          \/ u.queue[b][k].item = i
          \/ \E l \in DOMAIN s.queue[b] : s.queue[b][l].item = u.queue[b][k].item
    /\ \A b \in Branches, j \in 1 .. n : j # i \/ ~e => SameEntrance(s, u, j, b)
    /\ e => \A b \in Branches : /\ Enters(u, i, b) <=> b \in B
                                /\ Waits(u, i, b) <=> b \in B
    /\ Single(u)

\* The collection that is queued on b.
Part(i, batch, e, b) == [item |-> i, left |-> batch[b], entering |-> e, begun |-> FALSE]

\* The state with one collection more.
LEMMA InsertFields ==
  ASSUME NEW n \in 0 .. NItems, NEW u \in States(n), NEW b \in Branches, NEW i \in 1 .. n,
         NEW col \in Collections, col.item = i
  PROVE  LET t == InsertCollection(u, b, col)
         IN  /\ t \in States(n) /\ t.running = u.running /\ t.limit = u.limit
             /\ t.stopping = u.stopping
             /\ \A j \in 1 .. n : j # i => t.item[j] = u.item[j]
             /\ t.item[i] = [u.item[i] EXCEPT !.unexhausted = u.item[i].unexhausted + 1]
             /\ \A c \in Branches : c # b => t.queue[c] = u.queue[c]
             /\ t.queue[b] = InsertAt(u.queue[b], Place(u.queue[b], i), col)
             /\ Place(u.queue[b], i) \in 1 .. Len(u.queue[b]) + 1
<1> DEFINE q == u.queue[b]
           p == Place(q, i)
           x == [u.item[i] EXCEPT !.unexhausted = u.item[i].unexhausted + 1]
           f == [u.item EXCEPT ![i] = x]
           r == [u.queue EXCEPT ![b] = InsertAt(q, p, col)]
           t == InsertCollection(u, b, col)
<1>1. /\ q \in Seq(Collections) /\ u.item \in [1 .. n -> ItemRecords]
      /\ u.queue \in [Branches -> Seq(Collections)]
  BY StateFields DEF Queues
<1>2. p \in 1 .. Len(q) + 1
  BY <1>1, PlaceRange
<1>3. InsertAt(q, p, col) \in Seq(Collections)
  BY <1>1, <1>2, InsertedQueue
<1>4. t = [u EXCEPT !.queue = r, !.item = f]
  BY <1>1 DEF InsertCollection, Place, States
<1> HIDE DEF q, p
<1>5. x \in ItemRecords
  <2>1. u.item[i] \in ItemRecords
    BY <1>1
  <2> DEFINE y == u.item[i]
             m == y.unexhausted + 1
  <2>2. m \in Int /\ x = [y EXCEPT !.unexhausted = m]
    BY <2>1 DEF ItemRecords
  <2> HIDE DEF y, m, x
  <2> QED BY <2>1, <2>2, Zenon DEF ItemRecords, y
<1> HIDE DEF x
<1>6. f \in [1 .. n -> ItemRecords] /\ f[i] = x /\ \A j \in 1 .. n : j # i => f[j] = u.item[j]
  BY <1>1, <1>5
<1>7. /\ r \in Queues /\ r[b] = InsertAt(q, p, col)
      /\ \A c \in Branches : c # b => r[c] = u.queue[c]
  BY <1>1, <1>3 DEF Queues
<1> HIDE DEF r, f, t
<1>8. t \in States(n)
  BY <1>4, <1>6, <1>7, Zenon DEF States
<1>9. /\ t.running = u.running /\ t.limit = u.limit /\ t.stopping = u.stopping
      /\ t.item = f /\ t.queue = r
  BY <1>4 DEF States
<1> QED BY <1>2, <1>6, <1>7, <1>8, <1>9 DEF x, t, p, q

\* A collection more in a queue is one more of its item.
LEMMA InsertCounts ==
  ASSUME NEW q \in Queues, NEW r \in Queues, NEW b \in Branches, NEW p \in 1 .. Len(q[b]) + 1,
         NEW col \in Collections, r[b] = InsertAt(q[b], p, col),
         \A c \in Branches : c # b => r[c] = q[c], NEW j \in Items,
         IsFiniteSet(QueuedOf(q, j))
  PROVE  /\ IsFiniteSet(QueuedOf(r, j))
         /\ Cardinality(QueuedOf(r, j)) =
                Cardinality(QueuedOf(q, j)) + (IF col.item = j THEN 1 ELSE 0)
<1>1. /\ q[b] \in Seq(Collections) /\ DOMAIN q[b] = 1 .. Len(q[b]) /\ Len(q[b]) \in Nat
      /\ r[b] \in Seq(Collections) /\ DOMAIN r[b] = 1 .. Len(r[b])
  <2>1. q[b] \in Seq(Collections) /\ r[b] \in Seq(Collections)
    BY DEF Queues
  <2> QED BY <2>1
<1>2. /\ Len(r[b]) = Len(q[b]) + 1 /\ r[b][p] = col
      /\ \A k \in 1 .. Len(q[b]) + 1 :
            r[b][k] = IF k < p THEN q[b][k] ELSE IF k = p THEN col ELSE q[b][k - 1]
  <2> DEFINE w == q[b]
             v == InsertAt(w, p, col)
  <2>1. w \in Seq(Collections) /\ p \in 1 .. Len(w) + 1 /\ r[b] = v
    BY <1>1
  <2> HIDE DEF w
  <2>2. /\ Len(v) = Len(w) + 1 /\ v[p] = col
        /\ \A k \in 1 .. Len(w) + 1 :
              v[k] = IF k < p THEN w[k] ELSE IF k = p THEN col ELSE w[k - 1]
    BY <2>1, InsertedQueue
  <2> HIDE DEF v
  <2> QED BY <2>1, <2>2 DEF w
<1>3. p \in DOMAIN r[b] /\ Len(q[b]) = Len(r[b]) - 1
  BY <1>1, <1>2
<1>4. \A k \in DOMAIN q[b] : q[b][k].item = IF k < p THEN r[b][k].item ELSE r[b][k + 1].item
  <2> TAKE k \in DOMAIN q[b]
  <2>1. CASE k < p
    <3>1. k \in 1 .. Len(q[b]) + 1
      BY <1>1
    <3> QED BY <1>2, <2>1, <3>1
  <2>2. CASE ~(k < p)
    <3>1. k + 1 \in 1 .. Len(q[b]) + 1 /\ ~(k + 1 < p) /\ k + 1 # p /\ (k + 1) - 1 = k
      BY <1>1, <2>2
    <3>2. r[b][k + 1] = q[b][k]
      BY <1>2, <3>1
    <3> QED BY <2>2, <3>2
  <2> QED BY <2>1, <2>2
<1>5. \A c \in Branches \ {b} : q[c] = r[c]
  OBVIOUS
<1>6. /\ IsFiniteSet(QueuedOf(r, j)) <=> IsFiniteSet(QueuedOf(q, j))
      /\ IsFiniteSet(QueuedOf(r, j)) =>
            Cardinality(QueuedOf(r, j)) =
                Cardinality(QueuedOf(q, j)) + (IF r[b][p].item = j THEN 1 ELSE 0)
  BY <1>3, <1>4, <1>5, CountWithout
<1> QED BY <1>2, <1>6

\* Queueing goes on with one branch more.
LEMMA InsertKeeps ==
  ASSUME NEW n \in 0 .. NItems, NEW s, Core(s, n), NEW i \in 1 .. n, NEW batch \in Batches,
         NEW e \in BOOLEAN, NEW B \in SUBSET Branches, NEW u, Queueing(s, u, n, i, e, B),
         NEW b \in Branches, batch[b] > 0, e => b \notin B
  PROVE  Queueing(s, InsertCollection(u, b, Part(i, batch, e, b)), n, i, e, B \union {b})
<1> DEFINE col == Part(i, batch, e, b)
           q == u.queue[b]
           p == Place(q, i)
           t == InsertCollection(u, b, col)
<1>1. /\ u \in States(n) /\ i \in Items /\ 1 .. n \subseteq Items /\ u.queue \in Queues
      /\ q \in Seq(Collections) /\ DOMAIN q = 1 .. Len(q) /\ Len(q) \in Nat
      /\ \A c \in Branches : \A k \in DOMAIN u.queue[c] : u.queue[c][k].item \in Items
  BY StateFields DEF Queueing
<1>2. col \in Collections /\ col.item = i /\ col.entering = e
  BY <1>1, TasksNat DEF Part, Collections, Batches
<1>16. ~col.begun
  BY DEF Part
<1> HIDE DEF col, t
<1>3. /\ t \in States(n) /\ t.running = u.running /\ t.limit = u.limit
      /\ t.stopping = u.stopping
      /\ \A j \in 1 .. n : j # i => t.item[j] = u.item[j]
      /\ t.item[i] = [u.item[i] EXCEPT !.unexhausted = u.item[i].unexhausted + 1]
      /\ \A c \in Branches : c # b => t.queue[c] = u.queue[c]
      /\ t.queue[b] = InsertAt(q, p, col) /\ p \in 1 .. Len(q) + 1
  BY <1>1, <1>2, InsertFields DEF t
<1>4. /\ t.queue \in Queues /\ t.queue[b] \in Seq(Collections)
      /\ DOMAIN t.queue[b] = 1 .. Len(t.queue[b])
  BY <1>3, StateFields
<1> HIDE DEF p
<1>5. /\ Len(t.queue[b]) = Len(q) + 1 /\ t.queue[b][p] = col
      /\ \A k \in 1 .. Len(q) + 1 :
            t.queue[b][k] = IF k < p THEN q[k] ELSE IF k = p THEN col ELSE q[k - 1]
  <2> DEFINE v == InsertAt(q, p, col)
  <2>1. /\ Len(v) = Len(q) + 1 /\ v[p] = col
        /\ \A k \in 1 .. Len(q) + 1 :
              v[k] = IF k < p THEN q[k] ELSE IF k = p THEN col ELSE q[k - 1]
    <3>1. q \in Seq(Collections) /\ p \in 1 .. Len(q) + 1 /\ col \in Collections
      BY <1>1, <1>2, <1>3
    <3> HIDE DEF q
    <3> QED BY <3>1, InsertedQueue
  <2> HIDE DEF v, q
  <2> QED BY <1>3, <2>1 DEF v
\* Where the places of the queue come from, and where they go.
<1>6. \A k \in DOMAIN t.queue[b] :
         \/ k < p /\ k \in DOMAIN q /\ t.queue[b][k] = q[k]
         \/ k = p /\ t.queue[b][k] = col
         \/ k > p /\ k - 1 \in DOMAIN q /\ k - 1 >= p /\ t.queue[b][k] = q[k - 1]
  <2> HIDE DEF q
  <2> QED BY <1>1, <1>3, <1>4, <1>5
<1>7. \A k \in DOMAIN q : \E l \in DOMAIN t.queue[b] : t.queue[b][l] = q[k]
  <2> TAKE k \in DOMAIN q
  <2>1. CASE k < p
    <3>1. k \in DOMAIN t.queue[b] /\ t.queue[b][k] = q[k]
      <4> HIDE DEF q
      <4> QED BY <1>1, <1>4, <1>5, <2>1
    <3> QED BY <3>1
  <2>2. CASE ~(k < p)
    <3>1. k + 1 \in DOMAIN t.queue[b] /\ k + 1 \in 1 .. Len(q) + 1 /\ ~(k + 1 < p) /\ k + 1 # p
          /\ (k + 1) - 1 = k
      <4> HIDE DEF q
      <4> QED BY <1>1, <1>3, <1>4, <1>5, <2>2
    <3>2. t.queue[b][k + 1] = q[k]
      <4> HIDE DEF q
      <4> QED BY <1>5, <3>1
    <3> QED BY <3>1, <3>2
  <2> QED BY <2>1, <2>2
<1>8. t.item[i] = [s.item[i] EXCEPT !.unexhausted = t.item[i].unexhausted]
  <2>1. s.item[i] \in ItemRecords
    BY StateFields DEF Core
  <2>2. u.item[i] = [s.item[i] EXCEPT !.unexhausted = u.item[i].unexhausted]
    BY DEF Queueing
  <2> QED BY <1>3, <2>1, <2>2 DEF ItemRecords
<1>9. ASSUME NEW j \in 1 .. n
      PROVE  /\ IsFiniteSet(QueuedOf(t.queue, j))
             /\ t.item[j].unexhausted = Cardinality(QueuedOf(t.queue, j))
  <2>1. /\ IsFiniteSet(QueuedOf(u.queue, j))
        /\ u.item[j].unexhausted = Cardinality(QueuedOf(u.queue, j))
    BY DEF Queueing
  <2>2. /\ IsFiniteSet(QueuedOf(t.queue, j))
        /\ Cardinality(QueuedOf(t.queue, j)) =
               Cardinality(QueuedOf(u.queue, j)) + (IF col.item = j THEN 1 ELSE 0)
    BY <1>1, <1>2, <1>3, <1>4, <2>1, InsertCounts
  <2>3. Cardinality(QueuedOf(u.queue, j)) \in Nat
    BY <2>1, FS_CardinalityType
  <2>4. t.item[i].unexhausted = u.item[i].unexhausted + 1
    <3>1. u.item[i] \in ItemRecords
      BY <1>1, StateFields
    <3> QED BY <1>3, <3>1 DEF ItemRecords
  <2>5. CASE j = i
    BY <1>2, <2>1, <2>2, <2>4, <2>5
  <2>6. CASE j # i
    BY <1>2, <1>3, <2>1, <2>2, <2>3, <2>6
  <2> QED BY <2>5, <2>6
<1>10. Sorted(t)
  <2>1. \A c \in Branches : c # b => ByAge(t.queue[c])
    BY <1>3 DEF Queueing, Sorted
  <2>2. ByAge(t.queue[b])
    <3>1. ByAge(q)
      BY DEF Queueing, Sorted
    <3>2. \A k \in DOMAIN q : k < p <=> q[k].item <= i
      <4> HIDE DEF q
      <4> QED BY <1>1, <3>1, PlaceInQueue DEF p
    <3>3. \A k \in DOMAIN q : q[k].item \in Int /\ k \in Int
      BY <1>1, NItemsNat DEF Items
    <3>4. i \in Int /\ p \in Int
      BY <1>1, <1>3, NItemsNat DEF Items
    <3> SUFFICES ASSUME NEW k \in DOMAIN t.queue[b], NEW l \in DOMAIN t.queue[b], k < l
                 PROVE  t.queue[b][k].item <= t.queue[b][l].item
      BY DEF ByAge
    <3>5. k \in Int /\ l \in Int
      BY <1>4
    <3> HIDE DEF q
    <3>6. CASE l < p
      BY <1>6, <3>1, <3>4, <3>5, <3>6 DEF ByAge
    <3>7. CASE l = p
      <4>1. k < p
        BY <3>7
      <4>2. k \in DOMAIN q /\ t.queue[b][k] = q[k]
        BY <1>6, <3>4, <3>5, <4>1
      <4>3. t.queue[b][l].item = i
        BY <1>5, <1>2, <3>7
      <4> QED BY <3>2, <4>1, <4>2, <4>3
    <3>8. CASE l > p
      <4>1. l - 1 \in DOMAIN q /\ l - 1 >= p /\ t.queue[b][l] = q[l - 1]
        BY <1>6, <3>4, <3>5, <3>8
      <4>2. ~(q[l - 1].item <= i)
        <5>1. ~(l - 1 < p)
          BY <3>4, <3>5, <4>1
        <5> QED BY <3>2, <4>1, <5>1
      <4>3. CASE k < p
        <5>1. k \in DOMAIN q /\ t.queue[b][k] = q[k]
          BY <1>6, <3>4, <3>5, <4>3
        <5>2. q[k].item <= i
          BY <3>2, <4>3, <5>1
        <5> QED BY <3>3, <3>4, <4>1, <4>2, <5>1, <5>2
      <4>4. CASE k = p
        <5>1. t.queue[b][k].item = i
          BY <1>2, <1>5, <4>4
        <5> QED BY <3>3, <3>4, <4>1, <4>2, <5>1
      <4>5. CASE k > p
        <5>1. k - 1 \in DOMAIN q /\ t.queue[b][k] = q[k - 1] /\ k - 1 < l - 1
          BY <1>6, <3>4, <3>5, <4>5
        <5> QED BY <3>1, <4>1, <5>1 DEF ByAge
      <4> QED BY <3>4, <3>5, <4>3, <4>4, <4>5
    <3> QED BY <3>4, <3>5, <3>6, <3>7, <3>8
  <2> QED BY <2>1, <2>2 DEF Sorted
<1>11. ASSUME NEW c \in Branches, NEW k \in DOMAIN t.queue[c]
       PROVE  \/ t.queue[c][k].item = i
              \/ \E l \in DOMAIN s.queue[c] : s.queue[c][l].item = t.queue[c][k].item
  <2>1. \A l \in DOMAIN u.queue[c] :
           \/ u.queue[c][l].item = i
           \/ \E m \in DOMAIN s.queue[c] : s.queue[c][m].item = u.queue[c][l].item
    BY DEF Queueing
  <2>2. CASE c # b
    BY <1>3, <2>1, <2>2
  <2>3. CASE c = b
    <3>1. t.queue[b][k] = col \/ \E l \in DOMAIN q : t.queue[b][k] = q[l]
      BY <1>6, <2>3
    <3> QED BY <1>2, <2>1, <2>3, <3>1
  <2> QED BY <2>2, <2>3
<1>12. \A c \in Branches, j \in 1 .. n : c # b => SameEntrance(u, t, j, c)
  BY <1>3 DEF SameEntrance, Enters, Waits, Entering
<1>13. \A j \in 1 .. n : /\ Enters(t, j, b) <=> Enters(u, j, b) \/ (j = i /\ e)
                         /\ Waits(t, j, b) <=> Waits(u, j, b) \/ (j = i /\ e)
  <2>1. p \in DOMAIN t.queue[b]
    <3> HIDE DEF q
    <3> QED BY <1>1, <1>3, <1>4, <1>5
  <2>2. t.queue[b][p] = col
    BY <1>5
  <2>3. \A k \in DOMAIN t.queue[b] :
           t.queue[b][k] = col \/ \E l \in DOMAIN u.queue[b] : t.queue[b][k] = u.queue[b][l]
    BY <1>6
  <2>4. \A k \in DOMAIN u.queue[b] : \E l \in DOMAIN t.queue[b] : t.queue[b][l] = u.queue[b][k]
    BY <1>7
  <2> HIDE DEF q
  <2> QED BY <1>2, <1>16, <2>1, <2>2, <2>3, <2>4 DEF Enters, Waits, Entering
<1>14. Single(t)
  <2> SUFFICES ASSUME NEW c \in Branches, NEW k \in DOMAIN t.queue[c], NEW l \in DOMAIN t.queue[c],
                      t.queue[c][k].item = t.queue[c][l].item,
                      t.queue[c][k].entering, t.queue[c][l].entering
               PROVE  k = l
    BY DEF Single, Entering
  <2>1. \A d \in Branches : \A x, y \in DOMAIN u.queue[d] :
           u.queue[d][x].item = u.queue[d][y].item /\ u.queue[d][x].entering
              /\ u.queue[d][y].entering => x = y
    BY DEF Queueing, Single, Entering
  <2>2. CASE c # b
    BY <1>3, <2>1, <2>2
  <2>3. CASE c = b
    <3>1. e => \A x \in DOMAIN q : ~(q[x].item = i /\ q[x].entering)
      BY DEF Queueing, Enters, Entering
    <3>2. \A x, y \in DOMAIN q : q[x].item = q[y].item /\ q[x].entering /\ q[y].entering => x = y
      BY <2>1
    <3>3. k \in Int /\ l \in Int /\ p \in Int
      <4> HIDE DEF q
      <4> QED BY <1>1, <1>3, <1>4, <2>3
    <3> HIDE DEF q
    <3>4. \/ k < p /\ k \in DOMAIN q /\ t.queue[b][k] = q[k]
          \/ k = p /\ t.queue[b][k] = col
          \/ k > p /\ k - 1 \in DOMAIN q /\ k - 1 >= p /\ t.queue[b][k] = q[k - 1]
      BY <1>6, <2>3
    <3>5. \/ l < p /\ l \in DOMAIN q /\ t.queue[b][l] = q[l]
          \/ l = p /\ t.queue[b][l] = col
          \/ l > p /\ l - 1 \in DOMAIN q /\ l - 1 >= p /\ t.queue[b][l] = q[l - 1]
      BY <1>6, <2>3
    <3>6. ASSUME k # p /\ l = p PROVE FALSE
      <4>1. t.queue[b][l] = col /\ \E x \in DOMAIN q : t.queue[b][k] = q[x]
        BY <3>3, <3>4, <3>5, <3>6
      <4>2. e /\ t.queue[b][k].item = i /\ t.queue[b][k].entering
        BY <1>2, <2>3, <4>1
      <4> QED BY <3>1, <4>1, <4>2
    <3>7. ASSUME k = p /\ l # p PROVE FALSE
      <4>1. t.queue[b][k] = col /\ \E x \in DOMAIN q : t.queue[b][l] = q[x]
        BY <3>3, <3>4, <3>5, <3>7
      <4>2. e /\ t.queue[b][l].item = i /\ t.queue[b][l].entering
        BY <1>2, <2>3, <4>1
      <4> QED BY <3>1, <4>1, <4>2
    <3>8. k # p /\ l # p => k = l
      BY <2>3, <3>2, <3>3, <3>4, <3>5
    <3> QED BY <3>6, <3>7, <3>8
  <2> QED BY <2>2, <2>3
<1>15. Queueing(s, t, n, i, e, B \union {b})
  <2>1. /\ t \in States(n) /\ t.running = s.running /\ t.limit = s.limit
        /\ t.stopping = s.stopping
        /\ \A j \in 1 .. n : j # i => t.item[j] = s.item[j]
    BY <1>3 DEF Queueing
  <2>2. \A c \in Branches \ (B \union {b}) : t.queue[c] = s.queue[c]
    BY <1>3 DEF Queueing
  <2>3. \A c \in Branches, j \in 1 .. n : j # i \/ ~e => SameEntrance(s, t, j, c)
    <3>1. \A c \in Branches, j \in 1 .. n : j # i \/ ~e => SameEntrance(s, u, j, c)
      BY DEF Queueing
    <3> QED BY <1>12, <1>13, <3>1 DEF SameEntrance
  <2>4. e => \A c \in Branches : /\ Enters(t, i, c) <=> c \in B \union {b}
                                 /\ Waits(t, i, c) <=> c \in B \union {b}
    <3>1. e => \A c \in Branches : /\ Enters(u, i, c) <=> c \in B
                                   /\ Waits(u, i, c) <=> c \in B
      BY DEF Queueing
    <3> QED BY <1>12, <1>13, <3>1 DEF SameEntrance
  <2>5. \A c \in Branches : \A k \in DOMAIN t.queue[c] :
           \/ t.queue[c][k].item = i
           \/ \E l \in DOMAIN s.queue[c] : s.queue[c][l].item = t.queue[c][k].item
    BY <1>11
  <2> QED BY <1>8, <1>9, <1>10, <1>14, <2>1, <2>2, <2>3, <2>4, <2>5 DEF Queueing
<1> QED BY <1>15 DEF t, col

\* No branch is listed twice.
Distinct(touched) == \A k, l \in 1 .. Len(touched) : touched[k] = touched[l] => k = l

\* Item i has no entering batch queued.
Fresh(s, i) == \A b \in Branches : ~Enters(s, i, b)

\* The first m branches of a list.
Firsts(touched, m) == {touched[k] : k \in 1 .. m}

\* Queueing, after the first m branches.
LEMMA InsertLoop ==
  ASSUME NEW n \in 0 .. NItems, NEW s, Core(s, n), NEW i \in 1 .. n, NEW batch \in Batches,
         NEW e \in BOOLEAN, NEW touched \in Seq(Branches),
         \A k \in 1 .. Len(touched) : batch[touched[k]] > 0,
         Distinct(touched), e => Fresh(s, i),
         NEW f, f = CHOOSE d : d = [m \in 0 .. Len(touched) |->
                       IF m = 0 THEN s
                       ELSE InsertCollection(d[m - 1], touched[m],
                                [item |-> i, left |-> batch[touched[m]], entering |-> e,
                                 begun |-> FALSE])]
  PROVE  \A m \in Nat : m <= Len(touched) =>
            Queueing(s, f[m], n, i, e, Firsts(touched, m))
<1> DEFINE S == States(n)
           L == Len(touched)
           In(u, b) == InsertCollection(u, b, Part(i, batch, e, b))
           g == [y \in (Nat \ {0}) \X S |-> IF y[1] <= L THEN In(y[2], touched[y[1]]) ELSE y[2]]
<1>1. /\ L \in Nat
      /\ \A m \in Nat \ {0} : m <= L => touched[m] \in Branches /\ batch[touched[m]] > 0
  OBVIOUS
<1>2. g \in [(Nat \ {0}) \X S -> S]
  <2>1. ASSUME NEW u \in S, NEW m \in Nat \ {0}, m <= L PROVE In(u, touched[m]) \in S
    <3> DEFINE b == touched[m]
               col == Part(i, batch, e, b)
    <3>1. b \in Branches /\ batch[b] > 0
      BY <1>1, <2>1
    <3> HIDE DEF b
    <3>2. col \in Collections /\ col.item = i
      <4>1. i \in Items
        BY StateFields DEF Core
      <4> QED BY <3>1, <4>1, TasksNat DEF Part, Collections, Batches
    <3> HIDE DEF col
    <3>3. InsertCollection(u, b, col) \in States(n)
      BY <3>1, <3>2, InsertFields
    <3> QED BY <3>3 DEF b, col
  <2> HIDE DEF S, L, In
  <2> QED BY <2>1
<1>3. s \in S
  BY DEF Core
<1> HIDE DEF S, L, g
<1>4. PICK h : Iterates(h, S, g, s)
  BY <1>2, <1>3, Iteration
<1> DEFINE r == [m \in 0 .. L |-> h[m]]
<1>5. ASSUME NEW m \in 1 .. L PROVE r[m] = In(r[m - 1], touched[m])
  <2> HIDE DEF In
  <2>1. m - 1 \in Nat /\ (m - 1) + 1 = m /\ m \in Nat \ {0} /\ m <= L /\ m - 1 \in 0 .. L
        /\ m \in 0 .. L
    BY <1>1
  <2>2. h[m] = g[<<m, h[m - 1]>>]
    BY <1>4, <2>1 DEF Iterates
  <2>3. h[m - 1] \in S
    BY <1>4, <2>1 DEF Iterates
  <2>4. h[m] = In(h[m - 1], touched[m])
    BY <2>1, <2>2, <2>3 DEF g
  <2> QED BY <2>1, <2>4
<1>6. r[0] = s
  BY <1>1, <1>4 DEF Iterates
<1>7. r = [m \in 0 .. L |-> IF m = 0 THEN s ELSE In(r[m - 1], touched[m])]
  <2>1. \A m \in 0 .. L : m = 0 \/ m \in 1 .. L
    BY <1>1
  <2>2. r = [m \in 0 .. L |-> r[m]]
    OBVIOUS
  <2> HIDE DEF r, In
  <2> QED BY <1>5, <1>6, <2>1, <2>2
<1> HIDE DEF r
<1>8. f = [m \in 0 .. L |-> IF m = 0 THEN s ELSE In(f[m - 1], touched[m])]
  BY <1>7 DEF L, Part
<1> HIDE DEF In
<1> DEFINE B(m) == {touched[k] : k \in 1 .. m}
           P == {m \in Nat : m <= L => Queueing(s, f[m], n, i, e, B(m))}
<1>9. 0 \in P
  <2>1. f[0] = s
    <3>1. 0 \in 0 .. L
      BY <1>1
    <3> QED BY <1>8, <3>1
  <2>2. B(0) = {}
    OBVIOUS
  <2>3. Queueing(s, s, n, i, e, {})
    <3>1. s.item[i] = [s.item[i] EXCEPT !.unexhausted = s.item[i].unexhausted]
      <4>1. s.item[i] \in ItemRecords
        BY StateFields DEF Core
      <4> QED BY <4>1 DEF ItemRecords
    <3>2. Single(s) /\ \A b \in Branches, j \in 1 .. n : Waits(s, j, b) => Enters(s, j, b)
      BY DEF Core, Holding, Waits, Enters
    <3> QED BY <3>1, <3>2 DEF Queueing, Core, Counted, SameEntrance, Fresh
  <2> QED BY <2>1, <2>2, <2>3
<1>10. ASSUME NEW m \in Nat, m \in P PROVE m + 1 \in P
  <2> SUFFICES ASSUME m + 1 <= L PROVE Queueing(s, f[m + 1], n, i, e, B(m + 1))
    OBVIOUS
  <2>1. /\ (m + 1) - 1 = m /\ m + 1 # 0 /\ m + 1 \in 0 .. L /\ m <= L /\ m + 1 \in Nat \ {0}
        /\ touched[m + 1] \in Branches /\ batch[touched[m + 1]] > 0
        /\ \A k \in 1 .. m : touched[k] \in Branches
    BY <1>1
  <2>2. f[m + 1] = In(f[m], touched[m + 1])
    BY <1>8, <2>1
  <2>3. Queueing(s, f[m], n, i, e, B(m)) /\ B(m) \in SUBSET Branches
    BY <1>10, <2>1
  <2>4. B(m + 1) = B(m) \union {touched[m + 1]}
    <3>1. 1 .. m + 1 = (1 .. m) \union {m + 1}
      OBVIOUS
    <3> QED BY <3>1
  <2> HIDE DEF B
  <2> DEFINE b == touched[m + 1]
             u == f[m]
             C == B(m)
  <2>5. /\ b \in Branches /\ batch[b] > 0 /\ Queueing(s, u, n, i, e, C)
        /\ C \in SUBSET Branches /\ b \notin C
    <3>1. \A k \in 1 .. m : k \in 1 .. L /\ k # m + 1 /\ m + 1 \in 1 .. L
      BY <1>1, <2>1
    <3>2. \A k \in 1 .. m : touched[k] # touched[m + 1]
      BY <3>1 DEF L, Distinct
    <3> QED BY <2>1, <2>3, <3>2 DEF B
  <2> HIDE DEF b, u, C
  <2>6. Queueing(s, In(u, b), n, i, e, C \union {b})
    BY <2>5, InsertKeeps DEF In
  <2> QED BY <2>2, <2>4, <2>6 DEF b, u, C
<1>11. Nat \subseteq P
  <2> HIDE DEF P
  <2> QED BY <1>9, <1>10, Induction
<1> QED BY <1>11 DEF L, Firsts

\* Queueing, when it is done.
LEMMA InsertAllKeeps ==
  ASSUME NEW n \in 0 .. NItems, NEW s, Core(s, n), NEW i \in 1 .. n, NEW batch \in Batches,
         NEW e \in BOOLEAN, NEW touched \in Seq(Branches),
         \A k \in 1 .. Len(touched) : batch[touched[k]] > 0,
         Distinct(touched), e => Fresh(s, i)
  PROVE  Queueing(s, InsertAll(s, i, batch, e, touched), n, i, e, Firsts(touched, Len(touched)))
<1> DEFINE f == CHOOSE d : d = [m \in 0 .. Len(touched) |->
                     IF m = 0 THEN s
                     ELSE InsertCollection(d[m - 1], touched[m],
                              [item |-> i, left |-> batch[touched[m]], entering |-> e,
                                 begun |-> FALSE])]
           t == InsertAll(s, i, batch, e, touched)
<1>1. t = f[Len(touched)]
  BY DEF InsertAll
<1> HIDE DEF f, t
<1>2. Len(touched) \in Nat
  OBVIOUS
<1>3. f = CHOOSE d : d = [m \in 0 .. Len(touched) |->
                     IF m = 0 THEN s
                     ELSE InsertCollection(d[m - 1], touched[m],
                              [item |-> i, left |-> batch[touched[m]], entering |-> e,
                                 begun |-> FALSE])]
  BY DEF f
<1>4. \A m \in Nat : m <= Len(touched) => Queueing(s, f[m], n, i, e, Firsts(touched, m))
  BY <1>3, InsertLoop, Zenon
<1> QED BY <1>1, <1>2, <1>4 DEF t

\* The item of a batch, as its door opens.
OpenedRecord(r, root) == [r EXCEPT !.root = @ \/ root, !.published = Max({@, NodeRank})]

\* The hold of an item, of whose body the first root submission may just be made.
HeldOnce(it, root) ==
    /\ it.body = "none" => it.held = "buffered"
    /\ it.begun => it.root
    /\ it.token # "none" => it.held # "buffered" /\ ~it.begun /\ (it.root \/ it.body = "open")
    /\ it.body = "open" /\ ~it.root /\ ~root /\ ~it.finished /\ it.held # "buffered" =>
          it.token # "none"

\* A published rank opens the door, a root submission is remembered.
LEMMA OpenedFits ==
  ASSUME NEW r \in ItemRecords, Fit(r), NEW root \in BOOLEAN, HeldOnce(r, root),
         root => r.body = "open", ~root => r.published >= NodeRank, NEW x,
         x = OpenedRecord(r, root)
  PROVE  /\ x \in ItemRecords /\ Fit(x) /\ Held(x)
         /\ x.reached = r.reached /\ x.canceled = r.canceled /\ x.returned = r.returned
         /\ x.finished = r.finished /\ x.failed = r.failed /\ x.proc = r.proc
         /\ x.body = r.body /\ x.joined = r.joined /\ x.retains = r.retains
         /\ x.held = r.held /\ x.submits = r.submits /\ SameGroup(r, x)
         /\ x.root = (r.root \/ root) /\ x.published >= NodeRank /\ x.published >= r.published
         /\ ~root => x.published = r.published
         /\ x.token = r.token /\ x.awaiting = r.awaiting /\ x.dormant = r.dormant
         /\ x.begun = r.begun
<1> DEFINE a == r.root \/ root
           p == Max({r.published, NodeRank})
           y == [r EXCEPT !.root = a, !.published = p]
<1>1. /\ p = (IF r.published >= NodeRank THEN r.published ELSE NodeRank)
      /\ r.published \in Int /\ r.reached \in Int
  <2>1. r.published \in Int /\ r.reached \in Int
    BY DEF ItemRecords
  <2> QED BY <2>1, MaxOfTwo DEF NodeRank
<1>2. a \in BOOLEAN /\ p \in Int
  BY <1>1 DEF ItemRecords, NodeRank
<1>3. x = y
  BY DEF OpenedRecord
<1> HIDE DEF a, p
<1>4. y \in ItemRecords
  BY <1>2, Zenon DEF ItemRecords
<1>5. /\ y.reached = r.reached /\ y.canceled = r.canceled /\ y.returned = r.returned
      /\ y.finished = r.finished /\ y.failed = r.failed /\ y.proc = r.proc
      /\ y.body = r.body /\ y.joined = r.joined /\ y.retains = r.retains
      /\ y.held = r.held /\ y.submits = r.submits /\ SameGroup(r, y)
      /\ y.root = a /\ y.published = p
      /\ y.token = r.token /\ y.awaiting = r.awaiting /\ y.dormant = r.dormant
      /\ y.slots = r.slots /\ y.queuedAt = r.queuedAt
      /\ y.begun = r.begun /\ y.broke = r.broke
  BY DEF ItemRecords, SameGroup
<1> HIDE DEF y
<1>6. Placed(y)
  <2>1. r.body = "open" => r.reached >= NodeRank
    BY <1>1 DEF Fit, Placed, NodeRank, GateRank, RoomRank, BeyondRank
  <2>2. p >= NodeRank /\ p <= r.reached /\ p >= GateRank
    BY <1>1, <2>1 DEF Fit, Placed, NodeRank, GateRank
  <2>3. a => y.body # "none"
    BY <1>5 DEF a, Fit, Placed
  <2> QED BY <1>5, <2>2, <2>3 DEF Fit, Placed
<1>7. Slotted(y)
  BY <1>5 DEF Fit, Slotted, SameGroup
<1>8. Told(y)
  BY <1>5 DEF Fit, Told, SameGroup, Failing
<1>9. Held(y)
  BY <1>5 DEF Held, HeldOnce, a
<1>10. p >= NodeRank /\ p >= r.published /\ (~root => p = r.published)
  BY <1>1 DEF NodeRank
<1> QED BY <1>3, <1>4, <1>5, <1>6, <1>7, <1>8, <1>9, <1>10 DEF Fit, a

\* The hold waits for the branches of its batch; with none it ends.
LEMMA MarkEnteringFits ==
  ASSUME NEW r \in ItemRecords, Fit(r), Held(r), r.body = "open", NEW B \in SUBSET Branches
  PROVE  LET x == MarkEntering(r, B)
         IN  /\ x \in ItemRecords /\ Same(r, x) /\ SameGroup(r, x) /\ Fit(x)
             /\ HeldOnce(x, TRUE) /\ x.begun = r.begun
             /\ x.token # "none" => B # {} /\ x.awaiting = B
             /\ r.token # "none" /\ x.token = "none" => B = {}
<1> DEFINE x == MarkEntering(r, B)
<1>1. CASE B = {}
  <2>1. x = DischargeHold(r)
    BY <1>1 DEF MarkEntering
  <2> HIDE DEF x
  <2>2. Soft(r, x) /\ SameGroup(r, x) /\ Fit(x) /\ x.token = "none" /\ x.begun = r.begun
    BY <2>1, DischargeHoldFits DEF Held
  <2>3. HeldOnce(x, TRUE)
    BY <2>2 DEF Soft, Same, Held, HeldOnce
  <2> QED BY <1>1, <2>2, <2>3 DEF x, Soft
<1>2. CASE B # {}
  <2> DEFINE y == [r EXCEPT !.awaiting = B]
  <2>1. x = y
    BY <1>2 DEF MarkEntering
  <2>2. y \in ItemRecords
    BY Zenon DEF ItemRecords
  <2>3. /\ Same(r, y) /\ SameGroup(r, y) /\ y.awaiting = B /\ y.dormant = r.dormant
        /\ y.slots = r.slots /\ y.queuedAt = r.queuedAt /\ y.token = r.token
        /\ y.begun = r.begun
    BY DEF ItemRecords, Same, SameGroup
  <2> HIDE DEF y
  <2>4. Fit(y)
    BY <2>3 DEF Fit, Placed, Slotted, Told, Same, SameGroup, Failing
  <2>5. HeldOnce(y, TRUE)
    BY <2>3 DEF Held, HeldOnce, Same
  <2> QED BY <1>2, <2>1, <2>2, <2>3, <2>4, <2>5
<1> QED BY <1>1, <1>2

\* What the submission of a batch of i leaves alone, and how its work is served.
Submitted(s, t, n, i, root) ==
    /\ t.limit = s.limit /\ t.stopping = s.stopping
    /\ \A j \in 1 .. n : j # i =>
          /\ Same(s.item[j], t.item[j])
          /\ s.item[j].body = "none" => t.item[j].dormant = s.item[j].dormant
    /\ LET it == s.item[i]
           x == t.item[i]
       IN  /\ x.reached = it.reached /\ x.canceled = it.canceled /\ x.returned = it.returned
           /\ x.finished = it.finished /\ x.failed = it.failed /\ x.proc = it.proc
           /\ x.body = it.body /\ x.joined = it.joined
           /\ x.root = (it.root \/ root)
           /\ x.published >= it.published /\ (root \/ x.published = it.published)
    /\ \A b \in Branches, j \in Items :
          /\ s.running[b][j] <= t.running[b][j]
          /\ s.running[b][j] < t.running[b][j] =>
                \A k \in DOMAIN t.queue[b] : j <= t.queue[b][k].item
    /\ \A b \in Branches :
          Pullable(t, b) => s.queue[b] # <<>> /\ Occupied(s, b) <= Occupied(t, b)

\* The batch of i is queued and the door open; nothing has started.
Opened(s, u, n, i, root, B) ==
    /\ u \in States(n) /\ u.running = s.running /\ u.limit = s.limit
    /\ u.stopping = s.stopping
    /\ \A j \in 1 .. n : j # i => u.item[j] = s.item[j]
    /\ \A b \in Branches \ B : u.queue[b] = s.queue[b]
    /\ LET it == s.item[i]
           x == u.item[i]
       IN  /\ x.reached = it.reached /\ x.canceled = it.canceled /\ x.returned = it.returned
           /\ x.finished = it.finished /\ x.failed = it.failed /\ x.proc = it.proc
           /\ x.body = it.body /\ x.joined = it.joined
           /\ x.root = (it.root \/ root)
           /\ x.published >= it.published /\ (root \/ x.published = it.published)

\* A hold stays what it is if neither its item nor its first batch changes.
LEMMA SameHold ==
  ASSUME NEW s, NEW u, NEW i, u.item[i] = s.item[i], HoldOf(s, i),
         \A b \in Branches : SameEntrance(s, u, i, b)
  PROVE  HoldOf(u, i)
BY DEF HoldOf, SameEntrance, Enters

\* A batch that is queued, its door open, keeps the invariant of a cascade.
LEMMA OpenedKeeps ==
  ASSUME NEW n \in 0 .. NItems, NEW s, Core(s, n), NEW i \in 1 .. n, NEW batch \in Batches,
         NEW root \in BOOLEAN, root => s.item[i].body = "open",
         ~root => s.item[i].tasks > 0 /\ s.item[i].published >= NodeRank,
         NEW e \in BOOLEAN, e = (root /\ ~s.item[i].root /\ s.item[i].token # "none"),
         NEW B \in SUBSET Branches, NEW v, Queueing(s, v, n, i, e, B), NEW x, NEW u,
         x = OpenedRecord(IF e THEN MarkEntering(v.item[i], B) ELSE v.item[i], root),
         u = [v EXCEPT !.item[i] = x]
  PROVE  Core(u, n) /\ Opened(s, u, n, i, root, B)
<1> DEFINE it == s.item[i]
           r == v.item[i]
           m == IF e THEN MarkEntering(r, B) ELSE r
<1>1. /\ v \in States(n) /\ s \in States(n) /\ i \in Items /\ 1 .. n \subseteq Items
      /\ it \in ItemRecords /\ r \in ItemRecords /\ v.item \in [1 .. n -> ItemRecords]
      /\ Fit(it) /\ Held(it) /\ Settled(it)
  BY StateFields DEF Core, Queueing
<1>2. /\ Same(it, r) /\ r.tasks = it.tasks /\ r.err = it.err /\ r.dead = it.dead
      /\ r.done = it.done /\ r.token = it.token /\ r.awaiting = it.awaiting
      /\ r.dormant = it.dormant /\ r.slots = it.slots /\ r.queuedAt = it.queuedAt
      /\ r.begun = it.begun
  <2>1. r = [it EXCEPT !.unexhausted = r.unexhausted]
    BY DEF Queueing
  <2> HIDE DEF it, r
  <2> QED BY <1>1, <2>1 DEF ItemRecords, Same
<1>3. Fit(r) /\ Held(r)
  <2> HIDE DEF it, r
  <2> QED BY <1>1, <1>2 DEF Fit, Held, Placed, Slotted, Told, Same, Failing
<1> HIDE DEF it, r, m
<1>4. /\ m \in ItemRecords /\ Same(r, m) /\ SameGroup(r, m) /\ Fit(m)
      /\ HeldOnce(m, root) /\ m.begun = r.begun
      /\ e /\ m.token # "none" => B # {} /\ m.awaiting = B
      /\ e /\ m.token = "none" => B = {}
      /\ ~e => m = r
  <2>1. CASE e
    <3>1. r.body = "open"
      BY <1>2, <2>1 DEF Same, it
    <3>2. m = MarkEntering(r, B)
      BY <2>1 DEF m
    <3>3. root = TRUE /\ r.token # "none"
      BY <1>2, <2>1 DEF it
    <3> QED BY <1>1, <1>3, <2>1, <3>1, <3>2, <3>3, MarkEnteringFits
  <2>2. CASE ~e
    BY <1>1, <1>3, <2>2 DEF m, Same, SameGroup, Held, HeldOnce
  <2> QED BY <2>1, <2>2
<1>5. /\ x \in ItemRecords /\ Fit(x) /\ Held(x)
      /\ x.reached = m.reached /\ x.canceled = m.canceled /\ x.returned = m.returned
      /\ x.finished = m.finished /\ x.failed = m.failed /\ x.proc = m.proc
      /\ x.body = m.body /\ x.joined = m.joined /\ x.retains = m.retains
      /\ x.held = m.held /\ x.submits = m.submits /\ SameGroup(m, x)
      /\ x.root = (m.root \/ root) /\ x.published >= NodeRank /\ x.published >= m.published
      /\ ~root => x.published = m.published
      /\ x.token = m.token /\ x.awaiting = m.awaiting /\ x.dormant = m.dormant
      /\ x.begun = m.begun
  <2>1. /\ root => m.body = "open"
        /\ ~root => m.published >= NodeRank
    BY <1>2, <1>4 DEF Same, it
  <2>2. x = OpenedRecord(m, root)
    BY DEF m, r
  <2> QED BY <1>4, <2>1, <2>2, OpenedFits
<1>6. /\ u \in States(n) /\ u.running = s.running /\ u.limit = s.limit
      /\ u.stopping = s.stopping /\ u.queue = v.queue /\ u.item[i] = x
      /\ \A j \in 1 .. n : j # i => u.item[j] = s.item[j]
  <2> DEFINE f == [v.item EXCEPT ![i] = x]
  <2>1. f \in [1 .. n -> ItemRecords] /\ f[i] = x /\ \A j \in 1 .. n : j # i => f[j] = v.item[j]
    BY <1>1, <1>5
  <2>2. u = [v EXCEPT !.item = f]
    BY <1>1 DEF States
  <2> HIDE DEF f
  <2>3. u \in States(n)
    BY <1>1, <2>1, <2>2, Zenon DEF States
  <2>4. /\ u.running = v.running /\ u.limit = v.limit /\ u.stopping = v.stopping
        /\ u.queue = v.queue /\ u.item = f
    BY <1>1, <2>2 DEF States
  <2> QED BY <2>1, <2>3, <2>4 DEF Queueing
<1>7. /\ x.reached = it.reached /\ x.canceled = it.canceled /\ x.returned = it.returned
      /\ x.finished = it.finished /\ x.failed = it.failed /\ x.proc = it.proc
      /\ x.body = it.body /\ x.joined = it.joined
      /\ x.root = (it.root \/ root) /\ x.published >= it.published
      /\ root \/ x.published = it.published
      /\ x.tasks = it.tasks /\ x.unexhausted = r.unexhausted /\ x.done = it.done
  BY <1>2, <1>4, <1>5 DEF Same, SameGroup
<1>8. Opened(s, u, n, i, root, B)
  <2>1. \A b \in Branches \ B : u.queue[b] = s.queue[b]
    BY <1>6 DEF Queueing
  <2>2. /\ u.item[i].reached = it.reached /\ u.item[i].canceled = it.canceled
        /\ u.item[i].returned = it.returned /\ u.item[i].finished = it.finished
        /\ u.item[i].failed = it.failed /\ u.item[i].proc = it.proc
        /\ u.item[i].body = it.body /\ u.item[i].joined = it.joined
        /\ u.item[i].root = (it.root \/ root)
        /\ u.item[i].published >= it.published
        /\ root \/ u.item[i].published = it.published
    BY <1>6, <1>7
  <2> QED BY <1>6, <2>1, <2>2 DEF Opened, it
<1>9. \A j \in 1 .. n : Fit(u.item[j]) /\ Held(u.item[j]) /\ Settled(u.item[j])
  <2>1. Settled(x)
    <3>1. CASE root
      BY <1>7, <3>1 DEF Settled, it
    <3>2. CASE ~root
      BY <1>7, <3>2 DEF Settled, Idle, it
    <3> QED BY <3>1, <3>2
  <2> QED BY <1>5, <1>6, <2>1 DEF Core
<1>10. Counted(u, n)
  <2>1. \A j \in 1 .. n : /\ IsFiniteSet(QueuedOf(u.queue, j))
                          /\ u.item[j].unexhausted = Cardinality(QueuedOf(u.queue, j))
    <3>1. \A j \in 1 .. n : /\ IsFiniteSet(QueuedOf(v.queue, j))
                            /\ v.item[j].unexhausted = Cardinality(QueuedOf(v.queue, j))
                            /\ j # i => v.item[j] = s.item[j]
      BY DEF Queueing
    <3> QED BY <1>6, <1>7, <3>1 DEF r
  <2>2. \A j \in 1 .. n : u.item[j].tasks = s.item[j].tasks
    BY <1>6, <1>7 DEF it
  <2>3. \A b \in Branches : Slots(u, b) = Slots(s, b)
    BY <1>6 DEF Slots
  <2> QED BY <1>6, <2>1, <2>2, <2>3 DEF Counted, Core
<1>11. \A j \in 1 .. n : /\ u.item[j].published >= s.item[j].published
                         /\ u.item[j].reached = s.item[j].reached
                         /\ u.item[j].finished = s.item[j].finished
                         /\ u.item[j].failed = s.item[j].failed
                         /\ u.item[j].canceled = s.item[j].canceled
                         /\ s.item[j].published \in Int /\ u.item[j].published \in Int
                         /\ s.item[j].reached \in Int
  <2>1. \A j \in 1 .. n : /\ s.item[j].published \in Int /\ s.item[j].reached \in Int
                          /\ u.item[j].published \in Int
    <3>1. \A j \in 1 .. n : s.item[j] \in ItemRecords
      <4>1. s.item \in [1 .. n -> ItemRecords]
        BY <1>1, StateFields
      <4> QED BY <4>1
    <3>2. \A j \in 1 .. n : u.item[j] \in ItemRecords
      <4>1. u.item \in [1 .. n -> ItemRecords]
        BY <1>6, StateFields
      <4> QED BY <4>1
    <3> QED BY <3>1, <3>2 DEF ItemRecords
  <2> SUFFICES ASSUME NEW j \in 1 .. n
               PROVE  /\ u.item[j].published >= s.item[j].published
                      /\ u.item[j].reached = s.item[j].reached
                      /\ u.item[j].finished = s.item[j].finished
                      /\ u.item[j].failed = s.item[j].failed
                      /\ u.item[j].canceled = s.item[j].canceled
    BY <2>1
  <2>2. CASE j = i
    BY <1>6, <1>7, <2>2 DEF it
  <2>3. CASE j # i
    BY <1>6, <2>1, <2>3
  <2> QED BY <2>2, <2>3
<1>12. Working(u, n)
  <2>1. \A j \in Items : j <= n => j \in 1 .. n
    BY NItemsNat DEF Items
  <2>2. \A j \in Items : Within(s, n, j) => Within(u, n, j)
    BY <1>11, <2>1 DEF Within, NodeRank
  <2>3. Within(u, n, i)
    <3>1. i <= n
      OBVIOUS
    <3> QED BY <1>5, <1>6, <3>1 DEF Within
  <2>4. ASSUME NEW b \in Branches, NEW k \in DOMAIN u.queue[b]
        PROVE  Within(u, n, u.queue[b][k].item)
    <3>1. \/ u.queue[b][k].item = i
          \/ \E l \in DOMAIN s.queue[b] : s.queue[b][l].item = u.queue[b][k].item
      BY <1>6 DEF Queueing
    <3>2. \A l \in DOMAIN s.queue[b] : Within(s, n, s.queue[b][l].item)
      BY DEF Core, Working
    <3>3. u.queue[b][k].item \in Items
      BY <1>6, StateFields
    <3> QED BY <2>2, <2>3, <3>1, <3>2, <3>3
  <2> QED BY <1>6, <2>2, <2>4 DEF Core, Working
<1>13. Ordered(u, n)
  <2> SUFFICES ASSUME NEW a \in 1 .. n, NEW c \in 1 .. n, a < c,
                      ~u.item[a].finished, ~u.item[c].finished
               PROVE  u.item[c].reached <= u.item[a].published
    BY DEF Ordered
  <2>1. s.item[c].reached <= s.item[a].published
    BY <1>11 DEF Core, Ordered
  <2> QED BY <1>11, <2>1
<1>14. Stopped(u, n)
  <2> SUFFICES ASSUME NEW a \in 1 .. n, u.item[a].failed
               PROVE  /\ u.stopping
                      /\ \A c \in a + 1 .. n : u.item[c].finished \/ u.item[c].canceled # "no"
    BY DEF Stopped
  <2>1. a + 1 .. n \subseteq 1 .. n
    OBVIOUS
  <2>2. /\ s.stopping
        /\ \A c \in a + 1 .. n : s.item[c].finished \/ s.item[c].canceled # "no"
    BY <1>11 DEF Core, Stopped
  <2> QED BY <1>6, <1>11, <2>1, <2>2
<1>15. Sorted(u)
  BY <1>6 DEF Queueing, Sorted
<1>16. Holding(u, n)
  <2>1. Single(u)
    BY <1>6 DEF Queueing, Single, Entering
  <2>2. \A b \in Branches, j \in 1 .. n : j # i \/ ~e => SameEntrance(s, u, j, b)
    BY <1>6 DEF Queueing, SameEntrance, Enters, Waits, Entering
  <2>3. \A b \in Branches, j \in 1 .. n : Waits(u, j, b) => Enters(u, j, b)
    BY DEF Waits, Enters
  <2>4. ASSUME NEW j \in 1 .. n, j # i PROVE HoldOf(u, j)
    <3>1. u.item[j] = s.item[j] /\ HoldOf(s, j)
      BY <1>6, <2>4 DEF Core, Holding
    <3>2. \A b \in Branches : SameEntrance(s, u, j, b)
      BY <2>2, <2>4
    <3> QED BY <3>1, <3>2, SameHold
  <2>5. CASE e
    <3>1. \A b \in Branches : Waits(u, i, b) <=> b \in B
      BY <1>6, <2>5 DEF Queueing, Waits, Entering
    <3>2. x.root /\ (x.token # "none" => x.awaiting = B /\ B # {}) /\ (x.token = "none" => B = {})
      BY <1>4, <1>5, <2>5
    <3>3. HoldOf(u, i)
      BY <1>6, <3>1, <3>2 DEF HoldOf
    <3> QED BY <2>1, <2>4, <3>3 DEF Holding
  <2>6. CASE ~e
    <3>1. /\ x.token = it.token /\ x.awaiting = it.awaiting /\ x.begun = it.begun
          /\ x.held = it.held /\ x.finished = it.finished
      BY <1>2, <1>4, <1>5, <2>6 DEF Same
    <3>2. (x.token # "none" /\ x.root => it.root) /\ (it.root => x.root)
      BY <1>7, <2>6, <3>1 DEF it
    <3>3. \A b \in Branches : SameEntrance(s, u, i, b)
      BY <2>2, <2>6
    <3>4. HoldOf(s, i)
      BY DEF Core, Holding
    <3>5. HoldOf(u, i)
      BY <1>6, <3>1, <3>2, <3>3, <3>4 DEF HoldOf, SameEntrance, Enters, it
    <3> QED BY <2>1, <2>4, <3>5 DEF Holding
  <2> QED BY <2>5, <2>6
<1> QED BY <1>6, <1>8, <1>9, <1>10, <1>12, <1>13, <1>14, <1>15, <1>16 DEF Core

\* A submission keeps the invariant; where it leaves a slot that could be filled,
\* the queue had work before.
LEMMA SubmitClaimedKeeps ==
  ASSUME NEW n \in 0 .. NItems, NEW s, Core(s, n), NEW i \in 1 .. n, NEW batch \in Batches,
         NEW root \in BOOLEAN, root => s.item[i].body = "open",
         ~root => s.item[i].tasks > 0 /\ s.item[i].published >= NodeRank
  PROVE  LET t == SubmitClaimed(s, i, batch, root)
         IN  Core(t, n) /\ Submitted(s, t, n, i, root)
<1> DEFINE it == s.item[i]
           branches == {b \in Branches : batch[b] > 0}
           touched == SetToSeq(branches)
           e == root /\ ~it.root /\ it.token # "none"
           v == InsertAll(s, i, batch, e, touched)
           x == OpenedRecord(IF e THEN MarkEntering(v.item[i], branches) ELSE v.item[i], root)
           u == [v EXCEPT !.item[i] = x]
           t == PumpAll(u, touched)
<1>1. /\ touched \in Seq(Branches)
      /\ \A k \in 1 .. Len(touched) : touched[k] \in branches
      /\ \A b \in branches : \E k \in 1 .. Len(touched) : touched[k] = b
      /\ Distinct(touched)
  <2>1. IsFiniteSet(branches)
    BY BranchesFinite, FS_Subset
  <2> HIDE DEF touched
  <2>2. /\ touched \in Seq(branches)
        /\ \A b \in branches : \E k \in 1 .. Len(touched) : touched[k] = b
        /\ Distinct(touched)
    <3> HIDE DEF branches
    <3> QED BY <2>1, SeqOfSet DEF touched, Distinct
  <2> QED BY <2>2
<1>2. e \in BOOLEAN /\ branches \in SUBSET Branches
  <2>1. it \in ItemRecords
    BY StateFields DEF Core
  <2> QED OBVIOUS
<1> HIDE DEF touched
<1>3. Queueing(s, v, n, i, e, branches)
  <2>1. \A k \in 1 .. Len(touched) : batch[touched[k]] > 0
    BY <1>1
  <2>2. branches = Firsts(touched, Len(touched))
    BY <1>1 DEF Firsts
  <2>3. e => Fresh(s, i)
    BY DEF Core, Holding, HoldOf, Fresh, Enters
  <2> HIDE DEF e, branches
  <2> QED BY <1>1, <1>2, <2>1, <2>2, <2>3, InsertAllKeeps
<1>4. Core(u, n) /\ Opened(s, u, n, i, root, branches)
  <2>1. e = (root /\ ~s.item[i].root /\ s.item[i].token # "none")
    OBVIOUS
  <2> HIDE DEF e, branches, v
  <2> QED BY <1>2, <1>3, <2>1, OpenedKeeps
<1>5. Core(t, n) /\ Worked(u, t, n) /\ \A k \in 1 .. Len(touched) : ~Pullable(t, touched[k])
  <2> HIDE DEF u
  <2> QED BY <1>1, <1>4, PumpAllKeeps
<1>6. SubmitClaimed(s, i, batch, root) = t
  BY Zenon DEF SubmitClaimed, OpenedRecord, touched
<1> HIDE DEF t, u, e, v, x
<1>7. Submitted(s, t, n, i, root)
  <2>1. /\ t.limit = s.limit /\ t.stopping = s.stopping
        /\ \A j \in 1 .. n : j # i =>
              /\ Same(s.item[j], t.item[j])
              /\ s.item[j].body = "none" => t.item[j].dormant = s.item[j].dormant
    BY <1>4, <1>5 DEF Opened, Worked
  <2>2. LET y == t.item[i]
        IN  /\ y.reached = it.reached /\ y.canceled = it.canceled /\ y.returned = it.returned
            /\ y.finished = it.finished /\ y.failed = it.failed /\ y.proc = it.proc
            /\ y.body = it.body /\ y.joined = it.joined
            /\ y.root = (it.root \/ root)
            /\ y.published >= it.published /\ (root \/ y.published = it.published)
    BY <1>4, <1>5 DEF Opened, Worked, Same
  <2>3. \A b \in Branches, j \in Items :
            /\ s.running[b][j] <= t.running[b][j]
            /\ s.running[b][j] < t.running[b][j] =>
                  \A k \in DOMAIN t.queue[b] : j <= t.queue[b][k].item
    BY <1>4, <1>5 DEF Opened, Worked
  <2>4. ASSUME NEW b \in Branches, Pullable(t, b)
        PROVE  s.queue[b] # <<>> /\ Occupied(s, b) <= Occupied(t, b)
    <3>1. b \notin branches
      BY <1>1, <1>5, <2>4
    <3>2. u.queue[b] = s.queue[b]
      BY <1>4, <3>1 DEF Opened
    <3>3. Occupied(u, b) = Occupied(s, b)
      BY <1>4 DEF Opened, Occupied, Slots
    <3>4. t.queue[b] # <<>>
      BY <2>4 DEF Pullable
    <3>5. s.queue[b] # <<>>
      <4>1. t.queue[b] \in Seq(Collections)
        BY <1>5, StateFields DEF Core
      <4>2. 1 \in DOMAIN t.queue[b]
        BY <3>4, <4>1
      <4>3. PICK l \in DOMAIN u.queue[b] : u.queue[b][l].item = t.queue[b][1].item
        BY <1>5, <4>2 DEF Worked
      <4> QED BY <3>2, <4>3
    <3> QED BY <1>5, <3>3, <3>5 DEF Worked
  <2> HIDE DEF branches
  <2> QED BY <2>1, <2>2, <2>3, <2>4 DEF Submitted
<1> QED BY <1>5, <1>6, <1>7

-----------------------------------------------------------------------------
(* Failures and cancellation *)

\* What the failure of another item may do to an item, and an item's own.
Like(x, y) ==
    /\ x \in ItemRecords /\ y \in ItemRecords
    /\ y.reached = x.reached /\ y.published = x.published
    /\ x.canceled # "no" => y.canceled = x.canceled
    /\ x.failed => y.failed
    /\ y.returned = x.returned /\ y.finished = x.finished
    /\ y.proc = x.proc /\ y.body = x.body /\ y.root = x.root /\ y.joined = x.joined
    /\ y.retains = x.retains /\ y.held = x.held /\ y.submits = x.submits
    /\ y.slots = x.slots /\ y.queuedAt = x.queuedAt /\ y.dormant = x.dormant
    /\ y.token = x.token /\ y.awaiting = x.awaiting /\ SameGroup(x, y)
    /\ y.begun = x.begun /\ y.broke = x.broke

\* A cancellation or a report leaves an item as fit as it was.
LEMMA LikeFits ==
  ASSUME NEW x, NEW y, Like(x, y)
  PROVE  /\ Fit(x) => Fit(y)
         /\ Held(x) => Held(y)
         /\ Settled(x) => Settled(y)
<1>1. Placed(x) => Placed(y)
  BY DEF Like, Placed, ItemRecords
<1>2. Slotted(x) => Slotted(y)
  BY DEF Like, SameGroup, Slotted, ItemRecords
<1>3. Told(x) => Told(y)
  BY DEF Like, SameGroup, Told, Failing, ItemRecords
<1>4. Held(x) => Held(y)
  BY DEF Like, Held
<1>5. Settled(x) => Settled(y)
  BY DEF Like, SameGroup, Settled, Idle
<1> QED BY <1>1, <1>2, <1>3, <1>4, <1>5 DEF Fit

\* What the report of an outcome of i does to the run.
Reported(s, t, n, i) ==
    /\ t \in States(n) /\ t.queue = s.queue /\ t.running = s.running /\ t.limit = s.limit
    /\ s.stopping => t.stopping
    /\ \A j \in 1 .. n : /\ Like(s.item[j], t.item[j])
                         /\ j # i => t.item[j].failed = s.item[j].failed
    /\ Stopped(s, n) => Stopped(t, n)

\* It may be nothing.
LEMMA ReportedReflexive ==
  ASSUME NEW n \in 0 .. NItems, NEW s \in States(n), NEW i
  PROVE  Reported(s, s, n, i)
<1>1. \A j \in 1 .. n : s.item[j] \in ItemRecords
  BY StateFields
<1> QED BY <1>1 DEF Reported, Like, SameGroup

\* cancelLater reaches everybody behind i who is not over.
LEMMA CancelLaterReported ==
  ASSUME NEW n \in 0 .. NItems, NEW s \in States(n), NEW i \in 0 .. n
  PROVE  LET t == CancelLater(s, i)
         IN  /\ Reported(s, t, n, i)
             /\ t.stopping = s.stopping
             /\ \A j \in 1 .. n : t.item[j].failed = s.item[j].failed
             /\ \A j \in i + 1 .. n : t.item[j].finished \/ t.item[j].canceled # "no"
<1> DEFINE f == [j \in DOMAIN s.item |->
                    IF j > i /\ ~s.item[j].finished /\ s.item[j].canceled = "no"
                    THEN [s.item[j] EXCEPT !.canceled = "conveyor"] ELSE s.item[j]]
           t == CancelLater(s, i)
<1>1. s.item \in [1 .. n -> ItemRecords] /\ n \in Nat
  BY StateFields
<1>2. t = [s EXCEPT !.item = f]
  BY DEF CancelLater
<1>3. ASSUME NEW x \in ItemRecords
      PROVE  LET y == [x EXCEPT !.canceled = "conveyor"]
             IN  /\ y.canceled = "conveyor" /\ y.failed = x.failed
                 /\ x.canceled = "no" => Like(x, y)
  BY DEF ItemRecords, Like, SameGroup
<1>4. \A x \in ItemRecords : Like(x, x)
  BY DEF Like, SameGroup
<1>5. \A j \in 1 .. n : /\ Like(s.item[j], f[j]) /\ f[j].failed = s.item[j].failed
                        /\ j > i => f[j].finished \/ f[j].canceled # "no"
  <2> SUFFICES ASSUME NEW j \in 1 .. n
               PROVE  /\ Like(s.item[j], f[j]) /\ f[j].failed = s.item[j].failed
                      /\ j > i => f[j].finished \/ f[j].canceled # "no"
    OBVIOUS
  <2> DEFINE x == s.item[j]
  <2>1. x \in ItemRecords
    BY <1>1
  <2>2. f[j] = IF j > i /\ ~x.finished /\ x.canceled = "no"
               THEN [x EXCEPT !.canceled = "conveyor"] ELSE x
    BY <1>1
  <2> HIDE DEF x, f
  <2>3. CASE j > i /\ ~x.finished /\ x.canceled = "no"
    <3>1. f[j] = [x EXCEPT !.canceled = "conveyor"]
      BY <2>2, <2>3
    <3> QED BY <1>3, <2>1, <2>3, <3>1 DEF x
  <2>4. CASE ~(j > i /\ ~x.finished /\ x.canceled = "no")
    <3>1. f[j] = x
      BY <2>2, <2>4
    <3> QED BY <1>4, <2>1, <2>4, <3>1 DEF x
  <2> QED BY <2>3, <2>4
<1>6. f \in [1 .. n -> ItemRecords]
  <2>1. f = [j \in 1 .. n |-> f[j]]
    BY <1>1
  <2>2. \A j \in 1 .. n : f[j] \in ItemRecords
    <3> HIDE DEF f
    <3> QED BY <1>5 DEF Like
  <2> HIDE DEF f
  <2> QED BY <2>1, <2>2
<1> HIDE DEF f, t
<1>7. /\ t.item = f /\ t.queue = s.queue /\ t.running = s.running /\ t.limit = s.limit
      /\ t.stopping = s.stopping
  BY <1>2 DEF States
<1>8. t \in States(n)
  BY <1>2, <1>6, Zenon DEF States
<1>9. Stopped(s, n) => Stopped(t, n)
  <2> SUFFICES ASSUME Stopped(s, n), NEW a \in 1 .. n, t.item[a].failed
               PROVE  /\ t.stopping
                      /\ \A c \in a + 1 .. n : t.item[c].finished \/ t.item[c].canceled # "no"
    BY DEF Stopped
  <2>1. a + 1 .. n \subseteq 1 .. n
    OBVIOUS
  <2>2. s.item[a].failed
    BY <1>5, <1>7
  <2>3. /\ s.stopping
        /\ \A c \in a + 1 .. n : s.item[c].finished \/ s.item[c].canceled # "no"
    BY <2>2 DEF Stopped
  <2>4. ASSUME NEW c \in a + 1 .. n
        PROVE  t.item[c].finished \/ t.item[c].canceled # "no"
    <3>1. Like(s.item[c], t.item[c])
      BY <1>5, <1>7, <2>1
    <3>2. s.item[c].finished \/ s.item[c].canceled # "no"
      BY <2>3
    <3> QED BY <3>1, <3>2 DEF Like, ItemRecords
  <2> QED BY <1>7, <2>3, <2>4
<1>10. \A j \in i + 1 .. n : t.item[j].finished \/ t.item[j].canceled # "no"
  <2>1. \A j \in i + 1 .. n : j \in 1 .. n /\ j > i
    BY <1>1
  <2> QED BY <1>5, <1>7, <2>1
<1> QED BY <1>5, <1>7, <1>8, <1>9, <1>10 DEF t, Reported

\* Cancellations and reports add up.
LEMMA LikeTransitive ==
  ASSUME NEW x, NEW y, NEW z, Like(x, y), Like(y, z)
  PROVE  Like(x, z)
BY DEF Like, SameGroup

\* t is s, but for the record x of item i.
Put(s, t, n, i, x) ==
    /\ t \in States(n) /\ t.queue = s.queue /\ t.running = s.running
    /\ t.limit = s.limit /\ t.stopping = s.stopping
    /\ t.item[i] = x
    /\ \A j \in 1 .. n : j # i => t.item[j] = s.item[j]

\* Replacing the record of one item.
LEMMA ItemPut ==
  ASSUME NEW n \in 0 .. NItems, NEW s \in States(n), NEW i \in 1 .. n, NEW x \in ItemRecords
  PROVE  Put(s, [s EXCEPT !.item[i] = x], n, i, x)
<1> DEFINE f == [s.item EXCEPT ![i] = x]
           t == [s EXCEPT !.item[i] = x]
<1>1. s.item \in [1 .. n -> ItemRecords]
  BY StateFields
<1>2. f \in [1 .. n -> ItemRecords] /\ f[i] = x
  BY <1>1
<1>3. \A j \in 1 .. n : j # i => f[j] = s.item[j]
  BY <1>1
<1>4. t = [s EXCEPT !.item = f]
  BY DEF States
<1> HIDE DEF f, t
<1>5. t \in States(n)
  BY <1>2, <1>4, Zenon DEF States
<1>6. /\ t.item = f /\ t.queue = s.queue /\ t.running = s.running /\ t.limit = s.limit
      /\ t.stopping = s.stopping
  BY <1>4 DEF States
<1> QED BY <1>2, <1>3, <1>5, <1>6 DEF Put, t

\* A failed item is reported, and everybody behind it stopped.
LEMMA ItemFailedReported ==
  ASSUME NEW n \in 0 .. NItems, NEW s \in States(n), NEW i \in 1 .. n
  PROVE  LET t == ItemFailed(s, i)
         IN  Reported(s, t, n, i) /\ t.item[i].failed
<1> DEFINE t == ItemFailed(s, i)
<1>1. CASE s.item[i].failed
  <2>1. t = s
    BY <1>1 DEF ItemFailed
  <2> QED BY <1>1, <2>1, ReportedReflexive
<1>2. CASE ~s.item[i].failed
  <2> DEFINE it == s.item[i]
             x == [it EXCEPT !.failed = TRUE]
             u == [s EXCEPT !.item[i] = x]
             w == [u EXCEPT !.stopping = TRUE]
  <2>1. it \in ItemRecords /\ n \in Nat
    BY StateFields
  <2>2. Like(it, x) /\ x.failed
    <3> HIDE DEF it
    <3> QED BY <2>1 DEF ItemRecords, Like, SameGroup
  <2>3. \A y \in ItemRecords : Like(y, y)
    BY DEF Like, SameGroup
  <2>4. /\ u \in States(n) /\ u.queue = s.queue /\ u.running = s.running
        /\ u.limit = s.limit /\ u.stopping = s.stopping
        /\ u.item[i] = x
        /\ \A j \in 1 .. n : j # i => u.item[j] = s.item[j]
    <3>1. x \in ItemRecords
      BY <2>2 DEF Like
    <3> HIDE DEF x
    <3>2. Put(s, u, n, i, x)
      BY <3>1, ItemPut
    <3> QED BY <3>2 DEF Put
  <2>5. w = [s EXCEPT !.item[i].failed = TRUE, !.stopping = TRUE]
    BY Zenon DEF States
  <2>6. t = CancelLater(w, i)
    BY <1>2, <2>5 DEF ItemFailed
  <2> HIDE DEF it, x, u, t
  <2>7. /\ w \in States(n) /\ w.queue = s.queue /\ w.running = s.running
        /\ w.limit = s.limit /\ w.stopping /\ w.item = u.item
    BY <2>4 DEF States
  <2> HIDE DEF w
  <2>8. /\ Reported(w, t, n, i) /\ t.stopping
        /\ \A j \in 1 .. n : t.item[j].failed = w.item[j].failed
        /\ \A j \in i + 1 .. n : t.item[j].finished \/ t.item[j].canceled # "no"
    <3>1. i \in 0 .. n
      BY <2>1
    <3> QED BY <2>6, <2>7, <3>1, CancelLaterReported
  <2>9. \A j \in 1 .. n : Like(s.item[j], t.item[j])
    <3>1. \A j \in 1 .. n : Like(w.item[j], t.item[j])
      BY <2>8 DEF Reported
    <3>2. \A j \in 1 .. n : Like(s.item[j], w.item[j])
      <4>1. \A j \in 1 .. n : s.item[j] \in ItemRecords
        BY StateFields
      <4> QED BY <2>2, <2>3, <2>4, <2>7, <4>1 DEF it
    <3> QED BY <3>1, <3>2, LikeTransitive
  <2>10. t.item[i].failed /\ \A j \in 1 .. n : j # i => t.item[j].failed = s.item[j].failed
    BY <2>2, <2>4, <2>7, <2>8
  <2>11. Stopped(s, n) => Stopped(t, n)
    <3> SUFFICES ASSUME Stopped(s, n), NEW a \in 1 .. n, t.item[a].failed
                 PROVE  \A c \in a + 1 .. n : t.item[c].finished \/ t.item[c].canceled # "no"
      BY <2>8 DEF Stopped
    <3>1. CASE a = i
      BY <2>8, <3>1
    <3>2. CASE a # i
      <4>1. s.item[a].failed
        BY <2>10, <3>2
      <4>2. ASSUME NEW c \in a + 1 .. n
            PROVE  t.item[c].finished \/ t.item[c].canceled # "no"
        <5>1. c \in 1 .. n
          OBVIOUS
        <5>2. s.item[c].finished \/ s.item[c].canceled # "no"
          BY <4>1 DEF Stopped
        <5>3. Like(s.item[c], t.item[c])
          BY <2>9, <5>1
        <5> QED BY <5>2, <5>3 DEF Like, ItemRecords
      <4> QED BY <4>2
    <3> QED BY <3>1, <3>2
  <2> QED BY <2>7, <2>8, <2>9, <2>10, <2>11 DEF Reported, t
<1> QED BY <1>1, <1>2

\* A settled outcome is reported if it is a failure.
LEMMA SettleOutcomeReported ==
  ASSUME NEW n \in 0 .. NItems, NEW s \in States(n), NEW i \in 1 .. n
  PROVE  LET t == SettleOutcome(s, i)
         IN  Reported(s, t, n, i) /\ (Failing(s.item[i]) => t.item[i].failed)
<1> DEFINE it == s.item[i]
           err == IF it.proc # "fail" /\ ~it.joined /\ it.err # "none" THEN it.err ELSE it.proc
           t == SettleOutcome(s, i)
<1>1. t = IF err \in {"fail", "task"} THEN ItemFailed(s, i)
          ELSE IF err = "abort" /\ s.stopping THEN CancelLater(s, i)
          ELSE s
  BY DEF SettleOutcome
<1>2. it \in ItemRecords /\ i \in 0 .. n
  BY StateFields
<1>3. Failing(it) => err \in {"fail", "task"}
  BY DEF Failing
<1> HIDE DEF it, err, t
<1>4. CASE err \in {"fail", "task"}
  <2>1. t = ItemFailed(s, i)
    BY <1>1, <1>4
  <2> QED BY <2>1, ItemFailedReported DEF t
<1>5. CASE ~(err \in {"fail", "task"}) /\ err = "abort" /\ s.stopping
  <2>1. t = CancelLater(s, i)
    BY <1>1, <1>5
  <2> QED BY <1>2, <1>3, <1>5, <2>1, CancelLaterReported DEF t, it
<1>6. CASE ~(err \in {"fail", "task"}) /\ ~(err = "abort" /\ s.stopping)
  <2>1. t = s
    BY <1>1, <1>6
  <2> QED BY <1>3, <1>6, <2>1, ReportedReflexive DEF t, it
<1> QED BY <1>4, <1>5, <1>6

-----------------------------------------------------------------------------
(* A step of one item *)

\* What an item keeps of its hold, unless it ends or has never submitted to its body.
HoldKept(it, x) ==
    /\ x.root = it.root
    /\ \/ x.finished \/ ~it.root
       \/ /\ x.token = it.token /\ x.awaiting = it.awaiting
          /\ x.begun = it.begun /\ x.held = it.held

\* Item i changes on its own, and perhaps a task of it ends; the others are at
\* most canceled.
ItemStep(s, t, n, i) ==
    LET it == s.item[i]
        x == t.item[i]
    IN  /\ t \in States(n) /\ t.queue = s.queue
        /\ \A j \in 1 .. n : j # i => Like(s.item[j], t.item[j])
        /\ Fit(x) /\ Held(x) /\ Settled(x)
        /\ x.unexhausted = it.unexhausted /\ x.published >= it.published
        /\ it.finished => x.finished
        /\ \/ x.finished \/ x.reached = it.reached
           \/ \A j \in 1 .. i - 1 : s.item[j].finished \/ x.reached <= s.item[j].published
        /\ HoldKept(it, x)
        /\ Stopped(t, n)
        /\ \/ t.running = s.running /\ x.tasks = it.tasks
           \/ /\ x.tasks = it.tasks - 1
              /\ \E b \in Branches : OneMore(t, s, b, i)

\* Such a step keeps the books.
LEMMA ItemStepCounts ==
  ASSUME NEW n \in 0 .. NItems, NEW s, Core(s, n), NEW i \in 1 .. n, NEW t,
         ItemStep(s, t, n, i)
  PROVE  /\ Counted(t, n)
         /\ \A b \in Branches, j \in Items : t.running[b][j] <= s.running[b][j]
<1>1. /\ 1 .. n \subseteq Items /\ i \in Items /\ t.queue = s.queue
      /\ s.running \in Running /\ t.running \in Running
      /\ \A j \in 1 .. n : s.item[j] \in ItemRecords /\ t.item[j] \in ItemRecords
  <2>1. t \in States(n) /\ s \in States(n) /\ t.queue = s.queue
    BY DEF ItemStep, Core
  <2>2. /\ s.item \in [1 .. n -> ItemRecords] /\ t.item \in [1 .. n -> ItemRecords]
        /\ s.running \in Running /\ t.running \in Running /\ 1 .. n \subseteq Items
    BY <2>1, StateFields
  <2> QED BY <2>1, <2>2
<1>2. \A j \in 1 .. n : t.item[j].unexhausted = s.item[j].unexhausted
  BY DEF ItemStep, Like, SameGroup
<1>3. \A j \in 1 .. n : j # i => t.item[j].tasks = s.item[j].tasks
  BY DEF ItemStep, Like, SameGroup
<1>4. CASE t.running = s.running /\ t.item[i].tasks = s.item[i].tasks
  <2>1. \A j \in 1 .. n : t.item[j].tasks = s.item[j].tasks
    BY <1>3, <1>4
  <2>2. \A b \in Branches : Slots(t, b) = Slots(s, b)
    BY <1>4 DEF Slots
  <2>3. \A b \in Branches, j \in Items : s.running[b][j] \in Nat
    BY <1>1 DEF Running
  <2>4. Counted(s, n)
    BY DEF Core
  <2>5. Counted(t, n)
    BY <1>1, <1>2, <1>4, <2>1, <2>2, <2>4 DEF Counted
  <2>6. \A b \in Branches, j \in Items : t.running[b][j] <= s.running[b][j]
    BY <1>4, <2>3
  <2> QED BY <2>5, <2>6
<1>5. CASE t.item[i].tasks = s.item[i].tasks - 1 /\ \E b \in Branches : OneMore(t, s, b, i)
  <2>1. PICK b \in Branches : OneMore(t, s, b, i)
    BY <1>5
  <2>2. ASSUME NEW j \in 1 .. n
        PROVE  /\ IsFiniteSet(RunningOf(t.running, j))
               /\ t.item[j].tasks = Cardinality(RunningOf(t.running, j))
    <3>1. /\ IsFiniteSet(RunningOf(t.running, j)) <=> IsFiniteSet(RunningOf(s.running, j))
          /\ IsFiniteSet(RunningOf(t.running, j)) =>
                Cardinality(RunningOf(s.running, j)) =
                    Cardinality(RunningOf(t.running, j)) + (IF i = j THEN 1 ELSE 0)
      BY <1>1, <2>1, CountRunning
    <3>2. /\ IsFiniteSet(RunningOf(s.running, j))
          /\ s.item[j].tasks = Cardinality(RunningOf(s.running, j))
      BY DEF Core, Counted
    <3>3. Cardinality(RunningOf(t.running, j)) \in Nat
      BY <3>1, <3>2, FS_CardinalityType
    <3> QED BY <1>3, <1>5, <3>1, <3>2, <3>3
  <2>3. \A c \in Branches : IsFiniteSet(Slots(t, c))
    <3>1. \A c \in Branches : IsFiniteSet(Slots(t, c)) <=> IsFiniteSet(Slots(s, c))
      BY <1>1, <2>1, CountSlots
    <3> QED BY <3>1 DEF Core, Counted
  <2>4. ASSUME NEW c \in Branches, NEW j \in Items
        PROVE  t.running[c][j] <= s.running[c][j]
    <3>1. s.running[c][j] \in Nat /\ t.running[c][j] \in Nat
      BY <1>1 DEF Running
    <3>2. CASE c = b /\ j = i
      BY <2>1, <3>1, <3>2 DEF OneMore
    <3>3. CASE c # b \/ j # i
      BY <2>1, <3>1, <3>3 DEF OneMore
    <3> QED BY <3>2, <3>3
  <2> QED BY <1>1, <1>2, <2>2, <2>3, <2>4 DEF Counted, Core
<1> QED BY <1>4, <1>5 DEF ItemStep

\* Such a step keeps the invariant of a cascade.
LEMMA ItemStepKeeps ==
  ASSUME NEW n \in 0 .. NItems, NEW s, Core(s, n), NEW i \in 1 .. n, NEW t,
         ItemStep(s, t, n, i)
  PROVE  Core(t, n)
<1> DEFINE it == s.item[i]
           x == t.item[i]
<1>1. /\ t \in States(n) /\ s \in States(n) /\ t.queue = s.queue /\ n \in Nat
      /\ 1 .. n \subseteq Items
      /\ \A j \in 1 .. n : s.item[j] \in ItemRecords /\ t.item[j] \in ItemRecords
  <2>1. t \in States(n) /\ s \in States(n) /\ t.queue = s.queue
    BY DEF ItemStep, Core
  <2>2. /\ s.item \in [1 .. n -> ItemRecords] /\ t.item \in [1 .. n -> ItemRecords]
        /\ n \in Nat /\ 1 .. n \subseteq Items
    BY <2>1, StateFields
  <2> QED BY <2>1, <2>2
<1>2. \A j \in 1 .. n : j # i => Like(s.item[j], t.item[j])
  BY DEF ItemStep
<1>3. \A j \in 1 .. n : Fit(t.item[j]) /\ Held(t.item[j]) /\ Settled(t.item[j])
  <2>1. ASSUME NEW j \in 1 .. n, j # i
        PROVE  Fit(t.item[j]) /\ Held(t.item[j]) /\ Settled(t.item[j])
    <3>1. Fit(s.item[j]) /\ Held(s.item[j]) /\ Settled(s.item[j])
      BY DEF Core
    <3> QED BY <1>2, <2>1, <3>1, LikeFits
  <2> QED BY <2>1 DEF ItemStep
<1>4. \A j \in 1 .. n : /\ s.item[j].published \in Int /\ s.item[j].reached \in Int
                        /\ t.item[j].published \in Int /\ t.item[j].reached \in Int
  BY <1>1 DEF ItemRecords
<1>5. \A j \in 1 .. n : /\ t.item[j].published >= s.item[j].published
                        /\ s.item[j].finished => t.item[j].finished
                        /\ j # i => t.item[j].reached = s.item[j].reached
  <2>1. ASSUME NEW j \in 1 .. n, j # i
        PROVE  /\ t.item[j].published = s.item[j].published
               /\ s.item[j].finished => t.item[j].finished
               /\ t.item[j].reached = s.item[j].reached
    BY <1>2, <2>1 DEF Like
  <2>2. t.item[i].published >= s.item[i].published /\ (s.item[i].finished => t.item[i].finished)
    BY DEF ItemStep
  <2> QED BY <1>4, <2>1, <2>2
<1>6. Working(t, n)
  <2>1. \A j \in Items : Within(s, n, j) => Within(t, n, j)
    <3>1. \A j \in Items : j <= n => j \in 1 .. n
      BY NItemsNat DEF Items
    <3> QED BY <1>4, <1>5, <3>1 DEF Within, NodeRank
  <2>2. \A b \in Branches, j \in Items : t.running[b][j] <= s.running[b][j]
    BY ItemStepCounts
  <2>3. \A b \in Branches, j \in Items : s.running[b][j] \in Nat /\ t.running[b][j] \in Nat
    BY <1>1, StateFields
  <2>4. \A b \in Branches, j \in Items : t.running[b][j] > 0 => Within(t, n, j)
    <3>1. \A b \in Branches, j \in Items : t.running[b][j] > 0 => s.running[b][j] > 0
      BY <2>2, <2>3
    <3> QED BY <2>1, <3>1 DEF Core, Working
  <2>5. \A b \in Branches : \A k \in DOMAIN s.queue[b] : Within(t, n, s.queue[b][k].item)
    <3>1. \A b \in Branches : \A k \in DOMAIN s.queue[b] : s.queue[b][k].item \in Items
      BY <1>1, StateFields
    <3> QED BY <2>1, <3>1 DEF Core, Working
  <2> QED BY <1>1, <2>4, <2>5 DEF Working
<1>7. Ordered(t, n)
  <2> SUFFICES ASSUME NEW a \in 1 .. n, NEW c \in 1 .. n, a < c,
                      ~t.item[a].finished, ~t.item[c].finished
               PROVE  t.item[c].reached <= t.item[a].published
    BY DEF Ordered
  <2>1. s.item[c].reached <= s.item[a].published
    BY <1>5 DEF Core, Ordered
  <2>2. CASE t.item[c].reached = s.item[c].reached
    BY <1>4, <1>5, <2>1, <2>2
  <2>3. CASE t.item[c].reached # s.item[c].reached
    <3>1. c = i
      BY <1>5, <2>3
    <3>2. \A j \in 1 .. i - 1 : s.item[j].finished \/ x.reached <= s.item[j].published
      BY <2>3, <3>1 DEF ItemStep
    <3>3. a \in 1 .. i - 1
      BY <1>1, <3>1
    <3>4. t.item[c].reached <= s.item[a].published
      BY <1>5, <3>1, <3>2, <3>3
    <3> QED BY <1>4, <1>5, <3>4
  <2> QED BY <2>2, <2>3
<1>8. Holding(t, n)
  <2>1. Single(t) /\ \A j \in 1 .. n, b \in Branches : SameEntrance(s, t, j, b)
    BY <1>1 DEF Core, Holding, Single, SameEntrance, Enters, Waits, Entering
  <2>2. ASSUME NEW j \in 1 .. n, HoldKept(s.item[j], t.item[j]) PROVE HoldOf(t, j)
    <3> DEFINE old == s.item[j]
               new == t.item[j]
    <3>1. HoldOf(s, j) /\ \A b \in Branches : SameEntrance(s, t, j, b)
      BY <2>1 DEF Core, Holding
    <3>2. \A b \in Branches : Waits(t, j, b) => Enters(t, j, b)
      BY DEF Waits, Enters
    <3>3. /\ new.root = old.root /\ (old.finished => new.finished)
          /\ new.token # "none" => ~new.finished
          /\ \/ new.finished \/ ~old.root
             \/ /\ new.token = old.token /\ new.awaiting = old.awaiting
                /\ new.begun = old.begun /\ new.held = old.held
      BY <1>3, <1>5, <2>2 DEF HoldKept, Fit, Slotted
    <3>4. ~new.root => \A b \in Branches : ~Enters(t, j, b)
      BY <3>1, <3>3 DEF HoldOf, SameEntrance, Enters
    <3>5. CASE new.finished \/ ~old.root
      BY <3>2, <3>3, <3>4, <3>5 DEF HoldOf, Enters
    <3>6. CASE ~(new.finished \/ ~old.root)
      BY <3>1, <3>3, <3>4, <3>6 DEF HoldOf, SameEntrance, Enters
    <3> QED BY <3>5, <3>6
  <2>3. \A j \in 1 .. n : HoldKept(s.item[j], t.item[j])
    BY <1>2 DEF ItemStep, HoldKept, Like
  <2> QED BY <2>1, <2>2, <2>3 DEF Holding
<1>9. Sorted(t)
  BY <1>1 DEF Core, Sorted
<1>10. Stopped(t, n)
  BY DEF ItemStep
<1> QED BY <1>1, <1>3, <1>6, <1>7, <1>8, <1>9, <1>10, ItemStepCounts DEF Core

\* A sealed body is settled, and its hold ends if no batch came.
LEMMA SealBodyFits ==
  ASSUME NEW it \in ItemRecords, Held(it), NEW body \in {"closed", "retained"},
         Fit([it EXCEPT !.body = body])
  PROVE  LET x == SealBody(it, body)
         IN  /\ x \in ItemRecords /\ Fit(x) /\ Held(x) /\ Settled(x)
             /\ x.body = body /\ x.reached = it.reached /\ x.published = it.published
             /\ x.canceled = it.canceled /\ x.returned = it.returned
             /\ x.finished = it.finished /\ x.failed = it.failed /\ x.proc = it.proc
             /\ x.root = it.root /\ x.joined = it.joined /\ x.retains = it.retains
             /\ x.unexhausted = it.unexhausted /\ x.tasks = it.tasks /\ x.err = it.err
             /\ HoldKept(it, x) /\ x.begun = it.begun /\ x.held = it.held
<1> DEFINE y == [it EXCEPT !.body = body]
           z == Settle(y)
           x == SealBody(it, body)
<1>1. y \in ItemRecords /\ Fit(y)
  BY DEF ItemRecords, Bodies
<1>2. /\ y.body = body /\ y.reached = it.reached /\ y.published = it.published
      /\ y.canceled = it.canceled /\ y.returned = it.returned /\ y.finished = it.finished
      /\ y.failed = it.failed /\ y.proc = it.proc /\ y.root = it.root
      /\ y.joined = it.joined /\ y.retains = it.retains /\ y.unexhausted = it.unexhausted
      /\ y.tasks = it.tasks /\ y.err = it.err /\ y.token = it.token
      /\ y.awaiting = it.awaiting /\ y.begun = it.begun /\ y.held = it.held
  BY DEF ItemRecords
<1>3. x = IF it.root THEN z ELSE DischargeHold(z)
  BY DEF SealBody
<1> HIDE DEF y
<1>4. /\ Soft(y, z) /\ Fit(z) /\ Settled(z)
      /\ z.unexhausted = y.unexhausted /\ z.tasks = y.tasks /\ z.err = y.err
      /\ z.token = y.token /\ z.awaiting = y.awaiting /\ z.begun = y.begun
  BY <1>1, SettleFits
<1> HIDE DEF x, z
<1>5. CASE it.root
  <2>1. x = z
    BY <1>3, <1>5
  <2>2. Held(z)
    BY <1>2, <1>4, <1>5 DEF Held, Soft, Same
  <2>3. z \in ItemRecords /\ Same(y, z)
    BY <1>4 DEF Soft
  <2>4. /\ z.body = body /\ z.reached = it.reached /\ z.published = it.published
        /\ z.canceled = it.canceled /\ z.returned = it.returned
        /\ z.finished = it.finished /\ z.failed = it.failed /\ z.proc = it.proc
        /\ z.root = it.root /\ z.joined = it.joined /\ z.retains = it.retains
    BY <1>2, <2>3 DEF Same
  <2>5. HoldKept(it, z) /\ z.begun = it.begun /\ z.held = it.held
    BY <1>2, <1>4, <2>3 DEF HoldKept, Same
  <2> QED BY <1>2, <1>4, <1>5, <2>1, <2>2, <2>3, <2>4, <2>5 DEF x
<1>6. CASE ~it.root
  <2>1. x = DischargeHold(z)
    BY <1>3, <1>6
  <2>2. z \in ItemRecords
    BY <1>4 DEF Soft
  <2>3. /\ z.body # "none" /\ z.body # "open" /\ (z.begun => z.root)
    BY <1>2, <1>4 DEF Soft, Same, Held
  <2>4. /\ Soft(z, x) /\ SameGroup(z, x) /\ Fit(x) /\ Held(x) /\ x.token = "none"
        /\ x.begun = z.begun
    BY <1>4, <2>1, <2>2, <2>3, DischargeHoldFits
  <2>5. Settled(x)
    BY <1>4, <2>4 DEF Settled, Soft, Same, SameGroup, Idle
  <2>6. HoldKept(it, x) /\ x.begun = it.begun /\ x.held = it.held
    BY <1>2, <1>4, <1>6, <2>4 DEF HoldKept, Soft, Same
  <2> QED BY <1>2, <1>4, <2>4, <2>5, <2>6 DEF Soft, Same, SameGroup, x
<1> QED BY <1>5, <1>6

-----------------------------------------------------------------------------
(* What every step does *)

\* Prepared work of i is kept, becomes its initial batch, or can never be that.
Activated(i) ==
    item[i].dormant # {} =>
        \/ item'[i].dormant = item[i].dormant /\ item'[i].body = "none"
        \/ item'[i].body = "open" /\ item'[i].root
        \/ item'[i].reached > NodeRank \/ item'[i].returned
        \/ item[i].canceled # "no"

\* A task starts only when no older item has work left in the queue.
Served ==
    \A b \in Branches, i \in Items : running'[b][i] > running[b][i] =>
        \A k \in DOMAIN queue'[b] : queue'[b][k].item >= i

\* Item i stays where it has published itself to be, or gets further, in flight.
Climbs(i) ==
    \/ item'[i].published = item[i].published /\ (item[i].finished => item'[i].finished)
    \/ /\ item'[i].published >= item[i].published
       /\ ~item[i].finished /\ ~item'[i].finished

\* The line of items: a new one joins it, or one of them at most gets further
\* or leaves.
Lined ==
    \/ created' = created + 1 /\ item' = Append(item, NewItem)
    \/ /\ created' = created
       /\ \E i \in Nat :
             /\ \A j \in DOMAIN item : j # i => /\ item'[j].published = item[j].published
                                               /\ item'[j].finished = item[j].finished
             /\ i \in DOMAIN item => Climbs(i)

\* The invariant is kept, and what the action properties say is done.
Goes ==
    /\ IInv'
    /\ Served
    /\ \A i \in DOMAIN item : Activated(i)
    /\ \A i \in DOMAIN item : item'[i].reached # item[i].reached => Able(i)
    /\ Lined

\* A committed cascade is the next state.
LEMMA CommitState ==
  ASSUME NEW n, NEW t \in States(n), Commit(t)
  PROVE  State' = t
BY DEF States, Commit, State

\* The invariant in terms of the variables.
LEMMA StateOfIInv ==
  ASSUME IInv
  PROVE  /\ Core(State, created) /\ created \in 0 .. NItems /\ created \in Nat
         /\ loose \in [Branches -> Nat] /\ mode \in Modes
         /\ State.item = item /\ State.queue = queue /\ State.running = running
         /\ State.limit = limit /\ State.stopping = stopping
         /\ DOMAIN item = 1 .. created
         /\ item \in [1 .. created -> ItemRecords]
         /\ 1 .. created \subseteq Items
<1>1. /\ State.item = item /\ State.queue = queue /\ State.running = running
      /\ State.limit = limit /\ State.stopping = stopping
  BY DEF State
<1>2. State \in States(created) /\ created \in 0 .. NItems
  BY DEF IInv, Core
<1> QED BY <1>1, <1>2, StateFields DEF IInv

\* A step of one item does what every step should.
LEMMA ItemStepGoes ==
  ASSUME IInv, NEW i \in 1 .. created, NEW t, ItemStep(State, t, created, i), Commit(t),
         created' = created, mode' = mode, limit' = limit, loose' \in [Branches -> Nat],
         \A b \in Branches : Occupied(State, b) + loose[b] <= Occupied(t, b) + loose'[b],
         Activated(i), item'[i].reached # item[i].reached => Able(i), Climbs(i)
  PROVE  Goes
<1>1. /\ Core(State, created) /\ created \in 0 .. NItems /\ created \in Nat
      /\ loose \in [Branches -> Nat] /\ mode \in Modes
      /\ State.item = item /\ State.queue = queue /\ State.running = running
      /\ State.limit = limit /\ State.stopping = stopping
      /\ DOMAIN item = 1 .. created
      /\ item \in [1 .. created -> ItemRecords]
  BY StateOfIInv
<1>2. Core(t, created)
  BY <1>1, ItemStepKeeps
<1>3. State' = t /\ t.item = item' /\ t.queue = queue' /\ t.running = running'
  BY <1>2, CommitState DEF Core, Commit
<1>4. queue' = queue
  BY <1>1, <1>3 DEF ItemStep
<1>5. IInv'
  <2>1. ASSUME NEW b \in Branches, queue'[b] # <<>>
        PROVE  Occupied(t, b) + loose'[b] >= limit'[b]
    <3>1. Occupied(State, b) + loose[b] >= limit[b]
      BY <1>4, <2>1 DEF IInv, NoStrandedWork
    <3>2. Occupied(State, b) + loose[b] <= Occupied(t, b) + loose'[b]
      OBVIOUS
    <3>3. Occupied(State, b) \in Nat /\ Occupied(t, b) \in Nat
      BY <1>1, <1>2, Occupies
    <3>4. limit[b] \in Nat /\ loose[b] \in Nat /\ loose'[b] \in Nat
      <4>1. limit \in [Branches -> Nat \ {0}]
        BY <1>1, StateFields DEF Core
      <4> QED BY <1>1, <4>1
    <3> QED BY <3>1, <3>2, <3>3, <3>4
  <2>2. NoStrandedWork'
    BY <1>3, <2>1 DEF NoStrandedWork
  <2> QED BY <1>1, <1>2, <1>3, <2>2 DEF IInv
<1>6. Served
  <2>1. \A b \in Branches, j \in Items : t.running[b][j] <= running[b][j]
    BY <1>1, ItemStepCounts
  <2>2. \A b \in Branches, j \in Items : t.running[b][j] \in Nat /\ running[b][j] \in Nat
    BY <1>1, <1>2, StateFields DEF Core
  <2> QED BY <1>3, <2>1, <2>2 DEF Served
<1>7. \A j \in 1 .. created : j # i => Like(item[j], item'[j])
  BY <1>1, <1>3 DEF ItemStep
<1>8. \A j \in DOMAIN item : Activated(j)
  <2>1. ASSUME NEW j \in 1 .. created, j # i PROVE Activated(j)
    <3>1. Fit(item[j])
      BY <1>1 DEF Core
    <3> QED BY <1>7, <2>1, <3>1 DEF Like, Fit, Placed, Activated
  <2> QED BY <1>1, <2>1
<1>9. \A j \in DOMAIN item : item'[j].reached # item[j].reached => Able(j)
  BY <1>1, <1>7 DEF Like
<1>10. Lined
  <2>1. \A j \in DOMAIN item : j # i => /\ item'[j].published = item[j].published
                                        /\ item'[j].finished = item[j].finished
    BY <1>1, <1>7 DEF Like
  <2>2. i \in Nat
    BY <1>1
  <2> QED BY <2>1, <2>2 DEF Lined
<1> QED BY <1>5, <1>6, <1>8, <1>9, <1>10 DEF Goes

\* The record x that item i may get without anybody else noticing.
Allowed(i, x) ==
    LET it == item[i]
    IN  /\ x \in ItemRecords /\ Fit(x) /\ Held(x) /\ Settled(x)
        /\ x.unexhausted = it.unexhausted /\ x.tasks = it.tasks
        /\ x.published >= it.published /\ x.finished = it.finished
        /\ x.published = it.published \/ ~it.finished
        /\ x.failed = it.failed /\ x.canceled = it.canceled
        /\ \/ x.reached = it.reached
           \/ /\ Able(i)
              /\ \A j \in 1 .. i - 1 : item[j].finished \/ x.reached <= item[j].published
        /\ HoldKept(it, x)

\* An allowed record makes such a step.
LEMMA AllowedStep ==
  ASSUME IInv, NEW i \in 1 .. created, NEW x, Allowed(i, x),
         NEW t, t = [State EXCEPT !.item[i] = x]
  PROVE  ItemStep(State, t, created, i) /\ Put(State, t, created, i, x)
<1>1. /\ Core(State, created) /\ created \in 0 .. NItems /\ created \in Nat
      /\ State.item = item /\ State.stopping = stopping
      /\ item \in [1 .. created -> ItemRecords] /\ State \in States(created)
  BY StateOfIInv DEF Core
<1>2. Put(State, t, created, i, x)
  <2>1. x \in ItemRecords
    BY DEF Allowed
  <2>2. Put(State, [State EXCEPT !.item[i] = x], created, i, x)
    BY <1>1, <2>1, ItemPut
  <2> QED BY <2>2
<1>3. \A j \in 1 .. created : j # i => Like(item[j], t.item[j])
  BY <1>1, <1>2 DEF Put, Like, SameGroup
<1>4. \A j \in 1 .. created : /\ t.item[j].failed = item[j].failed
                              /\ t.item[j].finished = item[j].finished
                              /\ t.item[j].canceled = item[j].canceled
  BY <1>1, <1>2 DEF Put, Allowed
<1>5. Stopped(t, created)
  <2>1. Stopped(State, created)
    BY <1>1 DEF Core
  <2> SUFFICES ASSUME NEW a \in 1 .. created, t.item[a].failed
               PROVE  /\ t.stopping
                      /\ \A c \in a + 1 .. created :
                            t.item[c].finished \/ t.item[c].canceled # "no"
    BY DEF Stopped
  <2>2. a + 1 .. created \subseteq 1 .. created
    BY <1>1
  <2>3. /\ stopping
        /\ \A c \in a + 1 .. created : item[c].finished \/ item[c].canceled # "no"
    BY <1>1, <1>4, <2>1 DEF Stopped
  <2> QED BY <1>1, <1>2, <1>4, <2>2, <2>3 DEF Put
<1> QED BY <1>1, <1>2, <1>3, <1>5 DEF ItemStep, Put, Allowed

\* So does an action that only replaces it.
LEMMA AllowedGoes ==
  ASSUME IInv, NEW i \in 1 .. created, NEW x, Allowed(i, x), item' = [item EXCEPT ![i] = x],
         UNCHANGED <<created, queue, running, loose, limit, mode, stopping>>,
         item[i].dormant # {} =>
             \/ x.dormant = item[i].dormant /\ x.body = "none"
             \/ x.reached > NodeRank \/ item[i].canceled # "no"
  PROVE  Goes
<1>1. /\ Core(State, created) /\ created \in 0 .. NItems /\ created \in Nat
      /\ loose \in [Branches -> Nat]
      /\ State.item = item /\ State.queue = queue /\ State.running = running
      /\ State.limit = limit /\ State.stopping = stopping
      /\ DOMAIN item = 1 .. created
      /\ item \in [1 .. created -> ItemRecords]
  BY StateOfIInv
<1> DEFINE t == [State EXCEPT !.item[i] = x]
<1>2. ItemStep(State, t, created, i) /\ Put(State, t, created, i, x)
  BY AllowedStep
<1>3. Commit(t)
  BY <1>1 DEF Commit, State
<1> HIDE DEF t
<1>4. item'[i] = x
  BY <1>1
<1>5. \A b \in Branches : Occupied(t, b) = Occupied(State, b) /\ Occupied(State, b) \in Nat
                          /\ loose[b] \in Nat
  <2>1. \A b \in Branches : Occupied(State, b) \in Nat
    BY <1>1, Occupies
  <2> QED BY <1>1, <1>2, <2>1 DEF Put, Occupied, Slots
<1>6. \A b \in Branches : Occupied(State, b) + loose[b] <= Occupied(t, b) + loose'[b]
  BY <1>5
<1>7. Activated(i)
  BY <1>4 DEF Activated
<1>8. item'[i].reached # item[i].reached => Able(i)
  BY <1>4 DEF Allowed
<1>9. loose' \in [Branches -> Nat] /\ created' = created /\ mode' = mode /\ limit' = limit
  BY <1>1
<1>10. Climbs(i)
  BY <1>4 DEF Climbs, Allowed
<1> QED BY <1>2, <1>3, <1>6, <1>7, <1>8, <1>9, <1>10, ItemStepGoes

\* What an item finds open is open to it past everybody ahead.
LEMMA GateOpens ==
  ASSUME IInv, NEW i \in 1 .. created, NEW r \in Int, GateOpen(i, r)
  PROVE  \A j \in 1 .. i - 1 : item[j].finished \/ r <= item[j].published
<1>1. /\ Core(State, created) /\ created \in Nat /\ State.item = item
      /\ DOMAIN item = 1 .. created
      /\ item \in [1 .. created -> ItemRecords]
  BY StateOfIInv
<1> SUFFICES ASSUME NEW j \in 1 .. i - 1, ~item[j].finished
             PROVE  r <= item[j].published
  OBVIOUS
<1> DEFINE A == Ahead(i)
           m == Max(A)
<1>2. A \in SUBSET (1 .. created) /\ j \in A /\ \A k \in A : k < i /\ ~item[k].finished
  BY <1>1 DEF Ahead, InFlight
<1> HIDE DEF A
<1>3. m \in A /\ \A k \in A : k <= m
  BY <1>1, <1>2, SetMax
<1>4. item[m].published >= r
  BY <1>2 DEF GateOpen, A
<1> HIDE DEF m
<1>5. /\ item[m].published <= item[m].reached
      /\ item[m].published \in Int /\ item[m].reached \in Int /\ item[j].published \in Int
  <2>1. item[m] \in ItemRecords /\ item[j] \in ItemRecords
    BY <1>1, <1>2, <1>3
  <2>2. Fit(item[m])
    BY <1>1, <1>2, <1>3 DEF Core
  <2> QED BY <2>1, <2>2 DEF ItemRecords, Fit, Placed
<1>6. CASE j = m
  BY <1>4, <1>6
<1>7. CASE j # m
  <2>1. j < m
    BY <1>1, <1>2, <1>3, <1>7
  <2>2. item[m].reached <= item[j].published
    BY <1>1, <1>2, <1>3, <2>1 DEF Core, Ordered
  <2> QED BY <1>4, <1>5, <2>2
<1> QED BY <1>6, <1>7

\* What is known of an item that takes a step.
LEMMA ItemOfIInv ==
  ASSUME IInv, NEW i \in DOMAIN item
  PROVE  /\ i \in 1 .. created /\ i \in Items /\ item[i] \in ItemRecords
         /\ Fit(item[i]) /\ Held(item[i]) /\ Settled(item[i])
         /\ ~item[i].returned => ~item[i].finished
<1>1. i \in 1 .. created /\ i \in Items /\ item[i] \in ItemRecords
  BY StateOfIInv
<1>2. Fit(item[i]) /\ Held(item[i]) /\ Settled(item[i])
  BY <1>1, StateOfIInv DEF Core
<1> QED BY <1>1, <1>2 DEF Fit, Told

\* Work is prepared before entry.
LEMMA PrepareGoes ==
  ASSUME IInv, NEW i \in Items, NEW batch \in Batches, Prepare(i, batch)
  PROVE  Goes
<1> DEFINE it == item[i]
           d == {batch}
           m == it.submits + 1
           x == [it EXCEPT !.dormant = d, !.submits = m]
<1>1. i \in DOMAIN item
  BY DEF Prepare, Able, Active
<1>2. /\ i \in 1 .. created /\ it \in ItemRecords /\ Fit(it) /\ Held(it) /\ Settled(it)
  BY <1>1, ItemOfIInv
<1>3. ~it.returned /\ it.body = "none" /\ it.reached <= NodeRank /\ it.dormant = {}
  BY DEF Prepare, Able, Active
<1> HIDE DEF it
<1>4. /\ x \in ItemRecords /\ x.body = "none" /\ x.reached = it.reached
      /\ x.published = it.published /\ x.finished = it.finished /\ x.failed = it.failed
      /\ x.canceled = it.canceled /\ x.returned = it.returned /\ x.proc = it.proc
      /\ x.err = it.err /\ x.joined = it.joined /\ x.dead = it.dead /\ x.done = it.done
      /\ x.root = it.root /\ x.slots = it.slots /\ x.queuedAt = it.queuedAt
      /\ x.token = it.token /\ x.awaiting = it.awaiting /\ x.retains = it.retains
      /\ x.begun = it.begun /\ x.held = it.held /\ x.broke = it.broke
      /\ x.unexhausted = it.unexhausted /\ x.tasks = it.tasks /\ x.dormant = d
  <2>1. d \in SUBSET Batches /\ m \in Nat
    BY <1>2 DEF ItemRecords
  <2> HIDE DEF d, m
  <2>2. x \in ItemRecords
    BY <1>2, <2>1, Zenon DEF ItemRecords
  <2> QED BY <1>2, <1>3, <2>2 DEF ItemRecords
<1> HIDE DEF x
<1>5. x.reached < NodeRank /\ x.published \in Int
  BY <1>2, <1>3, <1>4 DEF Fit, Placed, ItemRecords, GateRank, RoomRank, NodeRank, BeyondRank
<1>6. Fit(x) /\ Held(x) /\ Settled(x)
  <2>1. Placed(x)
    BY <1>2, <1>3, <1>4, <1>5 DEF Fit, Placed
  <2>2. Slotted(x)
    BY <1>2, <1>3, <1>4 DEF Fit, Slotted
  <2>3. Told(x)
    BY <1>2, <1>3, <1>4 DEF Fit, Told, Failing
  <2> QED BY <1>2, <1>3, <1>4, <2>1, <2>2, <2>3 DEF Fit, Held, Settled
<1>7. Allowed(i, x)
  BY <1>4, <1>5, <1>6 DEF Allowed, HoldKept, it
<1>8. /\ item' = [item EXCEPT ![i] = x]
      /\ UNCHANGED <<created, queue, running, loose, limit, mode, stopping>>
  BY DEF Prepare, x, it, d, m
<1> QED BY <1>2, <1>3, <1>7, <1>8, AllowedGoes DEF it

\* Prepared work of a canceled item is dropped.
LEMMA RefusedGoes ==
  ASSUME IInv, NEW i \in Items, Refused(i)
  PROVE  Goes
<1> DEFINE it == item[i]
           x == [it EXCEPT !.dormant = {}]
<1>1. i \in DOMAIN item
  BY DEF Refused, Active
<1>2. /\ i \in 1 .. created /\ it \in ItemRecords /\ Fit(it) /\ Held(it) /\ Settled(it)
  BY <1>1, ItemOfIInv
<1>3. it.canceled # "no"
  BY DEF Refused
<1> HIDE DEF it
<1>4. /\ x \in ItemRecords /\ Same(it, x) /\ SameGroup(it, x) /\ x.dormant = {}
      /\ x.slots = it.slots /\ x.queuedAt = it.queuedAt
      /\ x.token = it.token /\ x.awaiting = it.awaiting
      /\ x.begun = it.begun /\ x.held = it.held /\ x.broke = it.broke
  BY <1>2 DEF ItemRecords, Same, SameGroup
<1> HIDE DEF x
<1>5. Fit(x) /\ Held(x) /\ Settled(x)
  <2>1. Placed(x)
    BY <1>2, <1>4 DEF Fit, Placed, Same
  <2>2. Slotted(x)
    BY <1>2, <1>4 DEF Fit, Slotted, Same, SameGroup
  <2>3. Told(x)
    BY <1>2, <1>4 DEF Fit, Told, Failing, Same, SameGroup
  <2> QED BY <1>2, <1>4, <2>1, <2>2, <2>3 DEF Fit, Held, Settled, Same, SameGroup, Idle
<1>6. Allowed(i, x)
  <2>1. x.published \in Int
    BY <1>4 DEF ItemRecords
  <2> QED BY <1>4, <1>5, <2>1 DEF Allowed, HoldKept, it, Same, SameGroup
<1>7. /\ item' = [item EXCEPT ![i] = x]
      /\ UNCHANGED <<created, queue, running, loose, limit, mode, stopping>>
  BY DEF Refused, x, it
<1> QED BY <1>2, <1>3, <1>6, <1>7, AllowedGoes DEF it

\* An outcome is joined.
LEMMA JoinGoes ==
  ASSUME IInv, NEW i \in Items, Join(i)
  PROVE  Goes
<1> DEFINE it == item[i]
           x == [it EXCEPT !.joined = TRUE]
<1>1. i \in DOMAIN item
  BY DEF Join, Active
<1>2. /\ i \in 1 .. created /\ it \in ItemRecords /\ Fit(it) /\ Held(it) /\ Settled(it)
  BY <1>1, ItemOfIInv
<1>3. ~it.returned /\ it.body # "none"
  BY DEF Join, Active
<1> HIDE DEF it
<1>4. /\ x \in ItemRecords /\ x.body = it.body /\ x.reached = it.reached
      /\ x.published = it.published /\ x.finished = it.finished /\ x.failed = it.failed
      /\ x.canceled = it.canceled /\ x.returned = it.returned /\ x.proc = it.proc
      /\ x.root = it.root /\ x.slots = it.slots /\ x.queuedAt = it.queuedAt
      /\ x.token = it.token /\ x.awaiting = it.awaiting /\ x.retains = it.retains
      /\ x.begun = it.begun /\ x.held = it.held /\ x.broke = it.broke
      /\ x.dormant = it.dormant /\ SameGroup(it, x)
  BY <1>2 DEF ItemRecords, SameGroup
<1> HIDE DEF x
<1>5. Fit(x) /\ Held(x) /\ Settled(x) /\ it.dormant = {}
  <2>1. Placed(x) /\ it.dormant = {}
    BY <1>2, <1>3, <1>4 DEF Fit, Placed
  <2>2. Slotted(x)
    BY <1>2, <1>4 DEF Fit, Slotted, SameGroup
  <2>3. Told(x)
    BY <1>2, <1>3, <1>4 DEF Fit, Told, Failing, SameGroup
  <2> QED BY <1>2, <1>4, <2>1, <2>2, <2>3 DEF Fit, Held, Settled, SameGroup, Idle
<1>6. Allowed(i, x)
  <2>1. x.published \in Int
    BY <1>4 DEF ItemRecords
  <2> QED BY <1>4, <1>5, <2>1 DEF Allowed, HoldKept, it, SameGroup
<1>7. /\ item' = [item EXCEPT ![i] = x]
      /\ UNCHANGED <<created, queue, running, loose, limit, mode, stopping>>
  BY DEF Join, x, it
<1> QED BY <1>2, <1>5, <1>6, <1>7, AllowedGoes DEF it

\* An idle body is closed.
LEMMA CloseBodyGoes ==
  ASSUME IInv, NEW i \in Items, CloseBody(i)
  PROVE  Goes
<1> DEFINE it == item[i]
           z == [it EXCEPT !.joined = TRUE]
           y == [z EXCEPT !.body = "closed"]
           x == SealBody(z, "closed")
<1>1. i \in DOMAIN item
  BY DEF CloseBody, Active
<1>2. /\ i \in 1 .. created /\ it \in ItemRecords /\ Fit(it) /\ Held(it) /\ Settled(it)
  BY <1>1, ItemOfIInv
<1>3. ~it.returned /\ it.body = "open"
  BY DEF CloseBody, Active
<1> HIDE DEF it
<1>4. /\ z \in ItemRecords /\ z.body = it.body /\ z.reached = it.reached
      /\ z.published = it.published /\ z.finished = it.finished /\ z.failed = it.failed
      /\ z.canceled = it.canceled /\ z.returned = it.returned /\ z.proc = it.proc
      /\ z.root = it.root /\ z.slots = it.slots /\ z.queuedAt = it.queuedAt
      /\ z.token = it.token /\ z.awaiting = it.awaiting /\ z.retains = it.retains
      /\ z.begun = it.begun /\ z.held = it.held /\ z.broke = it.broke
      /\ z.dormant = it.dormant /\ SameGroup(it, z)
  BY <1>2 DEF ItemRecords, SameGroup
<1> HIDE DEF z
<1>5. /\ y.body = "closed" /\ y.reached = z.reached
      /\ y.published = z.published /\ y.finished = z.finished /\ y.failed = z.failed
      /\ y.returned = z.returned /\ y.proc = z.proc /\ y.joined = z.joined
      /\ y.root = z.root /\ y.slots = z.slots /\ y.queuedAt = z.queuedAt
      /\ y.token = z.token /\ y.retains = z.retains /\ y.broke = z.broke
      /\ y.dormant = z.dormant /\ SameGroup(z, y)
  BY <1>4 DEF ItemRecords, SameGroup
<1>6. Fit(y) /\ Held(z)
  <2> HIDE DEF y
  <2>1. Placed(y)
    BY <1>2, <1>3, <1>4, <1>5 DEF Fit, Placed
  <2>2. Slotted(y)
    BY <1>2, <1>3, <1>4, <1>5 DEF Fit, Slotted, SameGroup
  <2>3. Told(y)
    BY <1>2, <1>3, <1>4, <1>5 DEF Fit, Told, Failing, SameGroup
  <2>4. Held(z)
    BY <1>2, <1>4 DEF Held
  <2> QED BY <2>1, <2>2, <2>3, <2>4 DEF Fit
<1>7. /\ x \in ItemRecords /\ Fit(x) /\ Held(x) /\ Settled(x)
      /\ x.body = "closed" /\ x.reached = z.reached /\ x.published = z.published
      /\ x.canceled = z.canceled /\ x.finished = z.finished /\ x.failed = z.failed
      /\ x.unexhausted = z.unexhausted /\ x.tasks = z.tasks
      /\ HoldKept(z, x)
  BY <1>4, <1>6, SealBodyFits
<1> HIDE DEF x, y
<1>8. Allowed(i, x)
  <2>1. x.published \in Int
    BY <1>7 DEF ItemRecords
  <2> QED BY <1>4, <1>7, <2>1 DEF Allowed, HoldKept, it, SameGroup
<1>9. /\ item' = [item EXCEPT ![i] = x]
      /\ UNCHANGED <<created, queue, running, loose, limit, mode, stopping>>
  BY DEF CloseBody, x, z, it
<1>10. it.dormant = {}
  BY <1>2, <1>3 DEF Fit, Placed
<1> QED BY <1>2, <1>8, <1>9, <1>10, AllowedGoes DEF it

\* The body keeps the slot, and the door opens.
LEMMA RetainGoes ==
  ASSUME IInv, NEW i \in Items, Retain(i)
  PROVE  Goes
<1> DEFINE it == item[i]
           z == [it EXCEPT !.retains = TRUE]
           y == [z EXCEPT !.body = "retained"]
           w == SealBody(z, "retained")
           p == Max({w.published, NodeRank})
           x == [w EXCEPT !.published = p]
<1>1. i \in DOMAIN item
  BY DEF Retain, Active
<1>2. /\ i \in 1 .. created /\ it \in ItemRecords /\ Fit(it) /\ Held(it) /\ Settled(it)
      /\ (~it.returned => ~it.finished)
  BY <1>1, ItemOfIInv
<1>3. ~it.returned /\ it.body = "open"
  BY DEF Retain, Active
<1> HIDE DEF it
<1>4. /\ z \in ItemRecords /\ z.body = it.body /\ z.reached = it.reached
      /\ z.published = it.published /\ z.finished = it.finished /\ z.failed = it.failed
      /\ z.canceled = it.canceled /\ z.returned = it.returned /\ z.proc = it.proc
      /\ z.root = it.root /\ z.slots = it.slots /\ z.queuedAt = it.queuedAt
      /\ z.token = it.token /\ z.awaiting = it.awaiting /\ z.retains
      /\ z.begun = it.begun /\ z.held = it.held /\ z.broke = it.broke
      /\ z.dormant = it.dormant /\ z.joined = it.joined /\ SameGroup(it, z)
  BY <1>2 DEF ItemRecords, SameGroup
<1> HIDE DEF z
<1>5. /\ y.body = "retained" /\ y.reached = z.reached
      /\ y.published = z.published /\ y.finished = z.finished /\ y.failed = z.failed
      /\ y.returned = z.returned /\ y.proc = z.proc /\ y.joined = z.joined
      /\ y.root = z.root /\ y.slots = z.slots /\ y.queuedAt = z.queuedAt
      /\ y.token = z.token /\ y.retains = z.retains /\ y.broke = z.broke
      /\ y.dormant = z.dormant /\ SameGroup(z, y)
  BY <1>4 DEF ItemRecords, SameGroup
<1>6. Fit(y) /\ Held(z)
  <2> HIDE DEF y
  <2>1. Placed(y)
    BY <1>2, <1>3, <1>4, <1>5 DEF Fit, Placed
  <2>2. Slotted(y)
    BY <1>2, <1>3, <1>4, <1>5 DEF Fit, Slotted, SameGroup
  <2>3. Told(y)
    BY <1>2, <1>3, <1>4, <1>5 DEF Fit, Told, Failing, SameGroup
  <2>4. Held(z)
    BY <1>2, <1>4 DEF Held
  <2> QED BY <2>1, <2>2, <2>3, <2>4 DEF Fit
<1>7. /\ w \in ItemRecords /\ Fit(w) /\ Held(w) /\ Settled(w)
      /\ w.body = "retained" /\ w.reached = z.reached /\ w.published = z.published
      /\ w.canceled = z.canceled /\ w.finished = z.finished /\ w.failed = z.failed
      /\ w.unexhausted = z.unexhausted /\ w.tasks = z.tasks
      /\ HoldKept(z, w)
  BY <1>4, <1>6, SealBodyFits
<1>8. /\ p \in Int /\ p >= w.published /\ p >= NodeRank /\ p <= w.reached
      /\ w.published \in Int /\ w.reached \in Int
  <2>1. w.published \in Int /\ w.reached \in Int
    BY <1>7 DEF ItemRecords
  <2>2. p = IF w.published >= NodeRank THEN w.published ELSE NodeRank
    <3> HIDE DEF w
    <3> QED BY <2>1, MaxOfTwo DEF NodeRank
  <2> HIDE DEF p, w
  <2> QED BY <1>7, <2>1, <2>2 DEF Fit, Placed, NodeRank
<1> HIDE DEF w, p, y
<1>9. /\ x \in ItemRecords /\ x.published = p
      /\ x.body = w.body /\ x.reached = w.reached /\ x.finished = w.finished
      /\ x.failed = w.failed /\ x.canceled = w.canceled /\ x.returned = w.returned
      /\ x.proc = w.proc /\ x.root = w.root /\ x.slots = w.slots /\ x.queuedAt = w.queuedAt
      /\ x.token = w.token /\ x.awaiting = w.awaiting /\ x.retains = w.retains
      /\ x.begun = w.begun /\ x.held = w.held /\ x.broke = w.broke
      /\ x.dormant = w.dormant /\ x.joined = w.joined /\ SameGroup(w, x)
  BY <1>7, <1>8 DEF ItemRecords, SameGroup
<1> HIDE DEF x
<1>10. Fit(x) /\ Held(x) /\ Settled(x)
  <2>1. Placed(x)
    BY <1>7, <1>8, <1>9 DEF Fit, Placed, GateRank, RoomRank, NodeRank, BeyondRank
  <2>2. Slotted(x)
    BY <1>7, <1>9 DEF Fit, Slotted, SameGroup
  <2>3. Told(x)
    BY <1>7, <1>9 DEF Fit, Told, Failing, SameGroup
  <2> QED BY <1>7, <1>9, <2>1, <2>2, <2>3 DEF Fit, Held, Settled, SameGroup, Idle
<1>11. Allowed(i, x)
  BY <1>2, <1>3, <1>4, <1>7, <1>8, <1>9, <1>10 DEF Allowed, HoldKept, it, SameGroup
<1>12. /\ item' = [item EXCEPT ![i] = x]
       /\ UNCHANGED <<created, queue, running, loose, limit, mode, stopping>>
  BY DEF Retain, x, w, p, z, it
<1>13. it.dormant = {}
  BY <1>2, <1>3 DEF Fit, Placed
<1> QED BY <1>2, <1>11, <1>12, <1>13, AllowedGoes DEF it

\* An item enters the waiting room.
LEMMA StepAsideGoes ==
  ASSUME IInv, NEW i \in Items, StepAside(i)
  PROVE  Goes
<1> DEFINE it == item[i]
           p == Max({it.published, RoomRank})
           w == [it EXCEPT !.queuedAt = TRUE, !.reached = RoomRank, !.published = p]
           x == ReleaseBelow(w, RoomRank)
<1>1. i \in DOMAIN item
  BY DEF StepAside, Able, Active
<1>2. /\ i \in 1 .. created /\ it \in ItemRecords /\ Fit(it) /\ Held(it) /\ Settled(it)
      /\ (~it.returned => ~it.finished)
  BY <1>1, ItemOfIInv
<1>3. ~it.returned /\ it.body = "none" /\ it.reached = GateRank
  BY DEF StepAside, Able, Active
<1>4. \A j \in 1 .. i - 1 : item[j].finished \/ RoomRank <= item[j].published
  <2>1. GateOpen(i, RoomRank) /\ RoomRank \in Int
    BY DEF StepAside, CanEnterQueue, RoomRank
  <2> QED BY <1>2, <2>1, GateOpens
<1>5. it.published \in Int
  BY <1>2 DEF ItemRecords
<1>6. p = RoomRank
  <2>1. p = IF it.published >= RoomRank THEN it.published ELSE RoomRank
    <3> HIDE DEF it
    <3> QED BY <1>5, MaxOfTwo DEF RoomRank
  <2> HIDE DEF it, p
  <2> QED BY <1>2, <1>3, <1>5, <2>1 DEF Fit, Placed, GateRank, RoomRank
<1> HIDE DEF it, p
<1>7. /\ w \in ItemRecords /\ w.queuedAt /\ w.reached = RoomRank /\ w.published = p
      /\ w.body = it.body /\ w.finished = it.finished
      /\ w.failed = it.failed /\ w.canceled = it.canceled /\ w.returned = it.returned
      /\ w.proc = it.proc /\ w.root = it.root /\ w.slots = it.slots
      /\ w.token = it.token /\ w.awaiting = it.awaiting /\ w.retains = it.retains
      /\ w.begun = it.begun /\ w.held = it.held /\ w.broke = it.broke
      /\ w.dormant = it.dormant /\ w.joined = it.joined /\ SameGroup(it, w)
  <2>1. p \in Int /\ RoomRank \in Int
    BY <1>6 DEF RoomRank
  <2>2. w \in ItemRecords
    BY <1>2, <2>1, Zenon DEF ItemRecords
  <2> QED BY <1>2, <2>2 DEF ItemRecords, SameGroup
<1> HIDE DEF w
<1>8. /\ x \in ItemRecords /\ Same(w, x) /\ SameGroup(w, x)
      /\ x.slots = {u \in w.slots : UnitRank(u) >= RoomRank \/ u \in Protected(w)}
      /\ x.queuedAt = (w.queuedAt /\ RoomRank >= RoomRank)
      /\ x.dormant = DropDormant(w, RoomRank)
      /\ x.token = w.token /\ x.awaiting = w.awaiting /\ x.begun = w.begun
  <2>1. RoomRank \in Int
    BY DEF RoomRank
  <2> QED BY <1>7, <2>1, ReleaseBelowFields
<1> HIDE DEF x
<1>9. x.dormant = it.dormant
  BY <1>7, <1>8 DEF DropDormant, NodeRank, RoomRank
<1>10. it.token = "none"
  BY <1>2, <1>3 DEF Fit, Slotted
<1>11. Fit(x) /\ Held(x) /\ Settled(x)
  <2>1. Placed(x)
    BY <1>2, <1>3, <1>6, <1>7, <1>8, <1>9
       DEF Fit, Placed, Same, GateRank, RoomRank, NodeRank, BeyondRank
  <2>2. Slotted(x)
    <3>1. "gate" \notin x.slots
      BY <1>7, <1>8, <1>10 DEF UnitRank, Protected, GateRank, RoomRank
    <3>2. "node" \in x.slots => it.retains /\ ~it.done
      BY <1>2, <1>3, <1>7, <1>8 DEF Fit, Slotted, GateRank, NodeRank
    <3> QED BY <1>2, <1>3, <1>7, <1>8, <1>10, <3>1, <3>2 DEF Slotted, Same, SameGroup
  <2>3. Told(x)
    BY <1>2, <1>3, <1>7, <1>8 DEF Fit, Told, Failing, Same, SameGroup
  <2> QED BY <1>2, <1>3, <1>7, <1>8, <1>10, <2>1, <2>2, <2>3 DEF Fit, Held, Settled, Same
<1>12. Allowed(i, x)
  <2>1. x.published >= it.published
    BY <1>2, <1>3, <1>5, <1>6, <1>7, <1>8 DEF Fit, Placed, Same, GateRank, RoomRank
  <2>2. Able(i)
    BY DEF StepAside
  <2>3. x.reached = RoomRank
    BY <1>7, <1>8 DEF Same
  <2>4. /\ x.finished = it.finished /\ x.failed = it.failed /\ x.canceled = it.canceled
        /\ x.unexhausted = it.unexhausted /\ x.tasks = it.tasks /\ x.root = it.root
        /\ ~it.root /\ ~it.finished
    BY <1>2, <1>3, <1>7, <1>8 DEF Fit, Placed, Same, SameGroup
  <2> QED BY <1>4, <1>8, <1>11, <2>1, <2>2, <2>3, <2>4 DEF Allowed, HoldKept, it
<1>13. /\ item' = [item EXCEPT ![i] = x]
       /\ UNCHANGED <<created, queue, running, loose, limit, mode, stopping>>
  BY DEF StepAside, x, w, p, it
<1>14. x.body = "none"
  BY <1>3, <1>7, <1>8 DEF Same
<1> QED BY <1>2, <1>9, <1>12, <1>13, <1>14, AllowedGoes DEF it

\* An item moves past the fan-out.
LEMMA MoveOnGoes ==
  ASSUME IInv, NEW i \in Items, MoveOn(i)
  PROVE  Goes
<1> DEFINE it == item[i]
           w == [it EXCEPT !.reached = BeyondRank, !.published = BeyondRank]
           x == ReleaseBelow(w, BeyondRank)
<1>1. i \in DOMAIN item
  BY DEF MoveOn, Able, Active
<1>2. /\ i \in 1 .. created /\ it \in ItemRecords /\ Fit(it) /\ Held(it) /\ Settled(it)
      /\ (~it.returned => ~it.finished)
  BY <1>1, ItemOfIInv
<1>3. ~it.returned /\ it.body # "open" /\ it.reached < BeyondRank
  BY DEF MoveOn, Able, Active
<1>4. \A j \in 1 .. i - 1 : item[j].finished \/ BeyondRank <= item[j].published
  <2>1. GateOpen(i, BeyondRank) /\ BeyondRank \in Int
    BY DEF MoveOn, BeyondRank
  <2> QED BY <1>2, <2>1, GateOpens
<1> HIDE DEF it
<1>5. /\ w \in ItemRecords /\ w.queuedAt = it.queuedAt
      /\ w.reached = BeyondRank /\ w.published = BeyondRank
      /\ w.body = it.body /\ w.finished = it.finished
      /\ w.failed = it.failed /\ w.canceled = it.canceled /\ w.returned = it.returned
      /\ w.proc = it.proc /\ w.root = it.root /\ w.slots = it.slots
      /\ w.token = it.token /\ w.awaiting = it.awaiting /\ w.retains = it.retains
      /\ w.begun = it.begun /\ w.held = it.held /\ w.broke = it.broke
      /\ w.dormant = it.dormant /\ w.joined = it.joined /\ SameGroup(it, w)
  <2>1. BeyondRank \in Int
    BY DEF BeyondRank
  <2>2. w \in ItemRecords
    BY <1>2, <2>1, Zenon DEF ItemRecords
  <2> QED BY <1>2, <2>2 DEF ItemRecords, SameGroup
<1> HIDE DEF w
<1>6. /\ x \in ItemRecords /\ Same(w, x) /\ SameGroup(w, x)
      /\ x.slots = {u \in w.slots : UnitRank(u) >= BeyondRank \/ u \in Protected(w)}
      /\ x.queuedAt = (w.queuedAt /\ RoomRank >= BeyondRank)
      /\ x.dormant = DropDormant(w, BeyondRank)
      /\ x.token = w.token /\ x.awaiting = w.awaiting /\ x.begun = w.begun
  <2>1. BeyondRank \in Int
    BY DEF BeyondRank
  <2> QED BY <1>5, <2>1, ReleaseBelowFields
<1> HIDE DEF x
<1>7. x.dormant = {} /\ ~x.queuedAt
  <2>1. x.dormant = {}
    BY <1>6 DEF DropDormant, NodeRank, BeyondRank
  <2>2. ~(RoomRank >= BeyondRank)
    BY DEF RoomRank, BeyondRank
  <2>3. ~x.queuedAt
    BY <1>6, <2>2
  <2> QED BY <2>1, <2>3
<1>8. Fit(x) /\ Held(x) /\ Settled(x)
  <2>1. Placed(x)
    BY <1>2, <1>5, <1>6, <1>7
       DEF Fit, Placed, Same, GateRank, RoomRank, NodeRank, BeyondRank
  <2>2. Slotted(x)
    <3>1. "gate" \in x.slots <=> "gate" \in it.slots /\ it.token = "gate"
      BY <1>5, <1>6 DEF UnitRank, Protected, GateRank, BeyondRank
    <3>2. it.token # "node"
      BY <1>2 DEF ItemRecords, Tokens
    <3>3. "node" \in x.slots => it.retains /\ ~it.done
      BY <1>5, <1>6, <3>2 DEF UnitRank, Protected, NodeRank, BeyondRank, SameGroup
    <3>4. it.finished => it.slots = {}
      BY <1>2 DEF Fit, Slotted
    <3>5. x.slots \subseteq it.slots
      BY <1>5, <1>6
    <3> QED BY <1>2, <1>5, <1>6, <1>7, <3>1, <3>3, <3>4, <3>5 DEF Fit, Slotted, Same, SameGroup
  <2>3. Told(x)
    BY <1>2, <1>3, <1>5, <1>6 DEF Fit, Told, Failing, Same, SameGroup
  <2> QED BY <1>2, <1>5, <1>6, <2>1, <2>2, <2>3 DEF Fit, Held, Settled, Same, SameGroup, Idle
<1>9. Allowed(i, x)
  <2>1. x.published >= it.published
    <3>1. it.published \in Int /\ it.reached \in Int
      BY <1>2 DEF ItemRecords
    <3> QED BY <1>2, <1>3, <1>5, <1>6, <3>1 DEF Fit, Placed, Same, BeyondRank
  <2>2. Able(i)
    BY DEF MoveOn
  <2>3. x.reached = BeyondRank
    BY <1>5, <1>6 DEF Same
  <2>4. /\ x.finished = it.finished /\ x.failed = it.failed /\ x.canceled = it.canceled
        /\ x.unexhausted = it.unexhausted /\ x.tasks = it.tasks /\ x.token = it.token
        /\ x.root = it.root /\ x.awaiting = it.awaiting /\ ~it.finished
        /\ x.begun = it.begun /\ x.held = it.held
    BY <1>2, <1>3, <1>5, <1>6 DEF Same, SameGroup
  <2> QED BY <1>4, <1>6, <1>8, <2>1, <2>2, <2>3, <2>4 DEF Allowed, HoldKept, it
<1>10. /\ item' = [item EXCEPT ![i] = x]
       /\ UNCHANGED <<created, queue, running, loose, limit, mode, stopping>>
  BY DEF MoveOn, x, w, it
<1>11. x.reached > NodeRank
  BY <1>5, <1>6 DEF Same, NodeRank, BeyondRank
<1> QED BY <1>2, <1>9, <1>10, <1>11, AllowedGoes DEF it

\* A submission into an allowed record of i.
LEMMA SubmitGoes ==
  ASSUME IInv, NEW i \in 1 .. created, NEW x, Allowed(i, x),
         NEW u, u = [State EXCEPT !.item[i] = x], NEW batch \in Batches, NEW root \in BOOLEAN,
         root => x.body = "open", ~root => x.tasks > 0 /\ x.published >= NodeRank,
         Commit(SubmitClaimed(u, i, batch, root)), UNCHANGED <<created, loose, mode>>,
         item[i].dormant = {} \/ root
  PROVE  Goes
<1> DEFINE t == SubmitClaimed(u, i, batch, root)
<1>1. /\ Core(State, created) /\ created \in 0 .. NItems /\ created \in Nat
      /\ loose \in [Branches -> Nat] /\ mode \in Modes
      /\ State.item = item /\ State.queue = queue /\ State.running = running
      /\ State.limit = limit /\ State.stopping = stopping
      /\ DOMAIN item = 1 .. created
      /\ item \in [1 .. created -> ItemRecords]
  BY StateOfIInv
<1>2. ItemStep(State, u, created, i) /\ Put(State, u, created, i, x)
  BY AllowedStep
<1>3. Core(u, created)
  BY <1>1, <1>2, ItemStepKeeps
<1>4. /\ u.queue = queue /\ u.running = running /\ u.limit = limit /\ u.item[i] = x
      /\ \A j \in 1 .. created : j # i => u.item[j] = item[j]
  BY <1>1, <1>2 DEF Put
<1>5. Core(t, created) /\ Submitted(u, t, created, i, root)
  <2>1. /\ root => u.item[i].body = "open"
        /\ ~root => u.item[i].tasks > 0 /\ u.item[i].published >= NodeRank
    BY <1>4
  <2>2. created \in 0 .. NItems
    BY <1>1
  <2> QED BY <1>3, <2>1, <2>2, SubmitClaimedKeeps
<1> HIDE DEF t
<1>6. State' = t /\ t.item = item' /\ t.queue = queue' /\ t.running = running' /\ t.limit = limit'
  BY <1>5, CommitState DEF Core, Commit, t
<1>7. \A b \in Branches : Occupied(u, b) = Occupied(State, b)
  <2>1. u.running = State.running
    BY <1>1, <1>4
  <2> QED BY <2>1 DEF Occupied, Slots
<1>8. NoStrandedWork'
  <2> SUFFICES ASSUME NEW b \in Branches, queue'[b] # <<>>
               PROVE  Occupied(t, b) + loose'[b] >= limit'[b]
    BY <1>6 DEF NoStrandedWork
  <2>1. Occupied(State, b) \in Nat /\ Occupied(t, b) \in Nat
    BY <1>1, <1>5, Occupies
  <2>2. limit'[b] = limit[b] /\ limit[b] \in Nat /\ loose[b] \in Nat /\ loose'[b] = loose[b]
    <3>1. limit \in [Branches -> Nat \ {0}]
      BY <1>1, StateFields DEF Core
    <3>2. limit' = limit
      BY <1>4, <1>5, <1>6 DEF Submitted
    <3> QED BY <1>1, <3>1, <3>2
  <2>3. CASE Occupied(t, b) < t.limit[b]
    <3>1. Pullable(t, b)
      BY <1>6, <2>3 DEF Pullable, UnitHasFreeSlot
    <3>2. queue[b] # <<>> /\ Occupied(State, b) <= Occupied(t, b)
      BY <1>4, <1>5, <1>7, <3>1 DEF Submitted
    <3>3. Occupied(State, b) + loose[b] >= limit[b]
      BY <3>2 DEF IInv, NoStrandedWork
    <3> QED BY <2>1, <2>2, <3>2, <3>3
  <2>4. CASE ~(Occupied(t, b) < t.limit[b])
    BY <1>6, <2>1, <2>2, <2>4
  <2> QED BY <2>3, <2>4
<1>9. IInv'
  BY <1>1, <1>5, <1>6, <1>8 DEF IInv
<1>10. Served
  BY <1>4, <1>5, <1>6 DEF Submitted, Served
<1>11. \A j \in 1 .. created : Activated(j)
  <2>1. ASSUME NEW j \in 1 .. created, j # i PROVE Activated(j)
    <3>1. Fit(item[j])
      BY <1>1 DEF Core
    <3>2. /\ Same(item[j], item'[j])
          /\ item[j].body = "none" => item'[j].dormant = item[j].dormant
      BY <1>4, <1>5, <1>6, <2>1 DEF Submitted
    <3> QED BY <3>1, <3>2 DEF Activated, Same, Fit, Placed
  <2>2. Activated(i)
    <3>1. CASE root
      <4>1. item'[i].body = "open" /\ item'[i].root
        BY <1>4, <1>5, <1>6, <3>1 DEF Submitted
      <4> QED BY <4>1 DEF Activated
    <3>2. CASE ~root
      BY <3>2 DEF Activated
    <3> QED BY <3>1, <3>2
  <2> QED BY <2>1, <2>2
<1>12. \A j \in 1 .. created : item'[j].reached # item[j].reached => Able(j)
  <2>1. ASSUME NEW j \in 1 .. created, j # i, item'[j].reached # item[j].reached PROVE FALSE
    BY <1>4, <1>5, <1>6, <2>1 DEF Submitted, Same
  <2>2. item'[i].reached = x.reached
    BY <1>4, <1>5, <1>6 DEF Submitted
  <2> QED BY <2>1, <2>2 DEF Allowed
<1>13. Lined
  <2>1. \A j \in 1 .. created : j # i => /\ item'[j].published = item[j].published
                                          /\ item'[j].finished = item[j].finished
    BY <1>4, <1>5, <1>6 DEF Submitted, Same
  <2>2. /\ item'[i].published >= x.published /\ x.published >= item[i].published
        /\ root \/ item'[i].published = x.published
        /\ x.published = item[i].published \/ ~item[i].finished
        /\ item'[i].finished = item[i].finished
    BY <1>4, <1>5, <1>6 DEF Submitted, Allowed
  <2>3. /\ item[i].published \in Int /\ x.published \in Int /\ item'[i].published \in Int
        /\ item[i].finished \in BOOLEAN
    <3>1. t.item \in [1 .. created -> ItemRecords]
      BY <1>1, <1>5, StateFields DEF Core
    <3>2. item'[i] \in ItemRecords /\ item[i] \in ItemRecords /\ x \in ItemRecords
      BY <1>1, <1>6, <3>1 DEF Allowed
    <3> QED BY <3>2 DEF ItemRecords
  <2>4. root => ~item[i].finished
    BY DEF Allowed, Fit, Told
  <2>5. Climbs(i)
    <3>1. item'[i].published >= item[i].published
      BY <2>2, <2>3
    <3> QED BY <2>2, <2>4, <3>1 DEF Climbs
  <2>6. i \in Nat
    BY <1>1
  <2> QED BY <1>1, <2>1, <2>5, <2>6 DEF Lined
<1> QED BY <1>1, <1>9, <1>10, <1>11, <1>12, <1>13 DEF Goes

\* Work is scheduled, by the processor or by a task.
LEMMA ScheduleGoes ==
  ASSUME IInv, NEW i \in Items, NEW batch \in Batches, Schedule(i, batch)
  PROVE  Goes
<1> DEFINE it == item[i]
           m == it.submits + 1
           x == [it EXCEPT !.joined = FALSE, !.submits = m]
           u == [State EXCEPT !.item[i] = x]
<1>1. i \in DOMAIN item
  BY DEF Schedule
<1>2. /\ i \in 1 .. created /\ it \in ItemRecords /\ Fit(it) /\ Held(it) /\ Settled(it)
  BY <1>1, ItemOfIInv
<1>3. ~it.dead
  BY DEF Schedule, Dead
<1> HIDE DEF it
<1>4. m \in Nat
  BY <1>2 DEF ItemRecords
<1> HIDE DEF m
<1>5. x \in ItemRecords
  BY <1>2, <1>4, Zenon DEF ItemRecords
<1>6. /\ x.body = it.body /\ x.reached = it.reached
      /\ x.published = it.published /\ x.finished = it.finished /\ x.failed = it.failed
      /\ x.canceled = it.canceled /\ x.returned = it.returned /\ x.proc = it.proc
      /\ x.root = it.root /\ x.slots = it.slots /\ x.queuedAt = it.queuedAt
      /\ x.token = it.token /\ x.awaiting = it.awaiting /\ x.retains = it.retains
      /\ x.begun = it.begun /\ x.held = it.held /\ x.broke = it.broke
      /\ x.dormant = it.dormant /\ SameGroup(it, x)
  BY <1>2, <1>5 DEF ItemRecords, SameGroup
<1> HIDE DEF x, u
<1>8. Fit(x) /\ Held(x) /\ Settled(x)
  <2>1. Placed(x)
    BY <1>2, <1>6 DEF Fit, Placed
  <2>2. Slotted(x)
    BY <1>2, <1>6 DEF Fit, Slotted, SameGroup
  <2>3. Told(x)
    BY <1>2, <1>3, <1>6 DEF Fit, Told, Failing, SameGroup
  <2> QED BY <1>2, <1>6, <2>1, <2>2, <2>3 DEF Fit, Held, Settled, SameGroup, Idle
<1>9. Allowed(i, x)
  <2>1. x.published \in Int
    BY <1>5 DEF ItemRecords
  <2> QED BY <1>5, <1>6, <1>8, <2>1 DEF Allowed, HoldKept, it, SameGroup
<1>10. PICK root \in BOOLEAN :
         /\ IF root THEN Active(i) /\ item[i].body = "open"
            ELSE \E b \in Branches : running[b][i] > 0
         /\ Commit(SubmitClaimed(u, i, batch, root))
  BY DEF Schedule, u, x, m, it
<1>11. UNCHANGED <<created, loose, mode>>
  BY DEF Schedule
<1>12. CASE root
  <2>1. x.body = "open" /\ it.dormant = {}
    BY <1>2, <1>6, <1>10, <1>12 DEF it, Fit, Placed
  <2>2. u = [State EXCEPT !.item[i] = x]
    BY DEF u
  <2> QED BY <1>2, <1>9, <1>10, <1>11, <1>12, <2>1, <2>2, SubmitGoes
<1>13. CASE ~root
  <2>1. PICK b \in Branches : running[b][i] > 0
    BY <1>10, <1>13
  <2>2. /\ Core(State, created) /\ State.running = running /\ State.item = item
        /\ created \in 0 .. NItems
    BY StateOfIInv
  <2>3. it.tasks > 0
    <3>1. IsFiniteSet(RunningOf(running, i)) /\ it.tasks = Cardinality(RunningOf(running, i))
      BY <1>2, <2>2 DEF Core, Counted, it
    <3>2. running[b][i] \in Nat
      BY <2>2, StateFields DEF Core
    <3>3. <<b, 1>> \in RunningOf(running, i)
      BY <2>1, <3>2 DEF RunningOf
    <3> QED BY <3>1, <3>3, FS_EmptySet, FS_CardinalityType
  <2>4. it.published >= NodeRank
    BY <2>1, <2>2 DEF Core, Working, Within, it
  <2>5. it.dormant = {}
    <3>1. it.published \in Int /\ it.reached \in Int
      BY <1>2 DEF ItemRecords
    <3> QED BY <1>2, <2>4, <3>1 DEF Fit, Placed, NodeRank
  <2>6. x.tasks > 0 /\ x.published >= NodeRank
    BY <1>6, <2>3, <2>4 DEF SameGroup
  <2>7. u = [State EXCEPT !.item[i] = x]
    BY DEF u
  <2> QED BY <1>2, <1>9, <1>10, <1>11, <1>13, <2>5, <2>6, <2>7, SubmitGoes DEF it
<1> QED BY <1>12, <1>13

\* The record of an item with its upstream hold.
LEMMA NewHoldFields ==
  ASSUME NEW it \in ItemRecords, ModesKnown, mode \in Modes
  PROVE  LET x == NewHold(it)
         IN  /\ x \in ItemRecords /\ Same([it EXCEPT !.held = x.held], x) /\ SameGroup(it, x)
             /\ x.slots = it.slots /\ x.dormant = it.dormant /\ x.awaiting = it.awaiting
             /\ x.begun = it.begun
             /\ \/ x.token = it.token /\ x.held = it.held
                \/ /\ ~x.queuedAt /\ x.held # "buffered"
                   /\ x.token \in {"gate", "room", "nothing"}
                   /\ x.token = "gate" => "gate" \in x.slots
<1> DEFINE k == IF it.queuedAt THEN "room" ELSE IF "gate" \in it.slots THEN "gate" ELSE "nothing"
           y == [it EXCEPT !.token = k, !.held = mode, !.queuedAt = FALSE]
           x == NewHold(it)
<1>1. x = IF mode = "buffered" THEN it ELSE y
  BY Zenon DEF NewHold
<1>2. /\ k \in {"gate", "room", "nothing"} /\ (k = "gate" => "gate" \in it.slots)
      /\ mode \in {"buffered", "balanced", "strict"}
  BY ModesKnown
<1> HIDE DEF k
<1>3. y \in ItemRecords
  <2>1. k \in Tokens /\ FALSE \in BOOLEAN
    BY <1>2 DEF Tokens
  <2> QED BY <1>2, <2>1, Zenon DEF ItemRecords
<1>4. CASE mode = "buffered"
  <2>1. x = it
    BY <1>1, <1>4
  <2> HIDE DEF x
  <2>2. Same([it EXCEPT !.held = x.held], x)
    BY <2>1 DEF ItemRecords, Same
  <2> QED BY <2>1, <2>2 DEF SameGroup, x
<1>5. CASE mode # "buffered"
  <2>1. x = y
    BY <1>1, <1>5
  <2>2. /\ Same([it EXCEPT !.held = y.held], y) /\ SameGroup(it, y)
        /\ y.slots = it.slots /\ y.dormant = it.dormant /\ y.awaiting = it.awaiting
        /\ y.token = k /\ ~y.queuedAt /\ y.begun = it.begun /\ y.held = mode
    BY DEF ItemRecords, Same, SameGroup
  <2> HIDE DEF x, y
  <2> QED BY <1>2, <1>3, <1>5, <2>1, <2>2 DEF x
<1> QED BY <1>4, <1>5

\* The record of an item that enters.
Occupant(it) ==
    [it EXCEPT !.slots = @ \union {"node"}, !.reached = NodeRank,
               !.published = Max({@, RoomRank})]

\* The record of an item that has been admitted.
Admitted(it) ==
    [ReleaseBelow(NewHold(Occupant(it)), NodeRank) EXCEPT !.body = "open"]

\* It fits, but for the work it has prepared.
LEMMA EnteredFits ==
  ASSUME NEW it \in ItemRecords, Fit(it), Held(it), it.body = "none", it.reached <= NodeRank,
         ~it.returned, ~it.finished, mode \in Modes
  PROVE  /\ Admitted(it) \in ItemRecords /\ Admitted(it).dormant = it.dormant
         /\ LET x == [Admitted(it) EXCEPT !.dormant = {}]
            IN  /\ x \in ItemRecords /\ Fit(x) /\ Held(x) /\ Settled(x)
                /\ x.unexhausted = it.unexhausted /\ x.tasks = it.tasks
                /\ x.published >= it.published /\ x.finished = it.finished
                /\ x.failed = it.failed /\ x.canceled = it.canceled
                /\ x.reached = NodeRank /\ x.root = it.root /\ ~x.root /\ x.body = "open"
<1> DEFINE occupied == Occupant(it)
           inside == Admitted(it)
           S == it.slots \union {"node"}
           p == Max({it.published, RoomRank})
           h == NewHold(occupied)
           r == ReleaseBelow(h, NodeRank)
           x == [inside EXCEPT !.dormant = {}]
<1>1. it.published \in Int /\ it.reached \in Int /\ it.slots \in SUBSET {"gate", "node"}
  BY DEF ItemRecords
<1>2. /\ p \in Int /\ p >= it.published /\ GateRank <= p /\ p <= NodeRank
      /\ it.reached < NodeRank
  <2>1. p = IF it.published >= RoomRank THEN it.published ELSE RoomRank
    BY <1>1, MaxOfTwo DEF RoomRank
  <2> HIDE DEF p
  <2> QED BY <1>1, <2>1 DEF Fit, Placed, GateRank, RoomRank, NodeRank, BeyondRank
<1>3. S \in SUBSET {"gate", "node"} /\ "node" \in S
  BY <1>1
<1>4. occupied = [it EXCEPT !.slots = S, !.reached = NodeRank, !.published = p]
  BY Zenon DEF Occupant
<1> HIDE DEF S, p, occupied
<1>5. occupied \in ItemRecords
  <2>1. NodeRank \in Int
    BY DEF NodeRank
  <2>2. [it EXCEPT !.slots = S, !.reached = NodeRank, !.published = p] \in ItemRecords
    BY <1>2, <1>3, <2>1, Zenon DEF ItemRecords
  <2> QED BY <1>4, <2>2
<1>6. /\ occupied.slots = S /\ occupied.reached = NodeRank /\ occupied.published = p
      /\ occupied.canceled = it.canceled /\ occupied.returned = it.returned
      /\ occupied.finished = it.finished /\ occupied.failed = it.failed
      /\ occupied.proc = it.proc /\ occupied.body = it.body /\ occupied.root = it.root
      /\ occupied.joined = it.joined /\ occupied.retains = it.retains
      /\ occupied.queuedAt = it.queuedAt /\ occupied.dormant = it.dormant
      /\ occupied.token = it.token /\ occupied.awaiting = it.awaiting
      /\ occupied.begun = it.begun /\ occupied.held = it.held /\ occupied.broke = it.broke
      /\ SameGroup(it, occupied)
  BY <1>4 DEF ItemRecords, SameGroup
<1>7. /\ h \in ItemRecords /\ Same([occupied EXCEPT !.held = h.held], h)
      /\ SameGroup(occupied, h) /\ h.slots = S /\ h.dormant = it.dormant
      /\ h.begun = it.begun
      /\ \/ h.token = it.token /\ h.held = it.held
         \/ /\ ~h.queuedAt /\ h.held # "buffered"
            /\ h.token \in {"gate", "room", "nothing"}
            /\ h.token = "gate" => "gate" \in h.slots
  <2> HIDE DEF h
  <2>1. LET y == NewHold(occupied)
        IN  /\ y \in ItemRecords /\ Same([occupied EXCEPT !.held = y.held], y)
            /\ SameGroup(occupied, y)
            /\ y.slots = occupied.slots /\ y.dormant = occupied.dormant
            /\ y.awaiting = occupied.awaiting /\ y.begun = occupied.begun
            /\ \/ y.token = occupied.token /\ y.held = occupied.held
               \/ /\ ~y.queuedAt /\ y.held # "buffered"
                  /\ y.token \in {"gate", "room", "nothing"}
                  /\ y.token = "gate" => "gate" \in y.slots
    BY <1>5, ModesKnown, NewHoldFields
  <2> QED BY <1>6, <2>1 DEF h
<1> HIDE DEF h
<1>8. /\ h.reached = NodeRank /\ h.published = p /\ h.canceled = it.canceled
      /\ h.returned = it.returned /\ h.finished = it.finished /\ h.failed = it.failed
      /\ h.proc = it.proc /\ h.root = it.root /\ h.joined = it.joined
      /\ h.retains = it.retains /\ h.broke = it.broke
  <2> DEFINE y == [occupied EXCEPT !.held = h.held]
  <2>1. /\ y.reached = occupied.reached /\ y.published = occupied.published
        /\ y.canceled = occupied.canceled
        /\ y.returned = occupied.returned /\ y.finished = occupied.finished
        /\ y.failed = occupied.failed /\ y.proc = occupied.proc /\ y.root = occupied.root
        /\ y.joined = occupied.joined /\ y.retains = occupied.retains
        /\ y.broke = occupied.broke
    BY <1>5 DEF ItemRecords
  <2>2. Same(y, h)
    BY <1>7
  <2> HIDE DEF y
  <2> QED BY <1>6, <2>1, <2>2 DEF Same
<1>9. /\ r \in ItemRecords /\ Same(h, r) /\ SameGroup(h, r)
      /\ r.slots = {u \in h.slots : UnitRank(u) >= NodeRank \/ u \in Protected(h)}
      /\ r.queuedAt = (h.queuedAt /\ RoomRank >= NodeRank)
      /\ r.dormant = DropDormant(h, NodeRank)
      /\ r.token = h.token /\ r.awaiting = h.awaiting /\ r.begun = h.begun
  <2>1. NodeRank \in Int
    BY DEF NodeRank
  <2> QED BY <1>7, <2>1, ReleaseBelowFields
<1>10. inside = [r EXCEPT !.body = "open"]
  BY DEF h, occupied, Admitted
<1> HIDE DEF r, inside
<1>11. inside \in ItemRecords /\ inside.dormant = it.dormant
  <2>1. "open" \in Bodies
    BY DEF Bodies
  <2>2. inside \in ItemRecords
    BY <1>9, <1>10, <2>1, Zenon DEF ItemRecords
  <2>3. inside.dormant = r.dormant
    BY <1>9, <1>10 DEF ItemRecords
  <2>4. r.dormant = it.dormant
    BY <1>7, <1>9 DEF DropDormant, NodeRank
  <2> QED BY <2>2, <2>3, <2>4
<1>12. /\ x \in ItemRecords /\ x.dormant = {} /\ x.body = "open"
       /\ x.reached = r.reached /\ x.published = r.published /\ x.canceled = r.canceled
       /\ x.returned = r.returned /\ x.finished = r.finished /\ x.failed = r.failed
       /\ x.proc = r.proc /\ x.root = r.root /\ x.joined = r.joined /\ x.retains = r.retains
       /\ x.slots = r.slots /\ x.queuedAt = r.queuedAt /\ x.token = r.token
       /\ x.begun = r.begun /\ x.held = r.held /\ x.broke = r.broke
       /\ SameGroup(r, x)
  <2>1. {} \in SUBSET Batches
    OBVIOUS
  <2>2. x \in ItemRecords
    <3>1. ASSUME NEW y \in ItemRecords PROVE [y EXCEPT !.dormant = {}] \in ItemRecords
      BY <2>1, Zenon DEF ItemRecords
    <3> QED BY <1>11, <3>1
  <2>3. x = [r EXCEPT !.body = "open", !.dormant = {}]
    BY <1>10
  <2> HIDE DEF x
  <2> QED BY <1>9, <2>2, <2>3 DEF ItemRecords, SameGroup
<1> HIDE DEF x
<1>13. /\ x.reached = NodeRank /\ x.published = p /\ x.canceled = it.canceled
       /\ ~x.returned /\ ~x.finished /\ x.failed = it.failed /\ x.finished = it.finished
       /\ x.root = it.root /\ x.unexhausted = it.unexhausted /\ x.tasks = it.tasks
       /\ x.err = it.err /\ x.dead = it.dead /\ x.token = h.token /\ ~x.queuedAt
       /\ x.begun = it.begun /\ x.held = h.held /\ x.broke = it.broke
  <2>1. ~(RoomRank >= NodeRank)
    BY DEF RoomRank, NodeRank
  <2>2. ~r.queuedAt
    BY <1>9, <2>1
  <2> QED BY <1>6, <1>7, <1>8, <1>9, <1>12, <2>2 DEF Same, SameGroup
<1>14. ~it.root /\ it.token = "none"
  BY DEF Fit, Placed, Slotted
<1>15. Placed(x)
  BY <1>2, <1>12, <1>13, <1>14 DEF Placed, GateRank, RoomRank, NodeRank, BeyondRank
<1>16. Slotted(x)
  <2>1. h.token = "gate" => "gate" \in h.slots
    BY <1>7, <1>14
  <2>2. "gate" \in x.slots => h.token = "gate"
    BY <1>9, <1>12 DEF UnitRank, Protected, GateRank, NodeRank
  <2>3. h.token = "gate" => "gate" \in x.slots
    BY <1>9, <1>12, <2>1 DEF Protected
  <2> QED BY <1>12, <1>13, <2>2, <2>3 DEF Slotted
<1>17. Told(x)
  BY <1>13 DEF Fit, Told, Failing
<1>18. Held(x)
  <2>1. ~it.begun /\ it.held = "buffered"
    BY <1>14 DEF Held
  <2>2. h.token # "none" <=> h.held # "buffered"
    BY <1>7, <1>14, <2>1
  <2> QED BY <1>12, <1>13, <1>14, <2>1, <2>2 DEF Held
<1> QED BY <1>2, <1>11, <1>12, <1>13, <1>14, <1>15, <1>16, <1>17, <1>18
     DEF Fit, Settled, x, inside

\* An item enters, and what it has prepared is submitted.
LEMMA EnterGoes ==
  ASSUME IInv, NEW i \in Items, Enter(i)
  PROVE  Goes
<1> DEFINE it == item[i]
           inside == Admitted(it)
           x == [inside EXCEPT !.dormant = {}]
           entered == [State EXCEPT !.item[i] = inside]
           u == [State EXCEPT !.item[i] = x]
<1>1. i \in DOMAIN item
  BY DEF Enter, Able, Active
<1>2. /\ i \in 1 .. created /\ it \in ItemRecords /\ Fit(it) /\ Held(it) /\ Settled(it)
      /\ (~it.returned => ~it.finished)
  BY <1>1, ItemOfIInv
<1>3. ~it.returned /\ it.body = "none" /\ it.reached <= NodeRank
  BY DEF Enter, Able, Active
<1>4. \A j \in 1 .. i - 1 : item[j].finished \/ NodeRank <= item[j].published
  <2>1. GateOpen(i, NodeRank) /\ NodeRank \in Int
    BY DEF Enter, CanEnter, NodeRank
  <2> QED BY <1>2, <2>1, GateOpens
<1>5. /\ IF inside.dormant = {} THEN Commit(entered)
         ELSE \E batch \in inside.dormant : Commit(ActivateDormant(entered, i, batch))
      /\ UNCHANGED <<created, loose, mode>>
  BY Zenon DEF Enter, Admitted, Occupant
<1>6. /\ State \in States(created) /\ created \in 0 .. NItems /\ mode \in Modes
      /\ item \in [1 .. created -> ItemRecords]
      /\ State.item = item /\ State.queue = queue /\ State.running = running
      /\ State.limit = limit /\ State.stopping = stopping
  BY StateOfIInv DEF Core
<1>7. /\ inside \in ItemRecords /\ inside.dormant = it.dormant
      /\ x \in ItemRecords /\ Fit(x) /\ Held(x) /\ Settled(x)
      /\ x.unexhausted = it.unexhausted /\ x.tasks = it.tasks
      /\ x.published >= it.published /\ x.finished = it.finished
      /\ x.failed = it.failed /\ x.canceled = it.canceled
      /\ x.reached = NodeRank /\ x.root = it.root /\ ~x.root /\ x.body = "open"
  <2> HIDE DEF it
  <2>1. /\ it \in ItemRecords /\ Fit(it) /\ Held(it) /\ it.body = "none" /\ it.reached <= NodeRank
        /\ ~it.returned /\ ~it.finished /\ mode \in Modes
    BY <1>2, <1>3, <1>6
  <2> QED BY <2>1, EnteredFits
<1> HIDE DEF it, inside
<1>8. x.dormant = {} /\ (inside.dormant = {} => x = inside)
  BY <1>7 DEF ItemRecords
<1> HIDE DEF x
<1>9. Allowed(i, x)
  <2>1. Able(i)
    BY DEF Enter
  <2>2. ~it.finished
    BY <1>2, <1>3
  <2> QED BY <1>4, <1>7, <2>1, <2>2 DEF Allowed, HoldKept, it
<1>10. CASE inside.dormant = {}
  <2>1. Commit(entered)
    BY <1>5, <1>10
  <2>2. entered = u
    BY <1>8, <1>10
  <2>3. item' = [item EXCEPT ![i] = x]
    BY <2>1, <2>2 DEF Commit, State
  <2>4. UNCHANGED <<created, queue, running, loose, limit, mode, stopping>>
    BY <1>5, <1>6, <2>1, <2>2 DEF Commit, State
  <2>5. item[i].dormant = {}
    BY <1>7, <1>10 DEF it
  <2> QED BY <1>2, <1>9, <2>3, <2>4, <2>5, AllowedGoes
<1>11. CASE inside.dormant # {}
  <2>1. PICK batch \in inside.dormant : Commit(ActivateDormant(entered, i, batch))
    BY <1>5, <1>11
  <2>2. batch \in Batches
    BY <1>7, <2>1 DEF ItemRecords
  <2>3. [entered EXCEPT !.item[i].dormant = {}] = u
    BY <1>2, <1>6 DEF State, x
  <2>4. ActivateDormant(entered, i, batch) = SubmitClaimed(u, i, batch, TRUE)
    BY <2>3 DEF ActivateDormant
  <2>5. Commit(SubmitClaimed(u, i, batch, TRUE))
    BY <2>1, <2>4
  <2>6. u = [State EXCEPT !.item[i] = x]
    OBVIOUS
  <2> HIDE DEF u
  <2> QED BY <1>2, <1>5, <1>7, <1>9, <2>2, <2>5, <2>6, SubmitGoes
<1> QED BY <1>10, <1>11

\* A stopped line stays stopped if nobody new fails.
LEMMA StoppedStill ==
  ASSUME NEW n \in Nat, NEW s, NEW t, Stopped(s, n), s.stopping => t.stopping,
         \A j \in 1 .. n : /\ t.item[j].failed => s.item[j].failed
                           /\ s.item[j].finished => t.item[j].finished
                           /\ s.item[j].canceled # "no" => t.item[j].canceled # "no"
  PROVE  Stopped(t, n)
<1> SUFFICES ASSUME NEW a \in 1 .. n, t.item[a].failed
             PROVE  /\ t.stopping
                    /\ \A c \in a + 1 .. n : t.item[c].finished \/ t.item[c].canceled # "no"
  BY DEF Stopped
<1>1. a + 1 .. n \subseteq 1 .. n
  OBVIOUS
<1>2. /\ s.stopping
      /\ \A c \in a + 1 .. n : s.item[c].finished \/ s.item[c].canceled # "no"
  BY DEF Stopped
<1> QED BY <1>1, <1>2

\* What the error of a task may do: cancel other items, and what it does to its own.
Noted(s, t, n, i, err) ==
    LET it == s.item[i]
        x == t.item[i]
    IN  /\ t \in States(n) /\ t.queue = s.queue /\ t.running = s.running
        /\ t.limit = s.limit /\ Stopped(t, n)
        /\ \A j \in 1 .. n : j # i => Like(s.item[j], t.item[j])
        /\ x \in ItemRecords /\ Fit(x) /\ Held(x)
        /\ x.reached = it.reached /\ x.published = it.published
        /\ x.finished = it.finished /\ x.root = it.root /\ x.token = it.token
        /\ x.awaiting = it.awaiting /\ x.unexhausted = it.unexhausted
        /\ x.tasks = it.tasks /\ x.begun = it.begun /\ x.held = it.held /\ x.broke = it.broke
        /\ it.broke \/ AsAbort(it, err) = "task" => x.err = "task"

\* An error is recorded, and reported if nobody is left to join it.
LEMMA RecordErrFits ==
  ASSUME NEW n \in 0 .. NItems, NEW s \in States(n), NEW i \in 1 .. n,
         Fit(s.item[i]), Held(s.item[i]), Stopped(s, n), NEW err \in {"none", "task", "abort"}
  PROVE  Noted(s, RecordErr(s, i, err), n, i, err)
<1> DEFINE it == s.item[i]
           e == AsAbort(it, err)
           d == it.dead \/ e = "task"
           y == [it EXCEPT !.err = e, !.dead = d]
           u == [s EXCEPT !.item[i] = y]
           t == RecordErr(s, i, err)
<1>1. /\ it \in ItemRecords /\ n \in Nat
      /\ \A j \in 1 .. n : s.item[j] \in ItemRecords
  BY StateFields
<1>2. e \in {"none", "task", "abort"} /\ d \in BOOLEAN
  BY <1>1 DEF AsAbort, ItemRecords
<1>3. t = IF e = "none" \/ it.err = "task" THEN s
          ELSE IF e = "task" /\ it.returned /\ ~it.joined THEN ItemFailed(u, i) ELSE u
  BY Zenon DEF RecordErr
<1>4. \A j \in 1 .. n : Like(s.item[j], s.item[j])
  BY <1>1 DEF Like, SameGroup
<1>5. CASE e = "none" \/ it.err = "task"
  <2>1. t = s
    BY <1>3, <1>5
  <2>2. it.broke \/ e = "task" => it.err = "task"
    BY <1>5 DEF Fit, Told, it
  <2> QED BY <1>1, <1>4, <2>1, <2>2 DEF Noted, t, it, e
<1>6. ASSUME e # "none", it.err # "task"
      PROVE  /\ Put(s, u, n, i, y) /\ Stopped(u, n)
             /\ y.reached = it.reached /\ y.published = it.published
             /\ y.finished = it.finished /\ y.root = it.root /\ y.token = it.token
             /\ y.awaiting = it.awaiting /\ y.unexhausted = it.unexhausted
             /\ y.tasks = it.tasks /\ y.returned = it.returned /\ y.proc = it.proc
             /\ y.failed = it.failed /\ y.joined = it.joined /\ y.err = e /\ y.dead = d
             /\ y.body = it.body /\ y.dormant = it.dormant /\ y.slots = it.slots
             /\ y.queuedAt = it.queuedAt /\ y.retains = it.retains /\ y.done = it.done
             /\ y.begun = it.begun /\ y.held = it.held /\ y.broke = it.broke
             /\ y \in ItemRecords
  <2> HIDE DEF it, e, d
  <2>1. y \in ItemRecords
    BY <1>1, <1>2, Zenon DEF ItemRecords
  <2>2. /\ y.reached = it.reached /\ y.published = it.published
        /\ y.finished = it.finished /\ y.root = it.root /\ y.token = it.token
        /\ y.awaiting = it.awaiting /\ y.unexhausted = it.unexhausted
        /\ y.tasks = it.tasks /\ y.returned = it.returned /\ y.proc = it.proc
        /\ y.failed = it.failed /\ y.joined = it.joined /\ y.err = e /\ y.dead = d
        /\ y.body = it.body /\ y.dormant = it.dormant /\ y.slots = it.slots
        /\ y.queuedAt = it.queuedAt /\ y.retains = it.retains /\ y.done = it.done
        /\ y.begun = it.begun /\ y.held = it.held /\ y.broke = it.broke
        /\ y.canceled = it.canceled
    BY <1>1 DEF ItemRecords
  <2> HIDE DEF y
  <2>3. Put(s, u, n, i, y)
    BY <2>1, ItemPut
  <2> HIDE DEF u
  <2>4. Stopped(u, n)
    <3>1. u.stopping = s.stopping
      BY <2>3 DEF Put
    <3>2. \A j \in 1 .. n : /\ u.item[j].failed = s.item[j].failed
                            /\ u.item[j].finished = s.item[j].finished
                            /\ u.item[j].canceled = s.item[j].canceled
      BY <2>2, <2>3 DEF Put, it
    <3> QED BY <1>1, <3>1, <3>2, StoppedStill
  <2> QED BY <2>1, <2>2, <2>3, <2>4
<1> HIDE DEF it, e, d, y, u, t
<1>7. ASSUME e # "none", it.err # "task", NEW x, Like(y, x),
             ~(e = "task" /\ it.returned /\ ~it.joined) \/ x.failed
      PROVE  /\ x \in ItemRecords /\ Fit(x) /\ Held(x)
             /\ x.reached = it.reached /\ x.published = it.published
             /\ x.finished = it.finished /\ x.root = it.root /\ x.token = it.token
             /\ x.awaiting = it.awaiting /\ x.unexhausted = it.unexhausted
             /\ x.tasks = it.tasks /\ x.begun = it.begun /\ x.held = it.held
             /\ x.broke = it.broke /\ (it.broke \/ e = "task" => x.err = "task")
  <2>1. /\ x.reached = it.reached /\ x.published = it.published
        /\ x.finished = it.finished /\ x.root = it.root /\ x.token = it.token
        /\ x.awaiting = it.awaiting /\ x.unexhausted = it.unexhausted
        /\ x.tasks = it.tasks /\ x.returned = it.returned /\ x.proc = it.proc
        /\ it.failed => x.failed
        /\ x.joined = it.joined /\ x.err = e /\ x.dead = d
        /\ x.body = it.body /\ x.dormant = it.dormant /\ x.slots = it.slots
        /\ x.queuedAt = it.queuedAt /\ x.retains = it.retains /\ x.done = it.done
        /\ x.begun = it.begun /\ x.held = it.held /\ x.broke = it.broke
        /\ x \in ItemRecords
    BY <1>6, <1>7 DEF Like, SameGroup
  <2>2. Fit(it) /\ Held(it)
    BY DEF it
  <2>3. Placed(x)
    BY <2>1, <2>2 DEF Fit, Placed
  <2>4. Slotted(x)
    BY <2>1, <2>2 DEF Fit, Slotted
  <2>5. ~it.broke
    BY <1>7, <2>2 DEF Fit, Told
  <2>6. Told(x)
    <3>1. x.err = "task" => x.dead
      BY <2>1 DEF d
    <3>2. Failing(x) => x.failed
      <4>1. CASE x.proc = "fail"
        BY <2>1, <2>2, <4>1 DEF Fit, Told, Failing
      <4>2. CASE x.proc # "fail"
        BY <1>7, <2>1, <4>2 DEF Failing
      <4> QED BY <4>1, <4>2
    <3> QED BY <2>1, <2>2, <2>5, <3>1, <3>2 DEF Fit, Told
  <2>7. Held(x)
    BY <2>1, <2>2 DEF Held
  <2> QED BY <2>1, <2>3, <2>4, <2>5, <2>6, <2>7 DEF Fit
<1>8. CASE ~(e = "none" \/ it.err = "task") /\ ~(e = "task" /\ it.returned /\ ~it.joined)
  <2>1. t = u
    BY <1>3, <1>8
  <2>2. Put(s, u, n, i, y) /\ Stopped(u, n) /\ Like(y, y)
    BY <1>6, <1>8 DEF Like, SameGroup
  <2>3. \A j \in 1 .. n : j # i => Like(s.item[j], u.item[j])
    BY <1>4, <2>2 DEF Put
  <2>4. u.item[i] = y
    BY <2>2 DEF Put
  <2> QED BY <1>7, <1>8, <2>1, <2>2, <2>3, <2>4 DEF Put, Noted, t, it, e
<1>9. CASE ~(e = "none" \/ it.err = "task") /\ (e = "task" /\ it.returned /\ ~it.joined)
  <2>1. t = ItemFailed(u, i)
    BY <1>3, <1>9
  <2>2. Put(s, u, n, i, y) /\ Stopped(u, n)
    BY <1>6, <1>9
  <2>3. u \in States(n) /\ u.item[i] = y
    BY <2>2 DEF Put
  <2>4. Reported(u, t, n, i) /\ t.item[i].failed
    BY <2>1, <2>3, ItemFailedReported
  <2>5. \A j \in 1 .. n : j # i => Like(s.item[j], t.item[j])
    BY <2>2, <2>4 DEF Put, Reported
  <2>6. Like(y, t.item[i])
    BY <2>3, <2>4 DEF Reported
  <2>7. /\ t \in States(n) /\ t.queue = s.queue /\ t.running = s.running
        /\ t.limit = s.limit /\ Stopped(t, n)
    BY <2>2, <2>4 DEF Put, Reported
  <2>8. LET x == t.item[i]
        IN  /\ x \in ItemRecords /\ Fit(x) /\ Held(x)
            /\ x.reached = it.reached /\ x.published = it.published
            /\ x.finished = it.finished /\ x.root = it.root /\ x.token = it.token
            /\ x.awaiting = it.awaiting /\ x.unexhausted = it.unexhausted
            /\ x.tasks = it.tasks /\ x.begun = it.begun /\ x.held = it.held
            /\ x.broke = it.broke /\ (it.broke \/ e = "task" => x.err = "task")
    BY <1>7, <1>9, <2>4, <2>6
  <2> QED BY <2>5, <2>7, <2>8 DEF Noted, t, it, e
<1> QED BY <1>5, <1>8, <1>9

\* One task of i on b less, in the books of the branch and of the item.
OneLess(s, b, i) == [s EXCEPT !.running[b][i] = @ - 1, !.item[i].tasks = @ - 1]

\* The state with that task less.
LEMMA OneLessFields ==
  ASSUME NEW n \in 0 .. NItems, NEW s \in States(n), NEW b \in Branches, NEW i \in 1 .. n,
         s.running[b][i] > 0
  PROVE  LET t == OneLess(s, b, i)
         IN  /\ t \in States(n) /\ t.queue = s.queue /\ t.limit = s.limit
             /\ t.stopping = s.stopping
             /\ t.item[i] = [s.item[i] EXCEPT !.tasks = s.item[i].tasks - 1]
             /\ \A j \in 1 .. n : j # i => t.item[j] = s.item[j]
             /\ OneMore(t, s, b, i)
<1> DEFINE x == [s.item[i] EXCEPT !.tasks = s.item[i].tasks - 1]
           f == [s.item EXCEPT ![i] = x]
           r == [s.running EXCEPT ![b] = [s.running[b] EXCEPT ![i] = s.running[b][i] - 1]]
           t == OneLess(s, b, i)
<1>1. /\ s.item \in [1 .. n -> ItemRecords] /\ s.running \in Running /\ i \in Items
      /\ s.queue \in Queues /\ s.limit \in [Branches -> Nat \ {0}] /\ s.stopping \in BOOLEAN
      /\ s.item[i] \in ItemRecords /\ s.running[b][i] \in Nat
  BY StateFields
<1>2. x \in ItemRecords
  <2>1. ASSUME NEW y \in ItemRecords PROVE [y EXCEPT !.tasks = y.tasks - 1] \in ItemRecords
    <3>1. y.tasks - 1 \in Int
      BY DEF ItemRecords
    <3> QED BY <3>1, Zenon DEF ItemRecords
  <2> QED BY <1>1, <2>1
<1>3. f \in [1 .. n -> ItemRecords] /\ f[i] = x /\ \A j \in 1 .. n : j # i => f[j] = s.item[j]
  <2> HIDE DEF x
  <2> QED BY <1>1, <1>2
<1>4. /\ r \in Running /\ r[b][i] + 1 = s.running[b][i]
      /\ \A c \in Branches, j \in Items : c # b \/ j # i => r[c][j] = s.running[c][j]
  <2>1. s.running[b][i] - 1 \in Nat
    BY <1>1
  <2> QED BY <1>1, <2>1 DEF Running
<1>5. t = [s EXCEPT !.running = r, !.item = f]
  BY Zenon DEF OneLess
<1> HIDE DEF f, r, t
<1>6. /\ t.item = f /\ t.running = r /\ t.queue = s.queue /\ t.limit = s.limit
      /\ t.stopping = s.stopping
  BY <1>5 DEF States
<1>7. t \in States(n)
  BY <1>3, <1>4, <1>5, Zenon DEF States
<1>8. OneMore(t, s, b, i)
  BY <1>1, <1>4, <1>6 DEF OneMore
<1> QED BY <1>3, <1>6, <1>7, <1>8 DEF t

\* A task ends.
LEMMA TaskReturnsGoes ==
  ASSUME IInv, NEW b \in Branches, NEW i \in Items, NEW err \in {"none", "task", "abort"},
         TaskReturns(b, i, err)
  PROVE  Goes
<1> DEFINE it == item[i]
           y == [it EXCEPT !.tasks = it.tasks - 1]
           u == OneLess(State, b, i)
           v == RecordErr(u, i, err)
           w == Settle(v.item[i])
           k == it.broke \/ AsAbort(it, err) = "task"
           x == [w EXCEPT !.broke = k]
           t == [v EXCEPT !.item[i] = x]
<1>1. i \in DOMAIN item /\ running[b][i] > 0
  BY DEF TaskReturns
<1>2. /\ i \in 1 .. created /\ it \in ItemRecords /\ Fit(it) /\ Held(it) /\ Settled(it)
  BY <1>1, ItemOfIInv
<1>3. /\ Core(State, created) /\ created \in 0 .. NItems /\ created \in Nat
      /\ loose \in [Branches -> Nat] /\ State \in States(created)
      /\ State.item = item /\ State.queue = queue /\ State.running = running
      /\ State.limit = limit /\ State.stopping = stopping
      /\ \A j \in 1 .. created : item[j] \in ItemRecords
  BY StateOfIInv DEF Core
<1>4. /\ u \in States(created) /\ u.queue = queue /\ u.limit = limit
      /\ u.stopping = stopping /\ u.item[i] = y
      /\ \A j \in 1 .. created : j # i => u.item[j] = item[j]
      /\ OneMore(u, State, b, i)
  BY <1>1, <1>2, <1>3, OneLessFields
<1>5. Commit(t) /\ loose' = [loose EXCEPT ![b] = @ + 1] /\ UNCHANGED <<created, mode>>
  <2>1. u = [[State EXCEPT !.running[b][i] = @ - 1] EXCEPT !.item[i].tasks = @ - 1]
    BY Zenon DEF OneLess
  <2> DEFINE z == [v EXCEPT !.item[i] = w]
  <2>2. z = WorkDone([State EXCEPT !.running[b][i] = @ - 1], i, err)
    BY <2>1, Zenon DEF WorkDone
  <2>3. Commit([z EXCEPT !.item[i].broke = k])
    <3> HIDE DEF z
    <3> QED BY <2>2, Zenon DEF TaskReturns
  <2>4. [z EXCEPT !.item[i].broke = k] = t
    OBVIOUS
  <2> HIDE DEF t, z
  <2> QED BY <2>3, <2>4 DEF TaskReturns
<1> HIDE DEF u, it
<1>6. /\ y \in ItemRecords /\ Same(it, y) /\ y.tasks = it.tasks - 1
      /\ y.unexhausted = it.unexhausted /\ y.err = it.err /\ y.dead = it.dead
      /\ y.done = it.done /\ y.slots = it.slots /\ y.queuedAt = it.queuedAt
      /\ y.dormant = it.dormant /\ y.token = it.token /\ y.awaiting = it.awaiting
      /\ y.begun = it.begun
  <2>1. it.tasks - 1 \in Int
    BY <1>2 DEF ItemRecords
  <2>2. y \in ItemRecords
    BY <1>2, <2>1, Zenon DEF ItemRecords
  <2> QED BY <1>2, <2>2 DEF ItemRecords, Same
<1> HIDE DEF y
<1>7. Fit(y) /\ Held(y)
  <2>1. Placed(y)
    BY <1>2, <1>6 DEF Fit, Placed, Same
  <2>2. Slotted(y)
    BY <1>2, <1>6 DEF Fit, Slotted, Same
  <2>3. Told(y)
    BY <1>2, <1>6 DEF Fit, Told, Failing, Same
  <2> QED BY <1>2, <1>6, <2>1, <2>2, <2>3 DEF Fit, Held, Same
<1>8. Stopped(u, created)
  <2>1. Stopped(State, created)
    BY <1>3 DEF Core
  <2>2. \A j \in 1 .. created : /\ u.item[j].failed = item[j].failed
                                /\ u.item[j].finished = item[j].finished
                                /\ u.item[j].canceled = item[j].canceled
    BY <1>4, <1>6 DEF Same, it
  <2> QED BY <1>3, <1>4, <2>1, <2>2, StoppedStill
<1>9. /\ v \in States(created) /\ v.queue = queue /\ v.running = u.running
      /\ v.limit = limit /\ Stopped(v, created)
      /\ \A j \in 1 .. created : j # i => Like(u.item[j], v.item[j])
      /\ LET z == v.item[i]
         IN  /\ z \in ItemRecords /\ Fit(z) /\ Held(z)
             /\ z.reached = y.reached /\ z.published = y.published
             /\ z.finished = y.finished /\ z.root = y.root /\ z.token = y.token
             /\ z.awaiting = y.awaiting /\ z.unexhausted = y.unexhausted
             /\ z.tasks = y.tasks /\ z.begun = y.begun /\ z.held = y.held
             /\ z.broke = y.broke /\ (y.broke \/ AsAbort(y, err) = "task" => z.err = "task")
  <2>1. Fit(u.item[i]) /\ Held(u.item[i])
    BY <1>4, <1>7
  <2>2. Noted(u, v, created, i, err)
    BY <1>2, <1>3, <1>4, <1>8, <2>1, RecordErrFits
  <2> HIDE DEF v
  <2> QED BY <1>4, <2>2 DEF Noted
<1> HIDE DEF v
<1>10. /\ Soft(v.item[i], w) /\ Fit(w) /\ Settled(w)
       /\ w.unexhausted = v.item[i].unexhausted /\ w.tasks = v.item[i].tasks
       /\ w.token = v.item[i].token /\ w.awaiting = v.item[i].awaiting
       /\ w.begun = v.item[i].begun /\ w.err = v.item[i].err
  BY <1>9, SettleFits
<1> HIDE DEF w
<1>11. /\ x \in ItemRecords /\ Fit(x) /\ Held(x) /\ Settled(x)
       /\ x.reached = it.reached /\ x.published = it.published /\ x.finished = it.finished
       /\ x.root = it.root /\ x.token = it.token /\ x.awaiting = it.awaiting
       /\ x.unexhausted = it.unexhausted /\ x.tasks = it.tasks - 1
       /\ x.begun = it.begun /\ x.held = it.held
       /\ x.failed = v.item[i].failed /\ x.canceled = v.item[i].canceled
       /\ x.finished = v.item[i].finished
  <2>1. k \in BOOLEAN /\ w \in ItemRecords /\ Same(v.item[i], w)
    BY <1>2, <1>10 DEF ItemRecords, Soft
  <2>2. k => w.err = "task"
    <3>1. AsAbort(y, err) = AsAbort(it, err) /\ y.broke = it.broke
      BY <1>6 DEF AsAbort, Same
    <3> QED BY <1>9, <1>10, <3>1
  <2> HIDE DEF k
  <2>3. /\ x \in ItemRecords /\ x.broke = k /\ x.reached = w.reached
        /\ x.published = w.published /\ x.slots = w.slots /\ x.queuedAt = w.queuedAt
        /\ x.dormant = w.dormant /\ x.canceled = w.canceled /\ x.returned = w.returned
        /\ x.finished = w.finished /\ x.failed = w.failed /\ x.proc = w.proc
        /\ x.body = w.body /\ x.root = w.root /\ x.joined = w.joined
        /\ x.retains = w.retains /\ SameGroup(w, x) /\ x.token = w.token
        /\ x.held = w.held /\ x.awaiting = w.awaiting /\ x.begun = w.begun
    <3>1. x \in ItemRecords
      BY <2>1, Zenon DEF ItemRecords
    <3> QED BY <2>1, <3>1 DEF ItemRecords, SameGroup
  <2> HIDE DEF x
  <2>4. Fit(x)
    BY <1>10, <2>2, <2>3 DEF Fit, Placed, Slotted, Told, Failing, SameGroup
  <2>5. Held(x) /\ Settled(x)
    BY <1>9, <1>10, <2>1, <2>3 DEF Held, Settled, Idle, Same, SameGroup
  <2> QED BY <1>6, <1>9, <1>10, <2>1, <2>3, <2>4, <2>5 DEF Same, SameGroup
<1> HIDE DEF x
<1>12. Put(v, t, created, i, x)
  BY <1>2, <1>3, <1>9, <1>11, ItemPut
<1> HIDE DEF t
<1>13. ItemStep(State, t, created, i)
  <2>1. \A j \in 1 .. created : j # i => Like(item[j], t.item[j])
    BY <1>4, <1>9, <1>12 DEF Put
  <2>2. Stopped(t, created)
    <3>1. t.stopping = v.stopping
      BY <1>12 DEF Put
    <3>2. \A j \in 1 .. created : /\ t.item[j].failed = v.item[j].failed
                                  /\ t.item[j].finished = v.item[j].finished
                                  /\ t.item[j].canceled = v.item[j].canceled
      BY <1>11, <1>12 DEF Put
    <3> QED BY <1>3, <1>9, <3>1, <3>2, StoppedStill
  <2>3. OneMore(t, State, b, i)
    BY <1>4, <1>9, <1>12 DEF OneMore, Put
  <2>4. /\ t \in States(created) /\ t.queue = queue /\ t.item[i] = x
    BY <1>9, <1>12 DEF Put
  <2>5. x.published >= it.published
    <3>1. it.published \in Int
      BY <1>2 DEF ItemRecords
    <3> QED BY <1>11, <3>1
  <2> QED BY <1>3, <1>11, <2>1, <2>2, <2>3, <2>4, <2>5 DEF ItemStep, HoldKept, it
<1>14. t.limit = limit /\ t.item[i] = x
  BY <1>9, <1>12 DEF Put
<1>15. item'[i] = x /\ limit' = limit
  BY <1>5, <1>14 DEF Commit
<1>16. Activated(i)
  <2>1. it.published >= NodeRank
    BY <1>1, <1>3 DEF Core, Working, Within, it
  <2>2. it.published \in Int /\ it.reached \in Int
    BY <1>2 DEF ItemRecords
  <2>3. it.dormant = {}
    BY <1>2, <2>1, <2>2 DEF Fit, Placed, NodeRank
  <2> QED BY <2>3 DEF Activated, it
<1>17. \A c \in Branches : Occupied(State, c) + loose[c] <= Occupied(t, c) + loose'[c]
  <2> SUFFICES ASSUME NEW c \in Branches
               PROVE  Occupied(State, c) + loose[c] <= Occupied(t, c) + loose'[c]
    OBVIOUS
  <2>1. OneMore(t, State, b, i)
    BY <1>4, <1>9, <1>12 DEF OneMore, Put
  <2>2. Occupied(State, c) = Occupied(t, c) + (IF b = c THEN 1 ELSE 0)
    <3>1. IsFiniteSet(Slots(State, c))
      BY <1>3 DEF Core, Counted
    <3>2. /\ IsFiniteSet(Slots(t, c)) <=> IsFiniteSet(Slots(State, c))
          /\ IsFiniteSet(Slots(t, c)) =>
                Occupied(State, c) = Occupied(t, c) + (IF b = c THEN 1 ELSE 0)
      BY <2>1, CountSlots
    <3> QED BY <3>1, <3>2
  <2>3. Occupied(State, c) \in Nat /\ Occupied(t, c) \in Nat
    BY <1>2, <1>3, <1>13, ItemStepKeeps, Occupies
  <2>4. loose'[c] = loose[c] + (IF b = c THEN 1 ELSE 0) /\ loose[c] \in Nat
    BY <1>3, <1>5
  <2> QED BY <2>2, <2>3, <2>4
<1>18. loose' \in [Branches -> Nat] /\ created' = created /\ mode' = mode
  BY <1>3, <1>5
<1>19. Climbs(i)
  BY <1>11, <1>15 DEF Climbs, it
<1> QED BY <1>2, <1>5, <1>11, <1>13, <1>15, <1>16, <1>17, <1>18, <1>19, ItemStepGoes DEF it

\* An item whose processor is over, and whose outcome is settled.
LEMMA OutcomeGoes ==
  ASSUME IInv, NEW i \in 1 .. created, NEW y, NEW s, Put(State, s, created, i, y),
         y.failed = item[i].failed, y.finished = item[i].finished,
         item[i].canceled # "no" => y.canceled # "no",
         NEW v, v = SettleOutcome(s, i), NEW x \in ItemRecords,
         Commit([v EXCEPT !.item[i] = x]), UNCHANGED <<created, loose, mode>>,
         Fit(x), Held(x), Settled(x), x.returned,
         x.failed = v.item[i].failed, x.canceled = v.item[i].canceled,
         v.item[i].finished => x.finished,
         x.unexhausted = item[i].unexhausted, x.tasks = item[i].tasks,
         x.published = item[i].published, x.reached = item[i].reached,
         HoldKept(item[i], x)
  PROVE  Goes
<1> DEFINE t == [v EXCEPT !.item[i] = x]
<1>1. /\ Core(State, created) /\ created \in 0 .. NItems /\ created \in Nat
      /\ loose \in [Branches -> Nat]
      /\ State.item = item /\ State.queue = queue /\ State.running = running
      /\ State.limit = limit /\ State.stopping = stopping
      /\ \A j \in 1 .. created : item[j] \in ItemRecords
  BY StateOfIInv
<1>2. /\ s \in States(created) /\ s.queue = queue /\ s.running = running
      /\ s.limit = limit /\ s.stopping = stopping /\ s.item[i] = y
      /\ \A j \in 1 .. created : j # i => s.item[j] = item[j]
  BY <1>1 DEF Put
<1>3. Stopped(s, created)
  <2>1. \A j \in 1 .. created : /\ s.item[j].failed => item[j].failed
                                /\ item[j].finished => s.item[j].finished
                                /\ item[j].canceled # "no" => s.item[j].canceled # "no"
    BY <1>2
  <2>2. Stopped(State, created)
    BY <1>1 DEF Core
  <2> QED BY <1>1, <1>2, <2>1, <2>2, StoppedStill
<1>4. Reported(s, v, created, i)
  BY <1>1, <1>2, SettleOutcomeReported
<1>5. Put(v, t, created, i, x)
  BY <1>1, <1>4, ItemPut DEF Reported
<1> HIDE DEF t
<1>6. /\ t \in States(created) /\ t.queue = queue /\ t.running = running
      /\ t.limit = limit /\ t.item[i] = x
      /\ \A j \in 1 .. created : j # i => t.item[j] = v.item[j]
  BY <1>2, <1>4, <1>5 DEF Put, Reported
<1>7. \A j \in 1 .. created : j # i => Like(item[j], t.item[j])
  BY <1>2, <1>4, <1>6 DEF Reported
<1>8. Stopped(t, created)
  <2>1. Stopped(v, created)
    BY <1>3, <1>4 DEF Reported
  <2>2. t.stopping = v.stopping
    BY <1>5 DEF Put
  <2>3. \A j \in 1 .. created : /\ t.item[j].failed => v.item[j].failed
                                /\ v.item[j].finished => t.item[j].finished
                                /\ v.item[j].canceled # "no" => t.item[j].canceled # "no"
    BY <1>6
  <2> QED BY <1>1, <2>1, <2>2, <2>3, StoppedStill
<1>9. item[i].finished => x.finished
  <2>1. Like(y, v.item[i])
    BY <1>2, <1>4 DEF Reported
  <2> QED BY <2>1 DEF Like
<1>10. ItemStep(State, t, created, i)
  <2>1. x.published >= item[i].published
    <3>1. item[i].published \in Int
      BY <1>1 DEF ItemRecords
    <3> QED BY <3>1
  <2> QED BY <1>1, <1>6, <1>7, <1>8, <1>9, <2>1 DEF ItemStep
<1>11. Commit(t)
  BY DEF t
<1>12. item'[i] = x /\ limit' = limit
  BY <1>6, <1>11 DEF Commit
<1>13. Activated(i)
  BY <1>12 DEF Activated
<1>14. \A b \in Branches : Occupied(State, b) + loose[b] <= Occupied(t, b) + loose'[b]
  <2>1. t.running = State.running
    BY <1>1, <1>6
  <2>2. \A b \in Branches : Occupied(t, b) = Occupied(State, b)
    BY <2>1 DEF Occupied, Slots
  <2>3. \A b \in Branches : Occupied(State, b) \in Nat /\ loose[b] \in Nat
    BY <1>1, Occupies
  <2> QED BY <2>2, <2>3
<1>15. loose' \in [Branches -> Nat] /\ created' = created /\ mode' = mode
  BY <1>1
<1>16. Climbs(i)
  BY <1>9, <1>12 DEF Climbs
<1> QED BY <1>10, <1>11, <1>12, <1>13, <1>14, <1>15, <1>16, ItemStepGoes

\* A processor returns: its outcome acts, and an open body is sealed.
LEMMA ReturnGoes ==
  ASSUME IInv, NEW i \in Items, NEW proc \in {"ok", "fail", "abort"}, Return(i, proc)
  PROVE  Goes
<1> DEFINE it == item[i]
           p == AsAbort(it, IF proc = "ok" THEN "none" ELSE proc)
           outcome == IF p = "none" THEN "ok" ELSE p
           by == IF outcome = "fail" THEN "self" ELSE "conveyor"
           c == IF outcome # "ok" /\ it.canceled = "no" THEN by ELSE it.canceled
           y == [it EXCEPT !.returned = TRUE, !.proc = outcome, !.dormant = {},
                           !.canceled = c]
           s == [State EXCEPT !.item[i] = y]
           v == SettleOutcome(s, i)
           q == v.item[i]
           x == IF q.body = "open" THEN SealBody(q, "closed") ELSE q
<1>1. i \in DOMAIN item
  BY DEF Return, Active
<1>2. /\ i \in 1 .. created /\ it \in ItemRecords /\ Fit(it) /\ Held(it) /\ Settled(it)
  BY <1>1, ItemOfIInv
<1>3. ~it.returned
  BY DEF Return, Active
<1>4. Commit([v EXCEPT !.item[i] = x]) /\ UNCHANGED <<created, loose, mode>>
  BY Zenon DEF Return
<1>5. State \in States(created) /\ created \in 0 .. NItems
  BY StateOfIInv DEF Core
<1> HIDE DEF it
<1>6. /\ outcome \in {"ok", "fail", "abort"} /\ c \in {"no", "self", "conveyor"}
      /\ it.canceled # "no" => c = it.canceled
  BY <1>2 DEF AsAbort, ItemRecords
<1> HIDE DEF p, outcome, by, c
<1>7. y \in ItemRecords
  <2>1. {} \in SUBSET Batches /\ TRUE \in BOOLEAN
    OBVIOUS
  <2> QED BY <1>2, <1>6, <2>1, Zenon DEF ItemRecords
<1>8. /\ y.returned /\ y.dormant = {} /\ y.canceled = c
      /\ y.reached = it.reached /\ y.published = it.published /\ y.finished = it.finished
      /\ y.failed = it.failed /\ y.body = it.body /\ y.root = it.root
      /\ y.joined = it.joined /\ y.retains = it.retains /\ y.slots = it.slots
      /\ y.queuedAt = it.queuedAt /\ y.token = it.token /\ y.awaiting = it.awaiting
      /\ y.begun = it.begun /\ y.held = it.held /\ y.broke = it.broke
      /\ SameGroup(it, y)
  BY <1>2, <1>7 DEF ItemRecords, SameGroup
<1> HIDE DEF y
<1>9. Put(State, s, created, i, y)
  BY <1>2, <1>5, <1>7, ItemPut
<1> HIDE DEF s
<1>10. s \in States(created) /\ s.item[i] = y
  BY <1>9 DEF Put
<1>11. Like(y, q) /\ (Failing(y) => q.failed)
  <2>1. Reported(s, v, created, i) /\ (Failing(s.item[i]) => v.item[i].failed)
    BY <1>2, <1>5, <1>10, SettleOutcomeReported
  <2> QED BY <1>2, <1>10, <2>1 DEF Reported
<1> HIDE DEF v
<1>12. /\ q \in ItemRecords
       /\ q.returned /\ q.dormant = {} /\ q.proc = y.proc
       /\ q.reached = it.reached /\ q.published = it.published /\ q.finished = it.finished
       /\ q.body = it.body /\ q.root = it.root
       /\ q.joined = it.joined /\ q.retains = it.retains /\ q.slots = it.slots
       /\ q.queuedAt = it.queuedAt /\ q.token = it.token /\ q.awaiting = it.awaiting
       /\ q.begun = it.begun /\ q.held = it.held /\ q.broke = it.broke
       /\ SameGroup(it, q)
  BY <1>8, <1>11 DEF Like, SameGroup
<1> HIDE DEF q
<1>13. (Failing(q) => q.failed) /\ Held(q)
  BY <1>2, <1>8, <1>11, <1>12 DEF Failing, SameGroup, Held
<1>14. /\ x \in ItemRecords /\ Fit(x) /\ Held(x) /\ Settled(x) /\ x.returned
       /\ x.failed = q.failed /\ x.canceled = q.canceled /\ x.finished = q.finished
       /\ x.unexhausted = q.unexhausted /\ x.tasks = q.tasks
       /\ x.published = q.published /\ x.reached = q.reached
       /\ HoldKept(q, x)
  <2>1. CASE q.body = "open"
    <3> DEFINE z == [q EXCEPT !.body = "closed"]
    <3>1. /\ z.body = "closed" /\ z.reached = q.reached
          /\ z.published = q.published /\ z.finished = q.finished /\ z.failed = q.failed
          /\ z.returned = q.returned /\ z.proc = q.proc /\ z.joined = q.joined
          /\ z.root = q.root /\ z.slots = q.slots /\ z.queuedAt = q.queuedAt
          /\ z.token = q.token /\ z.retains = q.retains /\ z.broke = q.broke
          /\ z.dormant = q.dormant /\ SameGroup(q, z)
      BY <1>12 DEF ItemRecords, SameGroup
    <3> HIDE DEF z
    <3>2. Placed(z)
      BY <1>2, <1>12, <2>1, <3>1 DEF Fit, Placed
    <3>3. Slotted(z)
      BY <1>2, <1>12, <2>1, <3>1 DEF Fit, Slotted, SameGroup
    <3>4. Told(z)
      BY <1>2, <1>12, <1>13, <3>1 DEF Fit, Told, Failing, SameGroup
    <3>5. Fit([q EXCEPT !.body = "closed"])
      BY <3>2, <3>3, <3>4 DEF Fit, z
    <3>6. x = SealBody(q, "closed")
      BY <2>1
    <3> HIDE DEF x
    <3> QED BY <1>12, <1>13, <3>5, <3>6, SealBodyFits
  <2>2. CASE q.body # "open"
    <3>1. x = q
      BY <2>2
    <3>2. Placed(q)
      BY <1>2, <1>12 DEF Fit, Placed
    <3>3. Slotted(q)
      BY <1>2, <1>12 DEF Fit, Slotted, SameGroup
    <3>4. Told(q)
      BY <1>2, <1>12, <1>13, <2>2 DEF Fit, Told, SameGroup
    <3>5. Held(q) /\ Settled(q) /\ HoldKept(q, q)
      BY <1>2, <1>12, <1>13 DEF Settled, SameGroup, Idle, HoldKept
    <3> HIDE DEF x
    <3> QED BY <1>12, <3>1, <3>2, <3>3, <3>4, <3>5 DEF Fit
  <2> QED BY <2>1, <2>2
<1> HIDE DEF x
<1>15. /\ x.unexhausted = it.unexhausted /\ x.tasks = it.tasks
       /\ x.published = it.published /\ x.reached = it.reached
       /\ HoldKept(it, x)
  BY <1>12, <1>14 DEF SameGroup, HoldKept
<1>16. /\ y.failed = it.failed /\ y.finished = it.finished
       /\ it.canceled # "no" => y.canceled # "no"
  BY <1>6, <1>8
<1> QED BY <1>2, <1>4, <1>9, <1>14, <1>15, <1>16, OutcomeGoes DEF it, q, v

\* An item is over, after its outcome is settled again.
LEMMA FinishGoes ==
  ASSUME IInv, NEW i \in Items, Finish(i)
  PROVE  Goes
<1> DEFINE it == item[i]
           v == SettleOutcome(State, i)
           q == v.item[i]
           x == [q EXCEPT !.finished = TRUE, !.slots = {}, !.queuedAt = FALSE,
                          !.token = "none", !.awaiting = {}, !.begun = FALSE]
<1>1. i \in DOMAIN item /\ it.returned
  BY DEF Finish, InFlight, State
<1>2. /\ i \in 1 .. created /\ it \in ItemRecords /\ Fit(it) /\ Held(it) /\ Settled(it)
  BY <1>1, ItemOfIInv
<1>3. Commit([v EXCEPT !.item[i] = x]) /\ UNCHANGED <<created, loose, mode>>
  BY Zenon DEF Finish
<1>4. State \in States(created) /\ created \in 0 .. NItems /\ State.item = item
  BY StateOfIInv DEF Core
<1> HIDE DEF it
<1>5. Put(State, State, created, i, it)
  BY <1>4 DEF Put, it
<1>6. Like(it, q)
  <2>1. Reported(State, v, created, i)
    BY <1>2, <1>4, SettleOutcomeReported
  <2> QED BY <1>2, <1>4, <2>1 DEF Reported, it
<1> HIDE DEF v
<1>7. Fit(q) /\ Held(q) /\ Settled(q) /\ q \in ItemRecords
  BY <1>2, <1>6, LikeFits DEF Like
<1> HIDE DEF q
<1>8. x \in ItemRecords
  <2>1. {} \in SUBSET {"gate", "node"} /\ {} \in SUBSET Branches /\ "none" \in Tokens
        /\ FALSE \in BOOLEAN
    BY DEF Tokens
  <2> QED BY <1>7, <2>1, Zenon DEF ItemRecords
<1>9. /\ x.finished /\ x.slots = {} /\ ~x.queuedAt /\ x.token = "none"
      /\ x.reached = q.reached /\ x.published = q.published /\ x.failed = q.failed
      /\ x.canceled = q.canceled /\ x.returned = q.returned /\ x.proc = q.proc
      /\ x.body = q.body /\ x.root = q.root /\ x.joined = q.joined
      /\ x.retains = q.retains /\ x.dormant = q.dormant /\ SameGroup(q, x)
      /\ x.held = q.held /\ x.broke = q.broke /\ ~x.begun
  BY <1>7, <1>8 DEF ItemRecords, SameGroup
<1> HIDE DEF x
<1>10. Fit(x) /\ Held(x) /\ Settled(x)
  <2>1. Placed(x)
    BY <1>7, <1>9 DEF Fit, Placed
  <2>2. Slotted(x)
    BY <1>9 DEF Slotted
  <2>3. Told(x)
    BY <1>1, <1>6, <1>7, <1>9 DEF Fit, Told, Failing, SameGroup, Like, it
  <2> QED BY <1>7, <1>9, <2>1, <2>2, <2>3 DEF Fit, Held, Settled, SameGroup, Idle
<1>11. /\ x.unexhausted = it.unexhausted /\ x.tasks = it.tasks
       /\ x.published = it.published /\ x.reached = it.reached /\ x.returned
       /\ HoldKept(it, x)
  BY <1>1, <1>6, <1>9 DEF Like, SameGroup, HoldKept, it
<1> QED BY <1>2, <1>3, <1>5, <1>8, <1>9, <1>10, <1>11, OutcomeGoes DEF it, q, v

\* A branch has worked off its queue.
LEMMA WorkedGoes ==
  ASSUME IInv, NEW u, Core(u, created), u.item = item, u.queue = queue, u.running = running,
         NEW t, Core(t, created), Worked(u, t, created), Commit(t),
         created' = created, mode' = mode, loose' \in [Branches -> Nat],
         \A c \in Branches : queue[c] # <<>> /\ t.queue[c] # <<>> =>
             Occupied(t, c) + loose'[c] >= t.limit[c]
  PROVE  Goes
<1>1. /\ Core(State, created) /\ created \in 0 .. NItems /\ mode \in Modes
      /\ DOMAIN item = 1 .. created
  BY StateOfIInv
<1>2. /\ State' = t /\ t.item = item' /\ t.queue = queue' /\ t.running = running'
      /\ t.limit = limit'
  BY CommitState DEF Core, Commit
<1>3. NoStrandedWork'
  <2> SUFFICES ASSUME NEW c \in Branches, t.queue[c] # <<>>
               PROVE  Occupied(t, c) + loose'[c] >= t.limit[c]
    BY <1>2 DEF NoStrandedWork
  <2>1. queue[c] # <<>>
    <3>1. 1 \in DOMAIN t.queue[c]
      <4>1. t.queue[c] \in Seq(Collections)
        BY <1>1, StateFields DEF Core
      <4> QED BY <4>1
    <3>2. PICK l \in DOMAIN u.queue[c] : u.queue[c][l].item = t.queue[c][1].item
      BY <3>1 DEF Worked
    <3> QED BY <3>2
  <2> QED BY <2>1
<1>4. IInv'
  BY <1>1, <1>2, <1>3 DEF IInv
<1>5. Served
  BY <1>2 DEF Worked, Served
<1>6. \A i \in 1 .. created : Activated(i) /\ item'[i].reached = item[i].reached
  <2> SUFFICES ASSUME NEW i \in 1 .. created
               PROVE  Activated(i) /\ item'[i].reached = item[i].reached
    OBVIOUS
  <2>1. Fit(item[i])
    BY DEF Core
  <2>2. /\ Same(item[i], item'[i])
        /\ item[i].body = "none" => item'[i].dormant = item[i].dormant
    BY <1>2 DEF Worked
  <2> QED BY <2>1, <2>2 DEF Activated, Same, Fit, Placed
<1>7. Lined
  <2>1. \A j \in 1 .. created : /\ item'[j].published = item[j].published
                                /\ item'[j].finished = item[j].finished
    BY <1>2 DEF Worked, Same
  <2>2. 0 \in Nat /\ 0 \notin 1 .. created
    BY <1>1
  <2> QED BY <1>1, <2>1, <2>2 DEF Lined
<1> QED BY <1>1, <1>4, <1>5, <1>6, <1>7 DEF Goes

\* A worker pulls its next task, or ends.
LEMMA WorkerNextGoes ==
  ASSUME IInv, NEW b \in Branches, WorkerNext(b)
  PROVE  Goes
<1> DEFINE t == GrabNext(State, b)
<1>1. /\ Core(State, created) /\ created \in 0 .. NItems /\ created \in Nat
      /\ loose \in [Branches -> Nat]
      /\ State.item = item /\ State.queue = queue /\ State.running = running
      /\ State.limit = limit
  BY StateOfIInv
<1>2. /\ loose[b] > 0 /\ loose' = [loose EXCEPT ![b] = @ - 1] /\ Commit(t)
      /\ UNCHANGED <<created, mode>>
  BY DEF WorkerNext
<1>3. /\ Core(t, created) /\ Worked(State, t, created)
      /\ ~Pullable(t, b) \/ Occupied(State, b) + 1 <= Occupied(t, b)
  BY <1>1, GrabNextKeeps
<1> HIDE DEF t
<1>4. /\ loose' \in [Branches -> Nat]
      /\ \A c \in Branches : loose'[c] = loose[c] - (IF c = b THEN 1 ELSE 0)
  BY <1>1, <1>2
<1>5. ASSUME NEW c \in Branches, queue[c] # <<>>, t.queue[c] # <<>>
      PROVE  Occupied(t, c) + loose'[c] >= t.limit[c]
  <2>1. Occupied(State, c) + loose[c] >= limit[c]
    BY <1>5 DEF IInv, NoStrandedWork
  <2>2. /\ Occupied(State, c) \in Nat /\ Occupied(t, c) \in Nat
        /\ Occupied(State, c) <= Occupied(t, c)
    BY <1>1, <1>3, Occupies DEF Worked
  <2>3. t.limit = limit /\ limit[c] \in Nat /\ loose[c] \in Nat /\ loose'[c] \in Nat
    <3>1. limit \in [Branches -> Nat \ {0}]
      BY <1>1, StateFields DEF Core
    <3> QED BY <1>1, <1>3, <1>4, <3>1 DEF Worked
  <2>4. CASE c = b /\ ~Pullable(t, b)
    BY <1>5, <2>2, <2>3, <2>4 DEF Pullable, UnitHasFreeSlot
  <2>5. CASE c = b /\ Occupied(State, b) + 1 <= Occupied(t, b)
    BY <1>4, <2>1, <2>2, <2>3, <2>5
  <2>6. CASE c # b
    BY <1>4, <2>1, <2>2, <2>3, <2>6
  <2> QED BY <1>3, <2>4, <2>5, <2>6
<1> QED BY <1>1, <1>2, <1>3, <1>4, <1>5, WorkedGoes

\* u is s, but for the limit of b.
Limited(s, u, n, b) ==
    /\ Core(u, n) /\ u.item = s.item /\ u.queue = s.queue /\ u.running = s.running
    /\ \A c \in Branches : c # b => u.limit[c] = s.limit[c]
    /\ \A c \in Branches : Occupied(u, c) = Occupied(s, c)

\* The invariant of a cascade does not depend on limits.
LEMMA LimitKeeps ==
  ASSUME NEW n \in 0 .. NItems, NEW s, Core(s, n), NEW b \in Branches, NEW l \in Nat \ {0}
  PROVE  Limited(s, [s EXCEPT !.limit[b] = l], n, b)
<1> DEFINE f == [s.limit EXCEPT ![b] = l]
           u == [s EXCEPT !.limit[b] = l]
<1>1. s \in States(n) /\ s.limit \in [Branches -> Nat \ {0}]
  BY StateFields DEF Core
<1>2. /\ f \in [Branches -> Nat \ {0}] /\ f[b] = l
      /\ \A c \in Branches : c # b => f[c] = s.limit[c]
  BY <1>1
<1>3. u = [s EXCEPT !.limit = f]
  OBVIOUS
<1> HIDE DEF f, u
<1>4. u \in States(n)
  BY <1>1, <1>2, <1>3, Zenon DEF States
<1>5. /\ u.item = s.item /\ u.queue = s.queue /\ u.running = s.running
      /\ u.limit = f /\ u.stopping = s.stopping
  BY <1>1, <1>3 DEF States
<1>6. \A c \in Branches : Slots(u, c) = Slots(s, c)
  BY <1>5 DEF Slots
<1>7. Counted(u, n)
  BY <1>5, <1>6 DEF Core, Counted
<1>8. Working(u, n) /\ Ordered(u, n) /\ Sorted(u)
  BY <1>5 DEF Core, Working, Within, Ordered, Sorted
<1>9. Holding(u, n) /\ Stopped(u, n)
  BY <1>5 DEF Core, Holding, Single, HoldOf, Waits, Entering, Stopped
<1>10. Core(u, n)
  BY <1>4, <1>5, <1>7, <1>8, <1>9 DEF Core
<1> QED BY <1>2, <1>5, <1>6, <1>10 DEF Limited, Occupied, u

\* A limit changes; a raise starts queued work.
LEMMA SetLimitGoes ==
  ASSUME IInv, NEW b \in Branches, NEW l \in BranchLimits, SetLimit(b, l)
  PROVE  Goes
<1> DEFINE u == [State EXCEPT !.limit[b] = l]
           t == Pump(u, b)
<1>1. /\ Core(State, created) /\ created \in 0 .. NItems /\ created \in Nat
      /\ loose \in [Branches -> Nat]
      /\ State.item = item /\ State.queue = queue /\ State.running = running
      /\ State.limit = limit
  BY StateOfIInv
<1>2. Commit(t) /\ UNCHANGED <<created, loose, mode>>
  BY DEF SetLimit
<1>3. /\ Core(u, created) /\ u.item = item /\ u.queue = queue /\ u.running = running
      /\ \A c \in Branches : c # b => u.limit[c] = limit[c]
      /\ \A c \in Branches : Occupied(u, c) = Occupied(State, c)
  <2>1. l \in Nat \ {0}
    BY LimitsPositive
  <2>2. Limited(State, u, created, b)
    BY <1>1, <2>1, LimitKeeps
  <2> HIDE DEF u
  <2> QED BY <1>1, <2>2 DEF Limited
<1> HIDE DEF u
<1>4. Core(t, created) /\ Worked(u, t, created) /\ ~Pullable(t, b)
  BY <1>1, <1>3, PumpKeeps
<1> HIDE DEF t
<1>5. ASSUME NEW c \in Branches, queue[c] # <<>>, t.queue[c] # <<>>
      PROVE  Occupied(t, c) + loose'[c] >= t.limit[c]
  <2>1. Occupied(State, c) + loose[c] >= limit[c]
    BY <1>5 DEF IInv, NoStrandedWork
  <2>2. /\ Occupied(State, c) \in Nat /\ Occupied(t, c) \in Nat
        /\ Occupied(State, c) <= Occupied(t, c)
    BY <1>1, <1>3, <1>4, Occupies DEF Worked
  <2>3. /\ t.limit = u.limit /\ t.limit[c] \in Nat /\ limit[c] \in Nat
        /\ loose[c] \in Nat /\ loose'[c] = loose[c]
    <3>1. limit \in [Branches -> Nat \ {0}]
      BY <1>1, StateFields DEF Core
    <3>2. t.limit \in [Branches -> Nat \ {0}]
      BY <1>1, <1>4, StateFields DEF Core
    <3> QED BY <1>1, <1>2, <1>4, <3>1, <3>2 DEF Worked
  <2>4. CASE c = b
    BY <1>4, <1>5, <2>2, <2>3, <2>4 DEF Pullable, UnitHasFreeSlot
  <2>5. CASE c # b
    BY <1>3, <2>1, <2>2, <2>3, <2>5
  <2> QED BY <2>4, <2>5
<1>6. loose' \in [Branches -> Nat]
  BY <1>1, <1>2
<1> QED BY <1>2, <1>3, <1>4, <1>5, <1>6, WorkedGoes

-----------------------------------------------------------------------------
(* The dial, shutdown, a new item *)

\* A step that touches neither items nor work: the dial, the start of a shutdown,
\* a stuttering step.
LEMMA StillGoes ==
  ASSUME IInv, UNCHANGED <<created, item, queue, running, loose, limit>>, mode' \in Modes,
         stopping' \in BOOLEAN, stopping => stopping'
  PROVE  Goes
<1>1. /\ Core(State, created) /\ created \in 0 .. NItems /\ created \in Nat
      /\ loose \in [Branches -> Nat]
      /\ State.item = item /\ State.queue = queue /\ State.running = running
      /\ State.limit = limit /\ State.stopping = stopping
      /\ DOMAIN item = 1 .. created
  BY StateOfIInv
<1> DEFINE t == State'
<1>2. /\ t.item = item /\ t.queue = queue /\ t.running = running /\ t.limit = limit
      /\ t.stopping = stopping'
      /\ t = [item |-> item, queue |-> queue, running |-> running, limit |-> limit,
              stopping |-> stopping']
  BY DEF State
<1>3. t \in States(created)
  <2>1. /\ item \in [1 .. created -> ItemRecords] /\ queue \in Queues /\ running \in Running
        /\ limit \in [Branches -> Nat \ {0}]
    BY <1>1, StateFields DEF Core
  <2> QED BY <1>2, <2>1, Zenon DEF States
<1>4. \A c \in Branches : Slots(t, c) = Slots(State, c) /\ Occupied(t, c) = Occupied(State, c)
  BY <1>1, <1>2 DEF Slots, Occupied
<1> HIDE DEF t
<1>5. Core(t, created)
  <2>1. \A i \in 1 .. created : Fit(t.item[i]) /\ Held(t.item[i]) /\ Settled(t.item[i])
    BY <1>1, <1>2 DEF Core
  <2>2. Counted(t, created)
    BY <1>1, <1>2, <1>4 DEF Core, Counted
  <2>3. Working(t, created) /\ Ordered(t, created) /\ Sorted(t)
    BY <1>1, <1>2 DEF Core, Working, Within, Ordered, Sorted
  <2>4. Holding(t, created)
    BY <1>1, <1>2 DEF Core, Holding, Single, HoldOf, Waits, Entering
  <2>5. Stopped(t, created)
    BY <1>1, <1>2 DEF Core, Stopped
  <2> QED BY <1>3, <2>1, <2>2, <2>3, <2>4, <2>5 DEF Core
<1>6. NoStrandedWork'
  BY <1>4 DEF IInv, NoStrandedWork, t
<1>7. IInv'
  BY <1>1, <1>5, <1>6 DEF IInv, t
<1>8. Served
  <2>1. \A b \in Branches, i \in Items : running[b][i] \in Nat
    BY <1>1, StateFields DEF Core
  <2> QED BY <2>1 DEF Served
<1>9. \A i \in 1 .. created : Activated(i)
  <2> SUFFICES ASSUME NEW i \in 1 .. created PROVE Activated(i)
    OBVIOUS
  <2>1. Fit(item[i])
    BY <1>1 DEF Core
  <2> QED BY <2>1 DEF Fit, Placed, Activated
<1>10. Lined
  <2>1. 0 \in Nat /\ 0 \notin 1 .. created
    BY <1>1
  <2> QED BY <1>1, <2>1 DEF Lined
<1> QED BY <1>1, <1>7, <1>8, <1>9, <1>10 DEF Goes

\* The drain timeout cancels everybody in flight.
LEMMA DrainOverrunGoes ==
  ASSUME IInv, DrainOverrun
  PROVE  Goes
<1> DEFINE t == CancelLater(State, 0)
<1>1. /\ Core(State, created) /\ created \in 0 .. NItems /\ created \in Nat
      /\ loose \in [Branches -> Nat] /\ State \in States(created)
      /\ State.item = item /\ State.queue = queue /\ State.running = running
      /\ State.limit = limit /\ State.stopping = stopping
      /\ DOMAIN item = 1 .. created
  BY StateOfIInv DEF Core
<1>2. Commit(t) /\ UNCHANGED <<created, loose, mode>> /\ InFlight(State) # {}
  BY DEF DrainOverrun
<1>3. Reported(State, t, created, 0)
  <2>1. 0 \in 0 .. created
    BY <1>1
  <2> QED BY <1>1, <2>1, CancelLaterReported
<1> HIDE DEF t
<1>4. 1 \in 1 .. created
  BY <1>1, <1>2 DEF InFlight
<1>5. /\ t \in States(created) /\ t.queue = queue /\ t.running = running /\ t.limit = limit
      /\ Stopped(t, created)
      /\ \A j \in 1 .. created : Like(State.item[j], t.item[j])
  BY <1>1, <1>3 DEF Reported, Core
<1>6. Like(item[1], t.item[1])
  BY <1>1, <1>4, <1>5
<1>7. Fit(item[1]) /\ Held(item[1]) /\ Settled(item[1])
  BY <1>1, <1>4 DEF Core
<1>8. Fit(t.item[1]) /\ Held(t.item[1]) /\ Settled(t.item[1])
  BY <1>6, <1>7, LikeFits
<1>9. ItemStep(State, t, created, 1)
  <2>1. /\ t.item[1].unexhausted = item[1].unexhausted
        /\ t.item[1].published = item[1].published /\ t.item[1].finished = item[1].finished
        /\ t.item[1].reached = item[1].reached /\ t.item[1].token = item[1].token
        /\ t.item[1].root = item[1].root /\ t.item[1].awaiting = item[1].awaiting
        /\ t.item[1].tasks = item[1].tasks
        /\ t.item[1].begun = item[1].begun /\ t.item[1].held = item[1].held
        /\ item[1].published \in Int
    BY <1>6 DEF Like, SameGroup, ItemRecords
  <2> QED BY <1>1, <1>5, <1>8, <2>1 DEF ItemStep, HoldKept
<1>10. item' = t.item /\ limit' = limit
  BY <1>2, <1>5 DEF Commit
<1>11. \A b \in Branches : Occupied(State, b) + loose[b] <= Occupied(t, b) + loose'[b]
  <2> SUFFICES ASSUME NEW b \in Branches
               PROVE  Occupied(State, b) + loose[b] <= Occupied(t, b) + loose'[b]
    OBVIOUS
  <2>1. Occupied(State, b) \in Nat /\ loose[b] \in Nat
    BY <1>1, Occupies
  <2>2. Occupied(t, b) = Occupied(State, b) /\ loose' = loose
    BY <1>1, <1>2, <1>5 DEF Occupied, Slots
  <2> QED BY <2>1, <2>2
<1>12. Activated(1) /\ item'[1].reached = item[1].reached
  BY <1>6, <1>7, <1>10 DEF Like, Fit, Placed, Activated
<1>13. created' = created /\ mode' = mode /\ loose' \in [Branches -> Nat]
  BY <1>1, <1>2
<1>14. Climbs(1)
  BY <1>6, <1>10 DEF Like, Climbs
<1> QED BY <1>2, <1>4, <1>9, <1>10, <1>11, <1>12, <1>13, <1>14, ItemStepGoes

\* A new item is fit.
LEMMA NewItemFits ==
  /\ NewItem \in ItemRecords /\ Fit(NewItem) /\ Held(NewItem) /\ Settled(NewItem)
  /\ NewItem.token = "none" /\ ~NewItem.failed /\ NewItem.reached = GateRank
  /\ NewItem.held = "buffered" /\ ~NewItem.root
  /\ NewItem.unexhausted = 0 /\ NewItem.tasks = 0
<1>1. NewItem \in ItemRecords
  BY DEF NewItem, ItemRecords, Bodies, Tokens, GateRank
<1>2. Fit(NewItem) /\ Held(NewItem) /\ Settled(NewItem)
  BY DEF NewItem, Fit, Placed, Slotted, Told, Failing, Held, Settled, GateRank, RoomRank,
         NodeRank, BeyondRank
<1> QED BY <1>1, <1>2 DEF NewItem

\* Nobody has work of an item that is not there yet.
LEMMA NoWorkYet ==
  ASSUME NEW n \in 0 .. NItems, NEW s, Core(s, n), NEW i \in Items, i > n
  PROVE  QueuedOf(s.queue, i) = {} /\ RunningOf(s.running, i) = {}
<1>1. \A b \in Branches : /\ ~(s.running[b][i] > 0) /\ s.running[b][i] \in Nat
                          /\ \A k \in DOMAIN s.queue[b] : s.queue[b][k].item # i
  BY StateFields DEF Core, Working, Within, Items
<1>2. QueuedOf(s.queue, i) = {}
  BY <1>1 DEF QueuedOf
<1>3. \A b \in Branches : 1 .. s.running[b][i] = {}
  BY <1>1
<1>4. RunningOf(s.running, i) = {}
  BY <1>3 DEF RunningOf
<1> QED BY <1>2, <1>4

\* An item is created.
LEMMA CreateGoes ==
  ASSUME IInv, Create
  PROVE  Goes
<1>1. /\ Core(State, created) /\ created \in 0 .. NItems /\ created \in Nat
      /\ loose \in [Branches -> Nat] /\ mode \in Modes
      /\ State.item = item /\ State.queue = queue /\ State.running = running
      /\ State.limit = limit /\ State.stopping = stopping
      /\ DOMAIN item = 1 .. created /\ item \in [1 .. created -> ItemRecords]
  BY StateOfIInv
<1> DEFINE n == created + 1
           t == State'
<1>2. /\ created < NItems /\ ~stopping /\ item' = Append(item, NewItem)
      /\ UNCHANGED <<queue, running, loose, limit, mode, stopping>> /\ created' = n
  BY DEF Create
<1>3. n \in 0 .. NItems /\ n \in Nat /\ n \in Items /\ 1 .. created \subseteq 1 .. n
      /\ \A j \in 1 .. n : j \in 1 .. created \/ j = n
  BY <1>1, <1>2, NItemsNat DEF Items
<1>4. /\ item' \in [1 .. n -> ItemRecords] /\ item'[n] = NewItem
      /\ \A j \in 1 .. created : item'[j] = item[j]
  <2>1. item \in Seq(ItemRecords) /\ Len(item) = created
    BY <1>1
  <2>2. NewItem \in ItemRecords
    BY NewItemFits
  <2>3. /\ Append(item, NewItem) \in Seq(ItemRecords)
        /\ Len(Append(item, NewItem)) = Len(item) + 1
        /\ Append(item, NewItem)[Len(item) + 1] = NewItem
        /\ \A j \in 1 .. Len(item) : Append(item, NewItem)[j] = item[j]
    BY <2>1, <2>2, AppendProperties
  <2>4. item' \in Seq(ItemRecords) /\ Len(item') = n
    BY <1>2, <2>1, <2>3
  <2>5. item' \in [1 .. n -> ItemRecords]
    BY <2>4, LenProperties
  <2>6. item'[n] = NewItem /\ \A j \in 1 .. created : item'[j] = item[j]
    BY <1>2, <2>1, <2>3
  <2> QED BY <2>5, <2>6
<1>5. /\ t.item = item' /\ t.queue = queue /\ t.running = running /\ t.limit = limit
      /\ t.stopping = FALSE
      /\ t = [item |-> item', queue |-> queue, running |-> running, limit |-> limit,
              stopping |-> FALSE]
  <2>1. stopping = FALSE
    BY <1>1, <1>2, StateFields DEF Core
  <2> QED BY <1>2, <2>1 DEF State
<1> HIDE DEF n
<1>6. t \in States(n)
  <2>1. /\ queue \in Queues /\ running \in Running /\ limit \in [Branches -> Nat \ {0}]
    BY <1>1, StateFields DEF Core
  <2>2. FALSE \in BOOLEAN
    OBVIOUS
  <2> QED BY <1>4, <1>5, <2>1, <2>2, Zenon DEF States
<1>7. \A c \in Branches : Slots(t, c) = Slots(State, c) /\ Occupied(t, c) = Occupied(State, c)
  BY <1>1, <1>5 DEF Slots, Occupied
<1> HIDE DEF t
<1>8. /\ \A j \in 1 .. created : t.item[j] = item[j]
      /\ t.item[n] = NewItem
  BY <1>4, <1>5
<1>9. \A j \in 1 .. n : Fit(t.item[j]) /\ Held(t.item[j]) /\ Settled(t.item[j])
  BY <1>1, <1>3, <1>8, NewItemFits DEF Core
<1>10. Counted(t, n)
  <2>1. ASSUME NEW j \in 1 .. n
        PROVE  /\ IsFiniteSet(QueuedOf(t.queue, j)) /\ IsFiniteSet(RunningOf(t.running, j))
               /\ t.item[j].unexhausted = Cardinality(QueuedOf(t.queue, j))
               /\ t.item[j].tasks = Cardinality(RunningOf(t.running, j))
    <3>1. CASE j \in 1 .. created
      BY <1>1, <1>5, <1>8, <3>1 DEF Core, Counted
    <3>2. CASE j = n
      <4>1. QueuedOf(State.queue, n) = {} /\ RunningOf(State.running, n) = {}
        <5>1. n > created
          BY <1>1 DEF n
        <5> QED BY <1>1, <1>3, <5>1, NoWorkYet
      <4> QED BY <1>1, <1>5, <1>8, <3>2, <4>1, FS_EmptySet, NewItemFits
    <3> QED BY <1>3, <3>1, <3>2
  <2>2. \A b \in Branches : IsFiniteSet(Slots(t, b))
    BY <1>1, <1>7 DEF Core, Counted
  <2> QED BY <2>1, <2>2 DEF Counted
<1>11. Working(t, n)
  <2>1. ASSUME NEW j \in Items, Within(State, created, j) PROVE Within(t, n, j)
    <3>1. j \in 1 .. created
      BY <1>1, <2>1 DEF Within, Items
    <3> QED BY <1>1, <1>3, <1>8, <2>1, <3>1 DEF Within
  <2>2. \A b \in Branches : \A k \in DOMAIN queue[b] : queue[b][k].item \in Items
    BY <1>1, StateFields DEF Core
  <2> QED BY <1>1, <1>5, <2>1, <2>2 DEF Core, Working
<1>12. Ordered(t, n)
  <2> SUFFICES ASSUME NEW old \in 1 .. n, NEW young \in 1 .. n, old < young,
                      ~t.item[old].finished, ~t.item[young].finished
               PROVE  t.item[young].reached <= t.item[old].published
    BY DEF Ordered
  <2>1. old \in 1 .. created
    BY <1>1, <1>3 DEF n
  <2>2. CASE young \in 1 .. created
    BY <1>1, <1>8, <2>1, <2>2 DEF Core, Ordered
  <2>3. CASE young = n
    BY <1>8, <1>9, <2>3, NewItemFits DEF Fit, Placed
  <2> QED BY <1>3, <2>2, <2>3
<1>13. Sorted(t)
  BY <1>1, <1>5 DEF Core, Sorted
<1>14. Holding(t, n)
  <2>1. Holding(State, created)
    BY <1>1 DEF Core
  <2>2. Single(t)
    BY <1>1, <1>5, <2>1 DEF Holding, Single, Entering
  <2>3. ASSUME NEW j \in 1 .. created PROVE HoldOf(t, j)
    <3>1. HoldOf(State, j) /\ t.item[j] = State.item[j] /\ t.queue = State.queue
      BY <1>1, <1>5, <1>8, <2>1 DEF Holding
    <3> QED BY <3>1 DEF HoldOf, Waits, Entering
  <2>4. HoldOf(t, n)
    <3>1. QueuedOf(State.queue, n) = {}
      <4>1. n > created
        BY <1>1 DEF n
      <4> QED BY <1>1, <1>3, <4>1, NoWorkYet
    <3>2. \A b \in Branches : \A k \in DOMAIN queue[b] : queue[b][k].item # n
      <4> SUFFICES ASSUME NEW b \in Branches, NEW k \in DOMAIN queue[b],
                          queue[b][k].item = n
                   PROVE  FALSE
        OBVIOUS
      <4>1. queue[b] \in Seq(Collections)
        BY <1>1, StateFields DEF Core
      <4>2. k \in Nat
        BY <4>1
      <4>3. <<b, k>> \in QueuedOf(State.queue, n)
        BY <1>1, <4>2 DEF QueuedOf
      <4> QED BY <3>1, <4>3
    <3> QED BY <1>5, <1>8, <3>2, NewItemFits DEF HoldOf, Waits, Entering
  <2> QED BY <1>3, <2>2, <2>3, <2>4 DEF Holding
<1>15. Stopped(t, n)
  <2>1. \A j \in 1 .. n : ~t.item[j].failed
    BY <1>1, <1>2, <1>3, <1>8, NewItemFits DEF Core, Stopped
  <2> QED BY <2>1 DEF Stopped
<1>16. Core(t, n)
  BY <1>6, <1>9, <1>10, <1>11, <1>12, <1>13, <1>14, <1>15 DEF Core
<1>17. NoStrandedWork'
  BY <1>2, <1>7 DEF IInv, NoStrandedWork, t
<1>18. IInv'
  BY <1>1, <1>2, <1>3, <1>16, <1>17 DEF IInv, t
<1>19. Served
  <2>1. \A b \in Branches, i \in Items : running[b][i] \in Nat
    BY <1>1, StateFields DEF Core
  <2> QED BY <1>2, <2>1 DEF Served
<1>20. \A j \in 1 .. created : Activated(j)
  <2> SUFFICES ASSUME NEW j \in 1 .. created PROVE Activated(j)
    OBVIOUS
  <2>1. Fit(item[j])
    BY <1>1 DEF Core
  <2> QED BY <1>4, <2>1 DEF Fit, Placed, Activated
<1>21. Lined
  BY <1>2 DEF Lined, n
<1> QED BY <1>1, <1>4, <1>18, <1>19, <1>20, <1>21 DEF Goes

-----------------------------------------------------------------------------
(* The specification *)

\* The invariant holds at the start.
LEMMA InitIInv ==
  Init => IInv
<1> SUFFICES ASSUME Init PROVE IInv
  OBVIOUS
<1>1. /\ created = 0 /\ item = <<>> /\ stopping = FALSE /\ mode \in Modes
      /\ queue = [b \in Branches |-> <<>>] /\ loose = [b \in Branches |-> 0]
      /\ running = [b \in Branches |-> [i \in Items |-> 0]]
      /\ limit \in [Branches -> BranchLimits]
  BY DEF Init
<1> DEFINE s == State
<1>2. /\ s.item = item /\ s.queue = queue /\ s.running = running /\ s.limit = limit
      /\ s.stopping = FALSE
      /\ s = [item |-> item, queue |-> queue, running |-> running, limit |-> limit,
              stopping |-> FALSE]
  BY <1>1 DEF State
<1> HIDE DEF s
<1>3. s \in States(0)
  <2>1. item \in [1 .. 0 -> ItemRecords]
    BY <1>1
  <2>2. queue \in Queues
    BY <1>1 DEF Queues
  <2>3. running \in Running
    BY <1>1 DEF Running
  <2>4. limit \in [Branches -> Nat \ {0}]
    BY <1>1, LimitsPositive
  <2>5. FALSE \in BOOLEAN
    OBVIOUS
  <2> QED BY <1>2, <2>1, <2>2, <2>3, <2>4, <2>5, Zenon DEF States
<1>4. \A b \in Branches : /\ queue[b] = <<>> /\ DOMAIN queue[b] = {}
                          /\ \A i \in Items : running[b][i] = 0
  BY <1>1
<1>5. Counted(s, 0)
  <2>1. ASSUME NEW b \in Branches PROVE IsFiniteSet(Slots(s, b))
    <3>1. \A i \in Items : 1 .. s.running[b][i] = {}
      BY <1>2, <1>4
    <3>2. Slots(s, b) = {}
      BY <3>1 DEF Slots
    <3> QED BY <3>2, FS_EmptySet
  <2> QED BY <2>1 DEF Counted
<1>6. Working(s, 0) /\ Ordered(s, 0) /\ Holding(s, 0) /\ Stopped(s, 0)
  BY <1>2, <1>4 DEF Working, Ordered, Holding, Single, Stopped
<1>7. Sorted(s)
  BY <1>2, <1>4 DEF Sorted, ByAge
<1>8. Core(s, 0)
  BY <1>3, <1>5, <1>6, <1>7 DEF Core
<1>9. NoStrandedWork
  BY <1>4 DEF NoStrandedWork
<1>10. created \in 0 .. NItems /\ loose \in [Branches -> Nat]
  BY <1>1, NItemsNat
<1> QED BY <1>1, <1>8, <1>9, <1>10 DEF IInv, s

\* Every step does what it should.
LEMMA NextGoes ==
  ASSUME IInv, [Next]_vars
  PROVE  Goes
<1>1. stopping \in BOOLEAN /\ mode \in Modes
  BY StateOfIInv, StateFields DEF Core
<1>2. CASE Create
  BY <1>2, CreateGoes
<1>3. CASE Quiet \/ UNCHANGED vars
  BY <1>1, <1>3, StillGoes DEF Quiet, vars
<1>4. CASE BeginShutdown
  BY <1>1, <1>4, StillGoes DEF BeginShutdown
<1>5. CASE DrainOverrun
  BY <1>5, DrainOverrunGoes
<1>6. ASSUME NEW i \in Items, Enter(i) \/ StepAside(i) \/ MoveOn(i) \/ Refused(i)
      PROVE  Goes
  BY <1>6, EnterGoes, StepAsideGoes, MoveOnGoes, RefusedGoes
<1>7. ASSUME NEW i \in Items, Join(i) \/ CloseBody(i) \/ Retain(i) \/ Finish(i)
      PROVE  Goes
  BY <1>7, JoinGoes, CloseBodyGoes, RetainGoes, FinishGoes
<1>8. ASSUME NEW i \in Items, NEW proc \in {"ok", "fail", "abort"}, Return(i, proc)
      PROVE  Goes
  BY <1>8, ReturnGoes
<1>9. ASSUME NEW i \in Items, NEW batch \in Batches, Prepare(i, batch) \/ Schedule(i, batch)
      PROVE  Goes
  BY <1>9, PrepareGoes, ScheduleGoes
<1>10. ASSUME NEW b \in Branches, WorkerNext(b)
       PROVE  Goes
  BY <1>10, WorkerNextGoes
<1>11. ASSUME NEW b \in Branches, NEW l \in BranchLimits, SetLimit(b, l)
       PROVE  Goes
  BY <1>11, SetLimitGoes
<1>12. ASSUME NEW b \in Branches, NEW i \in Items, NEW err \in {"none", "task", "abort"},
              TaskReturns(b, i, err)
       PROVE  Goes
  BY <1>12, TaskReturnsGoes
<1>13. ASSUME NEW m \in Modes, SetBackpressure(m)
       PROVE  Goes
  BY <1>1, <1>13, StillGoes DEF SetBackpressure
<1> QED BY <1>2, <1>3, <1>4, <1>5, <1>6, <1>7, <1>8, <1>9, <1>10, <1>11, <1>12, <1>13 DEF Next

\* The invariant that the theorems below rest on holds in every reachable state.
THEOREM IInvInvariant == Spec => []IInv
<1>1. IInv /\ [Next]_vars => IInv'
  BY NextGoes DEF Goes
<1> QED BY <1>1, InitIInv, PTL DEF Spec

-----------------------------------------------------------------------------
(* What the invariant says *)

\* Every variable of a state it allows has its type.
LEMMA IInvGivesTypeOK ==
  ASSUME IInv
  PROVE  TypeOK
<1>1. /\ Core(State, created) /\ created \in 0 .. NItems
      /\ State.item = item /\ State.queue = queue /\ State.running = running
      /\ State.limit = limit /\ State.stopping = stopping
      /\ loose \in [Branches -> Nat] /\ mode \in Modes
  BY StateOfIInv
<1>2. /\ item \in [1 .. created -> ItemRecords] /\ queue \in Queues
      /\ running \in Running /\ limit \in [Branches -> Nat \ {0}] /\ stopping \in BOOLEAN
  BY <1>1, StateFields DEF Core
<1> QED BY <1>1, <1>2 DEF TypeOK, Queues, Running

\* Whoever has work has opened the door, hence been admitted behind it.
LEMMA IInvGivesFirstBatchesInOrder ==
  ASSUME IInv
  PROVE  FirstBatchesInOrder
<1>1. /\ Core(State, created) /\ created \in 0 .. NItems
      /\ State.item = item /\ State.queue = queue /\ State.running = running
      /\ DOMAIN item = 1 .. created /\ item \in [1 .. created -> ItemRecords]
      /\ 1 .. created \subseteq Items
  BY StateOfIInv
<1> SUFFICES ASSUME NEW old \in InFlight(State), NEW young \in InFlight(State), old < young,
                    NEW b \in Branches, HasWork(young, b)
             PROVE  item[old].published >= NodeRank
  BY DEF FirstBatchesInOrder
<1>2. /\ old \in 1 .. created /\ young \in 1 .. created /\ young \in Items
      /\ ~item[old].finished /\ ~item[young].finished
  BY <1>1 DEF InFlight
<1>3. item[young].published >= NodeRank
  BY <1>1, <1>2 DEF HasWork, Core, Working, Within
<1>4. /\ item[young].published <= item[young].reached
      /\ item[young].reached <= item[old].published
      /\ item[young].published \in Int /\ item[young].reached \in Int
      /\ item[old].published \in Int
  <2>1. item[young].reached <= item[old].published
    BY <1>1, <1>2 DEF Core, Ordered
  <2>2. Fit(item[young])
    BY <1>1, <1>2 DEF Core
  <2>3. item[young] \in ItemRecords /\ item[old] \in ItemRecords
    BY <1>1, <1>2
  <2> QED BY <2>1, <2>2, <2>3 DEF Fit, Placed, ItemRecords
<1> QED BY <1>3, <1>4 DEF NodeRank

\* A hold it allows has something to wait for.
LEMMA IInvGivesHoldEndsInTime ==
  ASSUME IInv
  PROVE  HoldEndsInTime
<1>1. /\ Core(State, created) /\ State.item = item /\ State.queue = queue
      /\ DOMAIN item = 1 .. created /\ item \in [1 .. created -> ItemRecords]
  BY StateOfIInv
<1> SUFFICES ASSUME NEW i \in 1 .. created
             PROVE  LET it == item[i]
                        lasts ==
                            IF it.root
                            THEN Unstarted(i) # {} /\ ~it.begun
                            ELSE it.body = "open"
                    IN  it.token # "none" <=> it.held # "buffered" /\ ~it.finished /\ lasts
  BY <1>1 DEF HoldEndsInTime
<1>2. Held(item[i]) /\ Slotted(item[i]) /\ HoldOf(State, i) /\ item[i].awaiting \subseteq Branches
  <2>1. item[i] \in ItemRecords
    BY <1>1
  <2> QED BY <1>1, <2>1 DEF Core, Fit, Holding, ItemRecords
<1>3. \A b \in Branches : b \in Unstarted(i) <=> Waits(State, i, b)
  BY <1>1 DEF Unstarted, Waits, Entering
<1>4. Unstarted(i) \subseteq Branches
  BY DEF Unstarted
<1>5. CASE item[i].root
  <2>1. ASSUME item[i].token # "none"
        PROVE  Unstarted(i) # {} /\ item[i].held # "buffered" /\ ~item[i].begun
               /\ ~item[i].finished
    <3>1. PICK b \in item[i].awaiting : TRUE
      BY <1>1, <1>2, <1>5, <2>1 DEF HoldOf
    <3>2. b \in Unstarted(i)
      BY <1>1, <1>2, <1>3, <1>5, <2>1, <3>1 DEF HoldOf
    <3> QED BY <1>2, <2>1, <3>2 DEF Held, Slotted
  <2>2. ASSUME item[i].token = "none", item[i].held # "buffered", ~item[i].finished,
               ~item[i].begun
        PROVE  Unstarted(i) = {}
    <3>1. \A b \in Branches : ~Waits(State, i, b)
      BY <1>1, <1>2, <2>2 DEF HoldOf
    <3> QED BY <1>3, <1>4, <3>1
  <2> QED BY <1>5, <2>1, <2>2
<1>6. CASE ~item[i].root
  BY <1>2, <1>6 DEF Held, Slotted
<1> QED BY <1>5, <1>6

\* A slot it allows has somebody who keeps it.
LEMMA IInvGivesSlotsMatchHolds ==
  ASSUME IInv
  PROVE  SlotsMatchHolds
<1>1. /\ Core(State, created) /\ State.item = item /\ DOMAIN item = 1 .. created
      /\ item \in [1 .. created -> ItemRecords]
  BY StateOfIInv
<1>2. \A i \in DOMAIN item : Fit(item[i]) /\ item[i] \in ItemRecords
  BY <1>1 DEF Core
<1>3. HoldIsReal
  BY <1>2 DEF HoldIsReal, Fit, Placed, Slotted, ItemRecords, GateRank, RoomRank, NodeRank,
              BeyondRank
<1>4. NoLeak
  BY <1>2 DEF NoLeak, Fit, Slotted
<1> QED BY <1>3, <1>4 DEF SlotsMatchHolds

\* An item over has told its failure.
LEMMA IInvGivesNoErrorLost ==
  ASSUME IInv
  PROVE  NoErrorLost
<1>1. /\ Core(State, created) /\ State.item = item /\ DOMAIN item = 1 .. created
  BY StateOfIInv
<1> QED BY <1>1 DEF NoErrorLost, Core, Fit, Told, Failure, Failing

\* What an unfinished group counts is there, in a slot or in a queue.
LEMMA IInvGivesJoinsEnd ==
  ASSUME IInv
  PROVE  JoinsEnd
<1>1. /\ Core(State, created) /\ created \in 0 .. NItems
      /\ State.item = item /\ State.queue = queue /\ State.running = running
      /\ DOMAIN item = 1 .. created /\ 1 .. created \subseteq Items
  BY StateOfIInv
<1> SUFFICES ASSUME NEW i \in InFlight(State), ~item[i].done,
                    \/ item[i].body \in {"closed", "retained"}
                    \/ item[i].returned /\ item[i].body # "none"
             PROVE  \E b \in Branches :
                       \/ running[b][i] > 0
                       \/ HasWork(i, b) /\ Occupied(State, b) + loose[b] >= limit[b]
  BY DEF JoinsEnd
<1>2. i \in 1 .. created /\ i \in Items
  BY <1>1 DEF InFlight
<1>3. ~Idle(item[i])
  <2>1. Told(item[i]) /\ Settled(item[i])
    BY <1>1, <1>2 DEF Core, Fit
  <2> QED BY <2>1 DEF Told, Settled
<1>4. \/ Cardinality(QueuedOf(queue, i)) # 0 \/ Cardinality(RunningOf(running, i)) # 0
  BY <1>1, <1>2, <1>3 DEF Core, Counted, Idle
<1>5. CASE RunningOf(running, i) # {}
  <2>1. PICK x \in Branches \X Nat : x[2] \in 1 .. running[x[1]][i]
    BY <1>5 DEF RunningOf
  <2>2. x[1] \in Branches /\ running[x[1]][i] > 0
    <3>1. running[x[1]][i] \in Nat
      BY <1>1, <1>2, StateFields DEF Core
    <3> QED BY <2>1, <3>1
  <2> QED BY <2>2
<1>6. CASE QueuedOf(queue, i) # {}
  <2>1. PICK x \in Branches \X Nat :
           x[2] \in DOMAIN queue[x[1]] /\ queue[x[1]][x[2]].item = i
    BY <1>6 DEF QueuedOf
  <2>2. x[1] \in Branches /\ HasWork(i, x[1]) /\ queue[x[1]] # <<>>
    BY <2>1 DEF HasWork
  <2>3. Occupied(State, x[1]) + loose[x[1]] >= limit[x[1]]
    BY <2>2 DEF IInv, NoStrandedWork
  <2> QED BY <2>2, <2>3
<1> QED BY <1>4, <1>5, <1>6, FS_EmptySet

\* An item that failed is not passed: it is stopped behind.
LEMMA IInvStopsTheYounger ==
  ASSUME IInv, NEW i \in DOMAIN item, NEW j \in DOMAIN item, i < j, Failure(item[i])
  PROVE  ~Able(j)
<1>1. /\ Core(State, created) /\ created \in Nat
      /\ State.item = item /\ DOMAIN item = 1 .. created
  BY StateOfIInv
<1>2. Told(item[i]) /\ Told(item[j])
  BY <1>1 DEF Core, Fit
<1>3. item[i].failed
  BY <1>2 DEF Told, Failure, Failing
<1>4. j \in i + 1 .. created
  BY <1>1
<1>5. item[j].finished \/ item[j].canceled # "no"
  BY <1>1, <1>3, <1>4 DEF Core, Stopped
<1> QED BY <1>2, <1>5 DEF Told, Able, Active

-----------------------------------------------------------------------------
(* The theorems *)

\* The variables keep their types: in particular every queue stays a queue of
\* collections with work left, of items that exist.
THEOREM TypeCorrect == Spec => []TypeOK
BY IInvInvariant, IInvGivesTypeOK, PTL

\* The door of the fan-out: while an older item may yet bring its first batch,
\* no younger one has work on any branch.
THEOREM WorkIsInOrder == Spec => []FirstBatchesInOrder
BY IInvInvariant, IInvGivesFirstBatchesInOrder, PTL

\* The upstream hold lasts as long as the mode of its admission says, no longer and
\* no shorter: both ways, for Balanced and for Strict.
THEOREM HoldsEnd == Spec => []HoldEndsInTime
BY IInvInvariant, IInvGivesHoldEndsInTime, PTL

\* Slots, places in the waiting room and holds match: none outlives its reason.
THEOREM SlotsMatch == Spec => []SlotsMatchHolds
BY IInvInvariant, IInvGivesSlotsMatchHolds, PTL

\* No queued task waits for a free slot without a worker on its way.
THEOREM NothingStranded == Spec => []NoStrandedWork
<1>1. IInv => NoStrandedWork
  BY DEF IInv
<1> QED BY <1>1, IInvInvariant, PTL

\* An item whose processor, or any task of whose unjoined body, failed is reported,
\* whatever aborts came before or after the failure.
THEOREM ErrorsAreTold == Spec => []NoErrorLost
BY IInvInvariant, IInvGivesNoErrorLost, PTL

\* A sealed body that is not finished has somebody who will finish it.
THEOREM JoinsAreServed == Spec => []JoinsEnd
BY IInvInvariant, IInvGivesJoinsEnd, PTL

\* A task starts only when no older item has work left in the queue.
THEOREM OldestFirst == Spec => ServedByAge
<1>1. IInv /\ [Next]_vars => [\A b \in Branches, i \in Items :
                                 running'[b][i] > running[b][i] =>
                                    \A k \in DOMAIN queue'[b] : queue'[b][k].item >= i]_vars
  BY NextGoes DEF Goes, Served
<1> QED BY <1>1, IInvInvariant, PTL DEF Spec, ServedByAge

\* Prepared work is not lost on the way into the fan-out.
THEOREM PreparedWorkSurvives == Spec => PreparedIsActivated
<1>1. IInv /\ [Next]_vars =>
         [\A i \in DOMAIN item : item[i].dormant # {} =>
             \/ item'[i].dormant = item[i].dormant /\ item'[i].body = "none"
             \/ item'[i].body = "open" /\ item'[i].root
             \/ item'[i].reached > NodeRank \/ item'[i].returned
             \/ item[i].canceled # "no"]_vars
  BY NextGoes DEF Goes, Activated
<1> QED BY <1>1, IInvInvariant, PTL DEF Spec, PreparedIsActivated

\* Once an item has failed, no younger one gets any further.
THEOREM FailureStopsTheLine == Spec => NobodyPassesAFailure
<1>1. IInv /\ [Next]_vars =>
         [\A i, j \in DOMAIN item :
             i < j /\ Failure(item[i]) => item'[j].reached = item[j].reached]_vars
  BY NextGoes, IInvStopsTheYounger DEF Goes
<1> QED BY <1>1, IInvInvariant, PTL DEF Spec, NobodyPassesAFailure

-----------------------------------------------------------------------------
(* The fan-out implements the ordered line *)

\* Nobody has joined the line yet.
LEMMA RefineInit ==
  ASSUME Init
  PROVE  Line!LineInit
<1>1. /\ created = 0 /\ DOMAIN item = {} /\ DOMAIN State.item = {}
  BY DEF Init, State
<1>2. InFlight(State) = {}
  BY <1>1 DEF InFlight
<1>3. Published = [i \in 1 .. NItems |-> 0]
  BY <1>1 DEF Published, Items, GateRank
<1> QED BY <1>1, <1>2, <1>3 DEF Line!LineInit, Line!LineItems

\* What the line sees of an item, and what the invariant says of it.
Seen ==
    /\ created \in 0 .. NItems /\ DOMAIN item = 1 .. created
    /\ InFlight(State) = {i \in 1 .. created : ~item[i].finished}
    /\ \A i \in 1 .. created :
          /\ i \in Items /\ item[i].finished \in BOOLEAN
          /\ item[i].published \in 0 .. BeyondRank
    /\ \A i \in Items :
          Published[i] = IF i \in 1 .. created THEN item[i].published ELSE GateRank
    /\ \A i, j \in InFlight(State) : j < i => item[i].published <= item[j].published

\* The inductive invariant says so in every state of a step, its first...
LEMMA SeenByTheLine == IInv => Seen
<1> SUFFICES ASSUME IInv PROVE Seen
  OBVIOUS
<1>1. /\ Core(State, created) /\ created \in 0 .. NItems /\ State.item = item
      /\ DOMAIN item = 1 .. created /\ item \in [1 .. created -> ItemRecords]
      /\ 1 .. created \subseteq Items
  BY StateOfIInv
<1>2. InFlight(State) = {i \in 1 .. created : ~item[i].finished}
  BY <1>1 DEF InFlight
<1>3. ASSUME NEW i \in 1 .. created
      PROVE  /\ i \in Items /\ item[i].finished \in BOOLEAN
             /\ item[i].published \in Int /\ item[i].reached \in Int
             /\ item[i].published \in 0 .. BeyondRank
             /\ item[i].published <= item[i].reached
  <2>1. item[i] \in ItemRecords /\ Placed(item[i]) /\ i \in Items
    BY <1>1 DEF Core, Fit
  <2> QED BY <2>1 DEF ItemRecords, Placed, GateRank, RoomRank, NodeRank, BeyondRank
<1>4. ASSUME NEW i \in InFlight(State), NEW j \in InFlight(State), j < i
      PROVE  item[i].published <= item[j].published
  <2>1. item[i].reached <= item[j].published
    BY <1>1, <1>2, <1>4 DEF Core, Ordered
  <2>2. i \in 1 .. created /\ j \in 1 .. created
    BY <1>2
  <2> QED BY <1>3, <2>1, <2>2
<1>5. \A i \in Items :
         Published[i] = IF i \in 1 .. created THEN item[i].published ELSE GateRank
  BY <1>1 DEF Published
<1> QED BY <1>1, <1>2, <1>3, <1>4, <1>5 DEF Seen

\* ... and its last.
LEMMA SeenAfterwards == IInv' => Seen'
BY SeenByTheLine, PTL

\* An item gets further, or leaves, or is seen to do nothing.
LEMMA ClimbRefines ==
  ASSUME Seen, Seen', created' = created, NEW i \in 1 .. created, Climbs(i),
         \A j \in 1 .. created : j # i => /\ item'[j].published = item[j].published
                                        /\ item'[j].finished = item[j].finished
  PROVE  [Line!LineNext]_(Line!lineVars)
<1>1. /\ i \in Items /\ item[i].finished \in BOOLEAN /\ item'[i].finished \in BOOLEAN
      /\ item[i].published \in Int /\ item'[i].published \in 0 .. BeyondRank
  BY DEF Seen, BeyondRank
<1>2. Published' = [Published EXCEPT ![i] = item'[i].published]
  <2>1. \A j \in Items : Published'[j] = IF j = i THEN item'[i].published ELSE Published[j]
    BY DEF Seen
  <2> QED BY <1>1, <2>1 DEF Published
<1>3. InFlight(State)' = {j \in 1 .. created : ~item'[j].finished}
  BY DEF Seen
<1>4. InFlight(State) = {j \in 1 .. created : ~item[j].finished}
  BY DEF Seen
<1>5. CASE item'[i].published = item[i].published /\ item'[i].finished = item[i].finished
  <2>1. InFlight(State)' = InFlight(State)
    BY <1>3, <1>4, <1>5
  <2>2. Published' = Published
    BY <1>1, <1>2, <1>5 DEF Seen, Published
  <2> QED BY <2>1, <2>2 DEF Line!lineVars
<1>6. CASE item'[i].published = item[i].published /\ ~item[i].finished /\ item'[i].finished
  <2>1. InFlight(State)' = InFlight(State) \ {i} /\ i \in InFlight(State)
    BY <1>3, <1>4, <1>6
  <2>2. Published' = Published
    BY <1>1, <1>2, <1>6 DEF Seen, Published
  <2>3. Line!Leave(i)
    BY <2>1, <2>2 DEF Line!Leave
  <2> QED BY <1>1, <2>3 DEF Line!LineNext, Line!LineItems, Items
<1>7. CASE /\ item'[i].published > item[i].published
           /\ ~item[i].finished /\ ~item'[i].finished
  <2> DEFINE r == item'[i].published
  <2>1. InFlight(State)' = InFlight(State) /\ i \in InFlight(State)
    BY <1>3, <1>4, <1>7
  <2>2. r > Published[i]
    BY <1>1, <1>7 DEF Seen
  <2>3. \A old \in InFlight(State) : old < i => Published[old] >= r
    <3> SUFFICES ASSUME NEW old \in InFlight(State), old < i
                 PROVE  Published[old] >= r
      OBVIOUS
    <3>1. r <= item'[old].published
      BY <2>1 DEF Seen
    <3>2. /\ old \in 1 .. created /\ old # i /\ old \in Items
          /\ item[old].published \in Int
      BY <1>4 DEF Seen, BeyondRank
    <3>3. Published[old] = item'[old].published
      BY <3>2 DEF Seen
    <3> QED BY <1>1, <3>1, <3>2, <3>3
  <2>4. Line!Advance(i, r)
    BY <1>2, <2>1, <2>2, <2>3 DEF Line!Advance
  <2>5. r \in 0 .. BeyondRank /\ i \in 1 .. NItems
    BY <1>1 DEF Items
  <2> HIDE DEF r
  <2> QED BY <2>4, <2>5 DEF Line!LineNext, Line!LineItems
<1> QED BY <1>1, <1>5, <1>6, <1>7 DEF Climbs

\* Every step is one of the line, or not seen there.
LEMMA RefineNext == IInv /\ [Next]_vars => [Line!LineNext]_(Line!lineVars)
<1> SUFFICES ASSUME IInv, [Next]_vars PROVE [Line!LineNext]_(Line!lineVars)
  OBVIOUS
<1>1. Lined /\ Seen /\ Seen'
  BY NextGoes, SeenByTheLine, SeenAfterwards DEF Goes
<1>2. created \in Nat /\ created \in 0 .. NItems /\ created' \in 0 .. NItems
      /\ DOMAIN item = 1 .. created
  BY <1>1 DEF Seen
<1>3. CASE created' = created + 1 /\ item' = Append(item, NewItem)
  <2> DEFINE n == created + 1
  <2>1. item'[n] = NewItem /\ \A j \in 1 .. created : item'[j] = item[j]
    <3>1. item \in [1 .. created -> ItemRecords]
      BY StateOfIInv
    <3>2. item \in Seq(ItemRecords) /\ Len(item) = created /\ NewItem \in ItemRecords
      BY <1>2, <3>1, NewItemFits
    <3> QED BY <1>3, <3>2, AppendProperties
  <2>2. InFlight(State)' = InFlight(State) \union {n}
    <3>1. 1 .. n = (1 .. created) \union {n}
      BY <1>2
    <3>2. ~NewItem.finished
      BY DEF NewItem
    <3> QED BY <1>1, <1>3, <2>1, <3>1, <3>2 DEF Seen
  <2>3. Published' = Published
    <3>1. NewItem.published = GateRank
      BY DEF NewItem
    <3>2. \A j \in Items : Published'[j] = Published[j]
      BY <1>1, <1>2, <1>3, <2>1, <3>1 DEF Seen
    <3> QED BY <3>2 DEF Published
  <2>4. created < NItems
    BY <1>2, <1>3, NItemsNat
  <2>5. Line!Join
    BY <1>3, <2>2, <2>3, <2>4 DEF Line!Join
  <2> QED BY <2>5 DEF Line!LineNext
<1>4. CASE /\ created' = created
           /\ \E i \in Nat :
                 /\ \A j \in DOMAIN item : j # i => /\ item'[j].published = item[j].published
                                                   /\ item'[j].finished = item[j].finished
                 /\ i \in DOMAIN item => Climbs(i)
  <2>1. PICK i \in Nat :
           /\ \A j \in 1 .. created : j # i => /\ item'[j].published = item[j].published
                                              /\ item'[j].finished = item[j].finished
           /\ i \in 1 .. created => Climbs(i)
    BY <1>2, <1>4
  <2>2. CASE i \in 1 .. created
    BY <1>1, <1>4, <2>1, <2>2, ClimbRefines
  <2>3. CASE i \notin 1 .. created
    <3>1. \A j \in 1 .. created : /\ item'[j].published = item[j].published
                                  /\ item'[j].finished = item[j].finished
      BY <2>1, <2>3
    <3>2. InFlight(State)' = InFlight(State)
      BY <1>1, <1>4, <3>1 DEF Seen
    <3>3. Published' = Published
      <4>1. \A j \in Items : Published'[j] = Published[j]
        BY <1>1, <1>4, <3>1 DEF Seen
      <4> QED BY <4>1 DEF Published
    <3> QED BY <1>4, <3>2, <3>3 DEF Line!lineVars
  <2> QED BY <2>2, <2>3
<1> QED BY <1>1, <1>3, <1>4 DEF Lined

\* To whoever sees only the published ranks, a fan-out with its queues, workers,
\* holds, failures and cancellation is an ordered line, as a series is.
THEOREM FanOutImplementsOrderedLine == Spec => ImplementsOrderedLine
<1>1. Init => Line!LineInit
  BY RefineInit
<1> QED BY <1>1, InitIInv, IInvInvariant, RefineNext, PTL
    DEF Spec, ImplementsOrderedLine, Line!LineSpec

=============================================================================
