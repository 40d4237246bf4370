----------------------------- MODULE OrderedLine -----------------------------
(***************************************************************************)
(* What a conveyor promises about order, and nothing else: items join a    *)
(* line one after another, each stands at a published rank, and an item    *)
(* moves up to a rank only when every older item still in the line has     *)
(* published that rank or a higher one.  Capacity, waiting rooms, retained *)
(* slots, cancellation and the unpublished stay at a fan-out are details   *)
(* of the modules that implement this one (Series, FanOut).                *)
(***************************************************************************)
EXTENDS Integers

CONSTANTS NItems,    \* how many items may ever join (the bound of the runs)
          LastRank   \* the rank of the last node

VARIABLES joined,    \* items 1 .. joined have joined, in that order
          line,      \* the items still in the line
          rank       \* rank[i]: the highest rank item i has published

lineVars == <<joined, line, rank>>

LineItems == 1 .. NItems

LineInit ==
    /\ joined = 0
    /\ line = {}
    /\ rank = [i \in LineItems |-> 0]

\* A new item joins at the end of the line, at rank 0.
Join ==
    /\ joined < NItems
    /\ joined' = joined + 1
    /\ line' = line \union {joined + 1}
    /\ UNCHANGED rank

\* Item i moves up to rank r: everybody ahead of it has been there.
Advance(i, r) ==
    /\ i \in line
    /\ r > rank[i]
    /\ \A older \in line : older < i => rank[older] >= r
    /\ rank' = [rank EXCEPT ![i] = r]
    /\ UNCHANGED <<joined, line>>

\* Item i is over and leaves the line, wherever it stands.
Leave(i) ==
    /\ i \in line
    /\ line' = line \ {i}
    /\ UNCHANGED <<joined, rank>>

LineNext ==
    \/ Join
    \/ \E i \in LineItems : Leave(i)
    \/ \E i \in LineItems, r \in 0 .. LastRank : Advance(i, r)

LineSpec == LineInit /\ [][LineNext]_lineVars
=============================================================================
