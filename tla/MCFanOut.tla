------------------------------ MODULE MCFanOut ------------------------------
(* Small instances of FanOut. *)
EXTENDS FanOut

\* The pools are interchangeable.
PoolSymmetry == Permutations(Branches)
=============================================================================
