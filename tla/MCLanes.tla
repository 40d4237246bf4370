------------------------------- MODULE MCLanes -------------------------------
(* Small instances of Lanes. *)
EXTENDS Lanes

\* The last stage takes two children at once, the others one.
Limits == [r \in 1 .. Stages |-> IF r = Stages THEN 2 ELSE 1]
=============================================================================
