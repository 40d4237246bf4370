------------------------------- MODULE MCDemo -------------------------------
(* Small instances of Demo. *)
EXTENDS Demo

\* Two walkers.
Two == 1 .. 2
=============================================================================
