-------------------------- MODULE MCUntilShutdown --------------------------
(* A small instance of UntilShutdown: two contexts of one item, two callers. *)
EXTENDS UntilShutdown
=============================================================================
