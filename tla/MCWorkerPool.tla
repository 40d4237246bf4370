---------------------------- MODULE MCWorkerPool ----------------------------
(* A small instance of WorkerPool: no cap, a cap of one and one of two items. *)
EXTENDS WorkerPool

ItemLimits == {0, 1, 2}
=============================================================================
