------------------------------ MODULE MCDials ------------------------------
(* Small instances of Dials: a capacity that is closed (0) or open (1), or a  *)
(* mode of backpressure, which closes nothing.                                *)
EXTENDS Dials
=============================================================================
