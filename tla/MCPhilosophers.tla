--------------------------- MODULE MCPhilosophers ---------------------------
(* The sample's own configuration: NUM_PHIL = 6 (lib.rs line 32).          *)
EXTENDS Philosophers

MCNumPhil == 6
=============================================================================
