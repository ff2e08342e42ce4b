----------------------------- MODULE MCDining -----------------------------
(* rust_main with the sample's six philosophers and their statics.         *)
EXTENDS Dining

MCNumPhil == 6
=============================================================================
