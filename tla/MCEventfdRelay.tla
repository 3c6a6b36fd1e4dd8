--------------------------- MODULE MCEventfdRelay ---------------------------
(* Three threads, numbers of both signs that reach each of them, and up to three
   of them before the end of the input. *)
EXTENDS EventfdRelay

MCInputs == {-4, -1, 3, 5}
=============================================================================
