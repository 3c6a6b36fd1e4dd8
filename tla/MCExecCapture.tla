--------------------------- MODULE MCExecCapture ---------------------------
(* A pipe that holds more than a read takes, and a buffer that has to grow
   twice, like the sizes of the program. *)
EXTENDS ExecCapture
=============================================================================
