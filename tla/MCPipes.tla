------------------------------ MODULE MCPipes ------------------------------
(* A command writes more than the pipe holds. *)
EXTENDS Pipes
=============================================================================
