---------------------------- MODULE MCSequential ----------------------------
(* One of three parts without concurrency runs: a call of a routine, the calls on
   a string, or the lines of the shell. *)
EXTENDS Routines, StringBuffer, Shell

VARIABLE part

mcvars == <<part, rvars, bvars, hvars>>

MCInit == /\ part \in {"routines", "string", "shell"} /\ RInit /\ BInit /\ HInit
          /\ part # "routines" => routine = "loop" /\ args = <<0>>
          /\ part # "shell" => tree = [n \in Node |-> "none"]

MCNext == /\ \/ part = "routines" /\ RNext /\ UNCHANGED <<bvars, hvars>>
             \/ part = "string" /\ BNext /\ UNCHANGED <<rvars, hvars>>
             \/ part = "shell" /\ HNext /\ UNCHANGED <<rvars, bvars>>
          /\ UNCHANGED part

MCSpec == MCInit /\ [][MCNext]_mcvars
=============================================================================
