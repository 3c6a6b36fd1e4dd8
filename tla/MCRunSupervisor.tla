-------------------------- MODULE MCRunSupervisor --------------------------
(* A second of three milliseconds and an int of 5 bits, so that the timeouts are:
   rejected (negative, a second), no timer (0), good (2), wrapped to no timer (8)
   and wrapped to a short one (9). *)
EXTENDS RunSupervisor

MCTimeouts == {-1, 0, 2, 3, 8, 9}
=============================================================================
