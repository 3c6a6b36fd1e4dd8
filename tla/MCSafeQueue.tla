---------------------------- MODULE MCSafeQueue ----------------------------
(* Two producers and two consumers on one queue, so that a signal has a wrong
   sleeper to wake, and two items. *)
EXTENDS SafeQueue, TLC

Symmetry == Permutations(Producers) \cup Permutations(Consumers)
=============================================================================
