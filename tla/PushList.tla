------------------------------ MODULE PushList ------------------------------
(***************************************************************************)
(* What atomic_push promises: a node is put in front of a linked list in   *)
(* one step, in front of exactly what was first at that moment, and stays  *)
(* where it is.                                                            *)
(***************************************************************************)
CONSTANTS Node, NULL

VARIABLES first,    \* the first node
          rest      \* what follows each node of the list

PushInit == first = NULL /\ rest = [n \in {} |-> NULL]

Push(n) == /\ n \notin DOMAIN rest
           /\ first' = n
           /\ rest' = [m \in DOMAIN rest \cup {n} |-> IF m = n THEN first ELSE rest[m]]

PushNext == \E n \in Node : Push(n)

PushSpec == PushInit /\ [][PushNext]_<<first, rest>>
=============================================================================
