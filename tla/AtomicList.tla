----------------------------- MODULE AtomicList -----------------------------
(***************************************************************************)
(* apps/sem23/task22_3.c: atomic_push, called for any number of nodes at   *)
(* once, each by a thread of its own.  The program itself calls it once.   *)
(***************************************************************************)
CONSTANTS Node, NULL

ASSUME NullAssumption == NULL \notin Node

VARIABLES head,         \* head->next
          next,         \* next[n]: the next field of node n
          at,           \* at[n]: where the thread that pushes n is
          current       \* current[n]: its current_next

lvars == <<head, next, at, current>>

LInit == /\ head = NULL
         /\ next = [n \in Node |-> NULL]
         /\ at = [n \in Node |-> "load"]
         /\ current = [n \in Node |-> NULL]

LGoto(n, from, to) == at[n] = from /\ at' = [at EXCEPT ![n] = to]

LoadHead(n) == /\ LGoto(n, "load", "link")
               /\ current' = [current EXCEPT ![n] = head]
               /\ UNCHANGED <<head, next>>

Link(n) == /\ LGoto(n, "link", "swap")
           /\ next' = [next EXCEPT ![n] = current[n]]
           /\ UNCHANGED <<head, current>>

(* Mutant of Swap: the head is set whatever it has become. *)
SwapBlindly(n) == /\ LGoto(n, "swap", "done")
                  /\ head' = n
                  /\ UNCHANGED <<next, current>>

Swap(n) == /\ head = current[n]
           /\ LGoto(n, "swap", "done")
           /\ head' = n
           /\ UNCHANGED <<next, current>>

(* The weak compare-and-swap also fails when the head is the expected one; a
   failure stores the head in current_next, and the loop starts again. *)
SwapFails(n) == /\ LGoto(n, "swap", "load")
                /\ current' = [current EXCEPT ![n] = head]
                /\ UNCHANGED <<head, next>>

LNext == \E n \in Node : LoadHead(n) \/ Link(n) \/ Swap(n) \/ SwapFails(n)

LSpec == LInit /\ [][LNext]_lvars
-----------------------------------------------------------------------------
Pushed == {n \in Node : at[n] = "done"}

List == INSTANCE PushList WITH first <- head, rest <- [n \in Pushed |-> next[n]]

(* atomic_push takes effect in one step, although the head may change between its
   load and its swap and the swap may fail: no node is lost, none is linked to
   what was no longer the first (lines 15-23). *)
ImplementsPush == List!PushSpec
=============================================================================
