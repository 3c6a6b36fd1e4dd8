---------------------------- MODULE SlotChannel ----------------------------
(***************************************************************************)
(* What safe_queue_t of apps/sem23/task22_2.c promises to its callers: a   *)
(* channel with room for one item.  An item offered by a producer moves to *)
(* the slot when the slot is empty, and from the slot to one consumer.     *)
(* Items are neither lost, duplicated nor overwritten, because the only    *)
(* steps there are move one.                                               *)
(***************************************************************************)
CONSTANTS Producers,   \* threads that call safe_queue_release
          Consumers,   \* threads that call safe_queue_acquire
          Values,      \* what a uint64_t item can be
          None         \* no item, no thread

VARIABLES slot,        \* the item in the channel, or None
          held         \* held[t]: the item in the hands of thread t, or None

Init == /\ slot = None
        /\ held = [t \in Producers \cup Consumers |-> None]

(* A producer picks an item to send. *)
Offer(p, v) == /\ held[p] = None
               /\ held' = [held EXCEPT ![p] = v]
               /\ UNCHANGED slot

(* The item moves into the empty slot. *)
Put(p) == /\ held[p] # None
          /\ slot = None
          /\ slot' = held[p]
          /\ held' = [held EXCEPT ![p] = None]

(* The item moves from the slot to a consumer with empty hands. *)
Take(c) == /\ held[c] = None
           /\ slot # None
           /\ held' = [held EXCEPT ![c] = slot]
           /\ slot' = None

(* The consumer is done with its item. *)
Use(c) == /\ held[c] # None
          /\ held' = [held EXCEPT ![c] = None]
          /\ UNCHANGED slot

Next == \/ \E p \in Producers : Put(p) \/ \E v \in Values : Offer(p, v)
        \/ \E c \in Consumers : Take(c) \/ Use(c)

Spec == Init /\ [][Next]_<<slot, held>>
=============================================================================
