------------------------------ MODULE PingPong ------------------------------
(***************************************************************************)
(* apps/sem21/task20_3.c: a parent (worker 1) and the child it forks       *)
(* (worker 2) count from 0 to End in shared memory, taking turns.  Each    *)
(* sleeps on an eventfd of its own and triggers the other's; that token is *)
(* all that protects the shared counter.                                   *)
(***************************************************************************)
EXTENDS Integers, Sequences

CONSTANT End            \* ctx->end, 11 in the code

ASSUME EndAssumption == End \in Nat

Worker == {1, 2}
Other(w) == 3 - w

VARIABLES pc,           \* pc[w]: what worker w does next
          counter,      \* counter[w]: the eventfd worker w reads (fd1, fd2)
          begin,        \* ctx->begin, in shared memory
          register,     \* register[w]: ctx->begin as `+= 1` has read it
          printed       \* the lines: who printed, and the value of begin

vars == <<pc, counter, begin, register, printed>>

Init == /\ pc = [w \in Worker |-> IF w = 1 THEN "fork" ELSE "none"]
        /\ counter = [w \in Worker |-> 0]
        /\ begin = 0
        /\ register = [w \in Worker |-> 0]
        /\ printed = <<>>

(* A failed fork returns -1, which main takes for the parent's branch. *)
Fork == /\ pc[1] = "fork"
        /\ \E child \in {"read", "none"} : pc' = [pc EXCEPT ![1] = "kick", ![2] = child]
        /\ UNCHANGED <<counter, begin, register, printed>>

Goto(w, from, to) == pc[w] = from /\ pc' = [pc EXCEPT ![w] = to]

Trigger(w) == counter' = [counter EXCEPT ![w] = @ + 1]

(* Mutant of Kick: the first turn goes to the child. *)
KickChild == /\ Goto(1, "kick", "read")
             /\ Trigger(2)
             /\ UNCHANGED <<begin, register, printed>>

(* The parent gives itself the first turn. *)
Kick == /\ Goto(1, "kick", "read")
        /\ Trigger(1)
        /\ UNCHANGED <<begin, register, printed>>

(* Mutant of ReadFd: the read leaves the eventfd as it is. *)
ReadFdNoReset(w) == /\ Goto(w, "read", "check")
                    /\ counter[w] > 0
                    /\ UNCHANGED <<counter, begin, register, printed>>

ReadFd(w) == /\ Goto(w, "read", "check")
             /\ counter[w] > 0
             /\ counter' = [counter EXCEPT ![w] = 0]
             /\ UNCHANGED <<begin, register, printed>>

Check(w) == /\ Goto(w, "check", IF begin >= End THEN "final" ELSE "print")
            /\ UNCHANGED <<counter, begin, register, printed>>

PrintLine(w) == /\ Goto(w, "print", "load")
                /\ printed' = Append(printed, <<w, begin>>)
                /\ UNCHANGED <<counter, begin, register>>

(* ctx->begin += 1 is a read of the shared memory and a write to it. *)
Load(w) == /\ Goto(w, "load", "store")
           /\ register' = [register EXCEPT ![w] = begin]
           /\ UNCHANGED <<counter, begin, printed>>

Store(w) == /\ Goto(w, "store", "trigger")
            /\ begin' = register[w] + 1
            /\ UNCHANGED <<counter, register, printed>>

PassTurn(w) == /\ Goto(w, "trigger", "read")
               /\ Trigger(Other(w))
               /\ UNCHANGED <<begin, register, printed>>

(* Mutant of FinalTrigger: the last do_trigger_fd is forgotten. *)
LeaveSilently(w) == /\ Goto(w, "final", IF w = 1 THEN "wait" ELSE "exit")
                    /\ UNCHANGED <<counter, begin, register, printed>>

(* After the loop each worker triggers the other once more, so that it too
   leaves its loop. *)
FinalTrigger(w) == /\ Goto(w, "final", IF w = 1 THEN "wait" ELSE "exit")
                   /\ Trigger(Other(w))
                   /\ UNCHANGED <<begin, register, printed>>

(* wait(NULL) returns when the child has ended, at once if there is none. *)
WaitChild == /\ Goto(1, "wait", "exit")
             /\ pc[2] \in {"exit", "none"}
             /\ UNCHANGED <<counter, begin, register, printed>>

WorkerNext(w) == \/ ReadFd(w) \/ Check(w) \/ PrintLine(w) \/ Load(w) \/ Store(w)
                 \/ PassTurn(w) \/ FinalTrigger(w)

ParentNext == Fork \/ Kick \/ WorkerNext(1) \/ WaitChild

Next == ParentNext \/ WorkerNext(2)

Spec == Init /\ [][Next]_vars

(* The scheduler runs both processes. *)
FairSpec == Spec /\ WF_vars(ParentNext) /\ WF_vars(WorkerNext(2))
-----------------------------------------------------------------------------
Locations == {"none", "fork", "kick", "read", "check", "print", "load", "store",
              "trigger", "final", "wait", "exit"}

TypeOK == /\ pc \in [Worker -> Locations]
          /\ counter \in [Worker -> Nat]
          /\ begin \in 0 .. End
          /\ register \in [Worker -> Nat]
          /\ printed \in Seq(Worker \X Nat)

(* A worker between its read and its trigger owns the shared counter. *)
Owner(w) == pc[w] \in {"check", "print", "load", "store", "trigger", "final"}

(* Without any lock the workers never touch the shared counter together, and no
   trigger waits while one of them does: it could not be told from the next
   (lines 21-35). *)
OneTurn == /\ ~(Owner(1) /\ Owner(2))
           /\ \A w \in Worker : Owner(w) => counter[1] = 0 /\ counter[2] = 0
           /\ counter[1] + counter[2] <= 1

(* Every value below End is printed once, in order, the parent and the child in
   turn. *)
PrintedInTurn == \A n \in DOMAIN printed :
    printed[n] = <<IF n % 2 = 1 THEN 1 ELSE 2, n - 1>>

(* When the fork succeeds both processes end, and all values have been printed;
   the last trigger finds the other one asleep or gone, never missed. *)
BothExit == <>(\/ pc[1] # "fork" /\ pc[2] = "none"
               \/ pc[1] = "exit" /\ pc[2] = "exit" /\ Len(printed) = End)
=============================================================================
