---------------------------- MODULE ThreadJoins ----------------------------
(***************************************************************************)
(* apps/sem22: programs that only create and join threads.                 *)
(*   chain      task21_1.c: each thread joins the one before and prints    *)
(*   recursion  task21_2.c: each reads a number, starts and joins the next *)
(*              thread, and prints                                         *)
(*   cancel     cancel_example.c: one thread stores and sleeps, and is     *)
(*              cancelled                                                  *)
(*   base       base.c: one thread stores and ends                         *)
(***************************************************************************)
EXTENDS Integers, Sequences, SequencesExt

CONSTANT Threads        \* THREAD_NUMS, and the numbers of the recursion

ASSUME ThreadsAssumption == Threads \in Nat \ {0}

Nobody == 0
Tid == 1 .. Threads

VARIABLES kind,         \* the program
          numbers,      \* how many numbers the recursion reads
          created,      \* threads main of chain has created
          last,         \* last_thread
          waits,        \* waits[t]: the thread t joins
          stage,        \* stage[t]: what thread t does next
          mstage,       \* and main
          cancelled,    \* main has called pthread_cancel
          x,            \* main's variable
          printed

jvars == <<kind, numbers, created, last, waits, stage, mstage, cancelled, x, printed>>

(* main of the recursion is its first thread. *)
JInit == /\ kind \in {"chain", "recursion", "cancel", "base"}
         /\ numbers \in 0 .. Threads - 1
         /\ created = 0 /\ last = Nobody
         /\ waits = [t \in Tid |-> Nobody]
         /\ stage = [t \in Tid |-> IF kind = "recursion" /\ t = 1 THEN "scan" ELSE "none"]
         /\ mstage = "create" /\ cancelled = FALSE
         /\ x = 0 /\ printed = <<>>

To(t, from, to) == stage[t] = from /\ stage' = [stage EXCEPT ![t] = to]

(* Mutant of ChainCreate: the thread is told of no one before it. *)
ChainForgets == /\ kind = "chain" /\ created < Threads
                /\ created' = created + 1
                /\ stage' = [stage EXCEPT ![created'] = "join"] /\ last' = created'
                /\ UNCHANGED <<kind, numbers, mstage, cancelled, x, printed, waits>>

(* The context is filled before the thread is created. *)
ChainCreate == /\ kind = "chain" /\ created < Threads
               /\ created' = created + 1
               /\ waits' = [waits EXCEPT ![created'] = last]
               /\ stage' = [stage EXCEPT ![created'] = "join"] /\ last' = created'
               /\ UNCHANGED <<kind, numbers, mstage, cancelled, x, printed>>

JoinPrevious(t) == /\ kind = "chain"
                   /\ To(t, "join", "print")
                   /\ waits[t] # Nobody => stage[waits[t]] = "ended"
                   /\ UNCHANGED <<kind, numbers, created, last, waits, mstage, cancelled, x, printed>>

PrintOwn(t) == /\ To(t, "print", "ended")
               /\ printed' = Append(printed, t)
               /\ UNCHANGED <<kind, numbers, created, last, waits, mstage, cancelled, x>>

(* main joins the last thread alone; its contexts die with it. *)
ChainReturn == /\ kind = "chain" /\ created = Threads /\ mstage = "create"
               /\ stage[last] = "ended"
               /\ mstage' = "returned"
               /\ UNCHANGED <<kind, numbers, created, last, waits, stage, cancelled, x, printed>>

Recurse(t) == /\ kind = "recursion" /\ stage[t] = "scan"
              /\ stage' = IF t <= numbers
                          THEN [stage EXCEPT ![t] = "join", ![t + 1] = "scan"]
                          ELSE [stage EXCEPT ![t] = "ended"]
              /\ UNCHANGED <<kind, numbers, created, last, waits, mstage, cancelled, x, printed>>

JoinNext(t) == /\ kind = "recursion" /\ t < Threads
               /\ stage[t + 1] = "ended"
               /\ To(t, "join", "print")
               /\ UNCHANGED <<kind, numbers, created, last, waits, mstage, cancelled, x, printed>>

(* The two programs that look at the result of pthread_create. *)
StartOne == /\ kind \in {"cancel", "base"} /\ mstage = "create"
            /\ \/ /\ stage' = [stage EXCEPT ![1] = "store"]
                  /\ mstage' = IF kind = "cancel" THEN "usleep" ELSE "join"
               \/ mstage' = "failed" /\ UNCHANGED stage
            /\ UNCHANGED <<kind, numbers, created, last, waits, cancelled, x, printed>>

Cancel == /\ mstage = "usleep" /\ mstage' = "join"
          /\ cancelled' = TRUE
          /\ UNCHANGED <<kind, numbers, created, last, waits, stage, x, printed>>

StoreX == /\ To(1, "store", IF kind = "cancel" THEN "sleep" ELSE "ended")
          /\ x' = 12345
          /\ UNCHANGED <<kind, numbers, created, last, waits, mstage, cancelled, printed>>

(* sleep is the only cancellation point. *)
EndOfSleep == /\ \/ cancelled /\ To(1, "sleep", "cancelled")
                 \/ To(1, "sleep", "ended")
              /\ UNCHANGED <<kind, numbers, created, last, waits, mstage, cancelled, x, printed>>

JoinOne == /\ mstage = "join" /\ stage[1] \in {"ended", "cancelled"}
           /\ mstage' = "returned"
           /\ printed' = <<x>>
           /\ UNCHANGED <<kind, numbers, created, last, waits, stage, cancelled, x>>

JNext == \/ ChainCreate \/ ChainReturn \/ StartOne \/ Cancel \/ StoreX
         \/ EndOfSleep \/ JoinOne
         \/ \E t \in Tid : JoinPrevious(t) \/ PrintOwn(t) \/ Recurse(t) \/ JoinNext(t)

JSpec == JInit /\ [][JNext]_jvars
-----------------------------------------------------------------------------
(* chain prints its threads in their order and, though main joins only the last,
   leaves none running on its contexts (task21_1.c:16, 33); recursion prints what
   it read backwards; a thread that is cancelled has stored its value before. *)
WhatIsPrinted ==
    /\ kind = "chain" /\ mstage = "returned" =>
           /\ \A t \in Tid : stage[t] = "ended"
           /\ printed = [t \in Tid |-> t]
    /\ kind = "recursion" /\ stage[1] = "ended" =>
           printed = Reverse([t \in 1 .. numbers |-> t])
    /\ kind \in {"cancel", "base"} /\ mstage = "returned" => printed = <<12345>>
=============================================================================
