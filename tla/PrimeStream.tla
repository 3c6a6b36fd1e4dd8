---------------------------- MODULE PrimeStream ----------------------------
(***************************************************************************)
(* The program of apps/sem23/task22_2.c: one thread walks the integers     *)
(* from `base` and releases every prime into a safe_queue_t, main acquires *)
(* and prints `count` of them, cancels the thread and joins it.            *)
(***************************************************************************)
EXTENDS SafeQueue, Integers, Sequences

CONSTANTS Worker,        \* the thread of thread_func, the queue's only producer
          Main,          \* the thread of main, its only consumer
          UintMod,       \* 2^64 in the code: uint64_t arithmetic is modulo UintMod
          MaxCount       \* bound on the `count` read from the input

Uint == 0 .. UintMod - 1

ASSUME PrimeAssumption == /\ UintMod \in Nat \ {0}
                          /\ MaxCount \in Nat
                          /\ Producers = {Worker}
                          /\ Consumers = {Main}
                          /\ Values = Uint

VARIABLES base, count,   \* what main read from the input
          cursor,        \* `value` of thread_func
          scanning,      \* thread_func is outside safe_queue_release
          mainPc,        \* where main is
          printed        \* the lines main has printed

pvars == <<base, count, cursor, scanning, mainPc, printed>>
vars  == <<qvars, pvars>>

(* Mutant of IsPrime: the loop stops at i * i < x. *)
IsPrimeBelowRoot(x) ==
    /\ x >= 2
    /\ x % 2 = 0 => x = 2
    /\ \A i \in {j \in Uint : j >= 3 /\ j % 2 = 1} :
          (\A j \in 3 .. i : j % 2 = 1 => (j * j) % UintMod < x) => x % i # 0

(* is_prime: the loop body runs for i = 3, 5, ... as long as every i so far had
   i * i <= x, where i * i is a uint64_t product and wraps. *)
IsPrime(x) ==
    /\ x >= 2
    /\ x % 2 = 0 => x = 2
    /\ \A i \in {j \in Uint : j >= 3 /\ j % 2 = 1} :
          (\A j \in 3 .. i : j % 2 = 1 => (j * j) % UintMod <= x) => x % i # 0

(* scanf leaves whatever the input holds in base and count, or leaves them
   uninitialised. *)
PInit == /\ Init
         /\ base \in Uint
         /\ count \in 0 .. MaxCount
         /\ cursor = base
         /\ scanning = TRUE
         /\ mainPc = "loop"
         /\ printed = <<>>
-----------------------------------------------------------------------------
(* thread_func: while (1) { if (is_prime(value)) release(value); value += 1; } *)
Skip == /\ scanning
        /\ ~IsPrime(cursor)
        /\ cursor' = (cursor + 1) % UintMod
        /\ UNCHANGED <<qvars, base, count, scanning, mainPc, printed>>

Emit == /\ scanning
        /\ IsPrime(cursor)
        /\ CallRelease(Worker, cursor)
        /\ scanning' = FALSE
        /\ UNCHANGED <<base, count, cursor, mainPc, printed>>

(* Mutant of Emitted: on to the next candidate but one. *)
EmittedSkipsOne == /\ ~scanning
                   /\ pc[Worker] = "idle"
                   /\ scanning' = TRUE
                   /\ cursor' = (cursor + 2) % UintMod
                   /\ UNCHANGED <<qvars, base, count, mainPc, printed>>

(* release has returned *)
Emitted == /\ ~scanning
           /\ pc[Worker] = "idle"
           /\ scanning' = TRUE
           /\ cursor' = (cursor + 1) % UintMod
           /\ UNCHANGED <<qvars, base, count, mainPc, printed>>

(* main: one acquire and one line per turn of the for loop *)
Ask == /\ mainPc = "loop"
       /\ Len(printed) < count
       /\ CallAcquire(Main)
       /\ mainPc' = "acquire"
       /\ UNCHANGED <<base, count, cursor, scanning, printed>>

PrintLine == /\ mainPc = "acquire"
             /\ pc[Main] = "idle"
             /\ printed' = Append(printed, local[Main])
             /\ mainPc' = "loop"
             /\ UNCHANGED <<qvars, base, count, cursor, scanning>>

(* Mutant of CancelWorker: main joins without the cancellation. *)
JoinUncancelled == /\ mainPc = "loop"
                   /\ Len(printed) >= count
                   /\ mainPc' = "join"
                   /\ UNCHANGED <<qvars, base, count, cursor, scanning, printed>>

CancelWorker == /\ mainPc = "loop"
                /\ Len(printed) >= count
                /\ Cancel(Worker)
                /\ mainPc' = "join"
                /\ UNCHANGED <<base, count, cursor, scanning, printed>>

Join == /\ mainPc = "join"
        /\ pc[Worker] = "dead"
        /\ mainPc' = "exit"
        /\ UNCHANGED <<qvars, base, count, cursor, scanning, printed>>

Run(t) == Advance(t) /\ UNCHANGED pvars

Spurious(t) == SpuriousWake(t) /\ UNCHANGED pvars

Exited == mainPc = "exit" /\ UNCHANGED vars

WorkerNext == Skip \/ Emit \/ Emitted \/ Run(Worker)
MainNext == Ask \/ PrintLine \/ CancelWorker \/ Join \/ Run(Main)

PNext == WorkerNext \/ MainNext \/ (\E t \in Threads : Spurious(t)) \/ Exited

PSpec == PInit /\ [][PNext]_vars

(* Both threads keep running when they can, and cond_wait does not return for
   no reason for ever; a mutex is NOT assumed to be fair. *)
FairSpec == /\ PSpec
            /\ WF_vars(WorkerNext)
            /\ WF_vars(MainNext)
            /\ <>[][\A t \in Threads : ~Spurious(t)]_vars
-----------------------------------------------------------------------------
PTypeOK == /\ TypeOK
           /\ base \in Uint /\ cursor \in Uint
           /\ count \in 0 .. MaxCount
           /\ scanning \in BOOLEAN
           /\ mainPc \in {"loop", "acquire", "join", "exit"}
           /\ printed \in Seq(Uint) /\ Len(printed) <= count

(* A thread sleeps on the shared condition only while the slot is in the state
   it cannot use, or the other one is about to signal: with one thread a side
   the single condition variable loses no wakeup (lines 42-47, 54-59). *)
NoLostWakeup ==
    /\ pc[Main] = "wait" /\ exists = 1 => pc[Worker] \in {"copy", "signal"}
    /\ pc[Worker] = "wait" /\ exists = 0 => pc[Main] \in {"copy", "signal"}

(* The first x >= from that is_prime accepts, walking modulo 2^64. *)
NextPrime(from) ==
    LET d == CHOOSE k \in Uint : /\ IsPrime((from + k) % UintMod)
                                 /\ \A j \in 0 .. k - 1 : ~IsPrime((from + j) % UintMod)
    IN  (from + d) % UintMod

(* What main prints are the numbers is_prime accepts, from base on, in order, none
   left out and none twice, whatever the interleaving of the two threads (lines
   83-109). *)
PrimesInOrder ==
    \A n \in DOMAIN printed :
        printed[n] = NextPrime(IF n = 1 THEN base ELSE (printed[n - 1] + 1) % UintMod)

(* No line is a composite number: i * i may wrap for the largest x, but by then
   every divisor up to the square root has been tried (lines 75-79). *)
OnlyPrimes ==
    \A n \in DOMAIN printed :
        printed[n] > 1 /\ \A d \in 2 .. printed[n] - 1 : printed[n] % d # 0

(* main prints its lines, and the join returns: the worker always comes back to
   cond_wait, where the deferred cancellation takes it (lines 106-114). *)
MainReturns == <>(mainPc = "exit" /\ Len(printed) = count)
=============================================================================
