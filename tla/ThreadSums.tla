----------------------------- MODULE ThreadSums -----------------------------
(***************************************************************************)
(* apps/sem22, sem23 and sem24: programs that start some threads, let them *)
(* add to shared numbers and look at these once all are joined.  They      *)
(* differ in what an iteration adds to which cell and in what the lock, if *)
(* there is one, covers; each is a record with these.                      *)
(***************************************************************************)
EXTENDS Integers, Sequences, Functions

CONSTANTS ThreadCount,  \* 2, 3 or 10 in the programs
          Iterations,   \* THREAD_ITERATIONS
          Magic,        \* the divisor of mutex_simple and spinlock_simple
          Stdin,        \* the numbers on stdin, for those that read it
          Garbage       \* what memory that is not initialised may hold

ASSUME CountAssumption == /\ {ThreadCount, Iterations, Magic} \subseteq Nat \ {0}
                          /\ Stdin \subseteq Seq(Int)
                          /\ Garbage \subseteq Int

Thread == 0 .. ThreadCount - 1
Following(t) == (t + 1) % ThreadCount

(* The update of an iteration of thread t: v is its index or the number it has
   read; each pair is a `+=` on a cell. *)
MutexSimple(t, v) == << <<0, v % Magic>> >>

SpinlockSimple(t, v) == << <<0, v % Magic>> >>

Task22_1(t, v) == LET x == (t + 1) * 100 IN << <<t, x>>, <<Following(t), -(x + 1)>> >>

(* result is never initialised: whatever it holds is what the sums start from.
   It is not printed. *)
Task23_1(t, v) == LET base == 80 + t * 20 IN << <<t, base>>, <<Following(t), -(base + 10)>> >>

(* The spin lock is held over all the iterations. *)
Sem23Main(t, v) == << <<0, 1>> >>

(* Every thread has a sum of its own; main adds them up as it joins. *)
Task21_3(t, v) == << <<t, v>> >>

(* One sum and no lock; all threads are bound to one processor, which takes
   turns between the read and the write of a `+=` all the same. *)
RaceCondition(t, v) == << <<0, v>> >>

Updates(t, v) == [mutex_simple |-> MutexSimple(t, v), spinlock_simple |-> SpinlockSimple(t, v),
                  task22_1 |-> Task22_1(t, v), task23_1 |-> Task23_1(t, v), main |-> Sem23Main(t, v),
                  task21_3 |-> Task21_3(t, v), race_condition |-> RaceCondition(t, v)]

(* What the lock of a program covers, if it has one. *)
Covered == [mutex_simple |-> "iteration", spinlock_simple |-> "iteration",
            task22_1 |-> "iteration", task23_1 |-> "iteration", main |-> "thread",
            task21_3 |-> "none", race_condition |-> "none"]

VARIABLES program, given,   \* the program and its stdin
          input,            \* what is left of it
          cells, start,     \* the shared numbers, and what they were at first
          phase,            \* phase[t]: "none", "idle", "load", "store" or "ended"
          count,            \* count[t]: iterations begun
          todo,             \* todo[t]: updates left in the iteration
          register,         \* register[t]: the cell as `+=` has read it
          holder,           \* the thread that holds the lock, or ThreadCount
          joined, total     \* threads main has joined, and task21_3's res

state == <<cells, phase, count, todo, register, holder>>
mainstate == <<joined, total>>
sumsvars == <<program, given, input, start, state, mainstate>>

Adds(t, v) == Updates(t, v)[program]
Lock == Covered[program]
Reads == program \in {"task21_3", "race_condition"}
Free == ThreadCount

SumsInit == /\ program \in DOMAIN Covered
            /\ given \in (IF Reads THEN Stdin ELSE {<<>>}) /\ input = given
            /\ start \in [Thread -> IF program = "task23_1" THEN Garbage ELSE {0}]
            /\ cells = start
            /\ phase = [t \in Thread |-> "none"]
            /\ count = [t \in Thread |-> 0]
            /\ todo = [t \in Thread |-> <<>>]
            /\ register = [t \in Thread |-> 0]
            /\ holder = Free
            /\ joined = 0 /\ total = 0

Goto(t, from, to) == phase[t] = from /\ phase' = [phase EXCEPT ![t] = to]

CreateThread(t) == /\ Goto(t, "none", "idle")
                   /\ \A u \in 0 .. t - 1 : phase[u] # "none"
                   /\ UNCHANGED <<program, given, input, start, cells, count, todo, register, holder,
                                  mainstate>>

(* Mutant of Acquire: the lock is not taken. *)
AcquireNothing(t) == UNCHANGED holder

Acquire(t) == /\ Lock = "iteration" => holder = Free
              /\ Lock = "thread" => holder = IF count[t] = 0 THEN Free ELSE t
              /\ holder' = IF Lock = "none" THEN holder ELSE t

Begin(t, v) == /\ Goto(t, "idle", "load")
               /\ Acquire(t)
               /\ todo' = [todo EXCEPT ![t] = Adds(t, v)]
               /\ count' = [count EXCEPT ![t] = @ + 1]
               /\ UNCHANGED <<program, given, start, cells, register, mainstate>>

(* Mutant of Iterate: two threads may read the same number. *)
IterateUnlocked(t) == IF Reads
                      THEN input # <<>> /\ Begin(t, Head(input)) /\ input' \in {input, Tail(input)}
                      ELSE count[t] < Iterations /\ Begin(t, count[t]) /\ UNCHANGED input

(* scanf takes the next number, under the lock of stdin. *)
Iterate(t) == IF Reads
              THEN input # <<>> /\ Begin(t, Head(input)) /\ input' = Tail(input)
              ELSE count[t] < Iterations /\ Begin(t, count[t]) /\ UNCHANGED input

Load(t) == /\ Goto(t, "load", "store")
           /\ register' = [register EXCEPT ![t] = cells[Head(todo[t])[1]]]
           /\ UNCHANGED <<program, given, input, start, cells, count, todo, holder, mainstate>>

(* With the last update of an iteration goes the unlock. *)
Store(t) == LET add == Head(todo[t])
                last == Len(todo[t]) = 1
            IN  /\ Goto(t, "store", IF last THEN "idle" ELSE "load")
                /\ cells' = [cells EXCEPT ![add[1]] = register[t] + add[2]]
                /\ todo' = [todo EXCEPT ![t] = Tail(@)]
                /\ holder' = IF last /\ Lock = "iteration" THEN Free ELSE holder
                /\ UNCHANGED <<program, given, input, start, count, register, mainstate>>

Finish(t) == /\ Goto(t, "idle", "ended")
             /\ IF Reads THEN input = <<>> ELSE count[t] = Iterations
             /\ holder' = IF holder = t THEN Free ELSE holder
             /\ UNCHANGED <<program, given, input, start, cells, count, todo, register, mainstate>>

(* task21_3 prints a thread's sum when it has joined it, and adds it to res; the
   others print cells when all are joined, task22_1 each of them. *)
Join(t) == /\ phase[t] = "ended" /\ joined = t
           /\ \A u \in Thread : phase[u] # "none"
           /\ joined' = joined + 1
           /\ total' = IF program = "task21_3" THEN total + cells[t] ELSE total
           /\ UNCHANGED <<program, given, input, start, state>>

Done == joined = ThreadCount /\ UNCHANGED sumsvars

SumsNext == \/ \E t \in Thread : \/ CreateThread(t) \/ Iterate(t) \/ Load(t) \/ Store(t)
                                 \/ Finish(t) \/ Join(t)
            \/ Done

SumsSpec == SumsInit /\ [][SumsNext]_sumsvars
-----------------------------------------------------------------------------
Preceding(c) == IF c = 0 THEN ThreadCount - 1 ELSE c - 1

(* What the programs that count their iterations leave in cell c when nothing is
   lost, computed without the threads. *)
Expected(c) ==
    LET residues == SumFunction([i \in 0 .. Iterations - 1 |-> i % Magic])
        only(x) == IF c = 0 THEN ThreadCount * x ELSE 0
    IN  [mutex_simple    |-> only(residues),
         spinlock_simple |-> only(residues),
         main            |-> only(Iterations),
         task22_1        |-> Iterations * ((c + 1) * 100) - Iterations * ((Preceding(c) + 1) * 100 + 1),
         task23_1        |-> start[c] + Iterations * (80 + c * 20)
                                      - Iterations * (80 + Preceding(c) * 20 + 10)][program]

(* Once main has joined all threads every number is exact whatever the
   interleaving, each in its own cell, as the lock covers every `+=`; in task21_3
   each cell has one writer and is read after its join (task22_1.c:20-35,
   task21_3.c:25-29). *)
SumsExact == joined = ThreadCount =>
    /\ ~Reads => \A c \in Thread : cells[c] = Expected(c)
    /\ program = "task21_3" => total = SumFunction(given)

(* race_condition may lose numbers to the unlocked `+=`; but what it has at any
   time is the sum of some of those read, none of them twice (line 21). *)
NothingInvented == program = "race_condition" =>
    \E read \in SUBSET (1 .. Len(given) - Len(input)) : cells[0] = SumFunctionOnSet(given, read)
=============================================================================
