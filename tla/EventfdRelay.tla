---------------------------- MODULE EventfdRelay ----------------------------
(***************************************************************************)
(* apps/sem22/task21_4.c: N threads, each asleep on an eventfd of its own. *)
(* The thread that is activated reads one number from the input, prints it *)
(* and activates thread (number mod N); at the end of the input it tells   *)
(* all threads, itself included, to exit.  An eventfd is a COUNTER: writes *)
(* that meet before the read add up.                                       *)
(***************************************************************************)
EXTENDS Integers, Sequences

CONSTANTS N,            \* thread_count
          Inputs,       \* the int32_t numbers the input may hold
          MaxInputs     \* bound on how many numbers it holds

ASSUME RelayAssumption == N \in Nat \ {0} /\ Inputs \subseteq Int /\ MaxInputs \in Nat

STATUS_ACTIVATE == 1
STATUS_EXIT == 2

Id == 0 .. N - 1

VARIABLES pc,           \* pc[i]: the call thread i makes next
          target,       \* target[i]: `next`, or `i` of the exit loop
          fd,           \* fd[i]: not created yet, open, or closed by main
          counter,      \* counter[i]: the value of the eventfd
          mainPc, k,    \* main, and its loop counter
          printed       \* what the threads have printed: thread and number

vars == <<pc, target, fd, counter, mainPc, k, printed>>

Init == /\ pc = [i \in Id |-> "new"]
        /\ target = [i \in Id |-> 0]
        /\ fd = [i \in Id |-> "none"]
        /\ counter = [i \in Id |-> 0]
        /\ mainPc = "create" /\ k = 0
        /\ printed = <<>>

(* eventfd_write fails, and nobody looks, on a descriptor that is not open. *)
Write(j, status) ==
    counter' = IF fd[j] = "open" THEN [counter EXCEPT ![j] = @ + status] ELSE counter

(* The remainder of C has the sign of the dividend; lines 41-45 correct it. *)
CRemainder(a, b) == IF a >= 0 THEN a % b ELSE -((-a) % b)

(* Mutants of NextThread: no correction; the sign dropped instead. *)
NextThreadSigned(v) == CRemainder(v, N)
NextThreadAbs(v) == LET x == CRemainder(v, N) IN IF x < 0 THEN -x ELSE x

NextThread(v) == LET x == CRemainder(v, N) IN IF x < 0 THEN x + N ELSE x
-----------------------------------------------------------------------------
(* Mutant of Read: the counter is not reset. *)
ReadNoReset(i) == /\ pc[i] = "read"
                  /\ fd[i] = "open" /\ counter[i] > 0
                  /\ pc' = [pc EXCEPT ![i] = IF counter[i] = STATUS_EXIT THEN "done" ELSE "scan"]
                  /\ UNCHANGED <<target, fd, counter, mainPc, k, printed>>

(* eventfd_read blocks while the counter is 0, and resets it. *)
Read(i) == /\ pc[i] = "read"
           /\ fd[i] = "open" /\ counter[i] > 0
           /\ counter' = [counter EXCEPT ![i] = 0]
           /\ pc' = [pc EXCEPT ![i] = IF counter[i] = STATUS_EXIT THEN "done" ELSE "scan"]
           /\ UNCHANGED <<target, fd, mainPc, k, printed>>

ScanValue(i, v) == /\ pc[i] = "scan"
                   /\ Len(printed) < MaxInputs
                   /\ printed' = Append(printed, [thread |-> i, value |-> v])
                   /\ target' = [target EXCEPT ![i] = NextThread(v)]
                   /\ pc' = [pc EXCEPT ![i] = "route"]
                   /\ UNCHANGED <<fd, counter, mainPc, k>>

(* End of the input, or something in it that is not a number. *)
ScanFails(i) == /\ pc[i] = "scan"
                /\ target' = [target EXCEPT ![i] = 0]
                /\ pc' = [pc EXCEPT ![i] = "exitAll"]
                /\ UNCHANGED <<fd, counter, mainPc, k, printed>>

Route(i) == /\ pc[i] = "route"
            /\ Write(target[i], STATUS_ACTIVATE)
            /\ pc' = [pc EXCEPT ![i] = "read"]
            /\ UNCHANGED <<target, fd, mainPc, k, printed>>

(* Mutants of ExitAll: `continue` forgotten; the last thread not told. *)
ExitAllThenRoute(i) == /\ pc[i] = "exitAll"
                       /\ Write(target[i], STATUS_EXIT)
                       /\ IF target[i] + 1 < N
                          THEN target' = [target EXCEPT ![i] = @ + 1] /\ UNCHANGED pc
                          ELSE pc' = [pc EXCEPT ![i] = "route"] /\ UNCHANGED target
                       /\ UNCHANGED <<fd, mainPc, k, printed>>

ExitAllButLast(i) == /\ pc[i] = "exitAll"
                     /\ Write(target[i], STATUS_EXIT)
                     /\ IF target[i] + 1 < N - 1
                        THEN target' = [target EXCEPT ![i] = @ + 1] /\ UNCHANGED pc
                        ELSE pc' = [pc EXCEPT ![i] = "read"] /\ UNCHANGED target
                     /\ UNCHANGED <<fd, mainPc, k, printed>>

(* One turn of the loop that writes STATUS_EXIT, the last one with `continue`. *)
ExitAll(i) == /\ pc[i] = "exitAll"
              /\ Write(target[i], STATUS_EXIT)
              /\ IF target[i] + 1 < N
                 THEN target' = [target EXCEPT ![i] = @ + 1] /\ UNCHANGED pc
                 ELSE pc' = [pc EXCEPT ![i] = "read"] /\ UNCHANGED target
              /\ UNCHANGED <<fd, mainPc, k, printed>>
-----------------------------------------------------------------------------
(* main: one turn of the first loop makes the eventfd and starts the thread. *)
Create == /\ mainPc = "create" /\ k < N
          /\ fd' = [fd EXCEPT ![k] = "open"]
          /\ pc' = [pc EXCEPT ![k] = "read"]
          /\ k' = k + 1
          /\ UNCHANGED <<target, counter, mainPc, printed>>

Activate == /\ mainPc = "create" /\ k = N
            /\ Write(0, STATUS_ACTIVATE)
            /\ mainPc' = "join" /\ k' = 0
            /\ UNCHANGED <<pc, target, fd, printed>>

(* Mutant of JoinAndClose: the descriptor is closed before the join. *)
CloseUnjoined == /\ mainPc = "join" /\ k < N
                 /\ fd' = [fd EXCEPT ![k] = "closed"]
                 /\ k' = k + 1
                 /\ UNCHANGED <<pc, target, counter, mainPc, printed>>

(* pthread_join returns when the thread has ended; main then closes its fd. *)
JoinAndClose == /\ mainPc = "join" /\ k < N
                /\ pc[k] = "done"
                /\ fd' = [fd EXCEPT ![k] = "closed"]
                /\ k' = k + 1
                /\ UNCHANGED <<pc, target, counter, mainPc, printed>>

Exit == /\ mainPc = "join" /\ k = N
        /\ mainPc' = "exit"
        /\ UNCHANGED <<pc, target, fd, counter, k, printed>>

Exited == mainPc = "exit" /\ UNCHANGED vars

ThreadNext(i) == \/ Read(i) \/ ScanFails(i) \/ Route(i) \/ ExitAll(i)
                 \/ \E v \in Inputs : ScanValue(i, v)

MainNext == Create \/ Activate \/ JoinAndClose \/ Exit

Next == (\E i \in Id : ThreadNext(i)) \/ MainNext \/ Exited

Spec == Init /\ [][Next]_vars

(* Every thread that can run does; the input has an end (MaxInputs). *)
FairSpec == Spec /\ WF_vars(MainNext) /\ \A i \in Id : WF_vars(ThreadNext(i))
-----------------------------------------------------------------------------
TypeOK == /\ pc \in [Id -> {"new", "read", "scan", "route", "exitAll", "done"}]
          /\ target \in [Id -> Id]
          /\ fd \in [Id -> {"none", "open", "closed"}]
          /\ counter \in [Id -> Nat]
          /\ mainPc \in {"create", "join", "exit"}
          /\ k \in 0 .. N
          /\ printed \in Seq([thread : Id, value : Inputs])

(* The places where the right to read the input can be. *)
Tokens == {<<"fd", i>> : i \in {j \in Id : counter[j] = STATUS_ACTIVATE}}
          \cup {<<"thread", i>> : i \in {j \in Id : pc[j] \in {"scan", "route", "exitAll"}}}

(* One thread at a time may touch the shared input and the next one's eventfd:
   the right to do so is in one place (lines 27-46). *)
OneToken == \A a, b \in Tokens : a = b

(* A status is read as it was written.  Counters add: two activations would
   read as STATUS_EXIT, an activation and an exit as neither; and once a thread
   has been told to exit nobody is activated or reading any more (lines 28-38). *)
ExitIsFinal == /\ \A i \in Id : counter[i] \in {0, STATUS_ACTIVATE, STATUS_EXIT}
               /\ (\E i \in Id : pc[i] = "done" \/ counter[i] = STATUS_EXIT) =>
                  \A j \in Id : /\ counter[j] # STATUS_ACTIVATE
                                /\ pc[j] \notin {"scan", "route"}

(* No thread reads or writes an eventfd before main has created it or after
   main has closed it, though threads start and end one by one (lines 61-78). *)
FdsUsable == \A i \in Id :
    /\ pc[i] = "read" => fd[i] = "open"
    /\ pc[i] \in {"route", "exitAll"} => fd[target[i]] = "open"

(* The first number is thread 0's, each later one belongs to the thread that is
   the true residue of the number before it, negative numbers included. *)
RoutedByResidue == \A n \in DOMAIN printed :
    printed[n].thread = IF n = 1 THEN 0 ELSE printed[n - 1].value % N

(* The end of the input reaches every thread and main's joins all return. *)
MainExits == <>(mainPc = "exit")
=============================================================================
