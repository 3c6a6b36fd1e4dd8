--------------------------- MODULE CountingProofs ---------------------------
(***************************************************************************)
(* Proofs about what is counted and added up: the threads that wake each   *)
(* other through the counters of eventfds (EventfdRelay), those that add   *)
(* to shared numbers (ThreadSums), and the samples that read a counter     *)
(* (EventSamples).                                                         *)
(***************************************************************************)
EXTENDS EventfdRelay, ThreadSums, EventSamples, SumProofs, SequenceTheorems

(***************************************************************************)
(* The relay, for every number of threads and every input (EventfdRelay).  *)
(***************************************************************************)

Quiet(j) == pc[j] = "read" /\ counter[j] = 0
Told(j) == (pc[j] = "read" /\ counter[j] = STATUS_EXIT) \/ (pc[j] = "done" /\ counter[j] = 0)

(* The thread the next number belongs to. *)
Due == IF printed = <<>> THEN 0 ELSE printed[Len(printed)].value % N

(* Where the activation is: pending in one eventfd, ... *)
Pending(h) == /\ pc[h] = "read" /\ counter[h] = STATUS_ACTIVATE /\ h = Due
              /\ \A j \in Id : j # h => Quiet(j)

(* ... with one thread, which reads the input or has chosen the next one, ... *)
Active(h) == /\ counter[h] = 0
             /\ \/ pc[h] = "scan" /\ h = Due
                \/ pc[h] = "route" /\ target[h] = Due
             /\ \A j \in Id : j # h => Quiet(j)

(* ... with the thread that is telling the others to exit, ... *)
Ending(h) == /\ pc[h] = "exitAll"
             /\ counter[h] = IF h < target[h] THEN STATUS_EXIT ELSE 0
             /\ \A j \in Id : j # h => IF j < target[h] THEN Told(j) ELSE Quiet(j)

(* ... or used up, everybody having been told. *)
Over == \A j \in Id : Told(j)

(* The descriptors follow main's two loops. *)
FdsFollowMain ==
    /\ mainPc = "create" => \A i \in Id :
          IF i < k THEN fd[i] = "open" /\ Quiet(i)
                   ELSE fd[i] = "none" /\ pc[i] = "new" /\ counter[i] = 0
    /\ mainPc # "create" => \A i \in Id :
          IF i < k THEN fd[i] = "closed" /\ pc[i] = "done" ELSE fd[i] = "open"

RelayInv == /\ TypeOK /\ FdsFollowMain /\ RoutedByResidue
            /\ mainPc = "create" => printed = <<>>
            /\ mainPc # "create" => Over \/ \E h \in Id : Pending(h) \/ Active(h) \/ Ending(h)

LEMMA IdFacts == /\ N \in Nat /\ N > 0 /\ 0 \in Id
                 /\ \A i \in Id : i \in Nat /\ i < N
                 /\ STATUS_ACTIVATE # STATUS_EXIT
                 /\ STATUS_ACTIVATE \in Nat \ {0} /\ STATUS_EXIT \in Nat \ {0}
  BY RelayAssumption DEF Id, STATUS_ACTIVATE, STATUS_EXIT

(* The order of the thread numbers, for the loop over them. *)
LEMMA IdOrder == \A i, j \in Id : /\ j < i + 1 <=> j < i \/ j = i
                                  /\ i + 1 < N => i + 1 \in Id
                                  /\ ~(i + 1 < N) => j < i \/ j = i
                                  /\ ~(i < i) /\ ~(j < 0)
  BY RelayAssumption DEF Id

(* A residue is unique. *)
LEMMA ResidueUnique ==
    ASSUME NEW n \in Nat \ {0}, NEW q \in Int, NEW r \in 0 .. n - 1 PROVE (n * q + r) % n = r
<1> DEFINE a == n * q + r
           p == a \div n
           s == a % n
<1>1. a \in Int /\ p \in Int /\ s \in 0 .. n - 1 /\ a = n * p + s
  OBVIOUS
<1>2. n * (q - p) = s - r /\ s - r < n /\ s - r > -n
  BY <1>1
<1>3. ASSUME NEW m \in Int, m > 0 PROVE n * m >= n /\ n * (-m) <= -n
  BY <1>3
<1>4. q - p = 0
  <2>1. CASE q - p > 0
    BY <1>1, <1>2, <1>3, <2>1
  <2>2. CASE p - q > 0
    <3>1. q - p = -(p - q) /\ p - q \in Int
      BY <1>1
    <3>2. QED
      BY <1>1, <1>2, <1>3, <2>2, <3>1
  <2>3. QED
    BY <1>1, <2>1, <2>2
<1>5. QED
  BY <1>1, <1>2, <1>4

LEMMA ResidueByN == ASSUME NEW q \in Int, NEW r \in 0 .. N - 1 PROVE (N * q + r) % N = r
<1>1. N \in Nat \ {0}
  BY IdFacts
<1>. QED
  BY <1>1, ResidueUnique

(* The corrected remainder of C is the residue. *)
LEMMA NextThreadIsResidue == \A v \in Int : NextThread(v) = v % N /\ NextThread(v) \in Id
<1> SUFFICES ASSUME NEW v \in Int PROVE NextThread(v) = v % N /\ NextThread(v) \in Id
  OBVIOUS
<1>1. \A x \in Int : x % N \in 0 .. N - 1
  BY IdFacts
<1>2. CASE v >= 0
  BY <1>1, <1>2, IdFacts DEF NextThread, CRemainder, Id
<1>3. CASE v < 0
  <2> DEFINE q == (-v) \div N
             r == (-v) % N
  <2>1. q \in Int /\ r \in 0 .. N - 1 /\ -v = N * q + r
    BY <1>3, IdFacts
  <2>2. NextThread(v) = IF r = 0 THEN 0 ELSE N - r
    BY <1>3, <2>1, IdFacts DEF NextThread, CRemainder
  <2>3. CASE r = 0
    <3>1. v = N * (-q) + 0 /\ -q \in Int
      BY <2>1, <2>3, IdFacts
    <3>2. QED
      BY <2>2, <2>3, <3>1, ResidueByN, IdFacts DEF Id
  <2>4. CASE r # 0
    <3>1. v = N * (-q - 1) + (N - r) /\ -q - 1 \in Int /\ N - r \in 0 .. N - 1
      BY <2>1, <2>4, IdFacts
    <3>2. QED
      BY <2>2, <2>4, <3>1, ResidueByN, IdFacts DEF Id
  <2>5. QED
    BY <2>3, <2>4
<1>4. QED
  BY <1>2, <1>3

LEMMA InitRelayInv == Init => RelayInv
  BY IdFacts DEF Init, RelayInv, TypeOK, FdsFollowMain, RoutedByResidue, Id

(* Main's own steps. *)
LEMMA MainStep == RelayInv /\ MainNext => RelayInv'
<1> SUFFICES ASSUME RelayInv, MainNext PROVE RelayInv'
  OBVIOUS
<1> USE IdFacts DEF RelayInv, TypeOK, FdsFollowMain, RoutedByResidue, Pending, Active,
        Ending, Over, Quiet, Told, Due
<1>1. CASE Create
  <2>1. k \in Id /\ k + 1 \in 0 .. N
    BY <1>1 DEF Create, Id
  <2>2. TypeOK'
    BY <1>1, <2>1 DEF Create
  <2>3. \A i \in Id : i < k + 1 <=> i < k \/ i = k
    BY <2>1
  <2>4. FdsFollowMain'
    BY <1>1, <2>1, <2>3 DEF Create
  <2>5. QED
    BY <1>1, <2>2, <2>4 DEF Create
<1>2. CASE Activate
  <2>1. \A i \in Id : fd[i] = "open" /\ Quiet(i)
    BY <1>2 DEF Activate
  <2>2. counter' = [counter EXCEPT ![0] = STATUS_ACTIVATE]
    BY <1>2, <2>1 DEF Activate, Write, STATUS_ACTIVATE
  <2>3. Pending(0)'
    BY <1>2, <2>1, <2>2 DEF Activate
  <2>4. TypeOK' /\ FdsFollowMain' /\ RoutedByResidue'
    BY <1>2, <2>1, <2>2 DEF Activate
  <2>5. QED
    BY <1>2, <2>3, <2>4 DEF Activate
<1>3. CASE JoinAndClose
  <2>1. k \in Id /\ k + 1 \in 0 .. N
    BY <1>3 DEF JoinAndClose, Id
  <2>2. TypeOK' /\ FdsFollowMain' /\ RoutedByResidue'
    BY <1>3, <2>1 DEF JoinAndClose
  <2>3. QED
    BY <1>3, <2>2 DEF JoinAndClose
<1>4. CASE Exit
  BY <1>4 DEF Exit
<1>5. QED
  BY <1>1, <1>2, <1>3, <1>4 DEF MainNext

(* A thread can only move once main has activated thread 0. *)
LEMMA ThreadsMoveAfterCreate ==
    ASSUME RelayInv, NEW i \in Id, ThreadNext(i)
    PROVE  /\ mainPc # "create"
           /\ \A j \in Id : fd[j] = "open" \/ pc[j] = "done"
           /\ mainPc' # "create" /\ UNCHANGED <<fd, mainPc, k>>
<1> USE IdFacts DEF RelayInv, TypeOK, FdsFollowMain, Quiet
<1>1. UNCHANGED <<fd, mainPc, k>>
  BY DEF ThreadNext, Read, ScanFails, Route, ExitAll, ScanValue
<1>2. pc[i] \notin {"new", "done"} /\ ~Quiet(i)
  <2>1. CASE Read(i)
    BY <2>1 DEF Read
  <2>2. CASE ScanFails(i) \/ Route(i) \/ ExitAll(i) \/ \E v \in Inputs : ScanValue(i, v)
    BY <2>2 DEF ScanFails, Route, ExitAll, ScanValue
  <2>3. QED
    BY <2>1, <2>2 DEF ThreadNext
<1>3. mainPc # "create"
  BY <1>2
<1>4. QED
  BY <1>1, <1>3

(* A thread that ends stays ended, so main's view of the descriptors stays right. *)
LEMMA FdsKept ==
    ASSUME RelayInv, NEW i \in Id, ThreadNext(i) PROVE FdsFollowMain'
<1>1. \A j \in Id : pc[j] = "done" => pc'[j] = "done"
  BY DEF RelayInv, TypeOK, ThreadNext, Read, ScanFails, Route, ExitAll, ScanValue
<1>2. QED
  BY <1>1, ThreadsMoveAfterCreate DEF RelayInv, FdsFollowMain

(* Where the activation is, once main has given it to thread 0. *)
Somewhere == Over \/ \E h \in Id : Pending(h) \/ Active(h) \/ Ending(h)

(* A step of a thread moves the activation on. *)
LEMMA ReadStep ==
    ASSUME RelayInv, NEW i \in Id, Read(i)
    PROVE  TypeOK' /\ RoutedByResidue' /\ Somewhere'
<1> USE IdFacts DEF RelayInv, TypeOK, Pending, Active, Ending, Over, Quiet, Told, Due
<1>1. TypeOK' /\ RoutedByResidue'
  BY DEF Read, RoutedByResidue
<1>2. Somewhere
  BY ThreadsMoveAfterCreate DEF ThreadNext, Somewhere
<1>3. pc[i] = "read" /\ counter[i] # 0
  BY DEF Read
<1>4. CASE Over
  <2>1. Over'
    BY <1>3, <1>4 DEF Read
  <2>2. QED
    BY <1>1, <2>1 DEF Somewhere
<1>5. ASSUME NEW h \in Id, Pending(h) PROVE Somewhere'
  <2>1. i = h /\ Active(h)'
    BY <1>3, <1>5 DEF Read
  <2>2. QED
    BY <2>1 DEF Somewhere
<1>6. ASSUME NEW h \in Id, Active(h) PROVE FALSE
  BY <1>3, <1>6
<1>7. ASSUME NEW h \in Id, Ending(h) PROVE Somewhere'
  <2>1. i # h /\ i < target[h] /\ counter[i] = STATUS_EXIT
    BY <1>3, <1>7
  <2>2. Ending(h)'
    BY <1>7, <2>1 DEF Read
  <2>3. QED
    BY <2>2 DEF Somewhere
<1>8. QED
  BY <1>1, <1>2, <1>4, <1>5, <1>6, <1>7 DEF Somewhere

LEMMA ScanStep ==
    ASSUME RelayInv, NEW i \in Id, ScanFails(i) \/ \E v \in Inputs : ScanValue(i, v)
    PROVE  TypeOK' /\ RoutedByResidue' /\ Somewhere'
<1> USE IdFacts DEF RelayInv, TypeOK, Pending, Active, Ending, Over, Quiet, Told
<1>1. Active(i) /\ pc[i] = "scan" /\ i = Due
  BY ThreadsMoveAfterCreate DEF ThreadNext, ScanFails, ScanValue
<1>2. CASE ScanFails(i)
  <2>1. TypeOK' /\ RoutedByResidue'
    BY <1>2 DEF ScanFails, RoutedByResidue
  <2>2. Ending(i)'
    BY <1>1, <1>2 DEF ScanFails
  <2>3. QED
    BY <2>1, <2>2 DEF Somewhere
<1>3. ASSUME NEW v \in Inputs, ScanValue(i, v)
      PROVE  TypeOK' /\ RoutedByResidue' /\ Somewhere'
  <2>1. v \in Int /\ NextThread(v) = v % N /\ NextThread(v) \in Id
    BY NextThreadIsResidue, RelayAssumption
  <2>2. /\ printed' = Append(printed, [thread |-> i, value |-> v])
        /\ [thread |-> i, value |-> v] \in [thread : Id, value : Inputs]
    BY <1>3 DEF ScanValue
  <2>3. /\ printed' \in Seq([thread : Id, value : Inputs])
        /\ Len(printed') = Len(printed) + 1 /\ printed' # <<>>
        /\ printed'[Len(printed')] = [thread |-> i, value |-> v]
        /\ \A n \in DOMAIN printed : printed'[n] = printed[n]
        /\ \A n \in DOMAIN printed' : n \in DOMAIN printed \/ n = Len(printed) + 1
    BY <2>2
  <2>4. Due' = v % N
    BY <2>3 DEF Due
  <2>5. TypeOK'
    BY <1>3, <2>1, <2>3 DEF ScanValue
  <2>6. RoutedByResidue'
    <3> SUFFICES ASSUME NEW n \in DOMAIN printed'
                 PROVE  printed'[n].thread = IF n = 1 THEN 0 ELSE printed'[n - 1].value % N
      BY DEF RoutedByResidue
    <3>1. CASE n \in DOMAIN printed
      <4>1. n = 1 \/ n - 1 \in DOMAIN printed
        BY <3>1
      <4>2. QED
        BY <2>3, <3>1, <4>1 DEF RoutedByResidue
    <3>2. CASE n = Len(printed) + 1
      <4>1. printed'[n].thread = Due
        BY <1>1, <2>3, <3>2
      <4>2. CASE printed = <<>>
        BY <3>2, <4>1, <4>2 DEF Due
      <4>3. CASE printed # <<>>
        <5>1. n # 1 /\ n - 1 = Len(printed) /\ Len(printed) \in DOMAIN printed
          BY <3>2, <4>3
        <5>2. QED
          BY <2>3, <4>1, <4>3, <5>1 DEF Due
      <4>4. QED
        BY <4>2, <4>3
    <3>3. QED
      BY <2>3, <3>1, <3>2
  <2>7. Active(i)'
    BY <1>1, <1>3, <2>1, <2>4 DEF ScanValue
  <2>8. QED
    BY <2>5, <2>6, <2>7 DEF Somewhere
<1>4. QED
  BY <1>2, <1>3

(* The write of line 46 reaches the eventfd of the thread whose turn it is. *)
LEMMA RouteStep ==
    ASSUME RelayInv, NEW i \in Id, Route(i)
    PROVE  TypeOK' /\ RoutedByResidue' /\ Somewhere'
<1> USE IdFacts DEF RelayInv, TypeOK, Pending, Active, Ending, Over, Quiet, Told, Due
<1>1. Active(i) /\ pc[i] = "route" /\ target[i] = Due
  BY ThreadsMoveAfterCreate DEF ThreadNext, Route
<1>2. fd[target[i]] = "open" /\ counter[target[i]] = 0
  BY <1>1, ThreadsMoveAfterCreate DEF ThreadNext
<1>3. counter' = [counter EXCEPT ![target[i]] = STATUS_ACTIVATE]
  BY <1>2 DEF Route, Write, STATUS_ACTIVATE
<1>4. TypeOK' /\ RoutedByResidue'
  BY <1>3 DEF Route, RoutedByResidue
<1>5. PICK t \in Id : t = target[i]
  OBVIOUS
<1>6. Pending(t)'
  BY <1>1, <1>2, <1>3, <1>5 DEF Route
<1>7. QED
  BY <1>4, <1>6 DEF Somewhere

(* The loop of lines 34-36 tells one more thread, and finds its eventfd open. *)
LEMMA ExitAllStep ==
    ASSUME RelayInv, NEW i \in Id, ExitAll(i)
    PROVE  TypeOK' /\ RoutedByResidue' /\ Somewhere'
<1> USE IdFacts DEF RelayInv, TypeOK, Pending, Active, Ending, Over, Quiet, Told, Due
<1>1. Ending(i)
  BY ThreadsMoveAfterCreate DEF ThreadNext, ExitAll
<1>2. fd[target[i]] = "open" /\ counter[target[i]] = 0 /\ target[i] \in Id
  <2>1. target[i] \in Id /\ ~(target[i] < target[i])
    BY IdOrder
  <2>2. pc[target[i]] # "done" /\ counter[target[i]] = 0
    BY <1>1, <2>1
  <2>3. QED
    BY <2>1, <2>2, ThreadsMoveAfterCreate DEF ThreadNext
<1>3. counter' = [counter EXCEPT ![target[i]] = STATUS_EXIT]
  BY <1>2 DEF ExitAll, Write, STATUS_EXIT
<1>4. CASE target[i] + 1 < N
  <2>1. target[i] + 1 \in Id
    BY <1>2, <1>4, IdOrder
  <2>2. target' = [target EXCEPT ![i] = target[i] + 1] /\ UNCHANGED <<pc, printed>>
    BY <1>4 DEF ExitAll
  <2>3. TypeOK' /\ RoutedByResidue'
    BY <1>3, <2>1, <2>2 DEF ExitAll, RoutedByResidue
  <2>4. \A j \in Id : j < target[i] + 1 <=> j < target[i] \/ j = target[i]
    BY <1>2, IdOrder
  <2>5. Ending(i)'
    <3>1. target'[i] = target[i] + 1 /\ pc'[i] = "exitAll"
      BY <1>1, <2>2
    <3>2. counter'[i] = IF i < target[i] + 1 THEN STATUS_EXIT ELSE 0
      BY <1>1, <1>2, <1>3, <2>4
    <3>3. ASSUME NEW j \in Id, j # i
          PROVE  IF j < target[i] + 1 THEN Told(j)' ELSE Quiet(j)'
      BY <1>1, <1>2, <1>3, <2>2, <2>4, <3>3
    <3>4. QED
      BY <3>1, <3>2, <3>3
  <2>6. QED
    BY <2>3, <2>5 DEF Somewhere
<1>5. CASE ~(target[i] + 1 < N)
  <2>1. \A j \in Id : j < target[i] \/ j = target[i]
    BY <1>2, <1>5, IdOrder
  <2>2. pc' = [pc EXCEPT ![i] = "read"] /\ UNCHANGED <<target, printed>>
    BY <1>5 DEF ExitAll
  <2>3. TypeOK' /\ RoutedByResidue'
    BY <1>3, <2>2 DEF ExitAll, RoutedByResidue
  <2>4. Over'
    BY <1>1, <1>2, <1>3, <2>1, <2>2
  <2>5. QED
    BY <2>3, <2>4 DEF Somewhere
<1>6. QED
  BY <1>4, <1>5

LEMMA NextRelayInv == RelayInv /\ [Next]_vars => RelayInv'
<1> SUFFICES ASSUME RelayInv, [Next]_vars PROVE RelayInv'
  OBVIOUS
<1>1. CASE MainNext
  BY <1>1, MainStep
<1>2. ASSUME NEW i \in Id, ThreadNext(i) PROVE RelayInv'
  <2>1. TypeOK' /\ RoutedByResidue' /\ Somewhere'
    BY <1>2, ReadStep, ScanStep, RouteStep, ExitAllStep DEF ThreadNext
  <2>2. FdsFollowMain' /\ mainPc' # "create"
    BY <1>2, FdsKept, ThreadsMoveAfterCreate
  <2>3. QED
    BY <2>1, <2>2 DEF RelayInv, Somewhere
<1>3. CASE UNCHANGED vars
  BY <1>3 DEF vars, RelayInv, TypeOK, FdsFollowMain, RoutedByResidue, Pending, Active, Ending,
     Over, Quiet, Told, Due
<1>4. QED
  BY <1>1, <1>2, <1>3 DEF Next, Exited

(* The inductive invariant of the relay holds in every reachable state. *)
THEOREM RelayInvariant == Spec => []RelayInv
  BY InitRelayInv, NextRelayInv, PTL DEF Spec

(* What the invariant says about the token, the statuses and the descriptors. *)
LEMMA RelayInvImplies == RelayInv => OneToken /\ ExitIsFinal /\ FdsUsable
<1> SUFFICES ASSUME RelayInv PROVE OneToken /\ ExitIsFinal /\ FdsUsable
  OBVIOUS
<1> USE IdFacts DEF RelayInv, TypeOK, FdsFollowMain, Pending, Active, Ending, Over, Quiet, Told
<1>1. OneToken
  <2>1. CASE mainPc = "create" \/ Over
    BY <2>1 DEF OneToken, Tokens
  <2>2. ASSUME NEW h \in Id, Pending(h) PROVE Tokens \subseteq {<<"fd", h>>}
    BY <2>2 DEF Tokens
  <2>3. ASSUME NEW h \in Id, Active(h) \/ Ending(h) PROVE Tokens \subseteq {<<"thread", h>>}
    <3>1. \A j \in Id : counter[j] # STATUS_ACTIVATE
      BY <2>3
    <3>2. \A j \in Id : j # h => pc[j] \notin {"scan", "route", "exitAll"}
      BY <2>3
    <3>3. QED
      BY <3>1, <3>2 DEF Tokens
  <2>4. ASSUME NEW x, Tokens \subseteq {x} PROVE OneToken
    BY <2>4 DEF OneToken
  <2>5. QED
    BY <2>1, <2>2, <2>3, <2>4
<1>2. ExitIsFinal
  BY DEF ExitIsFinal
<1>3. FdsUsable
  <2> SUFFICES ASSUME NEW i \in Id
               PROVE  /\ pc[i] = "read" => fd[i] = "open"
                      /\ pc[i] \in {"route", "exitAll"} => fd[target[i]] = "open"
    BY DEF FdsUsable
  <2>1. pc[i] = "read" => fd[i] = "open"
    OBVIOUS
  <2>2. target[i] \in Id /\ ~(target[i] < target[i])
    BY IdOrder
  <2>3. pc[i] \in {"route", "exitAll"} => pc[target[i]] # "done" /\ mainPc # "create"
    BY <2>2
  <2>4. QED
    BY <2>1, <2>2, <2>3
<1>4. QED
  BY <1>1, <1>2, <1>3

(* The relay's state is well typed: every target is a thread, for any N and any
   numbers, negative ones included. *)
THEOREM RelayTypes == Spec => []TypeOK
<1>1. RelayInv => TypeOK
  BY DEF RelayInv
<1>2. QED
  BY <1>1, RelayInvariant, PTL

(* The right to read the input is in one place, for any number of threads. *)
THEOREM RelayOneToken == Spec => []OneToken
  BY RelayInvariant, RelayInvImplies, PTL

(* No activation is mistaken for an exit, and none follows an exit. *)
THEOREM RelayExitIsFinal == Spec => []ExitIsFinal
  BY RelayInvariant, RelayInvImplies, PTL

(* Every eventfd is open whenever a thread uses it. *)
THEOREM RelayFdsUsable == Spec => []FdsUsable
  BY RelayInvariant, RelayInvImplies, PTL

(* Every number is handled by the thread the number before it names. *)
THEOREM RelayRouting == Spec => []RoutedByResidue
<1>1. RelayInv => RoutedByResidue
  BY DEF RelayInv
<1>2. QED
  BY <1>1, RelayInvariant, PTL


(***************************************************************************)
(* Threads that add to shared numbers (ThreadSums).                        *)
(***************************************************************************)

Busy(t) == phase[t] \in {"load", "store"}
Reading == {"task21_3", "race_condition"}

(* What the updates left in an iteration add to cell c, and to all cells. *)
UpdateOf(u, c) == IF u[1] = c THEN u[2] ELSE 0
LeftIn(q, c) == IF q = <<>> THEN 0
                ELSE UpdateOf(q[1], c) + (IF Len(q) = 1 THEN 0 ELSE UpdateOf(q[2], c))
LeftOf(q) == IF q = <<>> THEN 0 ELSE IF Len(q) = 1 THEN q[1][2] ELSE q[1][2] + q[2][2]
LeftAll(todos) == Total([t \in Thread |-> LeftOf(todos[t])], Thread)

(* What the first n iterations of thread t of program p add to cell c, where it
   reads nothing: Own for each to its own cell and Next to the following one, or
   all of it to cell 0. *)
Remainder(v) == v % Magic
Residue == [i \in Nat |-> i % Magic]
Own(p, t) == IF p = "task22_1" THEN (t + 1) * 100 ELSE 80 + t * 20
Next23(p, t) == IF p = "task22_1" THEN -((t + 1) * 100 + 1) ELSE -(80 + t * 20 + 10)
InTwo == {"task22_1", "task23_1"}
Share(p, t, c, n) ==
    IF p \in InTwo
    THEN (IF c = t THEN n * Own(p, t) ELSE 0) + (IF c = Following(t) THEN n * Next23(p, t) ELSE 0)
    ELSE IF c # 0 THEN 0 ELSE IF p = "main" THEN n ELSE Total(Residue, 0 .. n - 1)

(* What thread t has added to cell c, from the iterations it has begun and what is
   left of the last. *)
Performed(p, n, d, c) == [t \in Thread |-> Share(p, t, c, n[t]) - LeftIn(d[t], c)]

Unread(g, inp) == Total(g, Len(g) - Len(inp) + 1 .. Len(g))

SumsTypes == /\ program \in DOMAIN Covered
             /\ given \in Seq(Int) /\ input \in Seq(Int)
             /\ start \in [Thread -> Int] /\ cells \in [Thread -> Int]
             /\ phase \in [Thread -> {"none", "idle", "load", "store", "ended"}]
             /\ count \in [Thread -> Nat]
             /\ todo \in [Thread -> Seq(Thread \X Int)]
             /\ register \in [Thread -> Int]
             /\ holder \in Thread \cup {Free}
             /\ joined \in 0 .. ThreadCount
             /\ total \in Int

(* input is the end of the numbers given. *)
InputInv == /\ Len(input) <= Len(given)
            /\ \A i \in 1 .. Len(input) : input[i] = given[Len(given) - Len(input) + i]

(* Where the threads are. *)
PlaceInv == \A t \in Thread :
                /\ Busy(t) <=> todo[t] # <<>>
                /\ Len(todo[t]) <= 2
                /\ ~Reads => count[t] <= Iterations
                /\ phase[t] = "ended" => IF Reads THEN input = <<>> ELSE count[t] = Iterations
                /\ program = "task21_3" /\ Busy(t) => Len(todo[t]) = 1 /\ todo[t][1][1] = t
                /\ t < joined => phase[t] = "ended"

(* Whoever is between a load and the end of its iteration has the lock. *)
LockInv == Lock # "none" => \A t \in Thread : Busy(t) => holder = t

(* The load of a `+=` is still right at its store; but not in race_condition. *)
LoadInv == program # "race_condition" =>
               \A t \in Thread : phase[t] = "store" => register[t] = cells[todo[t][1][1]]

(* Each cell holds what each thread has added to it, ... *)
CellInv == program \notin Reading =>
               \A c \in Thread : cells[c] = start[c] + Total(Performed(program, count, todo, c), Thread)

(* ... or all of them hold what has been read, and main what it has joined. *)
ReadInv == program = "task21_3" =>
               /\ SumFunction(cells) + LeftAll(todo) + Unread(given, input) = SumFunction(given)
               /\ total = Total(cells, 0 .. joined - 1)

StartInv == program # "task23_1" => start = [t \in Thread |-> 0]

SumsInv == /\ SumsTypes /\ InputInv /\ PlaceInv /\ LockInv
           /\ LoadInv /\ CellInv /\ ReadInv /\ StartInv

(* Of two functions only the value at x is not the same. *)
OneChanges(f, g, X, x) == /\ \A y \in X : f[y] \in Int /\ g[y] \in Int
                          /\ \A y \in X : y # x => g[y] = f[y]

(* A sum changes as the value does. *)
LEMMA SumChanged ==
    ASSUME NEW X, IsFiniteSet(X), NEW f, NEW g, NEW x \in X, OneChanges(f, g, X, x)
    PROVE  /\ Total(f, X) \in Int
           /\ Total(g, X) = Total(f, X) - f[x] + g[x]
<1>0. (\A y \in X : f[y] \in Int /\ g[y] \in Int) /\ \A y \in X : y # x => g[y] = f[y]
  BY DEF OneChanges
<1>s. Summable(f, X) /\ Summable(g, X) /\ Summable(f, X \ {x})
  BY <1>0, FS_RemoveElement DEF Summable
<1>1. Total(f, X) \in Int /\ Total(f, X) = f[x] + Total(f, X \ {x})
  BY <1>s, TotalTakes
<1>2. Total(g, X) \in Int /\ Total(g, X) = g[x] + Total(g, X \ {x})
  BY <1>s, TotalTakes
<1>3. IsFiniteSet(X \ {x}) /\ \A y \in X \ {x} : f[y] \in Int /\ f[y] = g[y]
  BY <1>0, FS_RemoveElement
<1>4. Total(f, X \ {x}) = Total(g, X \ {x})
  BY <1>3, TotalAgrees
<1>5. Total(f, X \ {x}) \in Int
  BY <1>s, TotalTakes
<1>6. f[x] \in Int /\ g[x] \in Int
  BY <1>0
<1>. QED
  BY <1>1, <1>2, <1>4, <1>5, <1>6

(* The sum of a value that is the same everywhere. *)
LEMMA SumConstant ==
    ASSUME NEW X, IsFiniteSet(X), NEW f, NEW c \in Int, \A x \in X : f[x] = c
    PROVE  Total(f, X) = Cardinality(X) * c
<1>. DEFINE P == {n \in Nat : \A s \in SUBSET X : Cardinality(s) = n => Total(f, s) = n * c}
<1>0. \A s \in SUBSET X : IsFiniteSet(s) /\ Cardinality(s) \in Nat
  BY FS_Subset, FS_CardinalityType
<1>1. 0 \in P
  <2>1. \A s \in SUBSET X : Cardinality(s) = 0 => s = {}
    BY <1>0, FS_EmptySet
  <2>2. 0 * c = 0
    OBVIOUS
  <2>. QED
    BY <2>1, <2>2, TotalEmpty
<1>2. ASSUME NEW n \in Nat, n \in P
      PROVE  n + 1 \in P
  <2>1. ASSUME NEW s \in SUBSET X, Cardinality(s) = n + 1
        PROVE  Total(f, s) = (n + 1) * c
    <3>1. PICK x \in s : TRUE
      BY <2>1, FS_EmptySet
    <3>2. s \ {x} \in SUBSET X /\ Cardinality(s \ {x}) = n
      BY <1>0, <2>1, FS_RemoveElement
    <3>3. Total(f, s \ {x}) = n * c
      BY <1>2, <3>2
    <3>4. Total(f, s) = f[x] + Total(f, s \ {x})
      <4>1. Summable(f, s)
        BY <1>0 DEF Summable
      <4>. QED
        BY <3>1, <4>1, TotalTakes
    <3>5. f[x] = c
      OBVIOUS
    <3>6. (n + 1) * c = c + n * c
      OBVIOUS
    <3>. QED
      BY <3>3, <3>4, <3>5, <3>6
  <2>2. n + 1 \in Nat
    OBVIOUS
  <2>. QED
    BY <2>1, <2>2
<1>3. \A n \in Nat : n \in P
  <2>. HIDE DEF P
  <2>. QED
    BY <1>1, <1>2, SetInduction
<1>4. Cardinality(X) \in P
  BY <1>0, <1>3
<1>. QED
  BY <1>4

LEMMA ThreadsFinite == IsFiniteSet(Thread) /\ Cardinality(Thread) = ThreadCount
<1>1. 0 \in Int /\ ThreadCount - 1 \in Int /\ ThreadCount \in Nat \ {0}
  BY CountAssumption
<1>2. IsFiniteSet(0 .. ThreadCount - 1) /\ Cardinality(0 .. ThreadCount - 1) = ThreadCount - 1 - 0 + 1
  BY <1>1, FS_Interval
<1>. QED
  BY <1>1, <1>2 DEF Thread

(* The sum of a function takes the whole domain. *)
LEMMA SumIs == ASSUME NEW f PROVE SumFunction(f) = Total(f, DOMAIN f)
BY DEF SumFunction, Total

(* The lists of updates. *)
LEMMA LeftFacts ==
    ASSUME NEW q \in Seq(Thread \X Int), Len(q) <= 2
    PROVE  /\ LeftOf(q) \in Int
           /\ q # <<>> => /\ Len(q) \in {1, 2} /\ Head(q) = q[1]
                          /\ q[1][1] \in Thread /\ q[1][2] \in Int
                          /\ Tail(q) \in Seq(Thread \X Int) /\ Len(Tail(q)) = Len(q) - 1
                          /\ Tail(q) # <<>> <=> Len(q) # 1
                          /\ LeftOf(Tail(q)) = LeftOf(q) - q[1][2]
<1>1. CASE q = <<>>
  BY <1>1 DEF LeftOf
<1>2. CASE q # <<>>
  <2>1. Len(q) \in {1, 2} /\ Head(q) = q[1] /\ \A i \in 1 .. Len(q) : q[i] \in Thread \X Int
    <3>1. Len(q) \in Nat \ {0} /\ Head(q) = q[1] /\ \A i \in 1 .. Len(q) : q[i] \in Thread \X Int
      BY <1>2
    <3>2. \A n \in Nat \ {0} : n <= 2 => n \in {1, 2}
      OBVIOUS
    <3>. QED
      BY <3>1, <3>2
  <2>2. q[1][1] \in Thread /\ q[1][2] \in Int
    BY <2>1
  <2>3. /\ Tail(q) \in Seq(Thread \X Int) /\ Len(Tail(q)) = Len(q) - 1
        /\ \A i \in 1 .. Len(Tail(q)) : Tail(q)[i] = q[i + 1]
    BY <1>2
  <2>4. Tail(q) # <<>> <=> Len(q) # 1
    BY <2>1, <2>3
  <2>5. CASE Len(q) = 1
    BY <1>2, <2>2, <2>4, <2>5 DEF LeftOf
  <2>6. CASE Len(q) = 2
    <3>1. q[2][2] \in Int
      BY <2>1, <2>6
    <3>2. Tail(q) # <<>> /\ Len(Tail(q)) = 1 /\ Tail(q)[1] = q[2]
      BY <2>3, <2>4, <2>6
    <3>3. LeftOf(q) = q[1][2] + q[2][2] /\ LeftOf(Tail(q)) = q[2][2]
      BY <1>2, <2>6, <3>2 DEF LeftOf
    <3>. QED
      BY <1>2, <2>1, <2>2, <2>3, <2>4, <3>1, <3>3
  <2>7. Len(q) = 1 => LeftOf(q) = q[1][2]
    BY <1>2 DEF LeftOf
  <2>. QED
    BY <1>2, <2>1, <2>2, <2>3, <2>4, <2>5, <2>6, <2>7
<1>. QED
  BY <1>1, <1>2

LEMMA LeftInFacts ==
    ASSUME NEW q \in Seq(Thread \X Int), Len(q) <= 2, NEW c
    PROVE  /\ LeftIn(q, c) \in Int
           /\ q # <<>> => LeftIn(Tail(q), c) = LeftIn(q, c) - UpdateOf(q[1], c)
           /\ q # <<>> => UpdateOf(q[1], c) \in Int
<1>1. CASE q = <<>>
  BY <1>1 DEF LeftIn
<1>2. CASE q # <<>>
  <2>1. /\ Len(q) \in {1, 2} /\ Tail(q) \in Seq(Thread \X Int) /\ Len(Tail(q)) = Len(q) - 1
        /\ Tail(q) # <<>> <=> Len(q) # 1
    BY <1>2, LeftFacts
  <2>2. \A i \in 1 .. Len(q) : q[i] \in Thread \X Int
    OBVIOUS
  <2>3. \A u \in Thread \X Int : UpdateOf(u, c) \in Int
    BY DEF UpdateOf
  <2>4. 1 \in 1 .. Len(q) /\ (Len(q) = 2 => 2 \in 1 .. Len(q))
    BY <2>1
  <2>5. UpdateOf(q[1], c) \in Int /\ (Len(q) = 2 => UpdateOf(q[2], c) \in Int)
    BY <2>2, <2>3, <2>4
  <2>6. CASE Len(q) = 1
    <3>1. LeftIn(q, c) = UpdateOf(q[1], c) + 0 /\ LeftIn(Tail(q), c) = 0
      BY <1>2, <2>1, <2>6 DEF LeftIn
    <3>. QED
      BY <2>5, <3>1
  <2>7. CASE Len(q) = 2
    <3>1. Tail(q)[1] = q[2] /\ Len(Tail(q)) = 1 /\ Tail(q) # <<>>
      BY <1>2, <2>1, <2>7
    <3>2. /\ LeftIn(q, c) = UpdateOf(q[1], c) + UpdateOf(q[2], c)
          /\ LeftIn(Tail(q), c) = UpdateOf(q[2], c) + 0
      BY <1>2, <2>7, <3>1 DEF LeftIn
    <3>. QED
      BY <2>5, <2>7, <3>2
  <2>. QED
    BY <2>1, <2>6, <2>7
<1>. QED
  BY <1>1, <1>2

(* One thread's value becomes another, and the lists of updates are short. *)
Puts(d, e, t, v) == \A u \in Thread : e[u] = IF u = t THEN v ELSE d[u]
Counts(c, e, t) == Puts(c, e, t, c[t] + 1)
Short(d) == d \in [Thread -> Seq(Thread \X Int)] /\ \A u \in Thread : Len(d[u]) <= 2

LEMMA LeftChanged ==
    ASSUME NEW d, Short(d), NEW t \in Thread, NEW q \in Seq(Thread \X Int), Len(q) <= 2,
           NEW e, Puts(d, e, t, q)
    PROVE  /\ LeftAll(d) \in Int /\ LeftOf(d[t]) \in Int /\ LeftOf(q) \in Int
           /\ LeftAll(e) = LeftAll(d) - LeftOf(d[t]) + LeftOf(q)
<1>. DEFINE f == [u \in Thread |-> LeftOf(d[u])]
<1>. DEFINE g == [u \in Thread |-> LeftOf(e[u])]
<1>1. \A u \in Thread : LeftOf(d[u]) \in Int /\ LeftOf(q) \in Int
  <2>1. \A u \in Thread : d[u] \in Seq(Thread \X Int) /\ Len(d[u]) <= 2
    BY DEF Short
  <2>. QED
    BY <2>1, LeftFacts
<1>2. \A u \in Thread : e[u] = IF u = t THEN q ELSE d[u]
  BY DEF Puts
<1>3. /\ \A u \in Thread : f[u] \in Int /\ g[u] \in Int
      /\ \A u \in Thread : u # t => g[u] = f[u]
      /\ f[t] = LeftOf(d[t]) /\ g[t] = LeftOf(q)
  BY <1>1, <1>2
<1>4. LeftAll(d) = Total(f, Thread) /\ LeftAll(e) = Total(g, Thread)
  BY DEF LeftAll
<1>. HIDE DEF f, g
<1>5. OneChanges(f, g, Thread, t)
  BY <1>3 DEF OneChanges
<1>6. Total(f, Thread) \in Int /\ Total(g, Thread) = Total(f, Thread) - f[t] + g[t]
  BY <1>5, ThreadsFinite, SumChanged
<1>. QED
  BY <1>1, <1>3, <1>4, <1>6

(* A number is added to a cell. *)
LEMMA CellChanged ==
    ASSUME NEW c \in [Thread -> Int], NEW x \in Thread, NEW v \in Int,
           NEW e, DOMAIN e = Thread, Puts(c, e, x, v)
    PROVE  SumFunction(c) \in Int /\ SumFunction(e) = SumFunction(c) - c[x] + v
<1>1. OneChanges(c, e, Thread, x) /\ e[x] = v
  BY DEF OneChanges, Puts
<1>2. Total(c, Thread) \in Int /\ Total(e, Thread) = Total(c, Thread) - c[x] + e[x]
  <2>1. \A g : OneChanges(c, g, Thread, x) =>
               Total(c, Thread) \in Int /\ Total(g, Thread) = Total(c, Thread) - c[x] + g[x]
    BY ThreadsFinite, SumChanged
  <2>. QED
    BY <1>1, <2>1, Zenon
<1>3. SumFunction(c) = Total(c, Thread) /\ SumFunction(e) = Total(e, Thread)
  <2>1. DOMAIN c = Thread /\ DOMAIN e = Thread
    OBVIOUS
  <2>. QED
    BY <2>1, SumIs
<1>. QED
  BY <1>1, <1>2, <1>3

LEMMA ResidueInt == \A i \in Nat : Residue[i] \in Nat /\ Residue[i] = i % Magic
<1>1. \A i \in Nat : i % Magic \in Nat
  BY CountAssumption
<1>. QED
  BY <1>1 DEF Residue

LEMMA UpTo == \A n \in Nat : /\ IsFiniteSet(0 .. n - 1) /\ 0 .. n - 1 \subseteq Nat
                              /\ n \in 0 .. n /\ (0 .. n) \ {n} = 0 .. n - 1
<1>1. \A n \in Nat : 0 \in Int /\ n - 1 \in Int
  OBVIOUS
<1>2. \A n \in Nat : IsFiniteSet(0 .. n - 1)
  BY <1>1, FS_Interval
<1>3. \A n \in Nat : 0 .. n - 1 \subseteq Nat /\ n \in 0 .. n /\ (0 .. n) \ {n} = 0 .. n - 1
  OBVIOUS
<1>. QED
  BY <1>2, <1>3

(* A sum up to the next number. *)
LEMMA TotalNext ==
    ASSUME NEW f, NEW n \in Nat, \A i \in 0 .. n : f[i] \in Int
    PROVE  /\ Total(f, 0 .. n - 1) \in Int
           /\ Total(f, 0 .. n) = f[n] + Total(f, 0 .. n - 1)
<1>. DEFINE U == 0 .. n
<1>. DEFINE L == 0 .. n - 1
<1>1. IsFiniteSet(U) /\ IsFiniteSet(L) /\ n \in U /\ U \ {n} = L
  <2>1. n + 1 \in Nat /\ (n + 1) - 1 = n
    OBVIOUS
  <2>2. IsFiniteSet(0 .. (n + 1) - 1)
    BY <2>1, UpTo
  <2>. QED
    BY <2>1, <2>2, UpTo
<1>2. Summable(f, U) /\ Summable(f, L)
  BY <1>1 DEF Summable
<1>. HIDE DEF U, L
<1>3. Total(f, L) \in Int
  BY <1>1, <1>2, TotalTakes
<1>4. Total(f, U) = f[n] + Total(f, U \ {n})
  BY <1>1, <1>2, TotalTakes
<1>. QED
  BY <1>1, <1>3, <1>4 DEF U, L

-----------------------------------------------------------------------------
LEMMA ThreadFacts == /\ 0 \in Thread /\ Thread \subseteq Nat
                     /\ \A t \in Thread : Following(t) \in Thread
                     /\ Free \notin Thread
<1>1. ThreadCount \in Nat \ {0}
  BY CountAssumption
<1>2. \A t \in Thread : t + 1 \in Nat
  BY DEF Thread
<1>3. \A n \in Nat : n % ThreadCount \in 0 .. ThreadCount - 1
  BY <1>1
<1>. QED
  BY <1>1, <1>2, <1>3 DEF Thread, Following, Free

LEMMA Programs == DOMAIN Covered = {"mutex_simple", "spinlock_simple", "task22_1", "task23_1",
                                    "main", "task21_3", "race_condition"}
BY DEF Covered

(* Lists of one update and of two. *)
LEMMA One ==
    ASSUME NEW d \in Thread, NEW x \in Int
    PROVE  /\ << <<d, x>> >> \in Seq(Thread \X Int) /\ Len(<< <<d, x>> >>) = 1
           /\ << <<d, x>> >>[1] = <<d, x>> /\ << <<d, x>> >> # <<>>
           /\ LeftOf(<< <<d, x>> >>) = x
BY DEF LeftOf

LEMMA OneLeft ==
    ASSUME NEW d \in Thread, NEW x \in Int, NEW c
    PROVE  LeftIn(<< <<d, x>> >>, c) = IF d = c THEN x ELSE 0
<1>1. /\ Len(<< <<d, x>> >>) = 1 /\ << <<d, x>> >> # <<>> /\ << <<d, x>> >>[1] = <<d, x>>
  OBVIOUS
<1>. QED
  BY <1>1 DEF LeftIn, UpdateOf

Transfer(c, x, d, y) == << <<c, x>>, <<d, y>> >>

LEMMA Two ==
    ASSUME NEW d \in Thread, NEW x \in Int, NEW e \in Thread, NEW y \in Int
    PROVE  /\ Transfer(d, x, e, y) \in Seq(Thread \X Int) /\ Len(Transfer(d, x, e, y)) = 2
           /\ Transfer(d, x, e, y) # <<>>
           /\ Transfer(d, x, e, y)[1] = <<d, x>> /\ Transfer(d, x, e, y)[2] = <<e, y>>
BY DEF Transfer

LEMMA TwoLeft ==
    ASSUME NEW d \in Thread, NEW x \in Int, NEW e \in Thread, NEW y \in Int, NEW c
    PROVE  LeftIn(Transfer(d, x, e, y), c) = (IF d = c THEN x ELSE 0) + (IF e = c THEN y ELSE 0)
<1>. DEFINE q == Transfer(d, x, e, y)
<1>1. Len(q) = 2 /\ q # <<>> /\ q[1] = <<d, x>> /\ q[2] = <<e, y>>
  BY DEF Transfer
<1>. HIDE DEF q
<1>2. LeftIn(q, c) = UpdateOf(q[1], c) + UpdateOf(q[2], c)
  BY <1>1 DEF LeftIn
<1>3. /\ UpdateOf(q[1], c) = IF d = c THEN x ELSE 0
      /\ UpdateOf(q[2], c) = IF e = c THEN y ELSE 0
  BY <1>1 DEF UpdateOf
<1>. QED
  BY <1>2, <1>3 DEF q

LEMMA AmountsInt == \A p : \A t \in Thread : Own(p, t) \in Int /\ Next23(p, t) \in Int
<1>1. \A t \in Thread : t \in Nat
  BY ThreadFacts
<1>. QED
  BY <1>1 DEF Own, Next23

(* What an iteration is to add. *)
LEMMA AddsAre ==
    /\ program \in {"mutex_simple", "spinlock_simple"} =>
           \A t, v : Adds(t, v) = << <<0, Remainder(v)>> >>
    /\ program = "main" => \A t, v : Adds(t, v) = << <<0, 1>> >>
    /\ program = "task21_3" => \A t, v : Adds(t, v) = << <<t, v>> >>
    /\ program = "race_condition" => \A t, v : Adds(t, v) = << <<0, v>> >>
    /\ program \in InTwo => \A t, v : Adds(t, v) = Transfer(t, Own(program, t), Following(t), Next23(program, t))
<1>1. ASSUME program = "task22_1", NEW t, NEW v
      PROVE  Adds(t, v) = Transfer(t, Own(program, t), Following(t), Next23(program, t))
  <2>1. Adds(t, v) = Task22_1(t, v)
    BY <1>1 DEF Adds, Updates
  <2>2. Own(program, t) = (t + 1) * 100 /\ Next23(program, t) = -((t + 1) * 100 + 1)
    BY <1>1 DEF Own, Next23
  <2>. QED
    BY <2>1, <2>2, Zenon DEF Task22_1, Transfer
<1>2. ASSUME program = "task23_1", NEW t, NEW v
      PROVE  Adds(t, v) = Transfer(t, Own(program, t), Following(t), Next23(program, t))
  <2>1. Adds(t, v) = Task23_1(t, v)
    BY <1>2 DEF Adds, Updates
  <2>2. Own(program, t) = 80 + t * 20 /\ Next23(program, t) = -(80 + t * 20 + 10)
    BY <1>2 DEF Own, Next23
  <2>. QED
    BY <2>1, <2>2, Zenon DEF Task23_1, Transfer
<1>3. program \in {"mutex_simple", "spinlock_simple"} => \A t, v : Adds(t, v) = << <<0, Remainder(v)>> >>
  BY DEF Adds, Updates, MutexSimple, SpinlockSimple, Remainder
<1>4. program = "main" => \A t, v : Adds(t, v) = << <<0, 1>> >>
  BY DEF Adds, Updates, Sem23Main
<1>5. program = "task21_3" => \A t, v : Adds(t, v) = << <<t, v>> >>
  BY DEF Adds, Updates, Task21_3
<1>6. program = "race_condition" => \A t, v : Adds(t, v) = << <<0, v>> >>
  BY DEF Adds, Updates, RaceCondition
<1>. QED
  BY <1>1, <1>2, <1>3, <1>4, <1>5, <1>6 DEF InTwo

LEMMA RemainderInt == \A v \in Int : Remainder(v) \in Int
BY CountAssumption DEF Remainder

LEMMA AddsFacts ==
    ASSUME program \in DOMAIN Covered, NEW t \in Thread, NEW v \in Int
    PROVE  /\ Adds(t, v) \in Seq(Thread \X Int) /\ Adds(t, v) # <<>> /\ Len(Adds(t, v)) <= 2
           /\ program = "task21_3" => /\ Len(Adds(t, v)) = 1 /\ Adds(t, v)[1][1] = t
                                       /\ LeftOf(Adds(t, v)) = v
<1>0. 0 \in Thread /\ Following(t) \in Thread /\ 1 \in Int
  BY ThreadFacts
<1>1. CASE program \notin InTwo
  <2>. DEFINE Fits(d, x) == /\ Adds(t, v) = << <<d, x>> >>
                            /\ program = "task21_3" => d = t /\ x = v
  <2>1. \E d \in Thread : \E x \in Int : Fits(d, x)
    <3>1. CASE program = "task21_3"
      <4>1. Fits(t, v)
        BY <3>1, AddsAre
      <4>. QED
        BY <4>1
    <3>2. CASE program = "race_condition"
      <4>1. Fits(0, v)
        BY <3>2, AddsAre
      <4>. QED
        BY <1>0, <4>1
    <3>3. CASE program = "main"
      <4>1. Fits(0, 1)
        BY <3>3, AddsAre
      <4>. QED
        BY <1>0, <4>1
    <3>4. CASE program \in {"mutex_simple", "spinlock_simple"}
      <4>1. Fits(0, Remainder(v)) /\ Remainder(v) \in Int
        BY <3>4, AddsAre, RemainderInt
      <4>. QED
        BY <1>0, <4>1
    <3>. QED
      BY <1>1, <3>1, <3>2, <3>3, <3>4, Programs DEF InTwo
  <2>. HIDE DEF Fits
  <2>2. PICK d \in Thread : \E x \in Int : Fits(d, x)
    BY <2>1
  <2>f. PICK x \in Int : Fits(d, x)
    BY <2>2
  <2>3. /\ Adds(t, v) = << <<d, x>> >>
        /\ program = "task21_3" => d = t /\ x = v
    BY <2>f DEF Fits
  <2>4. /\ << <<d, x>> >> \in Seq(Thread \X Int) /\ Len(<< <<d, x>> >>) = 1
        /\ << <<d, x>> >>[1] = <<d, x>> /\ << <<d, x>> >> # <<>>
        /\ LeftOf(<< <<d, x>> >>) = x
    BY One
  <2>. QED
    BY <2>3, <2>4
<1>2. CASE program \in InTwo
  <2>1. PICK x \in Int : x = Own(program, t)
    BY AmountsInt
  <2>2. PICK y \in Int : y = Next23(program, t)
    BY AmountsInt
  <2>3. PICK e \in Thread : e = Following(t)
    BY <1>0
  <2>4. Adds(t, v) = Transfer(t, x, e, y)
    BY <1>2, <2>1, <2>2, <2>3, AddsAre
  <2>5. /\ Transfer(t, x, e, y) \in Seq(Thread \X Int) /\ Len(Transfer(t, x, e, y)) = 2
        /\ Transfer(t, x, e, y) # <<>>
    BY Two
  <2>. QED
    BY <1>2, <2>4, <2>5 DEF InTwo
<1>. QED
  BY <1>1, <1>2

(* To which cell it is added. *)
LEMMA AddsTo ==
    ASSUME program \in DOMAIN Covered, NEW t \in Thread, NEW v \in Int, NEW c \in Thread
    PROVE  /\ program \in InTwo =>
                  LeftIn(Adds(t, v), c) = (IF c = t THEN Own(program, t) ELSE 0)
                                          + (IF c = Following(t) THEN Next23(program, t) ELSE 0)
           /\ program = "main" => LeftIn(Adds(t, v), c) = IF c = 0 THEN 1 ELSE 0
           /\ program \in {"mutex_simple", "spinlock_simple"} =>
                  LeftIn(Adds(t, v), c) = IF c = 0 THEN Remainder(v) ELSE 0
<1>0. 0 \in Thread /\ Following(t) \in Thread /\ 1 \in Int
  BY ThreadFacts
<1>1. ASSUME program \in InTwo
      PROVE  LeftIn(Adds(t, v), c) = (IF c = t THEN Own(program, t) ELSE 0)
                                     + (IF c = Following(t) THEN Next23(program, t) ELSE 0)
  <2>1. PICK x \in Int : x = Own(program, t)
    BY AmountsInt
  <2>2. PICK y \in Int : y = Next23(program, t)
    BY AmountsInt
  <2>3. PICK e \in Thread : e = Following(t)
    BY <1>0
  <2>4. Adds(t, v) = Transfer(t, x, e, y)
    BY <1>1, <2>1, <2>2, <2>3, AddsAre
  <2>5. LeftIn(Transfer(t, x, e, y), c) = (IF t = c THEN x ELSE 0) + (IF e = c THEN y ELSE 0)
    BY TwoLeft
  <2>. QED
    BY <2>1, <2>2, <2>3, <2>4, <2>5
<1>2. ASSUME program = "main"
      PROVE  LeftIn(Adds(t, v), c) = IF c = 0 THEN 1 ELSE 0
  <2>1. LeftIn(<< <<0, 1>> >>, c) = IF 0 = c THEN 1 ELSE 0
    BY <1>0, OneLeft
  <2>. QED
    BY <1>2, <2>1, AddsAre
<1>3. ASSUME program \in {"mutex_simple", "spinlock_simple"}
      PROVE  LeftIn(Adds(t, v), c) = IF c = 0 THEN Remainder(v) ELSE 0
  <2>1. PICK x \in Int : x = Remainder(v)
    BY RemainderInt
  <2>2. LeftIn(<< <<0, x>> >>, c) = IF 0 = c THEN x ELSE 0
    BY <1>0, OneLeft
  <2>. QED
    BY <1>3, <2>1, <2>2, AddsAre
<1>. QED
  BY <1>1, <1>2, <1>3

(* An iteration more has a share more, and what it adds is left. *)
LEMMA ShareNext ==
    ASSUME program \in DOMAIN Covered, program \notin Reading,
           NEW t \in Thread, NEW c \in Thread, NEW n \in Nat
    PROVE  /\ Share(program, t, c, n) \in Int
           /\ Share(program, t, c, n + 1) = Share(program, t, c, n) + LeftIn(Adds(t, n), c)
<1>1. CASE program \in InTwo
  <2>1. Own(program, t) \in Int /\ Next23(program, t) \in Int
    BY AmountsInt
  <2>2. \A x \in Int : (n + 1) * x = n * x + x /\ n * x \in Int
    OBVIOUS
  <2>3. LeftIn(Adds(t, n), c) = (IF c = t THEN Own(program, t) ELSE 0)
                              + (IF c = Following(t) THEN Next23(program, t) ELSE 0)
    BY <1>1, AddsTo
  <2>4. \E x, y, nx, ny \in Int : /\ x = Own(program, t) /\ y = Next23(program, t)
                                   /\ nx = n * Own(program, t) /\ ny = n * Next23(program, t)
                                   /\ (n + 1) * Own(program, t) = nx + x
                                   /\ (n + 1) * Next23(program, t) = ny + y
    BY <2>1, <2>2
  <2>. QED
    BY <1>1, <2>3, <2>4 DEF Share
<1>2. CASE program = "main"
  <2>1. LeftIn(Adds(t, n), c) = IF c = 0 THEN 1 ELSE 0
    BY <1>2, AddsTo
  <2>. QED
    BY <1>2, <2>1 DEF Share, InTwo
<1>3. CASE program \in {"mutex_simple", "spinlock_simple"}
  <2>1. LeftIn(Adds(t, n), c) = IF c = 0 THEN Remainder(n) ELSE 0
    BY <1>3, AddsTo
  <2>2. /\ Total(Residue, 0 .. n - 1) \in Int
        /\ Total(Residue, 0 .. n) = Residue[n] + Total(Residue, 0 .. n - 1)
    BY ResidueInt, TotalNext
  <2>3. n + 1 - 1 = n /\ Residue[n] = Remainder(n) /\ Residue[n] \in Int
    BY ResidueInt DEF Remainder
  <2>4. /\ Share(program, t, c, n) = IF c # 0 THEN 0 ELSE Total(Residue, 0 .. n - 1)
        /\ Share(program, t, c, n + 1) = IF c # 0 THEN 0 ELSE Total(Residue, 0 .. n + 1 - 1)
    BY <1>3 DEF Share, InTwo
  <2>. QED
    BY <2>1, <2>2, <2>3, <2>4
<1>. QED
  BY <1>1, <1>2, <1>3, Programs DEF Reading, InTwo

LEMMA ShareZero ==
    ASSUME program \in DOMAIN Covered, NEW t \in Thread, NEW c \in Thread
    PROVE  Share(program, t, c, 0) = 0
<1>1. Total(Residue, 0 .. 0 - 1) = 0
  <2>1. 0 .. 0 - 1 = {}
    OBVIOUS
  <2>. QED
    BY <2>1, TotalEmpty
<1>2. 0 * Own(program, t) = 0 /\ 0 * Next23(program, t) = 0
  BY AmountsInt
<1>3. CASE program \in InTwo
  BY <1>2, <1>3 DEF Share
<1>4. CASE program \notin InTwo
  BY <1>1, <1>4 DEF Share
<1>. QED
  BY <1>3, <1>4

(* A sum without its first number. *)
LEMMA TotalFirst ==
    ASSUME NEW f, NEW a \in Int, NEW b \in Int, a <= b, \A i \in a .. b : f[i] \in Int
    PROVE  /\ Total(f, a .. b) \in Int /\ Total(f, a + 1 .. b) \in Int
           /\ Total(f, a .. b) = f[a] + Total(f, a + 1 .. b)
<1>. DEFINE X == a .. b
<1>. DEFINE Y == a + 1 .. b
<1>1. IsFiniteSet(X) /\ a \in X /\ X \ {a} = Y
  BY FS_Interval
<1>2. Summable(f, X)
  BY <1>1 DEF Summable
<1>3. Summable(f, Y)
  BY <1>1, <1>2, FS_RemoveElement DEF Summable
<1>. HIDE DEF X, Y
<1>4. Total(f, X) \in Int /\ Total(f, X) = f[a] + Total(f, X \ {a})
  BY <1>1, <1>2, TotalTakes
<1>5. Total(f, Y) \in Int
  BY <1>3, TotalTakes
<1>. QED
  BY <1>1, <1>4, <1>5 DEF X, Y

(* The numbers that are left when one has been read. *)
LEMMA UnreadNext ==
    ASSUME NEW g \in Seq(Int), NEW s \in Seq(Int), s # <<>>, Len(s) <= Len(g),
           Head(s) = g[Len(g) - Len(s) + 1]
    PROVE  Unread(g, s) \in Int /\ Unread(g, Tail(s)) = Unread(g, s) - Head(s)
<1>. DEFINE m == Len(g) - Len(s) + 1
<1>. DEFINE n == Len(g)
<1>1. m \in Int /\ n \in Int /\ m <= n /\ Head(s) \in Int /\ Head(s) = g[m]
  OBVIOUS
<1>2. \A i \in m .. n : g[i] \in Int
  OBVIOUS
<1>3. n - Len(Tail(s)) + 1 = m + 1
  <2>1. Len(Tail(s)) = Len(s) - 1 /\ Len(s) \in Int
    OBVIOUS
  <2>. QED
    BY <1>1, <2>1
<1>4. Unread(g, s) = Total(g, m .. n) /\ Unread(g, Tail(s)) = Total(g, m + 1 .. n)
  BY <1>3 DEF Unread
<1>. HIDE DEF m, n
<1>5. /\ Total(g, m .. n) \in Int /\ Total(g, m + 1 .. n) \in Int
      /\ Total(g, m .. n) = g[m] + Total(g, m + 1 .. n)
  BY <1>1, <1>2, TotalFirst
<1>6. \A x, y \in Int : \A z \in Int : x = z + y => y = x - z
  OBVIOUS
<1>7. Total(g, m + 1 .. n) = Total(g, m .. n) - Head(s)
  BY <1>1, <1>5, <1>6
<1>. QED
  BY <1>4, <1>5, <1>7

LEMMA SumInt == ASSUME NEW f, DOMAIN f = Thread, \A t \in Thread : f[t] \in Int
                PROVE  SumFunction(f) \in Int
<1>1. Summable(f, Thread)
  BY ThreadsFinite DEF Summable
<1>2. Total(f, Thread) \in Int
  BY <1>1, TotalTakes
<1>. QED
  BY <1>2, SumIs

(* Where the sum of the numbers given is that of those not yet read, nothing has
   been. *)
LEMMA SumOfSeq == ASSUME NEW g \in Seq(Int)
                  PROVE  SumFunction(g) \in Int /\ Unread(g, g) = SumFunction(g) /\ Unread(g, <<>>) = 0
<1>1. DOMAIN g = 1 .. Len(g) /\ Len(g) \in Nat /\ \A i \in 1 .. Len(g) : g[i] \in Int
  OBVIOUS
<1>2. IsFiniteSet(1 .. Len(g))
  BY <1>1, FS_Interval
<1>3. Summable(g, 1 .. Len(g))
  BY <1>1, <1>2 DEF Summable
<1>4. Total(g, 1 .. Len(g)) \in Int
  BY <1>3, TotalTakes
<1>5. SumFunction(g) = Total(g, 1 .. Len(g))
  BY <1>1, SumIs
<1>6. Unread(g, g) = Total(g, 1 .. Len(g))
  <2>1. Len(g) - Len(g) + 1 = 1
    BY <1>1
  <2>. QED
    BY <2>1 DEF Unread
<1>7. Unread(g, <<>>) = 0
  <2>1. Len(g) - Len(<<>>) + 1 .. Len(g) = {}
    BY <1>1
  <2>. QED
    BY <2>1, TotalEmpty DEF Unread
<1>. QED
  BY <1>4, <1>5, <1>6, <1>7

LEMMA UnreadInt ==
    ASSUME NEW g \in Seq(Int), NEW s \in Seq(Int), Len(s) <= Len(g)
    PROVE  Unread(g, s) \in Int
<1>. DEFINE X == Len(g) - Len(s) + 1 .. Len(g)
<1>1. Len(g) - Len(s) + 1 \in 1 .. Len(g) + 1 /\ Len(g) \in Nat
  OBVIOUS
<1>2. IsFiniteSet(X)
  <2>1. Len(g) - Len(s) + 1 \in Int /\ Len(g) \in Int
    BY <1>1
  <2>. QED
    BY <2>1, FS_Interval
<1>3. \A i \in X : g[i] \in Int
  OBVIOUS
<1>4. Unread(g, s) = Total(g, X)
  BY DEF Unread
<1>. HIDE DEF X
<1>5. Summable(g, X)
  BY <1>2, <1>3 DEF Summable
<1>. QED
  BY <1>4, <1>5, TotalTakes

LEMMA LocksAndReads ==
    ASSUME program \in DOMAIN Covered
    PROVE  /\ Lock \in {"none", "iteration", "thread"}
           /\ Lock = "none" <=> program \in {"task21_3", "race_condition"}
           /\ Reads <=> program \in Reading
           /\ Reads => Lock = "none"
BY DEF Lock, Covered, Reads, Reading

(* What a thread has performed is a number, and nothing before its first iteration. *)
LEMMA PerformedInt ==
    ASSUME SumsInv, program \notin Reading, NEW c \in Thread, NEW t \in Thread
    PROVE  /\ Performed(program, count, todo, c)[t] \in Int
           /\ Share(program, t, c, count[t]) \in Int /\ LeftIn(todo[t], c) \in Int
<1>1. program \in DOMAIN Covered /\ count[t] \in Nat /\ todo[t] \in Seq(Thread \X Int) /\ Len(todo[t]) <= 2
  BY DEF SumsInv, SumsTypes, PlaceInv
<1>2. Share(program, t, c, count[t]) \in Int
  BY <1>1, ShareNext
<1>3. LeftIn(todo[t], c) \in Int
  BY <1>1, LeftInFacts
<1>. QED
  BY <1>2, <1>3 DEF Performed

LEMMA SumOfZeros == ASSUME NEW f, \A t \in Thread : f[t] = 0 PROVE Total(f, Thread) = 0
<1>1. Total(f, Thread) = Cardinality(Thread) * 0
  BY ThreadsFinite, SumConstant
<1>2. Cardinality(Thread) * 0 = 0
  BY ThreadsFinite, CountAssumption
<1>. QED
  BY <1>1, <1>2

LEMMA SumsStart == SumsInit => SumsInv
<1>. SUFFICES ASSUME SumsInit
              PROVE  SumsInv
  OBVIOUS
<1>1. SumsTypes
  <2>a. <<>> \in Seq(Int) /\ Stdin \subseteq Seq(Int) /\ Garbage \subseteq Int /\ 0 \in Int
    BY CountAssumption
  <2>1. given \in Seq(Int)
    <3>1. given \in Stdin \/ given = <<>>
      BY DEF SumsInit
    <3>. QED
      BY <2>a, <3>1
  <2>2. start \in [Thread -> Int]
    <3>. DEFINE values == IF program = "task23_1" THEN Garbage ELSE {0}
    <3>1. start \in [Thread -> values]
      BY Zenon DEF SumsInit
    <3>2. values \subseteq Int
      BY <2>a
    <3>. HIDE DEF values
    <3>. QED
      BY <3>1, <3>2
  <2>3. \A t \in Thread : << >> \in Seq(Thread \X Int)
    OBVIOUS
  <2>. QED
    BY <2>1, <2>2, <2>3, CountAssumption DEF SumsInit, SumsTypes
<1>2. InputInv
  BY <1>1 DEF SumsInit, InputInv, SumsTypes
<1>3. PlaceInv
  BY <1>1, CountAssumption, ThreadFacts DEF SumsInit, PlaceInv, SumsTypes, Busy
<1>4. LockInv
  BY DEF SumsInit, LockInv, Busy
<1>5. LoadInv
  BY DEF SumsInit, LoadInv
<1>6. StartInv
  BY <1>1 DEF StartInv, SumsInit, SumsTypes
<1>7. CellInv
  <2>. SUFFICES ASSUME NEW c \in Thread
                PROVE  cells[c] = start[c] + Total(Performed(program, count, todo, c), Thread)
    BY DEF CellInv
  <2>1. ASSUME NEW t \in Thread
        PROVE  Performed(program, count, todo, c)[t] = 0
    <3>1. count[t] = 0 /\ todo[t] = <<>>
      BY DEF SumsInit
    <3>2. Share(program, t, c, 0) = 0
      BY <1>1, ShareZero DEF SumsTypes
    <3>3. LeftIn(<<>>, c) = 0
      BY DEF LeftIn
    <3>. QED
      BY <3>1, <3>2, <3>3 DEF Performed
  <2>. HIDE DEF Performed
  <2>2. Total(Performed(program, count, todo, c), Thread) = 0
    BY <2>1, SumOfZeros
  <2>3. cells[c] = start[c] /\ start[c] \in Int
    BY <1>1 DEF SumsInit, SumsTypes
  <2>. QED
    BY <2>2, <2>3
<1>8. ReadInv
  <2>. SUFFICES ASSUME program = "task21_3"
                PROVE  /\ SumFunction(cells) + LeftAll(todo) + Unread(given, input) = SumFunction(given)
                       /\ total = Total(cells, 0 .. joined - 1)
    BY DEF ReadInv
  <2>1. LeftAll(todo) = 0
    <3>. DEFINE f == [t \in Thread |-> LeftOf(todo[t])]
    <3>1. \A t \in Thread : f[t] = 0
      BY DEF SumsInit, LeftOf
    <3>2. LeftAll(todo) = Total(f, Thread)
      BY DEF LeftAll
    <3>. HIDE DEF f
    <3>. QED
      BY <3>1, <3>2, SumOfZeros
  <2>2. SumFunction(cells) = 0
    <3>1. DOMAIN cells = Thread /\ \A t \in Thread : cells[t] = 0
      BY <1>6 DEF StartInv, SumsInit
    <3>. QED
      BY <3>1, SumOfZeros, SumIs
  <2>3. Unread(given, input) = SumFunction(given) /\ SumFunction(given) \in Int
    BY <1>1, SumOfSeq DEF SumsInit, SumsTypes
  <2>4. 0 .. 0 - 1 = {}
    OBVIOUS
  <2>5. Total(cells, 0 .. joined - 1) = 0
    BY <2>4, TotalEmpty DEF SumsInit
  <2>. QED
    BY <2>1, <2>2, <2>3, <2>5 DEF SumsInit
<1>. QED
  BY <1>1, <1>2, <1>3, <1>4, <1>5, <1>6, <1>7, <1>8 DEF SumsInv

LEMMA CreateKeepsSums ==
    ASSUME SumsInv, NEW t \in Thread, CreateThread(t)
    PROVE  SumsInv'
<1>1. /\ phase \in [Thread -> {"none", "idle", "load", "store", "ended"}]
      /\ phase[t] = "none" /\ phase' = [phase EXCEPT ![t] = "idle"]
      /\ UNCHANGED <<program, given, input, start, cells, count, todo, register, holder, joined, total>>
  BY DEF SumsInv, SumsTypes, CreateThread, Goto, mainstate
<1>2. SumsTypes'
  BY <1>1 DEF SumsInv, SumsTypes, Free
<1>3. \A u \in Thread : /\ phase'[u] = IF u = t THEN "idle" ELSE phase[u]
                        /\ Busy(u)' <=> Busy(u)
  BY <1>1 DEF Busy
<1>4. InputInv'
  BY <1>1 DEF SumsInv, InputInv
<1>5. PlaceInv'
  BY <1>1, <1>3 DEF SumsInv, PlaceInv, Reads
<1>6. LockInv'
  BY <1>1, <1>3 DEF SumsInv, LockInv, Lock
<1>7. LoadInv' /\ CellInv'
  BY <1>1, <1>3 DEF SumsInv, LoadInv, CellInv
<1>8. StartInv' /\ ReadInv'
  BY <1>1 DEF SumsInv, StartInv, ReadInv
<1>. QED
  BY <1>2, <1>4, <1>5, <1>6, <1>7, <1>8 DEF SumsInv

LEMMA FinishKeepsSums ==
    ASSUME SumsInv, NEW t \in Thread, Finish(t)
    PROVE  SumsInv'
<1>1. /\ phase \in [Thread -> {"none", "idle", "load", "store", "ended"}]
      /\ phase[t] = "idle" /\ phase' = [phase EXCEPT ![t] = "ended"]
      /\ IF Reads THEN input = <<>> ELSE count[t] = Iterations
      /\ holder' = IF holder = t THEN Free ELSE holder
      /\ UNCHANGED <<program, given, input, start, cells, count, todo, register, joined, total>>
  BY DEF SumsInv, SumsTypes, Finish, Goto, mainstate
<1>2. SumsTypes'
  BY <1>1 DEF SumsInv, SumsTypes, Free
<1>3. \A u \in Thread : /\ phase'[u] = IF u = t THEN "ended" ELSE phase[u]
                        /\ Busy(u)' <=> Busy(u)
                        /\ Busy(u) => u # t
  BY <1>1 DEF Busy
<1>4. InputInv'
  BY <1>1 DEF SumsInv, InputInv
<1>5. PlaceInv'
  BY <1>1, <1>3 DEF SumsInv, PlaceInv, Reads
<1>6. LockInv'
  BY <1>1, <1>3 DEF SumsInv, LockInv, Lock
<1>7. LoadInv' /\ CellInv'
  BY <1>1, <1>3 DEF SumsInv, LoadInv, CellInv
<1>8. StartInv' /\ ReadInv'
  BY <1>1 DEF SumsInv, StartInv, ReadInv
<1>. QED
  BY <1>2, <1>4, <1>5, <1>6, <1>7, <1>8 DEF SumsInv

LEMMA LoadKeepsSums ==
    ASSUME SumsInv, NEW t \in Thread, Load(t)
    PROVE  SumsInv'
<1>. DEFINE x == todo[t][1][1]
<1>1. /\ phase \in [Thread -> {"none", "idle", "load", "store", "ended"}]
      /\ register \in [Thread -> Int] /\ cells \in [Thread -> Int]
      /\ phase[t] = "load" /\ phase' = [phase EXCEPT ![t] = "store"]
      /\ register' = [register EXCEPT ![t] = cells[Head(todo[t])[1]]]
      /\ UNCHANGED <<program, given, input, start, cells, count, todo, holder, joined, total>>
  BY DEF SumsInv, SumsTypes, Load, Goto, mainstate
<1>2. x \in Thread /\ Head(todo[t])[1] = x /\ cells[x] \in Int
  <2>1. todo[t] \in Seq(Thread \X Int) /\ todo[t] # <<>> /\ Len(todo[t]) <= 2
    BY <1>1 DEF SumsInv, SumsTypes, PlaceInv, Busy
  <2>2. x \in Thread /\ Head(todo[t]) = todo[t][1]
    BY <2>1, LeftFacts
  <2>. HIDE DEF x
  <2>. QED
    BY <1>1, <2>2 DEF x
<1>3. \A u \in Thread : /\ phase'[u] = IF u = t THEN "store" ELSE phase[u]
                        /\ register'[u] = IF u = t THEN cells[x] ELSE register[u]
                        /\ Busy(u)' <=> Busy(u)
  BY <1>1, <1>2 DEF Busy
<1>4. SumsTypes'
  BY <1>1, <1>2 DEF SumsInv, SumsTypes, Free
<1>5. InputInv'
  BY <1>1 DEF SumsInv, InputInv
<1>6. PlaceInv'
  BY <1>1, <1>3 DEF SumsInv, PlaceInv, Reads
<1>7. LockInv'
  BY <1>1, <1>3 DEF SumsInv, LockInv, Lock
<1>8. LoadInv'
  BY <1>1, <1>3 DEF SumsInv, LoadInv
<1>9. CellInv' /\ StartInv' /\ ReadInv'
  BY <1>1 DEF SumsInv, CellInv, StartInv, ReadInv
<1>. QED
  BY <1>4, <1>5, <1>6, <1>7, <1>8, <1>9 DEF SumsInv

LEMMA IterateKeepsSums ==
    ASSUME SumsInv, NEW t \in Thread, Iterate(t)
    PROVE  SumsInv'
<1>0. program \in DOMAIN Covered /\ given \in Seq(Int) /\ input \in Seq(Int) /\ count \in [Thread -> Nat]
  BY DEF SumsInv, SumsTypes
<1>1. PICK v \in Int : /\ Begin(t, v)
                       /\ IF Reads THEN input # <<>> /\ v = Head(input) /\ input' = Tail(input)
                          ELSE count[t] < Iterations /\ v = count[t] /\ input' = input
  <2>1. CASE Reads
    <3>1. input # <<>> /\ Begin(t, Head(input)) /\ input' = Tail(input)
      BY <2>1 DEF Iterate
    <3>2. Head(input) \in Int
      BY <1>0, <3>1
    <3>. QED
      BY <2>1, <3>1, <3>2
  <2>2. CASE ~Reads
    <3>1. count[t] < Iterations /\ Begin(t, count[t]) /\ input' = input
      BY <2>2 DEF Iterate
    <3>2. count[t] \in Nat
      BY <1>0
    <3>. QED
      BY <2>2, <3>1, <3>2
  <2>. QED
    BY <2>1, <2>2
<1>. DEFINE q == Adds(t, v)
<1>2. /\ phase \in [Thread -> {"none", "idle", "load", "store", "ended"}]
      /\ todo \in [Thread -> Seq(Thread \X Int)] /\ cells \in [Thread -> Int]
      /\ phase[t] = "idle" /\ phase' = [phase EXCEPT ![t] = "load"]
      /\ todo' = [todo EXCEPT ![t] = q] /\ count' = [count EXCEPT ![t] = @ + 1]
      /\ UNCHANGED <<program, given, start, cells, register, joined, total>>
  BY <1>1 DEF SumsInv, SumsTypes, Begin, Goto, mainstate
<1>3. /\ q \in Seq(Thread \X Int) /\ q # <<>> /\ Len(q) <= 2
      /\ program = "task21_3" => Len(q) = 1 /\ q[1][1] = t /\ LeftOf(q) = v
  BY <1>0, AddsFacts
<1>4. /\ Lock = "iteration" => holder = Free
      /\ Lock = "thread" => holder \in {Free, t}
      /\ holder' = IF Lock = "none" THEN holder ELSE t
  BY <1>1 DEF Begin, Acquire
<1>. HIDE DEF q
<1>5. \A u \in Thread : /\ phase'[u] = IF u = t THEN "load" ELSE phase[u]
                        /\ todo'[u] = IF u = t THEN q ELSE todo[u]
                        /\ count'[u] = IF u = t THEN count[t] + 1 ELSE count[u]
                        /\ Busy(u)' <=> u = t \/ Busy(u)
  BY <1>0, <1>2 DEF Busy
<1>6. SumsTypes'
  <2>1. count' \in [Thread -> Nat]
    BY <1>0, <1>2
  <2>2. todo' \in [Thread -> Seq(Thread \X Int)]
    BY <1>2, <1>3
  <2>3. input' \in Seq(Int)
    <3>1. input # <<>> => Tail(input) \in Seq(Int)
      BY <1>0
    <3>2. (input # <<>> /\ input' = Tail(input)) \/ input' = input
      BY <1>1
    <3>. QED
      BY <1>0, <3>1, <3>2
  <2>4. holder' \in Thread \cup {Free}
    BY <1>4 DEF SumsInv, SumsTypes
  <2>5. phase' \in [Thread -> {"none", "idle", "load", "store", "ended"}]
    BY <1>2
  <2>6. Free' = Free
    BY DEF Free
  <2>. QED
    BY <1>2, <2>1, <2>2, <2>3, <2>4, <2>5, <2>6 DEF SumsInv, SumsTypes
<1>7. /\ Reads => /\ Len(input) <= Len(given) /\ input # <<>>
                  /\ Head(input) = given[Len(given) - Len(input) + 1]
      /\ InputInv'
  <2>1. /\ Len(input) <= Len(given)
        /\ \A i \in 1 .. Len(input) : input[i] = given[Len(given) - Len(input) + i]
    BY DEF SumsInv, InputInv
  <2>2. CASE Reads
    <3>1. input # <<>> /\ input' = Tail(input)
      BY <1>1, <2>2
    <3>2. /\ Len(Tail(input)) = Len(input) - 1 /\ Head(input) = input[1] /\ Len(input) \in Nat \ {0}
          /\ \A i \in 1 .. Len(Tail(input)) : Tail(input)[i] = input[i + 1]
      BY <1>0, <3>1
    <3>3. Len(given) \in Nat
      BY <1>0
    <3>4. ASSUME NEW i \in 1 .. Len(Tail(input))
          PROVE  Tail(input)[i] = given[Len(given) - Len(Tail(input)) + i]
      <4>1. Tail(input)[i] = input[i + 1] /\ i + 1 \in 1 .. Len(input)
        BY <3>2
      <4>2. Len(given) - Len(Tail(input)) + i = Len(given) - Len(input) + (i + 1)
        BY <3>2, <3>3
      <4>. QED
        BY <2>1, <4>1, <4>2
    <3>5. Head(input) = given[Len(given) - Len(input) + 1]
      BY <2>1, <3>2
    <3>6. Len(Tail(input)) <= Len(given)
      BY <2>1, <3>2, <3>3
    <3>. QED
      BY <1>2, <2>1, <3>1, <3>4, <3>5, <3>6 DEF InputInv
  <2>3. CASE ~Reads
    BY <1>1, <1>2, <2>1, <2>3 DEF InputInv
  <2>. QED
    BY <2>2, <2>3
<1>8. PlaceInv'
  <2>1. \A u \in Thread : PlaceInv => /\ (phase[u] = "ended" /\ u # t) =>
                                            IF Reads THEN input = <<>> ELSE count[u] = Iterations
    BY DEF PlaceInv
  <2>2. \A u \in Thread : Reads => phase[u] # "ended"
    BY <1>1 DEF SumsInv, PlaceInv
  <2>3. Reads' <=> Reads
    BY <1>2 DEF Reads
  <2>4. ~Reads => count[t] + 1 <= Iterations
    <3>1. count[t] \in Nat /\ Iterations \in Nat
      BY <1>0, CountAssumption
    <3>. QED
      BY <1>1, <3>1
  <2>. SUFFICES ASSUME NEW u \in Thread
                PROVE  /\ Busy(u)' <=> todo'[u] # <<>>
                       /\ Len(todo'[u]) <= 2
                       /\ ~Reads => count'[u] <= Iterations
                       /\ phase'[u] = "ended" => IF Reads THEN input' = <<>> ELSE count'[u] = Iterations
                       /\ program = "task21_3" /\ Busy(u)' => Len(todo'[u]) = 1 /\ todo'[u][1][1] = u
                       /\ u < joined => phase'[u] = "ended"
    BY <1>2, <2>3 DEF PlaceInv
  <2>5. CASE u = t
    <3>1. phase'[t] = "load" /\ Busy(t)' /\ todo'[t] = q /\ count'[t] = count[t] + 1
      BY <1>5
    <3>2. ~(t < joined)
      BY <1>2 DEF SumsInv, PlaceInv
    <3>. QED
      BY <1>3, <2>4, <2>5, <3>1, <3>2
  <2>6. CASE u # t
    <3>1. phase'[u] = phase[u] /\ (Busy(u)' <=> Busy(u)) /\ todo'[u] = todo[u] /\ count'[u] = count[u]
      BY <1>5, <2>6
    <3>. QED
      BY <2>2, <3>1 DEF SumsInv, PlaceInv
  <2>. QED
    BY <2>5, <2>6
<1>9. LockInv'
  <2>1. Lock' = Lock /\ Lock \in {"none", "iteration", "thread"}
    BY <1>0, <1>2, LocksAndReads DEF Lock
  <2>2. ASSUME Lock # "none", NEW u \in Thread, Busy(u)'
        PROVE  holder' = u
    <3>1. CASE u = t
      BY <1>4, <2>2, <3>1
    <3>2. CASE u # t
      <4>1. Busy(u) /\ holder = u
        BY <1>5, <2>2, <3>2 DEF SumsInv, LockInv
      <4>. QED
        BY <1>4, <2>1, <2>2, <3>2, <4>1, ThreadFacts
    <3>. QED
      BY <3>1, <3>2
  <2>. QED
    BY <2>1, <2>2 DEF LockInv
<1>e. todo[t] = <<>> /\ \A u \in Thread : Len(todo[u]) <= 2
  BY <1>2 DEF SumsInv, PlaceInv, Busy
<1>10. LoadInv'
  BY <1>2, <1>5 DEF SumsInv, LoadInv
<1>11. CellInv'
  <2>. SUFFICES ASSUME program \notin Reading, NEW c \in Thread
                PROVE  cells'[c] = start'[c] + Total(Performed(program, count', todo', c), Thread)
    BY <1>2 DEF CellInv
  <2>1. v = count[t] /\ count[t] \in Nat
    BY <1>0, <1>1, LocksAndReads
  <2>2. /\ Share(program, t, c, count[t]) \in Int
        /\ Share(program, t, c, count[t] + 1) = Share(program, t, c, count[t]) + LeftIn(q, c)
    BY <1>0, <2>1, ShareNext DEF q
  <2>3. LeftIn(q, c) \in Int
    BY <1>3, LeftInFacts
  <2>4. LeftIn(todo[t], c) = 0
    BY <1>e DEF LeftIn
  <2>5. ASSUME NEW u \in Thread
        PROVE  Performed(program, count', todo', c)[u] = Performed(program, count, todo, c)[u]
    <3>1. CASE u = t
      <4>1. Performed(program, count, todo, c)[u] = Share(program, t, c, count[t]) - 0
        BY <2>4, <3>1 DEF Performed
      <4>2. Performed(program, count', todo', c)[u] = Share(program, t, c, count[t] + 1) - LeftIn(q, c)
        BY <1>5, <3>1 DEF Performed
      <4>3. \A x, y \in Int : x + y - y = x - 0
        OBVIOUS
      <4>. QED
        BY <2>2, <2>3, <4>1, <4>2, <4>3
    <3>2. CASE u # t
      BY <1>5, <3>2 DEF Performed
    <3>. QED
      BY <3>1, <3>2
  <2>. DEFINE f == Performed(program, count, todo, c)
  <2>. DEFINE g == Performed(program, count', todo', c)
  <2>6. \A u \in Thread : f[u] \in Int /\ f[u] = g[u]
    BY <2>5, PerformedInt
  <2>7. cells[c] = start[c] + Total(f, Thread)
    BY DEF SumsInv, CellInv
  <2>. HIDE DEF f, g
  <2>8. Total(f, Thread) = Total(g, Thread)
    BY <2>6, ThreadsFinite, TotalAgrees
  <2>. QED
    BY <1>2, <2>7, <2>8 DEF g
<1>12. ReadInv'
  <2>. SUFFICES ASSUME program = "task21_3"
                PROVE  ReadInv'
    BY <1>2 DEF ReadInv
  <2>1. LeftAll(todo) \in Int /\ LeftAll(todo') = LeftAll(todo) + v
    <3>1. todo[t] = <<>> /\ \A u \in Thread : Len(todo[u]) <= 2
      BY <1>2 DEF SumsInv, PlaceInv, Busy
    <3>2. LeftOf(todo[t]) = 0
      BY <3>1 DEF LeftOf
    <3>3. /\ LeftAll(todo) \in Int
          /\ LeftAll(todo') = LeftAll(todo) - LeftOf(todo[t]) + LeftOf(q)
      <4>1. Puts(todo, todo', t, q) /\ Short(todo)
        BY <1>2, <1>5, <3>1 DEF Puts, Short
      <4>. QED
        BY <1>3, <4>1, LeftChanged
    <3>4. \A x, y \in Int : x - 0 + y = x + y
      OBVIOUS
    <3>. QED
      BY <1>3, <3>2, <3>3, <3>4
  <2>2. program \in Reading /\ v = Head(input) /\ input' = Tail(input) /\ Reads
    <3>1. program \in Reading
      BY DEF Reading
    <3>. QED
      BY <1>0, <1>1, <3>1, LocksAndReads
  <2>3. Unread(given, input) \in Int /\ Unread(given, input') = Unread(given, input) - v
    BY <1>0, <1>7, <2>2, UnreadNext
  <2>4. SumFunction(cells) \in Int
    BY <1>2, SumInt
  <2>5. \A s, l, x, w \in Int : s + (l + w) + (x - w) = s + l + x
    OBVIOUS
  <2>6. SumFunction(cells) + LeftAll(todo') + Unread(given, input') = SumFunction(cells) + LeftAll(todo) + Unread(given, input)
    BY <2>1, <2>3, <2>4, <2>5
  <2>. QED
    BY <1>2, <2>6 DEF SumsInv, ReadInv
<1>13. StartInv'
  BY <1>2 DEF SumsInv, StartInv
<1>. QED
  BY <1>6, <1>7, <1>8, <1>9, <1>10, <1>11, <1>12, <1>13 DEF SumsInv

LEMMA StoreKeepsSums ==
    ASSUME SumsInv, NEW t \in Thread, Store(t)
    PROVE  SumsInv'
<1>. DEFINE x == todo[t][1][1]
<1>. DEFINE a == todo[t][1][2]
<1>. DEFINE last == Len(todo[t]) = 1
<1>. DEFINE q == Tail(todo[t])
<1>0. /\ program \in DOMAIN Covered /\ cells \in [Thread -> Int] /\ register \in [Thread -> Int]
      /\ phase \in [Thread -> {"none", "idle", "load", "store", "ended"}]
      /\ todo \in [Thread -> Seq(Thread \X Int)] /\ holder \in Thread \cup {Free}
      /\ joined \in 0 .. ThreadCount
  BY DEF SumsInv, SumsTypes
<1>1. phase[t] = "store" /\ Busy(t) /\ todo[t] # <<>> /\ Len(todo[t]) <= 2
  BY DEF SumsInv, PlaceInv, Busy, Store, Goto
<1>2. /\ x \in Thread /\ a \in Int /\ Head(todo[t]) = todo[t][1]
      /\ q \in Seq(Thread \X Int) /\ Len(q) = Len(todo[t]) - 1 /\ Len(todo[t]) \in {1, 2}
      /\ q # <<>> <=> ~last
      /\ LeftOf(q) = LeftOf(todo[t]) - a /\ LeftOf(todo[t]) \in Int
  <2>1. todo[t] \in Seq(Thread \X Int)
    BY <1>0
  <2>. QED
    BY <1>1, <2>1, LeftFacts
<1>l. Len(q) <= 2
  <2>1. \A n \in {1, 2} : n - 1 <= 2
    OBVIOUS
  <2>. QED
    BY <1>2, <2>1
<1>3. /\ phase' = [phase EXCEPT ![t] = IF last THEN "idle" ELSE "load"]
      /\ cells' = [cells EXCEPT ![x] = register[t] + a]
      /\ todo' = [todo EXCEPT ![t] = q]
      /\ holder' = IF last /\ Lock = "iteration" THEN Free ELSE holder
      /\ UNCHANGED <<program, given, input, start, count, register, joined, total>>
  BY <1>2 DEF Store, Goto, mainstate
<1>. HIDE DEF x, a, last, q
<1>4. \A u \in Thread : /\ phase'[u] = IF u = t THEN (IF last THEN "idle" ELSE "load") ELSE phase[u]
                        /\ todo'[u] = IF u = t THEN q ELSE todo[u]
                        /\ cells'[u] = IF u = x THEN register[t] + a ELSE cells[u]
                        /\ Busy(u)' <=> Busy(u) /\ (u = t => ~last)
  BY <1>0, <1>1, <1>3 DEF Busy
<1>5. register[t] + a \in Int
  BY <1>0, <1>2
<1>6. SumsTypes'
  <2>1. cells' \in [Thread -> Int]
    BY <1>0, <1>3, <1>5
  <2>2. todo' \in [Thread -> Seq(Thread \X Int)]
    BY <1>0, <1>2, <1>3
  <2>3. holder' \in Thread \cup {Free}
    BY <1>0, <1>3
  <2>4. phase' \in [Thread -> {"none", "idle", "load", "store", "ended"}]
    BY <1>0, <1>3
  <2>. QED
    BY <1>3, <2>1, <2>2, <2>3, <2>4 DEF SumsInv, SumsTypes, Free
<1>7. InputInv'
  BY <1>3 DEF SumsInv, InputInv
<1>8. PlaceInv'
  <2>. SUFFICES ASSUME NEW u \in Thread
                PROVE  /\ Busy(u)' <=> todo'[u] # <<>>
                       /\ Len(todo'[u]) <= 2
                       /\ ~Reads => count[u] <= Iterations
                       /\ phase'[u] = "ended" => IF Reads THEN input = <<>> ELSE count[u] = Iterations
                       /\ program = "task21_3" /\ Busy(u)' => Len(todo'[u]) = 1 /\ todo'[u][1][1] = u
                       /\ u < joined => phase'[u] = "ended"
    BY <1>3 DEF PlaceInv, Reads
  <2>1. CASE u = t
    <3>1. todo'[t] = q /\ (Busy(t)' <=> ~last) /\ phase'[t] # "ended"
      BY <1>1, <1>4
    <3>2. ~(t < joined) /\ (~Reads => count[t] <= Iterations)
      BY <1>1 DEF SumsInv, PlaceInv
    <3>3. program = "task21_3" => last
      BY <1>1 DEF SumsInv, PlaceInv, last
    <3>. QED
      BY <1>2, <1>l, <2>1, <3>1, <3>2, <3>3
  <2>2. CASE u # t
    <3>1. phase'[u] = phase[u] /\ (Busy(u)' <=> Busy(u)) /\ todo'[u] = todo[u]
      BY <1>4, <2>2
    <3>. QED
      BY <3>1 DEF SumsInv, PlaceInv
  <2>. QED
    BY <2>1, <2>2
<1>9. LockInv'
  <2>1. Lock' = Lock
    BY <1>3 DEF Lock
  <2>2. ASSUME Lock # "none", NEW u \in Thread, Busy(u)'
        PROVE  holder' = u
    <3>1. Busy(u) /\ (u = t => ~last)
      BY <1>4, <2>2
    <3>2. holder = u /\ holder = t
      BY <1>1, <2>2, <3>1 DEF SumsInv, LockInv
    <3>. QED
      BY <1>3, <3>1, <3>2
  <2>. QED
    BY <2>1, <2>2 DEF LockInv
<1>10. LeftAll(todo) \in Int /\ LeftAll(todo') = LeftAll(todo) - a
  <2>1. Puts(todo, todo', t, q) /\ Short(todo)
    BY <1>0, <1>4 DEF Puts, Short, SumsInv, PlaceInv
  <2>2. /\ LeftAll(todo) \in Int
        /\ LeftAll(todo') = LeftAll(todo) - LeftOf(todo[t]) + LeftOf(q)
    BY <1>2, <1>l, <2>1, LeftChanged
  <2>3. \A y, z, b \in Int : y - z + (z - b) = y - b
    OBVIOUS
  <2>. QED
    BY <1>2, <2>2, <2>3
<1>11. /\ SumFunction(cells) \in Int /\ SumFunction(cells') = SumFunction(cells) - cells[x] + (register[t] + a)
       /\ cells[x] \in Int /\ register[t] \in Int
  <2>1. PICK w \in Int : w = register[t] + a
    BY <1>5
  <2>2. /\ cells \in [Thread -> Int] /\ x \in Thread /\ DOMAIN cells' = Thread
        /\ Puts(cells, cells', x, w)
    BY <1>0, <1>2, <1>3, <1>4, <2>1 DEF Puts
  <2>3. SumFunction(cells) \in Int /\ SumFunction(cells') = SumFunction(cells) - cells[x] + w
    BY <2>2, CellChanged
  <2>4. cells[x] \in Int /\ register[t] \in Int
    BY <1>0, <1>2
  <2>. QED
    BY <2>1, <2>3, <2>4
<1>12. LoadInv'
  <2>. SUFFICES ASSUME program # "race_condition", NEW u \in Thread, phase'[u] = "store"
                PROVE  register[u] = cells'[todo'[u][1][1]]
    BY <1>3 DEF LoadInv
  <2>1. u # t /\ phase[u] = "store" /\ todo'[u] = todo[u] /\ Busy(u)
    BY <1>4 DEF Busy
  <2>2. Lock = "none"
    BY <1>1, <2>1 DEF SumsInv, LockInv
  <2>3. program = "task21_3"
    BY <1>0, <2>2, LocksAndReads
  <2>4. todo[u][1][1] = u /\ x = t
    BY <1>1, <2>1, <2>3 DEF SumsInv, PlaceInv, x
  <2>. QED
    BY <1>4, <2>1, <2>4 DEF SumsInv, LoadInv
<1>13. program # "race_condition" => register[t] = cells[x]
  BY <1>1 DEF SumsInv, LoadInv, x
<1>14. CellInv'
  <2>. SUFFICES ASSUME program \notin Reading, NEW c \in Thread
                PROVE  cells'[c] = start'[c] + Total(Performed(program, count', todo', c), Thread)
    BY <1>3 DEF CellInv
  <2>. DEFINE f == Performed(program, count, todo, c)
  <2>. DEFINE g == Performed(program, count', todo', c)
  <2>. DEFINE w == IF x = c THEN a ELSE 0
  <2>1. LeftIn(q, c) = LeftIn(todo[t], c) - w
    <3>1. todo[t] \in Seq(Thread \X Int)
      BY <1>0
    <3>2. LeftIn(Tail(todo[t]), c) = LeftIn(todo[t], c) - UpdateOf(todo[t][1], c)
      BY <1>1, <3>1, LeftInFacts
    <3>. QED
      BY <3>2 DEF UpdateOf, q, x, a
  <2>2. w \in Int
    BY <1>2
  <2>3. \A u \in Thread : f[u] \in Int
    BY PerformedInt
  <2>4. g[t] = f[t] + w
    <3>1. Share(program, t, c, count[t]) \in Int /\ LeftIn(todo[t], c) \in Int
      BY PerformedInt
    <3>2. f[t] = Share(program, t, c, count[t]) - LeftIn(todo[t], c)
      BY DEF Performed
    <3>3. g[t] = Share(program, t, c, count[t]) - LeftIn(q, c)
      BY <1>3, <1>4 DEF Performed
    <3>4. \A s, y, z \in Int : s - (y - z) = s - y + z
      OBVIOUS
    <3>. HIDE DEF w, f, g
    <3>. QED
      BY <2>1, <2>2, <3>1, <3>2, <3>3, <3>4
  <2>5. \A u \in Thread : u # t => g[u] = f[u]
    BY <1>3, <1>4 DEF Performed
  <2>6. cells[c] = start[c] + Total(f, Thread)
    BY DEF SumsInv, CellInv
  <2>7. cells'[c] = cells[c] + w
    <3>1. program # "race_condition"
      BY DEF Reading
    <3>2. register[t] = cells[x] /\ cells[c] \in Int /\ cells[c] + 0 = cells[c]
      BY <1>0, <1>13, <3>1
    <3>. QED
      BY <1>4, <3>2
  <2>8. start[c] \in Int
    BY DEF SumsInv, SumsTypes
  <2>. HIDE DEF f, g, w
  <2>9. OneChanges(f, g, Thread, t)
    BY <2>2, <2>3, <2>4, <2>5 DEF OneChanges
  <2>10. Total(f, Thread) \in Int /\ Total(g, Thread) = Total(f, Thread) - f[t] + g[t]
    BY <2>9, ThreadsFinite, SumChanged
  <2>11. \A s, y, z, b \in Int : s + y + z = s + (y - b + (b + z))
    OBVIOUS
  <2>12. cells'[c] = start[c] + Total(g, Thread)
    BY <2>2, <2>3, <2>4, <2>6, <2>7, <2>8, <2>10, <2>11
  <2>. QED
    BY <1>3, <2>12 DEF g
<1>15. ReadInv'
  <2>. SUFFICES ASSUME program = "task21_3"
                PROVE  ReadInv'
    BY <1>3 DEF ReadInv
  <2>1. x = t /\ ~(t < joined)
    BY <1>1 DEF SumsInv, PlaceInv, x
  <2>2. SumFunction(cells') + LeftAll(todo') = SumFunction(cells) + LeftAll(todo)
    <3>1. \A s, c, b, l \in Int : s - c + (c + b) + (l - b) = s + l
      OBVIOUS
    <3>. QED
      BY <1>2, <1>10, <1>11, <1>13, <3>1
  <2>3. joined \in Nat /\ IsFiniteSet(0 .. joined - 1)
    BY <1>0, CountAssumption, UpTo
  <2>4. \A u \in 0 .. joined - 1 : u \in Thread /\ u < joined
    BY <1>0, CountAssumption DEF Thread
  <2>5. \A u \in 0 .. joined - 1 : cells[u] \in Int /\ cells[u] = cells'[u]
    BY <1>0, <1>4, <2>1, <2>4
  <2>6. Total(cells, 0 .. joined - 1) = Total(cells', 0 .. joined - 1)
    BY <2>3, <2>5, TotalAgrees
  <2>. QED
    BY <1>3, <2>2, <2>6 DEF SumsInv, ReadInv
<1>16. StartInv'
  BY <1>3 DEF SumsInv, StartInv
<1>. QED
  BY <1>6, <1>7, <1>8, <1>9, <1>12, <1>14, <1>15, <1>16 DEF SumsInv

LEMMA JoinKeepsSums ==
    ASSUME SumsInv, NEW t \in Thread, Join(t)
    PROVE  SumsInv'
<1>0. /\ cells \in [Thread -> Int] /\ joined \in 0 .. ThreadCount /\ total \in Int
      /\ ThreadCount \in Nat \ {0}
  BY CountAssumption DEF SumsInv, SumsTypes
<1>1. /\ phase[t] = "ended" /\ joined = t /\ joined' = t + 1
      /\ total' = IF program = "task21_3" THEN total + cells[t] ELSE total
      /\ UNCHANGED <<program, given, input, start, cells, phase, count, todo, register, holder>>
  BY DEF Join, state
<1>2. t \in Nat /\ t + 1 \in 0 .. ThreadCount
  BY <1>0 DEF Thread
<1>3. cells[t] \in Int
  BY <1>0
<1>4. SumsTypes'
  <2>1. total' \in Int
    BY <1>0, <1>1, <1>3
  <2>. QED
    BY <1>1, <1>2, <2>1 DEF SumsInv, SumsTypes, Free
<1>5. InputInv' /\ LockInv' /\ LoadInv' /\ CellInv' /\ StartInv'
  BY <1>1 DEF SumsInv, InputInv, LockInv, Lock, Busy, LoadInv, CellInv, StartInv
<1>6. PlaceInv'
  <2>1. ASSUME NEW u \in Thread, u < t + 1
        PROVE  phase[u] = "ended"
    <3>1. u \in Nat
      BY ThreadFacts
    <3>2. u = t \/ u < t
      BY <1>2, <2>1, <3>1
    <3>. QED
      BY <1>1, <3>2 DEF SumsInv, PlaceInv
  <2>. QED
    BY <1>1, <2>1 DEF SumsInv, PlaceInv, Busy, Reads
<1>7. ReadInv'
  <2>1. CASE program = "task21_3"
    <3>1. \A i \in 0 .. t : cells[i] \in Int
      BY <1>0, <1>2 DEF Thread
    <3>2. /\ Total(cells, 0 .. t - 1) \in Int
          /\ Total(cells, 0 .. t) = cells[t] + Total(cells, 0 .. t - 1)
      BY <1>2, <3>1, TotalNext
    <3>3. total = Total(cells, 0 .. t - 1)
      BY <1>1, <2>1 DEF SumsInv, ReadInv
    <3>4. Total(cells, 0 .. joined' - 1) = Total(cells, 0 .. t)
      <4>1. joined' - 1 = t
        <5>1. joined' = t + 1 /\ t \in Nat
          BY <1>1, <1>2
        <5>. QED
          BY <5>1
      <4>. QED
        BY <4>1
    <3>5. total' = Total(cells, 0 .. t - 1) + cells[t]
      BY <1>1, <2>1, <3>3
    <3>6. total' = Total(cells, 0 .. joined' - 1)
      BY <1>3, <3>2, <3>4, <3>5
    <3>. QED
      BY <1>1, <2>1, <3>6 DEF SumsInv, ReadInv
  <2>. QED
    BY <1>1, <2>1 DEF ReadInv
<1>. QED
  BY <1>4, <1>5, <1>6, <1>7 DEF SumsInv

LEMMA SumsStep == SumsInv /\ [SumsNext]_sumsvars => SumsInv'
<1>. SUFFICES ASSUME SumsInv, [SumsNext]_sumsvars
              PROVE  SumsInv'
  OBVIOUS
<1>1. ASSUME NEW t \in Thread, \/ CreateThread(t) \/ Iterate(t) \/ Load(t) \/ Store(t)
                                \/ Finish(t) \/ Join(t)
      PROVE  SumsInv'
  BY <1>1, CreateKeepsSums, IterateKeepsSums, LoadKeepsSums, StoreKeepsSums, FinishKeepsSums, JoinKeepsSums
<1>2. CASE UNCHANGED sumsvars
  BY <1>2 DEF sumsvars, state, mainstate, SumsInv, SumsTypes, InputInv, PlaceInv, LockInv, Lock, Reads,
              Busy, LoadInv, CellInv, ReadInv, StartInv, Free
<1>. QED
  BY <1>1, <1>2 DEF SumsNext, Done

(* For any number of threads and iterations, any divisor and any numbers on stdin:
   no `+=` works on a stale number but race_condition's, a cell holds what each
   thread has added to it so far, and task21_3's sums, what is being added and the
   numbers not read add up to those given (task22_1.c:20-35, task21_3.c:16-29). *)
THEOREM SumsInvariant == SumsSpec => []SumsInv
BY SumsStart, SumsStep, PTL DEF SumsSpec

(* At the end nothing is left to add and all the threads have done all. *)
LEMMA SumsAtTheEnd ==
    ASSUME SumsInv, joined = ThreadCount
    PROVE  /\ \A t \in Thread : todo[t] = <<>>
           /\ Reads => input = <<>>
           /\ ~Reads => \A t \in Thread : count[t] = Iterations
<1>1. \A t \in Thread : phase[t] = "ended" /\ todo[t] = <<>>
  <2>1. \A t \in Thread : t < joined
    BY CountAssumption DEF Thread
  <2>. QED
    BY <2>1 DEF SumsInv, PlaceInv, Busy
<1>2. Reads => input = <<>>
  BY <1>1, ThreadFacts DEF SumsInv, PlaceInv
<1>3. ~Reads => \A t \in Thread : count[t] = Iterations
  BY <1>1 DEF SumsInv, PlaceInv
<1>. QED
  BY <1>1, <1>2, <1>3

(* The sum of the residues is written with one function or the other. *)
LEMMA Residues ==
    /\ SumFunction([i \in 0 .. Iterations - 1 |-> i % Magic]) = Total(Residue, 0 .. Iterations - 1)
    /\ Total(Residue, 0 .. Iterations - 1) \in Int
<1>. DEFINE X == 0 .. Iterations - 1
<1>. DEFINE f == [i \in X |-> i % Magic]
<1>0. IsFiniteSet(X) /\ X \subseteq Nat
  BY CountAssumption, UpTo
<1>1. \A i \in X : f[i] \in Int /\ f[i] = Residue[i]
  BY <1>0, ResidueInt
<1>2. DOMAIN f = X
  OBVIOUS
<1>. HIDE DEF f, X
<1>3. Total(f, X) = Total(Residue, X)
  BY <1>0, <1>1, TotalAgrees
<1>4. Summable(Residue, X)
  BY <1>0, <1>1 DEF Summable
<1>5. Total(Residue, X) \in Int
  BY <1>4, TotalTakes
<1>6. SumFunction(f) = Total(f, X)
  BY <1>2, SumIs
<1>. QED
  BY <1>3, <1>5, <1>6 DEF f, X

(* The thread whose updates go to cell c too is the one before. *)
LEMMA PrecedingIs ==
    ASSUME NEW c \in Thread
    PROVE  /\ Preceding(c) \in Thread
           /\ \A t \in Thread : c = Following(t) <=> t = Preceding(c)
<1>1. ThreadCount \in Nat \ {0}
  BY CountAssumption
<1>2. ASSUME NEW t \in Thread
      PROVE  Following(t) = IF t = ThreadCount - 1 THEN 0 ELSE t + 1
  <2>1. CASE t = ThreadCount - 1
    <3>1. (ThreadCount * 1 + 0) % ThreadCount = 0
      BY <1>1, ResidueUnique
    <3>2. t + 1 = ThreadCount * 1 + 0
      BY <1>1, <2>1
    <3>. QED
      BY <2>1, <3>1, <3>2 DEF Following
  <2>2. CASE t # ThreadCount - 1
    <3>1. t + 1 \in 0 .. ThreadCount - 1
      BY <1>1, <2>2 DEF Thread
    <3>2. (ThreadCount * 0 + (t + 1)) % ThreadCount = t + 1
      BY <1>1, <3>1, ResidueUnique
    <3>3. t + 1 = ThreadCount * 0 + (t + 1)
      BY <1>1, <3>1
    <3>. QED
      BY <2>2, <3>2, <3>3 DEF Following
  <2>. QED
    BY <2>1, <2>2
<1>3. Preceding(c) \in Thread
  BY <1>1 DEF Preceding, Thread
<1>4. ASSUME NEW t \in Thread
      PROVE  c = (IF t = ThreadCount - 1 THEN 0 ELSE t + 1) <=> t = Preceding(c)
  BY <1>1 DEF Preceding, Thread
<1>. QED
  BY <1>2, <1>3, <1>4

(* A sum with one number in it, and with two. *)
Only(f, X, x) == \A y \in X : y # x => f[y] = 0

LEMMA SumOfOne ==
    ASSUME NEW X, IsFiniteSet(X), NEW f, NEW x \in X, f[x] \in Int, Only(f, X, x)
    PROVE  Total(f, X) = f[x]
<1>1. \A y \in X : f[y] \in Int
  BY DEF Only
<1>2. Summable(f, X)
  BY <1>1 DEF Summable
<1>3. Total(f, X) = f[x] + Total(f, X \ {x})
  BY <1>2, TotalTakes
<1>4. IsFiniteSet(X \ {x}) /\ Cardinality(X \ {x}) \in Nat
  BY FS_RemoveElement, FS_CardinalityType
<1>5. \A y \in X \ {x} : f[y] = 0
  BY DEF Only
<1>6. Total(f, X \ {x}) = Cardinality(X \ {x}) * 0
  BY <1>4, <1>5, SumConstant
<1>. QED
  BY <1>3, <1>4, <1>6

LEMMA SumOfTwo ==
    ASSUME NEW f, NEW x \in Thread, NEW y \in Thread, x # y, f[x] \in Int, f[y] \in Int,
           Only(f, Thread \ {x}, y)
    PROVE  Total(f, Thread) = f[x] + f[y]
<1>1. \A t \in Thread : f[t] \in Int
  BY DEF Only
<1>2. Summable(f, Thread)
  BY <1>1, ThreadsFinite DEF Summable
<1>3. Total(f, Thread) = f[x] + Total(f, Thread \ {x})
  BY <1>2, TotalTakes
<1>4. IsFiniteSet(Thread \ {x}) /\ y \in Thread \ {x}
  BY ThreadsFinite, FS_RemoveElement
<1>5. Total(f, Thread \ {x}) = f[y]
  BY <1>4, SumOfOne
<1>. QED
  BY <1>3, <1>5

(* What all threads together have added to a cell. *)
LEMMA InOneSum ==
    ASSUME program \in DOMAIN Covered, program \notin Reading, program \notin InTwo, NEW c \in Thread,
           NEW f, \A t \in Thread : f[t] = Share(program, t, c, Iterations)
    PROVE  Total(f, Thread) = IF c # 0 THEN 0
                              ELSE ThreadCount * (IF program = "main" THEN Iterations
                                                  ELSE Total(Residue, 0 .. Iterations - 1))
<1>1. CASE c # 0
  <2>1. \A t \in Thread : f[t] = 0
    BY <1>1 DEF Share
  <2>. QED
    BY <1>1, <2>1, SumOfZeros
<1>2. CASE c = 0
  <2>1. PICK w \in Int : w = IF program = "main" THEN Iterations ELSE Total(Residue, 0 .. Iterations - 1)
    BY CountAssumption, Residues
  <2>2. \A t \in Thread : f[t] = w
    BY <1>2, <2>1 DEF Share
  <2>3. Total(f, Thread) = Cardinality(Thread) * w
    BY <2>2, ThreadsFinite, SumConstant
  <2>. QED
    BY <1>2, <2>1, <2>3, ThreadsFinite
<1>. QED
  BY <1>1, <1>2

LEMMA InTwoSum ==
    ASSUME program \in InTwo, NEW c \in Thread,
           NEW f, \A t \in Thread : f[t] = Share(program, t, c, Iterations)
    PROVE  Total(f, Thread) = Iterations * Own(program, c) + Iterations * Next23(program, Preceding(c))
<1>0. Preceding(c) \in Thread
  BY PrecedingIs
<1>1. PICK x \in Int : x = Iterations * Own(program, c)
  BY AmountsInt, CountAssumption
<1>2. PICK y \in Int : y = Iterations * Next23(program, Preceding(c))
  BY <1>0, AmountsInt, CountAssumption
<1>3. \A t \in Thread : f[t] = (IF c = t THEN x ELSE 0) + (IF t = Preceding(c) THEN y ELSE 0)
  <2>1. ASSUME NEW t \in Thread
        PROVE  f[t] = (IF c = t THEN x ELSE 0) + (IF t = Preceding(c) THEN y ELSE 0)
    <3>1. f[t] = (IF c = t THEN Iterations * Own(program, t) ELSE 0)
                 + (IF c = Following(t) THEN Iterations * Next23(program, t) ELSE 0)
      BY DEF Share
    <3>2. c = Following(t) <=> t = Preceding(c)
      BY PrecedingIs
    <3>3. (IF c = t THEN Iterations * Own(program, t) ELSE 0) = IF c = t THEN x ELSE 0
      BY <1>1
    <3>4. (IF c = Following(t) THEN Iterations * Next23(program, t) ELSE 0) = IF t = Preceding(c) THEN y ELSE 0
      BY <1>2, <3>2
    <3>. QED
      BY <3>1, <3>3, <3>4
  <2>. QED
    BY <2>1
<1>4. CASE Preceding(c) = c
  <2>1. f[c] = x + y
    BY <1>3, <1>4
  <2>2. Only(f, Thread, c) /\ f[c] \in Int
    BY <1>3, <1>4, <2>1 DEF Only
  <2>3. Total(f, Thread) = f[c]
    BY <2>2, ThreadsFinite, SumOfOne
  <2>. QED
    BY <1>1, <1>2, <2>1, <2>3
<1>5. CASE Preceding(c) # c
  <2>1. f[c] = x /\ f[Preceding(c)] = y
    BY <1>0, <1>3, <1>5
  <2>2. Only(f, Thread \ {c}, Preceding(c))
    BY <1>3 DEF Only
  <2>3. Total(f, Thread) = f[c] + f[Preceding(c)]
    <3>1. PICK d \in Thread : d = Preceding(c)
      BY <1>0
    <3>. QED
      BY <1>5, <2>1, <2>2, <3>1, SumOfTwo
  <2>. QED
    BY <1>1, <1>2, <2>1, <2>3
<1>. QED
  BY <1>4, <1>5

LEMMA SumsAreRight == SumsInv => SumsExact
<1>. SUFFICES ASSUME SumsInv, joined = ThreadCount
              PROVE  /\ ~Reads => \A c \in Thread : cells[c] = Expected(c)
                     /\ program = "task21_3" => total = SumFunction(given)
  BY DEF SumsExact
<1>0. /\ program \in DOMAIN Covered /\ given \in Seq(Int) /\ cells \in [Thread -> Int]
      /\ start \in [Thread -> Int] /\ ThreadCount \in Nat /\ Iterations \in Nat
  BY CountAssumption DEF SumsInv, SumsTypes
<1>1. program = "task21_3" => total = SumFunction(given)
  <2>. SUFFICES ASSUME program = "task21_3"
                PROVE  total = SumFunction(given)
    OBVIOUS
  <2>1. LeftAll(todo) = 0
    <3>. DEFINE f == [t \in Thread |-> LeftOf(todo[t])]
    <3>1. \A t \in Thread : f[t] = 0
      BY SumsAtTheEnd DEF LeftOf
    <3>2. LeftAll(todo) = Total(f, Thread)
      BY DEF LeftAll
    <3>. HIDE DEF f
    <3>. QED
      BY <3>1, <3>2, SumOfZeros
  <2>2. Unread(given, input) = 0
    <3>1. program \in Reading
      BY DEF Reading
    <3>2. input = <<>>
      BY <1>0, <3>1, LocksAndReads, SumsAtTheEnd
    <3>. QED
      BY <1>0, <3>2, SumOfSeq
  <2>3. SumFunction(cells) \in Int /\ SumFunction(cells) = Total(cells, 0 .. ThreadCount - 1)
    BY <1>0, SumInt, SumIs DEF Thread
  <2>. QED
    BY <2>1, <2>2, <2>3 DEF SumsInv, ReadInv
<1>2. ASSUME ~Reads, NEW c \in Thread
      PROVE  cells[c] = Expected(c)
  <2>0. program \notin Reading
    BY <1>0, <1>2, LocksAndReads
  <2>. DEFINE f == Performed(program, count, todo, c)
  <2>1. cells[c] = start[c] + Total(f, Thread) /\ start[c] \in Int
    BY <1>0, <2>0 DEF SumsInv, CellInv
  <2>2. ASSUME NEW t \in Thread
        PROVE  f[t] = Share(program, t, c, Iterations)
    <3>1. todo[t] = <<>> /\ count[t] = Iterations
      BY <1>2, SumsAtTheEnd
    <3>2. f[t] = Share(program, t, c, Iterations) - 0
      BY <3>1 DEF Performed, LeftIn
    <3>3. Share(program, t, c, Iterations) \in Int
      BY <1>0, <2>0, ShareNext
    <3>. QED
      BY <3>2, <3>3
  <2>. HIDE DEF f
  <2>3. program # "task23_1" => start[c] = 0
    BY DEF SumsInv, StartInv
  <2>4. CASE program \notin InTwo
    <3>1. Total(f, Thread) = IF c # 0 THEN 0
                             ELSE ThreadCount * (IF program = "main" THEN Iterations
                                                 ELSE Total(Residue, 0 .. Iterations - 1))
      BY <1>0, <2>0, <2>2, <2>4, InOneSum
    <3>2. start[c] = 0
      BY <2>3, <2>4 DEF InTwo
    <3>3. CASE program = "main"
      <4>1. Expected(c) = IF c = 0 THEN ThreadCount * Iterations ELSE 0
        BY <3>3 DEF Expected
      <4>2. ThreadCount * Iterations \in Int
        BY <1>0
      <4>. QED
        BY <2>1, <3>1, <3>2, <3>3, <4>1, <4>2
    <3>4. CASE program \in {"mutex_simple", "spinlock_simple"}
      <4>1. Expected(c) = IF c = 0 THEN ThreadCount * SumFunction([i \in 0 .. Iterations - 1 |-> i % Magic]) ELSE 0
        BY <3>4 DEF Expected
      <4>2. Expected(c) = IF c = 0 THEN ThreadCount * Total(Residue, 0 .. Iterations - 1) ELSE 0
        BY <4>1, Residues
      <4>3. ThreadCount * Total(Residue, 0 .. Iterations - 1) \in Int
        BY <1>0, Residues
      <4>. QED
        BY <2>1, <3>1, <3>2, <3>4, <4>2, <4>3
    <3>. QED
      BY <1>0, <2>0, <2>4, <3>3, <3>4, Programs DEF Reading, InTwo
  <2>5. CASE program \in InTwo
    <3>1. Total(f, Thread) = Iterations * Own(program, c) + Iterations * Next23(program, Preceding(c))
      BY <2>2, <2>5, InTwoSum
    <3>2. c \in Nat /\ Preceding(c) \in Nat
      BY PrecedingIs, ThreadFacts
    <3>n. \A n \in Nat : \A z \in Int : n * (-z) = -(n * z) /\ n * z \in Int
      OBVIOUS
    <3>3. CASE program = "task22_1"
      <4>. DEFINE x == (c + 1) * 100
      <4>. DEFINE y == (Preceding(c) + 1) * 100 + 1
      <4>1. Own(program, c) = x /\ Next23(program, Preceding(c)) = -y
        BY <3>3 DEF Own, Next23
      <4>2. Expected(c) = Iterations * x - Iterations * y
        BY <3>3, Zenon DEF Expected
      <4>3. start[c] = 0
        BY <2>3, <3>3
      <4>4. x \in Int /\ y \in Int
        BY <3>2
      <4>. HIDE DEF x, y
      <4>5. /\ Iterations * (-y) = -(Iterations * y) /\ Iterations * x \in Int /\ Iterations * y \in Int
        BY <1>0, <3>n, <4>4
      <4>6. \A a, b \in Int : 0 + (a + (-b)) = a - b
        OBVIOUS
      <4>. QED
        BY <2>1, <3>1, <4>1, <4>2, <4>3, <4>5, <4>6
    <3>4. CASE program = "task23_1"
      <4>. DEFINE x == 80 + c * 20
      <4>. DEFINE y == 80 + Preceding(c) * 20 + 10
      <4>1. Own(program, c) = x /\ Next23(program, Preceding(c)) = -y
        BY <3>4 DEF Own, Next23
      <4>2. Expected(c) = start[c] + Iterations * x - Iterations * y
        BY <3>4, Zenon DEF Expected
      <4>4. x \in Int /\ y \in Int
        BY <3>2
      <4>. HIDE DEF x, y
      <4>5. /\ Iterations * (-y) = -(Iterations * y) /\ Iterations * x \in Int /\ Iterations * y \in Int
        BY <1>0, <3>n, <4>4
      <4>6. \A s, a, b \in Int : s + (a + (-b)) = s + a - b
        OBVIOUS
      <4>. QED
        BY <2>1, <3>1, <4>1, <4>2, <4>5, <4>6
    <3>. QED
      BY <2>5, <3>3, <3>4 DEF InTwo
  <2>. QED
    BY <2>4, <2>5
<1>. QED
  BY <1>1, <1>2

(* Once all are joined every cell holds exactly what its threads were to add, and
   task21_3's total is the sum of the numbers given (task22_1.c:20-35, 57-59,
   task21_3.c:25-29, 54-61). *)
THEOREM SumsAreExact == SumsSpec => []SumsExact
BY SumsInvariant, SumsAreRight, PTL

(***************************************************************************)
(* What is read of a counter (EventSamples).                               *)
(***************************************************************************)

Samples == {"timefd20", "timefd21", "semaphore20", "semaphore21", "poll", "select", "epoll20", "epoll21"}

EventTypes == /\ sample \in Samples
              /\ value \in Nat /\ put \in Nat
              /\ edge \in BOOLEAN
              /\ doing \in {"sleep", "read", "wait", "drain", "ended"}
              /\ got \in Seq(Nat)

(* Nothing is lost between the object and the reads. *)
Accounted == SumFunction(got) + value = put

(* A timer that is read for the first time has run for two seconds; nothing else
   expires. *)
FirstRead == /\ doing = "sleep" => S.expires /\ got = <<>>
             /\ S.expires /\ doing # "sleep" /\ got = <<>> => value >= S.due
             /\ S.expires /\ got # <<>> => got[1] >= S.due

(* The loop of sem21 waits for another change only when it has taken all. *)
Drained == sample = "epoll21" => /\ doing \in {"wait", "drain"}
                                 /\ doing = "wait" /\ ~edge => value = 0

EventsInv == EventTypes /\ Accounted /\ FirstRead /\ Drained

-----------------------------------------------------------------------------
LEMMA SampleFacts ==
    ASSUME sample \in Samples
    PROVE  /\ S.start \in Nat /\ S.expires \in BOOLEAN /\ S.due \in Nat
           /\ S.takes \in {"one", "all"} /\ S.waits \in {"read", "poll", "epoll"}
           /\ S.expires => S.takes = "all" /\ S.waits = "read"
           /\ sample = "epoll21" => ~S.expires /\ S.waits = "epoll"
<1>1. CASE sample = "timefd20"
  <2>1. S = Timefd20
    BY <1>1 DEF S, Sample
  <2>. QED
    BY <1>1, <2>1 DEF Timefd20
<1>2. CASE sample = "timefd21"
  <2>1. S = Timefd21
    BY <1>2 DEF S, Sample
  <2>. QED
    BY <1>2, <2>1 DEF Timefd21
<1>3. CASE sample = "semaphore20"
  <2>1. S = Semaphore20
    BY <1>3 DEF S, Sample
  <2>. QED
    BY <1>3, <2>1 DEF Semaphore20
<1>4. CASE sample = "semaphore21"
  <2>1. S = Semaphore21
    BY <1>4 DEF S, Sample
  <2>. QED
    BY <1>4, <2>1 DEF Semaphore21
<1>5. CASE sample = "poll"
  <2>1. S = RunPoll
    BY <1>5 DEF S, Sample
  <2>. QED
    BY <1>5, <2>1 DEF RunPoll
<1>6. CASE sample = "select"
  <2>1. S = RunSelect
    BY <1>6 DEF S, Sample
  <2>. QED
    BY <1>6, <2>1 DEF RunSelect
<1>7. CASE sample = "epoll20"
  <2>1. S = Epoll20
    BY <1>7 DEF S, Sample
  <2>. QED
    BY <1>7, <2>1 DEF Epoll20
<1>8. CASE sample = "epoll21"
  <2>1. S = Epoll21
    BY <1>8 DEF S, Sample
  <2>. QED
    BY <1>8, <2>1 DEF Epoll21
<1>. QED
  BY <1>1, <1>2, <1>3, <1>4, <1>5, <1>6, <1>7, <1>8 DEF Samples

LEMMA SumOfNothing == SumFunction(<<>>) = 0
<1>1. DOMAIN <<>> = {}
  OBVIOUS
<1>2. SumFunction(<<>>) = Total(<<>>, DOMAIN <<>>)
  BY SumIs
<1>. QED
  BY <1>1, <1>2, TotalEmpty

(* A number more at the end of a sequence. *)
LEMMA SumAppend ==
    ASSUME NEW s \in Seq(Nat), NEW v \in Nat
    PROVE  SumFunction(s) \in Int /\ SumFunction(Append(s, v)) = SumFunction(s) + v
<1>. DEFINE e == Append(s, v)
<1>. DEFINE n == Len(s)
<1>. DEFINE X == 1 .. n
<1>. DEFINE Y == 1 .. n + 1
<1>1. /\ n \in Nat /\ DOMAIN s = X /\ DOMAIN e = Y /\ e[n + 1] = v
      /\ \A i \in X : s[i] \in Int /\ s[i] = e[i]
      /\ \A i \in Y : e[i] \in Int
  OBVIOUS
<1>2. SumFunction(s) = Total(s, X) /\ SumFunction(e) = Total(e, Y)
  BY <1>1, SumIs
<1>3. IsFiniteSet(X) /\ IsFiniteSet(Y) /\ n + 1 \in Y /\ Y \ {n + 1} = X
  <2>1. 1 \in Int /\ n \in Int /\ n + 1 \in Int
    BY <1>1
  <2>2. IsFiniteSet(1 .. n) /\ IsFiniteSet(1 .. n + 1)
    BY <2>1, FS_Interval
  <2>. QED
    BY <1>1, <2>2
<1>. HIDE DEF e, X, Y
<1>4. Summable(s, X) /\ Summable(e, Y)
  BY <1>1, <1>3 DEF Summable
<1>5. Total(s, X) = Total(e, X) /\ Total(s, X) \in Int
  BY <1>1, <1>3, <1>4, TotalAgrees, TotalTakes
<1>6. Total(e, Y) = e[n + 1] + Total(e, Y \ {n + 1})
  BY <1>3, <1>4, TotalTakes
<1>7. SumFunction(s) \in Int
  BY <1>2, <1>5
<1>8. SumFunction(e) = SumFunction(s) + v
  <2>1. e[n + 1] = v /\ Y \ {n + 1} = X
    BY <1>1, <1>3
  <2>2. Total(e, Y) = v + Total(e, X)
    BY <1>6, <2>1
  <2>3. SumFunction(s) = Total(e, X) /\ SumFunction(e) = Total(e, Y)
    BY <1>2, <1>5
  <2>. QED
    BY <1>7, <2>2, <2>3
<1>. QED
  BY <1>7, <1>8 DEF e

(* What is the same after every read. *)
LEMMA TakeKeeps ==
    ASSUME EventsInv, Take, UNCHANGED <<sample, put>>
    PROVE  /\ value' \in Nat /\ got' \in Seq(Nat) /\ got' # <<>>
           /\ Accounted'
           /\ got # <<>> => got'[1] = got[1]
           /\ got = <<>> => got'[1] = Taken
<1>1. /\ sample \in Samples /\ value \in Nat /\ value > 0 /\ put \in Nat /\ got \in Seq(Nat)
      /\ SumFunction(got) + value = put
  BY DEF EventsInv, EventTypes, Accounted, Take
<1>2. Taken \in Nat /\ value - Taken \in Nat
  BY <1>1, SampleFacts DEF Taken
<1>3. value' = value - Taken /\ got' = Append(got, Taken)
  BY DEF Take
<1>4. got' \in Seq(Nat) /\ got' # <<>>
  BY <1>1, <1>2, <1>3
<1>5. /\ got # <<>> => got'[1] = got[1]
      /\ got = <<>> => got'[1] = Taken
  BY <1>1, <1>2, <1>3
<1>6. SumFunction(got) \in Int /\ SumFunction(got') = SumFunction(got) + Taken
  BY <1>1, <1>2, <1>3, SumAppend
<1>7. Accounted'
  <2>1. SumFunction(got') + value' = put
    BY <1>1, <1>2, <1>3, <1>6
  <2>. QED
    BY <2>1 DEF Accounted
<1>. QED
  BY <1>2, <1>3, <1>4, <1>5, <1>7

LEMMA EventsStart == EInit => EventsInv
<1>. SUFFICES ASSUME EInit
              PROVE  EventsInv
  OBVIOUS
<1>1. sample \in Samples
  BY DEF EInit, Sample, Samples
<1>2. /\ value = S.start /\ put = S.start /\ edge = (S.waits = "epoll") /\ got = <<>>
      /\ doing = IF S.expires THEN "sleep" ELSE IF S.waits = "read" THEN "read" ELSE "wait"
  BY DEF EInit
<1>3. EventTypes
  BY <1>1, <1>2, SampleFacts DEF EventTypes
<1>4. Accounted
  BY <1>1, <1>2, SampleFacts, SumOfNothing DEF Accounted
<1>5. FirstRead
  BY <1>1, <1>2, SampleFacts DEF FirstRead
<1>6. Drained
  BY <1>1, <1>2, SampleFacts DEF Drained
<1>. QED
  BY <1>3, <1>4, <1>5, <1>6 DEF EventsInv

LEMMA EventsStep == EventsInv /\ [ENext]_evars => EventsInv'
<1>. SUFFICES ASSUME EventsInv, [ENext]_evars
              PROVE  EventsInv'
  OBVIOUS
<1>0. /\ sample \in Samples /\ value \in Nat /\ put \in Nat /\ edge \in BOOLEAN
      /\ doing \in {"sleep", "read", "wait", "drain", "ended"} /\ got \in Seq(Nat)
  BY DEF EventsInv, EventTypes
<1>a. /\ S.expires \in BOOLEAN /\ S.due \in Nat /\ S.takes \in {"one", "all"}
      /\ S.expires => S.takes = "all" /\ S.waits = "read"
      /\ sample = "epoll21" => ~S.expires /\ S.waits = "epoll"
  BY <1>0, SampleFacts
<1>b. sample' = sample => S' = S
  BY DEF S
<1>1. CASE Expire
  <2>1. /\ S.expires /\ value' = value + 1 /\ put' = put + 1
        /\ sample' = sample /\ edge' = edge /\ doing' = doing /\ got' = got
    BY <1>1 DEF Expire
  <2>2. EventTypes'
    BY <1>0, <2>1 DEF EventTypes
  <2>3. Accounted'
    <3>1. SumFunction(got) \in Int
      BY <1>0, SumAppend
    <3>. QED
      BY <1>0, <2>1, <3>1 DEF EventsInv, Accounted
  <2>4. FirstRead'
    BY <1>0, <1>a, <1>b, <2>1 DEF EventsInv, FirstRead
  <2>5. Drained'
    BY <1>a, <2>1 DEF EventsInv, Drained
  <2>. QED
    BY <2>2, <2>3, <2>4, <2>5 DEF EventsInv
<1>2. CASE SleepEnds
  <2>1. /\ put >= S.due /\ doing = "sleep" /\ doing' = "read"
        /\ sample' = sample /\ edge' = edge /\ got' = got /\ value' = value /\ put' = put
    BY <1>2 DEF SleepEnds, EGoto
  <2>2. S.expires /\ got = <<>> /\ value = put
    <3>1. S.expires /\ got = <<>> /\ SumFunction(got) + value = put
      BY <2>1 DEF EventsInv, FirstRead, Accounted
    <3>. QED
      BY <1>0, <3>1, SumOfNothing
  <2>3. FirstRead'
    BY <1>b, <2>1, <2>2 DEF FirstRead
  <2>. QED
    BY <1>0, <1>a, <2>1, <2>2, <2>3 DEF EventsInv, EventTypes, Accounted, Drained
<1>3. CASE ReadBlocking
  <2>1. /\ Take /\ doing = "read" /\ doing' \in {"read", "ended"}
        /\ sample' = sample /\ edge' = edge /\ put' = put
    BY <1>3 DEF ReadBlocking, EGoto
  <2>2. /\ value' \in Nat /\ got' \in Seq(Nat) /\ got' # <<>> /\ Accounted'
        /\ got # <<>> => got'[1] = got[1]
        /\ got = <<>> => got'[1] = Taken
    BY <2>1, TakeKeeps
  <2>3. FirstRead'
    <3>1. S.expires => Taken = value
      BY <1>a DEF Taken
    <3>2. S.expires /\ got = <<>> => value >= S.due
      BY <2>1 DEF EventsInv, FirstRead
    <3>3. S.expires /\ got # <<>> => got[1] >= S.due
      BY DEF EventsInv, FirstRead
    <3>. QED
      BY <1>b, <2>1, <2>2, <3>1, <3>2, <3>3 DEF FirstRead
  <2>4. Drained'
    BY <1>b, <2>1 DEF EventsInv, Drained
  <2>. QED
    BY <1>0, <2>1, <2>2, <2>3, <2>4 DEF EventsInv, EventTypes
<1>4. CASE PollRound
  <2>1. /\ S.waits = "poll" /\ doing = "wait" /\ doing' = "wait"
        /\ sample' = sample /\ edge' = edge /\ put' = put
        /\ Take \/ (value' = value /\ got' = got)
    BY <1>4 DEF PollRound, EGoto
  <2>2. /\ value' \in Nat /\ got' \in Seq(Nat) /\ Accounted'
    <3>1. CASE Take
      BY <2>1, <3>1, TakeKeeps
    <3>2. CASE value' = value /\ got' = got
      BY <1>0, <2>1, <3>2 DEF EventsInv, Accounted
    <3>. QED
      BY <2>1, <3>1, <3>2
  <2>3. FirstRead' /\ Drained'
    BY <1>a, <1>b, <2>1 DEF FirstRead, Drained
  <2>. QED
    BY <1>0, <2>1, <2>2, <2>3 DEF EventsInv, EventTypes
<1>5. CASE EpollWait
  <2>1. /\ S.waits = "epoll" /\ doing' = "drain" /\ edge' = FALSE
        /\ sample' = sample /\ value' = value /\ put' = put /\ got' = got
    BY <1>5 DEF EpollWait, EGoto
  <2>2. FirstRead' /\ Drained'
    BY <1>a, <1>b, <2>1 DEF FirstRead, Drained
  <2>. QED
    BY <1>0, <2>1, <2>2 DEF EventsInv, EventTypes, Accounted
<1>6. CASE Drain
  <2>1. /\ sample = "epoll21" /\ doing = "drain" /\ doing' \in {"wait", "drain"}
        /\ sample' = sample /\ edge' = edge /\ put' = put
        /\ \/ Take /\ doing' = "drain"
           \/ value = 0 /\ value' = value /\ got' = got
    BY <1>6 DEF Drain, EGoto
  <2>2. /\ value' \in Nat /\ got' \in Seq(Nat) /\ Accounted'
        /\ doing' = "wait" => value' = 0
    <3>1. CASE Take /\ doing' = "drain"
      BY <2>1, <3>1, TakeKeeps
    <3>2. CASE value = 0 /\ value' = value /\ got' = got
      BY <1>0, <2>1, <3>2 DEF EventsInv, Accounted
    <3>. QED
      BY <2>1, <3>1, <3>2
  <2>3. FirstRead' /\ Drained'
    BY <1>a, <1>b, <2>1, <2>2 DEF FirstRead, Drained
  <2>. QED
    BY <1>0, <2>1, <2>2, <2>3 DEF EventsInv, EventTypes
<1>7. CASE ReadBadFd \/ UNCHANGED evars
  <2>1. sample' = sample /\ value' = value /\ put' = put /\ edge' = edge /\ got' = got /\ doing' = doing
    BY <1>7 DEF ReadBadFd, EGoto, evars
  <2>. QED
    BY <1>b, <2>1 DEF EventsInv, EventTypes, Accounted, FirstRead, Drained
<1>. QED
  BY <1>1, <1>2, <1>3, <1>4, <1>5, <1>6, <1>7 DEF ENext

(* For any number of expirations: what a sample has read and what the object holds
   make up what was put into it. *)
THEOREM EventsInvariant == ESpec => []EventsInv
BY EventsStart, EventsStep, PTL DEF ESpec

(* NothingLeftBehind, for any number of expirations. *)
THEOREM EventsNothingLeft == ESpec => []NothingLeftBehind
<1>1. EventsInv => NothingLeftBehind
  <2>. SUFFICES ASSUME EventsInv
                PROVE  NothingLeftBehind
    OBVIOUS
  <2>1. SumFunction(got) + value = put
    BY DEF EventsInv, Accounted
  <2>2. S.expires /\ got # <<>> => got[1] >= S.due
    BY DEF EventsInv, FirstRead
  <2>3. sample = "epoll21" /\ doing = "wait" /\ ~edge => value = 0
    BY DEF EventsInv, Drained
  <2>. QED
    BY <2>1, <2>2, <2>3 DEF NothingLeftBehind
<1>. QED
  BY <1>1, EventsInvariant, PTL
=============================================================================
