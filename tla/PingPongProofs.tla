--------------------------- MODULE PingPongProofs ---------------------------
(***************************************************************************)
(* Proofs about PingPong for every value of End.                           *)
(***************************************************************************)
EXTENDS PingPong, TLAPS

(* Before the parent has given itself the first turn nothing has happened. *)
NotStarted == pc[1] \in {"fork", "kick"} =>
    pc[2] \in {"none", "read"} /\ counter[1] = 0 /\ counter[2] = 0 /\ begin = 0

(* The worker whose turn it is to print the value b. *)
TurnOf(b) == IF b % 2 = 0 THEN 1 ELSE 2

(* The turn is on its way to, or with, the worker the next value belongs to.
   (Past the last value nothing is printed, and it does not matter.) *)
RightTurn == begin < End => \A w \in Worker :
    /\ counter[w] = 1 \/ pc[w] \in {"check", "print", "load", "store"} => w = TurnOf(begin)
    /\ pc[w] = "trigger" => Other(w) = TurnOf(begin)

(* What has been printed, and how far the owner is with the next value. *)
Progress == /\ \A w \in Worker : pc[w] \in {"print", "load", "store"} => begin < End
            /\ \A w \in Worker : pc[w] = "store" => register[w] = begin
            /\ Len(printed) = IF \E w \in Worker : pc[w] \in {"load", "store"}
                              THEN begin + 1 ELSE begin
            /\ \A n \in DOMAIN printed : printed[n] = <<TurnOf(n - 1), n - 1>>

(* A worker leaves its loop only when there is nothing left to print. *)
FinalMeansEnd == \A w \in Worker : pc[w] = "final" => begin >= End

PingPongInv == /\ TypeOK /\ FinalMeansEnd /\ OneTurn /\ NotStarted /\ RightTurn /\ Progress
               /\ pc[2] \notin {"fork", "kick", "wait"}

LEMMA WorkerFacts == /\ \A w \in Worker : w = 1 \/ w = 2
                     /\ 1 \in Worker /\ 2 \in Worker /\ Other(1) = 2 /\ Other(2) = 1
                     /\ \A w \in Worker : Other(w) \in Worker /\ Other(w) # w
  BY DEF Worker, Other

LEMMA TurnFacts == /\ TurnOf(0) = 1
                   /\ \A b \in Nat : TurnOf(b) \in Worker /\ TurnOf(b + 1) = Other(TurnOf(b))
  BY DEF Worker, Other, TurnOf

LEMMA InitPingPong == Init => PingPongInv
  BY EndAssumption, WorkerFacts, TurnFacts
     DEF Init, PingPongInv, TypeOK, OneTurn, Owner, NotStarted, RightTurn, Progress, Locations,
         FinalMeansEnd,
         Worker

(* The child never is where only the parent can be. *)
LEMMA TypeStep == PingPongInv /\ [Next]_vars => TypeOK' /\ pc'[2] \notin {"fork", "kick", "wait"}
<1> SUFFICES ASSUME PingPongInv, [Next]_vars PROVE TypeOK' /\ pc'[2] \notin {"fork", "kick", "wait"}
  OBVIOUS
<1> USE EndAssumption, WorkerFacts DEF PingPongInv, TypeOK, Locations, Goto, Trigger
<1>1. CASE Fork
  BY <1>1 DEF Fork
<1>2. CASE Kick
  BY <1>2 DEF Kick
<1>3. ASSUME NEW w \in Worker, ReadFd(w) PROVE TypeOK' /\ pc'[2] \notin {"fork", "kick", "wait"}
  BY <1>3 DEF ReadFd
<1>4. ASSUME NEW w \in Worker, Check(w) PROVE TypeOK' /\ pc'[2] \notin {"fork", "kick", "wait"}
  BY <1>4 DEF Check
<1>5. ASSUME NEW w \in Worker, PrintLine(w) PROVE TypeOK' /\ pc'[2] \notin {"fork", "kick", "wait"}
  <2>1. <<w, begin>> \in Worker \X Nat
    OBVIOUS
  <2>2. printed' \in Seq(Worker \X Nat)
    BY <1>5, <2>1 DEF PrintLine
  <2>3. QED
    BY <1>5, <2>2 DEF PrintLine
<1>6. ASSUME NEW w \in Worker, Load(w) PROVE TypeOK' /\ pc'[2] \notin {"fork", "kick", "wait"}
  BY <1>6 DEF Load
<1>7. ASSUME NEW w \in Worker, Store(w) PROVE TypeOK' /\ pc'[2] \notin {"fork", "kick", "wait"}
  BY <1>7 DEF Store, Progress
<1>8. ASSUME NEW w \in Worker, PassTurn(w) PROVE TypeOK' /\ pc'[2] \notin {"fork", "kick", "wait"}
  BY <1>8 DEF PassTurn
<1>9. ASSUME NEW w \in Worker, FinalTrigger(w) PROVE TypeOK' /\ pc'[2] \notin {"fork", "kick", "wait"}
  BY <1>9 DEF FinalTrigger
<1>10. CASE WaitChild
  BY <1>10 DEF WaitChild
<1>11. CASE UNCHANGED vars
  BY <1>11 DEF vars
<1>12. QED
  BY <1>1, <1>2, <1>3, <1>4, <1>5, <1>6, <1>7, <1>8, <1>9, <1>10, <1>11
     DEF Next, ParentNext, WorkerNext

(* One trigger, and nobody in the loop body. *)
LEMMA OneTrigger ==
    ASSUME counter \in [Worker -> Nat], counter[1] = 0, counter[2] = 0,
           ~Owner(1)', ~Owner(2)',
           NEW v \in Worker, counter' = [counter EXCEPT ![v] = 1]
    PROVE  OneTurn'
<1>1. counter'[1] + counter'[2] = 1
  BY WorkerFacts
<1>2. QED
  BY <1>1, WorkerFacts DEF OneTurn

(* A trigger is the only way on for the turn, and a read takes it out of the eventfd. *)
LEMMA TurnStep == PingPongInv /\ [Next]_vars => OneTurn'
<1> SUFFICES ASSUME PingPongInv, [Next]_vars PROVE OneTurn'
  OBVIOUS
<1> USE EndAssumption, WorkerFacts
    DEF PingPongInv, TypeOK, OneTurn, Owner, NotStarted, Goto, Trigger
<1>1. CASE Fork
  BY <1>1 DEF Fork
<1>2. CASE Kick
  <2>1. counter[1] = 0 /\ counter[2] = 0
    BY <1>2 DEF Kick
  <2>2. ~Owner(1)' /\ ~Owner(2)'
    BY <1>2 DEF Kick
  <2>3. counter' = [counter EXCEPT ![1] = 1]
    BY <1>2, <2>1 DEF Kick
  <2>4. QED
    BY <2>1, <2>2, <2>3, OneTrigger
<1>3. ASSUME NEW w \in Worker, ReadFd(w) PROVE OneTurn'
  BY <1>3 DEF ReadFd
<1>4. ASSUME NEW w \in Worker, Check(w) PROVE OneTurn'
  BY <1>4 DEF Check
<1>5. ASSUME NEW w \in Worker, PrintLine(w) PROVE OneTurn'
  BY <1>5 DEF PrintLine
<1>6. ASSUME NEW w \in Worker, Load(w) PROVE OneTurn'
  BY <1>6 DEF Load
<1>7. ASSUME NEW w \in Worker, Store(w) PROVE OneTurn'
  BY <1>7 DEF Store
<1>8. ASSUME NEW w \in Worker, PassTurn(w) PROVE OneTurn'
  <2>1. Owner(w) /\ counter[1] = 0 /\ counter[2] = 0 /\ ~Owner(Other(w))
    BY <1>8 DEF PassTurn
  <2>2. ~Owner(1)' /\ ~Owner(2)'
    BY <1>8, <2>1 DEF PassTurn
  <2>3. counter' = [counter EXCEPT ![Other(w)] = 1]
    <3>1. counter' = [counter EXCEPT ![Other(w)] = counter[Other(w)] + 1]
      BY ONLY <1>8 DEF PassTurn, Trigger
    <3>2. Other(w) \in Worker /\ counter[Other(w)] = 0
      BY <2>1
    <3>3. QED
      BY ONLY <3>1, <3>2
  <2>4. QED
    BY <2>1, <2>2, <2>3, OneTrigger
<1>9. ASSUME NEW w \in Worker, FinalTrigger(w) PROVE OneTurn'
  <2>1. Owner(w) /\ counter[1] = 0 /\ counter[2] = 0 /\ ~Owner(Other(w))
    BY <1>9 DEF FinalTrigger
  <2>2. ~Owner(1)' /\ ~Owner(2)'
    BY <1>9, <2>1 DEF FinalTrigger
  <2>3. counter' = [counter EXCEPT ![Other(w)] = 1]
    <3>1. counter' = [counter EXCEPT ![Other(w)] = counter[Other(w)] + 1]
      BY ONLY <1>9 DEF FinalTrigger, Trigger
    <3>2. Other(w) \in Worker /\ counter[Other(w)] = 0
      BY <2>1
    <3>3. QED
      BY ONLY <3>1, <3>2
  <2>4. QED
    BY <2>1, <2>2, <2>3, OneTrigger
<1>10. CASE WaitChild
  BY <1>10 DEF WaitChild
<1>11. CASE UNCHANGED vars
  BY <1>11 DEF vars
<1>12. QED
  BY <1>1, <1>2, <1>3, <1>4, <1>5, <1>6, <1>7, <1>8, <1>9, <1>10, <1>11
     DEF Next, ParentNext, WorkerNext

(* Nothing moves before the kick. *)
LEMMA StartStep == PingPongInv /\ [Next]_vars => NotStarted'
<1> SUFFICES ASSUME PingPongInv, [Next]_vars PROVE NotStarted'
  OBVIOUS
<1> USE EndAssumption, WorkerFacts
    DEF PingPongInv, TypeOK, OneTurn, Owner, NotStarted, Goto, Trigger
<1>1. CASE Fork
  BY <1>1 DEF Fork
<1>2. CASE Kick
  BY <1>2 DEF Kick
<1>3. ASSUME NEW w \in Worker, ReadFd(w) PROVE NotStarted'
  BY <1>3 DEF ReadFd
<1>4. ASSUME NEW w \in Worker, Check(w) PROVE NotStarted'
  BY <1>4 DEF Check
<1>5. ASSUME NEW w \in Worker, PrintLine(w) PROVE NotStarted'
  BY <1>5 DEF PrintLine
<1>6. ASSUME NEW w \in Worker, Load(w) PROVE NotStarted'
  BY <1>6 DEF Load
<1>7. ASSUME NEW w \in Worker, Store(w) PROVE NotStarted'
  BY <1>7 DEF Store
<1>8. ASSUME NEW w \in Worker, PassTurn(w) PROVE NotStarted'
  BY <1>8 DEF PassTurn
<1>9. ASSUME NEW w \in Worker, FinalTrigger(w) PROVE NotStarted'
  BY <1>9 DEF FinalTrigger
<1>10. CASE WaitChild
  BY <1>10 DEF WaitChild
<1>11. CASE UNCHANGED vars
  BY <1>11 DEF vars
<1>12. QED
  BY <1>1, <1>2, <1>3, <1>4, <1>5, <1>6, <1>7, <1>8, <1>9, <1>10, <1>11
     DEF Next, ParentNext, WorkerNext

(* begin never falls back below End. *)
LEMMA FinalStep == PingPongInv /\ [Next]_vars => FinalMeansEnd'
<1> SUFFICES ASSUME PingPongInv, [Next]_vars PROVE FinalMeansEnd'
  OBVIOUS
<1> USE EndAssumption, WorkerFacts
    DEF PingPongInv, TypeOK, Progress, FinalMeansEnd, Goto
<1>1. CASE Fork
  BY <1>1 DEF Fork
<1>2. CASE Kick
  BY <1>2 DEF Kick
<1>3. ASSUME NEW w \in Worker, ReadFd(w) PROVE FinalMeansEnd'
  BY <1>3 DEF ReadFd
<1>4. ASSUME NEW w \in Worker, Check(w) PROVE FinalMeansEnd'
  BY <1>4 DEF Check
<1>5. ASSUME NEW w \in Worker, PrintLine(w) PROVE FinalMeansEnd'
  BY <1>5 DEF PrintLine
<1>6. ASSUME NEW w \in Worker, Load(w) PROVE FinalMeansEnd'
  BY <1>6 DEF Load
<1>7. ASSUME NEW w \in Worker, Store(w) PROVE FinalMeansEnd'
  BY <1>7 DEF Store
<1>8. ASSUME NEW w \in Worker, PassTurn(w) PROVE FinalMeansEnd'
  BY <1>8 DEF PassTurn
<1>9. ASSUME NEW w \in Worker, FinalTrigger(w) PROVE FinalMeansEnd'
  BY <1>9 DEF FinalTrigger
<1>10. CASE WaitChild
  BY <1>10 DEF WaitChild
<1>11. CASE UNCHANGED vars
  BY <1>11 DEF vars
<1>12. QED
  BY <1>1, <1>2, <1>3, <1>4, <1>5, <1>6, <1>7, <1>8, <1>9, <1>10, <1>11
     DEF Next, ParentNext, WorkerNext

(* Only a store changes whose value is next, and the turn is passed after it. *)
LEMMA RightTurnStep == PingPongInv /\ [Next]_vars => RightTurn'
<1> SUFFICES ASSUME PingPongInv, [Next]_vars PROVE RightTurn'
  OBVIOUS
<1> USE EndAssumption, WorkerFacts
    DEF PingPongInv, TypeOK, RightTurn, OneTurn, Owner, NotStarted, Progress, Goto, Trigger
<1>1. CASE Fork
  BY <1>1 DEF Fork
<1>2. CASE Kick
  BY <1>2, TurnFacts DEF Kick
<1>3. ASSUME NEW w \in Worker, ReadFd(w) PROVE RightTurn'
  <2>1. counter[w] = 1 /\ UNCHANGED begin
    <3>1. counter[w] > 0 /\ UNCHANGED begin
      BY <1>3 DEF ReadFd
    <3>2. counter[1] \in Nat /\ counter[2] \in Nat /\ counter[1] + counter[2] <= 1
      OBVIOUS
    <3>3. QED
      BY ONLY <3>1, <3>2, WorkerFacts, w \in Worker
  <2>2. QED
    BY <1>3, <2>1 DEF ReadFd
<1>4. ASSUME NEW w \in Worker, Check(w) PROVE RightTurn'
  BY <1>4 DEF Check
<1>5. ASSUME NEW w \in Worker, PrintLine(w) PROVE RightTurn'
  BY <1>5 DEF PrintLine
<1>6. ASSUME NEW w \in Worker, Load(w) PROVE RightTurn'
  BY <1>6 DEF Load
<1>7. ASSUME NEW w \in Worker, Store(w) PROVE RightTurn'
  <2>1. w = TurnOf(begin) /\ begin' = begin + 1 /\ begin \in Nat
    BY <1>7 DEF Store
  <2>2. TurnOf(begin') = Other(w)
    BY ONLY <2>1, TurnFacts
  <2>3. QED
    BY <1>7, <2>1, <2>2 DEF Store
<1>8. ASSUME NEW w \in Worker, PassTurn(w) PROVE RightTurn'
  <2>1. begin < End => Other(w) = TurnOf(begin)
    BY <1>8 DEF PassTurn
  <2>2. counter[1] = 0 /\ counter[2] = 0
    BY <1>8 DEF PassTurn
  <2>3. QED
    BY <1>8, <2>1, <2>2 DEF PassTurn
<1>9. ASSUME NEW w \in Worker, FinalTrigger(w) PROVE RightTurn'
  BY <1>9 DEF FinalTrigger, FinalMeansEnd
<1>10. CASE WaitChild
  BY <1>10 DEF WaitChild
<1>11. CASE UNCHANGED vars
  BY <1>11 DEF vars
<1>12. QED
  BY <1>1, <1>2, <1>3, <1>4, <1>5, <1>6, <1>7, <1>8, <1>9, <1>10, <1>11
     DEF Next, ParentNext, WorkerNext

(* The line printed is the value the store then adds one to. *)
LEMMA ProgressStep == PingPongInv /\ [Next]_vars => Progress'
<1> SUFFICES ASSUME PingPongInv, [Next]_vars PROVE Progress'
  OBVIOUS
<1> USE EndAssumption, WorkerFacts
    DEF PingPongInv, TypeOK, OneTurn, Owner, NotStarted, Progress, FinalMeansEnd, Goto, Trigger
<1>1. CASE Fork
  BY <1>1 DEF Fork
<1>2. CASE Kick
  BY <1>2 DEF Kick
<1>3. ASSUME NEW w \in Worker, ReadFd(w) PROVE Progress'
  BY <1>3 DEF ReadFd
<1>4. ASSUME NEW w \in Worker, Check(w) PROVE Progress'
  <2>1. /\ UNCHANGED <<begin, register, printed>>
        /\ pc' = [pc EXCEPT ![w] = IF begin >= End THEN "final" ELSE "print"]
        /\ pc[w] = "check" /\ begin \in Int /\ End \in Int
    BY <1>4 DEF Check
  <2>2. \A v \in Worker : pc'[v] \in {"load", "store"} <=> pc[v] \in {"load", "store"}
    BY <2>1
  <2>3. \A v \in Worker : pc'[v] = "store" => pc[v] = "store"
    BY <2>1
  <2>4. \A v \in Worker : pc'[v] \in {"print", "load", "store"} => begin < End
    BY <2>1
  <2>5. QED
    BY <2>1, <2>2, <2>3, <2>4
<1>5. ASSUME NEW w \in Worker, PrintLine(w) PROVE Progress'
  <2>1. /\ w = TurnOf(begin) /\ begin \in Nat /\ begin < End /\ Len(printed) = begin
        /\ \A v \in Worker : v # w => ~Owner(v)
    <3>1. pc[w] = "print" /\ begin \in Nat /\ begin < End
      BY <1>5 DEF PrintLine
    <3>2. \A v \in Worker : v # w => ~Owner(v)
      BY <3>1
    <3>3. \A v \in Worker : pc[v] \notin {"load", "store"}
      BY <3>1, <3>2
    <3>4. Len(printed) = begin
      BY <3>3
    <3>5. w = TurnOf(begin)
      BY <3>1 DEF RightTurn
    <3>6. QED
      BY <3>1, <3>2, <3>4, <3>5
  <2>2. /\ Len(printed') = begin + 1 /\ printed'[begin + 1] = <<w, begin>>
        /\ \A n \in DOMAIN printed' : n = begin + 1 \/ n \in DOMAIN printed
        /\ \A n \in DOMAIN printed : printed'[n] = printed[n]
    <3>1. printed' = Append(printed, <<w, begin>>) /\ printed \in Seq(Worker \X Nat)
      BY <1>5 DEF PrintLine
    <3>2. <<w, begin>> \in Worker \X Nat
      BY <2>1
    <3>3. QED
      BY ONLY <2>1, <3>1, <3>2
  <2>3. \A n \in DOMAIN printed : printed[n] = <<TurnOf(n - 1), n - 1>>
    OBVIOUS
  <2>4. \A n \in DOMAIN printed' : printed'[n] = <<TurnOf(n - 1), n - 1>>
    <3>1. TurnOf(begin) = TurnOf((begin + 1) - 1) /\ (begin + 1) - 1 = begin
      BY <2>1
    <3>2. QED
      BY ONLY <2>1, <2>2, <2>3, <3>1
  <2>5. /\ UNCHANGED <<begin, register>> /\ pc'[w] = "load"
        /\ \A v \in Worker : v # w => pc'[v] = pc[v]
    BY <1>5 DEF PrintLine
  <2>6. \E v \in Worker : pc'[v] \in {"load", "store"}
    BY <2>5
  <2>7. \A v \in Worker : pc'[v] # "store"
    BY <2>1, <2>5
  <2>8. QED
    BY <2>1, <2>2, <2>4, <2>5, <2>6, <2>7
<1>6. ASSUME NEW w \in Worker, Load(w) PROVE Progress'
  BY <1>6 DEF Load
<1>7. ASSUME NEW w \in Worker, Store(w) PROVE Progress'
  BY <1>7 DEF Store
<1>8. ASSUME NEW w \in Worker, PassTurn(w) PROVE Progress'
  BY <1>8 DEF PassTurn
<1>9. ASSUME NEW w \in Worker, FinalTrigger(w) PROVE Progress'
  BY <1>9 DEF FinalTrigger
<1>10. CASE WaitChild
  BY <1>10 DEF WaitChild
<1>11. CASE UNCHANGED vars
  BY <1>11 DEF vars
<1>12. QED
  BY <1>1, <1>2, <1>3, <1>4, <1>5, <1>6, <1>7, <1>8, <1>9, <1>10, <1>11
     DEF Next, ParentNext, WorkerNext

THEOREM PingPongInvariant == Spec => []PingPongInv
<1>1. PingPongInv /\ [Next]_vars => PingPongInv'
  BY TypeStep, FinalStep, TurnStep, StartStep, RightTurnStep, ProgressStep DEF PingPongInv
<1>2. QED
  BY <1>1, InitPingPong, PTL DEF Spec

(* The two processes never work on the shared counter together. *)
THEOREM PingPongOneTurn == Spec => []OneTurn
<1>1. PingPongInv => OneTurn
  BY DEF PingPongInv
<1>2. QED
  BY <1>1, PingPongInvariant, PTL

(* Whatever End is, each value below it is printed once and by the right one. *)
THEOREM PingPongPrintedInTurn == Spec => []PrintedInTurn
<1>1. \A n \in Nat \ {0} : TurnOf(n - 1) = IF n % 2 = 1 THEN 1 ELSE 2
  BY DEF TurnOf
<1>2. PingPongInv => PrintedInTurn
  BY <1>1 DEF PingPongInv, Progress, PrintedInTurn, TypeOK
<1>3. QED
  BY <1>2, PingPongInvariant, PTL
=============================================================================
