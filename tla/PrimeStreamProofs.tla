------------------------- MODULE PrimeStreamProofs -------------------------
(***************************************************************************)
(* Proofs about SafeQueue, for any sets of producers and consumers: the    *)
(* mutex discipline across cond_wait, and the refinement of SlotChannel.   *)
(* And about the program around it, PrimeStream, for every word size, base *)
(* and count: every step is a step of the queue, so the queue's invariant  *)
(* carries over; with one thread a side its single condition loses no      *)
(* wakeup; and the numbers on their way from the worker to main are the    *)
(* primes in order.                                                        *)
(***************************************************************************)
EXTENDS PrimeStream, TLAPS

(***************************************************************************)
(* The queue (SafeQueue).                                                  *)
(***************************************************************************)

(* Between the call of release and the store, the producer still has its item. *)
ArgumentReady == \A p \in Producers :
    pc[p] \in {"lock", "check", "wait", "relock", "flip", "copy"} => local[p] \in Values

(* Between the call of acquire and the load, the consumer has nothing. *)
ResultEmpty == \A c \in Consumers :
    pc[c] \in {"lock", "check", "wait", "relock", "flip", "copy"} => local[c] = None

(* Half way through the update, exists is already what it will be. *)
HalfWay == /\ \A p \in Producers : pc[p] = "copy" => exists = 1
           /\ \A c \in Consumers : pc[c] = "copy" => exists = 0

IInv == /\ TypeOK /\ MutualExclusion /\ GuardHolds
        /\ ArgumentReady /\ ResultEmpty /\ HalfWay

LEMMA InitIInv == Init => IInv
  BY QueueAssumption
     DEF Init, IInv, TypeOK, MutualExclusion, GuardHolds, ArgumentReady, ResultEmpty,
         HalfWay, Locations, Holding, Threads

(* Every step of the queue keeps the invariant. *)
LEMMA NextIInv == IInv /\ [QueueNext]_qvars => IInv'
<1> SUFFICES ASSUME IInv, [QueueNext]_qvars PROVE IInv'
  OBVIOUS
<1> USE QueueAssumption DEF IInv, TypeOK, MutualExclusion, GuardHolds, ArgumentReady,
        ResultEmpty, HalfWay, Locations, Holding, Threads, Goto, MustWait
<1>1. ASSUME NEW p \in Producers, NEW v \in Values, CallRelease(p, v) PROVE IInv'
  BY <1>1 DEF CallRelease
<1>2. ASSUME NEW c \in Consumers, CallAcquire(c) PROVE IInv'
  BY <1>2 DEF CallAcquire
<1>3. ASSUME NEW t \in Threads, Lock(t) PROVE IInv'
  BY <1>3 DEF Lock
<1>4. ASSUME NEW t \in Threads, Pass(t) PROVE IInv'
  BY <1>4 DEF Pass
<1>5. ASSUME NEW t \in Threads, Wait(t) PROVE IInv'
  BY <1>5 DEF Wait
<1>6. ASSUME NEW t \in Threads, SpuriousWake(t) PROVE IInv'
  BY <1>6 DEF SpuriousWake
<1>7. ASSUME NEW t \in Threads, Relock(t) PROVE IInv'
  BY <1>7 DEF Relock
<1>8. ASSUME NEW t \in Threads, Flip(t) PROVE IInv'
  BY <1>8 DEF Flip
<1>9. ASSUME NEW p \in Producers, StoreValue(p) PROVE IInv'
  BY <1>9 DEF StoreValue
<1>10. ASSUME NEW c \in Consumers, LoadValue(c) PROVE IInv'
  BY <1>10 DEF LoadValue
<1>11. ASSUME NEW t \in Threads, Signal(t) PROVE IInv'
  <2>1. CASE \E u \in Threads : pc[u] = "wait"
    <3>1. PICK u \in Threads : /\ pc[u] = "wait"
                               /\ pc' = [pc EXCEPT ![t] = "unlock", ![u] = "relock"]
      BY <1>11, <2>1 DEF Signal
    <3>2. pc[t] = "signal" /\ UNCHANGED <<mutex, exists, value, local, cancelled>>
      BY <1>11 DEF Signal
    <3>3. QED
      BY <3>1, <3>2
  <2>2. CASE ~\E u \in Threads : pc[u] = "wait"
    BY <1>11, <2>2 DEF Signal
  <2>3. QED
    BY <2>1, <2>2
<1>12. ASSUME NEW t \in Threads, Unlock(t) PROVE IInv'
  BY <1>12 DEF Unlock
<1>13. ASSUME NEW p \in Producers, Cancel(p) PROVE IInv'
  BY <1>13 DEF Cancel
<1>14. ASSUME NEW t \in Threads, ActOnCancel(t) PROVE IInv'
  BY <1>14 DEF ActOnCancel
<1>15. ASSUME NEW t \in Threads, Die(t) PROVE IInv'
  BY <1>15 DEF Die
<1>16. CASE UNCHANGED qvars
  BY <1>16 DEF qvars
<1>17. QED
  BY <1>1, <1>2, <1>3, <1>4, <1>5, <1>6, <1>7, <1>8, <1>9, <1>10, <1>11, <1>12, <1>13,
     <1>14, <1>15, <1>16 DEF QueueNext, Advance

(* The inductive invariant of the queue holds in every reachable state. *)
THEOREM QueueInvariant == QueueSpec => []IInv
  BY InitIInv, NextIInv, PTL DEF QueueSpec

(* The mutex has one owner at a time, and a thread is in a critical section of
   acquire or release exactly while it is that owner. *)
THEOREM QueueMutex == QueueSpec => []MutualExclusion
<1>1. IInv => MutualExclusion
  BY DEF IInv
<1>2. QED
  BY <1>1, QueueInvariant, PTL

(* The queue's state is well typed: no thread is told to wait, wake or die in a
   place the code does not have. *)
THEOREM QueueTypes == QueueSpec => []TypeOK
<1>1. IInv => TypeOK
  BY DEF IInv
<1>2. QED
  BY <1>1, QueueInvariant, PTL

(* No thread passes its while loop with the slot in the wrong state. *)
THEOREM QueueGuard == QueueSpec => []GuardHolds
<1>1. IInv => GuardHolds
  BY DEF IInv
<1>2. QED
  BY <1>1, QueueInvariant, PTL
-----------------------------------------------------------------------------
(* Which step of the queue is which step of the channel: the store puts the
   item in the slot, the load takes it, the calls offer and use, and every
   other step leaves slot and hands as they are. *)
LEMMA ChannelInit == Init => Channel!Init
  BY QueueAssumption DEF Init, Channel!Init, SlotItem, InHand, Threads

(* The store is the step that puts the item in the slot. *)
LEMMA StorePuts == ASSUME IInv, NEW p \in Producers, StoreValue(p)
                   PROVE  Channel!Put(p)
<1> USE QueueAssumption DEF IInv, TypeOK, MutualExclusion, GuardHolds, ArgumentReady,
        ResultEmpty, HalfWay, Locations, Holding, Threads, Goto, MustWait, SlotItem, InHand
<1>1. /\ pc[p] = "copy" /\ exists = 1 /\ local[p] \in Values
      /\ \A t \in Threads : t # p => pc[t] # "copy" /\ pc'[t] # "copy"
      /\ pc'[p] = "signal" /\ p \notin Consumers
  BY DEF StoreValue
<1>2. InHand[p] = local[p] /\ SlotItem = None
  BY <1>1
<1>3. SlotItem' = local[p]
  BY <1>1 DEF StoreValue
<1>4. InHand' = [InHand EXCEPT ![p] = None]
  BY <1>1 DEF StoreValue
<1>5. QED
  BY <1>1, <1>2, <1>3, <1>4 DEF Channel!Put

(* The load is the step that takes it. *)
LEMMA LoadTakes == ASSUME IInv, NEW c \in Consumers, LoadValue(c)
                   PROVE  Channel!Take(c)
<1> USE QueueAssumption DEF IInv, TypeOK, MutualExclusion, GuardHolds, ArgumentReady,
        ResultEmpty, HalfWay, Locations, Holding, Threads, Goto, MustWait, SlotItem, InHand
<1>1. /\ pc[c] = "copy" /\ exists = 0 /\ exists' = 0 /\ local[c] = None
      /\ \A t \in Threads : t # c => pc[t] # "copy" /\ pc'[t] # "copy"
      /\ pc'[c] = "signal" /\ c \notin Producers
  BY DEF LoadValue
<1>2. InHand[c] = None /\ SlotItem = value /\ value # None
  BY <1>1
<1>3. SlotItem' = None
  BY <1>1 DEF LoadValue
<1>4. InHand' = [InHand EXCEPT ![c] = value]
  BY <1>1 DEF LoadValue
<1>5. QED
  BY <1>2, <1>3, <1>4 DEF Channel!Take

(* What else a thread does inside a call, waiting, waking, being cancelled or
   signalling, moves no item. *)
Moves(t) == (t \in Producers /\ StoreValue(t)) \/ (t \in Consumers /\ LoadValue(t))

LEMMA RestMovesNothing ==
    ASSUME IInv, NEW t \in Threads, Advance(t) \/ SpuriousWake(t), ~Moves(t)
    PROVE  UNCHANGED <<SlotItem, InHand, local>>
<1> USE QueueAssumption DEF IInv, TypeOK, MutualExclusion, GuardHolds, ArgumentReady,
        ResultEmpty, HalfWay, Locations, Holding, Threads, Goto, MustWait, SlotItem, InHand
<1>1. CASE Lock(t)
  BY <1>1 DEF Lock
<1>2. CASE Pass(t)
  BY <1>2 DEF Pass
<1>3. CASE Wait(t)
  BY <1>3 DEF Wait
<1>4. CASE SpuriousWake(t)
  BY <1>4 DEF SpuriousWake
<1>5. CASE Relock(t)
  BY <1>5 DEF Relock
<1>6. CASE Flip(t)
  BY <1>6 DEF Flip
<1>7. CASE Signal(t)
  <2>1. CASE \E u \in Threads : pc[u] = "wait"
    <3>1. PICK u \in Threads : /\ pc[u] = "wait"
                               /\ pc' = [pc EXCEPT ![t] = "unlock", ![u] = "relock"]
      BY <1>7, <2>1 DEF Signal
    <3>2. pc[t] = "signal" /\ UNCHANGED <<mutex, exists, value, local, cancelled>>
      BY <1>7 DEF Signal
    <3>3. QED
      BY <3>1, <3>2
  <2>2. CASE ~\E u \in Threads : pc[u] = "wait"
    BY <1>7, <2>2 DEF Signal
  <2>3. QED
    BY <2>1, <2>2
<1>8. CASE Unlock(t)
  BY <1>8 DEF Unlock
<1>9. CASE ActOnCancel(t)
  BY <1>9 DEF ActOnCancel
<1>10. CASE Die(t)
  BY <1>10 DEF Die
<1>11. QED
  BY <1>1, <1>2, <1>3, <1>4, <1>5, <1>6, <1>7, <1>8, <1>9, <1>10 DEF Advance, Moves

LEMMA ChannelStep ==
    IInv /\ [QueueNext]_qvars => [Channel!Next]_<<SlotItem, InHand>>
<1> SUFFICES ASSUME IInv, [QueueNext]_qvars
             PROVE  Channel!Next \/ UNCHANGED <<SlotItem, InHand>>
  OBVIOUS
<1>1. ASSUME NEW p \in Producers, NEW v \in Values, CallRelease(p, v)
      PROVE  Channel!Offer(p, v)
  BY <1>1, QueueAssumption
     DEF CallRelease, Channel!Offer, IInv, TypeOK, Locations, Threads, Goto, SlotItem, InHand
<1>2. ASSUME NEW c \in Consumers, CallAcquire(c)
      PROVE  Channel!Use(c) \/ UNCHANGED <<SlotItem, InHand>>
  BY <1>2, QueueAssumption
     DEF CallAcquire, Channel!Use, IInv, TypeOK, Locations, Threads, Goto, SlotItem, InHand
<1>3. ASSUME NEW t \in Threads, Advance(t) \/ SpuriousWake(t), ~Moves(t)
      PROVE  UNCHANGED <<SlotItem, InHand>>
  BY <1>3, RestMovesNothing
<1>4. ASSUME NEW t \in Threads, Moves(t)
      PROVE  (t \in Producers /\ Channel!Put(t)) \/ (t \in Consumers /\ Channel!Take(t))
  BY <1>4, StorePuts, LoadTakes DEF Moves
<1>5. CASE (\E p \in Producers : Cancel(p)) \/ UNCHANGED qvars
  BY <1>5 DEF Cancel, qvars, SlotItem, InHand
<1>6. QED
  BY <1>1, <1>2, <1>3, <1>4, <1>5 DEF QueueNext, Channel!Next

(* safe_queue_t implements the one-slot channel for any number of callers: no
   item is lost, duplicated or overwritten. *)
THEOREM QueueImplementsChannel == QueueSpec => ImplementsChannel
  BY ChannelInit, ChannelStep, QueueInvariant, PTL
     DEF QueueSpec, ImplementsChannel, Channel!Spec

(***************************************************************************)
(* The program (PrimeStream).                                              *)
(***************************************************************************)

(* main has a result in `local` from the load until it has printed it. *)
ResultReady ==
    /\ pc[Main] \in {"signal", "unlock"} => local[Main] \in Uint
    /\ mainPc = "acquire" /\ pc[Main] = "idle" => local[Main] \in Uint
    /\ mainPc # "acquire" => pc[Main] = "idle"

(* PrintLine and Ask agree on how many lines are left. *)
LinesLeft == mainPc = "acquire" => Len(printed) < count

PInv == IInv /\ PTypeOK /\ NoLostWakeup /\ ResultReady /\ LinesLeft

LEMMA UintFacts == /\ 0 \in Uint
                   /\ \A x \in Uint : (x + 1) % UintMod \in Uint
                   /\ \A x \in Uint : x \in Nat
  BY PrimeAssumption DEF Uint

LEMMA ThreadFacts == /\ Worker \in Threads /\ Main \in Threads /\ Worker # Main
                     /\ \A t \in Threads : t = Worker \/ t = Main
                     /\ Worker \in Producers /\ Worker \notin Consumers
                     /\ Main \in Consumers /\ Main \notin Producers
  BY PrimeAssumption, QueueAssumption DEF Threads

(* A step of the program is a step of the queue or leaves the queue alone. *)
LEMMA StepIsQueueStep == PTypeOK /\ [PNext]_vars => [QueueNext]_qvars
<1> SUFFICES ASSUME PTypeOK, [PNext]_vars PROVE QueueNext \/ UNCHANGED qvars
  OBVIOUS
<1>1. CASE Skip \/ Emitted \/ PrintLine \/ Join \/ Exited \/ UNCHANGED vars
  BY <1>1 DEF Skip, Emitted, PrintLine, Join, Exited, vars
<1>2. CASE Emit
  BY <1>2, PrimeAssumption, ThreadFacts DEF Emit, QueueNext, PTypeOK
<1>3. CASE Ask
  BY <1>3, ThreadFacts DEF Ask, QueueNext
<1>4. CASE CancelWorker
  BY <1>4, ThreadFacts DEF CancelWorker, QueueNext
<1>5. CASE Run(Worker) \/ Run(Main) \/ \E t \in Threads : Spurious(t)
  BY <1>5, ThreadFacts DEF Run, Spurious, QueueNext
<1>6. QED
  BY <1>1, <1>2, <1>3, <1>4, <1>5 DEF PNext, WorkerNext, MainNext

LEMMA InitPInv == PInit => PInv
<1> SUFFICES ASSUME PInit PROVE PInv
  OBVIOUS
<1>1. IInv
  BY InitIInv DEF PInit
<1>2. PTypeOK
  BY <1>1, UintFacts DEF PInit, PTypeOK, IInv
<1>3. NoLostWakeup /\ ResultReady /\ LinesLeft
  BY ThreadFacts DEF PInit, Init, NoLostWakeup, ResultReady, LinesLeft
<1>4. QED
  BY <1>1, <1>2, <1>3 DEF PInv

(* Only the two signals end a state in which the other thread may sleep with the
   slot ready for it, and they wake it. *)
LEMMA NextNoLostWakeup == PInv /\ [QueueNext]_qvars => NoLostWakeup'
<1> SUFFICES ASSUME PInv, [QueueNext]_qvars PROVE NoLostWakeup'
  OBVIOUS
<1> USE ThreadFacts, PrimeAssumption
    DEF PInv, IInv, TypeOK, NoLostWakeup, Locations, Goto, MustWait
<1>1. ASSUME NEW t \in Threads, Signal(t) PROVE NoLostWakeup'
  BY <1>1 DEF Signal
<1>2. ASSUME NEW t \in Threads, Lock(t) \/ Pass(t) \/ Wait(t) \/ SpuriousWake(t) \/ Relock(t)
      PROVE  NoLostWakeup'
  BY <1>2 DEF Lock, Pass, Wait, SpuriousWake, Relock
<1>3. ASSUME NEW t \in Threads, Flip(t) \/ Unlock(t) \/ ActOnCancel(t) \/ Die(t)
      PROVE  NoLostWakeup'
  BY <1>3 DEF Flip, Unlock, ActOnCancel, Die
<1>4. CASE (\E p \in Producers : StoreValue(p)) \/ (\E c \in Consumers : LoadValue(c))
  BY <1>4 DEF StoreValue, LoadValue
<1>5. CASE \/ \E p \in Producers : Cancel(p) \/ \E v \in Values : CallRelease(p, v)
           \/ \E c \in Consumers : CallAcquire(c)
  BY <1>5 DEF Cancel, CallRelease, CallAcquire
<1>6. CASE UNCHANGED qvars
  BY <1>6 DEF qvars
<1>7. QED
  BY <1>1, <1>2, <1>3, <1>4, <1>5, <1>6 DEF QueueNext, Advance

(* One step of the program on its own variables. *)
LEMMA NextPInv == PInv /\ [PNext]_vars => PInv'
<1> SUFFICES ASSUME PInv, [PNext]_vars PROVE PInv'
  OBVIOUS
<1>1. [QueueNext]_qvars
  BY StepIsQueueStep DEF PInv
<1>2. IInv' /\ NoLostWakeup'
  BY <1>1, NextIInv, NextNoLostWakeup DEF PInv
<1>3. TypeOK'
  BY <1>2 DEF IInv
<1> USE ThreadFacts, UintFacts, PrimeAssumption
    DEF PInv, PTypeOK, ResultReady, LinesLeft, TypeOK, Locations, Goto
<1>4. ASSUME Skip \/ Emitted PROVE PInv'
  BY <1>2, <1>3, <1>4 DEF Skip, Emitted, qvars
<1>5. ASSUME Emit PROVE PInv'
  BY <1>2, <1>3, <1>5 DEF Emit, CallRelease
<1>6. ASSUME Ask PROVE PInv'
  BY <1>2, <1>3, <1>6 DEF Ask, CallAcquire
<1>7. ASSUME PrintLine PROVE PInv'
  <2>1. local[Main] \in Uint /\ count \in Nat
    BY <1>7 DEF PrintLine
  <2>2. printed' = Append(printed, local[Main]) /\ Len(printed) < count
    BY <1>7 DEF PrintLine
  <2>3. printed' \in Seq(Uint) /\ Len(printed') = Len(printed) + 1
    BY <2>1, <2>2
  <2>4. QED
    BY <1>2, <1>3, <1>7, <2>1, <2>2, <2>3 DEF PrintLine, qvars
<1>8. ASSUME CancelWorker PROVE PInv'
  BY <1>2, <1>3, <1>8 DEF CancelWorker, Cancel
<1>9. ASSUME Join \/ Exited PROVE PInv'
  BY <1>2, <1>3, <1>9 DEF Join, Exited, vars, qvars, pvars
<1>10. ASSUME NEW t \in Threads, Advance(t) \/ SpuriousWake(t), UNCHANGED pvars PROVE PInv'
  <2>1. UNCHANGED <<base, count, cursor, scanning, mainPc, printed>>
    BY <1>10 DEF pvars
  <2>2. PTypeOK' /\ LinesLeft'
    BY <1>3, <2>1
  <2>3. ResultReady'
    <3> USE DEF IInv, MutualExclusion, Holding
    <3>1. CASE Lock(t) \/ Pass(t) \/ Wait(t) \/ SpuriousWake(t) \/ Relock(t) \/ Flip(t)
      BY <2>1, <3>1 DEF Lock, Pass, Wait, SpuriousWake, Relock, Flip
    <3>2. CASE (t \in Producers /\ StoreValue(t)) \/ (t \in Consumers /\ LoadValue(t))
      BY <2>1, <3>2 DEF StoreValue, LoadValue
    <3>3. CASE Unlock(t) \/ ActOnCancel(t) \/ Die(t)
      BY <2>1, <3>3 DEF Unlock, ActOnCancel, Die
    <3>4. CASE Signal(t)
      BY <2>1, <3>4 DEF Signal
    <3>5. QED
      BY <1>10, <3>1, <3>2, <3>3, <3>4 DEF Advance
  <2>4. QED
    BY <1>2, <2>2, <2>3
<1>11. CASE UNCHANGED vars
  BY <1>2, <1>3, <1>11 DEF vars, pvars, qvars
<1>12. QED
  BY <1>4, <1>5, <1>6, <1>7, <1>8, <1>9, <1>10, <1>11
     DEF PNext, WorkerNext, MainNext, Run, Spurious

THEOREM PrimeInvariant == PSpec => []PInv
  BY InitPInv, NextPInv, PTL DEF PSpec

(* Type correctness of the whole program. *)
THEOREM PrimeTypes == PSpec => []PTypeOK
<1>1. PInv => PTypeOK
  BY DEF PInv
<1>2. QED
  BY <1>1, PrimeInvariant, PTL

(* Neither thread ever sleeps through the change it is waiting for. *)
THEOREM PrimeNoLostWakeup == PSpec => []NoLostWakeup
<1>1. PInv => NoLostWakeup
  BY DEF PInv
<1>2. QED
  BY <1>1, PrimeInvariant, PTL

(* The program drives the queue through its interface only, so it inherits the
   one-slot channel: what main acquires is what the worker released. *)
THEOREM PrimeUsesQueue == PSpec => ImplementsChannel
<1>1. PInv => PTypeOK
  BY DEF PInv
<1>2. PSpec => QueueSpec
  BY <1>1, PrimeInvariant, StepIsQueueStep, PTL DEF PSpec, QueueSpec, PInit
<1>3. QED
  BY <1>2, QueueImplementsChannel, PTL
-----------------------------------------------------------------------------
(* Division with a remainder, and the two facts about a modulus that counting
   up in a word of any size needs. *)
LEMMA Division == ASSUME NEW x \in Nat, NEW d \in Nat \ {0}
                  PROVE  x \div d \in Nat /\ x % d \in 0 .. d - 1 /\ x = d * (x \div d) + (x % d)
  OBVIOUS

LEMMA Divides == ASSUME NEW x \in Nat, NEW d \in Nat \ {0}
                 PROVE  x % d = 0 <=> \E q \in Nat : x = d * q
<1>1. x = d * (x \div d) + (x % d) /\ x \div d \in Nat /\ x % d \in Nat
  BY Division
<1>2. ASSUME NEW q \in Nat, x = d * q PROVE x % d = 0
  BY <1>2
<1>3. ASSUME x % d = 0 PROVE \E q \in Nat : x = d * q
  <2>1. PICK q \in Nat, r \in Nat : x = d * q + r /\ r = x % d
    BY <1>1
  <2>2. x = d * q + r /\ r = 0
    BY <1>3, <2>1
  <2>3. x = d * q
    BY <2>2
  <2>4. QED
    BY <2>3
<1>4. QED
  BY <1>2, <1>3

LEMMA ModWrap == ASSUME NEW m \in Nat \ {0}, NEW n \in Nat
                 PROVE  (n + m) % m = n % m
<1>1. PICK q \in Nat, r \in 0 .. m - 1 : n = m * q + r /\ r = n % m
  BY Division
<1>2. PICK s \in Nat : s = q + 1
  OBVIOUS
<1>3. PICK x \in Nat : x = n + m
  OBVIOUS
<1>4. m * s = m * q + m /\ n = m * q + r
  BY <1>1, <1>2
<1>5. x = m * s + r
  BY <1>3, <1>4
<1>6. x % m = r
  BY <1>5
<1>7. QED
  BY <1>1, <1>3, <1>6

LEMMA ModSuccessor == ASSUME NEW m \in Nat \ {0}, NEW n \in Nat
                      PROVE  ((n % m) + 1) % m = (n + 1) % m
<1>1. PICK q \in Nat, r \in 0 .. m - 1 : n = m * q + r /\ r = n % m
  BY Division
<1>2. PICK x \in Nat : x = n + 1
  OBVIOUS
<1>3. n = m * q + r
  BY <1>1
<1>4. CASE r + 1 < m
  <2>1. PICK t \in 0 .. m - 1 : t = r + 1
    BY <1>4
  <2>2. x = m * q + t
    BY <1>2, <1>3, <2>1
  <2>3. x % m = t
    BY <2>2
  <2>4. t % m = t
    OBVIOUS
  <2>5. QED
    BY <1>1, <1>2, <2>1, <2>3, <2>4
<1>5. CASE r + 1 = m
  <2>1. PICK s \in Nat : s = q + 1
    OBVIOUS
  <2>2. m * s = m * q + m
    BY <2>1
  <2>3. x = m * s
    BY <1>2, <1>3, <1>5, <2>2
  <2>4. x % m = 0
    BY <2>3
  <2>5. (r + 1) % m = 0
    BY <1>5
  <2>6. QED
    BY <1>1, <1>2, <2>4, <2>5
<1>6. QED
  BY <1>1, <1>4, <1>5

(* A composite number has a divisor whose square is not larger. *)
LEMMA Cofactor == ASSUME NEW x \in Nat, NEW d \in 2 .. x - 1, x % d = 0
                  PROVE  \E e \in 2 .. x - 1 : x = d * e
<1>1. PICK e \in Nat : x = d * e
  BY Divides
<1>2. e # 0 /\ e # 1
  BY <1>1
<1>3. 2 * e <= x
  BY <1>1
<1>4. e \in 2 .. x - 1
  BY <1>2, <1>3
<1>5. QED
  BY <1>1, <1>4

LEMMA SmallDivisor == ASSUME NEW x \in Nat, NEW d \in 2 .. x - 1, x % d = 0
                      PROVE  \E m \in 2 .. x - 1 : x % m = 0 /\ m * m <= x
<1>1. PICK e \in 2 .. x - 1 : x = d * e
  BY Cofactor
<1>2. CASE d <= e
  <2>1. d * d <= d * e
    BY <1>2
  <2>2. QED
    BY <1>1, <2>1
<1>3. CASE e < d
  <2>1. e * e <= d * e
    BY <1>3
  <2>2. x % e = 0
    BY <1>1
  <2>3. QED
    BY <1>1, <2>1, <2>2
<1>4. QED
  BY <1>2, <1>3

LEMMA EvenDivisor == ASSUME NEW x \in Nat, NEW m \in Nat \ {0}, x % m = 0, m % 2 = 0
                     PROVE  x % 2 = 0
<1>1. PICK k \in Nat : x = m * k
  BY Divides
<1>2. PICK h \in Nat : m = 2 * h
  BY Divides
<1>3. (2 * h) * k = 2 * (h * k) /\ h * k \in Nat
  OBVIOUS
<1>4. PICK n \in Nat : n = h * k
  BY <1>3
<1>5. x = 2 * n
  BY <1>1, <1>2, <1>3, <1>4
<1>6. QED
  BY <1>5

LEMMA SquareMonotone == ASSUME NEW j \in Nat, NEW m \in Nat, j <= m
                        PROVE  j * j \in Nat /\ j * j <= m * m
<1>1. j * j <= m * j /\ m * j <= m * m
  OBVIOUS
<1>2. QED
  BY <1>1

(* What is_prime accepts has no divisor: the loop comes to the small one of a
   composite number, and no square it has taken on the way has wrapped. *)
LEMMA AcceptedIsPrime == ASSUME NEW x \in Uint, IsPrime(x)
                         PROVE  x > 1 /\ \A d \in 2 .. x - 1 : x % d # 0
<1>1. x \in Nat /\ x >= 2 /\ (x % 2 = 0 => x = 2)
  BY PrimeAssumption DEF IsPrime, Uint
<1>2. ASSUME NEW m \in 2 .. x - 1, x % m = 0, m * m <= x PROVE FALSE
  <2>1. m \in Nat \ {0} /\ m \in Uint /\ x # 2
    BY <1>1, PrimeAssumption DEF Uint
  <2>2. m % 2 # 0
    BY <1>1, <1>2, <2>1, EvenDivisor
  <2>3. m % 2 = 1 /\ m >= 3
    BY <2>2
  <2>4. ASSUME NEW j \in 3 .. m PROVE (j * j) % UintMod <= x
    <3>1. j * j \in Nat /\ j * j <= m * m /\ m * m \in Nat
      BY SquareMonotone
    <3>2. PICK s \in Nat : s = j * j
      BY <3>1
    <3>3. s <= x
      BY <1>1, <1>2, <3>1, <3>2
    <3>4. s % UintMod = s
      BY <3>3, PrimeAssumption DEF Uint
    <3>5. QED
      BY <3>2, <3>3, <3>4
  <2>5. QED
    BY <1>2, <2>1, <2>3, <2>4 DEF IsPrime
<1>3. ASSUME NEW d \in 2 .. x - 1, x % d = 0 PROVE FALSE
  <2>1. \E m \in 2 .. x - 1 : x % m = 0 /\ m * m <= x
    BY <1>1, <1>3, SmallDivisor
  <2>2. QED
    BY <1>2, <2>1
<1>4. \A d \in 2 .. x - 1 : x % d # 0
  BY <1>3
<1>5. x > 1
  BY <1>1
<1>6. QED
  BY <1>4, <1>5
-----------------------------------------------------------------------------
(* From f to v, walking modulo UintMod, is_prime accepts nothing before v. *)
Reaches(f, v) == \E k \in Nat : /\ v = (f + k) % UintMod
                                /\ \A j \in 0 .. k - 1 : ~IsPrime((f + j) % UintMod)
First(f, v) == Reaches(f, v) /\ IsPrime(v)
After(v) == (v + 1) % UintMod

(* Where the search starts for line n, for what follows the item that main has
   and has not printed, for what follows the one in the slot, and for what
   follows the one the worker offers. *)
MainHas == mainPc = "acquire" /\ local[Main] # None
From(n) == IF n = 1 THEN base ELSE After(printed[n - 1])
AfterMain == IF MainHas THEN After(local[Main]) ELSE From(Len(printed) + 1)
AfterSlot == IF SlotItem # None THEN After(SlotItem) ELSE AfterMain
AfterWorker == IF InHand[Worker] # None THEN After(InHand[Worker]) ELSE AfterSlot

(* The lines, the item in main's hands, the one in the slot, the one in the
   worker's and the number the worker tests follow each other with no prime
   left out between any two of them. *)
Lines == \A n \in 1 .. Len(printed) : First(From(n), printed[n])

Stream == /\ MainHas => First(From(Len(printed) + 1), local[Main])
          /\ SlotItem # None => First(AfterMain, SlotItem)
          /\ InHand[Worker] # None => First(AfterSlot, InHand[Worker])
          /\ scanning => InHand[Worker] = None /\ Reaches(AfterSlot, cursor)
          /\ ~scanning => AfterWorker = After(cursor)

StreamInv == PInv /\ Lines /\ Stream

(* NextPrime is what a walk that stops at the first accepted number finds. *)
LEMMA FirstIsNextPrime == ASSUME NEW f \in Uint, NEW v, First(f, v)
                          PROVE  v = NextPrime(f)
<1> DEFINE P(k) == /\ IsPrime((f + k) % UintMod)
                   /\ \A j \in 0 .. k - 1 : ~IsPrime((f + j) % UintMod)
<1>1. PICK k \in Nat : v = (f + k) % UintMod /\ P(k)
  BY DEF First, Reaches
<1>2. k \in Uint
  <2>1. SUFFICES ASSUME k >= UintMod PROVE FALSE
    BY PrimeAssumption DEF Uint
  <2>2. PICK j \in 0 .. k - 1 : k = j + UintMod
    BY <2>1, PrimeAssumption
  <2>3. f + j \in Nat /\ f + k = (f + j) + UintMod
    BY <2>2, PrimeAssumption DEF Uint
  <2>4. (f + k) % UintMod = (f + j) % UintMod
    BY <2>3, ModWrap, PrimeAssumption
  <2>5. QED
    BY <1>1, <2>4
<1>3. \A i \in Uint : P(i) => i = k
  <2>1. SUFFICES ASSUME NEW i \in Uint, P(i) PROVE i = k
    OBVIOUS
  <2>2. i \in Nat /\ ~(i \in 0 .. k - 1) /\ ~(k \in 0 .. i - 1)
    BY <1>1, <2>1 DEF Uint
  <2>3. QED
    BY <2>2
<1> DEFINE d == CHOOSE i \in Uint : P(i)
<1>4. d \in Uint /\ P(d)
  BY <1>1, <1>2
<1>5. d = k
  BY <1>3, <1>4
<1>6. NextPrime(f) = (f + d) % UintMod
  BY DEF NextPrime
<1>7. QED
  BY <1>1, <1>5, <1>6

(* A walk starts where it is, and goes on past a number that is not accepted. *)
LEMMA ReachesItself == ASSUME NEW f \in Uint PROVE Reaches(f, f)
<1>1. f = (f + 0) % UintMod
  BY PrimeAssumption DEF Uint
<1>2. QED
  BY <1>1 DEF Reaches

LEMMA ReachesOn == ASSUME NEW f \in Uint, NEW v, Reaches(f, v), ~IsPrime(v)
                   PROVE  Reaches(f, After(v))
<1>1. PICK k \in Nat : /\ v = (f + k) % UintMod
                       /\ \A j \in 0 .. k - 1 : ~IsPrime((f + j) % UintMod)
  BY DEF Reaches
<1>2. f + k \in Nat /\ f + (k + 1) = (f + k) + 1
  BY PrimeAssumption DEF Uint
<1>3. After(v) = (f + (k + 1)) % UintMod
  BY <1>1, <1>2, ModSuccessor, PrimeAssumption DEF After
<1>4. \A j \in 0 .. (k + 1) - 1 : ~IsPrime((f + j) % UintMod)
  <2>1. TAKE j \in 0 .. (k + 1) - 1
  <2>2. j \in 0 .. k - 1 \/ j = k
    OBVIOUS
  <2>3. QED
    BY <1>1, <2>2
<1>5. QED
  BY <1>3, <1>4 DEF Reaches

LEMMA AfterIsUint == \A v \in Uint : After(v) \in Uint
  BY UintFacts DEF After

(* Everything the walks start from is a number of the word. *)
LEMMA StartsAreUint == ASSUME PInv
                       PROVE  /\ \A n \in 1 .. Len(printed) + 1 : From(n) \in Uint
                              /\ MainHas => local[Main] \in Uint
                              /\ SlotItem # None => SlotItem \in Uint
                              /\ InHand[Worker] # None => InHand[Worker] \in Uint
                              /\ AfterMain \in Uint /\ AfterSlot \in Uint
<1>1. \A n \in 1 .. Len(printed) + 1 : From(n) \in Uint
  BY AfterIsUint DEF PInv, PTypeOK, From
<1>2. /\ MainHas => local[Main] \in Uint
      /\ SlotItem # None => SlotItem \in Uint
      /\ InHand[Worker] # None => InHand[Worker] \in Uint
  BY PrimeAssumption, ThreadFacts DEF PInv, PTypeOK, TypeOK, MainHas, SlotItem, InHand
<1>3. Len(printed) + 1 \in 1 .. Len(printed) + 1
  BY DEF PInv, PTypeOK
<1>4. AfterMain \in Uint
  BY <1>1, <1>2, <1>3, AfterIsUint DEF AfterMain
<1>5. QED
  BY <1>1, <1>2, <1>4, AfterIsUint DEF AfterSlot

(* A step that moves no item and leaves the lines and the worker's search alone. *)
LEMMA StreamStutter ==
    ASSUME Lines, Stream, (MainHas <=> MainHas'), MainHas => local'[Main] = local[Main],
           UNCHANGED <<SlotItem, InHand[Worker], printed, base, cursor, scanning>>
    PROVE  (Lines /\ Stream)'
<1>1. AfterMain' = AfterMain /\ \A n : From(n)' = From(n)
  BY DEF AfterMain, From
<1>2. AfterSlot' = AfterSlot
  BY <1>1 DEF AfterSlot
<1>3. AfterWorker' = AfterWorker
  BY <1>2 DEF AfterWorker
<1>4. QED
  BY <1>1, <1>2, <1>3 DEF Lines, Stream

(* Every item goes from the worker's search to main's line through one place
   after another, and keeps its place in the row. *)
LEMMA NextStream == StreamInv /\ PInv' /\ [PNext]_vars => (Lines /\ Stream)'
<1> SUFFICES ASSUME StreamInv, PInv', [PNext]_vars PROVE (Lines /\ Stream)'
  OBVIOUS
<1>1. PInv /\ IInv /\ TypeOK /\ PTypeOK /\ ResultReady /\ Lines /\ Stream
  BY DEF StreamInv, PInv, PTypeOK
<1>2. /\ AfterMain \in Uint /\ AfterSlot \in Uint
      /\ SlotItem # None => SlotItem \in Uint
      /\ None \notin Uint
  BY <1>1, StartsAreUint, PrimeAssumption, QueueAssumption
<1>3. ASSUME Skip PROVE (Lines /\ Stream)'
  <2>1. /\ scanning /\ ~IsPrime(cursor) /\ cursor' = After(cursor)
        /\ UNCHANGED <<qvars, base, count, scanning, mainPc, printed>>
    BY <1>3 DEF Skip, After
  <2>2. UNCHANGED <<SlotItem, InHand>> /\ (MainHas' <=> MainHas) /\ UNCHANGED local
    BY <2>1 DEF qvars, SlotItem, InHand, MainHas
  <2>3. AfterMain' = AfterMain /\ \A n : From(n)' = From(n)
    BY <2>1, <2>2 DEF AfterMain, From
  <2>4. AfterSlot' = AfterSlot
    BY <2>2, <2>3 DEF AfterSlot
  <2>5. Reaches(AfterSlot, cursor')
    BY <1>1, <1>2, <2>1, ReachesOn DEF Stream
  <2>6. QED
    BY <1>1, <2>1, <2>2, <2>3, <2>4, <2>5 DEF Lines, Stream
<1>4. ASSUME Emit PROVE (Lines /\ Stream)'
  <2>1. /\ scanning /\ IsPrime(cursor) /\ ~scanning' /\ CallRelease(Worker, cursor)
        /\ UNCHANGED <<base, count, cursor, mainPc, printed>>
    BY <1>4 DEF Emit
  <2>2. SlotItem' = SlotItem /\ local'[Main] = local[Main] /\ InHand'[Worker] = cursor
    BY <1>1, <2>1, ThreadFacts, PrimeAssumption
       DEF CallRelease, Goto, SlotItem, InHand, TypeOK, Locations
  <2>3. AfterMain' = AfterMain /\ (MainHas' <=> MainHas) /\ \A n : From(n)' = From(n)
    BY <2>1, <2>2 DEF AfterMain, From, MainHas
  <2>4. AfterSlot' = AfterSlot /\ AfterWorker' = After(cursor)
    BY <1>1, <1>2, <2>2, <2>3 DEF AfterSlot, AfterWorker, PTypeOK
  <2>5. First(AfterSlot, cursor)
    BY <1>1, <2>1 DEF Stream, First
  <2>6. QED
    BY <1>1, <2>1, <2>2, <2>3, <2>4, <2>5 DEF Lines, Stream
<1>5. ASSUME Emitted PROVE (Lines /\ Stream)'
  <2>1. /\ ~scanning /\ pc[Worker] = "idle" /\ scanning' /\ cursor' = After(cursor)
        /\ UNCHANGED <<qvars, base, count, mainPc, printed>>
    BY <1>5 DEF Emitted, After
  <2>2. UNCHANGED <<SlotItem, InHand, local>> /\ InHand[Worker] = None
    BY <2>1, ThreadFacts DEF qvars, SlotItem, InHand
  <2>3. AfterMain' = AfterMain /\ (MainHas' <=> MainHas) /\ \A n : From(n)' = From(n)
    BY <2>1, <2>2 DEF AfterMain, From, MainHas
  <2>4. AfterSlot' = AfterSlot /\ AfterSlot = After(cursor)
    BY <1>1, <2>1, <2>2, <2>3 DEF AfterSlot, AfterWorker, Stream
  <2>5. Reaches(AfterSlot, cursor')
    BY <1>2, <2>1, <2>4, ReachesItself
  <2>6. QED
    BY <1>1, <2>1, <2>2, <2>3, <2>4, <2>5 DEF Lines, Stream
<1>6. ASSUME Ask PROVE (Lines /\ Stream)'
  <2>1. mainPc = "loop" /\ UNCHANGED <<base, cursor, scanning, printed>> /\ CallAcquire(Main)
    BY <1>6 DEF Ask
  <2>2. /\ SlotItem' = SlotItem /\ local'[Main] = None
        /\ InHand'[Worker] = InHand[Worker]
    BY <1>1, <2>1, ThreadFacts, PrimeAssumption
       DEF CallAcquire, Goto, SlotItem, InHand, TypeOK, Locations
  <2>3. ~MainHas /\ ~MainHas'
    BY <2>1, <2>2 DEF MainHas
  <2>4. QED
    BY <1>1, <2>1, <2>2, <2>3, StreamStutter
<1>7. ASSUME PrintLine PROVE (Lines /\ Stream)'
  <2>1. /\ mainPc = "acquire" /\ mainPc' = "loop" /\ pc[Main] = "idle"
        /\ printed' = Append(printed, local[Main])
        /\ UNCHANGED <<qvars, base, count, cursor, scanning>>
    BY <1>7 DEF PrintLine
  <2>2. MainHas /\ ~MainHas' /\ local[Main] \in Uint
    BY <1>1, <1>2, <2>1 DEF MainHas, ResultReady
  <2>3. UNCHANGED <<SlotItem, InHand>>
    BY <2>1 DEF qvars, SlotItem, InHand
  <2>4. /\ Len(printed') = Len(printed) + 1 /\ Len(printed) \in Nat
        /\ printed'[Len(printed) + 1] = local[Main]
        /\ \A n \in 1 .. Len(printed) : printed'[n] = printed[n]
    BY <1>1, <2>1, <2>2 DEF PTypeOK
  <2>5. \A n \in 1 .. Len(printed) + 1 : From(n)' = From(n)
    BY <2>1, <2>4 DEF From
  <2>6. Lines'
    <3>1. ASSUME NEW n \in 1 .. Len(printed) + 1 PROVE First(From(n)', printed'[n])
      <4>1. CASE n \in 1 .. Len(printed)
        BY <1>1, <2>4, <2>5, <4>1 DEF Lines
      <4>2. CASE n = Len(printed) + 1
        BY <1>1, <2>2, <2>4, <2>5, <4>2 DEF Stream
      <4>3. QED
        BY <2>4, <4>1, <4>2
    <3>2. QED
      BY <2>4, <3>1 DEF Lines
  <2>7. AfterMain' = AfterMain
    <3>1. Len(printed') + 1 # 1 /\ printed'[(Len(printed') + 1) - 1] = local[Main]
      BY <2>4
    <3>2. From(Len(printed) + 1)' = After(local[Main])
      BY <3>1 DEF From
    <3>3. QED
      BY <2>2, <3>2 DEF AfterMain
  <2>8. AfterSlot' = AfterSlot
    BY <2>3, <2>7 DEF AfterSlot
  <2>9. AfterWorker' = AfterWorker
    BY <2>3, <2>8 DEF AfterWorker
  <2>10. Stream'
    BY <1>1, <2>1, <2>2, <2>3, <2>7, <2>8, <2>9 DEF Stream
  <2>11. QED
    BY <2>6, <2>10
<1>8. ASSUME CancelWorker \/ Join \/ Exited \/ UNCHANGED vars PROVE (Lines /\ Stream)'
  <2>1. /\ UNCHANGED <<pc, local, value, exists, base, cursor, scanning, printed>>
        /\ mainPc = "acquire" <=> mainPc' = "acquire"
    BY <1>8 DEF CancelWorker, Cancel, Join, Exited, vars, pvars, qvars
  <2>2. UNCHANGED <<SlotItem, InHand>> /\ (MainHas' <=> MainHas)
    BY <2>1 DEF SlotItem, InHand, MainHas
  <2>3. QED
    BY <1>1, <2>1, <2>2, StreamStutter
<1>9. ASSUME NEW t \in Threads, Advance(t) \/ SpuriousWake(t), UNCHANGED pvars
      PROVE  (Lines /\ Stream)'
  <2>1. UNCHANGED <<base, count, cursor, scanning, mainPc, printed>>
    BY <1>9 DEF pvars
  <2>2. CASE ~Moves(t)
    <3>1. UNCHANGED <<SlotItem, InHand, local>>
      BY <1>1, <1>9, <2>2, RestMovesNothing
    <3>2. MainHas' <=> MainHas
      BY <2>1, <3>1 DEF MainHas
    <3>3. QED
      BY <1>1, <2>1, <3>1, <3>2, StreamStutter
  <2>3. CASE t \in Producers /\ StoreValue(t)
    <3>1. t = Worker /\ Channel!Put(Worker) /\ local' = local
      BY <1>1, <2>3, StorePuts, PrimeAssumption DEF StoreValue
    <3>2. /\ InHand[Worker] # None /\ SlotItem = None
          /\ SlotItem' = InHand[Worker] /\ InHand'[Worker] = None
      BY <3>1, ThreadFacts DEF Channel!Put, InHand
    <3>3. AfterMain' = AfterMain /\ (MainHas' <=> MainHas) /\ \A n : From(n)' = From(n)
      BY <2>1, <3>1 DEF AfterMain, From, MainHas
    <3>4. AfterSlot = AfterMain /\ AfterSlot' = AfterWorker /\ AfterWorker' = AfterWorker
      BY <3>2, <3>3 DEF AfterSlot, AfterWorker
    <3>5. QED
      BY <1>1, <2>1, <3>1, <3>2, <3>3, <3>4 DEF Lines, Stream
  <2>4. CASE t \in Consumers /\ LoadValue(t)
    <3>1. t = Main /\ Channel!Take(Main) /\ pc[Main] = "copy"
      BY <1>1, <2>4, LoadTakes, PrimeAssumption DEF LoadValue, Goto
    <3>2. /\ InHand[Main] = None /\ SlotItem # None /\ SlotItem' = None
          /\ InHand'[Main] = SlotItem /\ InHand'[Worker] = InHand[Worker]
      BY <3>1, ThreadFacts DEF Channel!Take, InHand
    <3>3. local[Main] = None /\ local'[Main] = SlotItem /\ mainPc = "acquire"
      BY <1>1, <3>1, <3>2, ThreadFacts DEF InHand, ResultReady
    <3>4. ~MainHas /\ MainHas' /\ \A n : From(n)' = From(n)
      BY <2>1, <3>2, <3>3 DEF MainHas, From
    <3>5. AfterMain = From(Len(printed) + 1) /\ AfterMain' = AfterSlot
      BY <2>1, <3>2, <3>3, <3>4 DEF AfterMain, AfterSlot
    <3>6. AfterSlot' = AfterSlot
      BY <3>2, <3>5 DEF AfterSlot
    <3>7. AfterWorker' = AfterWorker
      BY <3>2, <3>6 DEF AfterWorker
    <3>8. QED
      BY <1>1, <2>1, <3>2, <3>3, <3>4, <3>5, <3>6, <3>7 DEF Lines, Stream
  <2>5. QED
    BY <2>2, <2>3, <2>4 DEF Moves
<1>10. QED
  BY <1>3, <1>4, <1>5, <1>6, <1>7, <1>8, <1>9, ThreadFacts
     DEF PNext, WorkerNext, MainNext, Run, Spurious

LEMMA InitStream == PInit => Lines /\ Stream
<1> SUFFICES ASSUME PInit PROVE Lines /\ Stream
  OBVIOUS
<1>1. Init /\ printed = <<>> /\ mainPc = "loop"
  BY DEF PInit
<1>2. SlotItem = None
  BY <1>1, ThreadFacts DEF Init, SlotItem, Threads
<1>3. /\ SlotItem = None /\ InHand[Worker] = None /\ ~MainHas
      /\ printed = <<>> /\ Len(printed) = 0
  BY <1>1, <1>2, ThreadFacts DEF Init, InHand, MainHas
<1>4. AfterSlot = base /\ scanning /\ cursor = base /\ base \in Uint
  BY <1>3 DEF PInit, AfterSlot, AfterMain, From
<1>5. QED
  BY <1>3, <1>4, ReachesItself DEF Lines, Stream

(* Whatever the interleaving, the numbers on their way from the worker to main
   are in a row without gaps. *)
THEOREM PrimeStreamInvariant == PSpec => []StreamInv
<1>1. PInit => StreamInv
  BY InitPInv, InitStream DEF StreamInv
<1>2. StreamInv /\ [PNext]_vars => StreamInv'
  BY NextPInv, NextStream DEF StreamInv
<1>3. QED
  BY <1>1, <1>2, PTL DEF PSpec

(* main prints the primes from base on, in order, none left out and none twice,
   for every word size, base and count (lines 83-109). *)
THEOREM PrimeOrder == PSpec => []PrimesInOrder
<1>1. ASSUME StreamInv PROVE PrimesInOrder
  <2>1. printed \in Seq(Uint) /\ PInv /\ Lines
    BY <1>1 DEF StreamInv, PInv, PTypeOK
  <2>2. ASSUME NEW n \in 1 .. Len(printed) PROVE printed[n] = NextPrime(From(n))
    <3>1. From(n) \in Uint
      BY <2>1, StartsAreUint
    <3>2. QED
      BY <2>1, <3>1, FirstIsNextPrime DEF Lines
  <2>3. QED
    BY <2>1, <2>2 DEF PrimesInOrder, From, After
<1>2. QED
  BY <1>1, PrimeStreamInvariant, PTL

(* No line is a composite number, although is_prime compares a square that may
   have wrapped (lines 75-79). *)
THEOREM PrimeOnly == PSpec => []OnlyPrimes
<1>1. ASSUME StreamInv PROVE OnlyPrimes
  <2>1. printed \in Seq(Uint) /\ Lines
    BY <1>1 DEF StreamInv, PInv, PTypeOK
  <2>2. \A n \in DOMAIN printed : printed[n] \in Uint /\ IsPrime(printed[n])
    BY <2>1 DEF Lines, First
  <2>3. QED
    BY <2>2, AcceptedIsPrime DEF OnlyPrimes
<1>2. QED
  BY <1>1, PrimeStreamInvariant, PTL
=============================================================================
