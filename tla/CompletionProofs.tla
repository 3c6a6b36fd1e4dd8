-------------------------- MODULE CompletionProofs --------------------------
(***************************************************************************)
(* Proofs about threads and processes that others wait for: the programs    *)
(* that create and join threads (ThreadJoins), atomic_push (AtomicList),    *)
(* the callback of async_vector (AsyncVector) and main and its children     *)
(* around pipes (Pipes), for any number of threads, nodes and elements and  *)
(* any size of a pipe.                                                     *)
(***************************************************************************)
EXTENDS ThreadJoins, AtomicList, AsyncVector, Pipes, FiniteSets, FiniteSetTheorems, TLAPS

(***************************************************************************)
(* Joining threads (ThreadJoins).                                          *)
(***************************************************************************)

(* Where a thread may be, and main, in each of the four programs. *)
Stages == [chain |-> {"none", "join", "print", "ended"},
           recursion |-> {"none", "scan", "join", "print", "ended"},
           cancel |-> {"none", "store", "sleep", "ended", "cancelled"},
           base |-> {"none", "store", "ended"}]
MainStages == [chain |-> {"create", "returned"}, recursion |-> {"create"},
               cancel |-> {"create", "failed", "usleep", "join", "returned"},
               base |-> {"create", "failed", "join", "returned"}]

JTypeOK == /\ kind \in DOMAIN Stages
           /\ numbers \in 0 .. Threads - 1
           /\ created \in 0 .. Threads
           /\ stage \in [Tid -> Stages[kind]]
           /\ mstage \in MainStages[kind]
           /\ printed \in Seq(Int)
           /\ DOMAIN waits = Tid

(* chain: each thread created waits for the one before, so the threads that have
   ended are those that come first, as many as are printed. *)
ChainInv ==
    kind = "chain" =>
        /\ last = created
        /\ \A t \in Tid : IF t <= created THEN stage[t] # "none" /\ waits[t] = t - 1
                                          ELSE stage[t] = "none"
        /\ Len(printed) <= Threads
        /\ \A i \in 1 .. Len(printed) : printed[i] = i
        /\ \A t \in Tid : stage[t] = "ended" <=> t <= Len(printed)
        /\ \A t \in Tid : stage[t] = "print" => t = Len(printed) + 1
        /\ mstage = "returned" => Len(printed) = Threads

(* recursion: the calls return from the deepest one, so what is printed and the
   depth of the thread that prints next add up to the numbers read. *)
RecursionInv ==
    kind = "recursion" =>
        /\ Len(printed) <= numbers
        /\ \A i \in 1 .. Len(printed) : printed[i] = numbers + 1 - i
        /\ \A t \in Tid :
              /\ stage[t] = "scan" => /\ t <= numbers + 1 /\ Len(printed) = 0
                                      /\ \A u \in Tid \ {t} : stage[u] \in {"none", "join"}
              /\ stage[t] = "join" => t + Len(printed) <= numbers
              /\ stage[t] = "print" => t + Len(printed) = numbers
              /\ stage[t] = "ended" => t + Len(printed) > numbers

(* cancel and base: what the thread stores it stores before it can end. *)
StoredInv ==
    kind \in {"cancel", "base"} =>
        /\ stage[1] \in {"sleep", "ended", "cancelled"} => x = 12345
        /\ mstage = "returned" => printed = <<12345>>

JoinsInv == JTypeOK /\ ChainInv /\ RecursionInv /\ StoredInv

(* One more at the end of what is printed. *)
LEMMA Appended ==
    ASSUME NEW s \in Seq(Int), NEW e \in Int
    PROVE  /\ Append(s, e) \in Seq(Int) /\ Len(Append(s, e)) = Len(s) + 1
           /\ \A i \in 1 .. Len(s) : Append(s, e)[i] = s[i]
           /\ Append(s, e)[Len(s) + 1] = e
OBVIOUS

(* JoinsInv holds when main starts. *)
LEMMA JoinsInvInit == JInit => JoinsInv
<1>. SUFFICES ASSUME JInit
              PROVE  JoinsInv
  OBVIOUS
<1>1. JTypeOK
  BY ThreadsAssumption DEF JInit, JTypeOK, Stages, MainStages, Tid
<1>2. ChainInv
  BY ThreadsAssumption DEF JInit, ChainInv, Tid, Nobody
<1>3. RecursionInv
  BY ThreadsAssumption DEF JInit, RecursionInv, Tid
<1>4. StoredInv
  BY ThreadsAssumption DEF JInit, StoredInv, Tid
<1>. QED
  BY <1>1, <1>2, <1>3, <1>4 DEF JoinsInv

(* chain: a thread is created with the one before it to join. *)
LEMMA ChainCreateKeeps ==
    ASSUME JoinsInv, ChainCreate
    PROVE  JoinsInv'
<1>. USE ThreadsAssumption
<1>1. /\ kind = "chain" /\ created < Threads /\ created' = created + 1
      /\ waits' = [waits EXCEPT ![created + 1] = last]
      /\ stage' = [stage EXCEPT ![created + 1] = "join"] /\ last' = created + 1
      /\ UNCHANGED <<kind, numbers, mstage, x, printed>>
  BY DEF ChainCreate
<1>2. created + 1 \in Tid /\ created \in 0 .. Threads
  BY <1>1 DEF JoinsInv, JTypeOK, Tid
<1>3. JTypeOK'
  BY <1>1, <1>2 DEF JoinsInv, JTypeOK, Stages, MainStages, Tid
<1>4. ChainInv'
  <2>1. created + 1 > Len(printed)
    BY <1>1, <1>2 DEF JoinsInv, ChainInv
  <2>. QED
    BY <1>1, <1>2, <2>1 DEF JoinsInv, JTypeOK, ChainInv, Tid
<1>. QED
  BY <1>1, <1>3, <1>4 DEF JoinsInv, RecursionInv, StoredInv

(* chain: a thread whose predecessor has ended is the next to print. *)
LEMMA JoinPreviousKeeps ==
    ASSUME JoinsInv, NEW t \in Tid, JoinPrevious(t)
    PROVE  JoinsInv'
<1>. USE ThreadsAssumption
<1>1. /\ kind = "chain" /\ stage[t] = "join" /\ stage' = [stage EXCEPT ![t] = "print"]
      /\ waits[t] # 0 => stage[waits[t]] = "ended"
      /\ UNCHANGED <<kind, numbers, created, last, waits, mstage, x, printed>>
  BY DEF JoinPrevious, To, Nobody
<1>2. JTypeOK'
  BY <1>1 DEF JoinsInv, JTypeOK, Stages, MainStages
<1>3. t = Len(printed) + 1
  <2>1. waits[t] = t - 1 /\ ~(t <= Len(printed))
    BY <1>1 DEF JoinsInv, JTypeOK, ChainInv, Tid
  <2>2. t # 1 => t - 1 \in Tid /\ stage[t - 1] = "ended"
    BY <1>1, <2>1 DEF Tid
  <2>3. t # 1 => t - 1 <= Len(printed)
    BY <1>1, <2>2 DEF JoinsInv, ChainInv
  <2>. QED
    BY <2>1, <2>3 DEF JoinsInv, JTypeOK, Tid
<1>4. ChainInv'
  BY <1>1, <1>3 DEF JoinsInv, JTypeOK, ChainInv, Tid
<1>. QED
  BY <1>1, <1>2, <1>4 DEF JoinsInv, RecursionInv, StoredInv

(* A thread prints its number and ends. *)
LEMMA PrintOwnKeeps ==
    ASSUME JoinsInv, NEW t \in Tid, PrintOwn(t)
    PROVE  JoinsInv'
<1>. USE ThreadsAssumption
<1>1. /\ stage[t] = "print" /\ stage' = [stage EXCEPT ![t] = "ended"]
      /\ printed' = Append(printed, t)
      /\ UNCHANGED <<kind, numbers, created, last, waits, mstage, x>>
  BY DEF PrintOwn, To
<1>2. kind \in {"chain", "recursion"} /\ printed \in Seq(Int) /\ t \in Int
  <2>1. kind \in {"chain", "recursion", "cancel", "base"} /\ stage[t] \in Stages[kind]
    BY DEF JoinsInv, JTypeOK, Stages
  <2>2. kind \notin {"cancel", "base"}
    BY <1>1, <2>1 DEF Stages
  <2>. QED
    BY <2>1, <2>2 DEF JoinsInv, JTypeOK, Tid
<1>3. /\ printed' \in Seq(Int) /\ Len(printed') = Len(printed) + 1 /\ Len(printed) \in Nat
      /\ \A i \in 1 .. Len(printed) : printed'[i] = printed[i]
      /\ printed'[Len(printed) + 1] = t
  BY <1>1, <1>2, Appended
<1>4. JTypeOK'
  BY <1>1, <1>2, <1>3 DEF JoinsInv, JTypeOK, Stages, MainStages
<1>5. CASE kind = "chain"
  <2>1. t = Len(printed) + 1
    BY <1>1, <1>5 DEF JoinsInv, ChainInv
  <2>2. \A i \in 1 .. Len(printed') : printed'[i] = i
    BY <1>3, <1>5, <2>1 DEF JoinsInv, ChainInv
  <2>3. mstage # "returned"
    BY <1>3, <1>5, <2>1 DEF JoinsInv, ChainInv, Tid
  <2>. HIDE <1>3
  <2>4. ChainInv'
    BY <1>1, <1>3, <1>5, <2>1, <2>2, <2>3 DEF JoinsInv, JTypeOK, ChainInv, Tid
  <2>. QED
    BY <1>1, <1>4, <1>5, <2>4 DEF JoinsInv, RecursionInv, StoredInv
<1>6. CASE kind = "recursion"
  <2>1. t + Len(printed) = numbers /\ numbers \in Nat
    BY <1>1, <1>6 DEF JoinsInv, JTypeOK, RecursionInv
  <2>2. \A i \in 1 .. Len(printed') : printed'[i] = numbers + 1 - i
    BY <1>3, <1>6, <2>1 DEF JoinsInv, RecursionInv
  <2>3. Len(printed') <= numbers
    BY <1>3, <2>1 DEF Tid
  <2>4. ASSUME NEW u \in Tid
        PROVE  /\ stage'[u] # "scan"
               /\ stage'[u] = "join" => u + Len(printed') <= numbers
               /\ stage'[u] # "print"
               /\ stage'[u] = "ended" => u + Len(printed') > numbers
    <3>1. /\ stage[u] = "scan" => u = t \/ stage[t] \in {"none", "join"}
          /\ stage[u] = "join" => u + Len(printed) <= numbers
          /\ stage[u] = "print" => u + Len(printed) = numbers
          /\ stage[u] = "ended" => u + Len(printed) > numbers
      BY <1>6, <2>4 DEF JoinsInv, RecursionInv
    <3>2. stage'[u] = IF u = t THEN "ended" ELSE stage[u]
      BY <1>1, <2>4 DEF JoinsInv, JTypeOK
    <3>3. u \in Int /\ t \in Int
      BY DEF Tid
    <3>. QED
      BY <1>1, <1>3, <2>1, <3>1, <3>2, <3>3
  <2>5. RecursionInv'
    BY <1>1, <1>6, <2>2, <2>3, <2>4 DEF RecursionInv
  <2>. QED
    BY <1>1, <1>4, <1>6, <2>5 DEF JoinsInv, ChainInv, StoredInv
<1>. QED
  BY <1>2, <1>5, <1>6

(* chain: main joins the last thread, and with it all of them. *)
LEMMA ChainReturnKeeps ==
    ASSUME JoinsInv, ChainReturn
    PROVE  JoinsInv'
<1>. USE ThreadsAssumption
<1>1. /\ kind = "chain" /\ created = Threads /\ stage[last] = "ended" /\ mstage' = "returned"
      /\ UNCHANGED <<kind, numbers, created, last, waits, stage, x, printed>>
  BY DEF ChainReturn
<1>2. JTypeOK'
  BY <1>1 DEF JoinsInv, JTypeOK, Stages, MainStages
<1>3. Len(printed) = Threads
  <2>1. last = Threads /\ Threads \in Tid
    BY <1>1 DEF JoinsInv, ChainInv, Tid
  <2>. QED
    BY <1>1, <2>1 DEF JoinsInv, JTypeOK, ChainInv
<1>4. ChainInv'
  BY <1>1, <1>3 DEF JoinsInv, ChainInv
<1>. QED
  BY <1>1, <1>2, <1>4 DEF JoinsInv, RecursionInv, StoredInv

(* recursion: a number read starts the next thread, and the end of the numbers ends
   the deepest one. *)
LEMMA RecurseKeeps ==
    ASSUME JoinsInv, NEW t \in Tid, Recurse(t)
    PROVE  JoinsInv'
<1>. USE ThreadsAssumption
<1>1. /\ kind = "recursion" /\ stage[t] = "scan"
      /\ stage' = IF t <= numbers
                  THEN [stage EXCEPT ![t] = "join", ![t + 1] = "scan"]
                  ELSE [stage EXCEPT ![t] = "ended"]
      /\ UNCHANGED <<kind, numbers, created, last, waits, mstage, x, printed>>
  BY DEF Recurse
<1>2. /\ t <= numbers + 1 /\ Len(printed) = 0 /\ numbers \in 0 .. Threads - 1
      /\ \A u \in Tid \ {t} : stage[u] \in {"none", "join"}
  BY <1>1 DEF JoinsInv, JTypeOK, RecursionInv
<1>3. JTypeOK'
  BY <1>1 DEF JoinsInv, JTypeOK, Stages, MainStages
<1>4. RecursionInv'
  <2>1. CASE t <= numbers
    <3>1. t + 1 \in Tid /\ t + 1 # t
      BY <1>2, <2>1 DEF Tid
    <3>2. \A u \in Tid : stage'[u] = IF u = t THEN "join"
                                    ELSE IF u = t + 1 THEN "scan" ELSE stage[u]
      BY <1>1, <2>1, <3>1 DEF JoinsInv, JTypeOK
    <3>3. \A u \in Tid : stage'[u] \in {"none", "join", "scan"} /\ (stage'[u] = "scan" => u = t + 1)
      BY <1>2, <3>2
    <3>4. \A u \in Tid : stage'[u] = "join" => u + Len(printed) <= numbers
      BY <1>1, <1>2, <2>1, <3>2 DEF JoinsInv, RecursionInv, Tid
    <3>5. t + 1 <= numbers + 1
      BY <1>2, <2>1 DEF Tid
    <3>6. Len(printed) <= numbers /\ \A i \in 1 .. Len(printed) : printed[i] = numbers + 1 - i
      BY <1>1 DEF JoinsInv, RecursionInv
    <3>. QED
      BY <1>1, <1>2, <3>3, <3>4, <3>5, <3>6 DEF RecursionInv
  <2>2. CASE t > numbers
    <3>1. t = numbers + 1
      BY <1>2, <2>2 DEF Tid
    <3>. QED
      BY <1>1, <1>2, <2>2, <3>1 DEF JoinsInv, JTypeOK, RecursionInv, Tid
  <2>. QED
    BY <1>2, <2>1, <2>2 DEF Tid
<1>. QED
  BY <1>1, <1>3, <1>4 DEF JoinsInv, ChainInv, StoredInv

(* recursion: a thread whose successor has ended is the next to print. *)
LEMMA JoinNextKeeps ==
    ASSUME JoinsInv, NEW t \in Tid, JoinNext(t)
    PROVE  JoinsInv'
<1>. USE ThreadsAssumption
<1>1. /\ kind = "recursion" /\ t + 1 \in Tid /\ stage[t + 1] = "ended"
      /\ stage[t] = "join" /\ stage' = [stage EXCEPT ![t] = "print"]
      /\ UNCHANGED <<kind, numbers, created, last, waits, mstage, x, printed>>
  BY DEF JoinNext, To, Tid
<1>2. JTypeOK'
  BY <1>1 DEF JoinsInv, JTypeOK, Stages, MainStages
<1>3. t + Len(printed) = numbers
  <2>1. t + Len(printed) <= numbers /\ (t + 1) + Len(printed) > numbers
    BY <1>1 DEF JoinsInv, RecursionInv
  <2>2. t \in Int /\ numbers \in Int /\ Len(printed) \in Int
    BY DEF JoinsInv, JTypeOK, Tid
  <2>. QED
    BY <2>1, <2>2
<1>4. RecursionInv'
  <2>1. \A u \in Tid : stage'[u] = IF u = t THEN "print" ELSE stage[u]
    BY <1>1 DEF JoinsInv, JTypeOK
  <2>2. \A u \in Tid : stage[u] # "scan"
    <3>. SUFFICES ASSUME NEW u \in Tid, stage[u] = "scan"
                  PROVE  FALSE
      OBVIOUS
    <3>1. u # t + 1 => stage[t + 1] \in {"none", "join"}
      BY <1>1 DEF JoinsInv, RecursionInv
    <3>. QED
      BY <1>1, <3>1
  <2>. QED
    BY <1>1, <1>3, <2>1, <2>2 DEF JoinsInv, RecursionInv
<1>. QED
  BY <1>1, <1>2, <1>4 DEF JoinsInv, ChainInv, StoredInv

(* The steps of the two programs with one thread keep what is said of them. *)
LEMMA OneThreadKeeps ==
    ASSUME JoinsInv, StartOne \/ Cancel \/ StoreX \/ EndOfSleep \/ JoinOne
    PROVE  JoinsInv'
<1>. USE ThreadsAssumption
<1>1. 1 \in Tid
  BY DEF Tid
<1>2. kind \in {"cancel", "base"}
  <2>1. /\ kind \in {"chain", "recursion", "cancel", "base"}
        /\ stage[1] \in Stages[kind] /\ mstage \in MainStages[kind]
    BY <1>1 DEF JoinsInv, JTypeOK, Stages
  <2>2. \/ kind \in {"cancel", "base"} \/ mstage \in {"usleep", "join"}
        \/ stage[1] \in {"store", "sleep"}
    BY <1>1 DEF StartOne, Cancel, StoreX, EndOfSleep, JoinOne, To
  <2>. QED
    BY <2>1, <2>2 DEF Stages, MainStages
<1>3. UNCHANGED <<kind, numbers, created, last, waits>>
  BY DEF StartOne, Cancel, StoreX, EndOfSleep, JoinOne
<1>4. JTypeOK' /\ StoredInv'
  <2>1. CASE StartOne
    BY <1>1, <1>2, <2>1 DEF StartOne, JoinsInv, JTypeOK, StoredInv, Stages, MainStages
  <2>2. CASE Cancel
    BY <1>1, <1>2, <2>2 DEF Cancel, JoinsInv, JTypeOK, StoredInv, Stages, MainStages
  <2>3. CASE StoreX
    BY <1>1, <1>2, <2>3 DEF StoreX, To, JoinsInv, JTypeOK, StoredInv, Stages, MainStages
  <2>4. CASE EndOfSleep
    <3>1. /\ stage[1] = "sleep" /\ x = 12345
          /\ \/ stage' = [stage EXCEPT ![1] = "cancelled"]
             \/ stage' = [stage EXCEPT ![1] = "ended"]
          /\ UNCHANGED <<kind, mstage, x, printed>>
      BY <1>2, <2>4 DEF EndOfSleep, To, JoinsInv, StoredInv
    <3>2. kind = "cancel"
      BY <1>1, <1>2, <3>1 DEF JoinsInv, JTypeOK, Stages
    <3>. QED
      BY <1>1, <1>3, <3>1, <3>2 DEF JoinsInv, JTypeOK, StoredInv, Stages, MainStages
  <2>5. CASE JoinOne
    <3>1. /\ x = 12345 /\ printed' = <<12345>> /\ mstage' = "returned"
          /\ UNCHANGED <<kind, stage, x>>
      BY <1>2, <2>5 DEF JoinOne, JoinsInv, StoredInv
    <3>. QED
      BY <1>1, <1>2, <1>3, <3>1 DEF JoinsInv, JTypeOK, StoredInv, Stages, MainStages
  <2>. QED
    BY <2>1, <2>2, <2>3, <2>4, <2>5
<1>. QED
  BY <1>2, <1>3, <1>4 DEF JoinsInv, ChainInv, RecursionInv

(* JoinsInv is an invariant of the four programs, with any number of threads. *)
THEOREM JoinsInvariant == JSpec => []JoinsInv
<1>1. JoinsInv /\ [JNext]_jvars => JoinsInv'
  <2>. SUFFICES ASSUME JoinsInv, [JNext]_jvars
                PROVE  JoinsInv'
    OBVIOUS
  <2>1. CASE StartOne \/ Cancel \/ StoreX \/ EndOfSleep \/ JoinOne
    BY <2>1, OneThreadKeeps
  <2>2. CASE UNCHANGED jvars
    BY <2>2 DEF jvars, JoinsInv, JTypeOK, ChainInv, RecursionInv, StoredInv
  <2>. QED
    BY <2>1, <2>2, ChainCreateKeeps, JoinPreviousKeeps, PrintOwnKeeps, ChainReturnKeeps,
       RecurseKeeps, JoinNextKeeps DEF JNext
<1>. QED
  BY <1>1, JoinsInvInit, PTL DEF JSpec

(* What the four programs print does not depend on how their threads run. *)
THEOREM JoinsPrint == JSpec => []WhatIsPrinted
<1>1. JoinsInv => WhatIsPrinted
  <2>. SUFFICES ASSUME JoinsInv
                PROVE  WhatIsPrinted
    OBVIOUS
  <2>1. ASSUME kind = "chain", mstage = "returned"
        PROVE  (\A t \in Tid : stage[t] = "ended") /\ printed = [t \in Tid |-> t]
    <3>1. /\ printed \in Seq(Int) /\ Len(printed) = Threads
          /\ \A i \in 1 .. Len(printed) : printed[i] = i
          /\ \A t \in Tid : t <= Len(printed) => stage[t] = "ended"
      BY <2>1 DEF JoinsInv, JTypeOK, ChainInv
    <3>. QED
      BY <3>1, ThreadsAssumption DEF Tid
  <2>2. ASSUME kind = "recursion", stage[1] = "ended"
        PROVE  printed = Reverse([t \in 1 .. numbers |-> t])
    <3>. DEFINE read == [t \in 1 .. numbers |-> t]
    <3>1. numbers \in Nat /\ read \in Seq(Int) /\ Len(read) = numbers
      BY ThreadsAssumption DEF JoinsInv, JTypeOK
    <3>2. Reverse(read) = [i \in 1 .. numbers |-> numbers + 1 - i]
      BY <3>1 DEF Reverse
    <3>3. /\ printed \in Seq(Int) /\ Len(printed) = numbers
          /\ \A i \in 1 .. Len(printed) : printed[i] = numbers + 1 - i
      BY <2>2, ThreadsAssumption DEF JoinsInv, JTypeOK, RecursionInv, Tid
    <3>. HIDE DEF read
    <3>4. printed = [i \in 1 .. numbers |-> numbers + 1 - i]
      BY <3>1, <3>3
    <3>. QED
      BY <3>2, <3>4 DEF read
  <2>3. kind \in {"cancel", "base"} /\ mstage = "returned" => printed = <<12345>>
    BY DEF JoinsInv, StoredInv
  <2>. QED
    BY <2>1, <2>2, <2>3 DEF WhatIsPrinted
<1>. QED
  BY <1>1, JoinsInvariant, PTL

(***************************************************************************)
(* The lock-free list (AtomicList): it implements the abstract push.       *)
(***************************************************************************)

Link_ == Node \cup {NULL}

(* What a push relies on at its swap: its node already points to the head it has
   loaded, and no other node may be changed any more. *)
ListInv == /\ head \in Link_
           /\ next \in [Node -> Link_]
           /\ current \in [Node -> Link_]
           /\ at \in [Node -> {"load", "link", "swap", "done"}]
           /\ head \in Pushed \cup {NULL}
           /\ \A n \in Node : at[n] = "swap" => next[n] = current[n]

(* ListInv holds when the threads start. *)
LEMMA ListInvInit == LInit => ListInv
  BY DEF LInit, ListInv, Link_, Pushed

(* Every step of atomic_push keeps ListInv. *)
LEMMA ListInvNext == ListInv /\ [LNext]_lvars => ListInv'
<1> SUFFICES ASSUME ListInv, [LNext]_lvars PROVE ListInv'
  OBVIOUS
<1> USE DEF ListInv, Link_, Pushed, LGoto
<1>1. ASSUME NEW n \in Node, LoadHead(n) PROVE ListInv'
  BY <1>1 DEF LoadHead
<1>2. ASSUME NEW n \in Node, Link(n) PROVE ListInv'
  BY <1>2 DEF Link
<1>3. ASSUME NEW n \in Node, Swap(n) PROVE ListInv'
  BY <1>3 DEF Swap
<1>4. ASSUME NEW n \in Node, SwapFails(n) PROVE ListInv'
  BY <1>4 DEF SwapFails
<1>5. CASE UNCHANGED lvars
  BY <1>5 DEF lvars
<1> QED BY <1>1, <1>2, <1>3, <1>4, <1>5 DEF LNext

(* The inductive invariant of atomic_push (lines 15-23). *)
THEOREM ListInvariant == LSpec => []ListInv
  BY ListInvInit, ListInvNext, PTL DEF LSpec

Chain == [n \in Pushed |-> next[n]]

(* A step that pushes nothing leaves the list as it is: it changes at most the
   next field of a node that is not in the list. *)
LEMMA NoPush ==
  ASSUME ListInv, NEW n \in Node, at[n] # "done", at' = [at EXCEPT ![n] = at'[n]],
         at'[n] # "done", head' = head,
         \A m \in Node \ {n} : next'[m] = next[m]
  PROVE  UNCHANGED <<head, Chain>>
<1>1. Pushed' = Pushed /\ n \notin Pushed
  BY DEF ListInv, Pushed
<1>2. \A m \in Pushed : next'[m] = next[m]
  BY <1>1 DEF Pushed
<1> QED BY <1>1, <1>2 DEF Chain

(* A successful swap is the push of its node in front of the head. *)
LEMMA SwapPushes ==
  ASSUME ListInv, NEW n \in Node, Swap(n)
  PROVE  List!Push(n)
<1>1. Pushed' = Pushed \cup {n} /\ n \notin Pushed
  BY DEF ListInv, Pushed, Swap, LGoto
<1>2. next' = next /\ next[n] = head /\ head' = n
  BY DEF ListInv, Swap, LGoto
<1>3. DOMAIN Chain = Pushed /\ \A m \in Pushed : Chain[m] = next[m]
  BY DEF Chain
<1>4. Chain' = [m \in Pushed \cup {n} |-> IF m = n THEN head ELSE Chain[m]]
  BY <1>1, <1>2, <1>3 DEF Chain
<1> QED BY <1>1, <1>2, <1>3, <1>4 DEF List!Push, Chain

(* Each step is a push or changes nothing of the list. *)
LEMMA StepRefines == ListInv /\ [LNext]_lvars => [List!PushNext]_<<head, Chain>>
<1> SUFFICES ASSUME ListInv, [LNext]_lvars PROVE [List!PushNext]_<<head, Chain>>
  OBVIOUS
<1>1. ASSUME NEW n \in Node, LoadHead(n) PROVE UNCHANGED <<head, Chain>>
  <2>1. /\ at[n] # "done" /\ at' = [at EXCEPT ![n] = at'[n]] /\ at'[n] # "done"
        /\ head' = head /\ next' = next
    BY <1>1 DEF LoadHead, LGoto, ListInv
  <2> QED BY <2>1, NoPush
<1>2. ASSUME NEW n \in Node, Link(n) PROVE UNCHANGED <<head, Chain>>
  <2>1. /\ at[n] # "done" /\ at' = [at EXCEPT ![n] = at'[n]] /\ at'[n] # "done"
        /\ head' = head /\ \A m \in Node \ {n} : next'[m] = next[m]
    BY <1>2 DEF Link, LGoto, ListInv
  <2> QED BY <2>1, NoPush
<1>3. ASSUME NEW n \in Node, Swap(n) PROVE List!PushNext
  BY <1>3, SwapPushes DEF List!PushNext
<1>4. ASSUME NEW n \in Node, SwapFails(n) PROVE UNCHANGED <<head, Chain>>
  <2>1. /\ at[n] # "done" /\ at' = [at EXCEPT ![n] = at'[n]] /\ at'[n] # "done"
        /\ head' = head /\ next' = next
    BY <1>4 DEF SwapFails, LGoto, ListInv
  <2> QED BY <2>1, NoPush
<1>5. CASE UNCHANGED lvars
  BY <1>5 DEF lvars, Chain, Pushed
<1> QED BY <1>1, <1>2, <1>3, <1>4, <1>5 DEF LNext

(* atomic_push takes effect in one step, in front of what is the head then, for
   any number of threads and any failures of the compare-and-swap. *)
THEOREM PushRefinement == LSpec => ImplementsPush
<1>1. LInit => List!PushInit
  BY DEF LInit, List!PushInit, Pushed
<1>2. ListInv /\ [LNext]_lvars => [List!PushNext]_<<head, [n \in Pushed |-> next[n]]>>
  BY StepRefines DEF Chain
<1> QED BY <1>1, <1>2, ListInvariant, PTL DEF LSpec, ImplementsPush, List!PushSpec

(***************************************************************************)
(* The callback of async_vector (AsyncVector) comes once and last.         *)
(***************************************************************************)

Doing == {"none", "apply", "store", "count", "call", "ended"}
Datum == {"unset", "freed", "ins"}
Left == {"destroyed", "exited"}

(* The elements that are in the count. *)
Counted == {i \in Element : doing[i] \in {"call", "ended"}}

ATypes == /\ size \in Nat
          /\ launched \in 0 .. size
          /\ caller \in {"launch", "sleep"} \cup Left
          /\ doing \in [Element -> Doing]
          /\ argument \in [Element -> Datum]
          /\ output \in [Element -> Datum]
          /\ complete_count \in Nat
          /\ calls \in Seq([Element -> Datum])

(* Each element has been through the steps before the one it is at. *)
Progress == \A i \in Element :
    /\ i > launched => doing[i] = "none"
    /\ doing[i] = "store" => argument[i] # "unset"
    /\ doing[i] \in {"count", "call", "ended"} => output[i] # "unset"

(* Freed memory is read only after main has left. *)
FreedAfterLeft == \A i \in Element :
    (argument[i] = "freed" \/ output[i] = "freed") => caller \in Left

CountIsExact == complete_count = Cardinality(Counted)

(* Who is to call back has seen the last count, and nobody calls beside or after
   another. *)
OneCaller ==
    /\ \A i \in Element : doing[i] = "call" =>
           /\ Counted = Element
           /\ calls = <<>>
           /\ \A j \in Element : doing[j] = "call" => j = i
    /\ calls # <<>> => /\ Counted = Element
                       /\ Len(calls) = 1
                       /\ \A i \in Element : doing[i] = "ended"

AInv == ATypes /\ Progress /\ FreedAfterLeft /\ CountIsExact /\ OneCaller /\ CallbackAfterAll

(* There are size elements, and finitely many of them are counted. *)
LEMMA CountedFinite ==
    ASSUME size \in Nat
    PROVE  /\ IsFiniteSet(Element) /\ Cardinality(Element) = size
           /\ IsFiniteSet(Counted) /\ Cardinality(Counted) \in Nat
<1>1. IsFiniteSet(Element) /\ Cardinality(Element) = size
  BY FS_Interval DEF Element
<1>2. Counted \in SUBSET Element
  BY DEF Counted
<1> QED BY <1>1, <1>2, FS_Subset, FS_CardinalityType

(* AInv holds when async_vector is called. *)
LEMMA AInvInit == AInit => AInv
<1> SUFFICES ASSUME AInit PROVE AInv
  OBVIOUS
<1>1. size \in Nat
  BY MaxSizeAssumption DEF AInit
<1>2. Counted = {}
  BY DEF AInit, Counted
<1>3. CountIsExact
  BY <1>2, FS_EmptySet DEF CountIsExact, AInit
<1>4. ATypes
  BY <1>1 DEF ATypes, AInit, Doing, Datum
<1>5. Progress /\ FreedAfterLeft /\ OneCaller /\ CallbackAfterAll
  BY DEF Progress, FreedAfterLeft, OneCaller, CallbackAfterAll, AInit
<1> QED BY <1>3, <1>4, <1>5 DEF AInv

(* A step that neither counts nor calls keeps the set of those counted. *)
LEMMA SameCounted ==
    ASSUME NEW i \in Element, NEW from, NEW to, ATypes, Step(i, from, to),
           (from \in {"call", "ended"}) <=> (to \in {"call", "ended"})
    PROVE  Counted' = Counted
  BY DEF Counted, Step, ATypes, Element

(* Every step of the launching loop, of main and of a thread keeps AInv. *)
LEMMA AInvNext == AInv /\ [ANext]_avars => AInv'
<1> SUFFICES ASSUME AInv, [ANext]_avars PROVE AInv'
  OBVIOUS
<1> USE DEF AInv
<1>1. CASE Launch
  <2>1. CASE launched < size
    <3>1. /\ launched' = launched + 1
          /\ launched' \in Element
          /\ doing' = [doing EXCEPT ![launched'] = "apply"]
          /\ UNCHANGED <<caller, size, argument, output, complete_count, calls>>
      BY <1>1, <2>1 DEF Launch, ATypes, Element
    <3>2. doing[launched'] = "none"
      BY <3>1 DEF Progress, ATypes, Element
    <3>3. Counted' = Counted
      BY <3>1, <3>2 DEF Counted, ATypes, Element
    <3>4. ATypes'
      BY <3>1 DEF ATypes, Element, Doing, Left
    <3>5. Progress'
      BY <3>1 DEF Progress, ATypes, Element
    <3>6. OneCaller'
      BY <3>1, <3>2, <3>3 DEF OneCaller, ATypes, Element
    <3>7. FreedAfterLeft' /\ CountIsExact' /\ CallbackAfterAll'
      BY <3>1, <3>3 DEF FreedAfterLeft, CountIsExact, CallbackAfterAll, Element
    <3> QED BY <3>4, <3>5, <3>6, <3>7
  <2>2. CASE ~(launched < size)
    <3>1. caller = "launch" /\ caller' = "sleep"
          /\ UNCHANGED <<size, launched, doing, argument, output, complete_count, calls>>
      BY <1>1, <2>2 DEF Launch
    <3> QED BY <3>1 DEF ATypes, Progress, FreedAfterLeft, CountIsExact, OneCaller,
                        CallbackAfterAll, Counted, Element, Left
  <2> QED BY <2>1, <2>2
<1>2. CASE MainReturns
  BY <1>2 DEF MainReturns, ATypes, Progress, FreedAfterLeft, CountIsExact, OneCaller,
              CallbackAfterAll, Counted, Element, Left
<1>3. ASSUME NEW i \in Element, Apply(i) PROVE AInv'
  <2>1. Counted' = Counted
    BY <1>3, SameCounted DEF Apply
  <2>2. ATypes'
    BY <1>3 DEF Apply, Step, ATypes, Element, Doing, Datum
  <2>3. Progress'
    BY <1>3 DEF Apply, Step, ATypes, Progress, Element
  <2>4. FreedAfterLeft'
    BY <1>3 DEF Apply, Step, ATypes, FreedAfterLeft, Element, Left
  <2>5. OneCaller'
    BY <1>3, <2>1 DEF Apply, Step, ATypes, OneCaller, Element
  <2>6. CountIsExact' /\ CallbackAfterAll'
    BY <1>3, <2>1 DEF Apply, Step, CountIsExact, CallbackAfterAll, Element
  <2> QED BY <2>2, <2>3, <2>4, <2>5, <2>6
<1>4. ASSUME NEW i \in Element, StoreOutput(i) PROVE AInv'
  <2>1. Counted' = Counted
    BY <1>4, SameCounted DEF StoreOutput
  <2>2. ATypes'
    BY <1>4 DEF StoreOutput, Step, ATypes, Element, Doing, Datum
  <2>3. Progress'
    BY <1>4 DEF StoreOutput, Step, ATypes, Progress, Element
  <2>4. FreedAfterLeft'
    BY <1>4 DEF StoreOutput, Step, ATypes, FreedAfterLeft, Element, Left
  <2>5. OneCaller'
    BY <1>4, <2>1 DEF StoreOutput, Step, ATypes, OneCaller, Element
  <2>6. CountIsExact' /\ CallbackAfterAll'
    BY <1>4, <2>1 DEF StoreOutput, Step, CountIsExact, CallbackAfterAll, Element
  <2> QED BY <2>2, <2>3, <2>4, <2>5, <2>6
<1>5. ASSUME NEW i \in Element, Count(i) PROVE AInv'
  <2> DEFINE to == IF complete_count + 1 = size THEN "call" ELSE "ended"
  <2>1. /\ doing[i] = "count" /\ doing' = [doing EXCEPT ![i] = to]
        /\ complete_count' = complete_count + 1
        /\ UNCHANGED <<size, launched, caller, argument, output, calls>>
    BY <1>5 DEF Count, Step
  <2>2. i \notin Counted /\ Counted' = Counted \cup {i}
    BY <2>1 DEF Counted, ATypes, Element
  <2>3. size' \in Nat /\ size \in Nat
    BY <2>1 DEF ATypes
  <2>4. CountIsExact'
    BY <2>1, <2>2, <2>3, CountedFinite, FS_AddElement DEF CountIsExact
  <2>5. to = "call" => Counted' = Element /\ Element' = Element
    <3>1. Cardinality(Counted') = complete_count + 1
      BY <2>1, <2>4 DEF CountIsExact
    <3>2. Counted' \in SUBSET Element
      BY <2>1 DEF Counted, Element
    <3>3. IsFiniteSet(Element) /\ Cardinality(Element) = size
      BY <2>3, CountedFinite
    <3> QED BY <2>1, <3>1, <3>2, <3>3, FS_Subset DEF Element
  <2>6. calls = <<>> /\ \A j \in Element : doing[j] # "call"
    BY <2>2 DEF OneCaller
  <2>7. OneCaller'
    BY <2>1, <2>5, <2>6 DEF OneCaller, ATypes, Element
  <2>8. ATypes'
    BY <2>1 DEF ATypes, Element, Doing
  <2>9. Progress'
    BY <2>1 DEF ATypes, Progress, Element
  <2>10. FreedAfterLeft' /\ CallbackAfterAll'
    BY <2>1 DEF FreedAfterLeft, CallbackAfterAll, Element
  <2> QED BY <2>4, <2>7, <2>8, <2>9, <2>10
<1>6. ASSUME NEW i \in Element, Callback(i) PROVE AInv'
  <2>1. /\ doing[i] = "call" /\ doing' = [doing EXCEPT ![i] = "ended"]
        /\ calls' = Append(calls, output)
        /\ UNCHANGED <<size, launched, caller, argument, output, complete_count>>
    BY <1>6 DEF Callback, Step
  <2>2. Counted' = Counted
    BY <1>6, SameCounted DEF Callback
  <2>3. /\ Counted = Element
        /\ calls = <<>>
        /\ \A j \in Element : j # i => doing[j] = "ended"
    BY <2>1 DEF OneCaller, Counted
  <2>4. calls' = <<output>>
    BY <2>1, <2>3
  <2>5. ATypes'
    BY <2>1, <2>4 DEF ATypes, Element, Doing
  <2>6. Progress'
    BY <2>1 DEF ATypes, Progress, Element
  <2>7. OneCaller'
    BY <2>1, <2>2, <2>3, <2>4 DEF OneCaller, ATypes, Element
  <2>8. CountIsExact'
    BY <2>1, <2>2 DEF CountIsExact
  <2>9. FreedAfterLeft'
    BY <2>1 DEF FreedAfterLeft, Element
  <2>10. CallbackAfterAll'
    <3>1. \A j \in Element : output[j] # "unset"
      BY <2>1, <2>3 DEF Progress
    <3> QED BY <2>1, <2>4, <3>1 DEF CallbackAfterAll, FreedAfterLeft, Element, Left
  <2> QED BY <2>5, <2>6, <2>7, <2>8, <2>9, <2>10
<1>7. CASE UNCHANGED avars
  BY <1>7 DEF avars, ATypes, Progress, FreedAfterLeft, CountIsExact, OneCaller,
              CallbackAfterAll, Counted, Element, Left
<1> QED
  BY <1>1, <1>2, <1>3, <1>4, <1>5, <1>6, <1>7 DEF ANext, AnyThreadStep, ThreadStep

(* The inductive invariant: the count is that of the elements stored and counted,
   and whoever calls back is the only one and has seen it full. *)
THEOREM VectorInvariant == ASpec => []AInv
  BY AInvInit, AInvNext, PTL DEF ASpec

(* For vectors of any size the callback comes at most once, after every output
   has been stored; only main's leaving can spoil one (lines 54-62). *)
THEOREM VectorCallbackAfterAll == ASpec => []CallbackAfterAll
<1>1. AInv => CallbackAfterAll
  BY DEF AInv
<1> QED BY <1>1, VectorInvariant, PTL

(***************************************************************************)
(* Children around pipes (Pipes).                                          *)
(***************************************************************************)

End == Pipe \X {"read", "write"}
Place == {"none", "setup", "runs", "writes", "kick", "scan", "answer", "killed", "ended"}

Reason == {"sigpipe", "killed", "no exec", "exit", "eof", "quit", "number", "max"}

PTypeOK == /\ program \in DOMAIN Script
           /\ step \in Nat \ {0}
           /\ pc \in [Child -> Place]
           /\ how \in [Child -> Reason \cup {"none"}]
           /\ open \in [Process -> SUBSET End]
           /\ unread \in [Pipe -> Nat]

(* Where main forks a child, in each of the four scripts. *)
ForkedAt(c) == IF c = "one" THEN 1 ELSE IF program = "pipeline" THEN 3 ELSE 2

(* A child has not started before main is there; one that has not started, or has
   ended, holds no end; and only children that have ended are waited for. *)
ChildrenInv == /\ \A c \in Child : step <= ForkedAt(c) => pc[c] = "none"
               /\ \A c \in Child : pc[c] \in {"none", "ended"} => open[c] = {}
               /\ \A c \in reaped : c \in Child /\ pc[c] = "ended"

(* signals.c: main closes its read end, and the child that has the other one is
   killed and waited for, before main writes. *)
SigpipeInv ==
    program = "sigpipe" =>
        /\ pc["two"] = "none"
        /\ pc["one"] \in {"none", "setup", "runs", "killed", "ended"}
        /\ step = 1 => pc["one"] = "none"
        /\ step > 2 => R("a") \notin open["main"]
        /\ step > 3 => pc["one"] \in {"none", "killed", "ended"}
        /\ step > 4 => pc["one"] \in {"none", "ended"}
        /\ step > 5 => handled

(* The ends a player of task17_4.c holds from its start to its end. *)
Holds(c) == IF pc[c] \in {"none", "ended"} THEN {}
            ELSE IF pc[c] = "setup" THEN End ELSE {R(In(c)), W(Out(c))}

(* The exchange: child two has yet to send its number, it is in pipe b, or child
   one has it and is gone.  Child two finds an end of file only when main, too,
   has closed its ends, and then nobody can read what it answers. *)
NotSent == pc["one"] \in {"setup", "scan"} /\ pc["two"] \in {"none", "setup", "kick"} /\ unread["b"] = 0
Sent == pc["one"] \in {"setup", "scan"} /\ pc["two"] = "scan" /\ unread["b"] = 1
Received == /\ pc["one"] = "ended" /\ how["one"] = "number" /\ unread["b"] = 0
            /\ \/ pc["two"] = "scan"
               \/ pc["two"] = "answer" /\ step > 3
               \/ pc["two"] = "ended" /\ how["two"] \in {"sigpipe", "max"}

BothStart == pc["one"] # "none" /\ (pc["two"] # "none" \/ step <= 2)

MainPlays ==
    /\ open["main"] = IF step <= 3 THEN End ELSE {}
    /\ step = 1 => pc["one"] = "none" /\ unread["b"] = 0 /\ unread["a"] = 0
    /\ step <= 2 => pc["two"] = "none"
    /\ step > 4 => pc["two"] \in {"none", "ended"}
    /\ step > 5 => pc["one"] \in {"none", "ended"}

Exchange ==
    BothStart => /\ \A c \in Child : open[c] = Holds(c)
                 /\ unread["a"] = 0
                 /\ NotSent \/ Sent \/ Received

PlayersInv == program = "pingpong" => MainPlays /\ Exchange

PipesInv == PTypeOK /\ ChildrenInv /\ SigpipeInv /\ PlayersInv

(* The steps of main, numbered as in the scripts. *)
LEMMA SigpipeScript ==
    ASSUME program = "sigpipe", step \in Nat \ {0}
    PROVE  /\ \A c : At("fork", c) => step = 1 /\ c = "one"
           /\ \A ends : At("close", ends) => step = 2 /\ ends = {R("a")}
           /\ \A c : At("kill", c) => step = 3 /\ c = "one"
           /\ \A c : At("wait", c) => step = 4 /\ c = "one"
           /\ \A p : At("write", p) => step = 5 /\ p = "a"
           /\ \A s : At("raise", s) => step = 6
<1>1. Script[program] = SigpipePoc
  BY DEF Script
<1>2. /\ Len(SigpipePoc) = 6
      /\ SigpipePoc[1] = <<"fork", "one">> /\ SigpipePoc[2] = <<"close", {R("a")}>>
      /\ SigpipePoc[3] = <<"kill", "one">> /\ SigpipePoc[4] = <<"wait", "one">>
      /\ SigpipePoc[5] = <<"write", "a">> /\ SigpipePoc[6] = <<"raise", "SIGSEGV">>
  BY DEF SigpipePoc, ForkStep, Close, WaitStep
<1>. HIDE DEF SigpipePoc
<1>3. ASSUME step <= 6
      PROVE  step = 1 \/ step = 2 \/ step = 3 \/ step = 4 \/ step = 5 \/ step = 6
  BY <1>3
<1>. QED
  BY <1>1, <1>2, <1>3 DEF At

LEMMA PlayersScript ==
    ASSUME program = "pingpong", step \in Nat \ {0}
    PROVE  /\ \A c : At("fork", c) => \/ step = 1 /\ c = "one"
                                      \/ step = 2 /\ c = "two"
           /\ \A ends : At("close", ends) => step = 3 /\ ends = {R("a"), W("a"), R("b"), W("b")}
           /\ \A c : At("wait", c) => \/ step = 4 /\ c = "two"
                                      \/ step = 5 /\ c = "one"
           /\ \A c : ~At("kill", c) /\ ~At("write", c) /\ ~At("raise", c)
<1>1. Script[program] = PingPong
  BY DEF Script
<1>2. /\ Len(PingPong) = 5
      /\ PingPong[1] = <<"fork", "one">> /\ PingPong[2] = <<"fork", "two">>
      /\ PingPong[3] = <<"close", {R("a"), W("a"), R("b"), W("b")}>>
      /\ PingPong[4] = <<"wait", "two">> /\ PingPong[5] = <<"wait", "one">>
  BY DEF PingPong, ForkStep, Close, WaitStep
<1>. HIDE DEF PingPong
<1>3. ASSUME step <= 5
      PROVE  step = 1 \/ step = 2 \/ step = 3 \/ step = 4 \/ step = 5
  BY <1>3
<1>. QED
  BY <1>1, <1>2, <1>3 DEF At

(* The four ends are what a pipe has. *)
LEMMA EndFacts ==
    /\ End = {R("a"), W("a"), R("b"), W("b")}
    /\ R("a") # W("a") /\ R("a") # R("b") /\ R("a") # W("b")
    /\ W("a") # R("b") /\ W("a") # W("b") /\ R("b") # W("b")
BY DEF End, Pipe, R, W

(* main forks each child once. *)
LEMMA ForkedOnce ==
    ASSUME program \in DOMAIN Script, step \in Nat \ {0}, NEW c \in Child, At("fork", c)
    PROVE  step = ForkedAt(c)
<1>1. program \in {"pipeline", "pingpong", "sigpipe", "exec"}
  BY DEF Script
<1>2. CASE program = "pipeline"
  <2>1. Script[program] = Pipeline /\ Len(Pipeline) = 6
    BY <1>2 DEF Script, Pipeline
  <2>2. /\ Pipeline[1] = <<"fork", "one">> /\ Pipeline[2] = <<"close", {W("a")}>>
        /\ Pipeline[3] = <<"fork", "two">> /\ Pipeline[4] = <<"close", {R("a")}>>
        /\ Pipeline[5] = <<"wait", "one">> /\ Pipeline[6] = <<"wait", "two">>
    BY DEF Pipeline, ForkStep, Close, WaitStep
  <2>3. step = 1 \/ step = 2 \/ step = 3 \/ step = 4 \/ step = 5 \/ step = 6
    BY <2>1 DEF At
  <2>. HIDE DEF Pipeline
  <2>. QED
    BY <1>2, <2>1, <2>2, <2>3 DEF At, ForkedAt
<1>3. CASE program = "exec"
  <2>1. Script[program] = ExecTest /\ Len(ExecTest) = 2
    BY <1>3 DEF Script, ExecTest
  <2>2. ExecTest[1] = <<"fork", "one">> /\ ExecTest[2] = <<"wait", "one">>
    BY DEF ExecTest, ForkStep, WaitStep
  <2>3. step = 1 \/ step = 2
    BY <2>1 DEF At
  <2>. HIDE DEF ExecTest
  <2>. QED
    BY <1>3, <2>1, <2>2, <2>3 DEF At, ForkedAt
<1>. QED
  BY <1>1, <1>2, <1>3, SigpipeScript, PlayersScript DEF ForkedAt

(* A child that is waited for by its pid has ended. *)
LEMMA WaitedHasEnded ==
    ASSUME ChildrenInv, NEW c \in Child, WaitPid(c)
    PROVE  pc[c] \in {"none", "ended"}
BY DEF WaitPid, Unreaped, ChildrenInv

(* PipesInv holds when the programs start. *)
LEMMA PipesInvInit == Init => PipesInv
<1>. SUFFICES ASSUME Init
              PROVE  PipesInv
  OBVIOUS
<1>1. PTypeOK /\ ChildrenInv
  BY DEF Init, PTypeOK, ChildrenInv, PipesOf, End, Place, Process, Child, Pipe
<1>2. SigpipeInv
  BY DEF Init, SigpipeInv, Child
<1>3. PlayersInv
  <2>1. program = "pingpong" => PipesOf(program) = Pipe
    BY DEF PipesOf
  <2>. QED
    BY <2>1 DEF Init, PlayersInv, MainPlays, Exchange, BothStart, Child, Process, End, Pipe
<1>. QED
  BY <1>1, <1>2, <1>3 DEF PipesInv


(* A byte more or less in a pipe. *)
LEMMA CountKept ==
    ASSUME unread \in [Pipe -> Nat], NEW p \in Pipe,
           \/ unread' = unread
           \/ unread' = [unread EXCEPT ![p] = @ + 1]
           \/ unread[p] > 0 /\ unread' = [unread EXCEPT ![p] = @ - 1]
    PROVE  unread' \in [Pipe -> Nat]
<1>1. unread[p] \in Nat
  OBVIOUS
<1>2. CASE unread' = [unread EXCEPT ![p] = @ + 1]
  <2>1. unread[p] + 1 \in Nat
    BY <1>1
  <2>. QED
    BY <1>2, <2>1
<1>3. CASE unread[p] > 0 /\ unread' = [unread EXCEPT ![p] = @ - 1]
  <2>1. unread[p] - 1 \in Nat
    BY <1>1, <1>3
  <2>. QED
    BY <1>3, <2>1
<1>. QED
  BY <1>2, <1>3

(* A child that ends leaves its ends. *)
LEMMA ChildEnds ==
    ASSUME PTypeOK, ChildrenInv, NEW c \in Child, pc[c] # "none", NEW reason \in Reason,
           Ends(c, reason), UNCHANGED <<program, step, reaped>>, unread' \in [Pipe -> Nat]
    PROVE  PTypeOK' /\ ChildrenInv'
<1>1. /\ pc' = [pc EXCEPT ![c] = "ended"] /\ how' = [how EXCEPT ![c] = reason]
      /\ open' = [open EXCEPT ![c] = {}]
  BY DEF Ends
<1>2. pc' \in [Child -> Place] /\ how' \in [Child -> Reason \cup {"none"}]
  BY <1>1 DEF PTypeOK, Place
<1>3. open' \in [Process -> SUBSET End]
  BY <1>1 DEF PTypeOK
<1>4. \A d \in Child : /\ pc'[d] = IF d = c THEN "ended" ELSE pc[d]
                       /\ open'[d] = IF d = c THEN {} ELSE open[d]
  BY <1>1 DEF PTypeOK, Process
<1>5. PTypeOK'
  BY <1>2, <1>3 DEF PTypeOK
<1>6. ChildrenInv'
  BY <1>4 DEF ChildrenInv, ForkedAt
<1>. QED
  BY <1>5, <1>6

(* A child that goes on keeps its ends or drops some. *)
LEMMA ChildGoesOn ==
    ASSUME PTypeOK, ChildrenInv, NEW c \in Child, pc[c] \notin {"none", "ended"},
           NEW to \in Place \ {"none", "ended"}, pc' = [pc EXCEPT ![c] = to],
           open' = open \/ \E ends : open' = [open EXCEPT ![c] = @ \ ends],
           UNCHANGED <<program, step, reaped, how>>, unread' \in [Pipe -> Nat]
    PROVE  PTypeOK' /\ ChildrenInv'
<1>1. pc' \in [Child -> Place]
  BY DEF PTypeOK
<1>2. /\ open' \in [Process -> SUBSET End]
      /\ \A d \in Child : open'[d] = open[d] \/ d = c
  BY DEF PTypeOK, Process
<1>3. \A d \in Child : pc'[d] = IF d = c THEN to ELSE pc[d]
  BY DEF PTypeOK
<1>4. PTypeOK'
  BY <1>1, <1>2 DEF PTypeOK
<1>5. ChildrenInv'
  BY <1>2, <1>3 DEF ChildrenInv, ForkedAt
<1>. QED
  BY <1>4, <1>5

(* main goes on to a later step, having closed some ends or waited for a child. *)
LEMMA MainGoesOn ==
    ASSUME PTypeOK, ChildrenInv, Advance, UNCHANGED <<pc, how>>,
           open' = open \/ \E ends : open' = [open EXCEPT !["main"] = @ \ ends],
           \A c \in reaped' : c \in reaped \/ (c \in Child /\ pc[c] = "ended"),
           unread' \in [Pipe -> Nat]
    PROVE  PTypeOK' /\ ChildrenInv'
<1>1. step \in Nat \ {0}
  BY DEF PTypeOK
<1>2. step' \in Nat \ {0} /\ step' > step /\ program' = program
  BY <1>1 DEF Advance
<1>3. open \in [Process -> SUBSET End]
  BY DEF PTypeOK
<1>4. open' \in [Process -> SUBSET End] /\ \A d \in Child : open'[d] = open[d]
  BY <1>3 DEF Process, Child
<1>5. PTypeOK'
  BY <1>2, <1>4 DEF PTypeOK
<1>6. \A c \in Child : step' <= ForkedAt(c) => step <= ForkedAt(c)
  BY <1>1, <1>2 DEF ForkedAt
<1>7. ChildrenInv'
  BY <1>2, <1>4, <1>6 DEF ChildrenInv, ForkedAt
<1>. QED
  BY <1>5, <1>7

(* A fork that succeeds starts a child with the ends of main. *)
LEMMA ForkKeeps ==
    ASSUME PTypeOK, ChildrenInv, NEW c \in Child, Fork(c)
    PROVE  PTypeOK' /\ ChildrenInv'
<1>1. step = ForkedAt(c) /\ step \in Nat \ {0}
  BY ForkedOnce DEF Fork, PTypeOK
<1>2. pc[c] = "none" /\ c \notin reaped
  BY <1>1 DEF ChildrenInv
<1>3. step' \in Nat \ {0} /\ step' > step /\ UNCHANGED <<program, how, unread, reaped>>
  <2>1. CASE Advance
    BY <1>1, <2>1 DEF Fork, Advance
  <2>2. CASE step' = Len(Script[program]) + 1 /\ program = "exec" /\ program' = program
    <3>1. Script[program] = ExecTest /\ Len(ExecTest) = 2
      BY <2>2 DEF Script, ExecTest
    <3>2. step' = 3 /\ step <= 2
      BY <1>1, <2>2, <3>1 DEF ForkedAt
    <3>. QED
      BY <1>1, <2>2, <3>2 DEF Fork
  <2>. QED
    BY <2>1, <2>2 DEF Fork, Advance
<1>4. \A d \in Child : step' <= ForkedAt(d) => step <= ForkedAt(d) /\ d # c
  BY <1>1, <1>3 DEF ForkedAt
<1>5. CASE UNCHANGED <<pc, open>>
  BY <1>3, <1>4, <1>5 DEF PTypeOK, ChildrenInv, ForkedAt
<1>6. CASE pc' = [pc EXCEPT ![c] = "setup"] /\ open' = [open EXCEPT ![c] = open["main"]]
  <2>1. pc' \in [Child -> Place] /\ open' \in [Process -> SUBSET End]
    BY <1>6 DEF PTypeOK, Place, Process
  <2>2. \A d \in Child : /\ pc'[d] = IF d = c THEN "setup" ELSE pc[d]
                         /\ d # c => open'[d] = open[d]
    BY <1>6 DEF PTypeOK, Process
  <2>3. PTypeOK'
    BY <1>3, <2>1 DEF PTypeOK
  <2>4. ChildrenInv'
    BY <1>2, <1>3, <1>4, <2>2 DEF ChildrenInv, ForkedAt
  <2>. QED
    BY <2>3, <2>4
<1>. QED
  BY <1>5, <1>6 DEF Fork

(* A write goes through or ends the writer. *)
LEMMA WriteOrDieKeeps ==
    ASSUME PTypeOK, ChildrenInv, NEW c \in Child, NEW from \in Place \ {"none", "ended"},
           NEW p \in Pipe, NEW to \in Place \ {"none", "ended"}, WriteOrDie(c, from, p, to)
    PROVE  PTypeOK' /\ ChildrenInv'
<1>1. /\ pc[c] = from /\ UNCHANGED <<program, step, reaped>>
      /\ \/ /\ pc' = [pc EXCEPT ![c] = to] /\ UNCHANGED <<how, open>>
            /\ unread' = [unread EXCEPT ![p] = @ + 1]
         \/ Ends(c, "sigpipe") /\ unread' = unread
  BY DEF WriteOrDie, Goto, Idle
<1>2. unread' \in [Pipe -> Nat]
  <2>1. unread \in [Pipe -> Nat]
    BY DEF PTypeOK
  <2>. QED
    BY <1>1, <2>1, CountKept
<1>. QED
  BY <1>1, <1>2, ChildEnds, ChildGoesOn DEF Reason

(* Every step of main or of a child keeps the types and what is said of the
   children. *)
LEMMA TypesKept ==
    ASSUME PTypeOK, ChildrenInv, Next
    PROVE  PTypeOK' /\ ChildrenInv'
<1>. DEFINE Kept == PTypeOK' /\ ChildrenInv'
<1>1. unread \in [Pipe -> Nat] /\ "one" \in Child /\ "two" \in Child /\ "a" \in Pipe
  BY DEF PTypeOK, Child, Pipe
<1>2. CASE CloseEnds
  <2>1. /\ Advance /\ UNCHANGED <<pc, how, unread, reaped>>
        /\ \E ends : open' = [open EXCEPT !["main"] = @ \ ends]
    BY <1>2 DEF CloseEnds
  <2>. QED
    BY <1>1, <2>1, MainGoesOn
<1>3. CASE Raise
  BY <1>1, <1>3, MainGoesOn DEF Raise
<1>4. CASE WriteHandled("a")
  <2>1. /\ Advance /\ UNCHANGED <<pc, how, open, reaped>>
        /\ unread' = unread \/ unread' = [unread EXCEPT !["a"] = @ + 1]
    BY <1>4 DEF WriteHandled
  <2>2. unread' \in [Pipe -> Nat]
    BY <1>1, <2>1, CountKept
  <2>. QED
    BY <2>1, <2>2, MainGoesOn
<1>5. ASSUME NEW c \in Child, WaitPid(c)
      PROVE  Kept
  <2>1. /\ Advance /\ UNCHANGED <<pc, how, open, unread>>
        /\ \A d \in reaped' : d \in reaped \/ (d \in Child /\ pc[d] = "ended")
    BY <1>5 DEF WaitPid, Unreaped
  <2>. QED
    BY <1>1, <2>1, MainGoesOn
<1>6. ASSUME NEW c \in Child, KillChild(c)
      PROVE  Kept
  <2>1. /\ Advance /\ UNCHANGED <<how, open, unread, reaped>>
        /\ pc' = [pc EXCEPT ![c] = IF @ \in {"none", "ended"} THEN @ ELSE "killed"]
    BY <1>6 DEF KillChild
  <2>2. CASE pc' = pc
    BY <1>1, <2>1, <2>2, MainGoesOn
  <2>3. CASE pc' # pc
    <3>1. pc[c] \notin {"none", "ended"} /\ pc' = [pc EXCEPT ![c] = "killed"]
      BY <2>1, <2>3 DEF PTypeOK
    <3>2. \A d \in Child : pc'[d] = IF d = c THEN "killed" ELSE pc[d]
      BY <3>1 DEF PTypeOK
    <3>3. step \in Nat \ {0} /\ step' \in Nat \ {0} /\ step' > step /\ program' = program
      BY <2>1 DEF PTypeOK, Advance
    <3>4. pc' \in [Child -> Place]
      BY <3>1 DEF PTypeOK, Place
    <3>5. PTypeOK'
      BY <2>1, <3>3, <3>4 DEF PTypeOK
    <3>6. \A d \in Child : step' <= ForkedAt(d) => step <= ForkedAt(d)
      BY <3>3 DEF ForkedAt
    <3>7. ChildrenInv'
      BY <2>1, <3>1, <3>2, <3>3, <3>6 DEF ChildrenInv, ForkedAt
    <3>. QED
      BY <3>5, <3>7
  <2>. QED
    BY <2>2, <2>3
<1>7. ASSUME NEW c \in Child, Deliver(c) \/ Exec(c)
      PROVE  Kept
  <2>1. /\ pc[c] \notin {"none", "ended"} /\ UNCHANGED <<program, step, reaped, unread>>
        /\ \/ Ends(c, "killed") \/ Ends(c, "no exec")
           \/ pc' = [pc EXCEPT ![c] = "runs"] /\ UNCHANGED <<how, open>>
    BY <1>7 DEF Deliver, Exec, Idle, Goto
  <2>. QED
    BY <1>1, <2>1, ChildEnds, ChildGoesOn DEF Reason, Place
<1>8. ASSUME NEW c \in Child, Enter(c)
      PROVE  Kept
  <2>1. PICK to \in {"kick", "scan"} :
           /\ pc[c] = "setup" /\ pc' = [pc EXCEPT ![c] = to]
           /\ \E ends : open' = [open EXCEPT ![c] = @ \ ends]
           /\ UNCHANGED <<program, step, reaped, how, unread>>
    BY <1>8 DEF Enter, Idle, Goto
  <2>. QED
    BY <1>1, <2>1, ChildGoesOn DEF Place
<1>9. ASSUME NEW c \in Child, Kick(c)
      PROVE  Kept
  BY <1>9, WriteOrDieKeeps DEF Kick, Place, Out, Pipe
<1>10. ASSUME NEW c \in Child, Scan(c)
       PROVE  Kept
  <2>1. /\ pc[c] = "scan" /\ UNCHANGED <<program, step, reaped>>
        /\ \/ Ends(c, "number")
           \/ pc' = [pc EXCEPT ![c] = "answer"] /\ UNCHANGED <<how, open>>
        /\ unread' = unread \/ (unread[In(c)] > 0 /\ unread' = [unread EXCEPT ![In(c)] = @ - 1])
    BY <1>10 DEF Scan, Idle, Goto
  <2>2. In(c) \in Pipe
    BY DEF In, Pipe
  <2>3. unread' \in [Pipe -> Nat]
    BY <1>1, <2>1, <2>2, CountKept
  <2>. QED
    BY <2>1, <2>3, ChildEnds, ChildGoesOn DEF Reason, Place
<1>11. ASSUME NEW c \in Child, Answer(c)
       PROVE  Kept
  <2>1. CASE WriteOrDie(c, "answer", Out(c), "scan")
    BY <2>1, WriteOrDieKeeps DEF Place, Out, Pipe
  <2>2. CASE Ends(c, "max") /\ UNCHANGED unread /\ Idle
    BY <1>1, <1>11, <2>2, ChildEnds DEF Answer, Reason, Idle
  <2>. QED
    BY <1>11, <2>1, <2>2 DEF Answer
<1>12. CASE CommandWrites
  <2>1. /\ pc["one"] = "runs" /\ pc' = [pc EXCEPT !["one"] = "writes"]
        /\ UNCHANGED <<program, step, reaped, how, open, unread>>
    BY <1>12 DEF CommandWrites, Goto, Idle
  <2>. QED
    BY <1>1, <2>1, ChildGoesOn DEF Place
<1>13. CASE CommandWrote
  BY <1>1, <1>13, WriteOrDieKeeps DEF CommandWrote, Place
<1>14. CASE CommandEnds
  BY <1>1, <1>14, ChildEnds DEF CommandEnds, Idle, Reason
<1>15. CASE CommandReads
  <2>1. /\ pc["two"] = "runs" /\ UNCHANGED <<program, step, reaped>>
        /\ \/ UNCHANGED <<pc, how, open>> \/ Ends("two", "eof")
        /\ unread' = unread \/ (unread["a"] > 0 /\ unread' = [unread EXCEPT !["a"] = @ - 1])
    BY <1>15 DEF CommandReads, Idle
  <2>2. unread' \in [Pipe -> Nat]
    BY <1>1, <2>1, CountKept
  <2>3. CASE UNCHANGED <<pc, how, open>>
    BY <2>1, <2>2, <2>3 DEF PTypeOK, ChildrenInv, ForkedAt
  <2>. QED
    BY <1>1, <2>1, <2>2, <2>3, ChildEnds DEF Reason
<1>16. CASE CommandQuits
  BY <1>1, <1>16, ChildEnds DEF CommandQuits, Idle, Reason
<1>. QED
  BY <1>2, <1>3, <1>4, <1>5, <1>6, <1>7, <1>8, <1>9, <1>10, <1>11, <1>12, <1>13, <1>14, <1>15,
     <1>16, ForkKeeps DEF Next, MainNext, CommandNext, ChildNext

(* Each program keeps to its own script. *)
LEMMA ProgramKept ==
    ASSUME Next
    PROVE  program' = program
BY DEF Next, MainNext, CommandNext, ChildNext, CloseEnds, Raise, WriteHandled, Fork, WaitPid,
       KillChild, Deliver, Exec, Enter, Kick, Scan, Answer, CommandWrites, CommandWrote,
       CommandEnds, CommandReads, CommandQuits, WriteOrDie, Advance, Idle

(* signals.c: no reader is left when main writes. *)
LEMMA SigpipeKept ==
    ASSUME PTypeOK, ChildrenInv, SigpipeInv, Next
    PROVE  SigpipeInv'
<1>. SUFFICES ASSUME program = "sigpipe"
              PROVE  SigpipeInv'
  BY ProgramKept DEF SigpipeInv
<1>1. /\ step \in Nat \ {0} /\ pc \in [Child -> Place] /\ open \in [Process -> SUBSET End]
      /\ "one" \in Child /\ "two" \in Child /\ "main" \in Process
      /\ pc["two"] = "none"
      /\ pc["one"] \in {"none", "setup", "runs", "killed", "ended"}
      /\ step = 1 => pc["one"] = "none"
      /\ step > 2 => R("a") \notin open["main"]
      /\ step > 3 => pc["one"] \in {"none", "killed", "ended"}
      /\ step > 4 => pc["one"] \in {"none", "ended"}
      /\ step > 5 => handled
  BY DEF PTypeOK, SigpipeInv, Child, Process
<1>2. CASE CloseEnds
  <2>1. step = 2 /\ step' = step + 1 /\ UNCHANGED <<program, pc, handled>>
        /\ open' = [open EXCEPT !["main"] = @ \ {R("a")}]
    BY <1>1, <1>2, SigpipeScript DEF CloseEnds, Advance
  <2>2. R("a") \notin open'["main"] /\ step' = 3
    BY <1>1, <2>1
  <2>. QED
    BY <1>1, <2>1, <2>2 DEF SigpipeInv
<1>3. CASE Raise
  <2>1. step = 6 /\ step' = 7 /\ UNCHANGED <<program, pc, open, handled>>
    BY <1>1, <1>3, SigpipeScript DEF Raise, Advance
  <2>. QED
    BY <1>1, <2>1 DEF SigpipeInv
<1>4. CASE WriteHandled("a")
  <2>1. step = 5 /\ step' = 6 /\ UNCHANGED <<program, pc, open>>
    BY <1>1, <1>4, SigpipeScript DEF WriteHandled, Advance
  <2>2. open["one"] = {} /\ open["two"] = {}
    BY <1>1, <2>1 DEF ChildrenInv, Child
  <2>3. ~HasEnd(R("a"))
    BY <1>1, <2>1, <2>2 DEF HasEnd, Process, Child
  <2>4. handled'
    BY <1>4, <2>3 DEF WriteHandled
  <2>. QED
    BY <1>1, <2>1, <2>4 DEF SigpipeInv
<1>5. ASSUME NEW c \in Child, Fork(c)
      PROVE  SigpipeInv'
  <2>1. step = 1 /\ step' = 2 /\ c = "one" /\ UNCHANGED <<program, handled>>
    BY <1>1, <1>5, SigpipeScript DEF Fork, Advance
  <2>2. pc' = pc \/ pc' = [pc EXCEPT !["one"] = "setup"]
    BY <1>5, <2>1 DEF Fork
  <2>3. pc'["two"] = "none" /\ pc'["one"] \in {"none", "setup"}
    BY <1>1, <2>1, <2>2
  <2>. QED
    BY <2>1, <2>3 DEF SigpipeInv
<1>6. ASSUME NEW c \in Child, WaitPid(c)
      PROVE  SigpipeInv'
  <2>1. step = 4 /\ step' = 5 /\ c = "one" /\ UNCHANGED <<program, pc, open, handled>>
    BY <1>1, <1>6, SigpipeScript DEF WaitPid, Advance
  <2>2. pc["one"] \in {"none", "ended"}
    BY <1>6, <2>1, WaitedHasEnded
  <2>. QED
    BY <1>1, <2>1, <2>2 DEF SigpipeInv
<1>7. ASSUME NEW c \in Child, KillChild(c)
      PROVE  SigpipeInv'
  <2>1. step = 3 /\ c = "one"
    BY <1>1, <1>7, SigpipeScript DEF KillChild
  <2>2. step' = 4 /\ UNCHANGED <<program, open, handled>>
    BY <1>7, <2>1 DEF KillChild, Advance
  <2>3. pc'["two"] = "none" /\ pc'["one"] \in {"none", "killed", "ended"}
    BY <1>1, <1>7, <2>1 DEF KillChild
  <2>. QED
    BY <1>1, <2>1, <2>2, <2>3 DEF SigpipeInv
<1>8. CASE CommandNext \/ CommandReads \/ CommandQuits \/ \E c \in Child : ChildNext(c)
  <2>1. PICK c \in Child : Deliver(c) \/ Exec(c)
    BY <1>1, <1>8 DEF CommandNext, CommandWrites, CommandWrote, CommandEnds, CommandReads,
                      CommandQuits, ChildNext, Enter, Kick, Scan, Answer, WriteOrDie, Child
  <2>2. pc[c] \in {"killed", "setup"}
    BY <2>1 DEF Deliver, Exec
  <2>3. c = "one"
    BY <1>1, <2>2 DEF Child
  <2>4. /\ UNCHANGED <<program, step, handled>>
        /\ pc' = [pc EXCEPT !["one"] = "ended"] \/ (pc["one"] = "setup" /\ pc' = [pc EXCEPT !["one"] = "runs"])
        /\ open' = open \/ open' = [open EXCEPT !["one"] = {}]
    BY <2>1, <2>3 DEF Deliver, Exec, Idle, Goto, Ends
  <2>5. open'["main"] = open["main"]
    BY <1>1, <2>4
  <2>6. /\ pc'["two"] = "none"
        /\ pc'["one"] = "ended" \/ (pc["one"] = "setup" /\ pc'["one"] = "runs")
    BY <1>1, <2>4
  <2>. QED
    BY <1>1, <2>2, <2>3, <2>4, <2>5, <2>6 DEF SigpipeInv
<1>. QED
  BY <1>2, <1>3, <1>4, <1>5, <1>6, <1>7, <1>8 DEF Next, MainNext

(* task17_4.c: main starts the players, closes its ends and waits. *)
LEMMA PlayersMainKept ==
    ASSUME PTypeOK, ChildrenInv, program = "pingpong", MainPlays, Exchange, MainNext
    PROVE  MainPlays' /\ Exchange'
<1>1. /\ step \in Nat \ {0} /\ pc \in [Child -> Place] /\ open \in [Process -> SUBSET End]
      /\ unread \in [Pipe -> Nat]
      /\ Child = {"one", "two"} /\ Process = {"main", "one", "two"}
      /\ "one" \in Child /\ "two" \in Child
  BY DEF PTypeOK, Child, Process
<1>2. CASE \E c \in Child : Fork(c)
  <2>1. PICK c \in Child : Fork(c)
    BY <1>2
  <2>2. /\ (step = 1 /\ c = "one") \/ (step = 2 /\ c = "two")
        /\ step' = step + 1 /\ UNCHANGED <<how, unread>>
    <3>1. (step = 1 /\ c = "one") \/ (step = 2 /\ c = "two")
      BY <1>1, <2>1, PlayersScript DEF Fork
    <3>. QED
      BY <2>1, <3>1 DEF Fork, Advance
  <2>3. \/ pc' = [pc EXCEPT ![c] = "setup"] /\ open' = [open EXCEPT ![c] = open["main"]]
        \/ UNCHANGED <<pc, open>>
    BY <2>1 DEF Fork
  <2>4. open["main"] = End /\ pc["two"] = "none" /\ open["two"] = {}
    BY <1>1, <2>2 DEF MainPlays, ChildrenInv
  <2>5. open'["main"] = End /\ \A d \in Child \ {c} : pc'[d] = pc[d] /\ open'[d] = open[d]
    BY <1>1, <2>3, <2>4
  <2>6. \/ pc'[c] = "setup" /\ open'[c] = End
        \/ pc'[c] = pc[c] /\ open'[c] = open[c]
    BY <1>1, <2>3, <2>4
  <2>7. CASE step = 1
    <3>1. c = "one" /\ step' = 2 /\ pc'["two"] = "none" /\ open'["two"] = {}
      BY <1>1, <2>2, <2>4, <2>5, <2>7
    <3>2. pc["one"] = "none" /\ unread'["a"] = 0 /\ unread'["b"] = 0
      BY <2>2, <2>7 DEF MainPlays
    <3>3. MainPlays'
      BY <2>5, <3>1 DEF MainPlays
    <3>4. ASSUME BothStart'
          PROVE  pc'["one"] = "setup" /\ open'["one"] = End
      BY <2>6, <3>1, <3>2, <3>4 DEF BothStart
    <3>5. Exchange'
      BY <1>1, <3>1, <3>2, <3>4 DEF Exchange, Holds, NotSent
    <3>. QED
      BY <3>3, <3>5
  <2>8. CASE step = 2
    <3>1. c = "two" /\ step' = 3 /\ pc'["one"] = pc["one"] /\ open'["one"] = open["one"]
      BY <1>1, <2>2, <2>5, <2>8
    <3>2. MainPlays'
      BY <2>5, <3>1 DEF MainPlays
    <3>3. ASSUME BothStart'
          PROVE  pc'["two"] = "setup" /\ open'["two"] = End /\ BothStart
      BY <2>4, <2>6, <2>8, <3>1, <3>3 DEF BothStart
    <3>4. ASSUME BothStart'
          PROVE  /\ NotSent /\ open["one"] = Holds("one") /\ unread["a"] = 0
      BY <1>1, <2>4, <3>3, <3>4 DEF Exchange, Sent, Received
    <3>5. Exchange'
      BY <1>1, <2>2, <3>1, <3>3, <3>4 DEF Exchange, Holds, NotSent
    <3>. QED
      BY <3>2, <3>5
  <2>. QED
    BY <2>2, <2>7, <2>8
<1>3. CASE CloseEnds
  <2>1. /\ step = 3 /\ step' = 4 /\ UNCHANGED <<pc, how, unread>>
        /\ open' = [open EXCEPT !["main"] = @ \ {R("a"), W("a"), R("b"), W("b")}]
    <3>1. PICK ends : /\ At("close", ends) /\ Advance
                      /\ open' = [open EXCEPT !["main"] = @ \ ends]
                      /\ UNCHANGED <<pc, how, unread>>
      BY <1>3 DEF CloseEnds
    <3>2. step = 3 /\ ends = {R("a"), W("a"), R("b"), W("b")}
      BY <1>1, <3>1, PlayersScript
    <3>. QED
      BY <3>1, <3>2 DEF Advance
  <2>2. open'["main"] = {} /\ \A c \in Child : open'[c] = open[c]
    BY <1>1, <2>1, EndFacts
  <2>3. MainPlays'
    BY <2>1, <2>2 DEF MainPlays
  <2>4. Exchange'
    BY <1>1, <2>1, <2>2 DEF Exchange, BothStart, Holds, NotSent, Sent, Received
  <2>. QED
    BY <2>3, <2>4
<1>4. CASE \E c \in Child : WaitPid(c)
  <2>1. PICK c \in Child : WaitPid(c)
    BY <1>4
  <2>2. /\ (step = 4 /\ c = "two") \/ (step = 5 /\ c = "one")
        /\ step' = step + 1 /\ UNCHANGED <<pc, how, open, unread>>
    <3>1. (step = 4 /\ c = "two") \/ (step = 5 /\ c = "one")
      BY <1>1, <2>1, PlayersScript DEF WaitPid
    <3>. QED
      BY <2>1, <3>1 DEF WaitPid, Advance
  <2>3. pc[c] \in {"none", "ended"}
    BY <2>1, WaitedHasEnded
  <2>4. MainPlays'
    BY <2>2, <2>3 DEF MainPlays
  <2>5. Exchange'
    BY <1>1, <2>2 DEF Exchange, BothStart, Holds, NotSent, Sent, Received
  <2>. QED
    BY <2>4, <2>5
<1>5. ~Raise /\ ~WriteHandled("a") /\ \A c \in Child : ~KillChild(c)
  BY <1>1, PlayersScript DEF Raise, WriteHandled, KillChild
<1>. QED
  BY <1>2, <1>3, <1>4, <1>5 DEF MainNext

(* What a step of one player leaves alone. *)
LEMMA PlayerSteps ==
    ASSUME PTypeOK, MainPlays, NEW c \in Child, pc[c] \notin {"none", "ended"}, step' = step,
           pc' = [pc EXCEPT ![c] = pc'[c]], pc'[c] \in Place \ {"none"},
           open' = [open EXCEPT ![c] = open'[c]]
    PROVE  /\ MainPlays' /\ (BothStart' => BothStart)
           /\ \A d \in Child \ {c} : pc'[d] = pc[d] /\ open'[d] = open[d]
<1>1. /\ step \in Nat \ {0} /\ pc \in [Child -> Place] /\ open \in [Process -> SUBSET End]
      /\ Child = {"one", "two"} /\ Process = {"main", "one", "two"}
  BY DEF PTypeOK, Child, Process
<1>2. \A d \in Child \ {c} : pc'[d] = pc[d] /\ open'[d] = open[d]
  BY <1>1
<1>3. open'["main"] = open["main"]
  BY <1>1
<1>4. step # 1
  BY <1>1 DEF MainPlays
<1>5. MainPlays'
  BY <1>1, <1>2, <1>3, <1>4 DEF MainPlays
<1>6. BothStart' => BothStart
  BY <1>1, <1>2 DEF BothStart
<1>. QED
  BY <1>2, <1>5, <1>6

(* task17_4.c: the number goes from child two to child one, which leaves with it;
   child two finds the end of the file, and nobody to write to. *)
LEMMA PlayersChildKept ==
    ASSUME PTypeOK, program = "pingpong", MainPlays, Exchange,
           NEW c \in Child, ChildNext(c)
    PROVE  MainPlays' /\ Exchange'
<1>1. /\ step \in Nat \ {0} /\ pc \in [Child -> Place] /\ open \in [Process -> SUBSET End]
      /\ how \in [Child -> Reason \cup {"none"}] /\ unread \in [Pipe -> Nat]
      /\ Child = {"one", "two"} /\ Process = {"main", "one", "two"} /\ Pipe = {"a", "b"}
      /\ c = "one" \/ c = "two"
      /\ In("one") = "b" /\ Out("one") = "a" /\ In("two") = "a" /\ Out("two") = "b"
  BY DEF PTypeOK, Child, Process, Pipe, In, Out
<1>2. PICK to \in {"kick", "scan", "answer", "ended"} :
         /\ pc[c] \in {"setup", "kick", "scan", "answer", "killed"}
         /\ pc' = [pc EXCEPT ![c] = to] /\ open' = [open EXCEPT ![c] = open'[c]]
         /\ step' = step
  <2>1. ~Exec(c)
    BY DEF Exec
  <2>2. ASSUME NEW reason, Ends(c, reason)
        PROVE  pc' = [pc EXCEPT ![c] = "ended"] /\ open' = [open EXCEPT ![c] = open'[c]]
    BY <1>1, <2>2 DEF Ends
  <2>3. open' = open => open' = [open EXCEPT ![c] = open'[c]]
    BY <1>1
  <2>4. Enter(c) => open' = [open EXCEPT ![c] = open'[c]]
    BY <1>1 DEF Enter
  <2>5. step' = step /\ pc[c] \in {"setup", "kick", "scan", "answer", "killed"}
    BY <2>1 DEF ChildNext, Deliver, Enter, Kick, Scan, Answer, WriteOrDie, Idle, Goto
  <2>. QED
    BY <2>1, <2>2, <2>3, <2>4, <2>5
       DEF ChildNext, Deliver, Enter, Kick, Scan, Answer, WriteOrDie, Goto
<1>3. pc'[c] = to /\ pc[c] \notin {"none", "ended"} /\ to \in Place \ {"none"}
  BY <1>1, <1>2 DEF Place
<1>4. /\ MainPlays' /\ (BothStart' => BothStart)
      /\ \A d \in Child \ {c} : pc'[d] = pc[d] /\ open'[d] = open[d]
  BY <1>2, <1>3, PlayerSteps
<1>. SUFFICES ASSUME BothStart, BothStart'
              PROVE  Exchange'
  BY <1>4 DEF Exchange
<1>5. /\ open["one"] = Holds("one") /\ open["two"] = Holds("two") /\ unread["a"] = 0
      /\ NotSent \/ Sent \/ Received
  BY <1>1 DEF Exchange
<1>6. \A e : HasEnd(e) <=> e \in open["main"] \/ e \in open["one"] \/ e \in open["two"]
  BY <1>1 DEF HasEnd
<1>7. /\ R("b") \in End /\ W("a") \in End /\ W("b") \in End
      /\ open["main"] = IF step <= 3 THEN End ELSE {}
  BY EndFacts DEF MainPlays
<1>8. ~Deliver(c) /\ ~Exec(c)
  BY <1>1, <1>5 DEF Deliver, Exec, NotSent, Sent, Received
<1>9. CASE Enter(c)
  <2>1. /\ pc[c] = "setup" /\ open' = [open EXCEPT ![c] = @ \ {W(In(c)), R(Out(c))}]
        /\ pc'[c] = IF c = "two" THEN "kick" ELSE "scan"
        /\ UNCHANGED <<how, unread>>
    BY <1>1, <1>9 DEF Enter, Goto
  <2>2. open'[c] = {R(In(c)), W(Out(c))}
    <3>1. open'[c] = End \ {W(In(c)), R(Out(c))}
      BY <1>1, <1>5, <2>1 DEF Holds
    <3>. QED
      BY <1>1, <3>1, EndFacts
  <2>3. \A d \in Child : open'[d] = Holds(d)'
    BY <1>1, <1>4, <1>5, <2>1, <2>2 DEF Holds
  <2>4. (NotSent \/ Sent \/ Received)'
    BY <1>1, <1>4, <1>5, <2>1 DEF NotSent, Sent, Received
  <2>. QED
    BY <1>5, <2>1, <2>3, <2>4 DEF Exchange
<1>10. CASE Kick(c)
  <2>1. c = "two" /\ pc["two"] = "kick" /\ NotSent
    BY <1>1, <1>5, <1>10 DEF Kick, WriteOrDie, NotSent, Sent, Received
  <2>2. HasEnd(R("b"))
    BY <1>5, <1>6, <1>7, <2>1, <1>1 DEF NotSent, Holds
  <2>3. /\ pc'["two"] = "scan" /\ unread' = [unread EXCEPT !["b"] = @ + 1]
        /\ UNCHANGED <<how, open>>
    BY <1>1, <1>10, <2>1, <2>2 DEF Kick, WriteOrDie, Goto
  <2>4. unread'["b"] = 1 /\ unread'["a"] = 0 /\ pc'["one"] = pc["one"]
    BY <1>1, <1>4, <1>5, <2>1, <2>3 DEF NotSent
  <2>5. \A d \in Child : open'[d] = Holds(d)'
    BY <1>1, <1>5, <2>1, <2>3, <2>4 DEF Holds
  <2>. QED
    BY <2>1, <2>3, <2>4, <2>5 DEF Exchange, NotSent, Sent
<1>11. CASE Scan(c)
  <2>1. /\ pc[c] = "scan"
        /\ \/ unread[In(c)] > 0 /\ unread' = [unread EXCEPT ![In(c)] = @ - 1] /\ Ends(c, "number")
           \/ AtEof(In(c)) /\ Goto(c, "scan", "answer") /\ UNCHANGED <<how, open, unread>>
    BY <1>11 DEF Scan
  <2>2. CASE c = "one"
    <3>1. NotSent \/ Sent
      BY <1>5, <2>1, <2>2 DEF Received
    <3>2. ~AtEof("b")
      <4>1. CASE NotSent
        <5>1. pc["two"] = "none" => step <= 3
          BY <1>1 DEF BothStart
        <5>. QED
          BY <1>5, <1>6, <1>7, <1>1, <4>1, <5>1 DEF AtEof, NotSent, Holds
      <4>2. CASE Sent
        BY <4>2 DEF AtEof, Sent
      <4>. QED
        BY <3>1, <4>1, <4>2
    <3>3. /\ unread["b"] > 0 /\ unread' = [unread EXCEPT !["b"] = @ - 1]
          /\ pc' = [pc EXCEPT !["one"] = "ended"] /\ how' = [how EXCEPT !["one"] = "number"]
          /\ open' = [open EXCEPT !["one"] = {}]
      BY <1>1, <2>1, <2>2, <3>2 DEF Ends
    <3>4. Sent
      BY <3>1, <3>3 DEF NotSent
    <3>5. /\ unread'["b"] = 0 /\ unread'["a"] = 0 /\ pc'["one"] = "ended"
          /\ how'["one"] = "number" /\ open'["one"] = {}
          /\ pc'["two"] = "scan" /\ open'["two"] = open["two"]
      BY <1>1, <1>5, <3>3, <3>4 DEF Sent
    <3>6. \A d \in Child : open'[d] = Holds(d)'
      BY <1>1, <1>5, <3>4, <3>5 DEF Holds, Sent
    <3>. QED
      BY <3>5, <3>6 DEF Exchange, Received
  <2>3. CASE c = "two"
    <3>1. /\ AtEof("a") /\ pc' = [pc EXCEPT !["two"] = "answer"]
          /\ UNCHANGED <<how, open, unread>>
      BY <1>1, <1>5, <2>1, <2>3 DEF Goto
    <3>2. /\ pc["two"] = "scan" /\ pc'["two"] = "answer" /\ pc'["one"] = pc["one"]
      BY <1>1, <2>1, <2>3, <3>1
    <3>3. ~Sent
      BY <1>1, <1>5, <1>6, <1>7, <3>1 DEF AtEof, Sent, Holds
    <3>4. Received /\ step > 3
      BY <1>1, <1>5, <1>6, <1>7, <3>1, <3>2, <3>3 DEF AtEof, NotSent
    <3>5. \A d \in Child : open'[d] = Holds(d)'
      BY <1>1, <1>5, <3>1, <3>2 DEF Holds
    <3>. QED
      BY <1>2, <1>5, <3>1, <3>2, <3>4, <3>5 DEF Exchange, Received
  <2>. QED
    BY <1>1, <2>2, <2>3
<1>12. CASE Answer(c)
  <2>1. c = "two" /\ pc["two"] = "answer" /\ Received /\ step > 3
    BY <1>1, <1>5, <1>12 DEF Answer, NotSent, Sent, Received
  <2>2. ~HasEnd(R("b"))
    <3>1. open["main"] = {}
      BY <1>1, <1>7, <2>1
    <3>2. open["one"] = {} /\ open["two"] = {R("a"), W("b")}
      BY <1>1, <1>5, <2>1 DEF Holds, Received
    <3>. QED
      BY <1>6, <3>1, <3>2, EndFacts
  <2>3. PICK reason \in {"max", "sigpipe"} : Ends("two", reason) /\ UNCHANGED unread
    BY <1>1, <1>12, <2>1, <2>2 DEF Answer, WriteOrDie
  <2>4. /\ pc' = [pc EXCEPT !["two"] = "ended"] /\ how' = [how EXCEPT !["two"] = reason]
        /\ open' = [open EXCEPT !["two"] = {}]
    BY <2>3 DEF Ends
  <2>5. /\ pc'["two"] = "ended" /\ pc'["one"] = pc["one"] /\ open'["two"] = {}
        /\ open'["one"] = open["one"] /\ how'["two"] \in {"sigpipe", "max"}
        /\ how'["one"] = how["one"]
    BY <1>1, <2>4
  <2>6. \A d \in Child : open'[d] = Holds(d)'
    BY <1>1, <1>5, <2>1, <2>5 DEF Holds, Received
  <2>. QED
    BY <1>5, <2>1, <2>3, <2>5, <2>6 DEF Exchange, Received
<1>. QED
  BY <1>8, <1>9, <1>10, <1>11, <1>12 DEF ChildNext

(* PipesInv is an invariant of the four programs, for any size of a pipe. *)
THEOREM PipesInvariant == Spec => []PipesInv
<1>1. PipesInv /\ [Next]_vars => PipesInv'
  <2>. SUFFICES ASSUME PipesInv, [Next]_vars
                PROVE  PipesInv'
    OBVIOUS
  <2>1. CASE Next
    <3>1. PTypeOK' /\ ChildrenInv' /\ SigpipeInv'
      BY <2>1, TypesKept, SigpipeKept DEF PipesInv
    <3>2. ASSUME program = "pingpong"
          PROVE  MainPlays' /\ Exchange'
      <4>1. PTypeOK /\ ChildrenInv /\ MainPlays /\ Exchange
        BY <3>2 DEF PipesInv, PlayersInv
      <4>2. ~CommandNext /\ ~CommandReads /\ ~CommandQuits
        BY <3>2 DEF CommandNext, CommandWrites, CommandWrote, CommandEnds, CommandReads,
                    CommandQuits
      <4>. QED
        BY <2>1, <3>2, <4>1, <4>2, PlayersMainKept, PlayersChildKept DEF Next
    <3>3. PlayersInv'
      BY <2>1, <3>2, ProgramKept DEF PlayersInv
    <3>. QED
      BY <3>1, <3>3 DEF PipesInv
  <2>2. CASE UNCHANGED vars
    BY <2>2 DEF vars, PipesInv, PTypeOK, ChildrenInv, ForkedAt, SigpipeInv, PlayersInv,
                MainPlays, Exchange, BothStart, Holds, NotSent, Sent, Received
  <2>. QED
    BY <2>1, <2>2
<1>. QED
  BY <1>1, PipesInvInit, PTL DEF Spec

(* main of signals.c is alive after its write because its handler has run. *)
THEOREM PipesAliveAfterSigpipe == Spec => []AliveAfterSigpipe
<1>1. PipesInv => AliveAfterSigpipe
  <2>. SUFFICES ASSUME PipesInv, program = "sigpipe", At("raise", "SIGSEGV")
                PROVE  handled
    BY DEF AliveAfterSigpipe
  <2>1. step = 6
    BY SigpipeScript DEF PipesInv, PTypeOK
  <2>. QED
    BY <2>1 DEF PipesInv, SigpipeInv
<1>. QED
  BY <1>1, PipesInvariant, PTL

(* In task17_4.c one number is in a pipe or with the player that writes it. *)
THEOREM PipesOneNumber == Spec => []OneNumber
<1>1. PipesInv => OneNumber
  <2>. DEFINE writers == {c \in Child : pc[c] \in {"kick", "answer"}}
  <2>. SUFFICES ASSUME PipesInv, program = "pingpong", \A c \in Child : pc[c] # "none"
                PROVE  /\ \A c, d \in writers : c = d
                       /\ unread["a"] + unread["b"] <= 1
                       /\ writers # {} => unread["a"] + unread["b"] = 0
    BY DEF OneNumber
  <2>1. Child = {"one", "two"} /\ BothStart
    BY DEF Child, BothStart
  <2>2. unread["a"] = 0 /\ (NotSent \/ Sent \/ Received)
    BY <2>1 DEF PipesInv, PlayersInv, Exchange
  <2>3. /\ pc["one"] \notin {"kick", "answer"}
        /\ unread["b"] \in {0, 1}
        /\ pc["two"] \in {"kick", "answer"} => unread["b"] = 0
    BY <2>2 DEF NotSent, Sent, Received
  <2>4. writers \subseteq {"two"}
    BY <2>1, <2>3
  <2>5. \A c, d \in writers : c = d
    BY <2>4
  <2>6. writers # {} => pc["two"] \in {"kick", "answer"}
    BY <2>4
  <2>. HIDE DEF writers
  <2>. QED
    BY <2>2, <2>3, <2>5, <2>6
<1>. QED
  BY <1>1, PipesInvariant, PTL
=============================================================================
