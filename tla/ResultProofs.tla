---------------------------- MODULE ResultProofs ----------------------------
(***************************************************************************)
(* Proofs about what functions return: exec_python, for any sizes of the   *)
(* chunk, the pipe and the output (ExecCapture), and the routines, for     *)
(* every width, every argument and every length (Routines).                *)
(***************************************************************************)
EXTENDS ExecCapture, Routines, SumProofs, SequenceTheorems

(***************************************************************************)
(* The output of a command (ExecCapture).                                  *)
(***************************************************************************)

Stages == {"pipe", "fork", "close", "read", "store", "wait", "returned"}
Alive == {"setup", "runs", "writes"}

ETypes == /\ pc \in Stages
          /\ child \in {"none", "ended"} \cup Alive
          /\ status \in {"none", "zero", "nonzero", "signal"}
          /\ written \in Nat
          /\ writers \in SUBSET {"parent", "child"}
          /\ pipe \in Seq(Nat) /\ tmp \in Seq(Nat) /\ buffer \in Seq(Nat)
          /\ cut \in BOOLEAN

(* The child, its status and its copy of the write end. *)
ChildState == /\ child \in Alive <=> "child" \in writers
              /\ child = "ended" <=> status # "none"
              /\ pc \in {"pipe", "fork"} => child = "none"
              /\ pc \in {"close", "read", "store", "wait"} => child # "none"

InHand == IF pc = "store" THEN Len(tmp) ELSE 0

(* The bytes written lie, in order, in the buffer, the chunk and the pipe. *)
BytesInOrder ==
    /\ \A i \in 1 .. Len(buffer) : buffer[i] = i
    /\ pc = "store" => \A i \in 1 .. Len(tmp) : tmp[i] = Len(buffer) + i
    /\ ~cut => \A i \in 1 .. Len(pipe) : pipe[i] = Len(buffer) + InHand + i
    /\ ~cut => Len(buffer) + InHand + Len(pipe) = written
    /\ Len(buffer) <= written

(* The loop has ended on an empty pipe nobody can write to, or was cut. *)
LoopEnd == /\ cut => pc \in {"wait", "returned"}
           /\ pc = "wait" /\ ~cut => pipe = <<>> /\ child = "ended"

Returned ==
    IF pc # "returned" THEN result = NULL
    ELSE /\ child = "none" => result = NULL
         /\ child # "none" => /\ child = "ended"
                              /\ result = IF status = "zero" THEN buffer ELSE NULL
                              /\ ~cut => pipe = <<>>

EInv == ETypes /\ ChildState /\ BytesInOrder /\ LoopEnd /\ Returned

(* EInv holds before the pipe is made. *)
LEMMA EInvInit == Init => EInv
<1> SUFFICES ASSUME Init PROVE EInv
  OBVIOUS
<1> USE DEF Init
<1>1. ETypes
  <2>1. <<>> \in Seq(Nat)
    OBVIOUS
  <2>2. pipe \in Seq(Nat) /\ tmp \in Seq(Nat) /\ buffer \in Seq(Nat)
    BY <2>1
  <2>3. writers \in SUBSET {"parent", "child"} /\ written \in Nat /\ cut \in BOOLEAN
    OBVIOUS
  <2> QED BY <2>2, <2>3 DEF ETypes, Stages
<1>2. BytesInOrder
  BY DEF BytesInOrder, InHand
<1>3. ChildState /\ LoopEnd /\ Returned
  BY DEF ChildState, LoopEnd, Returned, Alive
<1> QED BY <1>1, <1>2, <1>3 DEF EInv

(* A read takes at least a byte of a pipe that is not empty, and no more than
   there is. *)
LEMMA ChunkLength ==
    ASSUME NEW k \in Nat, k > 0
    PROVE  Min({ReadMax, k}) \in 1 .. k
<1>1. \E x \in {ReadMax, k} : \A y \in {ReadMax, k} : x <= y
  BY SizeAssumption
<1>2. /\ Min({ReadMax, k}) \in {ReadMax, k}
      /\ \A y \in {ReadMax, k} : Min({ReadMax, k}) <= y
  BY <1>1 DEF Min
<1> QED BY <1>2, SizeAssumption

(* The steps of exec_python keep EInv. *)
LEMMA ParentKeeps == EInv /\ (ParentNext \/ ReadError \/ ReallocFails) => EInv'
<1> SUFFICES ASSUME EInv, ParentNext \/ ReadError \/ ReallocFails PROVE EInv'
  OBVIOUS
<1> USE DEF EInv, Goto, command, chunk
<1>1. CASE MakePipe
  BY <1>1 DEF MakePipe, ETypes, ChildState, BytesInOrder, LoopEnd, Returned, Stages, Alive, InHand
<1>2. CASE Fork
  BY <1>2 DEF Fork, ETypes, ChildState, BytesInOrder, LoopEnd, Returned, Stages, Alive, InHand
<1>3. CASE CloseWriteEnd
  BY <1>3 DEF CloseWriteEnd, ETypes, ChildState, BytesInOrder, LoopEnd, Returned, Stages, Alive, InHand
<1>4. CASE ReadChunk
  <2> DEFINE r == Min({ReadMax, Len(pipe)})
  <2>1. pipe \in Seq(Nat) /\ Len(pipe) \in Nat /\ Len(pipe) > 0
    BY <1>4 DEF ReadChunk, ETypes
  <2>2. r \in 1 .. Len(pipe)
    BY <2>1, ChunkLength
  <2>3. /\ pc = "read" /\ pc' = "store"
        /\ tmp' = SubSeq(pipe, 1, r)
        /\ pipe' = SubSeq(pipe, r + 1, Len(pipe))
        /\ UNCHANGED <<buffer, cut, result, child, status, written, writers>>
    BY <1>4 DEF ReadChunk
  <2> HIDE DEF r
  <2>4. /\ tmp' \in Seq(Nat) /\ Len(tmp') = r
        /\ \A i \in 1 .. r : tmp'[i] = pipe[i]
    BY <2>1, <2>2, <2>3
  <2>5. /\ pipe' \in Seq(Nat) /\ Len(pipe') = Len(pipe) - r
        /\ \A i \in 1 .. Len(pipe) - r : pipe'[i] = pipe[r + i]
    BY <2>1, <2>2, <2>3
  <2>6. ~cut
    BY <2>3 DEF LoopEnd
  <2>7. BytesInOrder'
    <3>1. /\ \A i \in 1 .. Len(pipe) : pipe[i] = Len(buffer) + i
          /\ Len(buffer) + Len(pipe) = written
          /\ Len(buffer) \in Nat
      BY <2>1, <2>3, <2>6 DEF BytesInOrder, InHand, ETypes
    <3>2. \A i \in 1 .. r : tmp'[i] = Len(buffer) + i
      <4>1. TAKE i \in 1 .. r
      <4>2. i \in 1 .. Len(pipe)
        BY <2>1, <2>2, <4>1
      <4> QED BY <2>4, <3>1, <4>1, <4>2
    <3>3. \A i \in 1 .. Len(pipe) - r : pipe'[i] = Len(buffer) + r + i
      <4>1. TAKE i \in 1 .. Len(pipe) - r
      <4>2. r + i \in 1 .. Len(pipe)
        BY <2>1, <2>2, <4>1
      <4> QED BY <2>2, <2>5, <3>1, <4>1, <4>2
    <3>4. InHand' = r
      BY <2>3, <2>4 DEF InHand
    <3>5. Len(buffer) + r + Len(pipe') = written
      BY <2>1, <2>2, <2>5, <3>1
    <3> QED BY <2>3, <2>4, <2>5, <3>1, <3>2, <3>3, <3>4, <3>5 DEF BytesInOrder
  <2> QED
    BY <2>3, <2>4, <2>5, <2>7 DEF ETypes, ChildState, LoopEnd, Returned, Stages, Alive
<1>5. CASE ReadEof
  BY <1>5 DEF ReadEof, ETypes, ChildState, BytesInOrder, LoopEnd, Returned, Stages, Alive, InHand
<1>6. CASE Store
  <2>1. /\ pc = "store" /\ pc' = "read"
        /\ buffer' = buffer \o tmp
        /\ UNCHANGED <<tmp, pipe, cut, result, child, status, written, writers>>
    BY <1>6 DEF Store
  <2>2. /\ buffer' \in Seq(Nat) /\ Len(buffer') = Len(buffer) + Len(tmp)
        /\ \A i \in 1 .. Len(buffer) : buffer'[i] = buffer[i]
        /\ \A i \in 1 .. Len(tmp) : buffer'[Len(buffer) + i] = tmp[i]
    BY <2>1 DEF ETypes
  <2>3. \A i \in 1 .. Len(buffer') : buffer'[i] = i
    <3>1. TAKE i \in 1 .. Len(buffer')
    <3>2. CASE i <= Len(buffer)
      BY <2>1, <2>2, <3>1, <3>2 DEF BytesInOrder, ETypes
    <3>3. CASE i > Len(buffer)
      <4>1. i - Len(buffer) \in 1 .. Len(tmp) /\ Len(buffer) + (i - Len(buffer)) = i
        BY <2>2, <3>1, <3>3 DEF ETypes
      <4>2. buffer'[i] = tmp[i - Len(buffer)]
        BY <2>2, <4>1
      <4> QED BY <2>1, <4>1, <4>2 DEF BytesInOrder
    <3> QED BY <2>2, <3>1, <3>2, <3>3 DEF ETypes
  <2>4. ~cut
    BY <2>1 DEF LoopEnd
  <2>5. BytesInOrder'
    BY <2>1, <2>2, <2>3, <2>4 DEF BytesInOrder, InHand, ETypes
  <2> QED
    BY <2>1, <2>2, <2>5 DEF ETypes, ChildState, LoopEnd, Returned, Stages, Alive
<1>7. CASE WaitChild
  BY <1>7 DEF WaitChild, ETypes, ChildState, BytesInOrder, LoopEnd, Returned, Stages, Alive, InHand
<1>8. CASE ReadError
  BY <1>8 DEF ReadError, ETypes, ChildState, BytesInOrder, LoopEnd, Returned, Stages, Alive, InHand
<1>9. CASE ReallocFails
  BY <1>9 DEF ReallocFails, ETypes, ChildState, BytesInOrder, LoopEnd, Returned, Stages, Alive, InHand
<1>10. CASE Double
  BY <1>10 DEF Double, ETypes, ChildState, BytesInOrder, LoopEnd, Returned, Stages, Alive, InHand
<1> QED
  BY <1>1, <1>2, <1>3, <1>4, <1>5, <1>6, <1>7, <1>8, <1>9, <1>10 DEF ParentNext

(* The end of the child, however it comes, keeps EInv. *)
LEMMA EndsKeeps ==
    ASSUME EInv, child \in Alive, NEW how \in {"zero", "nonzero", "signal"}, Ends(how)
    PROVE  EInv'
  BY DEF EInv, Ends, parent, chunk, ETypes, ChildState, BytesInOrder, LoopEnd, Returned, Stages, Alive, InHand

(* The steps of the command keep EInv. *)
LEMMA ChildKeeps == EInv /\ (ChildNext \/ Killed) => EInv'
<1> SUFFICES ASSUME EInv, ChildNext \/ Killed PROVE EInv'
  OBVIOUS
<1>1. CASE Exec
  <2>1. CASE Ends("nonzero")
    BY <1>1, <2>1, EndsKeeps DEF Exec, Alive
  <2>2. CASE child' = "runs" /\ UNCHANGED <<parent, status, written, writers, pipe>>
    BY <1>1, <2>2 DEF Exec, EInv, parent, chunk, ETypes, ChildState, BytesInOrder, LoopEnd, Returned,
                      Stages, Alive, InHand
  <2> QED BY <1>1, <2>1, <2>2 DEF Exec
<1>2. CASE BeginWrite
  BY <1>2 DEF BeginWrite, EInv, parent, chunk, ETypes, ChildState, BytesInOrder, LoopEnd, Returned,
              Stages, Alive, InHand
<1>3. CASE EndWrite
  <2>1. /\ child = "writes" /\ child' = "runs"
        /\ written' = written + 1
        /\ pipe' = Append(pipe, written + 1)
        /\ UNCHANGED <<pc, tmp, buffer, cut, result, status, writers>>
    BY <1>3 DEF EndWrite, parent, chunk
  <2>2. /\ pipe \in Seq(Nat) /\ written \in Nat
        /\ pipe' \in Seq(Nat) /\ Len(pipe') = Len(pipe) + 1
        /\ \A i \in 1 .. Len(pipe) : pipe'[i] = pipe[i]
        /\ pipe'[Len(pipe) + 1] = written + 1
    BY <2>1 DEF EInv, ETypes
  <2>3. BytesInOrder'
    <3>1. Len(buffer) \in Nat /\ InHand \in Nat /\ InHand' = InHand
      BY <2>1 DEF EInv, InHand, ETypes
    <3>2. ~cut => \A i \in 1 .. Len(pipe) + 1 : pipe'[i] = Len(buffer) + InHand + i
      <4>1. SUFFICES ASSUME ~cut, NEW i \in 1 .. Len(pipe) + 1
                     PROVE  pipe'[i] = Len(buffer) + InHand + i
        OBVIOUS
      <4>2. CASE i \in 1 .. Len(pipe)
        BY <2>2, <4>1, <4>2 DEF EInv, BytesInOrder
      <4>3. CASE i = Len(pipe) + 1
        <5>1. Len(buffer) + InHand + Len(pipe) = written
          BY <4>1 DEF EInv, BytesInOrder
        <5> QED BY <2>2, <3>1, <4>3, <5>1
      <4> QED BY <2>2, <4>1, <4>2, <4>3
    <3>3. ~cut => Len(buffer) + InHand + Len(pipe') = written'
      BY <2>1, <2>2, <3>1 DEF EInv, BytesInOrder
    <3> QED BY <2>1, <2>2, <3>1, <3>2, <3>3 DEF EInv, BytesInOrder
  <2> QED
    BY <2>1, <2>2, <2>3 DEF EInv, ETypes, ChildState, LoopEnd, Returned, Alive
<1>4. CASE Exit
  BY <1>4, EndsKeeps DEF Exit, Alive
<1>5. CASE Killed
  BY <1>5, EndsKeeps DEF Killed, Alive
<1> QED BY <1>1, <1>2, <1>3, <1>4, <1>5 DEF ChildNext

(* The inductive invariant: nothing between the command and the buffer is lost or
   out of order as long as the loop of read_all goes on. *)
THEOREM CaptureInvariant == Spec => []EInv
<1>1. EInv /\ [Next]_vars => EInv'
  <2>1. EInv /\ UNCHANGED vars => EInv'
    BY DEF vars, parent, chunk, command, EInv, ETypes, ChildState, BytesInOrder, LoopEnd, Returned,
           Stages, Alive, InHand
  <2> QED BY <2>1, ParentKeeps, ChildKeeps DEF Next
<1> QED BY <1>1, EInvInit, PTL DEF Spec

(* What has been stored and its zero fit; what the loop of doublings works on is a
   length. *)
RoomInv == capacity \in Nat /\ next_capacity \in Nat /\ RoomForTerminator

(* The stored bytes and the terminating zero stay inside the allocation, however
   long the chunks are and however long it was at first (lines 24-40): the loop
   has doubled its length until they fit before a chunk is copied. *)
THEOREM CaptureRoom == Spec => []RoomForTerminator
<1>1. Init => RoomInv
  BY SizeAssumption DEF Init, RoomInv, RoomForTerminator
<1>2. EInv /\ RoomInv /\ [Next]_vars => RoomInv'
  <2>. SUFFICES ASSUME EInv, RoomInv, [Next]_vars
                PROVE  RoomInv'
    OBVIOUS
  <2>1. /\ Len(tmp) \in Nat /\ Len(buffer) \in Nat /\ buffer \in Seq(Nat) /\ tmp \in Seq(Nat)
        /\ capacity \in Nat /\ next_capacity \in Nat /\ Len(buffer) + 1 <= capacity
    BY DEF EInv, ETypes, RoomInv, RoomForTerminator
  <2>2. CASE Double
    BY <2>1, <2>2 DEF Double, RoomInv, RoomForTerminator
  <2>3. CASE Store
    <3>1. /\ Len(buffer') = Len(buffer) + Len(tmp)
          /\ capacity' = next_capacity /\ next_capacity' = next_capacity
          /\ next_capacity >= Len(tmp) + Len(buffer) + 1
      BY <2>1, <2>3 DEF Store, Required, chunk
    <3>. QED
      BY <2>1, <3>1 DEF RoomInv, RoomForTerminator
  <2>4. CASE ReadChunk
    BY <2>1, <2>4 DEF ReadChunk, RoomInv, RoomForTerminator
  <2>5. CASE UNCHANGED <<buffer, capacity, next_capacity>>
    BY <2>5 DEF RoomInv, RoomForTerminator
  <2>6. ParentNext \/ ReadError \/ ReallocFails =>
           Double \/ Store \/ ReadChunk \/ UNCHANGED <<buffer, capacity, next_capacity>>
    BY DEF ParentNext, MakePipe, Fork, CloseWriteEnd, ReadEof, WaitChild, ReadError,
           ReallocFails, chunk
  <2>7. ChildNext \/ Killed \/ UNCHANGED vars => UNCHANGED <<buffer, capacity, next_capacity>>
    BY DEF ChildNext, Exec, BeginWrite, EndWrite, Exit, Ends, Killed, vars, parent, chunk
  <2>. QED
    BY <2>2, <2>3, <2>4, <2>5, <2>6, <2>7 DEF Next
<1>3. RoomInv => RoomForTerminator
  BY DEF RoomInv
<1>. QED
  BY <1>1, <1>2, <1>3, CaptureInvariant, PTL DEF Spec

(* exec_python returns the whole output of a command that exited with 0, a
   beginning of it after a failed read or realloc, and NULL otherwise, whatever
   the sizes (lines 13-92). *)
THEOREM CaptureResultIsOutput == Spec => []ResultIsOutput
<1>1. EInv => ResultIsOutput
  <2> SUFFICES ASSUME EInv, pc = "returned" PROVE ResultIsOutput
    BY DEF ResultIsOutput
  <2> DEFINE output == [i \in 1 .. written |-> i]
  <2> USE DEF EInv
  <2>1. CASE result = NULL
    <3>1. child = "none" \/ (child = "ended" /\ status # "zero")
      BY <2>1, NullAssumption DEF Returned, ETypes
    <3> QED BY <2>1, <3>1 DEF ResultIsOutput, ChildState, ETypes
  <2>2. CASE result # NULL
    <3>1. /\ status = "zero" /\ result = buffer
          /\ ~cut => pipe = <<>>
      BY <2>2 DEF Returned
    <3>2. /\ result \in Seq(Nat) /\ Len(result) <= written
          /\ \A i \in 1 .. Len(result) : result[i] = i
          /\ written \in Nat
      BY <3>1 DEF ETypes, BytesInOrder
    <3>3. output \in Seq(Nat) /\ Len(output) = written
      BY <3>2
    <3>4. IsPrefix(result, output)
      <4>1. SubSeq(output, 1, Len(result)) = result
        BY <3>2, <3>3
      <4> QED BY <3>2, <3>3, <4>1 DEF IsPrefix
    <3>5. ~cut => result = output
      <4>1. ~cut => Len(result) = written
        BY <3>1, <3>2 DEF BytesInOrder, InHand, ETypes
      <4> QED BY <3>2, <3>3, <4>1
    <3> QED BY <2>2, <3>1, <3>4, <3>5 DEF ResultIsOutput
  <2> QED BY <2>1, <2>2
<1> QED BY <1>1, CaptureInvariant, PTL

(***************************************************************************)
(* The routines (Routines).  A loop is a recursive function: that there is *)
(* one with the recursion is shown by naming it, and what it computes by   *)
(* induction over its turns.                                               *)
(***************************************************************************)


(* Powers of two count subsets, which is what the provers can be told of them. *)
LEMMA PowerType ==
    ASSUME NEW n \in Nat
    PROVE  2 ^ n \in Nat \ {0}
<1>1. IsFiniteSet(1 .. n) /\ Cardinality(1 .. n) = n
  <2>1. 1 \in Int /\ n \in Int
    OBVIOUS
  <2>. QED
    BY <2>1, FS_Interval
<1>2. IsFiniteSet(SUBSET (1 .. n)) /\ Cardinality(SUBSET (1 .. n)) = 2 ^ n
  BY <1>1, FS_SUBSET
<1>3. SUBSET (1 .. n) # {}
  OBVIOUS
<1>. QED
  BY <1>2, <1>3, FS_CardinalityType, FS_EmptySet

(* A subset with or without one more element. *)
LEMMA PowerDoubles ==
    ASSUME NEW n \in Nat
    PROVE  2 ^ (n + 1) = 2 * 2 ^ n
<1>. DEFINE X == SUBSET (1 .. n)
<1>. DEFINE Y == SUBSET (1 .. n + 1)
<1>. DEFINE f == [p \in X \X {0, 1} |-> IF p[2] = 0 THEN p[1] ELSE p[1] \cup {n + 1}]
<1>0. n + 1 \in Nat /\ n + 1 \notin 1 .. n /\ 1 .. n + 1 = (1 .. n) \cup {n + 1}
  OBVIOUS
<1>1. IsFiniteSet(X) /\ Cardinality(X) = 2 ^ n
  <2>1. 1 \in Int /\ n \in Int
    OBVIOUS
  <2>2. IsFiniteSet(1 .. n) /\ Cardinality(1 .. n) = n
    BY <2>1, FS_Interval
  <2>. QED
    BY <2>2, FS_SUBSET
<1>2. IsFiniteSet(Y) /\ Cardinality(Y) = 2 ^ (n + 1)
  <2>1. 1 \in Int /\ n + 1 \in Int
    OBVIOUS
  <2>2. IsFiniteSet(1 .. n + 1) /\ Cardinality(1 .. n + 1) = n + 1
    BY <2>1, FS_Interval
  <2>. QED
    BY <2>2, FS_SUBSET
<1>3. IsFiniteSet({0, 1}) /\ Cardinality({0, 1}) = 2
  <2>1. {0, 1} = {0} \cup {1} /\ 1 \notin {0}
    OBVIOUS
  <2>2. IsFiniteSet({0}) /\ Cardinality({0}) = 1
    BY FS_Singleton
  <2>. QED
    BY <2>1, <2>2, FS_AddElement
<1>4. IsFiniteSet(X \X {0, 1}) /\ Cardinality(X \X {0, 1}) = 2 ^ n * 2
  <2>. HIDE DEF X
  <2>. QED
    BY <1>1, <1>3, FS_Product
<1>5. ExistsBijection(X \X {0, 1}, Y)
  <2>1. f \in [X \X {0, 1} -> Y]
    BY <1>0
  <2>2. ASSUME NEW p \in X \X {0, 1}, NEW q \in X \X {0, 1}, f[p] = f[q]
        PROVE  p = q
    <3>1. /\ p[1] \in X /\ p[2] \in {0, 1} /\ p = <<p[1], p[2]>>
          /\ q[1] \in X /\ q[2] \in {0, 1} /\ q = <<q[1], q[2]>>
      OBVIOUS
    <3>2. n + 1 \notin p[1] /\ n + 1 \notin q[1]
      BY <1>0, <3>1
    <3>3. /\ f[p] = IF p[2] = 0 THEN p[1] ELSE p[1] \cup {n + 1}
          /\ f[q] = IF q[2] = 0 THEN q[1] ELSE q[1] \cup {n + 1}
      OBVIOUS
    <3>4. p[2] = q[2]
      BY <2>2, <3>1, <3>2, <3>3
    <3>5. p[1] = q[1]
      BY <2>2, <3>1, <3>2, <3>3, <3>4
    <3>. QED
      BY <3>1, <3>4, <3>5
  <2>3. ASSUME NEW s \in Y
        PROVE  \E p \in X \X {0, 1} : f[p] = s
    <3>1. CASE n + 1 \in s
      <4>. DEFINE p == <<s \ {n + 1}, 1>>
      <4>1. s \ {n + 1} \in X
        BY <1>0
      <4>2. p \in X \X {0, 1} /\ p[1] = s \ {n + 1} /\ p[2] = 1
        BY <4>1
      <4>3. f[p] = (s \ {n + 1}) \cup {n + 1}
        BY <4>2
      <4>. QED
        BY <3>1, <4>2, <4>3
    <3>2. CASE n + 1 \notin s
      <4>. DEFINE p == <<s, 0>>
      <4>1. p \in X \X {0, 1} /\ f[p] = s
        BY <1>0, <3>2
      <4>. QED
        BY <4>1
    <3>. QED
      BY <3>1, <3>2
  <2>. HIDE DEF f, X, Y
  <2>. QED
    BY <2>1, <2>2, <2>3 DEF ExistsBijection, Bijection, Injection, Surjection, IsInjective
<1>6. Cardinality(Y) = Cardinality(X \X {0, 1})
  <2>. HIDE DEF X, Y
  <2>. QED
    BY <1>4, <1>5, FS_Bijection
<1>. QED
  BY <1>1, <1>2, <1>4, <1>6, PowerType


-----------------------------------------------------------------------------
(* fixed_mul. *)
LEMMA Quotient ==
    ASSUME NEW d \in Nat \ {0}, NEW q \in Nat, NEW r \in 0 .. d - 1
    PROVE  (d * q + r) \div d = q /\ (d * q + r) % d = r
OBVIOUS

(* Division, with quotient and remainder named. *)
LEMMA Divided ==
    ASSUME NEW x \in Nat, NEW d \in Nat \ {0}
    PROVE  \E q \in Nat, r \in 0 .. d - 1 : x = d * q + r /\ q = x \div d /\ r = x % d
<1>1. x \div d \in Nat /\ x % d \in 0 .. d - 1 /\ x = d * (x \div d) + (x % d)
  OBVIOUS
<1>. QED
  BY <1>1

(* q times p is t rounded to a multiple of p, of two the one with the even factor. *)
Close(q, t, p) == LET off == 2 * (IF q * p > t THEN q * p - t ELSE t - q * p)
                  IN  off < p \/ (off = p /\ q % 2 = 0)

(* Two multiples of p that are both closest are one. *)
LEMMA CloseIsUnique ==
    ASSUME NEW p \in Nat \ {0}, NEW t \in Nat, NEW a \in Nat, NEW b \in Nat,
           Close(a, t, p), Close(b, t, p)
    PROVE  a = b
<1>1. ASSUME NEW x \in Nat, NEW y \in Nat, x < y, Close(x, t, p), Close(y, t, p)
      PROVE  FALSE
  <2>1. PICK u \in Nat : u = x * p
    OBVIOUS
  <2>2. PICK v \in Nat : v = y * p
    OBVIOUS
  <2>3. v >= u + p
    <3>1. PICK k \in Nat : y = x + 1 + k
      <4>1. y = x + 1 + (y - x - 1) /\ y - x - 1 \in Nat
        BY <1>1
      <4>. QED
        BY <4>1
    <3>2. y * p = x * p + p + k * p
      BY <3>1
    <3>3. k * p \in Nat
      OBVIOUS
    <3>. QED
      BY <2>1, <2>2, <3>2, <3>3
  <2>4. \/ 2 * (IF u > t THEN u - t ELSE t - u) < p
        \/ 2 * (IF u > t THEN u - t ELSE t - u) = p /\ x % 2 = 0
    BY <1>1, <2>1 DEF Close
  <2>5. \/ 2 * (IF v > t THEN v - t ELSE t - v) < p
        \/ 2 * (IF v > t THEN v - t ELSE t - v) = p /\ y % 2 = 0
    BY <1>1, <2>2 DEF Close
  <2>6. v = u + p /\ x % 2 = 0 /\ y % 2 = 0
    BY <2>3, <2>4, <2>5
  <2>7. y # x + 1
    BY <2>6
  <2>8. PICK k \in Nat : y = x + 2 + k
    <3>1. y = x + 2 + (y - x - 2) /\ y - x - 2 \in Nat
      BY <1>1, <2>7
    <3>. QED
      BY <3>1
  <2>9. y * p = x * p + 2 * p + k * p
    BY <2>8
  <2>10. k * p \in Nat
    OBVIOUS
  <2>. QED
    BY <2>1, <2>2, <2>6, <2>9, <2>10
<1>. QED
  BY <1>1

(* What fixed_mul adds before the shift: half of p, or one less if the quotient is even. *)
LEMMA RoundingIsClose ==
    ASSUME NEW t \in Nat, NEW h \in Nat \ {0}, NEW p \in Nat \ {0}, p = 2 * h
    PROVE  LET r == h - (1 - ((t \div p) % 2))
               ans == (t + r) \div p
           IN  r \in 0 .. h /\ ans \in 0 .. t /\ Close(ans, t, p)
<1>1. PICK q \in Nat, m \in 0 .. p - 1 : t = p * q + m /\ q = t \div p
  BY Divided
<1>2. PICK o \in {0, 1} : o = q % 2
  OBVIOUS
<1>3. PICK r \in 0 .. h : r = h - (1 - o)
  OBVIOUS
<1>4. PICK w \in Nat : w = p * q
  OBVIOUS
<1>5. t = w + m /\ q <= w
  BY <1>1, <1>4
<1>r. h - (1 - ((t \div p) % 2)) = r
  BY <1>1, <1>2, <1>3
<1>6. CASE m + r < p
  <2>1. PICK s \in 0 .. p - 1 : s = m + r
    BY <1>6
  <2>2. t + r = p * q + s
    BY <1>4, <1>5, <2>1
  <2>3. (t + r) \div p = q
    BY <2>2, Quotient
  <2>4. q * p = w
    BY <1>4
  <2>5. Close(q, t, p)
    <3>1. 2 * m < p \/ (2 * m = p /\ o = 0)
      BY <1>3, <1>6
    <3>. QED
      BY <1>2, <1>5, <2>4, <3>1 DEF Close
  <2>6. q \in 0 .. t
    BY <1>5
  <2>. QED
    BY <1>r, <2>3, <2>5, <2>6
<1>7. CASE ~(m + r < p)
  <2>1. PICK s \in 0 .. p - 1 : s = m + r - p
    <3>1. m + r - p \in 0 .. p - 1
      BY <1>7
    <3>. QED
      BY <3>1
  <2>2. PICK n \in Nat : n = q + 1
    OBVIOUS
  <2>3. p * n = w + p
    BY <1>4, <2>2
  <2>4. t + r = p * n + s
    BY <1>5, <2>1, <2>3
  <2>5. (t + r) \div p = n
    BY <2>4, Quotient
  <2>6. n * p = w + p
    BY <2>3
  <2>7. Close(n, t, p)
    <3>1. 2 * (p - m) < p \/ (2 * (p - m) = p /\ o = 1)
      BY <1>3, <1>7
    <3>2. o = 1 => n % 2 = 0
      BY <1>2, <2>2
    <3>3. n * p - t = p - m /\ n * p > t
      BY <1>5, <2>6
    <3>. QED
      BY <3>1, <3>2, <3>3 DEF Close
  <2>8. n <= t
    <3>1. m >= 1
      BY <1>3, <1>7
    <3>. QED
      BY <1>5, <2>2, <3>1
  <2>. QED
    BY <1>1, <1>2, <1>3, <2>5, <2>7, <2>8
<1>. QED
  BY <1>6, <1>7


(* A longer word holds more. *)
LEMMA PowerGrows ==
    ASSUME NEW n \in Nat, NEW k \in Nat
    PROVE  2 ^ n <= 2 ^ (n + k)
<1>. DEFINE P == {i \in Nat : 2 ^ n <= 2 ^ (n + i)}
<1>1. 0 \in P
  <2>1. 2 ^ n \in Nat /\ n + 0 = n
    BY PowerType
  <2>. QED
    BY <2>1
<1>2. ASSUME NEW i \in Nat, i \in P
      PROVE  i + 1 \in P
  <2>1. n + i \in Nat /\ n + (i + 1) = (n + i) + 1
    OBVIOUS
  <2>2. 2 ^ n \in Nat /\ 2 ^ (n + i) \in Nat /\ 2 ^ ((n + i) + 1) = 2 * 2 ^ (n + i)
    BY <2>1, PowerType, PowerDoubles
  <2>3. 2 ^ n <= 2 ^ (n + i)
    BY <1>2
  <2>4. 2 ^ n <= 2 ^ (n + (i + 1))
    BY <2>1, <2>2, <2>3
  <2>. QED
    BY <2>4
<1>3. \A i \in Nat : i \in P
  <2>. HIDE DEF P
  <2>. QED
    BY <1>1, <1>2, SetInduction
<1>. QED
  BY <1>3

LEMMA ModulusType == Modulus \in Nat /\ Modulus >= 2
<1>1. Width - 1 \in Nat /\ Width = (Width - 1) + 1
  BY RoutineAssumption
<1>2. 2 ^ (Width - 1) \in Nat \ {0} /\ 2 ^ ((Width - 1) + 1) = 2 * 2 ^ (Width - 1)
  BY <1>1, PowerType, PowerDoubles
<1>. QED
  BY <1>1, <1>2 DEF Modulus

(* The sum is computed in 64 bits, which it does not exceed. *)
LEMMA NoOverflow ==
    ASSUME NEW m \in Nat, m >= 2, NEW a \in 0 .. m - 1, NEW b \in 0 .. m - 1,
           NEW r \in 0 .. m
    PROVE  (a * b + r) % (m * m) = a * b + r /\ a * b \in Nat
<1>1. PICK c \in Nat : c = a * b
  OBVIOUS
<1>2. c <= (m - 1) * (m - 1)
  <2>1. a * b <= a * (m - 1)
    OBVIOUS
  <2>2. a * (m - 1) <= (m - 1) * (m - 1)
    OBVIOUS
  <2>. QED
    BY <1>1, <2>1, <2>2
<1>3. PICK s \in Nat : s = m * m
  OBVIOUS
<1>4. (m - 1) * (m - 1) = s - 2 * m + 1
  BY <1>3
<1>5. c + r \in 0 .. s - 1
  BY <1>2, <1>4
<1>6. s \in Nat \ {0}
  BY <1>5
<1>7. PICK x \in 0 .. s - 1 : x = c + r
  BY <1>5
<1>8. x % s = x
  BY <1>6
<1>. QED
  BY <1>1, <1>3, <1>7, <1>8

(* The two branches of fixed_mul. *)
LEMMA FixedMulRounds ==
    ASSUME NEW a \in Unsigned, NEW b \in Unsigned, NEW n \in 1 .. Width, n # Width
    PROVE  FixedMul(a, b, n) = Min({Nearest(a * b, n), Modulus - 1})
<1>. DEFINE p == 2 ^ n
<1>. DEFINE h == 2 ^ (n - 1)
<1>. DEFINE t == a * b
<1>. DEFINE r == h - (1 - ((t \div p) % 2))
<1>. DEFINE ans == (t + r) \div p
<1>1. n \in Nat /\ n - 1 \in Nat /\ n = (n - 1) + 1 /\ Width - n \in Nat /\ Width = n + (Width - n)
  BY RoutineAssumption
<1>2. p \in Nat \ {0} /\ h \in Nat \ {0} /\ p = 2 * h
  BY <1>1, PowerType, PowerDoubles
<1>3. p <= Modulus
  BY <1>1, PowerGrows DEF Modulus
<1>4. t \in Nat
  BY ModulusType DEF Unsigned
<1>5. r \in 0 .. h /\ ans \in 0 .. t /\ Close(ans, t, p)
  <2>. HIDE DEF p, h, t
  <2>. QED
    BY <1>2, <1>4, RoundingIsClose
<1>6. (t + r) % (Modulus * Modulus) = t + r
  <2>1. r \in 0 .. Modulus
    <3>. HIDE DEF r, p, h
    <3>. QED
      BY <1>2, <1>3, <1>5, ModulusType
  <2>2. a \in 0 .. Modulus - 1 /\ b \in 0 .. Modulus - 1 /\ Modulus \in Nat /\ Modulus >= 2
    BY ModulusType DEF Unsigned
  <2>. HIDE DEF r
  <2>. QED
    BY <2>1, <2>2, NoOverflow
<1>7. FixedMul(a, b, n) = Min({ans, Modulus - 1})
  BY <1>6 DEF FixedMul
<1>8. Nearest(t, n) = ans
  <2>. DEFINE near == CHOOSE q \in 0 .. t : Close(q, t, p)
  <2>1. near \in 0 .. t /\ Close(near, t, p)
    <3>. HIDE DEF ans, t, p
    <3>. QED
      BY <1>5
  <2>2. near = ans
    <3>1. near \in Nat /\ ans \in Nat
      <4>. HIDE DEF ans, near, t
      <4>. QED
        BY <1>5, <2>1, <1>4
    <3>. HIDE DEF ans, near, t, p
    <3>. QED
      BY <1>2, <1>4, <1>5, <2>1, <3>1, CloseIsUnique
  <2>3. Nearest(t, n) = near
    BY DEF Nearest, Close
  <2>. QED
    BY <2>2, <2>3
<1>. HIDE DEF ans
<1>. QED
  BY <1>7, <1>8

LEMMA FixedMulTruncates ==
    ASSUME NEW a \in Unsigned, NEW b \in Unsigned
    PROVE  LET r == FixedMul(a, b, Width)
           IN  r * Modulus <= a * b /\ a * b < (r + 1) * Modulus
<1>1. PICK t \in Nat : t = a * b
  BY ModulusType DEF Unsigned
<1>2. PICK m \in Nat \ {0} : m = Modulus
  BY ModulusType
<1>3. PICK q \in Nat, s \in 0 .. m - 1 : t = m * q + s /\ q = t \div m
  BY Divided
<1>4. FixedMul(a, b, Width) = q
  BY <1>1, <1>2, <1>3 DEF FixedMul
<1>5. q * m <= t /\ t < (q + 1) * m
  BY <1>3
<1>. QED
  BY <1>1, <1>2, <1>4, <1>5


-----------------------------------------------------------------------------
(* mystrcmp. *)
Byte(str, i) == IF i <= Len(str) THEN str[i] ELSE 0
LastByte == MaxString + 1
Strings == SeqUpTo(1 .. 3, MaxString)
Turn(f, s, t, i) == IF Byte(s, i) < Byte(t, i) THEN -1
                    ELSE IF Byte(s, i) > Byte(t, i) THEN 1
                    ELSE IF Byte(s, i) = 0 THEN 0 ELSE f[i + 1]
IsCmp(f, s, t) == f = [i \in 1 .. LastByte |-> Turn(f, s, t, i)]

(* Where the comparison stops, and the first such place. *)
Stops(s, t, i) == Byte(s, i) # Byte(t, i) \/ Byte(s, i) = 0
FirstStop(s, t, d) == /\ d \in 1 .. LastByte /\ Stops(s, t, d)
                      /\ \A i \in 1 .. d - 1 : ~Stops(s, t, i)

(* Of a string no byte is zero; behind it there is one. *)
LEMMA StringFacts ==
    ASSUME NEW s \in Strings
    PROVE  /\ s \in Seq(1 .. 3) /\ Len(s) \in 0 .. MaxString
           /\ \A i \in 1 .. Len(s) : s[i] \in 1 .. 3
           /\ \A i \in 1 .. LastByte : Byte(s, i) \in 0 .. 3 /\ (Byte(s, i) = 0 <=> i > Len(s))
           /\ Byte(s, LastByte) = 0
<1>1. PICK k \in 0 .. MaxString : s \in [1 .. k -> 1 .. 3]
  BY DEF Strings, SeqUpTo
<1>2. MaxString \in Nat
  BY RoutineAssumption
<1>3. s \in Seq(1 .. 3) /\ Len(s) = k
  BY <1>1, <1>2
<1>4. \A i \in 1 .. k : s[i] \in 1 .. 3
  BY <1>1
<1>. QED
  BY <1>2, <1>3, <1>4 DEF Byte, LastByte

(* There is a function with the recursion of the loop, built from its last turn on. *)
LEMMA CmpExists ==
    ASSUME NEW s \in Strings, NEW t \in Strings
    PROVE  \E f : IsCmp(f, s, t)
<1>. DEFINE D(n) == {i \in 1 .. LastByte : i + n >= LastByte}
<1>. DEFINE P == {n \in Nat : \E f : f = [i \in D(n) |-> Turn(f, s, t, i)]}
<1>0. LastByte \in Nat \ {0} /\ Byte(s, LastByte) = 0 /\ Byte(t, LastByte) = 0
  BY StringFacts, RoutineAssumption DEF LastByte
<1>1. 0 \in P
  <2>. DEFINE f == [i \in D(0) |-> 0]
  <2>1. \A i \in D(0) : i = LastByte
    BY <1>0
  <2>2. f = [i \in D(0) |-> Turn(f, s, t, i)]
    <3>. HIDE DEF D
    <3>1. \A i \in D(0) : Turn(f, s, t, i) = 0
      BY <1>0, <2>1 DEF Turn
    <3>. QED
      BY <3>1
  <2>. QED
    BY <2>2
<1>2. ASSUME NEW n \in Nat, n \in P
      PROVE  n + 1 \in P
  <2>1. PICK f : f = [i \in D(n) |-> Turn(f, s, t, i)]
    BY <1>2
  <2>. DEFINE larger == [i \in D(n + 1) |-> Turn(f, s, t, i)]
  <2>2. ASSUME NEW i \in D(n + 1)
        PROVE  Turn(f, s, t, i) = Turn(larger, s, t, i)
    <3>1. CASE i = LastByte
      BY <1>0, <3>1 DEF Turn
    <3>2. CASE i # LastByte
      <4>1. i + 1 \in D(n) /\ i + 1 \in D(n + 1)
        BY <1>0, <3>2
      <4>2. f[i + 1] = Turn(f, s, t, i + 1)
        BY <2>1, <4>1
      <4>3. larger[i + 1] = Turn(f, s, t, i + 1)
        BY <4>1
      <4>. QED
        BY <4>2, <4>3 DEF Turn
    <3>. QED
      BY <3>1, <3>2
  <2>3. larger = [i \in D(n + 1) |-> Turn(larger, s, t, i)]
    <3>. HIDE DEF D
    <3>. QED
      BY <2>2
  <2>. HIDE DEF larger, D
  <2>4. n + 1 \in Nat
    OBVIOUS
  <2>. QED
    BY <2>3, <2>4
<1>3. \A n \in Nat : n \in P
  <2>. HIDE DEF P
  <2>. QED
    BY <1>1, <1>2, SetInduction
<1>4. D(LastByte) = 1 .. LastByte
  BY <1>0
<1>5. PICK f : f = [i \in D(LastByte) |-> Turn(f, s, t, i)]
  BY <1>0, <1>3
<1>6. f = [i \in 1 .. LastByte |-> Turn(f, s, t, i)]
  BY <1>4, <1>5
<1>. QED
  BY <1>6 DEF IsCmp

LEMMA MystrcmpIs ==
    ASSUME NEW s \in Strings, NEW t \in Strings
    PROVE  \E f : IsCmp(f, s, t) /\ Mystrcmp(s, t) = f[1]
<1>. DEFINE f == CHOOSE g : IsCmp(g, s, t)
<1>1. IsCmp(f, s, t)
  BY CmpExists
<1>2. Mystrcmp(s, t) = f[1]
  BY Zenon DEF Mystrcmp, IsCmp, Turn, Byte, LastByte
<1>. QED
  BY <1>1, <1>2

LEMMA FirstStopExists ==
    ASSUME NEW s \in Strings, NEW t \in Strings
    PROVE  \E d : FirstStop(s, t, d)
<1>. DEFINE T == {i \in 1 .. LastByte : Stops(s, t, i)}
<1>1. LastByte \in 1 .. LastByte /\ 1 .. LastByte \subseteq Nat
  BY RoutineAssumption DEF LastByte
<1>2. Byte(s, LastByte) = 0
  BY StringFacts
<1>3. T \subseteq Nat /\ T # {}
  BY <1>1, <1>2 DEF Stops
<1>4. PICK d \in T : \A i \in T : d <= i
  <2>. HIDE DEF T
  <2>. QED
    BY <1>3, LeastNatural
<1>5. FirstStop(s, t, d)
  BY <1>1, <1>4 DEF FirstStop
<1>. QED
  BY <1>5

(* The loop comes to the first place where it can stop, and no further. *)
LEMMA MystrcmpStops ==
    ASSUME NEW s \in Strings, NEW t \in Strings, NEW d, FirstStop(s, t, d)
    PROVE  Mystrcmp(s, t) = IF Byte(s, d) < Byte(t, d) THEN -1
                            ELSE IF Byte(t, d) < Byte(s, d) THEN 1 ELSE 0
<1>1. PICK f : IsCmp(f, s, t) /\ Mystrcmp(s, t) = f[1]
  BY MystrcmpIs
<1>2. \A i \in 1 .. LastByte : f[i] = Turn(f, s, t, i)
  BY <1>1 DEF IsCmp
<1>3. d \in 1 .. LastByte /\ d \in Nat /\ d - 1 \in Nat /\ LastByte \in Nat
  BY RoutineAssumption DEF FirstStop, LastByte
<1>. DEFINE P == {n \in Nat : n < d => f[1] = f[n + 1]}
<1>4. 0 \in P
  OBVIOUS
<1>5. ASSUME NEW n \in Nat, n \in P
      PROVE  n + 1 \in P
  <2>1. CASE n + 1 < d
    <3>1. n + 1 \in 1 .. LastByte /\ n + 1 \in 1 .. d - 1
      BY <1>3, <2>1
    <3>2. ~Stops(s, t, n + 1)
      BY <3>1 DEF FirstStop
    <3>3. Byte(s, n + 1) \in Nat /\ Byte(t, n + 1) \in Nat
      BY <3>1, StringFacts
    <3>4. f[n + 1] = f[n + 1 + 1]
      BY <1>2, <3>1, <3>2, <3>3 DEF Turn, Stops
    <3>. QED
      BY <1>3, <1>5, <2>1, <3>4
  <2>2. CASE ~(n + 1 < d)
    BY <2>2
  <2>. QED
    BY <2>1, <2>2
<1>6. d - 1 \in P
  <2>1. \A n \in Nat : n \in P
    <3>. HIDE DEF P
    <3>. QED
      BY <1>4, <1>5, SetInduction
  <2>. QED
    BY <1>3, <2>1
<1>7. f[1] = f[d]
  BY <1>3, <1>6
<1>8. f[d] = Turn(f, s, t, d) /\ Stops(s, t, d)
  BY <1>2, <1>3 DEF FirstStop
<1>9. Byte(s, d) \in Nat /\ Byte(t, d) \in Nat
  BY <1>3, StringFacts
<1>. QED
  BY <1>1, <1>7, <1>8, <1>9 DEF Turn, Stops

(* There Before decides too. *)
LEMMA BeforeAtStop ==
    ASSUME NEW s \in Strings, NEW t \in Strings, NEW d, FirstStop(s, t, d)
    PROVE  Before(s, t) <=> Byte(s, d) < Byte(t, d)
<1>1. /\ Len(s) \in 0 .. MaxString /\ Len(t) \in 0 .. MaxString /\ MaxString \in Nat
      /\ \A i \in 1 .. LastByte : Byte(s, i) \in 0 .. 3 /\ (Byte(s, i) = 0 <=> i > Len(s))
      /\ \A i \in 1 .. LastByte : Byte(t, i) \in 0 .. 3 /\ (Byte(t, i) = 0 <=> i > Len(t))
      /\ \A i \in 1 .. Len(s) : Byte(s, i) = s[i]
      /\ \A i \in 1 .. Len(t) : Byte(t, i) = t[i]
  BY StringFacts, RoutineAssumption DEF Byte
<1>2. LastByte = MaxString + 1
  BY DEF LastByte
<1>3. d \in 1 .. LastByte /\ Stops(s, t, d) /\ \A i \in 1 .. d - 1 : ~Stops(s, t, i)
  BY DEF FirstStop
<1>4. ASSUME Byte(s, d) < Byte(t, d)
      PROVE  Before(s, t)
  <2>1. d <= Len(t)
    BY <1>1, <1>2, <1>3, <1>4
  <2>2. ASSUME NEW i \in 1 .. d - 1
        PROVE  s[i] = t[i] /\ i <= Len(s)
    <3>1. ~Stops(s, t, i) /\ i \in 1 .. LastByte
      BY <1>1, <1>2, <1>3
    <3>2. Byte(s, i) = Byte(t, i) /\ Byte(s, i) # 0
      BY <3>1 DEF Stops
    <3>3. i <= Len(s) /\ i <= Len(t)
      BY <1>1, <3>1, <3>2
    <3>. QED
      BY <1>1, <3>2, <3>3
  <2>3. d <= Len(s) + 1
    <3>1. CASE d = 1
      BY <1>1, <3>1
    <3>2. CASE d # 1
      <4>1. d - 1 \in 1 .. d - 1
        BY <1>1, <1>2, <1>3, <3>2
      <4>. QED
        BY <1>1, <1>2, <1>3, <2>2, <4>1
    <3>. QED
      BY <3>1, <3>2
  <2>4. d <= Len(s) => s[d] < t[d]
    BY <1>1, <1>3, <1>4, <2>1
  <2>5. d \in 1 .. Len(t)
    BY <1>1, <1>2, <1>3, <2>1
  <2>. QED
    BY <2>2, <2>3, <2>4, <2>5 DEF Before
<1>5. ASSUME Before(s, t)
      PROVE  Byte(s, d) < Byte(t, d)
  <2>1. PICK k \in 1 .. Len(t) : /\ k <= Len(s) + 1 /\ \A i \in 1 .. k - 1 : s[i] = t[i]
                                 /\ k <= Len(s) => s[k] < t[k]
    BY <1>5 DEF Before
  <2>2. k \in 1 .. LastByte /\ k - 1 <= Len(s)
    BY <1>1, <1>2, <2>1
  <2>3. Byte(s, k) < Byte(t, k)
    <3>1. Byte(t, k) = t[k] /\ Byte(t, k) # 0 /\ Byte(t, k) \in Nat
      BY <1>1, <2>1, <2>2
    <3>2. CASE k <= Len(s)
      BY <1>1, <2>1, <2>2, <3>1, <3>2
    <3>3. CASE ~(k <= Len(s))
      <4>1. Byte(s, k) = 0
        BY <1>1, <2>2, <3>3
      <4>. QED
        BY <3>1, <4>1
    <3>. QED
      BY <3>2, <3>3
  <2>4. ASSUME NEW i \in 1 .. k - 1
        PROVE  ~Stops(s, t, i)
    <3>1. i \in 1 .. Len(s) /\ i \in 1 .. Len(t) /\ i \in 1 .. LastByte
      BY <1>1, <1>2, <2>1, <2>2
    <3>2. Byte(s, i) = s[i] /\ Byte(t, i) = t[i] /\ s[i] = t[i] /\ Byte(s, i) # 0
      BY <1>1, <2>1, <3>1
    <3>. QED
      BY <3>2 DEF Stops
  <2>5. Stops(s, t, k)
    <3>1. Byte(s, k) \in Nat /\ Byte(t, k) \in Nat
      BY <1>1, <2>2
    <3>. QED
      BY <2>3, <3>1 DEF Stops
  <2>6. k = d
    <3>1. k \in Nat /\ d \in Nat /\ k >= 1 /\ d >= 1
      BY <1>3, <2>1
    <3>2. ~(d < k)
      <4>1. d < k => d \in 1 .. k - 1
        BY <3>1
      <4>. QED
        BY <1>3, <2>4, <4>1
    <3>3. ~(k < d)
      <4>1. k < d => k \in 1 .. d - 1
        BY <3>1
      <4>. QED
        BY <1>3, <2>5, <4>1
    <3>. QED
      BY <3>1, <3>2, <3>3
  <2>. QED
    BY <2>3, <2>6
<1>. QED
  BY <1>4, <1>5

(* mystrcmp is the order of strcmp. *)
LEMMA StrcmpPromised ==
    ASSUME NEW s \in Strings, NEW t \in Strings
    PROVE  Mystrcmp(s, t) = IF Before(s, t) THEN -1 ELSE IF Before(t, s) THEN 1 ELSE 0
<1>1. PICK d : FirstStop(s, t, d)
  BY FirstStopExists
<1>2. FirstStop(t, s, d)
  <2>1. \A i : Stops(s, t, i) <=> Stops(t, s, i)
    BY DEF Stops
  <2>. QED
    BY <1>1, <2>1 DEF FirstStop
<1>3. Before(s, t) <=> Byte(s, d) < Byte(t, d)
  BY <1>1, BeforeAtStop
<1>4. Before(t, s) <=> Byte(t, d) < Byte(s, d)
  BY <1>2, BeforeAtStop
<1>. QED
  BY <1>1, <1>3, <1>4, MystrcmpStops


-----------------------------------------------------------------------------
(* minmax: what two intervals share. *)
LEMMA MinMaxOfTwo ==
    ASSUME NEW a \in Int, NEW b \in Int
    PROVE  /\ Min({a, b}) = IF a <= b THEN a ELSE b
           /\ Max({a, b}) = IF a <= b THEN b ELSE a
<1>1. \A m \in {a, b} : (\A y \in {a, b} : m <= y) <=> m = IF a <= b THEN a ELSE b
  OBVIOUS
<1>2. \A m \in {a, b} : (\A y \in {a, b} : m >= y) <=> m = IF a <= b THEN b ELSE a
  OBVIOUS
<1>. QED
  BY <1>1, <1>2 DEF Min, Max

LEMMA RemainderOf ==
    ASSUME NEW m \in Nat \ {0}, NEW q \in Int, NEW r \in 0 .. m - 1
    PROVE  (m * q + r) % m = r
OBVIOUS

(* The signed numbers are an interval, which Signed leaves alone. *)
LEMMA SignedFacts ==
    \E h \in Nat : /\ h < Modulus /\ h = Modulus \div 2
                   /\ SignedInt = (0 - h) .. (Modulus - 1 - h)
                   /\ \A y \in SignedInt : Signed(y) = y
                   /\ \A x \in Int : Signed(x) = ((x + h) % Modulus) - h
<1>1. PICK m \in Nat \ {0} : m = Modulus
  BY ModulusType
<1>2. PICK h \in Nat : h = m \div 2 /\ h < m
  OBVIOUS
<1>3. \A x \in Int : Signed(x) = ((x + h) % m) - h
  BY <1>1, <1>2 DEF Signed
<1>4. \A y \in (0 - h) .. (m - 1 - h) : Signed(y) = y
  <2>. TAKE y \in (0 - h) .. (m - 1 - h)
  <2>1. PICK z \in 0 .. m - 1 : z = y + h
    BY <1>2
  <2>2. z % m = z
    OBVIOUS
  <2>3. y \in Int
    OBVIOUS
  <2>. QED
    BY <1>3, <2>1, <2>2, <2>3
<1>5. \A x \in 0 .. m - 1 : Signed(x) \in (0 - h) .. (m - 1 - h)
  <2>. TAKE x \in 0 .. m - 1
  <2>1. PICK z \in Int : z = x + h
    OBVIOUS
  <2>2. z % m \in 0 .. m - 1
    BY <2>1
  <2>3. x \in Int
    OBVIOUS
  <2>. QED
    BY <1>2, <1>3, <2>1, <2>2, <2>3
<1>6. \A y \in (0 - h) .. (m - 1 - h) : \E x \in 0 .. m - 1 : Signed(x) = y
  <2>. TAKE y \in (0 - h) .. (m - 1 - h)
  <2>1. CASE y >= 0
    <3>1. y \in 0 .. m - 1
      BY <1>2, <2>1
    <3>. QED
      BY <1>4, <3>1
  <2>2. CASE y < 0
    <3>1. PICK x \in 0 .. m - 1 : x = y + m
      <4>1. y + m \in 0 .. m - 1
        BY <1>2, <2>2
      <4>. QED
        BY <4>1
    <3>2. PICK z \in 0 .. m - 1 : z = y + h
      BY <1>2
    <3>3. x + h = m * 1 + z
      BY <3>1, <3>2
    <3>4. (x + h) % m = z
      BY <3>3, RemainderOf
    <3>5. Signed(x) = y
      <4>1. x \in Int
        OBVIOUS
      <4>. QED
        BY <1>3, <3>2, <3>4, <4>1
    <3>. QED
      BY <3>5
  <2>. QED
    BY <2>1, <2>2
<1>7. SignedInt = (0 - h) .. (m - 1 - h)
  BY <1>1, <1>5, <1>6 DEF SignedInt, Unsigned
<1>. QED
  BY <1>1, <1>2, <1>3, <1>4, <1>7

(* InCommon, of two intervals. *)
Shared(l1, r1, l2, r2) ==
    Min({r1, r2}) - Max({l1, l2}) \in SignedInt =>
        Overlap(l1, r1, l2, r2) = Cardinality({x \in SignedInt : l1 <= x /\ x < r1 /\ l2 <= x /\ x < r2})

LEMMA OverlapPromised ==
    ASSUME NEW l1 \in SignedInt, NEW r1 \in SignedInt, NEW l2 \in SignedInt, NEW r2 \in SignedInt
    PROVE  Shared(l1, r1, l2, r2)
<1>. SUFFICES ASSUME Min({r1, r2}) - Max({l1, l2}) \in SignedInt
              PROVE  Overlap(l1, r1, l2, r2) =
                         Cardinality({x \in SignedInt : l1 <= x /\ x < r1 /\ l2 <= x /\ x < r2})
  BY Zenon DEF Shared
<1>1. PICK h \in Nat : /\ h < Modulus /\ SignedInt = (0 - h) .. (Modulus - 1 - h)
                       /\ \A y \in SignedInt : Signed(y) = y
  BY SignedFacts
<1>2. {l1, r1, l2, r2} \subseteq Int
  BY <1>1, ModulusType
<1>3. PICK lo \in SignedInt : lo = IF l1 <= l2 THEN l2 ELSE l1
  OBVIOUS
<1>4. PICK hi \in SignedInt : hi = IF r1 <= r2 THEN r1 ELSE r2
  OBVIOUS
<1>5. Min({r1, r2}) = hi /\ Max({l1, l2}) = lo
  BY <1>2, <1>3, <1>4, MinMaxOfTwo
<1>6. lo \in Int /\ hi \in Int /\ hi - lo \in SignedInt
  BY <1>1, <1>5, ModulusType
<1>7. Overlap(l1, r1, l2, r2) = IF 0 < hi - lo THEN hi - lo ELSE 0
  <2>1. (IF r2 > r1 THEN r1 ELSE r2) = hi
    BY <1>2, <1>4
  <2>2. (IF l2 < l1 THEN l1 ELSE l2) = lo
    BY <1>2, <1>3
  <2>3. Signed(hi - lo) = hi - lo
    BY <1>1, <1>6
  <2>. QED
    BY <2>1, <2>2, <2>3 DEF Overlap
<1>8. {x \in SignedInt : l1 <= x /\ x < r1 /\ l2 <= x /\ x < r2} = lo .. hi - 1
  <2>1. ASSUME NEW x \in SignedInt, l1 <= x, x < r1, l2 <= x, x < r2
        PROVE  x \in lo .. hi - 1
    <3>1. x \in Int
      BY <1>1, ModulusType
    <3>. QED
      BY <1>2, <1>3, <1>4, <1>6, <2>1, <3>1
  <2>2. ASSUME NEW x \in lo .. hi - 1
        PROVE  x \in SignedInt /\ l1 <= x /\ x < r1 /\ l2 <= x /\ x < r2
    <3>1. x \in Int /\ lo <= x /\ x < hi
      BY <1>6
    <3>2. x \in SignedInt
      BY <1>1, <1>6, <3>1, ModulusType
    <3>. QED
      BY <1>2, <1>3, <1>4, <1>6, <3>1, <3>2
  <2>. QED
    BY <2>1, <2>2
<1>9. Cardinality(lo .. hi - 1) = IF lo > hi - 1 THEN 0 ELSE hi - 1 - lo + 1
  <2>1. hi - 1 \in Int
    BY <1>6
  <2>. QED
    BY <1>6, <2>1, FS_Interval
<1>10. (IF lo > hi - 1 THEN 0 ELSE hi - 1 - lo + 1) = IF 0 < hi - lo THEN hi - lo ELSE 0
  BY <1>6
<1>. QED
  BY <1>7, <1>8, <1>9, <1>10


-----------------------------------------------------------------------------
(* loop.S and the reversals: g[n], g[n - 1], ... down to g[1]. *)
Descends(f, g, n) == f = [e \in 0 .. n |-> IF e = 0 THEN <<>> ELSE <<g[e]>> \o f[e - 1]]
Down(g, e) == [k \in 1 .. e |-> g[e - k + 1]]
Numbered(g, n) == g = [e \in 1 .. n |-> g[e]]

(* Down has the recursion, so it is what the loops compute. *)
LEMMA DownNext ==
    ASSUME NEW n \in Nat, NEW g, Numbered(g, n), NEW e \in 1 .. n
    PROVE  Down(g, e) = <<g[e]>> \o Down(g, e - 1)
<1>. DEFINE T == {g[k] : k \in 1 .. n}
<1>0. \A k \in 1 .. n : g[k] \in T
  OBVIOUS
<1>. HIDE DEF T
<1>. DEFINE p == Down(g, e - 1)
<1>1. p \in Seq(T) /\ Len(p) = e - 1 /\ \A k \in 1 .. e - 1 : p[k] = g[e - 1 - k + 1]
  <2>1. e - 1 \in Nat /\ \A k \in 1 .. e - 1 : e - 1 - k + 1 \in 1 .. n
    OBVIOUS
  <2>. QED
    BY <1>0, <2>1 DEF Down
<1>2. g[e] \in T /\ <<g[e]>> \in Seq(T) /\ Len(<<g[e]>>) = 1
  BY <1>0
<1>. DEFINE q == <<g[e]>> \o p
<1>3. q \in Seq(T) /\ Len(q) = e /\ \A k \in 1 .. e : q[k] = IF k = 1 THEN g[e] ELSE p[k - 1]
  <2>. HIDE DEF p
  <2>. QED
    BY <1>1, <1>2
<1>4. \A k \in 1 .. e : q[k] = g[e - k + 1]
  <2>. TAKE k \in 1 .. e
  <2>1. CASE k = 1
    <3>1. e - k + 1 = e
      BY <2>1
    <3>. QED
      BY <1>3, <2>1, <3>1
  <2>2. CASE k # 1
    <3>1. k - 1 \in 1 .. e - 1 /\ e - 1 - (k - 1) + 1 = e - k + 1
      BY <2>2
    <3>2. p[k - 1] = g[e - 1 - (k - 1) + 1]
      <4>. HIDE DEF p
      <4>. QED
        BY <1>1, <3>1
    <3>. HIDE DEF p, q
    <3>. QED
      BY <1>3, <2>2, <3>1, <3>2
  <2>. QED
    BY <2>1, <2>2
<1>5. q = [k \in 1 .. e |-> g[e - k + 1]]
  <2>. HIDE DEF q, p
  <2>1. q = [k \in 1 .. e |-> q[k]]
    BY <1>3
  <2>. QED
    BY <1>4, <2>1
<1>. QED
  BY <1>5 DEF Down

LEMMA DescendsExists ==
    ASSUME NEW n \in Nat, NEW g, Numbered(g, n)
    PROVE  \E f : Descends(f, g, n)
<1>. DEFINE f == [e \in 0 .. n |-> Down(g, e)]
<1>1. ASSUME NEW e \in 0 .. n
      PROVE  f[e] = IF e = 0 THEN <<>> ELSE <<g[e]>> \o f[e - 1]
  <2>1. CASE e = 0
    <3>1. Down(g, 0) = <<>>
      BY DEF Down
    <3>. QED
      BY <2>1, <3>1
  <2>2. CASE e # 0
    <3>1. e \in 1 .. n /\ e - 1 \in 0 .. n
      BY <2>2
    <3>2. f[e] = Down(g, e) /\ f[e - 1] = Down(g, e - 1)
      BY <3>1
    <3>3. Down(g, e) = <<g[e]>> \o Down(g, e - 1)
      BY <3>1, DownNext
    <3>. QED
      BY <2>2, <3>2, <3>3
  <2>. QED
    BY <2>1, <2>2
<1>2. f = [e \in 0 .. n |-> f[e]]
  OBVIOUS
<1>. HIDE DEF f
<1>3. f = [e \in 0 .. n |-> IF e = 0 THEN <<>> ELSE <<g[e]>> \o f[e - 1]]
  BY <1>1, <1>2
<1>. QED
  BY <1>3 DEF Descends

LEMMA DescendsIsDown ==
    ASSUME NEW n \in Nat, NEW g, Numbered(g, n), NEW f, Descends(f, g, n)
    PROVE  \A e \in 0 .. n : f[e] = Down(g, e)
<1>. DEFINE P == {e \in Nat : e <= n => f[e] = Down(g, e)}
<1>0. \A e \in 0 .. n : f[e] = IF e = 0 THEN <<>> ELSE <<g[e]>> \o f[e - 1]
  BY DEF Descends
<1>1. 0 \in P
  <2>1. Down(g, 0) = <<>>
    BY DEF Down
  <2>2. 0 \in 0 .. n
    OBVIOUS
  <2>3. f[0] = <<>>
    BY <1>0, <2>2
  <2>. QED
    BY <2>1, <2>3
<1>2. ASSUME NEW e \in Nat, e \in P
      PROVE  e + 1 \in P
  <2>1. CASE e + 1 <= n
    <3>1. PICK d \in 1 .. n : d = e + 1 /\ d - 1 = e /\ d # 0 /\ d \in 0 .. n
      BY <2>1
    <3>2. f[d] = <<g[d]>> \o f[d - 1]
      BY <1>0, <3>1
    <3>3. f[e] = Down(g, e)
      BY <1>2, <2>1
    <3>4. Down(g, d) = <<g[d]>> \o Down(g, d - 1)
      BY DownNext
    <3>5. f[e + 1] = Down(g, e + 1)
      BY <3>1, <3>2, <3>3, <3>4
    <3>. QED
      BY <3>5
  <2>2. CASE ~(e + 1 <= n)
    BY <2>2
  <2>. QED
    BY <2>1, <2>2
<1>3. \A e \in Nat : e \in P
  <2>. HIDE DEF P
  <2>. QED
    BY <1>1, <1>2, SetInduction
<1>. QED
  BY <1>3

(* Both reversals reverse. *)
LEMMA ReversePromised ==
    ASSUME NEW T, NEW numbers \in Seq(T)
    PROVE  ReverseNumbers(numbers) = Reverse(numbers)
<1>. DEFINE n == Len(numbers)
<1>1. n \in Nat /\ Numbered(numbers, n)
  BY DEF Numbered
<1>. DEFINE edi == [esi \in 0 .. n - 1 |-> numbers[esi + 1]]
<1>. DEFINE IsLoop(f) == f = [esi \in 0 .. n |-> IF esi = 0 THEN <<>> ELSE <<edi[esi - 1]>> \o f[esi - 1]]
<1>. DEFINE loop == CHOOSE f : IsLoop(f)
<1>2. \A e \in 1 .. n : edi[e - 1] = numbers[e]
  <2>. TAKE e \in 1 .. n
  <2>1. e - 1 \in 0 .. n - 1 /\ e - 1 + 1 = e
    BY <1>1
  <2>. QED
    BY <2>1
<1>3. \A f : IsLoop(f) <=> Descends(f, numbers, n)
  <2>. TAKE f
  <2>. HIDE DEF edi, n
  <2>1. \A e \in 0 .. n : e = 0 \/ e \in 1 .. n
    BY <1>1
  <2>2. [esi \in 0 .. n |-> IF esi = 0 THEN <<>> ELSE <<edi[esi - 1]>> \o f[esi - 1]]
        = [e \in 0 .. n |-> IF e = 0 THEN <<>> ELSE <<numbers[e]>> \o f[e - 1]]
    BY <1>2, <2>1
  <2>. QED
    BY <2>2 DEF Descends
<1>4. Descends(loop, numbers, n)
  <2>1. \E f : IsLoop(f)
    <3>. HIDE DEF n, IsLoop
    <3>. QED
      BY <1>1, <1>3, DescendsExists
  <2>2. IsLoop(loop)
    <3>. HIDE DEF IsLoop
    <3>. QED
      BY <2>1
  <2>. QED
    BY <1>3, <2>2
<1>5. ReverseNumbers(numbers) = loop[n]
  BY Zenon DEF ReverseNumbers
<1>6. loop[n] = Down(numbers, n)
  <2>1. n \in 0 .. n
    BY <1>1
  <2>. HIDE DEF loop, n
  <2>. QED
    BY <1>1, <1>4, <2>1, DescendsIsDown
<1>. QED
  BY <1>1, <1>5, <1>6 DEF Down, Reverse

(* loop.S prints n, n - 1, ... down to 1, as 32 bits hold them. *)
LEMMA CountdownPromised ==
    ASSUME NEW n \in SignedInt
    PROVE  LET r == Countdown(n)
           IN  /\ Len(r) = n % Modulus
               /\ \A k \in DOMAIN r : (r[k] + k) % Modulus = (n + 1) % Modulus
<1>1. PICK h \in Nat : /\ h < Modulus /\ SignedInt = (0 - h) .. (Modulus - 1 - h)
                       /\ \A x \in Int : Signed(x) = ((x + h) % Modulus) - h
  BY SignedFacts
<1>2. PICK m \in Nat \ {0} : m = Modulus
  BY ModulusType
<1>. DEFINE top == m - 1
<1>. DEFINE g == [e \in 1 .. top |-> Signed(e)]
<1>. DEFINE IsLoop(f) == f = [eax \in Unsigned |-> IF eax = 0 THEN <<>> ELSE <<Signed(eax)>> \o f[eax - 1]]
<1>. DEFINE loop == CHOOSE f : IsLoop(f)
<1>3. top \in Nat /\ Unsigned = 0 .. top /\ Numbered(g, top)
  BY <1>2 DEF Unsigned, Numbered
<1>4. \A f : IsLoop(f) <=> Descends(f, g, top)
  <2>. TAKE f
  <2>1. \A e \in 0 .. top : e # 0 => g[e] = Signed(e)
    BY <1>2
  <2>. HIDE DEF g, top
  <2>2. [eax \in Unsigned |-> IF eax = 0 THEN <<>> ELSE <<Signed(eax)>> \o f[eax - 1]]
        = [e \in 0 .. top |-> IF e = 0 THEN <<>> ELSE <<g[e]>> \o f[e - 1]]
    BY <1>3, <2>1
  <2>. QED
    BY <2>2 DEF Descends
<1>5. Descends(loop, g, top)
  <2>1. \E f : IsLoop(f)
    <3>. HIDE DEF g, top, IsLoop
    <3>. QED
      BY <1>3, <1>4, DescendsExists
  <2>2. IsLoop(loop)
    <3>. HIDE DEF IsLoop
    <3>. QED
      BY <2>1
  <2>. QED
    BY <1>4, <2>2
<1>6. PICK e \in 0 .. top : e = n % m
  <2>1. n \in Int
    BY <1>1, <1>2
  <2>. QED
    BY <1>2, <2>1
<1>7. Countdown(n) = loop[n % Modulus]
  BY Zenon DEF Countdown
<1>8. Countdown(n) = Down(g, e)
  <2>. HIDE DEF loop, g, top
  <2>0. top \in Nat /\ Numbered(g, top) /\ Descends(loop, g, top)
    BY <1>3, <1>5
  <2>4. \A x \in 0 .. top : loop[x] = Down(g, x)
    BY <2>0, DescendsIsDown
  <2>1. loop[e] = Down(g, e)
    BY <2>4
  <2>. QED
    BY <1>2, <1>6, <1>7, <2>1
<1>9. /\ Len(Down(g, e)) = e /\ DOMAIN Down(g, e) = 1 .. e
      /\ \A k \in 1 .. e : Down(g, e)[k] = Signed(e - k + 1)
  <2>1. e \in Nat /\ \A k \in 1 .. e : e - k + 1 \in 1 .. top
    BY <1>3
  <2>. QED
    BY <2>1 DEF Down
<1>10. ASSUME NEW k \in 1 .. e
       PROVE  (Signed(e - k + 1) + k) % m = (n + 1) % m
  <2>1. PICK x \in Int : x = e - k + 1
    BY <1>3
  <2>2. PICK q \in Int, s \in 0 .. m - 1 : x + h = m * q + s /\ s = (x + h) % m
    <3>1. PICK z \in Int : z = x + h
      OBVIOUS
    <3>2. z \div m \in Int /\ z % m \in 0 .. m - 1 /\ z = m * (z \div m) + (z % m)
      OBVIOUS
    <3>. QED
      BY <3>1, <3>2
  <2>3. PICK p \in Int : n = m * p + e
    <3>1. n \in Int
      BY <1>1, <1>2
    <3>2. n \div m \in Int /\ n = m * (n \div m) + (n % m)
      BY <3>1
    <3>. QED
      BY <1>6, <3>2
  <2>4. PICK y \in Int, z \in 0 .. m - 1 : e + 1 = m * y + z
    <3>1. PICK u \in Int : u = e + 1
      BY <1>3
    <3>2. u \div m \in Int /\ u % m \in 0 .. m - 1 /\ u = m * (u \div m) + (u % m)
      OBVIOUS
    <3>. QED
      BY <3>1, <3>2
  <2>5. Signed(x) = s - h
    BY <1>1, <1>2, <2>2
  <2>6. PICK a \in Int : a = y - q
    OBVIOUS
  <2>7. PICK b \in Int : b = y + p
    OBVIOUS
  <2>8. s - h + k = m * a + z
    <3>1. m * a = m * y - m * q
      BY <2>6
    <3>2. e \in Int /\ k \in Int
      BY <1>3
    <3>. QED
      BY <2>1, <2>2, <2>4, <3>1, <3>2
  <2>9. n + 1 = m * b + z
    <3>1. m * b = m * y + m * p
      BY <2>7
    <3>2. e \in Int
      BY <1>3
    <3>. QED
      BY <2>3, <2>4, <3>1, <3>2
  <2>10. (m * a + z) % m = z /\ (m * b + z) % m = z
    BY RemainderOf
  <2>. QED
    BY <2>1, <2>5, <2>8, <2>9, <2>10
<1>. HIDE DEF g
<1>. QED
  BY <1>2, <1>6, <1>8, <1>9, <1>10

-----------------------------------------------------------------------------
(* dot_product: what its loop has still to add from i on. *)
Products(a, b) == [i \in DOMAIN a |-> a[i] * b[i]]
DotTurn(f, a, b, i) ==
    IF Len(a) - i >= 4
    THEN a[i + 1] * b[i + 1] + a[i + 1 + 1] * b[i + 1 + 1] + a[i + 2 + 1] * b[i + 2 + 1]
         + a[i + 3 + 1] * b[i + 3 + 1] + f[i + 4]
    ELSE IF Len(a) - i >= 1 THEN a[i + 1] * b[i + 1] + f[i + 1] ELSE 0
IsDot(f, a, b) == f = [i \in 0 .. Len(a) |-> DotTurn(f, a, b, i)]
Rest(p, n, i) == Total(p, (i + 1) .. n)
Numbers(p, n) == p \in [1 .. n -> Int]

(* A sum from i on is its first number and the sum from i + 1 on. *)
LEMMA RestOf ==
    ASSUME NEW n \in Nat, NEW p, Numbers(p, n)
    PROVE  /\ \A i \in 0 .. n : Rest(p, n, i) \in Int
           /\ Rest(p, n, n) = 0
           /\ \A i \in 0 .. n : i < n => Rest(p, n, i) = p[i + 1] + Rest(p, n, i + 1)
<1>1. ASSUME NEW i \in 0 .. n
      PROVE  Summable(p, (i + 1) .. n)
  <2>1. IsFiniteSet((i + 1) .. n)
    BY FS_Interval
  <2>2. \A x \in (i + 1) .. n : x \in 1 .. n
    OBVIOUS
  <2>. QED
    BY <2>1, <2>2 DEF Summable, Numbers
<1>2. Rest(p, n, n) = 0
  <2>1. (n + 1) .. n = {}
    OBVIOUS
  <2>. QED
    BY <2>1, TotalEmpty DEF Rest
<1>3. ASSUME NEW i \in 0 .. n
      PROVE  Rest(p, n, i) \in Int
  BY <1>1, TotalTakes DEF Rest
<1>4. ASSUME NEW i \in 0 .. n, i < n
      PROVE  Rest(p, n, i) = p[i + 1] + Rest(p, n, i + 1)
  <2>. DEFINE X == (i + 1) .. n
  <2>1. i + 1 \in X /\ X \ {i + 1} = (i + 1 + 1) .. n
    BY <1>4
  <2>2. Summable(p, X)
    BY <1>1
  <2>3. Total(p, X) = p[i + 1] + Total(p, X \ {i + 1})
    <3>. HIDE DEF X
    <3>. QED
      BY <2>1, <2>2, TotalTakes
  <2>. QED
    BY <2>1, <2>3 DEF Rest
<1>. QED
  BY <1>2, <1>3, <1>4

(* Three additions put together. *)
LEMMA FourAdded ==
    ASSUME NEW p1 \in Int, NEW p2 \in Int, NEW p3 \in Int, NEW p4 \in Int,
           NEW r1 \in Int, NEW r2 \in Int, NEW r3 \in Int, NEW r4 \in Int,
           r1 = p2 + r2, r2 = p3 + r3, r3 = p4 + r4
    PROVE  p1 + r1 = p1 + p2 + p3 + p4 + r4
OBVIOUS

(* A turn that takes four adds what four turns that take one would. *)
LEMMA DotTurnIs ==
    ASSUME NEW n \in Nat, NEW a \in [1 .. n -> Nat], NEW b \in [1 .. n -> Nat],
           NEW f, NEW i \in 0 .. n,
           \A j \in 0 .. n : j > i => f[j] = Rest(Products(a, b), n, j)
    PROVE  DotTurn(f, a, b, i) = Rest(Products(a, b), n, i)
<1>. DEFINE p == Products(a, b)
<1>0. Len(a) = n /\ DOMAIN a = 1 .. n
  OBVIOUS
<1>1. Numbers(p, n) /\ \A j \in 1 .. n : p[j] = a[j] * b[j] /\ p[j] \in Int
  <2>1. \A j \in 1 .. n : a[j] \in Int /\ b[j] \in Int
    OBVIOUS
  <2>2. \A j \in 1 .. n : a[j] * b[j] \in Int
    BY <2>1
  <2>. QED
    BY <1>0, <2>2 DEF Products, Numbers
<1>. HIDE DEF p
<1>2. /\ \A j \in 0 .. n : Rest(p, n, j) \in Int
      /\ Rest(p, n, n) = 0
      /\ \A j \in 0 .. n : j < n => Rest(p, n, j) = p[j + 1] + Rest(p, n, j + 1)
  BY <1>1, RestOf
<1>f. \A j \in 0 .. n : j > i => f[j] = Rest(p, n, j)
  BY DEF p
<1>3. CASE n - i >= 4
  <2>1. PICK j \in 0 .. n, k \in 0 .. n, l \in 0 .. n, m \in 0 .. n :
             j = i + 1 /\ k = i + 2 /\ l = i + 3 /\ m = i + 4
    BY <1>3
  <2>2. /\ Rest(p, n, i) = p[j] + Rest(p, n, j)
        /\ Rest(p, n, j) = p[k] + Rest(p, n, k)
        /\ Rest(p, n, k) = p[l] + Rest(p, n, l)
        /\ Rest(p, n, l) = p[m] + Rest(p, n, m)
    <3>1. i < n /\ j < n /\ k < n /\ l < n /\ i + 1 = j /\ j + 1 = k /\ k + 1 = l /\ l + 1 = m
      BY <1>3, <2>1
    <3>. QED
      BY <1>2, <3>1
  <2>3. f[m] = Rest(p, n, m) /\ Rest(p, n, m) \in Int
    <3>1. m > i
      BY <2>1
    <3>. QED
      BY <1>2, <1>f, <3>1
  <2>4. /\ a[j] * b[j] = p[j] /\ a[k] * b[k] = p[k] /\ a[l] * b[l] = p[l] /\ a[m] * b[m] = p[m]
        /\ p[j] \in Int /\ p[k] \in Int /\ p[l] \in Int /\ p[m] \in Int
    <3>1. {j, k, l, m} \subseteq 1 .. n
      BY <2>1
    <3>. QED
      BY <1>1, <3>1
  <2>5. DotTurn(f, a, b, i) = a[j] * b[j] + a[k] * b[k] + a[l] * b[l] + a[m] * b[m] + f[m]
    <3>1. i + 1 = j /\ i + 1 + 1 = k /\ i + 2 + 1 = l /\ i + 3 + 1 = m /\ i + 4 = m
      BY <2>1
    <3>2. Len(a) - i >= 4
      BY <1>0, <1>3
    <3>. QED
      BY <3>1, <3>2, Zenon DEF DotTurn
  <2>6. DotTurn(f, a, b, i) = p[j] + p[k] + p[l] + p[m] + Rest(p, n, m)
    BY <2>3, <2>4, <2>5, Zenon
  <2>7. Rest(p, n, j) \in Int /\ Rest(p, n, k) \in Int /\ Rest(p, n, l) \in Int
    BY <1>2
  <2>8. DotTurn(f, a, b, i) = Rest(p, n, i)
    <3>1. p[j] \in Int /\ p[k] \in Int /\ p[l] \in Int /\ p[m] \in Int
      BY <2>4
    <3>2. PICK r1 \in Int, r2 \in Int, r3 \in Int, r4 \in Int :
               r1 = Rest(p, n, j) /\ r2 = Rest(p, n, k) /\ r3 = Rest(p, n, l) /\ r4 = Rest(p, n, m)
      BY <2>3, <2>7
    <3>3. PICK p1 \in Int, p2 \in Int, p3 \in Int, p4 \in Int :
               p1 = p[j] /\ p2 = p[k] /\ p3 = p[l] /\ p4 = p[m]
      BY <3>1
    <3>4. /\ Rest(p, n, i) = p1 + r1 /\ r1 = p2 + r2 /\ r2 = p3 + r3 /\ r3 = p4 + r4
          /\ DotTurn(f, a, b, i) = p1 + p2 + p3 + p4 + r4
      BY <2>2, <2>6, <3>2, <3>3, Zenon
    <3>5. p1 + r1 = p1 + p2 + p3 + p4 + r4
      <4>1. r1 = p2 + r2 /\ r2 = p3 + r3 /\ r3 = p4 + r4
        BY <3>4
      <4>2. r1 \in Int /\ r2 \in Int /\ r3 \in Int /\ r4 \in Int
        BY <2>3, <2>7, <3>2
      <4>3. p1 \in Int /\ p2 \in Int /\ p3 \in Int /\ p4 \in Int
        BY <3>1, <3>3
      <4>. QED
        BY <4>1, <4>2, <4>3, FourAdded
    <3>. QED
      BY <3>4, <3>5, Zenon
  <2>. QED
    BY <2>8 DEF p
<1>4. CASE ~(n - i >= 4) /\ n - i >= 1
  <2>1. PICK j \in 1 .. n : j = i + 1 /\ j \in 0 .. n
    BY <1>4
  <2>2. Rest(p, n, i) = p[j] + Rest(p, n, j) /\ f[j] = Rest(p, n, j)
    BY <1>2, <1>f, <1>4, <2>1
  <2>3. a[j] * b[j] = p[j]
    BY <1>1
  <2>4. DotTurn(f, a, b, i) = a[j] * b[j] + f[j]
    BY <1>0, <1>4, <2>1 DEF DotTurn
  <2>. QED
    BY <2>2, <2>3, <2>4 DEF p
<1>5. CASE ~(n - i >= 4) /\ ~(n - i >= 1)
  <2>1. i = n
    BY <1>5
  <2>2. DotTurn(f, a, b, i) = 0
    BY <1>0, <1>5 DEF DotTurn
  <2>. QED
    BY <1>2, <2>1, <2>2 DEF p
<1>. QED
  BY <1>3, <1>4, <1>5

(* dot_product is the sum of the products. *)
LEMMA DotPromised ==
    ASSUME NEW n \in Nat, NEW a \in [1 .. n -> Nat], NEW b \in [1 .. n -> Nat]
    PROVE  DotProduct(a, b) = SumFunction(Products(a, b))
<1>. DEFINE p == Products(a, b)
<1>. DEFINE g == [i \in 0 .. n |-> Rest(p, n, i)]
<1>. DEFINE h == CHOOSE f : IsDot(f, a, b)
<1>0. Len(a) = n /\ DOMAIN p = 1 .. n
  BY DEF Products
<1>1. IsDot(g, a, b)
  <2>1. ASSUME NEW i \in 0 .. n
        PROVE  DotTurn(g, a, b, i) = g[i]
    <3>1. \A j \in 0 .. n : j > i => g[j] = Rest(p, n, j)
      OBVIOUS
    <3>2. g[i] = Rest(p, n, i)
      OBVIOUS
    <3>. HIDE DEF g
    <3>. QED
      BY <3>1, <3>2, DotTurnIs
  <2>2. g = [i \in 0 .. n |-> g[i]]
    OBVIOUS
  <2>. HIDE DEF g
  <2>. QED
    BY <1>0, <2>1, <2>2 DEF IsDot
<1>2. IsDot(h, a, b)
  BY <1>1
<1>3. DotProduct(a, b) = h[0]
  BY Zenon DEF DotProduct, IsDot, DotTurn
<1>4. \A i \in 0 .. n : h[i] = DotTurn(h, a, b, i)
  BY <1>0, <1>2 DEF IsDot
<1>. HIDE DEF h, g
<1>. DEFINE P == {m \in Nat : \A i \in 0 .. n : n - i <= m => h[i] = Rest(p, n, i)}
<1>5. 0 \in P
  <2>. SUFFICES ASSUME NEW i \in 0 .. n, n - i <= 0
                PROVE  h[i] = Rest(p, n, i)
    OBVIOUS
  <2>1. \A j \in 0 .. n : j > i => h[j] = Rest(p, n, j)
    OBVIOUS
  <2>. HIDE DEF p
  <2>2. DotTurn(h, a, b, i) = Rest(Products(a, b), n, i)
    BY <2>1, DotTurnIs DEF p
  <2>. QED
    BY <1>4, <2>2 DEF p
<1>6. ASSUME NEW m \in Nat, m \in P
      PROVE  m + 1 \in P
  <2>1. ASSUME NEW i \in 0 .. n, n - i <= m + 1
        PROVE  h[i] = Rest(p, n, i)
    <3>1. \A j \in 0 .. n : j > i => n - j <= m
      BY <2>1
    <3>2. \A j \in 0 .. n : j > i => h[j] = Rest(Products(a, b), n, j)
      BY <1>6, <3>1
    <3>3. DotTurn(h, a, b, i) = Rest(Products(a, b), n, i)
      BY <3>2, DotTurnIs
    <3>. QED
      BY <1>4, <3>3
  <2>. QED
    BY <2>1
<1>7. h[0] = Rest(p, n, 0)
  <2>1. \A m \in Nat : m \in P
    <3>. HIDE DEF P
    <3>. QED
      BY <1>5, <1>6, SetInduction
  <2>2. \A i \in 0 .. n : n - i <= n => h[i] = Rest(p, n, i)
    BY <2>1
  <2>3. 0 \in 0 .. n /\ n - 0 <= n
    OBVIOUS
  <2>. QED
    BY <2>2, <2>3
<1>8. Rest(p, n, 0) = SumFunction(p)
  <2>1. (0 + 1) .. n = 1 .. n
    OBVIOUS
  <2>. QED
    BY <1>0, <2>1 DEF Rest, Total, SumFunction
<1>. QED
  BY <1>3, <1>7, <1>8

-----------------------------------------------------------------------------
(* process_line.  The words counted. *)
UpTo(s, p) == {q \in Begins(s) : q <= p}

(* How the number of words grows along the line. *)
LEMMA WordsCounted ==
    ASSUME NEW T, NEW s \in Seq(T)
    PROVE  /\ \A p \in Nat : WordsUpTo(s, p) \in Nat
           /\ WordsUpTo(s, 0) = 0
           /\ WordsUpTo(s, Len(s)) = Cardinality(Begins(s))
           /\ \A p, q \in Nat : p <= q => WordsUpTo(s, p) <= WordsUpTo(s, q)
           /\ \A p, q \in Nat : (\A x \in Begins(s) : x <= q => x <= p) => WordsUpTo(s, q) <= WordsUpTo(s, p)
           /\ \A p \in Nat, q \in Begins(s) : p < q => WordsUpTo(s, q) >= WordsUpTo(s, p) + 1
           /\ \A p, e \in Nat : (\A x \in Begins(s) : x <= e <=> x <= p \/ x = p + 1) /\ p + 1 \in Begins(s) =>
                  WordsUpTo(s, e) = WordsUpTo(s, p) + 1
<1>1. IsFiniteSet(Begins(s)) /\ Begins(s) \subseteq 1 .. Len(s) /\ Len(s) \in Nat
  <2>1. Len(s) \in Nat /\ IsFiniteSet(1 .. Len(s))
    BY FS_Interval
  <2>. QED
    BY <2>1, FS_Subset DEF Begins
<1>2. \A p : IsFiniteSet(UpTo(s, p)) /\ Cardinality(UpTo(s, p)) \in Nat /\ WordsUpTo(s, p) = Cardinality(UpTo(s, p))
  <2>. TAKE p
  <2>1. UpTo(s, p) \subseteq Begins(s)
    BY DEF UpTo
  <2>2. IsFiniteSet(UpTo(s, p))
    BY <1>1, <2>1, FS_Subset
  <2>. QED
    BY <2>2, FS_CardinalityType DEF UpTo, WordsUpTo
<1>3. ASSUME NEW p, NEW q, UpTo(s, p) \subseteq UpTo(s, q)
      PROVE  Cardinality(UpTo(s, p)) <= Cardinality(UpTo(s, q))
  BY <1>2, <1>3, FS_Subset
<1>4. ASSUME NEW p \in Nat, NEW x \in Begins(s), p < x
      PROVE  Cardinality(UpTo(s, p) \cup {x}) = Cardinality(UpTo(s, p)) + 1
  <2>1. x \notin UpTo(s, p)
    BY <1>1, <1>4 DEF UpTo
  <2>. QED
    BY <1>2, <2>1, FS_AddElement
<1>5. UpTo(s, 0) = {} /\ UpTo(s, Len(s)) = Begins(s)
  BY <1>1 DEF UpTo
<1>6. WordsUpTo(s, 0) = 0 /\ WordsUpTo(s, Len(s)) = Cardinality(Begins(s))
  <2>1. Cardinality({}) = 0
    BY FS_EmptySet
  <2>. QED
    BY <1>2, <1>5, <2>1
<1>7. ASSUME NEW p \in Nat, NEW q \in Nat, p <= q
      PROVE  WordsUpTo(s, p) <= WordsUpTo(s, q)
  <2>1. UpTo(s, p) \subseteq UpTo(s, q)
    BY <1>1, <1>7 DEF UpTo
  <2>. QED
    BY <1>2, <1>3, <2>1
<1>8. ASSUME NEW p \in Nat, NEW q \in Nat, \A x \in Begins(s) : x <= q => x <= p
      PROVE  WordsUpTo(s, q) <= WordsUpTo(s, p)
  <2>1. UpTo(s, q) \subseteq UpTo(s, p)
    BY <1>8 DEF UpTo
  <2>. QED
    BY <1>2, <1>3, <2>1
<1>9. ASSUME NEW p \in Nat, NEW q \in Begins(s), p < q
      PROVE  WordsUpTo(s, q) >= WordsUpTo(s, p) + 1
  <2>1. UpTo(s, p) \cup {q} \subseteq UpTo(s, q)
    BY <1>1, <1>9 DEF UpTo
  <2>2. Cardinality(UpTo(s, p) \cup {q}) <= Cardinality(UpTo(s, q))
    BY <1>2, <2>1, FS_Subset
  <2>3. Cardinality(UpTo(s, p) \cup {q}) = Cardinality(UpTo(s, p)) + 1
    BY <1>4, <1>9
  <2>. QED
    BY <1>2, <2>2, <2>3
<1>10. ASSUME NEW p \in Nat, NEW e \in Nat, \A x \in Begins(s) : x <= e <=> x <= p \/ x = p + 1, p + 1 \in Begins(s)
       PROVE  WordsUpTo(s, e) = WordsUpTo(s, p) + 1
  <2>1. UpTo(s, e) = UpTo(s, p) \cup {p + 1}
    BY <1>10 DEF UpTo
  <2>2. Cardinality(UpTo(s, p) \cup {p + 1}) = Cardinality(UpTo(s, p)) + 1
    <3>1. PICK x \in Begins(s) : x = p + 1 /\ p < x
      BY <1>10
    <3>2. Cardinality(UpTo(s, p) \cup {x}) = Cardinality(UpTo(s, p)) + 1
      BY <1>4, <3>1
    <3>. QED
      BY <3>1, <3>2
  <2>. QED
    BY <1>2, <2>1, <2>2
<1>. QED
  BY <1>2, <1>6, <1>7, <1>8, <1>9, <1>10

(* The word that is being read, from j + 1 to i. *)
InWord(s, j, i) == /\ j \in Nat /\ i \in 0 .. Len(s) /\ j <= i
                   /\ j = 0 \/ s[j] = " "
                   /\ \A q \in j + 1 .. i : s[q] # " "

(* Where a word is being read one has begun, and no other since. *)
LEMMA WordBegins ==
    ASSUME NEW T, NEW s \in Seq(T), NEW j, NEW i, InWord(s, j, i)
    PROVE  /\ j < i => /\ j + 1 \in Begins(s)
                       /\ \A x \in Begins(s) : x <= i <=> x <= j \/ x = j + 1
                       /\ WordsUpTo(s, i) = WordsUpTo(s, j) + 1
                       /\ WordsUpTo(s, j + 1) = WordsUpTo(s, j) + 1
           /\ j = i => WordsUpTo(s, i) = WordsUpTo(s, j)
<1>1. Len(s) \in Nat /\ j \in Nat /\ i \in 0 .. Len(s) /\ j <= i
  <2>1. Len(s) \in Nat
    OBVIOUS
  <2>2. j \in Nat /\ i \in 0 .. Len(s) /\ j <= i
    BY Zenon DEF InWord
  <2>. QED
    BY <2>1, <2>2
<1>2. \A x \in Begins(s) : x \in 1 .. Len(s) /\ s[x] # " " /\ (x = 1 \/ s[x - 1] = " ")
  BY DEF Begins
<1>3. ASSUME j < i
      PROVE  j + 1 \in Begins(s)
  <2>1. PICK b \in 1 .. Len(s) : b = j + 1 /\ b - 1 = j /\ b \in j + 1 .. i
    BY <1>1, <1>3
  <2>2. s[b] # " "
    BY <2>1 DEF InWord
  <2>3. b = 1 \/ s[b - 1] = " "
    <3>1. CASE j = 0
      BY <2>1, <3>1
    <3>2. CASE s[j] = " "
      BY <2>1, <3>2, Zenon
    <3>. QED
      BY <3>1, <3>2, Zenon DEF InWord
  <2>. QED
    BY <2>1, <2>2, <2>3 DEF Begins
<1>4. ASSUME NEW x \in Begins(s), x <= i
      PROVE  x <= j \/ x = j + 1
  <2>0. x \in Nat /\ j \in Nat /\ i \in Nat
    <3>1. x \in 1 .. Len(s)
      BY <1>2
    <3>. QED
      BY <1>1, <3>1
  <2>1. SUFFICES ASSUME x > j + 1
                 PROVE  FALSE
    BY <2>0
  <2>2. x # 1
    BY <2>0, <2>1
  <2>3. x - 1 \in j + 1 .. i
    BY <1>4, <2>0, <2>1
  <2>4. s[x - 1] # " "
    BY <2>3 DEF InWord
  <2>. QED
    BY <1>2, <2>2, <2>4
<1>5. ASSUME j < i
      PROVE  \A x \in Begins(s) : (x <= i <=> x <= j \/ x = j + 1) /\ (x <= j + 1 <=> x <= j \/ x = j + 1)
  <2>. TAKE x \in Begins(s)
  <2>0. x \in Nat /\ j \in Nat /\ i \in Nat
    <3>1. x \in 1 .. Len(s)
      BY <1>2
    <3>. QED
      BY <1>1, <3>1
  <2>. QED
    BY <1>4, <1>5, <2>0
<1>6. ASSUME j < i
      PROVE  WordsUpTo(s, i) = WordsUpTo(s, j) + 1 /\ WordsUpTo(s, j + 1) = WordsUpTo(s, j) + 1
  <2>1. PICK b \in Nat : b = j + 1
    BY <1>1
  <2>2. \A p, e \in Nat : (\A x \in Begins(s) : x <= e <=> x <= p \/ x = p + 1) /\ p + 1 \in Begins(s) =>
                  WordsUpTo(s, e) = WordsUpTo(s, p) + 1
    BY WordsCounted
  <2>3. j \in Nat /\ i \in Nat /\ b \in Nat
    BY <1>1
  <2>4. j + 1 \in Begins(s)
    BY <1>3, <1>6
  <2>5. \A x \in Begins(s) : x <= i <=> x <= j \/ x = j + 1
    BY <1>5, <1>6
  <2>6. \A x \in Begins(s) : x <= b <=> x <= j \/ x = j + 1
    BY <1>5, <1>6, <2>1
  <2>7. WordsUpTo(s, i) = WordsUpTo(s, j) + 1
    BY <2>2, <2>3, <2>4, <2>5
  <2>8. WordsUpTo(s, b) = WordsUpTo(s, j) + 1
    BY <2>2, <2>3, <2>4, <2>6
  <2>. QED
    BY <2>1, <2>7, <2>8
<1>. QED
  BY <1>3, <1>5, <1>6

(* The words found up to j. *)
Pieces(s) == UNION {{SubSeq(s, a, b) : a \in Nat} : b \in Nat}
Split(s, j, buf) == /\ buf \in Seq(Pieces(s)) /\ Len(buf) = WordsUpTo(s, j)
                    /\ \A p \in Begins(s) : p <= j => IsWord(s, p, buf[WordsUpTo(s, p)])

SpaceAfter(s, i) == s[i + 1] = " "
WordEnds(s, i) == i = Len(s) \/ SpaceAfter(s, i)

(* No word begins at a space. *)
LEMMA BeginsAfter ==
    ASSUME NEW T, NEW s \in Seq(T)
    PROVE  /\ \A p \in Begins(s) : p \in Nat /\ p > 0 /\ p <= Len(s)
           /\ \A i \in Nat : SpaceAfter(s, i) => \A p \in Begins(s) : p <= i + 1 => p <= i
<1>1. \A p \in Begins(s) : p \in Nat /\ p > 0 /\ p <= Len(s)
  <2>. TAKE p \in Begins(s)
  <2>1. p \in 1 .. Len(s)
    BY Zenon DEF Begins
  <2>2. Len(s) \in Nat
    OBVIOUS
  <2>. QED
    BY <2>1, <2>2
<1>2. ASSUME NEW i \in Nat, SpaceAfter(s, i), NEW p \in Begins(s), p <= i + 1
      PROVE  p <= i
  <2>1. s[p] # " "
    BY DEF Begins
  <2>2. p # i + 1
    BY <1>2, <2>1, Zenon DEF SpaceAfter
  <2>3. p \in Nat
    BY <1>1
  <2>. QED
    BY <1>2, <2>2, <2>3
<1>. QED
  BY <1>1, <1>2

(* The word that ends at i is the next one. *)
LEMMA SplitWord ==
    ASSUME NEW T, NEW s \in Seq(T), NEW j, NEW i, InWord(s, j, i), j < i, WordEnds(s, i),
           NEW buf, Split(s, j, buf)
    PROVE  Split(s, i, Append(buf, SubSeq(s, j + 1, i)))
<1>. DEFINE word == SubSeq(s, j + 1, i)
<1>. DEFINE new == Append(buf, word)
<1>1. j \in Nat /\ i \in Nat /\ j + 1 \in Nat /\ i \in 0 .. Len(s) /\ Len(s) \in Nat
  <2>1. Len(s) \in Nat
    OBVIOUS
  <2>2. j \in Nat /\ i \in 0 .. Len(s)
    BY Zenon DEF InWord
  <2>. QED
    BY <2>1, <2>2
<1>2. word \in Pieces(s)
  <2>1. PICK a \in Nat : a = j + 1
    BY <1>1
  <2>2. SubSeq(s, a, i) \in Pieces(s)
    <3>1. a \in Nat /\ i \in Nat
      BY <1>1, <2>1
    <3>2. SubSeq(s, a, i) \in {SubSeq(s, c, i) : c \in Nat}
      BY <3>1, Zenon
    <3>3. {SubSeq(s, c, i) : c \in Nat} \in {{SubSeq(s, c, d) : c \in Nat} : d \in Nat}
      BY <3>1, Zenon
    <3>. QED
      BY <3>2, <3>3, Zenon DEF Pieces
  <2>. QED
    BY <2>1, <2>2, Zenon
<1>3. buf \in Seq(Pieces(s)) /\ Len(buf) = WordsUpTo(s, j)
  BY Zenon DEF Split
<1>4. /\ j + 1 \in Begins(s)
      /\ \A x \in Begins(s) : x <= i <=> x <= j \/ x = j + 1
      /\ WordsUpTo(s, i) = WordsUpTo(s, j) + 1
      /\ WordsUpTo(s, j + 1) = WordsUpTo(s, j) + 1
  BY WordBegins
<1>5. IsWord(s, j + 1, word)
  <2>1. i \in j + 1 .. Len(s)
    BY <1>1
  <2>2. \A q \in j + 1 .. i : s[q] # " "
    BY Zenon DEF InWord
  <2>. QED
    BY <2>1, <2>2, Zenon DEF IsWord, WordEnds, SpaceAfter
<1>6. \A p \in Begins(s) : p \in Nat /\ p > 0
  BY BeginsAfter
<1>. HIDE DEF word
<1>7. new \in Seq(Pieces(s)) /\ Len(new) = WordsUpTo(s, i) /\ new[WordsUpTo(s, j) + 1] = word
      /\ \A n \in 1 .. WordsUpTo(s, j) : new[n] = buf[n]
  BY <1>2, <1>3, <1>4
<1>8. ASSUME NEW p \in Begins(s), p <= j
      PROVE  WordsUpTo(s, p) \in 1 .. WordsUpTo(s, j)
  <2>1. WordsUpTo(s, p) <= WordsUpTo(s, j) /\ WordsUpTo(s, j) \in Nat /\ WordsUpTo(s, p) \in Nat
    BY <1>1, <1>6, <1>8, WordsCounted
  <2>2. p > 0
    BY <1>6
  <2>3. PICK z \in Nat : z = 0
    OBVIOUS
  <2>4. WordsUpTo(s, p) >= WordsUpTo(s, z) + 1
    <3>1. \A x \in Nat, q \in Begins(s) : x < q => WordsUpTo(s, q) >= WordsUpTo(s, x) + 1
      BY WordsCounted
    <3>. QED
      BY <2>2, <2>3, <3>1
  <2>5. WordsUpTo(s, z) = 0
    BY <2>3, WordsCounted
  <2>. QED
    BY <2>1, <2>4, <2>5
<1>9. ASSUME NEW p \in Begins(s), p <= i
      PROVE  IsWord(s, p, new[WordsUpTo(s, p)])
  <2>1. CASE p <= j
    <3>1. IsWord(s, p, buf[WordsUpTo(s, p)])
      BY <2>1, Zenon DEF Split
    <3>2. new[WordsUpTo(s, p)] = buf[WordsUpTo(s, p)]
      <4>. HIDE DEF new
      <4>. QED
        BY <1>7, <1>8, <2>1
    <3>. QED
      BY <3>1, <3>2, Zenon
  <2>2. CASE p = j + 1
    <3>. HIDE DEF new
    <3>. QED
      BY <1>4, <1>5, <1>7, <2>2
  <2>. QED
    BY <1>4, <1>9, <2>1, <2>2
<1>. QED
  BY <1>7, <1>9, Zenon DEF Split, word

(* A space adds none. *)
LEMMA SplitSpace ==
    ASSUME NEW T, NEW s \in Seq(T), NEW i \in Nat, i < Len(s), SpaceAfter(s, i),
           NEW buf, Split(s, i, buf)
    PROVE  Split(s, i + 1, buf)
<1>2. \A p \in Begins(s) : p <= i + 1 => p <= i
  BY BeginsAfter
<1>3. WordsUpTo(s, i + 1) = WordsUpTo(s, i)
  <2>1. PICK e \in Nat : e = i + 1 /\ i <= e
    OBVIOUS
  <2>2. WordsUpTo(s, i) <= WordsUpTo(s, e)
    BY <2>1, WordsCounted
  <2>3. \A x \in Begins(s) : x <= e => x <= i
    BY <1>2, <2>1
  <2>4. WordsUpTo(s, e) <= WordsUpTo(s, i)
    <3>1. \A p, q \in Nat : (\A x \in Begins(s) : x <= q => x <= p) => WordsUpTo(s, q) <= WordsUpTo(s, p)
      BY WordsCounted
    <3>. QED
      BY <2>3, <3>1
  <2>5. WordsUpTo(s, i) \in Nat /\ WordsUpTo(s, e) \in Nat
    BY WordsCounted
  <2>6. WordsUpTo(s, e) = WordsUpTo(s, i)
    BY <2>2, <2>4, <2>5
  <2>. QED
    BY <2>1, <2>6
<1>. QED
  BY <1>2, <1>3, Zenon DEF Split

(* The turns of the loop, and what holds between two. *)
Start == [i |-> 0, j |-> 0, buf |-> <<>>]
IsTurns(f, s, n) == f = [k \in 0 .. n |-> IF k = 0 THEN Start ELSE Scan(s, f[k - 1])]

Scanned(s, k, i, j, buf) ==
    /\ InWord(s, j, i) /\ Split(s, j, buf)
    /\ Len(buf) <= ArgLimit
    /\ i = k \/ Len(buf) = ArgLimit
IsScanned(s, k, st) == \E i, j, buf : st = [i |-> i, j |-> j, buf |-> buf] /\ Scanned(s, k, i, j, buf)

(* There is a function with the recursion. *)
LEMMA TurnsExist ==
    ASSUME NEW s, NEW n \in Nat
    PROVE  \E f : IsTurns(f, s, n)
<1>. DEFINE P == {m \in Nat : \E f : IsTurns(f, s, m)}
<1>1. 0 \in P
  <2>. DEFINE f == [k \in 0 .. 0 |-> Start]
  <2>1. \A k \in 0 .. 0 : k = 0
    OBVIOUS
  <2>2. f = [k \in 0 .. 0 |-> IF k = 0 THEN Start ELSE Scan(s, f[k - 1])]
    BY <2>1
  <2>3. 0 \in Nat
    OBVIOUS
  <2>. QED
    BY <2>2, <2>3, Zenon DEF IsTurns
<1>2. ASSUME NEW m \in Nat, m \in P
      PROVE  m + 1 \in P
  <2>1. PICK f : IsTurns(f, s, m)
    BY <1>2
  <2>2. \A k \in 0 .. m : f[k] = IF k = 0 THEN Start ELSE Scan(s, f[k - 1])
    BY <2>1 DEF IsTurns
  <2>. DEFINE turn(k) == IF k = 0 THEN Start ELSE Scan(s, f[k - 1])
  <2>. DEFINE g == [k \in 0 .. m + 1 |-> turn(k)]
  <2>3. \A k \in 0 .. m : f[k] = g[k]
    <3>1. \A k \in 0 .. m : k \in 0 .. m + 1
      OBVIOUS
    <3>2. \A k \in 0 .. m + 1 : g[k] = turn(k)
      BY Zenon
    <3>3. \A k \in 0 .. m : f[k] = turn(k)
      BY <2>2, Zenon
    <3>. HIDE DEF g, turn
    <3>. QED
      BY <3>1, <3>2, <3>3
  <2>4. \A k \in 0 .. m + 1 : turn(k) = IF k = 0 THEN Start ELSE Scan(s, g[k - 1])
    <3>. TAKE k \in 0 .. m + 1
    <3>1. k # 0 => k - 1 \in 0 .. m
      OBVIOUS
    <3>2. k # 0 => f[k - 1] = g[k - 1]
      BY <2>3, <3>1
    <3>. HIDE DEF g
    <3>. QED
      BY <3>2, Zenon
  <2>5. IsTurns(g, s, m + 1)
    <3>1. [k \in 0 .. m + 1 |-> turn(k)] = [k \in 0 .. m + 1 |-> IF k = 0 THEN Start ELSE Scan(s, g[k - 1])]
      <4>. HIDE DEF g, turn
      <4>. QED
        BY <2>4
    <3>. QED
      BY <3>1, Zenon DEF IsTurns
  <2>6. m + 1 \in Nat
    OBVIOUS
  <2>. QED
    BY <2>5, <2>6, Zenon
<1>3. n \in P
  <2>. HIDE DEF P
  <2>. QED
    BY <1>1, <1>2, SetInduction
<1>. QED
  BY <1>3

(* A turn of the loop. *)
LEMMA ScanKeeps ==
    ASSUME NEW T, NEW s \in Seq(T), NEW k \in Nat, k < Len(s), NEW st, IsScanned(s, k, st)
    PROVE  IsScanned(s, k + 1, Scan(s, st))
<1>1. PICK i, j, buf : st = [i |-> i, j |-> j, buf |-> buf] /\ Scanned(s, k, i, j, buf)
  BY Zenon DEF IsScanned
<1>2. st.i = i /\ st.j = j /\ st.buf = buf
  BY <1>1
<1>3. /\ InWord(s, j, i) /\ Split(s, j, buf) /\ Len(buf) <= ArgLimit
      /\ i = k \/ Len(buf) = ArgLimit
  BY <1>1, Zenon DEF Scanned
<1>4. j \in Nat /\ i \in Nat /\ j <= i
  <2>1. j \in Nat /\ i \in 0 .. Len(s) /\ j <= i
    BY <1>3, Zenon DEF InWord
  <2>. QED
    BY <2>1
<1>5. CASE Len(buf) = ArgLimit
  <2>1. Scan(s, st) = st
    BY <1>2, <1>5, Zenon DEF Scan
  <2>2. Scanned(s, k + 1, i, j, buf)
    BY <1>3, <1>5, Zenon DEF Scanned
  <2>. QED
    BY <1>1, <2>1, <2>2, Zenon DEF IsScanned
<1>6. CASE Len(buf) # ArgLimit /\ ~SpaceAfter(s, i)
  <2>1. i = k
    BY <1>3, <1>6
  <2>2. Scan(s, st) = [i |-> i + 1, j |-> j, buf |-> buf]
    <3>1. Scan(s, st) = [st EXCEPT !.i = @ + 1]
      BY <1>2, <1>6, Zenon DEF Scan, SpaceAfter
    <3>2. [st EXCEPT !.i = @ + 1] = [i |-> i + 1, j |-> j, buf |-> buf]
      BY <1>1
    <3>. QED
      BY <3>1, <3>2, Zenon
  <2>3. InWord(s, j, i + 1)
    <3>1. i + 1 \in 0 .. Len(s) /\ j <= i + 1
      BY <1>4, <2>1
    <3>2. j = 0 \/ s[j] = " "
      BY <1>3, Zenon DEF InWord
    <3>3. \A q \in j + 1 .. i + 1 : q \in j + 1 .. i \/ q = i + 1
      BY <1>4
    <3>4. \A q \in j + 1 .. i + 1 : s[q] # " "
      BY <1>3, <1>6, <3>3, Zenon DEF InWord, SpaceAfter
    <3>. QED
      BY <1>4, <3>1, <3>2, <3>4, Zenon DEF InWord
  <2>4. Scanned(s, k + 1, i + 1, j, buf)
    BY <1>3, <2>1, <2>3, Zenon DEF Scanned
  <2>. QED
    BY <2>2, <2>4, Zenon DEF IsScanned
<1>7. CASE Len(buf) # ArgLimit /\ SpaceAfter(s, i)
  <2>1. i = k /\ i < Len(s)
    BY <1>3, <1>7
  <2>2. InWord(s, i + 1, i + 1)
    <3>1. i + 1 \in Nat /\ i + 1 \in 0 .. Len(s) /\ i + 1 <= i + 1 /\ i + 1 + 1 .. i + 1 = {}
      BY <1>4, <2>1
    <3>. QED
      BY <1>7, <3>1, Zenon DEF InWord, SpaceAfter
  <2>. DEFINE new == IF j < i THEN Append(buf, SubSeq(s, j + 1, i)) ELSE buf
  <2>3. Scan(s, st) = [i |-> i + 1, j |-> i + 1, buf |-> new]
    BY <1>2, <1>7, Zenon DEF Scan, SpaceAfter
  <2>4. Split(s, i, new) /\ Len(new) <= ArgLimit
    <3>1. CASE j < i
      <4>1. new = Append(buf, SubSeq(s, j + 1, i))
        BY <3>1
      <4>2. WordEnds(s, i)
        BY <1>7, Zenon DEF WordEnds
      <4>3. Split(s, i, Append(buf, SubSeq(s, j + 1, i)))
        BY <1>3, <3>1, <4>2, SplitWord
      <4>4. Len(new) = WordsUpTo(s, i) /\ Len(buf) = WordsUpTo(s, j)
        BY <1>3, <4>1, <4>3, Zenon DEF Split
      <4>5. WordsUpTo(s, i) = WordsUpTo(s, j) + 1 /\ WordsUpTo(s, j) \in Nat
        BY <1>3, <1>4, <3>1, WordBegins, WordsCounted
      <4>6. ArgLimit \in Nat
        BY RoutineAssumption
      <4>7. Len(new) <= ArgLimit
        <5>. HIDE DEF new
        <5>. QED
          BY <1>3, <1>7, <4>4, <4>5, <4>6
      <4>. QED
        BY <4>1, <4>3, <4>7, Zenon
    <3>2. CASE ~(j < i)
      <4>1. new = buf /\ j = i
        BY <1>4, <3>2
      <4>. QED
        BY <1>3, <4>1, Zenon
    <3>. QED
      BY <3>1, <3>2
  <2>. HIDE DEF new
  <2>5. Split(s, i + 1, new)
    BY <1>4, <1>7, <2>1, <2>4, SplitSpace
  <2>6. Scanned(s, k + 1, i + 1, i + 1, new)
    BY <2>1, <2>2, <2>4, <2>5, Zenon DEF Scanned
  <2>. QED
    BY <2>3, <2>6, Zenon DEF IsScanned
<1>. QED
  BY <1>5, <1>6, <1>7

(* FirstWords, of a line and what it is split into. *)
SplitsInto(s, r) ==
    /\ Len(r) = Min({ArgLimit, Cardinality(Begins(s))})
    /\ \A p \in Begins(s) : WordsUpTo(s, p) <= ArgLimit => IsWord(s, p, r[WordsUpTo(s, p)])

(* All the words, or as many as there is room for. *)
LEMMA SplitIsEnough ==
    ASSUME NEW T, NEW s \in Seq(T), NEW j \in 0 .. Len(s), NEW r, Split(s, j, r),
           Len(r) <= ArgLimit, j = Len(s) \/ Len(r) = ArgLimit
    PROVE  SplitsInto(s, r)
<1>1. Len(r) = WordsUpTo(s, j) /\ \A p \in Begins(s) : p <= j => IsWord(s, p, r[WordsUpTo(s, p)])
  BY Zenon DEF Split
<1>2. j \in Nat /\ Len(s) \in Nat /\ j <= Len(s) /\ ArgLimit \in Nat
  BY RoutineAssumption
<1>. DEFINE w == WordsUpTo(s, j)
<1>. DEFINE c == Cardinality(Begins(s))
<1>3. w \in Nat /\ c \in Nat /\ w <= c
  <2>1. WordsUpTo(s, Len(s)) = c
    BY WordsCounted
  <2>2. WordsUpTo(s, j) \in Nat /\ WordsUpTo(s, Len(s)) \in Nat /\ WordsUpTo(s, j) <= WordsUpTo(s, Len(s))
    BY <1>2, WordsCounted
  <2>. QED
    BY <2>1, <2>2
<1>4. j = Len(s) => w = c
  BY WordsCounted
<1>. HIDE DEF w, c
<1>5. Len(r) = Min({ArgLimit, c})
  <2>1. Len(r) = w
    BY <1>1 DEF w
  <2>2. Min({ArgLimit, c}) = IF ArgLimit <= c THEN ArgLimit ELSE c
    BY <1>2, <1>3, MinMaxOfTwo
  <2>3. Len(r) = IF ArgLimit <= c THEN ArgLimit ELSE c
    BY <1>2, <1>3, <1>4, <2>1
  <2>. QED
    BY <2>2, <2>3, Zenon
<1>6. ASSUME NEW p \in Begins(s), WordsUpTo(s, p) <= ArgLimit
      PROVE  p <= j
  <2>1. p \in Nat /\ p <= Len(s)
    BY BeginsAfter
  <2>2. WordsUpTo(s, p) \in Nat
    BY <2>1, WordsCounted
  <2>3. p > j => WordsUpTo(s, p) >= WordsUpTo(s, j) + 1
    BY <1>2, WordsCounted
  <2>4. p > j => WordsUpTo(s, p) >= w + 1
    BY <2>3 DEF w
  <2>5. Len(r) = w
    BY <1>1 DEF w
  <2>6. CASE j = Len(s)
    BY <1>2, <2>1, <2>6
  <2>7. CASE Len(r) = ArgLimit
    BY <1>2, <1>3, <1>6, <2>1, <2>2, <2>4, <2>5, <2>7
  <2>. QED
    BY <2>6, <2>7
<1>. QED
  BY <1>1, <1>5, <1>6, Zenon DEF SplitsInto, c

(* process_line finds the first words of every line. *)
LEMMA LinePromised ==
    ASSUME NEW T, NEW s \in Seq(T)
    PROVE  SplitsInto(s, ProcessLine(s))
<1>. DEFINE n == Len(s)
<1>. DEFINE turns == CHOOSE f : IsTurns(f, s, n)
<1>. DEFINE end == turns[n]
<1>0. n \in Nat
  OBVIOUS
<1>1. IsTurns(turns, s, n)
  BY <1>0, TurnsExist
<1>2. ProcessLine(s) = IF end.j < end.i /\ Len(end.buf) < ArgLimit
                       THEN Append(end.buf, SubSeq(s, end.j + 1, end.i))
                       ELSE end.buf
  BY Zenon DEF ProcessLine, IsTurns, Start
<1>3. \A k \in 0 .. n : turns[k] = IF k = 0 THEN Start ELSE Scan(s, turns[k - 1])
  <2>. HIDE DEF turns, n
  <2>. QED
    BY <1>1 DEF IsTurns
<1>. HIDE DEF turns
<1>. DEFINE P == {k \in Nat : k <= n => IsScanned(s, k, turns[k])}
<1>4. 0 \in P
  <2>1. turns[0] = Start
    <3>1. 0 \in 0 .. n
      BY <1>0
    <3>. QED
      BY <1>3, <3>1, Zenon
  <2>2. InWord(s, 0, 0)
    <3>1. 0 \in Nat /\ 0 \in 0 .. n /\ 0 <= 0 /\ 0 + 1 .. 0 = {}
      BY <1>0
    <3>. QED
      BY <3>1, Zenon DEF InWord
  <2>3. Split(s, 0, <<>>) /\ Len(<<>>) <= ArgLimit
    <3>1. <<>> \in Seq(Pieces(s)) /\ Len(<<>>) = 0 /\ 0 <= ArgLimit
      BY RoutineAssumption
    <3>2. WordsUpTo(s, 0) = 0
      BY WordsCounted
    <3>3. \A p \in Begins(s) : ~(p <= 0)
      <4>. TAKE p \in Begins(s)
      <4>1. p \in Nat /\ p > 0
        BY BeginsAfter
      <4>. QED
        BY <4>1
    <3>. QED
      BY <3>1, <3>2, <3>3, Zenon DEF Split
  <2>4. Scanned(s, 0, 0, 0, <<>>)
    BY <2>2, <2>3, Zenon DEF Scanned
  <2>5. IsScanned(s, 0, turns[0])
    BY <2>1, <2>4, Zenon DEF IsScanned, Start
  <2>. QED
    BY <2>5
<1>5. ASSUME NEW k \in Nat, k \in P
      PROVE  k + 1 \in P
  <2>1. CASE k + 1 <= n
    <3>1. PICK d \in Nat : d = k + 1 /\ d - 1 = k /\ d # 0 /\ d \in 0 .. n
      BY <1>0, <2>1
    <3>2. turns[d] = Scan(s, turns[k])
      BY <1>3, <3>1
    <3>3. IsScanned(s, k, turns[k]) /\ k < Len(s)
      BY <1>0, <1>5, <2>1
    <3>4. IsScanned(s, k + 1, Scan(s, turns[k]))
      BY <3>3, ScanKeeps
    <3>. QED
      BY <3>1, <3>2, <3>4
  <2>2. CASE ~(k + 1 <= n)
    BY <2>2
  <2>. QED
    BY <2>1, <2>2
<1>6. IsScanned(s, n, end)
  <2>1. \A k \in Nat : k \in P
    <3>. HIDE DEF P
    <3>. QED
      BY <1>4, <1>5, SetInduction
  <2>2. n <= n
    BY <1>0
  <2>. QED
    BY <1>0, <2>1, <2>2
<1>7. PICK i, j, buf : end = [i |-> i, j |-> j, buf |-> buf] /\ Scanned(s, n, i, j, buf)
  BY <1>6, Zenon DEF IsScanned
<1>. HIDE DEF end
<1>8. end.i = i /\ end.j = j /\ end.buf = buf
  BY <1>7
<1>9. InWord(s, j, i) /\ Split(s, j, buf) /\ Len(buf) <= ArgLimit /\ (i = n \/ Len(buf) = ArgLimit)
  BY <1>7, Zenon DEF Scanned
<1>10. j \in Nat /\ i \in 0 .. n /\ j <= i
  BY <1>9, Zenon DEF InWord
<1>11. Len(buf) = WordsUpTo(s, j) /\ WordsUpTo(s, j) \in Nat /\ ArgLimit \in Nat
  <2>1. Len(buf) = WordsUpTo(s, j)
    BY <1>9, Zenon DEF Split
  <2>2. WordsUpTo(s, j) \in Nat
    BY <1>10, WordsCounted
  <2>. QED
    BY <2>1, <2>2, RoutineAssumption
<1>12. CASE j < i /\ Len(buf) < ArgLimit
  <2>. DEFINE r == Append(buf, SubSeq(s, j + 1, i))
  <2>1. ProcessLine(s) = r
    BY <1>2, <1>8, <1>12, Zenon
  <2>2. i = n
    BY <1>9, <1>11, <1>12
  <2>3. WordEnds(s, i)
    BY <2>2, Zenon DEF WordEnds
  <2>4. Split(s, i, r)
    BY <1>9, <1>12, <2>3, SplitWord
  <2>5. WordsUpTo(s, i) = WordsUpTo(s, j) + 1
    BY <1>9, <1>12, WordBegins
  <2>6. Len(r) = WordsUpTo(s, i)
    BY <2>4, Zenon DEF Split
  <2>. HIDE DEF r
  <2>7. Len(r) <= ArgLimit
    BY <1>11, <1>12, <2>5, <2>6
  <2>8. SplitsInto(s, r)
    BY <1>10, <2>2, <2>4, <2>7, SplitIsEnough
  <2>. QED
    BY <2>1, <2>8, Zenon
<1>13. CASE ~(j < i /\ Len(buf) < ArgLimit)
  <2>1. ProcessLine(s) = buf
    BY <1>2, <1>8, <1>13, Zenon
  <2>2. j \in 0 .. n
    BY <1>0, <1>10
  <2>3. j = n \/ Len(buf) = ArgLimit
    BY <1>0, <1>9, <1>10, <1>11, <1>13
  <2>4. SplitsInto(s, buf)
    BY <1>9, <2>2, <2>3, SplitIsEnough
  <2>. QED
    BY <2>1, <2>4, Zenon
<1>. QED
  BY <1>12, <1>13

-----------------------------------------------------------------------------
(* Every call.  What may be given to each routine. *)
Digits == 1 .. 2
Letters == {"x", "y", " "}
ArgsOK ==
    /\ routine = "fixed_mul" => args[1] \in Unsigned /\ args[2] \in Unsigned /\ args[3] \in 1 .. Width
    /\ routine = "mystrcmp" => args[1] \in Strings /\ args[2] \in Strings
    /\ routine = "minmax" => /\ args[1] \in SignedInt /\ args[2] \in SignedInt
                             /\ args[3] \in SignedInt /\ args[4] \in SignedInt
    /\ routine = "loop" => args[1] \in SignedInt
    /\ routine \in {"reverse1", "reverse2"} => args[1] \in Seq(Digits)
    /\ routine = "dot_product" => \E n \in Nat : args[1] \in [1 .. n -> Nat] /\ args[2] \in [1 .. n -> Nat]
    /\ routine = "process_line" => args[1] \in Seq(Letters)

RoutinesInv == ArgsOK /\ ReturnsPromised

LEMMA SeqUpToType ==
    ASSUME NEW S, NEW n \in Nat, NEW s \in SeqUpTo(S, n)
    PROVE  s \in Seq(S)
<1>1. PICK k \in 0 .. n : s \in [1 .. k -> S]
  BY DEF SeqUpTo
<1>2. k \in Nat
  BY <1>1
<1>. QED
  BY <1>1, <1>2

LEMMA RoutinesInit == ASSUME RInit PROVE RoutinesInv
<1>1. ReturnsPromised
  BY Zenon DEF RInit, ReturnsPromised
<1>2. CASE routine = "fixed_mul" /\ args \in Unsigned \X Unsigned \X (1 .. Width)
  <2>1. args[1] \in Unsigned /\ args[2] \in Unsigned /\ args[3] \in 1 .. Width
    BY <1>2
  <2>. QED
    BY <1>1, <1>2, <2>1 DEF RoutinesInv, ArgsOK
<1>3. CASE routine = "mystrcmp" /\ args \in Strings \X Strings
  <2>1. args[1] \in Strings /\ args[2] \in Strings
    BY <1>3
  <2>. QED
    BY <1>1, <1>3, <2>1 DEF RoutinesInv, ArgsOK
<1>4. CASE routine = "minmax" /\ args \in SignedInt \X SignedInt \X SignedInt \X SignedInt
  <2>1. /\ args[1] \in SignedInt /\ args[2] \in SignedInt
        /\ args[3] \in SignedInt /\ args[4] \in SignedInt
    BY <1>4
  <2>. QED
    BY <1>1, <1>4, <2>1 DEF RoutinesInv, ArgsOK
<1>5. CASE routine = "loop" /\ args \in {<<n>> : n \in SignedInt}
  <2>1. args[1] \in SignedInt
    BY <1>5
  <2>. QED
    BY <1>1, <1>5, <2>1 DEF RoutinesInv, ArgsOK
<1>6. CASE routine \in {"reverse1", "reverse2"} /\ args \in {<<numbers>> : numbers \in SeqUpTo(Digits, MaxArray)}
  <2>1. args[1] \in SeqUpTo(Digits, MaxArray)
    BY <1>6
  <2>2. args[1] \in Seq(Digits)
    BY <2>1, RoutineAssumption, SeqUpToType
  <2>. QED
    BY <1>1, <1>6, <2>2 DEF RoutinesInv, ArgsOK
<1>7. CASE routine = "dot_product"
           /\ \E n \in 0 .. MaxArray : args \in [1 .. n -> Digits] \X {[i \in 1 .. n |-> i]}
  <2>1. PICK n \in 0 .. MaxArray : args \in [1 .. n -> Digits] \X {[i \in 1 .. n |-> i]}
    BY <1>7
  <2>2. n \in Nat
    BY <2>1, RoutineAssumption
  <2>3. args[1] \in [1 .. n -> Digits] /\ args[2] = [i \in 1 .. n |-> i]
    BY <2>1
  <2>4. args[1] \in [1 .. n -> Nat] /\ args[2] \in [1 .. n -> Nat]
    <3>1. Digits \subseteq Nat
      BY DEF Digits
    <3>2. args[1] \in [1 .. n -> Nat]
      BY <2>3, <3>1
    <3>3. [i \in 1 .. n |-> i] \in [1 .. n -> Nat]
      BY <2>2
    <3>. QED
      BY <2>3, <3>2, <3>3, Zenon
  <2>. QED
    BY <1>1, <1>7, <2>2, <2>4 DEF RoutinesInv, ArgsOK
<1>8. CASE routine = "process_line" /\ args \in {<<s>> : s \in SeqUpTo(Letters, MaxLine)}
  <2>1. args[1] \in SeqUpTo(Letters, MaxLine)
    BY <1>8
  <2>2. args[1] \in Seq(Letters)
    BY <2>1, RoutineAssumption, SeqUpToType
  <2>. QED
    BY <1>1, <1>8, <2>2 DEF RoutinesInv, ArgsOK
<1>. QED
  BY <1>2, <1>3, <1>4, <1>5, <1>6, <1>7, <1>8, Zenon DEF RInit, Strings, Digits, Letters

(* What each call returns is promised. *)
LEMMA CallPromised ==
    ASSUME ArgsOK
    PROVE  /\ routine = "fixed_mul" => Promised(FixedMul(args[1], args[2], args[3]))
           /\ routine = "mystrcmp" => Promised(Mystrcmp(args[1], args[2]))
           /\ routine = "minmax" => Promised(Overlap(args[1], args[2], args[3], args[4]))
           /\ routine = "loop" => Promised(Countdown(args[1]))
           /\ routine = "reverse1" => Promised(ReverseNumbers(args[1]))
           /\ routine = "reverse2" => Promised(ReverseOnStack(args[1]))
           /\ routine = "dot_product" => Promised(DotProduct(args[1], args[2]))
           /\ routine = "process_line" => Promised(ProcessLine(args[1]))
<1>1. ASSUME routine = "fixed_mul"
      PROVE  Promised(FixedMul(args[1], args[2], args[3]))
  <2>. DEFINE r == FixedMul(args[1], args[2], args[3])
  <2>1. args[1] \in Unsigned /\ args[2] \in Unsigned /\ args[3] \in 1 .. Width
    BY <1>1, Zenon DEF ArgsOK
  <2>2. args[3] # Width => r = Min({Nearest(Product, args[3]), Modulus - 1})
    BY <2>1, FixedMulRounds, Zenon DEF Product
  <2>3. args[3] = Width => r * Modulus <= Product /\ Product < (r + 1) * Modulus
    BY <2>1, FixedMulTruncates, Zenon DEF Product
  <2>4. Rounded(r)
    BY <2>2, <2>3, Zenon DEF Rounded
  <2>. QED
    BY <1>1, <2>4, Zenon DEF Promised
<1>2. ASSUME routine = "mystrcmp"
      PROVE  Promised(Mystrcmp(args[1], args[2]))
  <2>1. args[1] \in Strings /\ args[2] \in Strings
    BY <1>2, Zenon DEF ArgsOK
  <2>2. Compared(Mystrcmp(args[1], args[2]))
    BY <2>1, StrcmpPromised, Zenon DEF Compared
  <2>. QED
    BY <1>2, <2>2, Zenon DEF Promised
<1>3. ASSUME routine = "minmax"
      PROVE  Promised(Overlap(args[1], args[2], args[3], args[4]))
  <2>1. args[1] \in SignedInt /\ args[2] \in SignedInt /\ args[3] \in SignedInt /\ args[4] \in SignedInt
    BY <1>3, Zenon DEF ArgsOK
  <2>2. InCommon(Overlap(args[1], args[2], args[3], args[4]))
    <3>1. Shared(args[1], args[2], args[3], args[4])
      BY <2>1, OverlapPromised, Zenon
    <3>. QED
      BY <3>1, Zenon DEF InCommon, Shared
  <2>. QED
    BY <1>3, <2>2, Zenon DEF Promised
<1>4. ASSUME routine = "loop"
      PROVE  Promised(Countdown(args[1]))
  <2>1. args[1] \in SignedInt
    BY <1>4, Zenon DEF ArgsOK
  <2>2. CountsDown(Countdown(args[1]))
    BY <2>1, CountdownPromised, Zenon DEF CountsDown
  <2>. QED
    BY <1>4, <2>2, Zenon DEF Promised
<1>5. ASSUME routine = "reverse1" \/ routine = "reverse2"
      PROVE  Promised(ReverseNumbers(args[1])) /\ Promised(ReverseOnStack(args[1]))
  <2>1. args[1] \in Seq(Digits)
    BY <1>5, Zenon DEF ArgsOK
  <2>2. ReverseNumbers(args[1]) = Reverse(args[1])
    BY <2>1, ReversePromised
  <2>3. ReverseOnStack(args[1]) = Reverse(args[1])
    BY <2>2, Zenon DEF ReverseOnStack
  <2>. QED
    BY <1>5, <2>2, <2>3, Zenon DEF Promised
<1>6. ASSUME routine = "dot_product"
      PROVE  Promised(DotProduct(args[1], args[2]))
  <2>1. PICK n \in Nat : args[1] \in [1 .. n -> Nat] /\ args[2] \in [1 .. n -> Nat]
    BY <1>6, Zenon DEF ArgsOK
  <2>2. DotProduct(args[1], args[2]) = SumFunction(Products(args[1], args[2]))
    BY <2>1, DotPromised, Zenon
  <2>. QED
    BY <1>6, <2>2, Zenon DEF Promised, Products
<1>7. ASSUME routine = "process_line"
      PROVE  Promised(ProcessLine(args[1]))
  <2>1. args[1] \in Seq(Letters)
    BY <1>7, Zenon DEF ArgsOK
  <2>2. SplitsInto(args[1], ProcessLine(args[1]))
    BY <2>1, LinePromised, Zenon
  <2>3. FirstWords(ProcessLine(args[1]))
    BY <2>2, Zenon DEF FirstWords, SplitsInto
  <2>. QED
    BY <1>7, <2>3, Zenon DEF Promised
<1>. QED
  BY <1>1, <1>2, <1>3, <1>4, <1>5, <1>6, <1>7, Zenon

LEMMA RoutinesStep == ASSUME RoutinesInv, [RNext]_rvars PROVE RoutinesInv'
<1>1. CASE RNext
  <2>1. routine' = routine /\ args' = args
    BY <1>1, Zenon DEF RNext
  <2>2. ArgsOK'
    BY <2>1, Zenon DEF RoutinesInv, ArgsOK
  <2>3. PICK r : returned' = <<r>> /\ Promised(r)
    BY <1>1, CallPromised, Zenon DEF RoutinesInv, RNext, Call
  <2>4. returned'[1] = r
    BY <2>3
  <2>5. Promised(returned[1])'
    <3>1. Promised(returned'[1])
      BY <2>3, <2>4, Zenon
    <3>. QED
      BY <2>1, <3>1, Zenon DEF Promised, Rounded, Product, Compared, InCommon, CountsDown, FirstWords
  <2>. QED
    BY <2>2, <2>5, Zenon DEF RoutinesInv, ReturnsPromised
<1>2. CASE UNCHANGED rvars
  <2>1. routine' = routine /\ args' = args /\ returned' = returned
    BY <1>2 DEF rvars
  <2>. QED
    BY <2>1, Zenon DEF RoutinesInv, ArgsOK, ReturnsPromised, Promised, Rounded, Product, Compared, InCommon,
                   CountsDown, FirstWords
<1>. QED
  BY <1>1, <1>2

(* ReturnsPromised: whatever the register's width, the arguments and their number, fixed_mul,
   mystrcmp, minmax, loop, the two reversals, dot_product and process_line return what they
   are for (the loops of apps/sem6, sem8, sem9, sem10 and sem12). *)
THEOREM RoutinesPromised == RSpec => []ReturnsPromised
<1>1. RInit => RoutinesInv
  BY RoutinesInit
<1>2. RoutinesInv /\ [RNext]_rvars => RoutinesInv'
  BY RoutinesStep
<1>3. RoutinesInv => ReturnsPromised
  BY DEF RoutinesInv
<1>. QED
  BY <1>1, <1>2, <1>3, PTL DEF RSpec
=============================================================================
