---------------------------- MODULE ExecCapture ----------------------------
(***************************************************************************)
(* apps/sem16/main.c (main_py_read.c is the same program, main_py.c the    *)
(* same with the command given as text): exec_python runs a command with   *)
(* its standard output on a pipe and returns all it wrote, or NULL.        *)
(* Bytes are numbered in the order the command writes them.                *)
(***************************************************************************)
EXTENDS Integers, Sequences, SequencesExt, FiniteSetsExt

CONSTANTS InitialCapacity,  \* 16
          ReadMax,          \* sizeof(tmp), 4096
          PipeSize,         \* what a pipe holds, 65536
          MaxOutput,        \* bound: bytes the command writes
          NULL              \* the null pointer

ASSUME SizeAssumption == /\ {InitialCapacity, ReadMax, PipeSize} \subseteq Nat \ {0}
                         /\ MaxOutput \in Nat
ASSUME NullAssumption == NULL \notin Seq(Nat)

VARIABLES pc,           \* what exec_python does next
          child,        \* "none", "setup", "runs", "writes" or "ended"
          status,       \* how the child ended
          written,      \* bytes the child has written
          writers,      \* the processes that hold fd_pair[1]
          pipe,         \* bytes in the pipe
          tmp,          \* the chunk just read
          next_capacity, \* the length the loop of doublings has come to
          buffer,       \* the size bytes stored in the allocation
          capacity,     \* its length
          cut,          \* read_all has stopped on a failed read or realloc
          result        \* what exec_python returned

chunk == <<tmp, next_capacity>>
parent == <<pc, chunk, buffer, capacity, cut, result>>
command == <<child, status, written>>
vars == <<parent, command, writers, pipe>>

Init == /\ pc = "pipe" /\ child = "none" /\ status = "none"
        /\ written = 0 /\ writers = {} /\ pipe = <<>>
        /\ tmp = <<>> /\ buffer = <<>>
        /\ capacity = InitialCapacity /\ next_capacity = InitialCapacity
        /\ cut = FALSE /\ result = NULL

Goto(from, to) == pc = from /\ pc' = to

MakePipe == /\ Goto("pipe", "fork") \/ Goto("pipe", "returned")
            /\ UNCHANGED <<chunk, buffer, capacity, cut, result, command, writers, pipe>>

(* The child inherits both ends; a failed fork returns with both open. *)
Fork == /\ \/ Goto("fork", "close") /\ child' = "setup" /\ writers' = {"parent", "child"}
           \/ Goto("fork", "returned") /\ writers' = {"parent"} /\ UNCHANGED child
        /\ UNCHANGED <<chunk, buffer, capacity, cut, result, status, written, pipe>>

(* Mutant of CloseWriteEnd: the parent keeps its copy of fd_pair[1]. *)
KeepWriteEnd == /\ Goto("close", "read")
                /\ UNCHANGED <<chunk, buffer, capacity, cut, result, command, writers, pipe>>

CloseWriteEnd == /\ Goto("close", "read")
                 /\ writers' = writers \ {"parent"}
                 /\ UNCHANGED <<chunk, buffer, capacity, cut, result, command, pipe>>

ReadChunk == /\ Goto("read", "store")
             /\ pipe # <<>>
             /\ LET r == Min({ReadMax, Len(pipe)})
                IN  tmp' = SubSeq(pipe, 1, r) /\ pipe' = SubSeq(pipe, r + 1, Len(pipe))
             /\ next_capacity' = capacity
             /\ UNCHANGED <<buffer, capacity, cut, result, command, writers>>

ReadEof == /\ Goto("read", "wait")
           /\ pipe = <<>> /\ writers = {}
           /\ UNCHANGED <<chunk, buffer, capacity, cut, result, command, writers, pipe>>

(* read returns -1, which read_all takes for the end. *)
ReadError == /\ Goto("read", "wait")
             /\ cut' = TRUE
             /\ UNCHANGED <<chunk, buffer, capacity, result, command, writers, pipe>>

(* Mutant of Required: no room for the terminating zero. *)
RequiredNoZero == Len(tmp) + Len(buffer)

Required == Len(tmp) + Len(buffer) + 1

(* The loop that doubles next_capacity until what is required fits. *)
Double == /\ pc = "store" /\ next_capacity < Required
          /\ next_capacity' = next_capacity * 2
          /\ UNCHANGED <<pc, tmp, buffer, capacity, cut, result, command, writers, pipe>>

(* Mutant of Store: a read shorter than the chunk is taken for the last. *)
StoreStopsShort == /\ Goto("store", IF Len(tmp) < ReadMax THEN "wait" ELSE "read")
                   /\ next_capacity >= Required /\ capacity' = next_capacity
                   /\ buffer' = buffer \o tmp
                   /\ UNCHANGED <<chunk, cut, result, command, writers, pipe>>

Store == /\ Goto("store", "read")
         /\ next_capacity >= Required /\ capacity' = next_capacity
         /\ buffer' = buffer \o tmp
         /\ UNCHANGED <<chunk, cut, result, command, writers, pipe>>

(* The chunk that did not fit is dropped, the rest of the output not read. *)
ReallocFails == /\ Goto("store", "wait")
                /\ next_capacity >= Required /\ next_capacity # capacity
                /\ cut' = TRUE
                /\ UNCHANGED <<chunk, buffer, capacity, result, command, writers, pipe>>

WaitChild == /\ Goto("wait", "returned")
             /\ child = "ended"
             /\ result' = IF status = "zero" THEN buffer ELSE NULL
             /\ UNCHANGED <<chunk, buffer, capacity, cut, command, writers, pipe>>

ParentNext == \/ MakePipe \/ Fork \/ CloseWriteEnd \/ ReadChunk \/ ReadEof
              \/ Double \/ Store \/ WaitChild
-----------------------------------------------------------------------------
Ends(how) == /\ child' = "ended" /\ status' = how
             /\ writers' = writers \ {"child"}
             /\ UNCHANGED <<parent, written, pipe>>

(* dup2, the two closes and execvp, which may fail. *)
Exec == /\ child = "setup"
        /\ \/ child' = "runs" /\ UNCHANGED <<parent, status, written, writers, pipe>>
           \/ Ends("nonzero")

(* The command: it writes a byte at a time, waiting while the pipe is full, and
   exits at will. *)
BeginWrite == /\ child = "runs" /\ written < MaxOutput
              /\ child' = "writes"
              /\ UNCHANGED <<parent, status, written, writers, pipe>>

EndWrite == /\ child = "writes" /\ Len(pipe) < PipeSize
            /\ child' = "runs"
            /\ written' = written + 1
            /\ pipe' = Append(pipe, written')
            /\ UNCHANGED <<parent, status, writers>>

Exit == child = "runs" /\ \E how \in {"zero", "nonzero"} : Ends(how)

(* What nothing forces to happen. *)
Killed == child \in {"setup", "runs", "writes"} /\ Ends("signal")

ChildNext == Exec \/ BeginWrite \/ EndWrite \/ Exit

Next == ParentNext \/ ChildNext \/ ReadError \/ ReallocFails \/ Killed

Spec == Init /\ [][Next]_vars

(* Both processes are scheduled; no call has to fail, nobody to kill the command. *)
FairSpec == Spec /\ WF_vars(ParentNext) /\ WF_vars(ChildNext)
-----------------------------------------------------------------------------
(* The stored bytes and the terminating zero stay inside the allocation, through
   any sequence of chunk sizes and a realloc that fails (lines 24-40). *)
RoomForTerminator == Len(buffer) + 1 <= capacity

(* What is returned is the whole output of a command that exited with 0, in
   order, unless a read or a realloc has failed: then it is a beginning of it.
   Every other end is reported as NULL (lines 76-91). *)
ResultIsOutput ==
    LET output == [i \in 1 .. written |-> i]
    IN  pc = "returned" =>
            /\ result # NULL => /\ status = "zero"
                                /\ IsPrefix(result, output)
                                /\ cut \/ result = output
            /\ result = NULL => child = "none" \/ status \in {"nonzero", "signal"}

(* exec_python returns, the parent having closed its write end, unless read_all
   has stopped early: then the command may stay blocked on the full pipe nobody
   reads and the parent in waitpid (line 78). *)
Returns == <>(pc = "returned" \/ cut)
=============================================================================
