---------------------------- MODULE ByteStreams ----------------------------
(***************************************************************************)
(* The programs that move bytes from one descriptor to another in a loop:  *)
(* apps/sem11 (copy_file and two filters to upper case), apps/sem12 (cat), *)
(* apps/sem19 (client and server) and apps/sem20 (non-blocking client).    *)
(* They differ in how much they read at a time, in what a write that fails *)
(* or is short does to them, and in whether they print on the stream they  *)
(* copy to.                                                                *)
(***************************************************************************)
EXTENDS Integers, Sequences, FiniteSetsExt

CONSTANTS BufferSize,   \* 4096 or 16
          Inputs,       \* what there is to read
          MaxNotes      \* bounds the signals and the seconds without data

(* The bytes the programs tell apart: a small letter, another character, and
   0xFF, which nextchar returns as -1. *)
Byte == {"a", "A", "ff"}

ASSUME StreamAssumption == /\ BufferSize \in Nat \ {0} /\ MaxNotes \in Nat
                           /\ Inputs \subseteq Seq(Byte)

(* reads:  the most a read takes
   writes: "loop", until nothing is left; "byte", once each, whatever comes of it;
           "once", the end if it is short; "libc", fwrite, whatever comes of it *)
CopyFile == [reads |-> BufferSize, writes |-> "loop", setup |-> FALSE]

(* my_write and call_read pass the kernel's result on. *)
Task10_2 == [reads |-> 1, writes |-> "byte", setup |-> FALSE]

(* nextchar fills its buffer only when it is used up. *)
Task10_3 == [reads |-> BufferSize, writes |-> "byte", setup |-> FALSE]

FuncCat == [reads |-> BufferSize, writes |-> "once", setup |-> TRUE]

(* The strings of the request, sent one after the other. *)
EnsureSend == [reads |-> BufferSize, writes |-> "loop", setup |-> TRUE]

(* The answer, once the request is sent. *)
Client == [reads |-> BufferSize, writes |-> "libc", setup |-> FALSE]

Server == [reads |-> BufferSize, writes |-> "libc", setup |-> TRUE]

NonBlocking == [reads |-> BufferSize, writes |-> "libc", setup |-> TRUE]

Program == [copy_file |-> CopyFile, task10_2 |-> Task10_2, task10_3 |-> Task10_3,
            cat |-> FuncCat, ensure_send |-> EnsureSend, client |-> Client,
            server |-> Server, nonblocking |-> NonBlocking]

VARIABLES program, given,   \* the program, and all there is to read
          taken, done,      \* bytes read, and those of them given to a write
          held, sink,       \* what stdio has in its buffer, and what is written
          notes,            \* signals and seconds without data so far
          phase,            \* "setup", "read", "write", "exit" or "end"; "killed"
                            \* by SIGPIPE; "undefined" where the code is
          reported,         \* the caller or user is told of a failure
          failed            \* a call has failed, or taken less than it was given

stdio == <<held, sink>>
vars == <<program, given, taken, done, stdio, notes, phase, reported, failed>>

Is(p) == program = p
Writes == Program[program].writes

(* The n-th byte as it is to be written, and a line of the program's own. *)
Item(n) == [at |-> n, char |-> IF Writes = "byte" /\ given[n] = "a" THEN "A" ELSE given[n]]
Items(m, n) == [i \in 1 .. n - m |-> Item(m + i)]
Note == [at |-> 0, char |-> "note"]

(* The client has printed the addresses, if there were any it knows. *)
Init == /\ program \in DOMAIN Program
        /\ given \in Inputs
        /\ taken = 0 /\ done = 0
        /\ held \in (IF Is("client") THEN {<<>>, <<Note>>} ELSE {<<>>}) /\ sink = <<>>
        /\ notes = 0
        /\ phase = (IF Program[program].setup THEN "setup" ELSE "read")
        /\ reported = FALSE /\ failed = FALSE

(* stdio writes the first m of q and keeps the rest.  A write that fails drops what
   is left of the m, and no program looks at the result; if the reader is gone
   SIGPIPE ends the program. *)
Drain(q, m, next) == \E k \in 0 .. m :
                         /\ sink' = sink \o SubSeq(q, 1, k)
                         /\ held' = SubSeq(q, m + 1, Len(q))
                         /\ failed' = (failed \/ k < m)
                         /\ phase' \in IF k < m THEN {next, "killed"} ELSE {next}

Puts(q, next) == \E m \in 0 .. Len(held \o q) : Drain(held \o q, m, next)

(* open, or resolving, creating and connecting a socket.  The server and the
   non-blocking client print a line first. *)
SetupWorks == /\ phase = "setup" /\ phase' = "read"
              /\ held' = IF program \in {"server", "nonblocking"} THEN <<Note>> ELSE <<>>
              /\ UNCHANGED <<program, given, taken, done, sink, notes, reported, failed>>

SetupFails == /\ phase = "setup" /\ phase' = "exit"
              /\ reported' = TRUE /\ failed' = TRUE
              /\ UNCHANGED <<program, given, taken, done, stdio, notes>>

(* perror, and on it goes to the first send. *)
ConnectFails == /\ phase = "setup" /\ Is("ensure_send") /\ phase' = "read"
                /\ reported' = TRUE /\ failed' = TRUE
                /\ UNCHANGED <<program, given, taken, done, stdio, notes>>

(* Then recv gets -1 for a descriptor. *)
AcceptFails == /\ phase = "setup" /\ Is("server") /\ phase' = "exit"
               /\ failed' = TRUE
               /\ UNCHANGED <<program, given, taken, done, stdio, notes, reported>>

(* An error of getaddrinfo other than -1 is taken for none, and addr, which nothing
   was assigned to, is followed. *)
ResolveFails == /\ phase = "setup" /\ program \in {"ensure_send", "nonblocking"}
                /\ phase' = "undefined" /\ failed' = TRUE
                /\ UNCHANGED <<program, given, taken, done, stdio, notes, reported>>

(* A read takes what has arrived and fits, at least a byte. *)
Read == /\ phase = "read"
        /\ \E r \in 1 .. Min({Program[program].reads, Len(given) - taken}) : taken' = taken + r
        /\ phase' = "write"
        /\ UNCHANGED <<program, given, done, stdio, notes, reported, failed>>

ReadEof == /\ phase = "read" /\ taken = Len(given)
           /\ phase' = "exit"
           /\ UNCHANGED <<program, given, taken, done, stdio, notes, reported, failed>>

(* The filters, cat and the server end as at the end of the input.  The strings
   of ensure_send are in memory. *)
ReadFails == /\ phase = "read" /\ ~Is("ensure_send")
             /\ phase' = "exit" /\ failed' = TRUE
             /\ reported' = (program \in {"copy_file", "client", "nonblocking"})
             /\ UNCHANGED <<program, given, taken, done, stdio, notes>>

(* SIGUSR1: its handler prints, and copy_file does when a call returns EINTR. *)
Interrupted == /\ Is("copy_file") /\ phase \in {"read", "write"}
               /\ notes < MaxNotes /\ notes' = notes + 1
               /\ Puts(<<Note>>, phase) \/ Puts(<<Note, Note>>, phase)
               /\ UNCHANGED <<program, given, taken, done, reported>>

(* EAGAIN after five seconds without a byte. *)
NoData == /\ Is("nonblocking") /\ phase = "read"
          /\ notes < MaxNotes /\ notes' = notes + 1
          /\ Puts(<<Note>>, "read")
          /\ UNCHANGED <<program, given, taken, done, reported>>

(* Mutant of Accept: after a short write the same bytes are written again. *)
AcceptTwice(k) == /\ sink' = sink \o Items(done, done + k)
                  /\ done' = IF done + k = taken THEN taken ELSE done

(* A write takes the next k bytes. *)
Accept(k) == sink' = sink \o Items(done, done + k) /\ done' = done + k

WriteLoop == /\ phase = "write" /\ Writes = "loop"
             /\ \E k \in 1 .. taken - done : Accept(k)
             /\ phase' = IF done' = taken THEN "read" ELSE "write"
             /\ UNCHANGED <<program, given, taken, held, notes, reported, failed>>

(* cat stops at a short write and returns 0. *)
WriteOnce == /\ phase = "write" /\ Writes = "once"
             /\ \E k \in 0 .. taken - done :
                    /\ Accept(k)
                    /\ phase' = IF k = taken - done THEN "read" ELSE "exit"
                    /\ failed' = (failed \/ k < taken - done)
             /\ UNCHANGED <<program, given, taken, held, notes, reported>>

(* A filter goes on to the next byte whatever comes of the write; nextchar's -1 for
   0xFF ends the one that has a buffer. *)
WriteByte == /\ phase = "write" /\ Writes = "byte"
             /\ IF Is("task10_3") /\ given[done + 1] = "ff"
                THEN phase' = "exit" /\ UNCHANGED <<done, sink, failed>>
                ELSE /\ phase' = IF done + 1 = taken THEN "read" ELSE "write"
                     /\ \/ Accept(1) /\ UNCHANGED failed
                        \/ done' = done + 1 /\ failed' = TRUE /\ UNCHANGED sink
             /\ UNCHANGED <<program, given, taken, held, notes, reported>>

(* The non-blocking client flushes after each fwrite. *)
WriteLibc == /\ phase = "write" /\ Writes = "libc"
             /\ LET q == held \o Items(done, taken)
                IN  \E m \in 0 .. Len(q) : (Is("nonblocking") => m = Len(q)) /\ Drain(q, m, "read")
             /\ done' = taken
             /\ UNCHANGED <<program, given, taken, notes, reported>>

(* Mutant of WriteFails: a failed write is taken for the end of the file. *)
WriteFailsSilently == /\ phase = "write" /\ Writes = "loop"
                      /\ phase' = "exit" /\ failed' = TRUE
                      /\ UNCHANGED <<program, given, taken, done, stdio, notes, reported>>

WriteFails == /\ phase = "write" /\ Writes = "loop"
              /\ phase' = "exit" /\ reported' = TRUE /\ failed' = TRUE
              /\ UNCHANGED <<program, given, taken, done, stdio, notes>>

(* No program handles SIGPIPE: a write nobody is left to read ends it. *)
BrokenPipe == /\ phase = "write" /\ Writes # "libc"
              /\ phase' = "killed" /\ failed' = TRUE
              /\ UNCHANGED <<program, given, taken, done, stdio, notes, reported>>

Exit == /\ phase = "exit"
        /\ Drain(held, Len(held), "end")
        /\ UNCHANGED <<program, given, taken, done, notes, reported>>

Ended == phase \in {"end", "killed", "undefined"} /\ UNCHANGED vars

Next == \/ SetupWorks \/ SetupFails \/ ConnectFails \/ AcceptFails \/ ResolveFails
        \/ Read \/ ReadEof \/ ReadFails \/ Interrupted \/ NoData
        \/ WriteLoop \/ WriteOnce \/ WriteByte \/ WriteLibc \/ WriteFails \/ BrokenPipe
        \/ Exit \/ Ended

Spec == Init /\ [][Next]_vars
-----------------------------------------------------------------------------
In(s, n) == \E i \in DOMAIN s : s[i] = Item(n)

(* Through short reads, short writes, signals and failures no byte is written
   twice, changed or before an earlier one; and of the bytes given to a write none
   is left out but by the programs that ignore what becomes of it, once a write
   has failed (task10_3.c:114, sem19/main.c:102, server.c:62, sem20/main.c:109). *)
InOrder == /\ \A i, j \in DOMAIN sink : i < j /\ Note \notin {sink[i], sink[j]} => sink[i].at < sink[j].at
           /\ \A i \in DOMAIN sink : sink[i] = Note \/ \E n \in 1 .. done : sink[i] = Item(n)
           /\ ~failed \/ Writes \notin {"byte", "libc"} => \A n \in 1 .. done : In(sink, n) \/ In(held, n)

(* What all of the input comes to: 0xFF is an end for task10_3. *)
Whole == {n \in 1 .. Len(given) : Is("task10_3") => \A m \in 1 .. n : given[m] # "ff"}

(* A program that ends by itself has written all, unless a call failed; copy_file
   and the sending of a request then say so, signals or not, and never without
   cause (task11_2.c:14-37, sem19/main.c:44-51, 75-91). *)
CompleteOrReported ==
    phase = "end" => /\ ~failed => \A n \in Whole : In(sink, n)
                     /\ Writes = "loop" /\ ~reported => \A n \in 1 .. Len(given) : In(sink, n)
                     /\ reported => failed
=============================================================================
