---------------------------- MODULE EventSamples ----------------------------
(***************************************************************************)
(* apps/sem20/samples.c and apps/sem21/main.c: the same functions around   *)
(* eventfd, timerfd, poll, select and epoll in two versions.  Each reads   *)
(* one kernel object; value is what that holds: an eventfd's counter, the  *)
(* expirations of a timer, the 8-byte items in a pipe.                     *)
(***************************************************************************)
EXTENDS Integers, Sequences, Functions

CONSTANT MaxTicks       \* bound: expirations of a timer

ASSUME TicksAssumption == MaxTicks \in Nat /\ MaxTicks >= 4

(* start: the object's value; expires: a timer goes on adding to it; due: its
   expirations in the two seconds before the first read; takes: what a read
   returns and removes, one or all; reads: how many reads there are, 0 for no
   bound; waits: how the sample learns that it may read. *)
Timefd20 == [start |-> 0, expires |-> TRUE, due |-> 4, takes |-> "all", reads |-> 0, waits |-> "read"]

(* The first expiration is after 1.9 seconds, and one read is all. *)
Timefd21 == [start |-> 0, expires |-> TRUE, due |-> 1, takes |-> "all", reads |-> 1, waits |-> "read"]

(* Created with 2, 3 are added. *)
Semaphore20 == [start |-> 5, expires |-> FALSE, due |-> 0, takes |-> "one", reads |-> 10, waits |-> "read"]

Semaphore21 == [start |-> 5, expires |-> FALSE, due |-> 0, takes |-> "all", reads |-> 10, waits |-> "read"]

(* The eventfd is always writable, so poll and select return at once. *)
RunPoll == [start |-> 2, expires |-> FALSE, due |-> 0, takes |-> "one", reads |-> 0, waits |-> "poll"]

RunSelect == [start |-> 2, expires |-> FALSE, due |-> 0, takes |-> "one", reads |-> 0, waits |-> "poll"]

(* Four items are written after the pipe was added, edge-triggered. *)
Epoll20 == [start |-> 4, expires |-> FALSE, due |-> 0, takes |-> "one", reads |-> 0, waits |-> "epoll"]

Epoll21 == [start |-> 4, expires |-> FALSE, due |-> 0, takes |-> "one", reads |-> 0, waits |-> "epoll"]

Sample == [timefd20 |-> Timefd20, timefd21 |-> Timefd21, semaphore20 |-> Semaphore20,
           semaphore21 |-> Semaphore21, poll |-> RunPoll, select |-> RunSelect,
           epoll20 |-> Epoll20, epoll21 |-> Epoll21]

VARIABLES sample, value,
          put,          \* all that has been put into the object
          edge,         \* epoll has a change to report
          doing,        \* what the function does next
          got           \* the values it has read and printed

evars == <<sample, value, put, edge, doing, got>>

S == Sample[sample]

EInit == /\ sample \in DOMAIN Sample
         /\ value = S.start /\ put = S.start
         /\ edge = (S.waits = "epoll")
         /\ doing = IF S.expires THEN "sleep" ELSE IF S.waits = "read" THEN "read" ELSE "wait"
         /\ got = <<>>

EGoto(from, to) == doing = from /\ doing' = to

Expire == /\ S.expires /\ put < MaxTicks
          /\ value' = value + 1 /\ put' = put + 1
          /\ UNCHANGED <<sample, edge, doing, got>>

(* sleep(2) before the first read. *)
SleepEnds == /\ put >= S.due
             /\ EGoto("sleep", "read")
             /\ UNCHANGED <<sample, value, put, edge, got>>

Taken == IF S.takes = "one" THEN 1 ELSE value

(* Mutant of Take: a read of a counter leaves the rest of it. *)
TakeOne == /\ value > 0
           /\ value' = value - 1
           /\ got' = Append(got, Taken)

Take == /\ value > 0
        /\ value' = value - Taken
        /\ got' = Append(got, Taken)

(* The descriptors are blocking; the function ends after its last read. *)
ReadBlocking == /\ Take
                /\ EGoto("read", IF Len(got') = S.reads THEN "ended" ELSE "read")
                /\ UNCHANGED <<sample, put, edge>>

(* One round of poll or select: readable or not, the loop goes on. *)
PollRound == /\ S.waits = "poll" /\ EGoto("wait", "wait")
             /\ IF value > 0 THEN Take ELSE UNCHANGED <<value, got>>
             /\ UNCHANGED <<sample, put, edge>>

(* A change is reported once.  Without one sem21 asks again at once. *)
EpollWait == /\ S.waits = "epoll" /\ edge
             /\ EGoto("wait", "drain")
             /\ edge' = FALSE
             /\ UNCHANGED <<sample, value, put, got>>

(* Mutant of Drain: one read for each report. *)
DrainOne == /\ sample = "epoll21"
            /\ EGoto("drain", "wait")
            /\ Take
            /\ UNCHANGED <<sample, put, edge>>

(* sem21 reads until a read fails. *)
Drain == /\ sample = "epoll21"
         /\ \/ Take /\ EGoto("drain", "drain")
            \/ value = 0 /\ EGoto("drain", "wait") /\ UNCHANGED <<value, got>>
         /\ UNCHANGED <<sample, put, edge>>

(* In sem20 ev.data was set as a u32, 1234, and is read back as a descriptor:
   the read fails with EBADF, has_data stays set, and the loop spins without
   coming to epoll_wait again. *)
ReadBadFd == /\ sample = "epoll20" /\ EGoto("drain", "drain")
             /\ UNCHANGED <<sample, value, put, edge, got>>

ENext == \/ Expire \/ SleepEnds \/ ReadBlocking \/ PollRound
         \/ EpollWait \/ Drain \/ ReadBadFd

ESpec == EInit /\ [][ENext]_evars

-----------------------------------------------------------------------------
(* What has been read and what is left make up what was put in; a first read
   after two seconds has their expirations; and a function that waits for an
   edge has left nothing behind that no edge will report (main.c:197-205). *)
NothingLeftBehind ==
    /\ SumFunction(got) + value = put
    /\ S.expires /\ got # <<>> => got[1] >= S.due
    /\ sample = "epoll21" /\ doing = "wait" /\ ~edge => value = 0
=============================================================================
