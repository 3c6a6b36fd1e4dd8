----------------------------- MODULE SafeQueue -----------------------------
(***************************************************************************)
(* safe_queue_t of apps/sem23/task22_2.c: one slot guarded by a mutex,     *)
(* with ONE condition variable that both the callers of                    *)
(* safe_queue_release and those of safe_queue_acquire wait on.  pc[t] is   *)
(* the call thread t is about to make:                                     *)
(*   idle    outside the queue          flip    exists = 1 (0)             *)
(*   lock    pthread_mutex_lock         copy    the value is stored (read) *)
(*   check   the while condition        signal  pthread_cond_signal        *)
(*   wait    asleep in cond_wait        unlock  pthread_mutex_unlock       *)
(*   relock  woken, mutex not yet back                                     *)
(*   dying   cancelled in cond_wait     dead    gone, the mutex still held *)
(***************************************************************************)
CONSTANTS Producers, Consumers, Values, None

Threads == Producers \cup Consumers

ASSUME QueueAssumption == /\ Producers \cap Consumers = {}
                          /\ 0 \in Values
                          /\ None \notin Threads
                          /\ None \notin Values

VARIABLES pc, mutex, exists, value, local, cancelled

qvars == <<pc, mutex, exists, value, local, cancelled>>

Locations == {"idle", "lock", "check", "wait", "relock", "flip", "copy",
              "signal", "unlock", "dying", "dead"}

(* Where a thread owns the mutex.  No cleanup handler is pushed around
   cond_wait, so a thread cancelled there dies with the mutex locked. *)
Holding == {"check", "flip", "copy", "signal", "unlock", "dead"}

(* safe_queue_init *)
Init == /\ pc = [t \in Threads |-> "idle"]
        /\ mutex = None
        /\ exists = 0
        /\ value = 0
        /\ local = [t \in Threads |-> None]
        /\ cancelled = {}
-----------------------------------------------------------------------------
Goto(t, from, to) == pc[t] = from /\ pc' = [pc EXCEPT ![t] = to]

(* Mutant of CallRelease: the argument is not passed on. *)
CallReleaseNothing(p, v) == /\ Goto(p, "idle", "lock")
                            /\ UNCHANGED <<mutex, exists, value, local, cancelled>>

(* The calls: the argument of release, and the result acquire has yet to fill. *)
CallRelease(p, v) == /\ Goto(p, "idle", "lock")
                     /\ local' = [local EXCEPT ![p] = v]
                     /\ UNCHANGED <<mutex, exists, value, cancelled>>

CallAcquire(c) == /\ Goto(c, "idle", "lock")
                  /\ local' = [local EXCEPT ![c] = None]
                  /\ UNCHANGED <<mutex, exists, value, cancelled>>

Lock(t) == /\ mutex = None
           /\ mutex' = t
           /\ Goto(t, "lock", "check")
           /\ UNCHANGED <<exists, value, local, cancelled>>

(* The two while conditions: a producer waits for room, a consumer for an item. *)
MustWait(t) == IF t \in Producers THEN exists = 1 ELSE exists = 0

Pass(t) == /\ ~MustWait(t)
           /\ Goto(t, "check", "flip")
           /\ UNCHANGED <<mutex, exists, value, local, cancelled>>

(* pthread_cond_wait releases the mutex and falls asleep in one step. *)
Wait(t) == /\ MustWait(t)
           /\ Goto(t, "check", "wait")
           /\ mutex' = None
           /\ UNCHANGED <<exists, value, local, cancelled>>

(* POSIX lets cond_wait return with no signal. *)
SpuriousWake(t) == /\ Goto(t, "wait", "relock")
                   /\ UNCHANGED <<mutex, exists, value, local, cancelled>>

(* Mutants of Relock: cond_wait returns without the mutex; `if` for `while`. *)
RelockUnlocked(t) == /\ mutex' = t
                     /\ Goto(t, "relock", "check")
                     /\ UNCHANGED <<exists, value, local, cancelled>>

RelockNoRetest(t) == /\ mutex = None
                     /\ mutex' = t
                     /\ Goto(t, "relock", "flip")
                     /\ UNCHANGED <<exists, value, local, cancelled>>

Relock(t) == /\ mutex = None
             /\ mutex' = t
             /\ Goto(t, "relock", "check")
             /\ UNCHANGED <<exists, value, local, cancelled>>

Flip(t) == /\ Goto(t, "flip", "copy")
           /\ exists' = IF t \in Producers THEN 1 ELSE 0
           /\ UNCHANGED <<mutex, value, local, cancelled>>

StoreValue(p) == /\ Goto(p, "copy", "signal")
                 /\ value' = local[p]
                 /\ UNCHANGED <<mutex, exists, local, cancelled>>

LoadValue(c) == /\ Goto(c, "copy", "signal")
                /\ local' = [local EXCEPT ![c] = value]
                /\ UNCHANGED <<mutex, exists, value, cancelled>>

(* Mutant of Signal: the signal is forgotten. *)
SignalNobody(t) == /\ Goto(t, "signal", "unlock")
                   /\ UNCHANGED <<mutex, exists, value, local, cancelled>>

(* The signal wakes one of the sleepers, whichever side it is on. *)
Signal(t) == /\ pc[t] = "signal"
             /\ IF \E u \in Threads : pc[u] = "wait"
                THEN \E u \in Threads :
                        /\ pc[u] = "wait"
                        /\ pc' = [pc EXCEPT ![t] = "unlock", ![u] = "relock"]
                ELSE pc' = [pc EXCEPT ![t] = "unlock"]
             /\ UNCHANGED <<mutex, exists, value, local, cancelled>>

Unlock(t) == /\ Goto(t, "unlock", "idle")
             /\ mutex' = None
             /\ UNCHANGED <<exists, value, local, cancelled>>

(* pthread_cancel only leaves a request: cancellation is deferred. *)
Cancel(t) == /\ t \notin cancelled
             /\ cancelled' = cancelled \cup {t}
             /\ UNCHANGED <<pc, mutex, exists, value, local>>

(* cond_wait is the only cancellation point of the queue.  The thread takes
   the mutex back before it is gone. *)
ActOnCancel(t) == /\ t \in cancelled
                  /\ Goto(t, "wait", "dying")
                  /\ UNCHANGED <<mutex, exists, value, local, cancelled>>

Die(t) == /\ mutex = None
          /\ mutex' = t
          /\ Goto(t, "dying", "dead")
          /\ UNCHANGED <<exists, value, local, cancelled>>
-----------------------------------------------------------------------------
(* What a thread inside a call does next. *)
Advance(t) == \/ Lock(t) \/ Pass(t) \/ Wait(t) \/ Relock(t) \/ Flip(t)
              \/ t \in Producers /\ StoreValue(t)
              \/ t \in Consumers /\ LoadValue(t)
              \/ Signal(t) \/ Unlock(t) \/ ActOnCancel(t) \/ Die(t)

QueueNext == \/ \E p \in Producers, v \in Values : CallRelease(p, v)
             \/ \E c \in Consumers : CallAcquire(c)
             \/ \E t \in Threads : Advance(t) \/ SpuriousWake(t)
             \/ \E p \in Producers : Cancel(p)

QueueSpec == Init /\ [][QueueNext]_qvars
-----------------------------------------------------------------------------
TypeOK == /\ pc \in [Threads -> Locations]
          /\ mutex \in Threads \cup {None}
          /\ exists \in {0, 1}
          /\ value \in Values
          /\ local \in [Threads -> Values \cup {None}]
          /\ cancelled \in SUBSET Producers

(* The mutex is owned by exactly the thread whose program counter lies between
   a lock and the matching unlock, across cond_wait, its wakeups and the
   cancellation that never unlocks (lines 41-48 and 53-60). *)
MutualExclusion == \A t \in Threads : pc[t] \in Holding <=> mutex = t

(* The while loops re-test after every wakeup, so nobody reaches the two
   assignments with the slot in the wrong state (lines 42-45 and 54-57). *)
GuardHolds == \A t \in Threads : pc[t] = "flip" => ~MustWait(t)

(* The item in the slot: it arrives when the value is stored, a step after
   exists is set, and leaves when the value is read, a step after exists is
   cleared. *)
SlotItem == IF \/ exists = 1 /\ \A p \in Producers : pc[p] # "copy"
               \/ \E c \in Consumers : pc[c] = "copy"
            THEN value ELSE None

InHand == [t \in Threads |->
             IF t \in Producers /\ pc[t] \in {"idle", "signal", "unlock"}
             THEN None ELSE local[t]]

Channel == INSTANCE SlotChannel WITH slot <- SlotItem, held <- InHand

(* Every behaviour of the queue, with any number of producers and consumers,
   spurious wakeups and cancelled producers, is one of the one-slot channel:
   no item is lost, handed out twice or overwritten (lines 40-61). *)
ImplementsChannel == Channel!Spec
=============================================================================
