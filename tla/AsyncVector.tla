---------------------------- MODULE AsyncVector ----------------------------
(***************************************************************************)
(* apps/sem24/cpp_magic.cpp: async_vector maps a function over a vector,   *)
(* one detached thread an element, and calls back with the results from    *)
(* the thread that completes the count.  The threads read the caller's     *)
(* vector by reference; main keeps it for a second, then exits.            *)
(***************************************************************************)
EXTENDS Integers, Sequences

CONSTANT MaxSize        \* bound: elements of the vector

ASSUME MaxSizeAssumption == MaxSize \in Nat

VARIABLES size,             \* ins.size()
          launched,         \* threads started
          caller,           \* main: "launch", "sleep", "destroyed", "exited"
          doing,            \* doing[i]: what the thread of element i does next
          argument,         \* argument[i]: ins[i] as its thread has read it
          output,           \* output[i]: "unset" or what it was computed from
          complete_count,   \* the atomic counter
          calls             \* the output each call of the callback was given

avars == <<size, launched, caller, doing, argument, output, complete_count, calls>>

Element == 1 .. size

AInit == /\ size \in 0 .. MaxSize
         /\ launched = 0 /\ caller = "launch"
         /\ doing = [i \in Element |-> "none"]
         /\ argument = [i \in Element |-> "unset"]
         /\ output = [i \in Element |-> "unset"]
         /\ complete_count = 0 /\ calls = <<>>

Launch == /\ caller = "launch"
          /\ IF launched < size
             THEN /\ launched' = launched + 1
                  /\ doing' = [doing EXCEPT ![launched'] = "apply"]
                  /\ UNCHANGED caller
             ELSE caller' = "sleep" /\ UNCHANGED <<launched, doing>>
          /\ UNCHANGED <<size, argument, output, complete_count, calls>>

(* After the second main destroys the vector and exits; what still runs then
   reads memory that was freed, until the process ends. *)
MainReturns == /\ \/ caller = "sleep" /\ caller' = "destroyed"
                  \/ caller = "destroyed" /\ caller' = "exited"
               /\ UNCHANGED <<size, launched, doing, argument, output, complete_count, calls>>

Step(i, from, to) == /\ caller # "exited" /\ doing[i] = from
                     /\ doing' = [doing EXCEPT ![i] = to]
                     /\ UNCHANGED <<size, launched, caller>>

(* The tuple of arguments holds a reference to ins[i]: it is read here. *)
Apply(i) == /\ Step(i, "apply", "store")
            /\ argument' = [argument EXCEPT ![i] = IF caller = "destroyed" THEN "freed" ELSE "ins"]
            /\ UNCHANGED <<output, complete_count, calls>>

StoreOutput(i) == /\ Step(i, "store", "count")
                  /\ output' = [output EXCEPT ![i] = argument[i]]
                  /\ UNCHANGED <<argument, complete_count, calls>>

(* Mutant of Count: the count is compared before it is incremented. *)
CountPost(i) == /\ Step(i, "count", IF complete_count = size THEN "call" ELSE "ended")
                /\ complete_count' = complete_count + 1
                /\ UNCHANGED <<argument, output, calls>>

(* Mutant of Count: the last element to be launched calls back. *)
CountLaunched(i) == /\ Step(i, "count", IF i = size THEN "call" ELSE "ended")
                    /\ complete_count' = complete_count + 1
                    /\ UNCHANGED <<argument, output, calls>>

Count(i) == /\ Step(i, "count", IF complete_count + 1 = size THEN "call" ELSE "ended")
            /\ complete_count' = complete_count + 1
            /\ UNCHANGED <<argument, output, calls>>

Callback(i) == /\ Step(i, "call", "ended")
               /\ calls' = Append(calls, output)
               /\ UNCHANGED <<argument, output, complete_count>>

ThreadStep(i) == Apply(i) \/ StoreOutput(i) \/ Count(i) \/ Callback(i)

AnyThreadStep == \E i \in Element : ThreadStep(i)

ANext == Launch \/ MainReturns \/ AnyThreadStep

ASpec == AInit /\ [][ANext]_avars
-----------------------------------------------------------------------------
(* The callback is called once at most, when every output has been stored; and
   all were computed from the caller's vector unless main had returned before a
   thread read its element (lines 54-62, 84). *)
CallbackAfterAll ==
    /\ Len(calls) <= 1
    /\ \A k \in DOMAIN calls, i \in Element :
           /\ calls[k][i] # "unset"
           /\ calls[k][i] = "freed" => caller \in {"destroyed", "exited"}

(* Once a thread has been started the callback is called, if main does not
   return before: some thread meets the last count (line 59). *)
CallbackRuns == launched > 0 ~> (calls # <<>> \/ caller \in {"destroyed", "exited"})
=============================================================================
