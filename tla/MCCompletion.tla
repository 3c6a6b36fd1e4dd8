---------------------------- MODULE MCCompletion ----------------------------
(* One of three independent parts runs: the joins, the list or the vector. *)
EXTENDS ThreadJoins, AtomicList, AsyncVector

VARIABLE part

mcvars == <<part, jvars, lvars, avars>>

MCInit == /\ part \in {"joins", "list", "vector"} /\ JInit /\ LInit /\ AInit
          /\ part # "joins" => kind = "chain" /\ numbers = 0
          /\ part # "vector" => size = 0

MCNext == /\ \/ part = "joins" /\ JNext /\ UNCHANGED <<lvars, avars>>
             \/ part = "list" /\ LNext /\ UNCHANGED <<jvars, avars>>
             \/ part = "vector" /\ ANext /\ UNCHANGED <<jvars, lvars>>
          /\ UNCHANGED part

(* The threads of the vector are scheduled; main need not return. *)
MCSpec == /\ MCInit /\ [][MCNext]_mcvars
          /\ WF_mcvars(part = "vector" /\ Launch /\ UNCHANGED <<part, jvars, lvars>>)
          /\ WF_mcvars(part = "vector" /\ AnyThreadStep /\ UNCHANGED <<part, jvars, lvars>>)
=============================================================================
