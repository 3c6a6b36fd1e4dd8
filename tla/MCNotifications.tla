-------------------------- MODULE MCNotifications --------------------------
(* Either a signal experiment or an event sample runs. *)
EXTENDS Signals, EventSamples

VARIABLE part

mcvars == <<part, svars, evars>>

MCInit == /\ part \in {"signals", "events"} /\ SInit /\ EInit
          /\ part = "signals" => sample = "poll"
          /\ part = "events" => test = "mask"

MCNext == /\ \/ part = "signals" /\ SNext /\ UNCHANGED evars
             \/ part = "events" /\ ENext /\ UNCHANGED svars
          /\ UNCHANGED part

MCSpec == MCInit /\ [][MCNext]_mcvars
=============================================================================
