----------------------------- MODULE MCPingPong -----------------------------
(* Further than the 11 of the program, and odd like it. *)
EXTENDS PingPong
=============================================================================
