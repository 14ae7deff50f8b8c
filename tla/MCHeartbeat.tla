----------------------------- MODULE MCHeartbeat -----------------------------
(* Two servers; the constants are the smallest with room for a delay.      *)
EXTENDS Heartbeat
=============================================================================
