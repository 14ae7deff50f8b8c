--------------------------- MODULE MCSingleFlight ---------------------------
(* A small instance of SingleFlight for TLC; the sets are model values.    *)
EXTENDS SingleFlight
=============================================================================
