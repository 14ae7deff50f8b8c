----------------------------- MODULE MCXClient -----------------------------
(* A broadcast to two servers next to one call.                            *)
EXTENDS XClient
=============================================================================
