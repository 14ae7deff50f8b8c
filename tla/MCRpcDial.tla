----------------------------- MODULE MCRpcDial -----------------------------
(* Two calls of Dial in one process.                                       *)
EXTENDS RpcDial
=============================================================================
