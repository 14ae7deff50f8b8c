---------------------------- MODULE MCZMsgHandle ----------------------------
(* Small instances of ZMsgHandle for TLC.                                  *)
EXTENDS ZMsgHandle
=============================================================================
