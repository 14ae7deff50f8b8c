---------------------------- MODULE MCZConnection ----------------------------
(* Small instances of ZConnection for TLC.                                 *)
EXTENDS ZConnection
=============================================================================
