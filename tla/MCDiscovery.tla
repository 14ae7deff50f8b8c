----------------------------- MODULE MCDiscovery -----------------------------
(* A small instance of Discovery for TLC: a user may set a list in another *)
(* order than the registry's.                                              *)
EXTENDS Discovery

CONSTANTS c1, c2, none

HandLists == {<<2, 1>>}
=============================================================================
