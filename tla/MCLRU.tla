-------------------------------- MODULE MCLRU --------------------------------
(* A small instance of LRU for TLC: keys of different lengths, a value that *)
(* is larger than the cache.                                               *)
EXTENDS LRU, TLC

CONSTANTS k1, k2, k3

Lengths == k1 :> 1 @@ k2 :> 1 @@ k3 :> 2
=============================================================================
