----------------------------- MODULE MCGeeCache -----------------------------
(* Two nodes with two virtual nodes each, on rings where the keys lie      *)
(* before, on and behind the hashes, where virtual nodes of one node       *)
(* coincide, and where those of two nodes do.                              *)
EXTENDS GeeCache

MCHome == "u1" :> "n1" @@ "u2" :> "n2"

MCWire == [k \in Keys |-> IF k = "a b" THEN "a+b" ELSE k]

MCLists == {<<"n1", "n2">>, <<"n2", "n1">>}

MCHash(a, b, c, d) ==
    [node |-> (<<0, "n1">> :> a @@ <<1, "n1">> :> b @@
               <<0, "n2">> :> c @@ <<1, "n2">> :> d),
     key |-> ("k" :> 3 @@ "a b" :> 1 @@ "a+b" :> 4)]

MCHashes == {MCHash(3, 3, 0, 4), MCHash(0, 3, 3, 2)}
=============================================================================
