----------------------------- MODULE MCRpcClient -----------------------------
(* Small instances of RpcClient for TLC.                                   *)
EXTENDS RpcClient, TLC

CONSTANTS g1, g2, s1, shared, own1

\* Two asynchronous calls share a channel: the arguments of one overflow the
\* write buffer, those of the other cannot be encoded.  One synchronous call
\* has a deadline.
MixedBody == g1 :> "large" @@ g2 :> "bad" @@ s1 :> "small"
MixedChan == g1 :> shared @@ g2 :> shared @@ s1 :> own1
RoomyCap  == shared :> 2 @@ own1 :> 1

\* A synchronous call alone.
SoloBody == s1 :> "small"
SoloChan == s1 :> own1
SoloCap  == own1 :> 1

\* Answers to the first and the second request, which may not have been
\* made, and every way a body can fail.
MixedAnswers ==
    {[seq |-> 1, error |-> FALSE, body |-> "whole"],
     [seq |-> 2, error |-> FALSE, body |-> "whole"],
     [seq |-> 2, error |-> FALSE, body |-> "mismatch"],
     [seq |-> 1, error |-> TRUE, body |-> "torn"]}
=============================================================================
