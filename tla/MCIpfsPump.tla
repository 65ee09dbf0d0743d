----------------------------- MODULE MCIpfsPump -----------------------------
(* Small instances of the ipfs learner for TLC. *)
EXTENDS IpfsPump, TLC

CONSTANTS b1, b2, b3, r1, r2, r3, r4

\* more resources than ResourceMax, exactly as many, and none
MCResources == (b1 :> <<r1, r2, r3>>) @@ (b2 :> <<r4, r1>>) @@ (b3 :> <<>>)
MCGroup == (b1 :> "g1") @@ (b2 :> None) @@ (b3 :> "g3")
\* one message without a block, one for another program
MCAnnouncements ==
  {[task |-> "ostrich", block |-> b] : b \in {b1, b2, b3}}
  \cup {[task |-> "ostrich", block |-> None], [task |-> "parrot", block |-> b1]}
=============================================================================
