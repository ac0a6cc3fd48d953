---------------------------- MODULE MCTokenGateway ----------------------------
(* Instances of TokenGateway for TLC. *)
EXTENDS TokenGateway, TLC

Names == Permutations(Calls) \union Permutations(Tokens)
=============================================================================
