------------------------------ MODULE MCWitness -------------------------------
(* Instances of Witness for TLC. *)
EXTENDS Witness, TLC

CONSTANTS c1, p1, p2, e1, e2, audit

Delivery(n) == [id |-> c1, copy |-> n]
TwoPosts == {Delivery(p1), Delivery(p2)}
TwoEchoes == {Delivery(e1), Delivery(e2)}
OnePost == {Delivery(p1)}
OneEcho == {Delivery(e1)}

Names == Permutations({p1, p2}) \union Permutations({e1, e2})
=============================================================================
