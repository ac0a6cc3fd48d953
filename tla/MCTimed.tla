------------------------------- MODULE MCTimed --------------------------------
(* The instances of MCBrokerEdge on which conclusions are to be trusted. *)
EXTENDS MCBrokerEdge

ASSUME TrustedInstance == TimingAssumption /\ SessionAssumption /\ NoLookAlikes
=============================================================================
