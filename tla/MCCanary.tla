------------------------------- MODULE MCCanary -------------------------------
(* Instances of Canary for TLC. *)
EXTENDS Canary

\* A limit that is not on a tick, and rounds up into the next band; no limit; a
\* band with neither field.
SomeBands == {[lower |-> 4998, base |-> 0], [lower |-> 0, base |-> 28585], [lower |-> 0, base |-> 0]}
=============================================================================
