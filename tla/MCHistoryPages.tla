---------------------------- MODULE MCHistoryPages ----------------------------
(* The instance of HistoryPages for TLC: the orders of a day may be more than  *)
(* the pages of a read can have.                                               *)
EXTENDS HistoryPages

ASSUME LongDay == MaxOrders > MaximumPages * PageSize
=============================================================================
