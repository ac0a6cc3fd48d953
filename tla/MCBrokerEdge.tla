---------------------------- MODULE MCBrokerEdge -----------------------------
(* Instances of BrokerEdge for TLC. *)
EXTENDS BrokerEdge

CONSTANTS c1, c2, c3, none, noFacts, noOrder, x, y, z, b1, k1

Delivery(c, n, s, f) == [id |-> c, copy |-> n, scope |-> s, facts |-> f, check |-> "pass"]
Refused(d) == [d EXCEPT !.check = "refused"]
Foreign(s, f) == [id |-> none, copy |-> 0, scope |-> s, facts |-> f, check |-> "pass"]

\* Two deliveries of a cancel.
CancelTwice == {[id |-> c1, copy |-> n] : n \in {1, 2}}

-----------------------------------------------------------------------------
(* Placements. *)

\* Three deliveries of one command, one with another payload and one invalid.
DuplicatePlacements ==
  {Delivery(c1, 1, "kis_mock", x), Delivery(c1, 2, "kis_mock", y),
   Refused(Delivery(c1, 3, "kis_mock", x))}

OneCommand == {Delivery(c1, 1, "kis_mock", x)}

\* One command delivered twice, for two accounts: either delivery may be the first.
OneTwice == {Delivery(c1, 1, "kis_mock", x), Delivery(c1, 2, "alpaca_paper_crypto", x)}

OneOverseas == {Delivery(c1, 1, "kis_mock_us", x)}

\* Commands that an earlier release left behind.
LeftBehind == {Delivery(c2, 1, "kis_mock", y), Delivery(c3, 1, "alpaca_paper_crypto", z)}

\* An order of somebody else: one that no command of ours resembles, or one of
\* the same side, stock, quantity and price.
Stranger == {Foreign("kis_mock", z)}
LookAlike == {Foreign("kis_mock", x)}

-----------------------------------------------------------------------------
(* Sessions. *)

AlwaysOpen == [s \in Scopes |-> 0 .. MaxTime]

\* With days of three units: the broker books at 0, 2 and 5, so that no order can
\* be stamped on one day and booked on the next.
LateInTheDay == [s \in Scopes |-> {0, 2, 5}]
=============================================================================
