------------------------------ MODULE BrokerSide -----------------------------
(***************************************************************************)
(* The outside of the edge: the broker's order book and the clock.  Neither *)
(* is code of the repository; both are modelled from how the code uses      *)
(* them.  A placement POST travels as a member of wire until the broker     *)
(* books the order, refuses it, or the network loses it.  The order-history *)
(* view may lag the book, by less than Settle.                              *)
(***************************************************************************)
EXTENDS EdgeProcesses, Integers

CONSTANTS
  MaxTime,  \* bound on the clock
  Delay,    \* a POST is booked, refused or lost within Delay of being sent
  Settle,   \* an order is in every history read that begins Settle after it
  DayLen,   \* length of a KST day
  Session   \* [Scopes -> SUBSET Nat]: when the broker books orders

ASSUME BrokerAssumption ==
  /\ MaxTime \in Nat
  /\ Delay \in Nat
  /\ Settle \in Nat
  /\ DayLen \in Nat \ {0}
  /\ Session \in [Scopes -> SUBSET Nat]

VARIABLES
  now,      \* the clock
  posted,   \* when a delivery's POST left the edge, or Never (a history variable)
  wire,     \* deliveries whose POST is still on its way
  booked,   \* when the order of a placement entered the book, or Never
  closed,   \* orders the broker has cancelled
  cancelPosts \* cancel requests that left the edge: [by, oid] (never removed)

edgeVars == <<told, storeVars, processVars>>
brokerVars == <<now, posted, wire, booked, closed, cancelPosts>>

Never == -1
Time == Nat \union {Never}

BrokerInit ==
  /\ now = 0
  /\ posted = [d \in PlaceRequests |-> Never]
  /\ wire = {}
  /\ booked \in [Placements -> {Never, 0}]
  /\ \A d \in Placements \ LegacyPlacements : booked[d] = Never
  /\ closed = {}
  /\ cancelPosts = {}

DayOf(t) == t \div DayLen

\* The broker books the order of a POST that reached it during a session.
Book(d) ==
  /\ d \in wire
  /\ now \in Session[d.scope]
  /\ wire' = wire \ {d}
  /\ booked' = [booked EXCEPT ![d] = now]
  /\ UNCHANGED <<now, posted, closed, cancelPosts, edgeVars>>

\* The broker refuses the order, or the network loses the POST.
Drop(d) ==
  /\ d \in wire
  /\ wire' = wire \ {d}
  /\ UNCHANGED <<now, posted, booked, closed, cancelPosts, edgeVars>>

\* Somebody else places an order on the same account.
BookForeign(f) ==
  /\ booked[f] = Never
  /\ now \in Session[f.scope]
  /\ booked' = [booked EXCEPT ![f] = now]
  /\ UNCHANGED <<now, posted, wire, closed, cancelPosts, edgeVars>>

\* The broker carries out a cancel request.
Close(m) ==
  /\ m \in cancelPosts
  /\ m.oid \in Placements \ closed
  /\ booked[m.oid] # Never
  /\ closed' = closed \union {m.oid}
  /\ UNCHANGED <<now, posted, wire, booked, cancelPosts, edgeVars>>

\* The orders one day's history can show, and those a read that began at
\* time t cannot miss.
DayOrders(scope, day) ==
  {p \in Placements : booked[p] # Never /\ p.scope = scope /\ DayOf(booked[p]) = day}
SettledBy(t) == {p \in Placements : booked[p] # Never /\ booked[p] + Settle <= t}
=============================================================================
