------------------------------ MODULE BrokerEdge ------------------------------
(***************************************************************************)
(* kis-mock-edge as one system: placements, cancels and checks served by    *)
(* the daemon, runs of the resolve process beside it, the broker, the clock *)
(* and crashes, over one receipt store.                                     *)
(***************************************************************************)
EXTENDS Placement, Resolution, Cancellation

vars == <<told, storeVars, processVars, brokerVars>>

Init ==
  /\ StoreInit
  /\ ProcessInit
  /\ BrokerInit

-----------------------------------------------------------------------------
(* The clock and the failures of whole processes. *)

\* Time passes, but not beyond what the bounds allow: a POST leaves within Lag
\* of its stamp and has its effect within Delay, and a history read is concluded
\* within ReadSpan of its beginning.
Tick ==
  /\ now < MaxTime
  /\ \A d \in wire : now < posted[d] + Delay
  /\ \A d \in PlaceRequests :
       place[d].pc \in {"reserve", "send"} => now < place[d].sentAt + Lag
  /\ \A r \in Resolvers :
       resolver[r].pc \in {"read", "conclude"} => now < resolver[r].readAt + ReadSpan
  /\ now' = now + 1
  /\ UNCHANGED <<posted, wire, booked, closed, cancelPosts, edgeVars>>

\* The daemon dies and is started again: its goroutines are lost, the store and
\* whatever already left for the broker are not.
Crash ==
  /\ KillPlacements
  /\ KillCancels
  /\ KillResolvers(Checks)
  /\ UNCHANGED <<told, storeVars, brokerVars>>

\* The resolve process dies in the middle of a run.
KillBatch(b) ==
  /\ KillResolvers({b})
  /\ UNCHANGED <<told, storeVars, place, cancel, brokerVars>>

BrokerStep ==
  \/ \E d \in PlaceRequests : Book(d) \/ Drop(d)
  \/ \E f \in ForeignOrders : BookForeign(f)
  \/ \E m \in cancelPosts : Close(m)

Next ==
  \/ \E d \in PlaceRequests : PlaceStep(d)
  \/ \E x \in CancelRequests : CancelStep(x)
  \/ \E b \in Batches : Snapshot(b) \/ KillBatch(b)
  \/ \E k \in Checks, c \in Commands : CheckReplay(k, c) \/ CheckOne(k, c)
  \/ \E r \in Resolvers : ResolveStep(r)
  \/ BrokerStep
  \/ Tick
  \/ Crash

Spec == Init /\ [][Next]_vars

-----------------------------------------------------------------------------
(* Assumptions under which a conclusion can be trusted.  The code does not    *)
(* enforce them; the runs and theorems that need them name them.              *)

\* The grace period covers everything that can happen to a POST after its stamp,
\* and the age of the evidence in hand when it is used (strictly: an order can be
\* booked at the very instant a read begins); the match window covers the
\* distance between stamp and order.
TimingAssumption ==
  /\ Grace >= Lag + Delay + Settle + ReadSpan
  /\ Grace > Lag + Delay + ReadSpan
  /\ Window >= Lag + Delay

\* An order stamped on one KST day is never booked on the next: no session goes
\* on over midnight, or begins within Lag + Delay of it.
WithinADay(s) ==
  \A t \in Session[s] : \A u \in 0 .. t : u + Lag + Delay >= t => DayOf(u) = DayOf(t)
SessionAssumption == \A s \in Scopes : WithinADay(s)

\* No two orders of an account that could be taken for each other.
NoLookAlikesOf(s) ==
  \A d, p \in Placements : d.scope = s /\ p.scope = s /\ d.id # p.id => d.facts # p.facts
NoLookAlikes == \A s \in Scopes : NoLookAlikesOf(s)

-----------------------------------------------------------------------------
(* Properties. *)

\* Every variable has its type.
TypeOK ==
  /\ StoreTypeOK
  /\ ProcessTypeOK
  /\ now \in Nat
  /\ posted \in [PlaceRequests -> Time]
  /\ wire \subseteq PlaceRequests
  /\ booked \in [Placements -> Time]
  /\ closed \subseteq Placements
  /\ cancelPosts \subseteq [by : CancelRequests, oid : OrderIds]

\* A command is POSTed by at most one of its deliveries, whatever duplicates,
\* crashes, ambiguous commits and retries there are (Service.Process: "duplicate
\* delivery cannot send again").
AtMostOnePost ==
  \A d, e \in PlaceRequests :
    posted[d] # Never /\ posted[e] # Never /\ d.id = e.id => d = e

\* What left for the broker was recorded first, and the stored facts are those
\* that were sent, not those of a duplicate with another payload
\* (ReservePending: the pre-send durability boundary).
WriteAhead ==
  \A d \in PlaceRequests :
    posted[d] # Never =>
      /\ commands[d.id].disposition \in {"UNKNOWN", "ACCEPTED"}
      /\ commands[d.id].scope = d.scope
      /\ contexts[d.id].facts = d.facts
      /\ contexts[d.id].sentAt <= posted[d]

\* Finalize and FinalizeCancel never find their marker taken: the goroutine that
\* reserved it is the only one that replaces it ("Finalize replaces only the
\* process owner's pending marker").
OnlyOwnerFinalizes ==
  /\ \A d \in PlaceRequests : At(d, "finalize") => commands[d.id].phase = "pending"
  /\ \A x \in CancelRequests : CancelAt(x, "finalize") => cancels[x.id] = "UNKNOWN"

\* A conclusive receipt never changes, although Finalize does not look at the
\* resolutions and ResolveUnknown does not look at the phase.
ConclusionIsFinal ==
  [][\A c \in Commands : Conclusive(Effective(c)) => Effective(c)' = Effective(c)]_vars

\* Whoever was handed a conclusive receipt, by the POST's own answer, a replay
\* or a check, was handed the receipt the store stands by.
RepliesAgree == \A c \in Commands : told[c] \subseteq {Effective(c)}

\* NOT_CREATED is the truth, for good: the command has no order in the book, and
\* nothing under way that could still create one (Resolver: "turns only proven
\* ... receipts into a conclusion").
AbsentIsReal ==
  \A c \in Commands : Effective(c).disposition = "NOT_CREATED" =>
    /\ \A p \in Placements : p.id = c => booked[p] = Never
    /\ \A d \in PlaceRequests : d.id = c => d \notin wire /\ ~At(d, "send")

\* An accepted command names an order that is in the book and was created by
\* this very command ("a foreign order can never produce a resolution").
AcceptedIsOwn ==
  \A c \in Commands : Effective(c).disposition = "ACCEPTED" =>
    /\ Effective(c).oid \in Placements
    /\ Effective(c).oid.id = c
    /\ booked[Effective(c).oid] # Never

\* At most one cancel request is sent for a command, recorded before it leaves,
\* and it names the order that the store holds the command accepted with.
OneCancelPost ==
  \A m \in cancelPosts :
    /\ cancels[m.by.id] # "none"
    /\ Effective(m.by.id) = [disposition |-> "ACCEPTED", oid |-> m.oid]
    /\ \A n \in cancelPosts : n.by.id = m.by.id => n = m

\* A cancel request only ever names an order of the command it was asked for
\* (docs/kis-mock-edge.md: the canary cleans up exactly its own order).
CancelHitsOwn == \A m \in cancelPosts : m.oid \in Placements /\ m.oid.id = m.by.id

\* CANCELLED is only recorded for an order that the broker has closed.
CancelledIsClosed ==
  \A c \in Commands : cancels[c] = "CANCELLED" => Effective(c).oid \in closed

-----------------------------------------------------------------------------
(* The promise to callers.  The history that posted keeps tells which commands *)
(* were sent; an order of the earlier release was.                             *)

WasSent(c) ==
  \/ \E d \in PlaceRequests : d.id = c /\ posted[d] # Never
  \/ LegacyOf(c) # {}

Ledger == INSTANCE CommandLedger WITH
  Inherited <- {l.id : l \in LegacyPlacements},
  receipt <- [c \in Commands |-> Effective(c).disposition],
  sent    <- {c \in Commands : WasSent(c)},
  created <- {c \in Commands : \E p \in Placements : p.id = c /\ booked[p] # Never}

\* The edge keeps the ledger's promise, under TimingAssumption, SessionAssumption
\* and NoLookAlikes.
ImplementsLedger == Ledger!LedgerSpec

-----------------------------------------------------------------------------
(* Progress. *)

\* Goroutines run until they end; a POST ends within its timeout; the clock goes
\* on; the resolve process is started again and again, and neither its reads
\* nor its store statements fail for ever.
Fairness ==
  /\ \A d \in PlaceRequests : WF_vars(PlaceStep(d) /\ ~At(d, "idle"))
  /\ \A d \in PlaceRequests : WF_vars(Drop(d))
  /\ WF_vars(Tick)
  /\ \A b \in Batches :
       /\ WF_vars(Snapshot(b))
       /\ WF_vars(ResolveStep(b))
       /\ SF_vars(\E orders \in SUBSET Placements : EndRead(b, orders))
       /\ \A c \in Commands : SF_vars(BeginRead(b, c)) /\ SF_vars(Conclude(b, c))
  /\ \A k \in Checks : WF_vars(ResolveStep(k))

FairSpec == Spec /\ Fairness

\* A receipt does not stay UNKNOWN for ever, even if its sender died.
PendingIsResolved ==
  \A c \in Commands :
    Stored(c) /\ ~Conclusive(Effective(c)) ~> Conclusive(Effective(c))
=============================================================================
