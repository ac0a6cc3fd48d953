----------------------------- MODULE Resolution ------------------------------
(***************************************************************************)
(* The resolver: Resolve, the batch run of the separate process             *)
(* `kis-mock-edge resolve`, and ResolveOne, the check of one command behind *)
(* POST /v1/commands/{command_id}/resolve.  Both read the broker's order    *)
(* history and append resolutions of UNKNOWN receipts; nothing else.        *)
(***************************************************************************)
EXTENDS BrokerSide

CONSTANTS
  Grace,     \* DefaultResolutionGrace, or the --grace flag
  Window,    \* defaultMatchWindow
  ReadSpan   \* a history read is concluded within ReadSpan of its beginning

ASSUME ResolutionAssumption ==
  Grace \in Nat /\ Window \in Nat /\ ReadSpan \in Nat

resolverFrame == <<place, cancel>>

Alpaca == "alpaca_paper_crypto"

\* What a resolver turns to when the commands of done are dealt with.
Rest(r, done) ==
  LET left == resolver[r].work \ done
      same == resolver[r].group \ done
  IN IF left = {} THEN Resting
     ELSE IF same = {} THEN [Resting EXCEPT !.pc = "work", !.work = left]
     ELSE [resolver[r] EXCEPT !.work = left, !.group = same]

Proceed(r, done) == resolver' = [resolver EXCEPT ![r] = Rest(r, done)]

-----------------------------------------------------------------------------
(* Evidence. *)

\* An order is dated within the window around the stamp of the command.
InWindow(p, c) ==
  /\ booked[p] <= SentAt(c) + Window
  /\ SentAt(c) <= booked[p] + Window

\* Mutants of Matches: any order of the day within the window; a row without a
\* context matches the orders of its day.
MatchesAnyFacts(c, orders) ==
  IF commands[c].scope = Alpaca THEN orders
  ELSE IF ~ContextPresent(c) THEN {}
  ELSE {p \in orders : InWindow(p, c)}
MatchesGuessed(c, orders) ==
  IF commands[c].scope = Alpaca \/ ~ContextPresent(c) THEN orders
  ELSE {p \in orders : p.facts = contexts[c].facts /\ InWindow(p, c)}

\* matchingOrders: same facts, ordered within the window of the send time.
\* Alpaca answers by the client order id, which is the command id.
Matches(c, orders) ==
  IF commands[c].scope = Alpaca THEN orders
  ELSE IF ~ContextPresent(c) THEN {}
  ELSE {p \in orders : p.facts = contexts[c].facts /\ InWindow(p, c)}

\* A mutant of AbsentProven: the match window in place of the grace period.
AbsentAfterWindow(c, orders) ==
  /\ Matches(c, orders) = {}
  /\ ContextPresent(c) \/ orders = {}
  /\ now >= SentAt(c) + Window

\* A row without a context is absent only if the whole day is empty.
AbsentProven(c, orders) ==
  /\ Matches(c, orders) = {}
  /\ ContextPresent(c) \/ orders = {}
  /\ now >= SentAt(c) + Grace

\* A mutant of Readable: every Alpaca row is looked up by its command id.
ReadableAlways(c) == c \in Commands

\* The commands one read can answer: the KIS items of one scope and day, or
\* one Alpaca item whose client_order_id is known to have been sent.
Readable(c) == commands[c].scope = Alpaca => ContextPresent(c) /\ contexts[c].clientId
SameRead(c, e) ==
  /\ commands[c].scope = commands[e].scope
  /\ IF commands[c].scope = Alpaca THEN c = e
     ELSE DayOf(SentAt(c)) = DayOf(SentAt(e))

\* The orders a read for command c can return.
Visible(c) ==
  IF commands[c].scope = Alpaca
    THEN {p \in PlaceRequests : p.id = c /\ booked[p] # Never}
    ELSE DayOrders(commands[c].scope, DayOf(SentAt(c)))

-----------------------------------------------------------------------------
(* The batch and the check begin. *)

\* Resolve lists the UNKNOWN rows; rows that no read can answer stay UNKNOWN.
Snapshot(b) ==
  /\ resolver[b].pc = "idle"
  /\ LET items == {c \in Pending(Scopes) : Readable(c)}
     IN /\ items # {}
        /\ resolver' = [resolver EXCEPT ![b] = [Resting EXCEPT !.pc = "work", !.work = items]]
  /\ UNCHANGED <<told, storeVars, brokerVars, resolverFrame>>

\* ResolveOne finds a conclusive receipt: evidence is not needed.
CheckReplay(k, c) ==
  /\ resolver[k].pc = "idle"
  /\ Stored(c)
  /\ Conclusive(Effective(c))
  /\ Tell(c, Effective(c))
  /\ UNCHANGED <<resolver, storeVars, brokerVars, resolverFrame>>

\* ResolveOne finds the command still UNKNOWN.
CheckOne(k, c) ==
  /\ resolver[k].pc = "idle"
  /\ c \in Pending(Scopes)
  /\ Readable(c)
  /\ resolver' = [resolver EXCEPT ![k] = [Resting EXCEPT !.pc = "work", !.work = {c}]]
  /\ UNCHANGED <<told, storeVars, brokerVars, resolverFrame>>

-----------------------------------------------------------------------------
(* One read at a time: KIS days first, then Alpaca orders. *)

BeginRead(r, c) ==
  /\ resolver[r].pc = "work"
  /\ c \in resolver[r].work
  /\ commands[c].scope = Alpaca =>
       \A e \in resolver[r].work : commands[e].scope = Alpaca
  /\ resolver' = [resolver EXCEPT ![r].pc = "read", ![r].readAt = now,
                    ![r].group = {e \in resolver[r].work : SameRead(c, e)}]
  /\ UNCHANGED <<told, storeVars, brokerVars, resolverFrame>>

\* The pages of a read arrive over a span of time: it returns every order that
\* was settled when it began, and any of the younger ones.
EndRead(r, orders) ==
  /\ resolver[r].pc = "read"
  /\ \E c \in resolver[r].group :
       /\ orders \subseteq Visible(c)
       /\ Visible(c) \intersect SettledBy(resolver[r].readAt) \subseteq orders
  /\ resolver' = [resolver EXCEPT ![r].pc = "conclude", ![r].evidence = orders]
  /\ UNCHANGED <<told, storeVars, brokerVars, resolverFrame>>

\* The read failed: the items of the day remain UNKNOWN.
ReadFails(r) ==
  /\ resolver[r].pc = "read"
  /\ Proceed(r, resolver[r].group)
  /\ UNCHANGED <<told, storeVars, brokerVars, resolverFrame>>

-----------------------------------------------------------------------------
(* Conclusions, one item at a time; now() is read when the item is handled. *)

\* The conclusion the evidence in hand allows for c: one match accepts it, none
\* after the grace period proves it absent.
Conclusion(r, c) ==
  LET orders == resolver[r].evidence
      found  == Matches(c, orders)
  IN {[disposition |-> "ACCEPTED", oid |-> p] : p \in {q \in found : found = {q}}}
     \union (IF AbsentProven(c, orders)
               THEN {[disposition |-> "NOT_CREATED", oid |-> NoOrder]} ELSE {})

Handles(r, c) == resolver[r].pc = "conclude" /\ c \in resolver[r].group

\* ResolveUnknown appends the conclusion, and Find reads the receipt back.
Conclude(r, c) ==
  /\ Handles(r, c)
  /\ \E conclusion \in Conclusion(r, c) : ResolveUnknown(c, conclusion)
  /\ Tell(c, Effective(c)')
  /\ Proceed(r, {c})
  /\ UNCHANGED <<brokerVars, resolverFrame>>

\* The domestic history keeps an order that moved to the next page twice: two
\* matches, which are as good as none.
Repeated(r, c) ==
  commands[c].scope = "kis_mock" /\ Matches(c, resolver[r].evidence) # {}

LeaveUnknown(r, c) ==
  /\ Handles(r, c)
  /\ Conclusion(r, c) = {} \/ Repeated(r, c)
  /\ Proceed(r, {c})
  /\ UNCHANGED <<told, storeVars, brokerVars, resolverFrame>>

\* A store error ends the whole run, whether or not its insert was committed.
ResolveError(r, c) ==
  /\ Handles(r, c)
  /\ \/ \E conclusion \in Conclusion(r, c) : ResolveUnknown(c, conclusion)
     \/ UNCHANGED storeVars
  /\ Conclusion(r, c) # {}
  /\ resolver' = [resolver EXCEPT ![r] = Resting]
  /\ UNCHANGED <<told, brokerVars, resolverFrame>>

\* The resolve process dies, or a check dies with the daemon.
KillResolvers(S) == resolver' = [r \in Resolvers |-> IF r \in S THEN Resting ELSE resolver[r]]

ResolveStep(r) ==
  \/ \E c \in Commands : \/ BeginRead(r, c) \/ Conclude(r, c)
                         \/ LeaveUnknown(r, c) \/ ResolveError(r, c)
  \/ \E orders \in SUBSET Placements : EndRead(r, orders)
  \/ ReadFails(r)
=============================================================================
