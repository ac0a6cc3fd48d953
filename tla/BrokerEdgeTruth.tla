---------------------------- MODULE BrokerEdgeTruth ----------------------------
(***************************************************************************)
(* The conclusions of BrokerEdge are true: an accepted command names its    *)
(* own order, an absent one has none and never will, whoever was told so    *)
(* was told what the store stands by, and the whole edge keeps the promise  *)
(* of CommandLedger.  These rest on assumptions about time, sessions and    *)
(* the orders of others; each theorem names the ones it needs, for all      *)
(* accounts or for the one it is about.                                     *)
(***************************************************************************)
EXTENDS BrokerEdgeSafety

-----------------------------------------------------------------------------
(* The inductive invariants. *)

\* The row says that something was, or was about to be, sent.
Open(c) == commands[c].disposition \in {"UNKNOWN", "ACCEPTED"}

\* What an earlier release left is not touched, and its commands are not sent.
LegacyKept ==
  \A l \in LegacyPlacements :
    /\ commands[l.id].disposition = "UNKNOWN"
    /\ commands[l.id].scope = l.scope
    /\ contexts[l.id] \in LegacyContext(l)
    /\ booked[l] \in {Never, 0}
    /\ \A d \in PlaceRequests : d.id = l.id => ~Owner(d) /\ posted[d] = Never

\* Every other open row holds what one of the deliveries of its command asked
\* for, and an ACCEPTED row the order of such a delivery.
RowsFromDeliveries ==
  \A c \in Commands :
    /\ Open(c) /\ LegacyOf(c) = {} =>
         \E d \in PlaceRequests :
           d.id = c /\ commands[c].scope = d.scope /\ contexts[c].facts = d.facts
    /\ commands[c].disposition = "ACCEPTED" =>
         \E d \in PlaceRequests : d.id = c /\ commands[c].oid = d /\ booked[d] # Never

\* A POST leaves within Lag of the stamp that is stored.
PostsInTime ==
  \A d \in PlaceRequests :
    /\ At(d, "reserve") \/ At(d, "send") => now <= place[d].sentAt + Lag
    /\ At(d, "send") => contexts[d.id].sentAt = place[d].sentAt
    /\ posted[d] # Never => posted[d] <= now /\ posted[d] <= contexts[d.id].sentAt + Lag

\* A POST that left has its effect within Delay, during a session, and nobody
\* takes note of an order number before the order exists.
OrdersInTime ==
  /\ \A d \in PlaceRequests :
       /\ d \in wire =>
            posted[d] # Never /\ booked[d] = Never /\ now <= posted[d] + Delay
       /\ booked[d] # Never =>
            /\ posted[d] # Never
            /\ posted[d] <= booked[d] /\ booked[d] <= posted[d] + Delay
            /\ booked[d] \in Session[d.scope]
       /\ place[d].oid # NoOrder => place[d].oid = d /\ booked[d] # Never
  /\ \A p \in Placements : booked[p] <= now

\* The invariant of rows, POSTs and orders.
SendInv == LegacyKept /\ RowsFromDeliveries /\ PostsInTime /\ OrdersInTime

\* What resolver r works on can be resolved; the evidence in its hand is young,
\* and answers for all commands it was read for: it has only orders that their
\* reads could return, and all of those that were settled when it began.
EvidenceSound(r) ==
  /\ resolver[r].group \subseteq resolver[r].work
  /\ \A c \in resolver[r].work : Open(c) /\ Readable(c)
  /\ resolver[r].pc \in {"read", "conclude"} =>
       /\ resolver[r].readAt <= now /\ now <= resolver[r].readAt + ReadSpan
       /\ \A c, e \in resolver[r].group : SameRead(c, e)
  /\ resolver[r].pc = "conclude" => \A c \in resolver[r].group :
       /\ resolver[r].evidence \subseteq Visible(c)
       /\ \A p \in Visible(c) :
            booked[p] + Settle <= resolver[r].readAt /\ booked[p] < resolver[r].readAt
              => p \in resolver[r].evidence

\* The invariant of the resolvers.
ReadInv == \A r \in Resolvers : EvidenceSound(r)

\* Only a conclusion is ever appended, and only to an open row.
ResolutionInv ==
  \A c \in Commands :
    resolutions[c] # NoResolution => Conclusive(resolutions[c]) /\ Open(c)

-----------------------------------------------------------------------------
(* What one step can do to a row, a delivery, a POST, an order. *)

\* A row is inserted, with its context or as a refusal, or its owner finalizes it.
RowStep(c) ==
  \/ commands'[c] = commands[c] /\ contexts'[c] = contexts[c]
  \/ ~Stored(c) /\ commands'[c].disposition = "NOT_CREATED"
  \/ /\ ~Stored(c)
     /\ \E d \in PlaceRequests :
          /\ d.id = c /\ At(d, "reserve")
          /\ commands'[c].disposition = "UNKNOWN" /\ commands'[c].scope = d.scope
          /\ contexts'[c].facts = d.facts
  \/ /\ commands[c].phase = "pending"
     /\ \E d \in PlaceRequests :
          /\ d.id = c /\ At(d, "finalize")
          /\ commands'[c].disposition = FinalReceipt(d).disposition
          /\ commands'[c].oid = FinalReceipt(d).oid
          /\ commands'[c].scope = commands[c].scope /\ contexts'[c] = contexts[c]

\* A delivery is stamped, reserves its receipt, learns its order number, or does
\* nothing that concerns its stamp, receipt and order.
DeliveryStep(d) ==
  \/ place'[d] = place[d]
  \/ /\ place'[d].pc \notin {"reserve", "send"} /\ (Owner(d)' => Owner(d))
     /\ place'[d].oid \in {NoOrder, place[d].oid}
  \/ /\ At(d, "reserve")' /\ place'[d].sentAt = now /\ UNCHANGED now
     /\ place'[d].oid = place[d].oid
  \/ /\ At(d, "reserve") /\ ~Stored(d.id) /\ At(d, "send")' /\ UNCHANGED now
     /\ place'[d].sentAt = place[d].sentAt /\ contexts'[d.id].sentAt = place[d].sentAt
     /\ place'[d].oid = place[d].oid
  \/ /\ At(d, "sending") /\ At(d, "finalize")'
     /\ place'[d].oid = d /\ booked[d] # Never

\* A POST leaves once its delivery is about to send.
PostStep(d) ==
  \/ posted'[d] = posted[d] /\ (d \in wire' => d \in wire)
  \/ At(d, "send") /\ posted'[d] = now /\ UNCHANGED <<now, booked>>

\* An order enters the book from the wire, or from somebody else.
BookStep(p) ==
  \/ booked'[p] = booked[p]
  \/ /\ booked'[p] = now /\ UNCHANGED <<now, place>>
     /\ \/ p \in wire \ wire' /\ p \in PlaceRequests /\ now \in Session[p.scope]
        \/ p \in ForeignOrders /\ booked[p] = Never

\* Time stands still, or passes within the bounds.
ClockStep == UNCHANGED now \/ Tick

\* All of it.
StepBounds ==
  /\ \A c \in Commands : RowStep(c)
  /\ \A d \in PlaceRequests : DeliveryStep(d) /\ PostStep(d)
  /\ \A p \in Placements : BookStep(p)
  /\ ClockStep

\* A step of a placement keeps to this.
LEMMA PlaceBounds ==
  ASSUME TypeOK, PlacementInv, NEW d \in PlaceRequests, PlaceStep(d)
  PROVE  StepBounds
<1> USE DEF storeVars, brokerVars
<1>1. /\ d.id \in Commands /\ place[d] \in PlaceState
      /\ place \in [PlaceRequests -> PlaceState]
      /\ commands \in [Commands -> Row] /\ contexts \in [Commands -> Context]
      /\ posted \in [PlaceRequests -> Time]
  BY PlacementFacts DEF TypeOK, ProcessTypeOK, StoreTypeOK
<1>2. UNCHANGED <<now, booked>>
  BY PlaceKeeps
<1>3. ASSUME UNCHANGED <<commands, contexts, posted, wire>>, DeliveryStep(d),
             \A e \in PlaceRequests : e # d => place'[e] = place[e]
      PROVE  StepBounds
  BY <1>2, <1>3 DEF StepBounds, RowStep, DeliveryStep, PostStep, BookStep, ClockStep
<1>4. ASSUME NEW c \in Commands, c = d.id, RowStep(c), DeliveryStep(d), UNCHANGED <<posted, wire>>,
             \A e \in Commands : e # c => commands'[e] = commands[e] /\ contexts'[e] = contexts[e],
             \A e \in PlaceRequests : e # d => place'[e] = place[e]
      PROVE  StepBounds
  BY <1>2, <1>4 DEF StepBounds, RowStep, DeliveryStep, PostStep, BookStep, ClockStep
<1>5. ASSUME NEW s, place' = [place EXCEPT ![d] = s]
      PROVE  place'[d] = s /\ \A e \in PlaceRequests : e # d => place'[e] = place[e]
  BY <1>1, <1>5
<1>6. PlaceDone.pc = "done" /\ PlaceDone.oid = NoOrder
  BY DEF PlaceDone
<1>7. ASSUME place' = [place EXCEPT ![d] = PlaceDone]
      PROVE  DeliveryStep(d) /\ \A e \in PlaceRequests : e # d => place'[e] = place[e]
  BY <1>5, <1>6, <1>7 DEF DeliveryStep, Owner
<1>8. ASSUME NEW pc \in {"validate", "reread", "finalize", "sending"}, Goto(d, pc),
             pc \in {"finalize", "sending"} => Owner(d)
      PROVE  DeliveryStep(d) /\ \A e \in PlaceRequests : e # d => place'[e] = place[e]
  <2>1. place'[d] = [place[d] EXCEPT !.pc = pc] /\ \A e \in PlaceRequests : e # d => place'[e] = place[e]
    BY <1>1, <1>8 DEF Goto
  <2>2. place'[d].pc = pc /\ place'[d].oid = place[d].oid
    BY <1>1, <2>1 DEF PlaceState
  <2>3. QED
    BY <1>8, <2>1, <2>2 DEF DeliveryStep, Owner
<1>9. CASE Replay(d) \/ Reread(d) \/ StoreError(d)
  BY <1>3, <1>7, <1>9 DEF Replay, Reread, StoreError, Reply
<1>10. CASE NotFound(d) \/ Conflict(d) \/ NotAccepted(d)
  BY <1>3, <1>8, <1>10 DEF NotFound, Conflict, NotAccepted, Owner
<1>11. ASSUME InsertFinal(d.id), place' = [place EXCEPT ![d] = PlaceDone], UNCHANGED <<posted, wire>>
       PROVE  StepBounds
  <2>1. /\ ~Stored(d.id) /\ commands'[d.id].disposition = "NOT_CREATED"
        /\ \A e \in Commands : e # d.id => commands'[e] = commands[e]
        /\ UNCHANGED contexts
    BY <1>1, <1>11 DEF InsertFinal
  <2>2. RowStep(d.id)
    BY <2>1 DEF RowStep
  <2>3. QED
    BY <1>1, <1>4, <1>7, <1>11, <2>1, <2>2
<1>12. ASSUME At(d, "reserve"), InsertPending(d, place[d].sentAt), DeliveryStep(d),
              \A e \in PlaceRequests : e # d => place'[e] = place[e], UNCHANGED <<posted, wire>>
       PROVE  StepBounds
  <2>1. /\ ~Stored(d.id)
        /\ commands'[d.id].disposition = "UNKNOWN" /\ commands'[d.id].scope = d.scope
        /\ contexts'[d.id].facts = d.facts
        /\ \A e \in Commands : e # d.id => commands'[e] = commands[e] /\ contexts'[e] = contexts[e]
    BY <1>1, <1>12 DEF InsertPending
  <2>2. RowStep(d.id)
    BY <1>12, <2>1 DEF RowStep
  <2>3. QED
    BY <1>1, <1>4, <1>12, <2>1, <2>2
<1>13. ASSUME At(d, "finalize"), FinalizeRow(d.id, FinalReceipt(d)),
              place' = [place EXCEPT ![d] = PlaceDone], UNCHANGED <<posted, wire>>
       PROVE  StepBounds
  <2>1. /\ commands[d.id].phase = "pending"
        /\ commands'[d.id].disposition = FinalReceipt(d).disposition
        /\ commands'[d.id].oid = FinalReceipt(d).oid
        /\ commands'[d.id].scope = commands[d.id].scope
        /\ \A e \in Commands : e # d.id => commands'[e] = commands[e]
        /\ UNCHANGED contexts
    BY <1>1, <1>13 DEF FinalizeRow, Row
  <2>2. RowStep(d.id)
    BY <1>13, <2>1 DEF RowStep
  <2>3. QED
    BY <1>1, <1>4, <1>7, <1>13, <2>1, <2>2
<1>14. CASE Refuse(d)
  BY <1>11, <1>14 DEF Refuse, Reply
<1>15. CASE Prepare(d)
  <2>1. /\ \A e \in PlaceRequests : e # d => place'[e] = place[e]
        /\ place'[d].pc = "reserve" /\ place'[d].sentAt = now /\ place'[d].oid = place[d].oid
    BY <1>1, <1>15 DEF Prepare, PlaceState
  <2>2. DeliveryStep(d)
    BY <1>2, <2>1 DEF DeliveryStep, At
  <2>3. QED
    BY <1>3, <1>15, <2>1, <2>2 DEF Prepare
<1>16. CASE Reserve(d)
  <2>1. /\ \A e \in PlaceRequests : e # d => place'[e] = place[e]
        /\ place'[d].pc = "send" /\ place'[d].sentAt = place[d].sentAt /\ place'[d].oid = place[d].oid
    BY <1>1, <1>16 DEF Reserve, Goto, PlaceState
  <2>2. ~Stored(d.id) /\ contexts'[d.id].sentAt = place[d].sentAt
    BY <1>1, <1>16 DEF Reserve, InsertPending
  <2>3. DeliveryStep(d)
    BY <1>2, <1>16, <2>1, <2>2 DEF DeliveryStep, At, Reserve
  <2>4. QED
    BY <1>12, <1>16, <2>1, <2>3 DEF Reserve
<1>17. CASE Send(d)
  <2>1. DeliveryStep(d) /\ \A e \in PlaceRequests : e # d => place'[e] = place[e]
    BY <1>8, <1>17 DEF Send, Owner, At
  <2>2. \A e \in PlaceRequests : PostStep(e)
    BY <1>1, <1>2, <1>17 DEF Send, PostStep
  <2>3. UNCHANGED <<commands, contexts>>
    BY <1>17 DEF Send
  <2>4. QED
    BY <1>2, <2>1, <2>2, <2>3 DEF StepBounds, RowStep, DeliveryStep, BookStep, ClockStep
<1>18. CASE Accepted(d)
  <2>1. /\ \A e \in PlaceRequests : e # d => place'[e] = place[e]
        /\ place'[d].pc = "finalize" /\ place'[d].oid = d
    BY <1>1, <1>18 DEF Accepted, PlaceState
  <2>2. DeliveryStep(d)
    BY <1>18, <2>1 DEF DeliveryStep, At, Accepted
  <2>3. QED
    BY <1>3, <1>18, <2>1, <2>2 DEF Accepted
<1>19. CASE Finalize(d)
  <2>1. commands[d.id].phase = "pending"
    BY <1>19 DEF Finalize, PlacementInv, Owner, At
  <2>2. QED
    BY <1>13, <1>19, <2>1 DEF Finalize, Reply
<1>20. CASE CommitUnreported(d)
  BY <1>7, <1>11, <1>12, <1>13, <1>20 DEF CommitUnreported
<1>21. QED
  BY <1>9, <1>10, <1>14, <1>15, <1>16, <1>17, <1>18, <1>19, <1>20 DEF PlaceStep

\* Every step keeps to these bounds.
LEMMA StepsBounded ==
  ASSUME TypeOK, PlacementInv, SendInv, [Next]_vars
  PROVE  StepBounds
<1> USE DEF storeVars, processVars, brokerVars
<1>1. ASSUME UNCHANGED <<commands, contexts, place, posted, wire, booked, now>>
      PROVE  StepBounds
  BY <1>1 DEF StepBounds, RowStep, DeliveryStep, PostStep, BookStep, ClockStep
<1>2. CASE \E d \in PlaceRequests : PlaceStep(d)
  BY <1>2, PlaceBounds
<1>3. CASE (\E x \in CancelRequests : CancelStep(x)) \/ ResolverMoves \/ UNCHANGED vars
  BY <1>1, <1>3, CancelKeeps, ResolverKeeps DEF vars
<1>4. CASE BrokerStep
  <2>1. UNCHANGED <<commands, contexts, place, posted, now>>
    BY <1>4, WorldKeeps
  <2>2. wire' \subseteq wire
    BY <1>4 DEF BrokerStep, Book, Drop, BookForeign, Close
  <2>3. \A p \in Placements : BookStep(p)
    <3>1. booked \in [Placements -> Time]
      BY DEF TypeOK
    <3>2. ASSUME NEW d \in PlaceRequests, Book(d)
          PROVE  \A p \in Placements : BookStep(p)
      BY <2>1, <3>1, <3>2 DEF Book, BookStep
    <3>3. ASSUME NEW f \in ForeignOrders, BookForeign(f)
          PROVE  \A p \in Placements : BookStep(p)
      BY <2>1, <3>1, <3>3 DEF BookForeign, BookStep
    <3>4. ASSUME UNCHANGED booked
          PROVE  \A p \in Placements : BookStep(p)
      BY <3>4 DEF BookStep
    <3>5. QED
      BY <1>4, <3>2, <3>3, <3>4 DEF BrokerStep, Drop, Close
  <2>4. QED
    BY <2>1, <2>2, <2>3 DEF StepBounds, RowStep, DeliveryStep, PostStep, ClockStep
<1>5. CASE Tick
  BY <1>5 DEF Tick, edgeVars, StepBounds, RowStep, DeliveryStep, PostStep, BookStep, ClockStep
<1>6. CASE Crash
  <2>1. UNCHANGED <<commands, contexts, posted, wire, booked, now>>
    BY <1>6, WorldKeeps
  <2>2. \A d \in PlaceRequests : DeliveryStep(d)
    BY <1>6 DEF Crash, KillPlacements, DeliveryStep, Owner, PlaceIdle, PlaceDone
  <2>3. QED
    BY <2>1, <2>2 DEF StepBounds, RowStep, PostStep, BookStep, ClockStep
<1>7. QED
  BY <1>2, <1>3, <1>4, <1>5, <1>6, StepKinds

-----------------------------------------------------------------------------
(* Rows, POSTs and orders, whoever steps. *)

\* A stored row keeps its account and its context for good, and stays open or
\* refused, as it was inserted.
LEMMA RowsKept ==
  ASSUME TypeOK, PlacementInv, StepBounds, NEW c \in Commands, Stored(c)
  PROVE  /\ commands'[c].scope = commands[c].scope
         /\ contexts'[c] = contexts[c]
         /\ Open(c)' <=> Open(c)
<1>1. RowStep(c)
  BY DEF StepBounds
<1>2. commands[c].phase = "pending" => commands[c].disposition = "UNKNOWN"
  BY DEF PlacementInv
<1>3. \A d \in PlaceRequests : FinalReceipt(d).disposition \in {"UNKNOWN", "ACCEPTED"}
  BY DEF FinalReceipt
<1>4. QED
  BY <1>1, <1>2, <1>3 DEF RowStep, Open

\* An owner's receipt, one that something was sent for, and one of an earlier
\* release are stored and open.
LEMMA SentIsOpen ==
  ASSUME TypeOK, PlacementInv, LegacyKept
  PROVE  /\ \A d \in PlaceRequests : Owner(d) \/ posted[d] # Never =>
              d.id \in Commands /\ Stored(d.id) /\ Open(d.id)
         /\ \A l \in LegacyPlacements : l.id \in Commands /\ Stored(l.id) /\ Open(l.id)
  BY PlacementFacts, RequestAssumption DEF PlacementInv, WriteAhead, LegacyKept, Open, Stored, NoRow

\* The three kinds of orders are apart.
LEMMA KindsOfOrders ==
  /\ \A l \in LegacyPlacements : l \notin PlaceRequests /\ l \notin ForeignOrders
  /\ \A d \in PlaceRequests : d \notin ForeignOrders
  /\ \A f \in ForeignOrders : f.id \notin Commands
  BY RequestAssumption

\* Nobody owns, sends or books for a command of an earlier release.
LEMMA LegacyStep ==
  ASSUME TypeOK, PlacementInv, SendInv, StepBounds
  PROVE  LegacyKept'
<1> SUFFICES ASSUME NEW l \in LegacyPlacements
             PROVE  /\ commands'[l.id].disposition = "UNKNOWN"
                    /\ commands'[l.id].scope = l.scope
                    /\ contexts'[l.id] \in LegacyContext(l)
                    /\ booked'[l] \in {Never, 0}
                    /\ \A d \in PlaceRequests : d.id = l.id => ~Owner(d)' /\ posted'[d] = Never
  BY DEF LegacyKept
<1>1. /\ commands[l.id].disposition = "UNKNOWN" /\ commands[l.id].scope = l.scope
      /\ contexts[l.id] \in LegacyContext(l) /\ booked[l] \in {Never, 0}
      /\ \A d \in PlaceRequests : d.id = l.id => ~Owner(d) /\ posted[d] = Never
  BY DEF SendInv, LegacyKept
<1>2. l.id \in Commands /\ Stored(l.id) /\ l \in Placements
  BY SentIsOpen DEF SendInv, Placements
<1>3. RowStep(l.id) /\ BookStep(l)
  BY <1>2 DEF StepBounds
<1>4. commands'[l.id] = commands[l.id] /\ contexts'[l.id] = contexts[l.id]
  BY <1>1, <1>2, <1>3 DEF RowStep, Owner, At
<1>5. booked'[l] = booked[l]
  BY <1>3, KindsOfOrders DEF BookStep
<1>6. ASSUME NEW d \in PlaceRequests, d.id = l.id
      PROVE  ~Owner(d)' /\ posted'[d] = Never
  <2>1. ~Owner(d) /\ posted[d] = Never
    BY <1>1, <1>6
  <2>2. DeliveryStep(d) /\ PostStep(d)
    BY DEF StepBounds
  <2>3. QED
    BY <1>2, <1>6, <2>1, <2>2 DEF DeliveryStep, PostStep, Owner, At
<1>7. QED
  BY <1>1, <1>4, <1>5, <1>6

\* Rows keep what they were inserted with, and only an owner that learned its
\* order number accepts.
LEMMA RowsStep ==
  ASSUME TypeOK, PlacementInv, SendInv, StepBounds
  PROVE  RowsFromDeliveries'
<1>1. ASSUME NEW d \in PlaceRequests, booked[d] # Never
      PROVE  booked'[d] # Never
  <2>1. BookStep(d) /\ now \in Nat
    BY PlacementFacts DEF StepBounds, TypeOK
  <2>2. QED
    BY <1>1, <2>1 DEF BookStep, Never
<1>2. ASSUME NEW c \in Commands, Open(c)', LegacyOf(c) = {}
      PROVE  \E d \in PlaceRequests :
               d.id = c /\ commands'[c].scope = d.scope /\ contexts'[c].facts = d.facts
  <2>1. CASE Stored(c)
    <3>1. Open(c) /\ commands'[c].scope = commands[c].scope /\ contexts'[c] = contexts[c]
      BY <1>2, <2>1, RowsKept
    <3>2. QED
      BY <1>2, <3>1 DEF SendInv, RowsFromDeliveries
  <2>2. CASE ~Stored(c)
    <3>1. RowStep(c) /\ ~Open(c)
      BY <2>2 DEF StepBounds, Stored, NoRow, Open
    <3>2. commands[c].phase # "pending"
      BY <2>2 DEF Stored, NoRow
    <3>3. QED
      BY <1>2, <3>1, <3>2 DEF RowStep, Open
  <2>3. QED
    BY <2>1, <2>2
<1>3. ASSUME NEW c \in Commands, commands'[c].disposition = "ACCEPTED"
      PROVE  \E d \in PlaceRequests : d.id = c /\ commands'[c].oid = d /\ booked'[d] # Never
  <2>1. RowStep(c)
    BY DEF StepBounds
  <2>2. CASE commands'[c] = commands[c]
    BY <1>1, <1>3, <2>2 DEF SendInv, RowsFromDeliveries
  <2>3. CASE commands'[c] # commands[c]
    <3>1. PICK d \in PlaceRequests :
            /\ d.id = c /\ FinalReceipt(d).disposition = "ACCEPTED"
            /\ commands'[c].oid = FinalReceipt(d).oid
      BY <1>3, <2>1, <2>3 DEF RowStep
    <3>2. place[d].oid # NoOrder /\ FinalReceipt(d).oid = place[d].oid
      BY <3>1 DEF FinalReceipt
    <3>3. place[d].oid = d /\ booked[d] # Never
      BY <3>2 DEF SendInv, OrdersInTime
    <3>4. QED
      BY <1>1, <3>1, <3>2, <3>3
  <2>4. QED
    BY <2>2, <2>3
<1>4. QED
  BY <1>2, <1>3 DEF RowsFromDeliveries, LegacyOf

\* The clock does not pass the bounds of a POST that has not left, nor its stamp
\* the clock.
LEMMA PostsStep ==
  ASSUME TypeOK, PlacementInv, SendInv, StepBounds
  PROVE  PostsInTime'
<1> SUFFICES ASSUME NEW d \in PlaceRequests
             PROVE  /\ At(d, "reserve")' \/ At(d, "send")' => now' <= place'[d].sentAt + Lag
                    /\ At(d, "send")' => contexts'[d.id].sentAt = place'[d].sentAt
                    /\ posted'[d] # Never =>
                         posted'[d] <= now' /\ posted'[d] <= contexts'[d.id].sentAt + Lag
  BY DEF PostsInTime
<1>1. /\ now \in Nat /\ Lag \in Nat /\ place[d].sentAt \in Nat /\ posted[d] \in Time
      /\ d.id \in Commands /\ contexts[d.id].sentAt \in Nat
  BY PlacementFacts, LagAssumption
     DEF TypeOK, ProcessTypeOK, PlaceState, StoreTypeOK, Context
<1>2. DeliveryStep(d) /\ PostStep(d) /\ ClockStep
  BY DEF StepBounds
<1>3. /\ At(d, "reserve") \/ At(d, "send") => now <= place[d].sentAt + Lag
      /\ At(d, "send") => contexts[d.id].sentAt = place[d].sentAt
      /\ posted[d] # Never => posted[d] <= now /\ posted[d] <= contexts[d.id].sentAt + Lag
  BY DEF SendInv, PostsInTime
<1>4. Owner(d) \/ posted[d] # Never => contexts'[d.id] = contexts[d.id]
  BY <1>1, SentIsOpen, RowsKept DEF SendInv
<1>5. CASE UNCHANGED now
  <2>1. At(d, "reserve")' \/ At(d, "send")' => now <= place'[d].sentAt + Lag
    BY <1>1, <1>2, <1>3 DEF DeliveryStep, At
  <2>2. At(d, "send")' => contexts'[d.id].sentAt = place'[d].sentAt
    BY <1>2, <1>3, <1>4 DEF DeliveryStep, At, Owner
  <2>3. posted'[d] # Never => posted'[d] <= now /\ posted'[d] <= contexts'[d.id].sentAt + Lag
    <3>1. CASE posted'[d] = posted[d]
      BY <1>3, <1>4, <3>1
    <3>2. CASE At(d, "send") /\ posted'[d] = now
      BY <1>1, <1>3, <1>4, <3>2 DEF At, Owner
    <3>3. QED
      BY <1>2, <3>1, <3>2 DEF PostStep
  <2>4. QED
    BY <1>5, <2>1, <2>2, <2>3
<1>6. CASE Tick
  <2>1. /\ UNCHANGED <<place, contexts, posted>> /\ now' = now + 1
        /\ At(d, "reserve") \/ At(d, "send") => now < place[d].sentAt + Lag
    BY <1>6, WorldKeeps DEF Tick, At
  <2>2. At(d, "reserve")' \/ At(d, "send")' => now' <= place'[d].sentAt + Lag
    BY <1>1, <2>1 DEF At
  <2>3. At(d, "send")' => contexts'[d.id].sentAt = place'[d].sentAt
    BY <1>3, <2>1 DEF At
  <2>4. posted'[d] # Never => posted'[d] <= now' /\ posted'[d] <= contexts'[d.id].sentAt + Lag
    BY <1>1, <1>3, <2>1 DEF Time, Never
  <2>5. QED
    BY <2>2, <2>3, <2>4
<1>7. QED
  BY <1>2, <1>5, <1>6 DEF ClockStep

\* A POST on the wire is of an order that is not in the book yet; the clock does
\* not pass its Delay.
LEMMA OrdersStep ==
  ASSUME TypeOK, PlacementInv, SendInv, StepBounds
  PROVE  OrdersInTime'
<1>1. now \in Nat /\ Delay \in Nat /\ (UNCHANGED now \/ now' = now + 1)
  BY BrokerAssumption DEF TypeOK, StepBounds, ClockStep, Tick
<1>2. ASSUME NEW d \in PlaceRequests
      PROVE  /\ d \in wire' =>
                  posted'[d] # Never /\ booked'[d] = Never /\ now' <= posted'[d] + Delay
             /\ booked'[d] # Never =>
                  /\ posted'[d] # Never
                  /\ posted'[d] <= booked'[d] /\ booked'[d] <= posted'[d] + Delay
                  /\ booked'[d] \in Session[d.scope]
             /\ place'[d].oid # NoOrder => place'[d].oid = d /\ booked'[d] # Never
  <2>1. posted[d] \in Time /\ booked[d] \in Time /\ d \in Placements /\ d \notin ForeignOrders
    BY PlacementFacts, KindsOfOrders DEF TypeOK
  <2>2. DeliveryStep(d) /\ PostStep(d) /\ BookStep(d) /\ ClockStep
    BY <2>1 DEF StepBounds
  <2>3. /\ d \in wire => posted[d] # Never /\ booked[d] = Never /\ now <= posted[d] + Delay
        /\ booked[d] # Never =>
             /\ posted[d] # Never
             /\ posted[d] <= booked[d] /\ booked[d] <= posted[d] + Delay
             /\ booked[d] \in Session[d.scope]
        /\ place[d].oid # NoOrder => place[d].oid = d /\ booked[d] # Never
    BY DEF SendInv, OrdersInTime
  <2>4. At(d, "send") => posted[d] = Never /\ booked[d] = Never /\ d \notin wire
    BY <2>3 DEF PlacementInv, Owner, At
  <2>5. posted[d] # Never => posted[d] <= now
    BY DEF SendInv, PostsInTime
  <2>6. CASE At(d, "send") /\ posted'[d] = now /\ UNCHANGED <<now, booked>>
    <3>1. booked'[d] = Never /\ posted'[d] # Never /\ now' <= posted'[d] + Delay
      BY <1>1, <2>4, <2>6 DEF Never
    <3>2. place'[d].oid = NoOrder
      <4>1. place[d].oid = NoOrder
        BY <2>3, <2>4, <2>6
      <4>2. QED
        BY <2>2, <2>6, <4>1 DEF DeliveryStep, At
    <3>3. QED
      BY <3>1, <3>2
  <2>7. CASE posted'[d] = posted[d] /\ (d \in wire' => d \in wire)
    <3>1. CASE booked'[d] = booked[d]
      <4>1. d \in wire' => now' <= posted'[d] + Delay
        <5>1. CASE UNCHANGED now
          BY <2>3, <2>7, <5>1
        <5>2. CASE Tick
          <6>1. wire' = wire /\ now' = now + 1 /\ (d \in wire => now < posted[d] + Delay)
            BY <5>2 DEF Tick
          <6>2. QED
            BY <1>1, <2>1, <2>3, <2>7, <6>1 DEF Time, Never
        <5>3. QED
          BY <2>2, <5>1, <5>2 DEF ClockStep
      <4>2. place'[d].oid # NoOrder => place'[d].oid = d /\ booked[d] # Never
        BY <2>2, <2>3 DEF DeliveryStep
      <4>3. QED
        BY <2>3, <2>7, <3>1, <4>1, <4>2
    <3>2. CASE booked'[d] # booked[d]
      <4>1. /\ booked'[d] = now /\ UNCHANGED <<now, place>>
            /\ d \in wire \ wire' /\ now \in Session[d.scope]
        BY <2>1, <2>2, <3>2 DEF BookStep
      <4>2. booked'[d] # Never
        BY <1>1, <4>1 DEF Never
      <4>3. posted'[d] <= booked'[d] /\ booked'[d] <= posted'[d] + Delay
        BY <2>3, <2>5, <2>7, <4>1
      <4>4. QED
        BY <2>3, <2>7, <4>1, <4>2, <4>3
    <3>3. QED
      BY <3>1, <3>2
  <2>8. QED
    BY <2>2, <2>6, <2>7 DEF PostStep
<1>3. ASSUME NEW p \in Placements
      PROVE  booked'[p] <= now'
  <2>1. booked[p] \in Time /\ booked[p] <= now /\ BookStep(p)
    BY DEF TypeOK, SendInv, OrdersInTime, StepBounds
  <2>2. QED
    BY <1>1, <2>1 DEF BookStep, Time, Never
<1>4. QED
  BY <1>2, <1>3 DEF OrdersInTime

\* The invariant holds at first: earlier releases left UNKNOWN rows, and perhaps
\* orders, and no delivery has begun.
LEMMA SendInit == Init => SendInv
<1> SUFFICES ASSUME Init PROVE SendInv
  OBVIOUS
<1>1. \A d \in PlaceRequests :
        place[d].pc = "idle" /\ place[d].oid = NoOrder /\ posted[d] = Never
  BY DEF Init, ProcessInit, PlaceIdle, BrokerInit
<1>2. wire = {} /\ now = 0 /\ booked \in [Placements -> {Never, 0}]
      /\ \A d \in PlaceRequests : booked[d] = Never
  BY KindsOfOrders, PlacementFacts DEF Init, BrokerInit
<1>3. ASSUME NEW l \in LegacyPlacements
      PROVE  /\ commands[l.id].disposition = "UNKNOWN"
             /\ commands[l.id].scope = l.scope
             /\ contexts[l.id] \in LegacyContext(l)
  <2>1. l.id \in Commands /\ LegacyOf(l.id) = {l}
    BY RequestAssumption DEF LegacyOf
  <2>2. commands[l.id] \in FirstRows(l.id) /\ contexts[l.id] \in FirstContexts(l.id)
    BY <2>1 DEF Init, StoreInit
  <2>3. commands[l.id] \in LegacyRow(l) /\ contexts[l.id] \in LegacyContext(l)
    BY <2>1, <2>2 DEF FirstRows, FirstContexts
  <2>4. QED
    BY <2>3 DEF LegacyRow
<1>4. LegacyKept
  <2>1. \A l \in LegacyPlacements : booked[l] \in {Never, 0}
    BY <1>2 DEF Placements
  <2>2. QED
    BY <1>1, <1>3, <2>1 DEF LegacyKept, Owner
<1>5. \A c \in Commands : LegacyOf(c) = {} => commands[c].disposition = "none"
  BY DEF Init, StoreInit, FirstRows, NoRow
<1>6. \A c \in Commands : commands[c].disposition # "ACCEPTED"
  BY <1>3, <1>5 DEF LegacyOf
<1>7. RowsFromDeliveries
  BY <1>5, <1>6 DEF RowsFromDeliveries, Open
<1>8. PostsInTime
  BY <1>1 DEF PostsInTime, At
<1>9. OrdersInTime
  BY <1>1, <1>2 DEF OrdersInTime, Never
<1>10. QED
  BY <1>4, <1>7, <1>8, <1>9 DEF SendInv

\* What the rows, POSTs and orders have to do with each other, and when.
LEMMA SendSafe == Spec => [](TypeOK /\ PlacementInv /\ SendInv)
<1>1. TypeOK /\ PlacementInv /\ SendInv /\ [Next]_vars => SendInv'
  BY StepsBounded, LegacyStep, RowsStep, PostsStep, OrdersStep DEF SendInv
<1>2. QED
  BY <1>1, SendInit, PlacementSafe, PTL DEF Spec

-----------------------------------------------------------------------------
(* The evidence in the hand of a resolver. *)

\* An order in the book stays there, and a new one is dated now.
LEMMA OrdersKept ==
  ASSUME TypeOK, SendInv, StepBounds, NEW p \in Placements
  PROVE  /\ booked[p] # Never => booked'[p] = booked[p]
         /\ booked'[p] # booked[p] => booked'[p] = now
<1>1. BookStep(p)
  BY DEF StepBounds
<1>2. p \in PlaceRequests /\ p \in wire => booked[p] = Never
  BY DEF SendInv, OrdersInTime
<1>3. QED
  BY <1>1, <1>2 DEF BookStep

\* Commands of one read see the same orders, and are of one read pairwise.
LEMMA OneReadOneView ==
  ASSUME NEW c \in Commands, NEW e \in Commands, SameRead(c, e)
  PROVE  /\ Visible(c) = Visible(e)
         /\ \A f \in Commands : SameRead(c, f) => SameRead(e, f)
  BY DEF SameRead, Visible

\* What a read for a command can return only grows, by orders of this moment.
LEMMA ViewGrows ==
  ASSUME TypeOK, PlacementInv, SendInv, StepBounds, NEW c \in Commands, Open(c)
  PROVE  /\ Open(c)' /\ (Readable(c) => Readable(c)')
         /\ \A e \in Commands : Open(e) /\ SameRead(c, e) => SameRead(c, e)'
         /\ \A p \in Visible(c) : p \in Visible(c)' /\ booked'[p] = booked[p]
         /\ \A p \in Visible(c)' : p \in Visible(c) \/ booked'[p] = now
<1>1. ASSUME NEW e \in Commands, Open(e)
      PROVE  /\ Open(e)' /\ commands'[e].scope = commands[e].scope /\ contexts'[e] = contexts[e]
             /\ SentAt(e)' = SentAt(e)
  <2>1. Stored(e)
    BY <1>1 DEF Open, Stored, NoRow
  <2>2. QED
    BY <1>1, <2>1, RowsKept DEF SentAt, ContextPresent
<1>2. Readable(c) => Readable(c)'
  BY <1>1 DEF Readable, ContextPresent
<1>3. \A e \in Commands : Open(e) /\ SameRead(c, e) => SameRead(c, e)'
  BY <1>1 DEF SameRead, DayOf
<1>4. PlaceRequests \subseteq Placements
  BY PlacementFacts
<1>5. commands'[c].scope = commands[c].scope /\ SentAt(c)' = SentAt(c)
  BY <1>1
<1>6. CASE commands[c].scope = Alpaca
  BY <1>1, <1>2, <1>3, <1>4, <1>5, <1>6, OrdersKept DEF Visible, Alpaca
<1>7. CASE commands[c].scope # Alpaca
  <2>1. /\ Visible(c) = DayOrders(commands[c].scope, DayOf(SentAt(c)))
        /\ Visible(c)' = {p \in Placements : /\ booked'[p] # Never /\ p.scope = commands[c].scope
                                             /\ DayOf(booked'[p]) = DayOf(SentAt(c))}
    BY <1>5, <1>7 DEF Visible, DayOrders, DayOf, Alpaca
  <2>2. QED
    BY <1>1, <1>2, <1>3, <2>1, OrdersKept DEF DayOrders
<1>8. QED
  BY <1>6, <1>7

\* A resolver that does not move keeps sound evidence, whatever the others do:
\* new orders are too young to be missed.
LEMMA EvidenceKept ==
  ASSUME TypeOK, PlacementInv, SendInv, StepBounds, NEW r \in Resolvers,
         EvidenceSound(r), resolver'[r] = resolver[r]
  PROVE  EvidenceSound(r)'
<1>1. /\ resolver[r] \in ResolverState /\ now \in Nat /\ Settle \in Nat /\ ReadSpan \in Nat
      /\ resolver[r].readAt \in Nat /\ resolver[r].work \subseteq Commands
  BY BrokerAssumption, ResolutionAssumption DEF TypeOK, ProcessTypeOK, ResolverState
<1>2. resolver[r].group \subseteq resolver[r].work /\ \A c \in resolver[r].work : Open(c) /\ Readable(c)
  BY DEF EvidenceSound
<1>3. \A c \in resolver[r].work : Open(c)' /\ Readable(c)'
  BY <1>1, <1>2, ViewGrows
<1>4. ASSUME resolver[r].pc \in {"read", "conclude"}
      PROVE  /\ resolver[r].readAt <= now' /\ now' <= resolver[r].readAt + ReadSpan
             /\ \A c, e \in resolver[r].group : SameRead(c, e)'
  <2>1. resolver[r].readAt <= now /\ now <= resolver[r].readAt + ReadSpan
    BY <1>4 DEF EvidenceSound
  <2>2. UNCHANGED now \/ (now' = now + 1 /\ now < resolver[r].readAt + ReadSpan)
    BY <1>4 DEF StepBounds, ClockStep, Tick
  <2>3. \A c, e \in resolver[r].group : SameRead(c, e)'
    BY <1>1, <1>2, <1>4, ViewGrows DEF EvidenceSound
  <2>4. QED
    BY <1>1, <2>1, <2>2, <2>3
<1>5. ASSUME resolver[r].pc = "conclude", NEW c \in resolver[r].group
      PROVE  /\ resolver[r].evidence \subseteq Visible(c)'
             /\ \A p \in Visible(c)' :
                  booked'[p] + Settle <= resolver[r].readAt /\ booked'[p] < resolver[r].readAt
                    => p \in resolver[r].evidence
  <2>1. c \in Commands /\ Open(c) /\ resolver[r].readAt <= now
    BY <1>1, <1>2, <1>5 DEF EvidenceSound
  <2>2. /\ resolver[r].evidence \subseteq Visible(c)
        /\ \A p \in Visible(c) :
             booked[p] + Settle <= resolver[r].readAt /\ booked[p] < resolver[r].readAt
               => p \in resolver[r].evidence
    BY <1>5 DEF EvidenceSound
  <2>3. /\ \A p \in Visible(c) : p \in Visible(c)' /\ booked'[p] = booked[p]
        /\ \A p \in Visible(c)' : p \in Visible(c) \/ booked'[p] = now
    BY <2>1, ViewGrows
  <2>4. ~(now < resolver[r].readAt)
    BY <1>1, <2>1
  <2>5. QED
    BY <2>2, <2>3, <2>4
<1>6. QED
  BY <1>2, <1>3, <1>4, <1>5 DEF EvidenceSound

\* A resolver that begins or ends something has sound evidence, if nothing else
\* changed: s is its new state.
LEMMA EvidenceOfMove ==
  ASSUME UNCHANGED <<commands, contexts, booked, now>>, NEW r \in Resolvers, NEW s \in ResolverState,
         resolver'[r] = s,
         s.group \subseteq s.work,
         \A c \in s.work : Open(c) /\ Readable(c),
         s.pc \in {"read", "conclude"} =>
           /\ s.readAt <= now /\ now <= s.readAt + ReadSpan
           /\ \A c, e \in s.group : SameRead(c, e),
         s.pc = "conclude" => \A c \in s.group :
           /\ s.evidence \subseteq Visible(c)
           /\ \A p \in Visible(c) :
                booked[p] + Settle <= s.readAt /\ booked[p] < s.readAt => p \in s.evidence
  PROVE  EvidenceSound(r)'
<1>1. \A c, e \in Commands :
        /\ Open(c)' <=> Open(c)
        /\ Readable(c)' <=> Readable(c)
        /\ SameRead(c, e)' <=> SameRead(c, e)
        /\ Visible(c)' = Visible(c)
  BY DEF Open, Readable, SameRead, Visible, DayOrders, DayOf, SentAt, ContextPresent
<1>2. s.work \subseteq Commands /\ s.group \subseteq Commands
  BY DEF ResolverState
<1>3. \A c \in s.work : Open(c)' /\ Readable(c)'
  BY <1>1, <1>2
<1>4. \A c, e \in s.group : SameRead(c, e)' <=> SameRead(c, e)
  BY <1>1, <1>2
<1>5. \A c \in s.group : Visible(c)' = Visible(c)
  BY <1>1, <1>2
<1>6. QED
  BY <1>3, <1>4, <1>5 DEF EvidenceSound

\* A resolver that turns to the rest of its work keeps what it has in hand, or
\* drops it.
LEMMA EvidenceOfRest ==
  ASSUME TypeOK, NEW r \in Resolvers, EvidenceSound(r), NEW done \in SUBSET Commands,
         Proceed(r, done), UNCHANGED <<commands, contexts, booked, now>>
  PROVE  EvidenceSound(r)'
<1> DEFINE left == resolver[r].work \ done
           same == resolver[r].group \ done
<1>1. /\ resolver \in [Resolvers -> ResolverState] /\ resolver[r] \in ResolverState
      /\ left \in SUBSET Commands /\ same \in SUBSET Commands
  BY DEF TypeOK, ProcessTypeOK, ResolverState
<1>2. resolver'[r] = Rest(r, done)
  BY <1>1 DEF Proceed
<1>3. CASE left = {}
  <2>1. Resting \in ResolverState /\ resolver'[r] = Resting
    BY <1>2, <1>3 DEF Rest, Resting, ResolverState
  <2>2. Resting.work = {} /\ Resting.group = {} /\ Resting.pc = "idle"
    BY DEF Resting
  <2>3. QED
    BY <2>1, <2>2, EvidenceOfMove
<1>4. CASE left # {} /\ same = {}
  <2> DEFINE s == [Resting EXCEPT !.pc = "work", !.work = left]
  <2>1. s \in ResolverState /\ s.work = left /\ s.group = {} /\ s.pc = "work"
    BY <1>1 DEF Resting, ResolverState
  <2>2. resolver'[r] = s
    BY <1>2, <1>4 DEF Rest
  <2>3. \A c \in left : Open(c) /\ Readable(c)
    BY DEF EvidenceSound
  <2> HIDE DEF s
  <2>4. QED
    BY <2>1, <2>2, <2>3, EvidenceOfMove
<1>5. CASE left # {} /\ same # {}
  <2> DEFINE s == [resolver[r] EXCEPT !.work = left, !.group = same]
  <2>1. /\ s \in ResolverState /\ s.work = left /\ s.group = same
        /\ s.pc = resolver[r].pc /\ s.readAt = resolver[r].readAt
        /\ s.evidence = resolver[r].evidence
    BY <1>1 DEF ResolverState
  <2>2. resolver'[r] = s
    BY <1>2, <1>5 DEF Rest
  <2>3. /\ same \subseteq left
        /\ \A c \in left : Open(c) /\ Readable(c)
        /\ s.pc \in {"read", "conclude"} =>
             /\ s.readAt <= now /\ now <= s.readAt + ReadSpan
             /\ \A c, e \in same : SameRead(c, e)
        /\ s.pc = "conclude" => \A c \in same :
             /\ s.evidence \subseteq Visible(c)
             /\ \A p \in Visible(c) :
                  booked[p] + Settle <= s.readAt /\ booked[p] < s.readAt => p \in s.evidence
    BY <2>1 DEF EvidenceSound
  <2> HIDE DEF s, left, same
  <2>4. QED
    BY <2>1, <2>2, <2>3, EvidenceOfMove
<1>6. QED
  BY <1>3, <1>4, <1>5

\* A resolver at rest.
LEMMA RestIsSound ==
  ASSUME NEW r \in Resolvers, resolver'[r] = Resting
  PROVE  EvidenceSound(r)'
  BY DEF EvidenceSound, Resting

\* Each step of a resolver keeps its own evidence sound.
LEMMA EvidenceStep ==
  ASSUME TypeOK, PlacementInv, SendInv, StepBounds, ReadInv,
         NEW r \in Resolvers, ResolveStep(r)
  PROVE  EvidenceSound(r)' /\ \A q \in Resolvers : q # r => resolver'[q] = resolver[q]
<1>1. /\ resolver \in [Resolvers -> ResolverState] /\ resolver[r] \in ResolverState
      /\ resolver[r].work \subseteq Commands /\ resolver[r].group \subseteq Commands
      /\ now \in Nat /\ ReadSpan \in Nat
  BY ResolutionAssumption DEF TypeOK, ProcessTypeOK, ResolverState
<1>2. UNCHANGED <<commands, contexts, booked, now>>
  BY ResolverKeeps DEF ResolverMoves
<1>3. EvidenceSound(r)
  BY DEF ReadInv
<1>4. ASSUME NEW done \in SUBSET Commands, Proceed(r, done)
      PROVE  EvidenceSound(r)' /\ \A q \in Resolvers : q # r => resolver'[q] = resolver[q]
  <2>1. EvidenceSound(r)'
    BY <1>2, <1>3, <1>4, EvidenceOfRest
  <2>2. \A q \in Resolvers : q # r => resolver'[q] = resolver[q]
    BY <1>1, <1>4 DEF Proceed
  <2>3. QED
    BY <2>1, <2>2
<1>5. ASSUME NEW c \in Commands, BeginRead(r, c)
      PROVE  EvidenceSound(r)' /\ \A q \in Resolvers : q # r => resolver'[q] = resolver[q]
  <2> DEFINE mates == {e \in resolver[r].work : SameRead(c, e)}
             s == [resolver[r] EXCEPT !.pc = "read", !.readAt = now, !.group = mates]
  <2>1. /\ s \in ResolverState /\ s.pc = "read" /\ s.readAt = now
        /\ s.group = mates /\ s.work = resolver[r].work
    BY <1>1 DEF ResolverState
  <2>2. resolver' = [resolver EXCEPT ![r] = s]
    BY <1>5 DEF BeginRead
  <2>3. \A e, f \in mates : SameRead(e, f)
    BY <1>1, OneReadOneView
  <2>4. \A e \in resolver[r].work : Open(e) /\ Readable(e)
    BY <1>3 DEF EvidenceSound
  <2>5. mates \subseteq resolver[r].work /\ now <= now /\ now <= now + ReadSpan
    BY <1>1
  <2> HIDE DEF s, mates
  <2>6. EvidenceSound(r)'
    BY <1>1, <1>2, <2>1, <2>2, <2>3, <2>4, <2>5, EvidenceOfMove
  <2>7. QED
    BY <1>1, <2>2, <2>6
<1>6. ASSUME NEW orders \in SUBSET Placements, EndRead(r, orders)
      PROVE  EvidenceSound(r)' /\ \A q \in Resolvers : q # r => resolver'[q] = resolver[q]
  <2> DEFINE s == [resolver[r] EXCEPT !.pc = "conclude", !.evidence = orders]
  <2>1. /\ s \in ResolverState /\ s.pc = "conclude" /\ s.readAt = resolver[r].readAt
        /\ s.group = resolver[r].group /\ s.work = resolver[r].work /\ s.evidence = orders
    BY <1>1 DEF ResolverState
  <2>2. resolver' = [resolver EXCEPT ![r] = s]
    BY <1>6 DEF EndRead
  <2>3. /\ resolver[r].pc = "read"
        /\ resolver[r].group \subseteq resolver[r].work
        /\ \A c \in resolver[r].work : Open(c) /\ Readable(c)
        /\ resolver[r].readAt <= now /\ now <= resolver[r].readAt + ReadSpan
        /\ \A c, e \in resolver[r].group : SameRead(c, e)
    BY <1>3, <1>6 DEF EvidenceSound, EndRead
  <2>4. ASSUME NEW c \in resolver[r].group
        PROVE  /\ orders \subseteq Visible(c)
               /\ \A p \in Visible(c) :
                    booked[p] + Settle <= s.readAt /\ booked[p] < s.readAt => p \in orders
    <3>1. PICK e \in resolver[r].group :
            /\ orders \subseteq Visible(e)
            /\ Visible(e) \intersect SettledBy(resolver[r].readAt) \subseteq orders
      BY <1>6 DEF EndRead
    <3>2. Visible(c) = Visible(e)
      BY <1>1, <2>3, OneReadOneView
    <3>3. \A p \in Visible(c) : p \in Placements /\ booked[p] # Never
      BY PlacementFacts DEF Visible, DayOrders
    <3>4. QED
      BY <2>1, <3>1, <3>2, <3>3 DEF SettledBy
  <2> HIDE DEF s
  <2>5. EvidenceSound(r)'
    BY <1>1, <1>2, <2>1, <2>2, <2>3, <2>4, EvidenceOfMove
  <2>6. QED
    BY <1>1, <2>2, <2>5
<1>7. ASSUME NEW c \in Commands, ResolveError(r, c)
      PROVE  EvidenceSound(r)' /\ \A q \in Resolvers : q # r => resolver'[q] = resolver[q]
  BY <1>1, <1>7, RestIsSound DEF ResolveError
<1>8. QED
  BY <1>1, <1>4, <1>5, <1>6, <1>7 DEF ResolveStep, Conclude, LeaveUnknown, ReadFails

\* Runs and checks begin with open, readable commands; dying leaves nothing.
LEMMA ReadNext ==
  TypeOK /\ PlacementInv /\ SendInv /\ ReadInv /\ [Next]_vars => ReadInv'
<1> SUFFICES ASSUME TypeOK, PlacementInv, SendInv, ReadInv, [Next]_vars,
                    NEW q \in Resolvers
             PROVE  EvidenceSound(q)'
  BY DEF ReadInv
<1> USE DEF storeVars, processVars, brokerVars
<1>1. StepBounds
  BY StepsBounded
<1>2. /\ EvidenceSound(q) /\ resolver \in [Resolvers -> ResolverState]
      /\ Batches \subseteq Resolvers /\ Checks \subseteq Resolvers
  BY DEF ReadInv, TypeOK, ProcessTypeOK, Resolvers
<1>3. CASE resolver'[q] = resolver[q]
  BY <1>1, <1>2, <1>3, EvidenceKept
<1>4. CASE resolver'[q] = Resting
  BY <1>4, RestIsSound
<1>5. ASSUME NEW items \in SUBSET Commands, \A c \in items : c \in Pending(Scopes) /\ Readable(c),
             UNCHANGED <<commands, contexts, booked, now>>,
             resolver'[q] = [Resting EXCEPT !.pc = "work", !.work = items]
      PROVE  EvidenceSound(q)'
  <2> DEFINE s == [Resting EXCEPT !.pc = "work", !.work = items]
  <2>1. s \in ResolverState /\ s.pc = "work" /\ s.work = items /\ s.group = {}
    BY DEF Resting, ResolverState
  <2>2. \A c \in items : Open(c) /\ Readable(c)
    BY <1>5 DEF Pending, Open
  <2>3. resolver'[q] = s
    BY <1>5
  <2> HIDE DEF s
  <2>4. QED
    BY <1>5, <2>1, <2>2, <2>3, EvidenceOfMove
<1>6. ASSUME NEW r \in Resolvers, ResolveStep(r)
      PROVE  EvidenceSound(q)'
  BY <1>1, <1>3, <1>6, EvidenceStep
<1>7. ASSUME NEW b \in Batches, Snapshot(b)
      PROVE  EvidenceSound(q)'
  <2>1. CASE q = b
    <3> DEFINE items == {c \in Pending(Scopes) : Readable(c)}
    <3>1. items \in SUBSET Commands /\ \A c \in items : c \in Pending(Scopes) /\ Readable(c)
      BY DEF Pending
    <3>2. /\ resolver'[q] = [Resting EXCEPT !.pc = "work", !.work = items]
          /\ UNCHANGED <<commands, contexts, booked, now>>
      BY <1>2, <1>7, <2>1 DEF Snapshot
    <3> HIDE DEF items
    <3>3. QED
      BY <1>5, <3>1, <3>2
  <2>2. CASE q # b
    BY <1>2, <1>3, <1>7, <2>2 DEF Snapshot
  <2>3. QED
    BY <2>1, <2>2
<1>8. ASSUME NEW k \in Checks, NEW c \in Commands, CheckOne(k, c)
      PROVE  EvidenceSound(q)'
  <2>1. CASE q = k
    <3>1. /\ {c} \in SUBSET Commands
          /\ resolver'[q] = [Resting EXCEPT !.pc = "work", !.work = {c}]
          /\ UNCHANGED <<commands, contexts, booked, now>>
          /\ \A e \in {c} : e \in Pending(Scopes) /\ Readable(e)
      BY <1>2, <1>8, <2>1 DEF CheckOne
    <3>2. QED
      BY <1>5, <3>1
  <2>2. CASE q # k
    BY <1>2, <1>3, <1>8, <2>2 DEF CheckOne
  <2>3. QED
    BY <2>1, <2>2
<1>9. ASSUME NEW S, KillResolvers(S)
      PROVE  EvidenceSound(q)'
  BY <1>3, <1>4, <1>9 DEF KillResolvers
<1>10. CASE ResolverMoves
  BY <1>3, <1>6, <1>7, <1>8, <1>9, <1>10 DEF ResolverMoves, KillBatch, CheckReplay
<1>11. CASE Crash
  BY <1>9, <1>11 DEF Crash
<1>12. CASE \/ \E d \in PlaceRequests : PlaceStep(d)
            \/ \E x \in CancelRequests : CancelStep(x)
            \/ BrokerStep \/ Tick \/ UNCHANGED vars
  BY <1>3, <1>12, PlaceKeeps, CancelKeeps, WorldKeeps DEF vars
<1>13. QED
  BY <1>10, <1>11, <1>12, StepKinds

\* The evidence of every resolver is sound.
LEMMA ReadSafe == Spec => [](TypeOK /\ PlacementInv /\ SendInv /\ ReadInv)
<1>1. Init => ReadInv
  BY DEF Init, ProcessInit, ReadInv, EvidenceSound, Resting
<1>2. QED
  BY <1>1, ReadNext, SendSafe, PTL DEF Spec

-----------------------------------------------------------------------------
(* What a conclusion says. *)

\* A match is the command's own order, if no other order of the account looks
\* like it: the stored facts are those of a delivery of this command.  Alpaca
\* answers by id.
LEMMA MatchIsOwn ==
  ASSUME TypeOK, SendInv, ReadInv, NEW r \in Resolvers, NEW c \in Commands,
         commands[c].scope = Alpaca \/ NoLookAlikesOf(commands[c].scope),
         Handles(r, c), NEW p \in Matches(c, resolver[r].evidence)
  PROVE  p \in Placements /\ p.id = c /\ booked[p] # Never
<1>1. Open(c) /\ p \in Visible(c)
  <2>1. Open(c) /\ resolver[r].evidence \subseteq Visible(c)
    BY DEF ReadInv, EvidenceSound, Handles
  <2>2. QED
    BY <2>1 DEF Matches
<1>2. CASE commands[c].scope = Alpaca
  BY <1>1, <1>2, PlacementFacts DEF Visible
<1>3. CASE commands[c].scope # Alpaca
  <2>1. /\ p \in Placements /\ booked[p] # Never /\ p.scope = commands[c].scope
        /\ ContextPresent(c) /\ p.facts = contexts[c].facts
    BY <1>1, <1>3 DEF Visible, DayOrders, Matches
  <2>2. LegacyOf(c) = {}
    <3> SUFFICES ASSUME NEW l \in LegacyPlacements, l.id = c PROVE FALSE
      BY DEF LegacyOf
    <3>1. contexts[c] = NoContext
      BY <1>3 DEF SendInv, LegacyKept, LegacyContext, Alpaca
    <3>2. QED
      BY <2>1, <3>1 DEF ContextPresent, NoContext
  <2>3. PICK d \in PlaceRequests : d.id = c /\ commands[c].scope = d.scope /\ contexts[c].facts = d.facts
    BY <1>1, <2>2 DEF SendInv, RowsFromDeliveries
  <2>4. d \in Placements
    BY PlacementFacts
  <2>5. QED
    BY <1>3, <2>1, <2>3, <2>4 DEF NoLookAlikesOf
<1>4. QED
  BY <1>2, <1>3

\* The command has no order, and nothing under way that could create one.
NothingOf(c) ==
  /\ \A p \in Placements : p.id = c => booked[p] = Never
  /\ \A d \in PlaceRequests : d.id = c => d \notin wire /\ ~At(d, "send")

\* Absence after the grace period is true: an order of this command would be
\* settled, of the day that was read (Alpaca asks by id), within the window and
\* with the stored facts, so it would be in the evidence and match; and a POST
\* still to come would be late.
LEMMA AbsenceIsTrue ==
  ASSUME TimingAssumption, TypeOK, PlacementInv, SendInv, ReadInv,
         NEW r \in Resolvers, NEW c \in Commands,
         commands[c].scope = Alpaca \/ WithinADay(commands[c].scope),
         Handles(r, c), AbsentProven(c, resolver[r].evidence)
  PROVE  NothingOf(c)
<1>1. /\ now \in Nat /\ Lag \in Nat /\ Delay \in Nat /\ Settle \in Nat /\ Grace \in Nat
      /\ Window \in Nat /\ ReadSpan \in Nat /\ resolver[r].readAt \in Nat
      /\ contexts[c].sentAt \in Nat /\ SentAt(c) \in Nat
  BY BrokerAssumption, LagAssumption, ResolutionAssumption
     DEF TypeOK, StoreTypeOK, Context, ProcessTypeOK, ResolverState, SentAt
<1>2. /\ Open(c) /\ Readable(c)
      /\ resolver[r].readAt <= now /\ now <= resolver[r].readAt + ReadSpan
      /\ \A p \in Visible(c) :
           booked[p] + Settle <= resolver[r].readAt /\ booked[p] < resolver[r].readAt
             => p \in resolver[r].evidence
  BY DEF ReadInv, EvidenceSound, Handles
<1>3. /\ Matches(c, resolver[r].evidence) = {}
      /\ ContextPresent(c) \/ resolver[r].evidence = {}
      /\ now >= SentAt(c) + Grace
  BY DEF AbsentProven
<1>4. ASSUME NEW b \in Nat, b <= SentAt(c) + Lag + Delay
      PROVE  b + Settle <= resolver[r].readAt /\ b < resolver[r].readAt /\ b < now
  BY <1>1, <1>2, <1>3, <1>4 DEF TimingAssumption
<1>5. ASSUME NEW d \in PlaceRequests, d.id = c, Owner(d) \/ posted[d] # Never
      PROVE  /\ ContextPresent(c) /\ SentAt(c) = contexts[c].sentAt
             /\ commands[c].scope = d.scope /\ contexts[c].facts = d.facts
  <2>1. commands[c].scope = d.scope /\ contexts[c].facts = d.facts
    BY <1>5 DEF PlacementInv, WriteAhead
  <2>2. contexts[c].facts # NoFacts
    BY <2>1, PlacementFacts, RequestAssumption
  <2>3. QED
    BY <2>1, <2>2 DEF ContextPresent, SentAt
<1>6. ASSUME NEW l \in LegacyPlacements, l.id = c, booked[l] # Never
      PROVE  FALSE
  <2>1. /\ commands[c].scope = l.scope /\ contexts[c] \in LegacyContext(l) /\ booked[l] = 0
        /\ l \in Placements
    BY <1>6 DEF SendInv, LegacyKept, Placements
  <2>2. l.scope # Alpaca
    <3> SUFFICES ASSUME l.scope = Alpaca PROVE FALSE
      OBVIOUS
    <3>1. ASSUME NEW x \in LegacyContext(l) PROVE x.clientId = FALSE
      <4>1. NoContext.clientId = FALSE
        BY DEF NoContext
      <4>2. \A y \in [facts : {l.facts}, sentAt : {0}, clientId : {FALSE}] : y.clientId \in {FALSE}
        OBVIOUS
      <4>3. QED
        BY <4>1, <4>2 DEF LegacyContext
    <3>2. contexts[c].clientId
      BY <1>2, <2>1 DEF Readable
    <3>3. QED
      BY <2>1, <3>1, <3>2
  <2>3. contexts[c] = NoContext
    BY <2>1, <2>2 DEF LegacyContext, Alpaca
  <2>4. ~ContextPresent(c) /\ SentAt(c) = 0
    BY <2>3 DEF ContextPresent, NoContext, SentAt
  <2>5. l \in Visible(c)
    BY <2>1, <2>2, <2>4, <1>6 DEF Visible, DayOrders
  <2>6. l \in resolver[r].evidence
    BY <1>1, <1>2, <1>4, <2>1, <2>4, <2>5
  <2>7. QED
    BY <1>3, <2>4, <2>6
<1>7. ASSUME NEW p \in PlaceRequests, p.id = c, booked[p] # Never
      PROVE  FALSE
  <2>1. /\ posted[p] # Never /\ posted[p] <= booked[p] /\ booked[p] <= posted[p] + Delay
        /\ booked[p] \in Session[p.scope]
        /\ posted[p] <= contexts[c].sentAt + Lag /\ contexts[c].sentAt <= posted[p]
    BY <1>7 DEF SendInv, OrdersInTime, PostsInTime, PlacementInv, WriteAhead
  <2>2. /\ posted[p] \in Nat /\ booked[p] \in Nat /\ p \in Placements /\ p.scope \in Scopes
    BY <1>7, <2>1, PlacementFacts DEF TypeOK, Time
  <2>3. /\ ContextPresent(c) /\ SentAt(c) = contexts[c].sentAt
        /\ commands[c].scope = p.scope /\ contexts[c].facts = p.facts
    BY <1>5, <1>7, <2>1
  <2>4. SentAt(c) <= booked[p] /\ booked[p] <= SentAt(c) + Lag + Delay
    BY <1>1, <2>1, <2>2, <2>3
  <2>5. p \in Visible(c)
    <3>1. CASE commands[c].scope = Alpaca
      BY <1>7, <3>1 DEF Visible
    <3>2. CASE commands[c].scope # Alpaca
      <4>1. SentAt(c) \in 0 .. booked[p] /\ SentAt(c) + Lag + Delay >= booked[p]
        BY <1>1, <2>2, <2>4
      <4>2. DayOf(SentAt(c)) = DayOf(booked[p])
        BY <2>1, <2>3, <3>2, <4>1 DEF WithinADay
      <4>3. QED
        BY <1>7, <2>2, <2>3, <3>2, <4>2 DEF Visible, DayOrders
    <3>3. QED
      BY <3>1, <3>2
  <2>6. p \in resolver[r].evidence
    BY <1>2, <1>4, <2>2, <2>4, <2>5
  <2>7. InWindow(p, c)
    BY <1>1, <2>2, <2>4 DEF InWindow, TimingAssumption
  <2>8. p \in Matches(c, resolver[r].evidence)
    BY <2>3, <2>6, <2>7 DEF Matches
  <2>9. QED
    BY <1>3, <2>8
<1>8. ASSUME NEW d \in PlaceRequests, d.id = c, d \in wire
      PROVE  FALSE
  <2>1. /\ posted[d] # Never /\ now <= posted[d] + Delay /\ posted[d] <= contexts[c].sentAt + Lag
        /\ posted[d] \in Time
    BY <1>8 DEF SendInv, OrdersInTime, PostsInTime, TypeOK
  <2>2. SentAt(c) = contexts[c].sentAt
    BY <1>5, <1>8, <2>1
  <2>3. QED
    BY <1>1, <1>4, <2>1, <2>2 DEF Time
<1>9. ASSUME NEW d \in PlaceRequests, d.id = c, At(d, "send")
      PROVE  FALSE
  <2>1. now <= contexts[c].sentAt + Lag
    BY <1>9 DEF SendInv, PostsInTime
  <2>2. SentAt(c) = contexts[c].sentAt
    BY <1>5, <1>9 DEF Owner, At
  <2>3. QED
    BY <1>1, <1>4, <2>1, <2>2
<1>10. QED
  <2>1. \A p \in Placements : p.id = c => p \in PlaceRequests \/ p \in LegacyPlacements
    BY KindsOfOrders DEF Placements
  <2>2. QED
    BY <1>6, <1>7, <1>8, <1>9, <2>1 DEF NothingOf

-----------------------------------------------------------------------------
(* Resolutions. *)

\* A resolution is appended by a resolver that handles the command, once, from
\* the evidence in its hand; nothing else changes with it.
LEMMA AppendStep ==
  ASSUME TypeOK, [Next]_vars, NEW c \in Commands, resolutions'[c] # resolutions[c]
  PROVE  \E r \in Resolvers :
           /\ Handles(r, c) /\ Resolvable(c) /\ resolutions'[c] \in Conclusion(r, c)
           /\ \A e \in Commands : e # c => resolutions'[e] = resolutions[e]
           /\ UNCHANGED <<commands, contexts, place, now, posted, wire, booked>>
<1> USE DEF storeVars
<1>1. resolutions \in [Commands -> Receipt]
  BY DEF TypeOK, StoreTypeOK
<1>2. PICK r \in Resolvers : ResolveStep(r)
  <2>1. CASE \/ \E d \in PlaceRequests : PlaceStep(d)
             \/ \E x \in CancelRequests : CancelStep(x)
             \/ BrokerStep \/ Tick \/ Crash \/ UNCHANGED vars
    BY <2>1, PlaceKeeps, CancelKeeps, WorldKeeps DEF vars
  <2>2. CASE ResolverMoves
    BY <2>2 DEF ResolverMoves, Snapshot, KillBatch, CheckReplay, CheckOne
  <2>3. QED
    BY <2>1, <2>2, StepKinds
<1>3. UNCHANGED <<commands, contexts, place, now, posted, wire, booked>>
  BY <1>2, ResolverKeeps DEF ResolverMoves
<1>4. PICK e \in Commands : Conclude(r, e) \/ ResolveError(r, e)
  BY <1>2 DEF ResolveStep, BeginRead, LeaveUnknown, EndRead, ReadFails
<1>5. PICK v \in Conclusion(r, e) : ResolveUnknown(e, v) /\ Handles(r, e)
  BY <1>4 DEF Conclude, ResolveError
<1>6. e = c /\ Resolvable(c) /\ resolutions' = [resolutions EXCEPT ![c] = v]
  BY <1>1, <1>5 DEF ResolveUnknown
<1>7. QED
  BY <1>1, <1>3, <1>5, <1>6

\* A resolution stands for an open row, now and in every later step.
LEMMA ResolutionNext ==
  TypeOK /\ PlacementInv /\ SendInv /\ ReadInv /\ ResolutionInv /\ [Next]_vars => ResolutionInv'
<1> SUFFICES ASSUME TypeOK, PlacementInv, SendInv, ReadInv, ResolutionInv, [Next]_vars,
                    NEW c \in Commands, resolutions'[c] # NoResolution
             PROVE  Conclusive(resolutions'[c]) /\ Open(c)'
  BY DEF ResolutionInv, Conclusive
<1>1. Open(c) => Open(c)'
  <2>1. Open(c) => Stored(c)
    BY DEF Open, Stored, NoRow
  <2>2. QED
    BY <2>1, StepsBounded, RowsKept
<1>2. CASE resolutions'[c] = resolutions[c]
  BY <1>1, <1>2 DEF ResolutionInv
<1>3. CASE resolutions'[c] # resolutions[c]
  <2>1. PICK r \in Resolvers : Handles(r, c) /\ resolutions'[c] \in Conclusion(r, c)
    BY <1>3, AppendStep
  <2>2. Conclusive(resolutions'[c])
    BY <2>1, ConclusionType DEF TypeOK
  <2>3. Open(c)
    BY <2>1 DEF ReadInv, EvidenceSound, Handles
  <2>4. QED
    BY <1>1, <2>2, <2>3
<1>4. QED
  BY <1>2, <1>3

\* What holds of the edge whatever is assumed about time and about other orders.
EdgeInv == TypeOK /\ PlacementInv /\ SendInv /\ ReadInv /\ ResolutionInv

\* It is inductive,
LEMMA EdgeNext == EdgeInv /\ [Next]_vars => EdgeInv'
  BY NextType, PlacementNext, StepsBounded, LegacyStep, RowsStep, PostsStep, OrdersStep,
     ReadNext, ResolutionNext DEF EdgeInv, SendInv

\* and holds in every reachable state.
LEMMA EdgeSafe == Spec => []EdgeInv
<1>1. Init => ResolutionInv
  BY DEF Init, StoreInit, ResolutionInv
<1>2. TypeOK /\ PlacementInv /\ SendInv /\ ReadInv /\ ResolutionInv /\ [Next]_vars => ResolutionInv'
  BY ResolutionNext
<1>3. QED
  BY <1>1, <1>2, ReadSafe, PTL DEF Spec, EdgeInv

\* Of whose POST left, the command has no other order: an order needs a POST of
\* its own, or is one of an earlier release or of somebody else.
LEMMA OneOrder ==
  ASSUME TypeOK, PlacementInv, SendInv,
         NEW d \in PlaceRequests, Owner(d) \/ posted[d] # Never,
         NEW p \in Placements, p.id = d.id, booked[p] # Never
  PROVE  p = d /\ posted[d] # Never
<1>1. d.id \in Commands
  BY PlacementFacts
<1>2. p \notin LegacyPlacements /\ p \notin ForeignOrders
  BY <1>1, KindsOfOrders DEF SendInv, LegacyKept
<1>3. p \in PlaceRequests /\ posted[p] # Never
  BY <1>2 DEF Placements, SendInv, OrdersInTime
<1>4. QED
  BY <1>3 DEF PlacementInv, AtMostOnePost

\* Where a conclusion comes from: a resolver, a refusal that found nothing
\* stored, or an owner that learned its order number.
LEMMA NewConclusion ==
  ASSUME EdgeInv, [Next]_vars, NEW c \in Commands,
         ~Conclusive(Effective(c)), Conclusive(Effective(c)')
  PROVE  \/ \E r \in Resolvers :
              /\ Handles(r, c) /\ Effective(c)' \in Conclusion(r, c)
              /\ UNCHANGED <<commands, contexts, place, now, posted, wire, booked>>
         \/ Effective(c)'.disposition = "NOT_CREATED" /\ resolutions'[c] = NoResolution
         \/ \E d \in PlaceRequests :
              /\ d.id = c /\ booked[d] # Never
              /\ Effective(c)' = [disposition |-> "ACCEPTED", oid |-> d]
<1>1. TypeOK /\ StepBounds
  BY StepsBounded DEF EdgeInv
<1>2. resolutions[c] = NoResolution
  BY DEF EdgeInv, ResolutionInv, Effective
<1>3. CASE resolutions'[c] # resolutions[c]
  <2>1. PICK r \in Resolvers :
          /\ Handles(r, c) /\ resolutions'[c] \in Conclusion(r, c)
          /\ UNCHANGED <<commands, contexts, place, now, posted, wire, booked>>
    BY <1>1, <1>3, AppendStep
  <2>2. Effective(c)' = resolutions'[c]
    BY <1>2, <1>3 DEF Effective
  <2>3. QED
    BY <2>1, <2>2
<1>4. CASE resolutions'[c] = resolutions[c]
  <2>1. /\ Effective(c) = [disposition |-> commands[c].disposition, oid |-> commands[c].oid]
        /\ Effective(c)' = [disposition |-> commands'[c].disposition, oid |-> commands'[c].oid]
    BY <1>2, <1>4 DEF Effective
  <2>2. CASE commands'[c].disposition = "NOT_CREATED"
    BY <1>2, <1>4, <2>1, <2>2
  <2>3. CASE commands'[c].disposition = "ACCEPTED"
    <3>1. commands[c].disposition # "ACCEPTED"
      BY <2>1 DEF Conclusive
    <3>2. RowStep(c)
      BY <1>1 DEF StepBounds
    <3>3. PICK d \in PlaceRequests :
            /\ d.id = c /\ FinalReceipt(d).disposition = "ACCEPTED"
            /\ commands'[c].oid = FinalReceipt(d).oid
      BY <2>3, <3>1, <3>2 DEF RowStep
    <3>4. place[d].oid # NoOrder /\ FinalReceipt(d).oid = place[d].oid
      BY <3>3 DEF FinalReceipt
    <3>5. place[d].oid = d /\ booked[d] # Never
      BY <3>4 DEF EdgeInv, SendInv, OrdersInTime
    <3>6. QED
      BY <2>1, <2>3, <3>3, <3>4, <3>5
  <2>4. commands'[c].disposition \in {"NOT_CREATED", "ACCEPTED"}
    BY <2>1 DEF Conclusive
  <2>5. QED
    BY <2>2, <2>3, <2>4
<1>5. QED
  BY <1>3, <1>4

-----------------------------------------------------------------------------
(* ACCEPTED is the truth, unless other orders look like it.  An account whose *)
(* orders can be told apart does not suffer from one whose orders cannot.      *)

\* The command belongs to one of the accounts S, and its receipt says so.
Concluded(c, S, disposition) ==
  commands[c].scope \in S /\ Effective(c).disposition = disposition

\* What is accepted in the accounts S is in the book, and the command's own.
OwnIn(S) ==
  \A c \in Commands : Concluded(c, S, "ACCEPTED") =>
    /\ Effective(c).oid \in Placements
    /\ Effective(c).oid.id = c
    /\ booked[Effective(c).oid] # Never

\* Alpaca finds orders by the command's id; elsewhere they must look different.
ToldApart(S) == \A s \in S : s = Alpaca \/ NoLookAlikesOf(s)

\* A command with a row that is open, or with a conclusion, has a stored row.
LEMMA ConcludedIsStored ==
  ASSUME EdgeInv, NEW c \in Commands, Open(c) \/ Conclusive(Effective(c))
  PROVE  Stored(c)
  BY DEF EdgeInv, ResolutionInv, Effective, Conclusive, Open, Stored, NoRow

\* Every step keeps it: a resolver takes a match, which is the command's own, an
\* owner its own number, and an order stays in the book.
LEMMA OwnNext ==
  ASSUME NEW S, ToldApart(S)
  PROVE  EdgeInv /\ OwnIn(S) /\ [Next]_vars => OwnIn(S)'
<1> SUFFICES ASSUME EdgeInv, OwnIn(S), [Next]_vars, NEW c \in Commands,
                    commands'[c].scope \in S, Effective(c)'.disposition = "ACCEPTED"
             PROVE  /\ Effective(c)'.oid \in Placements
                    /\ Effective(c)'.oid.id = c
                    /\ booked'[Effective(c)'.oid] # Never
  BY DEF OwnIn, Concluded
<1>1. TypeOK /\ PlacementInv /\ SendInv /\ ReadInv /\ StepBounds
  BY StepsBounded DEF EdgeInv
<1>2. \A p \in Placements : booked[p] # Never => booked'[p] # Never
  BY <1>1, OrdersKept
<1>3. CASE Conclusive(Effective(c))
  <2>1. Effective(c)' = Effective(c)
    BY <1>1, <1>3, ConclusionStep
  <2>2. commands'[c].scope = commands[c].scope
    BY <1>1, <1>3, ConcludedIsStored, RowsKept
  <2>3. Concluded(c, S, "ACCEPTED")
    BY <2>1, <2>2 DEF Concluded
  <2>4. QED
    BY <1>2, <2>1, <2>3 DEF OwnIn
<1>4. CASE ~Conclusive(Effective(c))
  <2>1. Conclusive(Effective(c)')
    BY DEF Conclusive
  <2>2. ASSUME NEW r \in Resolvers, Handles(r, c), Effective(c)' \in Conclusion(r, c),
               UNCHANGED commands
        PROVE  \E p \in Placements : p.id = c /\ booked[p] # Never /\ Effective(c)'.oid = p
    <3>1. PICK p \in Matches(c, resolver[r].evidence) : Effective(c)'.oid = p
      BY <2>2 DEF Conclusion
    <3>2. QED
      BY <1>1, <2>2, <3>1, MatchIsOwn DEF ToldApart
  <2>3. ASSUME NEW d \in PlaceRequests, d.id = c, booked[d] # Never,
               Effective(c)' = [disposition |-> "ACCEPTED", oid |-> d]
        PROVE  \E p \in Placements : p.id = c /\ booked[p] # Never /\ Effective(c)'.oid = p
    <3>1. Effective(c)'.oid = d /\ d \in Placements
      BY <2>3, PlacementFacts
    <3>2. QED
      BY <2>3, <3>1
  <2>4. PICK p \in Placements : p.id = c /\ booked[p] # Never /\ Effective(c)'.oid = p
    BY <1>4, <2>1, <2>2, <2>3, NewConclusion
  <2>5. QED
    BY <1>2, <2>4
<1>5. QED
  BY <1>3, <1>4

\* Earlier releases accepted nothing that is still in the tables.
LEMMA InitOpen == Init => \A c \in Commands : Effective(c).disposition \in {"none", "UNKNOWN"}
<1> SUFFICES ASSUME Init, NEW c \in Commands PROVE Effective(c).disposition \in {"none", "UNKNOWN"}
  OBVIOUS
<1>1. commands[c] \in FirstRows(c) /\ resolutions[c] = NoResolution
  BY DEF Init, StoreInit
<1>2. \A l \in LegacyOf(c) : \A row \in LegacyRow(l) : row.disposition = "UNKNOWN"
  BY DEF LegacyRow
<1>3. commands[c].disposition \in {"none", "UNKNOWN"}
  BY <1>1, <1>2 DEF FirstRows, NoRow
<1>4. QED
  BY <1>1, <1>3 DEF Effective

\* An open row or a conclusion is of a known account.
LEMMA AccountKnown ==
  EdgeInv => \A c \in Commands : Open(c) => commands[c].scope \in Scopes
<1> SUFFICES ASSUME EdgeInv, NEW c \in Commands, Open(c) PROVE commands[c].scope \in Scopes
  OBVIOUS
<1>1. CASE LegacyOf(c) = {}
  BY <1>1, PlacementFacts DEF EdgeInv, SendInv, RowsFromDeliveries
<1>2. CASE LegacyOf(c) # {}
  BY <1>2, PlacementFacts DEF EdgeInv, SendInv, LegacyKept, LegacyOf, Placements
<1>3. QED
  BY <1>1, <1>2

\* In one account it takes no more than this account's orders to look different,
\* and for Alpaca nothing at all.
THEOREM OwnInAccount ==
  ASSUME NEW s \in Scopes, s = Alpaca \/ NoLookAlikesOf(s) PROVE Spec => []OwnIn({s})
<1>1. Init => OwnIn({s})
  BY InitOpen DEF OwnIn, Concluded
<1>2. EdgeInv /\ OwnIn({s}) /\ [Next]_vars => OwnIn({s})'
  BY OwnNext DEF ToldApart
<1>3. QED
  BY <1>1, <1>2, EdgeSafe, PTL DEF Spec

\* An accepted command names an order of its own that is in the book, if no two
\* orders of an account can be taken for each other.
THEOREM AcceptedOrdersAreOwn == ASSUME NoLookAlikes PROVE Spec => []AcceptedIsOwn
<1>1. Init => OwnIn(Scopes)
  BY InitOpen DEF OwnIn, Concluded
<1>2. EdgeInv /\ OwnIn(Scopes) /\ [Next]_vars => OwnIn(Scopes)'
  BY OwnNext DEF ToldApart, NoLookAlikes
<1>3. EdgeInv /\ OwnIn(Scopes) => AcceptedIsOwn
  <2> SUFFICES ASSUME EdgeInv, OwnIn(Scopes),
                      NEW c \in Commands, Effective(c).disposition = "ACCEPTED"
               PROVE  Concluded(c, Scopes, "ACCEPTED")
    BY DEF AcceptedIsOwn, OwnIn
  <2>1. Open(c)
    BY DEF EdgeInv, ResolutionInv, Effective, Open
  <2>2. QED
    BY <2>1, AccountKnown DEF Concluded
<1>4. QED
  BY <1>1, <1>2, <1>3, EdgeSafe, PTL DEF Spec

\* A cancel request then only ever names an order of its own command.
THEOREM CancelsHitOwnOrders == ASSUME NoLookAlikes PROVE Spec => []CancelHitsOwn
<1>1. TypeOK /\ OneCancelPost /\ AcceptedIsOwn => CancelHitsOwn
  <2> SUFFICES ASSUME TypeOK, OneCancelPost, AcceptedIsOwn, NEW m \in cancelPosts
               PROVE  m.oid \in Placements /\ m.oid.id = m.by.id
    BY DEF CancelHitsOwn
  <2>1. m.by.id \in Commands
    BY ProcessAssumption DEF TypeOK
  <2>2. Effective(m.by.id) = [disposition |-> "ACCEPTED", oid |-> m.oid]
    BY DEF OneCancelPost
  <2>3. Effective(m.by.id).disposition = "ACCEPTED" /\ Effective(m.by.id).oid = m.oid
    BY <2>2
  <2>4. QED
    BY <2>1, <2>3 DEF AcceptedIsOwn
<1>2. QED
  BY <1>1, TypeCorrect, OneCancelPerCommand, AcceptedOrdersAreOwn, PTL

-----------------------------------------------------------------------------
(* NOT_CREATED is the truth, if the grace period covers what can happen to a *)
(* POST, and no order is stamped on one day and booked on the next.  Again it *)
(* is only the account's own sessions that matter.                            *)

\* A refused command was not sent, nor was there an order of an earlier release.
RefusedIsAbsent ==
  \A c \in Commands : commands[c].disposition = "NOT_CREATED" => NothingOf(c)

\* It follows from the invariant: whoever owned or sent has an open row.
LEMMA RefusedSafe == EdgeInv => RefusedIsAbsent
<1> SUFFICES ASSUME TypeOK, PlacementInv, SendInv,
                    NEW c \in Commands, commands[c].disposition = "NOT_CREATED"
             PROVE  NothingOf(c)
  BY DEF EdgeInv, RefusedIsAbsent
<1>1. \A d \in PlaceRequests : d.id = c => ~Owner(d) /\ posted[d] = Never
  BY DEF PlacementInv, WriteAhead
<1>2. \A d \in PlaceRequests : d.id = c => booked[d] = Never /\ d \notin wire
  BY <1>1 DEF SendInv, OrdersInTime
<1>3. \A l \in LegacyPlacements : l.id # c
  BY DEF SendInv, LegacyKept
<1>4. QED
  BY <1>1, <1>2, <1>3, KindsOfOrders DEF NothingOf, Owner, At, Placements

\* Nothing comes of a command that has nothing under way, once its row is stored.
LEMMA NothingKept ==
  ASSUME TypeOK, SendInv, StepBounds, NEW c \in Commands, NothingOf(c), Stored(c)
  PROVE  NothingOf(c)'
<1>1. ASSUME NEW p \in Placements, p.id = c
      PROVE  booked'[p] = Never
  BY <1>1, KindsOfOrders DEF StepBounds, BookStep, NothingOf
<1>2. ASSUME NEW d \in PlaceRequests, d.id = c
      PROVE  d \notin wire' /\ ~At(d, "send")'
  BY <1>2 DEF StepBounds, DeliveryStep, PostStep, NothingOf, At
<1>3. QED
  BY <1>1, <1>2 DEF NothingOf

\* What is absent in the accounts S has no order, and nothing under way.
AbsentIn(S) == \A c \in Commands : Concluded(c, S, "NOT_CREATED") => NothingOf(c)

\* Alpaca is asked for the order itself, the others for a day.
OfOneDay(S) == \A s \in S : s = Alpaca \/ WithinADay(s)

\* Every step keeps it: a resolver had proof, a refusal found nothing stored, and
\* nothing can come of either.
LEMMA AbsentNext ==
  ASSUME NEW S, TimingAssumption, OfOneDay(S)
  PROVE  EdgeInv /\ AbsentIn(S) /\ [Next]_vars => AbsentIn(S)'
<1> SUFFICES ASSUME EdgeInv, AbsentIn(S), [Next]_vars, NEW c \in Commands,
                    commands'[c].scope \in S, Effective(c)'.disposition = "NOT_CREATED"
             PROVE  NothingOf(c)'
  BY DEF AbsentIn, Concluded
<1>1. TypeOK /\ PlacementInv /\ SendInv /\ ReadInv /\ StepBounds
  BY StepsBounded DEF EdgeInv
<1>2. CASE commands'[c].disposition = "NOT_CREATED"
  <2>1. RefusedIsAbsent'
    BY EdgeNext, RefusedSafe, PTL
  <2>2. QED
    BY <1>2, <2>1 DEF RefusedIsAbsent
<1>3. CASE Conclusive(Effective(c))
  <2>1. Effective(c)' = Effective(c) /\ Stored(c)
    BY <1>1, <1>3, ConclusionStep, ConcludedIsStored
  <2>2. commands'[c].scope = commands[c].scope
    BY <1>1, <2>1, RowsKept
  <2>3. NothingOf(c)
    BY <2>1, <2>2 DEF AbsentIn, Concluded
  <2>4. QED
    BY <1>1, <2>1, <2>3, NothingKept
<1>4. CASE ~Conclusive(Effective(c)) /\ commands'[c].disposition # "NOT_CREATED"
  <2>1. Conclusive(Effective(c)')
    BY DEF Conclusive
  <2>2. resolutions'[c] # NoResolution
    BY <1>4 DEF Effective
  <2>3. PICK r \in Resolvers :
          /\ Handles(r, c) /\ Effective(c)' \in Conclusion(r, c)
          /\ UNCHANGED <<commands, contexts, place, now, posted, wire, booked>>
    BY <1>4, <2>1, <2>2, NewConclusion
  <2>4. AbsentProven(c, resolver[r].evidence)
    BY <2>3 DEF Conclusion
  <2>5. NothingOf(c)
    BY <1>1, <2>3, <2>4, AbsenceIsTrue DEF OfOneDay
  <2>6. QED
    BY <2>3, <2>5 DEF NothingOf, At
<1>5. QED
  BY <1>2, <1>3, <1>4

\* In one account it takes the grace period, and this account's sessions to end
\* before midnight; for Alpaca, the grace period alone.
THEOREM AbsentInAccount ==
  ASSUME NEW s \in Scopes, TimingAssumption, s = Alpaca \/ WithinADay(s)
  PROVE  Spec => []AbsentIn({s})
<1>1. Init => AbsentIn({s})
  BY InitOpen DEF AbsentIn, Concluded
<1>2. EdgeInv /\ AbsentIn({s}) /\ [Next]_vars => AbsentIn({s})'
  BY AbsentNext DEF OfOneDay
<1>3. QED
  BY <1>1, <1>2, EdgeSafe, PTL DEF Spec

\* NOT_CREATED is the truth, for good: the command has no order, and nothing
\* under way that could still create one.
THEOREM AbsentCommandsAreAbsent ==
  ASSUME TimingAssumption, SessionAssumption PROVE Spec => []AbsentIsReal
<1>1. Init => AbsentIn(Scopes)
  BY InitOpen DEF AbsentIn, Concluded
<1>2. EdgeInv /\ AbsentIn(Scopes) /\ [Next]_vars => AbsentIn(Scopes)'
  BY AbsentNext DEF OfOneDay, SessionAssumption
<1>3. EdgeInv /\ AbsentIn(Scopes) => AbsentIsReal
  <2> SUFFICES ASSUME EdgeInv, AbsentIn(Scopes),
                      NEW c \in Commands, Effective(c).disposition = "NOT_CREATED"
               PROVE  NothingOf(c)
    BY DEF AbsentIsReal, NothingOf
  <2>1. commands[c].disposition = "NOT_CREATED" \/ Open(c)
    BY DEF EdgeInv, ResolutionInv, Effective
  <2>2. QED
    BY <2>1, RefusedSafe, AccountKnown DEF RefusedIsAbsent, AbsentIn, Concluded
<1>4. QED
  BY <1>1, <1>2, <1>3, EdgeSafe, PTL DEF Spec

-----------------------------------------------------------------------------
(* Whoever was told a conclusion was told the one the store stands by. *)

\* Every receipt that was handed out is the conclusion of its command.
ToldInv ==
  \A c \in Commands : \A v \in told[c] : Conclusive(Effective(c)) /\ v = Effective(c)

\* The answer of the owner that finalizes does not look at the resolutions: one
\* that came first accepted the same order.
LEMMA FinalizeAgrees ==
  ASSUME EdgeInv, AcceptedIsOwn, AbsentIsReal, NEW d \in PlaceRequests, At(d, "finalize"),
         FinalizeRow(d.id, FinalReceipt(d)), Conclusive(FinalReceipt(d))
  PROVE  Effective(d.id)' = FinalReceipt(d)
<1>1. /\ d.id \in Commands /\ d \in Placements /\ TypeOK /\ Owner(d)
      /\ commands \in [Commands -> Row] /\ resolutions \in [Commands -> Receipt]
  BY PlacementFacts DEF EdgeInv, TypeOK, StoreTypeOK, Owner, At
<1>2. FinalReceipt(d) = [disposition |-> "ACCEPTED", oid |-> d] /\ booked[d] # Never
  <2>1. place[d].oid # NoOrder
    BY DEF FinalReceipt, Conclusive
  <2>2. QED
    BY <2>1 DEF FinalReceipt, EdgeInv, SendInv, OrdersInTime
<1>3. UNCHANGED resolutions
  BY DEF FinalizeRow
<1>4. CASE resolutions[d.id] = NoResolution
  <2>1. commands'[d.id].disposition = "ACCEPTED" /\ commands'[d.id].oid = d
    BY <1>1, <1>2 DEF FinalizeRow, Row
  <2>2. QED
    BY <1>2, <1>3, <1>4, <2>1 DEF Effective
<1>5. CASE resolutions[d.id] # NoResolution
  <2>1. Effective(d.id)' = resolutions[d.id] /\ Effective(d.id) = resolutions[d.id]
    BY <1>3, <1>5 DEF Effective
  <2>2. Effective(d.id).disposition # "NOT_CREATED"
    BY <1>1, <1>2 DEF AbsentIsReal
  <2>3. Effective(d.id).disposition = "ACCEPTED"
    BY <1>1, <1>5, <2>1, <2>2 DEF EdgeInv, ResolutionInv, Conclusive
  <2>4. Effective(d.id).oid = d
    <3>1. /\ Effective(d.id).oid \in Placements /\ Effective(d.id).oid.id = d.id
          /\ booked[Effective(d.id).oid] # Never
      BY <1>1, <2>3 DEF AcceptedIsOwn
    <3>2. QED
      BY <1>1, <3>1, OneOrder DEF EdgeInv
  <2>5. resolutions[d.id] = [disposition |-> "ACCEPTED", oid |-> d]
    BY <1>1, <2>1, <2>3, <2>4 DEF Receipt
  <2>6. QED
    BY <1>2, <2>1, <2>5
<1>6. QED
  BY <1>4, <1>5

\* Whoever is told something is told the receipt the step leaves in the store.
LEMMA TellStep ==
  ASSUME EdgeInv, AcceptedIsOwn, AbsentIsReal, [Next]_vars,
         NEW c \in Commands, NEW v \in told'[c], v \notin told[c]
  PROVE  Conclusive(v) /\ v = Effective(c)'
<1> USE DEF storeVars, brokerVars, processVars
<1>1. told \in [Commands -> SUBSET Receipt] /\ TypeOK
  BY DEF EdgeInv, TypeOK, StoreTypeOK
<1>2. ASSUME NEW e \in Commands, NEW w, Tell(e, w)
      PROVE  e = c /\ v = w /\ Conclusive(w)
  BY <1>1, <1>2 DEF Tell
<1>3. ASSUME NEW e \in Commands, Tell(e, Effective(e)), UNCHANGED <<commands, resolutions>>
      PROVE  Conclusive(v) /\ v = Effective(c)'
  BY <1>2, <1>3 DEF Effective
<1>4. ASSUME NEW d \in PlaceRequests, PlaceStep(d)
      PROVE  Conclusive(v) /\ v = Effective(c)'
  <2>1. d.id \in Commands
    BY PlacementFacts
  <2>2. CASE Replay(d) \/ Reread(d)
    BY <1>3, <2>1, <2>2 DEF Replay, Reread, Reply
  <2>3. CASE Refuse(d)
    <3>1. d.id = c /\ v = [disposition |-> "NOT_CREATED", oid |-> NoOrder] /\ Conclusive(v)
      BY <1>2, <2>1, <2>3 DEF Refuse, Reply
    <3>2. /\ ~Stored(c) /\ UNCHANGED resolutions
          /\ commands'[c].disposition = "NOT_CREATED" /\ commands'[c].oid = NoOrder
      BY <1>1, <2>3, <3>1 DEF Refuse, InsertFinal, TypeOK, StoreTypeOK
    <3>3. resolutions[c] = NoResolution
      BY <3>2 DEF EdgeInv, ResolutionInv, Open, Stored, NoRow
    <3>4. QED
      BY <3>1, <3>2, <3>3 DEF Effective
  <2>4. CASE Finalize(d)
    <3>1. At(d, "finalize") /\ FinalizeRow(d.id, FinalReceipt(d)) /\ Tell(d.id, FinalReceipt(d))
      BY <1>1, <2>4 DEF Finalize, Reply, EdgeInv, PlacementInv, Owner, At
    <3>2. d.id = c /\ v = FinalReceipt(d) /\ Conclusive(FinalReceipt(d))
      BY <1>2, <2>1, <3>1
    <3>3. QED
      BY <3>1, <3>2, FinalizeAgrees
  <2>5. CASE \/ NotFound(d) \/ Prepare(d) \/ Reserve(d) \/ Conflict(d) \/ Send(d) \/ Accepted(d)
             \/ NotAccepted(d) \/ StoreError(d) \/ CommitUnreported(d)
    BY <2>5 DEF NotFound, Prepare, Reserve, Conflict, Send, Accepted, NotAccepted, StoreError,
                CommitUnreported
  <2>6. QED
    BY <1>4, <2>2, <2>3, <2>4, <2>5 DEF PlaceStep
<1>5. ASSUME NEW k \in Checks, NEW e \in Commands, CheckReplay(k, e)
      PROVE  Conclusive(v) /\ v = Effective(c)'
  BY <1>3, <1>5 DEF CheckReplay
<1>6. ASSUME NEW r \in Resolvers, NEW e \in Commands, Conclude(r, e)
      PROVE  Conclusive(v) /\ v = Effective(c)'
  BY <1>2, <1>6 DEF Conclude
<1>7. CASE ResolverMoves
  BY <1>5, <1>6, <1>7 DEF ResolverMoves, ResolveStep, BeginRead, LeaveUnknown, ResolveError, EndRead,
                          ReadFails, Snapshot, KillBatch, CheckOne
<1>8. CASE (\E x \in CancelRequests : CancelStep(x)) \/ BrokerStep \/ Tick \/ Crash \/ UNCHANGED vars
  BY <1>8, CancelKeeps, WorldKeeps DEF vars
<1>9. QED
  BY <1>4, <1>7, <1>8, StepKinds

\* What was told stays what the store says, because conclusions are final.
LEMMA ToldNext ==
  EdgeInv /\ AcceptedIsOwn /\ AbsentIsReal /\ ToldInv /\ [Next]_vars => ToldInv'
<1> SUFFICES ASSUME EdgeInv, AcceptedIsOwn, AbsentIsReal, ToldInv, [Next]_vars,
                    NEW c \in Commands, NEW v \in told'[c]
             PROVE  Conclusive(Effective(c)') /\ v = Effective(c)'
  BY DEF ToldInv, Conclusive
<1>1. CASE v \in told[c]
  BY <1>1, ConclusionStep DEF ToldInv, EdgeInv
<1>2. CASE v \notin told[c]
  BY <1>2, TellStep
<1>3. QED
  BY <1>1, <1>2

\* All that was ever told of a command, by its own answer, a replay or a check,
\* is the receipt that the store stands by.
THEOREM RepliesAlwaysAgree ==
  ASSUME TimingAssumption, SessionAssumption, NoLookAlikes PROVE Spec => []RepliesAgree
<1>1. Init => ToldInv
  BY DEF Init, StoreInit, ToldInv
<1>2. EdgeInv /\ AcceptedIsOwn /\ AbsentIsReal /\ ToldInv /\ [Next]_vars => ToldInv'
  BY ToldNext
<1>3. ToldInv => RepliesAgree
  BY DEF ToldInv, RepliesAgree
<1>4. QED
  BY <1>1, <1>2, <1>3, EdgeSafe, AcceptedOrdersAreOwn, AbsentCommandsAreAbsent, PTL DEF Spec

-----------------------------------------------------------------------------
(* The edge keeps the promise of CommandLedger. *)

\* An order of the command is in the book.
HasOrder(c) == \E p \in Placements : p.id = c /\ booked[p] # Never

\* The steps of the ledger, as the edge takes them: a row is inserted,
LEMMA LedgerRow ==
  ASSUME NEW c \in Commands, Effective(c).disposition = "none",
         Effective(c)'.disposition \in {"NOT_CREATED", "UNKNOWN"},
         \A e \in Commands : e # c => Effective(e)' = Effective(e), UNCHANGED <<posted, booked>>
  PROVE  Ledger!LedgerNext
<1>1. Ledger!Reject(c) \/ Ledger!Commit(c)
  BY DEF Ledger!Reject, Ledger!Commit, Ledger!Is, Ledger!Becomes, WasSent, LegacyOf
<1>2. QED
  BY <1>1 DEF Ledger!LedgerNext

\* a POST leaves,
LEMMA LedgerSend ==
  ASSUME NEW d \in PlaceRequests, d.id \in Commands, Effective(d.id).disposition = "UNKNOWN",
         ~WasSent(d.id), posted' = [posted EXCEPT ![d] = now], now \in Nat,
         posted \in [PlaceRequests -> Time],
         UNCHANGED <<commands, resolutions, booked>>
  PROVE  Ledger!LedgerNext
<1>1. \A c \in Commands : Effective(c)' = Effective(c)
  BY DEF Effective
<1>2. \A c \in Commands : WasSent(c)' <=> WasSent(c) \/ c = d.id
  BY DEF WasSent, LegacyOf, Never
<1>3. Ledger!Transmit(d.id)
  BY <1>1, <1>2 DEF Ledger!Transmit, Ledger!Is
<1>4. QED
  BY <1>3 DEF Ledger!LedgerNext

\* an order is booked,
LEMMA LedgerCreate ==
  ASSUME NEW d \in PlaceRequests, d.id \in Commands, d \in Placements,
         Effective(d.id).disposition = "UNKNOWN", WasSent(d.id), ~HasOrder(d.id),
         booked' = [booked EXCEPT ![d] = now], now \in Nat, booked \in [Placements -> Time],
         UNCHANGED <<commands, resolutions, posted>>
  PROVE  Ledger!LedgerNext
<1>1. \A c \in Commands : Effective(c)' = Effective(c) /\ (WasSent(c)' <=> WasSent(c))
  BY DEF Effective, WasSent, LegacyOf
<1>2. \A c \in Commands : HasOrder(c)' <=> HasOrder(c) \/ c = d.id
  BY DEF HasOrder, Never
<1>3. Ledger!Create(d.id)
  BY <1>1, <1>2 DEF Ledger!Create, Ledger!Is, HasOrder
<1>4. QED
  BY <1>3 DEF Ledger!LedgerNext

\* a conclusion is drawn,
LEMMA LedgerConclude ==
  ASSUME NEW c \in Commands, Effective(c).disposition = "UNKNOWN",
         \/ Effective(c)'.disposition = "ACCEPTED" /\ HasOrder(c)
         \/ Effective(c)'.disposition = "NOT_CREATED" /\ ~HasOrder(c),
         \A e \in Commands : e # c => Effective(e)' = Effective(e), UNCHANGED <<posted, booked>>
  PROVE  Ledger!LedgerNext
<1>1. Ledger!Accept(c) \/ Ledger!Absent(c)
  BY DEF Ledger!Accept, Ledger!Absent, Ledger!Is, Ledger!Becomes, WasSent, LegacyOf, HasOrder
<1>2. QED
  BY <1>1 DEF Ledger!LedgerNext

\* or none of it.
LEMMA LedgerStays ==
  ASSUME \A c \in Commands : Effective(c)'.disposition = Effective(c).disposition,
         UNCHANGED posted,
         \A p \in Placements : p.id \in Commands => booked'[p] = booked[p]
  PROVE  UNCHANGED Ledger!ledgerVars
<1>1. \A c \in Commands : (WasSent(c)' <=> WasSent(c)) /\ (HasOrder(c)' <=> HasOrder(c))
  BY DEF WasSent, LegacyOf, HasOrder
<1>2. QED
  BY <1>1 DEF Ledger!ledgerVars, HasOrder

\* What the conclusions say, beside the invariant of the edge.
TrueInv == EdgeInv /\ AcceptedIsOwn /\ AbsentIsReal

\* While a POST is about to leave or on its way, the command has no order and
\* no conclusion.
LEMMA UnderWayIsOpen ==
  ASSUME TrueInv, NEW d \in PlaceRequests, At(d, "send") \/ d \in wire
  PROVE  Effective(d.id).disposition = "UNKNOWN" /\ ~HasOrder(d.id)
<1>1. d.id \in Commands /\ TypeOK /\ PlacementInv /\ SendInv
  BY PlacementFacts DEF TrueInv, EdgeInv
<1>2. Owner(d) \/ posted[d] # Never
  BY <1>1 DEF SendInv, OrdersInTime, Owner, At
<1>3. booked[d] = Never
  <2>1. At(d, "send") => posted[d] = Never
    BY <1>1 DEF PlacementInv, Owner, At
  <2>2. QED
    BY <1>1, <2>1 DEF SendInv, OrdersInTime
<1>4. ~HasOrder(d.id)
  BY <1>1, <1>2, <1>3, OneOrder DEF HasOrder
<1>5. commands[d.id].disposition \in {"UNKNOWN", "ACCEPTED"}
  BY <1>1, <1>2, SentIsOpen DEF SendInv, Open
<1>6. Effective(d.id).disposition \in {"UNKNOWN", "ACCEPTED", "NOT_CREATED"}
  BY <1>1, <1>5 DEF Effective, TrueInv, EdgeInv, ResolutionInv, Conclusive
<1>7. Effective(d.id).disposition # "ACCEPTED"
  BY <1>1, <1>4 DEF TrueInv, AcceptedIsOwn, HasOrder
<1>8. Effective(d.id).disposition # "NOT_CREATED"
  BY <1>1 DEF TrueInv, AbsentIsReal
<1>9. QED
  BY <1>4, <1>6, <1>7, <1>8

\* Every step of a placement is a step of the ledger, or none of its business.
LEMMA LedgerPlace ==
  ASSUME TrueInv, NEW d \in PlaceRequests, PlaceStep(d)
  PROVE  Ledger!LedgerNext \/ UNCHANGED Ledger!ledgerVars
<1> USE DEF storeVars, brokerVars
<1>1. /\ d.id \in Commands /\ commands \in [Commands -> Row] /\ now \in Nat
      /\ posted \in [PlaceRequests -> Time]
      /\ TypeOK /\ PlacementInv /\ SendInv /\ ResolutionInv
  BY PlacementFacts DEF TrueInv, EdgeInv, TypeOK, StoreTypeOK
<1>2. UNCHANGED <<resolutions, booked>>
  BY PlaceKeeps
<1>3. ASSUME UNCHANGED <<commands, posted>>
      PROVE  UNCHANGED Ledger!ledgerVars
  BY <1>2, <1>3, LedgerStays DEF Effective
<1>4. ASSUME ~Stored(d.id),
             commands'[d.id].disposition \in {"NOT_CREATED", "UNKNOWN"},
             \A c \in Commands : c # d.id => commands'[c] = commands[c], UNCHANGED posted
      PROVE  Ledger!LedgerNext
  <2>1. commands[d.id].disposition = "none" /\ resolutions[d.id] = NoResolution
    BY <1>1, <1>4 DEF Stored, NoRow, ResolutionInv, Open
  <2>2. /\ Effective(d.id).disposition = "none"
        /\ Effective(d.id)'.disposition = commands'[d.id].disposition
        /\ \A c \in Commands : c # d.id => Effective(c)' = Effective(c)
    BY <1>2, <1>4, <2>1 DEF Effective
  <2>3. QED
    BY <1>1, <1>2, <1>4, <2>2, LedgerRow
<1>5. ASSUME InsertFinal(d.id), UNCHANGED posted
      PROVE  Ledger!LedgerNext
  BY <1>1, <1>4, <1>5 DEF InsertFinal
<1>6. ASSUME InsertPending(d, place[d].sentAt), UNCHANGED posted
      PROVE  Ledger!LedgerNext
  BY <1>1, <1>4, <1>6 DEF InsertPending
<1>7. ASSUME FinalizeRow(d.id, FinalReceipt(d)), At(d, "finalize"), UNCHANGED posted
      PROVE  Ledger!LedgerNext \/ UNCHANGED Ledger!ledgerVars
  <2>1. /\ commands[d.id].disposition = "UNKNOWN"
        /\ commands'[d.id].disposition = FinalReceipt(d).disposition
        /\ commands'[d.id].oid = FinalReceipt(d).oid
        /\ \A c \in Commands : c # d.id => commands'[c] = commands[c]
    BY <1>1, <1>7 DEF FinalizeRow, PlacementInv, Row
  <2>2. \A c \in Commands : c # d.id => Effective(c)' = Effective(c)
    BY <1>2, <2>1 DEF Effective
  <2>3. CASE resolutions[d.id] # NoResolution
    <3>1. Effective(d.id)' = Effective(d.id)
      BY <1>2, <2>3 DEF Effective
    <3>2. QED
      BY <1>2, <1>7, <2>2, <3>1, LedgerStays
  <2>4. CASE resolutions[d.id] = NoResolution /\ place[d].oid = NoOrder
    <3>1. Effective(d.id)'.disposition = "UNKNOWN" /\ Effective(d.id).disposition = "UNKNOWN"
      BY <1>2, <2>1, <2>4 DEF FinalReceipt, Effective
    <3>2. QED
      BY <1>2, <1>7, <2>2, <3>1, LedgerStays
  <2>5. CASE resolutions[d.id] = NoResolution /\ place[d].oid # NoOrder
    <3>1. /\ Effective(d.id).disposition = "UNKNOWN"
          /\ Effective(d.id)'.disposition = "ACCEPTED"
      BY <1>2, <2>1, <2>5 DEF FinalReceipt, Effective
    <3>2. HasOrder(d.id)
      BY <1>1, <2>5, PlacementFacts DEF SendInv, OrdersInTime, HasOrder
    <3>3. QED
      BY <1>1, <1>2, <1>7, <2>2, <3>1, <3>2, LedgerConclude
  <2>6. QED
    BY <2>3, <2>4, <2>5
<1>8. CASE Send(d)
  <2>1. /\ posted' = [posted EXCEPT ![d] = now] /\ UNCHANGED commands /\ At(d, "send")
    BY <1>8 DEF Send
  <2>2. ~WasSent(d.id)
    <3>1. \A e \in PlaceRequests : e.id = d.id => posted[e] = Never
      BY <1>1, <2>1 DEF PlacementInv, Owner, At
    <3>2. LegacyOf(d.id) = {}
      BY <1>1, <2>1 DEF SendInv, LegacyKept, LegacyOf, Owner, At
    <3>3. QED
      BY <3>1, <3>2 DEF WasSent
  <2>3. QED
    BY <1>1, <1>2, <2>1, <2>2, UnderWayIsOpen, LedgerSend
<1>9. CASE \/ Replay(d) \/ NotFound(d) \/ Prepare(d) \/ Conflict(d) \/ Reread(d)
           \/ Accepted(d) \/ NotAccepted(d) \/ StoreError(d)
  BY <1>3, <1>9 DEF Replay, NotFound, Prepare, Conflict, Reread, Accepted, NotAccepted, StoreError
<1>10. CASE Refuse(d)
  BY <1>5, <1>10 DEF Refuse
<1>11. CASE Reserve(d)
  BY <1>6, <1>11 DEF Reserve
<1>12. CASE Finalize(d)
  BY <1>3, <1>7, <1>12 DEF Finalize
<1>13. CASE CommitUnreported(d)
  BY <1>5, <1>6, <1>7, <1>13 DEF CommitUnreported
<1>14. QED
  BY <1>8, <1>9, <1>10, <1>11, <1>12, <1>13 DEF PlaceStep

\* Every step of the edge is a step of the ledger, or none of its business.
LEMMA LedgerStep ==
  ASSUME TimingAssumption, SessionAssumption, NoLookAlikes
  PROVE  TrueInv /\ [Next]_vars => [Ledger!LedgerNext]_(Ledger!ledgerVars)
<1> SUFFICES ASSUME TrueInv, [Next]_vars
             PROVE  Ledger!LedgerNext \/ UNCHANGED Ledger!ledgerVars
  OBVIOUS
<1> USE DEF storeVars
<1>1. TypeOK /\ PlacementInv /\ SendInv /\ ReadInv
  BY DEF TrueInv, EdgeInv
<1>2. ASSUME UNCHANGED <<commands, resolutions, posted, booked>>
      PROVE  UNCHANGED Ledger!ledgerVars
  BY <1>2, LedgerStays DEF Effective
<1>3. CASE \E d \in PlaceRequests : PlaceStep(d)
  BY <1>3, LedgerPlace
<1>4. CASE (\E x \in CancelRequests : CancelStep(x)) \/ Crash \/ UNCHANGED vars
  BY <1>2, <1>4, CancelKeeps, WorldKeeps DEF vars, brokerVars
<1>5. CASE ResolverMoves
  <2>1. UNCHANGED <<commands, posted, booked>>
    BY <1>5, ResolverKeeps
  <2>2. CASE \A c \in Commands : resolutions'[c] = resolutions[c]
    BY <2>1, <2>2, LedgerStays DEF Effective
  <2>3. ASSUME NEW c \in Commands, resolutions'[c] # resolutions[c]
        PROVE  Ledger!LedgerNext
    <3>1. PICK r \in Resolvers :
            /\ Handles(r, c) /\ Resolvable(c) /\ resolutions'[c] \in Conclusion(r, c)
            /\ \A e \in Commands : e # c => resolutions'[e] = resolutions[e]
      BY <1>1, <2>3, AppendStep
    <3>2. /\ Effective(c).disposition = "UNKNOWN" /\ Effective(c)' = resolutions'[c]
          /\ \A e \in Commands : e # c => Effective(e)' = Effective(e)
      BY <2>1, <2>3, <3>1 DEF Effective, Resolvable
    <3>3. commands[c].scope \in Scopes
      BY <3>1, AccountKnown DEF TrueInv, Resolvable, Open
    <3>4. CASE AbsentProven(c, resolver[r].evidence) /\ resolutions'[c].disposition = "NOT_CREATED"
      <4>1. ~HasOrder(c)
        BY <1>1, <3>1, <3>3, <3>4, AbsenceIsTrue DEF NothingOf, HasOrder, SessionAssumption
      <4>2. QED
        BY <2>1, <3>2, <3>4, <4>1, LedgerConclude
    <3>5. ASSUME NEW p \in Matches(c, resolver[r].evidence), resolutions'[c].disposition = "ACCEPTED"
          PROVE  Ledger!LedgerNext
      <4>1. HasOrder(c)
        BY <1>1, <3>1, <3>3, MatchIsOwn DEF HasOrder, NoLookAlikes
      <4>2. QED
        BY <2>1, <3>2, <3>5, <4>1, LedgerConclude
    <3>6. QED
      BY <3>1, <3>4, <3>5 DEF Conclusion
  <2>4. QED
    BY <2>2, <2>3
<1>6. CASE BrokerStep
  <2>1. UNCHANGED <<commands, resolutions, posted>>
    BY <1>6, WorldKeeps
  <2>2. ASSUME NEW d \in PlaceRequests, Book(d)
        PROVE  Ledger!LedgerNext
    <3>1. /\ d.id \in Commands /\ d \in Placements /\ now \in Nat
          /\ booked \in [Placements -> Time] /\ booked' = [booked EXCEPT ![d] = now] /\ d \in wire
      BY <1>1, <2>2, PlacementFacts DEF Book, TypeOK
    <3>2. WasSent(d.id)
      BY <1>1, <3>1 DEF WasSent, SendInv, OrdersInTime
    <3>3. QED
      BY <2>1, <3>1, <3>2, UnderWayIsOpen, LedgerCreate
  <2>3. ASSUME NEW f \in ForeignOrders, BookForeign(f)
        PROVE  UNCHANGED Ledger!ledgerVars
    <3>1. \A p \in Placements : p.id \in Commands => booked'[p] = booked[p]
      BY <1>1, <2>3, KindsOfOrders DEF BookForeign, TypeOK
    <3>2. QED
      BY <2>1, <3>1, LedgerStays DEF Effective
  <2>4. ASSUME UNCHANGED booked
        PROVE  UNCHANGED Ledger!ledgerVars
    BY <1>2, <2>1, <2>4
  <2>5. QED
    BY <1>6, <2>2, <2>3, <2>4 DEF BrokerStep, Drop, Close
<1>7. CASE Tick
  BY <1>2, <1>7 DEF Tick, edgeVars
<1>8. QED
  BY <1>3, <1>4, <1>5, <1>6, <1>7, StepKinds

\* At first the ledger holds what an earlier release left.
LEMMA LedgerStart == Init => Ledger!LedgerInit
<1> SUFFICES ASSUME Init PROVE Ledger!LedgerInit
  OBVIOUS
<1>1. \A d \in PlaceRequests : posted[d] = Never /\ booked[d] = Never
  BY KindsOfOrders, PlacementFacts DEF Init, BrokerInit
<1>2. \A f \in ForeignOrders : f.id \notin Commands
  BY KindsOfOrders
<1>3. \A c \in Commands :
        /\ Effective(c).disposition = IF LegacyOf(c) = {} THEN "none" ELSE "UNKNOWN"
        /\ WasSent(c) <=> LegacyOf(c) # {}
        /\ HasOrder(c) => LegacyOf(c) # {}
  <2> SUFFICES ASSUME NEW c \in Commands
               PROVE  /\ Effective(c).disposition = IF LegacyOf(c) = {} THEN "none" ELSE "UNKNOWN"
                      /\ WasSent(c) <=> LegacyOf(c) # {}
                      /\ HasOrder(c) => LegacyOf(c) # {}
    OBVIOUS
  <2>1. commands[c] \in FirstRows(c) /\ Effective(c).disposition = commands[c].disposition
    BY DEF Init, StoreInit, Effective
  <2>2. \A l \in LegacyOf(c) : \A row \in LegacyRow(l) : row.disposition = "UNKNOWN"
    BY DEF LegacyRow
  <2>3. Effective(c).disposition = IF LegacyOf(c) = {} THEN "none" ELSE "UNKNOWN"
    BY <2>1, <2>2 DEF FirstRows, NoRow
  <2>4. QED
    BY <1>1, <1>2, <2>3 DEF WasSent, HasOrder, LegacyOf, Placements
<1>4. {l.id : l \in LegacyPlacements} \subseteq Commands
  BY RequestAssumption
<1>5. \A c \in Commands : LegacyOf(c) # {} <=> c \in {l.id : l \in LegacyPlacements}
  BY DEF LegacyOf
<1>6. QED
  BY <1>3, <1>4, <1>5 DEF Ledger!LedgerInit, HasOrder

\* The edge implements the ledger: a command is sent at most once, its receipt
\* passes once from UNKNOWN to a conclusion, and the conclusion is true for good.
THEOREM EdgeKeepsPromise ==
  ASSUME TimingAssumption, SessionAssumption, NoLookAlikes PROVE Spec => ImplementsLedger
<1>1. Init => Ledger!LedgerInit
  BY LedgerStart
<1>2. TrueInv /\ [Next]_vars => [Ledger!LedgerNext]_(Ledger!ledgerVars)
  BY LedgerStep
<1>3. EdgeInv /\ AcceptedIsOwn /\ AbsentIsReal => TrueInv
  BY DEF TrueInv
<1>4. QED
  BY <1>1, <1>2, <1>3, EdgeSafe, AcceptedOrdersAreOwn, AbsentCommandsAreAbsent, PTL
     DEF Spec, ImplementsLedger, Ledger!LedgerSpec
=============================================================================
