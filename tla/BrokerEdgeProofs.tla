--------------------------- MODULE BrokerEdgeProofs ----------------------------
(***************************************************************************)
(* Theorems about BrokerEdge, for every number of commands, deliveries,     *)
(* resolvers and orders, and every value of the time constants.             *)
(***************************************************************************)
EXTENDS BrokerEdge, TLAPS

-----------------------------------------------------------------------------
(* Type correctness. *)

\* What is handed to a caller is a receipt.
LEMMA EffectiveType ==
  ASSUME StoreTypeOK, NEW c \in Commands
  PROVE  Effective(c) \in Receipt
  BY DEF StoreTypeOK, Effective, Receipt, Row

\* Handing a receipt to a caller keeps the type of told.
LEMMA TellType ==
  ASSUME StoreTypeOK, NEW c \in Commands, NEW r \in Receipt, Tell(c, r)
  PROVE  told' \in [Commands -> SUBSET Receipt]
  BY DEF StoreTypeOK, Tell

\* The requests of a placement and the orders are what RequestAssumption says.
LEMMA PlacementFacts ==
  /\ PlaceRequests \subseteq Placements
  /\ \A p \in Placements : p.scope \in Scopes /\ p.facts \in Facts
  /\ \A d \in PlaceRequests : d.id \in Commands
  /\ Placements \subseteq OrderIds /\ NoOrder \in OrderIds
  BY RequestAssumption DEF Placements, Request, OrderIds

\* Each statement of the store keeps the types of its tables.
LEMMA StatementTypes ==
  ASSUME StoreTypeOK
  PROVE  /\ \A c \in Commands : InsertFinal(c) =>
              commands' \in [Commands -> Row] /\ UNCHANGED <<contexts, resolutions, cancels>>
         /\ \A d \in PlaceRequests, t \in Nat : InsertPending(d, t) =>
              /\ commands' \in [Commands -> Row] /\ contexts' \in [Commands -> Context]
              /\ UNCHANGED <<resolutions, cancels>>
         /\ \A c \in Commands, r \in Receipt : FinalizeRow(c, r) =>
              commands' \in [Commands -> Row] /\ UNCHANGED <<contexts, resolutions, cancels>>
         /\ \A c \in Commands, r \in Receipt : ResolveUnknown(c, r) =>
              resolutions' \in [Commands -> Receipt] /\ UNCHANGED <<commands, contexts, cancels>>
         /\ \A c \in Commands : InsertCancel(c) =>
              /\ cancels' \in [Commands -> CancelStates \union {"none"}]
              /\ UNCHANGED <<commands, contexts, resolutions>>
         /\ \A c \in Commands, s \in CancelStates : FinalizeCancelRow(c, s) =>
              /\ cancels' \in [Commands -> CancelStates \union {"none"}]
              /\ UNCHANGED <<commands, contexts, resolutions>>
<1> USE PlacementFacts
<1>1. ASSUME NEW c \in Commands, InsertFinal(c)
      PROVE  commands' \in [Commands -> Row]
  BY <1>1 DEF StoreTypeOK, InsertFinal, Row, Scopes
<1>2. ASSUME NEW d \in PlaceRequests, NEW t \in Nat, InsertPending(d, t)
      PROVE  commands' \in [Commands -> Row] /\ contexts' \in [Commands -> Context]
  <2>1. d.id \in Commands /\ d.scope \in Scopes /\ d.facts \in Facts
    OBVIOUS
  <2>2. [disposition |-> "UNKNOWN", oid |-> NoOrder, phase |-> "pending", scope |-> d.scope] \in Row
    BY <2>1 DEF Row
  <2>3. [facts |-> d.facts, sentAt |-> t, clientId |-> d.scope = "alpaca_paper_crypto"] \in Context
    BY <2>1 DEF Context
  <2>4. QED
    BY <1>2, <2>1, <2>2, <2>3 DEF StoreTypeOK, InsertPending
<1>3. ASSUME NEW c \in Commands, NEW r \in Receipt, FinalizeRow(c, r)
      PROVE  commands' \in [Commands -> Row]
  BY <1>3 DEF StoreTypeOK, FinalizeRow, Row, Receipt
<1>4. ASSUME NEW c \in Commands, NEW r \in Receipt, ResolveUnknown(c, r)
      PROVE  resolutions' \in [Commands -> Receipt]
  BY <1>4 DEF StoreTypeOK, ResolveUnknown
<1>5. ASSUME NEW c \in Commands, InsertCancel(c)
      PROVE  cancels' \in [Commands -> CancelStates \union {"none"}]
  BY <1>5 DEF StoreTypeOK, InsertCancel, CancelStates
<1>6. ASSUME NEW c \in Commands, NEW s \in CancelStates, FinalizeCancelRow(c, s)
      PROVE  cancels' \in [Commands -> CancelStates \union {"none"}]
  BY <1>6 DEF StoreTypeOK, FinalizeCancelRow
<1>7. QED
  BY <1>1, <1>2, <1>3, <1>4, <1>5, <1>6
     DEF InsertFinal, InsertPending, FinalizeRow, ResolveUnknown, InsertCancel, FinalizeCancelRow

\* Steps of a placement.  Each conjunct of TypeOK that a step can disturb is
\* that of its own record, of the tables it writes, or of the wire.
LEMMA PlaceType ==
  ASSUME TypeOK, NEW d \in PlaceRequests, PlaceStep(d)
  PROVE  TypeOK'
<1> USE PlacementFacts DEF TypeOK, ProcessTypeOK, placeFrame, brokerVars
<1>1. /\ PlaceDone \in PlaceState
      /\ d.id \in Commands /\ d \in OrderIds
      /\ \A c \in Commands : Effective(c) \in Receipt
  BY EffectiveType DEF PlaceDone, PlaceState
<1>2. FinalReceipt(d) \in Receipt
  BY DEF FinalReceipt, Receipt, PlaceState
<1>3. [disposition |-> "NOT_CREATED", oid |-> NoOrder] \in Receipt
  BY DEF Receipt
<1>4. ASSUME NEW r \in Receipt, Reply(d, r)
      PROVE  place' \in [PlaceRequests -> PlaceState] /\ told' \in [Commands -> SUBSET Receipt]
  BY <1>1, <1>4, TellType DEF Reply
<1>5. ASSUME NEW pc \in {"validate", "send", "sending", "finalize", "reread"}, Goto(d, pc)
      PROVE  place' \in [PlaceRequests -> PlaceState]
  BY <1>5 DEF Goto, PlaceState
<1>6. CASE Replay(d)
  BY <1>1, <1>4, <1>6 DEF Replay, StoreTypeOK, storeVars
<1>7. CASE NotFound(d)
  BY <1>5, <1>7 DEF NotFound, StoreTypeOK, storeVars
<1>8. CASE Refuse(d)
  BY <1>1, <1>3, <1>4, <1>8, StatementTypes DEF Refuse, StoreTypeOK
<1>9. CASE Prepare(d)
  <2>1. place' \in [PlaceRequests -> PlaceState]
    BY <1>9 DEF Prepare, PlaceState
  <2>2. QED
    BY <1>9, <2>1 DEF Prepare, StoreTypeOK, storeVars
<1>10. CASE Reserve(d)
  <2>1. place[d].sentAt \in Nat
    BY DEF PlaceState
  <2>2. QED
    BY <1>5, <1>10, <2>1, StatementTypes DEF Reserve, StoreTypeOK
<1>11. CASE Conflict(d)
  BY <1>5, <1>11 DEF Conflict, StoreTypeOK, storeVars
<1>12. CASE Reread(d)
  BY <1>1, <1>4, <1>12 DEF Reread, StoreTypeOK, storeVars
<1>13. CASE Send(d)
  <2>1. place' \in [PlaceRequests -> PlaceState]
    BY <1>5, <1>13 DEF Send
  <2>2. posted' \in [PlaceRequests -> Time] /\ wire' \subseteq PlaceRequests
    BY <1>13 DEF Send, Time
  <2>3. QED
    BY <1>13, <2>1, <2>2 DEF Send, StoreTypeOK, storeVars
<1>14. CASE Accepted(d)
  <2>1. place' \in [PlaceRequests -> PlaceState]
    BY <1>1, <1>14 DEF Accepted, PlaceState
  <2>2. QED
    BY <1>14, <2>1 DEF Accepted, StoreTypeOK, storeVars
<1>15. CASE NotAccepted(d)
  BY <1>5, <1>15 DEF NotAccepted, StoreTypeOK, storeVars
<1>16. CASE Finalize(d)
  <2>1. CASE commands[d.id].phase = "pending"
    BY <1>1, <1>2, <1>4, <1>16, <2>1, StatementTypes DEF Finalize, StoreTypeOK
  <2>2. CASE commands[d.id].phase # "pending"
    BY <1>5, <1>16, <2>2 DEF Finalize, StoreTypeOK, storeVars
  <2>3. QED
    BY <2>1, <2>2
<1>17. CASE StoreError(d)
  BY <1>1, <1>17 DEF StoreError, StoreTypeOK, storeVars
<1>18. CASE CommitUnreported(d)
  <2>1. place[d].sentAt \in Nat /\ place' \in [PlaceRequests -> PlaceState]
    BY <1>1, <1>18 DEF CommitUnreported, PlaceState
  <2>2. QED
    BY <1>1, <1>2, <1>18, <2>1, StatementTypes DEF CommitUnreported, StoreTypeOK
<1>19. QED
  BY <1>6, <1>7, <1>8, <1>9, <1>10, <1>11, <1>12, <1>13, <1>14, <1>15, <1>16, <1>17, <1>18
     DEF PlaceStep

\* Steps of a cancel.
LEMMA CancelType ==
  ASSUME TypeOK, NEW x \in CancelRequests, CancelStep(x)
  PROVE  TypeOK'
<1> USE PlacementFacts DEF TypeOK, ProcessTypeOK, cancelFrame, brokerVars
<1>1. x.id \in Commands /\ CancelDone \in CancelState
  BY ProcessAssumption DEF CancelDone, CancelState, CancelStates
<1>2. ASSUME CancelReply(x)
      PROVE  cancel' \in [CancelRequests -> CancelState]
  BY <1>1, <1>2 DEF CancelReply
<1>3. ASSUME NEW pc \in {"target", "reserve", "send", "sending", "reread"}, CancelGoto(x, pc)
      PROVE  cancel' \in [CancelRequests -> CancelState]
  BY <1>3 DEF CancelGoto, CancelState
<1>4. CASE CancelReplay(x)
  BY <1>2, <1>4 DEF CancelReplay, StoreTypeOK, storeVars
<1>5. CASE NoAttempt(x)
  BY <1>3, <1>5 DEF NoAttempt, StoreTypeOK, storeVars
<1>6. CASE CancelRefused(x)
  BY <1>2, <1>6 DEF CancelRefused, StoreTypeOK, storeVars
<1>7. CASE PrepareCancel(x)
  <2>1. Effective(x.id).oid \in OrderIds
    BY <1>1, EffectiveType DEF Receipt
  <2>2. cancel' \in [CancelRequests -> CancelState]
    BY <1>7, <2>1 DEF PrepareCancel, CancelState
  <2>3. QED
    BY <1>7, <2>2 DEF PrepareCancel, StoreTypeOK, storeVars
<1>8. CASE ReserveCancel(x)
  BY <1>1, <1>3, <1>8, StatementTypes DEF ReserveCancel, StoreTypeOK
<1>9. CASE ReserveCancelConflict(x)
  BY <1>3, <1>9 DEF ReserveCancelConflict, StoreTypeOK, storeVars
<1>10. CASE RereadCancel(x)
  BY <1>2, <1>10 DEF RereadCancel, StoreTypeOK, storeVars
<1>11. CASE SendCancel(x)
  <2>1. cancel' \in [CancelRequests -> CancelState] /\ cancel[x].oid \in OrderIds
    BY <1>3, <1>11 DEF SendCancel, CancelState
  <2>2. QED
    BY <1>11, <2>1 DEF SendCancel, StoreTypeOK, storeVars
<1>12. ASSUME NEW state \in CancelStates, CancelAnswered(x, state)
       PROVE  TypeOK'
  <2>1. cancel' \in [CancelRequests -> CancelState]
    BY <1>12 DEF CancelAnswered, CancelState
  <2>2. QED
    BY <1>12, <2>1 DEF CancelAnswered, StoreTypeOK, storeVars
<1>13. CASE FinalizeCancel(x)
  <2>1. cancel[x].state \in CancelStates
    BY DEF CancelState
  <2>2. CASE cancels[x.id] = "UNKNOWN"
    BY <1>1, <1>2, <1>13, <2>1, <2>2, StatementTypes DEF FinalizeCancel, StoreTypeOK
  <2>3. CASE cancels[x.id] # "UNKNOWN"
    BY <1>3, <1>13, <2>3 DEF FinalizeCancel, StoreTypeOK, storeVars
  <2>4. QED
    BY <2>2, <2>3
<1>14. CASE CancelStoreError(x)
  BY <1>2, <1>14 DEF CancelStoreError, StoreTypeOK, storeVars
<1>15. CASE CancelCommitUnreported(x)
  <2>1. cancel[x].state \in CancelStates /\ cancel' \in [CancelRequests -> CancelState]
    BY <1>2, <1>15 DEF CancelCommitUnreported, CancelState
  <2>2. QED
    BY <1>1, <1>15, <2>1, StatementTypes DEF CancelCommitUnreported, StoreTypeOK
<1>16. QED
  BY <1>4, <1>5, <1>6, <1>7, <1>8, <1>9, <1>10, <1>11, <1>12, <1>13, <1>14, <1>15 DEF CancelStep

\* What a resolver turns to next is a state of a resolver.
LEMMA ProceedType ==
  ASSUME ProcessTypeOK, NEW r \in Resolvers, NEW done \in SUBSET Commands, Proceed(r, done)
  PROVE  resolver' \in [Resolvers -> ResolverState]
<1>1. Rest(r, done) \in ResolverState
  <2> DEFINE left == resolver[r].work \ done
             same == resolver[r].group \ done
  <2>1. resolver[r] \in ResolverState /\ left \in SUBSET Commands /\ same \in SUBSET Commands
    BY DEF ProcessTypeOK, ResolverState
  <2>2. Resting \in ResolverState
    BY DEF Resting, ResolverState
  <2>3. [Resting EXCEPT !.pc = "work", !.work = left] \in ResolverState
    BY <2>1 DEF Resting, ResolverState
  <2>4. [resolver[r] EXCEPT !.work = left, !.group = same] \in ResolverState
    BY <2>1 DEF ResolverState
  <2>5. QED
    BY <2>2, <2>3, <2>4 DEF Rest
<1>2. QED
  BY <1>1 DEF Proceed, ProcessTypeOK

\* A conclusion is a receipt, and a conclusive one.
LEMMA ConclusionType ==
  ASSUME ProcessTypeOK, NEW r \in Resolvers, NEW c \in Commands,
         NEW conclusion \in Conclusion(r, c)
  PROVE  conclusion \in Receipt /\ Conclusive(conclusion)
<1>1. resolver[r].evidence \subseteq Placements
  BY DEF ProcessTypeOK, ResolverState
<1>2. Matches(c, resolver[r].evidence) \subseteq OrderIds
  BY <1>1 DEF Matches, OrderIds
<1>3. QED
  BY <1>2, PlacementFacts DEF Conclusion, Receipt, Conclusive

\* Steps of a resolver.
LEMMA ResolverType ==
  ASSUME TypeOK, NEW r \in Resolvers, ResolveStep(r)
  PROVE  TypeOK'
<1> USE PlacementFacts DEF TypeOK, resolverFrame, brokerVars
<1>1. resolver[r] \in ResolverState
  BY DEF ProcessTypeOK
<1>2. Resting \in ResolverState
  BY DEF Resting, ResolverState
<1>3. ASSUME NEW c \in Commands, BeginRead(r, c)
      PROVE  TypeOK'
  <2>1. resolver' \in [Resolvers -> ResolverState]
    BY <1>1, <1>3 DEF BeginRead, ResolverState, ProcessTypeOK
  <2>2. QED
    BY <1>3, <2>1 DEF BeginRead, StoreTypeOK, ProcessTypeOK, storeVars
<1>4. ASSUME NEW c \in Commands, Conclude(r, c)
      PROVE  TypeOK'
  <2>1. PICK conclusion \in Conclusion(r, c) : ResolveUnknown(c, conclusion)
    BY <1>4 DEF Conclude
  <2>2. StoreTypeOK' /\ UNCHANGED <<commands, contexts, cancels>>
    <3>1. resolutions' \in [Commands -> Receipt] /\ UNCHANGED <<commands, contexts, cancels>>
      BY <2>1, ConclusionType, StatementTypes
    <3>2. Effective(c)' \in Receipt
      BY <3>1 DEF StoreTypeOK, Effective, Receipt, Row
    <3>3. told' \in [Commands -> SUBSET Receipt]
      BY <1>4, <3>2 DEF Conclude, Tell, StoreTypeOK
    <3>4. QED
      BY <3>1, <3>3 DEF StoreTypeOK
  <2>3. resolver' \in [Resolvers -> ResolverState]
    BY <1>4, ProceedType DEF Conclude
  <2>4. QED
    BY <1>4, <2>2, <2>3 DEF Conclude, ProcessTypeOK
<1>5. ASSUME NEW c \in Commands, LeaveUnknown(r, c)
      PROVE  TypeOK'
  <2>1. resolver' \in [Resolvers -> ResolverState]
    BY <1>5, ProceedType DEF LeaveUnknown
  <2>2. QED
    BY <1>5, <2>1 DEF LeaveUnknown, StoreTypeOK, ProcessTypeOK, storeVars
<1>6. ASSUME NEW c \in Commands, ResolveError(r, c)
      PROVE  TypeOK'
  <2>1. resolver' \in [Resolvers -> ResolverState]
    BY <1>2, <1>6 DEF ResolveError, ProcessTypeOK
  <2>2. resolutions' \in [Commands -> Receipt] /\ UNCHANGED <<commands, contexts, cancels>>
    BY <1>6, ConclusionType, StatementTypes DEF ResolveError, StoreTypeOK, storeVars
  <2>3. QED
    BY <1>6, <2>1, <2>2 DEF ResolveError, StoreTypeOK, ProcessTypeOK
<1>7. ASSUME NEW orders \in SUBSET Placements, EndRead(r, orders)
      PROVE  TypeOK'
  <2>1. resolver' \in [Resolvers -> ResolverState]
    BY <1>1, <1>7 DEF EndRead, ResolverState, ProcessTypeOK
  <2>2. QED
    BY <1>7, <2>1 DEF EndRead, StoreTypeOK, ProcessTypeOK, storeVars
<1>8. CASE ReadFails(r)
  <2>1. resolver[r].group \subseteq Commands
    BY <1>1 DEF ResolverState
  <2>2. resolver' \in [Resolvers -> ResolverState]
    BY <1>8, <2>1, ProceedType DEF ReadFails
  <2>3. QED
    BY <1>8, <2>2 DEF ReadFails, StoreTypeOK, ProcessTypeOK, storeVars
<1>9. QED
  BY <1>3, <1>4, <1>5, <1>6, <1>7, <1>8 DEF ResolveStep

\* Snapshots, checks, kills, crashes, the broker and the clock.
LEMMA WorldType ==
  ASSUME TypeOK,
         \/ \E b \in Batches : Snapshot(b) \/ KillBatch(b)
         \/ \E k \in Checks, c \in Commands : CheckReplay(k, c) \/ CheckOne(k, c)
         \/ BrokerStep \/ Tick \/ Crash
  PROVE  TypeOK'
<1> USE PlacementFacts DEF TypeOK, Resolvers, edgeVars, processVars, resolverFrame, brokerVars
<1>1. Resting \in ResolverState
  BY DEF Resting, ResolverState
<1>2. ASSUME NEW S, KillResolvers(S)
      PROVE  resolver' \in [Resolvers -> ResolverState]
  BY <1>1, <1>2 DEF KillResolvers, ProcessTypeOK
<1>3. ASSUME NEW b \in Batches, Snapshot(b)
      PROVE  TypeOK'
  <2>1. [Resting EXCEPT !.pc = "work",
                        !.work = {c \in Pending(Scopes) : Readable(c)}] \in ResolverState
    BY DEF Resting, ResolverState, Pending
  <2>2. resolver' \in [Resolvers -> ResolverState]
    BY <1>3, <2>1 DEF Snapshot, ProcessTypeOK
  <2>3. QED
    BY <1>3, <2>2 DEF Snapshot, StoreTypeOK, ProcessTypeOK, storeVars
<1>4. ASSUME NEW b \in Batches, KillBatch(b)
      PROVE  TypeOK'
  BY <1>2, <1>4 DEF KillBatch, StoreTypeOK, ProcessTypeOK, storeVars
<1>5. ASSUME NEW k \in Checks, NEW c \in Commands, CheckReplay(k, c)
      PROVE  TypeOK'
  <2>1. told' \in [Commands -> SUBSET Receipt]
    BY <1>5, EffectiveType, TellType DEF CheckReplay
  <2>2. QED
    BY <1>5, <2>1 DEF CheckReplay, StoreTypeOK, ProcessTypeOK, storeVars
<1>6. ASSUME NEW k \in Checks, NEW c \in Commands, CheckOne(k, c)
      PROVE  TypeOK'
  <2>1. [Resting EXCEPT !.pc = "work", !.work = {c}] \in ResolverState
    BY DEF Resting, ResolverState
  <2>2. resolver' \in [Resolvers -> ResolverState]
    BY <1>6, <2>1 DEF CheckOne, ProcessTypeOK
  <2>3. QED
    BY <1>6, <2>2 DEF CheckOne, StoreTypeOK, ProcessTypeOK, storeVars
<1>7. CASE BrokerStep
  <2> USE DEF StoreTypeOK, ProcessTypeOK, storeVars
  <2>1. ASSUME NEW d \in PlaceRequests, Book(d)
        PROVE  TypeOK'
    BY <2>1 DEF Book, Time
  <2>2. ASSUME NEW d \in PlaceRequests, Drop(d)
        PROVE  TypeOK'
    BY <2>2 DEF Drop
  <2>3. ASSUME NEW f \in ForeignOrders, BookForeign(f)
        PROVE  TypeOK'
    BY <2>3 DEF BookForeign, Time
  <2>4. ASSUME NEW m \in cancelPosts, Close(m)
        PROVE  TypeOK'
    BY <2>4 DEF Close
  <2>5. QED
    BY <1>7, <2>1, <2>2, <2>3, <2>4 DEF BrokerStep
<1>8. CASE Tick
  BY <1>8 DEF Tick, StoreTypeOK, ProcessTypeOK, storeVars
<1>9. CASE Crash
  <2>1. place' \in [PlaceRequests -> PlaceState]
    BY <1>9 DEF Crash, KillPlacements, PlaceIdle, PlaceDone, PlaceState
  <2>2. cancel' \in [CancelRequests -> CancelState]
    BY <1>9 DEF Crash, KillCancels, CancelIdle, CancelDone, CancelState, CancelStates
  <2>3. resolver' \in [Resolvers -> ResolverState]
    BY <1>2, <1>9 DEF Crash
  <2>4. QED
    BY <1>9, <2>1, <2>2, <2>3 DEF Crash, StoreTypeOK, ProcessTypeOK, storeVars
<1>10. QED
  BY <1>3, <1>4, <1>5, <1>6, <1>7, <1>8, <1>9

\* The initial tables have their types, whatever rows earlier releases left.
LEMMA InitType == Init => TypeOK
<1> SUFFICES ASSUME Init PROVE TypeOK
  OBVIOUS
<1>1. \A c \in Commands : FirstRows(c) \subseteq Row
  <2>1. NoRow \in Row
    BY DEF NoRow, Row, OrderIds
  <2>2. \A l \in LegacyPlacements : LegacyRow(l) \subseteq Row
    BY RequestAssumption DEF LegacyRow, Row, OrderIds, Placements, Request
  <2>3. QED
    BY <2>1, <2>2 DEF FirstRows, LegacyOf
<1>2. \A c \in Commands : FirstContexts(c) \subseteq Context
  <2>1. NoContext \in Context
    BY DEF NoContext, Context
  <2>2. \A l \in LegacyPlacements : LegacyContext(l) \subseteq Context
    <3> SUFFICES ASSUME NEW l \in LegacyPlacements,
                        NEW k \in [facts : {l.facts}, sentAt : {0}, clientId : {FALSE}]
                 PROVE  k \in Context
      BY <2>1 DEF LegacyContext
    <3>1. l.facts \in Facts
      BY PlacementFacts DEF Placements
    <3>2. k = [facts |-> l.facts, sentAt |-> 0, clientId |-> FALSE]
      OBVIOUS
    <3>3. QED
      BY <3>1, <3>2 DEF Context
  <2>3. QED
    BY <2>1, <2>2 DEF FirstContexts, LegacyOf
<1>3. StoreTypeOK
  <2>1. resolutions \in [Commands -> Receipt]
    BY DEF Init, StoreInit, NoResolution, Receipt, OrderIds
  <2>2. cancels \in [Commands -> CancelStates \union {"none"}] /\ told \in [Commands -> SUBSET Receipt]
    BY DEF Init, StoreInit
  <2>3. commands \in [Commands -> Row] /\ contexts \in [Commands -> Context]
    BY <1>1, <1>2 DEF Init, StoreInit
  <2>4. QED
    BY <2>1, <2>2, <2>3 DEF StoreTypeOK
<1>4. ProcessTypeOK
  <2>1. PlaceIdle \in PlaceState
    BY DEF PlaceIdle, PlaceState, OrderIds
  <2>2. CancelIdle \in CancelState
    BY DEF CancelIdle, CancelState, CancelStates, OrderIds
  <2>3. Resting \in ResolverState
    BY DEF Resting, ResolverState
  <2>4. QED
    BY <2>1, <2>2, <2>3 DEF Init, ProcessInit, ProcessTypeOK
<1>5. QED
  BY <1>3, <1>4 DEF Init, BrokerInit, TypeOK, Time

\* Every step keeps the types.
LEMMA NextType == TypeOK /\ [Next]_vars => TypeOK'
<1> SUFFICES ASSUME TypeOK, [Next]_vars PROVE TypeOK'
  OBVIOUS
<1>1. CASE Next
  BY <1>1, PlaceType, CancelType, ResolverType, WorldType DEF Next
<1>2. CASE UNCHANGED vars
  BY <1>2 DEF vars, storeVars, processVars, brokerVars, TypeOK, StoreTypeOK, ProcessTypeOK
<1>3. QED
  BY <1>1, <1>2

\* Every variable has its type in every reachable state.
THEOREM TypeCorrect == Spec => []TypeOK
  BY InitType, NextType, PTL DEF Spec
=============================================================================
