--------------------------- MODULE BrokerEdgeSafety ----------------------------
(***************************************************************************)
(* Safety of BrokerEdge that needs no assumption about time, orders of      *)
(* others, or the broker: one POST per command, write-ahead receipts, final *)
(* conclusions, one cancel request per command.                             *)
(***************************************************************************)
EXTENDS BrokerEdgeProofs

-----------------------------------------------------------------------------
(* The inductive invariants. *)

\* The goroutine that reserved a receipt and has not finalized it yet.
Owner(d) == place[d].pc \in {"send", "sending", "finalize"}

\* A pending receipt has at most one owner, holds what its owner sends, and was
\* not sent by anybody else; an owner about to send has not sent.
PlacementInv ==
  /\ \A c \in Commands : commands[c].phase = "pending" => commands[c].disposition = "UNKNOWN"
  /\ \A d \in PlaceRequests : Owner(d) =>
       /\ commands[d.id].phase = "pending"
       /\ commands[d.id].scope = d.scope
       /\ contexts[d.id].facts = d.facts
       /\ contexts[d.id].sentAt <= now
  /\ \A d, e \in PlaceRequests : Owner(d) /\ Owner(e) /\ d.id = e.id => d = e
  /\ \A d, e \in PlaceRequests :
       posted[d] # Never /\ Owner(e) /\ d.id = e.id => d = e /\ ~At(e, "send")
  /\ \A d \in PlaceRequests : At(d, "reserve") => place[d].sentAt <= now
  /\ AtMostOnePost
  /\ WriteAhead

CancelOwner(x) == cancel[x].pc \in {"send", "sending", "finalize"}

\* The same for the UNKNOWN marker of a cancel, whose order stays the order of
\* the target from the moment it was read.
CancelInv ==
  /\ \A x \in CancelRequests : CancelOwner(x) => cancels[x.id] = "UNKNOWN"
  /\ \A x, y \in CancelRequests : CancelOwner(x) /\ CancelOwner(y) /\ x.id = y.id => x = y
  /\ \A m \in cancelPosts, x \in CancelRequests :
       CancelOwner(x) /\ m.by.id = x.id => m.by = x /\ ~CancelAt(x, "send")
  /\ \A x \in CancelRequests : CancelOwner(x) \/ CancelAt(x, "reserve") =>
       Effective(x.id) = [disposition |-> "ACCEPTED", oid |-> cancel[x].oid]
  /\ OneCancelPost

-----------------------------------------------------------------------------
(* What each kind of step leaves alone. *)

\* A placement leaves resolutions, cancels, resolvers, clock and book alone.
LEMMA PlaceKeeps ==
  ASSUME NEW d \in PlaceRequests, PlaceStep(d)
  PROVE  UNCHANGED <<resolutions, cancels, cancel, resolver, now, booked, closed, cancelPosts>>
  BY DEF PlaceStep, Replay, NotFound, Refuse, Prepare, Reserve, Conflict, Reread, Send, Accepted,
         NotAccepted, Finalize, StoreError, CommitUnreported, InsertFinal, InsertPending,
         FinalizeRow, placeFrame, storeVars, brokerVars

\* A cancel only writes its marker and sends its request.
LEMMA CancelKeeps ==
  ASSUME NEW x \in CancelRequests, CancelStep(x)
  PROVE  UNCHANGED <<told, commands, contexts, resolutions, place, resolver,
                     now, posted, wire, booked, closed>>
  BY DEF CancelStep, CancelReplay, NoAttempt, CancelRefused, PrepareCancel, ReserveCancel,
         ReserveCancelConflict, RereadCancel, SendCancel, CancelAnswered, FinalizeCancel,
         CancelStoreError, CancelCommitUnreported, InsertCancel, FinalizeCancelRow, cancelFrame,
         storeVars, brokerVars

\* Steps of the resolvers: those of ResolveStep, and how a run or check begins
\* and dies.
ResolverMoves ==
  \/ \E r \in Resolvers : ResolveStep(r)
  \/ \E b \in Batches : Snapshot(b) \/ KillBatch(b)
  \/ \E k \in Checks, c \in Commands : CheckReplay(k, c) \/ CheckOne(k, c)

\* A resolver only appends resolutions and tells receipts.
LEMMA ResolverKeeps ==
  ASSUME ResolverMoves
  PROVE  UNCHANGED <<commands, contexts, cancels, place, cancel,
                     now, posted, wire, booked, closed, cancelPosts>>
  BY DEF ResolverMoves, ResolveStep, BeginRead, Conclude, LeaveUnknown, ResolveError, EndRead,
         ReadFails, Snapshot, KillBatch, CheckReplay, CheckOne, ResolveUnknown, resolverFrame,
         storeVars, brokerVars

\* The broker and the clock leave the edge alone; a crash leaves what is stored.
LEMMA WorldKeeps ==
  /\ BrokerStep \/ Tick =>
       /\ UNCHANGED <<told, commands, contexts, resolutions, cancels, place, cancel, resolver,
                      posted, cancelPosts>>
       /\ closed \subseteq closed'
  /\ Crash =>
       UNCHANGED <<told, commands, contexts, resolutions, cancels,
                   now, posted, wire, booked, closed, cancelPosts>>
  /\ BrokerStep \/ UNCHANGED vars => UNCHANGED now
  BY DEF BrokerStep, Book, Drop, BookForeign, Close, Tick, Crash, edgeVars, storeVars,
         processVars, brokerVars, vars

\* The kinds of steps.
LEMMA StepKinds ==
  ASSUME [Next]_vars
  PROVE  \/ \E d \in PlaceRequests : PlaceStep(d)
         \/ \E x \in CancelRequests : CancelStep(x)
         \/ ResolverMoves
         \/ BrokerStep \/ Tick
         \/ Crash
         \/ UNCHANGED vars
  BY DEF Next, ResolverMoves

-----------------------------------------------------------------------------
(* Placements. *)

\* A step that leaves receipts, contexts, placements and POSTs alone, and does
\* not turn the clock back, preserves the invariant.
LEMMA PlacementFrame ==
  ASSUME TypeOK, PlacementInv,
         UNCHANGED <<commands, contexts, place, posted>>, now' \in Nat, now <= now'
  PROVE  PlacementInv'
<1>1. \A d \in PlaceRequests : d.id \in Commands /\ contexts[d.id].sentAt \in Nat /\ place[d].sentAt \in Nat
  BY PlacementFacts DEF TypeOK, StoreTypeOK, ProcessTypeOK, Context, PlaceState
<1>2. now \in Nat
  BY DEF TypeOK
<1>3. QED
  BY <1>1, <1>2 DEF PlacementInv, AtMostOnePost, WriteAhead, Owner, At

\* A delivery that ends, or goes on without owning a receipt, while the stored
\* receipts and contexts stay as they are.
LEMMA Disowned ==
  ASSUME TypeOK, PlacementInv, NEW d \in PlaceRequests, NEW s \in PlaceState,
         s.pc \notin {"send", "sending", "finalize"},
         s.pc = "reserve" => s.sentAt <= now,
         place' = [place EXCEPT ![d] = s],
         UNCHANGED <<contexts, posted, now>>,
         \A c \in Commands : Stored(c) => commands'[c] = commands[c],
         \A c \in Commands : commands'[c].phase = "pending" => commands'[c].disposition = "UNKNOWN"
  PROVE  PlacementInv'
<1>1. \A e \in PlaceRequests : Owner(e)' => Owner(e) /\ place'[e] = place[e]
  BY DEF Owner, TypeOK, ProcessTypeOK
<1>2. \A e \in PlaceRequests : At(e, "reserve")' => place'[e].sentAt <= now
  BY DEF PlacementInv, At, TypeOK, ProcessTypeOK
<1>3. \A e \in PlaceRequests : Owner(e) \/ posted[e] # Never => Stored(e.id) /\ e.id \in Commands
  BY PlacementFacts DEF PlacementInv, WriteAhead, Stored, NoRow
<1>4. QED
  BY <1>1, <1>2, <1>3 DEF PlacementInv, AtMostOnePost, WriteAhead, At

\* The owner of a pending receipt finalizes it and is done.
LEMMA Finalized ==
  ASSUME TypeOK, PlacementInv, NEW d \in PlaceRequests, Owner(d),
         FinalizeRow(d.id, FinalReceipt(d)),
         place' = [place EXCEPT ![d] = PlaceDone],
         UNCHANGED <<posted, now>>
  PROVE  PlacementInv'
<1>1. d.id \in Commands /\ \A e \in PlaceRequests : e.id \in Commands
  BY PlacementFacts
<1>2. FinalReceipt(d).disposition \in {"ACCEPTED", "UNKNOWN"}
  BY DEF FinalReceipt
<1>3. /\ commands'[d.id].disposition \in {"ACCEPTED", "UNKNOWN"}
      /\ commands'[d.id].phase = "final"
      /\ commands'[d.id].scope = commands[d.id].scope
  BY <1>1, <1>2 DEF FinalizeRow, TypeOK, StoreTypeOK, Row
<1>4. \A c \in Commands : c # d.id => commands'[c] = commands[c]
  BY <1>1 DEF FinalizeRow, TypeOK, StoreTypeOK
<1>5. \A e \in PlaceRequests : Owner(e)' => Owner(e) /\ e.id # d.id /\ place'[e] = place[e]
  BY DEF Owner, PlacementInv, PlaceDone, TypeOK, ProcessTypeOK
<1>6. \A e \in PlaceRequests : At(e, "reserve")' => At(e, "reserve") /\ place'[e] = place[e]
  BY DEF At, PlaceDone, TypeOK, ProcessTypeOK
<1>7. UNCHANGED <<contexts, posted, now>>
  BY DEF FinalizeRow
<1>8. QED
  BY <1>1, <1>3, <1>4, <1>5, <1>6, <1>7 DEF PlacementInv, AtMostOnePost, WriteAhead, At

\* A delivery reserves the receipt of its command: nobody owned or sent it.
LEMMA Reserved ==
  ASSUME TypeOK, PlacementInv, NEW d \in PlaceRequests, At(d, "reserve"),
         InsertPending(d, place[d].sentAt),
         NEW s \in PlaceState, s.pc \in {"send", "done"},
         place' = [place EXCEPT ![d] = s],
         UNCHANGED <<posted, now>>
  PROVE  PlacementInv'
<1>1. d.id \in Commands /\ \A e \in PlaceRequests : e.id \in Commands
  BY PlacementFacts
<1>2. /\ commands'[d.id].disposition = "UNKNOWN"
      /\ commands'[d.id].phase = "pending"
      /\ commands'[d.id].scope = d.scope
      /\ contexts'[d.id].facts = d.facts
      /\ contexts'[d.id].sentAt = place[d].sentAt
  BY <1>1 DEF InsertPending, TypeOK, StoreTypeOK
<1>3. \A c \in Commands : c # d.id => commands'[c] = commands[c] /\ contexts'[c] = contexts[c]
  BY <1>1 DEF InsertPending, TypeOK, StoreTypeOK
<1>4. \A e \in PlaceRequests : e.id = d.id => ~Owner(e) /\ posted[e] = Never
  BY DEF PlacementInv, WriteAhead, InsertPending, Stored, NoRow
<1>5. \A e \in PlaceRequests : e # d => place'[e] = place[e]
  BY DEF TypeOK, ProcessTypeOK
<1>6. place[d].sentAt <= now
  BY DEF PlacementInv
<1>7. place'[d].pc \in {"send", "done"}
  BY DEF TypeOK, ProcessTypeOK
<1>8. UNCHANGED <<posted, now>>
  OBVIOUS
<1>9. QED
  BY <1>1, <1>2, <1>3, <1>4, <1>5, <1>6, <1>7, <1>8
     DEF PlacementInv, AtMostOnePost, WriteAhead, At, Owner

\* Every step of a placement preserves the invariant.
LEMMA PlacementStep ==
  ASSUME TypeOK, PlacementInv, NEW d \in PlaceRequests, PlaceStep(d)
  PROVE  PlacementInv'
<1> USE DEF brokerVars
<1>1. /\ d.id \in Commands /\ place[d] \in PlaceState
      /\ PlaceDone \in PlaceState /\ PlaceDone.pc = "done"
  BY PlacementFacts DEF TypeOK, ProcessTypeOK, PlaceDone, PlaceState
<1>2. \A c \in Commands : commands[c].phase = "pending" => commands[c].disposition = "UNKNOWN"
  BY DEF PlacementInv
<1>3. ASSUME UNCHANGED <<commands, contexts, posted, now>>,
             place' = [place EXCEPT ![d] = PlaceDone]
      PROVE  PlacementInv'
  BY <1>1, <1>2, <1>3, Disowned
<1>4. ASSUME NEW pc \in {"validate", "reread"}, Goto(d, pc),
             UNCHANGED <<commands, contexts, posted, now>>
      PROVE  PlacementInv'
  <2>1. [place[d] EXCEPT !.pc = pc] \in PlaceState
    BY <1>1 DEF PlaceState
  <2>2. [place[d] EXCEPT !.pc = pc].pc = pc
    BY <1>1 DEF PlaceState
  <2>3. QED
    BY <1>2, <1>4, <2>1, <2>2, Disowned DEF Goto
<1>5. ASSUME InsertFinal(d.id), place' = [place EXCEPT ![d] = PlaceDone], UNCHANGED <<posted, now>>
      PROVE  PlacementInv'
  <2>1. \A c \in Commands : Stored(c) => commands'[c] = commands[c]
    BY <1>1, <1>5 DEF InsertFinal, Stored, TypeOK, StoreTypeOK
  <2>2. \A c \in Commands : commands'[c].phase = "pending" => commands'[c].disposition = "UNKNOWN"
    BY <1>1, <1>2, <1>5 DEF InsertFinal, TypeOK, StoreTypeOK
  <2>3. UNCHANGED <<contexts, posted, now>>
    BY <1>5 DEF InsertFinal
  <2>4. QED
    BY <1>1, <1>5, <2>1, <2>2, <2>3, Disowned
<1>6. ASSUME NEW s \in PlaceState, place' = [place EXCEPT ![d] = s], Owner(d),
             s.pc \in {"sending", "finalize"},
             UNCHANGED <<commands, contexts, posted, now>>
      PROVE  PlacementInv'
  <2>1. \A e \in PlaceRequests : Owner(e)' => Owner(e)
    BY <1>6 DEF Owner, TypeOK, ProcessTypeOK
  <2>2. \A e \in PlaceRequests : At(e, "send")' => At(e, "send")
    BY <1>6 DEF At, TypeOK, ProcessTypeOK
  <2>3. \A e \in PlaceRequests : At(e, "reserve")' => At(e, "reserve") /\ place'[e] = place[e]
    BY <1>6 DEF At, TypeOK, ProcessTypeOK
  <2>4. QED
    BY <1>6, <2>1, <2>2, <2>3 DEF PlacementInv, AtMostOnePost, WriteAhead
<1>7. CASE Replay(d)
  BY <1>3, <1>7 DEF Replay, Reply, storeVars
<1>8. CASE NotFound(d)
  BY <1>4, <1>8 DEF NotFound, storeVars
<1>9. CASE Refuse(d)
  BY <1>5, <1>9 DEF Refuse, Reply
<1>10. CASE Prepare(d)
  <2> DEFINE s == [place[d] EXCEPT !.pc = "reserve", !.sentAt = now]
  <2>1. s \in PlaceState /\ s.pc = "reserve" /\ s.sentAt = now /\ now \in Nat
    BY <1>1 DEF PlaceState, TypeOK
  <2>2. place' = [place EXCEPT ![d] = s]
    BY <1>1, <1>10 DEF Prepare, PlaceState, TypeOK, ProcessTypeOK
  <2>3. UNCHANGED <<commands, contexts, posted, now>>
    BY <1>10 DEF Prepare, storeVars
  <2>4. s.pc \notin {"send", "sending", "finalize"} /\ s.sentAt <= now
    BY <2>1
  <2>5. \A c \in Commands : Stored(c) => commands'[c] = commands[c]
    BY <2>3
  <2>6. \A c \in Commands : commands'[c].phase = "pending" => commands'[c].disposition = "UNKNOWN"
    BY <1>2, <2>3
  <2> HIDE DEF s
  <2>7. QED
    BY <2>1, <2>2, <2>3, <2>4, <2>5, <2>6, Disowned
<1>11. CASE Reserve(d)
  <2> DEFINE s == [place[d] EXCEPT !.pc = "send"]
  <2>1. s \in PlaceState /\ s.pc = "send"
    BY <1>1 DEF PlaceState
  <2>2. QED
    BY <1>11, <2>1, Reserved DEF Reserve, Goto
<1>12. CASE Conflict(d)
  BY <1>4, <1>12 DEF Conflict, storeVars
<1>13. CASE Reread(d)
  BY <1>3, <1>13 DEF Reread, Reply, storeVars
<1>14. CASE Send(d)
  <2>1. /\ \A e \in PlaceRequests : Owner(e)' <=> Owner(e)
        /\ \A e \in PlaceRequests : At(e, "send")' => At(e, "send") /\ e # d
        /\ \A e \in PlaceRequests : At(e, "reserve")' => At(e, "reserve") /\ place'[e] = place[e]
    BY <1>14 DEF Send, Goto, At, Owner, TypeOK, ProcessTypeOK, PlaceState
  <2>2. /\ posted'[d] = now /\ now \in Nat
        /\ \A e \in PlaceRequests : e # d => posted'[e] = posted[e]
        /\ UNCHANGED <<commands, contexts, now>>
    BY <1>14 DEF Send, TypeOK, storeVars
  <2>3. Owner(d) /\ \A e \in PlaceRequests : e.id = d.id => posted[e] = Never
    BY <1>14 DEF Send, Owner, At, PlacementInv
  <2>4. /\ commands[d.id].disposition = "UNKNOWN" /\ commands[d.id].scope = d.scope
        /\ contexts[d.id].facts = d.facts /\ contexts[d.id].sentAt <= now
    BY <1>1, <2>3 DEF PlacementInv
  <2>5. AtMostOnePost'
    BY <2>2, <2>3 DEF PlacementInv, AtMostOnePost
  <2>6. WriteAhead'
    BY <2>2, <2>4 DEF PlacementInv, WriteAhead
  <2>7. \A e, f \in PlaceRequests :
          posted'[e] # Never /\ Owner(f)' /\ e.id = f.id => e = f /\ ~At(f, "send")'
    <3> SUFFICES ASSUME NEW e \in PlaceRequests, NEW f \in PlaceRequests,
                        posted'[e] # Never, Owner(f)', e.id = f.id
                 PROVE  e = f /\ ~At(f, "send")'
      OBVIOUS
    <3>1. Owner(f)
      BY <2>1
    <3>2. CASE e = d
      BY <2>1, <2>3, <3>1, <3>2 DEF PlacementInv
    <3>3. CASE e # d
      BY <2>1, <2>2, <3>1, <3>3 DEF PlacementInv
    <3>4. QED
      BY <3>2, <3>3
  <2>8. QED
    BY <2>1, <2>2, <2>5, <2>6, <2>7 DEF PlacementInv
<1>15. CASE Accepted(d)
  <2> DEFINE s == [place[d] EXCEPT !.pc = "finalize", !.oid = d]
  <2>1. s \in PlaceState /\ s.pc = "finalize"
    BY <1>1, PlacementFacts DEF PlaceState
  <2>2. place' = [place EXCEPT ![d] = s]
    BY <1>1, <1>15 DEF Accepted, PlaceState, TypeOK, ProcessTypeOK
  <2> HIDE DEF s
  <2>3. QED
    BY <1>6, <1>15, <2>1, <2>2 DEF Accepted, Owner, At, storeVars
<1>16. CASE NotAccepted(d)
  <2> DEFINE s == [place[d] EXCEPT !.pc = "finalize"]
  <2>1. s \in PlaceState /\ s.pc = "finalize"
    BY <1>1 DEF PlaceState
  <2>2. QED
    BY <1>6, <1>16, <2>1 DEF NotAccepted, Goto, Owner, storeVars
<1>17. CASE Finalize(d)
  <2>1. Owner(d) /\ commands[d.id].phase = "pending"
    BY <1>17 DEF Finalize, Owner, At, PlacementInv
  <2>2. QED
    BY <1>17, <2>1, Finalized DEF Finalize, Reply
<1>18. CASE StoreError(d)
  BY <1>3, <1>18 DEF StoreError, storeVars
<1>19. CASE CommitUnreported(d)
  <2>1. CASE At(d, "validate") /\ InsertFinal(d.id)
    BY <1>5, <1>19, <2>1 DEF CommitUnreported
  <2>2. CASE At(d, "reserve") /\ InsertPending(d, place[d].sentAt)
    BY <1>1, <1>19, <2>2, Reserved DEF CommitUnreported
  <2>3. CASE At(d, "finalize") /\ FinalizeRow(d.id, FinalReceipt(d))
    BY <1>19, <2>3, Finalized DEF CommitUnreported, Owner, At
  <2>4. QED
    BY <1>19, <2>1, <2>2, <2>3 DEF CommitUnreported
<1>20. QED
  BY <1>7, <1>8, <1>9, <1>10, <1>11, <1>12, <1>13, <1>14, <1>15, <1>16, <1>17, <1>18, <1>19
     DEF PlaceStep

\* Besides placements, only a crash and the clock touch what the invariant is about.
LEMMA PlacementNext == TypeOK /\ PlacementInv /\ [Next]_vars => PlacementInv'
<1> SUFFICES ASSUME TypeOK, PlacementInv, [Next]_vars PROVE PlacementInv'
  OBVIOUS
<1>1. now \in Nat
  BY DEF TypeOK
<1>2. ASSUME UNCHANGED <<commands, contexts, place, posted, now>>
      PROVE  PlacementInv'
  BY <1>1, <1>2, PlacementFrame
<1>3. CASE \E d \in PlaceRequests : PlaceStep(d)
  BY <1>3, PlacementStep
<1>4. CASE (\E x \in CancelRequests : CancelStep(x)) \/ ResolverMoves
  BY <1>2, <1>4, CancelKeeps, ResolverKeeps
<1>5. CASE BrokerStep \/ UNCHANGED vars
  BY <1>2, <1>5, WorldKeeps DEF vars, storeVars, processVars, brokerVars
<1>6. CASE Tick
  <2>1. UNCHANGED <<commands, contexts, place, posted>> /\ now' = now + 1
    BY <1>6, WorldKeeps DEF Tick
  <2>2. now' \in Nat /\ now <= now'
    BY <1>1, <2>1
  <2>3. QED
    BY <2>1, <2>2, PlacementFrame
<1>7. CASE Crash
  <2>1. UNCHANGED <<commands, contexts, posted, now>>
    BY <1>7, WorldKeeps
  <2>2. \A d \in PlaceRequests : ~Owner(d)' /\ ~At(d, "reserve")'
    BY <1>7 DEF Crash, KillPlacements, Owner, At, PlaceIdle, PlaceDone
  <2>3. QED
    BY <2>1, <2>2 DEF PlacementInv, AtMostOnePost, WriteAhead
<1>8. QED
  BY <1>3, <1>4, <1>5, <1>6, <1>7, StepKinds

\* Nobody owns a receipt at first; earlier releases left UNKNOWN ones.
LEMMA PlacementInit == Init => PlacementInv
<1> SUFFICES ASSUME Init PROVE PlacementInv
  OBVIOUS
<1>1. \A c \in Commands : commands[c].phase = "pending" => commands[c].disposition = "UNKNOWN"
  <2>1. \A c \in Commands : commands[c] \in FirstRows(c)
    BY DEF Init, StoreInit
  <2>2. \A l \in LegacyPlacements : \A row \in LegacyRow(l) : row.disposition = "UNKNOWN"
    BY DEF LegacyRow
  <2>3. NoRow.phase # "pending"
    BY DEF NoRow
  <2>4. ASSUME NEW c \in Commands, commands[c].phase = "pending"
        PROVE  commands[c].disposition = "UNKNOWN"
    <3>1. CASE LegacyOf(c) = {}
      BY <2>1, <2>3, <2>4, <3>1 DEF FirstRows
    <3>2. CASE LegacyOf(c) # {}
      <4>1. PICK l \in LegacyOf(c) : commands[c] \in LegacyRow(l)
        BY <2>1, <3>2 DEF FirstRows
      <4>2. QED
        BY <2>2, <4>1 DEF LegacyOf
    <3>3. QED
      BY <3>1, <3>2
  <2>5. QED
    BY <2>4
<1>2. \A d \in PlaceRequests : place[d].pc = "idle" /\ posted[d] = Never
  BY DEF Init, ProcessInit, PlaceIdle, BrokerInit
<1>3. QED
  BY <1>1, <1>2 DEF PlacementInv, Owner, At, AtMostOnePost, WriteAhead

\* The invariant of placements.
LEMMA PlacementSafe == Spec => [](TypeOK /\ PlacementInv)
<1>1. Init => TypeOK /\ PlacementInv
  BY InitType, PlacementInit
<1>2. TypeOK /\ PlacementInv /\ [Next]_vars => (TypeOK /\ PlacementInv)'
  BY NextType, PlacementNext
<1>3. QED
  BY <1>1, <1>2, PTL DEF Spec

\* A command is POSTed by at most one of its deliveries.
THEOREM OnePostPerCommand == Spec => []AtMostOnePost
<1>1. PlacementInv => AtMostOnePost
  BY DEF PlacementInv
<1>2. QED
  BY <1>1, PlacementSafe, PTL

\* What left for the broker was recorded first, with the facts that were sent.
THEOREM RecordedBeforeSent == Spec => []WriteAhead
<1>1. PlacementInv => WriteAhead
  BY DEF PlacementInv
<1>2. QED
  BY <1>1, PlacementSafe, PTL

-----------------------------------------------------------------------------
(* Conclusions are final. *)

\* Finalize only replaces a receipt that is not conclusive, and the statements
\* that insert rows find none, or a resolution that counts all the same.
LEMMA FinalStatements ==
  ASSUME TypeOK, PlacementInv, NEW e \in Commands, Conclusive(Effective(e))
  PROVE  /\ \A c \in Commands : InsertFinal(c) => Effective(e)' = Effective(e)
         /\ \A d \in PlaceRequests, t \in Nat : InsertPending(d, t) => Effective(e)' = Effective(e)
         /\ \A c \in Commands, r \in Receipt : FinalizeRow(c, r) => Effective(e)' = Effective(e)
         /\ \A c \in Commands, r \in Receipt : ResolveUnknown(c, r) => Effective(e)' = Effective(e)
<1> USE DEF TypeOK, StoreTypeOK, Effective, Conclusive
<1>1. ASSUME NEW c \in Commands, InsertFinal(c)
      PROVE  Effective(e)' = Effective(e)
  BY <1>1 DEF InsertFinal, Stored, NoRow
<1>2. ASSUME NEW d \in PlaceRequests, NEW t \in Nat, InsertPending(d, t)
      PROVE  Effective(e)' = Effective(e)
  BY <1>2, PlacementFacts DEF InsertPending, Stored, NoRow
<1>3. ASSUME NEW c \in Commands, NEW r \in Receipt, FinalizeRow(c, r)
      PROVE  Effective(e)' = Effective(e)
  BY <1>3 DEF FinalizeRow, PlacementInv
<1>4. ASSUME NEW c \in Commands, NEW r \in Receipt, ResolveUnknown(c, r)
      PROVE  Effective(e)' = Effective(e)
  BY <1>4 DEF ResolveUnknown, Resolvable
<1>5. QED
  BY <1>1, <1>2, <1>3, <1>4

\* Every step keeps a conclusive receipt as it is.
LEMMA ConclusionStep ==
  ASSUME TypeOK, PlacementInv, [Next]_vars, NEW c \in Commands, Conclusive(Effective(c))
  PROVE  Effective(c)' = Effective(c)
<1> USE DEF brokerVars, storeVars, processVars, edgeVars
<1>1. ASSUME UNCHANGED <<commands, resolutions>>
      PROVE  Effective(c)' = Effective(c)
  BY <1>1 DEF Effective
<1>2. ASSUME NEW d \in PlaceRequests, PlaceStep(d)
      PROVE  Effective(c)' = Effective(c)
  <2>1. d.id \in Commands /\ place[d].sentAt \in Nat
    BY PlacementFacts DEF TypeOK, ProcessTypeOK, PlaceState
  <2>2. FinalReceipt(d) \in Receipt
    BY PlacementFacts DEF FinalReceipt, Receipt, TypeOK, ProcessTypeOK, PlaceState
  <2>3. CASE Refuse(d) \/ Reserve(d) \/ Finalize(d) \/ CommitUnreported(d)
    BY <1>1, <2>1, <2>2, <2>3, FinalStatements DEF Refuse, Reserve, Finalize, CommitUnreported
  <2>4. CASE \/ Replay(d) \/ NotFound(d) \/ Prepare(d) \/ Conflict(d) \/ Reread(d)
             \/ Send(d) \/ Accepted(d) \/ NotAccepted(d) \/ StoreError(d)
    BY <1>1, <2>4
       DEF Replay, NotFound, Prepare, Conflict, Reread, Send, Accepted, NotAccepted, StoreError
  <2>5. QED
    BY <1>2, <2>3, <2>4 DEF PlaceStep
<1>3. CASE \E x \in CancelRequests : CancelStep(x)
  BY <1>1, <1>3, CancelKeeps
<1>4. ASSUME NEW r \in Resolvers, ResolveStep(r)
      PROVE  Effective(c)' = Effective(c)
  <2>1. ASSUME NEW e \in Commands, Conclude(r, e) \/ ResolveError(r, e)
        PROVE  Effective(c)' = Effective(c)
    <3>1. \A v \in Conclusion(r, e) : v \in Receipt
      BY ConclusionType DEF TypeOK
    <3>2. QED
      BY <1>1, <2>1, <3>1, FinalStatements DEF Conclude, ResolveError
  <2>2. ASSUME NEW e \in Commands, BeginRead(r, e) \/ LeaveUnknown(r, e)
        PROVE  Effective(c)' = Effective(c)
    BY <1>1, <2>2 DEF BeginRead, LeaveUnknown
  <2>3. ASSUME NEW orders \in SUBSET Placements, EndRead(r, orders)
        PROVE  Effective(c)' = Effective(c)
    BY <1>1, <2>3 DEF EndRead
  <2>4. CASE ReadFails(r)
    BY <1>1, <2>4 DEF ReadFails
  <2>5. QED
    BY <1>4, <2>1, <2>2, <2>3, <2>4 DEF ResolveStep
<1>5. ASSUME NEW b \in Batches, Snapshot(b) \/ KillBatch(b)
      PROVE  UNCHANGED <<commands, resolutions>>
  BY <1>5 DEF Snapshot, KillBatch
<1>6. ASSUME NEW k \in Checks, NEW e \in Commands, CheckReplay(k, e) \/ CheckOne(k, e)
      PROVE  UNCHANGED <<commands, resolutions>>
  BY <1>6 DEF CheckReplay, CheckOne
<1>7. CASE BrokerStep \/ Tick \/ Crash \/ UNCHANGED vars
  BY <1>1, <1>7, WorldKeeps DEF vars
<1>8. QED
  BY <1>1, <1>2, <1>3, <1>4, <1>5, <1>6, <1>7, StepKinds DEF ResolverMoves

\* A conclusive receipt never changes.
THEOREM ConclusionsAreFinal == Spec => ConclusionIsFinal
<1>1. TypeOK /\ PlacementInv /\ [Next]_vars =>
        [\A c \in Commands : Conclusive(Effective(c)) => Effective(c)' = Effective(c)]_vars
  BY ConclusionStep
<1>2. QED
  BY <1>1, PlacementSafe, PTL DEF Spec, ConclusionIsFinal
-----------------------------------------------------------------------------
(* Cancels. *)

\* Whoever may cancel keeps its target, because conclusions are final.
LEMMA TargetKept ==
  ASSUME TypeOK, PlacementInv, [Next]_vars, NEW c \in Commands,
         Effective(c).disposition = "ACCEPTED"
  PROVE  Effective(c)' = Effective(c)
  BY ConclusionStep DEF Conclusive

\* A step that leaves the markers and the cancel requests alone, and starts no
\* cancel.
LEMMA CancelFrame ==
  ASSUME TypeOK, PlacementInv, CancelInv, [Next]_vars,
         UNCHANGED <<cancels, cancelPosts>>,
         \A x \in CancelRequests : CancelOwner(x)' => CancelOwner(x) /\ cancel'[x] = cancel[x],
         \A x \in CancelRequests :
           CancelAt(x, "reserve")' => CancelAt(x, "reserve") /\ cancel'[x] = cancel[x]
  PROVE  CancelInv'
<1>1. \A x \in CancelRequests : x.id \in Commands
  BY ProcessAssumption
<1>2. \A m \in cancelPosts : m.by \in CancelRequests /\ m.by.id \in Commands
  BY <1>1 DEF TypeOK
<1>3. \A x \in CancelRequests : CancelOwner(x)' \/ CancelAt(x, "reserve")' =>
        /\ Effective(x.id) = [disposition |-> "ACCEPTED", oid |-> cancel'[x].oid]
        /\ Effective(x.id)' = Effective(x.id)
  BY <1>1, TargetKept DEF CancelInv
<1>4. \A m \in cancelPosts :
        /\ Effective(m.by.id) = [disposition |-> "ACCEPTED", oid |-> m.oid]
        /\ Effective(m.by.id)' = Effective(m.by.id)
  <2> SUFFICES ASSUME NEW m \in cancelPosts
               PROVE  /\ Effective(m.by.id) = [disposition |-> "ACCEPTED", oid |-> m.oid]
                      /\ Effective(m.by.id)' = Effective(m.by.id)
    OBVIOUS
  <2>1. Effective(m.by.id) = [disposition |-> "ACCEPTED", oid |-> m.oid]
    BY DEF CancelInv, OneCancelPost
  <2>2. Effective(m.by.id)' = Effective(m.by.id)
    BY <1>2, <2>1, TargetKept
  <2>3. QED
    BY <2>1, <2>2
<1>5. \A x \in CancelRequests : CancelOwner(x)' /\ CancelAt(x, "send")' => CancelAt(x, "send")
  BY DEF CancelAt
<1>6. OneCancelPost'
  BY <1>4 DEF CancelInv, OneCancelPost
<1>7. QED
  BY <1>3, <1>5, <1>6 DEF CancelInv

\* Every step of a cancel preserves the invariant.
LEMMA CancelInvStep ==
  ASSUME TypeOK, PlacementInv, CancelInv, [Next]_vars, NEW x \in CancelRequests, CancelStep(x)
  PROVE  CancelInv'
<1> USE DEF brokerVars, storeVars
<1>1. /\ x.id \in Commands /\ cancel[x] \in CancelState /\ cancel \in [CancelRequests -> CancelState]
      /\ \A y \in CancelRequests : y.id \in Commands
  BY ProcessAssumption DEF TypeOK, ProcessTypeOK
<1>2. /\ \A y \in CancelRequests : CancelOwner(y) \/ CancelAt(y, "reserve") =>
            Effective(y.id)' = [disposition |-> "ACCEPTED", oid |-> cancel[y].oid]
      /\ \A m \in cancelPosts :
            Effective(m.by.id)' = [disposition |-> "ACCEPTED", oid |-> m.oid]
  <2>1. \A m \in cancelPosts : m.by.id \in Commands
    BY <1>1 DEF TypeOK
  <2>2. QED
    BY <1>1, <2>1, TargetKept DEF CancelInv, OneCancelPost
<1>3. ASSUME NEW s \in CancelState, cancel' = [cancel EXCEPT ![x] = s],
             s.pc \notin {"send", "sending", "finalize"},
             s.pc = "reserve" =>
               Effective(x.id)' = [disposition |-> "ACCEPTED", oid |-> s.oid],
             UNCHANGED cancelPosts,
             \A c \in Commands : cancels[c] = "UNKNOWN" /\ cancels'[c] # "UNKNOWN"
                                  => c = x.id /\ CancelOwner(x),
             \A c \in Commands : cancels[c] # "none" => cancels'[c] # "none"
      PROVE  CancelInv'
  <2>1. \A y \in CancelRequests : CancelOwner(y)' => CancelOwner(y) /\ y # x /\ cancel'[y] = cancel[y]
    BY <1>1, <1>3 DEF CancelOwner
  <2>2. \A y \in CancelRequests : CancelOwner(y)' => cancels'[y.id] = "UNKNOWN"
    BY <1>1, <1>3, <2>1 DEF CancelInv
  <2>3. \A y \in CancelRequests : CancelAt(y, "reserve")' =>
          \/ y = x /\ s.pc = "reserve" /\ cancel'[y] = s
          \/ CancelAt(y, "reserve") /\ cancel'[y] = cancel[y]
    <3>1. cancel'[x] = s /\ \A y \in CancelRequests : y # x => cancel'[y] = cancel[y]
      BY <1>1, <1>3
    <3>2. QED
      BY <3>1 DEF CancelAt
  <2>4. \A y \in CancelRequests : CancelOwner(y)' \/ CancelAt(y, "reserve")' =>
          Effective(y.id)' = [disposition |-> "ACCEPTED", oid |-> cancel'[y].oid]
    BY <1>2, <1>3, <2>1, <2>3
  <2>5. OneCancelPost'
    <3>1. \A m \in cancelPosts : m.by.id \in Commands
      BY <1>1 DEF TypeOK
    <3>2. QED
      BY <1>2, <1>3, <3>1 DEF CancelInv, OneCancelPost
  <2>6. \A y \in CancelRequests : CancelOwner(y)' /\ CancelAt(y, "send")' => CancelAt(y, "send")
    BY <2>1 DEF CancelAt
  <2>7. QED
    BY <1>3, <2>1, <2>2, <2>4, <2>5, <2>6 DEF CancelInv
<1>4. ASSUME NEW pc \in {"target", "reread"}, CancelGoto(x, pc), UNCHANGED <<cancels, cancelPosts>>
      PROVE  CancelInv'
  <2>1. [cancel[x] EXCEPT !.pc = pc] \in CancelState /\ [cancel[x] EXCEPT !.pc = pc].pc = pc
    BY <1>1 DEF CancelState
  <2>2. QED
    BY <1>3, <1>4, <2>1 DEF CancelGoto
<1>5. /\ CancelDone \in CancelState /\ CancelDone.pc = "done"
  BY PlacementFacts DEF CancelDone, CancelState, CancelStates
<1>6. ASSUME CancelReply(x), UNCHANGED <<cancels, cancelPosts>>
      PROVE  CancelInv'
  BY <1>3, <1>5, <1>6 DEF CancelReply
<1>7. CASE CancelReplay(x) \/ CancelRefused(x) \/ RereadCancel(x) \/ CancelStoreError(x)
  BY <1>6, <1>7 DEF CancelReplay, CancelRefused, RereadCancel, CancelStoreError
<1>8. CASE NoAttempt(x) \/ ReserveCancelConflict(x)
  BY <1>4, <1>8 DEF NoAttempt, ReserveCancelConflict
<1>9. CASE PrepareCancel(x)
  <2> DEFINE s == [cancel[x] EXCEPT !.pc = "reserve", !.oid = Effective(x.id).oid]
  <2>1. Effective(x.id) \in Receipt /\ Effective(x.id).disposition = "ACCEPTED"
    BY <1>1, <1>9, EffectiveType DEF PrepareCancel, CancelTarget, TypeOK
  <2>2. s \in CancelState /\ s.pc = "reserve" /\ s.oid = Effective(x.id).oid
    BY <1>1, <2>1 DEF CancelState, Receipt
  <2>3. Effective(x.id)' = [disposition |-> "ACCEPTED", oid |-> s.oid]
    <3>1. Effective(x.id) = [disposition |-> "ACCEPTED", oid |-> Effective(x.id).oid]
      BY <2>1 DEF Receipt
    <3>2. Effective(x.id)' = Effective(x.id)
      BY <1>1, <2>1, TargetKept
    <3>3. QED
      BY <2>2, <3>1, <3>2
  <2>4. cancel' = [cancel EXCEPT ![x] = s] /\ UNCHANGED <<cancels, cancelPosts>>
    BY <1>1, <1>9 DEF PrepareCancel, CancelState
  <2>5. s.pc \notin {"send", "sending", "finalize"}
    BY <2>2
  <2> HIDE DEF s
  <2>6. QED
    BY <1>3, <2>2, <2>3, <2>4, <2>5
<1>10. ASSUME InsertCancel(x.id), CancelAt(x, "reserve"),
              NEW s \in CancelState, s.pc \in {"send", "done"}, s.pc = "send" => s.oid = cancel[x].oid,
              cancel' = [cancel EXCEPT ![x] = s], UNCHANGED cancelPosts
       PROVE  CancelInv'
  <2>1. /\ cancels'[x.id] = "UNKNOWN"
        /\ \A c \in Commands : c # x.id => cancels'[c] = cancels[c]
    BY <1>1, <1>10 DEF InsertCancel, TypeOK, StoreTypeOK
  <2>2. \A y \in CancelRequests : CancelOwner(y) => y.id # x.id
    BY <1>10 DEF InsertCancel, CancelInv
  <2>3. \A m \in cancelPosts : m.by.id # x.id /\ m.by.id \in Commands
    BY <1>1, <1>10 DEF InsertCancel, CancelInv, OneCancelPost, TypeOK
  <2>4. /\ \A y \in CancelRequests : y # x => cancel'[y] = cancel[y]
        /\ cancel'[x] = s
    BY <1>1, <1>10
  <2>5. /\ \A y \in CancelRequests : y # x => (CancelOwner(y)' <=> CancelOwner(y))
        /\ \A y \in CancelRequests, pc \in {"send", "reserve"} :
              y # x => (CancelAt(y, pc)' <=> CancelAt(y, pc))
        /\ CancelOwner(x)' => s.pc = "send"
        /\ ~CancelAt(x, "reserve")'
    BY <1>10, <2>4 DEF CancelOwner, CancelAt
  <2>6. \A y \in CancelRequests : CancelOwner(y)' => cancels'[y.id] = "UNKNOWN"
    BY <1>1, <2>1, <2>2, <2>5 DEF CancelInv
  <2>7. \A y, z \in CancelRequests : CancelOwner(y)' /\ CancelOwner(z)' /\ y.id = z.id => y = z
    BY <2>2, <2>5 DEF CancelInv
  <2>8. \A m \in cancelPosts, y \in CancelRequests :
          CancelOwner(y)' /\ m.by.id = y.id => m.by = y /\ ~CancelAt(y, "send")'
    BY <2>3, <2>5 DEF CancelInv
  <2>9. \A y \in CancelRequests : CancelOwner(y)' \/ CancelAt(y, "reserve")' =>
          Effective(y.id)' = [disposition |-> "ACCEPTED", oid |-> cancel'[y].oid]
    BY <1>2, <1>10, <2>4, <2>5
  <2>10. OneCancelPost'
    BY <1>2, <1>10, <2>1, <2>3 DEF CancelInv, OneCancelPost
  <2>11. QED
    BY <1>10, <2>6, <2>7, <2>8, <2>9, <2>10 DEF CancelInv
<1>11. CASE ReserveCancel(x)
  <2> DEFINE s == [cancel[x] EXCEPT !.pc = "send"]
  <2>1. s \in CancelState /\ s.pc = "send" /\ s.oid = cancel[x].oid
    BY <1>1 DEF CancelState
  <2>2. QED
    BY <1>10, <1>11, <2>1 DEF ReserveCancel, CancelGoto
<1>12. ASSUME NEW s \in CancelState, CancelOwner(x), s.pc \in {"sending", "finalize"},
              s.oid = cancel[x].oid, cancel' = [cancel EXCEPT ![x] = s],
              UNCHANGED cancels,
              \/ UNCHANGED cancelPosts
              \/ /\ CancelAt(x, "send")
                 /\ cancelPosts' = cancelPosts \union {[by |-> x, oid |-> cancel[x].oid]}
       PROVE  CancelInv'
  <2>1. /\ \A y \in CancelRequests : CancelOwner(y)' <=> CancelOwner(y)
        /\ \A y \in CancelRequests : cancel'[y].oid = cancel[y].oid
        /\ \A y \in CancelRequests : CancelAt(y, "send")' => CancelAt(y, "send") /\ y # x
        /\ \A y \in CancelRequests : CancelAt(y, "reserve")' => CancelAt(y, "reserve")
    BY <1>1, <1>12 DEF CancelOwner, CancelAt
  <2>2. \A m \in cancelPosts' : m \in cancelPosts \/ m = [by |-> x, oid |-> cancel[x].oid]
    BY <1>12
  <2>3. \A m \in cancelPosts : CancelAt(x, "send") => m.by.id # x.id
    BY <1>12 DEF CancelInv
  <2>4. OneCancelPost'
    <3>1. \A m \in cancelPosts' :
            /\ cancels'[m.by.id] # "none"
            /\ Effective(m.by.id)' = [disposition |-> "ACCEPTED", oid |-> m.oid]
      <4> SUFFICES ASSUME NEW m \in cancelPosts'
                   PROVE  /\ cancels'[m.by.id] # "none"
                          /\ Effective(m.by.id)' = [disposition |-> "ACCEPTED", oid |-> m.oid]
        OBVIOUS
      <4>1. CASE m \in cancelPosts
        BY <1>2, <1>12, <4>1 DEF CancelInv, OneCancelPost
      <4>2. CASE m = [by |-> x, oid |-> cancel[x].oid]
        <5>1. m.by = x /\ m.oid = cancel[x].oid
          BY <4>2
        <5>2. cancels[x.id] = "UNKNOWN"
          BY <1>12 DEF CancelInv
        <5>3. QED
          BY <1>2, <1>12, <5>1, <5>2
      <4>3. QED
        BY <2>2, <4>1, <4>2
    <3>2. ASSUME NEW m \in cancelPosts', NEW n \in cancelPosts', n.by.id = m.by.id
          PROVE  n = m
      <4>1. CASE m \in cancelPosts /\ n \in cancelPosts
        BY <3>2, <4>1 DEF CancelInv, OneCancelPost
      <4>2. CASE m \notin cancelPosts /\ n \notin cancelPosts
        BY <2>2, <4>2
      <4>3. CASE m \in cancelPosts /\ n \notin cancelPosts
        <5>1. n = [by |-> x, oid |-> cancel[x].oid] /\ CancelAt(x, "send")
          BY <1>12, <4>3
        <5>2. n.by.id = x.id
          BY <5>1
        <5>3. QED
          BY <2>3, <3>2, <4>3, <5>1, <5>2
      <4>4. CASE m \notin cancelPosts /\ n \in cancelPosts
        <5>1. m = [by |-> x, oid |-> cancel[x].oid] /\ CancelAt(x, "send")
          BY <1>12, <4>4
        <5>2. m.by.id = x.id
          BY <5>1
        <5>3. QED
          BY <2>3, <3>2, <4>4, <5>1, <5>2
      <4>5. QED
        BY <4>1, <4>2, <4>3, <4>4
    <3>3. QED
      BY <3>1, <3>2 DEF OneCancelPost
  <2>5. \A m \in cancelPosts', y \in CancelRequests :
          CancelOwner(y)' /\ m.by.id = y.id => m.by = y /\ ~CancelAt(y, "send")'
    <3> SUFFICES ASSUME NEW m \in cancelPosts', NEW y \in CancelRequests,
                        CancelOwner(y)', m.by.id = y.id
                 PROVE  m.by = y /\ ~CancelAt(y, "send")'
      OBVIOUS
    <3>1. CASE m \in cancelPosts
      BY <2>1, <3>1 DEF CancelInv
    <3>2. CASE m = [by |-> x, oid |-> cancel[x].oid]
      BY <1>12, <2>1, <3>2 DEF CancelInv
    <3>3. QED
      BY <2>2, <3>1, <3>2
  <2>6. QED
    BY <1>2, <1>12, <2>1, <2>4, <2>5 DEF CancelInv
<1>13. CASE SendCancel(x)
  <2> DEFINE s == [cancel[x] EXCEPT !.pc = "sending"]
  <2>1. s \in CancelState /\ s.pc = "sending" /\ s.oid = cancel[x].oid
    BY <1>1 DEF CancelState
  <2>2. QED
    BY <1>12, <1>13, <2>1 DEF SendCancel, CancelGoto, CancelOwner, CancelAt
<1>14. ASSUME NEW state \in CancelStates, CancelAnswered(x, state)
       PROVE  CancelInv'
  <2> DEFINE s == [cancel[x] EXCEPT !.pc = "finalize", !.state = state]
  <2>1. s \in CancelState /\ s.pc = "finalize" /\ s.oid = cancel[x].oid
    BY <1>1 DEF CancelState
  <2>2. cancel' = [cancel EXCEPT ![x] = s] /\ UNCHANGED <<cancels, cancelPosts>>
    BY <1>1, <1>14 DEF CancelAnswered, CancelState
  <2> HIDE DEF s
  <2>3. CancelOwner(x)
    BY <1>14 DEF CancelAnswered, CancelOwner, CancelAt
  <2>4. QED
    BY <1>12, <2>1, <2>2, <2>3
<1>15. ASSUME CancelAt(x, "finalize"), FinalizeCancelRow(x.id, cancel[x].state),
              CancelReply(x), UNCHANGED cancelPosts
       PROVE  CancelInv'
  <2>1. cancel[x].state \in CancelStates /\ CancelOwner(x)
    BY <1>1, <1>15 DEF CancelState, CancelOwner, CancelAt
  <2>2. /\ \A c \in Commands : cancels[c] = "UNKNOWN" /\ cancels'[c] # "UNKNOWN" => c = x.id
        /\ \A c \in Commands : cancels[c] # "none" => cancels'[c] # "none"
    BY <1>1, <1>15, <2>1 DEF FinalizeCancelRow, CancelStates, TypeOK, StoreTypeOK
  <2>3. QED
    BY <1>3, <1>5, <1>15, <2>1, <2>2 DEF CancelReply
<1>16. CASE FinalizeCancel(x)
  <2>1. cancels[x.id] = "UNKNOWN"
    BY <1>16 DEF FinalizeCancel, CancelInv, CancelOwner, CancelAt
  <2>2. QED
    BY <1>15, <1>16, <2>1 DEF FinalizeCancel
<1>17. CASE CancelCommitUnreported(x)
  <2>1. CASE CancelAt(x, "reserve") /\ InsertCancel(x.id)
    BY <1>5, <1>10, <1>17, <2>1 DEF CancelCommitUnreported, CancelReply
  <2>2. CASE CancelAt(x, "finalize") /\ FinalizeCancelRow(x.id, cancel[x].state)
    BY <1>15, <1>17, <2>2 DEF CancelCommitUnreported
  <2>3. QED
    BY <1>17, <2>1, <2>2 DEF CancelCommitUnreported
<1>18. QED
  BY <1>7, <1>8, <1>9, <1>11, <1>13, <1>14, <1>16, <1>17 DEF CancelStep

\* Only a crash touches cancels from outside.
LEMMA CancelNext == TypeOK /\ PlacementInv /\ CancelInv /\ [Next]_vars => CancelInv'
<1> SUFFICES ASSUME TypeOK, PlacementInv, CancelInv, [Next]_vars PROVE CancelInv'
  OBVIOUS
<1>1. ASSUME UNCHANGED <<cancels, cancelPosts, cancel>>
      PROVE  CancelInv'
  BY <1>1, CancelFrame DEF CancelOwner, CancelAt
<1>2. CASE \E x \in CancelRequests : CancelStep(x)
  BY <1>2, CancelInvStep
<1>3. CASE (\E d \in PlaceRequests : PlaceStep(d)) \/ ResolverMoves
  BY <1>1, <1>3, PlaceKeeps, ResolverKeeps
<1>4. CASE BrokerStep \/ Tick \/ UNCHANGED vars
  BY <1>1, <1>4, WorldKeeps DEF vars, storeVars, processVars, brokerVars
<1>5. CASE Crash
  <2>1. UNCHANGED <<cancels, cancelPosts>>
    BY <1>5, WorldKeeps
  <2>2. \A x \in CancelRequests : ~CancelOwner(x)' /\ ~CancelAt(x, "reserve")'
    BY <1>5 DEF Crash, KillCancels, CancelOwner, CancelAt, CancelIdle, CancelDone
  <2>3. QED
    BY <2>1, <2>2, CancelFrame
<1>6. QED
  BY <1>2, <1>3, <1>4, <1>5, StepKinds

\* No cancel has started.
LEMMA CancelInit == Init => CancelInv
<1> SUFFICES ASSUME Init PROVE CancelInv
  OBVIOUS
<1>1. \A x \in CancelRequests : cancel[x].pc = "idle"
  BY DEF Init, ProcessInit, CancelIdle
<1>2. cancelPosts = {}
  BY DEF Init, BrokerInit
<1>3. QED
  BY <1>1, <1>2 DEF CancelInv, CancelOwner, CancelAt, OneCancelPost

\* The invariant of cancels.
LEMMA CancelSafe == Spec => []CancelInv
<1>1. TypeOK /\ PlacementInv /\ CancelInv /\ [Next]_vars => CancelInv'
  BY CancelNext
<1>2. QED
  BY <1>1, CancelInit, PlacementSafe, PTL DEF Spec

\* At most one cancel request per command, recorded first, for the order the
\* command was accepted with.
THEOREM OneCancelPerCommand == Spec => []OneCancelPost
<1>1. CancelInv => OneCancelPost
  BY DEF CancelInv
<1>2. QED
  BY <1>1, CancelSafe, PTL

\* Finalize and FinalizeCancel always find the marker of their own goroutine.
THEOREM OwnersFinalize == Spec => []OnlyOwnerFinalizes
<1>1. PlacementInv /\ CancelInv => OnlyOwnerFinalizes
  BY DEF PlacementInv, CancelInv, OnlyOwnerFinalizes, Owner, At, CancelOwner, CancelAt
<1>2. QED
  BY <1>1, PlacementSafe, CancelSafe, PTL

-----------------------------------------------------------------------------
(* CANCELLED is the truth. *)

\* A marker stands for an accepted command, so for an order that cannot change;
\* a goroutine about to write CANCELLED has seen this order closed.
ClosedInv ==
  /\ \A c \in Commands : cancels[c] # "none" => Effective(c).disposition = "ACCEPTED"
  /\ \A x \in CancelRequests :
       CancelAt(x, "finalize") /\ cancel[x].state = "CANCELLED" => cancel[x].oid \in closed
  /\ CancelledIsClosed

\* A step that leaves the markers alone and brings no cancel to its end.
LEMMA ClosedFrame ==
  ASSUME TypeOK, PlacementInv, ClosedInv, [Next]_vars,
         UNCHANGED cancels, closed \subseteq closed',
         \A x \in CancelRequests :
           CancelAt(x, "finalize")' => CancelAt(x, "finalize") /\ cancel'[x] = cancel[x]
  PROVE  ClosedInv'
<1>1. \A c \in Commands : cancels[c] # "none" => Effective(c)' = Effective(c)
  BY TargetKept DEF ClosedInv
<1>2. QED
  BY <1>1 DEF ClosedInv, CancelledIsClosed

\* Every step of a cancel preserves the invariant.
LEMMA ClosedStep ==
  ASSUME TypeOK, PlacementInv, CancelInv, ClosedInv, [Next]_vars,
         NEW x \in CancelRequests, CancelStep(x)
  PROVE  ClosedInv'
<1> USE DEF brokerVars, storeVars
<1>1. /\ x.id \in Commands /\ cancel[x] \in CancelState
      /\ cancel \in [CancelRequests -> CancelState]
      /\ cancels \in [Commands -> CancelStates \union {"none"}]
  BY ProcessAssumption DEF TypeOK, ProcessTypeOK, StoreTypeOK
<1>2. UNCHANGED closed
  BY CancelKeeps
<1>3. \A c \in Commands : cancels[c] # "none" \/ CancelTarget(c) =>
        Effective(c)' = Effective(c) /\ Effective(c)'.disposition = "ACCEPTED"
  BY TargetKept DEF ClosedInv, CancelTarget
<1>4. ASSUME NEW s \in CancelState, cancel' = [cancel EXCEPT ![x] = s], s.pc # "finalize",
             UNCHANGED cancels
      PROVE  ClosedInv'
  BY <1>1, <1>2, <1>4, ClosedFrame DEF CancelAt
<1>5. ASSUME NEW pc \in {"target", "reread", "send", "sending"}, CancelGoto(x, pc)
      PROVE  \E s \in CancelState : cancel' = [cancel EXCEPT ![x] = s] /\ s.pc # "finalize"
  <2>1. [cancel[x] EXCEPT !.pc = pc] \in CancelState /\ [cancel[x] EXCEPT !.pc = pc].pc = pc
    BY <1>1 DEF CancelState
  <2>2. QED
    BY <1>5, <2>1 DEF CancelGoto
<1>6. CancelDone \in CancelState /\ CancelDone.pc = "done"
  BY PlacementFacts DEF CancelDone, CancelState, CancelStates
<1>7. CASE CancelReplay(x) \/ CancelRefused(x) \/ RereadCancel(x) \/ CancelStoreError(x)
  BY <1>4, <1>6, <1>7 DEF CancelReplay, CancelRefused, RereadCancel, CancelStoreError, CancelReply
<1>8. CASE NoAttempt(x) \/ ReserveCancelConflict(x) \/ SendCancel(x)
  BY <1>4, <1>5, <1>8 DEF NoAttempt, ReserveCancelConflict, SendCancel
<1>9. CASE PrepareCancel(x)
  <2> DEFINE s == [cancel[x] EXCEPT !.pc = "reserve", !.oid = Effective(x.id).oid]
  <2>1. Effective(x.id).oid \in OrderIds
    BY <1>1, EffectiveType DEF Receipt, TypeOK
  <2>2. s \in CancelState /\ s.pc # "finalize"
    BY <1>1, <2>1 DEF CancelState
  <2>3. cancel' = [cancel EXCEPT ![x] = s] /\ UNCHANGED cancels
    BY <1>1, <1>9 DEF PrepareCancel, CancelState
  <2> HIDE DEF s
  <2>4. QED
    BY <1>4, <2>2, <2>3
<1>10. ASSUME InsertCancel(x.id), NEW s \in CancelState, s.pc # "finalize",
              cancel' = [cancel EXCEPT ![x] = s]
       PROVE  ClosedInv'
  <2>1. /\ CancelTarget(x.id) /\ cancels'[x.id] = "UNKNOWN"
        /\ \A c \in Commands : c # x.id => cancels'[c] = cancels[c]
    BY <1>1, <1>10 DEF InsertCancel
  <2>2. \A y \in CancelRequests : CancelAt(y, "finalize")' => y # x /\ cancel'[y] = cancel[y]
    BY <1>1, <1>10 DEF CancelAt
  <2>3. QED
    BY <1>1, <1>2, <1>3, <2>1, <2>2 DEF ClosedInv, CancelledIsClosed, CancelAt
<1>11. ASSUME FinalizeCancelRow(x.id, cancel[x].state), CancelAt(x, "finalize"), CancelReply(x)
       PROVE  ClosedInv'
  <2>1. /\ cancels[x.id] = "UNKNOWN" /\ cancels'[x.id] = cancel[x].state
        /\ \A c \in Commands : c # x.id => cancels'[c] = cancels[c]
    BY <1>1, <1>11 DEF FinalizeCancelRow
  <2>2. \A y \in CancelRequests : CancelAt(y, "finalize")' => y # x /\ cancel'[y] = cancel[y]
    BY <1>1, <1>6, <1>11 DEF CancelAt, CancelReply
  <2>3. Effective(x.id).oid = cancel[x].oid
    <3>1. Effective(x.id) = [disposition |-> "ACCEPTED", oid |-> cancel[x].oid]
      BY <1>11 DEF CancelInv, CancelOwner, CancelAt
    <3>2. QED
      BY <3>1
  <2>4. QED
    BY <1>1, <1>2, <1>3, <1>11, <2>1, <2>2, <2>3 DEF ClosedInv, CancelledIsClosed, CancelAt
<1>12. CASE ReserveCancel(x)
  BY <1>5, <1>10, <1>12 DEF ReserveCancel
<1>13. ASSUME NEW state \in CancelStates, CancelAnswered(x, state)
       PROVE  ClosedInv'
  <2>1. /\ \A y \in CancelRequests : y # x => cancel'[y] = cancel[y]
        /\ cancel'[x].state = state /\ cancel'[x].oid = cancel[x].oid
        /\ state = "CANCELLED" => cancel[x].oid \in closed
        /\ UNCHANGED cancels
    BY <1>1, <1>13 DEF CancelAnswered, CancelState
  <2>2. QED
    BY <1>2, <1>3, <2>1 DEF ClosedInv, CancelledIsClosed, CancelAt
<1>14. CASE FinalizeCancel(x)
  <2>1. cancels[x.id] = "UNKNOWN"
    BY <1>14 DEF FinalizeCancel, CancelInv, CancelOwner, CancelAt
  <2>2. QED
    BY <1>11, <1>14, <2>1 DEF FinalizeCancel
<1>15. CASE CancelCommitUnreported(x)
  BY <1>6, <1>10, <1>11, <1>15 DEF CancelCommitUnreported, CancelReply
<1>16. QED
  BY <1>7, <1>8, <1>9, <1>12, <1>13, <1>14, <1>15 DEF CancelStep

\* The other steps bring no cancel to its end, and nothing reopens an order.
LEMMA ClosedNext ==
  TypeOK /\ PlacementInv /\ CancelInv /\ ClosedInv /\ [Next]_vars => ClosedInv'
<1> SUFFICES ASSUME TypeOK, PlacementInv, CancelInv, ClosedInv, [Next]_vars PROVE ClosedInv'
  OBVIOUS
<1>1. ASSUME UNCHANGED <<cancels, cancel>>, closed \subseteq closed'
      PROVE  ClosedInv'
  BY <1>1, ClosedFrame DEF CancelAt
<1>2. CASE \E x \in CancelRequests : CancelStep(x)
  BY <1>2, ClosedStep
<1>3. CASE (\E d \in PlaceRequests : PlaceStep(d)) \/ ResolverMoves
  BY <1>1, <1>3, PlaceKeeps, ResolverKeeps
<1>4. CASE BrokerStep \/ Tick \/ UNCHANGED vars
  BY <1>1, <1>4, WorldKeeps DEF vars, storeVars, processVars, brokerVars
<1>5. CASE Crash
  <2>1. UNCHANGED <<cancels, closed>>
    BY <1>5, WorldKeeps
  <2>2. \A x \in CancelRequests : ~CancelAt(x, "finalize")'
    BY <1>5 DEF Crash, KillCancels, CancelAt, CancelIdle, CancelDone
  <2>3. QED
    BY <2>1, <2>2, ClosedFrame
<1>6. QED
  BY <1>2, <1>3, <1>4, <1>5, StepKinds

\* A cancel is only recorded as CANCELLED for an order that the broker closed.
THEOREM CancelsAreClosed == Spec => []CancelledIsClosed
<1>1. Init => ClosedInv
  <2> SUFFICES ASSUME Init PROVE ClosedInv
    OBVIOUS
  <2>1. \A c \in Commands : cancels[c] = "none"
    BY DEF Init, StoreInit
  <2>2. \A x \in CancelRequests : cancel[x].pc = "idle"
    BY DEF Init, ProcessInit, CancelIdle
  <2>3. QED
    BY <2>1, <2>2 DEF ClosedInv, CancelledIsClosed, CancelAt
<1>2. TypeOK /\ PlacementInv /\ CancelInv /\ ClosedInv /\ [Next]_vars => ClosedInv'
  BY ClosedNext
<1>3. ClosedInv => CancelledIsClosed
  BY DEF ClosedInv
<1>4. QED
  BY <1>1, <1>2, <1>3, PlacementSafe, CancelSafe, PTL DEF Spec
=============================================================================
