------------------------------ MODULE Placement ------------------------------
(***************************************************************************)
(* Service.Process: one HTTP goroutine per delivery of a command.  Each     *)
(* action ends where another goroutine, another process or a crash can step *)
(* in: between two store statements, and around the one broker POST.        *)
(***************************************************************************)
EXTENDS BrokerSide

CONSTANTS
  Lag,       \* a POST leaves within Lag of the stamp on its pending receipt
  LastStamp  \* bound: no command is stamped later
ASSUME LagAssumption == Lag \in Nat /\ LastStamp \in Nat

placeFrame == <<cancel, resolver>>

At(d, pc) == place[d].pc = pc

Goto(d, pc) == place' = [place EXCEPT ![d].pc = pc]

\* The answer of a delivery that ends with receipt r.
Reply(d, r) ==
  /\ place' = [place EXCEPT ![d] = PlaceDone]
  /\ Tell(d.id, r)

-----------------------------------------------------------------------------
(* Before the reservation. *)

\* Find: the durable receipt wins before validation.
Replay(d) ==
  /\ At(d, "idle")
  /\ Stored(d.id)
  /\ Reply(d, Effective(d.id))
  /\ UNCHANGED <<storeVars, brokerVars, placeFrame>>

NotFound(d) ==
  /\ At(d, "idle")
  /\ ~Stored(d.id)
  /\ Goto(d, "validate")
  /\ UNCHANGED <<told, storeVars, brokerVars, placeFrame>>

\* Validation, the caps, the gate or Prepare (configuration, cached token)
\* fails: a final NOT_CREATED receipt is inserted, and nothing is sent.
Refuse(d) ==
  /\ At(d, "validate")
  /\ InsertFinal(d.id)
  /\ Reply(d, [disposition |-> "NOT_CREATED", oid |-> NoOrder])
  /\ UNCHANGED <<brokerVars, placeFrame>>

\* Validation and Prepare succeed; the pending receipt is stamped.
Prepare(d) ==
  /\ At(d, "validate")
  /\ d.check = "pass"
  /\ now <= LastStamp
  /\ place' = [place EXCEPT ![d].pc = "reserve", ![d].sentAt = now]
  /\ UNCHANGED <<told, storeVars, brokerVars, placeFrame>>

\* ReservePending commits the UNKNOWN receipt: the send boundary.
Reserve(d) ==
  /\ At(d, "reserve")
  /\ InsertPending(d, place[d].sentAt)
  /\ Goto(d, "send")
  /\ UNCHANGED <<told, brokerVars, placeFrame>>

\* A mutant of Conflict: the delivery sends although it reserved nothing.
ConflictIgnored(d) ==
  /\ place[d].pc \in {"validate", "reserve"}
  /\ Stored(d.id)
  /\ Goto(d, "send")
  /\ UNCHANGED <<told, storeVars, brokerVars, placeFrame>>

\* Another delivery of the same command inserted its row first.
Conflict(d) ==
  /\ place[d].pc \in {"validate", "reserve"}
  /\ Stored(d.id)
  /\ Goto(d, "reread")
  /\ UNCHANGED <<told, storeVars, brokerVars, placeFrame>>

\* The Find that follows a conflict, a separate statement.
Reread(d) ==
  /\ At(d, "reread")
  /\ Reply(d, Effective(d.id))
  /\ UNCHANGED <<storeVars, brokerVars, placeFrame>>

-----------------------------------------------------------------------------
(* The one POST and its answer. *)

Send(d) ==
  /\ At(d, "send")
  /\ posted' = [posted EXCEPT ![d] = now]
  /\ wire' = wire \union {d}
  /\ Goto(d, "sending")
  /\ UNCHANGED <<told, storeVars, now, booked, closed, cancelPosts, placeFrame>>

\* A well-formed success answer carries the number of the order just booked.
Accepted(d) ==
  /\ At(d, "sending")
  /\ booked[d] # Never
  /\ place' = [place EXCEPT ![d].pc = "finalize", ![d].oid = d]
  /\ UNCHANGED <<told, storeVars, brokerVars, placeFrame>>

\* No connection, a timeout, a redirect, a 5xx, a refusal, a malformed answer:
\* whatever the broker did, Send reports no acceptance.
NotAccepted(d) ==
  /\ place[d].pc \in {"send", "sending"}
  /\ Goto(d, "finalize")
  /\ UNCHANGED <<told, storeVars, brokerVars, placeFrame>>

\* Mutants of FinalReceipt: a disposition of its own for what was not accepted;
\* a failed POST taken for an order that was not created.
FinalReceiptRejected(d) ==
  IF place[d].oid # NoOrder
    THEN [disposition |-> "ACCEPTED", oid |-> place[d].oid]
    ELSE [disposition |-> "REJECTED", oid |-> NoOrder]
FinalReceiptFailed(d) ==
  IF place[d].oid # NoOrder
    THEN [disposition |-> "ACCEPTED", oid |-> place[d].oid]
    ELSE [disposition |-> "NOT_CREATED", oid |-> NoOrder]

\* ACCEPTED needs the number of the order; whatever else happened is UNKNOWN.
FinalReceipt(d) ==
  IF place[d].oid # NoOrder
    THEN [disposition |-> "ACCEPTED", oid |-> place[d].oid]
    ELSE [disposition |-> "UNKNOWN", oid |-> NoOrder]

\* Finalize replaces the pending marker and answers with its own receipt,
\* without looking at command_resolutions.  Were the row no longer pending, it
\* would be reread: OnlyOwnerFinalizes says this does not happen.
Finalize(d) ==
  /\ At(d, "finalize")
  /\ IF commands[d.id].phase = "pending"
       THEN FinalizeRow(d.id, FinalReceipt(d)) /\ Reply(d, FinalReceipt(d))
       ELSE Goto(d, "reread") /\ UNCHANGED <<told, storeVars>>
  /\ UNCHANGED <<brokerVars, placeFrame>>

-----------------------------------------------------------------------------
(* Failures. *)

\* A store statement fails (SQLITE_BUSY, a cancelled request context): the
\* handler answers 500 UNKNOWN/storage_failure, and the goroutine ends.
StoreError(d) ==
  /\ place[d].pc \in {"idle", "validate", "reserve", "finalize", "reread"}
  /\ place' = [place EXCEPT ![d] = PlaceDone]
  /\ UNCHANGED <<told, storeVars, brokerVars, placeFrame>>

\* A statement reports an error although it was committed.
CommitUnreported(d) ==
  /\ \/ At(d, "validate") /\ InsertFinal(d.id)
     \/ At(d, "reserve") /\ InsertPending(d, place[d].sentAt)
     \/ At(d, "finalize") /\ FinalizeRow(d.id, FinalReceipt(d))
  /\ place' = [place EXCEPT ![d] = PlaceDone]
  /\ UNCHANGED <<told, brokerVars, placeFrame>>

\* What the daemon's death does to the goroutines that were running.
KillPlacements ==
  place' = [d \in PlaceRequests |-> IF At(d, "idle") THEN PlaceIdle ELSE PlaceDone]

PlaceStep(d) ==
  \/ Replay(d) \/ NotFound(d) \/ Refuse(d)
  \/ Prepare(d) \/ Reserve(d) \/ Conflict(d) \/ Reread(d)
  \/ Send(d) \/ Accepted(d) \/ NotAccepted(d)
  \/ Finalize(d)
  \/ StoreError(d) \/ CommitUnreported(d)
=============================================================================
