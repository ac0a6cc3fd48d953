---------------------------- MODULE Cancellation -----------------------------
(***************************************************************************)
(* Service.Cancel: one HTTP goroutine per delivery of                       *)
(* POST /v1/commands/{command_id}/cancel.  It has the same send boundary as *)
(* a placement: an UNKNOWN marker is committed before the one cancel POST.  *)
(***************************************************************************)
EXTENDS BrokerSide

cancelFrame == <<place, resolver>>

CancelAt(x, pc) == cancel[x].pc = pc
CancelGoto(x, pc) == cancel' = [cancel EXCEPT ![x].pc = pc]
CancelReply(x) == cancel' = [cancel EXCEPT ![x] = CancelDone]

\* FindCancelAttempt: a recorded attempt is replayed.
CancelReplay(x) ==
  /\ CancelAt(x, "idle")
  /\ cancels[x.id] # "none"
  /\ CancelReply(x)
  /\ UNCHANGED <<told, storeVars, brokerVars, cancelFrame>>

NoAttempt(x) ==
  /\ CancelAt(x, "idle")
  /\ cancels[x.id] = "none"
  /\ CancelGoto(x, "target")
  /\ UNCHANGED <<told, storeVars, brokerVars, cancelFrame>>

\* FindCancelTarget finds nothing to cancel, or PrepareCancel fails: the answer
\* is an error, and no attempt is recorded.
CancelRefused(x) ==
  /\ CancelAt(x, "target")
  /\ CancelReply(x)
  /\ UNCHANGED <<told, storeVars, brokerVars, cancelFrame>>

\* The request is built for the order of the target; the KIS brokers also need
\* its stored facts.
PrepareCancel(x) ==
  /\ CancelAt(x, "target")
  /\ CancelTarget(x.id)
  /\ commands[x.id].scope # "alpaca_paper_crypto" => ContextPresent(x.id)
  /\ cancel' = [cancel EXCEPT ![x].pc = "reserve", ![x].oid = Effective(x.id).oid]
  /\ UNCHANGED <<told, storeVars, brokerVars, cancelFrame>>

ReserveCancel(x) ==
  /\ CancelAt(x, "reserve")
  /\ InsertCancel(x.id)
  /\ CancelGoto(x, "send")
  /\ UNCHANGED <<told, brokerVars, cancelFrame>>

\* A mutant of ReserveCancelConflict: the cancel is sent all the same.
CancelConflictIgnored(x) ==
  /\ CancelAt(x, "reserve")
  /\ cancels[x.id] # "none" \/ ~CancelTarget(x.id)
  /\ CancelGoto(x, "send")
  /\ UNCHANGED <<told, storeVars, brokerVars, cancelFrame>>

\* Another delivery recorded its attempt first, or the target is gone.
ReserveCancelConflict(x) ==
  /\ CancelAt(x, "reserve")
  /\ cancels[x.id] # "none" \/ ~CancelTarget(x.id)
  /\ CancelGoto(x, "reread")
  /\ UNCHANGED <<told, storeVars, brokerVars, cancelFrame>>

RereadCancel(x) ==
  /\ CancelAt(x, "reread")
  /\ CancelReply(x)
  /\ UNCHANGED <<told, storeVars, brokerVars, cancelFrame>>

SendCancel(x) ==
  /\ CancelAt(x, "send")
  /\ cancelPosts' = cancelPosts \union {[by |-> x, oid |-> cancel[x].oid]}
  /\ CancelGoto(x, "sending")
  /\ UNCHANGED <<told, storeVars, now, posted, wire, booked, closed, cancelFrame>>

\* A mutant of CancelAnswered: any answer counts as a success.
CancelAnsweredAny(x, state) ==
  /\ \/ CancelAt(x, "sending")
     \/ CancelAt(x, "send") /\ state = "UNKNOWN"
  /\ cancel' = [cancel EXCEPT ![x].pc = "finalize", ![x].state = state]
  /\ UNCHANGED <<told, storeVars, brokerVars, cancelFrame>>

\* The broker's answer: success only once it has closed the order, 404, or one
\* of the many answers and failures that leave the outcome UNKNOWN.
CancelAnswered(x, state) ==
  /\ \/ CancelAt(x, "sending")
     \/ CancelAt(x, "send") /\ state = "UNKNOWN"
  /\ state = "CANCELLED" => cancel[x].oid \in closed
  /\ cancel' = [cancel EXCEPT ![x].pc = "finalize", ![x].state = state]
  /\ UNCHANGED <<told, storeVars, brokerVars, cancelFrame>>

\* As for a placement, only the goroutine that inserted the marker gets here,
\* so the branch that rereads it is not taken.
FinalizeCancel(x) ==
  /\ CancelAt(x, "finalize")
  /\ IF cancels[x.id] = "UNKNOWN"
       THEN FinalizeCancelRow(x.id, cancel[x].state) /\ CancelReply(x)
       ELSE CancelGoto(x, "reread") /\ UNCHANGED storeVars
  /\ UNCHANGED <<told, brokerVars, cancelFrame>>

\* A statement fails, with or without having been committed.
CancelStoreError(x) ==
  /\ cancel[x].pc \in {"idle", "target", "reserve", "finalize", "reread"}
  /\ CancelReply(x)
  /\ UNCHANGED <<told, storeVars, brokerVars, cancelFrame>>

CancelCommitUnreported(x) ==
  /\ \/ CancelAt(x, "reserve") /\ InsertCancel(x.id)
     \/ CancelAt(x, "finalize") /\ FinalizeCancelRow(x.id, cancel[x].state)
  /\ CancelReply(x)
  /\ UNCHANGED <<told, brokerVars, cancelFrame>>

KillCancels ==
  cancel' = [x \in CancelRequests |-> IF CancelAt(x, "idle") THEN CancelIdle ELSE CancelDone]

CancelStep(x) ==
  \/ CancelReplay(x) \/ NoAttempt(x) \/ CancelRefused(x) \/ PrepareCancel(x)
  \/ ReserveCancel(x) \/ ReserveCancelConflict(x) \/ RereadCancel(x)
  \/ SendCancel(x) \/ \E state \in CancelStates : CancelAnswered(x, state)
  \/ FinalizeCancel(x)
  \/ CancelStoreError(x) \/ CancelCommitUnreported(x)
=============================================================================
