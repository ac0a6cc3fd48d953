------------------------------ MODULE EdgeStore ------------------------------
(***************************************************************************)
(* The SQLite receipt store of kis-mock-edge: four tables keyed by          *)
(* command_id and the statements the edge runs on them.  A table is a       *)
(* function on Commands whose value No... stands for a missing row.  Every  *)
(* operator with primes is one SQL statement (or one transaction) that      *)
(* changed a row; its guard is the statement's WHERE or ON CONFLICT clause. *)
(*                                                                          *)
(* An order number is named by the request that created the order, so a     *)
(* broker_order_id is a member of Placements.  Error codes, the schema      *)
(* version and krx_fwdg_ord_orgno are left out: no statement tests them.    *)
(***************************************************************************)
EXTENDS Naturals

CONSTANTS
  Commands,         \* valid command_id values
  NoCommand,        \* the id of an order that no command of this edge asked for
  Facts,            \* (side, stock, quantity, price) of an order
  NoFacts,          \* facts of a row without a context
  PlaceRequests,    \* deliveries of POST /v1/commands
  LegacyPlacements, \* orders sent by the release that stored no contexts
  ForeignOrders,    \* orders of the same account placed by somebody else
  NoOrder           \* the NULL broker_order_id

Scopes == {"kis_mock", "kis_mock_us", "alpaca_paper_crypto"}

\* One delivery of a command.  copy tells duplicate deliveries apart; check is
\* what the deterministic validation of its payload answers.
Request == [id : Commands \union {NoCommand}, copy : Nat, scope : Scopes,
            facts : Facts, check : {"pass", "refused"}]

Placements == PlaceRequests \union LegacyPlacements \union ForeignOrders

ASSUME RequestAssumption ==
  /\ NoCommand \notin Commands
  /\ NoFacts \notin Facts
  /\ Placements \subseteq Request
  /\ NoOrder \notin Placements
  /\ \A d \in PlaceRequests \union LegacyPlacements : d.id \in Commands
  /\ \A f \in ForeignOrders : f.id = NoCommand
  /\ \A d \in PlaceRequests, l \in LegacyPlacements : d # l
  /\ \A l, m \in LegacyPlacements : l.id = m.id => l = m
  /\ \A l \in LegacyPlacements : l.scope # "kis_mock_us"

VARIABLES
  commands,     \* table commands
  contexts,     \* table command_contexts
  resolutions,  \* table command_resolutions
  cancels,      \* table cancel_attempts: its state column, or "none"
  told          \* conclusive receipts handed to callers (a history variable)

storeVars == <<commands, contexts, resolutions, cancels>>

OrderIds == Placements \union {NoOrder}

Row == [disposition : {"none", "NOT_CREATED", "ACCEPTED", "UNKNOWN"},
        oid : OrderIds, phase : {"none", "pending", "final"},
        scope : Scopes \union {"none"}]
NoRow == [disposition |-> "none", oid |-> NoOrder, phase |-> "none", scope |-> "none"]

\* clientId: the client_order_id column holds the command id.
Context == [facts : Facts \union {NoFacts}, sentAt : Nat, clientId : BOOLEAN]
NoContext == [facts |-> NoFacts, sentAt |-> 0, clientId |-> FALSE]

Receipt == [disposition : {"none", "NOT_CREATED", "ACCEPTED", "UNKNOWN"}, oid : OrderIds]
NoResolution == [disposition |-> "none", oid |-> NoOrder]

CancelStates == {"UNKNOWN", "CANCELLED", "NOT_FOUND"}

StoreTypeOK ==
  /\ commands \in [Commands -> Row]
  /\ contexts \in [Commands -> Context]
  /\ resolutions \in [Commands -> Receipt]
  /\ cancels \in [Commands -> CancelStates \union {"none"}]
  /\ told \in [Commands -> SUBSET Receipt]

\* Rows of earlier releases are UNKNOWN, final or abandoned while pending; the
\* oldest have no context, later Alpaca rows one without client_order_id.
LegacyRow(l) == [disposition : {"UNKNOWN"}, oid : {NoOrder},
                 phase : {"pending", "final"}, scope : {l.scope}]
LegacyContext(l) ==
  {NoContext} \union (IF l.scope = "alpaca_paper_crypto"
                        THEN [facts : {l.facts}, sentAt : {0}, clientId : {FALSE}]
                        ELSE {})

LegacyOf(c) == {l \in LegacyPlacements : l.id = c}
FirstRows(c) ==
  IF LegacyOf(c) = {} THEN {NoRow} ELSE UNION {LegacyRow(l) : l \in LegacyOf(c)}
FirstContexts(c) ==
  IF LegacyOf(c) = {} THEN {NoContext} ELSE UNION {LegacyContext(l) : l \in LegacyOf(c)}

StoreInit ==
  /\ commands \in [Commands -> UNION {FirstRows(c) : c \in Commands}]
  /\ contexts \in [Commands -> UNION {FirstContexts(c) : c \in Commands}]
  /\ \A c \in Commands : commands[c] \in FirstRows(c) /\ contexts[c] \in FirstContexts(c)
  /\ resolutions = [c \in Commands |-> NoResolution]
  /\ cancels = [c \in Commands |-> "none"]
  /\ told = [c \in Commands |-> {}]

-----------------------------------------------------------------------------
(* Queries. *)

Stored(c) == commands[c] # NoRow

\* A mutant of Effective: a final receipt row wins over its resolution.
EffectiveFinalRow(c) ==
  IF resolutions[c] # NoResolution /\ commands[c].phase # "final"
    THEN resolutions[c]
    ELSE [disposition |-> commands[c].disposition, oid |-> commands[c].oid]

\* What Find answers: the resolution when there is one, else the receipt row.
Effective(c) ==
  IF resolutions[c] # NoResolution
    THEN resolutions[c]
    ELSE [disposition |-> commands[c].disposition, oid |-> commands[c].oid]

Conclusive(r) == r.disposition \in {"NOT_CREATED", "ACCEPTED"}

\* A caller is handed receipt r of command c.
Tell(c, r) == told' = IF Conclusive(r) THEN [told EXCEPT ![c] = @ \union {r}] ELSE told

\* A mutant of Pending: rows whose sender died before Finalize are not listed.
PendingFinal(scopes) ==
  {c \in Commands : /\ commands[c].disposition = "UNKNOWN"
                    /\ commands[c].phase = "final"
                    /\ commands[c].scope \in scopes
                    /\ resolutions[c] = NoResolution}

\* The rows the resolver reads: UNKNOWN in commands, and no resolution yet.
Pending(scopes) ==
  {c \in Commands : /\ commands[c].disposition = "UNKNOWN"
                    /\ commands[c].scope \in scopes
                    /\ resolutions[c] = NoResolution}

ContextPresent(c) == contexts[c].facts # NoFacts

\* A row without a context falls back on recorded_at, which is 0 for the rows
\* of the previous release.
SentAt(c) == IF ContextPresent(c) THEN contexts[c].sentAt ELSE 0

\* FindCancelTarget's WHERE clause, which ReserveCancel repeats.
CancelTarget(c) == Effective(c).disposition = "ACCEPTED" /\ Effective(c).oid # NoOrder

-----------------------------------------------------------------------------
(* Statements. *)

\* A mutant of InsertFinal: ON CONFLICT replaces the row.
InsertFinalOver(c) ==
  /\ commands' = [commands EXCEPT ![c] =
       [disposition |-> "NOT_CREATED", oid |-> NoOrder, phase |-> "final",
        scope |-> "kis_mock"]]
  /\ UNCHANGED <<contexts, resolutions, cancels>>

\* StoreFinal inserts a NOT_CREATED receipt; account_scope keeps its default.
InsertFinal(c) ==
  /\ ~Stored(c)
  /\ commands' = [commands EXCEPT ![c] =
       [disposition |-> "NOT_CREATED", oid |-> NoOrder, phase |-> "final",
        scope |-> "kis_mock"]]
  /\ UNCHANGED <<contexts, resolutions, cancels>>

\* Mutants of InsertPending: ON CONFLICT replaces the row; the context is not
\* part of the transaction.
InsertPendingOver(d, sentAt) ==
  /\ commands' = [commands EXCEPT ![d.id] =
       [disposition |-> "UNKNOWN", oid |-> NoOrder, phase |-> "pending",
        scope |-> d.scope]]
  /\ contexts' = [contexts EXCEPT ![d.id] =
       [facts |-> d.facts, sentAt |-> sentAt,
        clientId |-> d.scope = "alpaca_paper_crypto"]]
  /\ UNCHANGED <<resolutions, cancels>>
InsertPendingBare(d, sentAt) ==
  /\ ~Stored(d.id)
  /\ commands' = [commands EXCEPT ![d.id] =
       [disposition |-> "UNKNOWN", oid |-> NoOrder, phase |-> "pending",
        scope |-> d.scope]]
  /\ UNCHANGED <<contexts, resolutions, cancels>>

\* ReservePending inserts the UNKNOWN receipt and its context in a transaction.
InsertPending(d, sentAt) ==
  /\ ~Stored(d.id)
  /\ commands' = [commands EXCEPT ![d.id] =
       [disposition |-> "UNKNOWN", oid |-> NoOrder, phase |-> "pending",
        scope |-> d.scope]]
  /\ contexts' = [contexts EXCEPT ![d.id] =
       [facts |-> d.facts, sentAt |-> sentAt,
        clientId |-> d.scope = "alpaca_paper_crypto"]]
  /\ UNCHANGED <<resolutions, cancels>>

\* Finalize updates a row only while it is still pending.
FinalizeRow(c, r) ==
  /\ commands[c].phase = "pending"
  /\ commands' = [commands EXCEPT ![c].disposition = r.disposition,
                                  ![c].oid = r.oid,
                                  ![c].phase = "final"]
  /\ UNCHANGED <<contexts, resolutions, cancels>>

\* ResolveUnknown appends a resolution of a row that still says UNKNOWN, once.
Resolvable(c) == commands[c].disposition = "UNKNOWN" /\ resolutions[c] = NoResolution
ResolveUnknown(c, r) ==
  /\ resolutions' = IF Resolvable(c) THEN [resolutions EXCEPT ![c] = r] ELSE resolutions
  /\ UNCHANGED <<commands, contexts, cancels>>

\* ReserveCancel inserts the UNKNOWN marker of a command that can be cancelled.
InsertCancel(c) ==
  /\ cancels[c] = "none"
  /\ CancelTarget(c)
  /\ cancels' = [cancels EXCEPT ![c] = "UNKNOWN"]
  /\ UNCHANGED <<commands, contexts, resolutions>>

\* FinalizeCancel updates the marker only while it still says UNKNOWN.
FinalizeCancelRow(c, state) ==
  /\ cancels[c] = "UNKNOWN"
  /\ cancels' = [cancels EXCEPT ![c] = state]
  /\ UNCHANGED <<commands, contexts, resolutions>>
=============================================================================
