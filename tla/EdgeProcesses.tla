---------------------------- MODULE EdgeProcesses ----------------------------
(***************************************************************************)
(* The processes around the receipt store, and what each holds in memory:   *)
(* the goroutines of the daemon that serve placements, cancels and checks,  *)
(* and the separate `kis-mock-edge resolve` process.  Their steps are in    *)
(* Placement, Cancellation and Resolution; memory is lost in a crash, the   *)
(* tables of EdgeStore are not.                                             *)
(***************************************************************************)
EXTENDS EdgeStore

CONSTANTS
  CancelRequests,  \* deliveries of a cancel, [id, copy]
  Batches,         \* runs of the resolve process (each may run again and again)
  Checks           \* goroutines serving the resolve endpoint

Resolvers == Batches \union Checks

ASSUME ProcessAssumption ==
  /\ CancelRequests \subseteq [id : Commands, copy : Nat]
  /\ Batches \intersect Checks = {}

VARIABLES
  place,     \* per delivery of a command
  cancel,    \* per delivery of a cancel
  resolver   \* per resolver

\* idle: not delivered yet; validate: after Find; reserve, send, sending,
\* finalize: around the POST; reread: after a conflict; done: answered or dead.
PlaceState == [pc : {"idle", "validate", "reserve", "send", "sending",
                     "finalize", "reread", "done"},
               sentAt : Nat, oid : OrderIds]
PlaceIdle == [pc |-> "idle", sentAt |-> 0, oid |-> NoOrder]
PlaceDone == [pc |-> "done", sentAt |-> 0, oid |-> NoOrder]

CancelState == [pc : {"idle", "target", "reserve", "send", "sending", "finalize",
                      "reread", "done"},
                oid : OrderIds, state : CancelStates]
CancelIdle == [pc |-> "idle", oid |-> NoOrder, state |-> "UNKNOWN"]
CancelDone == [pc |-> "done", oid |-> NoOrder, state |-> "UNKNOWN"]

\* work: commands not handled yet; group: those the read in hand answers for;
\* evidence: the orders that read returned.
ResolverState == [pc : {"idle", "work", "read", "conclude"},
                  work : SUBSET Commands, group : SUBSET Commands,
                  readAt : Nat, evidence : SUBSET Placements]
Resting == [pc |-> "idle", work |-> {}, group |-> {}, readAt |-> 0, evidence |-> {}]

ProcessTypeOK ==
  /\ place \in [PlaceRequests -> PlaceState]
  /\ cancel \in [CancelRequests -> CancelState]
  /\ resolver \in [Resolvers -> ResolverState]

ProcessInit ==
  /\ place = [d \in PlaceRequests |-> PlaceIdle]
  /\ cancel = [x \in CancelRequests |-> CancelIdle]
  /\ resolver = [r \in Resolvers |-> Resting]

processVars == <<place, cancel, resolver>>
=============================================================================
