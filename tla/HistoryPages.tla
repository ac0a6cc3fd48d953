----------------------------- MODULE HistoryPages -----------------------------
(***************************************************************************)
(* The read of one day's order history, page by page, while orders arrive.  *)
(* The domestic reader appends every page as it is; the overseas one leaves *)
(* out the order numbers it has already seen.                               *)
(*                                                                         *)
(* External: the broker lists the orders newest or oldest first, and its    *)
(* cursor counts the entries it has handed out, so that an order that       *)
(* arrives may move others to the next page.  Orders never leave the list.  *)
(***************************************************************************)
EXTENDS Integers, FiniteSets

CONSTANTS
  PageSize,      \* external: entries of a page
  MaximumPages,  \* of the read's specification, 100
  MaxOrders      \* bound on the orders of the day

ASSUME PagesAssumption ==
  /\ PageSize \in Nat \ {0}
  /\ MaximumPages \in Nat \ {0}
  /\ MaxOrders \in Nat

VARIABLES
  book,     \* external: how many orders the day lists; they are numbered as they came
  listing,  \* external: "newest" or "oldest" first
  pc,       \* "idle", "reading", "done" or "failed"
  reader,   \* "domestic" or "overseas"
  cursor,   \* entries the broker has handed out to this read
  page,     \* number of the page that is asked for
  got,      \* the orders the pages had
  repeats,  \* the orders that were appended a second time
  floor     \* history: the orders of the day when the read began

vars == <<book, listing, pc, reader, cursor, page, got, repeats, floor>>

Readers == {"domestic", "overseas"}

TypeOK ==
  /\ book \in 0 .. MaxOrders /\ floor \in 0 .. book
  /\ listing \in {"newest", "oldest"} /\ reader \in Readers
  /\ pc \in {"idle", "reading", "done", "failed"}
  /\ cursor \in 0 .. book /\ page \in 1 .. MaximumPages
  /\ repeats \subseteq got /\ got \subseteq 1 .. book

Init ==
  /\ book \in 0 .. MaxOrders
  /\ listing \in {"newest", "oldest"}
  /\ pc = "idle" /\ reader = "domestic"
  /\ cursor = 0 /\ page = 1 /\ got = {} /\ repeats = {} /\ floor = 0

\* An order enters the day's list.
Arrive ==
  /\ book < MaxOrders
  /\ book' = book + 1
  /\ UNCHANGED <<listing, pc, reader, cursor, page, got, repeats, floor>>

\* A mutant of Begin: what was repeated is kept from one read to the next.
BeginKeeping(r) ==
  /\ pc # "reading"
  /\ pc' = "reading" /\ reader' = r
  /\ cursor' = 0 /\ page' = 1 /\ got' = {} /\ floor' = book
  /\ UNCHANGED <<book, listing, repeats>>

Begin(r) ==
  /\ pc # "reading"
  /\ pc' = "reading" /\ reader' = r
  /\ cursor' = 0 /\ page' = 1 /\ got' = {} /\ repeats' = {} /\ floor' = book
  /\ UNCHANGED <<book, listing>>

-----------------------------------------------------------------------------
(* One page. *)

\* The broker hands out the entries after the cursor.
LastEntry == IF cursor + PageSize < book THEN cursor + PageSize ELSE book
Entries ==
  {IF listing = "oldest" THEN k ELSE book + 1 - k : k \in cursor + 1 .. LastEntry}

\* Mutants of Append: the overseas reader appends as the domestic one does; the
\* reader keeps the last page.
AppendAll ==
  /\ got' = got \union Entries
  /\ repeats' = repeats \union (got \intersect Entries)
AppendLast ==
  /\ got' = Entries
  /\ repeats' = {}

Append ==
  /\ got' = got \union Entries
  /\ repeats' = IF reader = "domestic" THEN repeats \union (got \intersect Entries)
                                       ELSE repeats

LimitReached == page = MaximumPages

\* A mutant of LastPage: at the limit, what there is is returned.
LastPageAtLimit ==
  /\ pc = "reading"
  /\ LastEntry = book \/ LimitReached
  /\ Append
  /\ cursor' = LastEntry
  /\ pc' = "done"
  /\ UNCHANGED <<book, listing, reader, page, floor>>

\* The broker has nothing to hand out after this page, and says so.
LastPage ==
  /\ pc = "reading"
  /\ LastEntry = book
  /\ Append
  /\ cursor' = LastEntry
  /\ pc' = "done"
  /\ UNCHANGED <<book, listing, reader, page, floor>>

\* A mutant of NextPage: there is no limit, and the pages are counted anew.
NextPageForEver ==
  /\ pc = "reading"
  /\ Append
  /\ cursor' = LastEntry
  /\ page' = IF LimitReached THEN 1 ELSE page + 1
  /\ UNCHANGED <<book, listing, pc, reader, floor>>

\* It gives a cursor to go on with, perhaps with nothing left to hand out.
NextPage ==
  /\ pc = "reading"
  /\ ~LimitReached
  /\ Append
  /\ cursor' = LastEntry
  /\ page' = page + 1
  /\ UNCHANGED <<book, listing, pc, reader, floor>>

\* A cursor at the limit, or the one that was sent; no answer in time, an error,
\* or an answer that is malformed or too long: the whole read fails.
ReadFails ==
  /\ pc = "reading"
  /\ pc' = "failed"
  /\ UNCHANGED <<book, listing, reader, cursor, page, got, repeats, floor>>

Next ==
  \/ Arrive
  \/ \E r \in Readers : Begin(r)
  \/ LastPage \/ NextPage \/ ReadFails

Spec == Init /\ [][Next]_vars

\* Every request has a timeout: it is answered or has failed.
FairSpec == Spec /\ WF_vars(LastPage \/ NextPage \/ ReadFails)

-----------------------------------------------------------------------------
(* Properties. *)

\* A read that succeeds has every order that was listed when it began, however
\* many arrive between its pages (order_history.go:54-103, 232-288): an order it
\* does not have may be concluded absent.
CompleteRead == pc = "done" => 1 .. floor \subseteq got

\* An order is repeated only in the domestic history, listed newest first, and
\* at most one for each order that arrived during the read: the resolver leaves
\* a command with two matches UNKNOWN (order_history.go:89, 266-274).
RepeatsAreMoves ==
  Cardinality(repeats) =<
    IF reader = "domestic" /\ listing = "newest" THEN book - floor ELSE 0

\* A read ends, also when the broker always has a cursor to go on with.
ReadEnds == pc = "reading" ~> pc # "reading"

\* The pages together are the read that the resolver takes them for.
Read == INSTANCE HistoryRead WITH
  state <- pc, result <- IF pc = "done" THEN got ELSE {}
ImplementsRead == Read!ReadSpec
=============================================================================
