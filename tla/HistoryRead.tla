----------------------------- MODULE HistoryRead ------------------------------
(***************************************************************************)
(* What the resolver takes a history read to be: it fails, or it returns    *)
(* every order that was listed when it began, and only orders that are      *)
(* listed.  Orders are numbered in the order in which the day lists them.   *)
(* Resolution's EndRead and ReadFails are this read's Succeed and Fail.     *)
(***************************************************************************)
EXTENDS Integers

VARIABLES
  book,    \* how many orders the day has
  floor,   \* how many it had when the read began
  state,   \* "idle", "reading", "done" or "failed"
  result   \* what a read that is done has returned

readVars == <<book, floor, state, result>>

ReadInit == book \in Nat /\ floor = 0 /\ state = "idle" /\ result = {}

\* An order is listed.
List == book' = book + 1 /\ UNCHANGED <<floor, state, result>>

Ask ==
  /\ state # "reading"
  /\ state' = "reading" /\ floor' = book /\ result' = {}
  /\ UNCHANGED book

Succeed ==
  /\ state = "reading"
  /\ state' = "done"
  /\ 1 .. floor \subseteq result' /\ result' \subseteq 1 .. book
  /\ UNCHANGED <<book, floor>>

Fail ==
  /\ state = "reading"
  /\ state' = "failed"
  /\ UNCHANGED <<book, floor, result>>

ReadNext == List \/ Ask \/ Succeed \/ Fail

ReadSpec == ReadInit /\ [][ReadNext]_readVars
=============================================================================
