---------------------------- MODULE CommandLedger -----------------------------
(***************************************************************************)
(* What kis-mock-edge promises to whoever delivers commands, without its    *)
(* tables, goroutines, crashes and evidence: a command is sent at most      *)
(* once, a receipt passes once from UNKNOWN to a conclusion, and the        *)
(* conclusion is true of the broker's book, now and for good.               *)
(***************************************************************************)
CONSTANTS
  Commands,
  Inherited   \* commands that an earlier release left UNKNOWN, a subset of Commands

VARIABLES
  receipt,   \* "none", "UNKNOWN", "ACCEPTED" or "NOT_CREATED"
  sent,      \* commands whose order was sent to the broker
  created    \* commands whose order is in the broker's book

ledgerVars == <<receipt, sent, created>>

LedgerInit ==
  /\ receipt = [c \in Commands |-> IF c \in Inherited THEN "UNKNOWN" ELSE "none"]
  /\ sent = Inherited
  /\ created \in SUBSET Inherited

Is(c, disposition) == receipt[c] = disposition
Becomes(c, disposition) == receipt' = [receipt EXCEPT ![c] = disposition]

\* The edge refuses a command it has not sent.
Reject(c) ==
  /\ Is(c, "none")
  /\ Becomes(c, "NOT_CREATED")
  /\ UNCHANGED <<sent, created>>

\* The edge records that the outcome is open, before it sends anything.
Commit(c) ==
  /\ Is(c, "none")
  /\ Becomes(c, "UNKNOWN")
  /\ UNCHANGED <<sent, created>>

\* The one send; a conclusion may be drawn from the book before the edge itself
\* knows the answer, but a command concluded absent is never sent.
Transmit(c) ==
  /\ Is(c, "UNKNOWN")
  /\ c \notin sent
  /\ sent' = sent \union {c}
  /\ UNCHANGED <<receipt, created>>

\* The broker creates the order of a command that was sent, once.
Create(c) ==
  /\ c \in sent \ created
  /\ Is(c, "UNKNOWN")
  /\ created' = created \union {c}
  /\ UNCHANGED <<receipt, sent>>

\* The two conclusions.
Accept(c) ==
  /\ Is(c, "UNKNOWN")
  /\ c \in created
  /\ Becomes(c, "ACCEPTED")
  /\ UNCHANGED <<sent, created>>

Absent(c) ==
  /\ Is(c, "UNKNOWN")
  /\ c \notin created
  /\ Becomes(c, "NOT_CREATED")
  /\ UNCHANGED <<sent, created>>

LedgerNext ==
  \E c \in Commands : \/ Reject(c) \/ Commit(c) \/ Transmit(c)
                      \/ Create(c) \/ Accept(c) \/ Absent(c)

LedgerSpec == LedgerInit /\ [][LedgerNext]_ledgerVars
=============================================================================
