-------------------------------- MODULE Canary --------------------------------
(***************************************************************************)
(* edge-canary: a process that places one order through the edge, cancels   *)
(* it, and writes what it proved to a textfile.  Every stage has a deadline *)
(* of its own, and the run has one; what a stage has given up on may still  *)
(* be handled by the edge.  The timer starts one run after the other.       *)
(*                                                                         *)
(* The edge is the CommandLedger that BrokerEdge is shown to implement, and *)
(* its cancels.  A run is named by its command, whose id has its time.      *)
(***************************************************************************)
EXTENDS CommandLedger, Ticks

CONSTANTS
  Bands,     \* answers to the band inquiry
  BandTime, PlaceTime, CheckTime, CancelTime,   \* deadlines of the stages
  Overall    \* deadline of the run

ASSUME CanaryAssumption ==
  /\ Commands \subseteq Nat \ {0} /\ Inherited = {}
  /\ Bands \subseteq [lower : Nat, base : Nat]
  /\ {BandTime, PlaceTime, CheckTime, CancelTime, Overall} \subseteq Nat

\* 120 s covers 20 s + 25 s + 25 s + 25 s.
ASSUME BudgetAssumption == Overall >= BandTime + PlaceTime + CheckTime + CancelTime

VARIABLES
  attempt,     \* per command: the edge's record of its cancel
  closed,      \* external: commands whose order the broker has closed
  placeSent,   \* commands whose placement was sent to the edge
  cancelSent,  \* commands whose cancel was sent to the edge
  pc,          \* the stage of the run, or "idle"
  run,         \* the run: its command, scope, price, outcome, ...
  stageLeft,   \* what is left of the stage's deadline
  runLeft,     \* what is left of the run's deadline
  begun,       \* commands of the runs so far
  reports,     \* per command: what its run ended with
  textfile,    \* per scope: the run of the last success, or 0
  succeeded,   \* history: the same, of the runs themselves
  forgotten    \* history: a run could not read the textfile

edgeVars == <<receipt, sent, created, attempt, closed>>
sentVars == <<placeSent, cancelSent>>
runVars == <<pc, run, stageLeft, runLeft, begun>>
fileVars == <<reports, textfile, succeeded, forgotten>>
vars == <<edgeVars, sentVars, runVars, fileVars>>

Scopes == {"kis_mock", "kis_mock_us"}
Stages == {"band", "place", "check", "cancel"}
Outcomes == {"ok", "place_not_accepted", "cancel_not_cancelled", "edge_unreachable",
             "price_unavailable", "no_session"}
Successes == [Scopes -> Commands \union {0}]
NoSuccess == [s \in Scopes |-> 0]

NoRun == [id |-> 0, scope |-> "no_session", price |-> NoPrice, outcome |-> "none",
          checked |-> FALSE, previous |-> NoSuccess]
Running == [id : Commands \union {0}, scope : Scopes \union {"no_session"}, price : Nat,
            outcome : Outcomes \union {"none"}, checked : BOOLEAN, previous : Successes]

NoReport == [outcome |-> "none", checked |-> FALSE, passed |-> FALSE]

TypeOK ==
  /\ receipt \in [Commands -> {"none", "UNKNOWN", "ACCEPTED", "NOT_CREATED"}]
  /\ sent \subseteq Commands /\ created \subseteq Commands /\ closed \subseteq Commands
  /\ attempt \in [Commands -> {"none", "UNKNOWN", "CANCELLED"}]
  /\ placeSent \subseteq Commands /\ cancelSent \subseteq Commands /\ begun \subseteq Commands
  /\ pc \in Stages \union {"idle", "report", "write"}
  /\ run \in Running /\ (pc # "idle" => run.id \in begun)
  /\ stageLeft \in Nat /\ runLeft \in Nat
  /\ reports \in [Commands -> [outcome : Outcomes \union {"none"},
                               checked : BOOLEAN, passed : BOOLEAN]]
  /\ textfile \in Successes /\ succeeded \in Successes /\ forgotten \in BOOLEAN

Init ==
  /\ LedgerInit
  /\ attempt = [c \in Commands |-> "none"]
  /\ closed = {} /\ placeSent = {} /\ cancelSent = {} /\ begun = {}
  /\ pc = "idle" /\ run = NoRun /\ stageLeft = 0 /\ runLeft = 0
  /\ reports = [c \in Commands |-> NoReport]
  /\ textfile = NoSuccess /\ succeeded = NoSuccess /\ forgotten = FALSE

-----------------------------------------------------------------------------
(* The edge. *)

\* What the edge does with a placement, also after the canary's deadline.
EdgePlaces(c) ==
  /\ c \in placeSent
  /\ \/ Reject(c) \/ Commit(c) \/ Transmit(c) \/ Create(c) \/ Accept(c) \/ Absent(c)
  /\ UNCHANGED <<attempt, closed, sentVars, runVars, fileVars>>

\* A cancel of an accepted command is recorded, the broker closes the order, and
\* the edge learns of it; any other state counts as UNKNOWN.
EdgeCancels(c) ==
  /\ c \in cancelSent
  /\ \/ /\ attempt[c] = "none" /\ Is(c, "ACCEPTED")
        /\ attempt' = [attempt EXCEPT ![c] = "UNKNOWN"]
        /\ UNCHANGED closed
     \/ /\ attempt[c] = "UNKNOWN" /\ c \in created
        /\ closed' = closed \union {c}
        /\ UNCHANGED attempt
     \/ /\ attempt[c] = "UNKNOWN" /\ c \in closed
        /\ attempt' = [attempt EXCEPT ![c] = "CANCELLED"]
        /\ UNCHANGED closed
  /\ UNCHANGED <<ledgerVars, sentVars, runVars, fileVars>>

-----------------------------------------------------------------------------
(* The stages. *)

At(stage) == pc = stage

\* The run goes on to the next stage, or to its report.
Enter(stage, limit, r) == pc' = stage /\ stageLeft' = limit /\ run' = r

SendPlace(r) ==
  /\ Enter("place", PlaceTime, r)
  /\ placeSent' = placeSent \union {r.id}
  /\ UNCHANGED cancelSent

\* A mutant of SendCancel: the clean-up has only the deadline of the run.
SendCancelUnbounded(r) ==
  /\ Enter("cancel", Overall, r)
  /\ cancelSent' = cancelSent \union {r.id}
  /\ UNCHANGED placeSent

SendCancel(r) ==
  /\ Enter("cancel", CancelTime, r)
  /\ cancelSent' = cancelSent \union {r.id}
  /\ UNCHANGED placeSent

SendCheck(r) == Enter("check", CheckTime, [r EXCEPT !.checked = TRUE]) /\ UNCHANGED sentVars

Finish(r, outcome) == Enter("report", 0, [r EXCEPT !.outcome = outcome]) /\ UNCHANGED sentVars

\* A run begins: outside the sessions, or with an endpoint that is not loopback,
\* it ends at once; the US price is a constant, the Korean one is asked for.
Start(c) ==
  /\ At("idle") /\ \A d \in begun : d < c
  /\ begun' = begun \union {c}
  /\ runLeft' = Overall
  /\ \/ Finish([NoRun EXCEPT !.id = c], "no_session")
     \/ \E s \in Scopes : Finish([NoRun EXCEPT !.id = c, !.scope = s], "edge_unreachable")
     \/ Enter("band", BandTime, [NoRun EXCEPT !.id = c, !.scope = "kis_mock"])
        /\ UNCHANGED sentVars
     \/ SendPlace([NoRun EXCEPT !.id = c, !.scope = "kis_mock_us", !.price = 1])
  /\ UNCHANGED <<edgeVars, fileVars>>

\* The band inquiry answers, usably or not, or fails.
BandGet(band) ==
  /\ At("band")
  /\ DeriveKRPrice(band) # NoPrice
  /\ SendPlace([run EXCEPT !.price = DeriveKRPrice(band)])
  /\ UNCHANGED <<edgeVars, runLeft, begun, fileVars>>

BandFails ==
  /\ At("band")
  /\ Finish(run, "price_unavailable")
  /\ UNCHANGED <<edgeVars, runLeft, begun, fileVars>>

\* The receipt arrives; the edge answers 500 UNKNOWN when its store fails.
Placed(disposition) ==
  /\ At("place")
  /\ disposition \in {receipt[run.id], "UNKNOWN"} \ {"none"}
  /\ \/ disposition = "ACCEPTED" /\ SendCancel(run)
     \/ disposition = "NOT_CREATED" /\ Finish(run, "place_not_accepted")
     \/ disposition = "UNKNOWN" /\ SendCheck([run EXCEPT !.outcome = "place_not_accepted"])
  /\ UNCHANGED <<edgeVars, runLeft, begun, fileVars>>

\* A mutant of PlaceFails: no answer is taken for no order.
PlaceFailsQuietly(outcome) ==
  /\ At("place")
  /\ outcome \in {"place_not_accepted", "edge_unreachable"}
  /\ Finish(run, outcome)
  /\ UNCHANGED <<edgeVars, runLeft, begun, fileVars>>

\* No answer, or one that cannot be decoded: its body is read after the stage's
\* context was cancelled.  The placement may have been made all the same.
PlaceFails(outcome) ==
  /\ At("place")
  /\ outcome \in {"place_not_accepted", "edge_unreachable"}
  /\ SendCheck([run EXCEPT !.outcome = outcome])
  /\ UNCHANGED <<edgeVars, runLeft, begun, fileVars>>

\* A mutant of CheckProves: an order that is not known to exist is cancelled.
CheckProvesAny ==
  /\ At("check")
  /\ SendCancel(run)
  /\ UNCHANGED <<edgeVars, runLeft, begun, fileVars>>

\* The check proves the order resting: it is cleaned up.
CheckProves ==
  /\ At("check") /\ Is(run.id, "ACCEPTED")
  /\ SendCancel(run)
  /\ UNCHANGED <<edgeVars, runLeft, begun, fileVars>>

\* It does not, or does not answer.
CheckFails ==
  /\ At("check")
  /\ Finish(run, run.outcome)
  /\ UNCHANGED <<edgeVars, runLeft, begun, fileVars>>

\* A mutant of Cancelled: the answer's state is not looked at.
CancelledAny ==
  /\ At("cancel")
  /\ Finish(run, IF run.checked THEN run.outcome ELSE "ok")
  /\ UNCHANGED <<edgeVars, runLeft, begun, fileVars>>

\* The order is cancelled.  A clean-up keeps the outcome of the placement.
Cancelled ==
  /\ At("cancel") /\ attempt[run.id] = "CANCELLED"
  /\ Finish(run, IF run.checked THEN run.outcome ELSE "ok")
  /\ UNCHANGED <<edgeVars, runLeft, begun, fileVars>>

\* Another state, no answer, or one that cannot be decoded.
CancelFails(outcome) ==
  /\ At("cancel")
  /\ outcome \in {"cancel_not_cancelled", "edge_unreachable"}
  /\ Finish(run, outcome)
  /\ UNCHANGED <<edgeVars, runLeft, begun, fileVars>>

-----------------------------------------------------------------------------
(* The report. *)

\* WriteTextfile reads the earlier successes; an error is ignored.
ReadTextfile ==
  /\ At("report")
  /\ \/ run' = [run EXCEPT !.previous = textfile] /\ UNCHANGED forgotten
     \/ run' = [run EXCEPT !.previous = NoSuccess] /\ forgotten' = TRUE
  /\ pc' = "write"
  /\ UNCHANGED <<edgeVars, sentVars, stageLeft, runLeft, begun, reports, textfile, succeeded>>

\* A mutant of NewSuccesses: only the scope of the run is written.
NewSuccessesAlone(successes) ==
  IF run.outcome = "ok" THEN [NoSuccess EXCEPT ![run.scope] = run.id] ELSE successes

NewSuccesses(successes) ==
  IF run.outcome = "ok" THEN [successes EXCEPT ![run.scope] = run.id] ELSE successes

\* The exit status: 0 only for a written success, or outside the sessions.
End(written) ==
  /\ reports' = [reports EXCEPT ![run.id] =
                   [outcome |-> run.outcome, checked |-> run.checked,
                    passed |-> written /\ run.outcome \in {"ok", "no_session"}]]
  /\ pc' = "idle" /\ run' = NoRun /\ stageLeft' = 0 /\ runLeft' = 0

\* The snapshot is renamed into place.
WriteTextfile ==
  /\ At("write")
  /\ textfile' = NewSuccesses(run.previous)
  /\ succeeded' = IF run.outcome = "ok" THEN [succeeded EXCEPT ![run.scope] = run.id]
                                        ELSE succeeded
  /\ End(TRUE)
  /\ UNCHANGED <<edgeVars, sentVars, begun, forgotten>>

\* The temporary file cannot be made, written or renamed.
WriteFails ==
  /\ At("write")
  /\ End(FALSE)
  /\ UNCHANGED <<edgeVars, sentVars, begun, textfile, succeeded, forgotten>>

\* The process dies.
Die ==
  /\ pc # "idle"
  /\ pc' = "idle" /\ run' = NoRun /\ stageLeft' = 0 /\ runLeft' = 0
  /\ UNCHANGED <<edgeVars, sentVars, begun, fileVars>>

\* Mutants of Tick: deadlines are not looked at; the check has none.
TickPastDeadline ==
  /\ pc \in Stages
  /\ stageLeft' = stageLeft - 1 /\ runLeft' = runLeft - 1
  /\ UNCHANGED <<edgeVars, sentVars, pc, run, begun, fileVars>>
TickUnlessChecking ==
  /\ pc \in Stages \ {"check"} /\ stageLeft > 0 /\ runLeft > 0
  /\ stageLeft' = stageLeft - 1 /\ runLeft' = runLeft - 1
  /\ UNCHANGED <<edgeVars, sentVars, pc, run, begun, fileVars>>

\* Time passes in a stage, and ends it in the end.
Tick ==
  /\ pc \in Stages /\ stageLeft > 0 /\ runLeft > 0
  /\ stageLeft' = stageLeft - 1 /\ runLeft' = runLeft - 1
  /\ UNCHANGED <<edgeVars, sentVars, pc, run, begun, fileVars>>

TimeIsUp == stageLeft = 0 \/ runLeft = 0

StageFails ==
  \/ BandFails \/ CheckFails
  \/ \E o \in Outcomes : PlaceFails(o) \/ CancelFails(o)

StageStep ==
  \/ StageFails
  \/ \E band \in Bands : BandGet(band)
  \/ \E disposition \in {"ACCEPTED", "NOT_CREATED", "UNKNOWN"} : Placed(disposition)
  \/ CheckProves \/ Cancelled

Next ==
  \/ \E c \in Commands : Start(c) \/ EdgePlaces(c) \/ EdgeCancels(c)
  \/ StageStep \/ ReadTextfile \/ WriteTextfile \/ WriteFails
  \/ Die \/ Tick

Spec == Init /\ [][Next]_vars

-----------------------------------------------------------------------------
(* Properties. *)

\* A run that exits 0 leaves no order resting at the broker, now or later: the
\* round trip is proof that a machine can place and cancel (docs/canary.md:3-6).
PassLeavesNothing ==
  \A c \in Commands : reports[c].passed =>
    /\ c \in created => c \in closed
    /\ reports[c].outcome = "ok" => c \in created
    /\ reports[c].outcome = "no_session" => c \notin placeSent

\* A run that ends without a check although its placement was not accepted, or
\* never sent, has no order and never will have one (canary.go:374-377).
UncheckedIsAbsent ==
  \A c \in Commands :
    reports[c].outcome \in {"place_not_accepted", "price_unavailable"} /\ ~reports[c].checked
      => c \notin created /\ (c \in placeSent => Is(c, "NOT_CREATED"))

\* A cancel is sent only for a command that the edge holds accepted, whose order
\* exists, and the edge still holds it so (canary.go:381, 428-436).
CancelsAccepted == \A c \in cancelSent : Is(c, "ACCEPTED") /\ c \in created

\* No stage is cut short by what earlier stages took: the run's deadline leaves
\* each its own (canary.go:59-65).
FullBudget == pc \in Stages => runLeft >= stageLeft

\* The textfile has the last success of every scope, also of those that the last
\* runs did not select, unless a run could not read it; it never has another.
SuccessesKept ==
  \A s \in Scopes : textfile[s] = succeeded[s] \/ (forgotten /\ textfile[s] \in {0, succeeded[s]})

\* The edge's tick check accepts the Korean price that is sent (canary.go:536-538).
PriceIsAccepted ==
  pc \in {"place", "check", "cancel"} /\ run.scope = "kis_mock" => TickMatchesKR(run.price, "buy")

\* Time passes, a stage that is out of time ends, and the report is written.
Fairness ==
  /\ WF_vars(Tick) /\ WF_vars(TimeIsUp /\ StageFails)
  /\ WF_vars(ReadTextfile) /\ WF_vars(WriteTextfile \/ WriteFails)

FairSpec == Spec /\ Fairness

\* A run does not hang, whatever the edge does ("a hung stage could hold the run
\* forever", canary.go:61-62).
RunEnds == pc # "idle" ~> pc = "idle"
=============================================================================
