------------------------------- MODULE Witness --------------------------------
(***************************************************************************)
(* Live commands of which kis-mock-edge is only the witness: it records the *)
(* intent, later the broker's answer to it (the echo), and counts the ones  *)
(* without.  Every request is a goroutine, split at its store statements    *)
(* and at the gauge; callers repeat requests as they like.                  *)
(***************************************************************************)
EXTENDS Integers, FiniteSets

CONSTANTS
  Commands,  \* command ids
  Copies,    \* what tells deliveries of one command apart
  Posts,     \* [id, copy]: deliveries of POST /v1/commands that pass validation
  Echoes,    \* [id, copy]: valid deliveries of POST .../echo
  Audits,    \* deliveries of GET /v1/commands?missing_echo=true
  None

ASSUME WitnessAssumption ==
  /\ IsFiniteSet(Commands)
  /\ Posts \union Echoes \subseteq [id : Commands, copy : Copies]
  /\ Posts \intersect Echoes = {} /\ Audits \intersect (Posts \union Echoes) = {}
  /\ None \notin Posts \union Echoes \union Audits

Requests == Posts \union Echoes \union Audits

VARIABLES
  recorded,  \* the post whose receipt a command's row has, or None without a row
  echo,      \* the echo its row has, or None
  pc,        \* what a request does next; "idle" when it is not being handled
  answer,    \* the answer a request is about to give
  seen,      \* the rows without an echo that a request has read
  gauge,     \* edge_witness_missing_echo
  answers,   \* history: the answers given
  calm       \* history: since the gauge was last read for, nothing overlapped or failed

vars == <<recorded, echo, pc, answer, seen, gauge, answers, calm>>
rowVars == <<recorded, echo>>

\* An answer names the request, its code, and the post whose receipt it shows.
Answer(r, code, stamp) == [req |-> r, code |-> code, stamp |-> stamp]
NoAnswer == Answer(None, "none", None)
Answers == [req : Requests \union {None},
            code : {"none", "ok", "witness_not_found", "echo_already_recorded"},
            stamp : Posts \union {None}]

TypeOK ==
  /\ recorded \in [Commands -> Posts \union {None}]
  /\ echo \in [Commands -> Echoes \union {None}]
  /\ pc \in [Requests -> {"idle", "record", "find", "attach", "look", "count", "set", "tell"}]
  /\ answer \in [Requests -> Answers] /\ answers \subseteq Answers
  /\ seen \in [Requests -> SUBSET Commands]
  /\ gauge \in Nat /\ calm \in BOOLEAN

Init ==
  /\ recorded = [c \in Commands |-> None] /\ echo = [c \in Commands |-> None]
  /\ pc = [r \in Requests |-> "idle"] /\ answer = [r \in Requests |-> NoAnswer]
  /\ seen = [r \in Requests |-> {}]
  /\ gauge = 0 /\ answers = {} /\ calm = TRUE

At(r, state) == pc[r] = state
Goto(r, state) == pc' = [pc EXCEPT ![r] = state]
Alone(r) == \A q \in Requests \ {r} : At(q, "idle")

Missing == {c \in Commands : recorded[c] # None /\ echo[c] = None}

-----------------------------------------------------------------------------
(* The requests. *)

Arrive(r) ==
  /\ At(r, "idle")
  /\ Goto(r, IF r \in Posts THEN "record" ELSE IF r \in Echoes THEN "attach" ELSE "count")
  /\ calm' = (calm /\ Alone(r))
  /\ UNCHANGED <<rowVars, answer, seen, gauge, answers>>

\* A mutant of Recorded: the later delivery replaces the row.
RecordedOver(p) ==
  /\ recorded' = [recorded EXCEPT ![p.id] = p]
  /\ answer' = [answer EXCEPT ![p] = Answer(p, "ok", p)]

\* The INSERT of StoreWitness creates the row.
Recorded(p) ==
  /\ recorded[p.id] = None
  /\ recorded' = [recorded EXCEPT ![p.id] = p]
  /\ answer' = [answer EXCEPT ![p] = Answer(p, "ok", p)]

Record(p) ==
  /\ At(p, "record")
  /\ Recorded(p)
  /\ Goto(p, "count")
  /\ UNCHANGED <<echo, seen, gauge, answers, calm>>

\* A mutant of Conflict: the receipt is this delivery's, not the stored one.
ConflictFresh(p) ==
  /\ At(p, "record") /\ recorded[p.id] # None
  /\ answer' = [answer EXCEPT ![p] = Answer(p, "ok", p)]
  /\ Goto(p, "count")
  /\ UNCHANGED <<rowVars, seen, gauge, answers, calm>>

\* Another delivery created it before; FindWitness reads the original receipt.
Conflict(p) ==
  /\ At(p, "record") /\ recorded[p.id] # None
  /\ Goto(p, "find")
  /\ UNCHANGED <<rowVars, answer, seen, gauge, answers, calm>>

\* A mutant of Attached: the WHERE does not ask for a row without an echo.
AttachedOver(e) == recorded[e.id] # None /\ echo' = [echo EXCEPT ![e.id] = e]

\* The one-shot UPDATE.
Attached(e) ==
  /\ recorded[e.id] # None /\ echo[e.id] = None
  /\ echo' = [echo EXCEPT ![e.id] = e]

Attach(e) ==
  /\ At(e, "attach")
  /\ Attached(e)
  /\ Goto(e, "find")
  /\ UNCHANGED <<recorded, answer, seen, gauge, answers, calm>>

\* It matches no row.
NotAttached(e) ==
  /\ At(e, "attach")
  /\ recorded[e.id] = None \/ echo[e.id] # None
  /\ Goto(e, "look")
  /\ UNCHANGED <<rowVars, answer, seen, gauge, answers, calm>>

\* A mutant of Find: an attached echo does not refresh the gauge.
FindUnrefreshed(r) ==
  /\ At(r, "find")
  /\ answer' = [answer EXCEPT ![r] = Answer(r, "ok", recorded[r.id])]
  /\ Goto(r, IF r \in Echoes THEN "tell" ELSE "count")
  /\ UNCHANGED <<rowVars, seen, gauge, answers, calm>>

\* FindWitness, for the answer of either request.
Find(r) ==
  /\ At(r, "find")
  /\ answer' = [answer EXCEPT ![r] = Answer(r, "ok", recorded[r.id])]
  /\ Goto(r, "count")
  /\ UNCHANGED <<rowVars, seen, gauge, answers, calm>>

\* A mutant of Refusal: one code for both.
RefusalBare(e) == "echo_refused"

\* Why no row matched: a second statement tells a missing row from an echo, of
\* which it reads the time and does not look at it.
Refusal(e) == IF recorded[e.id] = None THEN "witness_not_found" ELSE "echo_already_recorded"

Look(e) ==
  /\ At(e, "look")
  /\ answers' = answers \union {Answer(e, Refusal(e), None)}
  /\ Goto(e, "idle")
  /\ UNCHANGED <<rowVars, answer, seen, gauge, calm>>

-----------------------------------------------------------------------------
(* The gauge and the answer. *)

\* MissingWitnesses, for an audit and for the gauge.
Count(r) ==
  /\ At(r, "count")
  /\ seen' = [seen EXCEPT ![r] = Missing]
  /\ calm' = (calm \/ Alone(r))
  /\ Goto(r, "set")
  /\ UNCHANGED <<rowVars, answer, gauge, answers>>

\* It fails: the gauge is left as it is, and the request succeeds.
CountFails(r) ==
  /\ At(r, "count") /\ r \notin Audits
  /\ calm' = FALSE
  /\ Goto(r, "tell")
  /\ UNCHANGED <<rowVars, answer, seen, gauge, answers>>

\* setMissingWitnesses
SetGauge(r) ==
  /\ At(r, "set")
  /\ gauge' = Cardinality(seen[r])
  /\ Goto(r, "tell")
  /\ UNCHANGED <<rowVars, answer, seen, answers, calm>>

\* An audit's answer is the list in seen.
TellCaller(r) ==
  /\ At(r, "tell")
  /\ answers' = IF r \in Audits THEN answers ELSE answers \union {answer[r]}
  /\ answer' = [answer EXCEPT ![r] = NoAnswer] /\ seen' = [seen EXCEPT ![r] = {}]
  /\ Goto(r, "idle")
  /\ UNCHANGED <<rowVars, gauge, calm>>

\* A store statement fails, or reports a failure although it was committed: 500.
StoreError(r) ==
  /\ \/ pc[r] \in {"record", "attach", "find", "look"} /\ UNCHANGED rowVars
     \/ At(r, "count") /\ r \in Audits /\ UNCHANGED rowVars
     \/ At(r, "record") /\ recorded[r.id] = None
        /\ recorded' = [recorded EXCEPT ![r.id] = r] /\ UNCHANGED echo
     \/ At(r, "attach") /\ Attached(r) /\ UNCHANGED recorded
  /\ calm' = FALSE
  /\ answer' = [answer EXCEPT ![r] = NoAnswer]
  /\ Goto(r, "idle")
  /\ UNCHANGED <<seen, gauge, answers>>

\* The daemon dies; its successor's gauge starts at zero.
Crash ==
  /\ pc' = [r \in Requests |-> "idle"] /\ answer' = [r \in Requests |-> NoAnswer]
  /\ seen' = [r \in Requests |-> {}]
  /\ gauge' = 0 /\ calm' = FALSE
  /\ UNCHANGED <<rowVars, answers>>

Next ==
  \/ \E r \in Requests : \/ Arrive(r) \/ Find(r) \/ Count(r) \/ CountFails(r)
                         \/ SetGauge(r) \/ TellCaller(r) \/ StoreError(r)
  \/ \E p \in Posts : Record(p) \/ Conflict(p)
  \/ \E e \in Echoes : Attach(e) \/ NotAttached(e) \/ Look(e)
  \/ Crash

Spec == Init /\ [][Next]_vars

-----------------------------------------------------------------------------
(* Properties. *)

\* Whoever is told that a witness is recorded is shown the receipt that is
\* stored, also the deliveries that came later or raced ("replayable",
\* witness.go:14-15), and an echo is acknowledged only while the row is there.
ReplayIsOriginal ==
  \A a \in answers : a.code = "ok" => a.stamp # None /\ recorded[a.req.id] = a.stamp

\* An acknowledged echo is the one that is stored: of several that race, one at
\* most is acknowledged (store.go:380-381).
AcknowledgedEchoIsStored ==
  \A a \in answers : a.code = "ok" /\ a.req \in Echoes => echo[a.req.id] = a.req

\* Audit evidence is not rewritten: neither a receipt nor an echo (store.go:381).
EvidenceIsFinal ==
  [][\A c \in Commands : /\ recorded[c] # None => recorded'[c] = recorded[c]
                         /\ echo[c] # None => echo'[c] = echo[c]]_vars

\* Once a request was alone from its count on, and nothing failed or crashed, the
\* gauge is "Current kis_live shadow witnesses without an attached broker echo"
\* (metrics.go:56); requests that overlap may leave it behind.
GaugeIsCurrent ==
  calm /\ (\A r \in Requests : At(r, "idle")) => gauge = Cardinality(Missing)

\* "The edge rejects a duplicate" (store.go:380-381): an echo that is rejected as
\* already recorded has one before it.
RejectedEchoIsDuplicate ==
  \A a \in answers : a.code = "echo_already_recorded" => echo[a.req.id] # None
=============================================================================
