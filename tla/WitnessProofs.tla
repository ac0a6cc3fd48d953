---------------------------- MODULE WitnessProofs -----------------------------
(***************************************************************************)
(* Proofs about Witness, for any commands and deliveries.                   *)
(***************************************************************************)
EXTENDS Witness, FiniteSetTheorems, TLAPS

\* The statements a request has still to run tell its kind.
KindOK ==
  \A r \in Requests :
    /\ At(r, "record") => r \in Posts
    /\ pc[r] \in {"attach", "look"} => r \in Echoes
    /\ At(r, "find") => r \in Posts \union Echoes

\* A request of that kind whose write is in the table: its row is the one its
\* receipt shows, and its echo is the one that is stored.
Shows(r, stamp) ==
  /\ r \in Posts \union Echoes
  /\ stamp # None /\ recorded[r.id] = stamp
  /\ r \in Echoes => echo[r.id] = r

Shown(a) == a.code = "ok" => Shows(a.req, a.stamp)

Answered ==
  /\ \A a \in answers : Shown(a)
  /\ \A r \in Requests : /\ Shown(answer[r])
                         /\ At(r, "find") => Shows(r, recorded[r.id])

\* While calm, one request at most is handled; the gauge is current except
\* between its write and its refresh, and it sets what it has read.
Refreshed ==
  calm =>
    /\ \A r \in Requests : ~At(r, "idle") =>
         /\ Alone(r)
         /\ pc[r] \in {"record", "attach", "look", "tell"} => gauge = Cardinality(Missing)
         /\ At(r, "set") => seen[r] = Missing
    /\ (\A r \in Requests : At(r, "idle")) => gauge = Cardinality(Missing)

-----------------------------------------------------------------------------
(* Types. *)

\* The first state has its types.
LEMMA InitType == Init => TypeOK
<1> SUFFICES ASSUME Init PROVE TypeOK
  OBVIOUS
<1>1. NoAnswer \in Answers
  BY DEF NoAnswer, Answer, Answers
<1>2. calm \in BOOLEAN
  BY Zenon DEF Init
<1> QED
  BY <1>1, <1>2 DEF Init, TypeOK

\* What a request has read can be counted.
LEMMA CountIsNatural == ASSUME TypeOK, NEW r \in Requests PROVE Cardinality(seen[r]) \in Nat
<1>1. seen[r] \subseteq Commands
  BY DEF TypeOK
<1>2. IsFiniteSet(seen[r])
  BY <1>1, WitnessAssumption, FS_Subset
<1> QED
  BY <1>2, FS_CardinalityType

\* calm is a Boolean, which SMT is told in a step of its own.
LEMMA CalmType == ASSUME TypeOK, [Next]_vars PROVE calm' \in BOOLEAN
<1>1. calm \in BOOLEAN
  BY DEF TypeOK
<1>2. ASSUME NEW r \in Requests, Arrive(r) PROVE calm' \in BOOLEAN
  BY Zenon, <1>2 DEF Arrive
<1>3. ASSUME NEW r \in Requests, Count(r) PROVE calm' \in BOOLEAN
  BY Zenon, <1>3 DEF Count
<1>4. CASE UNCHANGED vars
  BY <1>1, <1>4 DEF vars
<1>5. ASSUME NEW r \in Requests,
             Find(r) \/ CountFails(r) \/ SetGauge(r) \/ TellCaller(r) \/ StoreError(r)
      PROVE  calm' \in BOOLEAN
  BY <1>1, <1>5 DEF Find, CountFails, SetGauge, TellCaller, StoreError
<1>6. ASSUME NEW p \in Posts, Record(p) \/ Conflict(p) PROVE calm' \in BOOLEAN
  BY <1>1, <1>6 DEF Record, Conflict
<1>7. ASSUME NEW e \in Echoes, Attach(e) \/ NotAttached(e) \/ Look(e) PROVE calm' \in BOOLEAN
  BY <1>1, <1>7 DEF Attach, NotAttached, Look
<1>8. CASE Crash
  BY <1>8 DEF Crash
<1> QED
  BY <1>2, <1>3, <1>4, <1>5, <1>6, <1>7, <1>8 DEF Next

\* Every step keeps the types.
LEMMA NextType == ASSUME TypeOK, KindOK, [Next]_vars PROVE TypeOK'
<1> USE DEF TypeOK, Requests, Answers
<1>0. calm' \in BOOLEAN
  BY CalmType
<1>1. ASSUME NEW r \in Requests, Arrive(r) PROVE TypeOK'
  BY <1>0, <1>1 DEF Arrive, At, Goto, rowVars
<1>2. ASSUME NEW p \in Posts, Record(p) PROVE TypeOK'
  BY <1>0, <1>2, WitnessAssumption DEF Record, Recorded, Goto, Answer
<1>3. ASSUME NEW p \in Posts, Conflict(p) PROVE TypeOK'
  BY <1>0, <1>3 DEF Conflict, Goto, rowVars
<1>4. ASSUME NEW e \in Echoes, Attach(e) PROVE TypeOK'
  BY <1>0, <1>4, WitnessAssumption DEF Attach, Attached, Goto
<1>5. ASSUME NEW e \in Echoes, NotAttached(e) PROVE TypeOK'
  BY <1>0, <1>5 DEF NotAttached, Goto, rowVars
<1>6. ASSUME NEW r \in Requests, Find(r) PROVE TypeOK'
  <2>1. r.id \in Commands
    BY <1>6, WitnessAssumption DEF Find, KindOK
  <2>2. Answer(r, "ok", recorded[r.id]) \in Answers
    BY <2>1 DEF Answer
  <2> QED
    BY <1>0, <1>6, <2>2 DEF Find, Goto, rowVars
<1>7. ASSUME NEW e \in Echoes, Look(e) PROVE TypeOK'
  <2>1. Answer(e, Refusal(e), None) \in Answers
    BY DEF Answer, Refusal
  <2> QED
    BY <1>0, <1>7, <2>1 DEF Look, Goto, rowVars
<1>8. ASSUME NEW r \in Requests, Count(r) PROVE TypeOK'
  BY <1>0, <1>8 DEF Count, Goto, rowVars, Missing
<1>9. ASSUME NEW r \in Requests, CountFails(r) PROVE TypeOK'
  BY <1>0, <1>9 DEF CountFails, Goto, rowVars
<1>10. ASSUME NEW r \in Requests, SetGauge(r) PROVE TypeOK'
  <2>1. gauge' \in Nat
    BY <1>10, CountIsNatural DEF SetGauge
  <2> QED
    BY <1>0, <1>10, <2>1 DEF SetGauge, Goto, rowVars
<1>11. ASSUME NEW r \in Requests, TellCaller(r) PROVE TypeOK'
  BY <1>0, <1>11 DEF TellCaller, Goto, rowVars, NoAnswer, Answer
<1>12. ASSUME NEW r \in Requests, StoreError(r) PROVE TypeOK'
  BY <1>0, <1>12, WitnessAssumption DEF StoreError, Goto, rowVars, NoAnswer, Answer, Attached, At, KindOK
<1>13. CASE Crash
  BY <1>0, <1>13 DEF Crash, rowVars, NoAnswer, Answer
<1>14. CASE UNCHANGED vars
  BY <1>14 DEF vars
<1> QED
  BY <1>1, <1>2, <1>3, <1>4, <1>5, <1>6, <1>7, <1>8, <1>9, <1>10, <1>11, <1>12, <1>13, <1>14 DEF Next

-----------------------------------------------------------------------------
(* The kinds of requests. *)

\* A request stays in the steps of its kind.
LEMMA NextKind == ASSUME TypeOK, KindOK, [Next]_vars PROVE KindOK'
<1> USE DEF TypeOK, KindOK, Requests, At, Goto
<1>1. ASSUME NEW r \in Requests, Arrive(r) PROVE KindOK'
  BY <1>1 DEF Arrive
<1>2. ASSUME NEW p \in Posts, Record(p) \/ Conflict(p) PROVE KindOK'
  BY <1>2 DEF Record, Conflict
<1>3. ASSUME NEW e \in Echoes, Attach(e) \/ NotAttached(e) \/ Look(e) PROVE KindOK'
  BY <1>3 DEF Attach, NotAttached, Look
<1>4. ASSUME NEW r \in Requests,
             Find(r) \/ Count(r) \/ CountFails(r) \/ SetGauge(r) \/ TellCaller(r) \/ StoreError(r)
      PROVE  KindOK'
  BY <1>4 DEF Find, Count, CountFails, SetGauge, TellCaller, StoreError
<1>5. CASE Crash
  BY <1>5 DEF Crash
<1>6. CASE UNCHANGED vars
  BY <1>6 DEF vars
<1> QED
  BY <1>1, <1>2, <1>3, <1>4, <1>5, <1>6 DEF Next

\* Types and kinds hold together, for ever.
LEMMA Typed == Spec => [](TypeOK /\ KindOK)
<1>1. Init => TypeOK /\ KindOK
  BY InitType DEF Init, KindOK, At
<1>2. TypeOK /\ KindOK /\ [Next]_vars => (TypeOK /\ KindOK)'
  BY NextType, NextKind
<1> QED
  BY <1>1, <1>2, PTL DEF Spec

\* Every request is in a known state, and what it has read are commands.
THEOREM TypeCorrect == Spec => []TypeOK
  BY Typed, PTL

-----------------------------------------------------------------------------
(* Rows and answers. *)

\* No statement changes a receipt or an echo once it is stored.
LEMMA RowsStay ==
  ASSUME TypeOK, KindOK, [Next]_vars, NEW c \in Commands
  PROVE  /\ recorded[c] # None => recorded'[c] = recorded[c]
         /\ echo[c] # None => echo'[c] = echo[c]
<1>1. ASSUME NEW p \in Posts, Record(p)
      PROVE  recorded[c] # None => recorded'[c] = recorded[c]
  BY <1>1 DEF Record, Recorded, TypeOK
<1>2. ASSUME NEW e \in Echoes, Attach(e)
      PROVE  echo[c] # None => echo'[c] = echo[c]
  BY <1>2 DEF Attach, Attached, TypeOK
<1>3. ASSUME NEW r \in Requests, StoreError(r)
      PROVE  /\ recorded[c] # None => recorded'[c] = recorded[c]
             /\ echo[c] # None => echo'[c] = echo[c]
  BY <1>3 DEF StoreError, Attached, TypeOK, rowVars
<1>4. \/ UNCHANGED rowVars
      \/ \E p \in Posts : Record(p)
      \/ \E e \in Echoes : Attach(e)
      \/ \E r \in Requests : StoreError(r)
  BY DEF Next, vars, rowVars, Arrive, Find, Count, CountFails, SetGauge, TellCaller,
         Conflict, NotAttached, Look, Crash
<1>5. ASSUME NEW p \in Posts, Record(p) PROVE echo' = echo
  BY <1>5 DEF Record
<1>6. ASSUME NEW e \in Echoes, Attach(e) PROVE recorded' = recorded
  BY <1>6 DEF Attach
<1> QED
  BY <1>1, <1>2, <1>3, <1>4, <1>5, <1>6 DEF rowVars

\* The audit evidence of a command is written once.
THEOREM WrittenOnce == Spec => EvidenceIsFinal
<1>1. TypeOK /\ KindOK /\ [Next]_vars =>
        [\A c \in Commands : /\ recorded[c] # None => recorded'[c] = recorded[c]
                             /\ echo[c] # None => echo'[c] = echo[c]]_vars
  BY RowsStay
<1> QED
  BY <1>1, Typed, PTL DEF Spec, EvidenceIsFinal

\* What a request has shown stays true.
LEMMA ShowsStays ==
  ASSUME TypeOK, KindOK, [Next]_vars, NEW r, NEW stamp, Shows(r, stamp)
  PROVE  Shows(r, stamp)'
<1>1. r.id \in Commands
  BY WitnessAssumption DEF Shows
<1>2. recorded[r.id] # None
  BY DEF Shows
<1>3. r \in Echoes => echo[r.id] # None
  BY WitnessAssumption DEF Shows
<1> QED
  BY <1>1, <1>2, <1>3, RowsStay DEF Shows

\* An answer under way shows the stored receipt.
LEMMA NextAnswered == ASSUME TypeOK, KindOK, Answered, [Next]_vars PROVE Answered'
<1>1. \A a : Shown(a) => Shown(a)'
  BY ShowsStays DEF Shown
<1>2. ASSUME NEW r \in Requests, At(r, "find")
      PROVE  r.id \in Commands /\ recorded[r.id] # None
                /\ recorded'[r.id] = recorded[r.id] /\ Shows(r, recorded[r.id])'
  <2>1. Shows(r, recorded[r.id])
    BY <1>2 DEF Answered
  <2>2. r.id \in Commands /\ recorded[r.id] # None
    BY <2>1, WitnessAssumption DEF Shows
  <2> QED
    BY <2>1, <2>2, ShowsStays, RowsStay
<1>3. Shown(NoAnswer)'
  BY DEF Shown, NoAnswer, Answer
<1> DEFINE AnswersOK == \A a \in answers : Shown(a)
           AnswerOK(r) == Shown(answer[r])
           FindOK(r) == At(r, "find") => Shows(r, recorded[r.id])
<1>4. ASSUME NEW r \in Requests, FindOK(r)', AnswerOK(r)',
             AnswersOK', \A q \in Requests \ {r} : pc'[q] = pc[q] /\ answer'[q] = answer[q]
      PROVE  Answered'
  <2>1. ASSUME NEW q \in Requests \ {r} PROVE AnswerOK(q)' /\ FindOK(q)'
    <3>1. AnswerOK(q)'
      BY <1>1, <1>4 DEF Answered
    <3>2. FindOK(q)'
      BY <1>2, <1>4 DEF At
    <3> QED
      BY <3>1, <3>2
  <2> QED
    BY <1>4, <2>1 DEF Answered
<1>5. answers' = answers => AnswersOK'
  BY <1>1 DEF Answered
<1>6. ASSUME NEW r \in Requests, Arrive(r) PROVE Answered'
  <2>1. FindOK(r)' /\ AnswerOK(r)' /\ AnswersOK'
    BY <1>1, <1>5, <1>6 DEF Arrive, At, Goto, TypeOK, Answered
  <2> QED
    BY <1>4, <1>6, <2>1 DEF Arrive, Goto, TypeOK
<1>7. ASSUME NEW p \in Posts, Record(p) PROVE Answered'
  <2>1. p \in Requests /\ p \notin Echoes /\ p.id \in Commands /\ p # None
    BY WitnessAssumption DEF Requests
  <2>2. recorded'[p.id] = p
    BY <1>7, <2>1 DEF Record, Recorded, TypeOK
  <2>3. answer'[p] = Answer(p, "ok", p)
    BY <1>7, <2>1 DEF Record, Recorded, TypeOK
  <2>4. Shown(answer[p])'
    BY <2>1, <2>2, <2>3 DEF Shown, Shows, Answer
  <2>5. FindOK(p)' /\ AnswersOK'
    BY <1>5, <1>7, <2>1 DEF Record, At, Goto, TypeOK
  <2> QED
    BY <1>4, <1>7, <2>1, <2>4, <2>5 DEF Record, Recorded, Goto, TypeOK
<1>8. ASSUME NEW p \in Posts, Conflict(p) PROVE Answered'
  <2>1. p \in Requests /\ p \notin Echoes /\ p.id \in Commands
    BY WitnessAssumption DEF Requests
  <2>2. FindOK(p)'
    BY <1>8, <2>1 DEF Conflict, Shows, rowVars
  <2>3. AnswerOK(p)' /\ AnswersOK'
    BY <1>1, <1>5, <1>8, <2>1 DEF Conflict, Answered
  <2> QED
    BY <1>4, <1>8, <2>1, <2>2, <2>3 DEF Conflict, Goto, TypeOK
<1>9. ASSUME NEW e \in Echoes, Attach(e) PROVE Answered'
  <2>1. e \in Requests /\ e.id \in Commands
    BY WitnessAssumption DEF Requests
  <2>2. FindOK(e)'
    BY <1>9, <2>1 DEF Attach, Attached, Shows, TypeOK
  <2>3. AnswerOK(e)' /\ AnswersOK'
    BY <1>1, <1>5, <1>9, <2>1 DEF Attach, Answered
  <2> QED
    BY <1>4, <1>9, <2>1, <2>2, <2>3 DEF Attach, Goto, TypeOK
<1>10. ASSUME NEW e \in Echoes, NotAttached(e) PROVE Answered'
  <2>1. e \in Requests
    BY DEF Requests
  <2>2. FindOK(e)' /\ AnswerOK(e)' /\ AnswersOK'
    BY <1>1, <1>5, <1>10, <2>1 DEF NotAttached, Answered, At, Goto, TypeOK
  <2> QED
    BY <1>4, <1>10, <2>1, <2>2 DEF NotAttached, Goto, TypeOK
<1>11. ASSUME NEW e \in Echoes, Look(e) PROVE Answered'
  <2>1. e \in Requests
    BY DEF Requests
  <2>2. Shown(Answer(e, Refusal(e), None))'
    BY DEF Shown, Answer, Refusal
  <2>3. AnswersOK'
    <3>1. ASSUME NEW a \in answers' PROVE Shown(a)'
      <4>1. a \in answers \/ a = Answer(e, Refusal(e), None)
        BY <1>11, <3>1 DEF Look
      <4>2. CASE a \in answers
        BY <1>1, <4>2 DEF Answered
      <4>3. CASE a = Answer(e, Refusal(e), None)
        <5>1. a.code # "ok"
          BY <4>3 DEF Answer, Refusal
        <5> QED
          BY <5>1 DEF Shown
      <4> QED
        BY <4>1, <4>2, <4>3
    <3> QED
      BY <3>1
  <2>4. FindOK(e)' /\ AnswerOK(e)'
    BY <1>1, <1>11, <2>1 DEF Look, Answered, At, Goto, TypeOK
  <2> QED
    BY <1>4, <1>11, <2>1, <2>3, <2>4 DEF Look, Goto, TypeOK
<1>12. ASSUME NEW r \in Requests, Find(r) PROVE Answered'
  <2>1. Shows(r, recorded[r.id])' /\ recorded' = recorded
    BY <1>2, <1>12 DEF Find, rowVars
  <2>2. answer'[r] = Answer(r, "ok", recorded[r.id])
    BY <1>12 DEF Find, TypeOK
  <2>3. AnswerOK(r)'
    BY <2>1, <2>2 DEF Shown, Answer
  <2>4. FindOK(r)' /\ AnswersOK'
    BY <1>5, <1>12 DEF Find, At, Goto, TypeOK
  <2> QED
    BY <1>4, <1>12, <2>3, <2>4 DEF Find, Goto, TypeOK
<1>13. ASSUME NEW r \in Requests, Count(r) \/ CountFails(r) \/ SetGauge(r) PROVE Answered'
  <2>1. FindOK(r)' /\ AnswerOK(r)' /\ AnswersOK'
    BY <1>1, <1>5, <1>13 DEF Count, CountFails, SetGauge, Answered, At, Goto, TypeOK
  <2> QED
    BY <1>4, <1>13, <2>1 DEF Count, CountFails, SetGauge, Goto, TypeOK
<1>14. ASSUME NEW r \in Requests, TellCaller(r) PROVE Answered'
  <2>1. AnswersOK'
    BY <1>1, <1>14 DEF TellCaller, Answered
  <2>2. answer'[r] = NoAnswer /\ pc'[r] = "idle"
    BY <1>14 DEF TellCaller, Goto, TypeOK
  <2>3. FindOK(r)' /\ AnswerOK(r)'
    BY <1>3, <2>2 DEF At
  <2> QED
    BY <1>4, <1>14, <2>1, <2>3 DEF TellCaller, Goto, TypeOK
<1>15. ASSUME NEW r \in Requests, StoreError(r) PROVE Answered'
  <2>1. answer'[r] = NoAnswer /\ pc'[r] = "idle" /\ answers' = answers
    BY <1>15 DEF StoreError, Goto, TypeOK
  <2>2. FindOK(r)' /\ AnswerOK(r)' /\ AnswersOK'
    BY <1>3, <1>5, <2>1 DEF At
  <2> QED
    BY <1>4, <1>15, <2>2 DEF StoreError, Goto, TypeOK
<1>16. CASE Crash
  <2>1. AnswersOK'
    BY <1>5, <1>16 DEF Crash
  <2>2. ASSUME NEW r \in Requests PROVE FindOK(r)' /\ AnswerOK(r)'
    <3>1. answer'[r] = NoAnswer /\ pc'[r] = "idle"
      BY <1>16 DEF Crash
    <3> QED
      BY <1>3, <3>1 DEF At
  <2> QED
    BY <2>1, <2>2 DEF Answered
<1>17. CASE UNCHANGED vars
  BY <1>17 DEF vars, Answered, Shown, Shows, At
<1> QED
  BY <1>6, <1>7, <1>8, <1>9, <1>10, <1>11, <1>12, <1>13, <1>14, <1>15, <1>16, <1>17 DEF Next

\* What callers were told is in the table.
LEMMA AnswersHold == Spec => []Answered
<1>1. Init => Answered
  BY DEF Init, Answered, Shown, NoAnswer, Answer, At
<1>2. TypeOK /\ KindOK /\ Answered /\ [Next]_vars => Answered'
  BY NextAnswered
<1> QED
  BY <1>1, <1>2, Typed, PTL DEF Spec

\* Whoever is told that a witness is recorded is shown the stored receipt.
THEOREM ReplayCorrect == Spec => []ReplayIsOriginal
<1>1. Answered => ReplayIsOriginal
  BY DEF Answered, Shown, Shows, ReplayIsOriginal
<1> QED
  BY <1>1, AnswersHold, PTL

\* An acknowledged echo is the stored one: no two are ever acknowledged.
THEOREM EchoOnce == Spec => []AcknowledgedEchoIsStored
<1>1. Answered => AcknowledgedEchoIsStored
  BY DEF Answered, Shown, Shows, AcknowledgedEchoIsStored
<1> QED
  BY <1>1, AnswersHold, PTL

-----------------------------------------------------------------------------
(* The gauge. *)

\* Calm, a request that is not idle is the only one.
LEMMA OneAtWork ==
  ASSUME Refreshed, calm, NEW r \in Requests, ~At(r, "idle"), NEW q \in Requests, q # r
  PROVE  At(q, "idle")
BY DEF Refreshed, Alone

\* A count that was alone leaves the gauge right.
LEMMA NextRefreshed == ASSUME TypeOK, KindOK, Refreshed, [Next]_vars PROVE Refreshed'
<1> SUFFICES ASSUME calm' PROVE Refreshed'
  BY DEF Refreshed
<1> DEFINE Current == gauge = Cardinality(Missing)
           Work(r) ==
             ~At(r, "idle") =>
               /\ Alone(r)
               /\ pc[r] \in {"record", "attach", "look", "tell"} => Current
               /\ At(r, "set") => seen[r] = Missing
           Rest == (\A r \in Requests : At(r, "idle")) => Current
\* All that is to be shown of a step of a request that is alone after it.
<1>1. ASSUME NEW r \in Requests,
             \A q \in Requests \ {r} : At(q, "idle")',
             (pc[r] \in {"idle", "record", "attach", "look", "tell"} => Current)',
             (At(r, "set") => seen[r] = Missing)'
      PROVE  Refreshed'
  <2>1. Work(r)'
    BY <1>1 DEF Alone, At
  <2>2. ASSUME NEW q \in Requests \ {r} PROVE Work(q)'
    BY <1>1 DEF At
  <2>3. Rest'
    BY <1>1 DEF At
  <2> QED
    BY <2>1, <2>2, <2>3 DEF Refreshed
<1>2. ASSUME NEW r \in Requests, Arrive(r) PROVE Refreshed'
  <2>1. calm /\ Alone(r) /\ At(r, "idle")
    BY <1>2 DEF Arrive
  <2>2. \A q \in Requests : At(q, "idle")
    BY <2>1 DEF Alone
  <2>3. Current
    BY <2>1, <2>2 DEF Refreshed
  <2>4. Current'
    BY <1>2, <2>3 DEF Arrive, rowVars, Missing
  <2>5. \A q \in Requests \ {r} : At(q, "idle")'
    BY <1>2, <2>2 DEF Arrive, At, Goto, TypeOK
  <2>6. pc'[r] # "set"
    BY <1>2 DEF Arrive, Goto, TypeOK
  <2> QED
    BY <1>1, <2>4, <2>5, <2>6 DEF At
<1>3. ASSUME NEW p \in Posts, Record(p) PROVE Refreshed'
  <2>1. p \in Requests /\ calm /\ pc[p] = "record" /\ pc'[p] = "count"
    BY <1>3 DEF Record, At, Goto, TypeOK, Requests
  <2>2. \A q \in Requests \ {p} : At(q, "idle")'
    BY <1>3, <2>1, OneAtWork DEF Record, At, Goto, TypeOK
  <2> QED
    BY <1>1, <2>1, <2>2 DEF At
<1>4. ASSUME NEW p \in Posts, Conflict(p) PROVE Refreshed'
  <2>1. p \in Requests /\ calm /\ pc[p] = "record" /\ pc'[p] = "find"
    BY <1>4 DEF Conflict, At, Goto, TypeOK, Requests
  <2>2. \A q \in Requests \ {p} : At(q, "idle")'
    BY <1>4, <2>1, OneAtWork DEF Conflict, At, Goto, TypeOK
  <2> QED
    BY <1>1, <2>1, <2>2 DEF At
<1>5. ASSUME NEW e \in Echoes, Attach(e) PROVE Refreshed'
  <2>1. e \in Requests /\ calm /\ pc[e] = "attach" /\ pc'[e] = "find"
    BY <1>5 DEF Attach, At, Goto, TypeOK, Requests
  <2>2. \A q \in Requests \ {e} : At(q, "idle")'
    BY <1>5, <2>1, OneAtWork DEF Attach, At, Goto, TypeOK
  <2> QED
    BY <1>1, <2>1, <2>2 DEF At
<1>6. ASSUME NEW e \in Echoes, NotAttached(e) \/ Look(e) PROVE Refreshed'
  <2>1. e \in Requests /\ calm /\ pc[e] \in {"attach", "look"} /\ pc'[e] \in {"look", "idle"}
    BY <1>6 DEF NotAttached, Look, At, Goto, TypeOK, Requests
  <2>2. \A q \in Requests \ {e} : At(q, "idle")'
    BY <1>6, <2>1, OneAtWork DEF NotAttached, Look, At, Goto, TypeOK
  <2>3. Current
    BY <2>1 DEF Refreshed, At
  <2>4. Current'
    BY <1>6, <2>3 DEF NotAttached, Look, rowVars, Missing
  <2> QED
    BY <1>1, <2>1, <2>2, <2>4 DEF At
<1>7. ASSUME NEW r \in Requests, Find(r) PROVE Refreshed'
  <2>1. calm /\ pc[r] = "find" /\ pc'[r] = "count"
    BY <1>7 DEF Find, At, Goto, TypeOK
  <2>2. \A q \in Requests \ {r} : At(q, "idle")'
    BY <1>7, <2>1, OneAtWork DEF Find, At, Goto, TypeOK
  <2> QED
    BY <1>1, <2>1, <2>2 DEF At
<1>8. ASSUME NEW r \in Requests, Count(r) PROVE Refreshed'
  <2>1. pc[r] = "count" /\ pc'[r] = "set" /\ seen'[r] = Missing
    BY <1>8 DEF Count, At, Goto, TypeOK
  <2>2. Alone(r)
    <3>1. calm \/ Alone(r)
      BY Zenon, <1>8 DEF Count
    <3>2. calm => Alone(r)
      BY <2>1 DEF Refreshed, At
    <3> QED
      BY <3>1, <3>2
  <2>3. \A q \in Requests \ {r} : At(q, "idle")'
    BY <1>8, <2>2 DEF Count, Alone, At, Goto, TypeOK
  <2>4. Missing' = Missing
    BY <1>8 DEF Count, rowVars, Missing
  <2> QED
    BY <1>1, <2>1, <2>3, <2>4 DEF At
<1>9. ASSUME NEW r \in Requests, CountFails(r) \/ StoreError(r) PROVE Refreshed'
  BY <1>9 DEF CountFails, StoreError
<1>10. ASSUME NEW r \in Requests, SetGauge(r) PROVE Refreshed'
  <2>1. calm /\ pc[r] = "set" /\ pc'[r] = "tell"
    BY <1>10 DEF SetGauge, At, Goto, TypeOK
  <2>2. seen[r] = Missing /\ Missing' = Missing
    BY <1>10, <2>1 DEF Refreshed, At, SetGauge, rowVars, Missing
  <2>3. Current'
    BY <1>10, <2>2 DEF SetGauge
  <2>4. \A q \in Requests \ {r} : At(q, "idle")'
    BY <1>10, <2>1, OneAtWork DEF SetGauge, At, Goto, TypeOK
  <2> QED
    BY <1>1, <2>1, <2>3, <2>4 DEF At
<1>11. ASSUME NEW r \in Requests, TellCaller(r) PROVE Refreshed'
  <2>1. calm /\ pc[r] = "tell" /\ pc'[r] = "idle"
    BY <1>11 DEF TellCaller, At, Goto, TypeOK
  <2>2. Current
    BY <2>1 DEF Refreshed, At
  <2>3. Current'
    BY <1>11, <2>2 DEF TellCaller, rowVars, Missing
  <2>4. \A q \in Requests \ {r} : At(q, "idle")'
    BY <1>11, <2>1, OneAtWork DEF TellCaller, At, Goto, TypeOK
  <2> QED
    BY <1>1, <2>1, <2>3, <2>4 DEF At
<1>12. CASE Crash
  BY <1>12 DEF Crash
<1>13. CASE UNCHANGED vars
  <2>1. Missing' = Missing
    BY <1>13 DEF vars, Missing
  <2> QED
    BY <1>13, <2>1 DEF vars, Refreshed, Alone, At
<1> QED
  BY <1>2, <1>3, <1>4, <1>5, <1>6, <1>7, <1>8, <1>9, <1>10, <1>11, <1>12, <1>13 DEF Next

\* After requests that did not overlap, and no failure, the gauge is current.
THEOREM GaugeCorrect == Spec => []GaugeIsCurrent
<1>1. Init => Refreshed
  <2>1. ASSUME Init PROVE gauge = Cardinality(Missing)
    <3>1. Missing = {}
      BY <2>1 DEF Init, Missing
    <3> QED
      BY <2>1, <3>1, FS_EmptySet DEF Init
  <2> QED
    BY <2>1 DEF Init, Refreshed, At
<1>2. TypeOK /\ KindOK /\ Refreshed /\ [Next]_vars => Refreshed'
  BY NextRefreshed
<1>3. Refreshed => GaugeIsCurrent
  BY DEF Refreshed, GaugeIsCurrent
<1> QED
  BY <1>1, <1>2, <1>3, Typed, PTL DEF Spec
=============================================================================
