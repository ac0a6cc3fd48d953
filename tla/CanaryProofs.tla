----------------------------- MODULE CanaryProofs -----------------------------
(***************************************************************************)
(* Proofs about Canary, for any commands, bands and deadlines.              *)
(***************************************************************************)
EXTENDS Canary, TicksProofs

-----------------------------------------------------------------------------
(* Types. *)

\* A derived price is a price, and one that the edge's tick check accepts.
LEMMA DerivedPrice ==
  ASSUME NEW band \in Bands, DeriveKRPrice(band) # NoPrice
  PROVE  DeriveKRPrice(band) \in Nat /\ TickMatchesKR(DeriveKRPrice(band), "buy")
<1>1. band.lower \in Nat /\ band.base \in Nat
  BY CanaryAssumption
<1>2. CASE band.lower > 0
  <2>1. DeriveKRPrice(band) = RoundUpToTickKR(band.lower) /\ band.lower \in Prices
    BY <1>1, <1>2 DEF DeriveKRPrice, Prices
  <2> QED
    BY <2>1, LimitIsAccepted DEF Prices
<1>3. CASE band.lower = 0 /\ band.base > 0
  <2>1. DeriveKRPrice(band) = BandFloorKR(band.base) /\ band.base \in Prices
    BY <1>1, <1>3 DEF DeriveKRPrice, Prices
  <2> QED
    BY <2>1, FloorIsAccepted DEF Prices
<1>4. CASE band.lower = 0 /\ band.base = 0
  BY <1>4 DEF DeriveKRPrice
<1> QED
  BY <1>1, <1>2, <1>3, <1>4

\* The first state has its types.
LEMMA InitType == Init => TypeOK
<1> SUFFICES ASSUME Init PROVE TypeOK
  OBVIOUS
<1>1. created = {} /\ sent = {}
  BY CanaryAssumption DEF Init, LedgerInit
<1>2. NoSuccess \in Successes
  BY DEF NoSuccess, Successes
<1>3. NoRun \in Running
  BY <1>2 DEF NoRun, Running, NoPrice
<1> QED
  BY <1>1, <1>2, <1>3 DEF Init, LedgerInit, TypeOK, NoReport

\* The stages, and what is sent in them, keep the types if the run keeps its own.
LEMMA EnterType ==
  ASSUME TypeOK, pc' \in Stages \union {"report"}, stageLeft' \in Nat, runLeft' \in Nat,
         run' \in Running, run'.id \in begun', begun' \subseteq Commands,
         placeSent' \subseteq Commands, cancelSent' \subseteq Commands,
         UNCHANGED <<edgeVars, fileVars>>
  PROVE  TypeOK'
BY DEF TypeOK, edgeVars, fileVars

\* The deadlines are numbers, and the run covers its stages.
LEMMA Deadlines ==
  /\ BandTime \in Nat /\ PlaceTime \in Nat /\ CheckTime \in Nat /\ CancelTime \in Nat
  /\ Overall \in Nat /\ Overall >= BandTime + PlaceTime + CheckTime + CancelTime
BY CanaryAssumption, BudgetAssumption

\* The edge's steps keep the types.
LEMMA EdgeType ==
  ASSUME TypeOK, NEW c \in Commands, EdgePlaces(c) \/ EdgeCancels(c)
  PROVE  TypeOK'
<1>1. CASE EdgePlaces(c)
  <2>1. /\ receipt' \in [Commands -> {"none", "UNKNOWN", "ACCEPTED", "NOT_CREATED"}]
        /\ sent' \subseteq Commands /\ created' \subseteq Commands
    BY <1>1 DEF EdgePlaces, TypeOK, Reject, Commit, Transmit, Create, Accept, Absent, Becomes
  <2> QED
    BY <1>1, <2>1 DEF EdgePlaces, TypeOK, sentVars, runVars, fileVars
<1>2. CASE EdgeCancels(c)
  <2>1. /\ attempt' \in [Commands -> {"none", "UNKNOWN", "CANCELLED"}]
        /\ closed' \subseteq Commands
    BY <1>2 DEF EdgeCancels, TypeOK
  <2> QED
    BY <1>2, <2>1 DEF EdgeCancels, TypeOK, ledgerVars, sentVars, runVars, fileVars
<1> QED
  BY <1>1, <1>2

\* A run that begins is one of the commands.
LEMMA StartType ==
  ASSUME TypeOK, NEW c \in Commands, Start(c)
  PROVE  TypeOK'
<1>1. /\ begun' = begun \union {c} /\ begun' \subseteq Commands /\ runLeft' \in Nat
      /\ UNCHANGED <<edgeVars, fileVars>>
  BY Deadlines DEF Start, TypeOK
<1>2. NoSuccess \in Successes
  BY DEF NoSuccess, Successes
<1>3. /\ run' \in Running /\ run'.id = c
      /\ placeSent' \subseteq Commands /\ cancelSent' \subseteq Commands
  <2>1. CASE Finish([NoRun EXCEPT !.id = c], "no_session")
    BY <1>2, <2>1 DEF Finish, Enter, NoRun, NoPrice, Running, Outcomes, sentVars, TypeOK
  <2>2. CASE \E s \in Scopes : Finish([NoRun EXCEPT !.id = c, !.scope = s], "edge_unreachable")
    <3>1. PICK s \in Scopes : Finish([NoRun EXCEPT !.id = c, !.scope = s], "edge_unreachable")
      BY <2>2
    <3>2. /\ run' = [[NoRun EXCEPT !.id = c, !.scope = s] EXCEPT !.outcome = "edge_unreachable"]
          /\ UNCHANGED sentVars
      BY <3>1 DEF Finish, Enter
    <3> QED
      BY <1>2, <3>2 DEF NoRun, NoPrice, Running, Outcomes, sentVars, TypeOK
  <2>3. CASE Enter("band", BandTime, [NoRun EXCEPT !.id = c, !.scope = "kis_mock"])
             /\ UNCHANGED sentVars
    BY <1>2, <2>3 DEF Enter, NoRun, NoPrice, Running, Scopes, sentVars, TypeOK
  <2>4. CASE SendPlace([NoRun EXCEPT !.id = c, !.scope = "kis_mock_us", !.price = 1])
    BY <1>2, <2>4 DEF SendPlace, Enter, NoRun, NoPrice, Running, Scopes, TypeOK
  <2> QED
    BY <2>1, <2>2, <2>3, <2>4 DEF Start
<1>4. pc' \in Stages \union {"report"} /\ stageLeft' \in Nat
  <2>1. \/ pc' = "report" /\ stageLeft' = 0
        \/ pc' = "band" /\ stageLeft' = BandTime
        \/ pc' = "place" /\ stageLeft' = PlaceTime
    BY DEF Start, Finish, SendPlace, Enter
  <2> QED
    BY <2>1, Deadlines DEF Stages
<1> QED
  BY <1>1, <1>3, <1>4, EnterType

\* So is the run at every end of a stage.
LEMMA StageType ==
  ASSUME TypeOK, StageStep
  PROVE  TypeOK'
<1>1. /\ run \in Running /\ begun \subseteq Commands /\ runLeft \in Nat
      /\ placeSent \subseteq Commands /\ cancelSent \subseteq Commands
      /\ pc # "idle" => run.id \in begun
  BY DEF TypeOK
<1>2. UNCHANGED <<edgeVars, fileVars>> /\ runLeft' = runLeft /\ begun' = begun
  BY DEF StageStep, StageFails, BandGet, BandFails, Placed, PlaceFails, CheckProves, CheckFails,
         Cancelled, CancelFails
<1>3. pc # "idle"
  BY DEF StageStep, StageFails, BandGet, BandFails, Placed, PlaceFails, CheckProves, CheckFails,
         Cancelled, CancelFails, At
<1>4. pc' \in Stages \union {"report"} /\ stageLeft' \in Nat
  <2>1. \/ pc' = "place" /\ stageLeft' = PlaceTime
        \/ pc' = "check" /\ stageLeft' = CheckTime
        \/ pc' = "cancel" /\ stageLeft' = CancelTime
        \/ pc' = "report" /\ stageLeft' = 0
    BY DEF StageStep, StageFails, BandGet, BandFails, Placed, PlaceFails, CheckProves, CheckFails,
           Cancelled, CancelFails, SendPlace, SendCheck, SendCancel, Finish, Enter
  <2> QED
    BY <2>1, Deadlines DEF Stages
<1>5. placeSent' \subseteq placeSent \union {run'.id} /\ cancelSent' \subseteq cancelSent \union {run'.id}
  BY <1>1
     DEF StageStep, StageFails, BandGet, BandFails, Placed, PlaceFails, CheckProves, CheckFails,
         Cancelled, CancelFails, SendPlace, SendCheck, SendCancel, Finish, Enter, sentVars, Running
<1>6. run' \in Running /\ run'.id = run.id
  <2>1. ASSUME NEW band \in Bands, BandGet(band)
        PROVE  run' \in Running /\ run'.id = run.id
    BY <1>1, <2>1, DerivedPrice DEF BandGet, SendPlace, Enter, Running
  <2>2. CASE StageFails
    BY <1>1, <2>2 DEF StageFails, BandFails, PlaceFails, CheckFails, CancelFails, SendCheck, Finish,
                      Enter, Running, Outcomes
  <2>3. ASSUME NEW disposition \in {"ACCEPTED", "NOT_CREATED", "UNKNOWN"}, Placed(disposition)
        PROVE  run' \in Running /\ run'.id = run.id
    BY <1>1, <2>3 DEF Placed, SendCancel, SendCheck, Finish, Enter, Running, Outcomes
  <2>4. CASE CheckProves \/ Cancelled
    BY <1>1, <2>4 DEF CheckProves, Cancelled, SendCancel, Finish, Enter, Running, Outcomes
  <2> QED
    BY <2>1, <2>2, <2>3, <2>4 DEF StageStep
<1> QED
  BY <1>1, <1>2, <1>3, <1>4, <1>5, <1>6, EnterType

\* Reading and writing the textfile, a death and the clock keep the types.
LEMMA RestType ==
  ASSUME TypeOK, ReadTextfile \/ WriteTextfile \/ WriteFails \/ Die \/ Tick
  PROVE  TypeOK'
<1>1. run \in Running /\ textfile \in Successes /\ NoSuccess \in Successes
  BY DEF TypeOK, NoSuccess, Successes
<1>2. NoRun \in Running
  BY <1>1 DEF NoRun, Running, NoPrice
<1>3. CASE ReadTextfile
  <2>1. run' \in Running /\ run'.id = run.id
    BY <1>1, <1>3 DEF ReadTextfile, Running
  <2>2. forgotten' \in BOOLEAN
    BY <1>3 DEF ReadTextfile, TypeOK
  <2> QED
    BY <1>3, <2>1, <2>2 DEF ReadTextfile, TypeOK, At, edgeVars, sentVars
<1>4. CASE WriteTextfile \/ WriteFails
  <2>1. pc = "write" /\ run.id \in Commands
    BY <1>4 DEF WriteTextfile, WriteFails, At, TypeOK
  <2>2. textfile' \in Successes /\ succeeded' \in Successes
    BY <1>1, <1>4, <2>1 DEF WriteTextfile, WriteFails, NewSuccesses, Running, Successes, TypeOK
  <2>3. reports' \in [Commands -> [outcome : Outcomes \union {"none"},
                                   checked : BOOLEAN, passed : BOOLEAN]]
    <3>1. PICK written \in BOOLEAN : End(written)
      BY <1>4 DEF WriteTextfile, WriteFails
    <3>2. run.checked \in BOOLEAN /\ run.outcome \in Outcomes \union {"none"}
      BY <1>1 DEF Running
    <3> DEFINE passed == written /\ run.outcome \in {"ok", "no_session"}
    <3>3. passed \in BOOLEAN
      BY Zenon
    <3>4. reports' = [reports EXCEPT ![run.id] = [outcome |-> run.outcome,
                        checked |-> run.checked, passed |-> passed]]
      BY <3>1 DEF End
    <3> HIDE DEF passed
    <3> QED
      BY <2>1, <3>2, <3>3, <3>4 DEF TypeOK
  <2> QED
    BY <1>2, <1>4, <2>2, <2>3 DEF WriteTextfile, WriteFails, End, TypeOK, edgeVars, sentVars
<1>5. CASE Die
  BY <1>2, <1>5 DEF Die, TypeOK, edgeVars, sentVars, fileVars
<1>6. CASE Tick
  BY <1>6 DEF Tick, TypeOK, edgeVars, sentVars, fileVars
<1> QED
  BY <1>3, <1>4, <1>5, <1>6

\* Every step keeps the types.
LEMMA NextType == TypeOK /\ [Next]_vars => TypeOK'
<1> SUFFICES ASSUME TypeOK, [Next]_vars PROVE TypeOK'
  OBVIOUS
<1>1. CASE UNCHANGED vars
  BY <1>1 DEF vars, edgeVars, sentVars, runVars, fileVars, TypeOK
<1> QED
  BY <1>1, StartType, EdgeType, StageType, RestType DEF Next

\* Every variable has its type.
THEOREM TypeCorrect == Spec => []TypeOK
BY InitType, NextType, PTL DEF Spec

-----------------------------------------------------------------------------
(* Deadlines. *)

\* The run's deadline leaves a stage its own, and those of the stages that may
\* follow: a step that enters a stage needs what the earlier ones have left.
Budget ==
  /\ At("band") => runLeft >= stageLeft + PlaceTime + CheckTime + CancelTime
  /\ At("place") => runLeft >= stageLeft + CheckTime + CancelTime
  /\ At("check") => runLeft >= stageLeft + CancelTime
  /\ At("cancel") => runLeft >= stageLeft

\* A stage spends its own time, and the run as much.
LEMMA NextBudget == TypeOK /\ Budget /\ [Next]_vars => Budget'
<1> SUFFICES ASSUME TypeOK, Budget, [Next]_vars PROVE Budget'
  OBVIOUS
<1>1. stageLeft \in Nat /\ runLeft \in Nat
  BY DEF TypeOK
<1>2. CASE UNCHANGED runVars
  BY <1>2 DEF runVars, Budget, At
<1>3. ASSUME NEW c \in Commands, Start(c)
      PROVE  Budget'
  <2>1. /\ runLeft' = Overall
        /\ \/ pc' = "report"
           \/ pc' = "band" /\ stageLeft' = BandTime
           \/ pc' = "place" /\ stageLeft' = PlaceTime
    BY <1>3 DEF Start, Finish, SendPlace, Enter
  <2> QED
    BY <2>1, Deadlines DEF Budget, At
<1>4. CASE StageStep
  <2>1. runLeft' = runLeft
    BY <1>4 DEF StageStep, StageFails, BandGet, BandFails, Placed, PlaceFails, CheckProves,
                CheckFails, Cancelled, CancelFails
  <2>2. \/ At("band") /\ pc' = "place" /\ stageLeft' = PlaceTime
        \/ At("place") /\ pc' = "check" /\ stageLeft' = CheckTime
        \/ (At("place") \/ At("check")) /\ pc' = "cancel" /\ stageLeft' = CancelTime
        \/ pc' = "report"
    BY <1>4 DEF StageStep, StageFails, BandGet, BandFails, Placed, PlaceFails, CheckProves,
                CheckFails, Cancelled, CancelFails, SendPlace, SendCheck, SendCancel, Finish, Enter
  <2> QED
    BY <1>1, <2>1, <2>2, Deadlines DEF Budget, At
<1>5. CASE Tick
  BY <1>1, <1>5, Deadlines DEF Tick, Budget, At
<1>6. CASE ReadTextfile \/ WriteTextfile \/ WriteFails \/ Die
  BY <1>6 DEF ReadTextfile, WriteTextfile, WriteFails, Die, End, Budget, At
<1>7. ASSUME NEW c \in Commands, EdgePlaces(c) \/ EdgeCancels(c)
      PROVE  UNCHANGED runVars
  BY <1>7 DEF EdgePlaces, EdgeCancels
<1> QED
  BY <1>2, <1>3, <1>4, <1>5, <1>6, <1>7 DEF Next, vars

\* FullBudget: no stage is cut short by what earlier stages took.
THEOREM StagesKeepTheirTime == Spec => []FullBudget
<1>1. Init => Budget
  BY DEF Init, Budget, At
<1>2. TypeOK /\ Budget => FullBudget
  BY Deadlines DEF TypeOK, Budget, FullBudget, Stages, At
<1> QED
  BY <1>1, <1>2, TypeCorrect, NextBudget, PTL DEF Spec

-----------------------------------------------------------------------------
(* The price. *)

\* The price is set once, from the band.
LEMMA NextPrice == TypeOK /\ PriceIsAccepted /\ [Next]_vars => PriceIsAccepted'
<1> SUFFICES ASSUME TypeOK, PriceIsAccepted, [Next]_vars PROVE PriceIsAccepted'
  OBVIOUS
<1>1. run \in Running
  BY DEF TypeOK
<1>2. ASSUME NEW c \in Commands, Start(c)
      PROVE  run'.scope # "kis_mock" \/ pc' \in {"band", "report"}
  BY <1>2 DEF Start, Finish, SendPlace, Enter, NoRun
<1>3. ASSUME NEW band \in Bands, BandGet(band)
      PROVE  run'.price = DeriveKRPrice(band)
  BY <1>1, <1>3 DEF BandGet, SendPlace, Enter, Running
<1>4. CASE StageStep /\ ~(\E band \in Bands : BandGet(band))
  BY <1>1, <1>4
     DEF StageStep, StageFails, BandFails, Placed, PlaceFails, CheckProves, CheckFails, Cancelled,
         CancelFails, SendCheck, SendCancel, Finish, Enter, PriceIsAccepted, At, Running
<1>5. CASE Tick \/ UNCHANGED runVars
  BY <1>5 DEF Tick, runVars, PriceIsAccepted
<1>6. CASE ReadTextfile \/ WriteTextfile \/ WriteFails \/ Die
  BY <1>6 DEF ReadTextfile, WriteTextfile, WriteFails, Die, End, PriceIsAccepted
<1>7. ASSUME NEW c \in Commands, EdgePlaces(c) \/ EdgeCancels(c)
      PROVE  UNCHANGED runVars
  BY <1>7 DEF EdgePlaces, EdgeCancels
<1>8. ASSUME NEW band \in Bands, BandGet(band)
      PROVE  PriceIsAccepted'
  <2>1. TickMatchesKR(DeriveKRPrice(band), "buy")
    BY <1>8, DerivedPrice DEF BandGet
  <2> QED
    BY <1>3, <1>8, <2>1 DEF PriceIsAccepted
<1>9. ASSUME NEW c \in Commands, Start(c)
      PROVE  PriceIsAccepted'
  BY <1>2, <1>9 DEF PriceIsAccepted
<1> QED
  BY <1>4, <1>5, <1>6, <1>7, <1>8, <1>9 DEF Next, StageStep, vars

\* PriceIsAccepted: whatever the band, the edge's tick check accepts the price.
THEOREM PriceCorrect == Spec => []PriceIsAccepted
<1>1. Init => PriceIsAccepted
  BY DEF Init, PriceIsAccepted
<1> QED
  BY <1>1, TypeCorrect, NextPrice, PTL DEF Spec

-----------------------------------------------------------------------------
(* The textfile. *)

\* What was read is still in the textfile when it is written: nobody else writes.
Remembered ==
  pc = "write" => run.previous = textfile \/ (forgotten /\ run.previous = NoSuccess)

\* Only the run in "write" changes the textfile.
LEMMA NextSuccesses ==
  TypeOK /\ SuccessesKept /\ Remembered /\ [Next]_vars => SuccessesKept' /\ Remembered'
<1> SUFFICES ASSUME TypeOK, SuccessesKept, Remembered, [Next]_vars
             PROVE  SuccessesKept' /\ Remembered'
  OBVIOUS
<1>1. run \in Running /\ textfile \in Successes /\ succeeded \in Successes /\ NoSuccess \in Successes
  BY DEF TypeOK, NoSuccess, Successes
<1>2. CASE UNCHANGED <<pc, run, fileVars>>
  BY <1>2 DEF fileVars, SuccessesKept, Remembered
<1>3. CASE ReadTextfile
  BY <1>1, <1>3 DEF ReadTextfile, SuccessesKept, Remembered, At, Running
<1>4. CASE WriteTextfile
  <2>1. pc' = "idle" /\ forgotten' = forgotten
    BY <1>4 DEF WriteTextfile, End
  <2>2. ASSUME NEW s \in Scopes
        PROVE  textfile'[s] = succeeded'[s] \/ (forgotten /\ textfile'[s] \in {0, succeeded'[s]})
    <3>1. run.previous[s] = succeeded[s] \/ (forgotten /\ run.previous[s] \in {0, succeeded[s]})
      BY <1>4 DEF WriteTextfile, At, Remembered, SuccessesKept, NoSuccess
    <3>2. run.previous \in Successes
      BY <1>1 DEF Running
    <3> QED
      BY <1>1, <1>4, <3>1, <3>2 DEF WriteTextfile, NewSuccesses, Successes
  <2> QED
    BY <2>1, <2>2 DEF SuccessesKept, Remembered
<1>5. CASE WriteFails \/ Die
  BY <1>5 DEF WriteFails, Die, End, fileVars, SuccessesKept, Remembered
<1>6. ASSUME StageStep \/ Tick \/ \E c \in Commands : Start(c)
      PROVE  pc' # "write" /\ UNCHANGED fileVars
  BY <1>6
     DEF Start, StageStep, StageFails, BandGet, BandFails, Placed, PlaceFails, CheckProves, Tick,
         CheckFails, Cancelled, CancelFails, SendPlace, SendCheck, SendCancel, Finish, Enter, Stages
<1>7. ASSUME NEW c \in Commands, EdgePlaces(c) \/ EdgeCancels(c)
      PROVE  UNCHANGED <<pc, run, fileVars>>
  BY <1>7 DEF EdgePlaces, EdgeCancels, runVars
<1>8. CASE pc' # "write" /\ UNCHANGED fileVars
  BY <1>8 DEF fileVars, SuccessesKept, Remembered
<1> QED
  BY <1>2, <1>3, <1>4, <1>5, <1>6, <1>7, <1>8 DEF Next, vars, runVars

\* SuccessesKept: the textfile has the last success of every scope, unless a run
\* could not read it.
THEOREM SuccessesCorrect == Spec => []SuccessesKept
<1>1. Init => SuccessesKept /\ Remembered
  BY DEF Init, SuccessesKept, Remembered
<1> QED
  BY <1>1, TypeCorrect, NextSuccesses, PTL DEF Spec

-----------------------------------------------------------------------------
(* What a run proves. *)

\* The edge's own facts, which a late step of the edge cannot undo.
EdgeFacts ==
  \A c \in Commands :
    /\ Is(c, "ACCEPTED") => c \in created
    /\ Is(c, "none") \/ Is(c, "NOT_CREATED") => c \notin created
    /\ c \in created => c \in placeSent
    /\ attempt[c] = "CANCELLED" => c \in closed
    /\ c \in placeSent => c \in begun
    /\ c \in cancelSent => Is(c, "ACCEPTED")

\* What an outcome says of a command, once and for all.
Told(outcome, checked, c) ==
  /\ outcome = "ok" => attempt[c] = "CANCELLED" /\ Is(c, "ACCEPTED")
  /\ outcome \in {"no_session", "price_unavailable"} => c \notin placeSent
  /\ outcome = "place_not_accepted" /\ ~checked => Is(c, "NOT_CREATED")

\* The run so far: what it has sent, whether it has asked again, and at its end
\* what it can say.
RunFacts ==
  /\ At("band") => run.id \notin placeSent
  /\ At("band") \/ At("place") => ~run.checked
  /\ At("cancel") => run.id \in cancelSent
  /\ At("check") \/ (At("cancel") /\ run.checked) =>
       run.checked /\ run.outcome \in {"place_not_accepted", "edge_unreachable"}
  /\ pc \in {"report", "write"} => Told(run.outcome, run.checked, run.id)
  /\ pc # "idle" => reports[run.id].outcome = "none"

\* The runs that ended: their commands are not sent again.
ReportFacts ==
  \A c \in Commands :
    /\ Told(reports[c].outcome, reports[c].checked, c)
    /\ reports[c].passed => reports[c].outcome \in {"ok", "no_session"}
    /\ c \notin begun => reports[c].outcome = "none"

CanaryInv == TypeOK /\ EdgeFacts /\ RunFacts /\ ReportFacts

\* Nothing is sent, told or created at first.
LEMMA InitFacts == Init => CanaryInv
<1> SUFFICES ASSUME Init PROVE CanaryInv
  OBVIOUS
<1>1. created = {}
  BY CanaryAssumption DEF Init, LedgerInit
<1> QED
  BY <1>1, InitType, CanaryAssumption
     DEF Init, LedgerInit, CanaryInv, EdgeFacts, RunFacts, ReportFacts, Told, NoReport, Is, At

\* The edge keeps its facts, and what was told stays true: an accepted command
\* stays accepted, a refused one refused, a cancelled one cancelled.
LEMMA EdgeKeeps ==
  ASSUME CanaryInv, NEW c \in Commands, EdgePlaces(c) \/ EdgeCancels(c)
  PROVE  /\ EdgeFacts'
         /\ \A d \in Commands : /\ Is(d, "ACCEPTED") => Is(d, "ACCEPTED")'
                                /\ Is(d, "NOT_CREATED") => Is(d, "NOT_CREATED")'
                                /\ attempt[d] = "CANCELLED" => attempt'[d] = "CANCELLED"
         /\ UNCHANGED <<sentVars, runVars, fileVars>>
<1>1. CASE EdgePlaces(c)
  BY <1>1 DEF CanaryInv, TypeOK, EdgeFacts, EdgePlaces, Reject, Commit, Transmit, Create, Accept,
              Absent, Becomes, Is, sentVars, runVars
<1>2. CASE EdgeCancels(c)
  BY <1>2 DEF CanaryInv, TypeOK, EdgeFacts, EdgeCancels, ledgerVars, Is, sentVars, runVars
<1> QED
  BY <1>1, <1>2

\* So a late step of the edge contradicts no run.
LEMMA EdgeInv ==
  ASSUME CanaryInv, NEW c \in Commands, EdgePlaces(c) \/ EdgeCancels(c)
  PROVE  CanaryInv'
<1>1. TypeOK'
  BY EdgeType DEF CanaryInv
<1>2. RunFacts'
  <2>1. UNCHANGED <<placeSent, cancelSent, pc, run, reports>>
    BY EdgeKeeps DEF sentVars, runVars, fileVars
  <2>2. pc # "idle" => run.id \in Commands
    BY DEF CanaryInv, TypeOK
  <2>3. ASSUME pc \in {"report", "write"} PROVE Told(run.outcome, run.checked, run.id)'
    BY <2>1, <2>2, <2>3, EdgeKeeps DEF CanaryInv, RunFacts, Told, Is
  <2> QED
    BY <2>1, <2>3 DEF CanaryInv, RunFacts, At
<1>3. ReportFacts'
  BY EdgeKeeps DEF CanaryInv, ReportFacts, Told, Is, sentVars, runVars, fileVars
<1> QED
  BY <1>1, <1>2, <1>3, EdgeKeeps DEF CanaryInv

\* A run starts with a command that nothing was sent for.
LEMMA StartInv ==
  ASSUME CanaryInv, NEW c \in Commands, Start(c)
  PROVE  CanaryInv'
<1>1. TypeOK'
  BY StartType DEF CanaryInv
<1>2. c \notin begun /\ c \notin placeSent /\ reports[c].outcome = "none"
  <2>1. begun \subseteq Nat /\ c \in Nat
    BY CanaryAssumption DEF CanaryInv, TypeOK
  <2>2. \A d \in begun : d < c
    BY DEF Start
  <2>3. c \notin begun
    BY <2>1, <2>2
  <2> QED
    BY <2>3 DEF CanaryInv, EdgeFacts, ReportFacts
<1>3. /\ UNCHANGED <<edgeVars, fileVars, cancelSent>> /\ begun' = begun \union {c}
      /\ run'.id = c /\ ~run'.checked
      /\ \/ pc' = "report" /\ run'.outcome \in {"no_session", "edge_unreachable"}
            /\ placeSent' = placeSent
         \/ pc' = "band" /\ placeSent' = placeSent
         \/ pc' = "place" /\ placeSent' = placeSent \union {c}
  BY DEF Start, Finish, SendPlace, Enter, NoRun, sentVars
<1>4. EdgeFacts'
  BY <1>3 DEF CanaryInv, EdgeFacts, edgeVars, Is
<1>5. RunFacts'
  BY <1>2, <1>3 DEF RunFacts, Told, At, edgeVars, fileVars, Is
<1>6. ReportFacts'
  BY <1>2, <1>3 DEF CanaryInv, ReportFacts, Told, edgeVars, fileVars, Is
<1> QED
  BY <1>1, <1>4, <1>5, <1>6 DEF CanaryInv

\* A stage ends with what the edge said, or with the doubt that it asks about.
LEMMA StageInv ==
  ASSUME CanaryInv, StageStep
  PROVE  CanaryInv'
<1>1. TypeOK'
  BY StageType DEF CanaryInv
<1>2. /\ run \in Running /\ run.id \in Commands /\ run.id \in begun /\ pc \in Stages
      /\ reports[run.id].outcome = "none" /\ UNCHANGED <<edgeVars, begun, fileVars>>
  BY DEF CanaryInv, TypeOK, RunFacts, StageStep, StageFails, BandGet, BandFails, Placed, PlaceFails,
         CheckProves, CheckFails, Cancelled, CancelFails, At, Stages
<1>3. /\ run'.id = run.id
      /\ \/ /\ pc' = "place" /\ At("band") /\ run'.checked = run.checked
            /\ placeSent' = placeSent \union {run.id} /\ cancelSent' = cancelSent
         \/ /\ pc' = "check" /\ run'.checked = TRUE
            /\ run'.outcome \in {"place_not_accepted", "edge_unreachable"}
            /\ UNCHANGED sentVars
         \/ /\ pc' = "cancel" /\ Is(run.id, "ACCEPTED") /\ run' = run
            /\ At("place") \/ At("check")
            /\ cancelSent' = cancelSent \union {run.id} /\ placeSent' = placeSent
         \/ /\ pc' = "report" /\ UNCHANGED sentVars
            /\ Told(run'.outcome, run'.checked, run.id)
  <2>1. ASSUME NEW band \in Bands, BandGet(band)
        PROVE  /\ pc' = "place" /\ At("band") /\ run'.checked = run.checked /\ run'.id = run.id
               /\ placeSent' = placeSent \union {run.id} /\ cancelSent' = cancelSent
    BY <1>2, <2>1 DEF BandGet, SendPlace, Enter, Running
  <2>2. CASE BandFails
    BY <1>2, <2>2 DEF BandFails, Finish, Enter, Running, CanaryInv, RunFacts, Told
  <2>3. ASSUME NEW disposition \in {"ACCEPTED", "NOT_CREATED", "UNKNOWN"}, Placed(disposition)
        PROVE  /\ run'.id = run.id
               /\ \/ /\ pc' = "check" /\ run'.checked = TRUE
                     /\ run'.outcome \in {"place_not_accepted", "edge_unreachable"}
                     /\ UNCHANGED sentVars
                  \/ /\ pc' = "cancel" /\ Is(run.id, "ACCEPTED") /\ run' = run
                     /\ At("place")
                     /\ cancelSent' = cancelSent \union {run.id} /\ placeSent' = placeSent
                  \/ /\ pc' = "report" /\ UNCHANGED sentVars
                     /\ Told(run'.outcome, run'.checked, run.id)
    <3>1. CASE disposition = "ACCEPTED"
      BY <1>2, <2>3, <3>1 DEF Placed, SendCancel, Enter, Is
    <3>2. CASE disposition = "NOT_CREATED"
      BY <1>2, <2>3, <3>2 DEF Placed, Finish, Enter, Is, Told, Running
    <3>3. CASE disposition = "UNKNOWN"
      BY <1>2, <2>3, <3>3 DEF Placed, SendCheck, Enter, Running
    <3> QED
      BY <3>1, <3>2, <3>3
  <2>4. ASSUME NEW o \in Outcomes, PlaceFails(o)
        PROVE  /\ pc' = "check" /\ run'.checked = TRUE /\ run'.id = run.id
               /\ run'.outcome \in {"place_not_accepted", "edge_unreachable"}
               /\ UNCHANGED sentVars
    BY <1>2, <2>4 DEF PlaceFails, SendCheck, Enter, Running
  <2>5. CASE CheckProves
    BY <1>2, <2>5 DEF CheckProves, SendCancel, Enter
  <2>6. CASE CheckFails
    BY <1>2, <2>6 DEF CheckFails, Finish, Enter, Running, CanaryInv, RunFacts, Told
  <2>7. CASE Cancelled
    <3>1. attempt[run.id] = "CANCELLED" /\ Is(run.id, "ACCEPTED")
      BY <1>2, <2>7 DEF Cancelled, CanaryInv, RunFacts, EdgeFacts
    <3>2. run.checked => run.outcome \in {"place_not_accepted", "edge_unreachable"}
      BY <2>7 DEF Cancelled, CanaryInv, RunFacts, At
    <3>3. /\ pc' = "report" /\ UNCHANGED sentVars /\ run'.id = run.id /\ run'.checked = run.checked
          /\ run'.outcome = IF run.checked THEN run.outcome ELSE "ok"
      BY <1>2, <2>7 DEF Cancelled, Finish, Enter, Running
    <3>4. run.checked \in BOOLEAN
      BY <1>2 DEF Running
    <3> QED
      BY <3>1, <3>2, <3>3, <3>4 DEF Told
  <2>8. ASSUME NEW o \in Outcomes, CancelFails(o)
        PROVE  /\ pc' = "report" /\ UNCHANGED sentVars /\ run'.id = run.id
               /\ Told(run'.outcome, run'.checked, run.id)
    BY <1>2, <2>8 DEF CancelFails, Finish, Enter, Running, Told
  <2> QED
    BY <2>1, <2>2, <2>3, <2>4, <2>5, <2>6, <2>7, <2>8 DEF StageStep, StageFails
<1>4. EdgeFacts'
  BY <1>2, <1>3 DEF CanaryInv, EdgeFacts, edgeVars, sentVars, Is
<1>5. RunFacts'
  <2>1. pc' = "report" => Told(run.outcome, run.checked, run.id)'
    BY <1>2, <1>3 DEF Told, edgeVars, sentVars, Is
  <2>2. reports'[run'.id].outcome = "none"
    BY <1>2, <1>3 DEF fileVars
  <2>3. run.checked \in BOOLEAN
    BY <1>2 DEF Running
  <2> QED
    BY <1>3, <2>1, <2>2, <2>3 DEF CanaryInv, RunFacts, At
<1>6. ReportFacts'
  BY <1>2, <1>3 DEF CanaryInv, ReportFacts, Told, edgeVars, fileVars, sentVars, Is
<1> QED
  BY <1>1, <1>4, <1>5, <1>6 DEF CanaryInv

\* What a run reports is what it could say.
LEMMA ReportInv ==
  ASSUME CanaryInv, ReadTextfile \/ WriteTextfile \/ WriteFails \/ Die \/ Tick
  PROVE  CanaryInv'
<1>1. TypeOK'
  BY RestType DEF CanaryInv
<1>2. UNCHANGED <<edgeVars, sentVars, begun>>
  BY DEF ReadTextfile, WriteTextfile, WriteFails, Die, Tick
<1>3. EdgeFacts'
  BY <1>2 DEF CanaryInv, EdgeFacts, edgeVars, sentVars, Is
<1>4. CASE ReadTextfile
  <2>1. /\ run'.id = run.id /\ run'.outcome = run.outcome /\ run'.checked = run.checked
        /\ reports' = reports /\ pc = "report" /\ pc' = "write"
    BY <1>4 DEF ReadTextfile, CanaryInv, TypeOK, Running, At
  <2> QED
    BY <1>1, <1>2, <1>3, <2>1 DEF CanaryInv, RunFacts, ReportFacts, Told, edgeVars, sentVars, Is, At
<1>5. CASE WriteTextfile \/ WriteFails
  <2>1. PICK written \in BOOLEAN : End(written)
    BY <1>5 DEF WriteTextfile, WriteFails
  <2>2. pc = "write" /\ pc' = "idle" /\ run.id \in Commands /\ run.id \in begun
    BY <1>5, <2>1 DEF WriteTextfile, WriteFails, At, End, CanaryInv, TypeOK
  <2>3. /\ \A d \in Commands \ {run.id} : reports'[d] = reports[d]
        /\ reports'[run.id].outcome = run.outcome /\ reports'[run.id].checked = run.checked
        /\ reports'[run.id].passed => run.outcome \in {"ok", "no_session"}
    BY <2>1, <2>2 DEF End, CanaryInv, TypeOK
  <2>4. ReportFacts'
    BY <1>2, <2>2, <2>3 DEF CanaryInv, RunFacts, ReportFacts, Told, edgeVars, sentVars, Is
  <2> QED
    BY <1>1, <1>3, <2>2, <2>4 DEF CanaryInv, RunFacts, At
<1>6. CASE Die
  BY <1>1, <1>2, <1>3, <1>6
     DEF Die, CanaryInv, RunFacts, ReportFacts, Told, edgeVars, sentVars, fileVars, Is, At
<1>7. CASE Tick
  BY <1>1, <1>2, <1>3, <1>7
     DEF Tick, CanaryInv, RunFacts, ReportFacts, Told, edgeVars, sentVars, fileVars, Is, At
<1> QED
  BY <1>4, <1>5, <1>6, <1>7

\* The invariant holds in every reachable state.
LEMMA CanaryInvHolds == Spec => []CanaryInv
<1>1. CanaryInv /\ [Next]_vars => CanaryInv'
  <2> SUFFICES ASSUME CanaryInv, [Next]_vars PROVE CanaryInv'
    OBVIOUS
  <2>1. CASE UNCHANGED vars
    BY <2>1 DEF vars, edgeVars, sentVars, runVars, fileVars, CanaryInv, TypeOK, EdgeFacts, RunFacts,
                ReportFacts, Told, Is, At
  <2> QED
    BY <2>1, StartInv, EdgeInv, StageInv, ReportInv DEF Next
<1> QED
  BY <1>1, InitFacts, PTL DEF Spec

\* PassLeavesNothing: a run that exits 0 leaves no order resting, now or later.
THEOREM PassIsProof == Spec => []PassLeavesNothing
<1>1. CanaryInv => PassLeavesNothing
  BY DEF CanaryInv, EdgeFacts, ReportFacts, Told, PassLeavesNothing
<1> QED
  BY <1>1, CanaryInvHolds, PTL

\* UncheckedIsAbsent: what a run does not ask about again was never created.
THEOREM DoubtIsChecked == Spec => []UncheckedIsAbsent
<1>1. CanaryInv => UncheckedIsAbsent
  BY DEF CanaryInv, EdgeFacts, ReportFacts, Told, UncheckedIsAbsent
<1> QED
  BY <1>1, CanaryInvHolds, PTL

\* CancelsAccepted: a cancel is sent only for an order that exists.
THEOREM CancelsExist == Spec => []CancelsAccepted
<1>1. CanaryInv => CancelsAccepted
  BY DEF CanaryInv, TypeOK, EdgeFacts, CancelsAccepted
<1> QED
  BY <1>1, CanaryInvHolds, PTL
=============================================================================
