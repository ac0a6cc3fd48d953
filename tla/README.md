# Verification of broker-edge

TLA+ models of `mgh3326/broker-edge`, the TLC runs that check them and the
TLAPS proofs about them. The repository delivers trading commands to mock and
paper brokers. Its promise is at-most-once delivery with honest answers: a
command is sent once or never, and what is not known is said to be `UNKNOWN`.

## 1. Inventory

| part | state | operations | hard behaviour | what makes it correct |
|---|---|---|---|---|
| **Receipt store** `internal/kismockedge/store.go` | SQLite tables `commands`, `command_contexts`, `command_resolutions`, `cancel_attempts`, `kis_live_witnesses` | one SQL statement (or transaction) per method | shared by the daemon's goroutines and the separate `resolve` process; a statement may fail after it was committed; rows of earlier releases | a row changes only in the ways its guard allows; the effective receipt never leaves a conclusion |
| **Placement** `service.go` `Process`, brokers `broker.go`, `us_broker.go`, `alpaca.go` | one goroutine per delivery | find, validate, prepare, reserve, one POST, finalize | duplicate deliveries, crash around the POST, lost or late answers, a cancelled request context | at most one POST per command, recorded first; everything ambiguous stays `UNKNOWN` |
| **Cancel** `cancel.go` | one goroutine per delivery | find attempt, find target, prepare, reserve, one POST, finalize | as above; the target is read long before it is used | at most one cancel, for the command's own order; `CANCELLED` only when the broker closed it |
| **Resolver** `resolver.go`, `resolve_run.go` | a snapshot of rows, one history read in hand | `Resolve` (batch process), `ResolveOne` (endpoint) | races with POSTs under way, stale evidence, look-alike orders, day boundaries, failing reads, old rows | a conclusion is true, and stays true |
| **Order history** `kismockread/order_history.go`, `runner.go` | cursor, page number, orders of one read | follow continuation keys | orders that arrive and move between pages, page limit, failing pages | every order listed at the beginning is returned, or the read fails |
| **Token gateway** `gatewayd/ensure.go`, `redis.go` | token cache and lock in Redis | `Ensure`: read, lock, re-read, issue, publish, release | several processes, expiring lock, dead holder | one issue at a time; readers see a valid token |
| **Canary** `canary/canary.go` | one run's result, a textfile | band, place, check, cancel, report | ambiguous answers, stage budgets, a textfile that cannot be read | exit 0 proves a round trip that leaves nothing resting; cancels nothing but its own order |
| **Live witness** `witness.go`, `http.go`, `metrics.go` | table `kis_live_witnesses`, a gauge | record, echo once, list missing | racing deliveries and echoes, a gauge set from an old list | evidence is never rewritten; what is acknowledged is stored |
| **Validation** `validation.go` | none | limits, ticks, caps | band boundaries | a tick-aligned price inside the caps |

Callers (a Python trader, the canary) reach the edge by HTTP on loopback. The
edge reads tokens that the gateway puts into Redis, POSTs to the brokers, and
reads their order histories. The daemon and the `resolve` process share only
the SQLite file. What is left out, and why, is in section 5.

## 2. Modules

```
EdgeStore ── EdgeProcesses ── BrokerSide ─┬─ Placement ────┐
 tables       process memory   broker,    ├─ Resolution ───┼─ BrokerEdge ── MCBrokerEdge ── MCTimed
                               clock      └─ Cancellation ─┘      │ │
                                        CommandLedger ◄─ INSTANCE ┘ └─ BrokerEdgeProofs ── BrokerEdgeSafety
                                                                              └─ BrokerEdgeTruth

TokenGateway ─┬─ MCTokenGateway         Witness ─┬─ MCWitness
 cache, lock, └─ TokenGatewayProofs      one     └─ WitnessProofs
 calls                                   table

CommandLedger ─┬─ Canary ─┬─ MCCanary   HistoryRead ◄─ INSTANCE ─ HistoryPages ─┬─ MCHistoryPages
 Ticks ────────┘          └─ CanaryProofs                                       └─ HistoryPagesProofs
   └─ TicksProofs
```

The parts meet in their abstract specifications. The canary runs over
`CommandLedger`, which `BrokerEdge` is shown to implement (`check`): it takes
from the edge no more than the ledger promises. `Resolution` takes a history read
to be `HistoryRead`, which the pages implement (`history`, and `ReadRefines`).
The gateway shares nothing with the edge but the token, which the edge loads
before it reserves anything; a missing token is one of `Refuse`'s causes. The
witness has a table of its own.

* **EdgeStore**: each table is a function on `Commands`. One operator per
  statement, its guard being the `WHERE` or `ON CONFLICT` clause. `Effective(c)`
  is what `Find` answers: the resolution if there is one, else the row. Error
  codes, `schema_version` and the forwarding office are left out, because no
  statement tests them. `told` is a history variable: the conclusive receipts
  callers were handed.
* **EdgeProcesses**: the memory of each goroutine and of the resolve process.
* **BrokerSide**: everything outside the program (external in the map): the
  order book, POSTs on their way (`wire`), orders of other users, cancel
  requests, and the clock. `posted` and `cancelPosts` are histories of what left
  the edge. An order number is named by the request that created the order.
* **Placement**: `Service.Process`. An action ends where another goroutine,
  process or crash can step in: between two statements and around the POST.
  Validation, caps, gate and token are the choice between `Refuse` and
  `Prepare`. `StoreError` is any failing statement, `CommitUnreported` one that
  failed although it was committed; both end the goroutine, as in the code.
* **Cancellation**: `Service.Cancel`, with the same granularity.
* **Resolution**: `Resolve` and `ResolveOne`. A history read begins, then ends
  with every order settled at its beginning and any of the younger ones.
  Conclusions are drawn item by item, and the clock is read when the item is
  handled, as the code does.
* **BrokerEdge**: composition, `Tick`, `Crash` of the daemon, death of the
  resolve process, the assumptions, the properties, fairness and the refinement
  mapping.
* **CommandLedger**: the abstract specification. A command is sent at most
  once, a receipt passes once from `UNKNOWN` to a conclusion, and the conclusion
  is true of the broker's book.
* **MCBrokerEdge, MCTimed**: instances for TLC. MCTimed also has TLC evaluate
  the assumptions on which conclusions are trusted.
* **TokenGateway**: `EnsureService.Ensure`, one action per answer of Redis or
  the provider, for any number of calls in any number of processes. `pc` names
  the step a call is in: `locking` (SET NX sent), `locked` (its answer on the
  way), `recheck`, `issue`, `granted` (the token's answer on the way), `publish`,
  `release`, `wait`. `GiveUp` is every error return with its deferred release,
  `Die` the end of a process, `late` the requests a caller has given up on that
  Redis or the provider still handles.
* **Ticks**: the tick of a Korean price, the edge's tick check, and the canary's
  price, as operators on integers.
* **Canary**: `Run` of edge-canary. `pc` is its stage; a stage is entered when its
  request is sent (`Enter` is `timed`), and left by its answer, or by `BandFails`,
  `PlaceFails`, `CheckFails`, `CancelFails`: no answer, an error, a deadline, or an
  answer that cannot be decoded (its body is read after the stage's context was
  cancelled). `EdgePlaces` and `EdgeCancels` are the edge, also after the canary
  has given up on it. Two counters, `stageLeft` and `runLeft`, are the deadlines.
  `ReadTextfile` and `WriteTextfile` keep the last success of each scope.
* **HistoryRead**: abstract. A read fails, or returns everything that was listed
  when it began and nothing that is not listed.
* **HistoryPages**: both page loops. One action per page (`LastPage`, `NextPage`),
  and `ReadFails` for every error return. External: the list grows, newest or
  oldest first, and a cursor counts what was handed out, so an order that arrives
  may push others onto the next page.
* **Witness**: the three routes of live commands. A request's `pc` names the next
  statement (`record`, `find`, `attach`, `look`, `count`) or the gauge (`set`) or
  the answer (`tell`). Requests are repeated at will, so one name is any number of
  deliveries with the same content.
* **BrokerEdgeProofs, BrokerEdgeSafety, BrokerEdgeTruth, TokenGatewayProofs,
  TicksProofs, CanaryProofs, HistoryPagesProofs, WitnessProofs**: theorems.
  BrokerEdgeSafety has what needs no assumption about the world, BrokerEdgeTruth
  what makes a conclusion true.

### Abstractions

* `Process` answers an invalid command id or a `kis_live` command before it
  touches the store; these early returns change nothing and are not modelled.
* The three brokers differ in how requests are built and answers are read. What
  the model keeps is whether the answer proves acceptance.
* `Resolve` lists KIS rows and Alpaca rows in two statements; the model takes
  one snapshot. A row only ever leaves the list, and an old list is what every
  resolver works from anyway.
* KIS days are read in sorted order; the model allows any order.
* A cancel by another party, fills and partial fills are not modelled: an order
  in the book stays visible in the history of its day, as the history view does.
* Token gateway. Times are kept as what is left until something ends, so `Tick`
  is the only action in which time passes and no stamp grows. All hosts are
  taken to have one clock (the payload's expiry is a wall-clock time). Names of
  calls and tokens are used again once nothing refers to them; the code's UUIDs
  never collide. A missing, malformed or nearly expired cache entry is one
  value, `Nothing`, because `Ensure` treats them alike. A first look that finds
  a fresh token or fails returns without a trace, so it is the guard of
  `Ensure`. A late SET NX or release is the same as a slower call. Providers
  have separate keys, so one is modelled.
* Canary. Runs do not overlap: the timer starts a oneshot service
  (`deploy/systemd/broker-edge-canary.service.example`). A run is named by its
  command, whose id has the run's time, so that ids grow. Which scope a run
  selects is free, as is whether its URL is loopback. A command that the edge
  answers with 500 `UNKNOWN`, because its store failed, may have any receipt
  (`Placed`). `closed` is the broker's; only the canary's own cancels close its
  orders, since nobody else knows them. `Tick` ends when a deadline has: what is
  late is then one of the `...Fails`.
* History. A page is a set, because the resolver looks only at which orders there
  are and whether one is there twice (`repeats`). Orders are numbered as they came
  and never leave the list; a broker whose list shrinks or is reordered while it
  is read promises nothing, and no reader could make it complete.
* Witness. What validation refuses changes nothing and is left out. A receipt is
  named by the delivery whose time it has. The cause of a refused echo and the
  receipt of an acknowledged one are read by a second statement, as in the code.

## 3. Runs

| run | question | instance | states |
|---|---|---|---|
| `deliver` | Can duplicates, crashes and ambiguous commits place or cancel twice, before recording, or the wrong order? | 1 command: 3 deliveries (one with another payload, one invalid), 2 cancels, the batch, a stranger's order, one instant | 380,000 |
| `check` | Do the batch, a check and the POST's own answer agree; is the ledger implemented; is every `UNKNOWN` concluded? | 1 command delivered twice, for two accounts, both resolvers, fair scheduling, time to 5, grace 3 | 125,500 |
| `resolve` | Are the resolver's conclusions true, also over midnight and for rows of earlier releases? | a new command, a KIS and an Alpaca row left behind, a stranger, the batch; days of 3 units, time to 8, lag 1, grace 4 | 1,810,000 |
| `gateway` | Is one token replaced at a time, only when needed; is a cached token usable; does every call return; is there always a next fresh token? | 2 calls for ever, 3 tokens, late requests, fair scheduling, lock 5, Redis 1, POST 1, buffer 2, life 2 | 47,400 |
| `canary` | Does exit 0 prove a clean round trip; is doubt checked; does a run end? | 2 runs, both scopes, 3 bands, deadlines of one unit, fair scheduling | 148,900 |
| `history` | Is a successful read complete; what is repeated; does it end? | up to 7 orders, 2 to a page, 3 pages at most, both readers and both listings | 3,800 |
| `witness` | Is what callers are told stored, and evidence never rewritten? | 1 command: 2 deliveries, 2 echoes, 1 audit, each repeated at will | 1,540,000 (up to symmetry) |
| `lookalike` | Can a foreign order resolve a command? Expected: yes | 1 command, a stranger's identical order | violation |
| `midnight` | Is an order booked after KST midnight concluded absent? Expected: yes | 1 US command, session over midnight | violation |
| `slowread` | Can a slow read outlast the grace? Expected: yes | 1 command, a read as long as the grace | violation |
| `handshake` | Can a slow step outlast the lock? Expected: yes | 3 calls, steps without a limit | violation |
| `echorace` | Can an echo be refused as a duplicate though it is the first? Expected: yes | 1 delivery and 1 echo of a command | violation |

`MaxTime` and `LastStamp` bound the clock and the stamps. Times are units that
keep the order of the code's constants (POST 10 s < window 5 min < grace
10 min), and each run's clock goes on past stamp + grace + one read, so that
both conclusions, and reads before, during and after the POST, occur. In
`resolve` the broker books at 0, 2 and 5 with days of 3 units (`LateInTheDay`):
stamps, bookings and reads fall on different days, and no order is stamped on one
day and booked on the next. `deliver` needs no time, because what it asks of the
order of statements does not depend on the clock: `Grace` is out of reach, and
only `ACCEPTED` is concluded by the batch. Two deliveries of a command and two
users of an account are enough for a race on each table: every statement's guard
mentions one row. The third delivery of `deliver` comes when the others are done,
crashed or under way.

The gateway needs no bound on time: everything counts down. The lock's length
is the least that `LeaseAssumption` allows (3 · 1 + 1 + 1), so that any step
that could take longer than the code's limits would break the properties, and
the token's life is longer than a Redis command, as in the code, so that a
published token is fresh. Two calls that never stop are owner, successor and
waiter in turn; two looks (`Polls`) let a waiter find a token at the first, at
the last or never. `handshake` uses symmetry of calls and tokens, as `witness`
does of deliveries and echoes, which nothing tells apart; the runs with liveness
use none.

In `canary` every deadline is one unit and the run's is their sum, the least that
`BudgetAssumption` allows: 20 + 25 + 25 + 25 s of 120 s. Two runs let the second
find the first's textfile, order and late requests; the bands are a limit off the
ticks that rounds up into the next price band, a base price without a limit, and
an unusable one. Its cfg says `CHECK_DEADLOCK FALSE` because the number of runs,
`Commands`, is bounded, and the system stops after the last. In `history` a day
may have more orders than three pages can (`LongDay`), so that reads meet the
limit of the code's 100 pages, and any of them may arrive between two pages.
In `witness` requests are repeated for ever, and one command is enough because
every statement but the gauge's list mentions one row; the gauge is a count over
all of them.

### Assumptions about the world

The runs on MCTimed, and any trust in `NOT_CREATED` and `ACCEPTED`, rest on
three assumptions that the code does not enforce:

* `TimingAssumption`: grace covers the time between stamp and POST (`Lag`), the
  POST's delay (`Delay`), the settling of the history view (`Settle`) and the
  age of the evidence when it is used (`ReadSpan`); the window covers lag and
  delay. Even of a history that settles at once, the grace must be longer than
  the other three together, and not merely as long: an order can be booked at the
  very instant a read begins, without being in it. (The proof of
  `AbsentCommandsAreAbsent` asked for this, and TLC has a counterexample without
  it.) The code's constants leave minutes for a read.
* `SessionAssumption`: no order stamped on one KST day is booked on the next;
  `WithinADay(s)` says it of one account.
* `NoLookAlikes`: no two orders of an account have the same facts;
  `NoLookAlikesOf(s)` says it of one account.

And two on which the token gateway rests, with a history of late requests:

* `LeaseAssumption` of the gateway: the lock (30 s) outlives three Redis commands
  of 6 s (3 s to connect, 3 s to answer) and one POST of 10 s, and the freshness
  buffer (60 s or 120 s) is longer than that POST. The code's constants satisfy
  it, and TLC evaluates it in every run of the gateway.
* `Punctual`: every step under the lock ends by its limit. The code sets the
  limits but cannot enforce them (see `handshake`).
* `straggled` is no assumption but a history: requests may be handled after their
  caller gave up on them, and from then on `NoNeedlessIssue` and `FreshIsUsable`
  promise nothing. A POST that is handled after its timeout revokes the token that
  the next call has just published, and a late SET overwrites a newer payload. The
  code has no means against either, since the answer is lost and SET is
  unconditional, and the repository says nothing on it. `OneReplacement`,
  `PublishOwnsLock` and the liveness properties hold with late requests too.

The first four violation runs drop one each, the fifth needs nothing dropped, and
each contradicts a sentence of the repository:

* `lookalike`: `resolver.go:299-301` says that a foreign order can never
  produce a resolution. Only facts and time are compared.
* `midnight`: `resolver.go:50-52` says that only proven receipts are concluded.
  The one day read is the KST day of the stamp, while the US session spans KST
  midnight.
* `slowread`: `resolver.go:16-17` says that the grace keeps a just-sent order
  from being declared absent. It is measured when the item is handled, not when
  the evidence was read, and a paged read has no deadline of its own.
* `handshake`: `ensure.go:168-169` says that the replacement is published while
  the lock is still owned. `Set` (`ensure.go:170`) does not look at the lock, and
  a TLS handshake with Redis has no deadline when its context has none
  (`redis.go:223`; the deadline of `redis.go:175` is set after it); a process can
  be stopped as well.
* `echorace`: `store.go:380-381` says that the edge rejects a duplicate echo. When
  the UPDATE finds no row, a second statement is to say why (`store.go:411-419`);
  it reads `echo_at` and does not look at it. If the witness is inserted between
  the two, the first echo is answered `echo_already_recorded`, and none is stored.

### Properties

* `AtMostOnePost`, `WriteAhead`, `OnlyOwnerFinalizes` need no assumption about
  the world, nor do `ConclusionIsFinal`, `OneCancelPost` and `CancelledIsClosed`. The next
  five do; section 4 says which needs what.
* `AbsentIsReal`: once `NOT_CREATED`, the order is not in the book and nothing
  under way can create it. `AcceptedIsOwn`: the order named by a receipt exists
  and is the command's own. `CancelHitsOwn`: so is the one a cancel names.
* `RepliesAgree`: all conclusive answers ever given agree with the store, although
  `Finalize` does not look at resolutions.
* `ImplementsLedger`: `BrokerEdge` implements `CommandLedger`.
* `PendingIsResolved`: the liveness property.
* `OneReplacement`: two calls never ask for or publish tokens at once.
  `NoNeedlessIssue`: none does while the cache has a fresh one (the provider
  would revoke a token in use). `FreshIsUsable`: a fresh cache entry is the last
  token issued and not yet expired. `PublishOwnsLock`: a call that publishes
  still has the lock.
* `CallsReturn`, `StaysFresh`: the gateway's liveness properties.
* `PassLeavesNothing`: a run of the canary that exits 0 has no order that rests or
  will; with `ok` it had one, and it is closed. A late placement or cancel of any
  run could break it. `UncheckedIsAbsent`: an order that a run did not ask about
  again does not exist and never will. `CancelsAccepted`: a cancel is sent only
  for an existing order. `FullBudget`: what earlier stages took is never missing
  to a later one. `SuccessesKept`: no run loses the other scope's last success,
  unless it could not read the textfile, whose error is ignored
  (`canary.go:602`). `PriceIsAccepted`: the edge's tick check accepts the canary's
  price. `RunEnds`: the canary's liveness property.
* `CompleteRead`: a read that succeeds has every order that was listed when it
  began. `RepeatsAreMoves`: at most one order is repeated per order that arrived
  during the read, only in the domestic history and only if it is listed newest
  first; overseas none. `ReadEnds`, although the broker may always have a next
  cursor. `ImplementsRead`: the pages are the one read the resolver relies on.
* `ReplayIsOriginal`: every acknowledgement shows the stored receipt.
  `AcknowledgedEchoIsStored`: of racing echoes at most one is acknowledged, the one
  that is stored. `EvidenceIsFinal`: neither is ever rewritten. `GaugeIsCurrent`:
  after a request that was alone since it read the list, with no failure since, the
  gauge is right. A failed list or a restart (a new process begins with zero) leaves
  it behind until the next request, and so do two requests that overlap: nothing
  orders their sets (`witness.go:81-83`), so the older list can be set last.

### Fairness

`FairSpec` asks for weak fairness of goroutines that have begun, of the clock
and of the end of a POST (each has a timeout in the code), and of the resolve
process, which a scheduler starts again and again
(`README.md`, "Resolving an UNKNOWN receipt"). Strong fairness of `BeginRead`,
`EndRead` and `Conclude` says that reads and store statements do not fail for
ever, that a repeated row of the domestic history does not repeat for ever, and
that the process is not killed each time before it gets to a given row. Clients
need not deliver anything. Nothing is promised for two commands with the same
facts in one window: they stay `UNKNOWN` by design, and `check` has one command.

For the gateway, weak fairness of the clock, of each call's steps (the
number of looks is bounded, and each step has a timeout, except the TLS handshake of
a `rediss://` address in the periodic loop, `redis.go:223`, where the assumption is
that the peer answers or the connection breaks; see `handshake`), of late requests and of the
periodic call's beginning, which a ticker repeats (`run.go:141-152`). Strong
fairness of the successful steps says that Redis and the provider do not fail,
and processes do not die, each time a call gets that far. `CallsReturn` needs
only the weak part.

For the canary, weak fairness of time, of the end of a stage that is out of time
(its context ends the request), and of reading and writing the textfile; neither
the edge nor the timer owes anything. For the history, weak fairness of a page's
answer or failure: every request has a timeout. Orders may arrive for ever.

## 4. Proofs

Proved by TLAPS for every value of the constants, from the named assumptions of
the modules (`RequestAssumption`, `ProcessAssumption`, `BrokerAssumption`,
`LagAssumption`, `ResolutionAssumption`), which only say what the constants are.

Of the edge, whatever the world does (BrokerEdgeProofs, BrokerEdgeSafety):

* `TypeCorrect`: `Spec => []TypeOK`. `TypeOK` is inductive as it stands.
* `OnePostPerCommand`, `RecordedBeforeSent`: `[]AtMostOnePost`, `[]WriteAhead`.
  Neither is inductive: a goroutine in `send` could send what another has sent.
  `PlacementInv` adds the notion of the *owner* of a receipt, the goroutine
  between `Reserve` and `Finalize`: the row of an owner is pending and holds the
  owner's facts, a command has one owner, and an owner about to send is the only
  delivery of its command that will. `Reserve` makes an owner only of a row that
  did not exist, which is where the `UNIQUE` key enters the proof.
* `ConclusionsAreFinal`: `[][...]_vars`. `Finalize` is the statement at risk, and
  `PlacementInv` says the row it replaces is `UNKNOWN`; a resolution that came
  first stays the effective receipt.
* `OneCancelPerCommand`: `CancelInv` has owners of cancel markers, and says that
  the target of a reserved cancel is still the effective receipt. It rests on
  `ConclusionStep`: the target read before the marker cannot change.
* `OwnersFinalize`: the fallback branches of `Finalize` and `FinalizeCancel` are
  never taken.
* `CancelsAreClosed`: `[]CancelledIsClosed`. `ClosedInv` adds that a command with a
  cancel marker is `ACCEPTED`, and that a cancel about to store `CANCELLED` has an
  order that the broker closed. The second needs the first: the order is the one
  read before the marker, and only a receipt that cannot change any more is still
  the command's when the answer arrives.

Of the conclusions of the edge (BrokerEdgeTruth). `EdgeInv` is inductive and needs
no assumption about the world. Beside `TypeOK` and `PlacementInv` it has:

* `SendInv`: a row that is not a refusal has the facts of a delivery of its command
  (or is one an earlier release left); a POST leaves within `Lag` of the stored
  stamp, takes effect within `Delay` of that and in a session; an order number is
  known only once the order exists. This is all that a resolver, which has only
  the row, may infer about the order.
* `ReadInv`: what a resolver works on is open; the evidence in its hand is no older
  than `ReadSpan`, was read for every command of the group, has only orders that
  such a read may return and all that were settled when it began. Without it
  nothing is known of a group that is handled long after its read.
* `ResolutionInv`: only conclusions are appended, and only to open rows.

`StepBounds` says what one step can do to a row, a delivery, a POST and an order,
whoever takes it; `SendInv` and the theorems are proved from it and not from each
action anew. What is then proved, and from which of the three assumptions:

| theorem | property | needs |
|---|---|---|
| `OwnInAccount` | `AcceptedIsOwn` for one account | its orders look different; for Alpaca nothing |
| `AcceptedOrdersAreOwn` | `AcceptedIsOwn` | `NoLookAlikes` |
| `CancelsHitOwnOrders` | `CancelHitsOwn` | `NoLookAlikes` |
| `AbsentInAccount` | `AbsentIsReal` for one account | `TimingAssumption`, and its sessions end before midnight; for Alpaca timing alone |
| `AbsentCommandsAreAbsent` | `AbsentIsReal` | `TimingAssumption`, `SessionAssumption` |
| `RepliesAlwaysAgree` | `RepliesAgree` | all three |
| `EdgeKeepsPromise` | `ImplementsLedger` | all three |

* Own: the only matching order of a read is the command's (`MatchIsOwn`), because
  the row has its delivery's facts and others look different. Alpaca is asked by
  client order id, so that no facts are compared. So `lookalike` is a question of the
  KIS accounts, and the answer stays true of every other account.
* Absent: an order of the command would have been booked by stamp + `Lag` +
  `Delay`, on the stamp's day and in the window, and settled when the read began,
  so it would be in the evidence (`AbsenceIsTrue`). For the same reason nothing is
  left on the wire. `midnight` drops the day and is possible only for an account
  whose session spans midnight, the US account in the code.
* Replies: `Finalize` hands out its receipt without a look at the resolutions.
  Absence being true, a resolution that came first is not `NOT_CREATED` when the
  order exists (`FinalizeAgrees`), and being the command's own, it is the same
  order (`OneOrder`: a command is sent once). This is why agreement, which
  sounds like bookkeeping, needs assumptions about the world.
* Refinement: `UnderWayIsOpen` (while a POST is about to leave or on its way, the
  command has no order and no conclusion) gives the ledger's guards; `LedgerPlace` and
  `LedgerStep` map each action to a step of the ledger or a stutter.

The assumptions can be met: TLC evaluates them in `check` and `resolve`.

Of the token gateway, from `GatewayAssumption` and `LeaseAssumption`:

* `TypeCorrect` (of TokenGateway): `TypeOK` is inductive as it stands.
* `OneAtATime`, `PublishedUnderLock`, if `Punctual`: by `LeaseInv`, which says
  that a call under the lock owns it and that the lock lasts longer than all the
  call may still do (`Remaining`: the limits of its step and the steps to come).
  Mutual exclusion alone is not inductive, because the lock expires by itself;
  each step spends its limit from `Remaining`, and `Tick` takes one from both
  sides. With the owner unique, so is the call that replaces the token.
* `CacheIsSound`, `NeverNeedless`, if `Punctual`: by `TokenInv`, which says that,
  until a request is late, the token a call holds is the newest, and that the
  expiry it will publish comes before the token's own (the buffer is longer than
  the POST).

Of the ticks, for every price: `MatchIsAlignment` (the check accepts a price
exactly if it is a multiple of its own tick), `AdjustedMatches` (what it would
adjust to passes, also across a band's boundary), `LimitIsAccepted` and
`FloorIsAccepted` (the canary's two prices pass and are less than a tick off).
The argument is the same for all: every boundary of a band is a multiple of the
ticks on both its sides, so rounding up never jumps over one.

Of the canary, from `CanaryAssumption` and `BudgetAssumption`, for any bands,
deadlines and number of runs:

* `StagesKeepTheirTime`: `FullBudget` is not inductive. `Budget` says that what is
  left of the run covers the stage *and* those that may still follow, and `Enter`
  and `Tick` keep it.
* `PriceCorrect`, from the theorems on ticks. `SuccessesCorrect`: `Remembered`
  adds what a run that has read the textfile still knows.
* `PassIsProof`, `DoubtIsChecked`, `CancelsExist`: by `CanaryInv`. It has the facts
  of the edge (what is `ACCEPTED` exists, what is `NOT_CREATED` neither exists nor
  is under way, a closed order existed), those of the run under way (`Told`: what
  its outcome says of its command), and the same of the reports. The hard case is
  the edge acting on a run that has ended: every fact about a report must be one
  that no late step can undo, which is what `NOT_CREATED` and `closed` are.

Of the history, from `PagesAssumption`, for any page size, limit and day:

* `ReadIsComplete`: the invariant says that what has been handed out covers the
  list down to the cursor. With the oldest first this is plain; with the newest
  first an arrival shifts the list by one, and the orders above the cursor are the
  ones that arrived meanwhile, so those at the beginning are still covered.
* `FewAreRepeated`: `FewRepeats` has a length `b` that the list had at some time:
  no order got is below `b` less the cursor, and no more were repeated than arrived
  before `b`. A page overlaps what was got only by what has arrived since `b`, and
  the new length takes the place of `b`. `ReadRefines`: each step is a step of
  `HistoryRead` or a stutter, `CompleteRead` being what `Succeed` needs.

Of the witness, from `WitnessAssumption`, for any commands and requests:
`WrittenOnce`, `ReplayCorrect`, `EchoOnce` and `GaugeCorrect`. `Answered` says that
an answer being prepared shows what is stored (a request past `attach` has its own
echo there), and `Refreshed` that in calm the list in hand, or the gauge once it is
set, is the list of missing echoes.

Only model-checked: the liveness properties `PendingIsResolved`, `CallsReturn`,
`StaysFresh`, `RunEnds` and `ReadEnds`, because liveness under fairness, and
`ENABLED`, are beyond the prover. Every other property of a passing run is a theorem.

## 5. Not modelled

* Command validation but for the ticks, token loading, configuration: pure
  verdicts on one command or one environment. What they decide is the choice
  between `Refuse` and `Prepare`.
* Price band and quoter, the read CLI, rejection masking: requests or text
  transformations without state. Of the canary's use of the band, `Bands` are the
  answers.
* The RESP clients: their commands are atomic steps of TokenGateway, with limits.
* Metrics other than the gauge of missing echoes: counters nothing reads back.
* Edge daemon: the five seconds of a graceful shutdown are a goroutine that ends
  before the crash; the listener and the flags are start-up.
* The live TR table and market-tap are placeholders without behaviour; the
  deployment scripts are outside the Go program.

## 6. Plan

1. *Done*: EdgeStore, EdgeProcesses, BrokerSide, Placement, Resolution,
   Cancellation, BrokerEdge, CommandLedger, with their runs and proofs.
2. *Done*: TokenGateway, Ticks, Canary, HistoryRead, HistoryPages, Witness, with
   their runs and proofs.
3. *Done*: the proofs of every invariant, action property and refinement that a
   run checks.
4. Left: lemmas that say more of the constants than the theorems need, such as how
   small a `Window` still finds every order, and an abstract specification of the
   token gateway that both of its kinds of readers could rely on.
