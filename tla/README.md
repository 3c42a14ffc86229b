# A verification project for stock-tracker

This directory holds TLA+ models of the parts of `stock_tracker` whose behaviour depends on order,
interruption, time or a case analysis that tests can only sample, the TLC configurations that
check them on small instances, and TLAPS proofs. `PROJECT.json` ties every definition to the lines
it models, every property to a run and to a mutant of the code that breaks it, and lists the
hazards of the code with the properties aimed at them.

    tlc -workers 4 -config MCDecisions.cfg MCDecisions     # one run
    tlapm PhysicalStoreProofs.tla                          # the proofs of one module

## 1. Inventory

`stock_tracker` is a personal decision-support program for A-share, Hong Kong and US stocks: one
Python server, SQLite databases, immutable evidence files, a separate sidecar process for the XTP
quote feed, and a browser client. It never trades. Components in **bold** are modelled, wholly or
in part; `PROJECT.json` says for each which part, and why the others are not.

| component | state it keeps | operations | what is hard | what makes it correct |
|---|---|---|---|---|
| **data quality, provider health, router, scheduler** (`data_quality/`, `collector/`) | circuit and back-off per provider, last ticks per symbol | gate, record success or failure, fetch with fallback | probes of a half-open circuit, numbers that grow | a provider that failed is asked again within its longest back-off |
| **event bus, live updates** (`core/eventbus.py`, `api/sse.py`, `api/server.py`, `web/js/sse.js`) | subscribers; a bounded queue per stream | publish, connect, write, heartbeat, disconnect | slow browsers, queues that fill while their reader empties them | a stream shows every event in order, or ends |
| features, strategies (`features/`, `strategies/`) | none | numerical indicators | numbers | reference values |
| **signals** (`signals/`) | one record per symbol and strategy | update, gate, transition, persist | order of ticks, restart | every stored move is one the table allows; a recovered feed recovers the signal |
| **runtime outbox** (`storage/repository.py`) | signals, history, outbox, deliveries, cursors, quarantine, binding, block | persist, claim, mark delivered / retry / quarantined / blocked | leases that expire, clocks read outside transactions | what is delivered is stored, once; order; nothing moves after a block |
| **runtime artifact store** (`runtime_evidence/store.py`) | catalogue, files | append, audit, get | file and row are not one transaction | a hash chain whose rows all have their file |
| **runtime artifact worker** (`runtime_evidence/worker.py`) | a latch | run_once, service loop | crash or lease loss at any step | everything settles or the lane halts |
| **physical evidence store** (`runtime_evidence/physical_store.py`) | intents, publications, files | append, recover, snapshot, read_page | many processes, two transactions per append | an append-only log with stable snapshots |
| **runtime evidence contracts** (`runtime_evidence/path_contracts.py`, `source_snapshot_contracts.py`) | none | build coverage of a path from callbacks, resolve the path of a decision | half-open intervals, gaps, ties within a tick | a day said to be covered was seen whole; the verdict is the one the prices give |
| **runtime migrations** (`storage/runtime_migrations.py`) | schema versions, backups | dry run, apply, status | a server that writes meanwhile, a log beside the file | what is migrated was rehearsed and is backed up |
| **monitor inbox** (`monitor/engine.py`, `repository.py`) | rules, inbox, transitions | trigger, user transition, snooze, expiry | two processes on one database | cooldown, one notification per trigger, terminal states, an audit trail |
| **notification outbox** (`monitor/notifications.py`) | outbox rows with leases | claim, send, mark | leases, duplicate sends, retries | final states are final, everything settles |
| **XTP sidecar, ingestion** (`sidecars/xtp/`, `collector/xtp_sidecar.py`, `monitor/service.py`) | ring of callbacks, cursor | callback, fetch, poll_once | eviction, restart of either side | no event is lost without a finding |
| **market event store** (`market_events/store.py`) | events, sessions, findings, partitions, files, manifests | append, verify, rebuild | two files and a transaction | files, chain and manifests agree |
| **outcome ledger, outcome collection** (`quant/storage/`) | cases, collection log, registrations, claims, outcomes, files | register, collect, invalidate, prepare, finalize, recover | idempotence, a crash between two databases, replay | one outcome per case, explained by the log, with no look-ahead |
| **point-in-time books** (`quant/core/`) | facts with the times they became known and usable | snapshot as of an instant, align bars, research identity | revisions that move, cancel or contradict | no look-ahead, nothing superseded, no survivorship bias |
| **backtest, labels, evaluation** (`quant/backtest/`, `quant/labels/`, `quant/evaluation/`) | a cash and position ledger; labelled samples | try an order against a session, label a signal, split samples into folds | rules that change with the date, T+1, limits, ties, labels that end after the fold they are trained for | a ledger the market could have kept; no fold knows its own future |
| models (`quant/models/`) | life-cycle records | promote, retire | illegal sequences | gates are passed in order |
| **portfolio planning** (`portfolio_planning/`) | a versioned book of plans, positions, cash | plan, transition, fill, exit, settle | shared limits, lost updates | no plan set exceeds room or cash; a book can always be reconciled |
| **data adapters, reconciliation** (`quant/data/`) | captured notices and artifacts | parse, assemble, reconcile as of an instant | two implementations that select revisions, sources that contradict or know at different times | a report that lets candidates pass agrees with the books |
| **corporate actions, adjusted bars** (`quant/data/corporate_action_*.py`, `adjusted_market_data.py`, `quant/core/corporate_actions.py`) | captured documents, bundles of candidates, an analyst's mappings; datasets | capture, bind, map, reconcile, adjust | revisions mapped to different actions, candidates known after their bundle, conventions and ranges | what may be verified can be used; returns do not depend on how they are asked for |
| **the Today page** (`decision/`, `get_today_brief()` of `api/`) | positions, the account | map a signal to an action, plan it, size it, choose the best | a chain of functions, each with a contract that raises, on data that changes between requests | a page that can be built, in which nothing is missing, and plans the account can carry |
| in-memory store, other handlers of the API, deployment, web, scripts | small or none | parsing, rendering, streaming | formats, slow clients | tests |

Interactions. The scheduler's loops ask the router, which asks providers in order and reports to
the circuit; the quality gate's verdict goes to the signal managers, which write the **runtime
outbox** in the signal's own transaction; artifact workers move its rows into the **artifact
store**. The outcome collection follows the decisions the lane delivered, resolves their path from
covered trading days, and writes the ledger. The sidecar's ring is read over HTTP by `poll_once()`,
which runs in the process of `scripts/ingest_xtp_sidecar.py`, fills the **market event store** and
evaluates the monitor rules; the server evaluates them too, on the event bus. Both processes write
the one **monitor** database, and both dispatch its notification outbox. Coverage of a path is built
from the callbacks of one sidecar session. The scheduler, the signal managers and the monitor publish on
the event bus, whose hub feeds the streams of browsers. Migrations work on the database of the
runtime outbox. The physical store, the plan book and the point-in-time books stand alone.

## 2. Modules

| module | models | state and steps |
|---|---|---|
| `PhysicalStore` | `physical_store.py` | one variable per table, `draft`/`stamp` for rows of an open transaction, file sets with `whole`, the write lock, a `pc` per process named after the code's interruption points |
| `EvidenceLog` | its promise | a log and the answers given; `PhysicalStore` implements it |
| `PhysicalStoreProofs` | proofs | inductive invariant and theorems |
| `RuntimeOutbox` | runtime tables of `repository.py` | persist, claim, four marks as operators over the tables, each one transaction, with the audit the transaction makes |
| `ArtifactStore` | `runtime_evidence/store.py` | `append()` in its parts: file, commit, rollback, look-up, unlink |
| `ArtifactDelivery` | worker + manager over both | composes the two; a `pc` per worker for each step of `run_once()`; crash, disk fault, clock |
| `RuntimeMigration` | `storage/runtime_migrations.py` | the database file, its write-ahead log and lock, backups by path, a `pc` per call for each step between its look-ups; the server's own commits and checkpoints |
| `SignalPipeline` | `signals/`, `data_quality/gate.py` | ticks with times, the gate, the manager's update, the state table, persist and restart |
| `ProviderCircuit` | `data_quality/health.py`, `collector/router.py`, `scheduler.py` | circuit and back-off of each provider, one fetch of the loop at a time |
| `PlanBook` | `portfolio_planning/` | the book as one record, one action per operation of the domain |
| `PointInTime` | `quant/core/` calendar, universe, corporate actions, events, classification | the facts learnt so far and those to come; a snapshot of an instant is its answer (`…Answer`) from the facts known then |
| `DecisionProofs` | proofs | about `SignalPipeline`, `PlanBook`, `PointInTime` and `PriceAdjustment` |
| `FiniteSums` | lemmas | sums and products over finite sets, for the proofs about `PlanBook`, `Backtest`, `PriceAdjustment` and `TodayBrief` |
| `TodayBrief` | `decision/`, `get_today_brief()` | quotes, signals, positions and the account change in any order; the page is an operator of them |
| `LiveUpdates` | event bus, SSE hub, handler, browser | a queue per stream, the hub's call in steps between which handlers take events, connections |
| `NotificationOutbox`, `NotificationDispatch` | outbox methods, `dispatch_pending()` | claim with lease recovery, mark; dispatchers with a batch, one send at a time |
| `OutboundProofs` | proofs | about `LiveUpdates`, `NotificationDispatch` and `TodayBrief` |
| `MonitorInbox`, `MonitorInboxProofs` | engine and inbox methods | triggers in one transaction; transitions and expiries as a SELECT and a later UPDATE |
| `MarketEventStore`, `MarketIngestion` | `market_events/store.py`; sidecar ring, client, `poll_once()` | tables, files, the open transaction; every step of an append, its handler, evaluation, the cursor |
| `TransportCoverage` | `source_snapshot_contracts.py`, coverage of `path_contracts.py` | callbacks of one session, half-open segments, gaps, the day's coverage |
| `PathResolution` | path resolution of `path_contracts.py` | the days of a path, what each shows, the verdict |
| `MarketEvidenceProofs` | proofs | about `MarketIngestion`, `TransportCoverage` and `PathResolution` |
| `Backtest` | rules, costs, execution, ledger of `quant/backtest/` | a history of sessions closed so far, and the orders that were tried against it; each try is one step |
| `BarrierLabels` | `quant/labels/`, `quant/evaluation/` walk-forward folds | the label of a signal as a function of the history; one study of samples and folds once the history is closed |
| `OutcomeLedger`, `OutcomeCollection`, `OutcomeFinalization` | `outcome_ledger.py`, `outcome_collection.py` | append with intents and files; the collection log and its replay; prepare, finalize and recover over both databases |
| `OutcomeProofs` | proofs | about `OutcomeFinalization` with its collection, and `BarrierLabels` |
| `CalendarAdapter` | `quant/data/calendar_adapter.py` | none: a notice is a record, a document what `parse_calendar_document()` makes of it, a calendar what is assembled |
| `UniverseAdapter` | `quant/data/security_universe_adapter.py` | none: an artifact is a record with its rows, a bundle its candidates with the adapter's report |
| `Reconciliation` | `quant/data/reconciliation.py` | what is published and what is captured of it; a report is an operator of the captured and an instant |
| `CorporateActions` | `corporate_action_adapter.py`, `_extraction.py`, `_reconciliation.py` | what is filed, captured, bound (as of an instant) and mapped; a report is an operator of these, a policy and an instant |
| `PriceAdjustment` | `quant/core/corporate_actions.py`, `adjusted_market_data.py` | none: facts, factors, series and datasets are operators of the candidates a report selects |
| `MC*` | | model values for TLC, which components of a harness run; `MCDecisions` holds the archives, `MCReconciliation` the sources and filings |

`ArtifactDelivery` extends `RuntimeOutbox` and `ArtifactStore`; `NotificationDispatch` and
`MonitorInbox` extend `NotificationOutbox`; `MarketIngestion` extends `MarketEventStore`;
`OutcomeFinalization` extends `OutcomeLedger` and `OutcomeCollection`; `BarrierLabels` extends `Backtest`;
`PriceAdjustment` extends `CorporateActions`, which extends `PointInTime` for its revisions;
`Reconciliation` extends the two adapters, and asks `PointInTime`, instantiated with their candidates. A step of a composed module is
one transaction, one file operation or one request: what other processes can see in between is
what the model lets them see. SHA-256 is collision free: a hash is the content that was hashed, or
a tuple that determines it.

### Clocks
The physical store's clock may go back, as the code refuses to work but must not break. In the
artifact lane the clock only goes forward, but a process reads it before it is given the write
lock: the time it passes lies anywhere between its last reading and now (`Readings`). A sidecar
event carries the time it was received (`Observe` of a poller).

## 3. Runs

A run may check several components that share nothing. Such a harness (`MCDecisions`,
`MCMarketEvidence`, `MCDelivery`, `MCOutcomes`, `MCNotificationDispatch`) chooses in its first state which component the
behaviour is about, and the state of the others stands still: it explores the sum of their state
spaces, not the product, and each component keeps its own `Init`, `Next` and properties.

| run | module, configuration | what it asks |
|---|---|---|
| `decisions` | `MCDecisions` | two writers and a reader of the physical store through every crash point; two threads that scan one symbol and a restart; the book of plans over four positions up to the end of its log; fourteen archives whose facts become known in every order, asked about every instant, date and range; seventeen sets of notices and artifacts, captured in every order at every date and reconciled as of every one since; seventeen filings of corporate actions, captured at three instants, bound as of the first or the last, mapped in every way, and the bars of every range adjusted |
| `market_evidence` | `MCMarketEvidence` | two sidecar sessions whose ring overflows, with a crash and two faults at any step of the ingestion, the read of the cursor included; a collector that loses callbacks and connections; the first barrier of a position from any prefix |
| `artifact_delivery` | `MCDelivery` | two workers with one `worker_id`, leases that run out under them, a crash at any point; two managers that race on a signal; workers configured with different stores; two calls of the migration, one after or beside the other, while the server writes |
| `artifact_retry` | `MCArtifactDelivery`, `MCArtifactRetry` | one worker, a disk fault, a crash, up to two poison rows: everything settles, unless two poison rows hold each other up |
| `outcomes` | `MCOutcomes` | every order of the facts of a case, late and repeated, with prices that costs eat up; two cases, two ledgers, two finalizers that crash and are called again; histories of four sessions against which three orders are tried, or whose signals are labelled and split |
| `inbox` | `MCMonitorInbox`, `MCInbox` | triggers, user transitions, snoozes and rule expiry, as threads of one process and as two processes |
| `notification` | `MCNotificationDispatch`, `MCNotification` | two dispatchers whose leases run out; one with any number of failing sends, answers that are no HTTP and aborts; two streams whose queue holds two events, for four; a page of three symbols over every order of quotes, signals, positions and accounts |
| `data_recovers`, `provider_backoff`, `one_active`, `holder_blocks`, `rollback_race` | | expect a violation: section 5 |

**Bounds.** Every bound is a constant that stands in a guard: `MaxTime`, `MaxMoment`, `MaxTick`,
`MaxInstant`, `LastTime` for clocks, `MaxCrashes`, `MaxFaults`, `MaxOutgrown` for
interruptions, `MaxOutbox`, `MaxRows`, `MaxLog`, `MaxInbox`, `MaxVersion`, `MaxEvents`,
`MaxCommands`, `MaxSessions`, `MaxSeq`, `MaxTrades`, `MaxDeals`, `MaxWrites`, `MaxPublished`, `MaxStreams`, `MaxCaptures`, `MaxBundles` for what is stored or sent
(`MaxMoments`, `LastInstant` and `LastDate` are clocks too; `Unit` is a ratio of one, so that halves are integers; `QueueSize` is the code's 256, made small;
`MaxCore`, `MaxPerSector` and `Chase` are the code's own limits of a page and of a price). They
are chosen so that the interesting case can happen twice or next to itself: two rows of one signal
and one of another, a ring of two for three callbacks, two sessions, a lease that runs out
once under its holder, one crash at every step. Two processes are enough for the races: every
handler is one transaction or a chain of them, and what a third process could do in between,
the second can do. Two payloads may become unreadable, for two are what holds each other up. Dispatchers may die and
answers may break without bound: in place of a clock that runs on for ever, the dispatcher run lets the dates that lie ahead come nearer once `MaxTime` is
reached (`ComesNearer`), which leaves every comparison as it is. The clock of the artifact lane goes on beyond `MaxTime` while somebody waits for it, but not for a lane
that is stuck for good. In the facts of a case `Costs` are nothing or more than a price is above another, tried where they matter (`MCFill`): at an entry
under the invalidation and at an exit between the barriers. A case closed by hand has one event less. `SYMMETRY`
is used in safety runs over processes, symbols and keys that no definition tells apart.

**Fairness.** Two specifications state any (`LiveSpec` of `ArtifactDelivery` and of
`NotificationDispatch`): weak fairness of the clock, and of each worker's or dispatcher's own steps. The code
justifies it: both are loops in a thread of their own that sleep between rounds and have no other
condition (`service.py` starts them, and a crashed process is started again by its supervisor: a
restart is a step of the same worker). Nothing is assumed of faults, crashes, user actions or the
market.

**Mutants.** Each property of each passing run has a mutant in `PROJECT.json`: an operator beside
the definition it changes, named for the mistake (a dropped guard, an older reading, a swapped order),
and the run under which the property then fails. They are code that might have been written; nothing in
the specifications uses them.

**Deadlock** is not checked: each system can come to rest (a log at its bound, a halted lane, a
case closed), and where coming to rest would be a defect a property says so (`Settles`,
`CanReconcile`, `CanComplete`).

## 4. Properties

*Signals.* `MemoryIsStored`: no thread that is late takes back a signal that another has stored.
`LifecycleIsLegal`: across threads and restarts, stored states change only as the table
allows, and do not become younger while they last.

*Plan book.* `NoOvercommit`: open plans together never promise more cash, shares or room than was
confirmed. `CanReconcile`: the log never fills up before the plans of each currency could be closed.

*Physical store.* `StoreAuditable`, `AcknowledgedDurable`, `OneRecordPerKey`, `SnapshotStable`, and
`ImplementsLog`, the refinement of `EvidenceLog`.

*Point-in-time books.* `AnswersStand`: what was answered, or refused, as of an instant in the past is
answered the same whatever becomes known later: no look-ahead. `SupersededNeverShown`: no snapshot selects a
revision that a visible one has replaced, even where that one lies outside the range; identities, confirmations and all coverages included, but that
a coverage of the universe or the calendar, or an identity, which was shortened since is shown as before (section 5).
`NoSurvivorshipBias`: an instrument that was in a session's universe stays in every later answer, as a
member or as one that left.

*Reconciliation.* `CleanReportAgrees`: where a report has no finding that blocks, the books, which resolve
revisions by code of their own, say the same of what it compared: universes of a session that two bundles require
agree, and each calendar that assembles gives every date the state the report selected.

*Corporate actions.* `EligibleIsUsable`: what a policy lets an analyst verify has no revision the report did not
follow (but for a revision that was captured twice: section 5), is accepted by the core's contract, and gives the same factor whichever source is taken. `ReturnsAgree`: in the
datasets made of it, a close is to a later close the same under both conventions and over every range, and
a holding keeps its worth where only share changes are adjusted, but between an ex-date and a later listing.

*Artifact lane.* `OutboxAuditable`: the repository's own audit accepts every state. `DecidedAndStoredOnce`:
the history of a signal is a chain (`HistoryIsChain`), an occurrence is stored in one store, once
(`StoredOnce`), and what is marked delivered is there, with its file (`DeliveredIsStored`). `StoreIntact`,
and `TerminalIsFinal`: a row that is settled stays so, and no row moves once the lane is blocked. `Settles`: every occurrence ends delivered or quarantined unless the lane
is blocked, halted or stuck at two unreadable payloads (section 5). `MigrationIsSafe`: a migration commits only on what its rehearsal saw, after a backup of
exactly that content exists, and whatever call or crash comes between.

*Market events.* `RowsIntact`: no committed event without its file, no broken chain, also during an
append. `FailuresHeal`: a failure that recovers leaves the store as it was;
what a crash leaves is adopted or healed by the next event. `NothingPassesUnseen`: up to the last stored
callback of a session each is stored or lies in a recorded gap. The
rules miss at most one stored event per crash; of the events above a recorded gap they may miss more. Neither is said of a session whose
cursor could not be read when it was taken over (`misread`), nor is it there that a failure is healed by the next event (section 5).

*Path of a decision.* `CoverageIsTrue`: a prefix that claims an interval holds every trade the market
made in it. `VerdictIsTrue`: a verdict once given is what the market did, and nothing learnt later
contradicts it.

*Outcomes.* `ReasonIsFirstBarrier`: the reason of an exit is the first barrier of the whole path, no
look-ahead, no look-behind; a timeout had seen its last session and knew of no barrier. `LogReplays`: the log accepts itself, and a call made again
is answered with the same fact. `CanComplete`: nothing that was accepted, ready or prepared
gets stuck, unless an entry leaves no risk or an exit no price when it is costed (section 5). `LedgerIntact`: one record per case among all ledgers, and no record
without its file.

*Research.* `LedgerIsPossible`: the ledger of a backtest is one the market could have kept: no purchase was
made with money that was not there yet, what is sold was bought before and not in the same session where T+1 holds,
and the cash is what profits and open positions explain, though orders are taken up in another order than they fill. `FoldsDoNotLeak`: a sample a fold is trained on was decided,
and everything its label was read from known, before the first signal the fold is tested on.

*Monitor.* `CooldownKept`: notifications of an inbox event are a cooldown apart and
every counted trigger has one. `HistoryExplainsState`, `TerminalIsFinal`: within one process the
recorded transitions are a path to the state, and a closed event stays closed. `LeaseIsExclusive`,
`Settles` for the notification outbox: whatever fails, every notification is delivered, disabled or failed, unless dispatchers die or
answers break again and again. `LossEndsStream`: a stream the browser can read has shown every
event since it was registered, in order and once, or it ends without showing anything newer than the loss.

*Today page.* `BriefIsSound`: whatever quotes, signals and positions it finds, the builders satisfy the contracts
that the types of the next step raise on, but for the signals that `NoRecordFor` names by their prices (section 5): those and no others are skipped. Each position has
its line, and a record that is left out has better ones before it.
`PlansFit`: who buys what a plan says, whether or not it is among the best that the page shows, stays within all limits of
the account together with what is held, and one lot more would not.

## 5. Where code and documentation, or code and intention, differ

Kept as runs; the counterexamples are short.

* `holder_blocks`: `mark_runtime_artifact_integrity_blocked()` (`storage/repository.py:2336`)
  executes the SELECT for its lease and never fetches a row, so its test for a lost lease is never
  true: a worker whose row another has delivered persists the global block.
* `rollback_race`: `append()`'s handler (`runtime_evidence/store.py:1086`) looks for a committed
  row and unlinks its file in two steps after the rollback has given up the lock. A worker that took
  the row over in between adopts the file, commits and delivers; then the file is gone.
* `one_active`: the event a trigger belongs to is the one with the latest `last_triggered_at`
  (`monitor/repository.py:590`). A poll stamps triggers with the time an event was received: one older
  than the last trigger of a closed event opens a second event, and each later one opens another.
* `data_recovers`: `docs/architecture.md:449` draws DATA_INVALID → WATCH on recovery;
  `decide()` (`signals/state_machine.py:124`) has no branch that makes the transition.
* `provider_backoff`: the pause is `min(max, base * 2 ** level)` with a float base
  (`data_quality/health.py:61`). At level 1024, after about 17 hours of outage, the product
  raises `OverflowError` after the circuit was set OPEN and before its deadline was.

Seen with the models, not kept as runs:

* A case whose costed entry is at or under its invalidation price, or whose exit costs are at or over its exit price,
  reaches TERMINAL_READY and can never be prepared: `record_exit_fill()` takes any cost that is not negative (`quant/storage/outcome_collection.py:2518`), and
  the constructor of the outcome raises (`quant/core/outcomes.py:316`, called at 648). `CanComplete` excludes both
  (`docs/STAGE4G-RUNTIME-OUTCOME-COLLECTION-FINALIZATION.md` has no such state).
* A timeout stands although a point that is stored after its request, of its last session, touches a barrier: the prefix it froze had none.
  `ReasonIsFirstBarrier` says of a timeout only what was known.
* A crash between the link of a ledger record's file and its commit leaves a file no row names, and so does a temporary file that
  cannot be removed (`outcome_ledger.py:1314`); the ledger refuses everything from then on, by design. `audit()` reads its clock before its lock, so that a
  concurrent append can make a `finalize()` fail once.
* A tick at the very instant `coverage_through` is accepted as a barrier though the coverage is half-open;
  `VerdictIsTrue` says so.
* `recover()` loads only some states: after a restart a stored DATA_INVALID or EXPIRED signal looks new,
  and storing its successor conflicts. Two threads fetching the same tick make it a duplicate, which
  degrades the quote. Nothing promotes WATCH to ARMED on a tick without a proposal, though the
  documentation's diagram says so.
* A HALF_OPEN circuit lets every thread through, not one probe.
* An artifact worker started again within its own lease finds its orphan file and blocks the lane.
  Exhausted retries block it too, where `docs/STAGE4G1-CHECKPOINT-A-IMPLEMENTATION.md:35` has them
  quarantine the row. A poison row behind a healthy one halts the worker. A clock read before the lock is
  reported as one that moved back.
* `mark_runtime_outbox_quarantined()` ends with an audit of all rows (`storage/repository.py:2413`), which refuses any other that is not quarantined and
  whose payload is not readable (1288). With two of them each quarantine is rolled back for the sake of the other; the service loop logs it
  and claims both again for ever, and nothing is counted. `Settles` excepts it (`Stuck`). A mark that the block refuses raises
  `RuntimeWorkerIntegrityBlocked`, which the loop (`runtime_evidence/worker.py:416`) does not catch: its thread ends without a word in the log.
* `dispatch_pending()` (`monitor/notifications.py:169`) does not catch `http.client.HTTPException`. A webhook that keeps answering with what is no HTTP leaves its row leased
  and its tries uncounted, and drops the batch behind it; the loop goes on (`monitor/service.py:496`), and once the lease is over the same row is claimed first again:
  it never reaches FAILED, and the rows behind it wait for ever. `Settles` excepts answers that break without end (`Broken`).
* A batch of notifications that outlasts its lease is sent twice, and its attempt count is overwritten.
  The ingestion process, which has no browser publisher, disables browser notifications.
* `expire_due()` can set back an event that was resolved in between by another process.
* `HistoricalUniverse.snapshot()` (`quant/core/universe.py:549`) and `TradingCalendar.snapshot()`
  (`quant/core/calendar.py:485`) filter coverage by range and completeness before they choose its revision, so
  that a coverage a later revision narrowed can still be used; the books of actions, events and classes
  resolve first and filter last, as `docs/STAGE2B-CORPORATE-ACTION-CONTRACT.md:193` has it. So it is with identities: `HistoricalUniverse.snapshot()`
  drops those that have ended by the date (`quant/core/universe.py:618`) before it chooses a revision (623), so that an identity which
  a later revision ended earlier is shown beyond its end. `SupersededNeverShown` says of these three that a revision which spans no less replaces the earlier one (`SpansNoLess`).
* When the sidecar has a new session, `poll_once()` sets its id before it reads its cursor (`monitor/service.py:609`). If the read fails, the next poll does not read again:
  it asks the new session for what comes after the cursor of the old one, and callbacks below that are passed without a finding. `docs/STAGE3D-STAGE5C-INDEPENDENT-REVIEW.md:69` says
  that a change of session goes on from the committed cursor of the event store and does not trust the old one in memory
  ("Session 变化时从独立 Event Store 的已提交游标恢复，不信任旧内存 Cursor"). `NothingPassesUnseen` excepts such sessions (`misread`).
* `build_trade_plan()` is called outside the `try` of `build_signal_record()` (`decision/runtime.py:308`). A signal with its price between its stop and its entry zone, or with a
  trigger under its zone, is shown as long as no account is given; once there is one its size has an entry that the plan's contract refuses
  (`decision/trade_plan.py:154`), and the page skips it: `get_today_brief()` counts it, and names it if it is among the first five reasons to avoid. `BriefIsSound` says of which signals this is so (`NoRecordFor`).
* Events between two streams of a browser, or between its first REST load and its stream, are not shown:
  `docs/STAGE4D-SIGNAL-MONITOR-CONTRACT.md:116` has the browser recover by a REST reload, but the `open`
  callback of `web/js/app.js` does nothing, and a stream that ends cleanly raises no error.
* A SELL that the participation limit cuts closes the whole position all the same: the shares that found no buyer
  vanish. The limit is per order, so that two orders may take the same share of one bar. An order
  that a halt delays makes a later order that fills earlier be rejected as not monotonic. Only purchases are checked
  against cash: the least commission of a small sale can take it below zero.
* A reconciliation without a blocking finding does not mean that the universe can be built
  (`docs/STAGE2-RECONCILIATION-HANDOFF.md:153` calls HARD_BLOCK what keeps a snapshot from being constructed): it asks for some identity on the
  date, not for the member's symbol, for some status, not for one that says listed, and for no member at all on a required session
  before the first. Identity ranges of several sources are compared between neighbours only, so that whether three that
  overlap are found can depend on the order of their hashes. `_latest_memberships_on()`
  (`quant/data/security_universe_adapter.py:1302`) keeps the first revision of a date, where the book takes the last.
* An eligible report may hold a candidate that the core refuses: one with a currency and no money in it, and one
  that pays out as much as its reference price (`CorporateActionFact` looks at both, `_candidate_gaps()` at neither).
  `EligibleIsUsable` excepts them.
* A report resolves the revisions of each logical action by themselves (`corporate_action_reconciliation.py:562`). A revision that was
  captured twice is two candidates, which may be mapped to two actions; where only one of them is mapped together with its successor, the report is eligible
  with the superseded one in the other action. `EligibleIsUsable` excepts such a revision (`TakenApart`); the proof shows that there is no other way. Likewise
  two revisions of one event without a predecessor pass when they are mapped to two actions. The core's book resolves the revisions of
  all actions together and refuses either (`BookResolves`).
* An observer that holds an expired version of a rule expires the events of the version that replaced it.
* A session whose first callback failed is refused for good; an event that was stored when the process
  died is never evaluated (`NothingPassesUnseen` bounds that).
* `events_after()` (`sidecars/xtp/runtime.py:163`) takes the first event that *entered* the ring for the oldest. When the
  evaluation of an event above a gap failed, so that the cursor stays behind it, and a callback of the gap enters late and then leads the ring, the ring
  may evict the event before it is sent again, and the cursor does not count as lost: the next response passes the event, which is stored
  and never evaluated, without a crash. `docs/STAGE3E-XTP-SIDECAR-CONTRACT.md:81` has a cursor whose events were evicted fail closed.
  `NothingPassesUnseen` excepts what lies above a recorded gap (`Overtaken`).

## 6. Proofs

`PhysicalStoreProofs` proves, for any set of writers, readers, keys and inputs and any bounds, the type
invariant, `StoreAuditable`, `AcknowledgedDurable`, `OneRecordPerKey`, `SnapshotStable` and that the store
implements `EvidenceLog`. None of them is inductive. `IInv` adds what they rest on: who
holds the write lock and which row an open transaction has inserted; that an intent committed without its
publication is in nobody's transaction; what a staging file may hold at each `pc`, and that a final
file is whole; that a row's partition links and sequence number continue those before it; that the pages a reader has
are the prefix of what its snapshot covers. The proof has one step per action and under it one
per conjunct; frame lemmas (`...Frame`) dispose of what an action leaves alone, and
`PartitionHeadPrefix` says that the head of a partition does not change when rows of others are appended.
The refinement maps the published rows to the log and a reader's pages to its answers; every step is an
abstract step or a stutter.

`DecisionProofs` proves, of `PlanBook`, that a book can always be reconciled (`CanReconcileHolds`), for any number of
currencies, positions and commands: what is reserved for closing commands is never more than what
the log has left. `BookInv` strengthens it with the room each open currency needs (`RoomLeft`), and the
currencies that have open plans being those the book knows (`CurrenciesKnown`). It rests on
`BookAssumption` (sizes are natural numbers, a symbol has one currency, and the log has room for a reconciliation of each).

`NoOvercommitHolds` follows from `Reserves`: the book's invariant, a finite number of plans and one set of sleeves per holding beside the property itself. The
sums are the work. `SumFunction` is a fold that takes the terms in an order that nobody knows, and the provers have no induction over finite sets; `FiniteSums`
has one about a set of subsets instead of a predicate (`SubsetInduction`), from the well-founded ordering of subsets in the library. It proves that a fold exists (`FoldsExist`) and, of an operation whose order does not matter,
that a sum depends on the terms alone (`SumAgrees`), and is that
of all terms but one and that one, whichever it is (`SumWithout`). With it a plan that is added takes what the guard compared (`PlanAdded`),
and one that is closed or shrinks gives back what it took (`PlanTaken`, `PlanBecomes`).

It proves, of `PointInTime`, `AnswersStand` for every archive, every date and any bars: no step changes what
was known as of an instant that has passed (`PastIsKept`), because a fact is dated when it is learned
(`LearnedLate`), and every answer is an operator of what was known. Only the answers' use of
the state matters, so they stay closed in the proof: were one to look at `learned` past its facts, as the mutant
`LookedUpById` does, the last step would fail.

`SupersededNeverShown` and `NoSurvivorshipBias` are about what a selection returns, whatever was learned when. A graph of revisions shows its terminal
one only, which no known revision replaces (`TerminalStands`); a newest revision leaves behind those of its record (`CurrentStands`). The calendar
is the hard case: it selects per day. `OneRoot` counts: every revision of a day but the last is named by another as its predecessor; were the
last itself without one, those others would have to name one another, and a second without a predecessor leaves too few to do so. Nobody drops out of the universe
(`NobodyDrops`) because the last known membership of an instrument on a day exists once an earlier one did (`SomeLast`), is shown whether it includes or
excludes (`MemberShown`), and because facts are only learned (`StillKnown`). That a finite set of facts has its k-th by
rank (`EveryRank`) stands in for an induction over it.

`Replaces` has a case per way in which the code chooses a revision. Of identities and of the coverages of universe and calendar it asks that the later one spans no less
(`SpansNoLess`): then it passes the filter that the earlier one passed, and is chosen.

`HistoryAssumption` says that dates are numbers, that an archive begins with finitely many facts, and that each has its dates, its two instants, a revision and a predecessor;
members, statuses and sessions have no field for a predecessor (`IsFact`; `quant/core/universe.py:278`).

It proves, of `PriceAdjustment`, `EligibleIsUsable` for any filings, policies and bounds. `ActionsInv` says what reports are made of: candidates with a row that
their contract accepted when it was captured (`Sound`), finitely many, none mapped twice. What a visible candidate replaces is mapped to the
candidate's own action (`PredecessorIsMapped`), or its revisions would not resolve; so the replaced one is of that action, where it is not selected, or it was captured
once more (`SelectedStands`). The two contracts of a row, the candidate's and the core's, differ in two places (`CoreAccepts`), and what the report compares
is all that a factor is made of (`OneFactor`). `ActionsAssumption` is what the parser's contract asks of a row (`IsRow`), and that filings are finite.
The proof found what TLC had not: the filings of the run let no revision be taken for two actions, and an earlier form of the property, which did not except that, failed where one can.

`ReturnsAgree` needs of the reports only that rows are sound. What a range makes of a close is a product of fractions, `Num` over `Den`, of the facts between the date and the
base of the range (`PriceIs`). Between two sessions of the range it changes by the facts after the one and up to the other, whichever the convention
(`RatioIs`), and these are the same facts for every range that has both sessions; the product of a set is that of a part times that of the rest
(`ProductOfParts` of `FiniteSums`), and the rest cancels (`ReturnsOf`). Where only the number of shares counts, the shares are multiplied by the inverse fractions of the
same facts, unless a listing is awaited (`SharesMakeUp`). It rests on `TapesAssumption` beside `ActionsAssumption`: dates and closes of a tape are natural numbers.
Fractions are compared across, so that no fraction has a zero is part of what is proved (`MultiplierIs`): the contracts refuse ratios and prices
that are zero (`quant/data/corporate_action_adapter.py:1041`), the core what leaves nothing of a reference price.

It proves, of `SignalPipeline`, `MemoryIsStored` and `LifecycleIsLegal` for any finite set of scanner threads
(`ScannersAssumption`), any ticks and any policy constants. `IInv` adds `VersionsFresh`: a version that a thread has decided is
nobody else's until it has stored it (the version check of the database is what the proof uses, not the order of the threads), and
`DecisionsLegal`: what a thread has decided is a legal step from what it read. A store is accepted only when the row is what
the thread read, so the legal decision becomes a legal step of the row.

`OutboundProofs` proves, of `LiveUpdates`, `LossEndsStream` for any number of streams and events and any queue size. `LiveInv` adds where the hub's call
is (`HubInv`: a stream it has not come to is one event behind, one it has given up is not among those to do) and, for each
stream, that it is complete, or ends, or is just being emptied and holds older events only (`StreamInv`).

It proves, of `NotificationDispatch`, `LeaseIsExclusive` for any dispatchers and notifications. Not inductive: `DispatchInv` adds that a leased
row is dated (`LeasesDated`) and that while the lease of a claimed item runs its row is settled or not due before that lease ends,
whoever has marked it (`BatchesHeld`). This last part needs `LeaseWithinRetry`: a failed try is put off for no less than a lease. The
code uses 30 seconds for both (`monitor/repository.py:945`, `monitor/notifications.py:178`); were the delay shorter, a dispatcher that lost its lease could hand the row on
while its successor is sending it.

It proves, of `TodayBrief`, `PlansFit` for any symbols, lots, boards, quotes and accounts. `BriefInv` says what the page is built from: one accepted
profile at most, and holdings that are natural numbers, which for a purchase follows from the sizing itself. `SizedFromSignal` takes a record
of the page apart: a size that is allowed comes from one signal and the profile, no blocker reached it, and it is the sizing at an entry above the
signal's stop. `LimitsAre` turns the least of the six quotients into the six limits themselves (`QuotientIs`): a room that is left says what it means because no limit of an accepted
profile is more than the equity, at which heat and exposures are capped (`RoomIs`). `LotsAre` and `SizedFits` round it to lots, so one lot more breaks a
limit. Heat and exposures are sums (`FiniteSums`). `PlansFit` is about every record, not only about those `SelectCore` takes, and `Buy` takes any of them: a user may report
a position whether or not its plan is shown still. `BriefAssumption` says that a board has one signal of a symbol and strategy,
which together are its id (`signals/state_machine.py:68`), and that amounts and prices are natural numbers, as the runs' are.

`RecordsAcceptedHolds` proves most of `BriefIsSound` from the same invariant: whatever the quotes, signals and positions, the contracts of `types.py` accept every
record the page is made from, those without a record are the signals of `NoRecordFor`, every position has its line (`FirstOfRecords`: the records of a symbol have different strategies, so one is before all others), and
nothing is advised on a quote that is stale or unknown. The argument follows the builders: `VerdictIs` for the mapper, `SizeIsAccepted` for the sizing (a number of lots that the
equity pays for, or nothing and a blocker), `PlannedIsAccepted` for the plan, `BuiltIsAccepted` for the record; the link is that what blocks a size also blocks its
plan, and the other way round (`SizesBlocked`). What is left of `BriefIsSound` to TLC is the choice of the core: `SelectCore` sorts and folds.
The proof found the mapper's cases to overlap for an invalid signal of a position on a live quote; TLC takes the first, TLA+ says any. They are exclusive now, as the
early returns of the code are (`decision/action_mapper.py:80`), and so are the chains of reasons of `Backtest` and `RuntimeMigration`.

`MonitorInboxProofs` proves, for any processes, observers, rules, cooldown and number of events:

* `TerminalIsFinal` and `HistoryExplainsState` where all threads run in one process. `SoloInv` says what the lock is for: between
  the SELECT and the UPDATE of a method the rows it selected keep the state it read, and their transition stays allowed. No trigger
  comes in between, for it asks for the same lock. With two processes this part fails, and so do the two properties.
* `CooldownKept` however the threads are spread. `Dated` strengthens it: no notification is newer than the last trigger of its event, so that
  a trigger that is not suppressed is a cooldown later than all of them. That notifications are a cooldown apart holds for any
  cooldown (`SpacedHolds`). `CooldownKeptHolds` has the hypothesis `Window > 0` (the default is 300 seconds, but a rule may say 0): the
  property counts notified triggers by their times, and with no cooldown two triggers may have the same time.

`ArtifactDeliveryProofs` proves the artifact lane for any managers, workers, worker names, stores, candidates, lease and retry
constants and bounds of time and faults. Every step is one of the seven kinds of step of the outbox (`OutboxStep`: persist, claim, deliver,
retry, quarantine, block, outgrow) or leaves it alone, and one of the kinds of step of workers and stores (`LaneStep`), which `StepKinds` and
`LaneKinds` show; the rest of the proof is about kinds.

* `LaneInv` gives `OutboxAuditable` and `TerminalIsFinal`. The audit is not inductive. `OutboxInv` adds `BoundOnce` (a row that was ever
  claimed shows that the lane is bound, or a second claim could bind it to another store) and `HistoryLinked`. `StoresInv` adds, for each store, that its chain is intact with one row per
  artifact, that records are dated in their order and not after now, that only the bound store was written, and `AppendInv`: the record of
  an open transaction is the next of the chain and only its worker, at its `insert`, has it. `LeaseInv` and `RecordInv` tie a worker's
  `pc` to its lease, the binding and its record, and `DeliveredIsRecorded` says that the hash a delivered row names is that of a committed record. All of this holds whatever
  faults, crashes and lost leases come.
* `ChainInvariant` gives `HistoryIsChain` and `StoredOnce`, also without a condition: `ChainInv` follows each signal's
  transitions to the last one (`Ends`), which is the state the next decision is checked against.
* Files are different. That a committed record has its file fails when a rollback handler runs beside another worker of its store: run `rollback_race`
  shows it on the code. `StoreIntactHolds` and `DecidedAndStoredOnceHolds` therefore assume `Undisturbed`: there are no disk faults, or no two
  workers share a store. Under it `HandlerInv` says that a handler that unlinks has no committed row, and `FilesInv` that
  committed and open records have their files. The run `artifact_retry` is one such deployment, `artifact_delivery` the other.

It rests on the named assumptions of `RuntimeOutbox` and `ArtifactDelivery`; `DeliveryAssumption` also says that the value `None` of an unbound lane is no binding row.

`ArtifactDeliveryProofs` also proves, of `RuntimeMigration`, `MigrationIsSafe` for any set of calls and any numbers of writes and checkpoints; it needs no assumption on the
constants. `MigrationInv` says what a call knows at each step: once it has saved under its exclusive lock, the database is the one it compared with what
it rehearsed (`CallInv`), since a write or a checkpoint would need the lock; only calls that have committed have migrated, each with
a backup of what it rehearsed under its own path (`MigratedInv`); and legacy evidence is only found at the versions that are never
migrated with it (`CopiesInv`). `CallKept` carries what one call knows over the steps of all others.

`OutcomeProofs` proves, of `OutcomeFinalization`, `LedgerIntact` for any finalizers, cases, ledgers, facts, crashes and faults. `FinalizationInv` adds what each
call holds at each `pc`: while it appends, the ledger is locked and its record continues the chain (`Chained`, `Newest`); which of the
files without a row are its own, if none was left behind by a crash or a file that could not be removed; and that the result a case was prepared with is the only one that any call can append, to the one ledger that was named. So
a call that finds a row after its rollback has found the record it meant to write. From the same invariant follows `CanFinish`, the half of
`CanComplete` about a prepared case. It rests on `FinalizationAssumption`: targets are ledgers, and `None` is no finalizer.

It proves, of the collection's log, `ReasonIsFirstBarrier`, `LogReplays` and the other half of `CanComplete`, for any snapshots, bars, reasons and
bounds and however the clock is set. A path is the set of the places its points have in the log. `CollectionInv` says that the facts of a
case come in the order of its life and but once, points excepted (`OrderInv`); that a point is later than those before it (`PathInv`); that the prefix a request froze is
and stays what was known at its time, since a point stored afterwards is observed strictly later (`RequestInv`); and that nothing is added to a path once its exit is
filled, or to a case once it is prepared but that it is finalized (`ExitInv`, `PreparedInv`). Each call stores one fact that it has checked, or none (`CollectionSteps`). What was known at
a time is the beginning of a path (`FirstIs`), so that a repeated request reads the same prefix and a later touch is no first one.

It proves, of `BarrierLabels`, `FoldsDoNotLeak` for any bars, market rules, schedules, label configurations and splits. The heart of it is about data: a label
that ends by a session is the same where the history stops at it (`SameLabel`). An order that was filled by then is filled the same way
(`SameEntry`), because the first session that decides is the least of a set that a longer history only adds later members to
(`SameMin`); and a barrier that was met by then is met first there too (`SameResolved`). No label ends before it begins or after the history
(`LabelEnds`). What remains is what `Folds` and `Completed` select: `StudyInv` says that a study is made of the labels of its signals, and `SampleKnown` that a
training sample ends before the first signal that is validated. It rests on `LabelsAssumption` (a horizon is at least one session, a delay and a gap
are no less than zero), as `triple_barrier.py:64` and `walk_forward.py:63` demand.

It proves, of `Backtest`, `LedgerIsPossible` for any bars, market rules, costs, orders and funds. `TradesInv` adds three facts that the code never states: the
fills are appended in the order of their sessions (`FillsInTime`, all that `Late` is for), the cash is what they left of the funds (`CashFlows`), and what is open was bought by
the last fill of its position (`OpenWereBought`). A purchase is then preceded in time by every other fill there is, so that what it may spend is the cash of
that moment (`FillAdded`); a sale is backed by that last fill, and closes it within the day's rule because the session that decides an order is not too soon for it (`FillIs`). It rests
on `AmountsAreWhole`: whole amounts, a lot and a participation that are not zero (`market_rules.py:57`, `costs.py:59`), orders of one share or more that do
not start before the history (`backtester.py:37`). The code's amounts are floating-point numbers, and it compares cash with a tolerance of 1e-9: the theorem is about exact ones.

`MarketEvidenceProofs` proves, of `MarketIngestion`, `RowsIntact`, `FailuresHeal` and `NothingPassesUnseen` for any symbols, numbers of sessions and callbacks, crashes
and faults, and any sizes of the ring and of a response but zero (`IngestionAssumption`). None is inductive. `IngestionInv` says how far a session has been
passed (`Here`, `Mark`, `Level`), and around it, the store apart, of a session that was not misread:

* an event of the ring that has a file and was not passed leads: all before it in the ring were passed, and the next response begins with it
  (`RingInv`). So at most one event is begun and not passed, it is the first that comes again after a failure, its file without a row is what the
  append would write, and it heals the one manifest that may be stale (`ManifestsInv`, `AppendInv`).
* what the ring has evicted and was stored lies below all that the ring holds, unless a gap was recorded below it (`EvictedInv`): a callback that is late
  could otherwise lead the ring. Hence a stored event that waits for its evaluation is still in the ring or the cursor counts as lost, and only a crash,
  after which the cursor is read from the store, passes it (`RulesInv`).
* a new event is the next of its session or leaves a finding over what it skips, and the first of a session is number 1, for the cursor 0
  would count as lost otherwise (`LastInv`, `PollInv`).

What holds of the store holds in every session (`StoreInv`); how far one was passed means nothing where a poll goes on from the cursor of another session (`Aware`), until the next session.

An earlier form of `NothingPassesUnseen`, without the exception for events above a gap, held in the run's small ring and was found to be false when its invariant
was: section 5 says how.

It proves, of `TransportCoverage`, `CoverageIsTrue`, for any bounds and either scope of the numbers, without an assumption on the constants. The
collector cannot see what it missed, so the invariant has to: `FeedInv` says that there is a fate of each trade, the epoch that heard it and the number its
callback was given (0 if nobody heard it), which explains all that was logged, queued and stored (`Explains`). In a scope a number is given once and none is above
the last given (`HeardInv`); who is subscribed hears every trade, a heartbeat is the word of one who was subscribed until then, and a watermark is no
lower than the number of any trade heard before it (`LoggedInv`); a callback is of one trade, and in the queue or among the records once (`CallbacksInv`). A prefix without
a finding holds the numbers from 1 up to its last and leaves none out (`NoneLeftOut`: the record that first skipped one would show it). So a trade of a claimed interval
was heard, its number is below a watermark that is covered, and its callback is stored (`TradeIsStored`). The records of an instant are then one to one its trades.

It proves, of `PathResolution`, `VerdictIsTrue`, for any calendar, entry time and market. `CalendarAssumption` is what `TradingSessionSegment` and
`CalendarSessionFact` check (segments that are not empty and leave no gap, all on the date of their day, so that one day ends before the next opens), and
that there is a session after the entry. That a trade is made in a session is a guard of the market: one made outside would never be in a point. `PathInv` is
small, what the market has done so far and that the verdict agrees with it: a later trade is the last in order, and after the horizon if it closed.
The work is in the one step that decides. A known day has all days before it known (`NoneSkipped`); a session that was passed without a decision is complete to
its close, each of its trades after the entry was stored and is in a point of that session (`CoveredIsConsumed`), and none of its points was touched
(`QuietDay`). So the first touch is in the session that decides. A bar has all stored trades of its interval and no trade is in two points, so that of two points
that were touched the one that comes first in the order has the first touch (`FirstInOrder`), and there is a first (`FirstIs`). The deciding point may not
be ambiguous, so the price of the first touch is that of the verdict. What is left is the tick at the end of the coverage (section 5).

| theorem | property | rests on |
|---|---|---|
| `AlwaysAuditable`, `AcksDurable`, `AckedOnce`, `SnapshotsStable`, `StoreImplementsLog` | `StoreAuditable`, `AcknowledgedDurable`, `OneRecordPerKey`, `SnapshotStable`, `ImplementsLog` | `Invariant` |
| `CanReconcileHolds` | `CanReconcile` | `BookInv`, `BookAssumption` |
| `NoOvercommitHolds` | `NoOvercommit` | `ReservesAlways`, `BookAssumption`, `FiniteSums` |
| `AnswersStandHold` | `AnswersStand` | `HistoryAssumption` |
| `SupersededNeverShownHolds`, `NoSurvivorshipBiasHolds` | `SupersededNeverShown`, `NoSurvivorshipBias` | `HistoryAssumption` |
| `EligibleIsUsableHolds` | `EligibleIsUsable` | `ActionsInvariant`, `ActionsAssumption` |
| `ReturnsAgreeHolds` | `ReturnsAgree` | `ActionsInvariant`, `ActionsAssumption`, `TapesAssumption`, `FiniteSums` |
| `MemoryIsStoredHolds`, `LifecycleIsLegalHolds` | `MemoryIsStored`, `LifecycleIsLegal` | `PipelineInvariant`, `ScannersAssumption` |
| `LossEndsStreamHolds` | `LossEndsStream` | `LiveInvariant` |
| `LeaseIsExclusiveHolds` | `LeaseIsExclusive` | `DispatchInvariant`, `LeaseWithinRetry` |
| `PlansFitHolds` | `PlansFit` | `BriefInvariant`, `BriefAssumption`, `FiniteSums` |
| `RecordsAcceptedHolds` | the part of `BriefIsSound` about records, skipped signals and positions | `BriefInvariant`, `BriefAssumption` |
| `TerminalIsFinalHolds`, `HistoryExplainsStateHolds` | `TerminalIsFinal`, `HistoryExplainsState` of the monitor | `SoloInvariant` |
| `CooldownKeptHolds` | `CooldownKept` | `InboxInvariant`, `SpacedHolds`, `Window > 0` |
| `OutboxAuditableHolds`, `TerminalIsFinalHolds` | `OutboxAuditable`, `TerminalIsFinal` of the artifact lane | `LaneInvariant` |
| `StoreIntactHolds` | `StoreIntact` | `FileInvariant`, `Undisturbed` |
| `DecidedAndStoredOnceHolds` | `DecidedAndStoredOnce` | `ChainInvariant`, `FileInvariant`, `Undisturbed` |
| `MigrationIsSafeHolds` | `MigrationIsSafe` | `MigrationInvariant` |
| `LedgerIntactHolds` | `LedgerIntact` | `FinalizationInvariant`, `FinalizationAssumption` |
| `ReasonIsFirstBarrierHolds`, `LogReplaysHolds`, `CanCompleteHolds` | `ReasonIsFirstBarrier`, `LogReplays`, `CanComplete` | `CollectionInvariant`, `FinalizationInvariant` |
| `LedgerIsPossibleHolds` | `LedgerIsPossible` | `TradesInv`, `AmountsAreWhole`, `FiniteSums` |
| `FoldsDoNotLeakHolds` | `FoldsDoNotLeak` | `StudyInvHolds`, `LabelsAssumption` |
| `RowsIntactHolds`, `FailuresHealHolds`, `NothingPassesUnseenHolds` | `RowsIntact`, `FailuresHeal`, `NothingPassesUnseen` | `IngestionInvariant`, `IngestionAssumption` |
| `CoverageIsTrueHolds` | `CoverageIsTrue` | `FeedInvariant` |
| `VerdictIsTrueHolds` | `VerdictIsTrue` | `PathInvariant`, `CalendarAssumption` |

Only model-checked: everything else. `Settles` of both lanes is liveness under fairness, which is out of the prover's reach,
as `ENABLED` is. `CleanReportAgrees` and `BriefIsSound` state what a pure
computation returns for the inputs of a run, and what is not proved of each is a recursion over days, revisions or rows
(of `BriefIsSound`, the sorted and folded choice of `SelectCore`), which is induction over data. No module declares a RECURSIVE operator.

## 7. Not modelled

`PROJECT.json` lists the parts with the reason for each. Within modelled components:

* `PhysicalStore`: `initialize()` but for its result; the JSON codec; path and file identity checks.
* `MarketEventStore`: minute bars, run statistics, provider sequences, queries, the schema migration.
* `TransportCoverage` assumes trades that reach the collector at once, one session and symbol, a collector that
  follows its own contract, no replay and no provider sequence, and one clock. `PathResolution`
  leaves out revisions of the authority, blockers about gaps in an index, days before the entry and the blocker codes.
* `PlanBook` leaves out the caps on plans and positions, lot sizes and fees.
* `SignalPipeline`, `ProviderCircuit`: scores, bar quality, latency statistics, pools and intervals.
* `OutcomeLedger`, `OutcomeCollection`: scoreboards, metrics of an outcome, schema checks.
* `PointInTime`: the identities' hashes, the checks of single fields; snapshots that
  allow unverified or incomplete facts (`Reconciliation` asks for those). `LiveUpdates`: the runtime's event queue, authorization, and what a page does with an event.
* `CalendarAdapter`, `UniverseAdapter`, `Reconciliation`: capture files, descriptors and hashes; session times; trust blockers and
  their closure; what the parsers rule out. The classification adapter and the market bar reconciliation.
* `CorporateActions`, `PriceAdjustment`: raw formats, URLs and headers; the wording of gaps and conflicts; files of
  adjusted datasets; volumes, which are not adjusted; and the fifty digits of the decimals, which are exact here.
* `RuntimeMigration`: the rows themselves, and the statements of each version.
* `Backtest`, `BarrierLabels`: metrics, benchmarks, reports and the numbers of a model.
* `MonitorInbox`: the expressions of rules and their scopes.
* `TodayBrief`: probabilities, names and words; a strategy whose numbers are not finite.

## 8. Plan

In this order: the bounded event queue of the monitor service and the poll cursor; minute bars
of the market event store; the life cycle of models and the holdout; the lane switch and the power guard.
