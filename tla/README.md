# MikoV2 in TLA+

A verification project for the trading bot in this repository: TLA+ modules of
its components, TLC configurations that check them on small instances, and
theorems that TLAPS checks. Paths below are relative to the directory that holds
`src/`, so `src/src/...` is the program, `src/tests/...` its tests and
`src/docs/...` its documents.

## The system

MikoV2 is a Python 3.11 asyncio program for MEXC futures. `src/src/main.py` is a
stub; the only program that wires the parts together is the *shadow runner*
`src/tests/shadow/runner.py`: it keeps order books in step with the exchange,
looks for entry signals, trades them on paper, and reports events through the
alert agent. Other parts (REST gateway, emergency close, order manager,
WebSocket manager, queues) are finished components with unit, integration and
chaos tests that no program wires yet.

### Inventory

| Component | State | Operations | Talks to | Hard behaviour | What makes it correct |
|---|---|---|---|---|---|
| Paper positions (`execution/paper_position_manager.py`, `trading/paper_math.py`) | open positions, candles, last prices, funding times, realized equity; tables `paper_positions`, `paper_position_events` | `on_entry`, `on_ohlcv`, `on_ws_tick`, `on_ticker`, `on_startup`, `finalize` | called by the runner; SQLite | late samples, failing writes, crash between statements, restart | no exit missed, none in the bucket of the entry, memory = table, limit over restarts |
| REST gateway and pacer (`execution/rest_gateway.py`, `pacer.py`) | three levels of semaphores, circuit per symbol, heap of the pacer | `post_market_order`, `acquire`, `release`, `record_429`, `record_success` | emergency close and order manager call it; token bucket | timeouts, cancellation, late answers, half-open tests | permits are balanced, one test per half-open period, a closed circuit is below its threshold |
| Emergency close (`emergency/close.py`, `execution/flush_controller.py`) | tasks by symbol, flush counter, row of `positions` | `emergency_close_with_retry`, `suspend`, `resume` | gateway, SQLite writer | joined tasks, retries, failing database, cancellation | single flight, flush suspended exactly while a close runs, true answers |
| Order book synchronisation (runner, `data_layer/seq.py`, `mexc_ws.py`, `mexc_rest.py`) | book, `synced`, `pending`, `last_u`, subscriptions | `_bootstrap`, `on_depth`, `_gap_recover`, `_apply_rotation` | exchange, universe service | pushes during awaits, gaps, failing REST, rotation | version labels the book, no holes, no deaf subscription |
| Alert agent (`alerting/agent.py`, `event_catalog.py`, `migration.py`) | table `alert_events`, queue, buffer, dedup index, breaker | `emit`, `send_direct`, `_drain_loop`, `start`, `stop` | runner and `utils/events.py` call it; Telegram, Discord | two drainers, retries, breaker, restart | nothing sent twice, nothing forgotten, criticals settle |
| Observation (`observation/`, runner 1105-1326) | row `observation_state`, flags of the runner | stop-flag poll, auto-finalize, markers of start and end | paper positions, alert agent, dashboard | failing reads and writes, kill between marker and finalize, a stop taken back | finalized once, told once, no entry against the flag, a run that did not end stays marked |
| Micro-trigger (`features/micro_trigger.py`, loop in the runner) | state, pauses, quarantine per symbol; recent signals | `evaluate`, `quarantine`, `_determine_direction` | runner | data that stops, deadline, failing evaluation, symbol that leaves and returns | deadline before progress, pauses counted, expiry |
| Universe (`data_layer/metrics_fetcher.py`, `universe_service.py`, `mexc_ws.py`, loops in the runner) | latest ranking, subscriptions, pending windows, flaps, quarantines | scan, `apply_scan`, `_apply_rotation` | exchange, runner | scan during a rotation, failing calls, flapping | subscriptions follow the ranking, quarantine deserved, runner and universe agree |
| WebSocket manager, L2 buffer (`ws_manager/`, `data_layer/l2_buffer.py`, `token_bucket.py`, `seq.py`) | epochs, `synced`, `last_u`, queue, price ladders, tokens | `connect`, `handle_message`, `resync`, `on_snapshot`, `apply_batch`, `trim` | validator, snapshot fetcher | lost messages, snapshots at any moment, reconnect, full ladder | the book is what the changes since the snapshot say, trimming keeps the best |
| Backtest (`backtest/`) | candles, detector, strategy, simulated positions, folds | `replay`, `on_ohlcv`, `on_ticker`, `on_entry`, `finalize`, walk-forward, reports | files | order of equal times, funding, fold boundaries | exits follow candles, signals and drops add up, report follows from the curve |
| Order manager, positions writer (`execution/order_manager.py`, `storage/sqlite_writer.py`, `sealed.py`) | fills by order, table `positions` | `on_fill_event`, `rehydrate`, versioned updates | gateway, SQLite | retries, flips, lock shared with the writer | increments counted once, row opened once |
| Queues (`data_layer/queues/`) | asyncio queue or deque, mp queue | `put`, bridge, `stop`, `drain` | producers, writer process | full queue, stop with an item in hand | DROP_NEVER, DROP_OLDEST |
| Journal, persist (`emergency/journal.py`, `persist.py`) | journal file | `append`, `emergency_persist_state` | SQLite writer | timeout with a late write | recorded at least once |
| Risk (`risk/`) | open risk, funding, whale scores | checks | positions table | stale rows | limit |
| Storage of equity, marks, archives, order books (`storage/`, `data_layer/obi.py`) | caches, files | update, archive | dashboard | - | - |
| Dashboard, config, utils, supervisor | - | views, settings | all | - | - |

`PROJECT.json` lists the same parts with their status, and the hazards of the
code at their lines.

## Modules

| Module | Models |
|---|---|
| `PaperPositions` | the paper position manager with its two tables |
| `PaperAccount` | abstract: what the paper account promises (one live trade per symbol, a limit for all, an ended trade stays so) |
| `PaperPositions_proof` | theorems about `PaperPositions`, that it implements `PaperAccount` among them |
| `RestGateway` | the gateway, its circuit breaker and the pacer's reserve |
| `EmergencyClose` | the emergency closer with the flush controller |
| `BookSync` | one symbol's book in the runner against the exchange |
| `AlertAgent` | the alert agent over `alert_events` |
| `Backtest` | replay, detector, strategy, simulator and walk-forward; it implements `PaperAccount` too |
| `Feed` | one symbol's book in the WebSocket manager with its L2 buffer |
| `Rotation` | ranking, universe service, subscriptions and the two loops of the runner that use them |
| `MicroTrigger` | one symbol's trigger as the runner drives it |
| `Observation` | the observation row between operator and runner, from start to end of a process |
| `Runner_proof` | theorems about the two loops of the runner, `Observation` and `MicroTrigger` |
| `EmergencyClose_proof`, `AlertAgent_proof`, `BookSync_proof`, `RestGateway_proof`, `Rotation_proof`, `Backtest_proof` | theorems about these modules |
| `MC*` | instances for TLC: symmetry sets and constant definitions |

Common ground: every component runs on one asyncio event loop, so **a step is what
a task does between two awaits**; calls that await nothing are one action. Each
action is named for its function or for the outcome of an await. What the
exchange, a channel or the database may answer is chosen nondeterministically
from a set given as a constant. Definitions named `X_Something` next to `X` are
plausible wrong versions of `X`, used to see that a property notices them; the
specifications do not use them.

### PaperPositions

State: `positions`, `active` and `candles` (the candle in progress and the finished
ones), `lastPrice` with the stamp `lastMono`, `fundingRate`, `nextFunding` and
`closedTrades` are fields of the manager; `rows` and `events` are the tables, `now` is
the clock, `phase` the life of the process (up, drained, resumed, down). Handlers
contain no await, so each is one action: `OnWsTick`, `OnTicker`, `OnOhlcv` (candle
building, exits on the completed candle, funding and last price in the order of the
code), `OnEntry` (every reject branch, then row, memory, event), `Finalize`/`Exit`,
`CrashInEntry`, `CrashInClose` and `CrashInFinalize` (death between two statements) and
restart with `on_startup`. `Resume` is the operator taking back the stop after an
auto-finalize: entries go on and the exit will skip finalize (runner, line 1696).
`Faults` says what may happen: `"write"`, `"read"`, `"crash"`, `"resume"`. A process
that starts already finalized by an earlier one is not told apart from one that is
killed before its finalize. Candles are identified by their index; quantity is one unit;
prices and fees are small integers; REJECT events are not kept.

A late one-second sample (comment "out-of-order 1s, drop", line 405) is dropped for
candles but does set the last price and may pay funding; the model does the same.

### RestGateway

A caller's record says which await it is in (`pool`, `ip`, `sym` semaphore, `token`,
`post`, `direct`...). The circuit is `closed`, `open` or `expired` (the open period
is over: half-open), as time is only ever compared with it. `Timeout` follows lines
137-150: all three semaphores are released whatever was taken; `Cancel` is a
cancellation that passes `except Exception`. Both are bounded (`MaxTimeouts`,
`MaxCancels`), since each changes the number of permits for good; the invariant
`PermitsAccounted` says by exactly how much. `silent` marks symbols whose half-open
test ended without a report: the code gives such a test back never, so the symbol
stays refused, and `TestIsUnderWay` states that nothing else can cause this.

### EmergencyClose

A task's `pc` is the await it is in (persisting, posting, posting directly, sleeping,
closing the row) or `done` until its callback runs. Callers wait for a task. The
quantity is the constant 1.0 of the code, so the dust branch is unreachable. Posting is a
stub there too: any answer that is not None is taken for a full fill, as by the code, which
does not look at the filled quantity (`close.py:110-128`), so `ClosedRowIsFlat` and
`TruthfulAnswer` say nothing of partial fills. The row
has its status and the pending flag; that `INSERT OR REPLACE` also erases the other
columns (`sqlite_writer.py:229`) is not in this model.

### BookSync

The exchange counts versions; a push covers a range of versions and is numbered by
the last. The book is the set of versions whose changes it reflects, which is all the
properties need of a ladder. `driver` is the runner's own task and the await it is in;
pushes arrive between its steps. The validator accepts jumps
(`seq.py:109-119`, although its docstring at 89 says "accept only version == last_u +
1"), so a hole can go unnoticed.

### AlertAgent

`row` is the table; `queue`, `buffer`, `batch`, `dedup` the memory; `breaker`, `fails`,
`openOver` the breaker; a row stands for at least one warning, so `MaxCount` is not 0. A
drainer is the drain loop or a caller of `send_direct`
(`utils/events.py:52`); `GoOn` is `_drain_once` from one post to the next. A post that
fails for any reason is an attempt less. `Die` is a kill, or `stop()`: it loses the
memory and leaves what is being sent as `sending` for ever, which the code never
sweeps. `Start(n)` sweeps the pending rows with the n oldest times. `count` is the
number of warnings a row stands for.

### Backtest

The program is sequential, so what varies is the tape: a row is chosen when the
replay first reads it (`tape`) and stays as chosen when the next fold reads it again.
A step is one slot of the merge order `(ts, rank, symbol)`, which `Merged` lists for one
instant; a stream that is silent there is passed by `NoRowHere`. Depth events are merged and
ignored by the runner and have no slot. `OnOhlcv` is the whole of
`MultiSymbolRunner`'s handling of a sample: candles, exits, funding, signals of all
detectors, the strategy's verdict and the entry. `Finalize` and `EndFold` are the end of
a fold and the selection of its trades by `entry_ts_ms >= test_start_ms`. Detector and
simulator build the same candles from the same samples and share one variable. The
reports are functions of the state (`Report`, `EquityCurve`, `LossStreak`), compared with
what they mean in `ReportMatchesCurve`. What the code accumulates in a loop (equity, curve,
drawdown, streak, ATR) is a recursive function over the positions of the loop. The trades
and drops of finished folds are sets (`combined`, `combinedDrops`) in which each carries
its fold and its place in it. `finalize` goes through the symbols in an order that
depends on when their last candles and entries began; `Closings` are all orders that agree
with it.

### Feed

The exchange numbers its changes; a message covers a range of them, and any may be lost.
`Arrives` is what every message needs, and `Queue`, `Resync` and `Apply` are the branches
of `handle_message`. A task waits in the token bucket (`"token"`) or for the REST reply
(`"reply"`). The ladder is a sequence of levels, best first; `Fits` and `Applied` are
`apply_batch` with its trimming. Trimming makes room for the levels a batch adds, but a
batch that names levels which trimming took away fills the array again; then a level for
the last place is written over the worst, and one for a better place raises, because numpy
cannot shift a full array (`Put`, `Overflows`): the rest of the batch is lost. `since` is a
history of the batches applied since the snapshot. What the code does when a fetch fails
(`FetchFailed` sets `synced`) or the epochs of manager and book differ (`Accepts`) is in
the model.

The REST request of `SnapshotFetcher.fetch` is a stub (`snapshot.py:57-60`): it always
answers with no levels. Its key is `lastUpdateId`, while `L2Buffer.on_snapshot` reads
`seq` (`l2_buffer.py:261`), so every snapshot is numbered 0 (`SnapshotSeq`) and
`expected_seq` is always 1. The model does the same: a snapshot is an empty book.
`BookMatchesChanges` therefore relates the book to the changes applied since the snapshot, and
to the exchange's book only where these begin with its first change. Snapshots with levels,
as tests hand them to `L2Buffer` directly, and what a real reply and its number would do,
are not covered. The stub cannot fail (its time limit could be 0); the branch for a fetch
that fails is kept because `fetch`, `fetch_and_apply` and both callers handle it.

### Rotation

A scan replaces the ranking at any moment; `Rotate` is `apply_scan`, one step, and then
`todo` is worked through one call at a time. Each call may fail (`failed`). `flaps` and
`penalty` are the dictionaries of the universe service by symbol. `stay` and `trips` are
histories: since when the top agrees, and when a symbol left it.

The locked decision D=A (`DURUM.md:1086`) wants the unsubscribe of a symbol with an open
position deferred; the code does not do it. So `SubscriptionsFollowTop` says of such a symbol only
that it is not let go before the ranking wants it, and the run `RotationUnwatched` shows
the disagreement. `ListensAsDecided` compares runner, WebSocket and universe with each
other and says nothing about D=A.

The ranking is a relation between symbols (`Precedes`, `Outranks`) and a place is the
number of symbols before one (`FirstOf`), which is what a stable sort by score and the
slices of `scan` amount to. The order among the symbols that are always included is
any fixed one (`Order`; the code sorts their names). `Steps` may not shrink, as
`DEFAULT_QUARANTINE_STEPS_MS` does not (`universe_service.py:62`).

### MicroTrigger

Instants are kept as ages up to a bound above which nothing tells them apart. `EvaluationRound` is
one turn of `_micro_trigger_loop` for the symbol, which happens five seconds or more after
the last (`due`); `Evaluate` follows `MicroTrigger.evaluate`: the deadline first, then
validity, then progress. `Fails` is an exception in a round and the quarantine after it,
which resets the state but not the pause. `lost` is the history the deadline should be
about: how long the setup under way had no valid data.

### Observation

`pc` is where `run()` and its loop are: asleep, telling a transition, checking for the
end, finalizing, telling the completion, entering; then the way out (`leave`, `close`)
or `down`. Reads and writes of the row fail up to `MaxFaults` times; `Kill` may happen
anywhere, `Operator` sets and clears the flag from outside. `said`, `resumed`, `finals`,
`completed`, `unwritten`, `marked` and `left` are histories for the properties.
PaperPositions has the same finalize from the inside; here it is an event.

## Runs

| Run | Instance | Shows |
|---|---|---|
| `PaperExit` | 1 symbol, 5 buckets of 2 s, funding, no faults | exits: none missed, none in the entry's bucket, rows, events and memory agree, nothing open after finalize |
| `PaperFaults` | 2 symbols (symmetric), failing writes, crashes, resume, limit 1, 5 s | memory is backed by the table, open rows are watched, limit over restarts, trades and events as the rows say, `PaperAccount` implemented |
| `Gateway` | 3 callers, 2 symbols, limits 2/1/1, one timeout, one cancellation | permits; half-open tests and the threshold |
| `Emergency` | 2 symbols, 2 callers, 2 tasks, every outcome, database failures, cancellation | single flight with its flush, true answers, every call answered |
| `Book` | 6 versions, 2 messages in flight, 2 commits per answer, failing REST, rotation | version labels, hand-over without holes, no deaf subscription, bootstrap ends |
| `Alert` | 4 alerts, 1 key, 2 drainers, batches of 2, 2 attempts, threshold 2, kills | one sender, nothing forgotten, settled alerts and counts fixed, criticals settle |
| `Backtest` | 2 symbols, limit 1, 15 s, 2 overlapping folds, cooldown 3, funding every 4 s | exits, signals and drops, funding, folds, report, `PaperAccount` |
| `Feed` | 2 tasks, tapes of 3 changes over 4 prices, arrays of 3 levels, 3 connections, 3 snapshots | the book and the changes since the snapshot, trimming |
| `Rotation` | 4 symbols, 4 markets, top 2, flap window 3, quarantines of 4 and 5, clock up to 15 | subscriptions, quarantine, runner and universe |
| `Trigger` | 4 kinds of signals, deadline 3 rounds, data valid for 1, quarantine 2 | pauses counted, no entry past the deadline, setups expire |
| `Observation` | target 2, 4 database failures, any number of processes | finalized once, unclean until left, entries permitted, the loop reacts |

`TypeOK` of a module is a part of one of its invariants (`RecordsMatchRows`,
`PermitsAccounted`, `SingleFlight`, `VersionLabelsBook`, `OneSender`, `SignalsAccounted`,
`BookMatchesChanges`, `ListensAsDecided`, `PauseIsCounted`, `FinalizedOnce`).

One run shows a disagreement between a text of the repository and the code:

| Run | What TLC shows |
|---|---|
| `RotationUnwatched` | "D=A  Açık paper pozisyon varken WS unsubscribe ertelenir" (`src/docs/DURUM.md:1086`, a decision called locked: while a paper position is open, its unsubscribe is deferred): `_apply_rotation` unsubscribes whatever the decision lets go (runner 1069-1073). A symbol with an open position leaves the top, is taken from the WebSocket and from `symbols`, and `on_deal` drops its samples, so no candle can close the position |

**Bounds.** They are chosen so that each interesting case occurs: candles before an
entry (the ATR), of the entry and after it, and funding times (`MaxTime`); more symbols
than the limit of positions; three callers for two permits; more versions than a message
or a commit answer covers; one alert more than a batch, and one more than it takes to
open the breaker; folds that overlap in one instant, and a cooldown longer than the
window of the signals; arrays that a batch overflows; a clock long enough for a second
quarantine after a stable time; a deadline longer than data stays valid, so that a setup
recovers or expires, and a quarantine within it; failures enough to break a start, a poll,
a completion and a marker in one history. Deadlock is checked in `Emergency` only; the
others stop when a bound (clock, versions, alerts, timeouts) is used up.

**Fairness.** `Emergency`: a task that is not blocked runs on, a post ends, a callback
is called (the event loop is fair, posts have timeouts). `Book`: the driver's REST
calls end, so its steps are weakly fair; nothing is assumed of the exchange. `Alert`:
the drain loop wakes at least once a second, a post ends by its 5 s timeout, and the
batch window and open period end; nobody has to call `send_direct`, emit or restart.
`Trigger`: time passes and the loop, which catches what an evaluation raises, goes on;
no signal or push has to come. `Observation`: the loop and the way out go on by
themselves (sleeps and posts end) and time passes; nobody has to start, leave, kill or
operate. The database fails finitely often there: a poll that fails for ever learns
nothing, and the code promises nothing for that case.

## Proofs

`PaperPositions_proof` proves, for every set of symbols, every bound, price set and
combination of faults allowed by the assumption of the module:

- `TypeCorrect`: `Spec => []TypeOK`
- `MemoryIsBacked`: `Spec => []MemoryBackedByDb`
- `OpenRowsWatched`: `Spec => []OpenRowsAreWatched`
- `LimitHolds`: `Spec => []LimitSurvivesRestart`
- `ImplementsAccount`: `Spec => AccountSpec` when `"read"` is not among the faults
- `InductiveInvariant`: `Spec => []IInv`, on which the others rest.

None of the three safety properties is inductive. A new row must not overwrite an old
one (the code says INSERT OR IGNORE), so the key of the present moment must be free:
`PresentRowIsHeld` says that a row of now belongs to the position in memory. That
needs rows to be filed under their own time and never in the future (`RowsKeyed`).
After a restart, rehydration must find one row per symbol, which is the limit itself;
and the limit holds at an entry because the count is taken from memory and memory
knows every open row, which is `OpenRowsAreWatched`. So the three are proved together,
with `DownIsEmpty` (a dead process holds nothing) and `ActiveNotFuture` (candles
carry no time of the future). The proof has one lemma per handler; what the operators
return (rows after a close, positions after a close, rehydrated positions) is stated
as lemmas first. Faults of the kind `"read"` are covered by the proof and by no run.

`AccountSpec` maps a row of `paper_positions` to a trade of `PaperAccount`, which is
over when the row is CLOSED. An accepted entry is `Enter` whether or not the process
dies after the commit (`EntryEnters`; the live trades are counted through an injection
into the positions in memory, `LiveBound`), every close is `End` (`CloseEnds`), and all
other steps leave the table alone.

`Runner_proof` is about the two state machines of the runner. For every length of an
observation and every number of failures:

- `FinalizesOnce`: `Spec => []FinalizedOnce`
- `UncleanStays`: `Spec => []UncleanUntilLeft`
- `EntriesArePermitted`: `Spec => EntryPermitted`
- `InductiveInvariant`: `Spec => []IInv`, on which these rest.

Each needs more than itself. That the end of a process finalizes only once needs to know
that an auto-finalize sets the flag of the process first (`FinalizeFollowsFlag`). That a
completion is told once needs the one about to be told to be counted, and each to be
matched by the row or by a write that failed (`CompletionsTold`). An entry follows
`stopped`, which a failing read leaves alone, so `TradesAsTold` relates it to the flag as
last read and to the row; it rests on `StopHolds`: a written completion keeps the row's flag
set until the operator clears it. The marker changes back only on the way out
(`LeavesMarked`).

It extends `MicroTrigger` too, which shares no name with `Observation` (`TriggerInit`,
`TriggerNext`, `TriggerSpec`). For every set of signals, window, validity, deadline and
quarantine:

- `PausesAreCounted`: `TriggerSpec => []PauseIsCounted`. It is inductive: the pause
  under way is added to `paused` and `lost` alike (`FlushedMono`), and both end together.
- `NoLateEntry`: `TriggerSpec => NoEntryPastDeadline`. An entry is made only by
  `Advance` from `MICRO_CONFIRM` (`TriggerIsConfirmed`), and there `lost <= paused < Deadline`.

The other half of `PaperPositions_proof` is about candles, exits and records. Its
strengthening is `History`, proved on top of `IInv`:

- `HistoryInvariant`: `Spec => []History`
- `ExitsAreNotMissed`: `Spec => []NoMissedExit`
- `ExitsFollowEntries`: `Spec => []ExitAfterEntryBucket`
- `RecordsAreTrue`: `Spec => []RecordsMatchRows`
- `DrainLeavesNothing`: `Spec => []DrainedIsFlat`

At an entry no exit is missed because the candles completed so far are not of the future
(`CandlesArePast`, also that a process starts without candles), so that none lies after the
bucket of the new position. The second half of `DrainedIsFlat`, the complete audit trail,
needs the ENTRY event of rows that are still open (`RowsHaveEvents`); the first needs only
the memory (`DrainedForgets`), since `IInv` relates memory and table. The lemmas follow a
sample through `on_ohlcv`: candle (`AppendCandleHolds`), exits (`SampleCloses`,
`FinalizeDated`), records (`RecordStep`), misses (`MissStep`).

`EmergencyClose_proof`, for every number of symbols, callers, tasks and retries:

- `ClosesOnce`: `Spec => []SingleFlight`
- `ClosedMeansFlat`: `Spec => []ClosedRowIsFlat`
- `AnswersAreTrue`: `Spec => []TruthfulAnswer`
- `InductiveInvariant`: `Spec => []IInv`, on which the others rest.

A task that is live is the one registered for its symbol (`LiveIsRegistered`,
`RegistryNames`), so two of a symbol cannot be; `FlushCounts` counts bodies by the
cardinality of the set of tasks in one; and a result that says closed is earned before it
is written (`ResultEarned`), which makes rows and answers true.

`AlertAgent_proof`, for every number of alerts, keys and drainers, every batch size,
number of attempts and threshold:

- `SendsOnce`: `Spec => []OneSender`
- `MemoryMirrorsTable`: `Spec => []NothingForgotten`
- `SettledStays`: `Spec => SettledIsFixed`
- `InductiveInvariant`: `Spec => []IInv`, on which the others rest.

What is claimed is marked and claimed once (`ClaimsMarked`); the optimistic lock takes
pending rows only, and pending rows belong to nobody. Nothing is forgotten because the
queue holds criticals only (`QueueIsCritical`), the buffer holds each pending warning once (`BufferIsPending`), and cutting a
batch off the buffer claims exactly what it removes (`LifeInMemory`).

`BookSync_proof`, for every number of versions, messages and commits:

- `LabelIsNewest`: `Spec => []VersionLabelsBook`
- `SubscriptionsAgree`: `Spec => []SubscribedIsHeard`
- `NoHoleHandedOver`: `Spec => HandOverWithoutHoles`
- `InductiveInvariant`: `Spec => []IInv`, on which the others rest.

The label is the newest version only if the validator lets nothing older pass, although
its `last_u` may lag behind the book: `NothingOlderPasses` relates `lastU`, `lastApplied` and
every message on the wire, and needs the wire to be ordered (`PushesInOrder`). The hand-over
rests on `BridgeIsSound`: while the commits are awaited the book is complete up to its
label and what remains lies above.

`RestGateway_proof`, for every number of callers and symbols and all limits:

- `PermitsAreBalanced`: `Spec => []PermitsAccounted`
- `CircuitIsSound`: `Spec => []CircuitSound`
- `InductiveInvariant`: `Spec => []IInv`, on which the others rest.

The permits are inductive by themselves (`Balanced`; holders are counted by cardinality).
The circuit is not: that a closed circuit is below the threshold needs an open one to be
exactly at it (`Counted`), and that one test is under way needs to know which caller has
it and how far it is (`TestOf`).

`Rotation_proof`, for every set of symbols, every market, all thresholds and gaps:

- `ListensRight`: `Spec => []ListensAsDecided`
- `RankingDecides`: `Spec => SubscriptionsFollowTop`
- `QuarantineIsDeserved`: `Spec => QuarantineDeserved`
- `InductiveInvariant`: `Spec => []IInv`, on which the others rest.

While a decision is worked through, what is left of it is the difference between WebSocket
and universe (`Agreeing`, `Working`). The other two relate the state of the universe service
to the histories: a symbol is pending exactly since the top disagrees with its
subscription (`Waiting`), the trips counted in a window that is still running have
happened since its start (`TripsCounted`), and the last quarantine was that of the level
before unless it is long over (`PenaltyKnown`). A scan finds symbols that are not excluded,
and the top among the ten, whatever the ranking (`ScanFinds`); each rotation is taken apart
symbol by symbol (`RotateTurns`, `RotateMoves`, `RotateStays`). The bound of the clock,
`MaxTime`, is any number.

`Backtest_proof`, for every tape, number of symbols and folds, and all settings of detector,
strategy and simulator:

- `BacktestTypes`: `Spec => []TypeOK`
- `ExitsAreTaken`: `Spec => []NoMissedExit`
- `SimulatorKeepsTheAccount`: `Spec => AccountSteps`
- `SignalsAreAccounted`: `Spec => []SignalsAccounted`
- `FoldsAreAccounted`: `Spec => []FoldsAccounted`
- `ReportsAreTrue`: `Spec => []ReportMatchesCurve`
- `FundingIsPaid`: `Spec => []FundingFollowsTape`

All rest on `Types`, which adds to the types that a candle and an entry are not of the future
(`CandlesBegun`) and that a held symbol has a price (`HeldPriced`). `NoMissedExit` is inductive on
top of it. The account needs that every entry lies before the slot that is read next and
that what is held is not among the trades (`AccountInv`): so an entry is new, and the two
closings of one `finalize` are of different symbols. For the signals, `Counted` follows a sample through
its answers: at most one is an entry, the others are drops, and a capped list says nothing any
more. A kept trade was entered in the test window of its fold (`InWindow`,
`KeptInWindow`), and two windows share at most an instant; that the gaps hold exactly the
missing seconds is a theorem about finite sets of integers (`QualityAccounts`).

The reports are walks over the trades. `Booked` says that the simulator's equity is the sum of
the trades of the fold; the peak is the greatest point so far, the drawdown bounds each
point below each peak before it (fractions are compared crosswise), and the streak bounds and is
attained by a stretch of losses, each shown along the walk. Induction along a walk is done without the library's
theorems, which take an operator: the set of positions where a claim fails has a
least element, and the one before it gives a contradiction.

Funding relates the state to the tape. `Clocked` says that the rate is that of the last ticker
read, that the next funding time follows the last sample, and that an entry was made at a
sample; `Funded` is the property by symbol. A sample charges the funding times between the
last sample and itself, all at the present rate, which is the rate before the first
sample that reaches each of them; the older charges do not change, as the rows behind
the slot are fixed.

Each strengthening was checked by TLC on the run's instance before it was proved.

Only model-checked: `BookMatchesChanges` and `TrimKeepsBest` of `Feed`, whose ladders are what folds over
sequences of levels compute (`FoldLeft`, `FlattenSeq`; induction over such data is out of the
prover's reach); and all liveness properties
(`EveryCallAnswered`, `BootstrapEnds`, `CriticalSettles`, `SetupExpires`, `LoopReacts`), as are
`ENABLED` and fairness.

## What the code does that no property states

These came up in modelling. No property asks for the opposite: we found no text of the
repository that promises it for the running program, or the state is not in a model. Each
was seen in the source, most of them in a run of TLC.

- Paper: the entry fee of an open position is in no term of `equity()`, although its
  docstring lists it (`paper_position_manager.py:204`). The stamp of the last price is set
  once by `on_ohlcv`, so entries are rejected as stale after an hour of samples only (418).
  A failing read at startup leaves the open rows unwatched (319).
- Gateway: a timeout in `acquire` releases permits it may not have taken, so more calls
  than the limit can be under way for a symbol (`rest_gateway.py:137`); the pacer's heap
  is never emptied (195).
- Emergency: an order is posted even if the pending flag could not be written
  (`close.py:70`; the design asks for a journal, which nothing writes). `INSERT OR REPLACE`
  erases the other columns (`sqlite_writer.py:229`).
- Book: pushes buffered during the await of the commits are dropped by
  `self.pending[symbol] = []`, and the next one is applied over the hole
  (runner 768, `seq.py:109`).
- Alerts: without a pending critical, a half-open breaker stays half-open and warnings
  wait (`agent.py:442`); rows left `sending` by a kill are never swept; the half-open flag
  (181) is never read.
- Backtest: a late candle can put the points of the curve out of order; completeness is
  measured between the first and the last sample only (`data_quality.py:55`); a
  position of the training window still open takes the slot of test entries; a trade
  entered at the instant two test windows share is counted in both
  (`multi_symbol_runner.py:264`; `FoldsAccounted` permits this and nothing else).
- Feed: a snapshot is a stub without levels, and the number it would have is read under
  another key (see above); after a resync the epochs of manager and book differ and every
  batch is refused until a reconnect brings them level (`l2_buffer.py:90`); early messages
  are queued under `seq`, which those with `U` and `u` lack (`manager.py:121`), and the
  queue is never replayed; a failed fetch counts as synchronised (`manager.py:158`); a batch
  that alone fills the array is trimmed for ever (`l2_buffer.py:124`); `set_last_u` is never
  called.
- Rotation: a symbol whose snapshot fails stays subscribed at the exchange and is never
  tried again (runner 1042); one decision may be applied twice from the same scan;
  excluded symbols of the command line are never dropped; after a restart an open
  position is rehydrated, but its symbol is listened to only if the command line has it or
  a rotation takes it up again.
- Micro-trigger: `paused_ms` survives a quarantine, so a fresh setup may expire at its
  first evaluation (`micro_trigger.py:183`); the side is decided from the whole deque, LONG
  first, not from the signals of the setup (runner 324); a setup with valid data never
  expires, as the timeouts of the phases are not used.
- Observation: if the completion cannot be written, the next poll clears the stop of the
  process, which then trades although finalized, and a restart completes again
  (runner 1283); the clean marker is written before the last finalize (1691), so a kill in
  between looks planned; positions opened after the operator takes back the stop of a
  completed observation are not closed at the end (1696).

## Not modelled

`components` in `PROJECT.json` has the reason for each part. In short: the order
manager, the queues, the journal and the risk checks are finished but wired by no
program, and what calls them can only be guessed; clients and storage are I/O; reports
and the dashboard are layout. Also left out everywhere: text of messages, logging, file
formats, HTTP details.

## Plan

1. Order manager and positions writer over the table `positions`: a fill only grows and
   is counted once, with the flip and the rehydration; then the queues against abstract
   DROP_NEVER and DROP_OLDEST queues, and the journal with its late write.
2. `BookSync` and `Feed` against one abstract specification of a synchronised book.
3. `Feed` with its ladder as a function from prices to quantities, and the theorem that
   the book is what the changes since the snapshot say; a snapshot with levels, when
   `fetch` has a real request.
