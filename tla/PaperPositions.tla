--------------------------- MODULE PaperPositions ---------------------------
(***************************************************************************)
(* The paper-trading position manager of MikoV2                            *)
(* (src/src/execution/paper_position_manager.py with the formulas of       *)
(* src/src/trading/paper_math.py).                                         *)
(*                                                                         *)
(* The manager keeps open positions in memory and in the SQLite table      *)
(* paper_positions.  Every handler runs to completion on the event loop:   *)
(* none of them awaits while it changes state (the body of on_entry under  *)
(* _global_lock contains no await), so a handler is one action.  What can  *)
(* come between the lines of a handler is a failing SQLite write and the   *)
(* death of the process; both are modelled.                                *)
(*                                                                         *)
(* Time is counted in units in which two signals of one symbol differ: the *)
(* trigger loop of the runner evaluates a symbol once per round.  A 5s     *)
(* candle is identified by its index t \div CandleSec (the code stores the *)
(* start of the bucket, which orders candles the same way).  Prices and    *)
(* fees are integers, the quantity of a position is one unit.              *)
(***************************************************************************)
EXTENDS Integers, Sequences, FiniteSets, FiniteSetsExt

CONSTANTS
    Symbols,               \* traded symbols
    MaxTime,               \* bound of the clock
    MaxLag,                \* how late a 1s sample may arrive
    CandleSec,             \* _CANDLE_SEC
    AtrPeriod,             \* cfg.atr_period
    CandleCap,             \* maxlen of the deque of candles
    MaxPositionsGlobal,    \* cfg.max_positions_global
    MaxPositionsPerSymbol, \* cfg.max_positions_per_symbol
    StalePrice,            \* cfg.stale_price_ms
    InitialEquity,         \* cfg.initial_equity
    Slippage,              \* what cfg.entry_slippage_bps adds to a price
    SlDistances,           \* values compute_sl_distance can return
    TpRMultiple,           \* cfg.tp_r_multiple
    FeeTaker, FeeMaker,    \* fee of a taker and of a maker fill
    IncludeFunding,        \* cfg.include_funding
    FundingPeriod,         \* distance of two funding timestamps
    FundingRates,          \* values of a ticker's funding rate
    Directions,            \* directions of the entry signals
    TickPrices,            \* prices of WS ticks and of entry signals
    Bars,                  \* [high, low, close] of the 1s samples
    Faults,                \* what may happen: a failing "write" or "read", a
                           \* "crash", a stop that is taken back ("resume")
    None                   \* absent value

Times   == 0 .. MaxTime
Buckets == 0 .. (MaxTime \div CandleSec)

\* _PaperPosition; position_id is <<symbol, ts>>, qty is one unit.
Position == [ts : Times, dir : Directions, entry : Int, sl : Int, tp : Int,
             fee : Int, funding : Int]

\* A row of paper_positions: the position as inserted and its exit columns.
Row == [status : {"OPEN", "CLOSED"}, pos : Position, exitTs : Int,
        reason : {"none", "TP", "SL", "END_OF_BACKTEST"}, net : Int]

\* _Candle5s; open is never read.
Candle == [b : Buckets, high : Int, low : Int, close : Int]

\* PaperTradeResult, as far as it is read again.
Trade == [symbol : Symbols, ts : Times, net : Int]

\* A row of paper_events about a position.  REJECT rows are never read back
\* and are left out.
Event == [symbol : Symbols, ts : Times, type : {"ENTRY", "EXIT"}]

ASSUME ConstantsAssumption ==
    /\ IsFiniteSet(Symbols)
    /\ MaxTime \in Nat /\ MaxLag \in Nat /\ CandleSec \in Nat \ {0}
    /\ AtrPeriod \in Nat \ {0} /\ CandleCap \in Nat /\ CandleCap > AtrPeriod
    /\ MaxPositionsGlobal \in Nat /\ MaxPositionsPerSymbol \in Nat
    /\ StalePrice \in Nat /\ InitialEquity \in Int
    /\ Slippage \in Nat /\ TpRMultiple \in Nat
    /\ FeeTaker \in Int /\ FeeMaker \in Int
    /\ IncludeFunding \in BOOLEAN /\ FundingPeriod \in Nat \ {0}
    /\ Faults \subseteq {"write", "read", "crash", "resume"}

\* The integers that prices, rates and distances are drawn from.
ASSUME DataAssumption ==
    /\ SlDistances \subseteq Nat /\ FundingRates \subseteq Int
    /\ TickPrices \subseteq Int /\ Directions \subseteq {"LONG", "SHORT"}
    /\ \A bar \in Bars : bar.high \in Int /\ bar.low \in Int /\ bar.close \in Int

ASSUME NoneAssumption ==
    /\ None \notin Position /\ None \notin Row /\ None \notin Candle
    /\ None \notin Int

VARIABLES
    phase,        \* "up", "drained" (finalize has run), "resumed" or "down"
    now,          \* the clock, monotonic and wall
    positions,    \* _positions
    active,       \* _active
    candles,      \* _candles
    lastPrice,    \* _last_price
    lastMono,     \* _last_price_mono_ms
    fundingRate,  \* _last_funding_rate
    nextFunding,  \* _next_funding_ms
    closedTrades, \* _closed_trades
    rows,         \* table paper_positions, by symbol and signal_ts_ms
    events        \* table paper_events

feedVars == <<lastPrice, lastMono>>
fundingVars == <<fundingRate, nextFunding>>
dbVars   == <<rows, events>>
memVars  == <<positions, active, candles, lastPrice, lastMono, fundingRate,
              nextFunding, closedTrades>>
vars     == <<phase, now, memVars, dbVars>>

TypeOK ==
    /\ phase \in {"up", "drained", "resumed", "down"}
    /\ now \in Times
    /\ positions \in [Symbols -> Position \cup {None}]
    /\ active \in [Symbols -> Candle \cup {None}]
    /\ candles \in [Symbols -> Seq(Candle)]
    /\ \A s \in Symbols : Len(candles[s]) <= CandleCap
    /\ lastPrice \in [Symbols -> Int \cup {None}]
    /\ lastMono \in [Symbols -> Times \cup {None}]
    /\ fundingRate \in [Symbols -> Int]
    /\ nextFunding \in [Symbols -> Int \cup {None}]
    /\ closedTrades \subseteq Trade
    /\ rows \in [Symbols -> [Times -> Row \cup {None}]]
    /\ events \subseteq Event

-----------------------------------------------------------------------------
(* paper_math.py                                                           *)

Bucket(t) == t \div CandleSec

\* apply_entry_slippage: LONG fills higher, SHORT lower.
EntryFill(price, dir) ==
    IF dir = "LONG" THEN price + Slippage ELSE price - Slippage

SlPrice(entry, dist, dir) ==
    IF dir = "LONG" THEN entry - dist ELSE entry + dist

TpPrice(entry, dist, dir) ==
    IF dir = "LONG" THEN entry + TpRMultiple * dist
                    ELSE entry - TpRMultiple * dist

ExitFee(reason) == IF reason = "TP" THEN FeeMaker ELSE FeeTaker

PnlGross(pos, price) ==
    IF pos.dir = "LONG" THEN price - pos.entry ELSE pos.entry - price

PnlNet(pos, exit) ==
    PnlGross(pos, exit.price) - (pos.fee + ExitFee(exit.reason)) - pos.funding

\* compute_funding_delta: LONG pays a positive rate, SHORT receives it.
FundingDelta(rate, dir) == IF dir = "LONG" THEN rate ELSE -rate

\* next_funding_ts_ms: the first funding timestamp strictly after t.
NextFundingTs(t) == ((t \div FundingPeriod) + 1) * FundingPeriod

Larger(a, b) == IF a > b THEN a ELSE b

Abs(x) == IF x < 0 THEN -x ELSE x

TrueRange(cur, prev) ==
    Larger(cur.high - cur.low,
           Larger(Abs(cur.high - prev.close), Abs(cur.low - prev.close)))

\* compute_atr(...) is not None and is positive.
AtrReady(cs) ==
    /\ Len(cs) >= AtrPeriod + 1
    /\ \E i \in (Len(cs) - AtrPeriod + 1) .. Len(cs) :
            TrueRange(cs[i], cs[i - 1]) > 0

-----------------------------------------------------------------------------
(* Equity                                                                  *)

\* _realized_equity: every closed trade of this process adds its net result.
\* It starts again at initial_equity in every process.
RealizedEquity == InitialEquity + MapThenSumSet(LAMBDA tr : tr.net, closedTrades)

\* The property equity: marked to market, without exit fee and entry fee.
OpenSymbols == {s \in Symbols : positions[s] # None}

UnrealizedPnl(s) == PnlGross(positions[s], lastPrice[s]) - positions[s].funding

Equity ==
    RealizedEquity
      + MapThenSumSet(UnrealizedPnl,
                      {s \in OpenSymbols : lastPrice[s] # None})

-----------------------------------------------------------------------------
Init ==
    /\ phase = "up"
    /\ now = 0
    /\ positions = [s \in Symbols |-> None]
    /\ active = [s \in Symbols |-> None]
    /\ candles = [s \in Symbols |-> <<>>]
    /\ lastPrice = [s \in Symbols |-> None]
    /\ lastMono = [s \in Symbols |-> None]
    /\ fundingRate = [s \in Symbols |-> 0]
    /\ nextFunding = [s \in Symbols |-> None]
    /\ closedTrades = {}
    /\ rows = [s \in Symbols |-> [t \in Times |-> None]]
    /\ events = {}

Running == phase # "down"

\* The runner passes entry signals on (_observation_stopped is not set).
TakesEntries == phase \in {"up", "resumed"}

Tick ==
    /\ now < MaxTime
    /\ now' = now + 1
    /\ UNCHANGED <<phase, memVars, dbVars>>

OnWsTick(s, price) ==
    /\ Running
    /\ price > 0
    /\ lastPrice' = [lastPrice EXCEPT ![s] = price]
    /\ lastMono' = [lastMono EXCEPT ![s] = now]
    /\ UNCHANGED <<phase, now, positions, active, candles, fundingVars,
                   closedTrades, dbVars>>

OnTicker(s, rate) ==
    /\ Running
    /\ fundingRate' = [fundingRate EXCEPT ![s] = rate]
    /\ UNCHANGED <<phase, now, positions, active, candles, feedVars,
                   nextFunding, closedTrades, dbVars>>

-----------------------------------------------------------------------------
(* Exits                                                                   *)

\* Deviation: the entry bucket itself is examined (< for <=).
ExitOnCandle_EntryBucket(pos, c) ==
    LET hitSl == IF pos.dir = "LONG" THEN c.low <= pos.sl ELSE c.high >= pos.sl
        hitTp == IF pos.dir = "LONG" THEN c.high >= pos.tp ELSE c.low <= pos.tp
    IN  IF c.b < Bucket(pos.ts) THEN None
        ELSE IF hitSl THEN [price |-> pos.sl, reason |-> "SL"]
        ELSE IF hitTp THEN [price |-> pos.tp, reason |-> "TP"]
        ELSE None

\* _check_exits_on_candle: the exit the candle c asks for, if any.  The
\* entry bucket is skipped, and the stop is looked at first.
ExitOnCandle(pos, c) ==
    LET hitSl == IF pos.dir = "LONG" THEN c.low <= pos.sl ELSE c.high >= pos.sl
        hitTp == IF pos.dir = "LONG" THEN c.high >= pos.tp ELSE c.low <= pos.tp
    IN  IF c.b <= Bucket(pos.ts) THEN None
        ELSE IF hitSl THEN [price |-> pos.sl, reason |-> "SL"]
        ELSE IF hitTp THEN [price |-> pos.tp, reason |-> "TP"]
        ELSE None

\* Deviation: targets are not looked at.
CandleExit_StopOnly(s) ==
    IF positions[s] = None \/ active[s] = None THEN None
    ELSE LET exit == ExitOnCandle(positions[s], active[s])
         IN  IF exit # None /\ exit.reason = "TP" THEN None ELSE exit

\* The exit that finalising the active candle of s asks for.
CandleExit(s) ==
    IF positions[s] = None \/ active[s] = None THEN None
    ELSE ExitOnCandle(positions[s], active[s])

\* The exits of all active candles, dated by the start of the candle.
CandleExits == [s \in Symbols |-> CandleExit(s)]

CandleTimes ==
    [s \in Symbols |-> IF active[s] = None THEN now ELSE active[s].b * CandleSec]

\* Deviation: an END_OF_BACKTEST exit is not written to the table.
CloseRow_SkipEnd(row, pos, ts, exit) ==
    IF row # None /\ row.status = "OPEN" /\ exit.reason # "END_OF_BACKTEST"
    THEN [row EXCEPT !.status = "CLOSED", !.exitTs = ts, !.reason = exit.reason,
                     !.net = PnlNet(pos, exit)]
    ELSE row

\* _write_position_close: UPDATE ... WHERE position_id = ? AND status = 'OPEN'.
CloseRow(row, pos, ts, exit) ==
    IF row # None /\ row.status = "OPEN"
    THEN [row EXCEPT !.status = "CLOSED", !.exitTs = ts, !.reason = exit.reason,
                     !.net = PnlNet(pos, exit)]
    ELSE row

\* Sets of symbols whose write may fail out of those that are written.
Failing(S) == IF "write" \in Faults THEN SUBSET S ELSE {{}}

\* Deviation: memory is updated without the UPDATE of the table.
RowsAfterClose_NoWrite(done, ts, exits) == rows

\* Deviation: the position stays in memory after its row is closed.
PositionsAfterClose_Keep(done) == positions

\* _close_position for every symbol of done, whose write has succeeded:
\* exits[s] is the exit taken at ts[s].  The EXIT events of lost are not
\* written.
RowsAfterClose(done, ts, exits) ==
    [s \in Symbols |->
        IF s \in done
        THEN [rows[s] EXCEPT
                ![positions[s].ts] = CloseRow(@, positions[s], ts[s], exits[s])]
        ELSE rows[s]]

PositionsAfterClose(done) ==
    [s \in Symbols |-> IF s \in done THEN None ELSE positions[s]]

RecordClose(done, ts, exits, lost) ==
    /\ rows' = RowsAfterClose(done, ts, exits)
    /\ closedTrades' = closedTrades \cup
          {[symbol |-> s, ts |-> positions[s].ts,
            net |-> PnlNet(positions[s], exits[s])] : s \in done}
    /\ events' = events \cup
          {[symbol |-> s, ts |-> positions[s].ts, type |-> "EXIT"] :
              s \in done \ lost}

-----------------------------------------------------------------------------
(* 1s samples                                                              *)

NewCandle(t, bar) ==
    [b |-> Bucket(t), high |-> bar.high, low |-> bar.low, close |-> bar.close]

MergeCandle(c, bar) ==
    [c EXCEPT !.high = Larger(@, bar.high),
              !.low = IF bar.low < @ THEN bar.low ELSE @,
              !.close = bar.close]

\* The active candle after a sample: opened, replaced, merged or, for a
\* sample of an earlier bucket, unchanged.
ActiveAfter(c, t, bar) ==
    IF c = None THEN NewCandle(t, bar)
    ELSE IF Bucket(t) > c.b THEN NewCandle(t, bar)
    ELSE IF Bucket(t) = c.b THEN MergeCandle(c, bar)
    ELSE c

\* deque(maxlen = CandleCap).append
AppendCandle(cs, c) ==
    LET full == Append(cs, c)
    IN  IF Len(full) > CandleCap THEN Tail(full) ELSE full

\* How many funding timestamps a sample at t has reached.
FundingsDue(s, t) ==
    IF nextFunding[s] = None \/ t < nextFunding[s] THEN 0
    ELSE (NextFundingTs(t) - nextFunding[s]) \div FundingPeriod

FundingAfter(s, t) ==
    IF nextFunding[s] = None \/ t >= nextFunding[s] THEN NextFundingTs(t)
    ELSE nextFunding[s]

\* _apply_funding, n times.
PayFunding(pos, rate, n) ==
    IF pos = None \/ ~IncludeFunding THEN pos
    ELSE [pos EXCEPT !.funding = @ + n * FundingDelta(rate, pos.dir)]

\* The price kept after a sample: overwritten whichever branch was taken.
PriceAfter(s, t, bar) == bar.close

\* A sample of a newer bucket completes the active candle, and with it the
\* exit that candle asks for.
Completes(s, t) == active[s] # None /\ Bucket(t) > active[s].b

ExitingOnSample(s, t) ==
    {x \in {s} : Completes(s, t) /\ CandleExit(s) # None}

\* on_ohlcv: candle, exit check, funding, last price.
OnOhlcv(s, t, bar) ==
    /\ Running
    /\ t <= now /\ now - t <= MaxLag
    /\ bar.close > 0
    /\ \E failed \in Failing(ExitingOnSample(s, t)) :
          LET done == ExitingOnSample(s, t) \ failed
          IN  /\ \E lost \in Failing(done) :
                    RecordClose(done, CandleTimes, CandleExits, lost)
              /\ positions' = [PositionsAfterClose(done) EXCEPT
                    ![s] = PayFunding(@, fundingRate[s], FundingsDue(s, t))]
    /\ active' = [active EXCEPT ![s] = ActiveAfter(@, t, bar)]
    /\ candles' = [candles EXCEPT
          ![s] = IF Completes(s, t) THEN AppendCandle(@, active[s]) ELSE @]
    /\ nextFunding' = [nextFunding EXCEPT ![s] = FundingAfter(s, t)]
    /\ lastPrice' = [lastPrice EXCEPT ![s] = PriceAfter(s, t, bar)]
    /\ lastMono' = [lastMono EXCEPT ![s] = IF @ = None THEN now ELSE @]
    /\ UNCHANGED <<phase, now, fundingRate>>

-----------------------------------------------------------------------------
(* Entries                                                                 *)

OpenCount == Cardinality(OpenSymbols)

\* The checks of on_entry, in the order of the code.  A rejected signal
\* changes no state that is read again.
EntryVerdict(s, dir, price, dist) ==
    IF lastMono[s] = None THEN "stale_price"
    ELSE IF now - lastMono[s] > StalePrice THEN "stale_price"
    ELSE IF price <= 0 THEN "invalid_price"
    ELSE IF positions[s] # None THEN "per_symbol_max_position"
    ELSE IF OpenCount >= MaxPositionsGlobal THEN "global_limit_full"
    ELSE IF MaxPositionsPerSymbol < 1 THEN "per_symbol_max_position"
    ELSE IF ~AtrReady(candles[s]) THEN "atr_not_ready"
    ELSE IF EntryFill(price, dir) <= 0 THEN "invalid_price"
    ELSE IF dist <= 0 THEN "invalid_sl_distance"
    ELSE IF Equity <= 0 THEN "invalid_qty"
    ELSE "ok"

NewPosition(dir, price, dist) ==
    LET fill == EntryFill(price, dir)
    IN  [ts |-> now, dir |-> dir, entry |-> fill,
         sl |-> SlPrice(fill, dist, dir), tp |-> TpPrice(fill, dist, dir),
         fee |-> FeeTaker, funding |-> 0]

\* _write_position_open: INSERT OR IGNORE, keyed by symbol and signal_ts_ms.
InsertRow(s, pos) ==
    [rows EXCEPT ![s][pos.ts] =
        IF @ = None THEN [status |-> "OPEN", pos |-> pos, exitTs |-> -1,
                          reason |-> "none", net |-> 0]
        ELSE @]

\* on_entry, accepted: commit, then memory, then the ENTRY event (which the
\* database may refuse).  A failed INSERT leaves everything as it was.
OnEntry(s, dir, price, dist) ==
    LET pos == NewPosition(dir, price, dist)
    IN  /\ TakesEntries
        /\ EntryVerdict(s, dir, price, dist) = "ok"
        /\ rows' = InsertRow(s, pos)
        /\ positions' = [positions EXCEPT ![s] = pos]
        /\ \E lost \in Failing({s}) :
              events' = events \cup
                 {[symbol |-> x, ts |-> now, type |-> "ENTRY"] : x \in {s} \ lost}
        /\ UNCHANGED <<phase, now, active, candles, feedVars, fundingVars,
                       closedTrades>>

-----------------------------------------------------------------------------
(* finalize, process death and startup                                     *)

\* finalize: every active candle is closed with its exit check, then every
\* position still open is closed at the price given by the caller, else the
\* last price, else the entry price.  The runner calls it once in a process,
\* with entries switched off or the process about to end.
FinalPrice(s, price) ==
    IF price > 0 THEN price
    ELSE IF lastPrice[s] # None THEN lastPrice[s]
    ELSE positions[s].entry

\* The open symbols whose active candle asks for an exit.
StoppedByCandle == {s \in OpenSymbols : CandleExit(s) # None}

FinalizeExits(byCandle, prices) ==
    [s \in Symbols |->
        IF s \in byCandle THEN CandleExit(s)
        ELSE IF s \in OpenSymbols
             THEN [price |-> FinalPrice(s, prices[s]), reason |-> "END_OF_BACKTEST"]
             ELSE None]

FinalizeTs(byCandle) ==
    [s \in Symbols |-> IF s \in byCandle THEN CandleTimes[s] ELSE now]

\* A candle exit whose write fails is tried again as END_OF_BACKTEST.
Finalize(prices) ==
    /\ phase = "up"
    /\ phase' = "drained"
    /\ \E failed \in Failing(StoppedByCandle) :
          LET byCandle == StoppedByCandle \ failed
          IN  \E failedEnd \in Failing(OpenSymbols \ byCandle) :
                 LET done == OpenSymbols \ failedEnd
                 IN  /\ \E lost \in Failing(done) :
                           RecordClose(done, FinalizeTs(byCandle),
                                       FinalizeExits(byCandle, prices), lost)
                     /\ positions' = PositionsAfterClose(done)
    /\ candles' = [s \in Symbols |->
          IF active[s] = None THEN candles[s] ELSE AppendCandle(candles[s], active[s])]
    /\ active' = [s \in Symbols |-> None]
    /\ UNCHANGED <<now, feedVars, fundingVars>>

\* What the memory of the manager holds before on_startup.
MemoryLost ==
    /\ phase' = "down"
    /\ positions' = [s \in Symbols |-> None]
    /\ active' = [s \in Symbols |-> None]
    /\ candles' = [s \in Symbols |-> <<>>]
    /\ lastPrice' = [s \in Symbols |-> None]
    /\ lastMono' = [s \in Symbols |-> None]
    /\ fundingRate' = [s \in Symbols |-> 0]
    /\ nextFunding' = [s \in Symbols |-> None]
    /\ closedTrades' = {}

\* After an auto-finalize the operator takes back the stop flag: a later
\* poll of the runner sees it and entries go on.  The runner will not call
\* finalize a second time.
Resume ==
    /\ "resume" \in Faults
    /\ phase = "drained"
    /\ now < MaxTime
    /\ now' = now + 1
    /\ phase' = "resumed"
    /\ UNCHANGED <<memVars, dbVars>>

\* The process ends, orderly after its finalize or by a crash between handlers.
Exit ==
    /\ phase \in {"drained", "resumed"} \/ (phase = "up" /\ "crash" \in Faults)
    /\ MemoryLost
    /\ UNCHANGED <<now, dbVars>>

\* The process dies in on_entry after the commit of the INSERT.
CrashInEntry(s, dir, price, dist) ==
    /\ "crash" \in Faults
    /\ TakesEntries
    /\ EntryVerdict(s, dir, price, dist) = "ok"
    /\ rows' = InsertRow(s, NewPosition(dir, price, dist))
    /\ MemoryLost
    /\ UNCHANGED <<now, events>>

\* The process dies in _close_position after the commit of the UPDATE that
\* a sample of a newer bucket has led to.
CrashInClose(s) ==
    /\ "crash" \in Faults
    /\ Running
    /\ CandleExit(s) # None
    /\ active[s].b < Bucket(now)
    /\ rows' = RowsAfterClose({s}, CandleTimes, CandleExits)
    /\ MemoryLost
    /\ UNCHANGED <<now, events>>

\* The process dies in finalize after some of its commits: candle exits come
\* before the END_OF_BACKTEST exits.
CrashInFinalize(prices) ==
    /\ "crash" \in Faults
    /\ phase = "up"
    /\ \E done \in SUBSET OpenSymbols :
          /\ done \subseteq StoppedByCandle \/ StoppedByCandle \subseteq done
          /\ rows' = RowsAfterClose(done, FinalizeTs(StoppedByCandle),
                                    FinalizeExits(StoppedByCandle, prices))
    /\ MemoryLost
    /\ UNCHANGED <<now, events>>

\* on_startup: the last row read wins when a symbol has several OPEN rows.
OpenRows(s) == {t \in Times : rows[s][t] # None /\ rows[s][t].status = "OPEN"}

\* Deviation: startup does not rehydrate.
Rehydrated_Nothing(s) == None

Rehydrated(s) ==
    IF OpenRows(s) = {} THEN None
    ELSE LET t == CHOOSE x \in OpenRows(s) : \A y \in OpenRows(s) : y <= x
         IN  rows[s][t].pos

\* on_startup; a failing SELECT leaves the manager without positions.
OnStartup(t) ==
    /\ phase = "down"
    /\ t > now
    /\ now' = t
    /\ phase' = "up"
    /\ \/ positions' = [s \in Symbols |-> Rehydrated(s)]
       \/ "read" \in Faults /\ positions' = positions
    /\ UNCHANGED <<active, candles, feedVars, fundingVars, closedTrades, dbVars>>

-----------------------------------------------------------------------------
Next ==
    \/ Tick
    \/ \E s \in Symbols, price \in TickPrices : OnWsTick(s, price)
    \/ \E s \in Symbols, rate \in FundingRates : OnTicker(s, rate)
    \/ \E s \in Symbols, t \in Times, bar \in Bars : OnOhlcv(s, t, bar)
    \/ \E s \in Symbols, dir \in Directions, price \in TickPrices,
          dist \in SlDistances :
            OnEntry(s, dir, price, dist) \/ CrashInEntry(s, dir, price, dist)
    \/ \E prices \in [Symbols -> TickPrices] :
            Finalize(prices) \/ CrashInFinalize(prices)
    \/ Resume
    \/ Exit
    \/ \E s \in Symbols : CrashInClose(s)
    \/ \E t \in Times : OnStartup(t)

Spec == Init /\ [][Next]_vars

-----------------------------------------------------------------------------
(* Properties                                                              *)

\* D.1 (commit, then memory): a position in memory is backed by an OPEN row
\* of paper_positions with the same entry, stop and target, whatever writes
\* and reads have failed and wherever the process has died.
MemoryBackedByDb ==
    \A s \in OpenSymbols :
        LET row == rows[s][positions[s].ts]
        IN  /\ row # None
            /\ row.status = "OPEN"
            /\ \A f \in {"ts", "dir", "entry", "sl", "tp", "fee"} :
                    row.pos[f] = positions[s][f]

\* D.6: as long as on_startup can read, a running manager knows every OPEN
\* row, so no position is left in the table without anyone watching its stop.
OpenRowsAreWatched ==
    ("read" \notin Faults /\ phase # "down") =>
        \A s \in Symbols : \A t \in OpenRows(s) :
            positions[s] # None /\ positions[s].ts = t

\* cfg.max_positions_global and one position per symbol hold for the table,
\* through crashes at every commit and restarts, not only for one process.
LimitSurvivesRestart ==
    "read" \notin Faults =>
        /\ \A s \in Symbols : \A t, u \in OpenRows(s) : t = u
        /\ Cardinality({s \in Symbols : OpenRows(s) # {}}) <= MaxPositionsGlobal

\* While writes succeed no position stays open past a completed candle that
\* touched its stop or target after the bucket of its entry.
NoMissedExit ==
    "write" \notin Faults =>
        \A s \in OpenSymbols : \A i \in DOMAIN candles[s] :
            ExitOnCandle(positions[s], candles[s][i]) = None

\* No look-ahead: a stop or target exit is dated by a candle that lies after
\* the bucket of the entry, and not after the present.
ExitAfterEntryBucket ==
    \A s \in Symbols : \A t \in Times :
        LET row == rows[s][t]
        IN  (row # None /\ row.status = "CLOSED" /\ row.reason \in {"SL", "TP"}) =>
                Bucket(row.exitTs) > Bucket(t) /\ row.exitTs <= now

\* Records and table tell the same: every trade counted in the realized equity
\* of the process is the result its row was closed with, and the audit trail
\* never runs ahead of the table, where an ENTRY event has its row and an EXIT
\* event a CLOSED one.  Failing writes and crashes are included; every state is
\* of its type.
RecordsMatchRows ==
    /\ TypeOK
    /\ \A tr \in closedTrades :
          LET row == rows[tr.symbol][tr.ts]
          IN  row # None /\ row.status = "CLOSED" /\ row.net = tr.net
    /\ \A e \in events :
          /\ rows[e.symbol][e.ts] # None
          /\ e.type = "EXIT" => rows[e.symbol][e.ts].status = "CLOSED"

\* N4: once finalize has run with working writes nothing is open, neither in
\* memory nor in the table, and without any fault the audit trail is complete:
\* a CLOSED row has both its events.
DrainedIsFlat ==
    /\ (phase = "drained" /\ Faults \cap {"write", "read"} = {}) =>
          \A s \in Symbols : positions[s] = None /\ OpenRows(s) = {}
    /\ Faults = {} =>
          \A s \in Symbols : \A t \in Times :
              (rows[s][t] # None /\ rows[s][t].status = "CLOSED") =>
                  \A k \in {"ENTRY", "EXIT"} :
                      [symbol |-> s, ts |-> t, type |-> k] \in events

\* The paper account that the table records: a trade is entered by its row
\* and over when the row is CLOSED.
EnteredRows == {x \in Symbols \X Times : rows[x[1]][x[2]] # None}

ClosedRows == {x \in EnteredRows : rows[x[1]][x[2]].status = "CLOSED"}

Account == INSTANCE PaperAccount
    WITH entered <- EnteredRows, over <- ClosedRows, Limit <- MaxPositionsGlobal

\* As long as on_startup can read, failing writes, crashes and restarts
\* included, the manager keeps the promises of PaperAccount.
AccountSpec == Account!Spec

-----------------------------------------------------------------------------
(* What the properties rest on: the strengthening that makes them          *)
(* inductive.                                                              *)

\* A row is filed under its signal time, which is never in the future.
RowsKeyed ==
    \A s \in Symbols : \A t \in Times :
        rows[s][t] # None => t <= now /\ rows[s][t].pos.ts = t

\* No candle of the future is being built.
ActiveNotFuture ==
    \A s \in Symbols : active[s] # None => active[s].b <= Bucket(now)

\* While entries are taken, a row of the present moment belongs to the
\* position in memory: the key of the next INSERT OR IGNORE is free.
PresentRowIsHeld ==
    TakesEntries =>
        \A s \in Symbols :
            rows[s][now] # None => positions[s] # None /\ positions[s].ts = now

DownIsEmpty == phase = "down" => OpenSymbols = {}

IInv ==
    /\ TypeOK
    /\ RowsKeyed
    /\ ActiveNotFuture
    /\ PresentRowIsHeld
    /\ DownIsEmpty
    /\ MemoryBackedByDb
    /\ OpenRowsAreWatched
    /\ LimitSurvivesRestart

=============================================================================
