------------------------------ MODULE Backtest ------------------------------
(***************************************************************************)
(* The walk-forward backtest of MikoV2 (src/src/backtest): the replay of   *)
(* recorded rows in merge order, the 5s candles, the signal detector, the  *)
(* strategy, the position simulator and the runner that repeats all of it  *)
(* for every fold and collects the trades of the test windows.             *)
(*                                                                         *)
(* The program is sequential; what varies is the tape.  A row of the tape  *)
(* is chosen when the replay first reaches it and is the same when a later *)
(* fold reads it again.  One step consumes one slot of the merge order,    *)
(* which is (time, kind, symbol) with OHLCV before tickers; depth events   *)
(* are merged between them and ignored by the runner, so they have no      *)
(* slot.  Time is counted in seconds.  A quantity is one unit.             *)
(*                                                                         *)
(* The simulator and the detector build the same candles from the same     *)
(* samples; they are one variable here.                                    *)
(***************************************************************************)
EXTENDS Integers, Sequences, FiniteSets, FiniteSetsExt, SequencesExt, Functions

CONSTANTS
    SymbolOrder,          \* the symbols, sorted
    TsTo,                 \* the rows are in 0 .. TsTo
    Rows,                 \* rows a stream may have at a time, NoRow included
    NoRow,                \* the stream has no row at that time
    Unread,               \* the replay has not been there yet
    TrainLen, TestLen, StepLen, \* WalkForwardConfig
    CandleSec,            \* _CANDLE_SEC
    CandleCap,            \* candles kept
    AtrPeriod, MaxSlPct, MinSlPct, TpRMultiple, Slippage, InitialEquity,
    FeeTaker, FeeMaker, IncludeFunding, FundingPeriod,
    MaxPositionsPerSymbol, MaxPositionsGlobal, \* PositionSimConfig
    SweepLookback, WickPct, MssLookback, FvgMinBp, OteLookback, OteLow, OteHigh,
                          \* DetectorConfig
    Required,             \* the require_* flags that are set
    EntryWindow, Cooldown, MinWhaleTrust, \* StrategyConfig
    DropCap,              \* _DROP_HARD_CAP
    None

Symbols == ToSet(SymbolOrder)
N       == Len(SymbolOrder)
Times   == 0 .. TsTo

\* Two streams of a symbol, in the order stream_multi merges equal times.
Streams  == {"ohlcv", "ticker"} \X Symbols
Merged   == [i \in 1 .. 2 * N |-> IF i <= N THEN <<"ohlcv", SymbolOrder[i]>>
                                  ELSE <<"ticker", SymbolOrder[i - N]>>]

Bar      == [open : Int, high : Int, low : Int, close : Int]

\* A row is a bar or a funding rate; a stream may be silent.
ASSUME RowsAssumption ==
    \A s \in Symbols, t \in Times :
        /\ Rows[<<"ohlcv", s>>][t] \subseteq Bar \cup {NoRow}
        /\ Rows[<<"ticker", s>>][t] \subseteq Int \cup {NoRow}
        /\ Unread \notin Rows[<<"ohlcv", s>>][t]
        /\ Unread \notin Rows[<<"ticker", s>>][t]

Dirs    == {"LONG", "SHORT"}
Kinds   == {"SWEEP_UP", "SWEEP_DOWN", "MSS_UP", "MSS_DOWN", "FVG_BULLISH",
            "FVG_BEARISH", "OTE_LONG", "OTE_SHORT"}
Candle  == [b : Nat, open : Int, high : Int, low : Int, close : Int]
Position == [ts : Times, dir : Dirs, entry : Int, sl : Int, tp : Int, funding : Int]
Exit    == [reason : {"TP", "SL"}, price : Int]
Trade   == [symbol : Symbols, entryTs : Times, exitTs : Times,
            reason : {"TP", "SL", "END_OF_BACKTEST"}, funding : Int, net : Int]
Drop    == [reason : {"cooldown_active", "per_symbol_max_position",
                      "global_limit_full", "sim_rejected_other"},
            symbol : Symbols, ts : Times]
FoldTrade == [fold : Nat, nth : Nat, trade : Trade]
FoldDrop  == [fold : Nat, nth : Nat, drop : Drop]

ASSUME ConstantsAssumption ==
    /\ SymbolOrder \in Seq(Symbols) /\ N > 0
    /\ \A i, j \in 1 .. N : SymbolOrder[i] = SymbolOrder[j] => i = j
    /\ TsTo \in Nat /\ TrainLen \in Nat /\ TestLen \in Nat \ {0}
    /\ StepLen \in Nat \ {0} /\ TrainLen + TestLen <= TsTo
    /\ CandleSec \in Nat \ {0} /\ AtrPeriod \in Nat \ {0}
    /\ CandleCap \in Nat /\ CandleCap > AtrPeriod
    /\ FundingPeriod \in Nat \ {0} /\ IncludeFunding \in BOOLEAN
    /\ MaxPositionsGlobal \in Nat /\ MaxPositionsPerSymbol \in Nat
    /\ Required \subseteq {"sweep", "mss", "fvg", "ote"}
    /\ Cooldown \in Nat /\ EntryWindow \in Nat /\ DropCap \in Nat
    /\ {MaxSlPct, MinSlPct, TpRMultiple, Slippage, InitialEquity, FeeTaker,
        FeeMaker} \subseteq Int
    /\ None \notin Candle /\ None \notin Position /\ None \notin Exit /\ None \notin Int

VARIABLES
    fold,        \* the fold being run
    finalized,   \* sim.finalize of this fold has run
    at,          \* the next slot of the merge order, [t, i]
    tape,        \* rows read so far, by stream and time
    active,      \* _active: the unfinished candle of a symbol
    candles,     \* _candles: its finished candles
    positions,   \* _positions
    lastPrice,   \* _last_price
    rate,        \* _last_funding_rate
    nextFunding, \* _next_funding_ms
    realized,    \* _realized_equity
    trades,      \* _trades
    recent,      \* Strategy._recent, as far as it is in the window
    lastEntry,   \* Strategy._last_entry_ms
    entryCount,  \* Strategy._entries of all symbols, counted
    blocked,     \* _cooldown_state
    dropped,     \* _dropped
    combined,    \* combined_trades of the finished folds
    combinedDrops \* combined_dropped

simVars   == <<active, candles, positions, lastPrice, rate, nextFunding,
               realized, trades>>
stratVars == <<recent, lastEntry, entryCount, blocked, dropped>>
vars      == <<fold, finalized, at, tape, simVars, stratVars, combined, combinedDrops>>

-----------------------------------------------------------------------------
(* Folds of the walk-forward (WalkForwardRunner._generate_folds)           *)

TestStart(k) == k * StepLen + TrainLen
TestEnd(k)   == TestStart(k) + TestLen
Folds        == {k \in 0 .. TsTo : TestEnd(k) <= TsTo}
Finished     == fold \notin Folds

-----------------------------------------------------------------------------
(* Candles and signals (signal_detector.py)                                *)

Bucket(t) == t \div CandleSec

Extend(c, bar) == [b |-> c.b, open |-> c.open, high |-> Max({c.high, bar.high}),
                   low |-> Min({c.low, bar.low}), close |-> bar.close]

Open(t, bar) == [b |-> Bucket(t), open |-> bar.open, high |-> bar.high,
                 low |-> bar.low, close |-> bar.close]

Completes(s, t) == active[s] # None /\ Bucket(t) > active[s].b

\* _finalize_active: the history keeps the last CandleCap candles.
Closed(s) ==
    LET all == Append(candles[s], active[s])
    IN  IF Len(all) > CandleCap THEN Tail(all) ELSE all

CandlesAfter(s, t) == IF Completes(s, t) THEN Closed(s) ELSE candles[s]

ActiveAfter(s, t, bar) ==
    IF active[s] = None \/ Completes(s, t) THEN Open(t, bar)
    ELSE IF Bucket(t) = active[s].b THEN Extend(active[s], bar)
    ELSE active[s]

\* The n candles before the last one; <<>> while there are not enough.
Before(cs, n) ==
    IF Len(cs) < n + 1 THEN <<>> ELSE SubSeq(cs, Len(cs) - n, Len(cs) - 1)

Highest(cs) == Max({cs[i].high : i \in DOMAIN cs})
Lowest(cs)  == Min({cs[i].low : i \in DOMAIN cs})

\* A wick through the extreme of the window that closes back inside it.
Sweeps(cs) ==
    LET w == Before(cs, SweepLookback)
        c == Last(cs)
        range == c.high - c.low
        wickUp == c.high - Max({c.open, c.close})
        wickDown == Min({c.open, c.close}) - c.low
    IN  IF w = <<>> \/ range <= 0 THEN {}
        ELSE {k \in {"SWEEP_UP", "SWEEP_DOWN"} :
                IF k = "SWEEP_UP"
                THEN /\ c.high > Highest(w) /\ c.close < Highest(w)
                     /\ 100 * wickUp >= WickPct * range
                ELSE /\ c.low < Lowest(w) /\ c.close > Lowest(w)
                     /\ 100 * wickDown >= WickPct * range}

\* The close crosses the middle of the window.
Shifts(cs) ==
    LET w == Before(cs, MssLookback)
        twiceMid == Highest(w) + Lowest(w)
        prev == 2 * cs[Len(cs) - 1].close
        this == 2 * Last(cs).close
    IN  IF w = <<>> THEN {}
        ELSE {k \in {"MSS_UP", "MSS_DOWN"} :
                IF k = "MSS_UP" THEN prev <= twiceMid /\ this > twiceMid
                                ELSE prev >= twiceMid /\ this < twiceMid}

\* Three candles with room between the first and the third.
Gaps(cs) ==
    LET n == Len(cs)
        Wide(size) == size > 0 /\ 10000 * size >= FvgMinBp * cs[n - 1].close
    IN  IF n < 3 THEN {}
        ELSE {k \in {"FVG_BULLISH", "FVG_BEARISH"} :
                IF k = "FVG_BULLISH" THEN Wide(cs[n].low - cs[n - 2].high)
                                     ELSE Wide(cs[n - 2].low - cs[n].high)}

\* The close lies in the retracement zone of the window.
Retraces(cs) ==
    LET w == Before(cs, OteLookback)
        span == Highest(w) - Lowest(w)
        close == 100 * Last(cs).close
        Inside(low, high) == low <= close /\ close <= high
    IN  IF w = <<>> \/ span <= 0 THEN {}
        ELSE {k \in {"OTE_LONG", "OTE_SHORT"} :
                IF k = "OTE_LONG"
                THEN Inside(100 * Highest(w) - OteHigh * span,
                            100 * Highest(w) - OteLow * span)
                ELSE Inside(100 * Lowest(w) + OteLow * span,
                            100 * Lowest(w) + OteHigh * span)}

\* _detect_on_last, when a sample starts a new candle.
SignalsOf(cs) == Sweeps(cs) \cup Shifts(cs) \cup Gaps(cs) \cup Retraces(cs)

-----------------------------------------------------------------------------
(* The strategy (strategy.py)                                              *)

RecentAfter(s, t) ==
    {r \in recent[s] : r[1] >= t - EntryWindow}
        \cup (IF Completes(s, t) THEN {t} \X SignalsOf(CandlesAfter(s, t)) ELSE {})

Wanted(dir) ==
    IF dir = "LONG"
    THEN [sweep |-> "SWEEP_DOWN", mss |-> "MSS_UP", fvg |-> "FVG_BULLISH",
          ote |-> "OTE_LONG"]
    ELSE [sweep |-> "SWEEP_UP", mss |-> "MSS_DOWN", fvg |-> "FVG_BEARISH",
          ote |-> "OTE_SHORT"]

\* Directions whose required signals are all in the window.  Nothing ever
\* sets _last_trust, which stays 0.
Aligned(s, t) ==
    {dir \in Dirs :
        /\ MinWhaleTrust <= 0
        /\ RecentAfter(s, t) # {}
        /\ \A r \in Required :
              \E x \in RecentAfter(s, t) : x[2] = Wanted(dir)[r]}

\* No entry yet is as good as long ago: times are far from the epoch.
Cooled(s, dir, t) ==
    lastEntry[s][dir] = None \/ t - lastEntry[s][dir] >= Cooldown

\* The entry signals of a sample; LONG comes first.
Issued(s, t) == {dir \in Aligned(s, t) : Cooled(s, dir, t)}
FirstOf(dirs) == IF "LONG" \in dirs THEN "LONG" ELSE "SHORT"

LastEntryAfter(s, t) ==
    [dir \in Dirs |-> IF dir \in Issued(s, t) THEN t ELSE lastEntry[s][dir]]

BlockedByCooldown(s, t) == Issued(s, t) = {} /\ Aligned(s, t) # {}

-----------------------------------------------------------------------------
(* The simulator (position_sim.py)                                         *)

Touches(pos, c) ==
    IF pos.dir = "LONG"
    THEN [sl |-> c.low <= pos.sl, tp |-> c.high >= pos.tp]
    ELSE [sl |-> c.high >= pos.sl, tp |-> c.low <= pos.tp]

\* Mutant of ExitOnCandle: targets are not looked at.
ExitOnCandle_StopOnly(s, c) ==
    IF positions[s] # None /\ c.b > Bucket(positions[s].ts)
       /\ Touches(positions[s], c).sl
    THEN [reason |-> "SL", price |-> positions[s].sl] ELSE None

\* _check_exits_on_candle: never on the candle of the entry, SL first.
ExitOnCandle(s, c) ==
    LET pos == positions[s]
        hit == Touches(pos, c)
    IN  IF pos = None \/ c.b <= Bucket(pos.ts) THEN None
        ELSE IF hit.sl THEN [reason |-> "SL", price |-> pos.sl]
        ELSE IF hit.tp THEN [reason |-> "TP", price |-> pos.tp]
        ELSE None

Gross(pos, price) ==
    IF pos.dir = "LONG" THEN price - pos.entry ELSE pos.entry - price

ExitFee(reason) == IF reason = "TP" THEN FeeMaker ELSE FeeTaker

\* _close_position, at the start of the finished candle or at the end.
TradeOf(s, exit, ts) ==
    LET pos == positions[s]
    IN  [symbol |-> s, entryTs |-> pos.ts, exitTs |-> ts,
         reason |-> exit.reason, funding |-> pos.funding,
         net |-> Gross(pos, exit.price) - FeeTaker - ExitFee(exit.reason)
                   - pos.funding]

NextFunding(t) == (t \div FundingPeriod + 1) * FundingPeriod

\* Mutant of FundingsDue: a funding time waits for a later sample.
FundingsDue_Strict(s, t) ==
    IF nextFunding[s] = None THEN 0
    ELSE Cardinality({u \in nextFunding[s] .. t - 1 : u % FundingPeriod = 0})

\* The funding times a sample catches up with; the first sample sets the clock.
FundingsDue(s, t) ==
    IF nextFunding[s] = None THEN 0
    ELSE Cardinality({u \in nextFunding[s] .. t : u % FundingPeriod = 0})

FundingDelta(s, pos) == IF pos.dir = "LONG" THEN rate[s] ELSE -rate[s]

\* The position of s after the exit check and the funding of a sample.
Carried(s, t) ==
    LET exits == Completes(s, t) /\ ExitOnCandle(s, active[s]) # None
        pos   == positions[s]
    IN  IF pos = None \/ exits THEN None
        ELSE [pos EXCEPT !.funding = IF IncludeFunding
                   THEN @ + FundingsDue(s, t) * FundingDelta(s, pos) ELSE @]

\* The trade a sample ends, if any.
Ended(s, t) ==
    LET c == active[s]
    IN  IF Completes(s, t) /\ ExitOnCandle(s, c) # None
        THEN <<TradeOf(s, ExitOnCandle(s, c), c.b * CandleSec)>> ELSE <<>>

\* An equity that was start, after each of the trades ts.
Balances(start, ts) ==
    LET eq[n \in 0 .. Len(ts)] == IF n = 0 THEN start ELSE eq[n - 1] + ts[n].net
    IN  eq

Balance(start, ts) == Balances(start, ts)[Len(ts)]

Unrealized(pos, price) ==
    IF pos = None \/ price = None THEN 0 ELSE Gross(pos, price) - pos.funding

\* equity: realized and, at the last prices, unrealized.
Equity(real, held, price) ==
    LET eq[i \in 0 .. N] ==
            IF i = 0 THEN real
            ELSE eq[i - 1] + Unrealized(held[SymbolOrder[i]], price[SymbolOrder[i]])
    IN  eq[N]

TrueRange(prev, cur) ==
    Max({cur.high - cur.low, cur.high - prev.close, prev.close - cur.high,
         cur.low - prev.close, prev.close - cur.low})

\* The mean of the last AtrPeriod ranges; 0 while there are not enough.
Atr(cs) ==
    LET n == Len(cs)
        sum[i \in 0 .. AtrPeriod] ==
            IF i = 0 THEN 0
            ELSE sum[i - 1] + TrueRange(cs[n - AtrPeriod + i - 1], cs[n - AtrPeriod + i])
    IN  IF n < AtrPeriod + 1 THEN 0 ELSE sum[AtrPeriod] \div AtrPeriod

\* Half an ATR, capped and floored by a share of the price.
SlDistance(cs, price) ==
    Max({Min({Atr(cs) \div 2, (MaxSlPct * price) \div 100}),
         (MinSlPct * price) \div 100})

\* Mutant of Verdict: the limit is per symbol only.
Verdict_NoGlobalLimit(s, held, cs, price, equity) ==
    IF held[s] # None THEN "per_symbol_max_position" ELSE "none"

\* on_entry: why the simulator refuses, "none" when it accepts.
Verdict(s, held, cs, price, equity) ==
    IF held[s] # None THEN "per_symbol_max_position"
    ELSE IF Cardinality({u \in Symbols : held[u] # None}) >= MaxPositionsGlobal
    THEN "global_limit_full"
    ELSE IF MaxPositionsPerSymbol < 1 THEN "per_symbol_max_position"
    ELSE IF Atr(cs) <= 0 \/ price <= 0 \/ SlDistance(cs, price) <= 0 \/ equity <= 0
    THEN "sim_rejected_other"
    ELSE "none"

NewPosition(dir, t, cs, price) ==
    LET dist  == SlDistance(cs, price)
        sign  == IF dir = "LONG" THEN 1 ELSE -1
        entry == price + sign * Slippage
    IN  [ts |-> t, dir |-> dir, entry |-> entry, sl |-> entry - sign * dist,
         tp |-> entry + sign * TpRMultiple * dist, funding |-> 0]

-----------------------------------------------------------------------------
(* The replay (replay_transport.py) and the runner (multi_symbol_runner.py)*)

\* The rows of the window are read in the order (time, kind, symbol).
Stream == Merged[at.i]

NextSlot ==
    IF at.i < 2 * N THEN [t |-> at.t, i |-> at.i + 1] ELSE [t |-> at.t + 1, i |-> 1]

Reading == ~Finished /\ at.t <= TestEnd(fold)

\* A row read before is the same again.
RowAt(stream, t) ==
    IF tape[stream][t] = Unread THEN Rows[stream][t] ELSE {tape[stream][t]}

Consume(row) ==
    /\ row \in RowAt(Stream, at.t)
    /\ tape' = [tape EXCEPT ![Stream][at.t] = row]
    /\ at' = NextSlot

NoneYet == [s \in Symbols |-> None]

Init ==
    /\ fold = 0
    /\ at = [t |-> 0, i |-> 1]
    /\ tape = [stream \in Streams |-> [t \in Times |-> Unread]]
    /\ combined = {}
    /\ combinedDrops = {}
    /\ finalized = FALSE
    /\ active = NoneYet
    /\ candles = [s \in Symbols |-> <<>>]
    /\ positions = NoneYet
    /\ lastPrice = NoneYet
    /\ rate = [s \in Symbols |-> 0]
    /\ nextFunding = NoneYet
    /\ realized = InitialEquity
    /\ trades = <<>>
    /\ recent = [s \in Symbols |-> {}]
    /\ lastEntry = [s \in Symbols |-> [dir \in Dirs |-> None]]
    /\ entryCount = 0
    /\ blocked = [s \in Symbols |-> FALSE]
    /\ dropped = <<>>

\* A fold starts with a new runner, a new simulator and new strategies.
StartFold(k) ==
    /\ fold' = k
    /\ at' = [t |-> k * StepLen, i |-> 1]
    /\ finalized' = FALSE
    /\ active' = NoneYet
    /\ candles' = [s \in Symbols |-> <<>>]
    /\ positions' = NoneYet
    /\ lastPrice' = NoneYet
    /\ rate' = [s \in Symbols |-> 0]
    /\ nextFunding' = NoneYet
    /\ realized' = InitialEquity
    /\ trades' = <<>>
    /\ recent' = [s \in Symbols |-> {}]
    /\ lastEntry' = [s \in Symbols |-> [dir \in Dirs |-> None]]
    /\ entryCount' = 0
    /\ blocked' = [s \in Symbols |-> FALSE]
    /\ dropped' = <<>>

\* The stream has nothing at this time.
NoRowHere ==
    /\ Reading
    /\ Consume(NoRow)
    /\ UNCHANGED <<fold, finalized, simVars, stratVars, combined, combinedDrops>>

OnTicker ==
    LET s == Stream[2]
    IN  /\ Reading
        /\ Stream[1] = "ticker"
        /\ \E row \in RowAt(Stream, at.t) \ {NoRow} :
              /\ Consume(row)
              /\ rate' = [rate EXCEPT ![s] = row]
        /\ UNCHANGED <<fold, finalized, active, candles, positions, lastPrice, nextFunding,
                       realized, trades, stratVars, combined, combinedDrops>>

\* _record_drop: nothing is recorded above the cap.
WithDrops(reasons, s, t) ==
    LET all == dropped \o [i \in DOMAIN reasons |->
                             [reason |-> reasons[i], symbol |-> s, ts |-> t]]
    IN  IF Len(all) <= DropCap THEN all ELSE SubSeq(all, 1, DropCap)

\* The simulator after a sample, before the strategy is asked.
HeldAfter(s, t)    == [positions EXCEPT ![s] = Carried(s, t)]
PriceAfter(s, bar) == [lastPrice EXCEPT ![s] = bar.close]
RealizedAfter(s, t) == Balance(realized, Ended(s, t))

\* The answer to the first entry of a sample.  The checks of on_entry do not
\* look at the direction, so that a second entry of the same sample meets the
\* position of the first or its rejection.
Answer(s, t, bar) ==
    Verdict(s, HeldAfter(s, t), CandlesAfter(s, t), bar.close,
            Equity(RealizedAfter(s, t), HeldAfter(s, t), PriceAfter(s, bar)))

Enters(s, t, bar) == Issued(s, t) # {} /\ Answer(s, t, bar) = "none"

Refused(s, t, bar) ==
    IF Enters(s, t, bar)
    THEN [i \in 1 .. Cardinality(Issued(s, t)) - 1 |-> "per_symbol_max_position"]
    ELSE [i \in 1 .. Cardinality(Issued(s, t)) |-> Answer(s, t, bar)]

\* A cooldown is recorded when its episode begins.
Episode(s, t) ==
    IF BlockedByCooldown(s, t) /\ ~blocked[s] THEN <<"cooldown_active">> ELSE <<>>

PositionsAfter(s, t, bar) ==
    IF Enters(s, t, bar)
    THEN [positions EXCEPT ![s] =
             NewPosition(FirstOf(Issued(s, t)), t, CandlesAfter(s, t), bar.close)]
    ELSE HeldAfter(s, t)

\* _on_ohlcv: the simulator (exit, funding, price), the strategy (signals,
\* entries), the episode of the cooldown, then the entries one by one.
OnSample(s, t, bar) ==
    /\ active' = [active EXCEPT ![s] = ActiveAfter(s, t, bar)]
    /\ candles' = [candles EXCEPT ![s] = CandlesAfter(s, t)]
    /\ trades' = trades \o Ended(s, t)
    /\ realized' = RealizedAfter(s, t)
    /\ nextFunding' = [nextFunding EXCEPT ![s] = NextFunding(t)]
    /\ lastPrice' = PriceAfter(s, bar)
    /\ recent' = [recent EXCEPT ![s] = RecentAfter(s, t)]
    /\ lastEntry' = [lastEntry EXCEPT ![s] = LastEntryAfter(s, t)]
    /\ entryCount' = entryCount + Cardinality(Issued(s, t))
    /\ blocked' = [blocked EXCEPT ![s] = BlockedByCooldown(s, t)]
    /\ dropped' = WithDrops(Episode(s, t) \o Refused(s, t, bar), s, t)
    /\ positions' = PositionsAfter(s, t, bar)

OnOhlcv ==
    /\ Reading
    /\ Stream[1] = "ohlcv"
    /\ \E bar \in RowAt(Stream, at.t) \ {NoRow} :
          Consume(bar) /\ OnSample(Stream[2], at.t, bar)
    /\ UNCHANGED <<fold, finalized, rate, combined, combinedDrops>>

\* sim.finalize: the unfinished candle of every symbol may still end its
\* position; the others end at the last price when the window ends.
LastExit(s) ==
    IF active[s] # None /\ ExitOnCandle(s, active[s]) # None
    THEN TradeOf(s, ExitOnCandle(s, active[s]), active[s].b * CandleSec)
    ELSE TradeOf(s, [reason |-> "END_OF_BACKTEST", price |-> lastPrice[s]],
                 TestEnd(fold))

Held == {s \in Symbols : positions[s] # None}

\* First the stops and targets, in the order in which the last candles began,
\* then the ends of the others, in the order of their entries.
EndsBefore(r, s) ==
    LET Rank(u) == IF LastExit(u).reason = "END_OF_BACKTEST"
                   THEN [late |-> 1, by |-> positions[u].ts]
                   ELSE [late |-> 0, by |-> active[u].b]
    IN  \/ Rank(r).late < Rank(s).late
        \/ Rank(r).late = Rank(s).late /\ Rank(r).by <= Rank(s).by

\* The orders in which finalize may close what is held.
Closings ==
    {order \in SetToSeqs(Held) :
        \A i, j \in DOMAIN order : i < j => EndsBefore(order[i], order[j])}

\* Mutant of FinalTrades: what is still open at the end is forgotten.
FinalTrades_StopsOnly(order) ==
    LET stops == SelectSeq(order, LAMBDA s : LastExit(s).reason # "END_OF_BACKTEST")
    IN  [i \in DOMAIN stops |-> LastExit(stops[i])]

FinalTrades(order) == [i \in DOMAIN order |-> LastExit(order[i])]

\* The end of MultiSymbolRunner.run.  The flush of the detectors before it
\* adds signals that nobody reads.
Finalize ==
    /\ ~Finished /\ ~finalized
    /\ at.t > TestEnd(fold)
    /\ finalized' = TRUE
    /\ \E order \in Closings :
          /\ trades' = trades \o FinalTrades(order)
          /\ realized' = Balance(realized, FinalTrades(order))
    /\ positions' = [s \in Symbols |-> None]
    /\ candles' = [s \in Symbols |->
                     IF active[s] = None THEN candles[s] ELSE Closed(s)]
    /\ active' = [s \in Symbols |-> None]
    /\ UNCHANGED <<fold, at, tape, lastPrice, rate, nextFunding, stratVars,
                   combined, combinedDrops>>

\* Mutant of InTestWindow: the training trades are counted too.
InTestWindow_Train(k, ts) == ts >= k * StepLen

InTestWindow(k, ts) == ts >= TestStart(k)

\* _run_fold keeps what was entered in the test window; the next fold starts.
EndFold ==
    /\ finalized
    /\ combined' = combined \cup
          {[fold |-> fold, nth |-> i, trade |-> trades[i]] :
              i \in {j \in DOMAIN trades : InTestWindow(fold, trades[j].entryTs)}}
    /\ combinedDrops' = combinedDrops \cup
          {[fold |-> fold, nth |-> i, drop |-> dropped[i]] :
              i \in {j \in DOMAIN dropped : InTestWindow(fold, dropped[j].ts)}}
    /\ StartFold(fold + 1)
    /\ UNCHANGED tape

Next == OnOhlcv \/ OnTicker \/ NoRowHere \/ Finalize \/ EndFold

Spec == Init /\ [][Next]_vars

-----------------------------------------------------------------------------
(* The reports (reporting.py, data_quality.py, multi_report.py)            *)

\* build_equity_curve: the trades in the order they were closed.
EquityCurve ==
    [i \in DOMAIN trades |->
        [ts |-> trades[i].exitTs, equity |-> Balances(InitialEquity, trades)[i]]]

\* Mutant of ReportStep: the peak does not follow the equity.
ReportStep_FixedPeak(acc, tr) ==
    LET eq == acc.eq + tr.net
        dd == [num |-> acc.peak - eq, den |-> acc.peak]
    IN  [eq |-> eq, peak |-> acc.peak,
         dd |-> IF dd.num * acc.dd.den > acc.dd.num * dd.den THEN dd ELSE acc.dd]

\* BacktestReport: the drawdown below the running peak, as num / den.
ReportStep(acc, tr) ==
    LET eq   == acc.eq + tr.net
        peak == IF eq > acc.peak THEN eq ELSE acc.peak
        dd   == IF peak > 0 THEN [num |-> peak - eq, den |-> peak]
                            ELSE [num |-> 0, den |-> 1]
    IN  [eq |-> eq, peak |-> peak,
         dd |-> IF dd.num * acc.dd.den > acc.dd.num * dd.den THEN dd ELSE acc.dd]

ReportWalk ==
    LET walk[n \in 0 .. Len(trades)] ==
            IF n = 0 THEN [eq |-> InitialEquity, peak |-> InitialEquity,
                           dd |-> [num |-> 0, den |-> 1]]
            ELSE ReportStep(walk[n - 1], trades[n])
    IN  walk

Report ==
    [final |-> Equity(realized, positions, lastPrice), total |-> Len(trades),
     wins |-> Cardinality({i \in DOMAIN trades : trades[i].net > 0}),
     drawdown |-> ReportWalk[Len(trades)].dd]

\* compute_metrics: the longest run of losing trades.
StreakStep(acc, tr) ==
    LET cur == IF tr.net < 0 THEN acc.cur + 1 ELSE 0
    IN  [cur |-> cur, longest |-> IF cur > acc.longest THEN cur ELSE acc.longest]

Streaks ==
    LET walk[n \in 0 .. Len(trades)] ==
            IF n = 0 THEN [cur |-> 0, longest |-> 0]
            ELSE StreakStep(walk[n - 1], trades[n])
    IN  walk

LossStreak == Streaks[Len(trades)].longest

\* The seconds of the test window that a finished fold has seen.
TestSecs(k, s) ==
    {t \in TestStart(k) .. TestEnd(k) :
        tape[<<"ohlcv", s>>][t] \notin {NoRow, Unread}}

\* analyze_ohlcv_secs at an expected distance of one second.
Quality(secs) ==
    LET span == Max(secs) - Min(secs)
        gaps == {g \in secs \X secs :
                   g[1] + 1 < g[2] /\ \A t \in secs : t <= g[1] \/ t >= g[2]}
    IN  IF secs = {} THEN [samples |-> 0, expected |-> 0, gaps |-> {}, maxGap |-> 0]
        ELSE [samples |-> Cardinality(secs), expected |-> span + 1, gaps |-> gaps,
              maxGap |-> Max({0} \cup {g[2] - g[1] : g \in gaps})]

-----------------------------------------------------------------------------
(* Properties                                                              *)

\* Every variable keeps its type; histories stay within their caps.
TypeOK ==
    /\ fold \in Nat /\ finalized \in BOOLEAN
    /\ at.t \in Nat /\ at.i \in 1 .. 2 * N
    /\ \A s \in Symbols :
          /\ active[s] \in Candle \cup {None}
          /\ Range(candles[s]) \subseteq Candle /\ Len(candles[s]) <= CandleCap
          /\ positions[s] \in Position \cup {None}
          /\ recent[s] \subseteq Times \X Kinds
          /\ \A dir \in Dirs : lastEntry[s][dir] \in Times \cup {None}
    /\ Range(trades) \subseteq Trade
    /\ Range(dropped) \subseteq Drop /\ Len(dropped) <= DropCap
    /\ combined \subseteq FoldTrade /\ combinedDrops \subseteq FoldDrop
    /\ realized \in Int /\ entryCount \in Nat

\* on_ohlcv, on_entry: no finished candle after the one of the entry has
\* touched the stop or the target of a position that is still open.
NoMissedExit ==
    \A s \in Held : \A i \in DOMAIN candles[s] :
        LET c == candles[s][i]
        IN  c.b > Bucket(positions[s].ts) =>
                ~Touches(positions[s], c).sl /\ ~Touches(positions[s], c).tp

\* _on_ohlcv: every entry the strategies issued is an open position, a trade
\* or a recorded drop, exactly once, until the list of drops is full; every
\* state is of its type.
SignalsAccounted ==
    /\ TypeOK
    /\ Len(dropped) < DropCap =>
          entryCount = Cardinality(Held) + Len(trades)
              + Cardinality({i \in DOMAIN dropped : dropped[i].reason # "cooldown_active"})

\* Samples of s that the current fold has processed.
Sampled(s) ==
    {t \in fold * StepLen .. Min({at.t, TsTo}) :
        /\ tape[<<"ohlcv", s>>][t] \notin {NoRow, Unread}
        /\ t < at.t \/ \E i \in 1 .. at.i - 1 : Merged[i] = <<"ohlcv", s>>}

RateBefore(s, t) ==
    LET known == {u \in fold * StepLen .. t - 1 :
                    tape[<<"ticker", s>>][u] \notin {NoRow, Unread}}
    IN  IF known = {} THEN 0 ELSE tape[<<"ticker", s>>][Max(known)]

\* At a funding time: the rate before the first sample that reaches it.
Charge(s, u) ==
    IF u % FundingPeriod # 0 THEN 0
    ELSE RateBefore(s, Min({t \in Sampled(s) : t >= u}))

\* What a long position has paid from a time to another.
Paid(s, from, to) ==
    LET paid[u \in from .. to] == IF u = from THEN 0 ELSE paid[u - 1] + Charge(s, u)
    IN  paid[to]

\* on_ohlcv, on_ticker: an open position has paid, for every funding time
\* since its entry that a sample of its symbol has reached, the rate of the
\* last ticker before that sample: once, after the exits, each symbol on its
\* own clock.
FundingFollowsTape ==
    \A s \in Held :
        LET pos  == positions[s]
            paid == Paid(s, pos.ts, Max(Sampled(s)))
        IN  IncludeFunding =>
                pos.funding = IF pos.dir = "LONG" THEN paid ELSE -paid

\* _run_fold, _generate_folds: when every fold starts where the test of the
\* one before ends its training, an entry can be in the combined trades of
\* two folds only at the instant their test windows share.
SharedOnlyAtBoundary ==
    \A a, b \in combined :
        /\ StepLen = TestLen
        /\ a.fold < b.fold /\ a.trade.symbol = b.trade.symbol
        /\ a.trade.entryTs = b.trade.entryTs
        => a.trade.entryTs = TestEnd(a.fold) /\ b.fold = a.fold + 1

\* The folds are reported once: their trades as above, and the gaps listed
\* for a test window (_collect_data_quality) are apart from each other and hold
\* all the seconds that are missing between its first and its last sample.
FoldsAccounted ==
    /\ SharedOnlyAtBoundary
    /\ \A k \in 0 .. fold - 1, s \in Symbols :
          LET q       == Quality(TestSecs(k, s))
              Missing == UNION {g[1] + 1 .. g[2] - 1 : g \in q.gaps}
          IN  /\ q.samples + Cardinality(Missing) = q.expected
              /\ \A g, h \in q.gaps : g = h \/ g[2] <= h[1] \/ h[2] <= g[1]

\* build_report, compute_metrics, build_equity_curve: after finalize the
\* equity of the simulator is where the curve of its trades ends, no point of
\* the curve is further below its peak so far than the reported drawdown, and
\* the reported streak is a longest stretch of losses.
ReportMatchesCurve ==
    LET Point(i) == IF i = 0 THEN InitialEquity ELSE EquityCurve[i].equity
        n == Len(trades)
        Losing(i, j) == \A k \in i .. j : trades[k].net < 0
    IN  finalized =>
          /\ Report.final = Point(n)
          /\ \A i \in 0 .. n : \A j \in i .. n :
                Point(i) > 0 /\ (\A k \in 0 .. j : Point(k) <= Point(i)) =>
                    (Point(i) - Point(j)) * Report.drawdown.den
                        <= Report.drawdown.num * Point(i)
          /\ \A i, j \in 1 .. n : i <= j /\ Losing(i, j) => j - i + 1 <= LossStreak
          /\ LossStreak > 0 => \E i \in 1 .. n : i + LossStreak - 1 <= n
                                    /\ Losing(i, i + LossStreak - 1)

\* A trade is known by its symbol, its fold and the time of its entry.
EndedTrades ==
    {<<trades[i].symbol, <<fold, trades[i].entryTs>>>> : i \in DOMAIN trades}
EnteredTrades == EndedTrades \cup {<<s, <<fold, positions[s].ts>>>> : s \in Held}

Account == INSTANCE PaperAccount WITH
    Times <- Folds \X Times, Limit <- MaxPositionsGlobal,
    entered <- EnteredTrades, over <- EndedTrades

\* Within a fold the simulator keeps the account the paper manager of the
\* shadow runner keeps: the two promise the same (PaperAccount).
AccountSteps == [][fold' = fold => Account!Next]_<<EnteredTrades, EndedTrades>>
=============================================================================
