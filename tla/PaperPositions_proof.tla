------------------------ MODULE PaperPositions_proof ------------------------
(***************************************************************************)
(* Proofs about PaperPositions, for every set of symbols, every bound on   *)
(* positions and time, and every set of faults.                            *)
(***************************************************************************)
EXTENDS PaperPositions, SequenceTheorems, FiniteSetTheorems,
        WellFoundedInduction, TLAPS

ExitRequest == [price : Int, reason : {"SL", "TP", "END_OF_BACKTEST"}]

RowTable == [Symbols -> [Times -> Row \cup {None}]]

-----------------------------------------------------------------------------
(* Operators                                                               *)

\* Later times lie in later buckets: what lets the 5s candles of _CANDLE_SEC
\* be compared by index.
LEMMA DivMono ==
    ASSUME NEW a \in Nat, NEW b \in Nat, a <= b, NEW c \in Nat \ {0}
    PROVE  a \div c \in Nat /\ a \div c <= b \div c
<1>1. a \div c \in Nat /\ b \div c \in Nat
  BY Z3
<1>2. a = c * (a \div c) + (a % c) /\ a % c \in 0 .. (c - 1)
  BY Z3
<1>3. b = c * (b \div c) + (b % c) /\ b % c \in 0 .. (c - 1)
  BY Z3
<1>4. SUFFICES ASSUME b \div c + 1 <= a \div c PROVE FALSE
  BY <1>1
<1>5. c * (b \div c + 1) <= c * (a \div c)
  BY <1>1, <1>4, Z3
<1>6. c * (b \div c + 1) = c * (b \div c) + c
  BY <1>1, Z3
<1> QED
  BY <1>1, <1>2, <1>3, <1>5, <1>6, Z3

\* The bucket of a time of the clock is one of Buckets and never lies ahead.
LEMMA BucketType ==
    ASSUME NEW t \in Times, NEW u \in Times, t <= u
    PROVE  Bucket(t) \in Buckets /\ Bucket(t) <= Bucket(u)
<1>1. t \in Nat /\ u \in Nat /\ MaxTime \in Nat /\ u <= MaxTime /\ t <= MaxTime
      /\ CandleSec \in Nat \ {0}
  BY ConstantsAssumption DEF Times
<1>2. t \div CandleSec \in Nat /\ t \div CandleSec <= u \div CandleSec
  BY <1>1, DivMono
<1>3. t \div CandleSec <= MaxTime \div CandleSec
  BY <1>1, DivMono
<1>4. MaxTime \div CandleSec \in Nat
  BY <1>1, DivMono
<1> QED
  BY <1>2, <1>3, <1>4 DEF Bucket, Buckets

\* The deque of _finalize_active keeps its type and its maxlen.
LEMMA AppendCandleType ==
    ASSUME NEW cs \in Seq(Candle), Len(cs) <= CandleCap, NEW c \in Candle
    PROVE  AppendCandle(cs, c) \in Seq(Candle) /\ Len(AppendCandle(cs, c)) <= CandleCap
<1> DEFINE full == Append(cs, c)
<1>1. full \in Seq(Candle) /\ Len(full) = Len(cs) + 1 /\ full # <<>>
  BY AppendProperties
<1>2. Tail(full) \in Seq(Candle) /\ Len(Tail(full)) = Len(full) - 1
  BY <1>1, HeadTailProperties
<1>3. Len(cs) \in Nat /\ CandleCap \in Nat
  BY ConstantsAssumption, LenProperties
<1> HIDE DEF full
<1>4. AppendCandle(cs, c) = IF Len(full) > CandleCap THEN Tail(full) ELSE full
  BY DEF AppendCandle, full
<1> QED
  BY <1>1, <1>2, <1>3, <1>4

\* The exit that _check_exits_on_candle asks for: a stop or a target of a
\* candle after the bucket of the entry.
LEMMA ExitOnCandleType ==
    ASSUME NEW pos \in Position, NEW c, ExitOnCandle(pos, c) # None
    PROVE  ExitOnCandle(pos, c) \in ExitRequest /\ ~(c.b <= Bucket(pos.ts))
  BY DEF ExitOnCandle, ExitRequest, Position

LEMMA CandleExitType ==
    ASSUME TypeOK, NEW s \in Symbols, CandleExit(s) # None
    PROVE  /\ s \in OpenSymbols /\ active[s] \in Candle
           /\ CandleExits[s] \in ExitRequest
           /\ CandleTimes[s] \in Int
           /\ ~(active[s].b <= Bucket(positions[s].ts))
<1>1. positions[s] # None /\ active[s] # None
      /\ CandleExit(s) = ExitOnCandle(positions[s], active[s])
  BY DEF CandleExit
<1>2. positions[s] \in Position /\ active[s] \in Candle
  BY <1>1 DEF TypeOK
<1>3. active[s].b \in Nat /\ CandleSec \in Nat
  <2>1. MaxTime \in Nat /\ CandleSec \in Nat \ {0}
    BY ConstantsAssumption
  <2>2. active[s].b \in Buckets
    BY <1>2 DEF Candle
  <2> QED BY <2>1, <2>2 DEF Buckets
<1>4. CandleTimes[s] \in Int
  BY <1>1, <1>3 DEF CandleTimes
<1>5. CandleExits[s] = ExitOnCandle(positions[s], active[s])
  BY <1>1 DEF CandleExits
<1> QED
  BY <1>1, <1>2, <1>4, <1>5, ExitOnCandleType DEF OpenSymbols

\* The net result of a trade is a number.
LEMMA PnlNetType ==
    ASSUME NEW pos \in Position, NEW exit \in ExitRequest
    PROVE  PnlNet(pos, exit) \in Int
<1>1. /\ pos.dir \in Directions /\ pos.entry \in Int /\ pos.fee \in Int
      /\ pos.funding \in Int /\ exit.price \in Int
      /\ FeeTaker \in Int /\ FeeMaker \in Int
  BY ConstantsAssumption DEF Position, ExitRequest
<1>2. PnlGross(pos, exit.price) \in Int /\ ExitFee(exit.reason) \in Int
  BY <1>1 DEF PnlGross, ExitFee
<1> QED
  BY <1>1, <1>2 DEF PnlNet

-----------------------------------------------------------------------------
(* Closing positions                                                       *)

\* What _write_position_close does to a row: an OPEN row becomes CLOSED and
\* keeps its plan, any other is left alone.
LEMMA CloseRowValue ==
    ASSUME NEW row \in Row \cup {None}, NEW pos \in Position, NEW ts \in Int,
           NEW exit \in ExitRequest
    PROVE  /\ CloseRow(row, pos, ts, exit) \in Row \cup {None}
           /\ row # None =>
                 /\ CloseRow(row, pos, ts, exit) # None
                 /\ CloseRow(row, pos, ts, exit).pos = row.pos
                 /\ CloseRow(row, pos, ts, exit).status = "CLOSED"
           /\ row = None => CloseRow(row, pos, ts, exit) = None
<1>1. CASE row # None /\ row.status = "OPEN"
  <2> DEFINE new == [row EXCEPT !.status = "CLOSED", !.exitTs = ts,
                                !.reason = exit.reason, !.net = PnlNet(pos, exit)]
  <2>1. row \in Row
    BY <1>1
  <2>2. PnlNet(pos, exit) \in Int
    BY PnlNetType
  <2>3. exit.reason \in {"SL", "TP", "END_OF_BACKTEST"}
    BY DEF ExitRequest
  <2>4. new \in Row /\ new.pos = row.pos /\ new.status = "CLOSED"
    BY <2>1, <2>2, <2>3 DEF Row
  <2>5. CloseRow(row, pos, ts, exit) = new
    BY <1>1 DEF CloseRow
  <2> HIDE DEF new
  <2> QED BY <1>1, <2>4, <2>5, NoneAssumption
<1>2. CASE ~(row # None /\ row.status = "OPEN")
  <2>1. CloseRow(row, pos, ts, exit) = row
    BY <1>2 DEF CloseRow
  <2>2. row # None => row.status = "CLOSED"
    BY <1>2 DEF Row
  <2> QED BY <2>1, <2>2
<1> QED BY <1>1, <1>2

\* The table after closing the symbols of done: only the rows of their
\* positions change.
LEMMA RowsAfterCloseValue ==
    ASSUME TypeOK, NEW done \in SUBSET OpenSymbols, NEW ts, NEW exits,
           \A s \in done : ts[s] \in Int /\ exits[s] \in ExitRequest
    PROVE  /\ RowsAfterClose(done, ts, exits) \in RowTable
           /\ \A s \in Symbols, t \in Times :
                RowsAfterClose(done, ts, exits)[s][t] =
                   IF s \in done /\ t = positions[s].ts
                   THEN CloseRow(rows[s][t], positions[s], ts[s], exits[s])
                   ELSE rows[s][t]
<1> DEFINE new == RowsAfterClose(done, ts, exits)
<1>1. rows \in RowTable
  BY DEF TypeOK, RowTable
<1>2. ASSUME NEW s \in Symbols
      PROVE  /\ new[s] \in [Times -> Row \cup {None}]
             /\ \A t \in Times : new[s][t] =
                   IF s \in done /\ t = positions[s].ts
                   THEN CloseRow(rows[s][t], positions[s], ts[s], exits[s])
                   ELSE rows[s][t]
  <2>1. CASE s \notin done
    <3>1. new[s] = rows[s]
      BY <2>1 DEF RowsAfterClose
    <3> QED BY <1>1, <2>1, <3>1 DEF RowTable
  <2>2. CASE s \in done
    <3>1. positions[s] \in Position /\ positions[s].ts \in Times
      BY <2>2 DEF OpenSymbols, TypeOK, Position
    <3>2. rows[s] \in [Times -> Row \cup {None}]
      BY <1>1 DEF RowTable
    <3> DEFINE old == rows[s][positions[s].ts]
               closed == CloseRow(old, positions[s], ts[s], exits[s])
    <3>3. old \in Row \cup {None}
      BY <3>1, <3>2
    <3>4. closed \in Row \cup {None}
      <4>1. ts[s] \in Int /\ exits[s] \in ExitRequest
        BY <2>2
      <4> HIDE DEF old
      <4> QED BY <3>1, <3>3, <4>1, CloseRowValue
    <3>5. new[s] = [rows[s] EXCEPT ![positions[s].ts] = closed]
      BY <2>2 DEF RowsAfterClose
    <3> HIDE DEF closed, new
    <3>6. new[s] \in [Times -> Row \cup {None}]
      BY <3>1, <3>2, <3>4, <3>5
    <3>7. \A t \in Times : new[s][t] =
            IF t = positions[s].ts THEN closed ELSE rows[s][t]
      BY <3>1, <3>2, <3>5
    <3> QED BY <2>2, <3>6, <3>7 DEF closed
  <2> QED BY <2>1, <2>2
<1>3. new = [s \in Symbols |-> new[s]]
  BY DEF RowsAfterClose
<1> HIDE DEF new
<1>4. new \in RowTable
  BY <1>2, <1>3 DEF RowTable
<1> QED BY <1>2, <1>4 DEF new

\* Closing keeps the types of the table, of the trades and of the events.
LEMMA RecordCloseType ==
    ASSUME TypeOK, NEW done \in SUBSET OpenSymbols, NEW ts, NEW exits, NEW lost,
           \A s \in done : ts[s] \in Int /\ exits[s] \in ExitRequest,
           RecordClose(done, ts, exits, lost)
    PROVE  /\ rows' \in RowTable
           /\ closedTrades' \subseteq Trade
           /\ events' \subseteq Event
<1>1. \A s \in done : /\ s \in Symbols
                      /\ positions[s] \in Position
                      /\ positions[s].ts \in Times
                      /\ PnlNet(positions[s], exits[s]) \in Int
  <2> SUFFICES ASSUME NEW s \in done
               PROVE  /\ s \in Symbols
                      /\ positions[s] \in Position
                      /\ positions[s].ts \in Times
                      /\ PnlNet(positions[s], exits[s]) \in Int
    OBVIOUS
  <2>1. s \in Symbols /\ positions[s] \in Position
    BY DEF OpenSymbols, TypeOK
  <2>2. positions[s].ts \in Times
    BY <2>1 DEF Position
  <2> QED BY <2>1, <2>2, PnlNetType
<1>2. rows' \in RowTable
  BY RowsAfterCloseValue DEF RecordClose
<1>3. closedTrades' \subseteq Trade
  BY <1>1 DEF RecordClose, TypeOK, Trade
<1>4. events' \subseteq Event
  BY <1>1 DEF RecordClose, TypeOK, Event
<1> QED BY <1>2, <1>3, <1>4

\* Positions after a close, and after the funding that follows it.
LEMMA PositionsAfterCloseType ==
    ASSUME TypeOK, NEW done \in SUBSET OpenSymbols
    PROVE  PositionsAfterClose(done) \in [Symbols -> Position \cup {None}]
  BY DEF PositionsAfterClose, TypeOK

LEMMA PayFundingType ==
    ASSUME TypeOK, NEW s \in Symbols, NEW t \in Times,
           NEW pos \in Position \cup {None}
    PROVE  LET new == PayFunding(pos, fundingRate[s], FundingsDue(s, t))
           IN  /\ new \in Position \cup {None}
               /\ new = None <=> pos = None
               /\ pos # None =>
                    \A f \in {"ts", "dir", "entry", "sl", "tp", "fee"} : new[f] = pos[f]
<1> DEFINE n == FundingsDue(s, t)
           d == FundingDelta(fundingRate[s], pos.dir)
<1>1. NextFundingTs(t) \in Int /\ FundingPeriod \in Nat \ {0}
  BY ConstantsAssumption DEF NextFundingTs, Times
<1>2. n \in Int
  BY <1>1, NoneAssumption DEF FundingsDue, TypeOK
<1>3. d \in Int
  BY DEF FundingDelta, TypeOK
<1>4. n * d \in Int
  <2> HIDE DEF n, d
  <2> QED BY <1>2, <1>3
<1>5. CASE pos = None \/ ~IncludeFunding
  BY <1>5 DEF PayFunding
<1>6. CASE ~(pos = None \/ ~IncludeFunding)
  <2> DEFINE new == PayFunding(pos, fundingRate[s], FundingsDue(s, t))
  <2>1. new = [pos EXCEPT !.funding = @ + n * d]
    BY <1>6 DEF PayFunding
  <2>2. pos \in Position
    BY <1>6
  <2> HIDE DEF n, d, new
  <2>3. pos.funding + n * d \in Int
    BY <1>4, <2>2 DEF Position
  <2>4. new \in Position /\ \A f \in {"ts", "dir", "entry", "sl", "tp", "fee"} : new[f] = pos[f]
    BY <2>1, <2>2, <2>3 DEF Position
  <2> QED BY <1>6, <2>4, NoneAssumption DEF new
<1> QED BY <1>5, <1>6

LEMMA NewPositionType ==
    ASSUME TypeOK, NEW dir \in Directions, NEW price \in TickPrices,
           NEW dist \in SlDistances
    PROVE  NewPosition(dir, price, dist) \in Position
           /\ NewPosition(dir, price, dist).ts = now
<1>1. price \in Int /\ dist \in Int /\ Slippage \in Int /\ TpRMultiple \in Int
      /\ FeeTaker \in Int
  BY ConstantsAssumption, DataAssumption
<1>2. now \in Times
  BY DEF TypeOK
<1>3. EntryFill(price, dir) \in Int
  BY <1>1 DEF EntryFill
<1>4. TpRMultiple * dist \in Int
  BY <1>1
<1>5. SlPrice(EntryFill(price, dir), dist, dir) \in Int
  BY <1>1, <1>3 DEF SlPrice
<1>6. TpPrice(EntryFill(price, dir), dist, dir) \in Int
  BY <1>3, <1>4 DEF TpPrice
<1> QED
  BY <1>1, <1>2, <1>3, <1>5, <1>6 DEF NewPosition, Position

\* INSERT OR IGNORE: the row of the key is added unless there is one.
LEMMA InsertRowValue ==
    ASSUME TypeOK, NEW s \in Symbols, NEW pos \in Position
    PROVE  /\ InsertRow(s, pos) \in RowTable
           /\ \A x \in Symbols, t \in Times :
                (x # s \/ t # pos.ts \/ rows[x][t] # None) =>
                    InsertRow(s, pos)[x][t] = rows[x][t]
           /\ rows[s][pos.ts] = None =>
                /\ InsertRow(s, pos)[s][pos.ts] # None
                /\ InsertRow(s, pos)[s][pos.ts].status = "OPEN"
                /\ InsertRow(s, pos)[s][pos.ts].pos = pos
<1> DEFINE fresh == [status |-> "OPEN", pos |-> pos, exitTs |-> -1,
                     reason |-> "none", net |-> 0]
           cell == IF rows[s][pos.ts] = None THEN fresh ELSE rows[s][pos.ts]
<1>1. fresh \in Row /\ fresh.status = "OPEN" /\ fresh.pos = pos
  BY DEF Row
<1>2. pos.ts \in Times
  BY DEF Position
<1>3. rows \in RowTable
  BY DEF TypeOK, RowTable
<1>4. InsertRow(s, pos) = [rows EXCEPT ![s] = [rows[s] EXCEPT ![pos.ts] = cell]]
  BY DEF InsertRow
<1> HIDE DEF fresh
<1>5. cell \in Row \cup {None}
  BY <1>1, <1>2, <1>3 DEF RowTable
<1>6. InsertRow(s, pos) \in RowTable
  <2> HIDE DEF cell
  <2> QED BY <1>2, <1>3, <1>4, <1>5 DEF RowTable
<1>7. \A x \in Symbols, t \in Times :
         InsertRow(s, pos)[x][t] = IF x = s /\ t = pos.ts THEN cell ELSE rows[x][t]
  <2> HIDE DEF cell
  <2> QED BY <1>2, <1>3, <1>4 DEF RowTable
<1> QED BY <1>1, <1>2, <1>6, <1>7, NoneAssumption

\* The active candle after a sample.
LEMMA ActiveAfterType ==
    ASSUME TypeOK, NEW s \in Symbols, NEW t \in Times, t <= now, NEW bar \in Bars
    PROVE  /\ ActiveAfter(active[s], t, bar) \in Candle
           /\ active[s] # None /\ ~(Bucket(t) > active[s].b) =>
                 ActiveAfter(active[s], t, bar).b = active[s].b
           /\ active[s] = None \/ Bucket(t) > active[s].b =>
                 ActiveAfter(active[s], t, bar).b = Bucket(t)
<1>1. bar.high \in Int /\ bar.low \in Int /\ bar.close \in Int
  BY DataAssumption
<1>2. Bucket(t) \in Buckets
  BY BucketType DEF TypeOK
<1>3. NewCandle(t, bar) \in Candle /\ NewCandle(t, bar).b = Bucket(t)
  BY <1>1, <1>2 DEF NewCandle, Candle
<1>4. active[s] # None =>
        /\ active[s] \in Candle
        /\ MergeCandle(active[s], bar) \in Candle
        /\ MergeCandle(active[s], bar).b = active[s].b
  BY <1>1, ZenonT(60) DEF TypeOK, MergeCandle, Larger, Candle
<1> QED
  BY <1>3, <1>4 DEF ActiveAfter

-----------------------------------------------------------------------------
(* Type correctness                                                        *)

\* The close that a sample leads to is well formed.
LEMMA SampleExit ==
    ASSUME TypeOK, NEW s \in Symbols, NEW t, NEW done \in SUBSET ExitingOnSample(s, t)
    PROVE  /\ done \in SUBSET OpenSymbols
           /\ \A x \in done : /\ x = s /\ Completes(s, t) /\ CandleExit(s) # None
                              /\ CandleTimes[x] \in Int
                              /\ CandleExits[x] \in ExitRequest
<1>1. \A x \in done : x = s /\ Completes(s, t) /\ CandleExit(s) # None
  BY DEF ExitingOnSample
<1> QED BY <1>1, CandleExitType

\* A sample closes some of the positions that exit on it, and loses some of
\* their events.
LEMMA SampleCloses ==
    ASSUME NEW s \in Symbols, NEW t \in Times, NEW bar \in Bars, OnOhlcv(s, t, bar)
    PROVE  \E done \in SUBSET ExitingOnSample(s, t), lost \in SUBSET Symbols :
              /\ RecordClose(done, CandleTimes, CandleExits, lost)
              /\ positions' = [PositionsAfterClose(done) EXCEPT
                    ![s] = PayFunding(@, fundingRate[s], FundingsDue(s, t))]
              /\ "write" \notin Faults => done = ExitingOnSample(s, t) /\ lost = {}
<1>1. PICK failed \in Failing(ExitingOnSample(s, t)) :
         \E lost \in Failing(ExitingOnSample(s, t) \ failed) :
            /\ RecordClose(ExitingOnSample(s, t) \ failed, CandleTimes, CandleExits, lost)
            /\ positions' = [PositionsAfterClose(ExitingOnSample(s, t) \ failed) EXCEPT
                  ![s] = PayFunding(@, fundingRate[s], FundingsDue(s, t))]
  BY DEF OnOhlcv
<1>2. ExitingOnSample(s, t) \ failed \subseteq Symbols
  BY DEF ExitingOnSample
<1>3. Failing(ExitingOnSample(s, t) \ failed) \subseteq SUBSET Symbols
  BY <1>2 DEF Failing
<1>4. "write" \notin Faults => failed = {} /\ \A S : Failing(S) = {{}}
  BY DEF Failing
<1> QED BY <1>1, <1>3, <1>4

\* The closes of finalize are well formed.
LEMMA FinalizeExit ==
    ASSUME TypeOK, NEW prices \in [Symbols -> TickPrices],
           NEW byCandle \in SUBSET StoppedByCandle
    PROVE  \A s \in OpenSymbols :
              /\ FinalizeTs(byCandle)[s] \in Int
              /\ FinalizeExits(byCandle, prices)[s] \in ExitRequest
<1> SUFFICES ASSUME NEW s \in OpenSymbols
             PROVE  /\ FinalizeTs(byCandle)[s] \in Int
                    /\ FinalizeExits(byCandle, prices)[s] \in ExitRequest
  OBVIOUS
<1>1. s \in Symbols /\ positions[s] \in Position
  BY DEF OpenSymbols, TypeOK
<1>2. CASE s \in byCandle
  <2>1. CandleExit(s) # None
    BY <1>2 DEF StoppedByCandle
  <2>2. CandleExits[s] \in ExitRequest /\ CandleTimes[s] \in Int
    BY <1>1, <2>1, CandleExitType
  <2>3. FinalizeTs(byCandle)[s] = CandleTimes[s]
        /\ FinalizeExits(byCandle, prices)[s] = CandleExits[s]
    BY <1>1, <1>2 DEF FinalizeTs, FinalizeExits, CandleExits
  <2> QED BY <2>2, <2>3
<1>3. CASE s \notin byCandle
  <2>1. prices[s] \in Int
    BY <1>1, DataAssumption
  <2>2. FinalPrice(s, prices[s]) \in Int
    BY <1>1, <2>1, NoneAssumption DEF FinalPrice, TypeOK, Position
  <2>3. now \in Int
    BY ConstantsAssumption DEF TypeOK, Times
  <2> QED BY <1>1, <1>3, <2>2, <2>3 DEF FinalizeTs, FinalizeExits, ExitRequest
<1> QED BY <1>2, <1>3

\* A nonempty set of times has a latest one.
LEMMA LatestTime ==
    ASSUME NEW S \in SUBSET Times, S # {}
    PROVE  \E t \in S : \A u \in S : u <= t
<1> DEFINE R == OpToRel(<, Nat)
           T == {MaxTime - t : t \in S}
<1>1. MaxTime \in Nat /\ \A t \in S : t \in Nat /\ t <= MaxTime
  BY ConstantsAssumption DEF Times
<1>2. T \subseteq Nat /\ T # {}
  BY <1>1
<1>3. \A x, y \in Nat : y < x => <<y, x>> \in R
  BY DEF OpToRel
<1>4. IsWellFoundedOn(R, Nat)
  BY NatLessThanWellFounded
<1> HIDE DEF R
<1>5. PICK x \in T : \A y \in T : <<y, x>> \notin R
  <2> HIDE DEF T
  <2> QED BY <1>2, <1>4, WFMin
<1>6. PICK t \in S : x = MaxTime - t
  OBVIOUS
<1>7. ASSUME NEW u \in S PROVE u <= t
  <2>1. MaxTime - u \in T /\ MaxTime - u \in Nat /\ x \in Nat
    BY <1>2
  <2>2. ~(MaxTime - u < x)
    BY <1>3, <1>5, <2>1
  <2> QED BY <1>1, <1>6, <2>2
<1> QED BY <1>7

\* What on_startup loads is the plan of an OPEN row.
LEMMA RehydratedValue ==
    ASSUME NEW s \in Symbols
    PROVE  /\ OpenRows(s) = {} => Rehydrated(s) = None
           /\ OpenRows(s) # {} => \E t \in OpenRows(s) : Rehydrated(s) = rows[s][t].pos
<1>1. OpenRows(s) \in SUBSET Times
  BY DEF OpenRows
<1>2. OpenRows(s) # {} => \E t \in OpenRows(s) : \A u \in OpenRows(s) : u <= t
  BY <1>1, LatestTime
<1> HIDE DEF OpenRows
<1> QED BY <1>2 DEF Rehydrated

\* Memory after the death of the process.
LEMMA MemoryLostType ==
    ASSUME MemoryLost, now' \in Times, rows' \in RowTable, events' \subseteq Event
    PROVE  TypeOK'
<1>1. <<>> \in Seq(Candle) /\ Len(<<>>) <= CandleCap
  BY ConstantsAssumption, EmptySeq
<1> QED
  BY <1>1 DEF MemoryLost, TypeOK, RowTable

\* Every handler keeps the types.
LEMMA TypeStep ==
    ASSUME TypeOK, [Next]_vars
    PROVE  TypeOK'
<1>1. CASE Tick \/ Resume
  <2>1. now' \in Times
    BY <1>1, ConstantsAssumption DEF Tick, Resume, TypeOK, Times
  <2> QED BY <1>1, <2>1 DEF Tick, Resume, TypeOK, memVars, dbVars
<1>2. ASSUME NEW s \in Symbols, NEW price \in TickPrices, OnWsTick(s, price)
      PROVE  TypeOK'
  BY <1>2, DataAssumption DEF OnWsTick, TypeOK, fundingVars, dbVars
<1>3. ASSUME NEW s \in Symbols, NEW rate \in FundingRates, OnTicker(s, rate)
      PROVE  TypeOK'
  BY <1>3, DataAssumption DEF OnTicker, TypeOK, feedVars, dbVars
<1>4. ASSUME NEW s \in Symbols, NEW t \in Times, NEW bar \in Bars, OnOhlcv(s, t, bar)
      PROVE  TypeOK'
  <2>1. PICK done \in SUBSET ExitingOnSample(s, t), lost \in SUBSET Symbols :
           /\ RecordClose(done, CandleTimes, CandleExits, lost)
           /\ positions' = [PositionsAfterClose(done) EXCEPT
                 ![s] = PayFunding(@, fundingRate[s], FundingsDue(s, t))]
    BY <1>4, SampleCloses
  <2>2. /\ done \in SUBSET OpenSymbols
        /\ \A x \in done : CandleTimes[x] \in Int /\ CandleExits[x] \in ExitRequest
    BY SampleExit
  <2>3. rows' \in RowTable /\ closedTrades' \subseteq Trade /\ events' \subseteq Event
    BY <2>1, <2>2, RecordCloseType
  <2>4. positions' \in [Symbols -> Position \cup {None}]
    <3>1. PositionsAfterClose(done) \in [Symbols -> Position \cup {None}]
      BY <2>2, PositionsAfterCloseType
    <3>2. PayFunding(PositionsAfterClose(done)[s], fundingRate[s],
                     FundingsDue(s, t)) \in Position \cup {None}
      BY <3>1, PayFundingType
    <3> QED BY <2>1, <3>1, <3>2
  <2>5. active' \in [Symbols -> Candle \cup {None}]
    <3>1. ActiveAfter(active[s], t, bar) \in Candle
      BY <1>4, ActiveAfterType DEF OnOhlcv
    <3>2. active' = [active EXCEPT ![s] = ActiveAfter(active[s], t, bar)]
      BY <1>4 DEF OnOhlcv
    <3> QED BY <3>1, <3>2 DEF TypeOK
  <2>6. /\ candles' \in [Symbols -> Seq(Candle)]
        /\ \A x \in Symbols : Len(candles'[x]) <= CandleCap
    <3> DEFINE new == IF Completes(s, t) THEN AppendCandle(candles[s], active[s])
                      ELSE candles[s]
    <3>1. new \in Seq(Candle) /\ Len(new) <= CandleCap
      BY AppendCandleType DEF TypeOK, Completes
    <3>2. candles' = [candles EXCEPT ![s] = new]
      BY <1>4 DEF OnOhlcv
    <3> HIDE DEF new
    <3> QED BY <3>1, <3>2 DEF TypeOK
  <2>7. lastPrice' \in [Symbols -> Int \cup {None}]
    BY <1>4, DataAssumption DEF OnOhlcv, TypeOK, PriceAfter
  <2>8. lastMono' \in [Symbols -> Times \cup {None}]
    BY <1>4 DEF OnOhlcv, TypeOK
  <2>9. nextFunding' \in [Symbols -> Int \cup {None}]
    <3>1. NextFundingTs(t) \in Int
      BY ConstantsAssumption DEF NextFundingTs, Times
    <3>2. FundingAfter(s, t) \in Int \cup {None}
      BY <3>1 DEF FundingAfter, TypeOK
    <3> QED BY <1>4, <3>2 DEF OnOhlcv, TypeOK
  <2>10. phase' = phase /\ now' = now /\ fundingRate' = fundingRate
    BY <1>4 DEF OnOhlcv
  <2> QED
    BY <2>3, <2>4, <2>5, <2>6, <2>7, <2>8, <2>9, <2>10 DEF TypeOK, RowTable
<1>5. ASSUME NEW s \in Symbols, NEW dir \in Directions, NEW price \in TickPrices,
             NEW dist \in SlDistances, OnEntry(s, dir, price, dist)
      PROVE  TypeOK'
  <2> DEFINE pos == NewPosition(dir, price, dist)
  <2>1. pos \in Position
    BY NewPositionType
  <2>2. rows' = InsertRow(s, pos) /\ positions' = [positions EXCEPT ![s] = pos]
    BY <1>5 DEF OnEntry
  <2> HIDE DEF pos
  <2>3. rows' \in RowTable
    BY <2>1, <2>2, InsertRowValue
  <2>4. positions' \in [Symbols -> Position \cup {None}]
    BY <2>1, <2>2 DEF TypeOK
  <2>5. events' \subseteq Event
    BY <1>5 DEF OnEntry, TypeOK, Event
  <2> QED
    BY <1>5, <2>3, <2>4, <2>5 DEF OnEntry, TypeOK, RowTable, feedVars, fundingVars
<1>6. ASSUME NEW s \in Symbols, NEW dir \in Directions, NEW price \in TickPrices,
             NEW dist \in SlDistances, CrashInEntry(s, dir, price, dist)
      PROVE  TypeOK'
  <2>1. rows' \in RowTable
    BY <1>6, NewPositionType, InsertRowValue DEF CrashInEntry
  <2> QED BY <1>6, <2>1, MemoryLostType DEF CrashInEntry, TypeOK
<1>7. ASSUME NEW prices \in [Symbols -> TickPrices], Finalize(prices)
      PROVE  TypeOK'
  <2>1. PICK byCandle \in SUBSET StoppedByCandle, done \in SUBSET OpenSymbols,
            lost \in SUBSET Symbols :
           /\ RecordClose(done, FinalizeTs(byCandle),
                          FinalizeExits(byCandle, prices), lost)
           /\ positions' = PositionsAfterClose(done)
    BY <1>7 DEF Finalize, Failing, OpenSymbols
  <2>2. rows' \in RowTable /\ closedTrades' \subseteq Trade /\ events' \subseteq Event
    BY <2>1, FinalizeExit, RecordCloseType
  <2>3. positions' \in [Symbols -> Position \cup {None}]
    BY <2>1, PositionsAfterCloseType
  <2>4. /\ candles' \in [Symbols -> Seq(Candle)]
        /\ \A x \in Symbols : Len(candles'[x]) <= CandleCap
    <3>1. ASSUME NEW x \in Symbols
          PROVE  candles'[x] \in Seq(Candle) /\ Len(candles'[x]) <= CandleCap
      <4>1. candles'[x] = IF active[x] = None THEN candles[x]
                          ELSE AppendCandle(candles[x], active[x])
        BY <1>7 DEF Finalize
      <4> QED BY <4>1, AppendCandleType DEF TypeOK
    <3>2. candles' = [x \in Symbols |-> candles'[x]]
      BY <1>7 DEF Finalize
    <3> QED BY <3>1, <3>2
  <2> QED
    BY <1>7, <2>2, <2>3, <2>4
    DEF Finalize, TypeOK, RowTable, feedVars, fundingVars
<1>8. ASSUME NEW prices \in [Symbols -> TickPrices], CrashInFinalize(prices)
      PROVE  TypeOK'
  <2>1. PICK done \in SUBSET OpenSymbols :
           rows' = RowsAfterClose(done, FinalizeTs(StoppedByCandle),
                                  FinalizeExits(StoppedByCandle, prices))
    BY <1>8 DEF CrashInFinalize
  <2>2. rows' \in RowTable
    BY <2>1, FinalizeExit, RowsAfterCloseValue
  <2> QED BY <1>8, <2>2, MemoryLostType DEF CrashInFinalize, TypeOK
<1>9. CASE Exit
  BY <1>9, MemoryLostType DEF Exit, TypeOK, RowTable, dbVars
<1>10. ASSUME NEW s \in Symbols, CrashInClose(s)
       PROVE  TypeOK'
  <2>1. {s} \in SUBSET OpenSymbols /\ CandleExits[s] \in ExitRequest
        /\ CandleTimes[s] \in Int
    BY <1>10, CandleExitType DEF CrashInClose
  <2>2. rows' \in RowTable
    BY <1>10, <2>1, RowsAfterCloseValue DEF CrashInClose
  <2> QED BY <1>10, <2>2, MemoryLostType DEF CrashInClose, TypeOK
<1>11. ASSUME NEW t \in Times, OnStartup(t)
       PROVE  TypeOK'
  <2>1. ASSUME NEW s \in Symbols PROVE Rehydrated(s) \in Position \cup {None}
    <3>1. \A u \in OpenRows(s) : rows[s][u].pos \in Position
      BY DEF OpenRows, TypeOK, Row
    <3> QED BY <3>1, RehydratedValue
  <2> QED
    BY <1>11, <2>1 DEF OnStartup, TypeOK, feedVars, fundingVars, dbVars
<1>12. CASE UNCHANGED vars
  BY <1>12 DEF vars, memVars, dbVars, TypeOK
<1> QED
  BY <1>1, <1>2, <1>3, <1>4, <1>5, <1>6, <1>7, <1>8, <1>9, <1>10, <1>11, <1>12 DEF Next

\* The state of the manager and of its tables always has the declared types,
\* and the deque of candles never outgrows its maxlen.
THEOREM TypeCorrect == Spec => []TypeOK
<1>1. Init => TypeOK
  <2>1. <<>> \in Seq(Candle) /\ Len(<<>>) <= CandleCap
    BY ConstantsAssumption, EmptySeq
  <2>2. 0 \in Times
    BY ConstantsAssumption DEF Times
  <2> QED BY <2>1, <2>2 DEF Init, TypeOK
<1>2. TypeOK /\ [Next]_vars => TypeOK'
  BY TypeStep
<1> QED BY <1>1, <1>2, PTL DEF Spec

-----------------------------------------------------------------------------
(* The table and the memory agree                                          *)

\* An accepted signal finds its symbol free and a slot left.
LEMMA AcceptedSignal ==
    ASSUME NEW s, NEW dir, NEW price, NEW dist,
           EntryVerdict(s, dir, price, dist) = "ok"
    PROVE  positions[s] = None /\ ~(OpenCount >= MaxPositionsGlobal)
  BY DEF EntryVerdict

\* The position behind a member of OpenSymbols.
LEMMA OpenPosition ==
    ASSUME TypeOK, NEW s \in OpenSymbols
    PROVE  /\ s \in Symbols /\ positions[s] # None
           /\ positions[s] \in Position /\ positions[s].ts \in Times
<1>1. s \in Symbols /\ positions[s] # None /\ positions[s] \in Position
  BY DEF OpenSymbols, TypeOK
<1>2. positions[s].ts \in Times
  BY <1>1 DEF Position
<1> QED BY <1>1, <1>2

\* What a close does to the table, row by row.
LEMMA CloseStep ==
    ASSUME TypeOK, MemoryBackedByDb,
           NEW done \in SUBSET OpenSymbols, NEW ts, NEW exits,
           \A s \in done : ts[s] \in Int /\ exits[s] \in ExitRequest,
           rows' = RowsAfterClose(done, ts, exits)
    PROVE  /\ rows' \in RowTable
           /\ \A s \in Symbols, t \in Times :
                /\ rows'[s][t] = None <=> rows[s][t] = None
                /\ rows[s][t] # None => rows'[s][t].pos = rows[s][t].pos
                /\ (s \in done /\ t = positions[s].ts) =>
                      rows'[s][t].status = "CLOSED"
                /\ ~(s \in done /\ t = positions[s].ts) =>
                      rows'[s][t] = rows[s][t]
<1>1. rows' \in RowTable
  BY RowsAfterCloseValue
<1>2. ASSUME NEW s \in Symbols, NEW t \in Times
      PROVE  /\ rows'[s][t] = None <=> rows[s][t] = None
             /\ rows[s][t] # None => rows'[s][t].pos = rows[s][t].pos
             /\ (s \in done /\ t = positions[s].ts) => rows'[s][t].status = "CLOSED"
             /\ ~(s \in done /\ t = positions[s].ts) => rows'[s][t] = rows[s][t]
  <2>1. rows'[s][t] = IF s \in done /\ t = positions[s].ts
                      THEN CloseRow(rows[s][t], positions[s], ts[s], exits[s])
                      ELSE rows[s][t]
    BY RowsAfterCloseValue
  <2>2. CASE s \in done /\ t = positions[s].ts
    <3>1. rows[s][t] \in Row \cup {None} /\ positions[s] \in Position
      BY <2>2, OpenPosition DEF TypeOK
    <3>2. rows[s][t] # None
      BY <2>2 DEF MemoryBackedByDb
    <3>3. ts[s] \in Int /\ exits[s] \in ExitRequest
      BY <2>2
    <3> QED BY <2>1, <2>2, <3>1, <3>2, <3>3, CloseRowValue
  <2>3. CASE ~(s \in done /\ t = positions[s].ts)
    BY <2>1, <2>3
  <2> QED BY <2>2, <2>3
<1> QED BY <1>1, <1>2

\* After a close, the OPEN rows are the old ones without those of done.
LEMMA OpenRowsAfterClose ==
    ASSUME TypeOK, MemoryBackedByDb,
           NEW done \in SUBSET OpenSymbols, NEW ts, NEW exits,
           \A s \in done : ts[s] \in Int /\ exits[s] \in ExitRequest,
           rows' = RowsAfterClose(done, ts, exits)
    PROVE  \A s \in Symbols :
              OpenRows(s)' = OpenRows(s) \ {t \in Times : s \in done /\ t = positions[s].ts}
<1> SUFFICES ASSUME NEW s \in Symbols
             PROVE  OpenRows(s)' =
                      OpenRows(s) \ {t \in Times : s \in done /\ t = positions[s].ts}
  OBVIOUS
<1>1. ASSUME NEW t \in Times
      PROVE  (t \in OpenRows(s)') <=>
                (t \in OpenRows(s) /\ ~(s \in done /\ t = positions[s].ts))
  <2>1. /\ rows'[s][t] = None <=> rows[s][t] = None
        /\ (s \in done /\ t = positions[s].ts) => rows'[s][t].status = "CLOSED"
        /\ ~(s \in done /\ t = positions[s].ts) => rows'[s][t] = rows[s][t]
    BY CloseStep
  <2> QED BY <2>1 DEF OpenRows
<1>2. OpenRows(s)' \subseteq Times /\ OpenRows(s) \subseteq Times
  BY DEF OpenRows
<1> HIDE DEF OpenRows
<1> QED BY <1>1, <1>2

\* Fewer OPEN rows never break the limits.
LEMMA LimitMonotone ==
    ASSUME LimitSurvivesRestart, \A s \in Symbols : OpenRows(s)' \subseteq OpenRows(s)
    PROVE  LimitSurvivesRestart'
<1> DEFINE S == {s \in Symbols : OpenRows(s) # {}}
           T == {s \in Symbols : OpenRows(s)' # {}}
<1>1. T \subseteq S /\ S \subseteq Symbols
  OBVIOUS
<1>2. IsFiniteSet(S)
  BY <1>1, ConstantsAssumption, FS_Subset
<1>3. Cardinality(T) <= Cardinality(S) /\ Cardinality(S) \in Nat /\ Cardinality(T) \in Nat
  <2>1. IsFiniteSet(T)
    BY <1>1, <1>2, FS_Subset
  <2> HIDE DEF S, T
  <2> QED BY <1>1, <1>2, <2>1, FS_Subset, FS_CardinalityType
<1>4. MaxPositionsGlobal \in Nat
  BY ConstantsAssumption
<1> HIDE DEF OpenRows
<1> QED
  <2> SUFFICES ASSUME "read" \notin Faults
               PROVE  /\ \A s \in Symbols : \A t, u \in OpenRows(s)' : t = u
                      /\ Cardinality(T) <= MaxPositionsGlobal
    BY DEF LimitSurvivesRestart
  <2>1. \A s \in Symbols : \A t, u \in OpenRows(s)' : t = u
    BY DEF LimitSurvivesRestart
  <2>2. Cardinality(S) <= MaxPositionsGlobal
    BY DEF LimitSurvivesRestart
  <2> HIDE DEF S, T
  <2> QED BY <1>3, <1>4, <2>1, <2>2

\* An accepted entry adds one OPEN row under a free key, within the limits.
LEMMA InsertStep ==
    ASSUME IInv, TakesEntries, NEW s \in Symbols, NEW dir \in Directions,
           NEW price \in TickPrices, NEW dist \in SlDistances,
           EntryVerdict(s, dir, price, dist) = "ok",
           rows' = InsertRow(s, NewPosition(dir, price, dist))
    PROVE  /\ rows' \in RowTable
           /\ \A x \in Symbols, t \in Times :
                (x # s \/ t # now) => rows'[x][t] = rows[x][t]
           /\ rows'[s][now] # None
           /\ rows'[s][now].status = "OPEN"
           /\ rows'[s][now].pos = NewPosition(dir, price, dist)
           /\ LimitSurvivesRestart'
<1> DEFINE pos == NewPosition(dir, price, dist)
<1>1. TypeOK /\ now \in Times
  BY DEF IInv, TypeOK
<1>2. pos \in Position /\ pos.ts = now
  BY <1>1, NewPositionType
<1>3. positions[s] = None /\ ~(OpenCount >= MaxPositionsGlobal)
  BY AcceptedSignal
<1>4. rows[s][now] = None
  BY <1>3 DEF IInv, PresentRowIsHeld
<1> HIDE DEF pos
<1>5. /\ rows' \in RowTable
      /\ \A x \in Symbols, t \in Times :
           (x # s \/ t # now) => rows'[x][t] = rows[x][t]
      /\ rows'[s][now] # None
      /\ rows'[s][now].status = "OPEN"
      /\ rows'[s][now].pos = pos
  <2>1. rows' = InsertRow(s, pos)
    BY DEF pos
  <2> QED BY <1>1, <1>2, <1>4, <2>1, InsertRowValue
<1>6. LimitSurvivesRestart'
  <2> SUFFICES ASSUME "read" \notin Faults PROVE LimitSurvivesRestart'
    BY DEF LimitSurvivesRestart
  <2> DEFINE T == {x \in Symbols : OpenRows(x)' # {}}
  <2>1. \A x \in Symbols : OpenRows(x) # {} => x \in OpenSymbols
    BY DEF IInv, OpenRowsAreWatched, OpenSymbols, TakesEntries
  <2>2. OpenRows(s) = {}
    BY <1>3, <2>1 DEF OpenSymbols
  <2>3. ASSUME NEW x \in Symbols
        PROVE  /\ x # s => OpenRows(x)' = OpenRows(x)
               /\ \A t \in OpenRows(s)' : t = now
    BY <1>5, <2>2 DEF OpenRows
  <2>4. \A x \in Symbols : \A t, u \in OpenRows(x)' : t = u
    <3>1. \A x \in Symbols : \A t, u \in OpenRows(x) : t = u
      BY DEF IInv, LimitSurvivesRestart
    <3> HIDE DEF OpenRows
    <3> QED BY <2>3, <3>1
  <2>5. T \subseteq OpenSymbols \cup {s}
    <3> HIDE DEF OpenRows, OpenSymbols
    <3> QED BY <2>1, <2>3
  <2>6. IsFiniteSet(OpenSymbols) /\ s \notin OpenSymbols
    <3>1. OpenSymbols \subseteq Symbols
      BY DEF OpenSymbols
    <3>2. IsFiniteSet(OpenSymbols)
      BY <3>1, ConstantsAssumption, FS_Subset
    <3> QED BY <1>3, <3>2 DEF OpenSymbols
  <2>7. /\ IsFiniteSet(OpenSymbols \cup {s})
        /\ Cardinality(OpenSymbols \cup {s}) = Cardinality(OpenSymbols) + 1
        /\ Cardinality(OpenSymbols) \in Nat
    <3> HIDE DEF OpenSymbols
    <3> QED BY <2>6, FS_AddElement, FS_CardinalityType
  <2> HIDE DEF T, OpenSymbols
  <2>8. Cardinality(T) <= Cardinality(OpenSymbols \cup {s}) /\ Cardinality(T) \in Nat
    BY <2>5, <2>7, FS_Subset, FS_CardinalityType
  <2>9. MaxPositionsGlobal \in Nat /\ ~(Cardinality(OpenSymbols) >= MaxPositionsGlobal)
    BY <1>3, ConstantsAssumption DEF OpenCount
  <2>10. Cardinality(T) <= MaxPositionsGlobal
    BY <2>7, <2>8, <2>9
  <2> HIDE DEF OpenRows
  <2> QED BY <2>4, <2>10 DEF LimitSurvivesRestart, T
<1> QED BY <1>5, <1>6 DEF pos

\* Once the process is dead only the table matters.
LEMMA DownStep ==
    ASSUME MemoryLost, TypeOK', RowsKeyed', LimitSurvivesRestart'
    PROVE  IInv'
<1>1. phase' = "down" /\ OpenSymbols' = {}
  BY DEF MemoryLost, OpenSymbols
<1>2. ActiveNotFuture'
  BY DEF MemoryLost, ActiveNotFuture
<1>3. MemoryBackedByDb'
  BY <1>1 DEF MemoryBackedByDb
<1> QED
  BY <1>1, <1>2, <1>3
  DEF IInv, PresentRowIsHeld, TakesEntries, DownIsEmpty, OpenRowsAreWatched

\* A close by a running manager, with or without funding for the positions
\* that stay open, keeps everything the invariant says of table and memory.
LEMMA CloseKeepsAgreement ==
    ASSUME IInv, now' = now,
           NEW done \in SUBSET OpenSymbols, NEW ts, NEW exits,
           \A s \in done : ts[s] \in Int /\ exits[s] \in ExitRequest,
           rows' = RowsAfterClose(done, ts, exits),
           phase # "down",
           \A s \in Symbols :
              /\ s \in done => positions'[s] = None
              /\ s \notin done =>
                    /\ positions'[s] = None <=> positions[s] = None
                    /\ positions[s] # None =>
                         \A f \in {"ts", "dir", "entry", "sl", "tp", "fee"} :
                              positions'[s][f] = positions[s][f]
    PROVE  /\ RowsKeyed'
           /\ MemoryBackedByDb'
           /\ OpenRowsAreWatched'
           /\ LimitSurvivesRestart'
           /\ \A s \in Symbols : rows'[s][now] # None => rows[s][now] # None
<1>1. TypeOK /\ MemoryBackedByDb /\ RowsKeyed /\ OpenRowsAreWatched
      /\ LimitSurvivesRestart
  BY DEF IInv
<1>2. \A s \in Symbols, t \in Times :
         /\ rows'[s][t] = None <=> rows[s][t] = None
         /\ rows[s][t] # None => rows'[s][t].pos = rows[s][t].pos
         /\ ~(s \in done /\ t = positions[s].ts) => rows'[s][t] = rows[s][t]
  BY <1>1, CloseStep
<1>3. \A s \in Symbols :
         OpenRows(s)' = OpenRows(s) \ {t \in Times : s \in done /\ t = positions[s].ts}
  BY <1>1, OpenRowsAfterClose
<1>4. RowsKeyed'
  BY <1>1, <1>2 DEF RowsKeyed
<1>5. LimitSurvivesRestart'
  <2>1. \A s \in Symbols : OpenRows(s)' \subseteq OpenRows(s)
    <3> HIDE DEF OpenRows
    <3> QED BY <1>3
  <2> QED BY <1>1, <2>1, LimitMonotone
<1>6. MemoryBackedByDb'
  <2> SUFFICES ASSUME NEW s \in OpenSymbols'
               PROVE  LET row == rows'[s][positions'[s].ts]
                      IN  /\ row # None
                          /\ row.status = "OPEN"
                          /\ \A f \in {"ts", "dir", "entry", "sl", "tp", "fee"} :
                                  row.pos[f] = positions'[s][f]
    BY DEF MemoryBackedByDb
  <2>1. s \in Symbols /\ positions'[s] # None
    BY DEF OpenSymbols
  <2>2. s \notin done /\ positions[s] # None /\ s \in OpenSymbols
    BY <2>1 DEF OpenSymbols
  <2>3. positions'[s].ts = positions[s].ts /\ positions[s].ts \in Times
    BY <1>1, <2>1, <2>2, OpenPosition
  <2>4. rows'[s][positions[s].ts] = rows[s][positions[s].ts]
    BY <1>2, <2>1, <2>2, <2>3
  <2>5. \A f \in {"ts", "dir", "entry", "sl", "tp", "fee"} :
           positions'[s][f] = positions[s][f]
    BY <2>1, <2>2
  <2> QED BY <1>1, <2>2, <2>3, <2>4, <2>5 DEF MemoryBackedByDb
<1>7. OpenRowsAreWatched'
  <2> SUFFICES ASSUME "read" \notin Faults, NEW s \in Symbols, NEW t \in OpenRows(s)'
               PROVE  positions'[s] # None /\ positions'[s].ts = t
    BY DEF OpenRowsAreWatched
  <2>1. t \in OpenRows(s) /\ t \in Times /\ ~(s \in done /\ t = positions[s].ts)
    <3>1. t \in OpenRows(s) /\ ~(t \in Times /\ s \in done /\ t = positions[s].ts)
      <4> HIDE DEF OpenRows
      <4> QED BY <1>3
    <3> QED BY <3>1 DEF OpenRows
  <2>2. positions[s] # None /\ positions[s].ts = t
    BY <1>1, <2>1 DEF OpenRowsAreWatched
  <2> QED BY <2>1, <2>2
<1>8. \A s \in Symbols : rows'[s][now] # None => rows[s][now] # None
  BY <1>1, <1>2 DEF TypeOK
<1> QED BY <1>4, <1>5, <1>6, <1>7, <1>8

-----------------------------------------------------------------------------
(* The invariant, handler by handler                                       *)

LEMMA InitInvariant ==
    Init => IInv
<1> SUFFICES ASSUME Init PROVE IInv
  OBVIOUS
<1>1. TypeOK
  <2>1. <<>> \in Seq(Candle) /\ Len(<<>>) <= CandleCap
    BY ConstantsAssumption, EmptySeq
  <2>2. 0 \in Times
    BY ConstantsAssumption DEF Times
  <2> QED BY <2>1, <2>2 DEF Init, TypeOK
<1>2. /\ \A s \in Symbols : positions[s] = None /\ active[s] = None
      /\ \A s \in Symbols, t \in Times : rows[s][t] = None
      /\ now \in Times /\ phase = "up"
  BY <1>1 DEF Init, TypeOK
<1>3. OpenSymbols = {} /\ \A s \in Symbols : OpenRows(s) = {}
  BY <1>2 DEF OpenSymbols, OpenRows
<1>4. LimitSurvivesRestart
  <2>1. {s \in Symbols : OpenRows(s) # {}} = {}
    BY <1>3
  <2>2. Cardinality({}) = 0 /\ MaxPositionsGlobal \in Nat
    BY FS_EmptySet, ConstantsAssumption
  <2> HIDE DEF OpenRows
  <2> QED BY <1>3, <2>1, <2>2 DEF LimitSurvivesRestart
<1>5. OpenRowsAreWatched
  <2> HIDE DEF OpenRows
  <2> QED BY <1>3 DEF OpenRowsAreWatched
<1> QED
  BY <1>1, <1>2, <1>3, <1>4, <1>5
  DEF IInv, RowsKeyed, ActiveNotFuture, PresentRowIsHeld, DownIsEmpty,
      MemoryBackedByDb

\* A step that leaves positions, table, phase, clock and active candles alone.
LEMMA QuietStep ==
    ASSUME IInv, TypeOK',
           UNCHANGED <<phase, now, positions, active, rows>>
    PROVE  IInv'
  BY DEF IInv, RowsKeyed, ActiveNotFuture, PresentRowIsHeld, TakesEntries,
         DownIsEmpty, MemoryBackedByDb, OpenRowsAreWatched, LimitSurvivesRestart,
         OpenSymbols, OpenRows

\* Time passes.
LEMMA TickStep ==
    ASSUME IInv, TypeOK', Tick \/ Resume
    PROVE  IInv'
<1>1. /\ now \in Times /\ now' \in Times /\ now' = now + 1 /\ now \in Nat
      /\ phase' = "down" <=> phase = "down"
      /\ UNCHANGED <<positions, active, rows>>
  BY ConstantsAssumption DEF IInv, TypeOK, Tick, Resume, memVars, dbVars, Times
<1>2. RowsKeyed'
  <2>1. RowsKeyed
    BY DEF IInv
  <2> SUFFICES ASSUME NEW s \in Symbols, NEW t \in Times, rows[s][t] # None
               PROVE  t <= now' /\ rows[s][t].pos.ts = t
    BY <1>1 DEF RowsKeyed
  <2>2. t <= now /\ rows[s][t].pos.ts = t /\ t \in Nat
    BY <2>1, ConstantsAssumption DEF RowsKeyed, Times
  <2> QED BY <1>1, <2>2
<1>3. \A s \in Symbols : rows[s][now'] = None
  <2> SUFFICES ASSUME NEW s \in Symbols, rows[s][now'] # None PROVE FALSE
    OBVIOUS
  <2>1. now' <= now
    BY <1>1 DEF IInv, RowsKeyed
  <2> QED BY <1>1, <2>1
<1>4. PresentRowIsHeld'
  BY <1>1, <1>3 DEF PresentRowIsHeld
<1>5. ActiveNotFuture'
  <2> SUFFICES ASSUME NEW s \in Symbols, active[s] # None
               PROVE  active[s].b <= Bucket(now')
    BY <1>1 DEF ActiveNotFuture, Bucket
  <2>1. active[s].b <= Bucket(now)
    BY DEF IInv, ActiveNotFuture
  <2>2. Bucket(now) \in Buckets /\ Bucket(now) <= Bucket(now')
    BY <1>1, BucketType
  <2>3. Bucket(now') \in Buckets
    BY <1>1, BucketType
  <2>4. active[s].b \in Buckets
    BY DEF IInv, TypeOK, Candle
  <2> HIDE DEF Bucket
  <2>5. \A x \in Buckets : x \in Int
    BY ConstantsAssumption DEF Buckets
  <2> QED BY <2>1, <2>2, <2>3, <2>4, <2>5
<1>6. DownIsEmpty' /\ MemoryBackedByDb' /\ OpenRowsAreWatched' /\ LimitSurvivesRestart'
  BY <1>1 DEF IInv, DownIsEmpty, MemoryBackedByDb, OpenRowsAreWatched,
              LimitSurvivesRestart, OpenSymbols, OpenRows
<1> QED BY <1>2, <1>4, <1>5, <1>6 DEF IInv

\* A candle exit closes a position of an earlier bucket, hence of an earlier
\* moment.
LEMMA ExitIsLater ==
    ASSUME IInv, NEW s \in Symbols, CandleExit(s) # None
    PROVE  positions[s].ts # now
<1>1. TypeOK /\ now \in Times
  BY DEF IInv, TypeOK
<1>2. active[s] \in Candle /\ ~(active[s].b <= Bucket(positions[s].ts))
  BY <1>1, CandleExitType
<1>3. active[s].b <= Bucket(now)
  BY <1>2, NoneAssumption DEF IInv, ActiveNotFuture
<1> QED BY <1>2, <1>3

LEMMA OhlcvStep ==
    ASSUME IInv, TypeOK', NEW s \in Symbols, NEW t \in Times, NEW bar \in Bars,
           OnOhlcv(s, t, bar)
    PROVE  IInv'
<1>1. TypeOK /\ now \in Times
  BY DEF IInv, TypeOK
<1>2. PICK done \in SUBSET ExitingOnSample(s, t), lost \in SUBSET Symbols :
         /\ RecordClose(done, CandleTimes, CandleExits, lost)
         /\ positions' = [PositionsAfterClose(done) EXCEPT
               ![s] = PayFunding(@, fundingRate[s], FundingsDue(s, t))]
  BY SampleCloses
<1>3. /\ done \in SUBSET OpenSymbols
      /\ \A x \in done : /\ x = s /\ CandleExit(x) # None
                         /\ CandleTimes[x] \in Int
                         /\ CandleExits[x] \in ExitRequest
  BY <1>1, SampleExit
<1>4. rows' = RowsAfterClose(done, CandleTimes, CandleExits)
  BY <1>2 DEF RecordClose
<1>5. phase' = phase /\ now' = now /\ phase # "down"
  BY DEF OnOhlcv, Running
<1>6. \A x \in Symbols :
         /\ x \in done => positions'[x] = None
         /\ x \notin done =>
               /\ positions'[x] = None <=> positions[x] = None
               /\ positions[x] # None =>
                    \A f \in {"ts", "dir", "entry", "sl", "tp", "fee"} :
                         positions'[x][f] = positions[x][f]
  <2> DEFINE old == PositionsAfterClose(done)
  <2>1. /\ old \in [Symbols -> Position \cup {None}]
        /\ \A x \in Symbols : old[x] = IF x \in done THEN None ELSE positions[x]
    BY <1>1, <1>3, PositionsAfterCloseType DEF PositionsAfterClose
  <2> DEFINE paid == PayFunding(old[s], fundingRate[s], FundingsDue(s, t))
  <2>2. positions' = [old EXCEPT ![s] = paid]
    BY <1>2
  <2> HIDE DEF old
  <2>3. /\ paid = None <=> old[s] = None
        /\ old[s] # None =>
             \A f \in {"ts", "dir", "entry", "sl", "tp", "fee"} : paid[f] = old[s][f]
    <3>1. old[s] \in Position \cup {None}
      BY <2>1
    <3> QED BY <1>1, <3>1, PayFundingType
  <2> HIDE DEF paid
  <2>4. \A x \in Symbols : positions'[x] = IF x = s THEN paid ELSE old[x]
    BY <2>1, <2>2
  <2> QED BY <2>1, <2>3, <2>4
<1>7. /\ RowsKeyed' /\ MemoryBackedByDb' /\ OpenRowsAreWatched' /\ LimitSurvivesRestart'
      /\ \A x \in Symbols : rows'[x][now] # None => rows[x][now] # None
  BY <1>3, <1>4, <1>5, <1>6, CloseKeepsAgreement
<1>8. PresentRowIsHeld'
  <2> SUFFICES ASSUME TakesEntries, NEW x \in Symbols, rows'[x][now] # None
               PROVE  positions'[x] # None /\ positions'[x].ts = now
    BY <1>5 DEF PresentRowIsHeld, TakesEntries
  <2>1. positions[x] # None /\ positions[x].ts = now
    BY <1>7 DEF IInv, PresentRowIsHeld
  <2>2. x \notin done
    BY <1>3, <2>1, ExitIsLater
  <2> QED BY <1>6, <2>1, <2>2
<1>9. ActiveNotFuture'
  <2>1. active' = [active EXCEPT ![s] = ActiveAfter(active[s], t, bar)] /\ t <= now
    BY DEF OnOhlcv
  <2>2. ASSUME NEW x \in Symbols, active'[x] # None
        PROVE  active'[x].b <= Bucket(now)
    <3>1. CASE x # s
      BY <1>1, <2>1, <2>2, <3>1 DEF IInv, ActiveNotFuture, TypeOK
    <3>2. CASE x = s
      <4>1. active'[s] = ActiveAfter(active[s], t, bar)
        BY <1>1, <2>1 DEF TypeOK
      <4>2. Bucket(t) <= Bucket(now)
        BY <1>1, <2>1, BucketType
      <4>3. active[s] # None => active[s].b <= Bucket(now)
        BY DEF IInv, ActiveNotFuture
      <4> QED BY <1>1, <2>1, <3>2, <4>1, <4>2, <4>3, ActiveAfterType
    <3> QED BY <3>1, <3>2
  <2> QED BY <1>5, <2>2 DEF ActiveNotFuture, Bucket
<1>10. DownIsEmpty'
  BY <1>5 DEF DownIsEmpty
<1> QED BY <1>7, <1>8, <1>9, <1>10 DEF IInv

LEMMA EntryStep ==
    ASSUME IInv, TypeOK', NEW s \in Symbols, NEW dir \in Directions,
           NEW price \in TickPrices, NEW dist \in SlDistances,
           OnEntry(s, dir, price, dist)
    PROVE  IInv'
<1> DEFINE pos == NewPosition(dir, price, dist)
<1>1. TypeOK /\ now \in Times
  BY DEF IInv, TypeOK
<1>2. pos \in Position /\ pos.ts = now
  BY <1>1, NewPositionType
<1>3. /\ TakesEntries /\ phase # "down" /\ phase' = phase /\ now' = now /\ active' = active
      /\ positions' = [positions EXCEPT ![s] = pos]
      /\ EntryVerdict(s, dir, price, dist) = "ok"
      /\ rows' = InsertRow(s, pos)
  BY DEF OnEntry, TakesEntries
<1>4. /\ \A x \in Symbols, t \in Times :
           (x # s \/ t # now) => rows'[x][t] = rows[x][t]
      /\ rows'[s][now] # None
      /\ rows'[s][now].status = "OPEN"
      /\ rows'[s][now].pos = pos
      /\ LimitSurvivesRestart'
  BY <1>3, InsertStep
<1> HIDE DEF pos
<1>5. \A x \in Symbols : positions'[x] = IF x = s THEN pos ELSE positions[x]
  BY <1>1, <1>3 DEF TypeOK
<1>6. pos # None /\ positions[s] = None
  BY <1>2, <1>3, NoneAssumption, AcceptedSignal
<1>7. RowsKeyed'
  <2> SUFFICES ASSUME NEW x \in Symbols, NEW t \in Times, rows'[x][t] # None
               PROVE  t <= now /\ rows'[x][t].pos.ts = t
    BY <1>3 DEF RowsKeyed
  <2>1. CASE x = s /\ t = now
    <3>1. now <= now
      BY <1>1, ConstantsAssumption DEF Times
    <3> QED BY <1>2, <1>4, <2>1, <3>1
  <2>2. CASE ~(x = s /\ t = now)
    BY <1>4, <2>2 DEF IInv, RowsKeyed
  <2> QED BY <2>1, <2>2
<1>8. PresentRowIsHeld'
  <2> SUFFICES ASSUME NEW x \in Symbols, rows'[x][now] # None
               PROVE  positions'[x] # None /\ positions'[x].ts = now
    BY <1>3 DEF PresentRowIsHeld
  <2>1. CASE x = s
    BY <1>2, <1>5, <1>6, <2>1
  <2>2. CASE x # s
    BY <1>1, <1>3, <1>4, <1>5, <2>2 DEF IInv, PresentRowIsHeld
  <2> QED BY <2>1, <2>2
<1>9. MemoryBackedByDb'
  <2> SUFFICES ASSUME NEW x \in OpenSymbols'
               PROVE  LET row == rows'[x][positions'[x].ts]
                      IN  /\ row # None
                          /\ row.status = "OPEN"
                          /\ \A f \in {"ts", "dir", "entry", "sl", "tp", "fee"} :
                                  row.pos[f] = positions'[x][f]
    BY DEF MemoryBackedByDb
  <2>1. CASE x = s
    BY <1>2, <1>4, <1>5, <2>1 DEF OpenSymbols
  <2>2. CASE x # s
    <3>1. x \in OpenSymbols /\ positions'[x] = positions[x]
      BY <1>5, <2>2 DEF OpenSymbols
    <3>2. x \in Symbols /\ positions[x].ts \in Times
      BY <1>1, <3>1, OpenPosition
    <3>3. rows'[x][positions[x].ts] = rows[x][positions[x].ts]
      BY <1>4, <2>2, <3>2
    <3> QED BY <3>1, <3>3 DEF IInv, MemoryBackedByDb
  <2> QED BY <2>1, <2>2
<1>10. OpenRowsAreWatched'
  <2> SUFFICES ASSUME "read" \notin Faults, NEW x \in Symbols, NEW t \in Times,
                      rows'[x][t] # None, rows'[x][t].status = "OPEN"
               PROVE  positions'[x] # None /\ positions'[x].ts = t
    BY DEF OpenRowsAreWatched, OpenRows
  <2>1. CASE x = s /\ t = now
    BY <1>2, <1>5, <1>6, <2>1
  <2>2. CASE ~(x = s /\ t = now)
    <3>1. t \in OpenRows(x)
      BY <1>4, <2>2 DEF OpenRows
    <3>2. positions[x] # None /\ positions[x].ts = t
      BY <1>3, <3>1 DEF IInv, OpenRowsAreWatched
    <3> QED BY <1>5, <1>6, <3>2
  <2> QED BY <2>1, <2>2
<1>11. ActiveNotFuture' /\ DownIsEmpty'
  BY <1>3 DEF IInv, ActiveNotFuture, DownIsEmpty, Bucket
<1> QED BY <1>4, <1>7, <1>8, <1>9, <1>10, <1>11 DEF IInv

LEMMA FinalizeStep ==
    ASSUME IInv, TypeOK', NEW prices \in [Symbols -> TickPrices], Finalize(prices)
    PROVE  IInv'
<1>1. TypeOK
  BY DEF IInv
<1>2. PICK byCandle \in SUBSET StoppedByCandle, done \in SUBSET OpenSymbols,
            lost \in SUBSET Symbols :
         /\ RecordClose(done, FinalizeTs(byCandle),
                        FinalizeExits(byCandle, prices), lost)
         /\ positions' = PositionsAfterClose(done)
  BY DEF Finalize, Failing, OpenSymbols
<1>3. /\ rows' = RowsAfterClose(done, FinalizeTs(byCandle),
                                FinalizeExits(byCandle, prices))
      /\ \A s \in done : /\ FinalizeTs(byCandle)[s] \in Int
                         /\ FinalizeExits(byCandle, prices)[s] \in ExitRequest
  BY <1>1, <1>2, FinalizeExit DEF RecordClose
<1>4. phase = "up" /\ phase' = "drained" /\ now' = now
  BY DEF Finalize
<1>5. \A s \in Symbols : positions'[s] = IF s \in done THEN None ELSE positions[s]
  BY <1>2 DEF PositionsAfterClose
<1>6. RowsKeyed' /\ MemoryBackedByDb' /\ OpenRowsAreWatched' /\ LimitSurvivesRestart'
  BY <1>3, <1>4, <1>5, CloseKeepsAgreement
<1>7. ActiveNotFuture'
  <2>1. \A s \in Symbols : active'[s] = None
    BY DEF Finalize
  <2> QED BY <2>1 DEF ActiveNotFuture
<1> QED
  BY <1>4, <1>6, <1>7 DEF IInv, PresentRowIsHeld, TakesEntries, DownIsEmpty

\* The process dies after the commit of some closes.
LEMMA CrashAfterClose ==
    ASSUME IInv, TypeOK', MemoryLost, now' = now,
           NEW done \in SUBSET OpenSymbols, NEW ts, NEW exits,
           \A s \in done : ts[s] \in Int /\ exits[s] \in ExitRequest,
           rows' = RowsAfterClose(done, ts, exits)
    PROVE  IInv'
<1>1. TypeOK /\ MemoryBackedByDb /\ RowsKeyed /\ LimitSurvivesRestart
  BY DEF IInv
<1>2. RowsKeyed'
  <2>1. \A s \in Symbols, t \in Times :
           /\ rows'[s][t] = None <=> rows[s][t] = None
           /\ rows[s][t] # None => rows'[s][t].pos = rows[s][t].pos
    BY <1>1, CloseStep
  <2> QED BY <1>1, <2>1 DEF RowsKeyed
<1>3. LimitSurvivesRestart'
  <2>1. \A s \in Symbols : OpenRows(s)' =
           OpenRows(s) \ {t \in Times : s \in done /\ t = positions[s].ts}
    BY <1>1, OpenRowsAfterClose
  <2>2. \A s \in Symbols : OpenRows(s)' \subseteq OpenRows(s)
    <3> HIDE DEF OpenRows
    <3> QED BY <2>1
  <2> QED BY <1>1, <2>2, LimitMonotone
<1> QED BY <1>2, <1>3, DownStep

\* The process dies after the commit of an entry.
LEMMA CrashInEntryStep ==
    ASSUME IInv, TypeOK', NEW s \in Symbols, NEW dir \in Directions,
           NEW price \in TickPrices, NEW dist \in SlDistances,
           CrashInEntry(s, dir, price, dist)
    PROVE  IInv'
<1>1. /\ TakesEntries /\ now' = now /\ MemoryLost
      /\ EntryVerdict(s, dir, price, dist) = "ok"
      /\ rows' = InsertRow(s, NewPosition(dir, price, dist))
  BY DEF CrashInEntry
<1>2. /\ \A x \in Symbols, t \in Times :
           (x # s \/ t # now) => rows'[x][t] = rows[x][t]
      /\ rows'[s][now].pos = NewPosition(dir, price, dist)
      /\ LimitSurvivesRestart'
  BY <1>1, InsertStep
<1>3. TypeOK /\ now \in Times
  BY DEF IInv, TypeOK
<1>4. rows'[s][now].pos.ts = now /\ now <= now
  BY <1>2, <1>3, NewPositionType, ConstantsAssumption DEF Times
<1>5. RowsKeyed'
  <2> SUFFICES ASSUME NEW x \in Symbols, NEW t \in Times, rows'[x][t] # None
               PROVE  t <= now /\ rows'[x][t].pos.ts = t
    BY <1>1 DEF RowsKeyed
  <2>1. CASE x = s /\ t = now
    BY <1>4, <2>1
  <2>2. CASE ~(x = s /\ t = now)
    BY <1>2, <2>2 DEF IInv, RowsKeyed
  <2> QED BY <2>1, <2>2
<1> QED BY <1>1, <1>2, <1>5, DownStep

\* The manager starts again, later than every row.
LEMMA StartupStep ==
    ASSUME IInv, TypeOK', NEW t \in Times, OnStartup(t)
    PROVE  IInv'
<1>1. /\ phase = "down" /\ phase' = "up" /\ now' = t /\ t > now
      /\ active' = active /\ rows' = rows /\ now \in Times /\ TypeOK
  BY DEF OnStartup, IInv, TypeOK, dbVars
<1>2. \A x \in Times : x \in Nat
  BY ConstantsAssumption DEF Times
<1>3. OpenSymbols = {} /\ \A s \in Symbols : positions[s] = None
  BY <1>1 DEF IInv, DownIsEmpty, OpenSymbols
<1>4. RowsKeyed' /\ \A s \in Symbols : rows[s][t] = None
  BY <1>1, <1>2 DEF IInv, RowsKeyed
<1>5. PresentRowIsHeld'
  BY <1>1, <1>4 DEF PresentRowIsHeld
<1>6. ActiveNotFuture'
  <2> SUFFICES ASSUME NEW s \in Symbols, active[s] # None
               PROVE  active[s].b <= Bucket(t)
    BY <1>1 DEF ActiveNotFuture, Bucket
  <2>1. active[s].b <= Bucket(now) /\ active[s].b \in Buckets
    BY <1>1 DEF IInv, ActiveNotFuture, TypeOK, Candle
  <2>2. Bucket(now) \in Buckets /\ Bucket(now) <= Bucket(t) /\ Bucket(t) \in Buckets
    <3>1. now <= t /\ t <= t
      BY <1>1, <1>2
    <3> QED BY <1>1, <3>1, BucketType
  <2> HIDE DEF Bucket
  <2>3. \A x \in Buckets : x \in Int
    BY ConstantsAssumption DEF Buckets
  <2> QED BY <2>1, <2>2, <2>3
<1>7. \A s \in Symbols : OpenRows(s)' = OpenRows(s)
  BY <1>1 DEF OpenRows
<1>8. LimitSurvivesRestart'
  <2>1. LimitSurvivesRestart
    BY DEF IInv
  <2> HIDE DEF OpenRows
  <2> QED BY <1>7, <2>1, LimitMonotone
<1>9. CASE positions' = [s \in Symbols |-> Rehydrated(s)]
  <2>1. \A s \in Symbols :
           /\ OpenRows(s) = {} => positions'[s] = None
           /\ OpenRows(s) # {} =>
                \E u \in OpenRows(s) : positions'[s] = rows[s][u].pos
    BY <1>9, RehydratedValue
  <2>2. \A s \in Symbols : \A u \in OpenRows(s) :
           /\ u \in Times /\ rows[s][u] # None /\ rows[s][u].status = "OPEN"
           /\ rows[s][u].pos \in Position /\ rows[s][u].pos # None
           /\ rows[s][u].pos.ts = u
    <3> SUFFICES ASSUME NEW s \in Symbols, NEW u \in OpenRows(s)
                 PROVE  /\ u \in Times /\ rows[s][u] # None /\ rows[s][u].status = "OPEN"
                        /\ rows[s][u].pos \in Position /\ rows[s][u].pos # None
                        /\ rows[s][u].pos.ts = u
      OBVIOUS
    <3>1. u \in Times /\ rows[s][u] # None /\ rows[s][u].status = "OPEN"
      BY DEF OpenRows
    <3>2. rows[s][u] \in Row
      BY <1>1, <3>1 DEF TypeOK
    <3>3. rows[s][u].pos \in Position /\ rows[s][u].pos # None
      BY <3>2, NoneAssumption DEF Row
    <3>4. rows[s][u].pos.ts = u
      BY <3>1 DEF IInv, RowsKeyed
    <3> QED BY <3>1, <3>3, <3>4
  <2> HIDE DEF OpenRows
  <2>3. MemoryBackedByDb'
    <3> SUFFICES ASSUME NEW s \in Symbols, positions'[s] # None
                 PROVE  LET row == rows[s][positions'[s].ts]
                        IN  /\ row # None
                            /\ row.status = "OPEN"
                            /\ \A f \in {"ts", "dir", "entry", "sl", "tp", "fee"} :
                                    row.pos[f] = positions'[s][f]
      BY <1>1 DEF MemoryBackedByDb, OpenSymbols
    <3>1. PICK u \in OpenRows(s) : positions'[s] = rows[s][u].pos
      BY <2>1
    <3>2. positions'[s].ts = u
      BY <2>2, <3>1
    <3> QED BY <2>2, <3>1, <3>2
  <2>4. OpenRowsAreWatched'
    <3> SUFFICES ASSUME "read" \notin Faults, NEW s \in Symbols, NEW u \in OpenRows(s)
                 PROVE  positions'[s] # None /\ positions'[s].ts = u
      BY <1>7 DEF OpenRowsAreWatched
    <3>1. PICK v \in OpenRows(s) : positions'[s] = rows[s][v].pos
      BY <2>1
    <3>2. v = u
      BY DEF IInv, LimitSurvivesRestart
    <3> QED BY <2>2, <3>1, <3>2
  <2> QED
    BY <1>1, <1>4, <1>5, <1>6, <1>8, <2>3, <2>4 DEF IInv, DownIsEmpty
<1>10. CASE "read" \in Faults /\ positions' = positions
  <2>1. MemoryBackedByDb'
    BY <1>3, <1>10 DEF MemoryBackedByDb, OpenSymbols
  <2>2. OpenRowsAreWatched'
    BY <1>10 DEF OpenRowsAreWatched
  <2> QED
    BY <1>1, <1>4, <1>5, <1>6, <1>8, <2>1, <2>2 DEF IInv, DownIsEmpty
<1> QED BY <1>9, <1>10 DEF OnStartup

LEMMA InvariantStep ==
    ASSUME IInv, [Next]_vars
    PROVE  IInv'
<1>1. TypeOK /\ TypeOK'
  BY TypeStep DEF IInv
<1>2. CASE Tick \/ Resume
  BY <1>1, <1>2, TickStep
<1>3. ASSUME NEW s \in Symbols, NEW price \in TickPrices, OnWsTick(s, price)
      PROVE  IInv'
  BY <1>1, <1>3, QuietStep DEF OnWsTick, dbVars
<1>4. ASSUME NEW s \in Symbols, NEW rate \in FundingRates, OnTicker(s, rate)
      PROVE  IInv'
  BY <1>1, <1>4, QuietStep DEF OnTicker, dbVars
<1>5. ASSUME NEW s \in Symbols, NEW t \in Times, NEW bar \in Bars, OnOhlcv(s, t, bar)
      PROVE  IInv'
  BY <1>1, <1>5, OhlcvStep
<1>6. ASSUME NEW s \in Symbols, NEW dir \in Directions, NEW price \in TickPrices,
             NEW dist \in SlDistances, OnEntry(s, dir, price, dist)
      PROVE  IInv'
  BY <1>1, <1>6, EntryStep
<1>7. ASSUME NEW s \in Symbols, NEW dir \in Directions, NEW price \in TickPrices,
             NEW dist \in SlDistances, CrashInEntry(s, dir, price, dist)
      PROVE  IInv'
  BY <1>1, <1>7, CrashInEntryStep
<1>8. ASSUME NEW prices \in [Symbols -> TickPrices], Finalize(prices)
      PROVE  IInv'
  BY <1>1, <1>8, FinalizeStep
<1>9. ASSUME NEW prices \in [Symbols -> TickPrices], CrashInFinalize(prices)
      PROVE  IInv'
  <2>1. PICK done \in SUBSET OpenSymbols :
           rows' = RowsAfterClose(done, FinalizeTs(StoppedByCandle),
                                  FinalizeExits(StoppedByCandle, prices))
    BY <1>9 DEF CrashInFinalize
  <2>2. \A s \in done :
           /\ FinalizeTs(StoppedByCandle)[s] \in Int
           /\ FinalizeExits(StoppedByCandle, prices)[s] \in ExitRequest
    BY <1>1, FinalizeExit
  <2> QED BY <1>1, <1>9, <2>1, <2>2, CrashAfterClose DEF CrashInFinalize
<1>10. CASE Exit
  <2>1. MemoryLost /\ now' = now /\ rows' = rows
    BY <1>10 DEF Exit, dbVars
  <2>2. RowsKeyed' /\ LimitSurvivesRestart'
    BY <2>1 DEF IInv, RowsKeyed, LimitSurvivesRestart, OpenRows
  <2> QED BY <1>1, <2>1, <2>2, DownStep
<1>11. ASSUME NEW s \in Symbols, CrashInClose(s)
       PROVE  IInv'
  <2>1. /\ {s} \in SUBSET OpenSymbols /\ CandleExits[s] \in ExitRequest
        /\ CandleTimes[s] \in Int
    BY <1>1, <1>11, CandleExitType DEF CrashInClose
  <2> QED BY <1>1, <1>11, <2>1, CrashAfterClose DEF CrashInClose
<1>12. ASSUME NEW t \in Times, OnStartup(t)
       PROVE  IInv'
  BY <1>1, <1>12, StartupStep
<1>13. CASE UNCHANGED vars
  BY <1>1, <1>13, QuietStep DEF vars, memVars, dbVars
<1> QED
  BY <1>2, <1>3, <1>4, <1>5, <1>6, <1>7, <1>8, <1>9, <1>10, <1>11, <1>12, <1>13
  DEF Next

THEOREM InductiveInvariant == Spec => []IInv
<1>1. IInv /\ [Next]_vars => IInv'
  BY InvariantStep
<1> QED BY InitInvariant, <1>1, PTL DEF Spec

-----------------------------------------------------------------------------
(* Theorems about the running system                                       *)

\* D.1: whatever fails and wherever the process dies, a position in memory
\* has its OPEN row with the same plan.
THEOREM MemoryIsBacked == Spec => []MemoryBackedByDb
<1>1. IInv => MemoryBackedByDb
  BY DEF IInv
<1> QED BY <1>1, InductiveInvariant, PTL

\* D.6: with a working read, a running manager watches every OPEN row.
THEOREM OpenRowsWatched == Spec => []OpenRowsAreWatched
<1>1. IInv => OpenRowsAreWatched
  BY DEF IInv
<1> QED BY <1>1, InductiveInvariant, PTL

\* max_positions_global bounds the table through crashes and restarts.
THEOREM LimitHolds == Spec => []LimitSurvivesRestart
<1>1. IInv => LimitSurvivesRestart
  BY DEF IInv
<1> QED BY <1>1, InductiveInvariant, PTL

-----------------------------------------------------------------------------
(* The manager implements PaperAccount                                     *)

\* A trade is live in the account when its row is OPEN.
LEMMA LiveTrade ==
    ASSUME TypeOK, NEW s \in Symbols, NEW t \in Times
    PROVE  /\ <<s, t>> \in EnteredRows <=> rows[s][t] # None
           /\ <<s, t>> \in ClosedRows <=> rows[s][t] # None /\ rows[s][t].status = "CLOSED"
           /\ <<s, t>> \in Account!Live <=> t \in OpenRows(s)
<1>1. <<s, t>> \in Symbols \X Times /\ <<s, t>>[1] = s /\ <<s, t>>[2] = t
  OBVIOUS
<1>2. rows[s][t] # None => rows[s][t].status \in {"OPEN", "CLOSED"}
  BY DEF TypeOK, Row
<1>3. <<s, t>> \in EnteredRows <=> rows[s][t] # None
  BY <1>1 DEF EnteredRows
<1>4. <<s, t>> \in ClosedRows <=> rows[s][t] # None /\ rows[s][t].status = "CLOSED"
  BY <1>1, <1>3 DEF ClosedRows
<1>5. <<s, t>> \in Account!Live <=> t \in OpenRows(s)
  BY <1>2, <1>3, <1>4 DEF Account!Live, OpenRows
<1> QED BY <1>3, <1>4, <1>5

\* The cardinality that the instance of PaperAccount counts with.
LEMMA SameCardinality ==
    ASSUME NEW S
    PROVE  Account!Cardinality(S) = Cardinality(S)
  BY DEF Account!Cardinality, Cardinality

\* There are no more live trades than positions in memory.
LEMMA LiveBound ==
    ASSUME IInv, "read" \notin Faults, phase # "down"
    PROVE  /\ Cardinality(Account!Live) \in Nat
           /\ Cardinality(Account!Live) <= OpenCount
<1>1. TypeOK
  BY DEF IInv
<1>2. \A x \in Account!Live : \E s \in OpenSymbols : x = <<s, positions[s].ts>>
  <2> SUFFICES ASSUME NEW x \in Account!Live
               PROVE  \E s \in OpenSymbols : x = <<s, positions[s].ts>>
    OBVIOUS
  <2>1. PICK s \in Symbols, t \in Times : x = <<s, t>>
    BY DEF Account!Live, EnteredRows
  <2>2. t \in OpenRows(s)
    BY <1>1, <2>1, LiveTrade
  <2>3. positions[s] # None /\ positions[s].ts = t
    BY <2>2 DEF IInv, OpenRowsAreWatched
  <2> QED BY <2>1, <2>3 DEF OpenSymbols
<1> DEFINE f == [x \in Account!Live |-> x[1]]
<1>3. f \in Injection(Account!Live, OpenSymbols)
  <2>1. ASSUME NEW x \in Account!Live
        PROVE  f[x] \in OpenSymbols /\ x = <<f[x], positions[f[x]].ts>>
    BY <1>2
  <2> HIDE DEF OpenSymbols
  <2>2. \A x, y \in Account!Live : f[x] = f[y] => x = y
    <3> SUFFICES ASSUME NEW x \in Account!Live, NEW y \in Account!Live, f[x] = f[y]
                 PROVE  x = y
      OBVIOUS
    <3>1. x = <<f[x], positions[f[x]].ts>> /\ y = <<f[y], positions[f[y]].ts>>
      BY <2>1
    <3> HIDE DEF f
    <3> QED BY <3>1
  <2>3. f \in [Account!Live -> OpenSymbols]
    BY <2>1
  <2> HIDE DEF f
  <2> QED BY <2>2, <2>3 DEF Injection, IsInjective
<1>4. IsFiniteSet(OpenSymbols)
  <2>1. OpenSymbols \subseteq Symbols
    BY DEF OpenSymbols
  <2> QED BY <2>1, ConstantsAssumption, FS_Subset
<1> HIDE DEF f
<1> QED BY <1>3, <1>4, FS_Injection, FS_CardinalityType DEF OpenCount

\* An accepted entry, followed by a crash or not, enters one trade.
LEMMA EntryEnters ==
    ASSUME IInv, "read" \notin Faults, TakesEntries, NEW s \in Symbols,
           NEW dir \in Directions, NEW price \in TickPrices, NEW dist \in SlDistances,
           EntryVerdict(s, dir, price, dist) = "ok",
           rows' = InsertRow(s, NewPosition(dir, price, dist))
    PROVE  Account!Next
<1>1. TypeOK /\ now \in Times
  BY DEF IInv, TypeOK
<1>2. /\ \A x \in Symbols, t \in Times :
           (x # s \/ t # now) => rows'[x][t] = rows[x][t]
      /\ rows'[s][now] # None
      /\ rows'[s][now].status = "OPEN"
  BY InsertStep
<1>3. positions[s] = None /\ ~(OpenCount >= MaxPositionsGlobal)
  BY AcceptedSignal
<1>4. rows[s][now] = None
  BY <1>3 DEF IInv, PresentRowIsHeld
<1>5. <<s, now>> \notin EnteredRows
  BY <1>1, <1>4, LiveTrade
<1>6. \A u \in Times : <<s, u>> \notin Account!Live
  <2>1. OpenRows(s) = {}
    BY <1>3 DEF IInv, OpenRowsAreWatched, TakesEntries
  <2> QED BY <1>1, <2>1, LiveTrade
<1>7. Cardinality(Account!Live) < MaxPositionsGlobal
  <2>1. OpenSymbols \subseteq Symbols
    BY DEF OpenSymbols
  <2>2. OpenCount \in Nat /\ MaxPositionsGlobal \in Nat
    BY <2>1, ConstantsAssumption, FS_Subset, FS_CardinalityType DEF OpenCount
  <2>3. Cardinality(Account!Live) \in Nat /\ Cardinality(Account!Live) <= OpenCount
    BY LiveBound DEF TakesEntries
  <2> QED BY <1>3, <2>2, <2>3
<1>8. EnteredRows' = EnteredRows \cup {<<s, now>>}
  BY <1>1, <1>2 DEF EnteredRows
<1>9. ClosedRows' = ClosedRows
  <2>1. ASSUME NEW x \in Symbols, NEW t \in Times
        PROVE  <<x, t>> \in ClosedRows' <=> <<x, t>> \in ClosedRows
    BY <1>2, <1>4 DEF ClosedRows, EnteredRows
  <2> QED BY <2>1 DEF ClosedRows, EnteredRows
<1>10. Account!Enter(s, now)
  <2>1. Account!Cardinality(Account!Live) < MaxPositionsGlobal
    BY <1>7, SameCardinality
  <2> QED BY <1>5, <1>6, <1>8, <1>9, <2>1 DEF Account!Enter
<1> QED BY <1>1, <1>10 DEF Account!Next

\* A close, followed by a crash or not, ends live trades.
LEMMA CloseEnds ==
    ASSUME IInv, NEW done \in SUBSET OpenSymbols, NEW ts, NEW exits,
           \A s \in done : ts[s] \in Int /\ exits[s] \in ExitRequest,
           rows' = RowsAfterClose(done, ts, exits)
    PROVE  Account!Next
<1> DEFINE S == {<<s, positions[s].ts>> : s \in done}
<1>1. TypeOK /\ MemoryBackedByDb
  BY DEF IInv
<1>2. \A s \in done : /\ s \in Symbols /\ positions[s].ts \in Times
                      /\ rows[s][positions[s].ts] # None
                      /\ rows[s][positions[s].ts].status = "OPEN"
  BY <1>1, OpenPosition DEF MemoryBackedByDb
<1>3. \A s \in Symbols, t \in Times :
         /\ rows'[s][t] = None <=> rows[s][t] = None
         /\ (s \in done /\ t = positions[s].ts) => rows'[s][t].status = "CLOSED"
         /\ ~(s \in done /\ t = positions[s].ts) => rows'[s][t] = rows[s][t]
  BY <1>1, CloseStep
<1>4. S \in SUBSET Account!Live
  <2> SUFFICES ASSUME NEW s \in done PROVE <<s, positions[s].ts>> \in Account!Live
    OBVIOUS
  <2>1. positions[s].ts \in OpenRows(s)
    BY <1>2 DEF OpenRows
  <2> QED BY <1>1, <1>2, <2>1, LiveTrade
<1>5. EnteredRows' = EnteredRows
  BY <1>3 DEF EnteredRows
<1>6. ClosedRows' = ClosedRows \cup S
  <2>1. ASSUME NEW s \in Symbols, NEW t \in Times
        PROVE  <<s, t>> \in ClosedRows' <=> <<s, t>> \in ClosedRows \cup S
    <3>1. <<s, t>> \in S <=> s \in done /\ t = positions[s].ts
      OBVIOUS
    <3>2. <<s, t>> \in ClosedRows' <=> rows'[s][t] # None /\ rows'[s][t].status = "CLOSED"
      BY DEF ClosedRows, EnteredRows
    <3>3. <<s, t>> \in ClosedRows <=> rows[s][t] # None /\ rows[s][t].status = "CLOSED"
      BY <1>1, LiveTrade
    <3> HIDE DEF S
    <3> QED BY <1>2, <1>3, <3>1, <3>2, <3>3
  <2>2. ClosedRows' \subseteq Symbols \X Times /\ ClosedRows \subseteq Symbols \X Times
    BY DEF ClosedRows, EnteredRows
  <2>3. S \subseteq Symbols \X Times
    BY <1>2
  <2> HIDE DEF S
  <2> QED BY <2>1, <2>2, <2>3
<1> HIDE DEF S
<1>7. Account!End(S)
  BY <1>4, <1>5, <1>6 DEF Account!End
<1> QED BY <1>4, <1>7 DEF Account!Next

\* Every handler is a step of the account or leaves it alone.
LEMMA AccountStep ==
    ASSUME IInv, "read" \notin Faults, [Next]_vars
    PROVE  Account!Next \/ UNCHANGED Account!vars
<1>1. TypeOK
  BY DEF IInv
<1>2. ASSUME rows' = rows PROVE UNCHANGED Account!vars
  BY <1>2 DEF Account!vars, EnteredRows, ClosedRows
<1>3. CASE Tick \/ Resume
  BY <1>2, <1>3 DEF Tick, Resume, dbVars
<1>4. ASSUME NEW s \in Symbols, NEW price \in TickPrices, OnWsTick(s, price)
      PROVE  UNCHANGED Account!vars
  BY <1>2, <1>4 DEF OnWsTick, dbVars
<1>5. ASSUME NEW s \in Symbols, NEW rate \in FundingRates, OnTicker(s, rate)
      PROVE  UNCHANGED Account!vars
  BY <1>2, <1>5 DEF OnTicker, dbVars
<1>6. ASSUME NEW s \in Symbols, NEW t \in Times, NEW bar \in Bars, OnOhlcv(s, t, bar)
      PROVE  Account!Next
  <2>1. PICK done \in SUBSET ExitingOnSample(s, t), lost \in SUBSET Symbols :
           RecordClose(done, CandleTimes, CandleExits, lost)
    BY <1>6, SampleCloses
  <2>2. /\ done \in SUBSET OpenSymbols
        /\ \A x \in done : CandleTimes[x] \in Int /\ CandleExits[x] \in ExitRequest
    BY <1>1, SampleExit
  <2> QED BY <2>1, <2>2, CloseEnds DEF RecordClose
<1>7. ASSUME NEW s \in Symbols, NEW dir \in Directions, NEW price \in TickPrices,
             NEW dist \in SlDistances,
             OnEntry(s, dir, price, dist) \/ CrashInEntry(s, dir, price, dist)
      PROVE  Account!Next
  BY <1>7, EntryEnters DEF OnEntry, CrashInEntry
<1>8. ASSUME NEW prices \in [Symbols -> TickPrices], Finalize(prices)
      PROVE  Account!Next
  <2>1. PICK byCandle \in SUBSET StoppedByCandle, done \in SUBSET OpenSymbols,
            lost \in SUBSET Symbols :
           RecordClose(done, FinalizeTs(byCandle),
                       FinalizeExits(byCandle, prices), lost)
    BY <1>8 DEF Finalize, Failing, OpenSymbols
  <2> QED BY <1>1, <2>1, FinalizeExit, CloseEnds DEF RecordClose
<1>9. ASSUME NEW prices \in [Symbols -> TickPrices], CrashInFinalize(prices)
      PROVE  Account!Next
  <2>1. PICK done \in SUBSET OpenSymbols :
           rows' = RowsAfterClose(done, FinalizeTs(StoppedByCandle),
                                  FinalizeExits(StoppedByCandle, prices))
    BY <1>9 DEF CrashInFinalize
  <2> QED BY <1>1, <2>1, FinalizeExit, CloseEnds
<1>10. CASE Exit
  BY <1>2, <1>10 DEF Exit, dbVars
<1>11. ASSUME NEW s \in Symbols, CrashInClose(s)
       PROVE  Account!Next
  <2>1. /\ {s} \in SUBSET OpenSymbols /\ CandleExits[s] \in ExitRequest
        /\ CandleTimes[s] \in Int
    BY <1>1, <1>11, CandleExitType DEF CrashInClose
  <2> QED BY <1>11, <2>1, CloseEnds DEF CrashInClose
<1>12. ASSUME NEW t \in Times, OnStartup(t)
       PROVE  UNCHANGED Account!vars
  BY <1>2, <1>12 DEF OnStartup, dbVars
<1>13. CASE UNCHANGED vars
  BY <1>2, <1>13 DEF vars, dbVars
<1> QED
  BY <1>3, <1>4, <1>5, <1>6, <1>7, <1>8, <1>9, <1>10, <1>11, <1>12, <1>13 DEF Next

\* As long as on_startup can read, the table of the manager is a paper
\* account: no trade is entered twice, symbols and account keep their limits
\* and no trade comes back, whatever writes fail and wherever the process dies.
THEOREM ImplementsAccount ==
    ASSUME "read" \notin Faults
    PROVE  Spec => AccountSpec
<1>1. Init => Account!Init
  <2> SUFFICES ASSUME Init PROVE EnteredRows = {} /\ ClosedRows = {}
    BY DEF Account!Init
  <2>1. \A s \in Symbols, t \in Times : rows[s][t] = None
    BY DEF Init
  <2> QED BY <2>1 DEF EnteredRows, ClosedRows
<1>2. IInv /\ [Next]_vars => [Account!Next]_Account!vars
  BY AccountStep
<1> QED BY <1>1, <1>2, InductiveInvariant, PTL DEF Spec, AccountSpec, Account!Spec

-----------------------------------------------------------------------------
(* Exits and records                                                       *)

\* No candle of the future has been completed, and a dead process has none.
CandlesArePast ==
    \A s \in Symbols :
        /\ \A i \in DOMAIN candles[s] : candles[s][i].b <= Bucket(now)
        /\ phase = "down" => candles[s] = <<>>

\* The events of a row, as far as nothing fails.
RowsHaveEvents ==
    Faults = {} =>
        \A s \in Symbols : \A t \in Times : rows[s][t] # None =>
            /\ [symbol |-> s, ts |-> t, type |-> "ENTRY"] \in events
            /\ rows[s][t].status = "CLOSED" =>
                  [symbol |-> s, ts |-> t, type |-> "EXIT"] \in events

\* Memory after finalize with working writes.
DrainedForgets ==
    (phase = "drained" /\ "write" \notin Faults) => OpenSymbols = {}

\* What must hold beside IInv.
History ==
    /\ ExitAfterEntryBucket /\ RecordsMatchRows /\ RowsHaveEvents
    /\ NoMissedExit /\ CandlesArePast /\ DrainedForgets

\* The 5s candle of index b starts in its bucket, and not in the future.
LEMMA CandleStart ==
    ASSUME NEW u \in Times, NEW b \in Buckets, b <= Bucket(u)
    PROVE  Bucket(b * CandleSec) = b /\ b * CandleSec <= u /\ b * CandleSec \in Int
<1> DEFINE c == CandleSec
           x == c * b
           q == x \div c
<1>1. c \in Nat \ {0} /\ b \in Nat /\ u \in Nat /\ u \div c \in Nat
  <2>1. CandleSec \in Nat \ {0} /\ MaxTime \in Nat /\ u \in Nat
    BY ConstantsAssumption DEF Times
  <2>2. MaxTime \div CandleSec \in Nat /\ u \div CandleSec \in Nat
    BY <2>1, DivMono
  <2> QED BY <2>1, <2>2 DEF Buckets
<1> HIDE DEF c
<1>2. x \in Nat /\ x = b * c
  BY <1>1, Z3
<1> HIDE DEF x
<1>3. q \in Nat
  BY <1>1, <1>2, Z3
<1>4. x = c * q + (x % c) /\ x % c \in 0 .. (c - 1)
  BY <1>1, <1>2, Z3
<1> HIDE DEF q
<1>5. ASSUME q + 1 <= b PROVE FALSE
  <2>1. c * (q + 1) <= c * b /\ c * (q + 1) = c * q + c
    BY <1>1, <1>3, <1>5, Z3
  <2> QED BY <1>1, <1>2, <1>3, <1>4, <2>1, Z3 DEF x
<1>6. ASSUME b + 1 <= q PROVE FALSE
  <2>1. c * (b + 1) <= c * q /\ c * (b + 1) = c * b + c
    BY <1>1, <1>3, <1>6, Z3
  <2> QED BY <1>1, <1>2, <1>3, <1>4, <2>1, Z3 DEF x
<1>7. q = b
  BY <1>1, <1>3, <1>5, <1>6
<1>8. x <= u
  <2>1. u = c * (u \div c) + (u % c) /\ u % c \in 0 .. (c - 1)
    BY <1>1, Z3
  <2>2. b <= u \div c
    BY DEF Bucket, c
  <2>3. c * b <= c * (u \div c)
    BY <1>1, <2>2, Z3
  <2> QED BY <1>1, <2>1, <2>3, Z3 DEF x
<1> QED
  BY <1>2, <1>7, <1>8 DEF Bucket, q, c

\* A close of the positions of done, dated: a stop or target by the start of
\* a candle after the bucket of its entry.
Closes(done, ts, exits) ==
    /\ done \in SUBSET OpenSymbols
    /\ \A s \in done : ts[s] \in Int /\ exits[s] \in ExitRequest
    /\ \A s \in done : exits[s].reason \in {"SL", "TP"} =>
          \E b \in Buckets :
              ts[s] = b * CandleSec /\ b <= Bucket(now) /\ ~(b <= Bucket(positions[s].ts))
    /\ rows' = RowsAfterClose(done, ts, exits)
    /\ now' = now

\* The exits of candles are dated like that.
LEMMA CandleExitDated ==
    ASSUME IInv, NEW s \in Symbols, CandleExit(s) # None
    PROVE  \E b \in Buckets :
              CandleTimes[s] = b * CandleSec /\ b <= Bucket(now) /\ ~(b <= Bucket(positions[s].ts))
<1>1. active[s] \in Candle /\ ~(active[s].b <= Bucket(positions[s].ts))
  BY CandleExitType DEF IInv
<1>2. active[s] # None /\ active[s].b \in Buckets /\ active[s].b <= Bucket(now)
  BY <1>1, NoneAssumption DEF IInv, ActiveNotFuture, Candle
<1>3. CandleTimes[s] = active[s].b * CandleSec
  BY <1>2 DEF CandleTimes
<1> HIDE DEF Bucket, CandleTimes
<1> QED BY <1>1, <1>2, <1>3

\* The row of a position that is closed.
LEMMA ClosedRow ==
    ASSUME IInv, NEW done, NEW ts, NEW exits, Closes(done, ts, exits)
    PROVE  /\ \A s \in Symbols, t \in Times :
                /\ rows'[s][t] = None <=> rows[s][t] = None
                /\ ~(s \in done /\ t = positions[s].ts) => rows'[s][t] = rows[s][t]
           /\ \A s \in done :
                /\ s \in Symbols /\ positions[s].ts \in Times
                /\ rows[s][positions[s].ts] # None
                /\ rows[s][positions[s].ts].status = "OPEN"
                /\ LET row == rows'[s][positions[s].ts]
                   IN  /\ row.status = "CLOSED" /\ row.exitTs = ts[s]
                       /\ row.reason = exits[s].reason
                       /\ row.net = PnlNet(positions[s], exits[s])
<1>1. TypeOK /\ MemoryBackedByDb
  BY DEF IInv
<1>2. /\ done \in SUBSET OpenSymbols /\ rows' = RowsAfterClose(done, ts, exits)
      /\ \A s \in done : ts[s] \in Int /\ exits[s] \in ExitRequest
  BY DEF Closes
<1>3. \A s \in Symbols, t \in Times :
         /\ rows'[s][t] = None <=> rows[s][t] = None
         /\ ~(s \in done /\ t = positions[s].ts) => rows'[s][t] = rows[s][t]
  BY <1>1, <1>2, CloseStep
<1>4. ASSUME NEW s \in done
      PROVE  /\ s \in Symbols /\ positions[s].ts \in Times
             /\ rows[s][positions[s].ts] # None
             /\ rows[s][positions[s].ts].status = "OPEN"
             /\ LET row == rows'[s][positions[s].ts]
                IN  /\ row.status = "CLOSED" /\ row.exitTs = ts[s]
                    /\ row.reason = exits[s].reason
                    /\ row.net = PnlNet(positions[s], exits[s])
  <2> DEFINE old == rows[s][positions[s].ts]
             net == PnlNet(positions[s], exits[s])
             new == [old EXCEPT !.status = "CLOSED", !.exitTs = ts[s],
                                !.reason = exits[s].reason, !.net = net]
  <2>1. s \in Symbols /\ positions[s].ts \in Times
    BY <1>1, <1>2, OpenPosition
  <2>2. old # None /\ old.status = "OPEN"
    BY <1>1, <1>2 DEF MemoryBackedByDb
  <2>3. old \in Row
    BY <1>1, <2>1, <2>2 DEF TypeOK
  <2>4. rows'[s][positions[s].ts] = CloseRow(old, positions[s], ts[s], exits[s])
    BY <1>1, <1>2, <2>1, RowsAfterCloseValue
  <2> HIDE DEF old
  <2>5. CloseRow(old, positions[s], ts[s], exits[s]) = new
    BY <2>2 DEF CloseRow
  <2> HIDE DEF net
  <2>6. new.status = "CLOSED" /\ new.exitTs = ts[s] /\ new.reason = exits[s].reason /\ new.net = net
    BY <2>3 DEF Row
  <2> HIDE DEF new
  <2> QED BY <2>1, <2>2, <2>4, <2>5, <2>6 DEF old, net
<1> QED BY <1>3, <1>4

\* A close keeps what is said of rows, trades and events, also when the
\* process dies before it has recorded the close in memory.
LEMMA CloseHistory ==
    ASSUME IInv, TypeOK', History, NEW done, NEW ts, NEW exits, NEW lost,
           Closes(done, ts, exits),
           RecordClose(done, ts, exits, lost) \/ (closedTrades' = {} /\ events' = events),
           Faults = {} => lost = {} /\ RecordClose(done, ts, exits, lost)
    PROVE  ExitAfterEntryBucket' /\ RecordsMatchRows' /\ RowsHaveEvents'
<1>1. /\ \A s \in Symbols, t \in Times :
           /\ rows'[s][t] = None <=> rows[s][t] = None
           /\ ~(s \in done /\ t = positions[s].ts) => rows'[s][t] = rows[s][t]
      /\ \A s \in done :
           /\ s \in Symbols /\ positions[s].ts \in Times
           /\ rows[s][positions[s].ts] # None
           /\ rows[s][positions[s].ts].status = "OPEN"
           /\ rows'[s][positions[s].ts].status = "CLOSED"
           /\ rows'[s][positions[s].ts].exitTs = ts[s]
           /\ rows'[s][positions[s].ts].reason = exits[s].reason
           /\ rows'[s][positions[s].ts].net = PnlNet(positions[s], exits[s])
  BY ClosedRow
<1>2. now' = now /\ now \in Times
  BY DEF Closes, IInv, TypeOK
<1>3. ExitAfterEntryBucket'
  <2> SUFFICES ASSUME NEW s \in Symbols, NEW t \in Times, rows'[s][t] # None,
                      rows'[s][t].status = "CLOSED", rows'[s][t].reason \in {"SL", "TP"}
               PROVE  Bucket(rows'[s][t].exitTs) > Bucket(t) /\ rows'[s][t].exitTs <= now
    BY <1>2 DEF ExitAfterEntryBucket, Bucket
  <2>1. CASE s \in done /\ t = positions[s].ts
    <3>1. PICK b \in Buckets :
             ts[s] = b * CandleSec /\ b <= Bucket(now) /\ ~(b <= Bucket(t))
      BY <1>1, <2>1 DEF Closes
    <3>2. Bucket(ts[s]) = b /\ ts[s] <= now
      BY <1>2, <3>1, CandleStart
    <3>3. Bucket(t) \in Buckets /\ t <= t
      BY BucketType, ConstantsAssumption DEF Times
    <3>4. \A x \in Buckets : x \in Int
      BY ConstantsAssumption DEF Buckets
    <3> HIDE DEF Bucket
    <3>5. b > Bucket(t)
      BY <3>1, <3>3, <3>4
    <3> QED BY <1>1, <2>1, <3>2, <3>5
  <2>2. CASE ~(s \in done /\ t = positions[s].ts)
    BY <1>1, <2>2 DEF History, ExitAfterEntryBucket
  <2> QED BY <2>1, <2>2
<1>4. ASSUME NEW tr \in closedTrades'
      PROVE  LET row == rows'[tr.symbol][tr.ts]
             IN  row # None /\ row.status = "CLOSED" /\ row.net = tr.net
  <2>1. CASE tr \in closedTrades
    <3>1. tr.symbol \in Symbols /\ tr.ts \in Times
      BY <2>1 DEF IInv, TypeOK, Trade
    <3>2. /\ rows[tr.symbol][tr.ts] # None /\ rows[tr.symbol][tr.ts].status = "CLOSED"
          /\ rows[tr.symbol][tr.ts].net = tr.net
      BY <2>1 DEF History, RecordsMatchRows
    <3>3. ~(tr.symbol \in done /\ tr.ts = positions[tr.symbol].ts)
      BY <1>1, <3>2
    <3> QED BY <1>1, <3>1, <3>2, <3>3
  <2>2. CASE tr \notin closedTrades
    <3>1. PICK s \in done : tr = [symbol |-> s, ts |-> positions[s].ts,
                                  net |-> PnlNet(positions[s], exits[s])]
      BY <2>2 DEF RecordClose
    <3>2. tr.symbol = s /\ tr.ts = positions[s].ts /\ tr.net = PnlNet(positions[s], exits[s])
      BY <3>1
    <3> QED BY <1>1, <3>2
  <2> QED BY <2>1, <2>2
<1>5. ASSUME NEW e \in events'
      PROVE  /\ rows'[e.symbol][e.ts] # None
             /\ e.type = "EXIT" => rows'[e.symbol][e.ts].status = "CLOSED"
  <2>1. CASE e \in events
    <3>1. e.symbol \in Symbols /\ e.ts \in Times
      BY <2>1 DEF IInv, TypeOK, Event
    <3>2. /\ rows[e.symbol][e.ts] # None
          /\ e.type = "EXIT" => rows[e.symbol][e.ts].status = "CLOSED"
      BY <2>1 DEF History, RecordsMatchRows
    <3>3. CASE e.symbol \in done /\ e.ts = positions[e.symbol].ts
      BY <1>1, <3>3
    <3>4. CASE ~(e.symbol \in done /\ e.ts = positions[e.symbol].ts)
      BY <1>1, <3>1, <3>2, <3>4
    <3> QED BY <3>3, <3>4
  <2>2. CASE e \notin events
    <3>1. PICK s \in done : e = [symbol |-> s, ts |-> positions[s].ts, type |-> "EXIT"]
      BY <2>2 DEF RecordClose
    <3>2. e.symbol = s /\ e.ts = positions[s].ts
      BY <3>1
    <3> QED BY <1>1, <3>2
  <2> QED BY <2>1, <2>2
<1>6. RecordsMatchRows'
  BY <1>4, <1>5 DEF RecordsMatchRows
<1>7. RowsHaveEvents'
  <2> SUFFICES ASSUME Faults = {}, NEW s \in Symbols, NEW t \in Times, rows'[s][t] # None
               PROVE  /\ [symbol |-> s, ts |-> t, type |-> "ENTRY"] \in events'
                      /\ rows'[s][t].status = "CLOSED" =>
                            [symbol |-> s, ts |-> t, type |-> "EXIT"] \in events'
    BY DEF RowsHaveEvents
  <2>1. events' = events \cup {[symbol |-> x, ts |-> positions[x].ts, type |-> "EXIT"] : x \in done}
    BY DEF RecordClose
  <2>2. /\ [symbol |-> s, ts |-> t, type |-> "ENTRY"] \in events
        /\ rows[s][t].status = "CLOSED" => [symbol |-> s, ts |-> t, type |-> "EXIT"] \in events
    BY <1>1 DEF History, RowsHaveEvents
  <2>3. CASE s \in done /\ t = positions[s].ts
    BY <2>1, <2>2, <2>3
  <2>4. CASE ~(s \in done /\ t = positions[s].ts)
    BY <1>1, <2>1, <2>2, <2>4
  <2> QED BY <2>3, <2>4
<1> QED BY <1>3, <1>6, <1>7

\* An accepted entry adds an OPEN row, which no trade and no exit is about.
LEMMA InsertHistory ==
    ASSUME IInv, TypeOK', History, TakesEntries, NEW s \in Symbols, NEW dir \in Directions,
           NEW price \in TickPrices, NEW dist \in SlDistances,
           EntryVerdict(s, dir, price, dist) = "ok",
           rows' = InsertRow(s, NewPosition(dir, price, dist)), now' = now,
           closedTrades' \subseteq closedTrades,
           NEW new, new = [symbol |-> s, ts |-> now, type |-> "ENTRY"],
           events' = events \/ events' = events \cup {new},
           Faults = {} => events' = events \cup {new}
    PROVE  ExitAfterEntryBucket' /\ RecordsMatchRows' /\ RowsHaveEvents'
<1>1. /\ \A x \in Symbols, t \in Times : (x # s \/ t # now) => rows'[x][t] = rows[x][t]
      /\ rows'[s][now] # None /\ rows'[s][now].status = "OPEN"
  BY InsertStep
<1>2. rows[s][now] = None /\ now \in Times
  BY AcceptedSignal DEF IInv, TypeOK, PresentRowIsHeld
<1>3. \A x \in Symbols, t \in Times :
         rows[x][t] # None => rows'[x][t] = rows[x][t]
  BY <1>1, <1>2
<1>4. ExitAfterEntryBucket'
  <2> SUFFICES ASSUME NEW x \in Symbols, NEW t \in Times, rows'[x][t] # None,
                      rows'[x][t].status = "CLOSED", rows'[x][t].reason \in {"SL", "TP"}
               PROVE  Bucket(rows'[x][t].exitTs) > Bucket(t) /\ rows'[x][t].exitTs <= now
    BY DEF ExitAfterEntryBucket, Bucket
  <2>1. x # s \/ t # now
    BY <1>1
  <2>2. rows'[x][t] = rows[x][t]
    BY <1>1, <2>1
  <2> QED BY <2>2 DEF History, ExitAfterEntryBucket
<1>5. ASSUME NEW tr \in closedTrades'
      PROVE  LET row == rows'[tr.symbol][tr.ts]
             IN  row # None /\ row.status = "CLOSED" /\ row.net = tr.net
  <2>1. tr.symbol \in Symbols /\ tr.ts \in Times
    BY DEF IInv, TypeOK, Trade
  <2>2. /\ rows[tr.symbol][tr.ts] # None /\ rows[tr.symbol][tr.ts].status = "CLOSED"
        /\ rows[tr.symbol][tr.ts].net = tr.net
    BY DEF History, RecordsMatchRows
  <2> QED BY <1>3, <2>1, <2>2
<1>6. ASSUME NEW e \in events'
      PROVE  /\ rows'[e.symbol][e.ts] # None
             /\ e.type = "EXIT" => rows'[e.symbol][e.ts].status = "CLOSED"
  <2>1. CASE e \in events
    <3>1. e.symbol \in Symbols /\ e.ts \in Times
      BY <2>1 DEF IInv, TypeOK, Event
    <3>2. /\ rows[e.symbol][e.ts] # None
          /\ e.type = "EXIT" => rows[e.symbol][e.ts].status = "CLOSED"
      BY <2>1 DEF History, RecordsMatchRows
    <3> QED BY <1>3, <3>1, <3>2
  <2>2. CASE e \notin events
    <3>1. e.symbol = s /\ e.ts = now /\ e.type = "ENTRY"
      BY <2>2
    <3> QED BY <1>1, <3>1
  <2> QED BY <2>1, <2>2
<1>7. RecordsMatchRows'
  BY <1>5, <1>6 DEF RecordsMatchRows
<1>8. RowsHaveEvents'
  <2> SUFFICES ASSUME Faults = {}, NEW x \in Symbols, NEW t \in Times, rows'[x][t] # None
               PROVE  /\ [symbol |-> x, ts |-> t, type |-> "ENTRY"] \in events'
                      /\ rows'[x][t].status = "CLOSED" =>
                            [symbol |-> x, ts |-> t, type |-> "EXIT"] \in events'
    BY DEF RowsHaveEvents
  <2>1. events' = events \cup {new}
    OBVIOUS
  <2>2. CASE x = s /\ t = now
    BY <1>1, <2>1, <2>2
  <2>3. CASE ~(x = s /\ t = now)
    <3>1. rows'[x][t] = rows[x][t]
      BY <1>1, <2>3
    <3> QED BY <2>1, <3>1 DEF History, RowsHaveEvents
  <2> QED BY <2>2, <2>3
<1> QED BY <1>4, <1>7, <1>8

\* A step that leaves rows and events alone.
LEMMA QuietHistory ==
    ASSUME IInv, TypeOK', History, rows' = rows, events' = events, now <= now',
           closedTrades' \subseteq closedTrades
    PROVE  ExitAfterEntryBucket' /\ RecordsMatchRows' /\ RowsHaveEvents'
<1>1. ExitAfterEntryBucket'
  <2> SUFFICES ASSUME NEW s \in Symbols, NEW t \in Times, rows[s][t] # None,
                      rows[s][t].status = "CLOSED", rows[s][t].reason \in {"SL", "TP"}
               PROVE  Bucket(rows[s][t].exitTs) > Bucket(t) /\ rows[s][t].exitTs <= now'
    BY DEF ExitAfterEntryBucket, Bucket
  <2>1. Bucket(rows[s][t].exitTs) > Bucket(t) /\ rows[s][t].exitTs <= now
    BY DEF History, ExitAfterEntryBucket
  <2>2. rows[s][t] \in Row /\ now \in Int /\ now' \in Int
    BY ConstantsAssumption DEF IInv, TypeOK, Times
  <2>3. rows[s][t].exitTs \in Int
    BY <2>2 DEF Row
  <2> HIDE DEF Bucket
  <2> QED BY <2>1, <2>2, <2>3
<1>2. RecordsMatchRows'
  BY DEF History, RecordsMatchRows
<1>3. RowsHaveEvents'
  BY DEF History, RowsHaveEvents
<1> QED BY <1>1, <1>2, <1>3

\* The closes of a finalize: the candle exits of byCandle, then the rest of done.
LEMMA FinalizeCloses ==
    ASSUME IInv, NEW prices \in [Symbols -> TickPrices], Finalize(prices)
    PROVE  \E byCandle \in SUBSET StoppedByCandle, done \in SUBSET OpenSymbols,
              lost \in SUBSET Symbols :
              /\ RecordClose(done, FinalizeTs(byCandle),
                             FinalizeExits(byCandle, prices), lost)
              /\ positions' = PositionsAfterClose(done)
              /\ "write" \notin Faults => done = OpenSymbols /\ lost = {}
<1>0. PICK failed \in Failing(StoppedByCandle) :
         \E failedEnd \in Failing(OpenSymbols \ (StoppedByCandle \ failed)) :
            \E lost \in Failing(OpenSymbols \ failedEnd) :
               /\ RecordClose(OpenSymbols \ failedEnd, FinalizeTs(StoppedByCandle \ failed),
                              FinalizeExits(StoppedByCandle \ failed, prices), lost)
               /\ positions' = PositionsAfterClose(OpenSymbols \ failedEnd)
  BY DEF Finalize
<1>1. PICK failedEnd \in Failing(OpenSymbols \ (StoppedByCandle \ failed)) :
         \E lost \in Failing(OpenSymbols \ failedEnd) :
            /\ RecordClose(OpenSymbols \ failedEnd, FinalizeTs(StoppedByCandle \ failed),
                           FinalizeExits(StoppedByCandle \ failed, prices), lost)
            /\ positions' = PositionsAfterClose(OpenSymbols \ failedEnd)
  BY <1>0
<1>4. PICK lost \in Failing(OpenSymbols \ failedEnd) :
         /\ RecordClose(OpenSymbols \ failedEnd, FinalizeTs(StoppedByCandle \ failed),
                        FinalizeExits(StoppedByCandle \ failed, prices), lost)
         /\ positions' = PositionsAfterClose(OpenSymbols \ failedEnd)
  BY <1>1
<1>2. /\ StoppedByCandle \ failed \in SUBSET StoppedByCandle
      /\ OpenSymbols \ failedEnd \in SUBSET OpenSymbols
      /\ lost \in SUBSET Symbols
  BY DEF Failing, OpenSymbols
<1>3. "write" \notin Faults => OpenSymbols \ failedEnd = OpenSymbols /\ lost = {}
  BY DEF Failing
<1> QED BY <1>2, <1>3, <1>4

\* The exits of a finalize are dated.
LEMMA FinalizeDated ==
    ASSUME IInv, NEW prices \in [Symbols -> TickPrices],
           NEW byCandle \in SUBSET StoppedByCandle, NEW done \in SUBSET OpenSymbols,
           rows' = RowsAfterClose(done, FinalizeTs(byCandle), FinalizeExits(byCandle, prices)),
           now' = now
    PROVE  Closes(done, FinalizeTs(byCandle), FinalizeExits(byCandle, prices))
<1>1. \A s \in done : /\ FinalizeTs(byCandle)[s] \in Int
                      /\ FinalizeExits(byCandle, prices)[s] \in ExitRequest
  BY FinalizeExit DEF IInv
<1>2. ASSUME NEW s \in done, FinalizeExits(byCandle, prices)[s].reason \in {"SL", "TP"}
      PROVE  \E b \in Buckets :
                /\ FinalizeTs(byCandle)[s] = b * CandleSec
                /\ b <= Bucket(now) /\ ~(b <= Bucket(positions[s].ts))
  <2>1. s \in Symbols /\ s \in OpenSymbols
    BY DEF OpenSymbols
  <2>2. s \in byCandle
    BY <1>2, <2>1 DEF FinalizeExits
  <2>3. CandleExit(s) # None /\ FinalizeTs(byCandle)[s] = CandleTimes[s]
    BY <2>1, <2>2 DEF FinalizeTs, StoppedByCandle
  <2> QED BY <2>1, <2>3, CandleExitDated
<1> QED BY <1>1, <1>2 DEF Closes

\* Every handler keeps what is said of rows, trades and events.
LEMMA RecordStep ==
    ASSUME IInv, TypeOK', History, [Next]_vars
    PROVE  ExitAfterEntryBucket' /\ RecordsMatchRows' /\ RowsHaveEvents'
<1> DEFINE Goal == ExitAfterEntryBucket' /\ RecordsMatchRows' /\ RowsHaveEvents'
<1>0. TypeOK /\ now \in Times /\ now' \in Times /\ (\A t \in Times : t \in Int)
  BY ConstantsAssumption DEF IInv, TypeOK, Times
<1>1. ASSUME rows' = rows, events' = events, now <= now', closedTrades' \subseteq closedTrades
      PROVE  Goal
  BY <1>1, QuietHistory
<1>2. ASSUME NEW done, NEW ts, NEW exits, Closes(done, ts, exits), MemoryLost,
             events' = events, Faults # {}
      PROVE  Goal
  <2>1. closedTrades' = {}
    BY <1>2 DEF MemoryLost
  <2> QED BY <1>2, <2>1, CloseHistory
<1>3. CASE Tick \/ Resume
  <2>1. /\ rows' = rows /\ events' = events /\ closedTrades' \subseteq closedTrades
        /\ now' = now + 1
    BY <1>3 DEF Tick, Resume, memVars, dbVars
  <2>2. now <= now'
    BY <1>0, <2>1
  <2> QED BY <1>1, <2>1, <2>2
<1>4. ASSUME NEW s \in Symbols, NEW price \in TickPrices, OnWsTick(s, price)
      PROVE  Goal
  <2>1. /\ rows' = rows /\ events' = events /\ closedTrades' \subseteq closedTrades
        /\ now <= now'
    BY <1>0, <1>4 DEF OnWsTick, dbVars
  <2> QED BY <1>1, <2>1
<1>5. ASSUME NEW s \in Symbols, NEW rate \in FundingRates, OnTicker(s, rate)
      PROVE  Goal
  <2>1. /\ rows' = rows /\ events' = events /\ closedTrades' \subseteq closedTrades
        /\ now <= now'
    BY <1>0, <1>5 DEF OnTicker, dbVars
  <2> QED BY <1>1, <2>1
<1>6. ASSUME NEW s \in Symbols, NEW t \in Times, NEW bar \in Bars, OnOhlcv(s, t, bar)
      PROVE  Goal
  <2>1. PICK done \in SUBSET ExitingOnSample(s, t), lost \in SUBSET Symbols :
           /\ RecordClose(done, CandleTimes, CandleExits, lost)
           /\ "write" \notin Faults => lost = {}
    BY <1>6, SampleCloses
  <2>2. /\ done \in SUBSET OpenSymbols
        /\ \A x \in done : /\ x = s /\ CandleExit(s) # None
                           /\ CandleTimes[x] \in Int /\ CandleExits[x] \in ExitRequest
    BY <1>0, SampleExit
  <2>3. Closes(done, CandleTimes, CandleExits)
    <3>1. now' = now /\ rows' = RowsAfterClose(done, CandleTimes, CandleExits)
      BY <1>6, <2>1 DEF OnOhlcv, RecordClose
    <3>2. ASSUME NEW x \in done
          PROVE  \E b \in Buckets : /\ CandleTimes[x] = b * CandleSec
                                    /\ b <= Bucket(now) /\ ~(b <= Bucket(positions[x].ts))
      BY <2>2, CandleExitDated
    <3> QED BY <2>2, <3>1, <3>2 DEF Closes
  <2> QED BY <2>1, <2>3, CloseHistory
<1>7. ASSUME NEW s \in Symbols, NEW dir \in Directions, NEW price \in TickPrices,
             NEW dist \in SlDistances,
             OnEntry(s, dir, price, dist) \/ CrashInEntry(s, dir, price, dist)
      PROVE  Goal
  <2> DEFINE new == [symbol |-> s, ts |-> now, type |-> "ENTRY"]
  <2>1. /\ TakesEntries /\ EntryVerdict(s, dir, price, dist) = "ok" /\ now' = now
        /\ rows' = InsertRow(s, NewPosition(dir, price, dist))
    BY <1>7 DEF OnEntry, CrashInEntry
  <2>2. CASE OnEntry(s, dir, price, dist)
    <3>1. PICK lost \in Failing({s}) :
             events' = events \cup
                {[symbol |-> x, ts |-> now, type |-> "ENTRY"] : x \in {s} \ lost}
      BY <2>2 DEF OnEntry
    <3>2. events' = events \/ events' = events \cup {new}
      BY <3>1
    <3>3. Faults = {} => events' = events \cup {new}
      <4>1. Faults = {} => lost = {}
        BY DEF Failing
      <4> QED BY <3>1, <4>1
    <3>4. closedTrades' \subseteq closedTrades
      BY <2>2 DEF OnEntry
    <3> HIDE DEF new
    <3> QED BY <2>1, <3>2, <3>3, <3>4, InsertHistory DEF new
  <2>3. CASE CrashInEntry(s, dir, price, dist)
    <3>1. closedTrades' \subseteq closedTrades /\ events' = events /\ Faults # {}
      BY <2>3 DEF CrashInEntry, MemoryLost
    <3> HIDE DEF new
    <3> QED BY <2>1, <3>1, InsertHistory DEF new
  <2> QED BY <1>7, <2>2, <2>3
<1>8. ASSUME NEW prices \in [Symbols -> TickPrices], Finalize(prices)
      PROVE  Goal
  <2>1. PICK byCandle \in SUBSET StoppedByCandle, done \in SUBSET OpenSymbols,
            lost \in SUBSET Symbols :
           /\ RecordClose(done, FinalizeTs(byCandle),
                          FinalizeExits(byCandle, prices), lost)
           /\ "write" \notin Faults => lost = {}
    BY <1>8, FinalizeCloses
  <2>2. /\ now' = now
        /\ rows' = RowsAfterClose(done, FinalizeTs(byCandle), FinalizeExits(byCandle, prices))
    BY <1>8, <2>1 DEF Finalize, RecordClose
  <2>3. Closes(done, FinalizeTs(byCandle), FinalizeExits(byCandle, prices))
    BY <2>2, FinalizeDated
  <2> QED BY <2>1, <2>3, CloseHistory
<1>9. ASSUME NEW prices \in [Symbols -> TickPrices], CrashInFinalize(prices)
      PROVE  Goal
  <2>1. PICK done \in SUBSET OpenSymbols :
           rows' = RowsAfterClose(done, FinalizeTs(StoppedByCandle),
                                  FinalizeExits(StoppedByCandle, prices))
    BY <1>9 DEF CrashInFinalize
  <2>2. now' = now /\ events' = events /\ MemoryLost /\ Faults # {}
    BY <1>9 DEF CrashInFinalize
  <2>3. Closes(done, FinalizeTs(StoppedByCandle), FinalizeExits(StoppedByCandle, prices))
    BY <2>1, <2>2, FinalizeDated
  <2> QED BY <1>2, <2>2, <2>3
<1>10. CASE Exit
  <2>1. /\ rows' = rows /\ events' = events /\ closedTrades' \subseteq closedTrades
        /\ now <= now'
    BY <1>0, <1>10 DEF Exit, MemoryLost, dbVars
  <2> QED BY <1>1, <2>1
<1>11. ASSUME NEW s \in Symbols, CrashInClose(s)
       PROVE  Goal
  <2>1. /\ CandleExit(s) # None /\ now' = now /\ events' = events /\ MemoryLost
        /\ Faults # {} /\ rows' = RowsAfterClose({s}, CandleTimes, CandleExits)
    BY <1>11 DEF CrashInClose
  <2>2. /\ {s} \in SUBSET OpenSymbols /\ CandleExits[s] \in ExitRequest
        /\ CandleTimes[s] \in Int
    BY <1>0, <2>1, CandleExitType
  <2>3. \E b \in Buckets :
           CandleTimes[s] = b * CandleSec /\ b <= Bucket(now) /\ ~(b <= Bucket(positions[s].ts))
    BY <2>1, CandleExitDated
  <2>4. Closes({s}, CandleTimes, CandleExits)
    BY <2>1, <2>2, <2>3 DEF Closes
  <2> QED BY <1>2, <2>1, <2>4
<1>12. ASSUME NEW t \in Times, OnStartup(t)
       PROVE  Goal
  <2>1. /\ rows' = rows /\ events' = events /\ closedTrades' \subseteq closedTrades
        /\ now' = t /\ t > now
    BY <1>12 DEF OnStartup, dbVars
  <2>2. now <= now'
    BY <1>0, <2>1
  <2> QED BY <1>1, <2>1, <2>2
<1>13. CASE UNCHANGED vars
  <2>1. /\ rows' = rows /\ events' = events /\ closedTrades' \subseteq closedTrades
        /\ now <= now'
    BY <1>0, <1>13 DEF vars, memVars, dbVars
  <2> QED BY <1>1, <2>1
<1> QED
  BY <1>3, <1>4, <1>5, <1>6, <1>7, <1>8, <1>9, <1>10, <1>11, <1>12, <1>13 DEF Next

-----------------------------------------------------------------------------
(* Completed candles and the exits they ask for                            *)

\* The deque holds the candle just appended and candles it held before.
LEMMA AppendCandleHolds ==
    ASSUME NEW cs \in Seq(Candle), NEW c \in Candle, NEW i \in DOMAIN AppendCandle(cs, c)
    PROVE  \/ AppendCandle(cs, c)[i] = c
           \/ \E j \in DOMAIN cs : AppendCandle(cs, c)[i] = cs[j]
<1> DEFINE full == Append(cs, c)
<1>1. /\ full \in Seq(Candle) /\ Len(full) = Len(cs) + 1 /\ full # <<>> /\ Len(cs) \in Nat
      /\ full[Len(cs) + 1] = c /\ \A k \in 1 .. Len(cs) : full[k] = cs[k]
  BY AppendProperties, LenProperties
<1>2. /\ Tail(full) \in Seq(Candle) /\ Len(Tail(full)) = Len(full) - 1
      /\ \A k \in 1 .. Len(Tail(full)) : Tail(full)[k] = full[k + 1]
  BY <1>1, HeadTailProperties
<1>3. /\ DOMAIN cs = 1 .. Len(cs) /\ DOMAIN full = 1 .. Len(full)
      /\ DOMAIN Tail(full) = 1 .. Len(Tail(full))
  BY <1>1, <1>2, LenProperties
<1> HIDE DEF full
<1>4. \A k \in 1 .. Len(full) : full[k] = c \/ \E j \in DOMAIN cs : full[k] = cs[j]
  BY <1>1, <1>3
<1>5. AppendCandle(cs, c) = full \/ AppendCandle(cs, c) = Tail(full)
  BY DEF AppendCandle, full
<1>6. CASE AppendCandle(cs, c) = full
  BY <1>3, <1>4, <1>6
<1>7. CASE AppendCandle(cs, c) = Tail(full)
  <2>1. i \in 1 .. Len(Tail(full)) /\ AppendCandle(cs, c)[i] = Tail(full)[i]
    BY <1>3, <1>7
  <2>2. Tail(full)[i] = full[i + 1] /\ i + 1 \in 1 .. Len(full)
    BY <1>1, <1>2, <2>1
  <2> QED BY <1>4, <2>1, <2>2
<1> QED BY <1>5, <1>6, <1>7

\* What the deque of a symbol may become: itself, empty, or longer by the
\* candle that was being built.
DequeStep(s) ==
    \/ candles'[s] = candles[s]
    \/ candles'[s] = <<>>
    \/ active[s] # None /\ candles'[s] = AppendCandle(candles[s], active[s])

\* The deque keeps holding candles of the past only.
LEMMA PastStep ==
    ASSUME IInv, TypeOK', CandlesArePast, now <= now', \A s \in Symbols : DequeStep(s),
           phase' = "down" => \A s \in Symbols : candles'[s] = <<>>
    PROVE  CandlesArePast'
<1>1. /\ now \in Times /\ now' \in Times
      /\ candles \in [Symbols -> Seq(Candle)] /\ candles' \in [Symbols -> Seq(Candle)]
      /\ \A s \in Symbols : active[s] # None => active[s] \in Candle
  BY DEF IInv, TypeOK
<1>2. Bucket(now) \in Buckets /\ Bucket(now') \in Buckets /\ Bucket(now) <= Bucket(now')
  <2>1. now' <= now'
    BY <1>1, ConstantsAssumption DEF Times
  <2> QED BY <1>1, <2>1, BucketType
<1>3. \A b \in Buckets : b \in Int
  BY ConstantsAssumption DEF Buckets
<1>4. SUFFICES ASSUME NEW s \in Symbols, NEW i \in DOMAIN candles'[s]
               PROVE  candles'[s][i].b <= Bucket(now')
  BY DEF CandlesArePast, Bucket
<1>5. candles'[s][i] \in Candle
  BY <1>1, <1>4, ElementOfSeq, LenProperties
<1>6. candles'[s][i].b \in Buckets
  BY <1>5 DEF Candle
<1>7. candles'[s][i].b <= Bucket(now)
  <2>1. CASE candles'[s] = candles[s]
    BY <1>4, <2>1 DEF CandlesArePast
  <2>2. CASE candles'[s] = <<>>
    BY <1>4, <2>2
  <2>3. CASE active[s] # None /\ candles'[s] = AppendCandle(candles[s], active[s])
    <3>1. candles'[s][i] = active[s] \/ \E j \in DOMAIN candles[s] : candles'[s][i] = candles[s][j]
      BY <1>1, <1>4, <2>3, AppendCandleHolds
    <3>2. active[s].b <= Bucket(now)
      BY <2>3 DEF IInv, ActiveNotFuture
    <3> QED BY <3>1, <3>2 DEF CandlesArePast
  <2> QED BY <2>1, <2>2, <2>3 DEF DequeStep
<1> HIDE DEF Bucket
<1> QED BY <1>2, <1>3, <1>6, <1>7

\* The exit a candle asks for depends on the plan of the position only.
LEMMA SamePlan ==
    ASSUME NEW p, NEW q, NEW c, \A f \in {"ts", "dir", "sl", "tp"} : p[f] = q[f]
    PROVE  ExitOnCandle(p, c) = ExitOnCandle(q, c)
<1>1. p.ts = q.ts /\ p.dir = q.dir /\ p.sl = q.sl /\ p.tp = q.tp
  OBVIOUS
<1> QED BY <1>1 DEF ExitOnCandle

\* How a step may leave a position open: with no candle behind it, entered just
\* now, or as it was, past no candle that asks for an exit.
StaysOpen(s) ==
    \/ candles'[s] = <<>>
    \/ /\ positions'[s].ts = now
       /\ candles'[s] = candles[s]
    \/ /\ positions[s] # None
       /\ \A f \in {"ts", "dir", "sl", "tp"} : positions'[s][f] = positions[s][f]
       /\ \/ candles'[s] = candles[s]
          \/ /\ active[s] # None /\ CandleExit(s) = None
             /\ candles'[s] = AppendCandle(candles[s], active[s])

LEMMA MissStep ==
    ASSUME IInv, TypeOK', NoMissedExit, CandlesArePast,
           "write" \notin Faults =>
               \A s \in Symbols : positions'[s] # None => StaysOpen(s)
    PROVE  NoMissedExit'
<1>1. /\ candles \in [Symbols -> Seq(Candle)] /\ now \in Times
      /\ \A s \in Symbols : active[s] # None => active[s] \in Candle
  BY DEF IInv, TypeOK
<1>2. SUFFICES ASSUME "write" \notin Faults, NEW s \in Symbols, positions'[s] # None,
                      NEW i \in DOMAIN candles'[s]
               PROVE  ExitOnCandle(positions'[s], candles'[s][i]) = None
  BY DEF NoMissedExit, OpenSymbols, ExitOnCandle, Bucket
<1>3. CASE candles'[s] = <<>>
  BY <1>2, <1>3
<1>4. CASE positions'[s].ts = now /\ candles'[s] = candles[s]
  <2>1. candles'[s][i].b <= Bucket(positions'[s].ts)
    BY <1>2, <1>4 DEF CandlesArePast
  <2> QED BY <2>1 DEF ExitOnCandle
<1>5. CASE /\ positions[s] # None
           /\ \A f \in {"ts", "dir", "sl", "tp"} : positions'[s][f] = positions[s][f]
           /\ \/ candles'[s] = candles[s]
              \/ /\ active[s] # None /\ CandleExit(s) = None
                 /\ candles'[s] = AppendCandle(candles[s], active[s])
  <2>1. ExitOnCandle(positions'[s], candles'[s][i]) = ExitOnCandle(positions[s], candles'[s][i])
    BY <1>5, SamePlan
  <2>2. \A j \in DOMAIN candles[s] : ExitOnCandle(positions[s], candles[s][j]) = None
    BY <1>2, <1>5 DEF NoMissedExit, OpenSymbols
  <2>3. CASE candles'[s] = candles[s]
    BY <1>2, <2>1, <2>2, <2>3
  <2>4. CASE /\ active[s] # None /\ CandleExit(s) = None
             /\ candles'[s] = AppendCandle(candles[s], active[s])
    <3>1. candles'[s][i] = active[s] \/ \E j \in DOMAIN candles[s] : candles'[s][i] = candles[s][j]
      BY <1>1, <1>2, <2>4, AppendCandleHolds
    <3>2. ExitOnCandle(positions[s], active[s]) = None
      BY <1>5, <2>4 DEF CandleExit
    <3> QED BY <2>1, <2>2, <3>1, <3>2
  <2> QED BY <1>5, <2>3, <2>4
<1> QED BY <1>2, <1>3, <1>4, <1>5 DEF StaysOpen

\* Every handler keeps what is said of completed candles.
LEMMA CandleStep ==
    ASSUME IInv, TypeOK', History, [Next]_vars
    PROVE  NoMissedExit' /\ CandlesArePast' /\ DrainedForgets'
<1> DEFINE Goal == NoMissedExit' /\ CandlesArePast' /\ DrainedForgets'
<1>0. /\ TypeOK /\ now \in Times /\ now' \in Times /\ (\A t \in Times : t \in Int)
      /\ positions \in [Symbols -> Position \cup {None}]
      /\ active \in [Symbols -> Candle \cup {None}]
      /\ NoMissedExit /\ CandlesArePast /\ DrainedForgets
  BY ConstantsAssumption DEF IInv, TypeOK, Times, History
<1>1. ASSUME now <= now', positions' = positions, candles' = candles,
             phase' = phase \/ (phase = "drained" /\ phase' = "resumed")
      PROVE  Goal
  <2>1. (\A s \in Symbols : DequeStep(s)) /\ (phase' = "down" => phase = "down")
    BY <1>1 DEF DequeStep
  <2>2. phase' = "down" => \A s \in Symbols : candles'[s] = <<>>
    BY <1>0, <1>1, <2>1 DEF CandlesArePast
  <2>3. CandlesArePast'
    BY <1>0, <1>1, <2>1, <2>2, PastStep
  <2>4. \A s \in Symbols : positions'[s] # None => StaysOpen(s)
    BY <1>1 DEF StaysOpen
  <2>5. NoMissedExit'
    BY <1>0, <2>4, MissStep
  <2>6. DrainedForgets'
    BY <1>0, <1>1 DEF DrainedForgets, OpenSymbols
  <2> QED BY <2>3, <2>5, <2>6
<1>2. ASSUME now <= now', \A s \in Symbols : candles'[s] = <<>>, phase' # "drained"
      PROVE  Goal
  <2>1. \A s \in Symbols : DequeStep(s) /\ StaysOpen(s)
    BY <1>2 DEF DequeStep, StaysOpen
  <2>2. CandlesArePast'
    BY <1>0, <1>2, <2>1, PastStep
  <2>3. NoMissedExit'
    BY <1>0, <2>1, MissStep
  <2>4. DrainedForgets'
    BY <1>2 DEF DrainedForgets
  <2> QED BY <2>2, <2>3, <2>4
<1>3. ASSUME MemoryLost, now' = now PROVE Goal
  <2>1. now <= now' /\ (\A s \in Symbols : candles'[s] = <<>>) /\ phase' # "drained"
    BY <1>0, <1>3 DEF MemoryLost
  <2> QED BY <1>2, <2>1
<1>4. CASE Tick \/ Resume
  <2>1. /\ positions' = positions /\ candles' = candles /\ now' = now + 1
        /\ phase' = phase \/ (phase = "drained" /\ phase' = "resumed")
    BY <1>4 DEF Tick, Resume, memVars
  <2>2. now <= now'
    BY <1>0, <2>1
  <2> QED BY <1>1, <2>1, <2>2
<1>5. ASSUME NEW s \in Symbols, NEW price \in TickPrices, OnWsTick(s, price)
      PROVE  Goal
  <2>1. positions' = positions /\ candles' = candles /\ phase' = phase /\ now <= now'
    BY <1>0, <1>5 DEF OnWsTick
  <2> QED BY <1>1, <2>1
<1>6. ASSUME NEW s \in Symbols, NEW rate \in FundingRates, OnTicker(s, rate)
      PROVE  Goal
  <2>1. positions' = positions /\ candles' = candles /\ phase' = phase /\ now <= now'
    BY <1>0, <1>6 DEF OnTicker
  <2> QED BY <1>1, <2>1
<1>7. ASSUME NEW s \in Symbols, NEW t \in Times, NEW bar \in Bars, OnOhlcv(s, t, bar)
      PROVE  Goal
  <2>1. PICK done \in SUBSET ExitingOnSample(s, t) :
           /\ positions' = [PositionsAfterClose(done) EXCEPT
                 ![s] = PayFunding(@, fundingRate[s], FundingsDue(s, t))]
           /\ "write" \notin Faults => done = ExitingOnSample(s, t)
    BY <1>7, SampleCloses
  <2>2. done \in SUBSET OpenSymbols
    BY <1>0, SampleExit
  <2>3. /\ now' = now /\ now <= now' /\ phase' = phase /\ phase # "down"
        /\ candles' = [candles EXCEPT
              ![s] = IF Completes(s, t) THEN AppendCandle(@, active[s]) ELSE @]
    BY <1>0, <1>7 DEF OnOhlcv, Running
  <2>4. \A x \in Symbols :
           candles'[x] = IF x = s /\ Completes(s, t) THEN AppendCandle(candles[x], active[x])
                         ELSE candles[x]
    BY <1>0, <2>3 DEF TypeOK
  <2>5. \A x \in Symbols : positions'[x] # None =>
           /\ x \notin done /\ positions[x] # None
           /\ \A f \in {"ts", "dir", "sl", "tp"} : positions'[x][f] = positions[x][f]
    <3> DEFINE old == PositionsAfterClose(done)
    <3>1. /\ old \in [Symbols -> Position \cup {None}]
          /\ \A x \in Symbols : old[x] = IF x \in done THEN None ELSE positions[x]
      BY <1>0, <2>2, PositionsAfterCloseType DEF PositionsAfterClose
    <3> DEFINE paid == PayFunding(old[s], fundingRate[s], FundingsDue(s, t))
    <3>2. positions' = [old EXCEPT ![s] = paid]
      BY <2>1
    <3> HIDE DEF old
    <3>3. /\ paid = None <=> old[s] = None
          /\ old[s] # None =>
               \A f \in {"ts", "dir", "entry", "sl", "tp", "fee"} : paid[f] = old[s][f]
      <4>1. old[s] \in Position \cup {None}
        BY <3>1
      <4> QED BY <1>0, <4>1, PayFundingType
    <3> HIDE DEF paid
    <3>4. \A x \in Symbols : positions'[x] = IF x = s THEN paid ELSE old[x]
      BY <3>1, <3>2
    <3> QED BY <3>1, <3>3, <3>4
  <2>6. \A x \in Symbols : DequeStep(x)
    BY <2>4 DEF DequeStep, Completes
  <2>7. CandlesArePast'
    BY <1>0, <2>3, <2>6, PastStep
  <2>8. ASSUME "write" \notin Faults, NEW x \in Symbols, positions'[x] # None
        PROVE  StaysOpen(x)
    <3>1. CASE x = s /\ Completes(s, t)
      <4>1. s \notin ExitingOnSample(s, t)
        BY <2>1, <2>5, <2>8, <3>1
      <4>2. CandleExit(s) = None /\ active[s] # None
        BY <3>1, <4>1 DEF ExitingOnSample, Completes
      <4> QED BY <2>4, <2>5, <2>8, <3>1, <4>2 DEF StaysOpen
    <3>2. CASE ~(x = s /\ Completes(s, t))
      BY <2>4, <2>5, <2>8, <3>2 DEF StaysOpen
    <3> QED BY <3>1, <3>2
  <2>9. NoMissedExit'
    BY <1>0, <2>8, MissStep
  <2>10. DrainedForgets'
    BY <1>0, <2>3, <2>5 DEF DrainedForgets, OpenSymbols
  <2> QED BY <2>7, <2>9, <2>10
<1>8. ASSUME NEW s \in Symbols, NEW dir \in Directions, NEW price \in TickPrices,
             NEW dist \in SlDistances, OnEntry(s, dir, price, dist)
      PROVE  Goal
  <2> DEFINE pos == NewPosition(dir, price, dist)
  <2>1. /\ positions' = [positions EXCEPT ![s] = pos] /\ candles' = candles
        /\ phase' = phase /\ phase \in {"up", "resumed"} /\ now <= now'
    BY <1>0, <1>8 DEF OnEntry, TakesEntries
  <2>2. pos.ts = now
    BY <1>0, NewPositionType
  <2> HIDE DEF pos
  <2>3. (\A x \in Symbols : DequeStep(x)) /\ phase' # "down" /\ phase' # "drained"
    BY <2>1 DEF DequeStep
  <2>4. CandlesArePast'
    BY <1>0, <2>1, <2>3, PastStep
  <2>5. \A x \in Symbols : positions'[x] # None => StaysOpen(x)
    BY <1>0, <2>1, <2>2 DEF StaysOpen
  <2>6. NoMissedExit'
    BY <1>0, <2>5, MissStep
  <2> QED BY <2>3, <2>4, <2>6 DEF DrainedForgets
<1>9. ASSUME NEW prices \in [Symbols -> TickPrices], Finalize(prices)
      PROVE  Goal
  <2>1. PICK done \in SUBSET OpenSymbols :
           /\ positions' = PositionsAfterClose(done)
           /\ "write" \notin Faults => done = OpenSymbols
    BY <1>9, FinalizeCloses
  <2>2. /\ now <= now' /\ phase' = "drained"
        /\ \A s \in Symbols : candles'[s] = IF active[s] = None THEN candles[s]
                                            ELSE AppendCandle(candles[s], active[s])
    BY <1>0, <1>9 DEF Finalize
  <2>3. \A s \in Symbols : DequeStep(s)
    BY <2>2 DEF DequeStep
  <2>4. CandlesArePast'
    BY <1>0, <2>2, <2>3, PastStep
  <2>5. "write" \notin Faults => \A s \in Symbols : positions'[s] = None
    BY <2>1 DEF PositionsAfterClose, OpenSymbols
  <2>6. NoMissedExit'
    BY <1>0, <2>5, MissStep
  <2>7. DrainedForgets'
    BY <2>5 DEF DrainedForgets, OpenSymbols
  <2> QED BY <2>4, <2>6, <2>7
<1>10. ASSUME NEW t \in Times, OnStartup(t)
       PROVE  Goal
  <2>1. phase = "down" /\ candles' = candles /\ phase' = "up" /\ now' = t /\ t > now
    BY <1>10 DEF OnStartup
  <2>2. now <= now'
    BY <1>0, <2>1
  <2>3. (\A s \in Symbols : candles'[s] = <<>>) /\ phase' # "drained"
    BY <1>0, <2>1 DEF CandlesArePast
  <2> QED BY <1>2, <2>2, <2>3
<1>11. CASE UNCHANGED vars
  <2>1. positions' = positions /\ candles' = candles /\ phase' = phase /\ now <= now'
    BY <1>0, <1>11 DEF vars, memVars
  <2> QED BY <1>1, <2>1
<1>12. ASSUME NEW s \in Symbols, NEW dir \in Directions, NEW price \in TickPrices,
              NEW dist \in SlDistances, CrashInEntry(s, dir, price, dist)
       PROVE  Goal
  BY <1>3, <1>12 DEF CrashInEntry
<1>13. ASSUME NEW prices \in [Symbols -> TickPrices], CrashInFinalize(prices)
       PROVE  Goal
  BY <1>3, <1>13 DEF CrashInFinalize
<1>14. CASE Exit
  BY <1>3, <1>14 DEF Exit
<1>15. ASSUME NEW s \in Symbols, CrashInClose(s)
       PROVE  Goal
  BY <1>3, <1>15 DEF CrashInClose
<1> QED
  BY <1>4, <1>5, <1>6, <1>7, <1>8, <1>9, <1>10, <1>11, <1>12, <1>13, <1>14, <1>15
  DEF Next

\* Exits and records keep their promises in every reachable state.
THEOREM HistoryInvariant == Spec => []History
<1>1. Init => History
  <2> SUFFICES ASSUME Init PROVE History
    OBVIOUS
  <2>1. /\ \A s \in Symbols : \A t \in Times : rows[s][t] = None
        /\ \A s \in Symbols : candles[s] = <<>> /\ positions[s] = None
        /\ closedTrades = {} /\ events = {} /\ phase = "up" /\ TypeOK
    <3>1. TypeOK
      BY InitInvariant DEF IInv
    <3> QED BY <3>1 DEF Init
  <2>2. ExitAfterEntryBucket /\ RecordsMatchRows /\ RowsHaveEvents
    BY <2>1 DEF ExitAfterEntryBucket, RecordsMatchRows, RowsHaveEvents
  <2>3. NoMissedExit /\ CandlesArePast /\ DrainedForgets
    BY <2>1 DEF NoMissedExit, CandlesArePast, DrainedForgets, OpenSymbols
  <2> QED BY <2>2, <2>3 DEF History
<1>2. IInv /\ TypeOK' /\ History /\ [Next]_vars => History'
  <2> SUFFICES ASSUME IInv, TypeOK', History, [Next]_vars PROVE History'
    OBVIOUS
  <2>1. ExitAfterEntryBucket' /\ RecordsMatchRows' /\ RowsHaveEvents'
    BY RecordStep
  <2>2. NoMissedExit' /\ CandlesArePast' /\ DrainedForgets'
    BY CandleStep
  <2> QED BY <2>1, <2>2 DEF History
<1> QED BY <1>1, <1>2, InductiveInvariant, TypeCorrect, PTL DEF Spec

\* While writes succeed no stop or target of a completed candle is overlooked,
\* whatever late samples, funding payments and restarts come between.
THEOREM ExitsAreNotMissed == Spec => []NoMissedExit
<1>1. History => NoMissedExit
  BY DEF History
<1> QED BY <1>1, HistoryInvariant, PTL

\* A stop or target is dated after the bucket of its entry and not after now.
THEOREM ExitsFollowEntries == Spec => []ExitAfterEntryBucket
<1>1. History => ExitAfterEntryBucket
  BY DEF History
<1> QED BY <1>1, HistoryInvariant, PTL

\* The trades of the process and the audit trail match the table, through
\* failing writes and crashes.
THEOREM RecordsAreTrue == Spec => []RecordsMatchRows
<1>1. History => RecordsMatchRows
  BY DEF History
<1> QED BY <1>1, HistoryInvariant, PTL

\* N4: after a finalize with working writes and reads nothing is open, and
\* without faults a CLOSED row has both its events.
THEOREM DrainLeavesNothing == Spec => []DrainedIsFlat
<1>1. IInv /\ History => DrainedIsFlat
  <2> SUFFICES ASSUME IInv, History PROVE DrainedIsFlat
    OBVIOUS
  <2>1. ASSUME phase = "drained", Faults \cap {"write", "read"} = {}, NEW s \in Symbols
        PROVE  positions[s] = None /\ OpenRows(s) = {}
    <3>1. "write" \notin Faults /\ "read" \notin Faults /\ phase # "down"
      BY <2>1
    <3>2. positions[s] = None
      BY <2>1, <3>1 DEF History, DrainedForgets, OpenSymbols
    <3>3. \A t \in OpenRows(s) : positions[s] # None
      BY <3>1 DEF IInv, OpenRowsAreWatched
    <3> HIDE DEF OpenRows
    <3> QED BY <3>2, <3>3
  <2>2. ASSUME Faults = {}, NEW s \in Symbols, NEW t \in Times, rows[s][t] # None,
               rows[s][t].status = "CLOSED", NEW k \in {"ENTRY", "EXIT"}
        PROVE  [symbol |-> s, ts |-> t, type |-> k] \in events
    <3>1. /\ [symbol |-> s, ts |-> t, type |-> "ENTRY"] \in events
          /\ [symbol |-> s, ts |-> t, type |-> "EXIT"] \in events
      BY <2>2 DEF History, RowsHaveEvents
    <3> QED BY <2>2, <3>1
  <2> QED BY <2>1, <2>2 DEF DrainedIsFlat
<1> QED BY <1>1, InductiveInvariant, HistoryInvariant, PTL

=============================================================================
