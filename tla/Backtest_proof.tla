--------------------------- MODULE Backtest_proof ---------------------------
(***************************************************************************)
(* Proofs about Backtest, for every list of symbols, every tape, every     *)
(* length of the windows, and every configuration.                         *)
(*                                                                         *)
(* The balances, the report and the funding paid are recursive functions;  *)
(* what they compute is proved by induction, from the least element of a   *)
(* set of counterexamples: the first lemmas.                               *)
(***************************************************************************)
EXTENDS Backtest, SequenceTheorems, FiniteSetTheorems, TLAPS

-----------------------------------------------------------------------------
(* Induction and finite sets                                               *)

\* A set of natural numbers has a least one: intervals below its numbers are ordered
\* by inclusion, and that order is well founded on finite sets.
LEMMA LeastNumber ==
    ASSUME NEW S \in SUBSET Nat, S # {}
    PROVE  \E n \in S : \A m \in S : n <= m
<1> DEFINE T == {1..n : n \in S}
           R == StrictSubsetOrdering(Nat)
<1>1. IsWellFoundedOn(R, FiniteSubsetsOf(Nat))
  BY FS_StrictSubsetOrderingWellFounded
<1>2. T \subseteq FiniteSubsetsOf(Nat)
  <2>1. \A n \in S : 1..n \in SUBSET Nat
    OBVIOUS
  <2>2. \A n \in S : IsFiniteSet(1..n)
    BY FS_Interval
  <2> QED
    BY <2>1, <2>2 DEF FiniteSubsetsOf
<1>3. T # {}
  OBVIOUS
<1> HIDE DEF T, R
<1>4. PICK x \in T : \A y \in T : <<y, x>> \notin R
  BY <1>1, <1>2, <1>3, WFMin
<1>5. PICK n \in S : x = 1..n
  BY <1>4 DEF T
<1>6. ASSUME NEW m \in S, m < n PROVE FALSE
  <2>1. 1..m \in T /\ 1..m \in SUBSET Nat /\ 1..n \in SUBSET Nat
    BY DEF T
  <2>2. 1..m \subseteq 1..n /\ n \in 1..n /\ n \notin 1..m
    BY <1>6
  <2>3. <<1..m, 1..n>> \in R
    BY <2>1, <2>2 DEF R, StrictSubsetOrdering
  <2> QED
    BY <2>1, <2>3, <1>4, <1>5
<1> QED
  BY <1>6

\* Induction up to n, over a set of numbers.
LEMMA UpTo ==
    ASSUME NEW n \in Nat, NEW P, 0 \in P, \A i \in 1..n : i - 1 \in P => i \in P
    PROVE  \A i \in 0..n : i \in P
<1> DEFINE Bad == {i \in 0..n : i \notin P}
<1>1. SUFFICES ASSUME Bad # {} PROVE FALSE
  OBVIOUS
<1>2. Bad \in SUBSET Nat
  OBVIOUS
<1> HIDE DEF Bad
<1>3. PICK k \in Bad : \A m \in Bad : k <= m
  BY <1>1, <1>2, LeastNumber
<1>4. k \in 1..n /\ k \notin P
  BY <1>3 DEF Bad
<1>5. k - 1 \in P
  BY <1>3, <1>4 DEF Bad
<1> QED
  BY <1>4, <1>5

\* A finite set of integers has a greatest and a least element.
LEMMA HasGreatest ==
    ASSUME NEW S \in SUBSET Int, IsFiniteSet(S), S # {}
    PROVE  \E x \in S : \A y \in S : y <= x
<1> DEFINE Above(x) == {y \in S : y > x}
           T == {Above(x) : x \in S}
           R == StrictSubsetOrdering(S)
<1>1. IsWellFoundedOn(R, FiniteSubsetsOf(S))
  BY FS_StrictSubsetOrderingWellFounded
<1>2. T \subseteq FiniteSubsetsOf(S)
  <2>1. \A x \in S : Above(x) \in SUBSET S
    OBVIOUS
  <2>2. \A x \in S : IsFiniteSet(Above(x))
    BY <2>1, FS_Subset
  <2> QED
    BY <2>1, <2>2 DEF FiniteSubsetsOf
<1>3. T # {}
  OBVIOUS
<1> HIDE DEF T, R
<1>4. PICK a \in T : \A b \in T : <<b, a>> \notin R
  BY <1>1, <1>2, <1>3, WFMin
<1>5. PICK x \in S : a = Above(x)
  BY <1>4 DEF T
<1>6. ASSUME NEW y \in S, y > x PROVE FALSE
  <2>1. Above(y) \in T /\ Above(y) \in SUBSET S /\ Above(x) \in SUBSET S
    BY DEF T
  <2> x \in Int /\ y \in Int
    OBVIOUS
  <2>2. y \in Above(x) /\ y \notin Above(y)
    BY <1>6
  <2>4. ASSUME NEW z \in Above(y) PROVE z \in Above(x)
    <3>1. z \in S /\ z \in Int /\ z > y
      OBVIOUS
    <3> QED
      BY <3>1, <1>6
  <2>3. <<Above(y), Above(x)>> \in R
    BY <2>1, <2>2, <2>4 DEF R, StrictSubsetOrdering
  <2> QED
    BY <2>1, <2>3, <1>4, <1>5
<1> QED
  BY <1>6

\* And a least.
LEMMA HasLeast ==
    ASSUME NEW S \in SUBSET Int, IsFiniteSet(S), S # {}
    PROVE  \E x \in S : \A y \in S : x <= y
<1> DEFINE Neg == [x \in S |-> -x]
           M == {-x : x \in S}
<1>0. \A x \in S : -x \in Int
  OBVIOUS
<1>1. M \in SUBSET Int /\ M # {}
  BY <1>0
<1>2. IsFiniteSet(M)
  <2>1. Neg \in Surjection(S, M)
    BY DEF Surjection
  <2> QED
    BY <2>1, FS_Surjection
<1> HIDE DEF M
<1>3. PICK y \in M : \A z \in M : z <= y
  BY <1>1, <1>2, HasGreatest
<1>4. PICK x \in S : y = -x
  BY DEF M
<1>5. \A z \in S : -z \in M
  BY DEF M
<1> QED
  BY <1>3, <1>4, <1>5

\* So Max and Min are elements, and bounds.
LEMMA MaxIs ==
    ASSUME NEW S \in SUBSET Int, IsFiniteSet(S), S # {}
    PROVE  Max(S) \in S /\ \A y \in S : y <= Max(S)
BY HasGreatest DEF Max

\* Min of a finite set of integers is its least member.
LEMMA MinIs ==
    ASSUME NEW S \in SUBSET Int, IsFiniteSet(S), S # {}
    PROVE  Min(S) \in S /\ \A y \in S : Min(S) <= y
BY HasLeast DEF Min

\* Running sums exist.
LEMMA RunningSum ==
    ASSUME NEW base \in Int, NEW n \in Nat, NEW d \in [1..n -> Int]
    PROVE  \E g \in [0..n -> Int] : g[0] = base /\ \A i \in 1..n : g[i] = g[i - 1] + d[i]
<1> DEFINE Good(k, g) == /\ g \in [0..k -> Int] /\ g[0] = base
                         /\ \A i \in 1..k : g[i] = g[i - 1] + d[i]
           P == {k \in 0..n : \E g \in [0..k -> Int] : Good(k, g)}
<1>1. 0 \in P
  <2>1. Good(0, [i \in 0..0 |-> base])
    OBVIOUS
  <2>2. 0 \in 0..n /\ [i \in 0..0 |-> base] \in [0..0 -> Int]
    OBVIOUS
  <2> HIDE DEF Good
  <2> QED
    BY <2>1, <2>2
<1>2. ASSUME NEW k \in 1..n, k - 1 \in P PROVE k \in P
  <2>1. PICK g \in [0..(k - 1) -> Int] : Good(k - 1, g)
    BY <1>2
  <2> DEFINE h == [i \in 0..k |-> IF i = k THEN g[k - 1] + d[k] ELSE g[i]]
  <2>2. h \in [0..k -> Int]
    BY <2>1
  <2>3. h[0] = base
    BY <2>1
  <2>4. ASSUME NEW i \in 1..k PROVE h[i] = h[i - 1] + d[i]
    BY <2>1
  <2>5. Good(k, h)
    BY <2>2, <2>3, <2>4
  <2>6. k \in 0..n
    OBVIOUS
  <2> HIDE DEF Good, h
  <2> QED
    BY <2>2, <2>5, <2>6
<1> HIDE DEF P
<1>3. \A i \in 0..n : i \in P
  BY <1>1, <1>2, UpTo
<1>4. n \in P
  BY <1>3
<1> QED
  BY <1>4 DEF P

\* A function is defined by its first value and by a step of its own for each
\* later place.
LEMMA Recursion ==
    ASSUME NEW T, NEW base \in T, NEW n \in Nat, NEW step \in [1..n -> [T -> T]]
    PROVE  \E g \in [0..n -> T] : g[0] = base /\ \A i \in 1..n : g[i] = step[i][g[i - 1]]
<1> DEFINE Good(k, g) == /\ g \in [0..k -> T] /\ g[0] = base
                         /\ \A i \in 1..k : g[i] = step[i][g[i - 1]]
           P == {k \in 0..n : \E g \in [0..k -> T] : Good(k, g)}
<1>1. 0 \in P
  <2>1. Good(0, [i \in 0..0 |-> base])
    OBVIOUS
  <2>2. 0 \in 0..n /\ [i \in 0..0 |-> base] \in [0..0 -> T]
    OBVIOUS
  <2> HIDE DEF Good
  <2> QED
    BY <2>1, <2>2
<1>2. ASSUME NEW k \in 1..n, k - 1 \in P PROVE k \in P
  <2>1. PICK g \in [0..(k - 1) -> T] : Good(k - 1, g)
    BY <1>2
  <2> DEFINE h == [i \in 0..k |-> IF i = k THEN step[k][g[k - 1]] ELSE g[i]]
  <2>2. h \in [0..k -> T]
    BY <2>1
  <2>3. h[0] = base
    BY <2>1
  <2>4. ASSUME NEW i \in 1..k PROVE h[i] = step[i][h[i - 1]]
    BY <2>1
  <2>5. Good(k, h)
    BY <2>2, <2>3, <2>4
  <2>6. k \in 0..n
    OBVIOUS
  <2> HIDE DEF Good, h
  <2> QED
    BY <2>2, <2>5, <2>6
<1> HIDE DEF P
<1>3. \A i \in 0..n : i \in P
  BY <1>1, <1>2, UpTo
<1>4. n \in P
  BY <1>3
<1> QED
  BY <1>4 DEF P
\* The maximum of two integers.
LEMMA MaxOfTwo ==
    ASSUME NEW a \in Int, NEW b \in Int
    PROVE  Max({a, b}) = IF a >= b THEN a ELSE b
BY DEF Max

\* The minimum of two integers.
LEMMA MinOfTwo ==
    ASSUME NEW a \in Int, NEW b \in Int
    PROVE  Min({a, b}) = IF a <= b THEN a ELSE b
BY DEF Min

\* The maximum of five integers.
LEMMA MaxOfFive ==
    ASSUME NEW a \in Int, NEW b \in Int, NEW c \in Int, NEW d \in Int, NEW e \in Int
    PROVE  Max({a, b, c, d, e}) \in Int
<1>1. IsFiniteSet({a}) /\ IsFiniteSet({b}) /\ IsFiniteSet({c}) /\ IsFiniteSet({d}) /\ IsFiniteSet({e})
  BY FS_Singleton
<1>2. IsFiniteSet({a} \cup {b}) /\ IsFiniteSet({c} \cup {d})
  BY <1>1, FS_Union
<1>3. IsFiniteSet(({a} \cup {b}) \cup ({c} \cup {d}))
  BY <1>2, FS_Union
<1>4. IsFiniteSet((({a} \cup {b}) \cup ({c} \cup {d})) \cup {e})
  BY <1>1, <1>3, FS_Union
<1>5. {a, b, c, d, e} = (({a} \cup {b}) \cup ({c} \cup {d})) \cup {e}
  OBVIOUS
<1> QED
  BY <1>4, <1>5, MaxIs

-----------------------------------------------------------------------------
(* The symbols and the merge order                                         *)

\* There is at least one symbol, and finitely many.
LEMMA SymbolsFinite == N \in Nat \ {0} /\ IsFiniteSet(Symbols)
<1>1. N \in Nat \ {0} /\ Symbols = {SymbolOrder[i] : i \in 1..N} /\ SymbolOrder \in [1..N -> Symbols]
  <2>1. SymbolOrder \in Seq(Symbols) /\ N > 0 /\ N = Len(SymbolOrder)
    BY ConstantsAssumption DEF N
  <2>2. N \in Nat /\ SymbolOrder \in [1..N -> Symbols] /\ DOMAIN SymbolOrder = 1..N
    BY <2>1, LenProperties
  <2> QED
    BY <2>1, <2>2 DEF Symbols, ToSet
<1>2. SymbolOrder \in Surjection(1..N, Symbols)
  BY <1>1 DEF Surjection
<1> QED
  BY <1>1, <1>2, FS_Interval, FS_Surjection

\* Every slot of the merge order is a stream, and no stream has two.
LEMMA MergedIs ==
    ASSUME NEW i \in 1..2*N
    PROVE  /\ Merged[i] \in Streams
           /\ Merged[i][1] \in {"ohlcv", "ticker"} /\ Merged[i][2] \in Symbols
           /\ Merged[i] = <<Merged[i][1], Merged[i][2]>>
<1>1. N \in Nat \ {0} /\ SymbolOrder \in [1..N -> Symbols]
  BY SymbolsFinite, ConstantsAssumption, LenProperties DEF N
<1>2. Merged[i] = IF i <= N THEN <<"ohlcv", SymbolOrder[i]>> ELSE <<"ticker", SymbolOrder[i - N]>>
  BY DEF Merged
<1>3. CASE i <= N
  <2>1. SymbolOrder[i] \in Symbols
    BY <1>1, <1>3
  <2> QED
    BY <1>2, <1>3, <2>1 DEF Streams
<1>4. CASE ~(i <= N)
  <2>1. i - N \in 1..N
    BY <1>1, <1>4
  <2>2. SymbolOrder[i - N] \in Symbols
    BY <1>1, <2>1
  <2> QED
    BY <1>2, <1>4, <2>2 DEF Streams
<1> QED
  BY <1>3, <1>4

\* A stream has one place in the merged order of a second.
LEMMA MergedOnce ==
    ASSUME NEW i \in 1..2*N, NEW j \in 1..2*N, Merged[i] = Merged[j]
    PROVE  i = j
<1>1. N \in Nat \ {0} /\ \A k, l \in 1..N : SymbolOrder[k] = SymbolOrder[l] => k = l
  BY SymbolsFinite, ConstantsAssumption
<1>2. \A k \in 1..2*N : /\ k <= N => Merged[k][1] = "ohlcv" /\ Merged[k][2] = SymbolOrder[k]
                        /\ ~(k <= N) => Merged[k][1] = "ticker" /\ Merged[k][2] = SymbolOrder[k - N]
  BY DEF Merged
<1>3. CASE i <= N /\ j <= N
  <2>1. SymbolOrder[i] = SymbolOrder[j]
    BY <1>2, <1>3
  <2> QED
    BY <1>1, <1>3, <2>1
<1>4. CASE ~(i <= N) /\ ~(j <= N)
  <2>1. SymbolOrder[i - N] = SymbolOrder[j - N]
    BY <1>2, <1>4
  <2>2. i - N \in 1..N /\ j - N \in 1..N
    BY <1>1, <1>4
  <2>3. i - N = j - N
    BY <1>1, <2>1, <2>2
  <2> QED
    BY <1>1, <2>3
<1>5. CASE (i <= N /\ ~(j <= N)) \/ (j <= N /\ ~(i <= N))
  BY <1>2, <1>5
<1> QED
  BY <1>3, <1>4, <1>5

-----------------------------------------------------------------------------
(* Times and candles                                                       *)

\* A fold starts before its test window, and its test window before it ends.
LEMMA WindowIs ==
    ASSUME NEW k \in Nat
    PROVE  /\ TestStart(k) \in Nat /\ TestEnd(k) \in Nat
           /\ k * StepLen \in Nat /\ k * StepLen <= TestStart(k) /\ TestStart(k) <= TestEnd(k)
           /\ k \in Folds => TestEnd(k) \in Times
<1>1. k * StepLen \in Nat /\ TrainLen \in Nat /\ TestLen \in Nat /\ TsTo \in Nat
  BY ConstantsAssumption
<1>2. TestStart(k) = k * StepLen + TrainLen /\ TestEnd(k) = TestStart(k) + TestLen
  BY DEF TestStart, TestEnd
<1> HIDE DEF TestStart, TestEnd
<1> DEFINE m == k * StepLen
<1> HIDE DEF m
<1>3. m \in Nat /\ TestStart(k) = m + TrainLen
  BY <1>1, <1>2 DEF m
<1>4. TestStart(k) \in Nat /\ TestEnd(k) \in Nat /\ m <= TestStart(k) /\ TestStart(k) <= TestEnd(k)
  BY <1>1, <1>2, <1>3
<1> QED
  BY <1>1, <1>4 DEF m, Folds, Times

\* The start of the candle a second belongs to.
LEMMA BucketIs ==
    ASSUME NEW t \in Nat
    PROVE  Bucket(t) \in Nat /\ Bucket(t) * CandleSec <= t /\ Bucket(t) * CandleSec \in Nat
<1>1. CandleSec \in Nat \ {0}
  BY ConstantsAssumption
<1> QED
  BY <1>1 DEF Bucket

\* Later seconds belong to the same candle or a later one.
LEMMA BucketMonotone ==
    ASSUME NEW t \in Nat, NEW u \in Nat, t <= u
    PROVE  Bucket(t) <= Bucket(u)
<1>1. CandleSec \in Nat \ {0}
  BY ConstantsAssumption
<1> QED
  BY <1>1 DEF Bucket

\* A sample that extends a candle keeps its start.
LEMMA ExtendIs ==
    ASSUME NEW c \in Candle, NEW bar \in Bar
    PROVE  Extend(c, bar) \in Candle /\ Extend(c, bar).b = c.b
<1>1. /\ c.high \in Int /\ c.low \in Int /\ bar.high \in Int /\ bar.low \in Int /\ bar.close \in Int
  BY DEF Candle, Bar
<1>2. Max({c.high, bar.high}) \in Int /\ Min({c.low, bar.low}) \in Int
  BY <1>1, MaxOfTwo, MinOfTwo
<1>3. c.b \in Nat /\ c.open \in Int
  BY DEF Candle
<1> QED
  BY <1>1, <1>2, <1>3 DEF Candle, Extend

\* The first sample of a bucket opens a candle there.
LEMMA OpenIs ==
    ASSUME NEW t \in Nat, NEW bar \in Bar
    PROVE  Open(t, bar) \in Candle /\ Open(t, bar).b = Bucket(t)
BY BucketIs DEF Open, Candle, Bar

\* None is no candle, position, exit or number.
LEMMA NoneIs == None \notin Candle /\ None \notin Position /\ None \notin Exit /\ None \notin Int
BY ConstantsAssumption

\* The history after a candle is finished: what it held, and that candle.
LEMMA HistoryIs ==
    ASSUME NEW cs \in Seq(Candle), NEW c \in Candle, Len(cs) <= CandleCap,
           NEW new, new = IF Len(Append(cs, c)) > CandleCap THEN Tail(Append(cs, c))
                          ELSE Append(cs, c)
    PROVE  /\ new \in Seq(Candle) /\ Len(new) <= CandleCap
           /\ \A i \in 1..Len(new) : new[i] = c \/ \E j \in 1..Len(cs) : new[i] = cs[j]
<1> DEFINE all == Append(cs, c)
<1>1. CandleCap \in Nat /\ Len(cs) \in Nat
  BY ConstantsAssumption, LenProperties
<1>2. /\ all \in Seq(Candle) /\ all # <<>> /\ Len(all) = Len(cs) + 1
      /\ \A i \in 1..Len(cs) : all[i] = cs[i]
      /\ all[Len(cs) + 1] = c
  BY AppendProperties
<1>3. /\ Tail(all) \in Seq(Candle) /\ Len(Tail(all)) = Len(cs)
      /\ \A i \in 1..Len(cs) : Tail(all)[i] = all[i + 1]
  BY <1>1, <1>2, HeadTailProperties
<1> HIDE DEF all
<1>4. \A i \in 1..Len(all) : all[i] = c \/ \E j \in 1..Len(cs) : all[i] = cs[j]
  BY <1>1, <1>2
<1>5. CASE Len(all) > CandleCap
  <2>1. new = Tail(all)
    BY <1>5 DEF all
  <2>2. \A i \in 1..Len(cs) : i + 1 \in 1..Len(all)
    BY <1>1, <1>2
  <2> QED
    BY <1>1, <1>3, <1>4, <2>1, <2>2
<1>6. CASE ~(Len(all) > CandleCap)
  <2>1. new = all
    BY <1>6 DEF all
  <2> QED
    BY <1>1, <1>2, <1>4, <1>6, <2>1
<1> QED
  BY <1>5, <1>6

\* The true range of a candle is a number.
LEMMA TrueRangeIs ==
    ASSUME NEW prev \in Candle, NEW cur \in Candle
    PROVE  TrueRange(prev, cur) \in Int
<1>1. /\ prev.high \in Int /\ prev.low \in Int /\ prev.close \in Int
      /\ cur.high \in Int /\ cur.low \in Int /\ cur.close \in Int
  BY DEF Candle
<1>2. /\ cur.high - cur.low \in Int /\ cur.high - prev.close \in Int /\ prev.close - cur.high \in Int
      /\ cur.low - prev.close \in Int /\ prev.close - cur.low \in Int
  BY <1>1
<1>3. TrueRange(prev, cur) = Max({cur.high - cur.low, cur.high - prev.close, prev.close - cur.high,
                                  cur.low - prev.close, prev.close - cur.low})
  BY DEF TrueRange
<1> QED
  BY <1>2, <1>3, MaxOfFive

\* So is the average of them.
LEMMA AtrIs ==
    ASSUME NEW cs \in Seq(Candle)
    PROVE  Atr(cs) \in Int
<1>1. AtrPeriod \in Nat \ {0} /\ Len(cs) \in Nat
  BY ConstantsAssumption, LenProperties
<1>2. CASE Len(cs) < AtrPeriod + 1
  BY <1>2 DEF Atr
<1>3. CASE ~(Len(cs) < AtrPeriod + 1)
  <2> DEFINE n == Len(cs)
             Range2(i) == TrueRange(cs[n - AtrPeriod + i - 1], cs[n - AtrPeriod + i])
             d == [i \in 1..AtrPeriod |-> Range2(i)]
             sum == CHOOSE f : f = [i \in 0..AtrPeriod |-> IF i = 0 THEN 0 ELSE f[i - 1] + Range2(i)]
  <2>1. ASSUME NEW i \in 1..AtrPeriod PROVE Range2(i) \in Int
    <3>1. n - AtrPeriod + i - 1 \in 1..n /\ n - AtrPeriod + i \in 1..n
      BY <1>1, <1>3
    <3>2. cs[n - AtrPeriod + i - 1] \in Candle /\ cs[n - AtrPeriod + i] \in Candle
      BY <3>1, ElementOfSeq
    <3> QED
      BY <3>2, TrueRangeIs
  <2>2. Atr(cs) = sum[AtrPeriod] \div AtrPeriod
    BY <1>3 DEF Atr
  <2> HIDE DEF Range2, n
  <2>3. d \in [1..AtrPeriod -> Int] /\ \A i \in 1..AtrPeriod : d[i] = Range2(i)
    BY <2>1
  <2> HIDE DEF d
  <2>31. PICK zero \in Int : zero = 0
    OBVIOUS
  <2>32. \E g \in [0..AtrPeriod -> Int] :
            g[0] = zero /\ \A i \in 1..AtrPeriod : g[i] = g[i - 1] + d[i]
    BY <1>1, <2>3, RunningSum
  <2>4. PICK g \in [0..AtrPeriod -> Int] :
            g[0] = 0 /\ \A i \in 1..AtrPeriod : g[i] = g[i - 1] + d[i]
    BY <2>31, <2>32
  <2>5. g = [i \in 0..AtrPeriod |-> IF i = 0 THEN 0 ELSE g[i - 1] + Range2(i)]
    BY <1>1, <2>3, <2>4
  <2>6. sum = [i \in 0..AtrPeriod |-> IF i = 0 THEN 0 ELSE sum[i - 1] + Range2(i)]
    BY <2>5
  <2> HIDE DEF sum
  <2>7. ASSUME NEW i \in 1..AtrPeriod, sum[i - 1] \in Int PROVE sum[i] \in Int
    BY <1>1, <2>1, <2>6, <2>7
  <2> DEFINE P == {i \in 0..AtrPeriod : sum[i] \in Int}
  <2>8. \A i \in 0..AtrPeriod : i \in P
    <3>1. 0 \in P
      BY <1>1, <2>6
    <3>2. \A i \in 1..AtrPeriod : i - 1 \in P => i \in P
      BY <2>7
    <3> HIDE DEF P
    <3> QED
      BY <1>1, <3>1, <3>2, UpTo
  <2>9. sum[AtrPeriod] \in Int
    BY <1>1, <2>8
  <2> QED
    BY <1>1, <2>2, <2>9
<1> QED
  BY <1>2, <1>3

\* And the distance of the stop, clamped between two shares of the price.
LEMMA SlDistanceIs ==
    ASSUME NEW cs \in Seq(Candle), NEW price \in Int
    PROVE  SlDistance(cs, price) \in Int
<1>1. MaxSlPct \in Int /\ MinSlPct \in Int
  BY ConstantsAssumption
<1>2. /\ Atr(cs) \div 2 \in Int /\ (MaxSlPct * price) \div 100 \in Int
      /\ (MinSlPct * price) \div 100 \in Int
  BY <1>1, AtrIs
<1>3. Min({Atr(cs) \div 2, (MaxSlPct * price) \div 100}) \in Int
  BY <1>2, MinOfTwo
<1>4. PICK x \in Int, y \in Int : SlDistance(cs, price) = Max({x, y})
  BY <1>2, <1>3, ZenonT(60) DEF SlDistance
<1> QED
  BY <1>4, MaxOfTwo

\* What an entry opens is a position, of that side and time, that owes no funding.
LEMMA NewPositionIs ==
    ASSUME NEW dir \in Dirs, NEW t \in Times, NEW cs \in Seq(Candle), NEW price \in Int
    PROVE  /\ NewPosition(dir, t, cs, price) \in Position
           /\ NewPosition(dir, t, cs, price).ts = t
           /\ NewPosition(dir, t, cs, price).funding = 0
<1> DEFINE dist == SlDistance(cs, price)
           sign == IF dir = "LONG" THEN 1 ELSE -1
           entry == price + sign * Slippage
<1>1. dist \in Int /\ sign \in Int /\ Slippage \in Int /\ TpRMultiple \in Int
  BY ConstantsAssumption, SlDistanceIs
<1>2. NewPosition(dir, t, cs, price) =
        [ts |-> t, dir |-> dir, entry |-> entry, sl |-> entry - sign * dist,
         tp |-> entry + sign * TpRMultiple * dist, funding |-> 0]
  BY DEF NewPosition
<1> HIDE DEF dist, sign
<1>3. entry \in Int
  BY <1>1
<1> HIDE DEF entry
<1>4. sign * dist \in Int /\ sign * TpRMultiple * dist \in Int
  BY <1>1
<1>5. entry - sign * dist \in Int /\ entry + sign * TpRMultiple * dist \in Int
  BY <1>3, <1>4
<1> QED
  BY <1>2, <1>3, <1>5 DEF Position

\* What remains of a position and what its trade is worth are integers.
LEMMA GrossIs ==
    ASSUME NEW pos \in Position, NEW price \in Int
    PROVE  Gross(pos, price) \in Int
BY DEF Gross, Position

\* A balance is the start and the net of every trade, added in order.
LEMMA BalancesAre ==
    ASSUME NEW start \in Int, NEW ts \in Seq(Trade)
    PROVE  /\ Balances(start, ts) \in [0..Len(ts) -> Int]
           /\ Balances(start, ts)[0] = start
           /\ \A n \in 1..Len(ts) : Balances(start, ts)[n] = Balances(start, ts)[n - 1] + ts[n].net
           /\ Balance(start, ts) = Balances(start, ts)[Len(ts)] /\ Balance(start, ts) \in Int
<1> DEFINE L == Len(ts)
           d == [n \in 1..L |-> ts[n].net]
           eq == CHOOSE f : f = [n \in 0..L |-> IF n = 0 THEN start ELSE f[n - 1] + ts[n].net]
<1>1. L \in Nat
  BY LenProperties
<1>2. ASSUME NEW n \in 1..L PROVE ts[n].net \in Int
  <2>1. ts[n] \in Trade
    BY ElementOfSeq
  <2> QED
    BY <2>1 DEF Trade
<1>3. Balances(start, ts) = eq
  BY DEF Balances
<1> HIDE DEF L
<1>4. d \in [1..L -> Int] /\ \A n \in 1..L : d[n] = ts[n].net
  BY <1>2
<1> HIDE DEF d
<1>5. PICK g \in [0..L -> Int] : g[0] = start /\ \A n \in 1..L : g[n] = g[n - 1] + d[n]
  BY <1>1, <1>4, RunningSum
<1>6. g = [n \in 0..L |-> IF n = 0 THEN start ELSE g[n - 1] + ts[n].net]
  <2>1. \A n \in 0..L : n # 0 => n \in 1..L
    BY <1>1
  <2>2. \A n \in 0..L : g[n] = IF n = 0 THEN start ELSE g[n - 1] + ts[n].net
    BY <1>4, <1>5, <2>1
  <2> QED
    BY <1>5, <2>2
<1>7. eq = [n \in 0..L |-> IF n = 0 THEN start ELSE eq[n - 1] + ts[n].net]
  BY <1>6
<1> HIDE DEF eq
<1>8. eq[0] = start /\ \A n \in 1..L : eq[n] = eq[n - 1] + ts[n].net
  BY <1>1, <1>7
<1> DEFINE P == {n \in 0..L : eq[n] \in Int}
<1>9. \A n \in 0..L : n \in P
  <2>1. 0 \in P
    BY <1>1, <1>8
  <2>2. \A n \in 1..L : n - 1 \in P => n \in P
    BY <1>2, <1>8
  <2> HIDE DEF P
  <2> QED
    BY <1>1, <2>1, <2>2, UpTo
<1>10. eq \in [0..L -> Int]
  BY <1>7, <1>9
<1> QED
  BY <1>1, <1>3, <1>8, <1>10 DEF Balance, L

\* A function on 1..n is a sequence of n members.
LEMMA SequenceOf ==
    ASSUME NEW S, NEW n \in Nat, NEW f \in [1..n -> S]
    PROVE  f \in Seq(S) /\ Len(f) = n
<1>1. f \in Seq(S)
  BY SeqDef
<1>2. Len(f) \in Nat /\ DOMAIN f = 1..Len(f) /\ DOMAIN f = 1..n
  BY <1>1, LenProperties
<1>3. Len(f) = n
  <2> DEFINE l == Len(f)
  <2>1. l \in Nat /\ 1..l = 1..n
    BY <1>2
  <2> HIDE DEF l
  <2>2. \A i \in Int : i \in 1..l <=> i \in 1..n
    BY <2>1
  <2>3. l <= n /\ n <= l
    BY <2>1, <2>2
  <2> QED
    BY <2>1, <2>3 DEF l
<1> QED
  BY <1>1, <1>3

-----------------------------------------------------------------------------
(* The types, and the times at which candles began                         *)

AnyRow == Bar \cup Int \cup {NoRow, Unread}

RunTypes ==
    /\ fold \in Nat /\ at \in [t : Nat, i : 1..2*N]
    /\ tape \in [Streams -> [Times -> AnyRow]]
    /\ \A s \in Symbols, t \in Times :
          /\ tape[<<"ohlcv", s>>][t] \in Bar \cup {NoRow, Unread}
          /\ tape[<<"ticker", s>>][t] \in Int \cup {NoRow, Unread}
    /\ combined \subseteq FoldTrade /\ combinedDrops \subseteq FoldDrop

SimTypes ==
    /\ active \in [Symbols -> Candle \cup {None}]
    /\ candles \in [Symbols -> Seq(Candle)]
    /\ \A s \in Symbols : Len(candles[s]) <= CandleCap
    /\ positions \in [Symbols -> Position \cup {None}]
    /\ lastPrice \in [Symbols -> Int \cup {None}]
    /\ rate \in [Symbols -> Int]
    /\ nextFunding \in [Symbols -> Nat \cup {None}]
    /\ realized \in Int
    /\ trades \in Seq(Trade)

StratTypes ==
    /\ recent \in [Symbols -> SUBSET (Times \X Kinds)]
    /\ lastEntry \in [Symbols -> [Dirs -> Times \cup {None}]]
    /\ entryCount \in Nat
    /\ dropped \in Seq(Drop) /\ Len(dropped) <= DropCap

FlagTypes == finalized \in BOOLEAN /\ blocked \in [Symbols -> BOOLEAN]

\* A candle began with a sample.
Begun(b, t) == \E u \in Times : u <= t /\ b = Bucket(u)

CandlesBegun ==
    \A s \in Symbols :
        /\ active[s] # None => Begun(active[s].b, at.t)
        /\ \A i \in 1..Len(candles[s]) : Begun(candles[s][i].b, at.t)

\* A position was entered at a sample that set a price.
HeldPriced ==
    \A s \in Symbols : positions[s] # None =>
        lastPrice[s] # None /\ positions[s].ts <= at.t

Types == RunTypes /\ SimTypes /\ StratTypes /\ FlagTypes /\ CandlesBegun /\ HeldPriced

\* Such a candle lies on the tape, and began no later than the sample.
LEMMA BegunIs ==
    ASSUME NEW b, NEW t \in Nat, Begun(b, t)
    PROVE  b \in Nat /\ b <= Bucket(t) /\ b * CandleSec \in Times /\ b * CandleSec <= t
<1>1. PICK u \in Times : u <= t /\ b = Bucket(u)
  BY DEF Begun
<1>2. u \in Nat /\ u <= TsTo /\ TsTo \in Nat
  BY ConstantsAssumption DEF Times
<1>3. Bucket(u) \in Nat /\ Bucket(u) * CandleSec <= u /\ Bucket(u) * CandleSec \in Nat
  BY <1>2, BucketIs
<1>4. Bucket(u) <= Bucket(t)
  BY <1>1, <1>2, BucketMonotone
<1> HIDE DEF Bucket
<1> DEFINE x == Bucket(u) * CandleSec
<1>5. x \in Nat /\ x <= u
  BY <1>3
<1> HIDE DEF x
<1>6. x \in Times /\ x <= t
  BY <1>1, <1>2, <1>5 DEF Times
<1> QED
  BY <1>1, <1>3, <1>4, <1>6 DEF x

\* What had begun at a second has begun at every later one.
LEMMA BegunLater ==
    ASSUME NEW b, NEW t \in Nat, NEW u \in Nat, t <= u, Begun(b, t)
    PROVE  Begun(b, u)
<1>1. PICK v \in Times : v <= t /\ b = Bucket(v)
  BY DEF Begun
<1>2. v \in Nat
  BY <1>1 DEF Times
<1> QED
  BY <1>1, <1>2 DEF Begun

-----------------------------------------------------------------------------
(* What a sample does to one symbol                                        *)

\* The history after the candle under way is closed.
LEMMA ClosedIs ==
    ASSUME Types, NEW s \in Symbols, active[s] # None
    PROVE  /\ Closed(s) \in Seq(Candle) /\ Len(Closed(s)) <= CandleCap
           /\ \A i \in 1..Len(Closed(s)) :
                 Closed(s)[i] = active[s] \/ \E j \in 1..Len(candles[s]) : Closed(s)[i] = candles[s][j]
<1>1. candles[s] \in Seq(Candle) /\ Len(candles[s]) <= CandleCap /\ active[s] \in Candle
  BY DEF Types, SimTypes
<1>2. Closed(s) = IF Len(Append(candles[s], active[s])) > CandleCap
                  THEN Tail(Append(candles[s], active[s])) ELSE Append(candles[s], active[s])
  BY DEF Closed
<1> HIDE DEF Closed
<1> QED
  BY <1>1, <1>2, HistoryIs

\* The history after a sample: at most CandleCap candles, each an old one or the one it closes.
LEMMA CandlesAfterAre ==
    ASSUME Types, NEW s \in Symbols, NEW t \in Times
    PROVE  /\ CandlesAfter(s, t) \in Seq(Candle) /\ Len(CandlesAfter(s, t)) <= CandleCap
           /\ \A i \in 1..Len(CandlesAfter(s, t)) :
                 \/ Completes(s, t) /\ CandlesAfter(s, t)[i] = active[s]
                 \/ \E j \in 1..Len(candles[s]) : CandlesAfter(s, t)[i] = candles[s][j]
<1>1. candles[s] \in Seq(Candle) /\ Len(candles[s]) <= CandleCap /\ active[s] \in Candle \cup {None}
  BY DEF Types, SimTypes
<1>2. CASE Completes(s, t)
  <2>1. active[s] # None /\ CandlesAfter(s, t) = Closed(s)
    BY <1>2 DEF CandlesAfter, Completes
  <2> QED
    BY <1>2, <2>1, ClosedIs
<1>3. CASE ~Completes(s, t)
  <2>1. CandlesAfter(s, t) = candles[s]
    BY <1>3 DEF CandlesAfter
  <2> QED
    BY <1>1, <2>1
<1> QED
  BY <1>2, <1>3

\* All of them began with a sample.
LEMMA CandlesAfterBegun ==
    ASSUME Types, NEW s \in Symbols, NEW t \in Times, t = at.t,
           NEW i \in 1..Len(CandlesAfter(s, t))
    PROVE  Begun(CandlesAfter(s, t)[i].b, t)
<1>1. CASE Completes(s, t) /\ CandlesAfter(s, t)[i] = active[s]
  BY <1>1 DEF Completes, Types, CandlesBegun
<1>2. CASE \E j \in 1..Len(candles[s]) : CandlesAfter(s, t)[i] = candles[s][j]
  BY <1>2 DEF Types, CandlesBegun
<1> QED
  BY <1>1, <1>2, CandlesAfterAre

\* The candle under way after a sample.
LEMMA ActiveAfterIs ==
    ASSUME Types, NEW s \in Symbols, NEW t \in Times, t = at.t, NEW bar \in Bar
    PROVE  /\ ActiveAfter(s, t, bar) \in Candle
           /\ Begun(ActiveAfter(s, t, bar).b, t)
<1>1. t \in Nat /\ active[s] \in Candle \cup {None}
  BY DEF Types, SimTypes, Times
<1>2. CASE active[s] = None \/ Completes(s, t)
  <2>1. ActiveAfter(s, t, bar) = Open(t, bar)
    BY <1>2 DEF ActiveAfter
  <2>2. Open(t, bar) \in Candle /\ Open(t, bar).b = Bucket(t)
    BY <1>1, OpenIs
  <2> QED
    BY <1>1, <2>1, <2>2 DEF Begun
<1>3. CASE ~(active[s] = None \/ Completes(s, t))
  <2>1. active[s] \in Candle /\ Begun(active[s].b, t)
    BY <1>1, <1>3 DEF Types, CandlesBegun
  <2>2. Extend(active[s], bar) \in Candle /\ Extend(active[s], bar).b = active[s].b
    BY <2>1, ExtendIs
  <2>3. ActiveAfter(s, t, bar) \in {active[s], Extend(active[s], bar)}
    BY <1>3 DEF ActiveAfter
  <2> QED
    BY <2>1, <2>2, <2>3
<1> QED
  BY <1>2, <1>3

\* An exit is found on a later candle than that of the entry that touches a level, and on no other.
LEMMA ExitIs ==
    ASSUME NEW s \in Symbols, positions[s] \in Position \cup {None}, NEW c \in Candle
    PROVE  /\ ExitOnCandle(s, c) \in Exit \cup {None}
           /\ ExitOnCandle(s, c) # None <=>
                 /\ positions[s] # None /\ c.b > Bucket(positions[s].ts)
                 /\ Touches(positions[s], c).sl \/ Touches(positions[s], c).tp
<1>1. CASE positions[s] = None
  BY <1>1 DEF ExitOnCandle
<1>2. CASE positions[s] # None
  <2>1. /\ positions[s].sl \in Int /\ positions[s].tp \in Int
        /\ positions[s].ts \in Nat
    BY <1>2 DEF Position, Times
  <2>2. c.b \in Nat /\ Bucket(positions[s].ts) \in Nat
    BY <2>1, BucketIs DEF Candle
  <2>3. /\ [reason |-> "SL", price |-> positions[s].sl] \in Exit
        /\ [reason |-> "TP", price |-> positions[s].tp] \in Exit
    BY <2>1 DEF Exit
  <2>4. None \notin Exit
    BY NoneIs
  <2>5. CASE c.b <= Bucket(positions[s].ts)
    BY <2>2, <2>5 DEF ExitOnCandle
  <2>6. CASE ~(c.b <= Bucket(positions[s].ts))
    <3>1. c.b > Bucket(positions[s].ts)
      BY <2>2, <2>6
    <3>2. CASE Touches(positions[s], c).sl
      BY <1>2, <2>3, <2>4, <2>6, <3>1, <3>2 DEF ExitOnCandle
    <3>3. CASE ~Touches(positions[s], c).sl /\ Touches(positions[s], c).tp
      BY <1>2, <2>3, <2>4, <2>6, <3>1, <3>3 DEF ExitOnCandle
    <3>4. CASE ~Touches(positions[s], c).sl /\ ~Touches(positions[s], c).tp
      BY <1>2, <2>6, <3>4 DEF ExitOnCandle
    <3> QED
      BY <3>2, <3>3, <3>4
  <2> QED
    BY <2>5, <2>6
<1> QED
  BY <1>1, <1>2

\* How a position may end.
AnyExit == [reason : {"TP", "SL", "END_OF_BACKTEST"}, price : Int]

\* What is booked for an exit is a trade.
LEMMA TradeIs ==
    ASSUME NEW s \in Symbols, positions[s] \in Position, NEW exit \in AnyExit, NEW ts \in Times
    PROVE  /\ TradeOf(s, exit, ts) \in Trade
           /\ TradeOf(s, exit, ts).symbol = s
           /\ TradeOf(s, exit, ts).entryTs = positions[s].ts
           /\ TradeOf(s, exit, ts).reason = exit.reason
<1> DEFINE pos == positions[s]
           price == exit.price
           reason == exit.reason
           net == Gross(pos, price) - FeeTaker - ExitFee(reason) - pos.funding
<1>0. price \in Int /\ reason \in {"TP", "SL", "END_OF_BACKTEST"}
  BY DEF AnyExit
<1>1. pos.ts \in Times /\ pos.funding \in Int
  BY DEF Position
<1> HIDE DEF price, reason
<1>2. Gross(pos, price) \in Int
  BY <1>0, GrossIs
<1>3. FeeTaker \in Int /\ FeeMaker \in Int
  BY ConstantsAssumption
<1>4. ExitFee(reason) \in Int
  BY <1>3 DEF ExitFee
<1>5. net \in Int
  BY <1>1, <1>2, <1>3, <1>4
<1>6. TradeOf(s, exit, ts) =
        [symbol |-> s, entryTs |-> pos.ts, exitTs |-> ts, reason |-> reason,
         funding |-> pos.funding, net |-> net]
  BY DEF TradeOf, price, reason
<1> HIDE DEF net, pos
<1> QED
  BY <1>0, <1>1, <1>5, <1>6 DEF Trade, pos, reason

\* The position of s ends on the candle that a sample completes.
Exits(s, t) == Completes(s, t) /\ ExitOnCandle(s, active[s]) # None

\* The funding times due at a sample are counted by a natural number.
LEMMA FundingsDueIs ==
    ASSUME Types, NEW s \in Symbols, NEW t \in Times
    PROVE  FundingsDue(s, t) \in Nat
<1> DEFINE due == {u \in nextFunding[s]..t : u % FundingPeriod = 0}
<1>1. nextFunding[s] \in Nat \cup {None} /\ t \in Nat
  BY DEF Types, SimTypes, Times
<1>2. CASE nextFunding[s] = None
  BY <1>2 DEF FundingsDue
<1>3. CASE nextFunding[s] # None
  <2>1. IsFiniteSet(nextFunding[s]..t)
    BY <1>1, <1>3, FS_Interval
  <2>2. IsFiniteSet(due)
    BY <2>1, FS_Subset
  <2>3. Cardinality(due) \in Nat
    BY <2>2, FS_CardinalityType
  <2> QED
    BY <1>3, <2>3 DEF FundingsDue
<1> QED
  BY <1>2, <1>3

\* What a sample carries: the position, with its funding, unless it exits.
LEMMA CarriedIs ==
    ASSUME Types, NEW s \in Symbols, NEW t \in Times
    PROVE  /\ Carried(s, t) \in Position \cup {None}
           /\ Carried(s, t) # None <=> positions[s] # None /\ ~Exits(s, t)
           /\ Carried(s, t) # None =>
                 /\ Carried(s, t).ts = positions[s].ts /\ Carried(s, t).dir = positions[s].dir
                 /\ Carried(s, t).sl = positions[s].sl /\ Carried(s, t).tp = positions[s].tp
                 /\ Carried(s, t).funding = IF IncludeFunding
                      THEN positions[s].funding + FundingsDue(s, t) * FundingDelta(s, positions[s])
                      ELSE positions[s].funding
<1> DEFINE pos == positions[s]
           paid == IF IncludeFunding THEN pos.funding + FundingsDue(s, t) * FundingDelta(s, pos)
                   ELSE pos.funding
<1>1. pos \in Position \cup {None} /\ rate[s] \in Int
  BY DEF Types, SimTypes
<1>2. CASE pos = None \/ Exits(s, t)
  BY <1>2 DEF Carried, Exits
<1>3. CASE ~(pos = None \/ Exits(s, t))
  <2>1. pos \in Position /\ pos.funding \in Int /\ FundingsDue(s, t) \in Int
    BY <1>1, <1>3, FundingsDueIs DEF Position
  <2>2. FundingDelta(s, pos) \in Int
    BY <1>1 DEF FundingDelta
  <2>3. paid \in Int
    BY <2>1, <2>2
  <2>4. Carried(s, t) = [pos EXCEPT !.funding = paid]
    BY <1>3 DEF Carried, Exits
  <2> HIDE DEF paid, pos
  <2>5. /\ Carried(s, t) \in Position
        /\ Carried(s, t).ts = pos.ts /\ Carried(s, t).dir = pos.dir
        /\ Carried(s, t).sl = pos.sl /\ Carried(s, t).tp = pos.tp
        /\ Carried(s, t).funding = paid
    BY <2>1, <2>3, <2>4 DEF Position
  <2>6. Carried(s, t) # None
    BY <2>5, NoneIs
  <2> QED
    BY <1>3, <2>5, <2>6 DEF paid, pos
<1> QED
  BY <1>2, <1>3

\* What a sample ends is booked as at most one trade.
LEMMA EndedIs ==
    ASSUME Types, NEW s \in Symbols, NEW t \in Times, t = at.t
    PROVE  /\ Ended(s, t) \in Seq(Trade)
           /\ ~Exits(s, t) => Ended(s, t) = <<>>
           /\ Exits(s, t) => /\ positions[s] # None /\ Len(Ended(s, t)) = 1
                             /\ Ended(s, t)[1] \in Trade /\ Ended(s, t)[1].symbol = s
                             /\ Ended(s, t)[1].entryTs = positions[s].ts
                             /\ Ended(s, t) = <<Ended(s, t)[1]>>
<1>1. CASE ~Exits(s, t)
  BY <1>1 DEF Ended, Exits
<1>2. CASE Exits(s, t)
  <2> DEFINE exit == ExitOnCandle(s, active[s])
             ts == active[s].b * CandleSec
             tr == TradeOf(s, exit, ts)
  <2>1. active[s] \in Candle /\ Begun(active[s].b, t) /\ t \in Nat
    BY <1>2 DEF Exits, Completes, Types, SimTypes, CandlesBegun, Times
  <2>2. positions[s] \in Position \cup {None}
    BY DEF Types, SimTypes
  <2>3. exit \in Exit /\ positions[s] # None
    BY <1>2, <2>1, <2>2, ExitIs DEF Exits
  <2>4. ts \in Times
    BY <2>1, BegunIs
  <2>5. exit \in AnyExit
    BY <2>3 DEF Exit, AnyExit
  <2>6. Ended(s, t) = <<tr>>
    BY <1>2 DEF Ended, Exits
  <2> HIDE DEF exit, ts
  <2>7. positions[s] \in Position
    BY <2>2, <2>3
  <2>8. tr \in Trade /\ tr.symbol = s /\ tr.entryTs = positions[s].ts
    BY <2>4, <2>5, <2>7, TradeIs
  <2> HIDE DEF tr
  <2> QED
    BY <1>2, <2>3, <2>6, <2>8
<1> QED
  BY <1>1, <1>2

\* The answer to a signal; one is taken only without a position of the symbol and below the limit.
LEMMA VerdictIs ==
    ASSUME NEW s, NEW held, NEW cs, NEW price, NEW equity
    PROVE  /\ Verdict(s, held, cs, price, equity) \in
                 {"none", "per_symbol_max_position", "global_limit_full", "sim_rejected_other"}
           /\ Verdict(s, held, cs, price, equity) = "none" =>
                 held[s] = None /\ ~(Cardinality({u \in Symbols : held[u] # None}) >= MaxPositionsGlobal)
BY DEF Verdict

\* At most two directions are issued.
LEMMA IssuedAre ==
    ASSUME NEW s, NEW t
    PROVE  /\ Issued(s, t) \subseteq Dirs /\ IsFiniteSet(Issued(s, t))
           /\ Cardinality(Issued(s, t)) \in Nat
           /\ Cardinality(Issued(s, t)) = 0 <=> Issued(s, t) = {}
           /\ Issued(s, t) # {} => FirstOf(Issued(s, t)) \in Issued(s, t)
<1>1. Issued(s, t) \subseteq Dirs
  BY DEF Issued, Aligned
<1>2. IsFiniteSet({"LONG"}) /\ IsFiniteSet({"SHORT"})
  BY FS_Singleton
<1>3. IsFiniteSet({"LONG"} \cup {"SHORT"})
  BY <1>2, FS_Union
<1>4. Dirs = {"LONG"} \cup {"SHORT"}
  BY DEF Dirs
<1>5. IsFiniteSet(Issued(s, t))
  BY <1>1, <1>3, <1>4, FS_Subset
<1>6. Cardinality(Issued(s, t)) \in Nat /\ (Cardinality(Issued(s, t)) = 0 <=> Issued(s, t) = {})
  BY <1>5, FS_CardinalityType, FS_EmptySet
<1>7. Issued(s, t) # {} => FirstOf(Issued(s, t)) \in Issued(s, t)
  BY <1>1 DEF FirstOf, Dirs
<1> QED
  BY <1>1, <1>5, <1>6, <1>7

Reasons == {"cooldown_active", "per_symbol_max_position", "global_limit_full", "sim_rejected_other"}

\* A sample refuses all it issues but the one that enters, none of them for the cooldown.
LEMMA RefusedAre ==
    ASSUME NEW s, NEW t, NEW bar
    PROVE  /\ Refused(s, t, bar) \in Seq(Reasons)
           /\ Len(Refused(s, t, bar)) = IF Enters(s, t, bar) THEN Cardinality(Issued(s, t)) - 1
                                        ELSE Cardinality(Issued(s, t))
           /\ \A i \in 1..Len(Refused(s, t, bar)) : Refused(s, t, bar)[i] # "cooldown_active"
<1> DEFINE n == Cardinality(Issued(s, t))
<1>1. n \in Nat /\ (n = 0 <=> Issued(s, t) = {})
  BY IssuedAre
<1> HIDE DEF n
<1>2. CASE Enters(s, t, bar)
  <2> DEFINE f == [i \in 1..(n - 1) |-> "per_symbol_max_position"]
  <2>1. n - 1 \in Nat
    BY <1>1, <1>2 DEF Enters
  <2>2. f \in [1..(n - 1) -> Reasons]
    BY DEF Reasons
  <2>3. Refused(s, t, bar) = f
    BY <1>2 DEF Refused, n
  <2>5. \A i \in 1..(n - 1) : f[i] # "cooldown_active"
    OBVIOUS
  <2> HIDE DEF f
  <2>4. f \in Seq(Reasons) /\ Len(f) = n - 1
    BY <2>1, <2>2, SequenceOf
  <2> QED
    BY <1>2, <2>3, <2>4, <2>5 DEF n
<1>3. CASE ~Enters(s, t, bar)
  <2> DEFINE a == Answer(s, t, bar)
             f == [i \in 1..n |-> a]
  <2>1. a \in {"none", "per_symbol_max_position", "global_limit_full", "sim_rejected_other"}
    BY VerdictIs DEF Answer
  <2>2. n = 0 \/ a # "none"
    BY <1>1, <1>3 DEF Enters
  <2>3. Refused(s, t, bar) = f
    BY <1>3 DEF Refused, n
  <2> HIDE DEF a
  <2>4. f \in [1..n -> Reasons] /\ \A i \in 1..n : f[i] # "cooldown_active"
    BY <1>1, <2>1, <2>2 DEF Reasons
  <2> HIDE DEF f
  <2>5. f \in Seq(Reasons) /\ Len(f) = n
    BY <1>1, <2>4, SequenceOf
  <2> QED
    BY <1>3, <2>3, <2>4, <2>5 DEF n
<1> QED
  BY <1>2, <1>3

\* Drops are appended; below the cap none is lost.
LEMMA WithDropsIs ==
    ASSUME Types, NEW reasons \in Seq(Reasons), NEW s \in Symbols, NEW t \in Times
    PROVE  /\ WithDrops(reasons, s, t) \in Seq(Drop)
           /\ Len(WithDrops(reasons, s, t)) <= DropCap
           /\ Len(WithDrops(reasons, s, t)) < DropCap =>
                 /\ Len(WithDrops(reasons, s, t)) = Len(dropped) + Len(reasons)
                 /\ \A i \in 1..Len(dropped) : WithDrops(reasons, s, t)[i] = dropped[i]
                 /\ \A i \in 1..Len(reasons) :
                       WithDrops(reasons, s, t)[Len(dropped) + i].reason = reasons[i]
<1> DEFINE n == Len(reasons)
           f == [i \in 1..n |-> [reason |-> reasons[i], symbol |-> s, ts |-> t]]
           all == dropped \o f
           new == WithDrops(reasons, s, t)
<1>1. n \in Nat /\ DOMAIN reasons = 1..n /\ DropCap \in Nat
  BY LenProperties, ConstantsAssumption
<1>2. ASSUME NEW i \in 1..n PROVE f[i] \in Drop /\ f[i].reason = reasons[i]
  <2>1. reasons[i] \in Reasons
    BY <1>1, ElementOfSeq
  <2> QED
    BY <2>1 DEF Reasons, Drop
<1>3. new = IF Len(all) <= DropCap THEN all ELSE SubSeq(all, 1, DropCap)
  BY <1>1 DEF WithDrops
<1>4. f \in [1..n -> Drop]
  BY <1>2
<1> HIDE DEF f, n
<1>5. f \in Seq(Drop) /\ Len(f) = n
  BY <1>1, <1>4, SequenceOf
<1>6. dropped \in Seq(Drop) /\ Len(dropped) \in Nat
  BY LenProperties DEF Types, StratTypes
<1>7. /\ all \in Seq(Drop) /\ Len(all) = Len(dropped) + n
      /\ \A i \in 1..Len(dropped) : all[i] = dropped[i]
      /\ \A i \in 1..n : all[Len(dropped) + i] = f[i]
  <2>1. all \in Seq(Drop)
    BY <1>5, <1>6, ConcatProperties
  <2>2. Len(all) = Len(dropped) + n
    BY <1>5, <1>6, ConcatProperties
  <2>3. \A i \in 1..(Len(dropped) + Len(f)) : all[i] = IF i <= Len(dropped) THEN dropped[i] ELSE f[i - Len(dropped)]
    BY <1>5, <1>6, ConcatProperties
  <2> DEFINE d == Len(dropped)
  <2> HIDE DEF d, all
  <2>4. d \in Nat /\ \A i \in 1..(d + n) : all[i] = IF i <= d THEN dropped[i] ELSE f[i - d]
    BY <1>5, <1>6, <2>3 DEF d
  <2>5. \A i \in 1..d : all[i] = dropped[i]
    BY <1>1, <2>4
  <2>6. ASSUME NEW i \in 1..n PROVE all[d + i] = f[i]
    <3>1. d + i \in 1..(d + n) /\ ~(d + i <= d) /\ (d + i) - d = i
      BY <1>1, <2>4
    <3> QED
      BY <2>4, <3>1
  <2> QED
    BY <2>1, <2>2, <2>5, <2>6 DEF d
<1> HIDE DEF all, new
<1>8. CASE Len(all) <= DropCap
  BY <1>1, <1>2, <1>3, <1>7, <1>8 DEF new, n
<1>9. CASE ~(Len(all) <= DropCap)
  <2>1. new = SubSeq(all, 1, DropCap)
    BY <1>3, <1>9
  <2>2. DropCap \in 0..Len(all)
    BY <1>1, <1>6, <1>7, <1>9
  <2>3. new \in Seq(Drop) /\ Len(new) = DropCap
    BY <1>1, <1>6, <1>7, <1>9, <2>1, <2>2, SubSeqProperties
  <2> QED
    BY <1>1, <2>3 DEF new
<1> QED
  BY <1>8, <1>9

-----------------------------------------------------------------------------
(* Every step keeps the types                                              *)

\* The slot that is read: a time of the tape, a stream, a symbol.
LEMMA ReadingIs ==
    ASSUME Types, Reading
    PROVE  /\ at.t \in Times /\ at.t \in Nat /\ at.i \in 1..2*N
           /\ fold \in Folds /\ at.t <= TestEnd(fold)
           /\ Stream \in Streams /\ Stream[1] \in {"ohlcv", "ticker"} /\ Stream[2] \in Symbols
           /\ Stream = <<Stream[1], Stream[2]>>
<1>1. /\ at.t \in Nat /\ at.i \in 1..2*N /\ fold \in Folds /\ at.t <= TestEnd(fold) /\ fold \in Nat
  BY DEF Types, RunTypes, Reading, Finished
<1>2. TestEnd(fold) \in Times
  BY <1>1, WindowIs
<1>3. at.t \in Times
  BY <1>1, <1>2, ConstantsAssumption DEF Times
<1> QED
  BY <1>1, <1>3, MergedIs DEF Stream

\* After a slot comes the next stream, or the next second.
LEMMA NextSlotIs ==
    ASSUME Types
    PROVE  /\ NextSlot \in [t : Nat, i : 1..2*N] /\ at.t <= NextSlot.t
           /\ \/ NextSlot.t = at.t /\ NextSlot.i = at.i + 1 /\ at.i < 2*N
              \/ NextSlot.t = at.t + 1 /\ NextSlot.i = 1 /\ at.i = 2*N
<1>1. at.t \in Nat /\ at.i \in 1..2*N /\ N \in Nat \ {0}
  BY SymbolsFinite DEF Types, RunTypes
<1> QED
  BY <1>1 DEF NextSlot

\* Reading fixes the row of the slot and leaves the others.
LEMMA ConsumeIs ==
    ASSUME Types, Reading, NEW row, Consume(row)
    PROVE  /\ at' = NextSlot
           /\ tape' = [tape EXCEPT ![Stream][at.t] = row]
           /\ Stream[1] = "ohlcv" => row \in Bar \cup {NoRow}
           /\ Stream[1] = "ticker" => row \in Int \cup {NoRow}
           /\ tape[Stream][at.t] # Unread => row = tape[Stream][at.t]
           /\ tape' \in [Streams -> [Times -> AnyRow]]
           /\ \A s \in Symbols, t \in Times :
                 /\ tape'[<<"ohlcv", s>>][t] \in Bar \cup {NoRow, Unread}
                 /\ tape'[<<"ticker", s>>][t] \in Int \cup {NoRow, Unread}
<1>1. /\ at.t \in Times /\ Stream \in Streams /\ Stream[1] \in {"ohlcv", "ticker"}
      /\ Stream[2] \in Symbols /\ Stream = <<Stream[1], Stream[2]>>
  BY ReadingIs
<1>2. tape \in [Streams -> [Times -> AnyRow]]
  BY DEF Types, RunTypes
<1>3. /\ row \in RowAt(Stream, at.t) /\ at' = NextSlot
      /\ tape' = [tape EXCEPT ![Stream][at.t] = row]
  BY DEF Consume
<1>4. /\ Stream[1] = "ohlcv" => row \in Bar \cup {NoRow}
      /\ Stream[1] = "ticker" => row \in Int \cup {NoRow}
  <2>1. CASE tape[Stream][at.t] = Unread
    <3>1. row \in Rows[Stream][at.t]
      BY <1>3, <2>1 DEF RowAt
    <3> QED
      BY <1>1, <3>1, RowsAssumption
  <2>2. CASE tape[Stream][at.t] # Unread
    <3>1. row = tape[Stream][at.t]
      BY <1>3, <2>2 DEF RowAt
    <3>2. ASSUME NEW s \in Symbols, Stream = <<"ohlcv", s>> PROVE row \in Bar \cup {NoRow}
      BY <1>1, <2>2, <3>1, <3>2 DEF Types, RunTypes
    <3>3. ASSUME NEW s \in Symbols, Stream = <<"ticker", s>> PROVE row \in Int \cup {NoRow}
      BY <1>1, <2>2, <3>1, <3>3 DEF Types, RunTypes
    <3> QED
      BY <1>1, <3>2, <3>3
  <2> QED
    BY <2>1, <2>2
<1>5. row \in AnyRow
  BY <1>1, <1>4 DEF AnyRow
<1>6. tape' \in [Streams -> [Times -> AnyRow]]
  BY <1>1, <1>2, <1>3, <1>5
<1>7. \A q \in Streams, t \in Times :
        tape'[q][t] = IF q = Stream /\ t = at.t THEN row ELSE tape[q][t]
  BY <1>1, <1>2, <1>3
<1>8. ASSUME NEW s \in Symbols, NEW t \in Times
      PROVE  /\ tape'[<<"ohlcv", s>>][t] \in Bar \cup {NoRow, Unread}
             /\ tape'[<<"ticker", s>>][t] \in Int \cup {NoRow, Unread}
  <2>1. <<"ohlcv", s>> \in Streams /\ <<"ticker", s>> \in Streams
    BY DEF Streams
  <2>2. /\ tape[<<"ohlcv", s>>][t] \in Bar \cup {NoRow, Unread}
        /\ tape[<<"ticker", s>>][t] \in Int \cup {NoRow, Unread}
    BY DEF Types, RunTypes
  <2>3. /\ <<"ohlcv", s>> = Stream => Stream[1] = "ohlcv"
        /\ <<"ticker", s>> = Stream => Stream[1] = "ticker"
    BY <1>1
  <2> QED
    BY <1>4, <1>7, <2>1, <2>2, <2>3
<1> QED
  BY <1>3, <1>4, <1>6, <1>8 DEF RowAt

\* What OnOhlcv is made of: the sample of a symbol, now.
Sample(s, t, bar) ==
    /\ Reading /\ t = at.t /\ Stream = <<"ohlcv", s>>
    /\ bar # NoRow /\ Consume(bar) /\ OnSample(s, t, bar)
    /\ fold' = fold /\ finalized' = finalized /\ rate' = rate
    /\ combined' = combined /\ combinedDrops' = combinedDrops

\* OnOhlcv is a sample of some symbol, now.
LEMMA OhlcvIs ==
    ASSUME Types, OnOhlcv
    PROVE  \E s \in Symbols, t \in Times, bar \in Bar : Sample(s, t, bar)
<1>1. /\ Reading /\ Stream[1] = "ohlcv"
      /\ fold' = fold /\ finalized' = finalized /\ rate' = rate
      /\ combined' = combined /\ combinedDrops' = combinedDrops
  BY DEF OnOhlcv
<1>2. PICK bar \in RowAt(Stream, at.t) \ {NoRow} : Consume(bar) /\ OnSample(Stream[2], at.t, bar)
  BY DEF OnOhlcv
<1>3. /\ at.t \in Times /\ Stream[2] \in Symbols /\ Stream = <<"ohlcv", Stream[2]>>
  BY <1>1, ReadingIs
<1>4. bar \in Bar
  BY <1>1, <1>2, ConsumeIs
<1> QED
  BY <1>1, <1>2, <1>3, <1>4 DEF Sample

\* The positions after a sample: the others stay; this one is entered or carried.
LEMMA PositionsAfterAre ==
    ASSUME Types, NEW s \in Symbols, NEW t \in Times, NEW bar \in Bar
    PROVE  /\ PositionsAfter(s, t, bar) \in [Symbols -> Position \cup {None}]
           /\ \A u \in Symbols : u # s => PositionsAfter(s, t, bar)[u] = positions[u]
           /\ Enters(s, t, bar) =>
                 /\ PositionsAfter(s, t, bar)[s] \in Position
                 /\ PositionsAfter(s, t, bar)[s].ts = t
                 /\ PositionsAfter(s, t, bar)[s].funding = 0
                 /\ Carried(s, t) = None
           /\ ~Enters(s, t, bar) => PositionsAfter(s, t, bar)[s] = Carried(s, t)
<1>1. positions \in [Symbols -> Position \cup {None}] /\ Carried(s, t) \in Position \cup {None}
  BY CarriedIs DEF Types, SimTypes
<1>2. CASE Enters(s, t, bar)
  <2> DEFINE new == NewPosition(FirstOf(Issued(s, t)), t, CandlesAfter(s, t), bar.close)
  <2>1. FirstOf(Issued(s, t)) \in Dirs
    BY DEF FirstOf, Dirs
  <2>2. CandlesAfter(s, t) \in Seq(Candle) /\ bar.close \in Int
    BY CandlesAfterAre DEF Bar
  <2>3. new \in Position /\ new.ts = t /\ new.funding = 0
    BY <2>1, <2>2, NewPositionIs
  <2>4. PositionsAfter(s, t, bar) = [positions EXCEPT ![s] = new]
    BY <1>2 DEF PositionsAfter
  <2> HIDE DEF new
  <2>5. HeldAfter(s, t)[s] = None
    BY <1>2, VerdictIs DEF Enters, Answer
  <2>6. HeldAfter(s, t)[s] = Carried(s, t)
    BY <1>1 DEF HeldAfter
  <2> QED
    BY <1>1, <1>2, <2>3, <2>4, <2>5, <2>6
<1>3. CASE ~Enters(s, t, bar)
  BY <1>1, <1>3 DEF PositionsAfter, HeldAfter
<1> QED
  BY <1>2, <1>3

\* Reading a row keeps the types of the replay.
LEMMA RunTypesLater ==
    ASSUME Types, Reading, NEW row, Consume(row),
           fold' = fold, combined' = combined, combinedDrops' = combinedDrops
    PROVE  RunTypes'
<1>1. at' = NextSlot /\ tape' \in [Streams -> [Times -> AnyRow]]
  BY ConsumeIs
<1>2. \A s \in Symbols, t \in Times :
         /\ tape'[<<"ohlcv", s>>][t] \in Bar \cup {NoRow, Unread}
         /\ tape'[<<"ticker", s>>][t] \in Int \cup {NoRow, Unread}
  BY ConsumeIs
<1>3. at' \in [t : Nat, i : 1..2*N]
  BY <1>1, NextSlotIs
<1>4. fold' \in Nat /\ combined' \subseteq FoldTrade /\ combinedDrops' \subseteq FoldDrop
  BY DEF Types, RunTypes
<1> QED
  BY <1>1, <1>2, <1>3, <1>4 DEF RunTypes

\* The next funding time is a natural number.
LEMMA NextFundingIs ==
    ASSUME NEW t \in Nat
    PROVE  NextFunding(t) \in Nat
<1> DEFINE q == t \div FundingPeriod
<1>1. FundingPeriod \in Nat \ {0}
  BY ConstantsAssumption
<1>2. q \in Nat
  BY <1>1
<1>3. NextFunding(t) = (q + 1) * FundingPeriod
  BY DEF NextFunding
<1> HIDE DEF q
<1> QED
  BY <1>1, <1>2, <1>3

\* What the cooldown drops is recorded as such.
LEMMA EpisodeIs ==
    ASSUME NEW s, NEW t
    PROVE  /\ Episode(s, t) \in Seq(Reasons)
           /\ \A i \in 1..Len(Episode(s, t)) : Episode(s, t)[i] = "cooldown_active"
<1> DEFINE one == <<"cooldown_active">>
<1>1. Episode(s, t) = <<>> \/ Episode(s, t) = one
  BY DEF Episode
<1>2. one \in Seq(Reasons) /\ Len(one) = 1 /\ one[1] = "cooldown_active"
  BY DEF Reasons
<1>3. <<>> \in Seq(Reasons) /\ Len(<<>>) = 0
  OBVIOUS
<1> HIDE DEF one
<1>4. CASE Episode(s, t) = <<>>
  BY <1>3, <1>4
<1>5. CASE Episode(s, t) = one
  BY <1>2, <1>5
<1> QED
  BY <1>1, <1>4, <1>5

\* A sample keeps the types.
LEMMA OnOhlcvTypes ==
    ASSUME Types, OnOhlcv
    PROVE  Types'
<1>1. PICK s \in Symbols, t \in Times, bar \in Bar : Sample(s, t, bar)
  BY OhlcvIs
<1>2. /\ Reading /\ t = at.t /\ Consume(bar) /\ OnSample(s, t, bar) /\ t \in Nat
      /\ fold' = fold /\ finalized' = finalized /\ rate' = rate
      /\ combined' = combined /\ combinedDrops' = combinedDrops
  BY <1>1 DEF Sample, Times
<1>3. RunTypes'
  BY <1>2, RunTypesLater
<1>4. /\ active \in [Symbols -> Candle \cup {None}]
      /\ candles \in [Symbols -> Seq(Candle)] /\ \A u \in Symbols : Len(candles[u]) <= CandleCap
      /\ lastPrice \in [Symbols -> Int \cup {None}] /\ rate \in [Symbols -> Int]
      /\ nextFunding \in [Symbols -> Nat \cup {None}]
      /\ realized \in Int /\ trades \in Seq(Trade)
  BY DEF Types, SimTypes
<1>5. /\ active' = [active EXCEPT ![s] = ActiveAfter(s, t, bar)]
      /\ candles' = [candles EXCEPT ![s] = CandlesAfter(s, t)]
      /\ trades' = trades \o Ended(s, t)
      /\ realized' = RealizedAfter(s, t)
      /\ nextFunding' = [nextFunding EXCEPT ![s] = NextFunding(t)]
      /\ lastPrice' = [lastPrice EXCEPT ![s] = bar.close]
      /\ positions' = PositionsAfter(s, t, bar)
  BY <1>2 DEF OnSample, PriceAfter
<1>6. /\ recent' = [recent EXCEPT ![s] = RecentAfter(s, t)]
      /\ lastEntry' = [lastEntry EXCEPT ![s] = LastEntryAfter(s, t)]
      /\ entryCount' = entryCount + Cardinality(Issued(s, t))
      /\ dropped' = WithDrops(Episode(s, t) \o Refused(s, t, bar), s, t)
      /\ blocked' = [blocked EXCEPT ![s] = BlockedByCooldown(s, t)]
  BY <1>2 DEF OnSample
<1>7. SimTypes'
  <2>1. ActiveAfter(s, t, bar) \in Candle
    BY <1>2, ActiveAfterIs
  <2>2. CandlesAfter(s, t) \in Seq(Candle) /\ Len(CandlesAfter(s, t)) <= CandleCap
    BY CandlesAfterAre
  <2>3. trades' \in Seq(Trade)
    BY <1>2, <1>4, <1>5, EndedIs, ConcatProperties
  <2>4. realized' \in Int
    BY <1>2, <1>4, <1>5, EndedIs, BalancesAre DEF RealizedAfter
  <2>5. NextFunding(t) \in Nat
    BY <1>2, NextFundingIs
  <2>6. bar.close \in Int
    BY DEF Bar
  <2>7. positions' \in [Symbols -> Position \cup {None}]
    BY <1>5, PositionsAfterAre
  <2>8. active' \in [Symbols -> Candle \cup {None}]
    BY <1>4, <1>5, <2>1
  <2>9. candles' \in [Symbols -> Seq(Candle)] /\ \A u \in Symbols : Len(candles'[u]) <= CandleCap
    BY <1>4, <1>5, <2>2
  <2>10. lastPrice' \in [Symbols -> Int \cup {None}] /\ nextFunding' \in [Symbols -> Nat \cup {None}]
    BY <1>4, <1>5, <2>5, <2>6
  <2> QED
    BY <1>2, <1>4, <2>3, <2>4, <2>7, <2>8, <2>9, <2>10 DEF SimTypes
<1>8. StratTypes'
  <2>1. /\ recent \in [Symbols -> SUBSET (Times \X Kinds)]
        /\ lastEntry \in [Symbols -> [Dirs -> Times \cup {None}]]
        /\ entryCount \in Nat
    BY DEF Types, StratTypes
  <2>2. RecentAfter(s, t) \subseteq Times \X Kinds
    <3>1. recent[s] \subseteq Times \X Kinds
      BY <2>1
    <3>2. SignalsOf(CandlesAfter(s, t)) \subseteq Kinds
      <4> DEFINE cs == CandlesAfter(s, t)
      <4>1. Sweeps(cs) \subseteq Kinds /\ Shifts(cs) \subseteq Kinds
        BY DEF Sweeps, Shifts, Kinds
      <4>2. Gaps(cs) \subseteq Kinds
        BY DEF Gaps, Kinds
      <4>3. Retraces(cs) \subseteq Kinds
        BY DEF Retraces, Kinds
      <4> QED
        BY <4>1, <4>2, <4>3 DEF SignalsOf
    <3>3. {t} \X SignalsOf(CandlesAfter(s, t)) \subseteq Times \X Kinds
      BY <3>2
    <3> HIDE DEF SignalsOf
    <3> QED
      BY <3>1, <3>3 DEF RecentAfter
  <2>3. LastEntryAfter(s, t) \in [Dirs -> Times \cup {None}]
    BY <2>1 DEF LastEntryAfter
  <2>4. Episode(s, t) \in Seq(Reasons)
    BY EpisodeIs
  <2>5. Episode(s, t) \o Refused(s, t, bar) \in Seq(Reasons)
    BY <2>4, RefusedAre, ConcatProperties
  <2>6. dropped' \in Seq(Drop) /\ Len(dropped') <= DropCap
    BY <1>6, <2>5, WithDropsIs
  <2>7. entryCount' \in Nat
    <3>1. Cardinality(Issued(s, t)) \in Nat
      BY IssuedAre
    <3> QED
      BY <1>6, <2>1, <3>1
  <2>8. recent' \in [Symbols -> SUBSET (Times \X Kinds)]
    BY <1>6, <2>1, <2>2
  <2>9. lastEntry' \in [Symbols -> [Dirs -> Times \cup {None}]]
    BY <1>6, <2>1, <2>3
  <2> QED
    BY <2>6, <2>7, <2>8, <2>9 DEF StratTypes
<1>9. FlagTypes'
  <2>1. finalized \in BOOLEAN /\ blocked \in [Symbols -> BOOLEAN]
    BY DEF Types, FlagTypes
  <2>2. BlockedByCooldown(s, t) \in BOOLEAN
    BY DEF BlockedByCooldown
  <2> DEFINE b == BlockedByCooldown(s, t)
  <2> HIDE DEF b
  <2>3. [blocked EXCEPT ![s] = b] \in [Symbols -> BOOLEAN]
    BY <2>1, <2>2 DEF b
  <2> QED
    BY <1>2, <1>6, <2>1, <2>3 DEF FlagTypes, b
<1>10. at'.t \in Nat /\ t <= at'.t /\ at.t \in Nat
  BY <1>2, ConsumeIs, NextSlotIs
<1>11. CandlesBegun'
  <2>1. ASSUME NEW u \in Symbols, active'[u] # None PROVE Begun(active'[u].b, at'.t)
    <3>1. CASE u = s
      <4>1. active'[u] = ActiveAfter(s, t, bar)
        BY <1>4, <1>5, <3>1
      <4> QED
        BY <1>2, <1>10, <4>1, ActiveAfterIs, BegunLater
    <3>2. CASE u # s
      <4>1. active'[u] = active[u]
        BY <1>4, <1>5, <3>2
      <4>2. Begun(active[u].b, at.t)
        BY <2>1, <4>1 DEF Types, CandlesBegun
      <4> QED
        BY <1>2, <1>10, <4>1, <4>2, BegunLater
    <3> QED
      BY <3>1, <3>2
  <2>2. ASSUME NEW u \in Symbols, NEW i \in 1..Len(candles'[u]) PROVE Begun(candles'[u][i].b, at'.t)
    <3>1. CASE u = s
      <4>1. candles'[u] = CandlesAfter(s, t)
        BY <1>4, <1>5, <3>1
      <4> QED
        BY <1>2, <1>10, <4>1, CandlesAfterBegun, BegunLater
    <3>2. CASE u # s
      <4>1. candles'[u] = candles[u]
        BY <1>4, <1>5, <3>2
      <4>2. Begun(candles[u][i].b, at.t)
        BY <4>1 DEF Types, CandlesBegun
      <4> QED
        BY <1>2, <1>10, <4>1, <4>2, BegunLater
    <3> QED
      BY <3>1, <3>2
  <2> QED
    BY <2>1, <2>2 DEF CandlesBegun
<1>12. HeldPriced'
  <2> SUFFICES ASSUME NEW u \in Symbols, positions'[u] # None
               PROVE  lastPrice'[u] # None /\ positions'[u].ts <= at'.t
    BY DEF HeldPriced
  <2>1. CASE u = s
    <3>1. lastPrice'[u] = bar.close /\ bar.close \in Int
      BY <1>4, <1>5, <2>1 DEF Bar
    <3>2. lastPrice'[u] # None
      BY <3>1, NoneIs
    <3>3. \/ positions'[s].ts = t
          \/ /\ positions[s] # None /\ positions'[s].ts = positions[s].ts
             /\ positions[s].ts <= at.t
      <4>1. CASE Enters(s, t, bar)
        <5>1. PositionsAfter(s, t, bar)[s].ts = t
          BY <4>1, PositionsAfterAre
        <5>2. positions' = PositionsAfter(s, t, bar)
          BY <1>5
        <5>3. positions'[s].ts = t
          BY <5>1, <5>2
        <5> QED
          BY <5>3
      <4>2. CASE ~Enters(s, t, bar)
        <5>1. positions'[s] = Carried(s, t)
          BY <1>5, <4>2, PositionsAfterAre
        <5> QED
          BY <2>1, <5>1, CarriedIs DEF Types, HeldPriced
      <4> QED
        BY <4>1, <4>2
    <3>4. positions'[s].ts <= at'.t
      <4>1. positions[s] # None => positions[s].ts \in Nat
        BY DEF Types, SimTypes, Position, Times
      <4> QED
        BY <1>2, <1>10, <3>3, <4>1
    <3> QED
      BY <2>1, <3>2, <3>4
  <2>2. CASE u # s
    <3>1. lastPrice'[u] = lastPrice[u] /\ positions'[u] = positions[u]
      BY <1>4, <1>5, <2>2, PositionsAfterAre
    <3>2. lastPrice[u] # None /\ positions[u].ts <= at.t
      BY <3>1 DEF Types, HeldPriced
    <3>3. positions[u].ts \in Nat
      BY <3>1 DEF Types, SimTypes, Position, Times
    <3> QED
      BY <1>2, <1>10, <3>1, <3>2, <3>3
  <2> QED
    BY <2>1, <2>2
<1> QED
  BY <1>3, <1>7, <1>8, <1>9, <1>11, <1>12 DEF Types

\* A ticker keeps the types.
LEMMA OnTickerTypes ==
    ASSUME Types, OnTicker
    PROVE  Types'
<1>1. PICK row \in RowAt(Stream, at.t) \ {NoRow} : Consume(row) /\ rate' = [rate EXCEPT ![Stream[2]] = row]
  BY DEF OnTicker
<1>2. /\ Reading /\ Stream[1] = "ticker"
      /\ fold' = fold /\ finalized' = finalized /\ active' = active /\ candles' = candles
      /\ positions' = positions /\ lastPrice' = lastPrice /\ nextFunding' = nextFunding
      /\ realized' = realized /\ trades' = trades /\ combined' = combined
      /\ combinedDrops' = combinedDrops /\ stratVars' = stratVars
  BY DEF OnTicker
<1>3. RunTypes'
  BY <1>1, <1>2, RunTypesLater
<1>4. row \in Int /\ Stream[2] \in Symbols
  BY <1>1, <1>2, ConsumeIs, ReadingIs
<1>5. SimTypes'
  <2>1. rate' \in [Symbols -> Int]
    BY <1>1, <1>4 DEF Types, SimTypes
  <2> QED
    BY <1>2, <2>1 DEF Types, SimTypes
<1>6. StratTypes'
  BY <1>2 DEF Types, StratTypes, stratVars
<1>7. FlagTypes'
  BY <1>2 DEF Types, FlagTypes, stratVars
<1>8. at'.t \in Nat /\ at.t <= at'.t /\ at.t \in Nat
  BY <1>1, <1>2, ConsumeIs, NextSlotIs, ReadingIs
<1>9. CandlesBegun'
  BY <1>2, <1>8, BegunLater DEF Types, CandlesBegun
<1>10. HeldPriced'
  <2>1. \A s \in Symbols : positions[s] # None => positions[s].ts \in Nat
    BY DEF Types, SimTypes, Position, Times
  <2> QED
    BY <1>2, <1>8, <2>1 DEF Types, HeldPriced
<1> QED
  BY <1>3, <1>5, <1>6, <1>7, <1>9, <1>10 DEF Types

\* A stream without a row keeps the types.
LEMMA NoRowHereTypes ==
    ASSUME Types, NoRowHere
    PROVE  Types'
<1>1. /\ Reading /\ Consume(NoRow)
      /\ fold' = fold /\ finalized' = finalized /\ active' = active /\ candles' = candles
      /\ positions' = positions /\ lastPrice' = lastPrice /\ rate' = rate
      /\ nextFunding' = nextFunding /\ realized' = realized /\ trades' = trades
      /\ combined' = combined /\ combinedDrops' = combinedDrops /\ stratVars' = stratVars
  BY DEF NoRowHere, simVars
<1>2. RunTypes'
  BY <1>1, RunTypesLater
<1>3. SimTypes'
  BY <1>1 DEF Types, SimTypes
<1>4. StratTypes'
  BY <1>1 DEF Types, StratTypes, stratVars
<1>5. FlagTypes'
  BY <1>1 DEF Types, FlagTypes, stratVars
<1>6. at'.t \in Nat /\ at.t <= at'.t /\ at.t \in Nat
  BY <1>1, ConsumeIs, NextSlotIs, ReadingIs
<1>7. CandlesBegun'
  BY <1>1, <1>6, BegunLater DEF Types, CandlesBegun
<1>8. HeldPriced'
  <2>1. \A s \in Symbols : positions[s] # None => positions[s].ts \in Nat
    BY DEF Types, SimTypes, Position, Times
  <2> QED
    BY <1>1, <1>6, <2>1 DEF Types, HeldPriced
<1> QED
  BY <1>2, <1>3, <1>4, <1>5, <1>7, <1>8 DEF Types

\* An order of closing names every held position once.
LEMMA ClosingsAre ==
    ASSUME NEW order \in Closings
    PROVE  /\ order \in Seq(Held) /\ Len(order) = Cardinality(Held) /\ Len(order) \in Nat
           /\ order \in [1..Len(order) -> Held]
           /\ \A i, j \in 1..Len(order) : order[i] = order[j] => i = j
           /\ \A s \in Held : \E i \in 1..Len(order) : order[i] = s
<1> DEFINE n == Cardinality(Held)
<1>1. IsFiniteSet(Held) /\ n \in Nat
  <2>1. Held \subseteq Symbols
    BY DEF Held
  <2>2. IsFiniteSet(Held)
    BY <2>1, SymbolsFinite, FS_Subset
  <2> QED
    BY <2>2, FS_CardinalityType
<1>2. order \in [1..n -> Held] /\ \A i, j \in 1..n : i # j => order[i] # order[j]
  BY DEF Closings, SetToSeqs
<1> HIDE DEF n
<1>3. order \in Seq(Held) /\ Len(order) = n
  BY <1>1, <1>2, SequenceOf
<1>4. order \in Injection(1..n, Held)
  BY <1>2 DEF Injection, IsInjective
<1>5. Cardinality(1..n) = n
  BY <1>1, FS_Interval
<1>6. order \in Surjection(1..n, Held)
  BY <1>1, <1>4, <1>5, FS_Injection DEF n
<1> QED
  BY <1>1, <1>2, <1>3, <1>6 DEF n, Surjection

\* What finalize books for a held position is its trade.
LEMMA LastExitIs ==
    ASSUME Types, fold \in Folds, NEW s \in Held
    PROVE  /\ LastExit(s) \in Trade /\ LastExit(s).symbol = s
           /\ LastExit(s).entryTs = positions[s].ts
<1>1. s \in Symbols /\ positions[s] \in Position /\ positions[s] # None
  BY DEF Held, Types, SimTypes
<1>2. CASE active[s] # None /\ ExitOnCandle(s, active[s]) # None
  <2> DEFINE exit == ExitOnCandle(s, active[s])
             ts == active[s].b * CandleSec
  <2>1. active[s] \in Candle /\ Begun(active[s].b, at.t) /\ at.t \in Nat
    BY <1>1, <1>2 DEF Types, SimTypes, CandlesBegun, RunTypes
  <2>2. exit \in Exit
    BY <1>1, <1>2, <2>1, ExitIs
  <2>3. exit \in AnyExit
    BY <2>2 DEF Exit, AnyExit
  <2>4. ts \in Times
    BY <2>1, BegunIs
  <2>5. LastExit(s) = TradeOf(s, exit, ts)
    BY <1>2 DEF LastExit
  <2> HIDE DEF exit, ts
  <2> QED
    BY <1>1, <2>3, <2>4, <2>5, TradeIs
<1>3. CASE ~(active[s] # None /\ ExitOnCandle(s, active[s]) # None)
  <2> DEFINE exit == [reason |-> "END_OF_BACKTEST", price |-> lastPrice[s]]
  <2>1. lastPrice[s] \in Int
    BY <1>1 DEF Types, SimTypes, HeldPriced
  <2>2. exit \in AnyExit
    BY <2>1 DEF AnyExit
  <2>3. TestEnd(fold) \in Times
    BY WindowIs DEF Types, RunTypes
  <2>4. LastExit(s) = TradeOf(s, exit, TestEnd(fold))
    BY <1>3 DEF LastExit
  <2> HIDE DEF exit
  <2> QED
    BY <1>1, <2>2, <2>3, <2>4, TradeIs
<1> QED
  BY <1>2, <1>3

\* finalize books one for each, in the order of closing.
LEMMA FinalTradesAre ==
    ASSUME Types, fold \in Folds, NEW order \in Closings
    PROVE  /\ FinalTrades(order) \in Seq(Trade) /\ Len(FinalTrades(order)) = Len(order)
           /\ \A i \in 1..Len(order) : /\ FinalTrades(order)[i].symbol = order[i]
                                       /\ FinalTrades(order)[i].entryTs = positions[order[i]].ts
<1> DEFINE n == Len(order)
           f == [i \in 1..n |-> LastExit(order[i])]
<1>1. n \in Nat /\ order \in [1..n -> Held]
  BY ClosingsAre
<1>2. FinalTrades(order) = f
  BY <1>1 DEF FinalTrades
<1>3. ASSUME NEW i \in 1..n
      PROVE  f[i] \in Trade /\ f[i].symbol = order[i] /\ f[i].entryTs = positions[order[i]].ts
  <2>1. order[i] \in Held
    BY <1>1
  <2> QED
    BY <2>1, LastExitIs
<1>4. f \in [1..n -> Trade]
  BY <1>3
<1> HIDE DEF f, n
<1>5. f \in Seq(Trade) /\ Len(f) = n
  BY <1>1, <1>4, SequenceOf
<1> QED
  BY <1>2, <1>3, <1>5 DEF n

\* finalize keeps the types.
LEMMA FinalizeTypes ==
    ASSUME Types, Finalize
    PROVE  Types'
<1>1. /\ fold \in Folds /\ finalized' = TRUE /\ fold' = fold /\ at' = at /\ tape' = tape
      /\ combined' = combined /\ combinedDrops' = combinedDrops /\ stratVars' = stratVars
      /\ lastPrice' = lastPrice /\ rate' = rate /\ nextFunding' = nextFunding
      /\ positions' = [s \in Symbols |-> None] /\ active' = [s \in Symbols |-> None]
      /\ candles' = [s \in Symbols |-> IF active[s] = None THEN candles[s] ELSE Closed(s)]
  BY DEF Finalize, Finished
<1>2. PICK order \in Closings : /\ trades' = trades \o FinalTrades(order)
                                /\ realized' = Balance(realized, FinalTrades(order))
  BY DEF Finalize
<1>3. RunTypes'
  BY <1>1 DEF Types, RunTypes
<1>4. trades' \in Seq(Trade) /\ realized' \in Int
  <2>1. FinalTrades(order) \in Seq(Trade) /\ trades \in Seq(Trade) /\ realized \in Int
    BY <1>1, FinalTradesAre DEF Types, SimTypes
  <2> QED
    BY <1>2, <2>1, ConcatProperties, BalancesAre
<1>5. ASSUME NEW s \in Symbols
      PROVE  /\ candles'[s] \in Seq(Candle) /\ Len(candles'[s]) <= CandleCap
             /\ \A i \in 1..Len(candles'[s]) : Begun(candles'[s][i].b, at.t)
  <2>1. candles[s] \in Seq(Candle) /\ Len(candles[s]) <= CandleCap /\ active[s] \in Candle \cup {None}
    BY DEF Types, SimTypes
  <2>2. CASE active[s] = None
    BY <1>1, <2>1, <2>2 DEF Types, CandlesBegun
  <2>3. CASE active[s] # None
    <3>1. active[s] \in Candle /\ Begun(active[s].b, at.t)
      BY <2>1, <2>3 DEF Types, CandlesBegun
    <3>2. candles'[s] = Closed(s)
      BY <1>1, <2>3
    <3>3. /\ Closed(s) \in Seq(Candle) /\ Len(Closed(s)) <= CandleCap
          /\ \A i \in 1..Len(Closed(s)) :
                Closed(s)[i] = active[s] \/ \E j \in 1..Len(candles[s]) : Closed(s)[i] = candles[s][j]
      BY <2>3, ClosedIs
    <3> QED
      BY <3>1, <3>2, <3>3 DEF Types, CandlesBegun
  <2> QED
    BY <2>2, <2>3
<1>6. SimTypes'
  <2>1. candles' \in [Symbols -> Seq(Candle)]
    <3>1. DOMAIN candles' = Symbols /\ candles' = [s \in Symbols |-> candles'[s]]
      BY <1>1
    <3> QED
      BY <1>5, <3>1
  <2> QED
    BY <1>1, <1>4, <1>5, <2>1 DEF Types, SimTypes
<1>7. StratTypes'
  BY <1>1 DEF Types, StratTypes, stratVars
<1>8. FlagTypes'
  BY <1>1 DEF Types, FlagTypes, stratVars
<1>9. CandlesBegun'
  BY <1>1, <1>5 DEF CandlesBegun
<1>10. HeldPriced'
  BY <1>1 DEF HeldPriced
<1> QED
  BY <1>3, <1>6, <1>7, <1>8, <1>9, <1>10 DEF Types

\* A fold starts with the types.
LEMMA StartFoldTypes ==
    ASSUME NEW k \in Nat, StartFold(k)
    PROVE  /\ fold' \in Nat /\ at' \in [t : Nat, i : 1..2*N]
           /\ SimTypes' /\ StratTypes' /\ FlagTypes' /\ CandlesBegun' /\ HeldPriced'
<1>1. N \in Nat \ {0} /\ k * StepLen \in Nat /\ InitialEquity \in Int /\ CandleCap \in Nat /\ DropCap \in Nat
  BY SymbolsFinite, WindowIs, ConstantsAssumption
<1>2. fold' \in Nat /\ at' \in [t : Nat, i : 1..2*N]
  BY <1>1 DEF StartFold
<1>3. <<>> \in Seq(Candle) /\ <<>> \in Seq(Trade) /\ <<>> \in Seq(Drop) /\ Len(<<>>) = 0
  OBVIOUS
<1>4. SimTypes'
  BY <1>1, <1>3 DEF StartFold, NoneYet, SimTypes
<1>5. StratTypes'
  <2>1. recent' \in [Symbols -> SUBSET (Times \X Kinds)]
    BY DEF StartFold
  <2>2. lastEntry' \in [Symbols -> [Dirs -> Times \cup {None}]]
    BY DEF StartFold
  <2> QED
    BY <1>1, <1>3, <2>1, <2>2 DEF StartFold, StratTypes
<1>6. FlagTypes'
  <2>1. [s \in Symbols |-> FALSE] \in [Symbols -> BOOLEAN]
    OBVIOUS
  <2> QED
    BY <2>1 DEF StartFold, FlagTypes
<1>7. CandlesBegun'
  BY <1>3 DEF StartFold, NoneYet, CandlesBegun
<1>8. HeldPriced'
  BY DEF StartFold, NoneYet, HeldPriced
<1> QED
  BY <1>2, <1>4, <1>5, <1>6, <1>7, <1>8

\* The end of a fold keeps the types.
LEMMA EndFoldTypes ==
    ASSUME Types, EndFold
    PROVE  Types'
<1>1. /\ StartFold(fold + 1) /\ tape' = tape
      /\ combined' = combined \cup
           {[fold |-> fold, nth |-> i, trade |-> trades[i]] :
               i \in {j \in DOMAIN trades : InTestWindow(fold, trades[j].entryTs)}}
      /\ combinedDrops' = combinedDrops \cup
           {[fold |-> fold, nth |-> i, drop |-> dropped[i]] :
               i \in {j \in DOMAIN dropped : InTestWindow(fold, dropped[j].ts)}}
  BY DEF EndFold
<1>2. fold \in Nat /\ fold + 1 \in Nat
  BY DEF Types, RunTypes
<1>3. /\ trades \in Seq(Trade) /\ DOMAIN trades = 1..Len(trades) /\ Len(trades) \in Nat
      /\ dropped \in Seq(Drop) /\ DOMAIN dropped = 1..Len(dropped) /\ Len(dropped) \in Nat
  BY LenProperties DEF Types, SimTypes, StratTypes
<1>4. ASSUME NEW i \in DOMAIN trades PROVE [fold |-> fold, nth |-> i, trade |-> trades[i]] \in FoldTrade
  <2>1. i \in Nat /\ trades[i] \in Trade
    BY <1>3, ElementOfSeq
  <2> QED
    BY <1>2, <2>1 DEF FoldTrade
<1>5. ASSUME NEW i \in DOMAIN dropped PROVE [fold |-> fold, nth |-> i, drop |-> dropped[i]] \in FoldDrop
  <2>1. i \in Nat /\ dropped[i] \in Drop
    BY <1>3, ElementOfSeq
  <2> QED
    BY <1>2, <2>1 DEF FoldDrop
<1>6. combined' \subseteq FoldTrade
  BY <1>1, <1>4 DEF Types, RunTypes
<1>7. combinedDrops' \subseteq FoldDrop
  BY <1>1, <1>5 DEF Types, RunTypes
<1>8. /\ fold' \in Nat /\ at' \in [t : Nat, i : 1..2*N]
      /\ SimTypes' /\ StratTypes' /\ FlagTypes' /\ CandlesBegun' /\ HeldPriced'
  BY <1>1, <1>2, StartFoldTypes
<1>9. RunTypes'
  BY <1>1, <1>6, <1>7, <1>8 DEF Types, RunTypes
<1> QED
  BY <1>8, <1>9 DEF Types

\* The run starts with the types.
LEMMA InitTypes ==
    ASSUME Init
    PROVE  Types
<1>1. N \in Nat \ {0} /\ InitialEquity \in Int /\ CandleCap \in Nat /\ DropCap \in Nat
  BY SymbolsFinite, ConstantsAssumption
<1>2. <<>> \in Seq(Candle) /\ <<>> \in Seq(Trade) /\ <<>> \in Seq(Drop) /\ Len(<<>>) = 0
  OBVIOUS
<1>3. \A s \in Symbols : <<"ohlcv", s>> \in Streams /\ <<"ticker", s>> \in Streams
  BY DEF Streams
<1>4. tape \in [Streams -> [Times -> AnyRow]]
  BY DEF Init, AnyRow
<1>5. at \in [t : Nat, i : 1..2*N]
  BY <1>1 DEF Init
<1>6. RunTypes
  BY <1>3, <1>4, <1>5 DEF Init, RunTypes
<1>7. SimTypes
  BY <1>1, <1>2 DEF Init, NoneYet, SimTypes
<1>8. StratTypes
  <2>1. recent \in [Symbols -> SUBSET (Times \X Kinds)]
    BY DEF Init
  <2>2. lastEntry \in [Symbols -> [Dirs -> Times \cup {None}]]
    BY DEF Init
  <2> QED
    BY <1>1, <1>2, <2>1, <2>2 DEF Init, StratTypes
<1>9. FlagTypes
  <2>1. [s \in Symbols |-> FALSE] \in [Symbols -> BOOLEAN]
    OBVIOUS
  <2> QED
    BY <2>1 DEF Init, FlagTypes
<1>10. CandlesBegun
  BY <1>2 DEF Init, NoneYet, CandlesBegun
<1>11. HeldPriced
  BY DEF Init, NoneYet, HeldPriced
<1> QED
  BY <1>6, <1>7, <1>8, <1>9, <1>10, <1>11 DEF Types

\* Every step keeps the types.
LEMMA NextTypes ==
    ASSUME Types, [Next]_vars
    PROVE  Types'
<1>1. CASE UNCHANGED vars
  <2>1. RunTypes'
    BY <1>1 DEF vars, Types, RunTypes
  <2>2. SimTypes'
    BY <1>1 DEF vars, simVars, Types, SimTypes
  <2>3. StratTypes'
    BY <1>1 DEF vars, stratVars, Types, StratTypes
  <2>4. FlagTypes'
    BY <1>1 DEF vars, stratVars, Types, FlagTypes
  <2>5. CandlesBegun'
    BY <1>1 DEF vars, simVars, Types, CandlesBegun
  <2>6. HeldPriced'
    BY <1>1 DEF vars, simVars, Types, HeldPriced
  <2> QED
    BY <2>1, <2>2, <2>3, <2>4, <2>5, <2>6 DEF Types
<1>2. CASE Next
  BY <1>2, OnOhlcvTypes, OnTickerTypes, NoRowHereTypes, FinalizeTypes, EndFoldTypes DEF Next
<1> QED
  BY <1>1, <1>2

\* They hold in every state.
LEMMA TypesHold == Spec => []Types
BY InitTypes, NextTypes, PTL DEF Spec

\* They contain TypeOK.
LEMMA TypesImplyTypeOK ==
    ASSUME Types
    PROVE  TypeOK
<1>1. /\ \A s \in Symbols : Range(candles[s]) \subseteq Candle
      /\ Range(trades) \subseteq Trade /\ Range(dropped) \subseteq Drop
  BY RangeOfSeq DEF Types, SimTypes, StratTypes
<1>2. at.t \in Nat /\ at.i \in 1..2*N /\ fold \in Nat
  BY DEF Types, RunTypes
<1>3. finalized \in BOOLEAN
  BY DEF Types, FlagTypes
<1>4. \A s \in Symbols :
          /\ active[s] \in Candle \cup {None}
          /\ Len(candles[s]) <= CandleCap
          /\ positions[s] \in Position \cup {None}
          /\ recent[s] \subseteq Times \X Kinds
          /\ \A dir \in Dirs : lastEntry[s][dir] \in Times \cup {None}
  BY DEF Types, SimTypes, StratTypes
<1>5. Len(dropped) <= DropCap /\ realized \in Int /\ entryCount \in Nat
  BY DEF Types, SimTypes, StratTypes
<1>6. combined \subseteq FoldTrade /\ combinedDrops \subseteq FoldDrop
  BY DEF Types, RunTypes
<1> QED
  BY <1>1, <1>2, <1>3, <1>4, <1>5, <1>6 DEF TypeOK

\* Every state of the backtest is of its type, whatever the tape: the histories
\* stay within their caps and every trade and drop is well formed.
THEOREM BacktestTypes == Spec => []TypeOK
BY TypesHold, TypesImplyTypeOK, PTL

-----------------------------------------------------------------------------
(* No exit is missed                                                       *)

Untouched(pos, c) == ~Touches(pos, c).sl /\ ~Touches(pos, c).tp

\* After a sample no position has a closed candle that reaches its stop or target.
LEMMA OnOhlcvMissesNoExit ==
    ASSUME Types, NoMissedExit, OnOhlcv
    PROVE  NoMissedExit'
<1>1. PICK s \in Symbols, t \in Times, bar \in Bar : Sample(s, t, bar)
  BY OhlcvIs
<1>2. /\ t = at.t /\ t \in Nat
      /\ positions' = PositionsAfter(s, t, bar)
      /\ candles' = [candles EXCEPT ![s] = CandlesAfter(s, t)]
  BY <1>1 DEF Sample, OnSample, Times
<1>3. candles \in [Symbols -> Seq(Candle)] /\ positions \in [Symbols -> Position \cup {None}]
  BY DEF Types, SimTypes
<1> SUFFICES ASSUME NEW u \in Symbols, positions'[u] # None, NEW i \in DOMAIN candles'[u],
                    candles'[u][i].b > Bucket(positions'[u].ts)
             PROVE  Untouched(positions'[u], candles'[u][i])
  BY DEF NoMissedExit, Held, Untouched
<1>4. CASE u # s
  <2>1. candles'[u] = candles[u] /\ positions'[u] = positions[u]
    BY <1>2, <1>3, <1>4, PositionsAfterAre
  <2> QED
    BY <2>1 DEF NoMissedExit, Held, Untouched
<1>5. CASE u = s
  <2> DEFINE cs == CandlesAfter(s, t)
  <2>1. candles'[u] = cs /\ cs \in Seq(Candle)
    BY <1>2, <1>3, <1>5, CandlesAfterAre
  <2>2. i \in 1..Len(cs)
    BY <2>1, LenProperties
  <2>3. cs[i].b \in Nat /\ cs[i].b <= Bucket(t)
    <3>1. Begun(cs[i].b, t)
      BY <1>2, <2>2, CandlesAfterBegun
    <3> QED
      BY <1>2, <3>1, BegunIs
  <2>4. ~Enters(s, t, bar)
    <3>1. SUFFICES ASSUME Enters(s, t, bar) PROVE FALSE
      OBVIOUS
    <3>2. positions'[u].ts = t
      BY <1>2, <1>5, <3>1, PositionsAfterAre
    <3>3. cs[i].b > Bucket(t)
      BY <2>1, <3>2
    <3>4. Bucket(t) \in Nat
      BY <1>2, BucketIs
    <3> HIDE DEF cs
    <3> QED
      BY <2>3, <3>3, <3>4
  <2>5. positions'[u] = Carried(s, t)
    BY <1>2, <1>5, <2>4, PositionsAfterAre
  <2>6. /\ positions[s] # None /\ ~Exits(s, t)
        /\ Carried(s, t).ts = positions[s].ts /\ Carried(s, t).dir = positions[s].dir
        /\ Carried(s, t).sl = positions[s].sl /\ Carried(s, t).tp = positions[s].tp
    BY <2>5, CarriedIs
  <2>7. Untouched(Carried(s, t), cs[i]) <=> Untouched(positions[s], cs[i])
    BY <2>6 DEF Untouched, Touches
  <2>8. cs[i].b > Bucket(positions[s].ts)
    BY <2>1, <2>5, <2>6
  <2> HIDE DEF cs
  <2>9. CASE Completes(s, t) /\ cs[i] = active[s]
    <3>1. active[s] \in Candle
      BY <2>9 DEF Completes, Types, SimTypes
    <3>2. ExitOnCandle(s, active[s]) = None
      BY <2>6, <2>9 DEF Exits
    <3>3. Untouched(positions[s], active[s])
      BY <1>3, <2>6, <2>8, <2>9, <3>1, <3>2, ExitIs DEF Untouched
    <3> QED
      BY <2>1, <2>5, <2>7, <2>9, <3>3
  <2>10. CASE \E j \in 1..Len(candles[s]) : cs[i] = candles[s][j]
    <3>1. PICK j \in 1..Len(candles[s]) : cs[i] = candles[s][j]
      BY <2>10
    <3>2. j \in DOMAIN candles[s]
      BY <1>3, LenProperties
    <3>3. Untouched(positions[s], candles[s][j])
      BY <2>6, <2>8, <3>1, <3>2 DEF NoMissedExit, Held, Untouched
    <3> QED
      BY <2>1, <2>5, <2>7, <3>1, <3>3
  <2> QED
    BY <2>2, <2>9, <2>10, CandlesAfterAre DEF cs
<1> QED
  BY <1>4, <1>5

\* No step leaves such a position.
LEMMA NextMissesNoExit ==
    ASSUME Types, NoMissedExit, [Next]_vars
    PROVE  NoMissedExit'
<1>1. CASE UNCHANGED vars
  BY <1>1 DEF vars, simVars, NoMissedExit, Held
<1>2. CASE OnOhlcv
  BY <1>2, OnOhlcvMissesNoExit
<1>3. CASE OnTicker
  BY <1>3 DEF OnTicker, NoMissedExit, Held
<1>4. CASE NoRowHere
  BY <1>4 DEF NoRowHere, simVars, NoMissedExit, Held
<1>5. CASE Finalize
  <2>1. positions' = [s \in Symbols |-> None]
    BY <1>5 DEF Finalize
  <2> QED
    BY <2>1 DEF NoMissedExit, Held
<1>6. CASE EndFold
  <2>1. positions' = [s \in Symbols |-> None]
    BY <1>6 DEF EndFold, StartFold, NoneYet
  <2> QED
    BY <2>1 DEF NoMissedExit, Held
<1> QED
  BY <1>1, <1>2, <1>3, <1>4, <1>5, <1>6 DEF Next

\* on_ohlcv, on_entry: whatever the tape, a position that is still open was not
\* touched by any finished candle after the one of its entry; an exit is taken
\* on the very candle that reaches it.
THEOREM ExitsAreTaken == Spec => []NoMissedExit
<1>1. Init => NoMissedExit
  BY DEF Init, NoneYet, NoMissedExit, Held
<1>2. Types /\ NoMissedExit /\ [Next]_vars => NoMissedExit'
  BY NextMissesNoExit
<1> QED
  BY <1>1, <1>2, TypesHold, PTL DEF Spec

-----------------------------------------------------------------------------
(* The account of a fold                                                   *)

\* The sample of s at time u lies before the slot a of the merge order.
Past(s, u, a) ==
    \/ u < a.t
    \/ u = a.t /\ \E j \in 1..(a.i - 1) : Merged[j] = <<"ohlcv", s>>

\* Every entry was made at a sample that is past, and what is held has not ended.
EntriesPast ==
    /\ \A i \in 1..Len(trades) : Past(trades[i].symbol, trades[i].entryTs, at)
    /\ \A s \in Symbols : positions[s] # None => Past(s, positions[s].ts, at)
HeldIsOpen ==
    \A s \in Symbols : positions[s] # None =>
        \A i \in 1..Len(trades) : trades[i].symbol = s => trades[i].entryTs # positions[s].ts
AccountInv == EntriesPast /\ HeldIsOpen

\* The trades of a fold, one by one.
LEMMA TradesAre ==
    ASSUME Types, NEW i \in 1..Len(trades)
    PROVE  /\ trades[i] \in Trade /\ trades[i].symbol \in Symbols
           /\ trades[i].entryTs \in Times /\ trades[i].entryTs \in Nat
<1>1. trades \in Seq(Trade) /\ DOMAIN trades = 1..Len(trades)
  BY LenProperties DEF Types, SimTypes
<1>2. trades[i] \in Trade
  BY <1>1, ElementOfSeq
<1> QED
  BY <1>2 DEF Trade, Times

\* What is past stays past.
LEMMA PastLater ==
    ASSUME Types, NEW s, NEW u \in Nat, Past(s, u, at)
    PROVE  Past(s, u, NextSlot)
<1> DEFINE b == NextSlot
<1>1. at.t \in Nat /\ at.i \in 1..2*N /\ N \in Nat \ {0}
  BY SymbolsFinite DEF Types, RunTypes
<1>2. \/ b.t = at.t /\ b.i = at.i + 1
      \/ b.t = at.t + 1
  BY NextSlotIs
<1> SUFFICES Past(s, u, b)
  OBVIOUS
<1> HIDE DEF b
<1>3. CASE b.t = at.t /\ b.i = at.i + 1
  <2>1. \A j \in 1..(at.i - 1) : j \in 1..(b.i - 1)
    BY <1>1, <1>3
  <2>2. CASE u < at.t
    BY <1>3, <2>2 DEF Past
  <2>3. CASE ~(u < at.t)
    <3>1. u = at.t /\ \E j \in 1..(at.i - 1) : Merged[j] = <<"ohlcv", s>>
      BY <2>3 DEF Past
    <3>2. PICK j \in 1..(at.i - 1) : Merged[j] = <<"ohlcv", s>>
      BY <3>1
    <3> QED
      BY <1>3, <2>1, <3>1, <3>2 DEF Past
  <2> QED
    BY <2>2, <2>3
<1>4. CASE b.t = at.t + 1
  <2>1. u <= at.t
    BY <1>1 DEF Past
  <2>2. u < b.t
    BY <1>1, <1>4, <2>1
  <2> QED
    BY <2>2 DEF Past
<1> QED
  BY <1>2, <1>3, <1>4

\* The sample being read is past once it is read, and not before.
LEMMA SampleIsNow ==
    ASSUME Types, Reading, NEW s \in Symbols, Stream = <<"ohlcv", s>>
    PROVE  ~Past(s, at.t, at) /\ Past(s, at.t, NextSlot)
<1> DEFINE b == NextSlot
<1>1. at.t \in Nat /\ at.i \in 1..2*N /\ N \in Nat \ {0} /\ Merged[at.i] = <<"ohlcv", s>>
  BY SymbolsFinite DEF Types, RunTypes, Stream
<1>2. ~Past(s, at.t, at)
  <2>1. ~(at.t < at.t)
    BY <1>1
  <2>2. ASSUME NEW j \in 1..(at.i - 1), Merged[j] = <<"ohlcv", s>> PROVE FALSE
    <3>1. j \in 1..2*N /\ j # at.i
      BY <1>1
    <3>2. Merged[j] = Merged[at.i]
      BY <1>1, <2>2
    <3> QED
      BY <1>1, <3>1, <3>2, MergedOnce
  <2> QED
    BY <2>1, <2>2 DEF Past
<1>3. \/ b.t = at.t /\ b.i = at.i + 1
      \/ b.t = at.t + 1
  BY NextSlotIs
<1> HIDE DEF b
<1>4. CASE b.t = at.t /\ b.i = at.i + 1
  <2>1. at.i \in 1..(b.i - 1)
    BY <1>1, <1>4
  <2> QED
    BY <1>1, <1>2, <1>4, <2>1 DEF Past, b
<1>5. CASE b.t = at.t + 1
  <2>1. at.t < b.t
    BY <1>1, <1>5
  <2> QED
    BY <1>2, <2>1 DEF Past, b
<1> QED
  BY <1>3, <1>4, <1>5

\* A sample keeps the invariant.
LEMMA OnOhlcvAccountInv ==
    ASSUME Types, AccountInv, OnOhlcv
    PROVE  AccountInv'
<1>1. PICK s \in Symbols, t \in Times, bar \in Bar : Sample(s, t, bar)
  BY OhlcvIs
<1>2. /\ t = at.t /\ t \in Nat /\ Reading /\ Stream = <<"ohlcv", s>>
      /\ positions' = PositionsAfter(s, t, bar)
      /\ trades' = trades \o Ended(s, t)
      /\ at' = NextSlot
  BY <1>1 DEF Sample, OnSample, Consume, Times
<1>3. /\ trades \in Seq(Trade) /\ Len(trades) \in Nat
      /\ positions \in [Symbols -> Position \cup {None}]
  BY LenProperties DEF Types, SimTypes
<1>4. ASSUME NEW u \in Symbols, positions[u] # None
      PROVE  positions[u].ts \in Nat /\ Past(u, positions[u].ts, at) /\ Past(u, positions[u].ts, NextSlot)
  <2>1. positions[u].ts \in Nat
    BY <1>3, <1>4 DEF Position, Times
  <2>2. Past(u, positions[u].ts, at)
    BY <1>4 DEF AccountInv, EntriesPast
  <2> QED
    BY <2>1, <2>2, PastLater
<1>5. ASSUME NEW i \in 1..Len(trades)
      PROVE  /\ trades[i].entryTs \in Nat /\ Past(trades[i].symbol, trades[i].entryTs, at)
             /\ Past(trades[i].symbol, trades[i].entryTs, NextSlot)
  <2>1. trades[i].entryTs \in Nat
    BY TradesAre
  <2>2. Past(trades[i].symbol, trades[i].entryTs, at)
    BY DEF AccountInv, EntriesPast
  <2> QED
    BY <2>1, <2>2, PastLater
<1>6. /\ ~Past(s, t, at) /\ Past(s, t, NextSlot)
  BY <1>2, SampleIsNow
<1>7. ASSUME NEW i \in 1..Len(trades')
      PROVE  \/ i \in 1..Len(trades) /\ trades'[i] = trades[i]
             \/ /\ Exits(s, t) /\ trades'[i].symbol = s /\ trades'[i].entryTs = positions[s].ts
                /\ positions[s] # None
  <2> DEFINE ts == Ended(s, t)
             l == Len(trades)
  <2>1. ts \in Seq(Trade) /\ Len(ts) \in Nat
    BY <1>2, EndedIs, LenProperties
  <2>2. /\ (~Exits(s, t) => Len(ts) = 0)
        /\ (Exits(s, t) => /\ Len(ts) = 1 /\ ts[1].symbol = s /\ ts[1].entryTs = positions[s].ts
                           /\ positions[s] # None)
    BY <1>2, EndedIs
  <2> HIDE DEF ts
  <2>3. /\ Len(trades') = l + Len(ts)
        /\ \A k \in 1..(l + Len(ts)) : trades'[k] = IF k <= l THEN trades[k] ELSE ts[k - l]
    BY <1>2, <1>3, <2>1, ConcatProperties DEF ts
  <2>4. l \in Nat
    BY <1>3
  <2> HIDE DEF l
  <2>5. CASE i <= l
    BY <2>1, <2>3, <2>4, <2>5 DEF l
  <2>6. CASE ~(i <= l)
    <3>1. Exits(s, t) /\ i - l = 1
      BY <2>1, <2>2, <2>3, <2>4, <2>6
    <3> QED
      BY <2>2, <2>3, <2>6, <3>1
  <2> QED
    BY <2>5, <2>6
<1>8. ASSUME NEW u \in Symbols, positions'[u] # None
      PROVE  \/ u = s /\ positions'[u].ts = t
             \/ /\ positions[u] # None /\ positions'[u].ts = positions[u].ts
                /\ (u = s => ~Exits(s, t))
  <2>1. CASE u # s
    BY <1>2, <1>8, <2>1, PositionsAfterAre
  <2>2. CASE u = s /\ Enters(s, t, bar)
    BY <1>2, <1>8, <2>2, PositionsAfterAre
  <2>3. CASE u = s /\ ~Enters(s, t, bar)
    <3>1. positions'[s] = Carried(s, t)
      BY <1>2, <2>3, PositionsAfterAre
    <3>2. Carried(s, t) # None
      BY <1>8, <2>3, <3>1
    <3> QED
      BY <2>3, <3>1, <3>2, CarriedIs
  <2> QED
    BY <2>1, <2>2, <2>3
<1>9. \A i \in 1..Len(trades') : Past(trades'[i].symbol, trades'[i].entryTs, at')
  BY <1>2, <1>4, <1>5, <1>7
<1>10. ASSUME NEW u \in Symbols, positions'[u] # None PROVE Past(u, positions'[u].ts, at')
  BY <1>2, <1>4, <1>6, <1>8, <1>10
<1>11. ASSUME NEW u \in Symbols, positions'[u] # None, NEW i \in 1..Len(trades'), trades'[i].symbol = u,
              trades'[i].entryTs = positions'[u].ts
       PROVE  FALSE
  <2>1. CASE u = s /\ positions'[u].ts = t
    <3>1. Past(s, trades'[i].entryTs, at)
      BY <1>4, <1>5, <1>7, <1>11, <2>1
    <3> QED
      BY <1>6, <1>11, <2>1, <3>1
  <2>2. CASE /\ positions[u] # None /\ positions'[u].ts = positions[u].ts
             /\ (u = s => ~Exits(s, t))
    <3>1. i \in 1..Len(trades) /\ trades'[i] = trades[i]
      BY <1>7, <1>11, <2>2
    <3> QED
      BY <1>11, <2>2, <3>1 DEF AccountInv, HeldIsOpen
  <2> QED
    BY <1>8, <1>11, <2>1, <2>2
<1> QED
  BY <1>9, <1>10, <1>11 DEF AccountInv, EntriesPast, HeldIsOpen

\* So does a row that is no sample.
LEMMA ReadKeepsAccountInv ==
    ASSUME Types, AccountInv, at' = NextSlot, trades' = trades, positions' = positions
    PROVE  AccountInv'
<1>1. trades \in Seq(Trade) /\ positions \in [Symbols -> Position \cup {None}]
  BY DEF Types, SimTypes
<1>2. \A i \in 1..Len(trades) : trades[i].entryTs \in Nat
  BY TradesAre
<1>3. \A s \in Symbols : positions[s] # None => positions[s].ts \in Nat
  BY <1>1 DEF Position, Times
<1>4. EntriesPast'
  BY <1>2, <1>3, PastLater DEF AccountInv, EntriesPast
<1> QED
  BY <1>4 DEF AccountInv, HeldIsOpen

\* And every other step.
LEMMA NextAccountInv ==
    ASSUME Types, AccountInv, [Next]_vars
    PROVE  AccountInv'
<1>1. CASE UNCHANGED vars
  BY <1>1 DEF vars, simVars, AccountInv, EntriesPast, HeldIsOpen
<1>2. CASE OnOhlcv
  BY <1>2, OnOhlcvAccountInv
<1>3. CASE OnTicker
  BY <1>3, ReadKeepsAccountInv DEF OnTicker, Consume
<1>4. CASE NoRowHere
  BY <1>4, ReadKeepsAccountInv DEF NoRowHere, Consume, simVars
<1>5. CASE Finalize
  <2>1. PICK order \in Closings : trades' = trades \o FinalTrades(order)
    BY <1>5 DEF Finalize
  <2>2. fold \in Folds /\ at' = at /\ positions' = [s \in Symbols |-> None]
    BY <1>5 DEF Finalize, Finished
  <2> DEFINE ts == FinalTrades(order)
             l == Len(trades)
  <2>3. /\ ts \in Seq(Trade) /\ Len(ts) \in Nat
        /\ trades \in Seq(Trade) /\ l \in Nat
    BY <2>2, FinalTradesAre, LenProperties DEF Types, SimTypes
  <2>4. ASSUME NEW i \in 1..Len(ts) PROVE Past(ts[i].symbol, ts[i].entryTs, at)
    <3>1. i \in 1..Len(order) /\ order[i] \in Held
      BY <2>2, ClosingsAre, FinalTradesAre
    <3>2. ts[i].symbol = order[i] /\ ts[i].entryTs = positions[order[i]].ts
      BY <2>2, <3>1, FinalTradesAre
    <3>3. Past(order[i], positions[order[i]].ts, at)
      BY <3>1 DEF AccountInv, EntriesPast, Held
    <3> QED
      BY <3>2, <3>3
  <2> HIDE DEF ts
  <2>5. /\ Len(trades') = l + Len(ts)
        /\ \A k \in 1..(l + Len(ts)) : trades'[k] = IF k <= l THEN trades[k] ELSE ts[k - l]
    BY <2>1, <2>3, ConcatProperties DEF ts
  <2>6. \A i \in 1..l : Past(trades[i].symbol, trades[i].entryTs, at)
    BY DEF AccountInv, EntriesPast
  <2> HIDE DEF l
  <2>7. ASSUME NEW i \in 1..Len(trades') PROVE Past(trades'[i].symbol, trades'[i].entryTs, at)
    <3>1. CASE i <= l
      <4>1. i \in 1..l /\ trades'[i] = trades[i]
        BY <2>3, <2>5, <3>1
      <4> QED
        BY <2>6, <4>1
    <3>2. CASE ~(i <= l)
      <4>1. i - l \in 1..Len(ts) /\ trades'[i] = ts[i - l]
        BY <2>3, <2>5, <3>2
      <4> QED
        BY <2>4, <4>1
    <3> QED
      BY <3>1, <3>2
  <2> QED
    BY <2>2, <2>7 DEF AccountInv, EntriesPast, HeldIsOpen
<1>6. CASE EndFold
  <2>1. positions' = [s \in Symbols |-> None] /\ trades' = <<>>
    BY <1>6 DEF EndFold, StartFold, NoneYet
  <2>2. Len(trades') = 0
    BY <2>1
  <2> QED
    BY <2>1, <2>2 DEF AccountInv, EntriesPast, HeldIsOpen
<1> QED
  BY <1>1, <1>2, <1>3, <1>4, <1>5, <1>6 DEF Next

\* A trade as the account knows it.
Key(s, u) == <<s, <<fold, u>>>>
HeldTrades == {Key(s, positions[s].ts) : s \in Held}

\* It names the symbol and the time of the entry.
LEMMA KeyIs ==
    ASSUME NEW s, NEW u, NEW r, NEW v, Key(s, u) = Key(r, v)
    PROVE  s = r /\ u = v
<1>1. Key(s, u)[1] = s /\ Key(r, v)[1] = r /\ Key(s, u)[2] = <<fold, u>> /\ Key(r, v)[2] = <<fold, v>>
  BY DEF Key
<1>2. <<fold, u>>[2] = u /\ <<fold, v>>[2] = v
  OBVIOUS
<1> QED
  BY <1>1, <1>2

\* The ended and the entered trades of the account.
LEMMA TradesKnown ==
    ASSUME Types
    PROVE  /\ EndedTrades = {Key(trades[i].symbol, trades[i].entryTs) : i \in 1..Len(trades)}
           /\ EnteredTrades = EndedTrades \cup HeldTrades
<1>1. DOMAIN trades = 1..Len(trades)
  BY LenProperties DEF Types, SimTypes
<1> QED
  BY <1>1 DEF EndedTrades, EnteredTrades, HeldTrades, Key

\* What is live is what is held.
LEMMA LiveIsHeld ==
    ASSUME Types, AccountInv
    PROVE  Account!Live = HeldTrades
<1>1. ASSUME NEW k \in HeldTrades, k \in EndedTrades PROVE FALSE
  <2>1. PICK s \in Held : k = Key(s, positions[s].ts)
    BY DEF HeldTrades
  <2>2. PICK i \in 1..Len(trades) : k = Key(trades[i].symbol, trades[i].entryTs)
    BY <1>1, TradesKnown
  <2>3. trades[i].symbol = s /\ trades[i].entryTs = positions[s].ts
    <3>1. Key(trades[i].symbol, trades[i].entryTs) = Key(s, positions[s].ts)
      BY <2>1, <2>2
    <3> QED
      BY <3>1, KeyIs
  <2> QED
    BY <2>1, <2>3 DEF AccountInv, HeldIsOpen, Held
<1> QED
  BY <1>1, TradesKnown DEF Account!Live

\* There are as many live trades as held positions.
LEMMA HeldCounted ==
    IsFiniteSet(Held) /\ IsFiniteSet(HeldTrades) /\ Cardinality(HeldTrades) = Cardinality(Held)
<1> DEFINE f == [s \in Held |-> Key(s, positions[s].ts)]
<1>1. IsFiniteSet(Held)
  <2>1. Held \subseteq Symbols
    BY DEF Held
  <2> QED
    BY <2>1, SymbolsFinite, FS_Subset
<1>2. f \in Surjection(Held, HeldTrades)
  BY DEF Surjection, HeldTrades
<1>3. \A r, s \in Held : f[r] = f[s] => r = s
  BY KeyIs
<1>4. f \in Injection(Held, HeldTrades)
  <2>1. f \in [Held -> HeldTrades]
    BY DEF HeldTrades
  <2> HIDE DEF f
  <2> QED
    BY <1>3, <2>1 DEF Injection, IsInjective
<1>5. f \in Bijection(Held, HeldTrades)
  BY <1>2, <1>4 DEF Bijection
<1> QED
  BY <1>1, <1>5, FS_Bijection DEF ExistsBijection

\* What is booked has ended.
LEMMA EndedTradesAfter ==
    ASSUME Types, NEW ts \in Seq(Trade), trades' = trades \o ts, fold' = fold
    PROVE  EndedTrades' = EndedTrades \cup {Key(ts[i].symbol, ts[i].entryTs) : i \in 1..Len(ts)}
<1> DEFINE l == Len(trades)
           m == Len(ts)
           all == trades \o ts
<1>1. trades \in Seq(Trade) /\ l \in Nat /\ m \in Nat
  BY LenProperties DEF Types, SimTypes
<1>2. /\ all \in Seq(Trade) /\ Len(all) = l + m
      /\ \A i \in 1..(l + m) : all[i] = IF i <= l THEN trades[i] ELSE ts[i - l]
  BY <1>1, ConcatProperties
<1>3. DOMAIN all = 1..Len(all)
  BY <1>2, LenProperties
<1>4. EndedTrades' = {Key(all[i].symbol, all[i].entryTs) : i \in 1..(l + m)}
  BY <1>2, <1>3 DEF EndedTrades, Key
<1>5. EndedTrades = {Key(trades[i].symbol, trades[i].entryTs) : i \in 1..l}
  BY TradesKnown
<1> HIDE DEF l, m, all
<1>6. \A i \in 1..l : i \in 1..(l + m) /\ all[i] = trades[i]
  BY <1>1, <1>2
<1>7. \A i \in 1..m : l + i \in 1..(l + m) /\ all[l + i] = ts[i]
  <2>1. \A i \in 1..m : l + i \in 1..(l + m) /\ ~(l + i <= l) /\ (l + i) - l = i
    BY <1>1
  <2> QED
    BY <1>2, <2>1
<1>8. ASSUME NEW i \in 1..(l + m)
      PROVE  \/ i \in 1..l /\ all[i] = trades[i]
             \/ i - l \in 1..m /\ all[i] = ts[i - l]
  <2>1. CASE i <= l
    BY <1>1, <1>2, <2>1
  <2>2. CASE ~(i <= l)
    BY <1>1, <1>2, <2>2
  <2> QED
    BY <2>1, <2>2
<1>9. EndedTrades' \subseteq EndedTrades \cup {Key(ts[i].symbol, ts[i].entryTs) : i \in 1..m}
  BY <1>4, <1>5, <1>8
<1>10. EndedTrades \cup {Key(ts[i].symbol, ts[i].entryTs) : i \in 1..m} \subseteq EndedTrades'
  BY <1>4, <1>5, <1>6, <1>7
<1> QED
  BY <1>9, <1>10 DEF m

\* The instance of PaperAccount counts as the library does.
LEMMA AccountCounts ==
    ASSUME NEW S
    PROVE  Account!Cardinality(S) = Cardinality(S)
BY DEF Account!Cardinality, Cardinality

\* A sample ends at most the trade of its symbol and enters at most one.
LEMMA SampleInAccount ==
    ASSUME Types, AccountInv, OnOhlcv
    PROVE  Account!Next \/ UNCHANGED <<EnteredTrades, EndedTrades>>
<1>1. PICK s \in Symbols, t \in Times, bar \in Bar : Sample(s, t, bar)
  BY OhlcvIs
<1>2. /\ t = at.t /\ t \in Nat /\ Reading /\ Stream = <<"ohlcv", s>>
      /\ positions' = PositionsAfter(s, t, bar)
      /\ trades' = trades \o Ended(s, t)
      /\ fold' = fold
  BY <1>1 DEF Sample, OnSample, Times
<1>3. /\ fold \in Folds /\ positions \in [Symbols -> Position \cup {None}]
      /\ positions' \in [Symbols -> Position \cup {None}]
  BY <1>2, ReadingIs, PositionsAfterAre DEF Types, SimTypes
<1> DEFINE Old == Key(s, positions[s].ts)
           New == Key(s, t)
           Gone == IF Exits(s, t) THEN {Old} ELSE {}
           Come == IF Enters(s, t, bar) THEN {New} ELSE {}
<1>4. EndedTrades' = EndedTrades \cup Gone
  <2> DEFINE ts == Ended(s, t)
  <2>1. ts \in Seq(Trade)
    BY <1>2, EndedIs
  <2>2. EndedTrades' = EndedTrades \cup {Key(ts[i].symbol, ts[i].entryTs) : i \in 1..Len(ts)}
    BY <1>2, <2>1, EndedTradesAfter
  <2>3. CASE Exits(s, t)
    <3>1. Len(ts) = 1 /\ ts[1].symbol = s /\ ts[1].entryTs = positions[s].ts
      BY <1>2, <2>3, EndedIs
    <3> HIDE DEF ts
    <3>2. {Key(ts[i].symbol, ts[i].entryTs) : i \in 1..Len(ts)} = {Key(ts[1].symbol, ts[1].entryTs)}
      BY <3>1
    <3> QED
      BY <2>2, <2>3, <3>1, <3>2
  <2>4. CASE ~Exits(s, t)
    <3>1. ts = <<>>
      BY <1>2, <2>4, EndedIs
    <3>2. {Key(ts[i].symbol, ts[i].entryTs) : i \in 1..Len(ts)} = {}
      BY <3>1
    <3> QED
      BY <2>2, <2>4, <3>2
  <2> QED
    BY <2>3, <2>4
<1>5. HeldTrades' = (HeldTrades \ Gone) \cup Come
  <2>1. HeldTrades' = {Key(u, positions'[u].ts) : u \in {v \in Symbols : positions'[v] # None}}
    BY <1>2 DEF HeldTrades, Held, Key
  <2>2. \A u \in Symbols : u # s => positions'[u] = positions[u]
    BY <1>2, PositionsAfterAre
  <2>3. /\ Enters(s, t, bar) => positions'[s] # None /\ positions'[s].ts = t
        /\ Exits(s, t) => positions[s] # None
        /\ ~Enters(s, t, bar) => (positions'[s] # None <=> positions[s] # None /\ ~Exits(s, t))
        /\ ~Enters(s, t, bar) /\ positions'[s] # None => positions'[s].ts = positions[s].ts
        /\ Enters(s, t, bar) /\ positions[s] # None => Exits(s, t)
    BY <1>2, NoneIs, PositionsAfterAre, CarriedIs, EndedIs
  <2>4. \A u, v, x, y : Key(u, x) = Key(v, y) => u = v /\ x = y
    BY KeyIs
  <2>5. HeldTrades = {Key(u, positions[u].ts) : u \in {v \in Symbols : positions[v] # None}}
    BY DEF HeldTrades, Held
  <2>6. ASSUME NEW k \in HeldTrades' PROVE k \in (HeldTrades \ Gone) \cup Come
    <3>1. PICK u \in Symbols : positions'[u] # None /\ k = Key(u, positions'[u].ts)
      BY <2>1
    <3>2. CASE u = s
      BY <2>3, <2>4, <2>5, <3>1, <3>2
    <3>3. CASE u # s
      BY <2>2, <2>4, <2>5, <3>1, <3>3
    <3> QED
      BY <3>2, <3>3
  <2>7. ASSUME NEW k \in (HeldTrades \ Gone) \cup Come PROVE k \in HeldTrades'
    <3>1. CASE k \in Come
      BY <2>1, <2>3, <3>1
    <3>2. CASE k \in HeldTrades \ Gone
      <4>1. PICK u \in Symbols : positions[u] # None /\ k = Key(u, positions[u].ts)
        BY <2>5, <3>2
      <4>2. CASE u = s
        BY <2>1, <2>3, <3>2, <4>1, <4>2
      <4>3. CASE u # s
        BY <2>1, <2>2, <4>1, <4>3
      <4> QED
        BY <4>2, <4>3
    <3> QED
      BY <2>7, <3>1, <3>2
  <2> QED
    BY <2>6, <2>7
<1>6. EnteredTrades = EndedTrades \cup HeldTrades /\ Account!Live = HeldTrades
  BY TradesKnown, LiveIsHeld
<1>7. EnteredTrades' = EndedTrades' \cup HeldTrades'
  BY DEF EnteredTrades, HeldTrades, Key
<1>8. Exits(s, t) => positions[s] # None /\ Old \in HeldTrades
  <2>1. Exits(s, t) => positions[s] # None
    BY <1>2, EndedIs
  <2> QED
    BY <2>1 DEF HeldTrades, Held
<1>9. EnteredTrades' = EnteredTrades \cup Come
  BY <1>4, <1>5, <1>6, <1>7, <1>8
<1>10. ASSUME Enters(s, t, bar)
       PROVE  /\ New \notin EnteredTrades
              /\ \A v : <<s, v>> \notin HeldTrades \ Gone
              /\ Cardinality(HeldTrades \ Gone) < MaxPositionsGlobal
  <2>1. ~Past(s, t, at)
    BY <1>2, SampleIsNow
  <2>2. New \notin EndedTrades
    <3>1. SUFFICES ASSUME New \in EndedTrades PROVE FALSE
      OBVIOUS
    <3>2. PICK i \in 1..Len(trades) : New = Key(trades[i].symbol, trades[i].entryTs)
      BY <3>1, TradesKnown
    <3>3. trades[i].symbol = s /\ trades[i].entryTs = t
      BY <3>2, KeyIs
    <3> QED
      BY <2>1, <3>3 DEF AccountInv, EntriesPast
  <2>3. New \notin HeldTrades
    <3>1. SUFFICES ASSUME New \in HeldTrades PROVE FALSE
      OBVIOUS
    <3>2. PICK u \in Held : New = Key(u, positions[u].ts)
      BY <3>1 DEF HeldTrades
    <3>3. u = s /\ positions[u].ts = t
      BY <3>2, KeyIs
    <3> QED
      BY <2>1, <3>2, <3>3 DEF AccountInv, EntriesPast, Held
  <2>4. Carried(s, t) = None
    BY <1>10, PositionsAfterAre
  <2>5. positions[s] # None => Exits(s, t)
    BY <2>4, CarriedIs
  <2>6. ASSUME NEW v, <<s, v>> \in HeldTrades \ Gone PROVE FALSE
    <3>1. PICK u \in Held : <<s, v>> = Key(u, positions[u].ts)
      BY <2>6 DEF HeldTrades
    <3>2. u = s
      BY <3>1 DEF Key
    <3>3. positions[s] # None
      BY <3>1, <3>2 DEF Held
    <3>4. Gone = {Old}
      BY <2>5, <3>3
    <3> QED
      BY <2>6, <3>1, <3>2, <3>4
  <2> DEFINE Kept == {u \in Symbols : HeldAfter(s, t)[u] # None}
  <2>7. ~(Cardinality(Kept) >= MaxPositionsGlobal)
    BY <1>10, VerdictIs DEF Enters, Answer
  <2>8. Kept = Held \ {s}
    BY <1>3, <2>4 DEF HeldAfter, Held
  <2>9. Cardinality(HeldTrades \ Gone) = Cardinality(Kept) /\ Cardinality(Kept) \in Nat
    <3>1. IsFiniteSet(Held) /\ IsFiniteSet(HeldTrades) /\ Cardinality(HeldTrades) = Cardinality(Held)
          /\ Cardinality(Held) \in Nat
      BY HeldCounted, FS_CardinalityType
    <3>2. CASE Exits(s, t)
      <4>1. s \in Held /\ Old \in HeldTrades
        BY <1>8, <3>2 DEF Held
      <4>2. Cardinality(Held \ {s}) = Cardinality(Held) - 1
        BY <3>1, <4>1, FS_RemoveElement
      <4>3. Cardinality(HeldTrades \ {Old}) = Cardinality(HeldTrades) - 1
        BY <3>1, <4>1, FS_RemoveElement
      <4>4. IsFiniteSet(Held \ {s})
        BY <3>1, FS_RemoveElement, <4>1, FS_Subset
      <4> QED
        BY <2>8, <3>1, <3>2, <4>2, <4>3, <4>4, FS_CardinalityType
    <3>3. CASE ~Exits(s, t)
      <4>1. s \notin Held
        BY <2>5, <3>3 DEF Held
      <4>2. Kept = Held /\ HeldTrades \ Gone = HeldTrades
        BY <2>8, <3>3, <4>1
      <4> QED
        BY <3>1, <4>2
    <3> QED
      BY <3>2, <3>3
  <2> HIDE DEF Kept, Gone
  <2>10. Cardinality(HeldTrades \ Gone) < MaxPositionsGlobal
    BY <2>7, <2>9, ConstantsAssumption
  <2> QED
    BY <1>6, <2>2, <2>3, <2>6, <2>10
<1>11. <<fold, t>> \in Folds \X Times /\ New = <<s, <<fold, t>>>>
  BY <1>3 DEF Key
<1>12. CASE ~Exits(s, t) /\ ~Enters(s, t, bar)
  BY <1>4, <1>9, <1>12
<1>13. CASE Exits(s, t) /\ ~Enters(s, t, bar)
  <2>1. Account!End({Old})
    BY <1>4, <1>6, <1>8, <1>9, <1>13 DEF Account!End
  <2>2. {Old} \in SUBSET Account!Live
    BY <1>6, <1>8, <1>13
  <2> QED
    BY <2>1, <2>2 DEF Account!Next
<1>14. CASE ~Exits(s, t) /\ Enters(s, t, bar)
  <2> DEFINE w == <<fold, t>>
  <2>0. w \in Folds \X Times /\ New = <<s, w>>
    BY <1>11
  <2> HIDE DEF w
  <2>1. Gone = {} /\ Come = {<<s, w>>}
    BY <1>14, <2>0
  <2>2. /\ <<s, w>> \notin EnteredTrades
        /\ \A v : <<s, v>> \notin HeldTrades
        /\ Cardinality(HeldTrades) < MaxPositionsGlobal
    BY <1>10, <1>14, <2>0, <2>1
  <2> HIDE DEF Gone, Come, New
  <2>4. EnteredTrades' = EnteredTrades \cup {<<s, w>>} /\ EndedTrades' = EndedTrades
    BY <1>4, <1>9, <2>1
  <2>5. /\ \A v : <<s, v>> \notin Account!Live
        /\ Account!Cardinality(Account!Live) < MaxPositionsGlobal
    BY <1>6, <2>2, AccountCounts
  <2>3. Account!Enter(s, w)
    BY <2>2, <2>4, <2>5 DEF Account!Enter
  <2> QED
    BY <2>0, <2>3 DEF Account!Next
<1>15. CASE Exits(s, t) /\ Enters(s, t, bar)
  <2> DEFINE w == <<fold, t>>
  <2>0. w \in Folds \X Times /\ New = <<s, w>>
    BY <1>11
  <2> HIDE DEF w
  <2>1. Gone = {Old} /\ Come = {<<s, w>>}
    BY <1>15, <2>0
  <2>2. /\ <<s, w>> \notin EnteredTrades
        /\ \A v : <<s, v>> \notin HeldTrades \ {Old}
        /\ Cardinality(HeldTrades \ {Old}) < MaxPositionsGlobal
    BY <1>10, <1>15, <2>0, <2>1
  <2>3. Old \in HeldTrades
    BY <1>8, <1>15
  <2> HIDE DEF Gone, Come, New, Old
  <2>5. EnteredTrades' = EnteredTrades \cup {<<s, w>>} /\ EndedTrades' = EndedTrades \cup {Old}
    BY <1>4, <1>9, <2>1
  <2>6. /\ \A v : <<s, v>> \notin Account!Live \ {Old}
        /\ Account!Cardinality(Account!Live \ {Old}) < MaxPositionsGlobal
        /\ Old \in Account!Live
    BY <1>6, <2>2, <2>3, AccountCounts
  <2>4. Account!Replace(Old, s, w)
    BY <2>2, <2>5, <2>6 DEF Account!Replace
  <2> QED
    BY <1>6, <2>0, <2>3, <2>4 DEF Account!Next
<1> QED
  BY <1>12, <1>13, <1>14, <1>15

\* finalize is a step of the account.
LEMMA FinalizeInAccount ==
    ASSUME Types, AccountInv, Finalize
    PROVE  Account!Next
<1>1. PICK order \in Closings : trades' = trades \o FinalTrades(order)
  BY DEF Finalize
<1>2. fold \in Folds /\ fold' = fold /\ positions' = [s \in Symbols |-> None]
  BY DEF Finalize, Finished
<1> DEFINE ts == FinalTrades(order)
<1>3. ts \in Seq(Trade) /\ Len(ts) = Len(order)
  BY <1>2, FinalTradesAre
<1>4. EndedTrades' = EndedTrades \cup {Key(ts[i].symbol, ts[i].entryTs) : i \in 1..Len(ts)}
  BY <1>1, <1>2, <1>3, EndedTradesAfter
<1>5. {Key(ts[i].symbol, ts[i].entryTs) : i \in 1..Len(ts)} = HeldTrades
  <2>1. \A i \in 1..Len(ts) : ts[i].symbol = order[i] /\ ts[i].entryTs = positions[order[i]].ts
    BY <1>2, <1>3, FinalTradesAre
  <2>2. order \in [1..Len(ts) -> Held] /\ \A s \in Held : \E i \in 1..Len(ts) : order[i] = s
    BY <1>3, ClosingsAre
  <2> HIDE DEF ts
  <2>3. {Key(ts[i].symbol, ts[i].entryTs) : i \in 1..Len(ts)} =
           {Key(order[i], positions[order[i]].ts) : i \in 1..Len(ts)}
    BY <2>1
  <2>4. \A i \in 1..Len(ts) : order[i] \in Held
    BY <2>2
  <2> QED
    BY <2>2, <2>3, <2>4 DEF HeldTrades
<1>6. HeldTrades' = {}
  <2>1. Held' = {}
    BY <1>2 DEF Held
  <2> QED
    BY <2>1 DEF HeldTrades
<1>7. EnteredTrades = EndedTrades \cup HeldTrades /\ Account!Live = HeldTrades
  BY TradesKnown, LiveIsHeld
<1>8. EnteredTrades' = EndedTrades' \cup HeldTrades'
  BY DEF EnteredTrades, HeldTrades, Key
<1>9. Account!End(HeldTrades)
  BY <1>4, <1>5, <1>6, <1>7, <1>8 DEF Account!End
<1>10. HeldTrades \in SUBSET Account!Live
  BY <1>7
<1> QED
  BY <1>9, <1>10 DEF Account!Next

\* Every step is a step of the account, or none.
LEMMA StepInAccount ==
    ASSUME Types, AccountInv, [Next]_vars, fold' = fold
    PROVE  Account!Next \/ UNCHANGED <<EnteredTrades, EndedTrades>>
<1>1. ASSUME trades' = trades, positions' = positions
      PROVE  UNCHANGED <<EnteredTrades, EndedTrades>>
  BY <1>1 DEF EnteredTrades, EndedTrades, Held
<1>2. CASE UNCHANGED vars
  BY <1>1, <1>2 DEF vars, simVars
<1>3. CASE OnOhlcv
  BY <1>3, SampleInAccount
<1>4. CASE OnTicker
  BY <1>1, <1>4 DEF OnTicker
<1>5. CASE NoRowHere
  BY <1>1, <1>5 DEF NoRowHere, simVars
<1>6. CASE Finalize
  BY <1>6, FinalizeInAccount
<1>7. CASE EndFold
  <2>1. fold' = fold + 1 /\ fold \in Nat
    BY <1>7 DEF EndFold, StartFold, Types, RunTypes
  <2>2. fold + 1 # fold
    BY <2>1
  <2> QED
    BY <2>1, <2>2
<1> QED
  BY <1>2, <1>3, <1>4, <1>5, <1>6, <1>7 DEF Next

\* The invariant holds in every state.
LEMMA AccountInvHolds == Spec => []AccountInv
<1>1. Init => AccountInv
  <2>1. Init => Len(trades) = 0
    BY DEF Init
  <2> QED
    BY <2>1 DEF Init, NoneYet, AccountInv, EntriesPast, HeldIsOpen
<1>2. Types /\ AccountInv /\ [Next]_vars => AccountInv'
  BY NextAccountInv
<1> QED
  BY <1>1, <1>2, TypesHold, PTL DEF Spec

\* on_entry, on_ohlcv, finalize: within a fold the simulator keeps the account
\* of the paper manager.  A trade is entered once, a symbol has one live trade,
\* the account at most its limit, and what is over stays over: every step is a
\* step of PaperAccount.
THEOREM SimulatorKeepsTheAccount == Spec => AccountSteps
<1> DEFINE A == fold' = fold => Account!Next
<1>1. Types /\ AccountInv /\ [Next]_vars => [A]_<<EnteredTrades, EndedTrades>>
  BY StepInAccount
<1>2. AccountSteps <=> [][A]_<<EnteredTrades, EndedTrades>>
  BY DEF AccountSteps
<1> HIDE DEF A
<1> QED
  BY <1>1, <1>2, TypesHold, AccountInvHolds, PTL DEF Spec

-----------------------------------------------------------------------------
(* Every entry signal is accounted for                                     *)

Refusals(d) == {i \in 1..Len(d) : d[i].reason # "cooldown_active"}

Counted ==
    Len(dropped) < DropCap =>
        entryCount = Cardinality(Held) + Len(trades) + Cardinality(Refusals(dropped))

\* The refusals in a list of drops can be counted.
LEMMA RefusalsFinite ==
    ASSUME NEW d, Len(d) \in Nat
    PROVE  IsFiniteSet(Refusals(d)) /\ Cardinality(Refusals(d)) \in Nat
<1>1. IsFiniteSet(1..Len(d))
  BY FS_Interval
<1>2. IsFiniteSet(Refusals(d))
  BY <1>1, FS_Subset DEF Refusals
<1> QED
  BY <1>2, FS_CardinalityType

\* What the drops of a sample add to the count.
LEMMA RefusalsAdded ==
    ASSUME NEW old, NEW new, NEW l \in Nat, NEW m \in Nat, NEW n \in Nat, Len(old) = l,
           Len(new) = l + m + n,
           \A i \in 1..l : new[i] = old[i],
           \A i \in 1..m : new[l + i].reason = "cooldown_active",
           \A i \in 1..n : new[l + m + i].reason # "cooldown_active"
    PROVE  Cardinality(Refusals(new)) = Cardinality(Refusals(old)) + n
<1> DEFINE b == l + m
           R == (b + 1)..(b + n)
<1>1. l \in Nat /\ b \in Nat /\ Len(new) = b + n
  OBVIOUS
<1>2. \A i \in 1..l : new[i] = old[i]
  OBVIOUS
<1>3. \A i \in 1..m : new[l + i].reason = "cooldown_active"
  OBVIOUS
<1>4. \A i \in 1..n : new[b + i].reason # "cooldown_active"
  OBVIOUS
<1>5. b = l + m
  OBVIOUS
<1>6. Refusals(new) = {i \in 1..(b + n) : new[i].reason # "cooldown_active"}
      /\ Refusals(old) = {i \in 1..l : old[i].reason # "cooldown_active"}
  BY <1>1 DEF Refusals
<1> HIDE DEF b
<1>7. ASSUME NEW i \in Int
      PROVE  i \in Refusals(new) <=> i \in Refusals(old) \/ i \in R
  <2>1. CASE i <= l
    BY <1>1, <1>2, <1>5, <1>6, <2>1
  <2>2. CASE l < i /\ i <= b
    <3>1. i - l \in 1..m /\ l + (i - l) = i
      BY <1>1, <1>5, <2>2
    <3>2. new[i].reason = "cooldown_active"
      BY <1>3, <3>1
    <3> QED
      BY <1>1, <1>6, <2>2, <3>2
  <2>3. CASE b < i
    <3>1. i \in R => i - b \in 1..n /\ b + (i - b) = i
      BY <1>1, <2>3
    <3>2. i \in R => new[i].reason # "cooldown_active"
      BY <1>4, <3>1
    <3> QED
      BY <1>1, <1>5, <1>6, <2>3, <3>2
  <2> QED
    BY <1>1, <2>1, <2>2, <2>3
<1>8. Refusals(new) = Refusals(old) \cup R
  <2>1. Refusals(new) \subseteq Int /\ Refusals(old) \subseteq Int /\ R \subseteq Int
    BY <1>1, <1>6
  <2> QED
    BY <1>7, <2>1
<1>9. IsFiniteSet(R) /\ Cardinality(R) = n
  <2>1. PICK lo \in Int, hi \in Int : lo = b + 1 /\ hi = b + n
    BY <1>1
  <2>2. IsFiniteSet(lo..hi) /\ Cardinality(lo..hi) = IF lo > hi THEN 0 ELSE hi - lo + 1
    BY FS_Interval
  <2>3. (IF lo > hi THEN 0 ELSE hi - lo + 1) = n
    BY <1>1, <2>1
  <2> QED
    BY <2>1, <2>2, <2>3
<1>10. IsFiniteSet(Refusals(old)) /\ Cardinality(Refusals(old)) \in Nat
  BY <1>1, RefusalsFinite
<1>11. Refusals(old) \cap R = {}
  BY <1>1, <1>5, <1>6
<1>12. Cardinality({}) = 0
  BY FS_EmptySet
<1> QED
  <2> HIDE DEF R
  <2> DEFINE S == Refusals(old)
  <2>0. IsFiniteSet(S) /\ S \cap R = {} /\ Cardinality(S) \in Nat
    BY <1>10, <1>11
  <2> HIDE DEF S
  <2>1. Cardinality(S \cup R) = Cardinality(S) + Cardinality(R) - Cardinality(S \cap R)
    BY <1>9, <2>0, FS_Union
  <2>2. Cardinality(S \cup R) = Cardinality(S) + n
    <3>1. Cardinality(S \cap R) = 0
      BY <1>12, <2>0
    <3>2. PICK x \in Int, y \in Int, z \in Int :
             x = Cardinality(S) /\ y = Cardinality(R) /\ z = Cardinality(S \cap R)
      BY <1>9, <2>0, <3>1
    <3>3. y = n /\ z = 0 /\ Cardinality(S \cup R) = x + y - z
      BY <1>9, <2>1, <3>1, <3>2
    <3>4. x + y - z = x + n
      BY <3>3
    <3> QED
      BY <3>2, <3>3, <3>4
  <2> QED
    BY <1>8, <2>2 DEF S

\* A sample counts what it issues: taken, refused, or recorded.
LEMMA OnOhlcvCounts ==
    ASSUME Types, Counted, OnOhlcv
    PROVE  Counted'
<1>1. PICK s \in Symbols, t \in Times, bar \in Bar : Sample(s, t, bar)
  BY OhlcvIs
<1>2. /\ t = at.t
      /\ positions' = PositionsAfter(s, t, bar)
      /\ trades' = trades \o Ended(s, t)
      /\ entryCount' = entryCount + Cardinality(Issued(s, t))
      /\ dropped' = WithDrops(Episode(s, t) \o Refused(s, t, bar), s, t)
  BY <1>1 DEF Sample, OnSample
<1>3. SUFFICES ASSUME Len(dropped') < DropCap
               PROVE  entryCount' = Cardinality(Held') + Len(trades') + Cardinality(Refusals(dropped'))
  BY DEF Counted, Refusals
<1> DEFINE m == Len(Episode(s, t))
           n == Len(Refused(s, t, bar))
           c == Cardinality(Issued(s, t))
           all == Episode(s, t) \o Refused(s, t, bar)
           new == WithDrops(all, s, t)
           in == IF Enters(s, t, bar) THEN 1 ELSE 0
           out == IF Exits(s, t) THEN 1 ELSE 0
<1>4. /\ Episode(s, t) \in Seq(Reasons) /\ Refused(s, t, bar) \in Seq(Reasons)
      /\ m \in Nat /\ n \in Nat /\ c \in Nat /\ c = n + in
  <2>1. Episode(s, t) \in Seq(Reasons) /\ Refused(s, t, bar) \in Seq(Reasons)
    BY EpisodeIs, RefusedAre
  <2>2. m \in Nat /\ n \in Nat /\ c \in Nat
    BY <2>1, LenProperties, IssuedAre
  <2>3. n = IF Enters(s, t, bar) THEN c - 1 ELSE c
    BY RefusedAre
  <2> HIDE DEF n, c, m
  <2> QED
    BY <2>1, <2>2, <2>3
<1>5. /\ all \in Seq(Reasons) /\ Len(all) = m + n
      /\ \A i \in 1..m : all[i] = "cooldown_active"
      /\ \A i \in 1..n : all[m + i] # "cooldown_active"
  <2>1. /\ all \in Seq(Reasons) /\ Len(all) = m + n
        /\ \A i \in 1..(m + n) : all[i] = IF i <= m THEN Episode(s, t)[i] ELSE Refused(s, t, bar)[i - m]
    BY <1>4, ConcatProperties
  <2>2. /\ \A i \in 1..m : Episode(s, t)[i] = "cooldown_active"
        /\ \A i \in 1..n : Refused(s, t, bar)[i] # "cooldown_active"
    BY EpisodeIs, RefusedAre
  <2> HIDE DEF all, m, n
  <2>3. \A i \in 1..m : all[i] = "cooldown_active"
    BY <1>4, <2>1, <2>2
  <2>4. ASSUME NEW i \in 1..n PROVE all[m + i] # "cooldown_active"
    <3>1. m + i \in 1..(m + n) /\ ~(m + i <= m) /\ (m + i) - m = i
      BY <1>4
    <3> QED
      BY <2>1, <2>2, <3>1
  <2> QED
    BY <2>1, <2>3, <2>4
<1>6. /\ Len(new) = Len(dropped) + Len(all)
      /\ \A i \in 1..Len(dropped) : new[i] = dropped[i]
      /\ \A i \in 1..Len(all) : new[Len(dropped) + i].reason = all[i]
  BY <1>2, <1>3, <1>5, WithDropsIs, ZenonT(60)
<1>7. dropped' = new /\ Len(dropped) \in Nat /\ DropCap \in Nat
  BY <1>2, ConstantsAssumption, LenProperties DEF Types, StratTypes
<1> HIDE DEF new, all, m, n, c
<1>8. Cardinality(Refusals(new)) = Cardinality(Refusals(dropped)) + n
  <2> DEFINE l == Len(dropped)
  <2>1. l \in Nat /\ Len(new) = l + m + n
    BY <1>4, <1>5, <1>6, <1>7
  <2>2. \A i \in 1..m : new[l + i].reason = "cooldown_active"
    <3>1. \A i \in 1..m : i \in 1..Len(all)
      BY <1>4, <1>5
    <3> QED
      BY <1>5, <1>6, <3>1
  <2>3. \A i \in 1..n : new[l + m + i].reason # "cooldown_active"
    <3>1. \A i \in 1..n : m + i \in 1..Len(all) /\ l + (m + i) = l + m + i
      BY <1>4, <1>5, <2>1
    <3> QED
      BY <1>5, <1>6, <3>1
  <2>4. \A i \in 1..l : new[i] = dropped[i]
    BY <1>6
  <2>5. Len(dropped) = l
    OBVIOUS
  <2> HIDE DEF l
  <2> QED
    BY <1>4, <2>1, <2>2, <2>3, <2>4, <2>5, RefusalsAdded, ZenonT(60)
<1>9. Len(dropped) < DropCap
  <2>1. Len(new) < DropCap /\ Len(new) = Len(dropped) + (m + n)
    BY <1>3, <1>5, <1>6, <1>7
  <2> QED
    BY <1>4, <1>7, <2>1
<1>10. Len(trades') = Len(trades) + out /\ Len(trades) \in Nat
  <2>1. trades \in Seq(Trade) /\ Len(trades) \in Nat
    BY LenProperties DEF Types, SimTypes
  <2>2. Ended(s, t) \in Seq(Trade) /\ Len(Ended(s, t)) = out
    BY <1>2, EndedIs
  <2> QED
    BY <1>2, <2>1, <2>2, ConcatProperties
<1>11. Cardinality(Held') = Cardinality(Held) - out + in /\ Cardinality(Held) \in Nat
  <2>0. IsFiniteSet(Held) /\ Cardinality(Held) \in Nat
    BY HeldCounted, FS_CardinalityType
  <2>1. \A u \in Symbols : u # s => positions'[u] = positions[u]
    BY <1>2, PositionsAfterAre
  <2>2. positions'[s] # None <=> (Enters(s, t, bar) \/ (positions[s] # None /\ ~Exits(s, t)))
    <3>1. CASE Enters(s, t, bar)
      BY <1>2, <3>1, NoneIs, PositionsAfterAre
    <3>2. CASE ~Enters(s, t, bar)
      BY <1>2, <3>2, PositionsAfterAre, CarriedIs
    <3> QED
      BY <3>1, <3>2
  <2>3. Exits(s, t) => s \in Held
    BY <1>2, EndedIs DEF Held
  <2>4. Enters(s, t, bar) => s \notin Held \/ Exits(s, t)
    BY PositionsAfterAre, CarriedIs DEF Held
  <2>5. CASE Enters(s, t, bar) /\ Exits(s, t)
    <3>1. Held' = Held
      BY <2>1, <2>2, <2>3, <2>5 DEF Held
    <3> QED
      BY <2>0, <2>5, <3>1
  <2>6. CASE Enters(s, t, bar) /\ ~Exits(s, t)
    <3>1. Held' = Held \cup {s} /\ s \notin Held
      BY <2>1, <2>2, <2>4, <2>6 DEF Held
    <3>2. Cardinality(Held \cup {s}) = Cardinality(Held) + 1
      BY <2>0, <3>1, FS_AddElement
    <3> QED
      BY <2>0, <2>6, <3>1, <3>2
  <2>7. CASE ~Enters(s, t, bar) /\ Exits(s, t)
    <3>1. Held' = Held \ {s} /\ s \in Held
      BY <2>1, <2>2, <2>3, <2>7 DEF Held
    <3>2. Cardinality(Held \ {s}) = Cardinality(Held) - 1
      BY <2>0, <3>1, FS_RemoveElement
    <3> QED
      BY <2>0, <2>7, <3>1, <3>2
  <2>8. CASE ~Enters(s, t, bar) /\ ~Exits(s, t)
    <3>1. Held' = Held
      BY <2>1, <2>2, <2>8 DEF Held
    <3> QED
      BY <2>0, <2>8, <3>1
  <2> QED
    BY <2>5, <2>6, <2>7, <2>8
<1>12. entryCount = Cardinality(Held) + Len(trades) + Cardinality(Refusals(dropped))
  BY <1>9 DEF Counted
<1>13. entryCount' = entryCount + c /\ Cardinality(Refusals(dropped')) = Cardinality(Refusals(new))
  BY <1>2, <1>7 DEF c
<1>14. Cardinality(Refusals(dropped)) \in Nat /\ in \in Nat /\ out \in Nat
  BY <1>7, RefusalsFinite
<1> HIDE DEF in, out
<1>15. PICK h \in Int, l \in Int, e \in Int : h = Cardinality(Held') /\ l = Len(trades') /\ e = entryCount'
  BY <1>4, <1>10, <1>11, <1>12, <1>13, <1>14
<1>16. PICK a \in Nat, b \in Nat, d \in Nat :
         a = Cardinality(Held) /\ b = Len(trades) /\ d = Cardinality(Refusals(dropped))
  BY <1>10, <1>11, <1>14
<1>17. e = a + b + d + c /\ h = a - out + in /\ l = b + out
  BY <1>10, <1>11, <1>12, <1>13, <1>15, <1>16
<1>18. e = h + l + (d + n)
  BY <1>4, <1>14, <1>17
<1>19. d + n = Cardinality(Refusals(dropped'))
  BY <1>8, <1>13, <1>16
<1> QED
  BY <1>15, <1>18, <1>19

\* Every step keeps the counts.
LEMMA NextCounts ==
    ASSUME Types, Counted, [Next]_vars
    PROVE  Counted'
<1>1. ASSUME dropped' = dropped, trades' = trades, positions' = positions, entryCount' = entryCount
      PROVE  Counted'
  BY <1>1 DEF Counted, Held, Refusals
<1>2. CASE UNCHANGED vars
  BY <1>1, <1>2 DEF vars, simVars, stratVars
<1>3. CASE OnOhlcv
  BY <1>3, OnOhlcvCounts
<1>4. CASE OnTicker
  BY <1>1, <1>4 DEF OnTicker, stratVars
<1>5. CASE NoRowHere
  BY <1>1, <1>5 DEF NoRowHere, simVars, stratVars
<1>6. CASE Finalize
  <2>1. PICK order \in Closings : trades' = trades \o FinalTrades(order)
    BY <1>6 DEF Finalize
  <2>2. /\ fold \in Folds /\ positions' = [s \in Symbols |-> None]
        /\ dropped' = dropped /\ entryCount' = entryCount
    BY <1>6 DEF Finalize, Finished, stratVars
  <2>3. /\ FinalTrades(order) \in Seq(Trade) /\ Len(FinalTrades(order)) = Cardinality(Held)
        /\ Cardinality(Held) \in Nat
    BY <2>2, FinalTradesAre, ClosingsAre
  <2>4. trades \in Seq(Trade) /\ Len(trades) \in Nat
    BY LenProperties DEF Types, SimTypes
  <2>5. Len(trades') = Len(trades) + Cardinality(Held)
    BY <2>1, <2>3, <2>4, ConcatProperties
  <2>6. Cardinality(Held') = 0
    <3>1. Held' = {}
      BY <2>2 DEF Held
    <3> QED
      BY <3>1, FS_EmptySet
  <2>7. Refusals(dropped') = Refusals(dropped) /\ Cardinality(Refusals(dropped)) \in Nat
    <3>1. Len(dropped) \in Nat
      BY LenProperties DEF Types, StratTypes
    <3> QED
      BY <2>2, <3>1, RefusalsFinite
  <2>8. PICK l \in Nat, h \in Nat : l = Len(trades') /\ h = Cardinality(Held')
    BY <2>3, <2>4, <2>5, <2>6
  <2>9. Len(dropped) < DropCap => entryCount = h + l + Cardinality(Refusals(dropped))
    BY <2>3, <2>4, <2>5, <2>6, <2>7, <2>8 DEF Counted
  <2> QED
    BY <2>2, <2>7, <2>8, <2>9 DEF Counted
<1>7. CASE EndFold
  <2>1. /\ positions' = [s \in Symbols |-> None] /\ trades' = <<>> /\ dropped' = <<>>
        /\ entryCount' = 0
    BY <1>7 DEF EndFold, StartFold, NoneYet
  <2>2. Held' = {} /\ Len(trades') = 0 /\ Refusals(dropped') = {}
    BY <2>1 DEF Held, Refusals
  <2> QED
    BY <2>1, <2>2, FS_EmptySet DEF Counted
<1> QED
  BY <1>2, <1>3, <1>4, <1>5, <1>6, <1>7 DEF Next

\* They agree at the start.
LEMMA InitCounts ==
    ASSUME Init
    PROVE  Counted
<1>1. /\ positions = [s \in Symbols |-> None] /\ trades = <<>> /\ dropped = <<>> /\ entryCount = 0
  BY DEF Init, NoneYet
<1>2. Held = {} /\ Len(trades) = 0 /\ Refusals(dropped) = {}
  BY <1>1 DEF Held, Refusals
<1> QED
  BY <1>1, <1>2, FS_EmptySet DEF Counted

\* They account for every signal.
LEMMA CountedSignals ==
    ASSUME Types, Counted
    PROVE  SignalsAccounted
<1>1. DOMAIN dropped = 1..Len(dropped)
  BY LenProperties DEF Types, StratTypes
<1> QED
  BY <1>1, TypesImplyTypeOK DEF Counted, Refusals, SignalsAccounted

\* _on_ohlcv: whatever the tape, every entry the strategies issued is an open
\* position, a trade or a recorded drop, exactly once, while the list of drops
\* has room; also across finalize, and in every fold.
THEOREM SignalsAreAccounted == Spec => []SignalsAccounted
<1>1. Types /\ Counted /\ [Next]_vars => Counted'
  BY NextCounts
<1>2. Types /\ Counted => SignalsAccounted
  BY CountedSignals
<1> QED
  BY InitCounts, <1>1, <1>2, TypesHold, PTL DEF Spec

-----------------------------------------------------------------------------
(* The folds: what they share and what they report missing                 *)

\* Entries lie in the window that is read; kept trades in their test window.
InWindow ==
    /\ \A i \in 1..Len(trades) : trades[i].entryTs <= TestEnd(fold)
    /\ \A s \in Symbols : positions[s] # None => positions[s].ts <= TestEnd(fold)
KeptInWindow ==
    \A c \in combined :
        /\ TestStart(c.fold) <= c.trade.entryTs
        /\ c.trade.entryTs <= TestEnd(c.fold)

\* A sample enters inside the window that is read.
LEMMA OnOhlcvInWindow ==
    ASSUME Types, InWindow, OnOhlcv
    PROVE  InWindow'
<1>1. PICK s \in Symbols, t \in Times, bar \in Bar : Sample(s, t, bar)
  BY OhlcvIs
<1>2. /\ t = at.t /\ Reading
      /\ positions' = PositionsAfter(s, t, bar)
      /\ trades' = trades \o Ended(s, t)
      /\ fold' = fold
  BY <1>1 DEF Sample, OnSample
<1>3. t <= TestEnd(fold)
  BY <1>2 DEF Reading
<1>4. ASSUME NEW i \in 1..Len(trades') PROVE trades'[i].entryTs <= TestEnd(fold)
  <2> DEFINE ts == Ended(s, t)
             l == Len(trades)
  <2>1. /\ ts \in Seq(Trade) /\ Len(ts) \in Nat
        /\ trades \in Seq(Trade) /\ l \in Nat
    BY <1>2, EndedIs, LenProperties DEF Types, SimTypes
  <2>2. \A j \in 1..l : trades[j].entryTs <= TestEnd(fold)
    BY DEF InWindow
  <2>3. \A j \in 1..Len(ts) : ts[j].entryTs <= TestEnd(fold)
    <3>1. CASE Exits(s, t)
      <4>1. /\ Len(ts) = 1 /\ ts[1].entryTs = positions[s].ts /\ positions[s] # None
        BY <1>2, <3>1, EndedIs
      <4>2. positions[s].ts <= TestEnd(fold)
        BY <4>1 DEF InWindow
      <4> HIDE DEF ts
      <4> QED
        BY <4>1, <4>2
    <3>2. CASE ~Exits(s, t)
      <4>1. Len(ts) = 0
        BY <1>2, <3>2, EndedIs
      <4> QED
        BY <4>1
    <3> QED
      BY <3>1, <3>2
  <2> HIDE DEF ts
  <2>4. /\ Len(trades') = l + Len(ts)
        /\ \A k \in 1..(l + Len(ts)) : trades'[k] = IF k <= l THEN trades[k] ELSE ts[k - l]
    BY <1>2, <2>1, ConcatProperties DEF ts
  <2> HIDE DEF l
  <2>5. CASE i <= l
    <3>1. i \in 1..l /\ trades'[i] = trades[i]
      BY <2>1, <2>4, <2>5
    <3> QED
      BY <2>2, <3>1
  <2>6. CASE ~(i <= l)
    <3>1. i - l \in 1..Len(ts) /\ trades'[i] = ts[i - l]
      BY <2>1, <2>4, <2>6
    <3> QED
      BY <2>3, <3>1
  <2> QED
    BY <2>5, <2>6
<1>5. ASSUME NEW u \in Symbols, positions'[u] # None PROVE positions'[u].ts <= TestEnd(fold)
  <2>1. CASE u # s
    BY <1>2, <1>5, <2>1, PositionsAfterAre DEF InWindow
  <2>2. CASE u = s /\ Enters(s, t, bar)
    BY <1>2, <1>3, <2>2, PositionsAfterAre
  <2>3. CASE u = s /\ ~Enters(s, t, bar)
    <3>1. positions'[s] = Carried(s, t)
      BY <1>2, <2>3, PositionsAfterAre
    <3> QED
      BY <1>5, <2>3, <3>1, CarriedIs DEF InWindow
  <2> QED
    BY <2>1, <2>2, <2>3
<1> QED
  BY <1>2, <1>4, <1>5 DEF InWindow, TestEnd, TestStart

\* finalize books entries of that window.
LEMMA FinalizeInWindow ==
    ASSUME Types, InWindow, Finalize
    PROVE  InWindow'
<1>1. PICK order \in Closings : trades' = trades \o FinalTrades(order)
  BY DEF Finalize
<1>2. fold \in Folds /\ fold' = fold /\ positions' = [s \in Symbols |-> None]
  BY DEF Finalize, Finished
<1> DEFINE ts == FinalTrades(order)
           l == Len(trades)
<1>3. /\ ts \in Seq(Trade) /\ Len(ts) = Len(order) /\ Len(ts) \in Nat
      /\ trades \in Seq(Trade) /\ l \in Nat
  BY <1>2, FinalTradesAre, LenProperties DEF Types, SimTypes
<1>4. ASSUME NEW i \in 1..Len(ts) PROVE ts[i].entryTs <= TestEnd(fold)
  <2>1. i \in 1..Len(order) /\ order[i] \in Held
    BY <1>3, ClosingsAre
  <2>2. ts[i].entryTs = positions[order[i]].ts
    BY <1>2, <2>1, FinalTradesAre
  <2> QED
    BY <2>1, <2>2 DEF InWindow, Held
<1> HIDE DEF ts
<1>5. /\ Len(trades') = l + Len(ts)
      /\ \A k \in 1..(l + Len(ts)) : trades'[k] = IF k <= l THEN trades[k] ELSE ts[k - l]
  BY <1>1, <1>3, ConcatProperties, ZenonT(60) DEF ts
<1>6. \A j \in 1..l : trades[j].entryTs <= TestEnd(fold)
  BY DEF InWindow
<1> HIDE DEF l
<1>7. ASSUME NEW i \in 1..Len(trades') PROVE trades'[i].entryTs <= TestEnd(fold)
  <2>1. CASE i <= l
    <3>1. i \in 1..l /\ trades'[i] = trades[i]
      BY <1>3, <1>5, <2>1
    <3> QED
      BY <1>6, <3>1
  <2>2. CASE ~(i <= l)
    <3>1. i - l \in 1..Len(ts) /\ trades'[i] = ts[i - l]
      BY <1>3, <1>5, <2>2
    <3> QED
      BY <1>4, <3>1
  <2> QED
    BY <2>1, <2>2
<1> QED
  BY <1>2, <1>7 DEF InWindow, TestEnd, TestStart

\* Every step keeps the trades in their windows.
LEMMA NextInWindow ==
    ASSUME Types, InWindow, KeptInWindow, [Next]_vars
    PROVE  InWindow' /\ KeptInWindow'
<1>1. ASSUME combined' = combined PROVE KeptInWindow'
  BY <1>1 DEF KeptInWindow, TestEnd, TestStart
<1>2. ASSUME fold' = fold, trades' = trades, positions' = positions PROVE InWindow'
  BY <1>2 DEF InWindow, TestEnd, TestStart
<1>3. CASE UNCHANGED vars
  BY <1>1, <1>2, <1>3 DEF vars, simVars
<1>4. CASE OnOhlcv
  BY <1>1, <1>4, OnOhlcvInWindow DEF OnOhlcv
<1>5. CASE OnTicker
  BY <1>1, <1>2, <1>5 DEF OnTicker
<1>6. CASE NoRowHere
  BY <1>1, <1>2, <1>6 DEF NoRowHere, simVars
<1>7. CASE Finalize
  BY <1>1, <1>7, FinalizeInWindow DEF Finalize
<1>8. CASE EndFold
  <2>1. /\ positions' = [s \in Symbols |-> None] /\ trades' = <<>>
        /\ combined' = combined \cup
             {[fold |-> fold, nth |-> i, trade |-> trades[i]] :
                 i \in {j \in DOMAIN trades : InTestWindow(fold, trades[j].entryTs)}}
    BY <1>8 DEF EndFold, StartFold, NoneYet
  <2>2. InWindow'
    <3>1. Len(trades') = 0
      BY <2>1
    <3> QED
      BY <2>1, <3>1 DEF InWindow
  <2>3. ASSUME NEW c \in combined', c \notin combined
        PROVE  TestStart(c.fold) <= c.trade.entryTs /\ c.trade.entryTs <= TestEnd(c.fold)
    <3>1. PICK i \in DOMAIN trades : /\ InTestWindow(fold, trades[i].entryTs)
                                     /\ c = [fold |-> fold, nth |-> i, trade |-> trades[i]]
      BY <2>1, <2>3
    <3>2. i \in 1..Len(trades)
      BY LenProperties DEF Types, SimTypes
    <3>3. c.fold = fold /\ c.trade.entryTs = trades[i].entryTs
      BY <3>1
    <3>4. trades[i].entryTs \in Nat /\ TestStart(fold) \in Nat /\ trades[i].entryTs <= TestEnd(fold)
          /\ trades[i].entryTs >= TestStart(fold)
      BY <3>1, <3>2, TradesAre, WindowIs DEF InWindow, InTestWindow, Types, RunTypes
    <3> QED
      BY <3>3, <3>4
  <2> QED
    BY <2>2, <2>3 DEF KeptInWindow, TestEnd, TestStart
<1> QED
  BY <1>3, <1>4, <1>5, <1>6, <1>7, <1>8 DEF Next

\* When every test window ends where the next one starts, two of them share an
\* instant and no more.
LEMMA WindowsApart ==
    ASSUME NEW j \in Nat, NEW k \in Nat, j < k, StepLen = TestLen, NEW e \in Nat,
           e <= TestEnd(j), TestStart(k) <= e
    PROVE  e = TestEnd(j) /\ k = j + 1
<1>1. /\ StepLen \in Nat \ {0} /\ TrainLen \in Nat
      /\ TestEnd(j) = j * StepLen + TrainLen + StepLen /\ TestStart(k) = k * StepLen + TrainLen
  BY ConstantsAssumption DEF TestEnd, TestStart
<1>2. PICK d \in Nat : k = j + 1 + d
  <2>1. k - j - 1 \in Nat /\ k = j + 1 + (k - j - 1)
    OBVIOUS
  <2> QED
    BY <2>1
<1>3. k * StepLen = j * StepLen + StepLen + d * StepLen
  BY <1>1, <1>2
<1> DEFINE x == j * StepLen
           y == d * StepLen
<1>4. x \in Nat /\ y \in Nat /\ (d # 0 => y > 0)
  BY <1>1
<1>5. e <= x + TrainLen + StepLen /\ x + StepLen + y + TrainLen <= e /\ TestEnd(j) = x + TrainLen + StepLen
  BY <1>1, <1>3
<1> HIDE DEF x, y
<1>6. y = 0 /\ e = x + TrainLen + StepLen
  BY <1>1, <1>4, <1>5
<1>7. d = 0
  BY <1>4, <1>6
<1> QED
  BY <1>2, <1>5, <1>6, <1>7

\* Folds share trades at their common boundary only.
LEMMA KeptShareBoundary ==
    ASSUME Types, KeptInWindow
    PROVE  SharedOnlyAtBoundary
<1> SUFFICES ASSUME NEW a \in combined, NEW b \in combined, StepLen = TestLen, a.fold < b.fold,
                    a.trade.entryTs = b.trade.entryTs
             PROVE  a.trade.entryTs = TestEnd(a.fold) /\ b.fold = a.fold + 1
  BY DEF SharedOnlyAtBoundary
<1>1. a \in FoldTrade /\ b \in FoldTrade
  BY DEF Types, RunTypes
<1>2. a.fold \in Nat /\ b.fold \in Nat /\ a.trade.entryTs \in Nat
  BY <1>1 DEF FoldTrade, Trade, Times
<1>3. a.trade.entryTs <= TestEnd(a.fold) /\ TestStart(b.fold) <= a.trade.entryTs
  BY DEF KeptInWindow
<1> QED
  BY <1>2, <1>3, WindowsApart

\* The gaps of a set of seconds are the seconds missing between its ends.
LEMMA GapsAreMissing ==
    ASSUME NEW secs \in SUBSET Int, IsFiniteSet(secs),
           NEW gaps, gaps = {g \in secs \X secs :
                               g[1] + 1 < g[2] /\ \A t \in secs : t <= g[1] \/ t >= g[2]}
    PROVE  /\ secs # {} => UNION {g[1] + 1..g[2] - 1 : g \in gaps} = (Min(secs)..Max(secs)) \ secs
           /\ \A g, h \in gaps : g = h \/ g[2] <= h[1] \/ h[2] <= g[1]
<1>0. \A y \in secs : y \in Int
  OBVIOUS
<1>1. ASSUME secs # {}
      PROVE  UNION {g[1] + 1..g[2] - 1 : g \in gaps} = (Min(secs)..Max(secs)) \ secs
  <2>1. PICK lo \in Int, hi \in Int :
           /\ lo = Min(secs) /\ lo \in secs /\ \A y \in secs : lo <= y
           /\ hi = Max(secs) /\ hi \in secs /\ \A y \in secs : y <= hi
    BY <1>0, <1>1, MinIs, MaxIs
  <2> DEFINE M == UNION {g[1] + 1..g[2] - 1 : g \in gaps}
  <2>2. ASSUME NEW x \in M PROVE x \in (lo..hi) \ secs
    <3>1. PICK g \in gaps : x \in g[1] + 1..g[2] - 1
      BY <2>2
    <3>2. g[1] \in secs /\ g[2] \in secs /\ \A t \in secs : t <= g[1] \/ t >= g[2]
      BY <3>1
    <3>3. PICK a \in Int, b \in Int : a = g[1] /\ b = g[2]
      BY <1>0, <3>2
    <3>4. x \in Int /\ a < x /\ x < b
      BY <3>1, <3>3
    <3>5. lo <= a /\ b <= hi
      BY <2>1, <3>2, <3>3
    <3>6. x \notin secs
      <4>1. ASSUME x \in secs PROVE FALSE
        <5>1. x <= a \/ x >= b
          BY <3>2, <3>3, <4>1
        <5> QED
          BY <3>4, <5>1
      <4> QED
        BY <4>1
    <3> QED
      BY <3>4, <3>5, <3>6
  <2>3. ASSUME NEW x \in (lo..hi) \ secs PROVE x \in M
    <3> DEFINE L == {t \in secs : t < x}
               U == {t \in secs : x < t}
    <3>1. x \in Int /\ x \notin secs /\ lo <= x /\ x <= hi
      BY <2>1
    <3>2. L \in SUBSET Int /\ IsFiniteSet(L) /\ L # {} /\ U \in SUBSET Int /\ IsFiniteSet(U) /\ U # {}
      <4>1. lo # x /\ hi # x
        BY <2>1, <3>1
      <4>2. lo \in L /\ hi \in U
        BY <2>1, <3>1, <4>1
      <4>3. L \subseteq secs /\ U \subseteq secs
        OBVIOUS
      <4> QED
        BY <4>2, <4>3, FS_Subset
    <3> HIDE DEF L, U
    <3>3. PICK a \in L : \A y \in L : y <= a
      BY <3>2, HasGreatest
    <3>4. PICK b \in U : \A y \in U : b <= y
      BY <3>2, HasLeast
    <3>5. a \in secs /\ b \in secs /\ a \in Int /\ b \in Int /\ a < x /\ x < b
      BY <3>3, <3>4 DEF L, U
    <3>6. ASSUME NEW t \in secs PROVE t <= a \/ t >= b
      <4>1. t \in L \/ t \in U
        BY <1>0, <3>1 DEF L, U
      <4> QED
        BY <3>3, <3>4, <3>5, <4>1
    <3>7. <<a, b>> \in gaps
      BY <3>1, <3>5, <3>6
    <3>8. x \in <<a, b>>[1] + 1..<<a, b>>[2] - 1
      BY <3>1, <3>5
    <3> QED
      BY <3>7, <3>8
  <2>4. M = (lo..hi) \ secs
    BY <2>2, <2>3
  <2> QED
    BY <2>1, <2>4
<1>2. ASSUME NEW g \in gaps, NEW h \in gaps, ~(g[2] <= h[1]), ~(h[2] <= g[1])
      PROVE  g = h
  <2>1. /\ g[1] \in secs /\ g[2] \in secs /\ h[1] \in secs /\ h[2] \in secs
        /\ g = <<g[1], g[2]>> /\ h = <<h[1], h[2]>>
    OBVIOUS
  <2>2. /\ \A t \in secs : t <= g[1] \/ t >= g[2]
        /\ \A t \in secs : t <= h[1] \/ t >= h[2]
    OBVIOUS
  <2>3. PICK a \in Int, b \in Int, c \in Int, d \in Int :
           a = g[1] /\ b = g[2] /\ c = h[1] /\ d = h[2]
    BY <1>0, <2>1
  <2>4. (c <= a \/ c >= b) /\ (d <= a \/ d >= b) /\ (a <= c \/ a >= d) /\ (b <= c \/ b >= d)
    BY <2>1, <2>2, <2>3
  <2>5. ~(b <= c) /\ ~(d <= a)
    BY <1>2, <2>3
  <2>6. a = c /\ b = d
    BY <2>4, <2>5
  <2> QED
    BY <2>1, <2>3, <2>6
<1> QED
  BY <1>1, <1>2

\* Samples and gaps add up to the seconds between the first and the last.
LEMMA QualityAccounts ==
    ASSUME NEW secs \in SUBSET Int, IsFiniteSet(secs),
           NEW q, q = Quality(secs)
    PROVE  /\ q.samples + Cardinality(UNION {g[1] + 1..g[2] - 1 : g \in q.gaps}) = q.expected
           /\ \A g, h \in q.gaps : g = h \/ g[2] <= h[1] \/ h[2] <= g[1]
<1> DEFINE gaps == {g \in secs \X secs :
                      g[1] + 1 < g[2] /\ \A t \in secs : t <= g[1] \/ t >= g[2]}
           M == UNION {g[1] + 1..g[2] - 1 : g \in gaps}
<1>1. CASE secs = {}
  <2>1. q.samples = 0 /\ q.expected = 0 /\ q.gaps = {}
    BY <1>1 DEF Quality
  <2>2. UNION {g[1] + 1..g[2] - 1 : g \in q.gaps} = {}
    BY <2>1
  <2> QED
    BY <2>1, <2>2, FS_EmptySet
<1>2. CASE secs # {}
  <2>1. q.samples = Cardinality(secs) /\ q.expected = Max(secs) - Min(secs) + 1 /\ q.gaps = gaps
    BY <1>2 DEF Quality
  <2>2. /\ M = (Min(secs)..Max(secs)) \ secs
        /\ \A g, h \in gaps : g = h \/ g[2] <= h[1] \/ h[2] <= g[1]
    BY <1>2, GapsAreMissing
  <2>0. \A y \in secs : y \in Int
    OBVIOUS
  <2>3. PICK lo \in Int, hi \in Int :
           /\ lo = Min(secs) /\ lo \in secs /\ \A y \in secs : lo <= y
           /\ hi = Max(secs) /\ hi \in secs /\ \A y \in secs : y <= hi
    BY <1>2, <2>0, MinIs, MaxIs
  <2> DEFINE D == lo..hi
             span == hi - lo + 1
  <2>4. lo <= hi /\ span \in Nat
    BY <2>3
  <2>5. IsFiniteSet(D) /\ Cardinality(D) = span
    <3>1. IsFiniteSet(lo..hi) /\ Cardinality(lo..hi) = IF lo > hi THEN 0 ELSE hi - lo + 1
      BY FS_Interval
    <3> QED
      BY <2>4, <3>1
  <2>6. D \cap secs = secs
    <3>1. \A y \in secs : y \in D
      BY <2>0, <2>3
    <3> QED
      BY <3>1
  <2> HIDE DEF D, span, M, gaps
  <2>7. Cardinality(D \ secs) = Cardinality(D) - Cardinality(D \cap secs)
    BY <2>5, FS_Difference
  <2>8. Cardinality(secs) \in Nat
    BY FS_CardinalityType
  <2>9. M = D \ secs
    BY <2>2, <2>3 DEF D
  <2>10. PICK a \in Nat, n \in Nat : a = Cardinality(secs) /\ n = span
    BY <2>4, <2>8
  <2>11. Cardinality(M) = n - a
    BY <2>5, <2>6, <2>7, <2>9, <2>10
  <2>12. a + (n - a) = n
    BY <2>10
  <2>13. q.samples + Cardinality(M) = q.expected
    BY <2>1, <2>3, <2>10, <2>11, <2>12 DEF span
  <2> QED
    BY <2>1, <2>2, <2>13 DEF M
<1> QED
  BY <1>1, <1>2

\* Every fold that has ended is accounted for.
LEMMA KeptAreAccounted ==
    ASSUME Types, KeptInWindow
    PROVE  FoldsAccounted
<1>1. ASSUME NEW k \in 0..fold - 1, NEW s \in Symbols
      PROVE  TestSecs(k, s) \in SUBSET Int /\ IsFiniteSet(TestSecs(k, s))
  <2>1. k \in Nat
    BY DEF Types, RunTypes
  <2>2. TestStart(k) \in Int /\ TestEnd(k) \in Int
    BY <2>1, WindowIs
  <2>3. IsFiniteSet(TestStart(k)..TestEnd(k)) /\ TestSecs(k, s) \subseteq TestStart(k)..TestEnd(k)
    BY <2>2, FS_Interval DEF TestSecs
  <2> QED
    BY <2>2, <2>3, FS_Subset
<1> QED
  BY <1>1, KeptShareBoundary, QualityAccounts DEF FoldsAccounted

\* _run_fold, _generate_folds, _collect_data_quality: two folds report the same
\* entry only at the instant their test windows share, and the gaps reported for
\* a window are disjoint and hold exactly the seconds it lacks.
THEOREM FoldsAreAccounted == Spec => []FoldsAccounted
<1>1. Init => InWindow /\ KeptInWindow
  <2>1. Init => Len(trades) = 0
    BY DEF Init
  <2> QED
    BY <2>1 DEF Init, NoneYet, InWindow, KeptInWindow
<1>2. Types /\ InWindow /\ KeptInWindow /\ [Next]_vars => InWindow' /\ KeptInWindow'
  BY NextInWindow
<1>3. Types /\ KeptInWindow => FoldsAccounted
  BY KeptAreAccounted
<1> QED
  BY <1>1, <1>2, <1>3, TypesHold, PTL DEF Spec

-----------------------------------------------------------------------------
(* The reports                                                             *)

\* Without trades the balance is the start.
LEMMA EmptyBalance ==
    ASSUME NEW start \in Int
    PROVE  Balance(start, <<>>) = start
<1>1. PICK none : none = <<>>
  OBVIOUS
<1>2. none \in Seq(Trade) /\ Len(none) = 0
  BY <1>1
<1>3. Balance(start, none) = Balances(start, none)[Len(none)] /\ Balances(start, none)[0] = start
  BY <1>2, BalancesAre
<1> QED
  BY <1>1, <1>2, <1>3

\* The balance after two lists of trades is that after the second, begun where
\* the first ends.
LEMMA BalancesJoin ==
    ASSUME NEW start \in Int, NEW a \in Seq(Trade), NEW b \in Seq(Trade)
    PROVE  /\ \A i \in 0..Len(a) : Balances(start, a \o b)[i] = Balances(start, a)[i]
           /\ Balance(start, a \o b) = Balance(Balance(start, a), b)
<1> DEFINE l == Len(a)
           m == Len(b)
           all == a \o b
           B == Balances(start, all)
           A == Balances(start, a)
           C == Balances(A[l], b)
<1>1. l \in Nat /\ m \in Nat
  BY LenProperties
<1>2. /\ all \in Seq(Trade) /\ Len(all) = l + m
      /\ \A i \in 1..(l + m) : all[i] = IF i <= l THEN a[i] ELSE b[i - l]
  BY ConcatProperties
<1>3. /\ A[0] = start /\ A \in [0..l -> Int]
      /\ \A i \in 1..l : A[i] = A[i - 1] + a[i].net
      /\ Balance(start, a) = A[l] /\ A[l] \in Int
  BY BalancesAre
<1>4. /\ B[0] = start /\ \A i \in 1..(l + m) : B[i] = B[i - 1] + all[i].net
      /\ Balance(start, all) = B[l + m]
  <2>1. all \in Seq(Trade)
    BY <1>2
  <2> HIDE DEF all
  <2>2. /\ B[0] = start /\ \A i \in 1..Len(all) : B[i] = B[i - 1] + all[i].net
        /\ Balance(start, all) = B[Len(all)]
    BY <2>1, BalancesAre
  <2> QED
    BY <1>2, <2>2 DEF all
<1> HIDE DEF A, l
<1>5. /\ C[0] = A[l] /\ \A i \in 1..m : C[i] = C[i - 1] + b[i].net
      /\ Balance(A[l], b) = C[m]
  BY <1>3, BalancesAre
<1> HIDE DEF B, C, m, all
<1> DEFINE P == {i \in 0..l : B[i] = A[i]}
           Q == {i \in 0..m : B[l + i] = C[i]}
<1>6. \A i \in 0..l : i \in P
  <2>1. 0 \in P
    BY <1>1, <1>3, <1>4
  <2>2. ASSUME NEW i \in 1..l, i - 1 \in P PROVE i \in P
    <3>1. i \in 1..(l + m) /\ i <= l /\ i \in 0..l
      BY <1>1
    <3>2. all[i] = a[i] /\ B[i - 1] = A[i - 1]
      BY <1>2, <2>2, <3>1
    <3>3. B[i] = B[i - 1] + all[i].net /\ A[i] = A[i - 1] + a[i].net
      BY <1>3, <1>4, <3>1
    <3> QED
      BY <3>1, <3>2, <3>3
  <2> HIDE DEF P
  <2> QED
    BY <1>1, <2>1, <2>2, UpTo
<1>7. \A i \in 0..m : i \in Q
  <2>1. 0 \in Q
    <3>1. l \in 0..l /\ l + 0 = l /\ 0 \in 0..m
      BY <1>1
    <3> QED
      BY <1>5, <1>6, <3>1
  <2>2. ASSUME NEW i \in 1..m, i - 1 \in Q PROVE i \in Q
    <3>1. /\ l + i \in 1..(l + m) /\ ~(l + i <= l) /\ (l + i) - l = i
          /\ (l + i) - 1 = l + (i - 1) /\ i \in 0..m
      BY <1>1
    <3>2. all[l + i] = b[i] /\ B[l + (i - 1)] = C[i - 1]
      BY <1>2, <2>2, <3>1
    <3>3. B[l + i] = B[l + (i - 1)] + all[l + i].net /\ C[i] = C[i - 1] + b[i].net
      BY <1>4, <1>5, <3>1
    <3> QED
      BY <3>1, <3>2, <3>3
  <2> HIDE DEF Q
  <2> QED
    BY <1>1, <2>1, <2>2, UpTo
<1>8. B[l + m] = C[m]
  <2>1. m \in 0..m
    BY <1>1
  <2> QED
    BY <1>7, <2>1
<1> QED
  BY <1>3, <1>4, <1>5, <1>6, <1>8 DEF B, A, all, l

\* An account that holds nothing is worth what is realized.
LEMMA EquityOfNothing ==
    ASSUME NEW real \in Int, NEW held, NEW price, \A s \in Symbols : held[s] = None
    PROVE  Equity(real, held, price) = real
<1> DEFINE U(i) == Unrealized(held[SymbolOrder[i]], price[SymbolOrder[i]])
           eq == CHOOSE f : f = [i \in 0..N |-> IF i = 0 THEN real ELSE f[i - 1] + U(i)]
           g == [i \in 0..N |-> real]
<1>1. N \in Nat /\ \A i \in 1..N : SymbolOrder[i] \in Symbols
  BY SymbolsFinite, ConstantsAssumption, ElementOfSeq DEF N
<1>2. \A i \in 1..N : U(i) = 0
  BY <1>1 DEF Unrealized
<1>3. Equity(real, held, price) = eq[N]
  BY DEF Equity
<1> HIDE DEF U
<1>4. g = [i \in 0..N |-> IF i = 0 THEN real ELSE g[i - 1] + U(i)]
  BY <1>1, <1>2
<1>5. eq = [i \in 0..N |-> IF i = 0 THEN real ELSE eq[i - 1] + U(i)]
  BY <1>4
<1> HIDE DEF eq, g
<1> DEFINE P == {i \in 0..N : eq[i] = real}
<1>6. \A i \in 0..N : i \in P
  <2>1. 0 \in P
    BY <1>1, <1>5
  <2>2. \A i \in 1..N : i - 1 \in P => i \in P
    BY <1>1, <1>2, <1>5
  <2> HIDE DEF P
  <2> QED
    BY <1>1, <2>1, <2>2, UpTo
<1> QED
  BY <1>1, <1>3, <1>6

\* The realized equity is the sum of the trades; a finished fold holds nothing.
Booked ==
    /\ realized = Balance(InitialEquity, trades)
    /\ finalized => at.t > TestEnd(fold) /\ Held = {}

\* Every step keeps the equity and the trades in agreement.
LEMMA NextBooked ==
    ASSUME Types, Booked, [Next]_vars
    PROVE  Booked'
<1>0. /\ InitialEquity \in Int /\ trades \in Seq(Trade) /\ realized \in Int
      /\ finalized \in BOOLEAN
  BY ConstantsAssumption DEF Types, SimTypes, FlagTypes
<1>1. ASSUME NEW ts \in Seq(Trade), trades' = trades \o ts, realized' = Balance(realized, ts)
      PROVE  realized' = Balance(InitialEquity, trades')
  BY <1>0, <1>1, BalancesJoin DEF Booked
<1>2. ASSUME trades' = trades, realized' = realized
      PROVE  realized' = Balance(InitialEquity, trades')
  BY <1>2 DEF Booked
<1>3. ASSUME Reading PROVE ~finalized
  BY <1>3, ReadingIs, WindowIs DEF Booked, Types, RunTypes
<1>4. CASE UNCHANGED vars
  BY <1>2, <1>4 DEF vars, simVars, Booked, Held, TestEnd, TestStart
<1>5. CASE OnOhlcv
  <2>1. PICK s \in Symbols, t \in Times, bar \in Bar : Sample(s, t, bar)
    BY <1>5, OhlcvIs
  <2>2. /\ Reading /\ t = at.t /\ finalized' = finalized
        /\ trades' = trades \o Ended(s, t) /\ realized' = Balance(realized, Ended(s, t))
    BY <2>1 DEF Sample, OnSample, RealizedAfter
  <2>3. realized' = Balance(InitialEquity, trades')
    BY <1>1, <2>2, EndedIs
  <2> QED
    BY <1>3, <2>2, <2>3 DEF Booked
<1>6. CASE OnTicker
  BY <1>2, <1>3, <1>6 DEF OnTicker, Booked
<1>7. CASE NoRowHere
  BY <1>2, <1>3, <1>7 DEF NoRowHere, simVars, Booked
<1>8. CASE Finalize
  <2>1. PICK order \in Closings : /\ trades' = trades \o FinalTrades(order)
                                  /\ realized' = Balance(realized, FinalTrades(order))
    BY <1>8 DEF Finalize
  <2>2. /\ fold \in Folds /\ fold' = fold /\ at' = at /\ at.t > TestEnd(fold)
        /\ positions' = [s \in Symbols |-> None]
    BY <1>8 DEF Finalize, Finished
  <2>3. realized' = Balance(InitialEquity, trades')
    BY <1>1, <2>1, <2>2, FinalTradesAre
  <2>4. Held' = {}
    BY <2>2 DEF Held
  <2> QED
    BY <2>2, <2>3, <2>4 DEF Booked, TestEnd, TestStart
<1>9. CASE EndFold
  <2>1. finalized' = FALSE /\ realized' = InitialEquity /\ trades' = <<>>
    BY <1>9 DEF EndFold, StartFold
  <2>2. realized' = Balance(InitialEquity, trades')
    BY <1>0, <2>1, EmptyBalance
  <2> QED
    BY <2>1, <2>2 DEF Booked
<1> QED
  BY <1>4, <1>5, <1>6, <1>7, <1>8, <1>9 DEF Next

\* They agree at the start.
LEMMA InitBooked ==
    ASSUME Init
    PROVE  Booked
<1>1. finalized = FALSE /\ realized = InitialEquity /\ trades = <<>> /\ InitialEquity \in Int
  BY ConstantsAssumption DEF Init
<1>2. Balance(InitialEquity, <<>>) = InitialEquity
  BY <1>1, EmptyBalance
<1> QED
  BY <1>1, <1>2 DEF Booked

\* The point of the curve after i trades.
Point(i) == Balances(InitialEquity, trades)[i]

\* The points of the equity curve are the balances after each trade.
LEMMA PointsAre ==
    ASSUME Types
    PROVE  /\ Len(trades) \in Nat /\ Point(0) = InitialEquity /\ InitialEquity \in Int
           /\ \A i \in 0..Len(trades) : Point(i) \in Int
           /\ \A i \in 1..Len(trades) : /\ trades[i].net \in Int
                                        /\ Point(i) = Point(i - 1) + trades[i].net
                                        /\ EquityCurve[i].equity = Point(i)
           /\ Balance(InitialEquity, trades) = Point(Len(trades))
<1>1. InitialEquity \in Int /\ trades \in Seq(Trade)
  BY ConstantsAssumption DEF Types, SimTypes
<1>2. Len(trades) \in Nat /\ DOMAIN trades = 1..Len(trades)
  BY <1>1, LenProperties
<1>3. \A i \in 1..Len(trades) : trades[i].net \in Int
  BY TradesAre DEF Trade
<1>4. \A i \in 1..Len(trades) : EquityCurve[i].equity = Point(i)
  BY <1>2 DEF EquityCurve, Point
<1> QED
  BY <1>1, <1>2, <1>3, <1>4, BalancesAre DEF Point

\* The walk over the losses, step by step.
StreakAcc == [cur : Int, longest : Int]

\* A loss makes the streak longer by one, anything else ends it.
LEMMA StreaksAre ==
    ASSUME Types
    PROVE  /\ \A i \in 0..Len(trades) : Streaks[i].cur \in Int /\ Streaks[i].longest \in Int
           /\ Streaks[0].cur = 0 /\ Streaks[0].longest = 0
           /\ \A i \in 1..Len(trades) :
                 /\ Streaks[i].cur = IF trades[i].net < 0 THEN Streaks[i - 1].cur + 1 ELSE 0
                 /\ Streaks[i].longest = IF Streaks[i].cur > Streaks[i - 1].longest
                                         THEN Streaks[i].cur ELSE Streaks[i - 1].longest
<1> DEFINE n == Len(trades)
           base == [cur |-> 0, longest |-> 0]
           step == [i \in 1..n |-> [acc \in StreakAcc |-> StreakStep(acc, trades[i])]]
           walk == CHOOSE f : f = [i \in 0..n |-> IF i = 0 THEN base ELSE StreakStep(f[i - 1], trades[i])]
<1>1. n \in Nat /\ \A i \in 1..n : trades[i].net \in Int
  BY PointsAre
<1>2. base \in StreakAcc
  BY DEF StreakAcc
<1>3. ASSUME NEW acc \in StreakAcc, NEW i \in 1..n
      PROVE  /\ StreakStep(acc, trades[i]) \in StreakAcc
             /\ StreakStep(acc, trades[i]).cur = IF trades[i].net < 0 THEN acc.cur + 1 ELSE 0
             /\ StreakStep(acc, trades[i]).longest =
                   IF StreakStep(acc, trades[i]).cur > acc.longest
                   THEN StreakStep(acc, trades[i]).cur ELSE acc.longest
  <2>1. acc.cur \in Int /\ acc.longest \in Int
    BY DEF StreakAcc
  <2> QED
    BY <2>1 DEF StreakStep, StreakAcc
<1>4. Streaks = walk
  BY DEF Streaks
<1> HIDE DEF n, base
<1>5. step \in [1..n -> [StreakAcc -> StreakAcc]]
  BY <1>3
<1>6. \A i \in 1..n, acc \in StreakAcc : step[i][acc] = StreakStep(acc, trades[i])
  OBVIOUS
<1> HIDE DEF step
<1>7. PICK g \in [0..n -> StreakAcc] : g[0] = base /\ \A i \in 1..n : g[i] = step[i][g[i - 1]]
  <2> DEFINE T == StreakAcc
  <2>1. base \in T /\ step \in [1..n -> [T -> T]] /\ n \in Nat
    BY <1>1, <1>2, <1>5
  <2>2. T = StreakAcc
    OBVIOUS
  <2> HIDE DEF T
  <2>3. \E g \in [0..n -> T] : g[0] = base /\ \A i \in 1..n : g[i] = step[i][g[i - 1]]
    BY <2>1, Recursion
  <2> QED
    BY <2>2, <2>3
<1>8. g = [i \in 0..n |-> IF i = 0 THEN base ELSE StreakStep(g[i - 1], trades[i])]
  <2>1. ASSUME NEW i \in 0..n PROVE g[i] = IF i = 0 THEN base ELSE StreakStep(g[i - 1], trades[i])
    <3>1. CASE i = 0
      BY <1>7, <3>1
    <3>2. CASE i # 0
      <4>1. i \in 1..n /\ i - 1 \in 0..n
        BY <1>1, <3>2
      <4> QED
        BY <1>6, <1>7, <3>2, <4>1
    <3> QED
      BY <3>1, <3>2
  <2> QED
    BY <1>7, <2>1
<1>9. walk = [i \in 0..n |-> IF i = 0 THEN base ELSE StreakStep(walk[i - 1], trades[i])]
  BY <1>8
<1> HIDE DEF walk
<1>10. walk[0] = base /\ \A i \in 1..n : walk[i] = StreakStep(walk[i - 1], trades[i])
  BY <1>1, <1>9
<1> DEFINE P == {i \in 0..n : walk[i] \in StreakAcc}
<1>11. \A i \in 0..n : i \in P
  <2>1. 0 \in P
    BY <1>1, <1>2, <1>10
  <2>2. ASSUME NEW i \in 1..n, i - 1 \in P PROVE i \in P
    <3>1. walk[i - 1] \in StreakAcc /\ i \in 0..n
      BY <1>1, <2>2
    <3> QED
      BY <1>3, <1>10, <3>1
  <2> HIDE DEF P
  <2> QED
    BY <1>1, <2>1, <2>2, UpTo
<1>12. \A i \in 0..n : walk[i].cur \in Int /\ walk[i].longest \in Int
  BY <1>11 DEF StreakAcc
<1>13. ASSUME NEW i \in 1..n
       PROVE  /\ walk[i].cur = IF trades[i].net < 0 THEN walk[i - 1].cur + 1 ELSE 0
              /\ walk[i].longest = IF walk[i].cur > walk[i - 1].longest
                                   THEN walk[i].cur ELSE walk[i - 1].longest
  <2>1. i - 1 \in 0..n
    BY <1>1
  <2>2. walk[i - 1] \in StreakAcc /\ walk[i] = StreakStep(walk[i - 1], trades[i])
    BY <1>10, <1>11, <2>1
  <2> QED
    BY <1>3, <2>2
<1> QED
  BY <1>4, <1>10, <1>12, <1>13 DEF n, base

\* The longest run of losses up to the n-th trade.
Losing(i, j) == \A k \in i..j : trades[k].net < 0

\* The loss streak of the report is a longest one.
LEMMA LossStreakIs ==
    ASSUME Types
    PROVE  LET n == Len(trades)
           IN  /\ \A i, j \in 1..n : i <= j /\ Losing(i, j) => j - i + 1 <= LossStreak
               /\ LossStreak > 0 => \E i \in 1..n : i + LossStreak - 1 <= n
                                         /\ Losing(i, i + LossStreak - 1)
<1> DEFINE n == Len(trades)
           cur(m) == Streaks[m].cur
           longest(m) == Streaks[m].longest
           P == {m \in 0..n :
                   /\ 0 <= cur(m) /\ cur(m) <= m /\ cur(m) <= longest(m)
                   /\ Losing(m - cur(m) + 1, m)
                   /\ \A i \in 1..m : Losing(i, m) => m - i + 1 <= cur(m)
                   /\ \A i, j \in 1..m : i <= j /\ Losing(i, j) => j - i + 1 <= longest(m)
                   /\ longest(m) > 0 => \E i \in 1..m : i + longest(m) - 1 <= m
                                            /\ Losing(i, i + longest(m) - 1)}
<1>1. n \in Nat /\ \A i \in 1..n : trades[i].net \in Int
  BY PointsAre
<1>2. /\ \A i \in 0..n : cur(i) \in Int /\ longest(i) \in Int
      /\ cur(0) = 0 /\ longest(0) = 0
      /\ \A i \in 1..n :
           /\ cur(i) = IF trades[i].net < 0 THEN cur(i - 1) + 1 ELSE 0
           /\ longest(i) = IF cur(i) > longest(i - 1) THEN cur(i) ELSE longest(i - 1)
  BY StreaksAre
<1>3. LossStreak = longest(n)
  BY DEF LossStreak
<1> HIDE DEF n, cur, longest
<1>4. 0 \in P
  <2>1. Losing(0 - cur(0) + 1, 0)
    BY <1>2 DEF Losing
  <2> QED
    BY <1>1, <1>2, <2>1
<1>5. ASSUME NEW m \in 1..n, m - 1 \in P PROVE m \in P
  <2>1. PICK p \in Nat : p = m - 1 /\ m = p + 1 /\ p \in 0..n /\ p \in P
    BY <1>1, <1>5
  <2>2. /\ 0 <= cur(p) /\ cur(p) <= p /\ cur(p) <= longest(p)
        /\ Losing(p - cur(p) + 1, p)
        /\ \A i \in 1..p : Losing(i, p) => p - i + 1 <= cur(p)
        /\ \A i, j \in 1..p : i <= j /\ Losing(i, j) => j - i + 1 <= longest(p)
        /\ longest(p) > 0 => \E i \in 1..p : i + longest(p) - 1 <= p
                                 /\ Losing(i, i + longest(p) - 1)
    BY <2>1
  <2>3. /\ cur(m) = IF trades[m].net < 0 THEN cur(p) + 1 ELSE 0
        /\ longest(m) = IF cur(m) > longest(p) THEN cur(m) ELSE longest(p)
    BY <1>2, <2>1
  <2>4. PICK c \in Int, d \in Int, l \in Int, k \in Int :
           c = cur(p) /\ d = cur(m) /\ l = longest(p) /\ k = longest(m)
    <3>1. m \in 0..n
      BY <1>1
    <3>2. cur(p) \in Int /\ longest(p) \in Int
      BY <1>2, <2>1
    <3>3. cur(m) \in Int /\ longest(m) \in Int
      BY <1>2, <3>1
    <3> QED
      BY <3>2, <3>3, Zenon
  <2>5. m \in 0..n /\ m \in Nat /\ n \in Nat
    BY <1>1
  <2>6. 0 <= d /\ d <= m /\ d <= k /\ l <= k
    BY <2>1, <2>2, <2>3, <2>4
  <2>7. Losing(m - d + 1, m)
    <3>1. CASE trades[m].net < 0
      <4>1. d = c + 1 /\ m - d + 1 = p - c + 1
        BY <2>1, <2>3, <2>4, <3>1
      <4>2. ASSUME NEW x \in (p - c + 1)..m PROVE trades[x].net < 0
        <5>1. x = m \/ x \in (p - c + 1)..p
          BY <2>1, <2>4
        <5> QED
          BY <2>2, <2>4, <3>1, <5>1 DEF Losing
      <4> QED
        BY <4>1, <4>2 DEF Losing
    <3>2. CASE ~(trades[m].net < 0)
      <4>1. d = 0
        BY <2>3, <2>4, <3>2
      <4>2. (m - d + 1)..m = {}
        BY <2>5, <4>1
      <4> QED
        BY <4>2 DEF Losing
    <3> QED
      BY <3>1, <3>2
  <2>8. ASSUME NEW i \in 1..m, Losing(i, m) PROVE m - i + 1 <= d
    <3>1. trades[m].net < 0
      BY <2>5, <2>8 DEF Losing
    <3>2. d = c + 1
      BY <2>3, <2>4, <3>1
    <3>3. CASE i = m
      BY <2>2, <2>4, <3>2, <3>3
    <3>4. CASE i # m
      <4>1. i \in 1..p /\ \A x \in i..p : x \in i..m
        BY <2>1, <3>4
      <4>2. Losing(i, p)
        BY <2>8, <4>1 DEF Losing
      <4>3. p - i + 1 <= c
        BY <2>2, <2>4, <4>1, <4>2
      <4> QED
        BY <2>1, <3>2, <4>1, <4>3
    <3> QED
      BY <3>3, <3>4
  <2>9. ASSUME NEW i \in 1..m, NEW j \in 1..m, i <= j, Losing(i, j) PROVE j - i + 1 <= k
    <3>1. CASE j = m
      <4>1. m - i + 1 <= d
        BY <2>8, <2>9, <3>1
      <4> QED
        BY <2>5, <2>6, <3>1, <4>1
    <3>2. CASE j # m
      <4>1. i \in 1..p /\ j \in 1..p
        BY <2>1, <2>9, <3>2
      <4>2. j - i + 1 <= l
        BY <2>2, <2>4, <2>9, <4>1
      <4> QED
        BY <2>6, <4>1, <4>2
    <3> QED
      BY <3>1, <3>2
  <2>10. ASSUME k > 0 PROVE \E i \in 1..m : i + k - 1 <= m /\ Losing(i, i + k - 1)
    <3>1. CASE d > l
      <4>1. k = d
        BY <2>3, <2>4, <3>1
      <4> DEFINE i == m - d + 1
      <4>2. i \in 1..m /\ i + k - 1 = m
        BY <2>5, <2>6, <2>10, <4>1
      <4>3. Losing(i, i + k - 1)
        BY <2>7, <4>2
      <4>4. i + k - 1 <= m
        BY <2>5, <4>2
      <4> HIDE DEF i
      <4> QED
        BY <4>2, <4>3, <4>4
    <3>2. CASE ~(d > l)
      <4>1. k = l
        BY <2>3, <2>4, <3>2
      <4>2. PICK i \in 1..p : i + l - 1 <= p /\ Losing(i, i + l - 1)
        BY <2>2, <2>4, <2>10, <4>1
      <4>3. i \in 1..m /\ i + k - 1 <= m
        BY <2>1, <4>1, <4>2
      <4> QED
        BY <4>1, <4>2, <4>3
    <3> QED
      BY <3>1, <3>2
  <2> QED
    BY <2>4, <2>5, <2>6, <2>7, <2>8, <2>9, <2>10
<1>6. \A m \in 0..n : m \in P
  <2> HIDE DEF P
  <2> QED
    BY <1>1, <1>4, <1>5, UpTo
<1>7. n \in P
  BY <1>1, <1>6
<1> QED
  BY <1>3, <1>7 DEF n

\* The walk of the report over the trades, step by step.
ReportAcc == [eq : Int, peak : Int, dd : [num : Int, den : Int]]

\* One step of compute_metrics' walk over the curve.
LEMMA ReportStepIs ==
    ASSUME NEW acc \in ReportAcc, NEW tr, tr.net \in Int
    PROVE  LET new == ReportStep(acc, tr)
               eq   == acc.eq + tr.net
               peak == IF eq > acc.peak THEN eq ELSE acc.peak
               num  == IF peak > 0 THEN peak - eq ELSE 0
               den  == IF peak > 0 THEN peak ELSE 1
               deeper == num * acc.dd.den > acc.dd.num * den
           IN  /\ new \in ReportAcc
               /\ new.eq = eq /\ new.peak = peak
               /\ new.dd.num = IF deeper THEN num ELSE acc.dd.num
               /\ new.dd.den = IF deeper THEN den ELSE acc.dd.den
<1> DEFINE eq   == acc.eq + tr.net
           peak == IF eq > acc.peak THEN eq ELSE acc.peak
           num  == IF peak > 0 THEN peak - eq ELSE 0
           den  == IF peak > 0 THEN peak ELSE 1
           dd   == IF peak > 0 THEN [num |-> peak - eq, den |-> peak]
                               ELSE [num |-> 0, den |-> 1]
           deeper == num * acc.dd.den > acc.dd.num * den
           new == ReportStep(acc, tr)
<1>1. acc.eq \in Int /\ acc.peak \in Int /\ acc.dd \in [num : Int, den : Int]
  BY DEF ReportAcc
<1>2. eq \in Int /\ peak \in Int /\ num \in Int /\ den \in Int
  BY <1>1
<1>3. dd \in [num : Int, den : Int] /\ dd.num = num /\ dd.den = den
  BY <1>2
<1>4. new = [eq |-> eq, peak |-> peak,
             dd |-> IF dd.num * acc.dd.den > acc.dd.num * dd.den THEN dd ELSE acc.dd]
  BY DEF ReportStep
<1> HIDE DEF eq, peak, num, den, dd, new
<1>5. new.eq = eq /\ new.peak = peak /\ new.dd = IF deeper THEN dd ELSE acc.dd
  BY <1>3, <1>4
<1>6. new \in ReportAcc
  BY <1>1, <1>2, <1>3, <1>4 DEF ReportAcc
<1> HIDE DEF deeper
<1>7. /\ new.dd.num = IF deeper THEN num ELSE acc.dd.num
      /\ new.dd.den = IF deeper THEN den ELSE acc.dd.den
  BY <1>3, <1>5
<1> QED
  BY <1>5, <1>6, <1>7 DEF eq, peak, num, den, new, deeper

\* The whole walk, step by step.
LEMMA ReportWalkIs ==
    ASSUME Types
    PROVE  /\ ReportWalk[0] = [eq |-> InitialEquity, peak |-> InitialEquity,
                               dd |-> [num |-> 0, den |-> 1]]
           /\ \A i \in 0..Len(trades) : ReportWalk[i] \in ReportAcc
           /\ \A i \in 1..Len(trades) : ReportWalk[i] = ReportStep(ReportWalk[i - 1], trades[i])
<1> DEFINE n == Len(trades)
           T == ReportAcc
           base == [eq |-> InitialEquity, peak |-> InitialEquity, dd |-> [num |-> 0, den |-> 1]]
           step == [i \in 1..n |-> [acc \in T |-> ReportStep(acc, trades[i])]]
           walk == CHOOSE f : f = [i \in 0..n |-> IF i = 0 THEN base ELSE ReportStep(f[i - 1], trades[i])]
<1>1. n \in Nat /\ \A i \in 1..n : trades[i].net \in Int
  BY PointsAre
<1>2. base \in T
  BY ConstantsAssumption DEF ReportAcc
<1>3. ASSUME NEW acc \in T, NEW i \in 1..n PROVE ReportStep(acc, trades[i]) \in T
  BY <1>1, ReportStepIs
<1>4. ReportWalk = walk
  BY DEF ReportWalk
<1> HIDE DEF n, base, T
<1>5. step \in [1..n -> [T -> T]]
  BY <1>3
<1>6. \A i \in 1..n, acc \in T : step[i][acc] = ReportStep(acc, trades[i])
  OBVIOUS
<1> HIDE DEF step
<1>7. PICK g \in [0..n -> T] : g[0] = base /\ \A i \in 1..n : g[i] = step[i][g[i - 1]]
  <2>1. base \in T /\ step \in [1..n -> [T -> T]] /\ n \in Nat
    BY <1>1, <1>2, <1>5
  <2>2. \E g \in [0..n -> T] : g[0] = base /\ \A i \in 1..n : g[i] = step[i][g[i - 1]]
    BY <2>1, Recursion
  <2> QED
    BY <2>2
<1>8. g = [i \in 0..n |-> IF i = 0 THEN base ELSE ReportStep(g[i - 1], trades[i])]
  <2>1. ASSUME NEW i \in 0..n PROVE g[i] = IF i = 0 THEN base ELSE ReportStep(g[i - 1], trades[i])
    <3>1. CASE i = 0
      BY <1>7, <3>1
    <3>2. CASE i # 0
      <4>1. i \in 1..n /\ i - 1 \in 0..n
        BY <1>1, <3>2
      <4> QED
        BY <1>6, <1>7, <3>2, <4>1
    <3> QED
      BY <3>1, <3>2
  <2> QED
    BY <1>7, <2>1
<1>9. walk = [i \in 0..n |-> IF i = 0 THEN base ELSE ReportStep(walk[i - 1], trades[i])]
  BY <1>8
<1> HIDE DEF walk
<1>10. walk[0] = base /\ \A i \in 1..n : walk[i] = ReportStep(walk[i - 1], trades[i])
  BY <1>1, <1>9
<1> DEFINE P == {i \in 0..n : walk[i] \in T}
<1>11. \A i \in 0..n : i \in P
  <2>1. 0 \in P
    BY <1>1, <1>2, <1>10
  <2>2. ASSUME NEW i \in 1..n, i - 1 \in P PROVE i \in P
    <3>1. walk[i - 1] \in T /\ i \in 0..n
      BY <1>1, <2>2
    <3> QED
      BY <1>3, <1>10, <3>1
  <2> HIDE DEF P
  <2> QED
    BY <1>1, <2>1, <2>2, UpTo
<1> QED
  BY <1>4, <1>10, <1>11 DEF n, base, T

\* A fraction below a second one that is below a third one is below the third.
LEMMA BelowDeeper ==
    ASSUME NEW x \in Int, NEW p \in Int, NEW a \in Int, NEW b \in Int,
           NEW c \in Int, NEW d \in Int, p > 0, b > 0, d > 0,
           x * b <= a * p, a * d <= c * b
    PROVE  x * d <= c * p
<1>1. PICK xb \in Int, ap \in Int, ad \in Int, cb \in Int, xd \in Int, cp \in Int :
         /\ xb = x * b /\ ap = a * p /\ ad = a * d /\ cb = c * b /\ xd = x * d /\ cp = c * p
  OBVIOUS
<1>2. xb * d <= ap * d
  <2>1. \A u, v, w \in Int : u <= v /\ w > 0 => u * w <= v * w
    BY SMT
  <2> QED
    BY <1>1, <2>1
<1>3. ad * p <= cb * p
  <2>1. \A u, v, w \in Int : u <= v /\ w > 0 => u * w <= v * w
    BY SMT
  <2> QED
    BY <1>1, <2>1
<1>4. xb * d = xd * b
  BY <1>1
<1>5. ap * d = ad * p
  BY <1>1
<1>6. cb * p = cp * b
  BY <1>1
<1>7. xd * b <= cp * b
  <2>1. xd * b \in Int /\ cp * b \in Int /\ ap * d \in Int
    BY <1>1
  <2> QED
    BY <1>2, <1>3, <1>4, <1>5, <1>6, <2>1
<1>8. \A u, v, w \in Int : u > v /\ w > 0 => u * w > v * w
  BY SMT
<1>9. ~(xd > cp)
  <2>1. xd * b \in Int /\ cp * b \in Int
    BY <1>1
  <2> QED
    BY <1>7, <1>8, <2>1
<1> QED
  BY <1>1, <1>9

\* A point that is positive and that none before the j-th exceeds.
Top(i, j) == Point(i) > 0 /\ \A k \in 0..j : Point(k) <= Point(i)

\* No point is further below its peak than the drawdown of the report.
LEMMA DrawdownIs ==
    ASSUME Types
    PROVE  LET n == Len(trades)
           IN  \A i \in 0..n : \A j \in i..n :
                  Top(i, j) => (Point(i) - Point(j)) * ReportWalk[n].dd.den
                                    <= ReportWalk[n].dd.num * Point(i)
<1> DEFINE n == Len(trades)
           eq(m) == ReportWalk[m].eq
           peak(m) == ReportWalk[m].peak
           num(m) == ReportWalk[m].dd.num
           den(m) == ReportWalk[m].dd.den
           Within(i, j, m) == (Point(i) - Point(j)) * den(m) <= num(m) * Point(i)
           P == {m \in 0..n :
                   /\ eq(m) = Point(m)
                   /\ \A k \in 0..m : Point(k) <= peak(m)
                   /\ \E k \in 0..m : peak(m) = Point(k)
                   /\ den(m) > 0
                   /\ \A i \in 0..m : \A j \in i..m : Top(i, j) => Within(i, j, m)}
<1>1. /\ n \in Nat /\ Point(0) = InitialEquity /\ InitialEquity \in Int
      /\ \A i \in 0..n : Point(i) \in Int
      /\ \A i \in 1..n : trades[i].net \in Int /\ Point(i) = Point(i - 1) + trades[i].net
  BY PointsAre
<1>2. eq(0) = InitialEquity /\ peak(0) = InitialEquity /\ num(0) = 0 /\ den(0) = 1
  BY ReportWalkIs
<1>3. \A i \in 0..n : /\ ReportWalk[i] \in ReportAcc
                      /\ eq(i) \in Int /\ peak(i) \in Int /\ num(i) \in Int /\ den(i) \in Int
  BY ReportWalkIs DEF ReportAcc
<1>4. ASSUME NEW m \in 1..n, NEW p \in 0..n, p = m - 1
      PROVE  LET k == IF eq(m) > peak(p) THEN eq(m) ELSE peak(p)
                 x == IF peak(m) > 0 THEN peak(m) - eq(m) ELSE 0
                 d == IF peak(m) > 0 THEN peak(m) ELSE 1
                 deeper == x * den(p) > num(p) * d
             IN  /\ eq(m) = eq(p) + trades[m].net /\ peak(m) = k
                 /\ num(m) = IF deeper THEN x ELSE num(p)
                 /\ den(m) = IF deeper THEN d ELSE den(p)
  <2>1. /\ ReportWalk[p] \in ReportAcc /\ trades[m].net \in Int
        /\ ReportWalk[m] = ReportStep(ReportWalk[p], trades[m])
    BY <1>1, <1>3, <1>4, ReportWalkIs
  <2> QED
    BY <2>1, ReportStepIs
<1>5. Report.drawdown = ReportWalk[n].dd
  BY DEF Report
<1> HIDE DEF n, eq, peak, num, den
<1>6. 0 \in P
  <2>1. Within(0, 0, 0)
    BY <1>1, <1>2
  <2> QED
    BY <1>1, <1>2, <2>1
<1>7. ASSUME NEW m \in 1..n, m - 1 \in P PROVE m \in P
  <2>1. PICK p \in Nat : p = m - 1 /\ m = p + 1 /\ p \in 0..n /\ p \in P
    BY <1>1, <1>7
  <2>2. /\ eq(p) = Point(p)
        /\ \A k \in 0..p : Point(k) <= peak(p)
        /\ \E k \in 0..p : peak(p) = Point(k)
        /\ den(p) > 0
        /\ \A i \in 0..p : \A j \in i..p : Top(i, j) => Within(i, j, p)
    BY <2>1
  <2>3. m \in 0..n /\ m \in Nat
    BY <1>1
  <2>4. PICK e \in Int, k \in Int, a \in Int, b \in Int, c \in Int, d \in Int :
           /\ e = eq(m) /\ k = peak(m) /\ a = num(p) /\ b = den(p)
           /\ c = num(m) /\ d = den(m)
    BY <1>3, <2>1, <2>3
  <2> DEFINE x == IF k > 0 THEN k - e ELSE 0
             y == IF k > 0 THEN k ELSE 1
  <2>5. /\ eq(m) = eq(p) + trades[m].net
        /\ peak(m) = IF eq(m) > peak(p) THEN eq(m) ELSE peak(p)
        /\ c = IF x * b > a * y THEN x ELSE a
        /\ d = IF x * b > a * y THEN y ELSE b
    BY <1>4, <2>1, <2>4
  <2>6. x \in Int /\ y \in Int /\ y > 0 /\ b > 0
    BY <2>2, <2>4
  <2>7. eq(m) = Point(m)
    BY <1>1, <2>1, <2>2, <2>5
  <2>8. \A i \in 0..m : i = m \/ i \in 0..p
    BY <2>1
  <2>9. \A i \in 0..m : Point(i) <= peak(m)
    BY <1>1, <1>3, <2>1, <2>2, <2>3, <2>5, <2>7, <2>8
  <2>10. \E i \in 0..m : peak(m) = Point(i)
    <3>1. CASE eq(m) > peak(p)
      BY <2>1, <2>5, <2>7, <3>1
    <3>2. CASE ~(eq(m) > peak(p))
      <4>1. \A i \in 0..p : i \in 0..m
        BY <2>1
      <4> QED
        BY <2>2, <2>5, <3>2, <4>1
    <3> QED
      BY <3>1, <3>2
  <2>11. d > 0
    BY <2>5, <2>6
  <2>12. a * d <= c * b
    <3>1. CASE x * b > a * y
      BY <2>5, <2>6, <3>1
    <3>2. CASE ~(x * b > a * y)
      <4>1. c = a /\ d = b
        BY <2>5, <3>2
      <4> QED
        BY <4>1
    <3> QED
      BY <3>1, <3>2
  <2>13. ASSUME NEW i \in 0..m, NEW j \in i..m, Top(i, j) PROVE Within(i, j, m)
    <3>1. PICK u \in Int, v \in Int : u = Point(i) /\ v = Point(j) /\ u > 0
      BY <1>1, <2>3, <2>13 DEF Top
    <3>2. SUFFICES (u - v) * d <= c * u
      BY <2>4, <3>1
    <3>3. CASE j = m
      <4>1. \A l \in 0..m : Point(l) <= u
        BY <2>13, <3>1, <3>3 DEF Top
      <4>2. PICK l \in 0..m : k = Point(l)
        BY <2>4, <2>10
      <4>3. k <= u
        BY <4>1, <4>2
      <4>4. u <= k
        BY <2>4, <2>9, <3>1
      <4>5. k = u /\ e = v
        BY <2>4, <2>7, <3>1, <3>3, <4>3, <4>4
      <4>6. x = u - v /\ y = u
        BY <3>1, <4>5
      <4>7. CASE x * b > a * y
        BY <2>5, <4>6, <4>7
      <4>8. CASE ~(x * b > a * y)
        <5>1. c = a /\ d = b
          BY <2>5, <4>8
        <5>2. x * b \in Int /\ a * y \in Int
          BY <2>6
        <5> HIDE DEF x, y
        <5>3. x * b <= a * y
          BY <4>8, <5>2
        <5> QED
          BY <4>6, <5>1, <5>3
      <4> QED
        BY <4>7, <4>8
    <3>4. CASE j # m
      <4>1. i \in 0..p /\ j \in i..p
        BY <2>1, <3>4
      <4>2. (u - v) * b <= a * u
        BY <2>2, <2>4, <2>13, <3>1, <4>1
      <4>3. u - v \in Int
        BY <3>1
      <4> QED
        BY <2>6, <2>11, <2>12, <3>1, <4>2, <4>3, BelowDeeper
    <3> QED
      BY <3>3, <3>4
  <2> HIDE DEF Within
  <2> QED
    BY <2>3, <2>4, <2>7, <2>9, <2>10, <2>11, <2>13
<1>8. \A m \in 0..n : m \in P
  <2> HIDE DEF P
  <2> QED
    BY <1>1, <1>6, <1>7, UpTo
<1>9. n \in P
  BY <1>1, <1>8
<1> QED
  BY <1>9 DEF n, den, num

\* A report of a fold matches its curve.
LEMMA ReportHolds ==
    ASSUME Types, Booked
    PROVE  ReportMatchesCurve
<1> DEFINE n == Len(trades)
           Pt(i) == IF i = 0 THEN InitialEquity ELSE EquityCurve[i].equity
<1>1. /\ n \in Nat /\ Point(0) = InitialEquity
      /\ \A i \in 1..n : EquityCurve[i].equity = Point(i)
      /\ Balance(InitialEquity, trades) = Point(n)
  BY PointsAre
<1>2. \A i \in 0..n : Pt(i) = Point(i)
  BY <1>1
<1>3. Report.drawdown = ReportWalk[n].dd /\ Report.final = Equity(realized, positions, lastPrice)
  BY DEF Report
<1>4. ASSUME finalized PROVE Report.final = Pt(n)
  <2>1. \A s \in Symbols : positions[s] = None
    BY <1>4 DEF Booked, Held
  <2>2. realized \in Int
    BY DEF Types, SimTypes
  <2>3. n \in 0..n
    BY <1>1
  <2> QED
    BY <1>1, <1>2, <1>3, <2>1, <2>2, <2>3, EquityOfNothing DEF Booked
<1>5. ASSUME NEW i \in 0..n, NEW j \in i..n, Pt(i) > 0, \A k \in 0..j : Pt(k) <= Pt(i)
      PROVE  (Pt(i) - Pt(j)) * Report.drawdown.den <= Report.drawdown.num * Pt(i)
  <2>1. j \in 0..n /\ \A k \in 0..j : k \in 0..n
    BY <1>1
  <2> HIDE DEF Pt
  <2>2. Top(i, j)
    BY <1>2, <1>5, <2>1 DEF Top
  <2>3. (Point(i) - Point(j)) * ReportWalk[n].dd.den <= ReportWalk[n].dd.num * Point(i)
    BY <2>2, DrawdownIs
  <2> QED
    BY <1>2, <1>3, <2>1, <2>3
<1>6. /\ \A i, j \in 1..n : i <= j /\ (\A k \in i..j : trades[k].net < 0) => j - i + 1 <= LossStreak
      /\ LossStreak > 0 => \E i \in 1..n : i + LossStreak - 1 <= n
                                /\ \A k \in i..(i + LossStreak - 1) : trades[k].net < 0
  BY LossStreakIs DEF Losing
<1> HIDE DEF Pt
<1> QED
  BY <1>4, <1>5, <1>6 DEF ReportMatchesCurve, Pt

\* build_report, compute_metrics, build_equity_curve: in every finished fold
\* the equity is where the curve of the trades ends, no point of the curve is
\* further below its peak than the drawdown, and the streak is a longest one.
THEOREM ReportsAreTrue == Spec => []ReportMatchesCurve
<1>1. Init => Booked
  BY InitBooked
<1>2. Types /\ Booked /\ [Next]_vars => Booked'
  BY NextBooked
<1>3. Types /\ Booked => ReportMatchesCurve
  BY ReportHolds
<1> QED
  BY <1>1, <1>2, <1>3, TypesHold, PTL DEF Spec

-----------------------------------------------------------------------------
(* Funding                                                                 *)

\* The slot of stream q at time u lies before the slot a; the rows of q that
\* the fold has read.
Slot(q, u, a) == u < a.t \/ (u = a.t /\ \E j \in 1..(a.i - 1) : Merged[j] = q)
Seen(q) ==
    {u \in Times : /\ u >= fold * StepLen /\ tape[q][u] \notin {NoRow, Unread}
                   /\ Slot(q, u, at)}

\* Every stream has a slot.
LEMMA MergedAll ==
    ASSUME NEW q \in Streams
    PROVE  \E j \in 1..2*N : Merged[j] = q
<1>1. N \in Nat \ {0} /\ Symbols = {SymbolOrder[i] : i \in 1..N}
  <2>1. SymbolOrder \in Seq(Symbols) /\ N = Len(SymbolOrder)
    BY ConstantsAssumption DEF N
  <2>2. DOMAIN SymbolOrder = 1..N
    BY <2>1, LenProperties
  <2> QED
    BY <2>2, SymbolsFinite DEF Symbols, ToSet
<1>2. \A k \in 1..2*N : Merged[k] = IF k <= N THEN <<"ohlcv", SymbolOrder[k]>>
                                    ELSE <<"ticker", SymbolOrder[k - N]>>
  BY DEF Merged
<1>3. PICK s \in Symbols : q = <<"ohlcv", s>> \/ q = <<"ticker", s>>
  BY DEF Streams
<1>4. PICK i \in 1..N : s = SymbolOrder[i]
  BY <1>1
<1>5. /\ i \in 1..2*N /\ i <= N
      /\ N + i \in 1..2*N /\ ~(N + i <= N) /\ (N + i) - N = i
  BY <1>1
<1>6. Merged[i] = <<"ohlcv", s>> /\ Merged[N + i] = <<"ticker", s>>
  BY <1>2, <1>4, <1>5
<1> QED
  BY <1>3, <1>5, <1>6

\* Reading takes one slot into the past: that of the stream, now.
LEMMA SlotLater ==
    ASSUME Types, Reading, NEW q \in Streams, NEW u \in Nat
    PROVE  /\ Slot(q, u, NextSlot) <=> Slot(q, u, at) \/ (q = Stream /\ u = at.t)
           /\ ~Slot(Stream, at.t, at)
           /\ Slot(q, u, at) => u <= at.t
<1> DEFINE b == NextSlot
<1>1. /\ at.t \in Nat /\ at.i \in 1..2*N /\ N \in Nat \ {0} /\ Merged[at.i] = Stream
  BY SymbolsFinite DEF Types, RunTypes, Stream
<1>2. \/ b.t = at.t /\ b.i = at.i + 1 /\ at.i < 2*N
      \/ b.t = at.t + 1 /\ b.i = 1 /\ at.i = 2*N
  BY NextSlotIs
<1>3. ~Slot(Stream, at.t, at)
  <2>1. ASSUME NEW j \in 1..(at.i - 1), Merged[j] = Stream PROVE FALSE
    <3>1. j \in 1..2*N /\ at.i \in 1..2*N /\ j # at.i
      BY <1>1
    <3> QED
      BY <1>1, <2>1, <3>1, MergedOnce
  <2>2. ~(at.t < at.t)
    BY <1>1
  <2> QED
    BY <2>1, <2>2 DEF Slot
<1>4. Slot(q, u, at) => u <= at.t
  BY <1>1 DEF Slot
<1> HIDE DEF b
<1>5. Slot(q, u, b) <=> Slot(q, u, at) \/ (q = Stream /\ u = at.t)
  <2>1. CASE u < at.t
    BY <1>1, <1>2, <2>1 DEF Slot
  <2>2. CASE u > at.t
    <3>1. ~Slot(q, u, at) /\ ~(u = at.t)
      BY <1>1, <2>2 DEF Slot
    <3>2. ~(u < b.t)
      BY <1>1, <1>2, <2>2
    <3>3. u = b.t => b.i = 1
      BY <1>1, <1>2, <2>2
    <3> QED
      BY <3>1, <3>2, <3>3 DEF Slot
  <2>3. CASE u = at.t /\ b.t = at.t /\ b.i = at.i + 1
    <3>1. \A j \in 1..(b.i - 1) : j = at.i \/ j \in 1..(at.i - 1)
      BY <1>1, <2>3
    <3>2. at.i \in 1..(b.i - 1) /\ \A j \in 1..(at.i - 1) : j \in 1..(b.i - 1)
      BY <1>1, <2>3
    <3>3. ~(u < b.t) /\ ~(u < at.t) /\ u = b.t
      BY <1>1, <2>3
    <3> QED
      BY <1>1, <2>3, <3>1, <3>2, <3>3 DEF Slot
  <2>4. CASE u = at.t /\ b.t = at.t + 1 /\ at.i = 2*N
    <3>1. Slot(q, u, b)
      BY <1>1, <2>4 DEF Slot
    <3>2. ASSUME q # Stream PROVE Slot(q, u, at)
      <4>1. PICK j \in 1..2*N : Merged[j] = q
        BY MergedAll
      <4>2. j # at.i
        BY <1>1, <3>2, <4>1
      <4>3. j \in 1..(at.i - 1)
        BY <1>1, <2>4, <4>2
      <4> QED
        BY <2>4, <4>1, <4>3 DEF Slot
    <3> QED
      BY <3>1, <3>2, <2>4
  <2> QED
    BY <1>1, <1>2, <2>1, <2>2, <2>3, <2>4
<1> QED
  BY <1>3, <1>4, <1>5 DEF b

\* The rows a stream has shown, after one slot more.
LEMMA SeenLater ==
    ASSUME Types, Reading, NEW row, Consume(row), fold' = fold, fold * StepLen <= at.t,
           NEW q \in Streams
    PROVE  /\ Seen(q)' = IF q = Stream /\ row # NoRow THEN Seen(q) \cup {at.t} ELSE Seen(q)
           /\ \A u \in Seen(q) : u \in Times /\ u <= at.t /\ tape'[q][u] = tape[q][u]
           /\ q = Stream => \A u \in Seen(q) : u < at.t
           /\ tape'[Stream][at.t] = row
           /\ \A u \in Times : u < at.t \/ q # Stream => tape'[q][u] = tape[q][u]
<1>1. /\ at.t \in Times /\ at.t \in Nat /\ Stream \in Streams
  BY ReadingIs
<1>2. tape \in [Streams -> [Times -> AnyRow]] /\ at' = NextSlot
  BY ConsumeIs DEF Types, RunTypes
<1>3. \A u \in Times : tape'[q][u] = IF q = Stream /\ u = at.t THEN row ELSE tape[q][u]
  BY <1>1, <1>2, ConsumeIs
<1>4. tape'[Stream][at.t] = row
  BY <1>1, <1>2, ConsumeIs
<1>5. row # Unread
  <2>1. row \in RowAt(Stream, at.t)
    BY DEF Consume
  <2>2. CASE tape[Stream][at.t] = Unread
    <3>1. row \in Rows[Stream][at.t]
      BY <2>1, <2>2 DEF RowAt
    <3> QED
      BY <1>1, <3>1, ReadingIs, RowsAssumption
  <2>3. CASE tape[Stream][at.t] # Unread
    BY <2>1, <2>3 DEF RowAt
  <2> QED
    BY <2>2, <2>3
<1>6. Times \subseteq Nat
  BY DEF Times
<1>7. \A u \in Times : Slot(q, u, NextSlot) <=> Slot(q, u, at) \/ (q = Stream /\ u = at.t)
  BY <1>6, SlotLater
<1>8. /\ \A u \in Seen(q) : u \in Times /\ u \in Nat /\ u <= at.t
      /\ at.t \notin Seen(Stream)
  BY <1>1, <1>6, SlotLater DEF Seen
<1>9. Seen(q)' = {u \in Times : /\ u >= fold * StepLen /\ tape'[q][u] \notin {NoRow, Unread}
                                /\ Slot(q, u, NextSlot)}
  BY <1>2 DEF Seen
<1>10. ASSUME NEW u \in Times
       PROVE  u \in Seen(q)' <=> u \in Seen(q) \/ (q = Stream /\ row # NoRow /\ u = at.t)
  <2>1. CASE q = Stream /\ u = at.t
    <3>1. u >= fold * StepLen
      BY <1>1, <2>1
    <3>2. Slot(q, u, NextSlot) /\ tape'[q][u] = row /\ u \notin Seen(q)
      BY <1>4, <1>7, <1>8, <2>1
    <3> QED
      BY <1>5, <1>9, <2>1, <3>1, <3>2
  <2>2. CASE ~(q = Stream /\ u = at.t)
    <3>1. tape'[q][u] = tape[q][u] /\ (Slot(q, u, NextSlot) <=> Slot(q, u, at))
      BY <1>3, <1>7, <2>2
    <3> QED
      BY <1>9, <2>2, <3>1 DEF Seen
  <2> QED
    BY <2>1, <2>2
<1>11. Seen(q)' \subseteq Times /\ Seen(q) \subseteq Times
  BY <1>8, <1>9
<1>12. Seen(q)' = IF q = Stream /\ row # NoRow THEN Seen(q) \cup {at.t} ELSE Seen(q)
  BY <1>1, <1>10, <1>11
<1>13. \A u \in Seen(q) : q = Stream => u # at.t /\ u < at.t
  BY <1>1, <1>8
<1> QED
  BY <1>1, <1>3, <1>4, <1>8, <1>12, <1>13

\* What FundingFollowsTape calls the samples of a symbol are the rows seen of
\* its stream, in this state and in the next.
LEMMA SampledOf ==
    ASSUME NEW k \in Nat, NEW a, a.t \in Nat, NEW q, NEW u
    PROVE  /\ u \in k..Min({a.t, TsTo})
           /\ u < a.t \/ \E i \in 1..a.i - 1 : Merged[i] = q
           <=> u \in Times /\ u >= k /\ Slot(q, u, a)
<1> DEFINE last == Min({a.t, TsTo})
<1>1. TsTo \in Nat /\ last = IF a.t <= TsTo THEN a.t ELSE TsTo
  BY ConstantsAssumption, MinOfTwo
<1> HIDE DEF last
<1>2. /\ u \in k..last => u \in Times /\ u >= k /\ (u < a.t \/ u = a.t)
      /\ u \in Times /\ u >= k /\ (u < a.t \/ u = a.t) => u \in k..last
  BY <1>1 DEF Times
<1>3. Slot(q, u, a) <=> u < a.t \/ (u = a.t /\ \E i \in 1..a.i - 1 : Merged[i] = q)
  BY DEF Slot
<1> QED
  BY <1>2, <1>3 DEF last

\* So the samples are what the stream has shown, in this state
LEMMA SampledIs ==
    ASSUME Types, NEW s \in Symbols
    PROVE  Sampled(s) = Seen(<<"ohlcv", s>>)
<1> DEFINE k == fold * StepLen
           q == <<"ohlcv", s>>
           a == at
           InRange(u) == /\ u \in k..Min({a.t, TsTo})
                         /\ u < a.t \/ \E i \in 1..a.i - 1 : Merged[i] = q
<1>1. a.t \in Nat /\ k \in Nat
  BY WindowIs DEF Types, RunTypes
<1>2. \A u : u \in Sampled(s) <=> InRange(u) /\ tape[q][u] \notin {NoRow, Unread}
  BY DEF Sampled
<1>3. \A u : u \in Seen(q) <=> /\ u \in Times /\ u >= k /\ Slot(q, u, a)
                              /\ tape[q][u] \notin {NoRow, Unread}
  BY DEF Seen
<1>4. Seen(<<"ohlcv", s>>) = Seen(q)
  OBVIOUS
<1> HIDE DEF k, q, a
<1>5. \A u : InRange(u) <=> u \in Times /\ u >= k /\ Slot(q, u, a)
  BY <1>1, SampledOf
<1> HIDE DEF InRange
<1>6. \A u : u \in Sampled(s) <=> u \in Seen(q)
  BY <1>2, <1>3, <1>5
<1> QED
  BY <1>4, <1>6

\* and in the next.
LEMMA SampledLater ==
    ASSUME Types, Reading, NEW row, Consume(row), fold' = fold, NEW s \in Symbols
    PROVE  Sampled(s)' = Seen(<<"ohlcv", s>>)'
<1> DEFINE k == fold' * StepLen
           q == <<"ohlcv", s>>
           a == at'
           InRange(u) == /\ u \in k..Min({a.t, TsTo})
                         /\ u < a.t \/ \E i \in 1..a.i - 1 : Merged[i] = q
<1>1. a.t \in Nat /\ k \in Nat
  BY NextSlotIs, ConsumeIs, WindowIs DEF Types, RunTypes
<1>2. \A u : u \in Sampled(s)' <=> InRange(u) /\ tape'[q][u] \notin {NoRow, Unread}
  BY DEF Sampled
<1>3. \A u : u \in Seen(q)' <=> /\ u \in Times /\ u >= k /\ Slot(q, u, a)
                              /\ tape'[q][u] \notin {NoRow, Unread}
  BY DEF Seen
<1>4. Seen(<<"ohlcv", s>>)' = Seen(q)'
  OBVIOUS
<1> HIDE DEF k, q, a
<1>5. \A u : InRange(u) <=> u \in Times /\ u >= k /\ Slot(q, u, a)
  BY <1>1, SampledOf
<1> HIDE DEF InRange
<1>6. \A u : u \in Sampled(s)' <=> u \in Seen(q)'
  BY <1>2, <1>3, <1>5
<1> QED
  BY <1>4, <1>6

\* The rate is that of the last ticker read, the clock that of the last sample,
\* and an entry is made at a sample.
LastRate(s) ==
    LET known == Seen(<<"ticker", s>>)
    IN  IF known = {} THEN 0 ELSE tape[<<"ticker", s>>][Max(known)]
Clock(s) ==
    LET samples == Seen(<<"ohlcv", s>>)
    IN  IF samples = {} THEN None ELSE NextFunding(Max(samples))
Clocked ==
    /\ fold * StepLen <= at.t
    /\ \A s \in Symbols :
          /\ rate[s] = LastRate(s)
          /\ nextFunding[s] = Clock(s)
          /\ positions[s] # None => positions[s].ts \in Seen(<<"ohlcv", s>>)

\* What a stream has shown is finite.
LEMMA SeenFinite ==
    ASSUME NEW q, NEW S \in SUBSET Seen(q)
    PROVE  S \in SUBSET Int /\ S \in SUBSET Nat /\ IsFiniteSet(S)
<1>1. TsTo \in Nat /\ Seen(q) \subseteq 0..TsTo
  BY ConstantsAssumption DEF Seen, Times
<1>2. IsFiniteSet(0..TsTo)
  BY <1>1, FS_Interval
<1>3. S \in SUBSET (0..TsTo)
  BY <1>1
<1>4. IsFiniteSet(S)
  BY <1>2, <1>3, FS_Subset
<1>5. 0..TsTo \subseteq Nat /\ 0..TsTo \subseteq Int
  BY <1>1
<1> QED
  BY <1>3, <1>4, <1>5

\* A later second is the last.
LEMMA LatestIs ==
    ASSUME NEW q, NEW t \in Nat, \A u \in Seen(q) : u < t
    PROVE  Max(Seen(q) \cup {t}) = t
<1> DEFINE S == Seen(q) \cup {t}
<1>1. /\ Seen(q) \in SUBSET Int /\ IsFiniteSet(Seen(q))
  BY SeenFinite
<1>2. IsFiniteSet(S) /\ S \in SUBSET Int /\ t \in S /\ S # {}
  BY <1>1, FS_AddElement
<1>3. Max(S) \in S /\ \A y \in S : y <= Max(S)
  BY <1>2, MaxIs
<1> HIDE DEF Max
<1>4. Max(S) \in Int /\ t <= Max(S)
  BY <1>2, <1>3
<1>5. ~(Max(S) \in Seen(q))
  BY <1>4
<1> QED
  BY <1>3, <1>5

\* Every step keeps the clocks.
LEMMA NextClocked ==
    ASSUME Types, Clocked, [Next]_vars
    PROVE  Clocked'
<1>0. /\ positions \in [Symbols -> Position \cup {None}]
      /\ rate \in [Symbols -> Int] /\ nextFunding \in [Symbols -> Nat \cup {None}]
      /\ fold \in Nat /\ at.t \in Nat
      /\ \A s \in Symbols : <<"ohlcv", s>> \in Streams /\ <<"ticker", s>> \in Streams
  BY DEF Types, SimTypes, RunTypes, Streams
<1>1. CASE UNCHANGED vars
  BY <1>1 DEF vars, simVars, Clocked, LastRate, Clock, Seen
\* One slot read: what a stream has shown and what was set for it.
<1>2. ASSUME Reading, NEW row, Consume(row), fold' = fold
      PROVE  /\ fold' * StepLen <= at'.t
             /\ \A s \in Symbols : Stream # <<"ticker", s>> \/ row = NoRow => LastRate(s)' = LastRate(s)
             /\ \A s \in Symbols : Stream = <<"ticker", s>> /\ row # NoRow => LastRate(s)' = row
             /\ \A s \in Symbols : Stream # <<"ohlcv", s>> \/ row = NoRow => Clock(s)' = Clock(s)
             /\ \A s \in Symbols : Stream = <<"ohlcv", s>> /\ row # NoRow
                                        => /\ Clock(s)' = NextFunding(at.t)
                                           /\ at.t \in Seen(<<"ohlcv", s>>)'
             /\ \A s \in Symbols : \A u \in Seen(<<"ohlcv", s>>) : u \in Seen(<<"ohlcv", s>>)'
  <2>1. /\ fold * StepLen <= at.t /\ fold * StepLen \in Nat /\ at.t <= NextSlot.t
        /\ NextSlot.t \in Nat /\ at' = NextSlot
    BY <1>0, <1>2, NextSlotIs, ConsumeIs, WindowIs DEF Clocked
  <2>2. fold' * StepLen <= at'.t
    <3> DEFINE b == fold * StepLen
    <3>1. b \in Nat /\ b <= at.t
      BY <2>1
    <3> HIDE DEF b
    <3>2. b <= NextSlot.t
      BY <1>0, <2>1, <3>1
    <3> QED
      BY <1>2, <2>1, <3>2 DEF b
  <2>3. ASSUME NEW s \in Symbols, Stream # <<"ticker", s>> \/ row = NoRow
        PROVE  LastRate(s)' = LastRate(s)
    <3> DEFINE q == <<"ticker", s>>
    <3>1. q \in Streams
      BY <1>0
    <3>2. LastRate(s) = IF Seen(q) = {} THEN 0 ELSE tape[q][Max(Seen(q))]
      BY DEF LastRate
    <3>3. LastRate(s)' = IF Seen(q)' = {} THEN 0 ELSE tape'[q][Max(Seen(q)')]
      BY DEF LastRate
    <3>4. Stream # q \/ row = NoRow
      BY <2>3
    <3> HIDE DEF q
    <3>5. Seen(q)' = Seen(q) /\ \A u \in Seen(q) : tape'[q][u] = tape[q][u]
      BY <1>2, <2>1, <3>1, <3>4, SeenLater
    <3>6. Seen(q) # {} => Max(Seen(q)) \in Seen(q)
      BY SeenFinite, MaxIs
    <3> QED
      BY <3>2, <3>3, <3>5, <3>6
  <2>4. ASSUME NEW s \in Symbols, Stream = <<"ticker", s>>, row # NoRow
        PROVE  LastRate(s)' = row
    <3> DEFINE q == <<"ticker", s>>
    <3>1. q \in Streams /\ q = Stream
      BY <1>0, <2>4
    <3>2. LastRate(s)' = IF Seen(q)' = {} THEN 0 ELSE tape'[q][Max(Seen(q)')]
      BY DEF LastRate
    <3> HIDE DEF q
    <3>3. Seen(q)' = Seen(q) \cup {at.t} /\ tape'[q][at.t] = row /\ \A u \in Seen(q) : u < at.t
      BY <1>2, <2>1, <2>4, <3>1, SeenLater
    <3>4. Max(Seen(q)') = at.t
      BY <1>0, <3>3, LatestIs
    <3> QED
      BY <3>2, <3>3, <3>4
  <2>5. ASSUME NEW s \in Symbols, Stream # <<"ohlcv", s>> \/ row = NoRow
        PROVE  Clock(s)' = Clock(s)
    <3> DEFINE q == <<"ohlcv", s>>
    <3>1. q \in Streams /\ (q # Stream \/ row = NoRow)
      BY <1>0, <2>5
    <3>2. Clock(s) = IF Seen(q) = {} THEN None ELSE NextFunding(Max(Seen(q)))
      BY DEF Clock
    <3>3. Clock(s)' = IF Seen(q)' = {} THEN None ELSE NextFunding(Max(Seen(q)'))
      BY DEF Clock
    <3> HIDE DEF q
    <3>4. Seen(q)' = Seen(q)
      BY <1>2, <2>1, <3>1, SeenLater
    <3> QED
      BY <3>2, <3>3, <3>4
  <2>6. ASSUME NEW s \in Symbols, Stream = <<"ohlcv", s>>, row # NoRow
        PROVE  Clock(s)' = NextFunding(at.t) /\ at.t \in Seen(<<"ohlcv", s>>)'
    <3> DEFINE q == <<"ohlcv", s>>
    <3>1. q \in Streams /\ q = Stream
      BY <1>0, <2>6
    <3>2. Clock(s)' = IF Seen(q)' = {} THEN None ELSE NextFunding(Max(Seen(q)'))
      BY DEF Clock
    <3>q. q = <<"ohlcv", s>>
      OBVIOUS
    <3> HIDE DEF q
    <3>3. Seen(q)' = Seen(q) \cup {at.t} /\ \A u \in Seen(q) : u < at.t
      BY <1>2, <2>1, <2>6, <3>1, SeenLater
    <3>4. Max(Seen(q)') = at.t
      BY <1>0, <3>3, LatestIs
    <3> QED
      BY <3>2, <3>3, <3>4, <3>q
  <2>7. ASSUME NEW s \in Symbols, NEW u \in Seen(<<"ohlcv", s>>)
        PROVE  u \in Seen(<<"ohlcv", s>>)'
    <3> DEFINE q == <<"ohlcv", s>>
    <3>1. q \in Streams /\ u \in Seen(q)
      BY <1>0
    <3>q. q = <<"ohlcv", s>>
      OBVIOUS
    <3> HIDE DEF q
    <3>2. u \in Seen(q)'
      BY <1>2, <2>1, <3>1, SeenLater
    <3> QED
      BY <3>2, <3>q
  <2> QED
    BY <2>2, <2>3, <2>4, <2>5, <2>6, <2>7
<1>3. CASE OnOhlcv
  <2>1. PICK s \in Symbols, t \in Times, bar \in Bar : Sample(s, t, bar)
    BY <1>3, OhlcvIs
  <2>2. /\ Reading /\ t = at.t /\ Stream = <<"ohlcv", s>> /\ Consume(bar)
        /\ fold' = fold /\ rate' = rate
        /\ nextFunding' = [nextFunding EXCEPT ![s] = NextFunding(t)]
        /\ positions' = PositionsAfter(s, t, bar)
    BY <2>1 DEF Sample, OnSample
  <2>3. bar # NoRow
    BY <2>1 DEF Sample
  <2>4. \A u \in Symbols : Stream # <<"ticker", u>> /\ (u # s => Stream # <<"ohlcv", u>>)
    BY <2>2
  <2>5. /\ fold' * StepLen <= at'.t
        /\ \A u \in Symbols : LastRate(u)' = LastRate(u)
        /\ \A u \in Symbols : u # s => Clock(u)' = Clock(u)
        /\ Clock(s)' = NextFunding(t) /\ t \in Seen(<<"ohlcv", s>>)'
        /\ \A u \in Symbols : \A v \in Seen(<<"ohlcv", u>>) : v \in Seen(<<"ohlcv", u>>)'
    BY <1>2, <2>2, <2>3, <2>4
  <2>6. \A u \in Symbols : rate'[u] = LastRate(u)'
    BY <2>2, <2>5 DEF Clocked
  <2>7. \A u \in Symbols : nextFunding'[u] = Clock(u)'
    BY <1>0, <2>2, <2>5 DEF Clocked
  <2>8. ASSUME NEW u \in Symbols, positions'[u] # None
        PROVE  positions'[u].ts \in Seen(<<"ohlcv", u>>)'
    <3>1. CASE u # s
      <4>1. positions'[u] = positions[u]
        BY <2>2, <3>1, PositionsAfterAre
      <4> QED
        BY <2>5, <2>8, <4>1 DEF Clocked
    <3>2. CASE u = s /\ Enters(s, t, bar)
      BY <2>2, <2>5, <3>2, PositionsAfterAre
    <3>3. CASE u = s /\ ~Enters(s, t, bar)
      <4>1. positions'[s] = Carried(s, t)
        BY <2>2, <3>3, PositionsAfterAre
      <4>2. positions[s] # None /\ positions'[s].ts = positions[s].ts
        BY <2>8, <3>3, <4>1, CarriedIs
      <4> QED
        BY <2>5, <3>3, <4>2 DEF Clocked
    <3> QED
      BY <3>1, <3>2, <3>3
  <2> QED
    BY <2>5, <2>6, <2>7, <2>8 DEF Clocked
<1>4. CASE OnTicker
  <2>1. PICK row \in RowAt(Stream, at.t) \ {NoRow} :
           Consume(row) /\ rate' = [rate EXCEPT ![Stream[2]] = row]
    BY <1>4 DEF OnTicker
  <2>2. /\ Reading /\ Stream[1] = "ticker" /\ fold' = fold
        /\ positions' = positions /\ nextFunding' = nextFunding
    BY <1>4 DEF OnTicker
  <2>3. PICK s \in Symbols : Stream = <<"ticker", s>> /\ s = Stream[2]
    BY <2>2, ReadingIs
  <2>4. \A u \in Symbols : Stream # <<"ohlcv", u>> /\ (u # s => Stream # <<"ticker", u>>)
    BY <2>3
  <2>5. \A u \in Symbols : rate'[u] = IF u = s THEN row ELSE rate[u]
    BY <1>0, <2>1, <2>3
  <2> QED
    BY <1>2, <2>1, <2>2, <2>3, <2>4, <2>5 DEF Clocked
<1>5. CASE NoRowHere
  <2>1. /\ Reading /\ Consume(NoRow) /\ fold' = fold /\ rate' = rate
        /\ nextFunding' = nextFunding /\ positions' = positions
    BY <1>5 DEF NoRowHere, simVars
  <2> QED
    BY <1>2, <2>1 DEF Clocked
<1>6. CASE Finalize
  BY <1>6 DEF Finalize, Clocked, LastRate, Clock, Seen
<1>7. CASE EndFold
  <2>1. /\ fold' = fold + 1 /\ at' = [t |-> (fold + 1) * StepLen, i |-> 1]
        /\ positions' = [s \in Symbols |-> None] /\ rate' = [s \in Symbols |-> 0]
        /\ nextFunding' = [s \in Symbols |-> None]
    BY <1>7 DEF EndFold, StartFold, NoneYet
  <2>2. fold' * StepLen = at'.t /\ at'.t \in Nat /\ at'.i = 1
    BY <1>0, <2>1, WindowIs
  <2>3. ASSUME NEW q PROVE Seen(q)' = {}
    <3>1. ASSUME NEW u \in Seen(q)' PROVE FALSE
      <4>1. u \in Times /\ u >= fold' * StepLen /\ Slot(q, u, at')
        BY DEF Seen
      <4>2. u \in Nat /\ ~(u < at'.t)
        BY <2>2, <4>1 DEF Times
      <4> QED
        BY <2>2, <4>1, <4>2 DEF Slot
    <3> QED
      BY <3>1
  <2>4. \A s \in Symbols : LastRate(s)' = 0 /\ Clock(s)' = None
    BY <2>3 DEF LastRate, Clock
  <2> QED
    BY <2>1, <2>2, <2>4 DEF Clocked
<1> QED
  BY <1>1, <1>3, <1>4, <1>5, <1>6, <1>7 DEF Next

\* The rate before a time is an integer.
LEMMA RateBeforeIs ==
    ASSUME Types, NEW s \in Symbols, NEW t \in Times
    PROVE  RateBefore(s, t) \in Int
<1> DEFINE q == <<"ticker", s>>
           known == {u \in fold * StepLen..t - 1 : tape[q][u] \notin {NoRow, Unread}}
<1>1. RateBefore(s, t) = IF known = {} THEN 0 ELSE tape[q][Max(known)]
  BY DEF RateBefore
<1>2. fold * StepLen \in Nat /\ t \in Nat /\ TsTo \in Nat /\ t <= TsTo
  BY WindowIs, ConstantsAssumption DEF Types, RunTypes, Times
<1>3. fold * StepLen..t - 1 \subseteq Times /\ fold * StepLen..t - 1 \subseteq Int
  BY <1>2 DEF Times
<1>4. IsFiniteSet(fold * StepLen..t - 1)
  BY <1>2, FS_Interval
<1>5. IsFiniteSet(known)
  BY <1>4, FS_Subset
<1>6. \A u \in Times : tape[q][u] \in Int \cup {NoRow, Unread}
  BY DEF Types, RunTypes
<1>7. known \in SUBSET Int /\ known \subseteq Times /\ \A u \in known : tape[q][u] \notin {NoRow, Unread}
  BY <1>3
<1> HIDE DEF known, q
<1>8. known # {} => Max(known) \in known
  BY <1>5, <1>7, MaxIs
<1>9. ASSUME known # {} PROVE tape[q][Max(known)] \in Int
  <2>1. PICK u \in known : u = Max(known)
    BY <1>8, <1>9
  <2>2. tape[q][u] \in Int
    BY <1>6, <1>7, <2>1
  <2> QED
    BY <2>1, <2>2
<1> QED
  BY <1>1, <1>9

\* It does not change once the time has come.
LEMMA RateBeforeStays ==
    ASSUME Types, Reading, NEW row, Consume(row), fold' = fold, fold * StepLen <= at.t,
           NEW s \in Symbols, NEW t \in Times, t <= at.t
    PROVE  RateBefore(s, t)' = RateBefore(s, t)
<1> DEFINE q == <<"ticker", s>>
           known == {u \in fold * StepLen..t - 1 : tape[q][u] \notin {NoRow, Unread}}
           later == {u \in fold * StepLen..t - 1 : tape'[q][u] \notin {NoRow, Unread}}
<1>1. RateBefore(s, t) = IF known = {} THEN 0 ELSE tape[q][Max(known)]
  BY DEF RateBefore
<1>2. RateBefore(s, t)' = IF later = {} THEN 0 ELSE tape'[q][Max(later)]
  BY DEF RateBefore
<1>3. fold * StepLen \in Nat /\ t \in Nat /\ TsTo \in Nat /\ t <= TsTo /\ at.t \in Nat
  BY WindowIs, ConstantsAssumption DEF Types, RunTypes, Times
<1>4. \A u \in fold * StepLen..t - 1 : u \in Times /\ u < at.t /\ u \in Int
  BY <1>3 DEF Times
<1>5. q \in Streams
  BY DEF Streams
<1> HIDE DEF q
<1>6. \A u \in Times : u < at.t => tape'[q][u] = tape[q][u]
  BY <1>5, SeenLater
<1>7. later = known
  BY <1>4, <1>6
<1>8. IsFiniteSet(fold * StepLen..t - 1)
  BY <1>3, FS_Interval
<1>9. IsFiniteSet(known) /\ known \in SUBSET Int
  BY <1>4, <1>8, FS_Subset
<1>10. known # {} => Max(known) \in known
  BY <1>9, MaxIs
<1>11. known # {} => Max(known) \in Times /\ Max(known) < at.t
  BY <1>4, <1>10
<1> HIDE DEF known, later
<1> QED
  BY <1>1, <1>2, <1>6, <1>7, <1>11

\* At a sample, the last rate set is that of the last ticker before it.
LEMMA RateIsBefore ==
    ASSUME Types, Clocked, Reading, NEW s \in Symbols, Stream = <<"ohlcv", s>>
    PROVE  rate[s] = RateBefore(s, at.t)
<1> DEFINE q == <<"ticker", s>>
           known == {u \in fold * StepLen..at.t - 1 : tape[q][u] \notin {NoRow, Unread}}
<1>1. RateBefore(s, at.t) = IF known = {} THEN 0 ELSE tape[q][Max(known)]
  BY DEF RateBefore
<1>2. rate[s] = IF Seen(q) = {} THEN 0 ELSE tape[q][Max(Seen(q))]
  BY DEF Clocked, LastRate
<1>3. /\ fold * StepLen \in Nat /\ at.t \in Nat /\ TsTo \in Nat /\ at.t <= TsTo
      /\ at.i \in 1..2*N /\ N \in Nat \ {0} /\ Merged[at.i] = <<"ohlcv", s>>
  <2>1. at.t \in Times /\ at.t \in Nat /\ at.i \in 1..2*N /\ fold \in Nat
    BY ReadingIs DEF Types, RunTypes
  <2>2. fold * StepLen \in Nat /\ TsTo \in Nat /\ N \in Nat \ {0}
    BY <2>1, WindowIs, ConstantsAssumption, SymbolsFinite
  <2>3. Merged[at.i] = <<"ohlcv", s>>
    BY DEF Stream
  <2> QED
    BY <2>1, <2>2, <2>3 DEF Times
<1>4. \A j \in 1..(at.i - 1) : Merged[j] # q
  <2>1. \A k \in 1..2*N : Merged[k][1] = IF k <= N THEN "ohlcv" ELSE "ticker"
    BY DEF Merged
  <2>2. at.i <= N
    BY <1>3, <2>1
  <2>3. \A j \in 1..(at.i - 1) : Merged[j][1] = "ohlcv"
    BY <1>3, <2>1, <2>2
  <2> QED
    BY <2>3
<1> HIDE DEF q
<1>5. \A u \in Times : Slot(q, u, at) <=> u < at.t
  BY <1>3, <1>4 DEF Slot, Times
<1>6. \A u : u \in fold * StepLen..at.t - 1 <=> u \in Times /\ u >= fold * StepLen /\ u < at.t
  BY <1>3 DEF Times
<1>7. known = Seen(q)
  BY <1>5, <1>6 DEF Seen
<1> HIDE DEF known
<1> QED
  BY <1>1, <1>2, <1>7

\* What is charged at a time that a sample has reached.
FirstFrom(s, u) == Min({t \in Sampled(s) : t >= u})

\* The first sample at or after a time is one that was read, and its charge a number.
LEMMA FirstFromIs ==
    ASSUME Types, NEW s \in Symbols, NEW u \in Nat, NEW x \in Sampled(s), x >= u
    PROVE  /\ FirstFrom(s, u) \in Sampled(s) /\ FirstFrom(s, u) \in Times
           /\ FirstFrom(s, u) <= at.t /\ Charge(s, u) \in Int
<1> DEFINE S == {t \in Sampled(s) : t >= u}
           q == <<"ohlcv", s>>
<1>1. Sampled(s) = Seen(q) /\ at.t \in Nat
  BY SampledIs DEF Types, RunTypes
<1>2. \A t \in Sampled(s) : t \in Times /\ t <= at.t
  <2>1. \A t \in Seen(q) : t \in Times /\ Slot(q, t, at)
    BY DEF Seen
  <2> QED
    BY <1>1, <2>1 DEF Slot, Times
<1>3. S \in SUBSET Seen(q) /\ x \in S
  BY <1>1
<1>4. Min(S) \in S
  <2>1. S \in SUBSET Int /\ IsFiniteSet(S) /\ S # {}
    BY <1>3, SeenFinite
  <2> HIDE DEF S
  <2> QED
    BY <2>1, MinIs
<1>5. FirstFrom(s, u) \in Sampled(s) /\ FirstFrom(s, u) \in Times /\ FirstFrom(s, u) <= at.t
  BY <1>2, <1>4 DEF FirstFrom
<1>6. RateBefore(s, FirstFrom(s, u)) \in Int
  BY <1>5, RateBeforeIs
<1> QED
  BY <1>5, <1>6 DEF Charge, FirstFrom

\* Sums over an interval exist, and are the same for the same terms.
LEMMA SumFrom ==
    ASSUME NEW from \in Nat, NEW to \in Nat, from <= to, NEW c \in [from..to -> Int]
    PROVE  \E g \in [from..to -> Int] :
              g = [u \in from..to |-> IF u = from THEN 0 ELSE g[u - 1] + c[u]]
<1> DEFINE d == [i \in 1..(to - from) |-> c[from + i]]
<1>1. to - from \in Nat /\ \A i \in 1..(to - from) : from + i \in from..to
  OBVIOUS
<1>2. d \in [1..(to - from) -> Int] /\ \A i \in 1..(to - from) : d[i] = c[from + i]
  BY <1>1
<1> HIDE DEF d
<1>3. PICK zero \in Int : zero = 0
  OBVIOUS
<1>4. PICK h \in [0..(to - from) -> Int] :
         h[0] = zero /\ \A i \in 1..(to - from) : h[i] = h[i - 1] + d[i]
  <2> DEFINE n == to - from
  <2>1. n \in Nat /\ d \in [1..n -> Int]
    BY <1>1, <1>2
  <2> HIDE DEF n
  <2>2. \E h \in [0..n -> Int] : h[0] = zero /\ \A i \in 1..n : h[i] = h[i - 1] + d[i]
    BY <2>1, RunningSum
  <2> QED
    BY <2>2 DEF n
<1> DEFINE g == [u \in from..to |-> h[u - from]]
<1>5. g \in [from..to -> Int]
  BY <1>4
<1>6. \A u \in from..to : g[u] = h[u - from]
  OBVIOUS
<1> HIDE DEF g
<1>7. ASSUME NEW u \in from..to PROVE g[u] = IF u = from THEN 0 ELSE g[u - 1] + c[u]
  <2>1. CASE u = from
    BY <1>3, <1>4, <1>6, <2>1
  <2>2. CASE u # from
    <3>1. /\ u - from \in 1..(to - from) /\ u - 1 \in from..to
          /\ from + (u - from) = u /\ (u - 1) - from = (u - from) - 1
      BY <2>2
    <3>2. h[u - from] = h[(u - from) - 1] + d[u - from] /\ d[u - from] = c[u]
      BY <1>2, <1>4, <3>1
    <3>3. g[u] = h[u - from] /\ g[u - 1] = h[(u - from) - 1]
      BY <1>6, <3>1
    <3> QED
      BY <2>2, <3>2, <3>3
  <2> QED
    BY <2>1, <2>2
<1>8. g = [u \in from..to |-> IF u = from THEN 0 ELSE g[u - 1] + c[u]]
  BY <1>5, <1>7
<1> QED
  BY <1>5, <1>8

\* Two sums of the same terms are the same.
LEMMA SumsAgree ==
    ASSUME NEW from \in Nat, NEW to \in Nat, from <= to, NEW v,
           NEW w \in [from..to -> Int], NEW c \in [from..to -> Int], v[from] = w[from],
           NEW D, D = (from + 1)..to, \A u \in D : v[u] = v[u - 1] + c[u] /\ w[u] = w[u - 1] + c[u]
    PROVE  v[to] = w[to]
<1> DEFINE n == to - from
           P == {i \in 0..n : v[from + i] = w[from + i]}
<1>1. n \in Nat
  OBVIOUS
<1>2. 0 \in P
  BY <1>1
<1>3. ASSUME NEW i \in 1..n, i - 1 \in P PROVE i \in P
  <2>1. from + i \in (from + 1)..to /\ (from + i) - 1 = from + (i - 1) /\ i \in 0..n
    OBVIOUS
  <2> QED
    BY <1>3, <2>1
<1>4. \A i \in 0..n : i \in P
  <2> HIDE DEF P, n
  <2> QED
    BY <1>1, <1>2, <1>3, UpTo
<1>5. n \in 0..n /\ from + n = to
  BY <1>1
<1> QED
  BY <1>4, <1>5

\* What is paid is the sum of the charges.
LEMMA PaidIs ==
    ASSUME NEW s, NEW from \in Nat, NEW to \in Nat, from <= to, NEW c \in [from..to -> Int],
           \A u \in (from + 1)..to : Charge(s, u) = c[u]
    PROVE  \E w \in [from..to -> Int] :
              /\ w[from] = 0 /\ \A u \in (from + 1)..to : w[u] = w[u - 1] + c[u]
              /\ Paid(s, from, to) = w[to]
<1> DEFINE paid == CHOOSE f : f = [u \in from..to |-> IF u = from THEN 0 ELSE f[u - 1] + Charge(s, u)]
<1>1. PICK g \in [from..to -> Int] :
         g = [u \in from..to |-> IF u = from THEN 0 ELSE g[u - 1] + c[u]]
  BY SumFrom
<1>2. \A u \in from..to : u # from => u \in (from + 1)..to
  OBVIOUS
<1>3. g = [u \in from..to |-> IF u = from THEN 0 ELSE g[u - 1] + Charge(s, u)]
  BY <1>1, <1>2
<1>4. paid = [u \in from..to |-> IF u = from THEN 0 ELSE paid[u - 1] + Charge(s, u)]
  BY <1>3
<1>5. Paid(s, from, to) = paid[to]
  BY DEF Paid
<1> HIDE DEF paid
<1>6. /\ paid[from] = 0
      /\ \A u \in (from + 1)..to : paid[u] = paid[u - 1] + c[u]
  BY <1>4
<1>7. /\ g[from] = 0
      /\ \A u \in (from + 1)..to : g[u] = g[u - 1] + c[u]
  BY <1>1
<1>8. paid[to] = g[to]
  <2> DEFINE D == (from + 1)..to
  <2>1. \A u \in D : paid[u] = paid[u - 1] + c[u] /\ g[u] = g[u - 1] + c[u]
    BY <1>6, <1>7
  <2>2. paid[from] = g[from]
    BY <1>6, <1>7
  <2>3. D = (from + 1)..to
    OBVIOUS
  <2> HIDE DEF D
  <2> QED
    BY <2>1, <2>2, <2>3, SumsAgree
<1> QED
  BY <1>5, <1>7, <1>8

\* The same of the next state.
LEMMA PaidLater ==
    ASSUME NEW s, NEW from \in Nat, NEW to \in Nat, from <= to, NEW c \in [from..to -> Int],
           \A u \in (from + 1)..to : Charge(s, u)' = c[u]
    PROVE  \E w \in [from..to -> Int] :
              /\ w[from] = 0 /\ \A u \in (from + 1)..to : w[u] = w[u - 1] + c[u]
              /\ Paid(s, from, to)' = w[to]
<1> DEFINE paid == CHOOSE f : f = [u \in from..to |-> IF u = from THEN 0 ELSE f[u - 1] + Charge(s, u)']
<1>1. PICK g \in [from..to -> Int] :
         g = [u \in from..to |-> IF u = from THEN 0 ELSE g[u - 1] + c[u]]
  BY SumFrom
<1>2. \A u \in from..to : u # from => u \in (from + 1)..to
  OBVIOUS
<1>3. g = [u \in from..to |-> IF u = from THEN 0 ELSE g[u - 1] + Charge(s, u)']
  BY <1>1, <1>2
<1>4. paid = [u \in from..to |-> IF u = from THEN 0 ELSE paid[u - 1] + Charge(s, u)']
  BY <1>3
<1>5. Paid(s, from, to)' = paid[to]
  BY DEF Paid
<1> HIDE DEF paid
<1>6. /\ paid[from] = 0
      /\ \A u \in (from + 1)..to : paid[u] = paid[u - 1] + c[u]
  BY <1>4
<1>7. /\ g[from] = 0
      /\ \A u \in (from + 1)..to : g[u] = g[u - 1] + c[u]
  BY <1>1
<1>8. paid[to] = g[to]
  <2> DEFINE D == (from + 1)..to
  <2>1. \A u \in D : paid[u] = paid[u - 1] + c[u] /\ g[u] = g[u - 1] + c[u]
    BY <1>6, <1>7
  <2>2. paid[from] = g[from]
    BY <1>6, <1>7
  <2>3. D = (from + 1)..to
    OBVIOUS
  <2> HIDE DEF D
  <2> QED
    BY <2>1, <2>2, <2>3, SumsAgree
<1> QED
  BY <1>5, <1>7, <1>8

\* The funding times from the clock on are those after the sample that set it.
LEMMA FundingTimes ==
    ASSUME NEW m \in Nat, NEW t \in Nat
    PROVE  {u \in NextFunding(m)..t : u % FundingPeriod = 0}
              = {u \in (m + 1)..t : u % FundingPeriod = 0}
<1>1. PICK F \in Nat \ {0} : F = FundingPeriod
  BY ConstantsAssumption
<1>2. PICK k \in Nat : k = m \div F
  BY <1>1
<1>3. NextFunding(m) = (k + 1) * F
  BY <1>1, <1>2 DEF NextFunding
<1>4. F * k <= m /\ m < F * (k + 1)
  BY <1>2
<1>5. PICK next \in Nat : next = (k + 1) * F
  BY <1>1, <1>2
<1>6. next > m
  BY <1>4, <1>5
<1>7. ASSUME NEW u \in Nat, u > m, u % F = 0 PROVE next <= u
  <2>1. PICK j \in Nat : j = u \div F
    BY <1>1
  <2>2. u = F * j
    BY <1>1, <1>7, <2>1
  <2>3. ~(j <= k)
    <3>1. ASSUME j <= k PROVE F * j <= F * k
      BY <3>1
    <3>2. F * j \in Int /\ F * k \in Int
      OBVIOUS
    <3> QED
      BY <1>4, <1>7, <2>2, <3>1, <3>2
  <2>4. k + 1 <= j
    BY <2>3
  <2>5. F * (k + 1) <= F * j
    BY <2>4
  <2> QED
    BY <1>5, <2>2, <2>5
<1>8. \A u : (u \in next..t /\ u % F = 0) <=> (u \in (m + 1)..t /\ u % F = 0)
  <2>1. ASSUME NEW u \in next..t PROVE u \in (m + 1)..t
    BY <1>6
  <2>2. ASSUME NEW u \in (m + 1)..t, u % F = 0 PROVE u \in next..t
    <3>1. u \in Nat /\ u > m
      OBVIOUS
    <3>2. next <= u
      BY <1>7, <2>2, <3>1
    <3> QED
      BY <3>2
  <2> QED
    BY <2>1, <2>2
<1> QED
  BY <1>1, <1>3, <1>5, <1>8

\* The funding times after m and up to t, counted.
Due(m, t) == Cardinality({u \in (m + 1)..t : u % FundingPeriod = 0})

\* They grow by one at every funding time.
LEMMA DueIs ==
    ASSUME NEW m \in Nat, NEW t \in Nat, m <= t
    PROVE  /\ Due(m, m) = 0 /\ Due(m, t) \in Nat
           /\ Due(m, t + 1) = IF (t + 1) % FundingPeriod = 0 THEN Due(m, t) + 1 ELSE Due(m, t)
<1> DEFINE A == {u \in (m + 1)..t : u % FundingPeriod = 0}
           B == {u \in (m + 1)..(t + 1) : u % FundingPeriod = 0}
<1>1. IsFiniteSet((m + 1)..t)
  BY FS_Interval
<1>2. IsFiniteSet(A)
  BY <1>1, FS_Subset
<1>3. \A u : u \in (m + 1)..(t + 1) <=> u \in (m + 1)..t \/ u = t + 1
  OBVIOUS
<1>4. PICK x : x = t + 1
  OBVIOUS
<1>5. B = IF x % FundingPeriod = 0 THEN A \cup {x} ELSE A
  BY <1>3, <1>4
<1>6. x \notin A
  BY <1>4
<1>7. {u \in (m + 1)..m : u % FundingPeriod = 0} = {}
  OBVIOUS
<1>8. Due(m, t) = Cardinality(A) /\ Due(m, t + 1) = Cardinality(B)
  BY DEF Due
<1> HIDE DEF A, B
<1>9. Cardinality(A) \in Nat /\ Cardinality(A \cup {x}) = Cardinality(A) + 1
  BY <1>2, <1>6, FS_CardinalityType, FS_AddElement
<1>10. Due(m, m) = 0
  BY <1>7, FS_EmptySet DEF Due
<1> QED
  BY <1>4, <1>5, <1>8, <1>9, <1>10

\* The last sample of a symbol that has one.
Latest(s) == Max(Sampled(s))

\* It is one of the samples, and none is later.
LEMMA LatestSample ==
    ASSUME Types, NEW s \in Symbols, NEW x \in Sampled(s)
    PROVE  /\ Latest(s) \in Sampled(s) /\ Latest(s) \in Nat /\ Latest(s) \in Times
           /\ \A u \in Sampled(s) : u \in Nat /\ u <= Latest(s)
<1>1. Sampled(s) \in SUBSET Seen(<<"ohlcv", s>>)
  BY SampledIs
<1>2. Sampled(s) \in SUBSET Int /\ Sampled(s) \in SUBSET Nat /\ IsFiniteSet(Sampled(s))
  BY <1>1, SeenFinite
<1>3. Latest(s) \in Sampled(s) /\ \A u \in Sampled(s) : u <= Latest(s)
  BY <1>2, MaxIs DEF Latest
<1>4. \A u \in Sampled(s) : u \in Times
  BY <1>1 DEF Seen
<1> QED
  BY <1>2, <1>3, <1>4

\* A charge is the same after a step that keeps the first sample it waits for.
LEMMA ChargeStays ==
    ASSUME Types, Reading, NEW row, Consume(row), fold' = fold, fold * StepLen <= at.t,
           NEW s \in Symbols, NEW u \in Nat, NEW x \in Times, x <= at.t,
           FirstFrom(s, u)' = x
    PROVE  Charge(s, u)' = IF u % FundingPeriod # 0 THEN 0 ELSE RateBefore(s, x)
<1>1. RateBefore(s, x)' = RateBefore(s, x)
  BY RateBeforeStays
<1>2. Charge(s, u)' = IF u % FundingPeriod # 0 THEN 0 ELSE RateBefore(s, FirstFrom(s, u))'
  BY DEF Charge, FirstFrom
<1>3. RateBefore(s, FirstFrom(s, u))' = RateBefore(s, x)'
  BY DEF RateBefore
<1> QED
  BY <1>1, <1>2, <1>3

\* Where no new sample has come, nothing more is paid.
LEMMA PaidStays ==
    ASSUME Types, Reading, NEW row, Consume(row), fold' = fold, fold * StepLen <= at.t,
           NEW s \in Symbols, Sampled(s)' = Sampled(s), NEW from \in Sampled(s)
    PROVE  Paid(s, from, Latest(s))' = Paid(s, from, Latest(s))
<1>1. PICK m \in Nat : m = Latest(s)
  BY LatestSample
<1>2. m \in Sampled(s) /\ from \in Nat /\ from <= m
  BY <1>1, LatestSample
<1>3. Latest(s)' = m
  BY <1>1 DEF Latest
<1> DEFINE c == [u \in from..m |-> Charge(s, u)]
<1>4. ASSUME NEW u \in from..m PROVE Charge(s, u) \in Int /\ Charge(s, u)' = Charge(s, u)
  <2>1. u \in Nat /\ m >= u
    BY <1>2
  <2>2. PICK x \in Times : x = FirstFrom(s, u) /\ x <= at.t
    BY <1>2, <2>1, FirstFromIs
  <2>3. FirstFrom(s, u)' = x
    BY <2>2 DEF FirstFrom
  <2>4. Charge(s, u)' = IF u % FundingPeriod # 0 THEN 0 ELSE RateBefore(s, x)
    BY <2>1, <2>2, <2>3, ChargeStays
  <2>5. Charge(s, u) = IF u % FundingPeriod # 0 THEN 0 ELSE RateBefore(s, x)
    BY <2>2 DEF Charge, FirstFrom
  <2>6. Charge(s, u) \in Int
    BY <1>2, <2>1, FirstFromIs
  <2> QED
    BY <2>4, <2>5, <2>6
<1>5. c \in [from..m -> Int]
  BY <1>4
<1>6. \A u \in (from + 1)..m : u \in from..m
  BY <1>2
<1>7. \A u \in (from + 1)..m : Charge(s, u) = c[u] /\ Charge(s, u)' = c[u]
  BY <1>4, <1>6
<1> HIDE DEF c
<1>8. PICK w \in [from..m -> Int] :
         /\ w[from] = 0 /\ \A u \in (from + 1)..m : w[u] = w[u - 1] + c[u]
         /\ Paid(s, from, m) = w[m]
  BY <1>2, <1>5, <1>7, PaidIs
<1>9. PICK v \in [from..m -> Int] :
         /\ v[from] = 0 /\ \A u \in (from + 1)..m : v[u] = v[u - 1] + c[u]
         /\ Paid(s, from, m)' = v[m]
  BY <1>2, <1>5, <1>7, PaidLater
<1>10. v[m] = w[m]
  <2> DEFINE D == (from + 1)..m
  <2>1. \A u \in D : v[u] = v[u - 1] + c[u] /\ w[u] = w[u - 1] + c[u]
    BY <1>8, <1>9
  <2>2. v[from] = w[from] /\ D = (from + 1)..m
    BY <1>8, <1>9
  <2> HIDE DEF D
  <2> QED
    BY <1>2, <1>5, <2>1, <2>2, SumsAgree, ZenonT(60)
<1>11. Paid(s, from, Latest(s))' = Paid(s, from, m)'
  BY <1>3 DEF Paid
<1> QED
  BY <1>1, <1>8, <1>9, <1>10, <1>11

\* What the sample of a symbol adds: the rate before it, for every funding time
\* since the sample before.
LEMMA PaidGrows ==
    ASSUME Types, Clocked, NEW s \in Symbols, NEW t \in Times, NEW bar \in Bar, Sample(s, t, bar),
           NEW from \in Sampled(s)
    PROVE  /\ Paid(s, from, Latest(s)) \in Int
           /\ Paid(s, from, Latest(s))'
                 = Paid(s, from, Latest(s)) + FundingsDue(s, t) * rate[s]
<1> DEFINE q == <<"ohlcv", s>>
<1>1. /\ Reading /\ t = at.t /\ Stream = q /\ bar # NoRow /\ Consume(bar) /\ fold' = fold
      /\ fold * StepLen <= at.t /\ t \in Nat
  BY DEF Sample, Clocked, Times
<1>2. /\ Sampled(s) = Seen(q) /\ Sampled(s)' = Seen(q)' /\ q \in Streams
  BY <1>1, SampledIs, SampledLater DEF Streams
<1> HIDE DEF q
<1>3. Sampled(s)' = Sampled(s) \cup {t} /\ \A u \in Sampled(s) : u < t
  BY <1>1, <1>2, SeenLater
<1>4. PICK m \in Nat : m = Latest(s)
  BY LatestSample
<1>5. /\ m \in Sampled(s) /\ from \in Nat /\ from <= m /\ m < t
      /\ \A u \in Sampled(s) : u \in Nat /\ u <= m
  BY <1>3, <1>4, LatestSample
<1>6. Latest(s)' = t
  <2>1. Max(Sampled(s) \cup {t}) = t
    BY <1>1, <1>2, <1>3, LatestIs
  <2> QED
    BY <1>3, <2>1 DEF Latest
<1>7. PICK r \in Int : r = rate[s] /\ r = RateBefore(s, t)
  <2>1. rate[s] = RateBefore(s, t)
    BY <1>1, RateIsBefore DEF q
  <2> QED
    BY <2>1, RateBeforeIs
<1> DEFINE c == [u \in from..t |-> IF u <= m THEN Charge(s, u)
                                   ELSE IF u % FundingPeriod # 0 THEN 0 ELSE r]
\* Up to the last sample nothing changes.
<1>8. ASSUME NEW u \in from..m PROVE Charge(s, u) \in Int /\ Charge(s, u)' = Charge(s, u)
  <2>1. u \in Nat /\ m >= u
    BY <1>5
  <2>2. PICK x \in Times : x = FirstFrom(s, u) /\ x <= at.t
    BY <1>5, <2>1, FirstFromIs
  <2>3. FirstFrom(s, u)' = x
    <3> DEFINE S == {v \in Sampled(s) : v >= u}
    <3>1. FirstFrom(s, u)' = Min({v \in Sampled(s) \cup {t} : v >= u})
      BY <1>3 DEF FirstFrom
    <3>2. {v \in Sampled(s) \cup {t} : v >= u} = S \cup {t}
      BY <1>1, <1>5, <2>1
    <3>3. x = Min(S)
      BY <2>2 DEF FirstFrom
    <3>4. S \in SUBSET Int /\ IsFiniteSet(S) /\ m \in S
      <4>1. S \in SUBSET Seen(q) /\ m \in S
        BY <1>2, <1>5, <2>1
      <4> HIDE DEF S
      <4> QED
        BY <4>1, SeenFinite
    <3> HIDE DEF S
    <3>5. x \in S /\ \A v \in S : x <= v
      BY <3>3, <3>4, MinIs
    <3>6. IsFiniteSet(S \cup {t}) /\ (S \cup {t}) \in SUBSET Int /\ S \cup {t} # {}
      <4>1. IsFiniteSet(S \cup {t})
        BY <3>4, FS_AddElement
      <4>2. t \in Int
        BY <1>1
      <4> QED
        BY <3>4, <4>1, <4>2
    <3>7. Min(S \cup {t}) \in S \cup {t} /\ \A v \in S \cup {t} : Min(S \cup {t}) <= v
      BY <3>6, MinIs
    <3>8. \A v \in S : v \in Int /\ v < t
      <4>1. \A v \in S : v \in Sampled(s)
        BY DEF S
      <4> QED
        BY <1>3, <3>4, <4>1
    <3>9. Min(S \cup {t}) = x
      <4> DEFINE y == Min(S \cup {t})
      <4>1. (y \in S \/ y = t) /\ y <= x /\ x \in S
        BY <3>5, <3>7
      <4> HIDE DEF y
      <4>2. x \in Int /\ x < t /\ t \in Int
        BY <1>1, <3>8, <4>1
      <4>3. y \in S
        BY <4>1, <4>2
      <4>4. y \in Int /\ x <= y
        BY <3>5, <3>8, <4>3
      <4>5. y = x
        BY <4>1, <4>2, <4>4
      <4> QED
        BY <4>5 DEF y
    <3> QED
      BY <3>1, <3>2, <3>9 DEF S
  <2>4. Charge(s, u)' = IF u % FundingPeriod # 0 THEN 0 ELSE RateBefore(s, x)
    BY <1>1, <2>1, <2>2, <2>3, ChargeStays
  <2>5. Charge(s, u) = IF u % FundingPeriod # 0 THEN 0 ELSE RateBefore(s, x)
    BY <2>2 DEF Charge, FirstFrom
  <2>6. Charge(s, u) \in Int
    BY <1>5, <2>1, FirstFromIs
  <2> QED
    BY <2>4, <2>5, <2>6
\* Above it, this sample is the first.
<1>9. ASSUME NEW u \in (m + 1)..t
      PROVE  Charge(s, u)' = IF u % FundingPeriod # 0 THEN 0 ELSE r
  <2>1. u \in Nat
    BY <1>5
  <2>2. {v \in Sampled(s) \cup {t} : v >= u} = {t}
    <3>1. ASSUME NEW v \in Sampled(s), v >= u PROVE FALSE
      <4>1. v \in Nat /\ v <= m
        BY <1>5
      <4> QED
        BY <2>1, <3>1, <4>1
    <3>2. t >= u
      BY <1>1
    <3> QED
      BY <3>1, <3>2
  <2>3. FirstFrom(s, u)' = Min({t})
    BY <1>3, <2>2 DEF FirstFrom
  <2>4. Min({t}) = t
    BY <1>1 DEF Min
  <2>5. Charge(s, u)' = IF u % FundingPeriod # 0 THEN 0 ELSE RateBefore(s, t)
    BY <1>1, <2>1, <2>3, <2>4, ChargeStays
  <2> QED
    BY <1>7, <2>5
<1>10. \A u \in from..t : \/ u <= m /\ u \in from..m
                          \/ ~(u <= m) /\ u \in (m + 1)..t
  BY <1>1, <1>5
<1>11. c \in [from..t -> Int]
  BY <1>7, <1>8, <1>10
<1>12. /\ \A u \in from..m : u \in from..t /\ c[u] = Charge(s, u)
       /\ \A u \in (m + 1)..t : u \in from..t /\ c[u] = IF u % FundingPeriod # 0 THEN 0 ELSE r
  BY <1>1, <1>5
<1> HIDE DEF c
<1> DEFINE b == [u \in from..m |-> c[u]]
<1>13. b \in [from..m -> Int] /\ \A u \in from..m : b[u] = c[u]
  BY <1>11, <1>12
<1> HIDE DEF b
<1>14. PICK w \in [from..m -> Int] :
         /\ w[from] = 0 /\ \A u \in (from + 1)..m : w[u] = w[u - 1] + b[u]
         /\ Paid(s, from, m) = w[m]
  <2>1. \A u \in (from + 1)..m : u \in from..m
    BY <1>5
  <2>2. \A u \in (from + 1)..m : Charge(s, u) = b[u]
    BY <1>12, <1>13, <2>1
  <2> QED
    BY <1>5, <1>13, <2>2, PaidIs
<1>15. PICK v \in [from..t -> Int] :
         /\ v[from] = 0 /\ \A u \in (from + 1)..t : v[u] = v[u - 1] + c[u]
         /\ Paid(s, from, t)' = v[t]
  <2>1. \A u \in (from + 1)..t : u \in from..t
    BY <1>5
  <2>2. \A u \in (from + 1)..t : Charge(s, u)' = c[u]
    BY <1>8, <1>9, <1>10, <1>12, <2>1
  <2>3. from <= t /\ from \in Nat /\ t \in Nat
    BY <1>1, <1>5
  <2>4. \E v \in [from..t -> Int] :
           /\ v[from] = 0 /\ \A u \in (from + 1)..t : v[u] = v[u - 1] + c[u]
           /\ Paid(s, from, t)' = v[t]
    BY <1>11, <2>2, <2>3, PaidLater, ZenonT(60)
  <2> QED
    BY <2>4
<1>16. v[m] = w[m]
  <2> DEFINE D == (from + 1)..m
  <2>1. \A u \in D : u \in from..m /\ u \in (from + 1)..t
    BY <1>1, <1>5
  <2>2. \A u \in D : v[u] = v[u - 1] + b[u] /\ w[u] = w[u - 1] + b[u]
    BY <1>13, <1>14, <1>15, <2>1
  <2>3. v[from] = w[from] /\ D = (from + 1)..m
    BY <1>14, <1>15
  <2> HIDE DEF D
  <2> QED
    BY <1>5, <1>13, <2>2, <2>3, SumsAgree
<1>17. w[m] \in Int
  BY <1>5, <1>14
\* After it, every funding time takes the rate.
<1>18. v[t] = v[m] + Due(m, t) * r
  <2>a. m <= t /\ m \in Nat /\ t \in Nat /\ r \in Int
    BY <1>1, <1>5
  <2>b. \A u \in (m + 1)..t : v[u] = v[u - 1] + (IF u % FundingPeriod # 0 THEN 0 ELSE r)
    BY <1>1, <1>5, <1>12, <1>15
  <2>c. v[m] \in Int
    <3>1. m \in from..t
      BY <1>1, <1>5
    <3> QED
      BY <1>15, <3>1
  <2> DEFINE n == t - m
             P == {i \in 0..n : v[m + i] = v[m] + Due(m, m + i) * r}
  <2>1. n \in Nat /\ v[m] \in Int
    BY <2>a, <2>c
  <2>2. 0 \in P
    <3>1. Due(m, m) = 0 /\ m + 0 = m
      BY <2>a, DueIs
    <3> QED
      BY <2>1, <3>1
  <2>3. ASSUME NEW i \in 1..n, i - 1 \in P PROVE i \in P
    <3>1. PICK u \in Nat : u = m + (i - 1)
      BY <2>a
    <3>2. m <= u /\ u + 1 = m + i /\ u + 1 \in (m + 1)..t /\ (u + 1) - 1 = u
      BY <2>a, <3>1
    <3>3. v[u + 1] = v[u] + (IF (u + 1) % FundingPeriod # 0 THEN 0 ELSE r)
      BY <2>b, <3>2
    <3>4. PICK k \in Nat : k = Due(m, u)
      BY <2>a, <3>2, DueIs
    <3>5. Due(m, u + 1) = IF (u + 1) % FundingPeriod = 0 THEN k + 1 ELSE k
      BY <2>a, <3>2, <3>4, DueIs
    <3>6. v[u] = v[m] + k * r
      BY <2>3, <3>1, <3>4
    <3>7. (k + 1) * r = k * r + r /\ k * r \in Int
      BY <2>a
    <3>8. v[u + 1] = v[m] + Due(m, u + 1) * r
      <4>1. CASE (u + 1) % FundingPeriod = 0
        <5>1. v[u + 1] = v[m] + k * r + r /\ Due(m, u + 1) = k + 1
          BY <3>3, <3>5, <3>6, <4>1
        <5> QED
          BY <2>1, <3>7, <5>1
      <4>2. CASE (u + 1) % FundingPeriod # 0
        <5>1. v[u + 1] = v[m] + k * r + 0 /\ Due(m, u + 1) = k
          BY <3>3, <3>5, <3>6, <4>2
        <5> QED
          BY <2>1, <3>7, <5>1
      <4> QED
        BY <4>1, <4>2
    <3> QED
      BY <3>2, <3>8
  <2>4. \A i \in 0..n : i \in P
    <3> HIDE DEF P, n
    <3> QED
      BY <2>1, <2>2, <2>3, UpTo
  <2>5. n \in 0..n /\ m + n = t
    BY <2>1, <2>a
  <2>6. n \in P
    BY <2>4, <2>5
  <2> QED
    BY <2>5, <2>6
<1>19. FundingsDue(s, t) = Due(m, t)
  <2>1. nextFunding[s] = NextFunding(m)
    BY <1>2, <1>4, <1>5 DEF Clocked, Clock, Latest, q
  <2>2. NextFunding(m) # None
    BY <1>4, NextFundingIs, NoneIs
  <2> QED
    BY <1>1, <2>1, <2>2, FundingTimes DEF FundingsDue, Due
<1>20. Paid(s, from, Latest(s))' = Paid(s, from, t)'
  BY <1>6 DEF Paid
<1> QED
  BY <1>4, <1>7, <1>14, <1>15, <1>16, <1>17, <1>18, <1>19, <1>20

\* FundingFollowsTape, of one symbol.
Funded(s) ==
    LET pos  == positions[s]
        paid == Paid(s, pos.ts, Latest(s))
    IN  pos # None /\ IncludeFunding => pos.funding = IF pos.dir = "LONG" THEN paid ELSE -paid

\* A step that samples another symbol, or none, leaves it alone.
LEMMA FundedStays ==
    ASSUME Types, Clocked, Reading, NEW row, Consume(row), fold' = fold, NEW s \in Symbols,
           Stream # <<"ohlcv", s>> \/ row = NoRow, positions'[s] = positions[s], Funded(s)
    PROVE  Funded(s)'
<1> SUFFICES ASSUME positions[s] # None, IncludeFunding
             PROVE  positions'[s].funding = IF positions'[s].dir = "LONG"
                                            THEN Paid(s, positions[s].ts, Latest(s))'
                                            ELSE -Paid(s, positions[s].ts, Latest(s))'
  BY DEF Funded
<1> DEFINE q == <<"ohlcv", s>>
<1>1. q \in Streams /\ Sampled(s) = Seen(q) /\ Sampled(s)' = Seen(q)' /\ fold * StepLen <= at.t
  BY SampledIs, SampledLater DEF Streams, Clocked
<1>2. Stream # q \/ row = NoRow
  OBVIOUS
<1>3. positions[s].ts \in Sampled(s)
  BY <1>1 DEF Clocked
<1> HIDE DEF q
<1>4. Sampled(s)' = Sampled(s)
  BY <1>1, <1>2, SeenLater
<1>5. PICK from \in Sampled(s) : from = positions[s].ts
  BY <1>3
<1>6. Paid(s, from, Latest(s))' = Paid(s, from, Latest(s))
  BY <1>1, <1>4, PaidStays
<1>7. Paid(s, positions[s].ts, Latest(s))' = Paid(s, from, Latest(s))'
  BY <1>5 DEF Paid
<1>8. positions[s].funding = IF positions[s].dir = "LONG"
                             THEN Paid(s, from, Latest(s)) ELSE -Paid(s, from, Latest(s))
  BY <1>5 DEF Funded
<1> QED
  BY <1>6, <1>7, <1>8

\* A sample of the symbol: an entry owes nothing yet, a position that is carried
\* pays what the sample adds.
LEMMA FundedGrows ==
    ASSUME Types, Clocked, NEW s \in Symbols, NEW t \in Times, NEW bar \in Bar, Sample(s, t, bar),
           Funded(s)
    PROVE  Funded(s)'
<1>1. /\ Reading /\ t = at.t /\ Stream = <<"ohlcv", s>> /\ bar # NoRow /\ Consume(bar)
      /\ fold' = fold /\ fold * StepLen <= at.t /\ t \in Nat
      /\ positions' = PositionsAfter(s, t, bar)
  BY DEF Sample, OnSample, Clocked, Times
<1> SUFFICES ASSUME positions'[s] # None, IncludeFunding
             PROVE  positions'[s].funding = IF positions'[s].dir = "LONG"
                                            THEN Paid(s, positions[s].ts, Latest(s))'
                                            ELSE -Paid(s, positions[s].ts, Latest(s))'
  BY DEF Funded
<1>2. CASE Enters(s, t, bar)
  <2>1. positions'[s].ts = t /\ positions'[s].funding = 0
    BY <1>1, <1>2, PositionsAfterAre
  <2>2. Latest(s)' = t
    <3> DEFINE q == <<"ohlcv", s>>
    <3>1. q \in Streams /\ Stream = q /\ Sampled(s)' = Seen(q)'
      BY <1>1, SampledLater DEF Streams
    <3> HIDE DEF q
    <3>2. Seen(q)' = Seen(q) \cup {t} /\ \A u \in Seen(q) : u < t
      BY <1>1, <3>1, SeenLater
    <3>3. Max(Seen(q) \cup {t}) = t
      BY <1>1, <3>2, LatestIs
    <3> QED
      BY <3>1, <3>2, <3>3 DEF Latest
  <2>3. Paid(s, t, t)' = 0
    <3> DEFINE c == [u \in t..t |-> 0]
    <3>1. c \in [t..t -> Int] /\ \A u \in (t + 1)..t : Charge(s, u)' = c[u]
      BY <1>1
    <3> HIDE DEF c
    <3>2. t \in Nat /\ t <= t
      BY <1>1
    <3>3. \E w \in [t..t -> Int] :
             /\ w[t] = 0 /\ \A u \in (t + 1)..t : w[u] = w[u - 1] + c[u]
             /\ Paid(s, t, t)' = w[t]
      BY ONLY <3>1, <3>2, PaidLater
    <3> QED
      BY <3>3
  <2>4. Paid(s, positions[s].ts, Latest(s))' = Paid(s, t, t)'
    BY <2>1, <2>2 DEF Paid
  <2>5. PICK none \in Int : none = 0 /\ -none = none
    OBVIOUS
  <2>6. Paid(s, positions[s].ts, Latest(s))' = none
    BY <2>3, <2>4, <2>5
  <2> QED
    BY <2>1, <2>5, <2>6
<1>3. CASE ~Enters(s, t, bar)
  <2>1. positions'[s] = Carried(s, t)
    BY <1>1, <1>3, PositionsAfterAre
  <2>2. /\ positions[s] # None /\ positions'[s].ts = positions[s].ts
        /\ positions'[s].dir = positions[s].dir
        /\ positions'[s].funding
              = positions[s].funding + FundingsDue(s, t) * FundingDelta(s, positions[s])
    BY <2>1, CarriedIs
  <2>3. PICK from \in Sampled(s) : from = positions[s].ts
    <3>1. positions[s].ts \in Seen(<<"ohlcv", s>>)
      BY <2>2 DEF Clocked
    <3> QED
      BY <3>1, SampledIs
  <2>4. PICK k \in Nat : k = FundingsDue(s, t)
    BY FundingsDueIs
  <2>5. PICK r \in Int : r = rate[s]
    BY DEF Types, SimTypes
  <2>6. PICK p \in Int : p = Paid(s, from, Latest(s)) /\ Paid(s, from, Latest(s))' = p + k * r
    BY <2>4, <2>5, PaidGrows
  <2>7. Paid(s, positions[s].ts, Latest(s))' = p + k * r
    <3>1. Paid(s, positions[s].ts, Latest(s))' = Paid(s, from, Latest(s))'
      BY <2>2, <2>3 DEF Paid
    <3> QED
      BY <2>6, <3>1
  <2>8. positions[s].funding = IF positions[s].dir = "LONG" THEN p ELSE -p
    BY <2>2, <2>3, <2>6 DEF Funded
  <2>9. FundingDelta(s, positions[s]) = IF positions[s].dir = "LONG" THEN r ELSE -r
    BY <2>5 DEF FundingDelta
  <2>10. k * r \in Int /\ k * (-r) = -(k * r) /\ -(p + k * r) = -p + -(k * r)
    OBVIOUS
  <2>11. CASE positions[s].dir = "LONG"
    BY <2>2, <2>4, <2>7, <2>8, <2>9, <2>11
  <2>12. CASE positions[s].dir # "LONG"
    <3>1. positions'[s].funding = -p + k * (-r)
      BY <2>2, <2>4, <2>8, <2>9, <2>12
    <3> QED
      BY <2>2, <2>7, <2>10, <2>12, <3>1
  <2> QED
    BY <2>11, <2>12
<1> QED
  BY <1>2, <1>3

\* Every step keeps what the positions owe.
LEMMA NextFunded ==
    ASSUME Types, Clocked, [Next]_vars, \A s \in Symbols : Funded(s)
    PROVE  \A s \in Symbols : Funded(s)'
<1> SUFFICES ASSUME NEW s \in Symbols PROVE Funded(s)'
  OBVIOUS
<1>0. Funded(s)
  OBVIOUS
<1>1. CASE UNCHANGED vars
  <2>1. UNCHANGED <<fold, at, tape, positions>>
    BY <1>1 DEF vars, simVars
  <2>2. Latest(s)' = Latest(s) /\ positions'[s] = positions[s]
    BY <2>1 DEF Latest, Sampled
  <2>3. Paid(s, positions[s].ts, Latest(s))' = Paid(s, positions[s].ts, Latest(s))
    BY <2>1, SMTT(60) DEF Paid, Latest, Charge, Sampled, RateBefore
  <2> QED
    BY <1>0, <2>2, <2>3 DEF Funded
<1>2. CASE OnOhlcv
  <2>1. PICK u \in Symbols, t \in Times, bar \in Bar : Sample(u, t, bar)
    BY <1>2, OhlcvIs
  <2>2. CASE u = s
    BY <1>0, <2>1, <2>2, FundedGrows
  <2>3. CASE u # s
    <3>1. /\ Reading /\ Stream = <<"ohlcv", u>> /\ Consume(bar) /\ fold' = fold
          /\ positions' = PositionsAfter(u, t, bar)
      BY <2>1 DEF Sample, OnSample
    <3>2. Stream # <<"ohlcv", s>>
      BY <2>3, <3>1
    <3>3. positions'[s] = positions[s]
      BY <2>3, <3>1, PositionsAfterAre
    <3> QED
      BY <1>0, <3>1, <3>2, <3>3, FundedStays
  <2> QED
    BY <2>2, <2>3
<1>3. CASE OnTicker
  <2>1. PICK row \in RowAt(Stream, at.t) \ {NoRow} : Consume(row)
    BY <1>3 DEF OnTicker
  <2>2. Reading /\ Stream[1] = "ticker" /\ fold' = fold /\ positions'[s] = positions[s]
    BY <1>3 DEF OnTicker
  <2>3. Stream # <<"ohlcv", s>>
    BY <2>2
  <2> QED
    BY <1>0, <2>1, <2>2, <2>3, FundedStays
<1>4. CASE NoRowHere
  <2>1. Reading /\ Consume(NoRow) /\ fold' = fold /\ positions'[s] = positions[s]
    BY <1>4 DEF NoRowHere, simVars
  <2> QED
    BY <1>0, <2>1, FundedStays
<1>5. CASE Finalize \/ EndFold
  <2>1. positions'[s] = None
    BY <1>5 DEF Finalize, EndFold, StartFold, NoneYet
  <2> QED
    BY <2>1 DEF Funded
<1> QED
  BY <1>1, <1>2, <1>3, <1>4, <1>5 DEF Next

\* Nothing is held and no clock runs at the start.
LEMMA InitClocked ==
    ASSUME Init
    PROVE  Clocked /\ \A s \in Symbols : Funded(s)
<1>1. /\ fold = 0 /\ at = [t |-> 0, i |-> 1] /\ rate = [s \in Symbols |-> 0]
      /\ nextFunding = [s \in Symbols |-> None] /\ positions = [s \in Symbols |-> None]
  BY DEF Init, NoneYet
<1>2. fold * StepLen = 0
  <2>1. PICK step \in Nat : step = StepLen
    BY ConstantsAssumption
  <2> QED
    BY <1>1, <2>1
<1>3. ASSUME NEW q PROVE Seen(q) = {}
  <2>1. ASSUME NEW u \in Seen(q) PROVE FALSE
    <3>1. u \in Nat /\ Slot(q, u, at)
      BY DEF Seen, Times
    <3> QED
      BY <1>1, <3>1 DEF Slot
  <2> QED
    BY <2>1
<1>4. \A s \in Symbols : LastRate(s) = 0 /\ Clock(s) = None
  BY <1>3 DEF LastRate, Clock
<1> QED
  BY <1>1, <1>2, <1>4 DEF Clocked, Funded

\* on_ohlcv, _apply_funding, _next_funding_ts: a held position has been charged,
\* for every funding time since its entry that a sample has reached, the rate of
\* the last ticker read before that sample, for a long, and its opposite for a
\* short: no funding time is missed, none is charged twice, none at a later rate.
THEOREM FundingIsPaid == Spec => []FundingFollowsTape
<1> DEFINE AllFunded == \A s \in Symbols : Funded(s)
<1>1. Init => Clocked /\ AllFunded
  BY InitClocked
<1>2. Types /\ Clocked /\ AllFunded /\ [Next]_vars => Clocked' /\ AllFunded'
  BY NextClocked, NextFunded
<1>3. AllFunded => FundingFollowsTape
  <2> SUFFICES ASSUME AllFunded, NEW s \in Held
               PROVE  IncludeFunding => positions[s].funding
                         = IF positions[s].dir = "LONG" THEN Paid(s, positions[s].ts, Latest(s))
                                                        ELSE -Paid(s, positions[s].ts, Latest(s))
    BY DEF FundingFollowsTape, Latest
  <2>1. s \in Symbols /\ positions[s] # None
    BY DEF Held
  <2>2. Funded(s)
    BY <2>1
  <2> QED
    BY <2>1, <2>2 DEF Funded
<1> HIDE DEF AllFunded
<1> QED
  BY <1>1, <1>2, <1>3, TypesHold, PTL DEF Spec

=============================================================================
