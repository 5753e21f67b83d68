---------------------------- MODULE Rotation_proof ----------------------------
(***************************************************************************)
(* Proofs about Rotation, for every set of symbols, every market and every *)
(* setting of the hysteresis, the flap window and the quarantines.         *)
(***************************************************************************)
EXTENDS Rotation, FiniteSetTheorems, TLAPS

-----------------------------------------------------------------------------
(* The inductive invariant                                                 *)

\* While a rotation in which nothing has failed is worked through: what is left
\* of the decision is the difference of WebSocket and universe.
Working ==
    /\ todo.on \subseteq subscribed /\ todo.on \cap ws = {}
    /\ todo.off \subseteq ws /\ todo.off \cap subscribed = {}
    /\ ws \ Excluded = (subscribed \ todo.on) \cup todo.off
    /\ symbols = ws \ {todo.fetching}

Agreeing ==
    /\ symbols \subseteq ws
    /\ Busy /\ todo.fetching # None => todo.fetching \in ws
    /\ ~failed /\ Busy => Working
    /\ ~failed /\ ~Busy => ws = symbols /\ symbols \ Excluded = subscribed

\* A symbol is pending exactly while the top disagrees with the subscription,
\* and since the top has changed.
Waiting(s) ==
    IF stay[s] = None THEN s \notin DOMAIN pending
    ELSE /\ s \in DOMAIN pending <=> stay[s].in # (s \in subscribed)
         /\ s \in DOMAIN pending => stay[s].time = Min({Hysteresis, now - pending[s]})

\* What is counted in a running flap window has happened.
TripsCounted(s) ==
    flaps[s].start # 0 /\ now - flaps[s].start <= FlapWindow =>
        flaps[s].count <= Cardinality({u \in trips[s] : u >= flaps[s].start})

\* The last quarantine was that of the level before, or is long over.
Known(p, t) ==
    p.until # 0 =>
        \/ t - p.until >= Stable
        \/ p.level # 0 /\ p.until - p.from = Duration(p.level - 1)

PenaltyKnown(s) == Known(penalty[s], now)

IInv ==
    /\ TypeOK
    /\ Agreeing
    /\ \A s \in Symbols \ Excluded : Waiting(s)
    /\ \A s \in Symbols : TripsCounted(s)
    /\ \A s \in Symbols : PenaltyKnown(s)

-----------------------------------------------------------------------------
(* Numbers and rankings                                                    *)

LEMMA Least ==
    ASSUME NEW a \in Int, NEW b \in Int
    PROVE  Min({a, b}) = IF a <= b THEN a ELSE b
<1> DEFINE m == IF a <= b THEN a ELSE b
<1>1. m \in {a, b} /\ \A y \in {a, b} : m <= y
  OBVIOUS
<1>2. ASSUME NEW x \in {a, b}, \A y \in {a, b} : x <= y PROVE x = m
  BY <1>2
<1> HIDE DEF m
<1>3. Min({a, b}) = m
  BY <1>1, <1>2 DEF Min
<1> QED BY <1>3 DEF m

LEMMA LeastSum ==
    ASSUME NEW h \in Nat, NEW q \in Nat, NEW g \in Nat
    PROVE  Min({h, Min({h, q}) + g}) = Min({h, q + g})
<1>1. Min({h, q}) = IF h <= q THEN h ELSE q
  BY Least
<1>2. PICK m \in Nat : m = Min({h, q}) /\ m = IF h <= q THEN h ELSE q
  BY <1>1
<1>3. m + g \in Int /\ q + g \in Int
  OBVIOUS
<1>4. Min({h, m + g}) = IF h <= m + g THEN h ELSE m + g
  BY <1>3, Least
<1>5. Min({h, q + g}) = IF h <= q + g THEN h ELSE q + g
  BY <1>3, Least
<1>6. (IF h <= m + g THEN h ELSE m + g) = IF h <= q + g THEN h ELSE q + g
  BY <1>2
<1> QED BY <1>2, <1>4, <1>5, <1>6

\* What is younger than the start of a window is in the window.
LEMMA WithinWindow ==
    ASSUME NEW t \in Int, NEW a \in Int, NEW u \in Int, NEW w \in Int, u >= a, t - a <= w
    PROVE  t - u <= w
OBVIOUS

\* The durations never shrink with the level.
LEMMA Longer ==
    ASSUME NEW k \in Nat
    PROVE  /\ Duration(k) \in Nat \ {0}
           /\ k # 0 => Duration(k - 1) <= Duration(k)
<1> DEFINE n == Len(Steps)
           i(l) == IF l < n THEN l + 1 ELSE n
<1>1. Steps \in Seq(Nat \ {0}) /\ n \in Nat \ {0} /\ DOMAIN Steps = 1 .. n
  BY RotationAssumption
<1>2. \A x, y \in 1 .. n : x <= y => Steps[x] <= Steps[y]
  BY <1>1, RotationAssumption
<1>3. \A x \in 1 .. n : Steps[x] \in Nat \ {0}
  BY <1>1
<1>4. \A l : Duration(l) = Steps[i(l)]
  BY DEF Duration
<1> HIDE DEF n
<1>5. \A l \in Nat : i(l) \in 1 .. n
  BY <1>1
<1>6. k # 0 => k - 1 \in Nat /\ i(k - 1) <= i(k)
  BY <1>1
<1> HIDE DEF i
<1> QED BY <1>2, <1>3, <1>4, <1>5, <1>6

\* A scan finds symbols that are not excluded, and the top among the ten.
LEMMA ScanFinds ==
    ASSUME NEW market \in Markets, NEW all \in BOOLEAN
    PROVE  LET r == ScanResults[market][all]
           IN  /\ r \in Scans /\ r.top \subseteq r.ten
               /\ r.ten \subseteq Symbols \ Excluded
<1> DEFINE size == Sizes(all)
           cand == Candidates(market, size)
           rank(s) == Cardinality({r \in cand : Precedes(r, s, market, size)})
<1>1. cand \subseteq Symbols \ Excluded
  <2>1. \A i \in DOMAIN market : market[i].symbol \in Symbols
    <3>1. market \in Seq(Tickers)
      BY RotationAssumption
    <3>2. \A i \in DOMAIN market : market[i] \in Tickers
      BY <3>1
    <3> QED BY <3>2 DEF Tickers
  <2>2. \A i \in Listing(market, size) : i \in DOMAIN market /\ market[i].symbol \notin Excluded
    BY DEF Listing, Eligible
  <2>3. Always \subseteq Symbols \ Excluded
    BY RotationAssumption DEF Always
  <2> HIDE DEF size
  <2> QED BY <2>1, <2>2, <2>3 DEF Candidates
<1>2. \A s \in cand : rank(s) \in Nat
  <2> HIDE DEF size, cand
  <2>1. IsFiniteSet(cand)
    BY <1>1, RotationAssumption, FS_Subset
  <2>2. \A s \in cand : {r \in cand : Precedes(r, s, market, size)} \subseteq cand
    OBVIOUS
  <2>3. \A s \in cand : IsFiniteSet({r \in cand : Precedes(r, s, market, size)})
    BY <2>1, <2>2, FS_Subset
  <2> QED BY <2>3, FS_CardinalityType
<1>3. /\ FirstOf(TopN, market, size) = {s \in cand : rank(s) < TopN}
      /\ FirstOf(WatchN, market, size) = {s \in cand : rank(s) < WatchN}
  BY DEF FirstOf
<1>4. ScanResults[market][all] = [top |-> FirstOf(TopN, market, size),
                                  ten |-> FirstOf(WatchN, market, size)]
  BY DEF ScanResults
<1> HIDE DEF size, cand, rank
<1>5. TopN \in Nat /\ WatchN \in Nat /\ TopN <= WatchN
  BY RotationAssumption
<1>6. {s \in cand : rank(s) < TopN} \subseteq {s \in cand : rank(s) < WatchN}
  BY <1>2, <1>5
<1>7. {s \in cand : rank(s) < WatchN} \subseteq Symbols \ Excluded
  BY <1>1
<1>8. {s \in cand : rank(s) < TopN} \subseteq Symbols
  BY <1>1
<1>9. ScanResults[market][all] \in Scans
  BY <1>3, <1>4, <1>7, <1>8 DEF Scans
<1> QED BY <1>3, <1>4, <1>6, <1>7, <1>9

-----------------------------------------------------------------------------
(* Flaps and quarantines of a symbol                                       *)

FlapUntil(t)    == [start : 0..t, count : Nat, last : BOOLEAN]
PenaltyUntil(t) == [from : 0..t, until : Nat, level : Nat]

\* A trip at t starts a window or is counted in the running one.
LEMMA WindowCounts ==
    ASSUME NEW n \in Nat, NEW t \in Nat, n <= t, NEW f \in FlapUntil(n)
    PROVE  /\ Window(f, t) \in FlapUntil(t)
           /\ \/ Window(f, t).start = t /\ Window(f, t).count = 1
              \/ /\ f.start # 0 /\ t - f.start <= FlapWindow
                 /\ Window(f, t).start = f.start /\ Window(f, t).count = f.count + 1
<1>1. /\ f.start \in 0..t /\ f.count \in Nat /\ f.last \in BOOLEAN /\ FlapWindow \in Nat
      /\ f \in [start : 0..t, count : Nat, last : BOOLEAN]
  BY RotationAssumption DEF FlapUntil
<1>2. CASE f.start = 0 \/ t - f.start > FlapWindow
  <2>1. Window(f, t) = [f EXCEPT !.start = t, !.count = 1]
    BY <1>2 DEF Window
  <2>2. t \in 0..t /\ 1 \in Nat
    OBVIOUS
  <2> QED BY <1>1, <2>1, <2>2 DEF FlapUntil
<1>3. CASE ~(f.start = 0 \/ t - f.start > FlapWindow)
  <2>1. Window(f, t) = [f EXCEPT !.count = f.count + 1]
    BY <1>3 DEF Window
  <2>2. f.start # 0 /\ t - f.start <= FlapWindow /\ f.count + 1 \in Nat
    BY <1>1, <1>3
  <2> QED BY <1>1, <2>1, <2>2 DEF FlapUntil
<1> QED BY <1>2, <1>3

\* Stability resets the level, and only of a quarantine that is long over.
LEMMA ResetKeeps ==
    ASSUME NEW t \in Nat, NEW p \in PenaltyUntil(t)
    PROVE  /\ StableReset(p, t) \in PenaltyUntil(t)
           /\ StableReset(p, t).until = p.until /\ StableReset(p, t).from = p.from
           /\ \/ StableReset(p, t).level = p.level
              \/ /\ StableReset(p, t).level = 1 /\ p.level > 1
                 /\ p.until # 0 /\ t - p.until >= Stable
<1>1. p \in [from : 0..t, until : Nat, level : Nat] /\ 1 \in Nat
  BY DEF PenaltyUntil
<1>2. CASE StableReset(p, t) = p
  BY <1>1, <1>2 DEF PenaltyUntil
<1>3. CASE StableReset(p, t) # p
  <2>1. /\ p.until # 0 /\ t - p.until >= Stable /\ p.level > 1
        /\ StableReset(p, t) = [p EXCEPT !.level = 1]
    BY <1>3 DEF StableReset
  <2> QED BY <1>1, <2>1 DEF PenaltyUntil
<1> QED BY <1>2, <1>3

\* A sentence begins now, is one level higher and is not reset at once.
LEMMA SentenceBegins ==
    ASSUME NEW n \in Nat, NEW t \in Nat, n <= t, NEW p \in PenaltyUntil(n)
    PROVE  LET q == EnterQuarantine(p, t)
           IN  /\ q \in PenaltyUntil(t) /\ StableReset(q, t) = q
               /\ q.from = t /\ q.until = t + Duration(p.level) /\ q.level = p.level + 1
<1>1. p.level \in Nat
  BY DEF PenaltyUntil
<1>2. Duration(p.level) \in Nat \ {0}
  BY <1>1, Longer
<1> DEFINE d == Duration(p.level)
           q == EnterQuarantine(p, t)
<1>3. q = [from |-> t, until |-> t + d, level |-> p.level + 1]
  BY DEF EnterQuarantine
<1> HIDE DEF d, q
<1>4. t + d \in Nat /\ t + d > t /\ t \in 0..t /\ p.level + 1 \in Nat
  BY <1>1, <1>2 DEF d
<1>5. q \in PenaltyUntil(t) /\ q.until = t + d /\ q.from = t /\ q.level = p.level + 1
  BY <1>3, <1>4 DEF PenaltyUntil
<1>6. Quarantined(q, t)
  BY <1>4, <1>5 DEF Quarantined
<1>7. StableReset(q, t) = q
  BY <1>6 DEF StableReset
<1> QED BY <1>5, <1>7 DEF d, q

\* The turn of a symbol in a rotation, field by field.
Untripped(nf, np, f, p, t) ==
    nf.start = f.start /\ nf.count = f.count /\ np = StableReset(p, t)

Tripped(nf, np, w, p, t) ==
    /\ ~Sentenced(w, p, t)
    /\ nf.start = w.start /\ nf.count = w.count /\ np = StableReset(p, t)

Convicted(nf, np, w, p, t) ==
    Sentenced(w, p, t) /\ nf.start = 0 /\ nf.count = 0 /\ np = EnterQuarantine(p, t)

LEMMA TurnOf ==
    ASSUME TypeOK, NEW s \in Symbols, NEW top \in SUBSET Symbols, NEW t \in Nat, now <= t
    PROVE  LET nf == AfterTrips(s, top, t)[1]
               np == AfterTrips(s, top, t)[2]
               w  == Window(flaps[s], t)
           IN  /\ nf \in FlapUntil(t) /\ np \in PenaltyUntil(t)
               /\ \/ ~LeavesTop(s, top) /\ Untripped(nf, np, flaps[s], penalty[s], t)
                  \/ LeavesTop(s, top) /\ Tripped(nf, np, w, penalty[s], t)
                  \/ LeavesTop(s, top) /\ Convicted(nf, np, w, penalty[s], t)
<1> DEFINE f == flaps[s]
           p == penalty[s]
           w == Window(f, t)
           r == IF LeavesTop(s, top) THEN RecordRoundTrip(f, p, t) ELSE <<f, p>>
           nf == AfterTrips(s, top, t)[1]
           np == AfterTrips(s, top, t)[2]
           at == (s \in top)
<1>1. now \in Nat /\ f \in FlapUntil(now) /\ p \in PenaltyUntil(now)
  BY DEF TypeOK, FlapUntil, PenaltyUntil
<1>2. f \in FlapUntil(t) /\ p \in PenaltyUntil(t)
  BY <1>1 DEF FlapUntil, PenaltyUntil
<1>3. w \in FlapUntil(t)
  BY <1>1, WindowCounts
<1>4. nf = [r[1] EXCEPT !.last = at] /\ np = StableReset(r[2], t)
  BY DEF AfterTrips
<1>5. at \in BOOLEAN
  OBVIOUS
<1>6. ASSUME NEW g \in FlapUntil(t), r[1] = g
      PROVE  nf \in FlapUntil(t) /\ nf.start = g.start /\ nf.count = g.count
  <2>1. nf = [g EXCEPT !.last = at]
    BY <1>4, <1>6
  <2> HIDE DEF nf, at
  <2> QED BY <1>5, <1>6, <2>1 DEF FlapUntil
<1> HIDE DEF nf, np, at
<1>7. CASE ~LeavesTop(s, top)
  <2>1. r[1] = f /\ r[2] = p
    BY <1>7
  <2>2. nf \in FlapUntil(t) /\ nf.start = f.start /\ nf.count = f.count
    BY <1>2, <1>6, <2>1
  <2>3. np = StableReset(p, t) /\ np \in PenaltyUntil(t)
    BY <1>2, <1>4, <2>1, ResetKeeps
  <2> QED BY <1>7, <2>2, <2>3 DEF Untripped, nf, np
<1>8. CASE LeavesTop(s, top) /\ ~Sentenced(w, p, t)
  <2>1. r[1] = w /\ r[2] = p
    BY <1>8 DEF RecordRoundTrip
  <2>2. nf \in FlapUntil(t) /\ nf.start = w.start /\ nf.count = w.count
    BY <1>3, <1>6, <2>1
  <2>3. np = StableReset(p, t) /\ np \in PenaltyUntil(t)
    BY <1>2, <1>4, <2>1, ResetKeeps
  <2> QED BY <1>8, <2>2, <2>3 DEF Tripped, nf, np
<1>9. CASE LeavesTop(s, top) /\ Sentenced(w, p, t)
  <2> DEFINE g == [w EXCEPT !.start = 0, !.count = 0]
  <2>1. r[1] = g /\ r[2] = EnterQuarantine(p, t)
    BY <1>9 DEF RecordRoundTrip
  <2>2. g \in FlapUntil(t) /\ g.start = 0 /\ g.count = 0
    <3>1. 0 \in 0..t /\ 0 \in Nat
      OBVIOUS
    <3> HIDE DEF w
    <3> QED BY <1>3, <3>1 DEF FlapUntil
  <2> HIDE DEF g
  <2>3. nf \in FlapUntil(t) /\ nf.start = 0 /\ nf.count = 0
    BY <1>6, <2>1, <2>2
  <2>4. np = EnterQuarantine(p, t) /\ np \in PenaltyUntil(t)
    BY <1>1, <1>4, <2>1, SentenceBegins
  <2> QED BY <1>9, <2>3, <2>4 DEF Convicted, nf, np
<1> QED BY <1>7, <1>8, <1>9

-----------------------------------------------------------------------------
(* A rotation                                                              *)

\* A rotation at the time now', by the latest ranking.
LEMMA RotateIs ==
    ASSUME TypeOK, Rotate
    PROVE  /\ now \in Nat /\ now' \in Nat /\ now < now' /\ now' <= MaxTime
           /\ latest.top \subseteq Symbols \ Excluded /\ latest.ten \subseteq Symbols \ Excluded
           /\ todo = None /\ ApplyScan(now')
           /\ stay' = [s \in Symbols |->
                [in |-> s \in latest.top,
                 time |-> IF stay[s] # None /\ stay[s].in = (s \in latest.top)
                          THEN Min({Hysteresis, stay[s].time + (now' - now)}) ELSE 0]]
           /\ trips' = [s \in Symbols |->
                {u \in trips[s] : now' - u <= FlapWindow}
                  \cup IF LeavesTop(s, latest.top) THEN {now'} ELSE {}]
<1>1. PICK gap \in Gaps :
         /\ now' = now + gap /\ now + gap <= MaxTime /\ ApplyScan(now + gap)
         /\ stay' = [s \in Symbols |->
              [in |-> s \in latest.top,
               time |-> IF stay[s] # None /\ stay[s].in = (s \in latest.top)
                        THEN Min({Hysteresis, stay[s].time + gap}) ELSE 0]]
         /\ trips' = [s \in Symbols |->
              {u \in trips[s] : (now + gap) - u <= FlapWindow}
                \cup IF LeavesTop(s, latest.top) THEN {now + gap} ELSE {}]
  BY DEF Rotate
<1>2. gap \in Nat \ {0} /\ now \in Nat
  BY RotationAssumption DEF TypeOK
<1>3. now' \in Nat /\ now < now' /\ gap = now' - now
  BY <1>1, <1>2
<1>4. todo = None /\ latest # None
  BY DEF Rotate
<1>5. latest.top \subseteq Symbols \ Excluded /\ latest.ten \subseteq Symbols \ Excluded
  BY <1>4 DEF TypeOK
<1> QED BY <1>1, <1>2, <1>3, <1>4, <1>5

\* The turn of a symbol.
Turns(s) ==
    \/ ~LeavesTop(s, latest.top) /\ Untripped(flaps'[s], penalty'[s], flaps[s], penalty[s], now')
    \/ LeavesTop(s, latest.top)
       /\ Tripped(flaps'[s], penalty'[s], Window(flaps[s], now'), penalty[s], now')
    \/ LeavesTop(s, latest.top)
       /\ Convicted(flaps'[s], penalty'[s], Window(flaps[s], now'), penalty[s], now')

LEMMA RotateTurns ==
    ASSUME TypeOK, Rotate, NEW s \in Symbols
    PROVE  flaps'[s] \in FlapUntil(now') /\ penalty'[s] \in PenaltyUntil(now') /\ Turns(s)
<1>1. now' \in Nat /\ now <= now' /\ latest.top \in SUBSET Symbols
  BY RotateIs
<1>2. /\ flaps'[s] = AfterTrips(s, latest.top, now')[1]
      /\ penalty'[s] = AfterTrips(s, latest.top, now')[2]
  BY RotateIs DEF ApplyScan
<1> HIDE DEF Turns
<1>3. LET nf == AfterTrips(s, latest.top, now')[1]
          np == AfterTrips(s, latest.top, now')[2]
          w  == Window(flaps[s], now')
      IN  /\ nf \in FlapUntil(now') /\ np \in PenaltyUntil(now')
          /\ \/ ~LeavesTop(s, latest.top) /\ Untripped(nf, np, flaps[s], penalty[s], now')
             \/ LeavesTop(s, latest.top) /\ Tripped(nf, np, w, penalty[s], now')
             \/ LeavesTop(s, latest.top) /\ Convicted(nf, np, w, penalty[s], now')
  BY <1>1, TurnOf
<1> QED BY <1>2, <1>3 DEF Turns

\* A trip that is counted in a window is remembered as long as the window runs.
LEMMA TripsRemembered ==
    ASSUME TypeOK, Rotate, NEW s \in Symbols, TripsCounted(s)
    PROVE  /\ IsFiniteSet(trips'[s]) /\ trips'[s] \subseteq 1..now'
           /\ LeavesTop(s, latest.top) =>
                LET w == Window(flaps[s], now')
                IN  w.count <= Cardinality({u \in trips'[s] : u >= w.start})
           /\ flaps[s].start # 0 /\ now' - flaps[s].start <= FlapWindow =>
                flaps[s].count <= Cardinality({u \in trips'[s] : u >= flaps[s].start})
<1> DEFINE T == trips[s]
           N == trips'[s]
           f == flaps[s]
           w == Window(f, now')
           Old(b) == {u \in T : u >= b}
           New(b) == {u \in N : u >= b}
<1>1. now \in Nat /\ now' \in Nat /\ now < now' /\ FlapWindow \in Nat
  BY RotateIs, RotationAssumption
<1>2. T \subseteq 1..now /\ f \in FlapUntil(now) /\ f.start \in 0..now /\ f.count \in Nat
  BY DEF TypeOK, FlapUntil
<1>3. N = {u \in T : now' - u <= FlapWindow} \cup IF LeavesTop(s, latest.top) THEN {now'} ELSE {}
  BY RotateIs
<1>4. w \in FlapUntil(now')
      /\ \/ w.start = now' /\ w.count = 1
         \/ /\ f.start # 0 /\ now' - f.start <= FlapWindow
            /\ w.start = f.start /\ w.count = f.count + 1
  BY <1>1, <1>2, WindowCounts
<1> HIDE DEF T, N, w, f
<1> DEFINE X == IF LeavesTop(s, latest.top) THEN {now'} ELSE {}
<1>0. N = {u \in T : now' - u <= FlapWindow} \cup X /\ X \subseteq {now'}
  BY <1>3
<1> HIDE DEF X
<1>5. N \subseteq 1..now'
  <2>1. ASSUME NEW u \in N PROVE u \in 1..now'
    <3>1. u \in 1..now \/ u = now'
      BY <1>0, <1>2
    <3> QED BY <1>1, <3>1
  <2> QED BY <2>1
<1>6. IsFiniteSet(N)
  <2>1. IsFiniteSet(1..now')
    BY <1>1, FS_Interval
  <2> QED BY <1>5, <2>1, FS_Subset
<1>7. \A b : IsFiniteSet(New(b)) /\ Cardinality(New(b)) \in Nat
  <2> SUFFICES ASSUME NEW b PROVE IsFiniteSet(New(b)) /\ Cardinality(New(b)) \in Nat
    OBVIOUS
  <2>1. New(b) \subseteq N
    OBVIOUS
  <2> QED BY <1>6, <2>1, FS_Subset, FS_CardinalityType
<1>8. ASSUME f.start # 0, now' - f.start <= FlapWindow
      PROVE  /\ Old(f.start) \subseteq New(f.start) /\ now' \notin Old(f.start)
             /\ IsFiniteSet(Old(f.start)) /\ Cardinality(Old(f.start)) \in Nat
             /\ f.count <= Cardinality(Old(f.start))
             /\ Cardinality(Old(f.start)) <= Cardinality(New(f.start))
  <2>0. ASSUME NEW u \in Old(f.start) PROVE u \in New(f.start) /\ u # now'
    <3>1. u \in T /\ u \in 1..now /\ u >= f.start
      BY <1>2
    <3>2. u \in Nat /\ u <= now /\ f.start \in Nat
      BY <1>1, <1>2, <3>1
    <3>5. now' - f.start <= FlapWindow
      BY <1>8
    <3>6. u # now'
      BY <1>1, <3>2
    <3>7. now' - u <= FlapWindow
      <4>1. PICK a \in Nat : a = f.start
        BY <3>2
      <4>2. PICK t \in Nat : t = now'
        BY <1>1
      <4>3. t - a <= FlapWindow /\ u >= a
        BY <3>1, <3>5, <4>1, <4>2
      <4>4. t - u <= FlapWindow
        BY <1>1, <3>2, <4>3, WithinWindow
      <4> QED BY <4>2, <4>4
    <3>4. now' - u <= FlapWindow /\ u # now'
      BY <3>6, <3>7
    <3> QED BY <1>0, <3>1, <3>4
  <2>1. Old(f.start) \subseteq New(f.start) /\ now' \notin Old(f.start)
    BY <2>0
  <2>2. now - f.start <= FlapWindow
    BY <1>1, <1>2, <1>8
  <2>3. f.count <= Cardinality(Old(f.start))
    BY <1>8, <2>2 DEF TripsCounted, f, T
  <2>4. IsFiniteSet(New(f.start))
    BY <1>7
  <2> HIDE DEF Old, New
  <2> QED BY <2>1, <2>3, <2>4, FS_Subset, FS_CardinalityType
<1>9. ASSUME LeavesTop(s, latest.top)
      PROVE  w.count <= Cardinality(New(w.start))
  <2>1. now' \in N
    BY <1>0, <1>9 DEF X
  <2>2. CASE w.start = now' /\ w.count = 1
    <3>1. {now'} \subseteq New(now')
      BY <1>1, <2>1
    <3>2. Cardinality({now'}) = 1
      BY FS_Singleton
    <3>3. IsFiniteSet(New(now'))
      BY <1>7
    <3> HIDE DEF New
    <3>4. Cardinality({now'}) <= Cardinality(New(now'))
      BY <3>1, <3>3, FS_Subset
    <3> QED BY <2>2, <3>2, <3>4
  <2>3. CASE /\ f.start # 0 /\ now' - f.start <= FlapWindow
             /\ w.start = f.start /\ w.count = f.count + 1
    <3>1. /\ Old(f.start) \subseteq New(f.start) /\ now' \notin Old(f.start)
          /\ IsFiniteSet(Old(f.start)) /\ Cardinality(Old(f.start)) \in Nat
          /\ f.count <= Cardinality(Old(f.start))
      BY <1>8, <2>3
    <3>2. now' \in New(f.start)
      BY <1>1, <1>2, <2>1
    <3>3. IsFiniteSet(New(f.start)) /\ Cardinality(New(f.start)) \in Nat
      BY <1>7
    <3> HIDE DEF Old, New
    <3>4. Cardinality(Old(f.start) \cup {now'}) = Cardinality(Old(f.start)) + 1
      BY <3>1, FS_AddElement
    <3>5. Old(f.start) \cup {now'} \subseteq New(f.start)
      BY <3>1, <3>2
    <3>6. Cardinality(Old(f.start) \cup {now'}) <= Cardinality(New(f.start))
      BY <3>3, <3>5, FS_Subset
    <3> QED BY <1>2, <2>3, <3>1, <3>3, <3>4, <3>6
  <2> QED BY <1>4, <2>2, <2>3
<1>10. ASSUME f.start # 0, now' - f.start <= FlapWindow
       PROVE  f.count <= Cardinality(New(f.start))
  <2>1. /\ Cardinality(Old(f.start)) \in Nat /\ f.count <= Cardinality(Old(f.start))
        /\ Cardinality(Old(f.start)) <= Cardinality(New(f.start))
    BY <1>8, <1>10
  <2>2. Cardinality(New(f.start)) \in Nat
    BY <1>7
  <2> HIDE DEF Old, New
  <2> QED BY <1>2, <2>1, <2>2
<1> QED BY <1>5, <1>6, <1>9, <1>10 DEF N, f, w

\* The window of a symbol counts trips that have happened.
LEMMA RotateCounts ==
    ASSUME TypeOK, Rotate, NEW s \in Symbols, TripsCounted(s)
    PROVE  TripsCounted(s)'
<1> DEFINE f  == flaps[s]
           nf == flaps'[s]
           w  == Window(f, now')
           Since(b) == {u \in trips'[s] : u >= b}
<1>1. Turns(s)
  BY RotateTurns
<1>2. /\ LeavesTop(s, latest.top) => w.count <= Cardinality(Since(w.start))
      /\ f.start # 0 /\ now' - f.start <= FlapWindow => f.count <= Cardinality(Since(f.start))
  BY TripsRemembered
<1> HIDE DEF w
<1>3. \/ nf.start = f.start /\ nf.count = f.count
      \/ LeavesTop(s, latest.top) /\ nf.start = w.start /\ nf.count = w.count
      \/ nf.start = 0
  BY <1>1 DEF Turns, Untripped, Tripped, Convicted, w
<1> HIDE DEF f, nf, Since
<1>4. nf.start # 0 /\ now' - nf.start <= FlapWindow => nf.count <= Cardinality(Since(nf.start))
  BY <1>2, <1>3
<1> QED BY <1>4 DEF TripsCounted, nf, Since

\* A level without a quarantine does not exist, and a full window has one.
Levels(f, p) ==
    /\ f.count >= FlapThreshold => p.level > 0
    /\ p.level > 0 <=> p.until > 0

LEMMA LevelsKept ==
    ASSUME NEW n \in Nat, NEW t \in Nat, n <= t,
           NEW f \in FlapUntil(n), NEW p \in PenaltyUntil(n), NEW w \in FlapUntil(t),
           NEW nf \in FlapUntil(t), NEW np \in PenaltyUntil(t), Levels(f, p),
           \/ Untripped(nf, np, f, p, t)
           \/ Tripped(nf, np, w, p, t)
           \/ Convicted(nf, np, w, p, t)
    PROVE  Levels(nf, np)
<1>1. p \in PenaltyUntil(t) /\ FlapThreshold \in Nat \ {0}
  BY RotationAssumption DEF PenaltyUntil
<1>2. /\ f.count \in Nat /\ w.count \in Nat /\ nf.count \in Nat
      /\ p.level \in Nat /\ p.until \in Nat /\ np.level \in Nat /\ np.until \in Nat
  BY DEF FlapUntil, PenaltyUntil
<1>3. /\ f.count >= FlapThreshold => p.level > 0
      /\ p.level > 0 <=> p.until > 0
  BY DEF Levels
<1>4. ASSUME np = StableReset(p, t)
      PROVE  np.until = p.until /\ (np.level = p.level \/ (np.level = 1 /\ p.level > 1))
  BY <1>1, <1>4, ResetKeeps
<1>5. CASE Untripped(nf, np, f, p, t)
  <2>1. np = StableReset(p, t) /\ nf.count = f.count
    BY <1>5 DEF Untripped
  <2>2. np.until = p.until /\ (np.level > 0 <=> p.level > 0)
    BY <1>2, <1>4, <2>1
  <2> QED BY <1>3, <2>1, <2>2 DEF Levels
<1>6. CASE Tripped(nf, np, w, p, t)
  <2>1. np = StableReset(p, t) /\ nf.count = w.count
    BY <1>6 DEF Tripped
  <2>2. np.until = p.until /\ (np.level > 0 <=> p.level > 0)
    BY <1>2, <1>4, <2>1
  <2>3. w.count >= FlapThreshold => p.until > t
    BY <1>6 DEF Tripped, Sentenced, Quarantined
  <2>4. p.until > t => p.until > 0
    BY <1>2
  <2> QED BY <1>3, <2>1, <2>2, <2>3, <2>4 DEF Levels
<1>7. CASE Convicted(nf, np, w, p, t)
  <2>1. np.until = t + Duration(p.level) /\ np.level = p.level + 1
    BY <1>7, SentenceBegins DEF Convicted
  <2>2. Duration(p.level) \in Nat \ {0}
    BY <1>2, Longer
  <2>3. np.until > 0 /\ np.level > 0
    BY <1>2, <2>1, <2>2
  <2> QED BY <2>3 DEF Levels
<1> QED BY <1>5, <1>6, <1>7

LEMMA RotateLevels ==
    ASSUME TypeOK, Rotate, NEW s \in Symbols
    PROVE  Levels(flaps'[s], penalty'[s])
<1>1. now \in Nat /\ now' \in Nat /\ now <= now'
  BY RotateIs
<1>2. /\ flaps[s] \in FlapUntil(now) /\ penalty[s] \in PenaltyUntil(now)
      /\ Levels(flaps[s], penalty[s])
  BY DEF TypeOK, FlapUntil, PenaltyUntil, Levels
<1>3. flaps'[s] \in FlapUntil(now') /\ penalty'[s] \in PenaltyUntil(now') /\ Turns(s)
  BY RotateTurns
<1>4. Window(flaps[s], now') \in FlapUntil(now')
  BY <1>1, <1>2, WindowCounts
<1> QED BY <1>1, <1>2, <1>3, <1>4, LevelsKept DEF Turns

\* A quarantine stays that of the level before or is long over.
LEMMA StillKnown ==
    ASSUME NEW n \in Nat, NEW t \in Nat, n <= t, NEW p \in PenaltyUntil(n),
           NEW np \in PenaltyUntil(t), Known(p, n),
           np = StableReset(p, t) \/ np = EnterQuarantine(p, t)
    PROVE  Known(np, t)
<1>1. p \in PenaltyUntil(t) /\ Stable \in Nat
  BY RotationAssumption DEF PenaltyUntil
<1>2. p.level \in Nat /\ p.until \in Nat /\ p.from \in Nat
  BY DEF PenaltyUntil
<1>3. CASE np = StableReset(p, t)
  <2>1. /\ np.until = p.until /\ np.from = p.from
        /\ np.level = p.level \/ (np.level = 1 /\ p.until # 0 /\ t - p.until >= Stable)
    BY <1>1, <1>3, ResetKeeps
  <2>2. n - p.until >= Stable => t - p.until >= Stable
    BY <1>1, <1>2
  <2>3. \/ p.until = 0
        \/ n - p.until >= Stable
        \/ p.level # 0 /\ p.until - p.from = Duration(p.level - 1)
    BY DEF Known
  <2>4. CASE np.level = p.level
    BY <2>1, <2>2, <2>3, <2>4, Zenon DEF Known
  <2>5. CASE t - p.until >= Stable
    BY <2>1, <2>5 DEF Known
  <2> QED BY <2>1, <2>4, <2>5
<1>4. CASE np = EnterQuarantine(p, t)
  <2>1. np.from = t /\ np.until = t + Duration(p.level) /\ np.level = p.level + 1
    BY <1>4, SentenceBegins
  <2>2. PICK d \in Nat : d = Duration(p.level)
    BY <1>2, Longer
  <2>3. np.level # 0 /\ np.level - 1 = p.level /\ np.until - np.from = d
    BY <1>2, <2>1, <2>2
  <2> QED BY <2>2, <2>3 DEF Known
<1> QED BY <1>3, <1>4

LEMMA RotateRemembers ==
    ASSUME TypeOK, Rotate, NEW s \in Symbols, PenaltyKnown(s)
    PROVE  PenaltyKnown(s)'
<1>1. now \in Nat /\ now' \in Nat /\ now <= now'
  BY RotateIs
<1>2. penalty[s] \in PenaltyUntil(now) /\ penalty'[s] \in PenaltyUntil(now')
  BY RotateTurns DEF TypeOK, PenaltyUntil
<1>3. penalty'[s] = StableReset(penalty[s], now') \/ penalty'[s] = EnterQuarantine(penalty[s], now')
  BY RotateTurns DEF Turns, Untripped, Tripped, Convicted
<1>4. Known(penalty[s], now)
  BY DEF PenaltyKnown
<1>5. Known(penalty'[s], now')
  BY <1>1, <1>2, <1>3, <1>4, StillKnown
<1> QED BY <1>5 DEF PenaltyKnown, Known

\* What a rotation does to the subscription of a symbol.
LEMMA RotateMoves ==
    ASSUME TypeOK, Rotate, NEW s \in Symbols \ Excluded
    PROVE  LET wanted == s \in latest.top
               old    == s \in subscribed
               due    == /\ wanted # old /\ s \in DOMAIN pending
                         /\ now' - pending[s] >= Hysteresis
                         /\ ~(wanted /\ Quarantined(penalty'[s], now'))
           IN  /\ s \in subscribed' <=> IF due THEN wanted ELSE old
               /\ s \in DOMAIN pending' <=> wanted # old /\ ~due
               /\ s \in DOMAIN pending' => pending'[s] = PendingSince(s, now')
<1> DEFINE top == latest.top
           D   == Due(top, now', penalty')
<1>1. ApplyScan(now')
  BY RotateIs
<1>2. /\ subscribed' = (subscribed \ D) \cup (D \cap top)
      /\ pending' = [r \in Astray(top) \ D |-> PendingSince(r, now')]
  BY <1>1 DEF ApplyScan
<1>3. s \in Astray(top) <=> (s \in top) # (s \in subscribed)
  BY DEF Astray
<1>4. s \in D <=> /\ s \in Astray(top) /\ s \in DOMAIN pending
                   /\ now' - pending[s] >= Hysteresis
                   /\ ~(s \in top /\ Quarantined(penalty'[s], now'))
  BY DEF Due
<1> HIDE DEF top, D
<1>5. s \in subscribed' <=> IF s \in D THEN s \in top ELSE s \in subscribed
  BY <1>2
<1>6. DOMAIN pending' = Astray(top) \ D
  BY <1>2
<1>7. s \in DOMAIN pending' => pending'[s] = PendingSince(s, now')
  BY <1>2, <1>6
<1> QED BY <1>3, <1>4, <1>5, <1>6, <1>7, Zenon DEF top, D

\* How long a symbol has been where it is.
LEMMA RotateStays ==
    ASSUME TypeOK, Rotate, NEW s \in Symbols
    PROVE  /\ stay'[s] \in Stays /\ stay'[s] # None
           /\ stay'[s].in = (s \in latest.top)
           /\ stay[s] # None /\ stay[s].in = (s \in latest.top) =>
                stay'[s].time = Min({Hysteresis, stay[s].time + (now' - now)})
           /\ ~(stay[s] # None /\ stay[s].in = (s \in latest.top)) => stay'[s].time = 0
<1> DEFINE old    == stay[s]
           wanted == (s \in latest.top)
           same   == old # None /\ old.in = wanted
           m      == Min({Hysteresis, old.time + (now' - now)})
           tm     == IF same THEN m ELSE 0
<1>1. now \in Nat /\ now' \in Nat /\ now < now' /\ Hysteresis \in Nat \ {0}
  BY RotateIs, RotationAssumption
<1>2. stay'[s] = [in |-> wanted, time |-> tm]
  BY RotateIs
<1>3. old # None => old \in Stays
  BY DEF TypeOK
<1> HIDE DEF old, m
<1>4. same => m \in 0..Hysteresis
  <2>1. SUFFICES ASSUME same PROVE m \in 0..Hysteresis
    OBVIOUS
  <2>2. PICK k \in Nat : old.time = k
    <3>1. old.time \in 0..Hysteresis
      BY <1>3, <2>1 DEF Stays
    <3>2. old.time \in Nat
      BY <1>1, <3>1
    <3> QED BY <3>2
  <2>3. PICK g \in Nat : now' - now = g
    <3>1. PICK t \in Nat : t = now'
      BY <1>1
    <3>2. now \in Nat /\ now <= t
      BY <1>1, <3>1
    <3>3. t - now \in Nat
      BY <3>2
    <3> QED BY <3>1, <3>3
  <2>4. m = Min({Hysteresis, k + g})
    BY <2>2, <2>3 DEF m
  <2>5. k + g \in Nat
    OBVIOUS
  <2>6. m = IF Hysteresis <= k + g THEN Hysteresis ELSE k + g
    BY <1>1, <2>4, <2>5, Least
  <2> HIDE DEF m
  <2> QED BY <1>1, <2>5, <2>6
<1>5. wanted \in BOOLEAN
  OBVIOUS
<1> HIDE DEF same, wanted
<1>6. tm \in 0..Hysteresis
  BY <1>1, <1>4
<1> HIDE DEF tm
<1>7. stay'[s] \in Stays /\ stay'[s].in = wanted /\ stay'[s].time = tm
  BY <1>2, <1>5, <1>6 DEF Stays
<1>8. stay'[s] # None
  BY <1>7, NoneAssumption
<1> QED BY <1>7, <1>8 DEF old, wanted, same, m, tm

\* A symbol that the top wants elsewhere has been wanted there since it is pending.
LEMMA RotateTimes ==
    ASSUME TypeOK, Rotate, NEW s \in Symbols \ Excluded, Waiting(s),
           (s \in latest.top) # (s \in subscribed)
    PROVE  /\ s \in DOMAIN pending =>
                /\ pending[s] \in 1..now
                /\ stay'[s].time = Min({Hysteresis, now' - pending[s]})
           /\ s \notin DOMAIN pending => stay'[s].time = 0
<1> DEFINE wanted == s \in latest.top
           old    == s \in subscribed
           agree  == stay[s] # None /\ stay[s].in = wanted
<1>1. now \in Nat /\ now' \in Nat /\ now < now' /\ Hysteresis \in Nat \ {0}
  BY RotateIs, RotationAssumption
<1>2. /\ agree => stay'[s].time = Min({Hysteresis, stay[s].time + (now' - now)})
      /\ ~agree => stay'[s].time = 0
  BY RotateStays
<1>3. /\ stay[s] = None => s \notin DOMAIN pending
      /\ stay[s] # None =>
           /\ s \in DOMAIN pending <=> stay[s].in # old
           /\ s \in DOMAIN pending => stay[s].time = Min({Hysteresis, now - pending[s]})
  BY DEF Waiting
<1>4. stay[s] # None => stay[s].in \in BOOLEAN
  BY DEF TypeOK, Stays
<1>5. s \in DOMAIN pending => pending[s] \in 1..now
  BY DEF TypeOK
<1>6. ASSUME s \in DOMAIN pending
      PROVE  stay'[s].time = Min({Hysteresis, now' - pending[s]})
  <2>1. agree
    BY <1>3, <1>4, <1>6
  <2>2. PICK p \in 1..now : p = pending[s]
    BY <1>5, <1>6
  <2>3. PICK q \in Nat : q = now - p
    <3>1. now - p \in Nat
      BY <1>1
    <3> QED BY <3>1
  <2>4. PICK t \in Nat : t = now'
    BY <1>1
  <2>5. now \in Nat /\ now <= t
    BY <1>1, <2>4
  <2>6. PICK g \in Nat : g = t - now
    <3>1. t - now \in Nat
      BY <2>5
    <3> QED BY <3>1
  <2>7. stay[s].time = Min({Hysteresis, q})
    BY <1>3, <1>6, <2>1, <2>2, <2>3
  <2>8. stay'[s].time = Min({Hysteresis, Min({Hysteresis, q}) + g})
    BY <1>2, <2>1, <2>4, <2>6, <2>7
  <2>9. t - p = q + g
    <3>1. p \in Int
      OBVIOUS
    <3> QED BY <2>3, <2>5, <2>6, <3>1
  <2>10. Min({Hysteresis, Min({Hysteresis, q}) + g}) = Min({Hysteresis, q + g})
    <3>1. Hysteresis \in Nat /\ q \in Nat /\ g \in Nat
      BY <1>1
    <3> QED BY <3>1, LeastSum
  <2> QED BY <2>2, <2>4, <2>8, <2>9, <2>10
<1>7. ASSUME s \notin DOMAIN pending PROVE stay'[s].time = 0
  BY <1>2, <1>3, <1>4, <1>7
<1> QED BY <1>5, <1>6, <1>7

\* A symbol is pending while the top wants it elsewhere, and since that began.
LEMMA RotateWaits ==
    ASSUME TypeOK, Rotate, NEW s \in Symbols \ Excluded, Waiting(s)
    PROVE  Waiting(s)'
<1> DEFINE wanted == s \in latest.top
           old    == s \in subscribed
           due    == /\ wanted # old /\ s \in DOMAIN pending
                     /\ now' - pending[s] >= Hysteresis
                     /\ ~(wanted /\ Quarantined(penalty'[s], now'))
<1>1. now' \in Nat /\ Hysteresis \in Nat \ {0}
  BY RotateIs, RotationAssumption
<1>2. stay'[s] \in Stays /\ stay'[s] # None /\ stay'[s].in = wanted
  BY RotateStays
<1>3. /\ s \in subscribed' <=> IF due THEN wanted ELSE old
      /\ s \in DOMAIN pending' <=> wanted # old /\ ~due
      /\ s \in DOMAIN pending' => pending'[s] = PendingSince(s, now')
  BY RotateMoves
<1>4. s \in DOMAIN pending' <=> wanted # (s \in subscribed')
  <2> DEFINE is == s \in subscribed'
             in == s \in DOMAIN pending'
  <2>1. wanted \in BOOLEAN /\ old \in BOOLEAN /\ is \in BOOLEAN /\ due \in BOOLEAN
    OBVIOUS
  <2>2. (due => wanted # old) /\ (is <=> IF due THEN wanted ELSE old) /\ (in <=> wanted # old /\ ~due)
    BY <1>3
  <2> HIDE DEF due, wanted, old, is, in
  <2>3. in <=> wanted # is
    BY <2>1, <2>2
  <2> QED BY <2>3 DEF is, in
<1>5. ASSUME s \in DOMAIN pending'
      PROVE  stay'[s].time = Min({Hysteresis, now' - pending'[s]})
  <2>1. wanted # old
    BY <1>3, <1>5
  <2>2. CASE s \in DOMAIN pending
    BY <1>3, <1>5, <2>1, <2>2, RotateTimes DEF PendingSince
  <2>3. CASE s \notin DOMAIN pending
    <3>1. stay'[s].time = 0 /\ pending'[s] = now'
      BY <1>3, <1>5, <2>1, <2>3, RotateTimes DEF PendingSince
    <3>2. PICK t \in Nat : t = now'
      BY <1>1
    <3>3. t - t = 0
      OBVIOUS
    <3>4. Min({Hysteresis, 0}) = 0
      BY <1>1, Least
    <3> QED BY <3>1, <3>2, <3>3, <3>4
  <2> QED BY <2>2, <2>3
<1> HIDE DEF wanted
<1> QED BY <1>2, <1>4, <1>5 DEF Waiting

LEMMA RotateTypes ==
    ASSUME TypeOK, Rotate, \A s \in Symbols : TripsCounted(s)
    PROVE  TypeOK'
<1> DEFINE top == latest.top
           D   == Due(top, now', penalty')
           F   == [start : 0..now', count : Nat, last : BOOLEAN]
           P   == [from : 0..now', until : Nat, level : Nat]
<1>1. /\ now \in Nat /\ now' \in Nat /\ now < now' /\ now' <= MaxTime
      /\ MaxTime \in Nat /\ now \in 1..MaxTime
  BY RotateIs, RotationAssumption DEF TypeOK
<1>2. top \subseteq Symbols \ Excluded /\ latest.ten \subseteq Symbols \ Excluded
  BY RotateIs
<1>3. /\ flaps' = [s \in Symbols |-> AfterTrips(s, top, now')[1]]
      /\ penalty' = [s \in Symbols |-> AfterTrips(s, top, now')[2]]
      /\ pending' = [s \in Astray(top) \ D |-> PendingSince(s, now')]
      /\ subscribed' = (subscribed \ D) \cup (D \cap top)
      /\ todo' = [on |-> D \cap top, off |-> D \ top, fetching |-> None,
                  watch |-> latest.ten \ top]
  BY RotateIs DEF ApplyScan
<1>4. D \subseteq Astray(top) /\ Astray(top) \subseteq Symbols \ Excluded
  BY DEF Due, Astray
<1>5. now' \in 1..MaxTime
  BY <1>1
<1>6. UNCHANGED <<loaded, latest, ws, symbols, watch, held, failed>>
  BY DEF Rotate, marketVars
<1>7. /\ loaded' \in BOOLEAN /\ latest' \in Scans \cup {None} /\ failed' \in BOOLEAN
      /\ latest' # None => latest'.top \subseteq latest'.ten /\ latest'.ten \subseteq Symbols \ Excluded
      /\ {ws', symbols', watch', held'} \subseteq SUBSET Symbols
  BY <1>6 DEF TypeOK
<1> HIDE DEF top, D
<1>8. subscribed' \subseteq Symbols \ Excluded
  BY <1>2, <1>3 DEF TypeOK
<1>9. DOMAIN pending' \subseteq Symbols \ Excluded
  BY <1>3, <1>4
<1>10. \A s \in DOMAIN pending' : pending'[s] \in 1..now'
  <2> SUFFICES ASSUME NEW s \in DOMAIN pending' PROVE pending'[s] \in 1..now'
    OBVIOUS
  <2>1. pending'[s] = PendingSince(s, now')
    BY <1>3
  <2>2. s \in DOMAIN pending => pending[s] \in 1..now
    BY DEF TypeOK
  <2>3. pending'[s] = now' \/ pending'[s] \in 1..now
    BY <2>1, <2>2 DEF PendingSince
  <2> QED BY <1>1, <2>3
<1>11. flaps' \in [Symbols -> F]
  <2>1. \A s \in Symbols : flaps'[s] \in F
    BY RotateTurns DEF FlapUntil
  <2> HIDE DEF F
  <2> QED BY <1>3, <2>1
<1>12. penalty' \in [Symbols -> P]
  <2>1. \A s \in Symbols : penalty'[s] \in P
    BY RotateTurns DEF PenaltyUntil
  <2> HIDE DEF P
  <2> QED BY <1>3, <2>1
<1>13. \A s \in Symbols :
         /\ flaps'[s].count >= FlapThreshold => penalty'[s].level > 0
         /\ penalty'[s].level > 0 <=> penalty'[s].until > 0
  BY RotateLevels DEF Levels
<1>14. todo' \in Decisions \cup {None}
  BY <1>2, <1>3, <1>4 DEF Decisions
<1>15. stay' \in [Symbols -> Stays \cup {None}]
  <2>1. \A s \in Symbols : stay'[s] \in Stays
    BY RotateStays
  <2>2. DOMAIN stay' = Symbols /\ stay' = [s \in Symbols |-> stay'[s]]
    BY RotateIs
  <2> QED BY <2>1, <2>2
<1>16. trips' \in [Symbols -> SUBSET (1..now')]
  <2>1. \A s \in Symbols : trips'[s] \subseteq 1..now'
    BY TripsRemembered
  <2>2. trips' = [s \in Symbols |-> trips'[s]]
    BY RotateIs
  <2> QED BY <2>1, <2>2
<1> QED BY <1>5, <1>7, <1>8, <1>9, <1>10, <1>11, <1>12, <1>13, <1>14, <1>15, <1>16, Zenon DEF TypeOK

\* Between rotations WebSocket and universe agree, so that the decision is what
\* is left to do.
LEMMA RotateAgrees ==
    ASSUME TypeOK, Rotate, Agreeing
    PROVE  Agreeing'
<1> DEFINE top == latest.top
           D   == Due(top, now', penalty')
<1>1. todo = None /\ top \subseteq Symbols \ Excluded
  BY RotateIs
<1>2. /\ subscribed' = (subscribed \ D) \cup (D \cap top)
      /\ todo' = [on |-> D \cap top, off |-> D \ top, fetching |-> None,
                  watch |-> latest.ten \ top]
  BY RotateIs DEF ApplyScan
<1>3. D \subseteq {s \in Symbols \ Excluded : (s \in subscribed) # (s \in top)}
  BY DEF Due, Astray
<1>4. UNCHANGED <<ws, symbols, failed>>
  BY DEF Rotate
<1>5. ws \subseteq Symbols /\ subscribed \subseteq Symbols \ Excluded
  BY DEF TypeOK
<1> HIDE DEF top, D
<1>6. /\ todo'.on = D \cap top /\ todo'.off = D \ top /\ todo'.fetching = None
      /\ todo' \in Decisions
  BY <1>1, <1>2, <1>3, RotateIs DEF Decisions, top
<1>7. todo' # None
  BY <1>6, NoneAssumption
<1>8. symbols' \subseteq ws'
  BY <1>4 DEF Agreeing
<1>9. ASSUME ~failed'
      PROVE  /\ todo'.on \subseteq subscribed' /\ todo'.on \cap ws' = {}
             /\ todo'.off \subseteq ws' /\ todo'.off \cap subscribed' = {}
             /\ ws' \ Excluded = (subscribed' \ todo'.on) \cup todo'.off
             /\ symbols' = ws' \ {todo'.fetching}
  <2>1. ws = symbols /\ symbols \ Excluded = subscribed
    BY <1>1, <1>4, <1>9 DEF Agreeing, Busy
  <2>2. symbols = ws \ {None}
    BY <1>5, <2>1, NoneAssumption
  <2>3. D \cap top \cap subscribed = {} /\ D \ top \subseteq subscribed
    BY <1>3
  <2>4. D \cap Excluded = {} /\ D \cap top \cap ws = {} /\ D \ top \subseteq ws
    BY <1>3, <2>1, <2>3
  <2>5. /\ D \cap top \subseteq subscribed' /\ (D \ top) \cap subscribed' = {}
        /\ subscribed = (subscribed' \ (D \cap top)) \cup (D \ top)
    BY <1>2, <2>3
  <2> QED BY <1>4, <1>6, <2>1, <2>2, <2>4, <2>5
<1> QED BY <1>6, <1>7, <1>8, <1>9 DEF Agreeing, Busy, Working

LEMMA RotateIInv ==
    ASSUME IInv, Rotate
    PROVE  IInv'
<1>1. /\ TypeOK /\ Agreeing /\ \A s \in Symbols \ Excluded : Waiting(s)
      /\ \A s \in Symbols : TripsCounted(s)
      /\ \A s \in Symbols : PenaltyKnown(s)
  BY DEF IInv
<1>2. TypeOK'
  BY <1>1, RotateTypes
<1>3. Agreeing'
  BY <1>1, RotateAgrees
<1>4. (\A s \in Symbols \ Excluded : Waiting(s))'
  BY <1>1, RotateWaits
<1>5. (\A s \in Symbols : TripsCounted(s))'
  BY <1>1, RotateCounts
<1>6. (\A s \in Symbols : PenaltyKnown(s))'
  BY <1>1, RotateRemembers
<1> QED BY <1>2, <1>3, <1>4, <1>5, <1>6 DEF IInv

-----------------------------------------------------------------------------
(* The other steps: none of them changes the universe                      *)

LEMMA OtherTypes ==
    ASSUME TypeOK, UNCHANGED <<now, universeVars, historyVars>>,
           loaded' \in BOOLEAN, failed' \in BOOLEAN,
           latest' \in Scans \cup {None},
           latest' # None => latest'.top \subseteq latest'.ten /\ latest'.ten \subseteq Symbols \ Excluded,
           ws' \subseteq Symbols, symbols' \subseteq Symbols,
           watch' \subseteq Symbols, held' \subseteq Symbols,
           todo' \in Decisions \cup {None}
    PROVE  TypeOK'
<1>1. /\ now' = now /\ subscribed' = subscribed /\ pending' = pending
      /\ flaps' = flaps /\ penalty' = penalty /\ stay' = stay /\ trips' = trips
  BY DEF universeVars, historyVars
<1>2. /\ now' \in 1..MaxTime
      /\ subscribed' \subseteq Symbols \ Excluded
      /\ DOMAIN pending' \subseteq Symbols \ Excluded
      /\ \A s \in DOMAIN pending' : pending'[s] \in 1..now'
  BY <1>1 DEF TypeOK
<1>3. /\ flaps' \in [Symbols -> [start : 0..now', count : Nat, last : BOOLEAN]]
      /\ penalty' \in [Symbols -> [from : 0..now', until : Nat, level : Nat]]
      /\ \A s \in Symbols :
           /\ flaps'[s].count >= FlapThreshold => penalty'[s].level > 0
           /\ penalty'[s].level > 0 <=> penalty'[s].until > 0
  BY <1>1 DEF TypeOK
<1>4. /\ stay' \in [Symbols -> Stays \cup {None}]
      /\ trips' \in [Symbols -> SUBSET (1..now')]
  BY <1>1 DEF TypeOK
<1> QED BY <1>2, <1>3, <1>4, Zenon DEF TypeOK

LEMMA OtherIInv ==
    ASSUME IInv, UNCHANGED <<now, universeVars, historyVars>>, TypeOK', Agreeing'
    PROVE  IInv'
<1>1. /\ now' = now /\ subscribed' = subscribed /\ pending' = pending
      /\ flaps' = flaps /\ penalty' = penalty /\ stay' = stay /\ trips' = trips
  BY DEF universeVars, historyVars
<1>2. (\A s \in Symbols \ Excluded : Waiting(s))'
  BY <1>1 DEF IInv, Waiting
<1>3. (\A s \in Symbols : TripsCounted(s))'
  BY <1>1 DEF IInv, TripsCounted
<1>4. (\A s \in Symbols : PenaltyKnown(s))'
  BY <1>1 DEF IInv, PenaltyKnown
<1> QED BY <1>2, <1>3, <1>4 DEF IInv

LEMMA ScanIInv ==
    ASSUME IInv, Scan
    PROVE  IInv'
<1>1. TypeOK /\ Agreeing
  BY DEF IInv
<1>2. UNCHANGED <<now, universeVars, runnerVars, historyVars, held, failed>>
  BY DEF Scan
<1>3. loaded' \in BOOLEAN
  BY <1>1 DEF Scan, TypeOK
<1>4. /\ latest' \in Scans \cup {None}
      /\ latest' # None => latest'.top \subseteq latest'.ten /\ latest'.ten \subseteq Symbols \ Excluded
  <2>1. CASE latest' = latest
    BY <1>1, <2>1 DEF TypeOK
  <2>2. CASE \E market \in Markets : latest' = ScanResults[market][loaded']
    BY <1>3, <2>2, ScanFinds
  <2> QED BY <2>1, <2>2 DEF Scan
<1>5. /\ ws' = ws /\ symbols' = symbols /\ watch' = watch /\ todo' = todo
      /\ held' = held /\ failed' = failed
  BY <1>2 DEF runnerVars
<1>6. TypeOK'
  <2>1. /\ ws \subseteq Symbols /\ symbols \subseteq Symbols /\ watch \subseteq Symbols
        /\ held \subseteq Symbols /\ todo \in Decisions \cup {None} /\ failed \in BOOLEAN
    BY <1>1 DEF TypeOK
  <2> QED BY <1>1, <1>2, <1>3, <1>4, <1>5, <2>1, OtherTypes
<1>7. Agreeing'
  BY <1>1, <1>2, <1>5 DEF Agreeing, Working, Busy, universeVars
<1> QED BY <1>2, <1>6, <1>7, OtherIInv

\* A step of the runner changes neither the universe nor the ranking.
LEMMA WorkIInv ==
    ASSUME IInv, UNCHANGED <<now, marketVars, universeVars, historyVars>>,
           ws' \subseteq Symbols, symbols' \subseteq Symbols,
           watch' \subseteq Symbols, held' \subseteq Symbols,
           todo' \in Decisions \cup {None}, failed' \in BOOLEAN, Agreeing'
    PROVE  IInv'
<1>1. TypeOK
  BY DEF IInv
<1>2. /\ loaded' \in BOOLEAN /\ latest' \in Scans \cup {None}
      /\ latest' # None => latest'.top \subseteq latest'.ten /\ latest'.ten \subseteq Symbols \ Excluded
      /\ UNCHANGED <<now, universeVars, historyVars>>
  BY <1>1 DEF TypeOK, marketVars
<1>3. TypeOK'
  BY <1>1, <1>2, OtherTypes
<1> QED BY <1>2, <1>3, OtherIInv

\* What the runner's parts are, by type.
LEMMA Parts ==
    ASSUME TypeOK
    PROVE  /\ ws \subseteq Symbols /\ symbols \subseteq Symbols
           /\ watch \subseteq Symbols /\ held \subseteq Symbols /\ failed \in BOOLEAN
           /\ subscribed \subseteq Symbols \ Excluded /\ None \notin Symbols
           /\ todo \in Decisions \cup {None}
           /\ Busy => /\ todo \in Decisions /\ todo.on \subseteq Symbols
                      /\ todo.off \subseteq Symbols /\ todo.watch \subseteq Symbols
                      /\ todo.fetching \in Symbols \cup {None}
BY NoneAssumption DEF TypeOK, Busy, Decisions

LEMMA SubscribeIInv ==
    ASSUME IInv, NEW s \in Symbols, Subscribe(s)
    PROVE  IInv'
<1>1. TypeOK /\ Agreeing
  BY DEF IInv
<1>2. /\ Busy /\ todo.fetching = None /\ s \in todo.on
      /\ UNCHANGED <<now, marketVars, universeVars, historyVars>>
      /\ subscribed' = subscribed /\ symbols' = symbols /\ watch' = watch /\ held' = held
  BY DEF Subscribe, universeVars
<1>3. /\ ws \subseteq Symbols /\ symbols \subseteq Symbols
      /\ watch \subseteq Symbols /\ held \subseteq Symbols /\ failed \in BOOLEAN
      /\ subscribed \subseteq Symbols \ Excluded /\ None \notin Symbols
      /\ todo \in Decisions
  BY <1>1, <1>2, Parts
<1>4. symbols \subseteq ws /\ (~failed => Working)
  BY <1>1, <1>2 DEF Agreeing
<1>5. CASE \/ s \in ws /\ todo' = [todo EXCEPT !.on = @ \ {s}] /\ ws' = ws /\ failed' = failed
           \/ todo' = [todo EXCEPT !.on = @ \ {s}] /\ ws' = ws /\ failed' = TRUE
  <2>1. todo' \in Decisions /\ todo'.fetching = None
    BY <1>2, <1>3, <1>5 DEF Decisions
  <2>2. failed'
    BY <1>2, <1>4, <1>5 DEF Working
  <2>3. todo' # None
    BY <2>1, NoneAssumption
  <2>4. Agreeing'
    BY <1>2, <1>4, <1>5, <2>1, <2>2, <2>3 DEF Agreeing, Busy
  <2> QED BY <1>2, <1>3, <1>5, <2>1, <2>2, <2>4, WorkIInv
<1>6. CASE /\ s \notin ws /\ todo' = [todo EXCEPT !.on = @ \ {s}, !.fetching = s]
           /\ ws' = ws \cup {s} /\ failed' = failed
  <2>1. /\ todo' \in Decisions /\ todo'.fetching = s /\ todo'.on = todo.on \ {s}
        /\ todo'.off = todo.off
    BY <1>2, <1>3, <1>6 DEF Decisions
  <2>2. ASSUME ~failed
        PROVE  /\ todo'.on \subseteq subscribed /\ todo'.on \cap ws' = {}
               /\ todo'.off \subseteq ws' /\ todo'.off \cap subscribed = {}
               /\ ws' \ Excluded = (subscribed \ todo'.on) \cup todo'.off
               /\ symbols = ws' \ {todo'.fetching}
    <3>1. /\ todo.on \subseteq subscribed /\ todo.on \cap ws = {}
          /\ todo.off \subseteq ws /\ todo.off \cap subscribed = {}
          /\ ws \ Excluded = (subscribed \ todo.on) \cup todo.off
          /\ symbols = ws \ {todo.fetching}
      BY <1>4, <2>2 DEF Working
    <3>2. s \in subscribed /\ s \notin Excluded /\ symbols = ws
      BY <1>2, <1>3, <3>1
    <3> QED BY <1>2, <1>6, <2>1, <3>1, <3>2
  <2>3. todo' # None
    BY <2>1, NoneAssumption
  <2>4. symbols' \subseteq ws' /\ s \in ws'
    BY <1>2, <1>4, <1>6
  <2>5. Agreeing'
    BY <1>2, <1>6, <2>1, <2>2, <2>3, <2>4 DEF Agreeing, Busy, Working
  <2> QED BY <1>2, <1>3, <1>6, <2>1, <2>5, WorkIInv
<1> QED BY <1>5, <1>6 DEF Subscribe

LEMMA FetchedIInv ==
    ASSUME IInv, Fetched
    PROVE  IInv'
<1>1. TypeOK /\ Agreeing
  BY DEF IInv
<1>2. /\ Busy /\ todo.fetching # None
      /\ todo' = [todo EXCEPT !.fetching = None]
      /\ \/ symbols' = symbols \cup {todo.fetching} /\ failed' = failed
         \/ failed' = TRUE /\ symbols' = symbols
      /\ UNCHANGED <<now, marketVars, universeVars, historyVars>>
      /\ subscribed' = subscribed /\ ws' = ws /\ watch' = watch /\ held' = held
  BY DEF Fetched, universeVars
<1>3. /\ ws \subseteq Symbols /\ symbols \subseteq Symbols
      /\ watch \subseteq Symbols /\ held \subseteq Symbols /\ failed \in BOOLEAN
      /\ subscribed \subseteq Symbols \ Excluded /\ None \notin Symbols
      /\ todo \in Decisions /\ todo.fetching \in Symbols
  BY <1>1, <1>2, Parts
<1>4. symbols \subseteq ws /\ todo.fetching \in ws /\ (~failed => Working)
  BY <1>1, <1>2 DEF Agreeing
<1>5. /\ todo' \in Decisions /\ todo'.fetching = None /\ todo'.on = todo.on
      /\ todo'.off = todo.off
  BY <1>2, <1>3 DEF Decisions
<1>6. todo' # None
  BY <1>5, NoneAssumption
<1>7. symbols' \subseteq ws' /\ symbols' \subseteq Symbols /\ failed' \in BOOLEAN
  BY <1>2, <1>3, <1>4
<1>8. ASSUME ~failed'
      PROVE  /\ todo'.on \subseteq subscribed /\ todo'.on \cap ws = {}
             /\ todo'.off \subseteq ws /\ todo'.off \cap subscribed = {}
             /\ ws \ Excluded = (subscribed \ todo'.on) \cup todo'.off
             /\ symbols' = ws \ {todo'.fetching}
  <2>1. ~failed /\ symbols' = symbols \cup {todo.fetching}
    BY <1>2, <1>8
  <2>2. /\ todo.on \subseteq subscribed /\ todo.on \cap ws = {}
        /\ todo.off \subseteq ws /\ todo.off \cap subscribed = {}
        /\ ws \ Excluded = (subscribed \ todo.on) \cup todo.off
        /\ symbols = ws \ {todo.fetching}
    BY <1>4, <2>1 DEF Working
  <2>3. symbols' = ws \ {None}
    BY <1>3, <1>4, <2>1, <2>2
  <2> QED BY <1>5, <2>2, <2>3
<1>9. Agreeing'
  BY <1>2, <1>5, <1>6, <1>7, <1>8 DEF Agreeing, Busy, Working
<1> QED BY <1>2, <1>3, <1>5, <1>7, <1>9, WorkIInv

LEMMA UnsubscribeIInv ==
    ASSUME IInv, NEW s \in Symbols, Unsubscribe(s)
    PROVE  IInv'
<1>1. TypeOK /\ Agreeing
  BY DEF IInv
<1>2. /\ Busy /\ todo.fetching = None /\ todo.on = {} /\ s \in todo.off
      /\ todo' = [todo EXCEPT !.off = @ \ {s}]
      /\ \/ s \notin ws /\ ws' = ws /\ symbols' = symbols /\ failed' = failed
         \/ s \in ws /\ ws' = ws \ {s} /\ symbols' = symbols \ {s} /\ failed' = failed
         \/ s \in ws /\ failed' = TRUE /\ ws' = ws /\ symbols' = symbols
      /\ UNCHANGED <<now, marketVars, universeVars, historyVars>>
      /\ subscribed' = subscribed /\ watch' = watch /\ held' = held
  BY DEF Unsubscribe, universeVars
<1>3. /\ ws \subseteq Symbols /\ symbols \subseteq Symbols
      /\ watch \subseteq Symbols /\ held \subseteq Symbols /\ failed \in BOOLEAN
      /\ subscribed \subseteq Symbols \ Excluded /\ None \notin Symbols
      /\ todo \in Decisions
  BY <1>1, <1>2, Parts
<1>4. symbols \subseteq ws /\ (~failed => Working)
  BY <1>1, <1>2 DEF Agreeing
<1>5. /\ todo' \in Decisions /\ todo'.fetching = None /\ todo'.on = {}
      /\ todo'.off = todo.off \ {s}
  BY <1>2, <1>3 DEF Decisions
<1>6. todo' # None
  BY <1>5, NoneAssumption
<1>7. /\ symbols' \subseteq ws' /\ symbols' \subseteq Symbols /\ ws' \subseteq Symbols
      /\ failed' \in BOOLEAN
  BY <1>2, <1>3, <1>4
<1>8. ASSUME ~failed'
      PROVE  /\ todo'.on \subseteq subscribed /\ todo'.on \cap ws' = {}
             /\ todo'.off \subseteq ws' /\ todo'.off \cap subscribed = {}
             /\ ws' \ Excluded = (subscribed \ todo'.on) \cup todo'.off
             /\ symbols' = ws' \ {todo'.fetching}
  <2>1. ~failed
    BY <1>2, <1>8
  <2>2. /\ todo.off \subseteq ws /\ todo.off \cap subscribed = {}
        /\ ws \ Excluded = (subscribed \ todo.on) \cup todo.off
        /\ symbols = ws \ {todo.fetching}
    BY <1>4, <2>1 DEF Working
  <2>3. symbols = ws /\ ws \ Excluded = subscribed \cup todo.off
    BY <1>2, <1>3, <2>2
  <2>4. ws' = ws \ {s} /\ symbols' = symbols \ {s}
    BY <1>2, <1>8, <2>2
  <2>5. None \notin ws'
    BY <1>3, <2>4
  <2> QED BY <1>2, <1>5, <2>2, <2>3, <2>4, <2>5
<1>9. Agreeing'
  BY <1>2, <1>5, <1>6, <1>7, <1>8 DEF Agreeing, Busy, Working
<1> QED BY <1>2, <1>3, <1>5, <1>7, <1>9, WorkIInv

LEMMA EndRotationIInv ==
    ASSUME IInv, EndRotation
    PROVE  IInv'
<1>1. TypeOK /\ Agreeing
  BY DEF IInv
<1>2. /\ Busy /\ todo.fetching = None /\ todo.on = {} /\ todo.off = {}
      /\ watch' = todo.watch /\ todo' = None
      /\ UNCHANGED <<now, marketVars, universeVars, historyVars>>
      /\ subscribed' = subscribed /\ ws' = ws /\ symbols' = symbols
      /\ held' = held /\ failed' = failed
  BY DEF EndRotation, universeVars
<1>3. /\ ws \subseteq Symbols /\ symbols \subseteq Symbols /\ todo.watch \subseteq Symbols
      /\ held \subseteq Symbols /\ failed \in BOOLEAN /\ None \notin Symbols
  BY <1>1, <1>2, Parts
<1>4. ~failed => ws = symbols /\ symbols \ Excluded = subscribed
  <2>1. SUFFICES ASSUME ~failed PROVE ws = symbols /\ symbols \ Excluded = subscribed
    OBVIOUS
  <2>2. /\ ws \ Excluded = (subscribed \ todo.on) \cup todo.off
        /\ symbols = ws \ {todo.fetching}
    BY <1>1, <1>2, <2>1 DEF Agreeing, Working
  <2> QED BY <1>2, <1>3, <2>2
<1>5. Agreeing'
  BY <1>1, <1>2, <1>4 DEF Agreeing, Busy
<1> QED BY <1>2, <1>3, <1>5, WorkIInv

LEMMA PositionsIInv ==
    ASSUME IInv, NEW s \in Symbols, Enter(s) \/ Exit(s)
    PROVE  IInv'
<1>1. TypeOK /\ Agreeing
  BY DEF IInv
<1>2. /\ UNCHANGED <<now, marketVars, universeVars, historyVars>>
      /\ subscribed' = subscribed /\ ws' = ws /\ symbols' = symbols /\ watch' = watch
      /\ todo' = todo /\ failed' = failed
      /\ held' \subseteq held \cup {s}
  BY DEF Enter, Exit, universeVars, runnerVars
<1>3. /\ ws \subseteq Symbols /\ symbols \subseteq Symbols /\ watch \subseteq Symbols
      /\ held \subseteq Symbols /\ failed \in BOOLEAN /\ todo \in Decisions \cup {None}
  BY <1>1, Parts
<1>4. Agreeing'
  BY <1>1, <1>2 DEF Agreeing, Working, Busy
<1> QED BY <1>2, <1>3, <1>4, WorkIInv

-----------------------------------------------------------------------------
(* The start of a process, and all steps                                   *)

Afresh ==
    /\ now = 1 /\ loaded = FALSE /\ latest = None
    /\ Started(symbols, ws, subscribed)
    /\ pending = <<>>
    /\ flaps = [s \in Symbols |-> Fresh] /\ penalty = [s \in Symbols |-> Free]
    /\ watch = {} /\ todo = None /\ held \subseteq Symbols
    /\ stay = [s \in Symbols |-> None] /\ trips = [s \in Symbols |-> {}]
    /\ failed = FALSE

LEMMA StartIInv == Afresh => IInv
<1> SUFFICES ASSUME Afresh PROVE IInv
  OBVIOUS
<1>1. /\ now = 1 /\ loaded = FALSE /\ latest = None /\ pending = <<>>
      /\ symbols = Initial /\ ws = Initial /\ subscribed = Initial \ Excluded
      /\ watch = {} /\ todo = None /\ held \subseteq Symbols /\ failed = FALSE
      /\ stay = [s \in Symbols |-> None] /\ trips = [s \in Symbols |-> {}]
      /\ flaps = [s \in Symbols |-> [start |-> 0, count |-> 0, last |-> FALSE]]
      /\ penalty = [s \in Symbols |-> [from |-> 0, until |-> 0, level |-> 0]]
  BY DEF Afresh, Started, Fresh, Free
<1>2. /\ Initial \subseteq Symbols /\ MaxTime \in Nat \ {0}
      /\ FlapThreshold \in Nat \ {0}
  BY RotationAssumption
<1>3. DOMAIN pending = {}
  BY <1>1
<1>4. TypeOK
  <2>1. now \in 1..MaxTime
    BY <1>1, <1>2
  <2>2. /\ subscribed \subseteq Symbols \ Excluded /\ DOMAIN pending \subseteq Symbols \ Excluded
        /\ \A s \in DOMAIN pending : pending[s] \in 1..now
    BY <1>1, <1>2, <1>3
  <2>3. 0 \in 0..now /\ 0 \in Nat
    BY <1>1
  <2>4. /\ flaps \in [Symbols -> [start : 0..now, count : Nat, last : BOOLEAN]]
        /\ penalty \in [Symbols -> [from : 0..now, until : Nat, level : Nat]]
    BY <1>1, <2>3
  <2>5. \A s \in Symbols :
          /\ flaps[s].count >= FlapThreshold => penalty[s].level > 0
          /\ penalty[s].level > 0 <=> penalty[s].until > 0
    BY <1>1, <1>2
  <2>6. loaded \in BOOLEAN /\ failed \in BOOLEAN
    BY <1>1
  <2>7. /\ stay \in [Symbols -> Stays \cup {None}] /\ trips \in [Symbols -> SUBSET (1..now)]
        /\ latest \in Scans \cup {None} /\ todo \in Decisions \cup {None}
        /\ latest # None => latest.top \subseteq latest.ten /\ latest.ten \subseteq Symbols \ Excluded
        /\ {ws, symbols, watch, held} \subseteq SUBSET Symbols
    BY <1>1, <1>2
  <2> QED BY <2>1, <2>2, <2>4, <2>5, <2>6, <2>7, Zenon DEF TypeOK
<1>5. Agreeing
  BY <1>1 DEF Agreeing, Busy
<1>6. \A s \in Symbols \ Excluded : Waiting(s)
  BY <1>1, <1>3 DEF Waiting
<1>7. \A s \in Symbols : TripsCounted(s)
  BY <1>1 DEF TripsCounted
<1>8. \A s \in Symbols : PenaltyKnown(s)
  BY <1>1 DEF PenaltyKnown, Known
<1> QED BY <1>4, <1>5, <1>6, <1>7, <1>8 DEF IInv

LEMMA RestartIInv ==
    ASSUME IInv, Restart
    PROVE  IInv'
<1>1. held' \subseteq Symbols
  BY DEF IInv, TypeOK, Restart
<1>2. Afresh'
  BY <1>1 DEF Restart, Afresh, Started, Fresh, Free
<1>3. Afresh' => IInv'
  BY StartIInv, PTL
<1> QED BY <1>2, <1>3

LEMMA NextIInv ==
    IInv /\ [Next]_vars => IInv'
<1> SUFFICES ASSUME IInv, [Next]_vars PROVE IInv'
  OBVIOUS
<1>1. CASE Scan
  BY <1>1, ScanIInv
<1>2. CASE Rotate
  BY <1>2, RotateIInv
<1>3. CASE Fetched
  BY <1>3, FetchedIInv
<1>4. CASE EndRotation
  BY <1>4, EndRotationIInv
<1>5. CASE Restart
  BY <1>5, RestartIInv
<1>6. ASSUME NEW s \in Symbols, Subscribe(s) PROVE IInv'
  BY <1>6, SubscribeIInv
<1>7. ASSUME NEW s \in Symbols, Unsubscribe(s) PROVE IInv'
  BY <1>7, UnsubscribeIInv
<1>8. ASSUME NEW s \in Symbols, Enter(s) \/ Exit(s) PROVE IInv'
  BY <1>8, PositionsIInv
<1>9. CASE UNCHANGED vars
  <2>1. UNCHANGED <<now, marketVars, universeVars, historyVars>>
        /\ UNCHANGED <<ws, symbols, watch, todo, held, failed, subscribed>>
    BY <1>9 DEF vars, runnerVars, universeVars
  <2>2. TypeOK /\ Agreeing
    BY DEF IInv
  <2>3. Agreeing'
    BY <2>1, <2>2 DEF Agreeing, Working, Busy
  <2>4. /\ ws' \subseteq Symbols /\ symbols' \subseteq Symbols /\ watch' \subseteq Symbols
        /\ held' \subseteq Symbols /\ failed' \in BOOLEAN /\ todo' \in Decisions \cup {None}
    BY <2>1, <2>2, Parts
  <2> QED BY <2>1, <2>3, <2>4, WorkIInv
<1> QED BY <1>1, <1>2, <1>3, <1>4, <1>5, <1>6, <1>7, <1>8, <1>9 DEF Next

\* The inductive invariant holds in every reachable state, whatever the market,
\* the failing calls and the time between scans and rotations.
THEOREM InductiveInvariant == Spec => []IInv
<1>1. Init => IInv
  <2>1. Init => Afresh
    BY DEF Init, Afresh
  <2> QED BY <2>1, StartIInv
<1> QED BY <1>1, NextIInv, PTL DEF Spec

\* on_deal and the trigger loop take data only of symbols the WebSocket is
\* subscribed to, and once _apply_rotation has worked through decisions in
\* which no call failed, WebSocket, runner and universe agree.
THEOREM ListensRight == Spec => []ListensAsDecided
<1>1. IInv => ListensAsDecided
  BY DEF IInv, Agreeing, ListensAsDecided
<1> QED BY <1>1, InductiveInvariant, PTL

\* Only a rotation lets time pass.
LEMMA TimePasses ==
    ASSUME TypeOK, [Next]_vars, now' > now
    PROVE  Rotate
<1>1. now \in Nat /\ now >= 1
  <2>1. now \in 1..MaxTime /\ MaxTime \in Nat
    BY RotationAssumption DEF TypeOK
  <2> QED BY <2>1
<1>2. ~(now' = 1) /\ ~(now' = now)
  BY <1>1
<1>3. ~Restart
  BY <1>2 DEF Restart
<1>4. ~Scan /\ ~Fetched /\ ~EndRotation /\ ~UNCHANGED vars
  BY <1>2 DEF Scan, Fetched, EndRotation, vars
<1>5. \A s \in Symbols : ~Subscribe(s) /\ ~Unsubscribe(s) /\ ~Enter(s) /\ ~Exit(s)
  BY <1>2 DEF Subscribe, Unsubscribe, Enter, Exit
<1> QED BY <1>3, <1>4, <1>5 DEF Next

\* A rotation moves a subscription exactly when the top has disagreed for long
\* enough and no quarantine forbids it.
LEMMA RotateFollows ==
    ASSUME TypeOK, Rotate, NEW s \in Symbols \ Excluded, Waiting(s)
    PROVE  LET wanted == stay'[s].in
               moves  == /\ wanted # (s \in subscribed)
                         /\ stay'[s].time = Hysteresis
                         /\ ~(wanted /\ Quarantined(penalty'[s], now'))
           IN  (s \in subscribed') = IF moves THEN wanted ELSE s \in subscribed
<1> DEFINE wanted == s \in latest.top
           old    == s \in subscribed
           is     == s \in subscribed'
           waited == s \in DOMAIN pending /\ now' - pending[s] >= Hysteresis
           kept   == wanted /\ Quarantined(penalty'[s], now')
           long   == stay'[s].time = Hysteresis
<1>1. now \in Nat /\ now' \in Nat /\ Hysteresis \in Nat \ {0}
  BY RotateIs, RotationAssumption
<1>2. is <=> IF wanted # old /\ waited /\ ~kept THEN wanted ELSE old
  BY RotateMoves
<1>3. ASSUME wanted # old PROVE waited <=> long
  <2>1. CASE s \in DOMAIN pending
    <3>1. pending[s] \in 1..now /\ stay'[s].time = Min({Hysteresis, now' - pending[s]})
      BY <1>3, <2>1, RotateTimes
    <3>2. PICK t \in Nat : t = now'
      BY <1>1
    <3>3. PICK p \in Nat : p = pending[s]
      BY <1>1, <3>1
    <3>4. PICK d \in Int : d = t - p
      OBVIOUS
    <3>5. waited <=> d >= Hysteresis
      BY <2>1, <3>2, <3>3, <3>4
    <3>6. stay'[s].time = Min({Hysteresis, d})
      BY <3>1, <3>2, <3>3, <3>4
    <3>7. Min({Hysteresis, d}) = IF Hysteresis <= d THEN Hysteresis ELSE d
      BY <1>1, Least
    <3>8. Min({Hysteresis, d}) = Hysteresis <=> d >= Hysteresis
      BY <1>1, <3>7
    <3> QED BY <3>5, <3>6, <3>8
  <2>2. CASE s \notin DOMAIN pending
    BY <1>1, <1>3, <2>2, RotateTimes
  <2> QED BY <2>1, <2>2
<1>4. stay'[s].in = wanted
  BY RotateStays
<1>5. is \in BOOLEAN /\ wanted \in BOOLEAN /\ old \in BOOLEAN
  OBVIOUS
<1> HIDE DEF wanted, old, is, waited, kept, long
<1>6. is = IF wanted # old /\ long /\ ~kept THEN wanted ELSE old
  BY <1>2, <1>3, <1>5
<1> QED BY <1>4, <1>6 DEF old, is, kept, long

\* apply_scan moves a subscription only when the top has disagreed with it at every
\* rotation for the hysteresis, never takes up a symbol in quarantine, and else
\* moves it, if that is not to let go a symbol with an open position.
THEOREM RankingDecides == Spec => SubscriptionsFollowTop
<1> DEFINE A == now' > now =>
        \A s \in Symbols \ Excluded :
            LET wanted == stay'[s].in
                moves  == /\ wanted # (s \in subscribed)
                          /\ stay'[s].time = Hysteresis
                          /\ ~(wanted /\ Quarantined(penalty'[s], now'))
                moved  == (s \in subscribed') # (s \in subscribed)
            IN  /\ moved => moves
                /\ moves /\ (wanted \/ s \notin held) => moved
<1>1. IInv /\ [Next]_vars => [A]_vars
  <2> SUFFICES ASSUME IInv, [Next]_vars PROVE A
    OBVIOUS
  <2>1. SUFFICES ASSUME now' > now PROVE A
    OBVIOUS
  <2>2. TypeOK /\ \A s \in Symbols \ Excluded : Waiting(s)
    BY DEF IInv
  <2>3. Rotate
    BY <2>1, <2>2, TimePasses
  <2>4. SUFFICES ASSUME NEW s \in Symbols \ Excluded
                 PROVE  LET wanted == stay'[s].in
                            moves  == /\ wanted # (s \in subscribed)
                                      /\ stay'[s].time = Hysteresis
                                      /\ ~(wanted /\ Quarantined(penalty'[s], now'))
                            moved  == (s \in subscribed') # (s \in subscribed)
                        IN  /\ moved => moves
                            /\ moves /\ (wanted \/ s \notin held) => moved
    OBVIOUS
  <2> DEFINE moves == /\ stay'[s].in # (s \in subscribed)
                      /\ stay'[s].time = Hysteresis
                      /\ ~(stay'[s].in /\ Quarantined(penalty'[s], now'))
  <2>5. (s \in subscribed') = IF moves THEN stay'[s].in ELSE s \in subscribed
    BY <2>2, <2>3, RotateFollows
  <2>6. moves => stay'[s].in # (s \in subscribed)
    OBVIOUS
  <2> HIDE DEF moves
  <2>7. (s \in subscribed') # (s \in subscribed) <=> moves
    BY <2>5, <2>6
  <2> QED BY <2>7 DEF moves
<1> HIDE DEF A
<1>2. Spec => [][A]_vars
  BY <1>1, InductiveInvariant, PTL DEF Spec
<1> QED BY <1>2 DEF A, SubscriptionsFollowTop

\* A sentence is earned, is not given twice and is not shorter than the last.
LEMMA Deserved ==
    ASSUME NEW n \in Nat, NEW t \in Nat, n <= t, NEW p \in PenaltyUntil(n),
           NEW f \in FlapUntil(n), NEW w \in FlapUntil(t), NEW nf \in FlapUntil(t),
           NEW np, np.until # p.until, Known(p, n),
           \/ Untripped(nf, np, f, p, t)
           \/ Tripped(nf, np, w, p, t)
           \/ Convicted(nf, np, w, p, t)
    PROVE  /\ Convicted(nf, np, w, p, t)
           /\ w.count >= FlapThreshold /\ ~Quarantined(p, t)
           /\ p.until # 0 /\ t - p.until < Stable => np.until - t >= p.until - p.from
<1>1. p \in PenaltyUntil(t) /\ Stable \in Nat
  BY RotationAssumption DEF PenaltyUntil
<1>2. p.level \in Nat /\ p.until \in Nat /\ p.from \in Nat
  BY DEF PenaltyUntil
<1>3. np # StableReset(p, t)
  BY <1>1, ResetKeeps
<1>4. Convicted(nf, np, w, p, t)
  BY <1>3 DEF Untripped, Tripped
<1>5. w.count >= FlapThreshold /\ ~Quarantined(p, t)
  BY <1>4 DEF Convicted, Sentenced
<1>6. ASSUME p.until # 0, t - p.until < Stable
      PROVE  np.until - t >= p.until - p.from
  <2>1. ~(n - p.until >= Stable)
    BY <1>1, <1>2, <1>6
  <2>2. p.level # 0 /\ p.until - p.from = Duration(p.level - 1)
    BY <1>6, <2>1 DEF Known
  <2>3. np.until = t + Duration(p.level)
    BY <1>4, SentenceBegins DEF Convicted
  <2>4. PICK d \in Nat : d = Duration(p.level)
    BY <1>2, Longer
  <2>5. Duration(p.level - 1) <= d
    BY <1>2, <2>2, <2>4, Longer
  <2>6. np.until - t = d
    BY <2>3, <2>4
  <2> QED BY <2>2, <2>5, <2>6
<1> QED BY <1>4, <1>5, <1>6

LEMMA RotateDeserves ==
    ASSUME TypeOK, Rotate, NEW s \in Symbols, TripsCounted(s), PenaltyKnown(s),
           penalty'[s].until # penalty[s].until
    PROVE  /\ Cardinality(trips'[s]) >= FlapThreshold
           /\ ~Quarantined(penalty[s], now')
           /\ penalty[s].until # 0 /\ now' - penalty[s].until < Stable =>
                penalty'[s].until - now' >= penalty[s].until - penalty[s].from
<1> DEFINE w == Window(flaps[s], now')
           N == trips'[s]
           R == {u \in N : u >= w.start}
<1>1. now \in Nat /\ now' \in Nat /\ now <= now' /\ FlapThreshold \in Nat
  BY RotateIs, RotationAssumption
<1>2. /\ flaps[s] \in FlapUntil(now) /\ penalty[s] \in PenaltyUntil(now)
      /\ Known(penalty[s], now)
  BY DEF TypeOK, FlapUntil, PenaltyUntil, PenaltyKnown
<1>3. flaps'[s] \in FlapUntil(now') /\ penalty'[s] \in PenaltyUntil(now') /\ Turns(s)
  BY RotateTurns
<1>4. w \in FlapUntil(now')
  BY <1>1, <1>2, WindowCounts
<1>5. \/ Untripped(flaps'[s], penalty'[s], flaps[s], penalty[s], now')
      \/ Tripped(flaps'[s], penalty'[s], w, penalty[s], now')
      \/ Convicted(flaps'[s], penalty'[s], w, penalty[s], now')
  BY <1>3 DEF Turns
<1> HIDE DEF w
<1>6. /\ Convicted(flaps'[s], penalty'[s], w, penalty[s], now')
      /\ w.count >= FlapThreshold /\ ~Quarantined(penalty[s], now')
      /\ penalty[s].until # 0 /\ now' - penalty[s].until < Stable =>
           penalty'[s].until - now' >= penalty[s].until - penalty[s].from
  BY <1>1, <1>2, <1>3, <1>4, <1>5, Deserved
<1>7. LeavesTop(s, latest.top)
  <2>1. penalty'[s] # StableReset(penalty[s], now')
    <3>1. penalty[s] \in PenaltyUntil(now')
      BY <1>1, <1>2 DEF PenaltyUntil
    <3> QED BY <1>1, <3>1, ResetKeeps
  <2> QED BY <1>3, <2>1 DEF Turns, Untripped
<1>8. IsFiniteSet(N) /\ w.count <= Cardinality(R)
  BY <1>7, TripsRemembered DEF w
<1>9. Cardinality(R) <= Cardinality(N) /\ Cardinality(R) \in Nat /\ Cardinality(N) \in Nat
  <2>1. R \subseteq N
    OBVIOUS
  <2> HIDE DEF R, N
  <2> QED BY <1>8, <2>1, FS_Subset, FS_CardinalityType
<1>10. w.count \in Nat
  BY <1>4 DEF FlapUntil
<1> HIDE DEF R
<1>11. Cardinality(N) >= FlapThreshold
  BY <1>1, <1>6, <1>8, <1>9, <1>10
<1> QED BY <1>6, <1>11 DEF N

\* A quarantine begins only with flap_threshold exits from the top within the
\* window, never within another, and _enter_quarantine escalates until
\* _maybe_stable_reset: it is not shorter than one that ended a short time ago.
THEOREM QuarantineIsDeserved == Spec => QuarantineDeserved
<1> DEFINE A == \A s \in Symbols :
        penalty'[s].until # penalty[s].until /\ now' > now =>
            /\ Cardinality(trips'[s]) >= FlapThreshold
            /\ ~Quarantined(penalty[s], now')
            /\ penalty[s].until # 0 /\ now' - penalty[s].until < Stable =>
                 penalty'[s].until - now' >= penalty[s].until - penalty[s].from
<1>1. IInv /\ [Next]_vars => [A]_vars
  <2> SUFFICES ASSUME IInv, [Next]_vars,
                      NEW s \in Symbols, penalty'[s].until # penalty[s].until, now' > now
               PROVE  /\ Cardinality(trips'[s]) >= FlapThreshold
                      /\ ~Quarantined(penalty[s], now')
                      /\ penalty[s].until # 0 /\ now' - penalty[s].until < Stable =>
                           penalty'[s].until - now' >= penalty[s].until - penalty[s].from
    OBVIOUS
  <2>1. TypeOK /\ TripsCounted(s) /\ PenaltyKnown(s)
    BY DEF IInv
  <2>2. Rotate
    BY <2>1, TimePasses
  <2> QED BY <2>1, <2>2, RotateDeserves
<1> HIDE DEF A
<1>2. Spec => [][A]_vars
  BY <1>1, InductiveInvariant, PTL DEF Spec
<1> QED BY <1>2 DEF A, QuarantineDeserved

=============================================================================
