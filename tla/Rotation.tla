------------------------------- MODULE Rotation -------------------------------
(***************************************************************************)
(* Which symbols the shadow runner listens to: the ranking of              *)
(* BulkMetricsFetcher (src/src/data_layer/metrics_fetcher.py), the         *)
(* rotation state of UniverseService (universe_service.py), the dynamic    *)
(* subscriptions of MEXCWSClient (mexc_ws.py) and the runner's scan and    *)
(* rotation loops (src/tests/shadow/runner.py).                            *)
(*                                                                         *)
(* The two loops are separate coroutines: scans replace the latest ranking *)
(* at any moment, a rotation decides from it in one step (apply_scan does  *)
(* not await) and then works through its decision, one REST or WebSocket   *)
(* call at a time.  A send or a snapshot that fails is logged and never    *)
(* tried again.  Positions are opened and closed by the data of listened   *)
(* symbols only.  Time is the wall clock read by the rotation loop.        *)
(*                                                                         *)
(* A decision is worked through in alphabetic order; here in any order.    *)
(* The order books that a new symbol gets are BookSync's subject.          *)
(***************************************************************************)
EXTENDS Integers, Sequences, FiniteSets, FiniteSetsExt, Functions

CONSTANTS
    Symbols,
    Excluded,        \* EXCLUDED_SYMBOLS
    Initial,         \* --symbols, also always_include
    Configured,      \* contract sizes known at the start, a function
    Listed,          \* contract sizes the exchange lists, a function
    Markets,         \* what the ticker call may answer, sequences of tickers
    MinOi, MinVolume, MinSpread, MaxSpread, FundingCap,   \* FetcherConfig
    TopN, WatchN,    \* 5 and 10
    Hysteresis, FlapThreshold, FlapWindow, Steps, Stable,
    Gaps,            \* times between two rotations
    MaxTime,         \* bound of the clock
    Traded,          \* symbols whose trigger fires
    None

Tickers == [symbol : Symbols, price : Nat, hold : Nat, volume : Nat, spread : Nat, funding : Int]

ASSUME RotationAssumption ==
    /\ IsFiniteSet(Symbols) /\ Excluded \subseteq Symbols /\ Initial \subseteq Symbols
    /\ DOMAIN Configured \subseteq Symbols /\ DOMAIN Listed = Symbols
    /\ Markets \subseteq Seq(Tickers)
    /\ {TopN, WatchN, Hysteresis, FlapThreshold, FlapWindow, Stable} \subseteq Nat \ {0}
    /\ TopN <= WatchN
    /\ Steps \in Seq(Nat \ {0}) /\ Steps # <<>>
    /\ \A i, j \in DOMAIN Steps : i <= j => Steps[i] <= Steps[j]
    /\ Gaps \subseteq Nat \ {0} /\ MaxTime \in Nat \ {0} /\ Traded \subseteq Symbols

\* What a scan finds, what a rotation decides, and how long a symbol has been
\* where it is.
Scans     == [top : SUBSET Symbols, ten : SUBSET Symbols]
Decisions == [on : SUBSET Symbols, off : SUBSET Symbols,
              fetching : Symbols \cup {None}, watch : SUBSET Symbols]
Stays     == [in : BOOLEAN, time : 0..Hysteresis]

ASSUME NoneAssumption ==
    None \notin Symbols /\ None \notin Scans /\ None \notin Decisions /\ None \notin Stays

VARIABLES
    now,         \* time of the last rotation, the process starting at 1
    loaded,      \* _bulk_loaded: the fetcher has the listed contract sizes too
    latest,      \* _latest_scan: the top sets, None before the first scan
    subscribed,  \* UniverseService._subscribed
    pending,     \* _pending_since_ms of the symbols in _pending_target
    flaps,       \* per symbol: last target, start and count of its flap window
    penalty,     \* per symbol: quarantine, from when (history), until when, level
    ws,          \* MEXCWSClient._subscribed
    symbols,     \* ShadowRunner.symbols
    watch,       \* ShadowRunner._watch_symbols
    todo,        \* the decision being worked through, None between rotations
    held,        \* symbols with an open position
    stay,        \* history: whether a symbol is in the top, and how long, up to Hysteresis
    trips,       \* history: when it left the top
    failed       \* history: a call of a rotation failed

marketVars   == <<loaded, latest>>
universeVars == <<subscribed, pending, flaps, penalty>>
runnerVars   == <<ws, symbols, watch, todo>>
historyVars  == <<stay, trips>>
vars == <<now, marketVars, universeVars, runnerVars, historyVars, held, failed>>

-----------------------------------------------------------------------------
(* The ranking of a scan. *)

\* update_contract_sizes: what is configured stays.
Sizes(all) ==
    [s \in Symbols |-> IF s \in DOMAIN Configured THEN Configured[s]
                       ELSE IF all THEN Listed[s] ELSE 0]

OpenInterest(t, size) == t.hold * size[t.symbol] * t.price

\* A ticker that is liquid enough, and not of an excluded symbol.
Eligible(t, size) ==
    /\ t.symbol \notin Excluded
    /\ size[t.symbol] > 0 /\ t.price > 0 /\ t.hold > 0
    /\ OpenInterest(t, size) >= MinOi /\ t.volume >= MinVolume
    /\ t.spread \in MinSpread..MaxSpread

FundingScore(t) ==
    LET f == IF t.funding < 0 THEN -t.funding ELSE t.funding
    IN  IF f > FundingCap THEN -FundingCap ELSE f

\* 0.4 volume + 0.3 open interest + 0.3 funding, each relative to its greatest
\* value; over a common denominator.
Score(t, size, topVolume, topOi) ==
    4 * t.volume * topOi * FundingCap
    + 3 * OpenInterest(t, size) * topVolume * FundingCap
    + 3 * FundingScore(t) * topVolume * topOi

\* The eligible tickers, and which of two comes first: the better score, ties in
\* the order of the answer.
Listing(market, size) == {i \in DOMAIN market : Eligible(market[i], size)}

Outranks(i, j, market, size) ==
    LET topVolume == Max({market[k].volume : k \in Listing(market, size)} \cup {1})
        topOi     == Max({OpenInterest(market[k], size) : k \in Listing(market, size)} \cup {1})
        score(k)  == Score(market[k], size, topVolume, topOi)
    IN  score(i) > score(j) \/ (score(i) = score(j) /\ i < j)

\* The symbols that are always included come first, in an order of their own.
Always == Initial \ Excluded

Order == CHOOSE f \in [Symbols -> 1..Cardinality(Symbols)] :
            \A r, s \in Symbols : f[r] = f[s] => r = s

Candidates(market, size) ==
    Always \cup {market[i].symbol : i \in Listing(market, size)}

Precedes(r, s, market, size) ==
    \/ r \in Always /\ (s \in Always => Order[r] < Order[s])
    \/ /\ r \notin Always /\ s \notin Always
       /\ \E i \in Listing(market, size) :
             /\ market[i].symbol = r
             /\ \A j \in Listing(market, size) :
                   market[j].symbol = s => Outranks(i, j, market, size)

FirstOf(n, market, size) ==
    {s \in Candidates(market, size) :
        Cardinality({r \in Candidates(market, size) : Precedes(r, s, market, size)}) < n}

\* What a scan of each market finds, before and after the sizes have been read.
ScanResults ==
    [market \in Markets |-> [all \in BOOLEAN |->
        [top |-> FirstOf(TopN, market, Sizes(all)),
         ten |-> FirstOf(WatchN, market, Sizes(all))]]]

-----------------------------------------------------------------------------
(* Flaps and quarantine of one symbol at time t. *)

Quarantined(p, t) == p.until > t

\* Mutant of Window: the window is never over.
Window_Endless(f, t) ==
    IF f.start = 0 THEN [f EXCEPT !.start = t, !.count = 1] ELSE [f EXCEPT !.count = @ + 1]

\* A window that is over is replaced by one that starts with this trip.
Window(f, t) ==
    IF f.start = 0 \/ t - f.start > FlapWindow
    THEN [f EXCEPT !.start = t, !.count = 1]
    ELSE [f EXCEPT !.count = @ + 1]

Sentenced(f, p, t) == f.count >= FlapThreshold /\ ~Quarantined(p, t)

Duration(level) == Steps[IF level < Len(Steps) THEN level + 1 ELSE Len(Steps)]

EnterQuarantine(p, t) == [from |-> t, until |-> t + Duration(p.level), level |-> p.level + 1]

\* A round trip is an exit from the top: <<flap window, penalty>> after it.
RecordRoundTrip(f, p, t) ==
    LET w == Window(f, t)
    IN  IF Sentenced(w, p, t)
        THEN <<[w EXCEPT !.start = 0, !.count = 0], EnterQuarantine(p, t)>>
        ELSE <<w, p>>

StableReset(p, t) ==
    IF /\ ~Quarantined(p, t) /\ p.until # 0
       /\ t - p.until >= Stable /\ p.level > 1
    THEN [p EXCEPT !.level = 1]
    ELSE p

-----------------------------------------------------------------------------
Fresh == [start |-> 0, count |-> 0, last |-> FALSE]
Free  == [from |-> 0, until |-> 0, level |-> 0]

\* What a process starts with, after connect and _bootstrap.
Started(sym, web, sub) == sym = Initial /\ web = Initial /\ sub = Initial \ Excluded

Init ==
    /\ now = 1 /\ loaded = FALSE /\ latest = None
    /\ Started(symbols, ws, subscribed)
    /\ pending = <<>>
    /\ flaps = [s \in Symbols |-> Fresh] /\ penalty = [s \in Symbols |-> Free]
    /\ watch = {} /\ todo = None /\ held = {}
    /\ stay = [s \in Symbols |-> None] /\ trips = [s \in Symbols |-> {}]
    /\ failed = FALSE

\* The process dies and starts again: what is open is in the database, nothing
\* else is kept, and no time from before, so that the clock may start again too.
Restart ==
    /\ Started(symbols', ws', subscribed')
    /\ loaded' = FALSE /\ latest' = None
    /\ pending' = <<>>
    /\ flaps' = [s \in Symbols |-> Fresh] /\ penalty' = [s \in Symbols |-> Free]
    /\ watch' = {} /\ todo' = None
    /\ stay' = [s \in Symbols |-> None] /\ trips' = [s \in Symbols |-> {}]
    /\ now' = 1 /\ failed' = FALSE
    /\ UNCHANGED held

\* scan: the list of contract sizes is asked for until it has been read once, and
\* fills in what is missing; a scan without tickers leaves the last ranking.
Scan ==
    /\ \/ ~loaded /\ loaded' = TRUE
       \/ UNCHANGED loaded
    /\ \/ \E market \in Markets : latest' = ScanResults[market][loaded']
       \/ UNCHANGED latest
    /\ UNCHANGED <<now, universeVars, runnerVars, historyVars, held, failed>>

-----------------------------------------------------------------------------
(* A rotation at time t with the given top set. *)

LeavesTop(s, top) == s \notin Excluded /\ flaps[s].last /\ s \notin top

AfterTrips(s, top, t) ==
    LET r == IF LeavesTop(s, top) THEN RecordRoundTrip(flaps[s], penalty[s], t)
                                  ELSE <<flaps[s], penalty[s]>>
    IN  <<[r[1] EXCEPT !.last = (s \in top)], StableReset(r[2], t)>>

\* The symbols that are not where the ranking wants them, and since when.
Astray(top) == {s \in Symbols \ Excluded : (s \in subscribed) # (s \in top)}

PendingSince(s, t) == IF s \in DOMAIN pending THEN pending[s] ELSE t

\* Mutant of Due: a symbol in quarantine is taken up all the same.
Due_Pardoned(top, t, pen) ==
    {s \in Astray(top) : s \in DOMAIN pending /\ t - pending[s] >= Hysteresis}

\* Those that have waited long enough, and are not kept out.
Due(top, t, pen) ==
    {s \in Astray(top) :
        /\ s \in DOMAIN pending
        /\ t - pending[s] >= Hysteresis
        /\ ~(s \in top /\ Quarantined(pen[s], t))}

ApplyScan(t) ==
    LET top == latest.top
        due == Due(top, t, penalty')
    IN  /\ flaps'   = [s \in Symbols |-> AfterTrips(s, top, t)[1]]
        /\ penalty' = [s \in Symbols |-> AfterTrips(s, top, t)[2]]
        /\ pending' = [s \in Astray(top) \ due |-> PendingSince(s, t)]
        /\ subscribed' = (subscribed \ due) \cup (due \cap top)
        /\ todo' = [on |-> due \cap top, off |-> due \ top, fetching |-> None,
                    watch |-> latest.ten \ top]

\* The rotation loop, after its sleep.
Rotate ==
    /\ todo = None /\ latest # None
    /\ \E gap \in Gaps :
        LET t == now + gap
        IN  /\ t <= MaxTime
            /\ now' = t
            /\ ApplyScan(t)
            /\ stay' = [s \in Symbols |->
                 [in |-> s \in latest.top,
                  time |-> IF stay[s] # None /\ stay[s].in = (s \in latest.top)
                           THEN Min({Hysteresis, stay[s].time + gap}) ELSE 0]]
            /\ trips' = [s \in Symbols |->
                 {u \in trips[s] : t - u <= FlapWindow}
                   \cup IF LeavesTop(s, latest.top) THEN {t} ELSE {}]
    /\ UNCHANGED <<marketVars, ws, symbols, watch, held, failed>>

-----------------------------------------------------------------------------
(* _apply_rotation works through the decision: first the subscriptions. *)

Busy == todo # None

\* ws.subscribe: no-op when the symbol is there already; a send may fail.
Subscribe(s) ==
    /\ Busy /\ todo.fetching = None /\ s \in todo.on
    /\ \/ /\ s \in ws
          /\ todo' = [todo EXCEPT !.on = @ \ {s}] /\ UNCHANGED <<ws, failed>>
       \/ /\ s \notin ws
          /\ todo' = [todo EXCEPT !.on = @ \ {s}, !.fetching = s]
          /\ ws' = ws \cup {s} /\ UNCHANGED failed
       \/ /\ s \notin ws /\ failed' = TRUE
          /\ todo' = [todo EXCEPT !.on = @ \ {s}] /\ UNCHANGED ws
    /\ UNCHANGED <<now, marketVars, universeVars, symbols, watch, historyVars, held>>

\* The snapshot of the new symbol arrives, or the call fails.
Fetched ==
    /\ Busy /\ todo.fetching # None
    /\ todo' = [todo EXCEPT !.fetching = None]
    /\ \/ symbols' = symbols \cup {todo.fetching} /\ UNCHANGED failed
       \/ failed' = TRUE /\ UNCHANGED symbols
    /\ UNCHANGED <<now, marketVars, universeVars, ws, watch, historyVars, held>>

\* Mutant of Unsubscribe: the WebSocket client does not discard the symbol.
Unsubscribe_Kept(s) ==
    /\ Busy /\ todo.fetching = None /\ todo.on = {} /\ s \in todo.off
    /\ todo' = [todo EXCEPT !.off = @ \ {s}]
    /\ IF s \in ws THEN symbols' = symbols \ {s} ELSE UNCHANGED symbols
    /\ UNCHANGED <<now, marketVars, universeVars, ws, watch, historyVars, held, failed>>

\* ws.unsubscribe, when all subscriptions are done.
Unsubscribe(s) ==
    /\ Busy /\ todo.fetching = None /\ todo.on = {} /\ s \in todo.off
    /\ todo' = [todo EXCEPT !.off = @ \ {s}]
    /\ \/ s \notin ws /\ UNCHANGED <<ws, symbols, failed>>
       \/ /\ s \in ws /\ ws' = ws \ {s} /\ symbols' = symbols \ {s}
          /\ UNCHANGED failed
       \/ s \in ws /\ failed' = TRUE /\ UNCHANGED <<ws, symbols>>
    /\ UNCHANGED <<now, marketVars, universeVars, watch, historyVars, held>>

EndRotation ==
    /\ Busy /\ todo.fetching = None /\ todo.on = {} /\ todo.off = {}
    /\ watch' = todo.watch /\ todo' = None
    /\ UNCHANGED <<now, marketVars, universeVars, ws, symbols, historyVars, held, failed>>

-----------------------------------------------------------------------------
(* Positions: the trigger loop looks at the runner's symbols only, and     *)
(* on_deal, whose samples close positions, drops the others.               *)

Enter(s) ==
    /\ s \in (symbols \cap Traded) \ held
    /\ held' = held \cup {s}
    /\ UNCHANGED <<now, marketVars, universeVars, runnerVars, historyVars, failed>>

Exit(s) ==
    /\ s \in symbols \cap held
    /\ held' = held \ {s}
    /\ UNCHANGED <<now, marketVars, universeVars, runnerVars, historyVars, failed>>

Next ==
    \/ Scan \/ Rotate \/ Fetched \/ EndRotation \/ Restart
    \/ \E s \in Symbols : Subscribe(s) \/ Unsubscribe(s) \/ Enter(s) \/ Exit(s)

Spec == Init /\ [][Next]_vars

-----------------------------------------------------------------------------
(* Types; an excluded symbol is never the universe's, and only trips made  *)
(* in quarantine fill a flap window without a sentence.                    *)
TypeOK ==
    /\ now \in 1..MaxTime /\ loaded \in BOOLEAN
    /\ latest \in Scans \cup {None}
    /\ latest # None => latest.top \subseteq latest.ten /\ latest.ten \subseteq Symbols \ Excluded
    /\ subscribed \subseteq Symbols \ Excluded
    /\ DOMAIN pending \subseteq Symbols \ Excluded
    /\ \A s \in DOMAIN pending : pending[s] \in 1..now
    /\ flaps \in [Symbols -> [start : 0..now, count : Nat, last : BOOLEAN]]
    /\ penalty \in [Symbols -> [from : 0..now, until : Nat, level : Nat]]
    /\ \A s \in Symbols :
         /\ flaps[s].count >= FlapThreshold => penalty[s].level > 0
         /\ penalty[s].level > 0 <=> penalty[s].until > 0
    /\ {ws, symbols, watch, held} \subseteq SUBSET Symbols
    /\ todo \in Decisions \cup {None}
    /\ stay \in [Symbols -> Stays \cup {None}]
    /\ trips \in [Symbols -> SUBSET (1..now)]
    /\ failed \in BOOLEAN

(* The ranking decides, after a delay: a rotation changes the subscription *)
(* of a symbol only when the top has disagreed with it at every rotation   *)
(* since one at least Hysteresis ago, and the symbol is not one to take up *)
(* that is in quarantine; and then it does (apply_scan: the pending window *)
(* starts again whenever the top agrees for one rotation).  That a symbol  *)
(* with an open position must be let go is not said: D=A, below, says that *)
(* it must not.                                                            *)
SubscriptionsFollowTop ==
    [][now' > now =>
        \A s \in Symbols \ Excluded :
            LET wanted == stay'[s].in
                moves  == /\ wanted # (s \in subscribed)
                          /\ stay'[s].time = Hysteresis
                          /\ ~(wanted /\ Quarantined(penalty'[s], now'))
                moved  == (s \in subscribed') # (s \in subscribed)
            IN  /\ moved => moves
                /\ moves /\ (wanted \/ s \notin held) => moved]_vars

(* A quarantine is deserved and escalates: it begins only when the symbol  *)
(* has left the top at least FlapThreshold times within the last window,   *)
(* never while one is running, and is no shorter than the one before       *)
(* unless the symbol has been calm for Stable since that one ended         *)
(* (_record_flap_round_trip, _enter_quarantine, _maybe_stable_reset).      *)
QuarantineDeserved ==
    [][\A s \in Symbols :
        penalty'[s].until # penalty[s].until /\ now' > now =>
            /\ Cardinality(trips'[s]) >= FlapThreshold
            /\ ~Quarantined(penalty[s], now')
            /\ penalty[s].until # 0 /\ now' - penalty[s].until < Stable =>
                 penalty'[s].until - now' >= penalty[s].until - penalty[s].from]_vars

(* The runner listens as decided: it takes only data of symbols the        *)
(* WebSocket is subscribed to, and between rotations, if no call of one    *)
(* has failed, runner, WebSocket and universe agree on all symbols but the *)
(* excluded ones of the command line (_apply_rotation); every state is of  *)
(* its type.                                                               *)
ListensAsDecided ==
    /\ TypeOK
    /\ symbols \subseteq ws
    /\ ~Busy /\ ~failed => ws = symbols /\ symbols \ Excluded = subscribed

(* "D=A  Acik paper pozisyon varken WS unsubscribe ertelenir", a locked    *)
(* decision of src/docs/DURUM.md: while a paper position is open its       *)
(* symbol's unsubscribe is deferred, so no step of a living process takes  *)
(* the symbol of an open position from the WebSocket (_apply_rotation).    *)
HeldStaysSubscribed ==
    [][~Restart => \A s \in held : s \in ws => s \in ws']_vars
=============================================================================
