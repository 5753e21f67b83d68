----------------------------- MODULE RestGateway -----------------------------
(***************************************************************************)
(* The REST gateway (src/src/execution/rest_gateway.py): three levels of   *)
(* semaphores, the token bucket and the per-symbol 429 circuit in front of *)
(* the exchange, and the pacer's heap as far as the gateway uses it.       *)
(*                                                                         *)
(* Callers are tasks of one event loop inside post_market_order.  A step   *)
(* is what a caller does between two awaits: the pacer's lock is never     *)
(* held across an await, so enqueue and the circuit check that follows it  *)
(* are one step.  The exchange and the token bucket are the environment:   *)
(* their answers come from sets.  All calls use the one ip "default".      *)
(* _critical_bypass is never set by the program and is left out.           *)
(***************************************************************************)
EXTENDS Integers, FiniteSets

CONSTANTS
    Callers, Symbols,
    IpLimit,          \* per_ip_limit
    SymbolLimit,      \* per_symbol_limit
    EmergencyLimit,   \* sem_emergency_count
    NormalLimit,      \* sem_normal_count
    Threshold,        \* circuit_429_threshold
    HalfOpenTestMax,  \* circuit_half_open_test_max
    PacerMax,         \* critical_maxsize of the pacer
    TokenAnswers,     \* what token_bucket.acquire may return
    Answers,          \* what the exchange may do: subset of {"ok", "429", "error"}
    MaxTimeouts,      \* bound: waits that reach rest_outer_timeout_ms
    MaxCancels,       \* bound: calls whose task is cancelled
    None

Pools == {"emergency", "normal"}

PoolLimit(p) == IF p = "emergency" THEN EmergencyLimit ELSE NormalLimit

\* Where a caller is: waiting for its pool, ip or symbol semaphore, for a
\* token, for the exchange; on the direct path for a token or the exchange.
Stages == {"pool", "ip", "sym", "token", "post", "direct", "dpost"}

Busy == [pc : Stages, sym : Symbols, pool : Pools, attempt : {1, 2}]
Idle == [pc |-> "idle", sym |-> None, pool |-> None, attempt |-> 1]

ASSUME GatewayAssumption ==
    /\ IsFiniteSet(Callers) /\ IsFiniteSet(Symbols) /\ None \notin Symbols
    /\ {IpLimit, SymbolLimit, EmergencyLimit, NormalLimit} \subseteq Nat \ {0}
    /\ Threshold \in Nat \ {0} /\ HalfOpenTestMax \in Nat
    /\ PacerMax \in Nat
    /\ MaxTimeouts \in Nat /\ MaxCancels \in Nat
    /\ TokenAnswers \subseteq BOOLEAN
    /\ Answers \subseteq {"ok", "429", "error"}

VARIABLES
    call,       \* where each caller is
    ipFree,     \* value of _per_ip_sem["default"]
    symFree,    \* values of _per_symbol_sem
    poolFree,   \* values of _sem_emergency and _sem_normal
    count429,   \* _consecutive_429, up to Threshold
    circuit,    \* _circuit_open_until: absent, in the future, or passed
    probeUsed,  \* _half_open_probe_used
    queued,     \* length of the pacer's heap, up to PacerMax
    tests,      \* callers let through as the test of the current half-open period
    timeouts,   \* how many waits have timed out
    cancels,    \* how many calls have been cancelled
    silent      \* symbols whose half-open test has ended without a report

semVars     == <<ipFree, symFree, poolFree>>
circuitVars == <<count429, circuit, probeUsed, tests, silent>>
faultVars   == <<timeouts, cancels>>
vars        == <<call, semVars, circuitVars, queued, faultVars>>

TypeOK ==
    /\ call \in [Callers -> Busy \cup {Idle}]
    /\ ipFree \in Nat /\ symFree \in [Symbols -> Nat] /\ poolFree \in [Pools -> Nat]
    /\ count429 \in [Symbols -> 0 .. Threshold]
    /\ circuit \in [Symbols -> {"closed", "open", "expired"}]
    /\ probeUsed \in [Symbols -> BOOLEAN]
    /\ queued \in 0 .. PacerMax
    /\ tests \in [Symbols -> SUBSET Callers]
    /\ timeouts \in 0 .. MaxTimeouts /\ cancels \in 0 .. MaxCancels
    /\ silent \subseteq Symbols

Init ==
    /\ call = [c \in Callers |-> Idle]
    /\ ipFree = IpLimit
    /\ symFree = [s \in Symbols |-> SymbolLimit]
    /\ poolFree = [p \in Pools |-> PoolLimit(p)]
    /\ count429 = [s \in Symbols |-> 0]
    /\ circuit = [s \in Symbols |-> "closed"]
    /\ probeUsed = [s \in Symbols |-> FALSE]
    /\ queued = 0
    /\ tests = [s \in Symbols |-> {}]
    /\ timeouts = 0 /\ cancels = 0 /\ silent = {}

-----------------------------------------------------------------------------
(* The 429 circuit                                                         *)

NewPeriod(s) ==
    /\ tests' = [tests EXCEPT ![s] = {}]
    /\ silent' = silent \ {s}

\* record_success: clears the counter and closes the circuit.
RecordSuccess(s) ==
    /\ count429' = [count429 EXCEPT ![s] = 0]
    /\ circuit' = [circuit EXCEPT ![s] = "closed"]
    /\ probeUsed' = [probeUsed EXCEPT ![s] = FALSE]
    /\ NewPeriod(s)

\* record_429: from the threshold on, every 429 opens the circuit anew.
Record429(s) ==
    IF count429[s] + 1 >= Threshold
    THEN /\ count429' = [count429 EXCEPT ![s] = Threshold]
         /\ circuit' = [circuit EXCEPT ![s] = "open"]
         /\ probeUsed' = [probeUsed EXCEPT ![s] = FALSE]
         /\ NewPeriod(s)
    ELSE /\ count429' = [count429 EXCEPT ![s] = @ + 1]
         /\ UNCHANGED <<circuit, probeUsed, tests, silent>>

\* is_circuit_open returns True: the caller is turned away.
Blocked(s) ==
    \/ circuit[s] = "open"
    \/ circuit[s] = "expired" /\ HalfOpenTestMax > 0 /\ probeUsed[s]

Admit_FreeProbe(c, s) ==
    /\ ~Blocked(s)
    /\ IF circuit[s] = "closed" THEN UNCHANGED circuitVars
       ELSE IF HalfOpenTestMax = 0 THEN RecordSuccess(s)
       ELSE /\ tests' = [tests EXCEPT ![s] = @ \cup {c}]
            /\ UNCHANGED <<count429, circuit, probeUsed, silent>>

\* is_circuit_open returns False, having used up the test when the open
\* period is over, or having closed the circuit when no test is configured.
Admit(c, s) ==
    /\ ~Blocked(s)
    /\ IF circuit[s] = "closed" THEN UNCHANGED circuitVars
       ELSE IF HalfOpenTestMax = 0 THEN RecordSuccess(s)
       ELSE /\ probeUsed' = [probeUsed EXCEPT ![s] = TRUE]
            /\ tests' = [tests EXCEPT ![s] = @ \cup {c}]
            /\ UNCHANGED <<count429, circuit, silent>>

\* A call ends without a report to the circuit.
Silent(c) ==
    /\ silent' = IF c \in tests[call[c].sym] THEN silent \cup {call[c].sym} ELSE silent
    /\ UNCHANGED <<count429, circuit, probeUsed, tests>>

\* circuit_open_seconds have passed.
CircuitExpires(s) ==
    /\ circuit[s] = "open"
    /\ circuit' = [circuit EXCEPT ![s] = "expired"]
    /\ UNCHANGED <<call, semVars, count429, probeUsed, tests, silent, queued, faultVars>>

-----------------------------------------------------------------------------
(* Permits                                                                 *)

HoldingPool(p) ==
    {c \in Callers : call[c].pool = p /\ call[c].pc \in {"ip", "sym", "token", "post"}}
HoldingIp == {c \in Callers : call[c].pc \in {"sym", "token", "post"}}
HoldingSym(s) ==
    {c \in Callers : call[c].sym = s /\ call[c].pc \in {"token", "post"}}

Release_NoIp(c) ==
    /\ symFree' = [symFree EXCEPT ![call[c].sym] = @ + 1]
    /\ poolFree' = [poolFree EXCEPT ![call[c].pool] = @ + 1]
    /\ UNCHANGED ipFree

\* release, and the handlers of a timeout and of a refused token: all three
\* semaphores are released (asyncio.Semaphore.release has no upper bound).
Release(c) ==
    /\ symFree' = [symFree EXCEPT ![call[c].sym] = @ + 1]
    /\ ipFree' = ipFree + 1
    /\ poolFree' = [poolFree EXCEPT ![call[c].pool] = @ + 1]

Goto(c, pc) == call' = [call EXCEPT ![c].pc = pc]
Return(c)   == call' = [call EXCEPT ![c] = Idle]

-----------------------------------------------------------------------------
(* post_market_order                                                       *)

Enqueued == IF queued < PacerMax THEN queued + 1 ELSE queued

\* The pacer's heap is full, an emergency call: the direct path.
CallDirect(c, s) ==
    /\ call[c] = Idle /\ queued >= PacerMax
    /\ call' = [call EXCEPT ![c] =
                    [pc |-> "direct", sym |-> s, pool |-> "emergency", attempt |-> 1]]
    /\ UNCHANGED <<semVars, circuitVars, queued, faultVars>>

CallBlocked(c, s, p) ==
    /\ call[c] = Idle /\ (p = "emergency" => queued < PacerMax)
    /\ Blocked(s)
    /\ queued' = Enqueued
    /\ UNCHANGED <<call, semVars, circuitVars, faultVars>>

CallAdmitted(c, s, p) ==
    /\ call[c] = Idle /\ (p = "emergency" => queued < PacerMax)
    /\ Admit(c, s)
    /\ queued' = Enqueued
    /\ call' = [call EXCEPT ![c] = [pc |-> "pool", sym |-> s, pool |-> p, attempt |-> 1]]
    /\ UNCHANGED <<semVars, faultVars>>

TakePool(c) ==
    /\ call[c].pc = "pool" /\ poolFree[call[c].pool] > 0
    /\ poolFree' = [poolFree EXCEPT ![call[c].pool] = @ - 1]
    /\ Goto(c, "ip")
    /\ UNCHANGED <<ipFree, symFree, circuitVars, queued, faultVars>>

TakeIp(c) ==
    /\ call[c].pc = "ip" /\ ipFree > 0
    /\ ipFree' = ipFree - 1
    /\ Goto(c, "sym")
    /\ UNCHANGED <<symFree, poolFree, circuitVars, queued, faultVars>>

TakeSym(c) ==
    /\ call[c].pc = "sym" /\ symFree[call[c].sym] > 0
    /\ symFree' = [symFree EXCEPT ![call[c].sym] = @ - 1]
    /\ Goto(c, "token")
    /\ UNCHANGED <<ipFree, poolFree, circuitVars, queued, faultVars>>

\* wait_for has expired: whatever was acquired, all three are released.
AcquireTimeout(c) ==
    /\ call[c].pc \in {"pool", "ip", "sym"}
    /\ timeouts < MaxTimeouts /\ timeouts' = timeouts + 1
    /\ Release(c)
    /\ Silent(c)
    /\ Return(c)
    /\ UNCHANGED <<queued, cancels>>

TokenGranted(c) ==
    /\ call[c].pc = "token" /\ TRUE \in TokenAnswers
    /\ Goto(c, "post")
    /\ UNCHANGED <<semVars, circuitVars, queued, faultVars>>

TokenRefused(c) ==
    /\ call[c].pc = "token" /\ FALSE \in TokenAnswers
    /\ Release(c)
    /\ Silent(c)
    /\ Return(c)
    /\ UNCHANGED <<queued, faultVars>>

\* The exchange answers; an exception other than a 429 reaches the caller,
\* and only the finally clause runs.
Record(c, answer) ==
    \/ answer = "ok"    /\ RecordSuccess(call[c].sym)
    \/ answer = "429"   /\ Record429(call[c].sym)
    \/ answer = "error" /\ Silent(c)

PostDone(c) ==
    /\ call[c].pc = "post"
    /\ \E a \in Answers : Record(c, a)
    /\ Release(c)
    /\ Return(c)
    /\ UNCHANGED <<queued, faultVars>>

\* A cancelled task: CancelledError passes the except clauses of acquire, so
\* only a caller that is posting gives its permits back.
CancelRelease(c) ==
    IF call[c].pc = "post" THEN Release(c) ELSE UNCHANGED semVars

Cancel(c) ==
    /\ call[c] # Idle
    /\ cancels < MaxCancels /\ cancels' = cancels + 1
    /\ CancelRelease(c)
    /\ Silent(c)
    /\ Return(c)
    /\ UNCHANGED <<queued, timeouts>>

-----------------------------------------------------------------------------
(* _direct_market_post: two attempts, past the semaphores and the circuit. *)

NextAttempt(c) ==
    IF call[c].attempt = 1
    THEN call' = [call EXCEPT ![c].pc = "direct", ![c].attempt = 2]
    ELSE Return(c)

DirectToken(c) ==
    /\ call[c].pc = "direct"
    /\ \/ TRUE \in TokenAnswers /\ Goto(c, "dpost")
       \/ FALSE \in TokenAnswers /\ NextAttempt(c)
    /\ UNCHANGED <<semVars, circuitVars, queued, faultVars>>

DirectPost(c) ==
    /\ call[c].pc = "dpost"
    /\ \E a \in Answers :
          /\ Record(c, a)
          /\ IF a = "ok" THEN Return(c) ELSE NextAttempt(c)
    /\ UNCHANGED <<semVars, queued, faultVars>>

-----------------------------------------------------------------------------
(* The specification                                                       *)

Call(c) ==
    \E s \in Symbols :
        \/ CallDirect(c, s)
        \/ \E p \in Pools : CallBlocked(c, s, p) \/ CallAdmitted(c, s, p)

Proceed(c) ==
    \/ TakePool(c) \/ TakeIp(c) \/ TakeSym(c)
    \/ TokenGranted(c) \/ TokenRefused(c) \/ PostDone(c)
    \/ DirectToken(c) \/ DirectPost(c)

Next ==
    \/ \E c \in Callers : Call(c) \/ Proceed(c) \/ AcquireTimeout(c) \/ Cancel(c)
    \/ \E s \in Symbols : CircuitExpires(s)

Spec == Init /\ [][Next]_vars

-----------------------------------------------------------------------------
(* Properties                                                              *)

Between(low, value, high) == low <= value /\ value <= high

\* acquire and release are balanced on every path: a permit is free or held
\* by one call, but for one permit of each semaphore that a timeout may add
\* and one that a cancellation may lose.  Every state is of its type.
PermitsAccounted ==
    /\ TypeOK
    /\ Between(IpLimit - cancels, ipFree + Cardinality(HoldingIp), IpLimit + timeouts)
    /\ \A s \in Symbols :
          Between(SymbolLimit - cancels, symFree[s] + Cardinality(HoldingSym(s)),
                  SymbolLimit + timeouts)
    /\ \A p \in Pools :
          Between(PoolLimit(p) - cancels, poolFree[p] + Cardinality(HoldingPool(p)),
                  PoolLimit(p) + timeouts)

\* A used half-open test belongs to a call that is still on its way and will
\* report, or has ended in silence: nothing else would free the symbol, because
\* every other call is turned away.
TestIsUnderWay ==
    \A s \in Symbols :
        circuit[s] = "expired" /\ probeUsed[s] =>
            s \in silent \/ \E c \in tests[s] : call[c].sym = s

\* At most circuit_half_open_test_max calls are let through per half-open
\* period, counting those that have returned.
TestsPerPeriod ==
    \A s \in Symbols : Cardinality(tests[s]) <= HalfOpenTestMax

\* The circuit of a symbol is sound whatever late answers and direct posts
\* arrive: its half-open test is accounted for, is the only one of its period,
\* and a closed circuit is below the threshold, so that a single 429 does not
\* open it again.
CircuitSound ==
    /\ TestIsUnderWay
    /\ TestsPerPeriod
    /\ \A s \in Symbols : circuit[s] = "closed" => count429[s] < Threshold
==============================================================================
