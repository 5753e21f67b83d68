-------------------------- MODULE RestGateway_proof --------------------------
(***************************************************************************)
(* Proofs about RestGateway, for every number of callers and symbols and   *)
(* every setting of the limits, the threshold and the half-open test.      *)
(***************************************************************************)
EXTENDS RestGateway, FiniteSetTheorems, TLAPS

-----------------------------------------------------------------------------
(* The inductive invariant                                                 *)

\* The permits of PermitsAccounted, apart from the types.
Balanced ==
    /\ Between(IpLimit - cancels, ipFree + Cardinality(HoldingIp), IpLimit + timeouts)
    /\ \A s \in Symbols :
          Between(SymbolLimit - cancels, symFree[s] + Cardinality(HoldingSym(s)),
                  SymbolLimit + timeouts)
    /\ \A p \in Pools :
          Between(PoolLimit(p) - cancels, poolFree[p] + Cardinality(HoldingPool(p)),
                  PoolLimit(p) + timeouts)

\* The circuit is closed exactly below the threshold: every 429 of a symbol
\* whose circuit is not closed opens it anew.
Counted(s) ==
    IF circuit[s] = "closed" THEN count429[s] < Threshold ELSE count429[s] = Threshold

\* Stages of a call that is_circuit_open has let through.
Admitted == {"pool", "ip", "sym", "token", "post"}

\* The half-open test is unused, or has gone to one call, which is on its way
\* unless it has ended in silence.
TestOf(s) ==
    \/ ~probeUsed[s] /\ tests[s] = {} /\ s \notin silent
    \/ /\ probeUsed[s] /\ circuit[s] = "expired" /\ HalfOpenTestMax > 0
       /\ \E c \in Callers :
             /\ tests[s] = {c}
             /\ s \in silent \/ (call[c].sym = s /\ call[c].pc \in Admitted)

IInv == TypeOK /\ Balanced /\ \A s \in Symbols : Counted(s) /\ TestOf(s)

-----------------------------------------------------------------------------
(* Steps of a call                                                         *)

LEMMA CallIs ==
    ASSUME TypeOK, NEW c \in Callers
    PROVE  /\ call[c] = Idle <=> call[c].pc = "idle"
           /\ call[c] # Idle => call[c] \in Busy
           /\ call[c] \in Busy => call[c].pc \in Stages /\ call[c].sym \in Symbols
                                  /\ call[c].pool \in Pools
<1>1. call[c] \in Busy \cup {Idle}
  BY DEF TypeOK
<1>2. Idle.pc = "idle"
  BY DEF Idle
<1>3. call[c] \in Busy => call[c].pc \in Stages /\ call[c].sym \in Symbols /\ call[c].pool \in Pools
  BY DEF Busy
<1>4. "idle" \notin Stages
  BY DEF Stages
<1> QED
  BY <1>1, <1>2, <1>3, <1>4

\* The call of c becomes r, and the others stay.
Becomes(c, r) ==
    /\ r \in Busy \cup {Idle} /\ call' \in [Callers -> Busy \cup {Idle}]
    /\ call'[c] = r /\ \A d \in Callers \ {c} : call'[d] = call[d]

LEMMA GotoIs ==
    ASSUME TypeOK, NEW c \in Callers, call[c] \in Busy, NEW x \in Stages, Goto(c, x)
    PROVE  /\ Becomes(c, call'[c])
           /\ call'[c].pc = x /\ call'[c].sym = call[c].sym /\ call'[c].pool = call[c].pool
<1> DEFINE r == [call[c] EXCEPT !.pc = x]
<1>1. r \in Busy /\ r.pc = x /\ r.sym = call[c].sym /\ r.pool = call[c].pool
  BY DEF Busy
<1>2. call' = [call EXCEPT ![c] = r]
  BY DEF Goto
<1> HIDE DEF r
<1> QED
  BY <1>1, <1>2 DEF Becomes, TypeOK

LEMMA ReturnIs ==
    ASSUME TypeOK, NEW c \in Callers, Return(c)
    PROVE  Becomes(c, Idle)
BY DEF Return, Becomes, TypeOK

LEMMA NextAttemptIs ==
    ASSUME TypeOK, NEW c \in Callers, call[c] \in Busy, NextAttempt(c)
    PROVE  /\ Becomes(c, call'[c])
           /\ call'[c].pc \in {"direct", "idle"}
<1>1. CASE call[c].attempt = 1
  <2> DEFINE r == [[call[c] EXCEPT !.pc = "direct"] EXCEPT !.attempt = 2]
  <2>1. r \in Busy /\ r.pc = "direct"
    BY DEF Busy, Stages
  <2>2. call' = [call EXCEPT ![c] = r]
    BY <1>1 DEF NextAttempt
  <2> HIDE DEF r
  <2> QED
    BY <2>1, <2>2 DEF Becomes, TypeOK
<1>2. CASE call[c].attempt # 1
  <2>1. Return(c)
    BY <1>2 DEF NextAttempt
  <2>2. Becomes(c, Idle)
    BY <2>1, ReturnIs
  <2> QED
    BY <2>2 DEF Becomes, Idle
<1> QED
  BY <1>1, <1>2

-----------------------------------------------------------------------------
(* Permits                                                                 *)

Ones(b) == IF b THEN 1 ELSE 0

HoldsIp(r)      == r.pc \in {"sym", "token", "post"}
HoldsSym(r, s)  == r.sym = s /\ r.pc \in {"token", "post"}
HoldsPool(r, p) == r.pool = p /\ r.pc \in {"ip", "sym", "token", "post"}

\* One call may change the number of those that hold a permit, by one.
LEMMA HeldChange ==
    ASSUME NEW S \in SUBSET Callers, NEW T \in SUBSET Callers, NEW c \in Callers,
           \A d \in Callers \ {c} : d \in S <=> d \in T
    PROVE  /\ Cardinality(S) \in Nat /\ Cardinality(T) \in Nat
           /\ Cardinality(T) + Ones(c \in S) = Cardinality(S) + Ones(c \in T)
<1>1. IsFiniteSet(S) /\ IsFiniteSet(T)
  BY FS_Subset, GatewayAssumption
<1>2. Cardinality(S) \in Nat /\ Cardinality(T) \in Nat
  BY <1>1, FS_CardinalityType
<1>3. CASE c \in S /\ c \notin T
  <2>1. T = S \ {c}
    BY <1>3
  <2>2. Cardinality(T) = Cardinality(S) - 1
    BY <1>1, <1>3, <2>1, FS_RemoveElement
  <2> QED BY <1>2, <1>3, <2>2 DEF Ones
<1>4. CASE c \notin S /\ c \in T
  <2>1. T = S \cup {c}
    BY <1>4
  <2>2. Cardinality(T) = Cardinality(S) + 1
    BY <1>1, <1>4, <2>1, FS_AddElement
  <2> QED BY <1>2, <1>4, <2>2 DEF Ones
<1>5. CASE c \in S <=> c \in T
  <2>1. T = S
    BY <1>5
  <2> QED BY <1>2, <2>1
<1> QED
  BY <1>3, <1>4, <1>5

\* A step from call q to call r that frees, for each semaphore, what it
\* gives up, but for lost permits too few and gained permits too many.
Fair(q, r, lost, gained) ==
    /\ Between(ipFree + Ones(HoldsIp(q)) - lost, ipFree' + Ones(HoldsIp(r)),
               ipFree + Ones(HoldsIp(q)) + gained)
    /\ \A s \in Symbols :
          Between(symFree[s] + Ones(HoldsSym(q, s)) - lost, symFree'[s] + Ones(HoldsSym(r, s)),
                  symFree[s] + Ones(HoldsSym(q, s)) + gained)
    /\ \A p \in Pools :
          Between(poolFree[p] + Ones(HoldsPool(q, p)) - lost, poolFree'[p] + Ones(HoldsPool(r, p)),
                  poolFree[p] + Ones(HoldsPool(q, p)) + gained)

LEMMA FairBalances ==
    ASSUME TypeOK, TypeOK', Balanced, NEW c \in Callers, NEW r, Becomes(c, r),
           Fair(call[c], r, cancels' - cancels, timeouts' - timeouts)
    PROVE  Balanced'
<1> DEFINE q == call[c]
<1>1. /\ r = call'[c] /\ \A d \in Callers \ {c} : call'[d] = call[d]
  BY DEF Becomes
<1>2. /\ cancels \in Int /\ cancels' \in Int /\ timeouts \in Int /\ timeouts' \in Int
      /\ ipFree \in Int /\ ipFree' \in Int
      /\ \A s \in Symbols : symFree[s] \in Int /\ symFree'[s] \in Int
      /\ \A p \in Pools : poolFree[p] \in Int /\ poolFree'[p] \in Int
  BY DEF TypeOK
<1>3. \A b \in BOOLEAN : Ones(b) \in Int
  BY DEF Ones
<1>4. IpLimit \in Int /\ SymbolLimit \in Int /\ \A p \in Pools : PoolLimit(p) \in Int
  BY GatewayAssumption DEF PoolLimit
<1>5. Between(IpLimit - cancels', ipFree' + Cardinality(HoldingIp'), IpLimit + timeouts')
  <2> DEFINE S == HoldingIp
             T == HoldingIp'
  <2>1. S \in SUBSET Callers /\ T \in SUBSET Callers
        /\ (\A d \in Callers : d \in S <=> HoldsIp(call[d]))
        /\ (\A d \in Callers : d \in T <=> HoldsIp(call'[d]))
    BY DEF HoldingIp, HoldsIp
  <2> HIDE DEF S, T
  <2>2. \A d \in Callers \ {c} : d \in S <=> d \in T
    BY <1>1, <2>1
  <2>3. (c \in S) = HoldsIp(call[c]) /\ (c \in T) = HoldsIp(r)
    BY <1>1, <2>1 DEF HoldsIp
  <2>4. /\ Cardinality(S) \in Int /\ Cardinality(T) \in Int
        /\ Cardinality(T) + Ones(HoldsIp(call[c])) = Cardinality(S) + Ones(HoldsIp(r))
    BY <2>1, <2>2, <2>3, HeldChange
  <2>5. Between(IpLimit - cancels, ipFree + Cardinality(S), IpLimit + timeouts)
    BY DEF Balanced, S
  <2>6. Ones(HoldsIp(call[c])) \in Int /\ Ones(HoldsIp(r)) \in Int
    BY DEF Ones
  <2>7. Between(ipFree + Ones(HoldsIp(call[c])) - (cancels' - cancels), ipFree' + Ones(HoldsIp(r)),
                ipFree + Ones(HoldsIp(call[c])) + (timeouts' - timeouts))
    BY DEF Fair
  <2>8. Between(IpLimit - cancels', ipFree' + Cardinality(T), IpLimit + timeouts')
    BY <1>2, <1>4, <2>4, <2>5, <2>6, <2>7 DEF Between
  <2> QED BY <2>8 DEF T
<1>6. ASSUME NEW s \in Symbols
      PROVE  Between(SymbolLimit - cancels', symFree'[s] + Cardinality(HoldingSym(s)'),
                     SymbolLimit + timeouts')
  <2> DEFINE S == HoldingSym(s)
             T == HoldingSym(s)'
  <2>1. S \in SUBSET Callers /\ T \in SUBSET Callers
        /\ (\A d \in Callers : d \in S <=> HoldsSym(call[d], s))
        /\ (\A d \in Callers : d \in T <=> HoldsSym(call'[d], s))
    BY DEF HoldingSym, HoldsSym
  <2> HIDE DEF S, T
  <2>2. \A d \in Callers \ {c} : d \in S <=> d \in T
    BY <1>1, <2>1
  <2>3. (c \in S) = HoldsSym(call[c], s) /\ (c \in T) = HoldsSym(r, s)
    BY <1>1, <2>1 DEF HoldsSym
  <2>4. /\ Cardinality(S) \in Int /\ Cardinality(T) \in Int
        /\ Cardinality(T) + Ones(HoldsSym(call[c], s)) = Cardinality(S) + Ones(HoldsSym(r, s))
    BY <2>1, <2>2, <2>3, HeldChange
  <2>5. Between(SymbolLimit - cancels, symFree[s] + Cardinality(S), SymbolLimit + timeouts)
    BY DEF Balanced, S
  <2>6. Ones(HoldsSym(call[c], s)) \in Int /\ Ones(HoldsSym(r, s)) \in Int
    BY DEF Ones
  <2>7. Between(symFree[s] + Ones(HoldsSym(call[c], s)) - (cancels' - cancels),
                symFree'[s] + Ones(HoldsSym(r, s)),
                symFree[s] + Ones(HoldsSym(call[c], s)) + (timeouts' - timeouts))
    BY DEF Fair
  <2>8. Between(SymbolLimit - cancels', symFree'[s] + Cardinality(T), SymbolLimit + timeouts')
    BY <1>2, <1>4, <2>4, <2>5, <2>6, <2>7 DEF Between
  <2> QED BY <2>8 DEF T
<1>7. ASSUME NEW p \in Pools
      PROVE  Between(PoolLimit(p) - cancels', poolFree'[p] + Cardinality(HoldingPool(p)'),
                     PoolLimit(p) + timeouts')
  <2> DEFINE S == HoldingPool(p)
             T == HoldingPool(p)'
  <2>1. S \in SUBSET Callers /\ T \in SUBSET Callers
        /\ (\A d \in Callers : d \in S <=> HoldsPool(call[d], p))
        /\ (\A d \in Callers : d \in T <=> HoldsPool(call'[d], p))
    BY DEF HoldingPool, HoldsPool
  <2> HIDE DEF S, T
  <2>2. \A d \in Callers \ {c} : d \in S <=> d \in T
    BY <1>1, <2>1
  <2>3. (c \in S) = HoldsPool(call[c], p) /\ (c \in T) = HoldsPool(r, p)
    BY <1>1, <2>1 DEF HoldsPool
  <2>4. /\ Cardinality(S) \in Int /\ Cardinality(T) \in Int
        /\ Cardinality(T) + Ones(HoldsPool(call[c], p)) = Cardinality(S) + Ones(HoldsPool(r, p))
    BY <2>1, <2>2, <2>3, HeldChange
  <2>5. Between(PoolLimit(p) - cancels, poolFree[p] + Cardinality(S), PoolLimit(p) + timeouts)
    BY DEF Balanced, S
  <2>6. Ones(HoldsPool(call[c], p)) \in Int /\ Ones(HoldsPool(r, p)) \in Int
    BY DEF Ones
  <2>7. Between(poolFree[p] + Ones(HoldsPool(call[c], p)) - (cancels' - cancels),
                poolFree'[p] + Ones(HoldsPool(r, p)),
                poolFree[p] + Ones(HoldsPool(call[c], p)) + (timeouts' - timeouts))
    BY DEF Fair
  <2>8. Between(PoolLimit(p) - cancels', poolFree'[p] + Cardinality(T), PoolLimit(p) + timeouts')
    BY <1>2, <1>4, <2>4, <2>5, <2>6, <2>7 DEF Between
  <2> QED BY <2>8 DEF T
<1> QED
  BY <1>5, <1>6, <1>7 DEF Balanced, PoolLimit

SemTypes == ipFree \in Nat /\ symFree \in [Symbols -> Nat] /\ poolFree \in [Pools -> Nat]

\* A step that leaves the semaphores alone, between calls that hold the same.
LEMMA SamePermits ==
    ASSUME TypeOK, UNCHANGED semVars, NEW q, NEW r,
           HoldsIp(q) <=> HoldsIp(r), \A s \in Symbols : HoldsSym(q, s) <=> HoldsSym(r, s),
           \A p \in Pools : HoldsPool(q, p) <=> HoldsPool(r, p)
    PROVE  Fair(q, r, 0, 0) /\ SemTypes'
<1>1. /\ ipFree \in Nat /\ symFree \in [Symbols -> Nat] /\ poolFree \in [Pools -> Nat]
      /\ ipFree' = ipFree /\ symFree' = symFree /\ poolFree' = poolFree
  BY DEF TypeOK, semVars
<1>2. /\ Ones(HoldsIp(q)) = Ones(HoldsIp(r)) /\ Ones(HoldsIp(r)) \in Int
  BY DEF Ones
<1>3. \A s \in Symbols : Ones(HoldsSym(q, s)) = Ones(HoldsSym(r, s)) /\ Ones(HoldsSym(r, s)) \in Int
  BY DEF Ones
<1>4. \A p \in Pools : Ones(HoldsPool(q, p)) = Ones(HoldsPool(r, p)) /\ Ones(HoldsPool(r, p)) \in Int
  BY DEF Ones
<1>5. \A s \in Symbols : symFree[s] \in Int
  BY <1>1
<1>6. \A p \in Pools : poolFree[p] \in Int
  BY <1>1
<1> QED
  BY <1>1, <1>2, <1>3, <1>4, <1>5, <1>6 DEF Fair, Between, SemTypes

\* Giving back all three permits gains one of each that was not held.
LEMMA ReleaseFair ==
    ASSUME TypeOK, NEW c \in Callers, call[c] \in Busy, Release(c)
    PROVE  /\ SemTypes' /\ Fair(call[c], Idle, 0, 1)
           /\ call[c].pc \in {"token", "post"} => Fair(call[c], Idle, 0, 0)
<1> DEFINE q == call[c]
<1>1. /\ ipFree \in Nat /\ symFree \in [Symbols -> Nat] /\ poolFree \in [Pools -> Nat]
      /\ q.sym \in Symbols /\ q.pool \in Pools
  BY CallIs DEF TypeOK
<1>2. /\ ipFree' = ipFree + 1
      /\ symFree' = [symFree EXCEPT ![q.sym] = @ + 1]
      /\ poolFree' = [poolFree EXCEPT ![q.pool] = @ + 1]
  BY DEF Release
<1>3. /\ ~HoldsIp(Idle) /\ \A s \in Symbols : ~HoldsSym(Idle, s)
      /\ \A p \in Pools : ~HoldsPool(Idle, p)
  BY DEF Idle, HoldsIp, HoldsSym, HoldsPool
<1>4. SemTypes'
  BY <1>1, <1>2 DEF SemTypes
<1> HIDE DEF q
<1>5. \A s \in Symbols : symFree[s] \in Nat /\ symFree'[s] = symFree[s] + Ones(q.sym = s)
  BY <1>1, <1>2 DEF Ones
<1>6. \A p \in Pools : poolFree[p] \in Nat /\ poolFree'[p] = poolFree[p] + Ones(q.pool = p)
  BY <1>1, <1>2 DEF Ones
<1>7. \A s \in Symbols : Between(Ones(HoldsSym(q, s)), Ones(q.sym = s), Ones(HoldsSym(q, s)) + 1)
  BY DEF Ones, HoldsSym, Between
<1>8. \A p \in Pools : Between(Ones(HoldsPool(q, p)), Ones(q.pool = p), Ones(HoldsPool(q, p)) + 1)
  BY DEF Ones, HoldsPool, Between
<1>9. \A b \in BOOLEAN : Ones(b) \in {0, 1}
  BY DEF Ones
<1>10. Ones(FALSE) = 0
  BY DEF Ones
<1>11. Fair(q, Idle, 0, 1)
  <2>1. Between(ipFree + Ones(HoldsIp(q)) - 0, ipFree' + Ones(HoldsIp(Idle)), ipFree + Ones(HoldsIp(q)) + 1)
    BY <1>1, <1>2, <1>3 DEF Ones, Between
  <2>2. ASSUME NEW s \in Symbols
        PROVE  Between(symFree[s] + Ones(HoldsSym(q, s)) - 0, symFree'[s] + Ones(HoldsSym(Idle, s)),
                       symFree[s] + Ones(HoldsSym(q, s)) + 1)
    BY <1>3, <1>5 DEF Ones, HoldsSym, Between
  <2>3. ASSUME NEW p \in Pools
        PROVE  Between(poolFree[p] + Ones(HoldsPool(q, p)) - 0, poolFree'[p] + Ones(HoldsPool(Idle, p)),
                       poolFree[p] + Ones(HoldsPool(q, p)) + 1)
    BY <1>3, <1>6 DEF Ones, HoldsPool, Between
  <2> QED BY <2>1, <2>2, <2>3 DEF Fair
<1>12. ASSUME q.pc \in {"token", "post"} PROVE Fair(q, Idle, 0, 0)
  <2>1. Between(ipFree + Ones(HoldsIp(q)) - 0, ipFree' + Ones(HoldsIp(Idle)), ipFree + Ones(HoldsIp(q)) + 0)
    BY <1>1, <1>2, <1>3, <1>12 DEF Ones, Between, HoldsIp
  <2>2. ASSUME NEW s \in Symbols
        PROVE  Between(symFree[s] + Ones(HoldsSym(q, s)) - 0, symFree'[s] + Ones(HoldsSym(Idle, s)),
                       symFree[s] + Ones(HoldsSym(q, s)) + 0)
    BY <1>3, <1>5, <1>12 DEF Ones, HoldsSym, Between
  <2>3. ASSUME NEW p \in Pools
        PROVE  Between(poolFree[p] + Ones(HoldsPool(q, p)) - 0, poolFree'[p] + Ones(HoldsPool(Idle, p)),
                       poolFree[p] + Ones(HoldsPool(q, p)) + 0)
    BY <1>3, <1>6, <1>12 DEF Ones, HoldsPool, Between
  <2> QED BY <2>1, <2>2, <2>3 DEF Fair
<1> QED
  BY <1>4, <1>11, <1>12 DEF q

\* Ending without giving anything back loses one of each that was held.
LEMMA LossFair ==
    ASSUME TypeOK, NEW c \in Callers, UNCHANGED semVars
    PROVE  SemTypes' /\ Fair(call[c], Idle, 1, 0)
<1> DEFINE q == call[c]
<1>1. /\ ipFree \in Nat /\ symFree \in [Symbols -> Nat] /\ poolFree \in [Pools -> Nat]
      /\ ipFree' = ipFree /\ symFree' = symFree /\ poolFree' = poolFree
  BY DEF TypeOK, semVars
<1>2. /\ ~HoldsIp(Idle) /\ \A s \in Symbols : ~HoldsSym(Idle, s)
      /\ \A p \in Pools : ~HoldsPool(Idle, p)
  BY DEF Idle, HoldsIp, HoldsSym, HoldsPool
<1>3. (\A s \in Symbols : symFree[s] \in Nat) /\ \A p \in Pools : poolFree[p] \in Nat
  BY <1>1
<1> HIDE DEF q
<1>4. Between(ipFree + Ones(HoldsIp(q)) - 1, ipFree' + Ones(HoldsIp(Idle)), ipFree + Ones(HoldsIp(q)) + 0)
  BY <1>1, <1>2 DEF Ones, Between
<1>5. ASSUME NEW s \in Symbols
      PROVE  Between(symFree[s] + Ones(HoldsSym(q, s)) - 1, symFree'[s] + Ones(HoldsSym(Idle, s)),
                     symFree[s] + Ones(HoldsSym(q, s)) + 0)
  BY <1>1, <1>2, <1>3 DEF Ones, Between
<1>6. ASSUME NEW p \in Pools
      PROVE  Between(poolFree[p] + Ones(HoldsPool(q, p)) - 1, poolFree'[p] + Ones(HoldsPool(Idle, p)),
                     poolFree[p] + Ones(HoldsPool(q, p)) + 0)
  BY <1>1, <1>2, <1>3 DEF Ones, Between
<1>7. SemTypes'
  BY <1>1 DEF SemTypes
<1> QED
  BY <1>4, <1>5, <1>6, <1>7 DEF Fair, q

-----------------------------------------------------------------------------
(* The circuit                                                             *)

CircuitTypes ==
    /\ count429 \in [Symbols -> 0 .. Threshold]
    /\ circuit \in [Symbols -> {"closed", "open", "expired"}]
    /\ probeUsed \in [Symbols -> BOOLEAN]
    /\ tests \in [Symbols -> SUBSET Callers]
    /\ silent \subseteq Symbols

Sound == \A s \in Symbols : Counted(s) /\ TestOf(s)

\* c is not under way as the test of any symbol but s.
TestsNoOther(c, s) == \A t \in Symbols \ {s} : c \in tests[t] => t \in silent

LEMMA BusyTestsOwn ==
    ASSUME TypeOK, Sound, NEW c \in Callers
    PROVE  /\ TestsNoOther(c, call[c].sym)
           /\ call[c].pc \notin Admitted => \A t \in Symbols : c \in tests[t] => t \in silent
<1>1. \A t \in Symbols : c \in tests[t] => t \in silent \/ (call[c].sym = t /\ call[c].pc \in Admitted)
  BY DEF Sound, TestOf
<1> QED
  BY <1>1 DEF TestsNoOther

\* A symbol whose circuit a step leaves alone stays sound, when the call that
\* moves is not its test, or still is, or has ended in silence.
LEMMA OtherStands ==
    ASSUME Sound, NEW t \in Symbols, NEW c \in Callers, NEW r, Becomes(c, r),
           count429'[t] = count429[t], circuit'[t] = circuit[t],
           probeUsed'[t] <=> probeUsed[t], tests'[t] = tests[t],
           t \in silent => t \in silent', tests[t] = {} => (t \in silent' <=> t \in silent),
           c \in tests[t] => t \in silent' \/ (r.sym = t /\ r.pc \in Admitted)
    PROVE  Counted(t)' /\ TestOf(t)'
<1>1. Counted(t) /\ TestOf(t)
  BY DEF Sound
<1>2. Counted(t)'
  BY <1>1 DEF Counted
<1>3. CASE ~probeUsed[t] /\ tests[t] = {} /\ t \notin silent
  <2>1. ~probeUsed'[t]
    BY <1>3
  <2>2. tests'[t] = {} /\ t \notin silent'
    BY <1>3
  <2> QED
    BY <1>2, <2>1, <2>2 DEF TestOf
<1>4. CASE /\ probeUsed[t] /\ circuit[t] = "expired" /\ HalfOpenTestMax > 0
           /\ \E d \in Callers : tests[t] = {d} /\ (t \in silent \/ (call[d].sym = t /\ call[d].pc \in Admitted))
  <2>1. PICK d \in Callers : tests[t] = {d} /\ (t \in silent \/ (call[d].sym = t /\ call[d].pc \in Admitted))
    BY <1>4
  <2>2. tests'[t] = {d} /\ (t \in silent' \/ (call'[d].sym = t /\ call'[d].pc \in Admitted))
    <3>1. CASE d = c
      BY <2>1, <3>1 DEF Becomes
    <3>2. CASE d # c
      BY <2>1, <3>2 DEF Becomes
    <3> QED BY <3>1, <3>2
  <2>3. circuit'[t] = "expired" /\ HalfOpenTestMax > 0
    BY <1>4
  <2>4. probeUsed'[t]
    BY <1>4
  <2> QED
    BY <1>2, <2>2, <2>3, <2>4 DEF TestOf
<1> QED
  BY <1>1, <1>3, <1>4 DEF TestOf

LEMMA CircuitStays ==
    ASSUME TypeOK, Sound, UNCHANGED circuitVars, NEW c \in Callers, NEW r, Becomes(c, r),
           \A t \in Symbols : c \in tests[t] => t \in silent \/ (r.sym = t /\ r.pc \in Admitted)
    PROVE  CircuitTypes' /\ Sound'
<1>1. CircuitTypes'
  BY DEF TypeOK, CircuitTypes, circuitVars
<1>2. ASSUME NEW t \in Symbols PROVE Counted(t)' /\ TestOf(t)'
  BY OtherStands DEF circuitVars
<1> QED
  BY <1>1, <1>2 DEF Sound

LEMMA SuccessIsSound ==
    ASSUME TypeOK, Sound, NEW s \in Symbols, RecordSuccess(s), NEW c \in Callers, NEW r, Becomes(c, r),
           TestsNoOther(c, s)
    PROVE  CircuitTypes' /\ Sound'
<1> USE DEF RecordSuccess, NewPeriod
<1>1. Threshold \in Nat \ {0}
  BY GatewayAssumption
<1>2. CircuitTypes'
  <2>1. probeUsed' \in [Symbols -> BOOLEAN]
    BY DEF TypeOK
  <2>2. count429' \in [Symbols -> 0 .. Threshold]
    BY <1>1 DEF TypeOK
  <2>3. circuit' \in [Symbols -> {"closed", "open", "expired"}] /\ tests' \in [Symbols -> SUBSET Callers]
        /\ silent' \subseteq Symbols
    BY DEF TypeOK
  <2> QED BY <2>1, <2>2, <2>3 DEF CircuitTypes
<1>3. Counted(s)'
  BY <1>1 DEF TypeOK, Counted
<1>4. TestOf(s)'
  <2>1. ~probeUsed'[s]
    BY DEF TypeOK
  <2>2. tests'[s] = {} /\ s \notin silent'
    BY DEF TypeOK
  <2> QED BY <2>1, <2>2 DEF TestOf
<1>5. ASSUME NEW t \in Symbols \ {s} PROVE Counted(t)' /\ TestOf(t)'
  <2>1. /\ count429'[t] = count429[t] /\ circuit'[t] = circuit[t] /\ tests'[t] = tests[t]
        /\ t \in silent' <=> t \in silent
    BY DEF TypeOK
  <2>2. probeUsed'[t] <=> probeUsed[t]
    BY DEF TypeOK
  <2>3. c \in tests[t] => t \in silent'
    BY <2>1 DEF TestsNoOther
  <2> QED BY <2>1, <2>2, <2>3, OtherStands
<1> QED
  BY <1>2, <1>3, <1>4, <1>5 DEF Sound

LEMMA A429IsSound ==
    ASSUME TypeOK, Sound, NEW s \in Symbols, Record429(s), NEW c \in Callers, NEW r, Becomes(c, r),
           TestsNoOther(c, s)
    PROVE  CircuitTypes' /\ Sound'
<1>1. Threshold \in Nat \ {0} /\ count429[s] \in 0 .. Threshold /\ count429[s] \in Nat
  BY GatewayAssumption DEF TypeOK
<1>2. Counted(s) /\ TestOf(s)
  BY DEF Sound
<1>3. CASE count429[s] + 1 >= Threshold
  <2>1. /\ count429' = [count429 EXCEPT ![s] = Threshold]
        /\ circuit' = [circuit EXCEPT ![s] = "open"]
        /\ probeUsed' = [probeUsed EXCEPT ![s] = FALSE]
        /\ tests' = [tests EXCEPT ![s] = {}] /\ silent' = silent \ {s}
    BY <1>3 DEF Record429, NewPeriod
  <2>2. CircuitTypes'
    <3>1. probeUsed' \in [Symbols -> BOOLEAN]
      BY <2>1 DEF TypeOK
    <3>2. count429' \in [Symbols -> 0 .. Threshold]
      BY <1>1, <2>1 DEF TypeOK
    <3>3. circuit' \in [Symbols -> {"closed", "open", "expired"}] /\ tests' \in [Symbols -> SUBSET Callers]
          /\ silent' \subseteq Symbols
      BY <2>1 DEF TypeOK
    <3> QED BY <3>1, <3>2, <3>3 DEF CircuitTypes
  <2>3. Counted(s)'
    BY <2>1 DEF TypeOK, Counted
  <2>4. TestOf(s)'
    <3>1. ~probeUsed'[s]
      BY <2>1 DEF TypeOK
    <3>2. tests'[s] = {} /\ s \notin silent'
      BY <2>1 DEF TypeOK
    <3> QED BY <3>1, <3>2 DEF TestOf
  <2>5. ASSUME NEW t \in Symbols \ {s} PROVE Counted(t)' /\ TestOf(t)'
    <3>1. /\ count429'[t] = count429[t] /\ circuit'[t] = circuit[t] /\ tests'[t] = tests[t]
          /\ t \in silent' <=> t \in silent
      BY <2>1 DEF TypeOK
    <3>2. probeUsed'[t] <=> probeUsed[t]
      BY <2>1 DEF TypeOK
    <3>3. c \in tests[t] => t \in silent'
      BY <3>1 DEF TestsNoOther
    <3> QED BY <3>1, <3>2, <3>3, OtherStands
  <2> QED
    BY <2>2, <2>3, <2>4, <2>5 DEF Sound
<1>4. CASE ~(count429[s] + 1 >= Threshold)
  <2>1. /\ count429' = [count429 EXCEPT ![s] = @ + 1]
        /\ UNCHANGED <<circuit, probeUsed, tests, silent>>
    BY <1>4 DEF Record429
  <2>2. circuit[s] = "closed"
    BY <1>1, <1>2, <1>4 DEF Counted
  <2>3. tests[s] = {} /\ s \notin silent /\ ~probeUsed[s]
    BY <1>2, <2>2 DEF TestOf
  <2>4. CircuitTypes'
    <3>1. count429' \in [Symbols -> 0 .. Threshold]
      BY <1>1, <1>4, <2>1 DEF TypeOK
    <3> QED BY <2>1, <3>1 DEF TypeOK, CircuitTypes
  <2>5. Counted(s)'
    BY <1>1, <1>4, <2>1, <2>2 DEF TypeOK, Counted
  <2>6. TestOf(s)'
    BY <2>1, <2>3 DEF TestOf
  <2>7. ASSUME NEW t \in Symbols \ {s} PROVE Counted(t)' /\ TestOf(t)'
    <3>1. count429'[t] = count429[t]
      BY <2>1 DEF TypeOK
    <3>2. c \in tests[t] => t \in silent'
      BY <2>1 DEF TestsNoOther
    <3> QED BY <2>1, <3>1, <3>2, OtherStands
  <2> QED
    BY <2>4, <2>5, <2>6, <2>7 DEF Sound
<1> QED
  BY <1>3, <1>4

LEMMA SilentIsSound ==
    ASSUME TypeOK, Sound, NEW c \in Callers, call[c] \in Busy, Silent(c), NEW r, Becomes(c, r)
    PROVE  CircuitTypes' /\ Sound'
<1>1. call[c].sym \in Symbols /\ TestsNoOther(c, call[c].sym)
  BY CallIs, BusyTestsOwn
<1>2. /\ silent' = IF c \in tests[call[c].sym] THEN silent \cup {call[c].sym} ELSE silent
      /\ UNCHANGED <<count429, circuit, probeUsed, tests>>
  BY DEF Silent
<1>3. CircuitTypes'
  <2>1. silent' \subseteq Symbols
    BY <1>1, <1>2 DEF TypeOK
  <2> QED BY <1>2, <2>1 DEF TypeOK, CircuitTypes
<1>4. ASSUME NEW t \in Symbols PROVE Counted(t)' /\ TestOf(t)'
  <2>1. t \in silent => t \in silent'
    BY <1>2
  <2>2. tests[t] = {} => (t \in silent' <=> t \in silent)
    BY <1>2
  <2>3. c \in tests[t] => t \in silent'
    BY <1>1, <1>2 DEF TestsNoOther
  <2> QED BY <1>2, <2>1, <2>2, <2>3, OtherStands
<1> QED
  BY <1>3, <1>4 DEF Sound

LEMMA RecordIsSound ==
    ASSUME TypeOK, Sound, NEW c \in Callers, call[c] \in Busy, NEW a, Record(c, a), NEW r, Becomes(c, r)
    PROVE  CircuitTypes' /\ Sound'
<1>1. call[c].sym \in Symbols /\ TestsNoOther(c, call[c].sym)
  BY CallIs, BusyTestsOwn
<1> QED
  BY <1>1, SuccessIsSound, A429IsSound, SilentIsSound DEF Record

\* Letting a call through closes the circuit, makes it the only test of the
\* half-open period, or finds the circuit closed.
LEMMA AdmitIsSound ==
    ASSUME TypeOK, Sound, NEW c \in Callers, call[c] = Idle, NEW s \in Symbols, Admit(c, s),
           NEW r, Becomes(c, r), r.sym = s, r.pc \in Admitted
    PROVE  CircuitTypes' /\ Sound'
<1>1. \A t \in Symbols : c \in tests[t] => t \in silent
  <2>1. call[c].pc \notin Admitted
    BY DEF Idle, Admitted
  <2> QED BY <2>1, BusyTestsOwn
<1>2. CASE circuit[s] = "closed"
  <2>1. UNCHANGED circuitVars
    BY <1>2 DEF Admit
  <2> QED BY <1>1, <2>1, CircuitStays
<1>3. CASE circuit[s] # "closed" /\ HalfOpenTestMax = 0
  <2>1. RecordSuccess(s)
    BY <1>3 DEF Admit
  <2>2. TestsNoOther(c, s)
    BY <1>1 DEF TestsNoOther
  <2> QED BY <2>1, <2>2, SuccessIsSound
<1>4. CASE circuit[s] # "closed" /\ HalfOpenTestMax # 0
  <2>1. /\ ~Blocked(s) /\ probeUsed' = [probeUsed EXCEPT ![s] = TRUE]
        /\ tests' = [tests EXCEPT ![s] = @ \cup {c}]
        /\ UNCHANGED <<count429, circuit, silent>>
    BY <1>4 DEF Admit
  <2>2. HalfOpenTestMax > 0
    BY <1>4, GatewayAssumption
  <2>3. circuit[s] = "expired"
    BY <1>4, <2>1 DEF Blocked, TypeOK
  <2>4. ~probeUsed[s]
    BY <2>1, <2>2, <2>3 DEF Blocked
  <2>5. tests[s] = {} /\ s \notin silent
    BY <2>4 DEF Sound, TestOf
  <2>6. CircuitTypes'
    <3>1. probeUsed' \in [Symbols -> BOOLEAN]
      BY <2>1 DEF TypeOK
    <3>2. tests' \in [Symbols -> SUBSET Callers]
      BY <2>1 DEF TypeOK
    <3> QED BY <2>1, <3>1, <3>2 DEF TypeOK, CircuitTypes
  <2>7. Counted(s)'
    BY <2>1 DEF Sound, Counted
  <2>8. TestOf(s)'
    <3>1. probeUsed'[s]
      BY <2>1 DEF TypeOK
    <3>2. tests'[s] = {c} /\ circuit'[s] = "expired"
      BY <2>1, <2>3, <2>5 DEF TypeOK
    <3>3. call'[c].sym = s /\ call'[c].pc \in Admitted
      BY DEF Becomes
    <3> QED BY <2>2, <3>1, <3>2, <3>3 DEF TestOf
  <2>9. ASSUME NEW t \in Symbols \ {s} PROVE Counted(t)' /\ TestOf(t)'
    <3>1. tests'[t] = tests[t]
      BY <2>1 DEF TypeOK
    <3>2. probeUsed'[t] <=> probeUsed[t]
      BY <2>1 DEF TypeOK
    <3>3. c \in tests[t] => t \in silent'
      BY <1>1, <2>1
    <3> QED BY <2>1, <3>1, <3>2, <3>3, OtherStands
  <2> QED
    BY <2>6, <2>7, <2>8, <2>9 DEF Sound
<1> QED
  BY <1>2, <1>3, <1>4

-----------------------------------------------------------------------------
(* The steps                                                               *)

LEMMA Assemble ==
    ASSUME IInv, NEW c \in Callers, NEW r, Becomes(c, r), SemTypes', CircuitTypes' /\ Sound',
           queued' \in 0 .. PacerMax, timeouts' \in 0 .. MaxTimeouts, cancels' \in 0 .. MaxCancels,
           Fair(call[c], r, cancels' - cancels, timeouts' - timeouts)
    PROVE  IInv'
<1>1. TypeOK'
  BY DEF Becomes, SemTypes, CircuitTypes, TypeOK
<1>2. Balanced'
  BY <1>1, FairBalances DEF IInv
<1> QED
  BY <1>1, <1>2 DEF IInv, Sound

\* The same for a step in which no wait times out and no task is cancelled.
LEMMA AssembleQuiet ==
    ASSUME IInv, NEW c \in Callers, NEW r, Becomes(c, r), SemTypes', CircuitTypes' /\ Sound',
           queued' \in 0 .. PacerMax, UNCHANGED faultVars, Fair(call[c], r, 0, 0)
    PROVE  IInv'
<1>1. /\ timeouts' \in 0 .. MaxTimeouts /\ cancels' \in 0 .. MaxCancels
      /\ cancels' - cancels = 0 /\ timeouts' - timeouts = 0
  BY DEF faultVars, IInv, TypeOK
<1>2. Fair(call[c], r, cancels' - cancels, timeouts' - timeouts)
  BY <1>1
<1> QED
  BY <1>1, <1>2, Assemble

LEMMA CallDirectKeeps ==
    ASSUME IInv, NEW c \in Callers, NEW s \in Symbols, CallDirect(c, s) PROVE IInv'
<1> DEFINE r == [pc |-> "direct", sym |-> s, pool |-> "emergency", attempt |-> 1]
<1>1. /\ call[c] = Idle /\ call' = [call EXCEPT ![c] = r]
      /\ UNCHANGED <<semVars, circuitVars, queued, faultVars>>
  BY DEF CallDirect
<1>2. TypeOK /\ Sound
  BY DEF IInv, Sound
<1>3. r \in Busy
  BY DEF Busy, Stages, Pools
<1>4. r.pc = "direct"
  OBVIOUS
<1> HIDE DEF r
<1>5. Becomes(c, r)
  BY <1>1, <1>2, <1>3 DEF Becomes, TypeOK
<1>6. CircuitTypes' /\ Sound'
  <2>1. call[c].pc \notin Admitted
    BY <1>1 DEF Idle, Admitted
  <2> QED BY <1>1, <1>2, <1>5, <2>1, BusyTestsOwn, CircuitStays
<1>7. Fair(call[c], r, 0, 0) /\ SemTypes'
  <2>1. call[c].pc = "idle"
    BY <1>1 DEF Idle
  <2> QED BY <1>1, <1>2, <1>4, <2>1, SamePermits DEF HoldsIp, HoldsSym, HoldsPool
<1> QED
  BY <1>1, <1>2, <1>5, <1>6, <1>7, AssembleQuiet DEF TypeOK

LEMMA EnqueuedIs ==
    ASSUME TypeOK PROVE Enqueued \in 0 .. PacerMax
BY GatewayAssumption DEF TypeOK, Enqueued

LEMMA CallBlockedKeeps ==
    ASSUME IInv, NEW c \in Callers, NEW s \in Symbols, NEW p \in Pools, CallBlocked(c, s, p) PROVE IInv'
<1>1. /\ queued' = Enqueued /\ UNCHANGED <<call, semVars, circuitVars, faultVars>>
  BY DEF CallBlocked
<1>2. queued' \in 0 .. PacerMax
  BY <1>1, EnqueuedIs DEF IInv
<1>3. TypeOK'
  BY <1>1, <1>2 DEF IInv, TypeOK, semVars, circuitVars, faultVars
<1>4. Balanced'
  BY <1>1 DEF IInv, Balanced, HoldingIp, HoldingSym, HoldingPool, semVars, faultVars
<1>5. \A t \in Symbols : Counted(t)' /\ TestOf(t)'
  BY <1>1 DEF IInv, Counted, TestOf, circuitVars
<1> QED
  BY <1>3, <1>4, <1>5 DEF IInv

LEMMA CallAdmittedKeeps ==
    ASSUME IInv, NEW c \in Callers, NEW s \in Symbols, NEW p \in Pools, CallAdmitted(c, s, p) PROVE IInv'
<1> DEFINE r == [pc |-> "pool", sym |-> s, pool |-> p, attempt |-> 1]
<1>1. /\ call[c] = Idle /\ Admit(c, s) /\ queued' = Enqueued /\ call' = [call EXCEPT ![c] = r]
      /\ UNCHANGED <<semVars, faultVars>>
  BY DEF CallAdmitted
<1>2. TypeOK /\ Sound
  BY DEF IInv, Sound
<1>3. r \in Busy
  BY DEF Busy, Stages, Pools
<1>4. r.pc = "pool" /\ r.sym = s
  OBVIOUS
<1> HIDE DEF r
<1>5. Becomes(c, r)
  BY <1>1, <1>2, <1>3 DEF Becomes, TypeOK
<1>6. CircuitTypes' /\ Sound'
  BY <1>1, <1>2, <1>4, <1>5, AdmitIsSound DEF Admitted
<1>7. Fair(call[c], r, 0, 0) /\ SemTypes'
  <2>1. call[c].pc = "idle"
    BY <1>1 DEF Idle
  <2> QED BY <1>1, <1>2, <1>4, <2>1, SamePermits DEF HoldsIp, HoldsSym, HoldsPool
<1> QED
  BY <1>1, <1>2, <1>5, <1>6, <1>7, EnqueuedIs, AssembleQuiet

\* A call that moves on, from one stage behind is_circuit_open to another.
LEMMA GoesOn ==
    ASSUME IInv, NEW c \in Callers, call[c].pc \in Admitted, NEW x \in Admitted, Goto(c, x),
           UNCHANGED circuitVars
    PROVE  /\ Becomes(c, call'[c]) /\ CircuitTypes' /\ Sound'
           /\ call'[c].pc = x /\ call'[c].sym = call[c].sym /\ call'[c].pool = call[c].pool
           /\ call[c].sym \in Symbols /\ call[c].pool \in Pools
<1>1. TypeOK /\ Sound
  BY DEF IInv, Sound
<1>2. call[c] \in Busy
  BY <1>1, CallIs DEF Admitted
<1>3. /\ Becomes(c, call'[c])
      /\ call'[c].pc = x /\ call'[c].sym = call[c].sym /\ call'[c].pool = call[c].pool
  BY <1>1, <1>2, GotoIs DEF Admitted, Stages
<1>4. \A t \in Symbols : c \in tests[t] => t \in silent \/ (call'[c].sym = t /\ call'[c].pc \in Admitted)
  BY <1>1, <1>3, BusyTestsOwn DEF TestsNoOther
<1> QED
  BY <1>1, <1>2, <1>3, <1>4, CallIs, CircuitStays

LEMMA TakePoolKeeps ==
    ASSUME IInv, NEW c \in Callers, TakePool(c) PROVE IInv'
<1> DEFINE q == call[c]
           r == call'[c]
<1>1. /\ q.pc = "pool" /\ poolFree[q.pool] > 0 /\ poolFree' = [poolFree EXCEPT ![q.pool] = @ - 1]
      /\ Goto(c, "ip") /\ UNCHANGED <<ipFree, symFree, circuitVars, queued, faultVars>>
  BY DEF TakePool
<1>2. /\ Becomes(c, r) /\ CircuitTypes' /\ Sound'
      /\ r.pc = "ip" /\ r.sym = q.sym /\ r.pool = q.pool /\ q.sym \in Symbols /\ q.pool \in Pools
  BY <1>1, GoesOn DEF Admitted
<1> HIDE DEF q, r
<1>3. ipFree \in Nat /\ symFree \in [Symbols -> Nat] /\ poolFree \in [Pools -> Nat]
  BY DEF IInv, TypeOK
<1>4. SemTypes'
  BY <1>1, <1>2, <1>3 DEF SemTypes
<1>5. Fair(q, r, 0, 0)
  <2>1. ASSUME NEW p \in Pools
        PROVE  /\ poolFree[p] \in Int /\ poolFree'[p] \in Int
               /\ poolFree'[p] + Ones(HoldsPool(r, p)) = poolFree[p] + Ones(HoldsPool(q, p))
    BY <1>1, <1>2, <1>3 DEF Ones, HoldsPool
  <2>2. ~HoldsIp(q) /\ ~HoldsIp(r) /\ \A s \in Symbols : ~HoldsSym(q, s) /\ ~HoldsSym(r, s)
    BY <1>1, <1>2 DEF HoldsIp, HoldsSym
  <2>3. \A s \in Symbols : symFree[s] \in Int
    BY <1>3
  <2> QED BY <1>1, <1>3, <2>1, <2>2, <2>3 DEF Fair, Between, Ones
<1> QED
  BY <1>1, <1>2, <1>4, <1>5, AssembleQuiet DEF IInv, TypeOK, q, r

LEMMA TakeIpKeeps ==
    ASSUME IInv, NEW c \in Callers, TakeIp(c) PROVE IInv'
<1> DEFINE q == call[c]
           r == call'[c]
<1>1. /\ q.pc = "ip" /\ ipFree > 0 /\ ipFree' = ipFree - 1
      /\ Goto(c, "sym") /\ UNCHANGED <<symFree, poolFree, circuitVars, queued, faultVars>>
  BY DEF TakeIp
<1>2. /\ Becomes(c, r) /\ CircuitTypes' /\ Sound'
      /\ r.pc = "sym" /\ r.sym = q.sym /\ r.pool = q.pool /\ q.sym \in Symbols /\ q.pool \in Pools
  BY <1>1, GoesOn DEF Admitted
<1> HIDE DEF q, r
<1>3. ipFree \in Nat /\ symFree \in [Symbols -> Nat] /\ poolFree \in [Pools -> Nat]
  BY DEF IInv, TypeOK
<1>4. SemTypes'
  BY <1>1, <1>2, <1>3 DEF SemTypes
<1>5. Fair(q, r, 0, 0)
  <2>1. \A p \in Pools : Ones(HoldsPool(r, p)) = Ones(HoldsPool(q, p)) /\ Ones(HoldsPool(q, p)) \in Int
    BY <1>1, <1>2 DEF Ones, HoldsPool
  <2>2. ~HoldsIp(q) /\ HoldsIp(r) /\ \A s \in Symbols : ~HoldsSym(q, s) /\ ~HoldsSym(r, s)
    BY <1>1, <1>2 DEF HoldsIp, HoldsSym
  <2>3. (\A s \in Symbols : symFree[s] \in Int) /\ \A p \in Pools : poolFree[p] \in Int
    BY <1>3
  <2>4. /\ Ones(HoldsIp(q)) = 0 /\ Ones(HoldsIp(r)) = 1
        /\ \A s \in Symbols : Ones(HoldsSym(q, s)) = 0 /\ Ones(HoldsSym(r, s)) = 0
    BY <2>2 DEF Ones
  <2>5. Between(ipFree + Ones(HoldsIp(q)) - 0, ipFree' + Ones(HoldsIp(r)), ipFree + Ones(HoldsIp(q)) + 0)
    BY <1>1, <1>3, <2>4 DEF Between
  <2>6. \A s \in Symbols :
           Between(symFree[s] + Ones(HoldsSym(q, s)) - 0, symFree'[s] + Ones(HoldsSym(r, s)),
                   symFree[s] + Ones(HoldsSym(q, s)) + 0)
    BY <1>1, <2>3, <2>4 DEF Between
  <2>7. \A p \in Pools :
           Between(poolFree[p] + Ones(HoldsPool(q, p)) - 0, poolFree'[p] + Ones(HoldsPool(r, p)),
                   poolFree[p] + Ones(HoldsPool(q, p)) + 0)
    BY <1>1, <2>1, <2>3 DEF Between
  <2> QED BY <2>5, <2>6, <2>7 DEF Fair
<1> QED
  BY <1>1, <1>2, <1>4, <1>5, AssembleQuiet DEF IInv, TypeOK, q, r

LEMMA TakeSymKeeps ==
    ASSUME IInv, NEW c \in Callers, TakeSym(c) PROVE IInv'
<1> DEFINE q == call[c]
           r == call'[c]
<1>1. /\ q.pc = "sym" /\ symFree[q.sym] > 0 /\ symFree' = [symFree EXCEPT ![q.sym] = @ - 1]
      /\ Goto(c, "token") /\ UNCHANGED <<ipFree, poolFree, circuitVars, queued, faultVars>>
  BY DEF TakeSym
<1>2. /\ Becomes(c, r) /\ CircuitTypes' /\ Sound'
      /\ r.pc = "token" /\ r.sym = q.sym /\ r.pool = q.pool /\ q.sym \in Symbols /\ q.pool \in Pools
  BY <1>1, GoesOn DEF Admitted
<1> HIDE DEF q, r
<1>3. ipFree \in Nat /\ symFree \in [Symbols -> Nat] /\ poolFree \in [Pools -> Nat]
  BY DEF IInv, TypeOK
<1>4. SemTypes'
  BY <1>1, <1>2, <1>3 DEF SemTypes
<1>5. Fair(q, r, 0, 0)
  <2>1. \A p \in Pools : Ones(HoldsPool(r, p)) = Ones(HoldsPool(q, p)) /\ Ones(HoldsPool(q, p)) \in Int
    BY <1>1, <1>2 DEF Ones, HoldsPool
  <2>2. Ones(HoldsIp(q)) = Ones(HoldsIp(r)) /\ Ones(HoldsIp(q)) \in Int
    BY <1>1, <1>2 DEF HoldsIp, Ones
  <2>3. ASSUME NEW s \in Symbols
        PROVE  /\ symFree[s] \in Int /\ symFree'[s] \in Int
               /\ symFree'[s] + Ones(HoldsSym(r, s)) = symFree[s] + Ones(HoldsSym(q, s))
               /\ Ones(HoldsSym(q, s)) \in Int
    BY <1>1, <1>2, <1>3 DEF Ones, HoldsSym
  <2>4. \A p \in Pools : poolFree[p] \in Int
    BY <1>3
  <2> QED BY <1>1, <1>3, <2>1, <2>2, <2>3, <2>4 DEF Fair, Between
<1> QED
  BY <1>1, <1>2, <1>4, <1>5, AssembleQuiet DEF IInv, TypeOK, q, r

LEMMA TokenGrantedKeeps ==
    ASSUME IInv, NEW c \in Callers, TokenGranted(c) PROVE IInv'
<1> DEFINE q == call[c]
           r == call'[c]
<1>1. /\ q.pc = "token" /\ Goto(c, "post")
      /\ UNCHANGED <<semVars, circuitVars, queued, faultVars>>
  BY DEF TokenGranted
<1>2. /\ Becomes(c, r) /\ CircuitTypes' /\ Sound'
      /\ r.pc = "post" /\ r.sym = q.sym /\ r.pool = q.pool
  BY <1>1, GoesOn DEF Admitted
<1> HIDE DEF q, r
<1>3. Fair(q, r, 0, 0) /\ SemTypes'
  BY <1>1, <1>2, SamePermits DEF HoldsIp, HoldsSym, HoldsPool, IInv
<1> QED
  BY <1>1, <1>2, <1>3, AssembleQuiet DEF IInv, TypeOK, q, r

LEMMA AcquireTimeoutKeeps ==
    ASSUME IInv, NEW c \in Callers, AcquireTimeout(c) PROVE IInv'
<1>1. /\ call[c].pc \in {"pool", "ip", "sym"} /\ timeouts < MaxTimeouts /\ timeouts' = timeouts + 1
      /\ Release(c) /\ Silent(c) /\ Return(c) /\ queued' = queued /\ cancels' = cancels
  BY DEF AcquireTimeout
<1>2. TypeOK /\ Sound
  BY DEF IInv, Sound
<1>3. call[c] \in Busy /\ Becomes(c, Idle)
  BY <1>1, <1>2, CallIs, ReturnIs
<1>4. SemTypes' /\ Fair(call[c], Idle, 0, 1) /\ CircuitTypes' /\ Sound'
  BY <1>1, <1>2, <1>3, ReleaseFair, SilentIsSound
<1>5. /\ cancels' - cancels = 0 /\ timeouts' - timeouts = 1 /\ queued' \in 0 .. PacerMax
      /\ timeouts' \in 0 .. MaxTimeouts /\ cancels' \in 0 .. MaxCancels
  BY <1>1, <1>2, GatewayAssumption DEF TypeOK
<1>6. Fair(call[c], Idle, cancels' - cancels, timeouts' - timeouts)
  BY <1>4, <1>5
<1> QED
  BY <1>3, <1>4, <1>5, <1>6, Assemble

LEMMA TokenRefusedKeeps ==
    ASSUME IInv, NEW c \in Callers, TokenRefused(c) PROVE IInv'
<1>1. /\ call[c].pc = "token" /\ Release(c) /\ Silent(c) /\ Return(c)
      /\ UNCHANGED <<queued, faultVars>>
  BY DEF TokenRefused
<1>2. TypeOK /\ Sound
  BY DEF IInv, Sound
<1>3. call[c] \in Busy /\ Becomes(c, Idle)
  BY <1>1, <1>2, CallIs, ReturnIs
<1>4. SemTypes' /\ Fair(call[c], Idle, 0, 0) /\ CircuitTypes' /\ Sound'
  BY <1>1, <1>2, <1>3, ReleaseFair, SilentIsSound
<1> QED
  BY <1>1, <1>2, <1>3, <1>4, AssembleQuiet DEF TypeOK

LEMMA PostDoneKeeps ==
    ASSUME IInv, NEW c \in Callers, PostDone(c) PROVE IInv'
<1>1. /\ call[c].pc = "post" /\ (\E a \in Answers : Record(c, a)) /\ Release(c) /\ Return(c)
      /\ UNCHANGED <<queued, faultVars>>
  BY DEF PostDone
<1>2. TypeOK /\ Sound
  BY DEF IInv, Sound
<1>3. call[c] \in Busy /\ Becomes(c, Idle)
  BY <1>1, <1>2, CallIs, ReturnIs
<1>4. SemTypes' /\ Fair(call[c], Idle, 0, 0) /\ CircuitTypes' /\ Sound'
  BY <1>1, <1>2, <1>3, ReleaseFair, RecordIsSound
<1> QED
  BY <1>1, <1>2, <1>3, <1>4, AssembleQuiet DEF TypeOK

\* Only a call that is posting gives its permits back when it is cancelled.
LEMMA CancelKeeps ==
    ASSUME IInv, NEW c \in Callers, Cancel(c) PROVE IInv'
<1>1. /\ call[c] # Idle /\ cancels < MaxCancels /\ cancels' = cancels + 1
      /\ CancelRelease(c) /\ Silent(c) /\ Return(c) /\ queued' = queued /\ timeouts' = timeouts
  BY DEF Cancel
<1>2. TypeOK /\ Sound
  BY DEF IInv, Sound
<1>3. call[c] \in Busy /\ Becomes(c, Idle)
  BY <1>1, <1>2, CallIs, ReturnIs
<1>4. CircuitTypes' /\ Sound'
  BY <1>1, <1>2, <1>3, SilentIsSound
<1>5. SemTypes' /\ Fair(call[c], Idle, 1, 0)
  <2>1. CASE call[c].pc = "post"
    <3>1. Release(c)
      BY <1>1, <2>1 DEF CancelRelease
    <3>2. SemTypes' /\ Fair(call[c], Idle, 0, 0)
      BY <1>2, <1>3, <2>1, <3>1, ReleaseFair
    <3>3. (ipFree \in Nat /\ ipFree' \in Nat)
          /\ (\A s \in Symbols : symFree[s] \in Nat /\ symFree'[s] \in Nat)
          /\ (\A p \in Pools : poolFree[p] \in Nat /\ poolFree'[p] \in Nat)
      BY <1>2, <3>2 DEF TypeOK, SemTypes
    <3>4. \A b \in BOOLEAN : Ones(b) \in {0, 1}
      BY DEF Ones
    <3>5. Fair(call[c], Idle, 1, 0)
      <4>1. Between(ipFree + Ones(HoldsIp(call[c])) - 1, ipFree' + Ones(HoldsIp(Idle)),
                    ipFree + Ones(HoldsIp(call[c])) + 0)
        BY <3>2, <3>3 DEF Fair, Between, Ones
      <4>2. \A s \in Symbols :
               Between(symFree[s] + Ones(HoldsSym(call[c], s)) - 1, symFree'[s] + Ones(HoldsSym(Idle, s)),
                       symFree[s] + Ones(HoldsSym(call[c], s)) + 0)
        BY <3>2, <3>3 DEF Fair, Between, Ones
      <4>3. \A p \in Pools :
               Between(poolFree[p] + Ones(HoldsPool(call[c], p)) - 1, poolFree'[p] + Ones(HoldsPool(Idle, p)),
                       poolFree[p] + Ones(HoldsPool(call[c], p)) + 0)
        BY <3>2, <3>3 DEF Fair, Between, Ones
      <4> QED BY <4>1, <4>2, <4>3 DEF Fair
    <3> QED BY <3>2, <3>5
  <2>2. CASE call[c].pc # "post"
    <3>1. UNCHANGED semVars
      BY <1>1, <2>2 DEF CancelRelease
    <3> QED BY <1>2, <3>1, LossFair
  <2> QED BY <2>1, <2>2
<1>6. /\ cancels' - cancels = 1 /\ timeouts' - timeouts = 0 /\ queued' \in 0 .. PacerMax
      /\ timeouts' \in 0 .. MaxTimeouts /\ cancels' \in 0 .. MaxCancels
  BY <1>1, <1>2, GatewayAssumption DEF TypeOK
<1>7. Fair(call[c], Idle, cancels' - cancels, timeouts' - timeouts)
  BY <1>5, <1>6
<1> QED
  BY <1>3, <1>4, <1>5, <1>6, <1>7, Assemble

\* The direct path holds no permit and is the test of no symbol.
LEMMA DirectTokenKeeps ==
    ASSUME IInv, NEW c \in Callers, DirectToken(c) PROVE IInv'
<1>1. /\ call[c].pc = "direct" /\ (Goto(c, "dpost") \/ NextAttempt(c))
      /\ UNCHANGED <<semVars, circuitVars, queued, faultVars>>
  BY DEF DirectToken
<1>2. TypeOK /\ Sound
  BY DEF IInv, Sound
<1>3. call[c] \in Busy
  BY <1>1, <1>2, CallIs
<1>4. Becomes(c, call'[c]) /\ call'[c].pc \in {"direct", "dpost", "idle"}
  BY <1>1, <1>2, <1>3, GotoIs, NextAttemptIs DEF Stages
<1>5. CircuitTypes' /\ Sound'
  <2>1. call[c].pc \notin Admitted
    BY <1>1 DEF Admitted
  <2> QED BY <1>1, <1>2, <1>4, <2>1, BusyTestsOwn, CircuitStays
<1>6. Fair(call[c], call'[c], 0, 0) /\ SemTypes'
  BY <1>1, <1>2, <1>4, SamePermits DEF HoldsIp, HoldsSym, HoldsPool
<1> QED
  BY <1>1, <1>2, <1>4, <1>5, <1>6, AssembleQuiet DEF TypeOK

LEMMA DirectPostKeeps ==
    ASSUME IInv, NEW c \in Callers, DirectPost(c) PROVE IInv'
<1>1. /\ call[c].pc = "dpost" /\ (\E a \in Answers : Record(c, a)) /\ (Return(c) \/ NextAttempt(c))
      /\ UNCHANGED <<semVars, queued, faultVars>>
  BY DEF DirectPost
<1>2. TypeOK /\ Sound
  BY DEF IInv, Sound
<1>3. call[c] \in Busy
  BY <1>1, <1>2, CallIs
<1>4. Becomes(c, call'[c]) /\ call'[c].pc \in {"direct", "idle"}
  <2>1. ASSUME Return(c) PROVE Becomes(c, call'[c]) /\ call'[c].pc \in {"direct", "idle"}
    <3>1. Becomes(c, Idle)
      BY <1>2, <2>1, ReturnIs
    <3> QED BY <3>1 DEF Becomes, Idle
  <2> QED BY <1>1, <1>2, <1>3, <2>1, NextAttemptIs
<1>5. CircuitTypes' /\ Sound'
  BY <1>1, <1>2, <1>3, <1>4, RecordIsSound
<1>6. Fair(call[c], call'[c], 0, 0) /\ SemTypes'
  BY <1>1, <1>2, <1>4, SamePermits DEF HoldsIp, HoldsSym, HoldsPool
<1> QED
  BY <1>1, <1>2, <1>4, <1>5, <1>6, AssembleQuiet DEF TypeOK

\* The test of a half-open period is unused when it begins.
LEMMA CircuitExpiresKeeps ==
    ASSUME IInv, NEW s \in Symbols, CircuitExpires(s) PROVE IInv'
<1>1. /\ circuit[s] = "open" /\ circuit' = [circuit EXCEPT ![s] = "expired"]
      /\ UNCHANGED <<call, semVars, count429, probeUsed, tests, silent, queued, faultVars>>
  BY DEF CircuitExpires
<1>2. TypeOK'
  <2>1. circuit' \in [Symbols -> {"closed", "open", "expired"}]
    BY <1>1 DEF IInv, TypeOK
  <2> QED BY <1>1, <2>1 DEF IInv, TypeOK, semVars, faultVars
<1>3. Balanced'
  BY <1>1 DEF IInv, Balanced, HoldingIp, HoldingSym, HoldingPool, semVars, faultVars
<1>4. ASSUME NEW t \in Symbols PROVE Counted(t)' /\ TestOf(t)'
  <2>1. Counted(t) /\ TestOf(t) /\ circuit \in [Symbols -> {"closed", "open", "expired"}]
    BY DEF IInv, TypeOK
  <2>2. CASE t = s
    BY <1>1, <2>1, <2>2 DEF Counted, TestOf
  <2>3. CASE t # s
    BY <1>1, <2>1, <2>3 DEF Counted, TestOf
  <2> QED BY <2>2, <2>3
<1> QED
  BY <1>2, <1>3, <1>4 DEF IInv

LEMMA InitIInv ==
    ASSUME Init PROVE IInv
<1> USE GatewayAssumption DEF Init
<1>1. \A c \in Callers : call[c] = Idle
  OBVIOUS
<1>2. TypeOK
  <2>1. \A p \in Pools : PoolLimit(p) \in Nat
    BY DEF PoolLimit
  <2>2. SemTypes
    BY <2>1 DEF SemTypes
  <2>3. CircuitTypes
    BY DEF CircuitTypes
  <2>4. call \in [Callers -> Busy \cup {Idle}]
    OBVIOUS
  <2> QED BY <2>2, <2>3, <2>4 DEF TypeOK, SemTypes, CircuitTypes
<1>3. Balanced
  <2>1. /\ HoldingIp = {} /\ (\A s \in Symbols : HoldingSym(s) = {})
        /\ \A p \in Pools : HoldingPool(p) = {}
    BY <1>1 DEF HoldingIp, HoldingSym, HoldingPool, Idle
  <2>2. Cardinality({}) = 0
    BY FS_EmptySet
  <2>3. \A p \in Pools : PoolLimit(p) \in Nat
    BY DEF PoolLimit
  <2>4. Between(IpLimit - cancels, ipFree + Cardinality(HoldingIp), IpLimit + timeouts)
    BY <2>1, <2>2 DEF Between
  <2>5. \A s \in Symbols :
           Between(SymbolLimit - cancels, symFree[s] + Cardinality(HoldingSym(s)), SymbolLimit + timeouts)
    BY <2>1, <2>2 DEF Between
  <2>6. \A p \in Pools :
           Between(PoolLimit(p) - cancels, poolFree[p] + Cardinality(HoldingPool(p)),
                   PoolLimit(p) + timeouts)
    BY <2>1, <2>2, <2>3, SMTT(30) DEF Between
  <2> QED BY <2>4, <2>5, <2>6 DEF Balanced
<1>4. \A s \in Symbols : Counted(s) /\ TestOf(s)
  BY DEF Counted, TestOf
<1> QED
  BY <1>2, <1>3, <1>4 DEF IInv

LEMMA NextIInv ==
    IInv /\ [Next]_vars => IInv'
<1>1. ASSUME IInv, NEW c \in Callers, Call(c) PROVE IInv'
  BY <1>1, CallDirectKeeps, CallBlockedKeeps, CallAdmittedKeeps DEF Call
<1>2. ASSUME IInv, NEW c \in Callers, Proceed(c) PROVE IInv'
  BY <1>2, TakePoolKeeps, TakeIpKeeps, TakeSymKeeps, TokenGrantedKeeps, TokenRefusedKeeps,
     PostDoneKeeps, DirectTokenKeeps, DirectPostKeeps DEF Proceed
<1>3. ASSUME IInv, UNCHANGED vars PROVE IInv'
  BY <1>3 DEF vars, semVars, circuitVars, faultVars, IInv, TypeOK, Balanced, HoldingIp, HoldingSym,
              HoldingPool, Counted, TestOf
<1> QED
  BY <1>1, <1>2, <1>3, AcquireTimeoutKeeps, CancelKeeps, CircuitExpiresKeeps DEF Next

-----------------------------------------------------------------------------
(* Theorems                                                                *)

\* The inductive invariant holds in every reachable state, whatever the
\* exchange and the bucket answer and whoever times out or is cancelled.
THEOREM InductiveInvariant ==
    Spec => []IInv
<1> QED
  BY InitIInv, NextIInv, PTL DEF Spec

\* acquire and release are balanced for every number of callers: each
\* semaphore is off by at most one permit per timeout (too many) and per
\* cancelled call (too few).
THEOREM PermitsAreBalanced ==
    Spec => []PermitsAccounted
<1>1. IInv => PermitsAccounted
  BY DEF IInv, Balanced, PermitsAccounted
<1> QED
  BY <1>1, InductiveInvariant, PTL

\* The 429 circuit of every symbol is sound: its half-open test is accounted
\* for and the only one of its period, and closed means below the threshold.
THEOREM CircuitIsSound ==
    Spec => []CircuitSound
<1>1. IInv => CircuitSound
  <2>1. SUFFICES ASSUME IInv PROVE CircuitSound
    OBVIOUS
  <2>2. TestIsUnderWay
    BY <2>1 DEF IInv, TestOf, TestIsUnderWay
  <2>3. ASSUME NEW s \in Symbols PROVE Cardinality(tests[s]) <= HalfOpenTestMax
    <3>1. CASE tests[s] = {}
      <4>1. Cardinality({}) = 0
        BY FS_EmptySet
      <4> QED BY <3>1, <4>1, GatewayAssumption
    <3>2. CASE tests[s] # {}
      <4>1. HalfOpenTestMax > 0 /\ \E c \in Callers : tests[s] = {c}
        BY <2>1, <3>2 DEF IInv, TestOf
      <4>2. PICK c \in Callers : tests[s] = {c}
        BY <4>1
      <4>3. Cardinality(tests[s]) = 1
        BY <4>2, FS_Singleton
      <4> QED BY <4>1, <4>3, GatewayAssumption
    <3> QED BY <3>1, <3>2
  <2>4. \A s \in Symbols : circuit[s] = "closed" => count429[s] < Threshold
    BY <2>1 DEF IInv, Counted
  <2> QED
    BY <2>2, <2>3, <2>4 DEF CircuitSound, TestsPerPeriod
<1> QED
  BY <1>1, InductiveInvariant, PTL
=============================================================================
