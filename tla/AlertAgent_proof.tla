-------------------------- MODULE AlertAgent_proof --------------------------
(***************************************************************************)
(* Proofs about AlertAgent, for any number of events, drainers and keys,   *)
(* every size of a batch and every limit of retries and failures.          *)
(***************************************************************************)
EXTENDS AlertAgent, SequenceTheorems, WellFoundedInduction, TLAPS

-----------------------------------------------------------------------------
(* The inductive invariant                                                 *)

Table == [Ids -> Row \cup {None}]

Has(table, i, status) == table[i] # None /\ table[i].status = status

\* What a drainer has claimed is marked, and claimed by nobody else.
ClaimsMarked(table, drainers) ==
    \A d \in Drainers :
        /\ \A i \in drainers[d].ids : Has(table, i, "sending")
        /\ \A e \in Drainers \ {d} : drainers[d].ids \cap drainers[e].ids = {}

\* The rows behind the memory: criticals in the queue, and each pending
\* warning once in the buffer.
QueueIsCritical(table, q) ==
    /\ q \in Seq(Ids)
    /\ \A n \in 1 .. Len(q) : table[q[n]] # None /\ table[q[n]].sev = "CRITICAL"

BufferIsPending(table, b) ==
    /\ b \in Seq(Ids)
    /\ \A n \in 1 .. Len(b) : Has(table, b[n], "pending") /\ table[b[n]].sev = "WARNING"
    /\ \A m, n \in 1 .. Len(b) : b[m] = b[n] => m = n

\* A pending event of this process is in memory.
LifeInMemory(table, q, b) ==
    \A i \in life : Has(table, i, "pending") =>
        \/ \E n \in 1 .. Len(q) : q[n] = i
        \/ \E n \in 1 .. Len(b) : b[n] = i

\* A process that is down has no memory.
DownIsEmpty == ~up => life = {} /\ queue = <<>> /\ buffer = <<>>

\* What of the memory and of the claims is right with a table.
Agrees(table, drainers, q, b) ==
    /\ table \in Table /\ drainers \in [Drainers -> Drainer] /\ life \subseteq Ids
    /\ ClaimsMarked(table, drainers) /\ QueueIsCritical(table, q)
    /\ BufferIsPending(table, b) /\ LifeInMemory(table, q, b)

IInv == TypeOK /\ Agrees(row, drain, queue, buffer) /\ DownIsEmpty

-----------------------------------------------------------------------------
(* Operators                                                               *)

\* A nonempty set of naturals has its Min.
LEMMA MinOfNats ==
    ASSUME NEW S \in SUBSET Nat, S # {}
    PROVE  Min(S) \in S /\ \A x \in S : Min(S) <= x
<1> DEFINE R == OpToRel(<, Nat)
<1>1. \A x, y \in Nat : y < x => <<y, x>> \in R
  BY DEF OpToRel
<1>2. IsWellFoundedOn(R, Nat)
  BY NatLessThanWellFounded
<1> HIDE DEF R
<1>3. PICK x \in S : \A y \in S : <<y, x>> \notin R
  BY <1>2, WFMin
<1>4. ASSUME NEW y \in S PROVE x <= y
  <2>1. x \in Nat /\ y \in Nat /\ ~(y < x)
    BY <1>1, <1>3
  <2> QED
    BY <2>1
<1> QED
  BY <1>3, <1>4 DEF Min

LEMMA MinOfTwo ==
    ASSUME NEW a \in Nat, NEW b \in Nat
    PROVE  Min({a, b}) = IF a <= b THEN a ELSE b
<1>1. Min({a, b}) \in {a, b} /\ \A x \in {a, b} : Min({a, b}) <= x
  BY MinOfNats
<1> QED
  BY <1>1

\* What is left of a sequence when its first k elements are taken.
LEMMA Dropped ==
    ASSUME NEW S, NEW s \in Seq(S), NEW k \in 0 .. Len(s)
    PROVE  /\ SubSeq(s, k + 1, Len(s)) \in Seq(S)
           /\ Len(SubSeq(s, k + 1, Len(s))) = Len(s) - k
           /\ \A n \in 1 .. Len(s) - k : SubSeq(s, k + 1, Len(s))[n] = s[k + n]
<1>1. Len(s) \in Nat /\ \A n \in k + 1 .. Len(s) : s[n] \in S
  BY ElementOfSeq, LenProperties
<1>2. /\ SubSeq(s, k + 1, Len(s)) \in Seq(S)
      /\ Len(SubSeq(s, k + 1, Len(s)))
            = IF k + 1 <= Len(s) THEN Len(s) - (k + 1) + 1 ELSE 0
      /\ \A n \in 1 .. Len(s) - (k + 1) + 1 :
            SubSeq(s, k + 1, Len(s))[n] = s[k + 1 + n - 1]
  BY <1>1, SubSeqProperties
<1> QED
  BY <1>1, <1>2

\* _optimistic_sending and the updates of a status change nothing else.
LEMMA MarkedValue ==
    ASSUME NEW table \in Table, NEW S \in SUBSET Ids, \A i \in S : table[i] # None,
           NEW status \in {"pending", "sending"} \cup Final
    PROVE  /\ Marked(table, S, status) \in Table
           /\ \A i \in Ids \ S : Marked(table, S, status)[i] = table[i]
           /\ \A i \in S : /\ Marked(table, S, status)[i] # None
                           /\ Marked(table, S, status)[i].status = status
                           /\ Marked(table, S, status)[i].sev = table[i].sev
<1> USE AlertAssumption
<1>1. \A i \in S : [table[i] EXCEPT !.status = status] \in Row
  BY DEF Table, Row
<1>2. Marked(table, S, status) \in Table
  BY <1>1 DEF Table, Marked
<1>3. \A i \in S : /\ [table[i] EXCEPT !.status = status] # None
                   /\ [table[i] EXCEPT !.status = status].status = status
                   /\ [table[i] EXCEPT !.status = status].sev = table[i].sev
  BY <1>1 DEF Table, Row
<1> QED
  BY <1>2, <1>3 DEF Marked

LEMMA StatusIs ==
    ASSUME NEW i, NEW s \in {"pending", "sending"} \cup Final
    PROVE  Status(i) = s <=> Has(row, i, s)
BY DEF Status, Has, Final

-----------------------------------------------------------------------------
(* A drainer that claims rows or stops                                     *)

\* Drainer d has no claims any more.
Freed(d) == [drain EXCEPT ![d] = Idle]

\* Drainer d holds S.
With(d, pc, S, left) == [drain EXCEPT ![d] = [pc |-> pc, ids |-> S, left |-> left]]

\* S, pending, is taken: queue and buffer lose what is in S, the queue also
\* what is no longer pending.
Takes(table, S, q, b, q1, b1) ==
    /\ S \in SUBSET Ids /\ \A i \in S : Has(table, i, "pending")
    /\ q1 \in Seq(Ids) /\ b1 \in Seq(Ids)
    /\ \A n \in 1 .. Len(q1) : \E m \in 1 .. Len(q) : q1[n] = q[m]
    /\ \A n \in 1 .. Len(b1) : b1[n] \notin S /\ \E m \in 1 .. Len(b) : b1[n] = b[m]
    /\ \A m, n \in 1 .. Len(b1) : b1[m] = b1[n] => m = n
    /\ \A n \in 1 .. Len(q) : Has(table, q[n], "pending") =>
          q[n] \in S \/ \E m \in 1 .. Len(q1) : q1[m] = q[n]
    /\ \A n \in 1 .. Len(b) : b[n] \in S \/ \E m \in 1 .. Len(b1) : b1[m] = b[n]

\* Pending rows are claimed: no other drainer has them, and what is still
\* pending is still in memory.
LEMMA ClaimAgrees ==
    ASSUME NEW table, NEW q, NEW b, NEW q1, NEW b1, NEW d \in Drainers,
           drain \in [Drainers -> Drainer], Agrees(table, Freed(d), q, b),
           NEW S, Takes(table, S, q, b, q1, b1), NEW pc \in {"send", "batch", "test"}
    PROVE  Agrees(Marked(table, S, "sending"), With(d, pc, S, RetryMax), q1, b1)
<1> DEFINE new == Marked(table, S, "sending")
           dr == With(d, pc, S, RetryMax)
<1> USE DEF Takes
<1>1. /\ table \in Table /\ drain \in [Drainers -> Drainer]
      /\ \A e \in Drainers : e # d => Freed(d)[e] = drain[e]
  BY DEF Agrees, Freed
<1>2. /\ new \in Table /\ \A i \in Ids \ S : new[i] = table[i]
      /\ \A i \in S : new[i] # None /\ new[i].status = "sending" /\ new[i].sev = table[i].sev
  <2>1. \A i \in S : table[i] # None
    BY DEF Has
  <2>2. "sending" \in {"pending", "sending"} \cup Final
    OBVIOUS
  <2>3. /\ Marked(table, S, "sending") \in Table
        /\ \A i \in Ids \ S : Marked(table, S, "sending")[i] = table[i]
        /\ \A i \in S : /\ Marked(table, S, "sending")[i] # None
                        /\ Marked(table, S, "sending")[i].status = "sending"
                        /\ Marked(table, S, "sending")[i].sev = table[i].sev
    BY <1>1, <2>1, <2>2, MarkedValue, ZenonT(60)
  <2> QED
    BY <2>3
<1>3. dr \in [Drainers -> Drainer]
  <2>1. [pc |-> pc, ids |-> S, left |-> RetryMax] \in Drainer
    BY AlertAssumption DEF Drainer
  <2> QED
    BY <1>1, <2>1 DEF With
<1>4. \A e \in Drainers : dr[e].ids = IF e = d THEN S ELSE drain[e].ids
  BY <1>1 DEF With
<1>5. \A e \in Drainers : drain[e].ids \subseteq Ids
  BY <1>1 DEF Drainer
<1> HIDE DEF new, dr
<1>6. ClaimsMarked(new, dr)
  <2>1. \A e \in Drainers \ {d} :
            \A i \in drain[e].ids : Has(table, i, "sending") /\ i \notin S
    BY <1>1 DEF Agrees, ClaimsMarked, Has
  <2>2. \A e, f \in Drainers \ {d} : e # f => drain[e].ids \cap drain[f].ids = {}
    BY <1>1 DEF Agrees, ClaimsMarked
  <2>3. \A e \in Drainers : \A i \in dr[e].ids : Has(new, i, "sending")
    <3>1. \A i \in dr[d].ids : Has(new, i, "sending")
      BY <1>2, <1>4 DEF Has
    <3>2. ASSUME NEW e \in Drainers \ {d}, NEW i \in dr[e].ids PROVE Has(new, i, "sending")
      <4>1. i \in Ids \ S /\ Has(table, i, "sending")
        BY <1>4, <1>5, <2>1
      <4> QED
        BY <1>2, <4>1 DEF Has
    <3> QED
      BY <3>1, <3>2
  <2>4. \A e, f \in Drainers : e # f => dr[e].ids \cap dr[f].ids = {}
    BY <1>4, <2>1, <2>2
  <2> QED
    BY <2>3, <2>4 DEF ClaimsMarked
<1>7. QueueIsCritical(new, q1)
  <2>1. SUFFICES ASSUME NEW n \in 1 .. Len(q1)
                 PROVE  new[q1[n]] # None /\ new[q1[n]].sev = "CRITICAL"
    BY DEF QueueIsCritical
  <2>2. q1[n] \in Ids
    BY ElementOfSeq
  <2>3. table[q1[n]] # None /\ table[q1[n]].sev = "CRITICAL"
    BY DEF Agrees, QueueIsCritical
  <2> QED
    BY <1>2, <2>2, <2>3
<1>8. BufferIsPending(new, b1)
  <2>1. SUFFICES ASSUME NEW n \in 1 .. Len(b1)
                 PROVE  Has(new, b1[n], "pending") /\ new[b1[n]].sev = "WARNING"
    BY DEF BufferIsPending
  <2>2. b1[n] \in Ids \ S
    BY ElementOfSeq
  <2>3. PICK m \in 1 .. Len(b) : b1[n] = b[m]
    OBVIOUS
  <2>4. Has(table, b1[n], "pending") /\ table[b1[n]].sev = "WARNING"
    BY <2>3 DEF Agrees, BufferIsPending
  <2> QED
    BY <1>2, <2>2, <2>4 DEF Has
<1>9. LifeInMemory(new, q1, b1)
  <2>1. SUFFICES ASSUME NEW i \in life, Has(new, i, "pending")
                 PROVE  \/ \E n \in 1 .. Len(q1) : q1[n] = i
                        \/ \E n \in 1 .. Len(b1) : b1[n] = i
    BY DEF LifeInMemory
  <2>2. i \notin S
    BY <1>2, <2>1 DEF Has
  <2>3. Has(table, i, "pending")
    BY <1>2, <2>1, <2>2 DEF Has, Agrees
  <2>4. \/ \E n \in 1 .. Len(q) : q[n] = i
        \/ \E n \in 1 .. Len(b) : b[n] = i
    BY <2>3 DEF Agrees, LifeInMemory
  <2> QED
    BY <2>2, <2>3, <2>4, ZenonT(60)
<1> QED
  BY <1>2, <1>3, <1>6, <1>7, <1>8, <1>9 DEF Agrees, new, dr
\* Nothing is claimed: the queue may lose what is no longer pending.
LEMMA IdleAgrees ==
    ASSUME NEW table, NEW q, NEW b, NEW q1, NEW d \in Drainers,
           Agrees(table, Freed(d), q, b), q1 \in Seq(Ids),
           \A n \in 1 .. Len(q1) : \E m \in 1 .. Len(q) : q1[n] = q[m],
           \A n \in 1 .. Len(q) : Has(table, q[n], "pending") =>
                \E m \in 1 .. Len(q1) : q1[m] = q[n]
    PROVE  Agrees(table, Freed(d), q1, b)
<1>1. QueueIsCritical(table, q1)
  BY DEF Agrees, QueueIsCritical
<1>2. LifeInMemory(table, q1, b)
  <2>1. SUFFICES ASSUME NEW i \in life, Has(table, i, "pending")
                 PROVE  \/ \E n \in 1 .. Len(q1) : q1[n] = i
                        \/ \E n \in 1 .. Len(b) : b[n] = i
    BY DEF LifeInMemory
  <2>2. \/ \E n \in 1 .. Len(q) : q[n] = i
        \/ \E n \in 1 .. Len(b) : b[n] = i
    BY <2>1 DEF Agrees, LifeInMemory
  <2> QED
    BY <2>1, <2>2
<1> QED
  BY <1>1, <1>2 DEF Agrees

\* Nobody else has what d claimed, so freeing d keeps the rest.
LEMMA FreedAgrees ==
    ASSUME NEW table, NEW q, NEW b, NEW d \in Drainers, Agrees(table, drain, q, b)
    PROVE  Agrees(table, Freed(d), q, b)
<1>1. drain \in [Drainers -> Drainer] /\ Idle \in Drainer /\ Idle.ids = {}
  BY AlertAssumption DEF Agrees, Idle, Drainer
<1> HIDE DEF Idle
<1>2. /\ Freed(d) \in [Drainers -> Drainer]
      /\ \A e \in Drainers : Freed(d)[e] = IF e = d THEN Idle ELSE drain[e]
  BY <1>1 DEF Freed
<1>3. ClaimsMarked(table, Freed(d))
  BY <1>1, <1>2 DEF Agrees, ClaimsMarked
<1> QED
  BY <1>2, <1>3 DEF Agrees

\* The warnings that stay buffered are those after the first BatchSize.
LEMMA RestValue ==
    ASSUME buffer \in Seq(Ids)
    PROVE  /\ Rest \in Seq(Ids) /\ Len(Rest) \in Nat
           /\ Len(Rest) = IF BatchSize <= Len(buffer) THEN Len(buffer) - BatchSize ELSE 0
           /\ \A n \in 1 .. Len(Rest) : Rest[n] = buffer[BatchSize + n]
<1>1. BatchSize \in Nat /\ Len(buffer) \in Nat
  BY AlertAssumption, LenProperties
<1>2. CASE BatchSize <= Len(buffer)
  <2>1. BatchSize \in 0 .. Len(buffer)
    BY <1>1, <1>2
  <2>2. /\ Rest \in Seq(Ids) /\ Len(Rest) = Len(buffer) - BatchSize
        /\ \A n \in 1 .. Len(buffer) - BatchSize : Rest[n] = buffer[BatchSize + n]
    BY <2>1, Dropped DEF Rest
  <2> QED
    BY <1>1, <1>2, <2>2
<1>3. CASE ~(BatchSize <= Len(buffer))
  <2>1. Rest = <<>>
    BY <1>1, <1>3, SubSeqEmpty DEF Rest
  <2> QED
    BY <1>3, <2>1, EmptySeq
<1> QED
  BY <1>2, <1>3

BatchOK(mark, b) == mark \in {"none", "fresh", "due"} /\ (mark = "none" <=> b = <<>>)

\* _flush_warning_batch: the first BatchSize warnings are claimed, the others
\* stay.
LEMMA FlushAgrees ==
    ASSUME NEW table, NEW q, NEW d \in Drainers, drain \in [Drainers -> Drainer],
           Agrees(table, Freed(d), q, buffer), q = <<>>, FlushBatch(d, table)
    PROVE  /\ Agrees(row', drain', q, buffer') /\ BatchOK(batch', buffer')
           /\ \A i \in Ids : ~Has(table, i, "pending") => row'[i] = table[i]
<1> DEFINE taken == Min({BatchSize, Len(buffer)})
           F == {buffer[n] : n \in 1 .. taken}
<1>1. /\ buffer \in Seq(Ids) /\ Len(buffer) \in Nat /\ BatchSize \in Nat \ {0}
      /\ \A n \in 1 .. Len(buffer) : Has(table, buffer[n], "pending") /\ buffer[n] \in Ids
      /\ \A m, n \in 1 .. Len(buffer) : buffer[m] = buffer[n] => m = n
  BY AlertAssumption, LenProperties, ElementOfSeq DEF Agrees, BufferIsPending
<1>2. /\ taken \in Nat /\ taken <= BatchSize /\ taken <= Len(buffer)
      /\ taken = BatchSize \/ taken = Len(buffer)
  <2>1. taken = IF BatchSize <= Len(buffer) THEN BatchSize ELSE Len(buffer)
    BY <1>1, MinOfTwo
  <2> HIDE DEF taken
  <2>2. BatchSize \in Nat /\ Len(buffer) \in Nat
    BY <1>1
  <2> QED
    BY <2>1, <2>2
<1>3. FlushBatch(d, table) =
         /\ buffer' = Rest
         /\ batch' = IF Rest = <<>> THEN "none" ELSE "fresh"
         /\ IF Claimable(table, F) = {} THEN GoIdle(d, table)
            ELSE StartSend(d, "batch", table, Claimable(table, F))
  BY DEF FlushBatch
<1> HIDE DEF taken
<1>4. F \in SUBSET Ids /\ \A i \in F : Has(table, i, "pending")
  BY <1>1, <1>2
<1>5. Claimable(table, F) = F
  BY <1>4 DEF Claimable, Has
<1>6. /\ buffer' = Rest /\ BatchOK(batch', buffer')
      /\ IF F = {} THEN GoIdle(d, table) ELSE StartSend(d, "batch", table, F)
  BY <1>5, <1>3 DEF BatchOK
<1>7. /\ Rest \in Seq(Ids) /\ Len(Rest) \in Nat
      /\ \A n \in 1 .. Len(Rest) : Rest[n] = buffer[BatchSize + n]
                                 /\ BatchSize + n \in 1 .. Len(buffer)
      /\ \A k \in 1 .. Len(buffer) : k > BatchSize =>
            k - BatchSize \in 1 .. Len(Rest) /\ Rest[k - BatchSize] = buffer[k]
  BY <1>1, RestValue
<1>8. /\ \A i \in F : \E n \in 1 .. Len(buffer) : n <= BatchSize /\ i = buffer[n]
      /\ \A n \in 1 .. Len(buffer) : n <= BatchSize => buffer[n] \in F
  BY <1>1, <1>2
<1> HIDE DEF F
<1>9. CASE F # {}
  <2>1. \A n \in 1 .. Len(Rest) : Rest[n] \notin F
    <3>1. SUFFICES ASSUME NEW n \in 1 .. Len(Rest), NEW m \in 1 .. Len(buffer),
                          m <= BatchSize, Rest[n] = buffer[m]
                   PROVE  FALSE
      BY <1>8
    <3>2. BatchSize + n \in 1 .. Len(buffer) /\ buffer[BatchSize + n] = buffer[m]
      BY <1>7, <3>1
    <3>3. BatchSize + n = m
      BY <1>1, <3>2
    <3> QED
      BY <1>1, <1>7, <3>1, <3>3
  <2>2. \A n \in 1 .. Len(Rest) : \E m \in 1 .. Len(buffer) : Rest[n] = buffer[m]
    BY <1>7
  <2>3. \A m, n \in 1 .. Len(Rest) : Rest[m] = Rest[n] => m = n
    <3>1. SUFFICES ASSUME NEW m \in 1 .. Len(Rest), NEW n \in 1 .. Len(Rest), Rest[m] = Rest[n]
                   PROVE  m = n
      OBVIOUS
    <3>2. BatchSize + m = BatchSize + n
      BY <1>1, <1>7, <3>1
    <3> QED
      BY <1>1, <1>7, <3>2
  <2>4. \A n \in 1 .. Len(buffer) : buffer[n] \in F \/ \E m \in 1 .. Len(Rest) : Rest[m] = buffer[n]
    <3>1. SUFFICES ASSUME NEW n \in 1 .. Len(buffer), n > BatchSize
                   PROVE  \E m \in 1 .. Len(Rest) : Rest[m] = buffer[n]
      BY <1>1, <1>8
    <3> QED
      BY <1>7, <3>1
  <2>5. /\ q \in Seq(Ids) /\ Len(q) = 0
        /\ \A n \in 1 .. Len(q) : \E m \in 1 .. Len(q) : q[n] = q[m]
        /\ \A n \in 1 .. Len(q) : Has(table, q[n], "pending") =>
               q[n] \in F \/ \E m \in 1 .. Len(q) : q[m] = q[n]
    BY EmptySeq
  <2>6. \A n \in 1 .. Len(Rest) : Rest[n] \notin F /\ \E m \in 1 .. Len(buffer) : Rest[n] = buffer[m]
    BY <2>1, <2>2
  <2>7. Agrees(Marked(table, F, "sending"), With(d, "batch", F, RetryMax), q, Rest)
    <3>1. Takes(table, F, q, buffer, q, Rest)
      BY <1>4, <1>7, <2>6, <2>3, <2>4, <2>5 DEF Takes
    <3> QED
      BY <3>1, ClaimAgrees
  <2>8. \A i \in Ids : ~Has(table, i, "pending") => row'[i] = table[i]
    BY <1>4, <1>6, <1>9 DEF StartSend, Marked
  <2> QED
    BY <1>6, <1>9, <2>7, <2>8 DEF StartSend, With
<1>10. CASE F = {}
  <2>1. Len(buffer) = 0
    <3>1. 1 \notin 1 .. Len(buffer)
      BY <1>1, <1>10, <1>8
    <3> QED
      BY <1>1, <3>1
  <2>2. Len(Rest) = 0
    BY <1>7, <2>1
  <2>3. buffer = <<>> /\ Rest = <<>>
    BY <1>1, <1>7, <2>1, <2>2, EmptySeq
  <2> QED
    BY <1>6, <1>10, <2>3 DEF GoIdle, Freed
<1> QED
  BY <1>6, <1>9, <1>10

\* The loop over the queue: what is dropped is not pending, and the next
\* pending one is claimed.
LEMMA GoOnAgrees ==
    ASSUME NEW table, NEW d \in Drainers, drain \in [Drainers -> Drainer],
           Agrees(table, Freed(d), queue, buffer), BatchOK(batch, buffer), GoOn(d, table)
    PROVE  /\ Agrees(row', drain', queue', buffer') /\ BatchOK(batch', buffer')
           /\ \A i \in Ids : ~Has(table, i, "pending") => row'[i] = table[i]
<1> DEFINE ready == {n \in DOMAIN queue : Claimable(table, {queue[n]}) # {}}
<1>1. /\ queue \in Seq(Ids) /\ Len(queue) \in Nat /\ DOMAIN queue = 1 .. Len(queue)
      /\ \A n \in 1 .. Len(queue) : table[queue[n]] # None /\ queue[n] \in Ids
      /\ \A n \in 1 .. Len(queue) : table[queue[n]].sev = "CRITICAL"
  BY LenProperties, ElementOfSeq DEF Agrees, QueueIsCritical
<1>2. ready = {n \in 1 .. Len(queue) : Has(table, queue[n], "pending")}
  BY <1>1 DEF Claimable, Has
<1>3. \/ /\ ready # {}
         /\ queue' = SubSeq(queue, Min(ready) + 1, Len(queue))
         /\ StartSend(d, "send", table, {queue[Min(ready)]})
         /\ UNCHANGED <<buffer, batch>>
      \/ /\ ready = {} /\ queue' = <<>>
         /\ IF BatchReady THEN FlushBatch(d, table)
            ELSE GoIdle(d, table) /\ UNCHANGED <<buffer, batch>>
  BY DEF GoOn
<1> HIDE DEF ready
<1>4. CASE ready # {}
  <2> DEFINE k == Min(ready)
             S == {queue[k]}
             q1 == SubSeq(queue, k + 1, Len(queue))
  <2>1. k \in ready /\ \A n \in ready : k <= n
    <3>1. ready \in SUBSET Nat
      BY <1>2
    <3> QED
      BY <1>4, <3>1, MinOfNats
  <2>2. k \in 1 .. Len(queue) /\ Has(table, queue[k], "pending") /\ k \in 0 .. Len(queue)
    BY <1>1, <1>2, <2>1
  <2>3. /\ q1 \in Seq(Ids) /\ Len(q1) = Len(queue) - k
        /\ \A n \in 1 .. Len(queue) - k : q1[n] = queue[k + n]
    BY <1>1, <2>2, Dropped
  <2>4. queue' = q1 /\ StartSend(d, "send", table, S) /\ UNCHANGED <<buffer, batch>>
    BY <1>3, <1>4
  <2> HIDE DEF k, q1
  <2>5. S \in SUBSET Ids /\ \A i \in S : Has(table, i, "pending")
    BY <1>1, <2>2
  <2>6. \A n \in 1 .. Len(q1) : \E m \in 1 .. Len(queue) : q1[n] = queue[m]
    BY <1>1, <2>2, <2>3
  <2>7. \A n \in 1 .. Len(queue) : Has(table, queue[n], "pending") =>
            queue[n] \in S \/ \E m \in 1 .. Len(q1) : q1[m] = queue[n]
    <3>1. SUFFICES ASSUME NEW n \in 1 .. Len(queue), Has(table, queue[n], "pending"), n # k
                   PROVE  \E m \in 1 .. Len(q1) : q1[m] = queue[n]
      OBVIOUS
    <3>2. n - k \in 1 .. Len(queue) - k /\ k + (n - k) = n
      BY <1>1, <1>2, <2>1, <2>2, <3>1
    <3>3. q1[n - k] = queue[n] /\ n - k \in 1 .. Len(q1)
      BY <2>3, <3>2
    <3> QED
      BY <3>3
  <2>8. /\ buffer \in Seq(Ids)
        /\ \A n \in 1 .. Len(buffer) : buffer[n] \notin S
        /\ \A m, n \in 1 .. Len(buffer) : buffer[m] = buffer[n] => m = n
    <3>1. "WARNING" # "CRITICAL"
      OBVIOUS
    <3> QED
      BY <1>1, <2>2, <3>1 DEF Agrees, BufferIsPending
  <2> HIDE DEF S
  <2>9. Agrees(Marked(table, S, "sending"), With(d, "send", S, RetryMax), q1, buffer)
    <3>1. Takes(table, S, queue, buffer, q1, buffer)
      BY <2>3, <2>5, <2>6, <2>7, <2>8 DEF Takes
    <3> QED
      BY <3>1, ClaimAgrees
  <2>10. \A i \in Ids : ~Has(table, i, "pending") => row'[i] = table[i]
    BY <2>4, <2>5 DEF StartSend, Marked
  <2> QED
    BY <2>4, <2>9, <2>10 DEF StartSend, With, BatchOK
<1>5. CASE ready = {}
  <2>1. \A n \in 1 .. Len(queue) : ~Has(table, queue[n], "pending")
    BY <1>2, <1>5
  <2>2. Agrees(table, Freed(d), <<>>, buffer)
    <3>1. <<>> \in Seq(Ids) /\ Len(<<>>) = 0
      BY EmptySeq
    <3>2. \A n \in 1 .. Len(<<>>) : \E m \in 1 .. Len(queue) : (<<>>)[n] = queue[m]
      BY <3>1
    <3> QED
      BY <2>1, <3>1, <3>2, IdleAgrees
  <2>3. queue' = <<>>
    BY <1>3, <1>5
  <2>4. CASE BatchReady
    BY <1>3, <1>5, <2>2, <2>3, <2>4, FlushAgrees
  <2>5. CASE ~BatchReady
    BY <1>3, <1>5, <2>2, <2>3, <2>5 DEF GoIdle, Freed, BatchOK
  <2> QED
    BY <2>4, <2>5
<1> QED
  BY <1>4, <1>5

-----------------------------------------------------------------------------
(* Steps                                                                   *)

\* The rest of the type.
OthersOK ==
    /\ up \in BOOLEAN /\ openOver \in BOOLEAN
    /\ dedup \in [Keys -> Ids \cup {None}] /\ count \in [Ids -> 0 .. MaxCount]
    /\ breaker \in {"closed", "open", "half_open"} /\ fails \in 0 .. FailThreshold

\* What is final keeps its row, and what is sent keeps its count.
Fixed ==
    \A i \in Ids :
        /\ Status(i) \in Final => row'[i] = row[i]
        /\ Status(i) \in Final \cup {"sending"} => count'[i] = count[i]

LEMMA TypeParts == TypeOK => OthersOK /\ BatchOK(batch, buffer)
BY DEF TypeOK, OthersOK, BatchOK

LEMMA IInvParts ==
    ASSUME OthersOK', BatchOK(batch', buffer'), DownIsEmpty',
           Agrees(row, drain, queue, buffer)'
    PROVE  IInv'
BY DEF OthersOK, BatchOK, Agrees, QueueIsCritical, BufferIsPending, Table, IInv, TypeOK

LEMMA InitIInv == Init => IInv
<1> SUFFICES ASSUME Init PROVE IInv
  OBVIOUS
<1> USE AlertAssumption DEF Init
<1>1. OthersOK
  <2>1. up \in BOOLEAN /\ openOver \in BOOLEAN
    BY Zenon
  <2>2. /\ dedup \in [Keys -> Ids \cup {None}] /\ count \in [Ids -> 0 .. MaxCount]
        /\ breaker \in {"closed", "open", "half_open"} /\ fails \in 0 .. FailThreshold
    OBVIOUS
  <2> QED
    BY <2>1, <2>2 DEF OthersOK
<1>2. Agrees(row, drain, queue, buffer)
  <2>1. drain \in [Drainers -> Drainer] /\ \A d \in Drainers : drain[d].ids = {}
    BY DEF Idle, Drainer
  <2>2. row \in Table
    BY DEF Table
  <2>3. <<>> \in Seq(Ids) /\ Len(<<>>) = 0
    BY EmptySeq
  <2> QED
    BY <2>1, <2>2, <2>3
       DEF Agrees, ClaimsMarked, QueueIsCritical, BufferIsPending, LifeInMemory
<1>3. DownIsEmpty /\ BatchOK(batch, buffer)
  BY DEF DownIsEmpty, BatchOK
<1> QED
  BY <1>1, <1>2, <1>3 DEF IInv, TypeOK, OthersOK, BatchOK, Agrees, QueueIsCritical,
     BufferIsPending, Table

\* The row of an event is new, so no memory names it yet.
LEMMA InsertValue ==
    ASSUME IInv, NEW i \in Ids, NEW sev \in Severities, Insert(i, sev)
    PROVE  /\ row' \in Table /\ life' = life \cup {i} /\ life' \subseteq Ids
           /\ row[i] = None /\ row'[i] # None /\ row'[i].sev = sev
           /\ row'[i].status = IF sev = "INFO" THEN "delivered" ELSE "pending"
           /\ \A j \in Ids : j # i => row'[j] = row[j]
           /\ \A n \in 1 .. Len(queue) : queue[n] \in Ids /\ queue[n] # i
           /\ \A n \in 1 .. Len(buffer) : buffer[n] \in Ids /\ buffer[n] # i
           /\ ClaimsMarked(row', drain) /\ QueueIsCritical(row', queue)
           /\ BufferIsPending(row', buffer)
<1> DEFINE r == [sev |-> sev, status |-> IF sev = "INFO" THEN "delivered" ELSE "pending"]
<1>1. Agrees(row, drain, queue, buffer)
  BY DEF IInv
<1>2. i \in Int /\ row[i] = None
  BY AlertAssumption DEF Insert, Ids
<1>3. /\ r \in Row /\ r # None /\ r.sev = sev
      /\ r.status = IF sev = "INFO" THEN "delivered" ELSE "pending"
  BY AlertAssumption DEF Row, Final
<1>4. row' = [row EXCEPT ![i] = r] /\ life' = life \cup {i}
  BY DEF Insert
<1> HIDE DEF r
<1>5. row' \in Table /\ row'[i] = r /\ \A j \in Ids : j # i => row'[j] = row[j]
  BY <1>1, <1>3, <1>4 DEF Agrees, Table
<1>6. \A n \in 1 .. Len(queue) : queue[n] \in Ids /\ queue[n] # i
  BY <1>1, <1>2, ElementOfSeq DEF Agrees, QueueIsCritical
<1>7. \A n \in 1 .. Len(buffer) : buffer[n] \in Ids /\ buffer[n] # i
  BY <1>1, <1>2, ElementOfSeq DEF Agrees, BufferIsPending, Has
<1>8. ClaimsMarked(row', drain)
  <2>1. \A d \in Drainers : drain[d].ids \subseteq Ids
    BY <1>1 DEF Agrees, Drainer
  <2>2. ASSUME NEW d \in Drainers, NEW j \in drain[d].ids PROVE Has(row', j, "sending")
    <3>1. Has(row, j, "sending") /\ j \in Ids /\ j # i
      BY <1>1, <1>2, <2>1 DEF Agrees, ClaimsMarked, Has
    <3> QED
      BY <1>5, <3>1 DEF Has
  <2>3. \A d \in Drainers : \A e \in Drainers \ {d} : drain[d].ids \cap drain[e].ids = {}
    BY <1>1 DEF Agrees, ClaimsMarked
  <2> QED
    BY <2>2, <2>3 DEF ClaimsMarked
<1>9. QueueIsCritical(row', queue)
  BY <1>1, <1>5, <1>6 DEF Agrees, QueueIsCritical
<1>10. BufferIsPending(row', buffer)
  BY <1>1, <1>5, <1>7 DEF Agrees, BufferIsPending, Has
<1> QED
  BY <1>1, <1>2, <1>3, <1>4, <1>5, <1>6, <1>7, <1>8, <1>9, <1>10 DEF Agrees

LEMMA InsertFixes ==
    ASSUME IInv, NEW i \in Ids, NEW sev \in Severities, Insert(i, sev),
           \A j \in Ids : j # i => count'[j] = count[j]
    PROVE  Fixed
<1>1. row[i] = None /\ \A j \in Ids : j # i => row'[j] = row[j]
  BY InsertValue
<1>2. Status(i) = "absent"
  BY <1>1 DEF Status
<1> QED
  BY <1>1, <1>2 DEF Fixed, Final

\* An INFO event is delivered at once and needs no memory.
LEMMA EmitInfoKeeps == ASSUME IInv, NEW i \in Ids, EmitInfo(i) PROVE IInv' /\ Fixed
<1>1. /\ up /\ Insert(i, "INFO") /\ "INFO" \in Severities
      /\ UNCHANGED <<up, queue, buffer, batch, dedup, count, breaker, openOver, fails, drain>>
  BY DEF EmitInfo, Severities, memVars, breakVars
<1>2. /\ row' \in Table /\ life' = life \cup {i} /\ life' \subseteq Ids
      /\ row'[i].status = "delivered" /\ \A j \in Ids : j # i => row'[j] = row[j]
      /\ ClaimsMarked(row', drain) /\ QueueIsCritical(row', queue)
      /\ BufferIsPending(row', buffer)
  BY <1>1, InsertValue
<1>3. OthersOK' /\ BatchOK(batch', buffer')
  BY <1>1, TypeParts DEF IInv, OthersOK, BatchOK
<1>4. LifeInMemory(row, queue, buffer)'
  BY <1>1, <1>2 DEF IInv, Agrees, LifeInMemory, Has
<1>5. Agrees(row, drain, queue, buffer)'
  BY <1>1, <1>2, <1>4 DEF IInv, Agrees, ClaimsMarked, QueueIsCritical, BufferIsPending, Has
<1>6. DownIsEmpty'
  BY <1>1 DEF DownIsEmpty
<1>7. Fixed
  BY <1>1, InsertFixes
<1> QED
  BY <1>3, <1>5, <1>6, <1>7, IInvParts

\* A critical event joins the queue.
LEMMA EmitCriticalKeeps ==
    ASSUME IInv, NEW i \in Ids, EmitCritical(i) PROVE IInv' /\ Fixed
<1>1. /\ up /\ Insert(i, "CRITICAL") /\ "CRITICAL" \in Severities
      /\ queue' = Append(queue, i)
      /\ UNCHANGED <<up, buffer, batch, dedup, count, breaker, openOver, fails, drain>>
  BY DEF EmitCritical, Severities, breakVars
<1>2. /\ row' \in Table /\ life' = life \cup {i} /\ life' \subseteq Ids
      /\ row'[i] # None /\ row'[i].sev = "CRITICAL" /\ row'[i].status = "pending"
      /\ \A j \in Ids : j # i => row'[j] = row[j]
      /\ ClaimsMarked(row', drain) /\ QueueIsCritical(row', queue)
      /\ BufferIsPending(row', buffer)
  BY <1>1, InsertValue
<1>3. /\ queue \in Seq(Ids) /\ queue' \in Seq(Ids) /\ Len(queue) \in Nat
      /\ Len(queue') = Len(queue) + 1 /\ queue'[Len(queue) + 1] = i
      /\ \A n \in 1 .. Len(queue) : queue'[n] = queue[n]
  BY <1>1, AppendProperties, LenProperties DEF IInv, TypeOK
<1>4. OthersOK' /\ BatchOK(batch', buffer')
  BY <1>1, TypeParts DEF IInv, OthersOK, BatchOK
<1>5. QueueIsCritical(row, queue)'
  <2>1. \A n \in 1 .. Len(queue') : n \in 1 .. Len(queue) \/ n = Len(queue) + 1
    BY <1>3
  <2> QED
    BY <1>2, <1>3, <2>1 DEF QueueIsCritical
<1>6. LifeInMemory(row, queue, buffer)'
  <2>1. SUFFICES ASSUME NEW j \in life', Has(row', j, "pending")
                 PROVE  \/ \E n \in 1 .. Len(queue') : queue'[n] = j
                        \/ \E n \in 1 .. Len(buffer) : buffer[n] = j
    BY <1>1 DEF LifeInMemory, Has
  <2>2. CASE j = i
    BY <1>3, <2>2
  <2>3. CASE j # i
    <3>1. j \in life /\ Has(row, j, "pending")
      BY <1>2, <2>1, <2>3 DEF Has
    <3>2. \/ \E n \in 1 .. Len(queue) : queue[n] = j
          \/ \E n \in 1 .. Len(buffer) : buffer[n] = j
      BY <3>1 DEF IInv, Agrees, LifeInMemory
    <3>3. \A n \in 1 .. Len(queue) : n \in 1 .. Len(queue')
      BY <1>3
    <3> QED
      BY <1>3, <3>2, <3>3
  <2> QED
    BY <2>2, <2>3
<1>7. Agrees(row, drain, queue, buffer)'
  BY <1>1, <1>2, <1>5, <1>6 DEF IInv, Agrees, ClaimsMarked, BufferIsPending, Has
<1>8. DownIsEmpty'
  BY <1>1 DEF DownIsEmpty
<1>9. Fixed
  BY <1>1, InsertFixes
<1> QED
  BY <1>4, <1>7, <1>8, <1>9, IInvParts

\* A warning that no buffered one takes up joins the buffer.
LEMMA EmitWarningKeeps ==
    ASSUME IInv, NEW i \in Ids, NEW k \in Keys, EmitWarning(i, k) PROVE IInv' /\ Fixed
<1>1. /\ up /\ Insert(i, "WARNING") /\ "WARNING" \in Severities
      /\ buffer' = Append(buffer, i) /\ batch' = IF batch = "none" THEN "fresh" ELSE batch
      /\ dedup' = [dedup EXCEPT ![k] = i] /\ count' = [count EXCEPT ![i] = 1]
      /\ UNCHANGED <<up, queue, breaker, openOver, fails, drain>>
  BY DEF EmitWarning, Severities, breakVars
<1>2. /\ row' \in Table /\ life' = life \cup {i} /\ life' \subseteq Ids
      /\ row'[i] # None /\ row'[i].sev = "WARNING" /\ row'[i].status = "pending"
      /\ \A j \in Ids : j # i => row'[j] = row[j]
      /\ \A n \in 1 .. Len(buffer) : buffer[n] \in Ids /\ buffer[n] # i
      /\ ClaimsMarked(row', drain) /\ QueueIsCritical(row', queue)
      /\ BufferIsPending(row', buffer)
  BY <1>1, InsertValue
<1>3. /\ buffer \in Seq(Ids) /\ buffer' \in Seq(Ids) /\ Len(buffer) \in Nat
      /\ buffer' # <<>>
      /\ Len(buffer') = Len(buffer) + 1 /\ buffer'[Len(buffer) + 1] = i
      /\ \A n \in 1 .. Len(buffer) : buffer'[n] = buffer[n]
  BY <1>1, AppendProperties, LenProperties DEF IInv, TypeOK
<1>4. \A n \in 1 .. Len(buffer') : n \in 1 .. Len(buffer) \/ n = Len(buffer) + 1
  BY <1>3
<1>5. count' \in [Ids -> 0 .. MaxCount] /\ \A j \in Ids : j # i => count'[j] = count[j]
  <2>1. 1 \in 0 .. MaxCount /\ count \in [Ids -> 0 .. MaxCount]
    BY AlertAssumption DEF IInv, TypeOK
  <2> QED
    BY <1>1, <2>1
<1>6. OthersOK' /\ BatchOK(batch', buffer')
  BY <1>1, <1>3, <1>5, TypeParts DEF IInv, OthersOK, BatchOK
<1>7. BufferIsPending(row, buffer)'
  <2>1. \A n \in 1 .. Len(buffer') :
            Has(row', buffer'[n], "pending") /\ row'[buffer'[n]].sev = "WARNING"
    BY <1>2, <1>3, <1>4 DEF BufferIsPending, Has
  <2>2. \A m, n \in 1 .. Len(buffer') : buffer'[m] = buffer'[n] => m = n
    BY <1>2, <1>3, <1>4 DEF BufferIsPending
  <2> QED
    BY <1>3, <2>1, <2>2 DEF BufferIsPending, Has
<1>8. LifeInMemory(row, queue, buffer)'
  <2>1. SUFFICES ASSUME NEW j \in life', Has(row', j, "pending")
                 PROVE  \/ \E n \in 1 .. Len(queue) : queue[n] = j
                        \/ \E n \in 1 .. Len(buffer') : buffer'[n] = j
    BY <1>1 DEF LifeInMemory, Has
  <2>2. CASE j = i
    BY <1>3, <2>2
  <2>3. CASE j # i
    <3>1. j \in life /\ Has(row, j, "pending")
      BY <1>2, <2>1, <2>3 DEF Has
    <3>2. \/ \E n \in 1 .. Len(queue) : queue[n] = j
          \/ \E n \in 1 .. Len(buffer) : buffer[n] = j
      BY <3>1 DEF IInv, Agrees, LifeInMemory
    <3>3. \A n \in 1 .. Len(buffer) : n \in 1 .. Len(buffer')
      BY <1>3
    <3> QED
      BY <1>3, <3>2, <3>3
  <2> QED
    BY <2>2, <2>3
<1>9. Agrees(row, drain, queue, buffer)'
  BY <1>1, <1>2, <1>7, <1>8 DEF IInv, Agrees, ClaimsMarked, QueueIsCritical, Has
<1>10. DownIsEmpty'
  BY <1>1 DEF DownIsEmpty
<1>11. Fixed
  BY <1>1, <1>5, InsertFixes
<1> QED
  BY <1>6, <1>9, <1>10, <1>11, IInvParts

\* _try_dedup_merge counts into a warning that is still buffered, so pending.
LEMMA MergeKeeps == ASSUME IInv, NEW k \in Keys, Merge(k) PROVE IInv' /\ Fixed
<1>1. /\ up /\ Contains(buffer, dedup[k]) /\ count[dedup[k]] < MaxCount
      /\ count' = [count EXCEPT ![dedup[k]] = count[dedup[k]] + 1]
      /\ UNCHANGED <<up, row, life, queue, buffer, batch, dedup, breaker, openOver, fails, drain>>
  BY DEF Merge, Mergeable, memVars, breakVars
<1>2. dedup[k] \in Ids /\ Has(row, dedup[k], "pending")
  <2>1. PICK n \in 1 .. Len(buffer) : buffer[n] = dedup[k]
    BY <1>1 DEF Contains
  <2> QED
    BY <2>1, ElementOfSeq DEF IInv, Agrees, BufferIsPending
<1>3. count \in [Ids -> 0 .. MaxCount] /\ MaxCount \in Nat
  BY AlertAssumption DEF IInv, TypeOK
<1>4. /\ count' \in [Ids -> 0 .. MaxCount]
      /\ \A j \in Ids : j # dedup[k] => count'[j] = count[j]
  BY <1>1, <1>2, <1>3
<1>5. OthersOK' /\ BatchOK(batch', buffer')
  BY <1>1, <1>4, TypeParts DEF IInv, OthersOK, BatchOK
<1>6. Agrees(row, drain, queue, buffer)'
  BY <1>1 DEF IInv, Agrees, ClaimsMarked, QueueIsCritical, BufferIsPending, LifeInMemory, Has
<1>7. DownIsEmpty'
  BY <1>1 DEF DownIsEmpty
<1>8. Fixed
  <2>1. Status(dedup[k]) = "pending"
    BY <1>2 DEF Status, Has
  <2> QED
    BY <1>1, <1>4, <2>1 DEF Fixed, Final
<1> QED
  BY <1>5, <1>6, <1>7, <1>8, IInvParts

\* What touches neither the rows nor the memory.
LEMMA QuietKeeps ==
    ASSUME IInv, UNCHANGED <<up, row, life, queue, buffer, count, drain>>,
           OthersOK', BatchOK(batch', buffer')
    PROVE  IInv' /\ Fixed
<1>1. Agrees(row, drain, queue, buffer)'
  BY DEF IInv, Agrees, ClaimsMarked, QueueIsCritical, BufferIsPending, LifeInMemory, Has
<1>2. DownIsEmpty'
  BY DEF DownIsEmpty, IInv
<1>3. Fixed
  BY DEF Fixed
<1> QED
  BY <1>1, <1>2, <1>3, IInvParts

\* Time: a window or the open period is over.
LEMMA ClockKeeps ==
    ASSUME IInv,
           (\E k \in Keys : DedupWindowEnds(k)) \/ BatchWindowEnds \/ OpenPeriodEnds
    PROVE  IInv' /\ Fixed
<1>1. OthersOK /\ BatchOK(batch, buffer)
  BY TypeParts DEF IInv
<1>2. ASSUME NEW k \in Keys, DedupWindowEnds(k) PROVE IInv' /\ Fixed
  <2>1. OthersOK' /\ BatchOK(batch', buffer')
    BY <1>1, <1>2 DEF DedupWindowEnds, breakVars, OthersOK, BatchOK
  <2> QED
    BY <1>2, <2>1, QuietKeeps DEF DedupWindowEnds
<1>3. CASE BatchWindowEnds
  <2>1. OthersOK' /\ BatchOK(batch', buffer')
    BY <1>1, <1>3 DEF BatchWindowEnds, breakVars, OthersOK, BatchOK
  <2> QED
    BY <1>3, <2>1, QuietKeeps DEF BatchWindowEnds
<1>4. CASE OpenPeriodEnds
  <2>1. OthersOK' /\ BatchOK(batch', buffer')
    <3>1. openOver' \in BOOLEAN /\ up' \in BOOLEAN
      BY <1>1, <1>4, Zenon DEF OpenPeriodEnds, OthersOK
    <3> QED
      BY <1>1, <1>4, <3>1 DEF OpenPeriodEnds, memVars, OthersOK, BatchOK
  <2> QED
    BY <1>4, <2>1, QuietKeeps DEF OpenPeriodEnds, memVars
<1> QED
  BY <1>2, <1>3, <1>4

\* _drain_once ends or gives way: its claims and its memory agree with the
\* table that is left.
LEMMA DrainKeeps ==
    ASSUME IInv, up, UNCHANGED <<up, life, count>>, OthersOK', NEW table,
           Agrees(row', drain', queue', buffer'), BatchOK(batch', buffer'),
           \A i \in Ids : ~Has(table, i, "pending") => row'[i] = table[i],
           \A i \in Ids : Status(i) \in Final => table[i] = row[i]
    PROVE  IInv' /\ Fixed
<1>1. Agrees(row, drain, queue, buffer)'
  BY DEF Agrees, ClaimsMarked, QueueIsCritical, BufferIsPending, LifeInMemory, Has
<1>2. DownIsEmpty'
  BY DEF DownIsEmpty
<1>3. Fixed
  <2>1. SUFFICES ASSUME NEW i \in Ids, Status(i) \in Final PROVE row'[i] = row[i]
    BY DEF Fixed
  <2>2. table[i] = row[i] /\ ~Has(row, i, "pending")
    BY <2>1 DEF Status, Has, Final
  <2>3. ~Has(table, i, "pending")
    BY <2>2 DEF Has
  <2> QED
    BY <2>2, <2>3
<1> QED
  BY <1>1, <1>2, <1>3, IInvParts

\* A drain with the breaker closed.
LEMMA DrainClosedKeeps ==
    ASSUME IInv, NEW d \in Drainers, DrainClosed(d) PROVE IInv' /\ Fixed
<1>1. up /\ GoOn(d, row) /\ UNCHANGED <<up, life, dedup, count, breaker, openOver, fails>>
  BY DEF DrainClosed, breakVars
<1>2. drain \in [Drainers -> Drainer] /\ OthersOK /\ BatchOK(batch, buffer)
  BY TypeParts DEF IInv, Agrees
<1>3. Agrees(row, Freed(d), queue, buffer)
  BY FreedAgrees DEF IInv
<1>4. /\ Agrees(row', drain', queue', buffer') /\ BatchOK(batch', buffer')
      /\ \A i \in Ids : ~Has(row, i, "pending") => row'[i] = row[i]
  BY <1>1, <1>2, <1>3, GoOnAgrees
<1>5. OthersOK'
  BY <1>1, <1>2 DEF OthersOK
<1> QED
  BY <1>1, <1>4, <1>5, DrainKeeps

\* _half_open_test claims a critical row, which no warning is.
LEMMA DrainHalfOpenKeeps ==
    ASSUME IInv, NEW d \in Drainers, DrainHalfOpen(d) PROVE IInv' /\ Fixed
<1> DEFINE pending == {i \in Pending : Critical(i)}
<1>1. /\ up /\ UNCHANGED <<up, life, queue, buffer, batch, dedup, count, fails>>
      /\ breaker' = "half_open" /\ openOver' = FALSE
      /\ IF pending = {} THEN UNCHANGED <<row, drain>>
         ELSE StartSend(d, "test", row, {Min(pending)})
  BY DEF DrainHalfOpen, memVars
<1>2. drain \in [Drainers -> Drainer] /\ OthersOK /\ BatchOK(batch, buffer)
  BY TypeParts DEF IInv, Agrees
<1>3. OthersOK'
  <2>1. openOver' \in BOOLEAN /\ up' \in BOOLEAN
    BY <1>1, <1>2, Zenon DEF OthersOK
  <2> QED
    BY <1>1, <1>2, <2>1 DEF OthersOK
<1>4. pending \in SUBSET Ids /\ \A i \in pending : Has(row, i, "pending") /\ row[i].sev = "CRITICAL"
  BY DEF Pending, Critical, Status, Has
<1> HIDE DEF pending
<1>5. CASE pending = {}
  <2>1. UNCHANGED <<row, drain>>
    BY <1>1, <1>5
  <2> QED
    BY <1>1, <1>2, <1>3, <2>1, QuietKeeps
<1>6. CASE pending # {}
  <2> DEFINE m == Min(pending)
             S == {m}
  <2>1. m \in pending
    <3>1. pending \in SUBSET Nat
      BY <1>4, AlertAssumption DEF Ids
    <3> QED
      BY <1>6, <3>1, MinOfNats
  <2>2. StartSend(d, "test", row, S)
    BY <1>1, <1>6
  <2> HIDE DEF m
  <2>3. m \in Ids /\ Has(row, m, "pending") /\ row[m].sev = "CRITICAL"
    BY <1>4, <2>1
  <2>4. Takes(row, S, queue, buffer, queue, buffer)
    <3>1. "WARNING" # "CRITICAL"
      OBVIOUS
    <3>2. \A n \in 1 .. Len(buffer) : buffer[n] \notin S
      BY <2>3, <3>1 DEF IInv, Agrees, BufferIsPending
    <3> QED
      BY <2>3, <3>2 DEF Takes, IInv, Agrees, BufferIsPending, QueueIsCritical
  <2> HIDE DEF S
  <2>5. Agrees(row, Freed(d), queue, buffer)
    BY FreedAgrees DEF IInv
  <2>6. Agrees(Marked(row, S, "sending"), With(d, "test", S, RetryMax), queue, buffer)
    BY <1>2, <2>4, <2>5, ClaimAgrees
  <2>7. \A i \in Ids : ~Has(row, i, "pending") => row'[i] = row[i]
    BY <2>2, <2>4 DEF StartSend, Marked, Takes
  <2>8. Agrees(row', drain', queue', buffer') /\ BatchOK(batch', buffer')
    BY <1>1, <1>2, <2>2, <2>6 DEF StartSend, With
  <2> QED
    BY <1>1, <1>3, <2>7, <2>8, DrainKeeps
<1> QED
  BY <1>5, <1>6

\* The update of a status touches only what the drainer has claimed.
LEMMA SettledAgrees ==
    ASSUME IInv, NEW d \in Drainers, NEW status \in {"delivered", "failed"}
    PROVE  LET table == Marked(row, drain[d].ids, status)
           IN  /\ Agrees(table, Freed(d), queue, buffer)
               /\ \A i \in Ids : Status(i) \in Final => table[i] = row[i]
<1> DEFINE S == drain[d].ids
           table == Marked(row, S, status)
<1>1. Agrees(row, drain, queue, buffer)
  BY DEF IInv
<1>2. S \in SUBSET Ids /\ \A i \in S : Has(row, i, "sending")
  BY <1>1 DEF Agrees, Drainer, ClaimsMarked
<1>3. /\ table \in Table /\ \A i \in Ids \ S : table[i] = row[i]
      /\ \A i \in S : table[i] # None /\ table[i].status = status /\ table[i].sev = row[i].sev
  <2>1. \A i \in S : row[i] # None
    BY <1>2 DEF Has
  <2>2. status \in {"pending", "sending"} \cup Final /\ row \in Table
    BY <1>1 DEF Final, Agrees
  <2> HIDE DEF S
  <2>3. /\ Marked(row, S, status) \in Table
        /\ \A i \in Ids \ S : Marked(row, S, status)[i] = row[i]
        /\ \A i \in S : /\ Marked(row, S, status)[i] # None
                        /\ Marked(row, S, status)[i].status = status
                        /\ Marked(row, S, status)[i].sev = row[i].sev
    BY <1>2, <2>1, <2>2, MarkedValue
  <2> QED
    BY <2>3
<1> HIDE DEF table
<1>4. \A i \in Ids : Has(row, i, "pending") <=> Has(table, i, "pending")
  <2>1. "sending" # "pending" /\ status # "pending"
    OBVIOUS
  <2> QED
    BY <1>2, <1>3, <2>1 DEF Has
<1>5. ClaimsMarked(table, Freed(d))
  <2>1. Idle \in Drainer /\ Idle.ids = {} /\ drain \in [Drainers -> Drainer]
    BY <1>1, AlertAssumption DEF Idle, Drainer, Agrees
  <2> HIDE DEF Idle
  <2>2. \A e \in Drainers : Freed(d)[e] = IF e = d THEN Idle ELSE drain[e]
    BY <2>1 DEF Freed
  <2>3. \A e \in Drainers \ {d} : \A i \in drain[e].ids :
            i \in Ids \ S /\ Has(row, i, "sending")
    BY <1>1, <2>1 DEF Agrees, ClaimsMarked, Drainer
  <2>4. \A e \in Drainers : \A i \in Freed(d)[e].ids : Has(table, i, "sending")
    BY <1>3, <2>1, <2>2, <2>3 DEF Has
  <2>5. \A e \in Drainers : \A f \in Drainers \ {e} : Freed(d)[e].ids \cap Freed(d)[f].ids = {}
    BY <1>1, <2>1, <2>2 DEF Agrees, ClaimsMarked
  <2> QED
    BY <2>4, <2>5 DEF ClaimsMarked
<1>6. \A i \in Ids : row[i] # None => table[i] # None /\ table[i].sev = row[i].sev
  BY <1>3
<1>7. QueueIsCritical(table, queue)
  <2>1. queue \in Seq(Ids) /\ \A n \in 1 .. Len(queue) : queue[n] \in Ids
    BY <1>1, ElementOfSeq DEF Agrees, QueueIsCritical
  <2> QED
    BY <1>1, <1>6, <2>1 DEF Agrees, QueueIsCritical
<1>8. BufferIsPending(table, buffer)
  <2>1. buffer \in Seq(Ids) /\ \A n \in 1 .. Len(buffer) : buffer[n] \in Ids
    BY <1>1, ElementOfSeq DEF Agrees, BufferIsPending
  <2>2. \A n \in 1 .. Len(buffer) : Has(row, buffer[n], "pending") /\ row[buffer[n]].sev = "WARNING"
    BY <1>1 DEF Agrees, BufferIsPending
  <2>3. \A n \in 1 .. Len(buffer) : row[buffer[n]] # None
    BY <2>2 DEF Has
  <2> QED
    BY <1>1, <1>4, <1>6, <2>1, <2>2, <2>3 DEF Agrees, BufferIsPending
<1>9. LifeInMemory(table, queue, buffer)
  BY <1>1, <1>4 DEF Agrees, LifeInMemory
<1>10. Agrees(table, Freed(d), queue, buffer)
  <2>1. Freed(d) \in [Drainers -> Drainer]
    BY FreedAgrees, <1>1 DEF Agrees
  <2> QED
    BY <1>1, <1>3, <1>5, <1>7, <1>8, <1>9, <2>1 DEF Agrees
<1>11. \A i \in Ids : Status(i) \in Final => table[i] = row[i]
  BY <1>2, <1>3 DEF Status, Has, Final
<1> QED
  BY <1>10, <1>11 DEF table

\* The end of _send_alert or _send_alert_batch, and for a critical the rest of
\* the queue.
LEMMA SettleKeeps ==
    ASSUME IInv, NEW d \in Drainers, NEW status \in {"delivered", "failed"},
           up, Settle(d, status), OthersOK'
    PROVE  IInv' /\ Fixed
<1> DEFINE table == Marked(row, drain[d].ids, status)
<1>1. /\ Agrees(table, Freed(d), queue, buffer)
      /\ \A i \in Ids : Status(i) \in Final => table[i] = row[i]
  BY SettledAgrees
<1>2. /\ IF drain[d].pc = "send" THEN GoOn(d, table)
         ELSE GoIdle(d, table) /\ UNCHANGED <<queue, buffer, batch>>
      /\ UNCHANGED <<up, life, dedup, count>>
  BY DEF Settle
<1>3. drain \in [Drainers -> Drainer] /\ BatchOK(batch, buffer)
  BY TypeParts DEF IInv, Agrees
<1> HIDE DEF table
<1>4. /\ Agrees(row', drain', queue', buffer') /\ BatchOK(batch', buffer')
      /\ \A i \in Ids : ~Has(table, i, "pending") => row'[i] = table[i]
  <2>1. CASE drain[d].pc = "send"
    BY <1>1, <1>2, <1>3, <2>1, GoOnAgrees
  <2>2. CASE drain[d].pc # "send"
    BY <1>1, <1>2, <1>3, <2>2 DEF GoIdle, Freed, BatchOK
  <2> QED
    BY <2>1, <2>2
<1> QED
  BY <1>1, <1>2, <1>4, DrainKeeps

\* A post of a channel ends: delivered, to be tried again, or failed for good.
LEMMA PostEndsKeeps ==
    ASSUME IInv, NEW d \in Drainers, PostEnds(d) PROVE IInv' /\ Fixed
<1>1. OthersOK /\ BatchOK(batch, buffer) /\ Agrees(row, drain, queue, buffer)
  BY TypeParts DEF IInv
<1>2. CASE Delivered(d)
  <2>1. up /\ Settle(d, "delivered") /\ UNCHANGED <<up, dedup, count>>
    BY <1>2 DEF Delivered, Sending, Settle
  <2>2. fails' = 0 /\ breaker' = "closed" /\ openOver' = FALSE
    BY <1>2 DEF Delivered, OnSuccess
  <2>3. OthersOK'
    <3>1. openOver' \in BOOLEAN /\ up' \in BOOLEAN
      BY <1>1, <2>1, <2>2, Zenon DEF OthersOK
    <3>2. 0 \in 0 .. FailThreshold
      BY AlertAssumption
    <3> QED
      BY <1>1, <2>1, <2>2, <3>1, <3>2 DEF OthersOK
  <2> QED
    BY <2>1, <2>3, SettleKeeps
<1>3. CASE LastAttemptFails(d)
  <2>1. up /\ Settle(d, "failed") /\ UNCHANGED <<up, dedup, count>>
    BY <1>3 DEF LastAttemptFails, Sending, Settle
  <2>2. /\ fails' = Min({fails + 1, FailThreshold})
        /\ \/ breaker' = "open" /\ openOver' = FALSE
           \/ UNCHANGED <<breaker, openOver>>
    BY <1>3 DEF LastAttemptFails, OnFinalFail
  <2>3. fails' \in 0 .. FailThreshold
    <3>1. fails + 1 \in Nat /\ FailThreshold \in Nat
      BY <1>1, AlertAssumption DEF OthersOK
    <3> QED
      BY <2>2, <3>1, MinOfTwo
  <2>4. OthersOK'
    <3>1. openOver' \in BOOLEAN /\ up' \in BOOLEAN
      BY <1>1, <2>1, <2>2, Zenon DEF OthersOK
    <3> QED
      BY <1>1, <2>1, <2>2, <2>3, <3>1 DEF OthersOK
  <2> QED
    BY <2>1, <2>4, SettleKeeps
<1>4. CASE AttemptFails(d)
  <2>1. /\ up /\ drain[d].left > 1 /\ drain' = [drain EXCEPT ![d].left = drain[d].left - 1]
        /\ UNCHANGED <<up, row, life, queue, buffer, batch, dedup, count, breaker, openOver, fails>>
    BY <1>4 DEF AttemptFails, Sending, memVars, breakVars
  <2>2. drain \in [Drainers -> Drainer]
    BY <1>1 DEF Agrees
  <2>3. [drain[d] EXCEPT !.left = drain[d].left - 1] \in Drainer
    BY <2>1, <2>2, AlertAssumption DEF Drainer
  <2>4. [drain[d] EXCEPT !.left = drain[d].left - 1].ids = drain[d].ids
    BY <2>2 DEF Drainer
  <2>5. drain' \in [Drainers -> Drainer] /\ \A e \in Drainers : drain'[e].ids = drain[e].ids
    BY <2>1, <2>2, <2>3, <2>4
  <2>6. Agrees(row, drain, queue, buffer)'
    BY <1>1, <2>1, <2>5 DEF Agrees, ClaimsMarked, QueueIsCritical, BufferIsPending, LifeInMemory, Has
  <2>7. OthersOK' /\ BatchOK(batch', buffer')
    BY <1>1, <2>1 DEF OthersOK
  <2>8. DownIsEmpty' /\ Fixed
    BY <2>1 DEF DownIsEmpty, Fixed
  <2> QED
    BY <2>6, <2>7, <2>8, IInvParts
<1> QED
  BY <1>2, <1>3, <1>4 DEF PostEnds

\* The process dies: its memory is gone and its claims stay marked.
LEMMA DieKeeps == ASSUME IInv, Die PROVE IInv' /\ Fixed
<1>1. /\ up' = FALSE /\ UNCHANGED <<row, count>> /\ life' = {}
      /\ queue' = <<>> /\ buffer' = <<>> /\ batch' = "none"
      /\ dedup' = [k \in Keys |-> None] /\ drain' = [d \in Drainers |-> Idle]
      /\ breaker' = "closed" /\ openOver' = FALSE /\ fails' = 0
  BY DEF Die, Fresh
<1>2. OthersOK' /\ BatchOK(batch', buffer')
  <2>1. openOver' \in BOOLEAN /\ up' \in BOOLEAN
    BY <1>1, Zenon
  <2>2. 0 \in 0 .. FailThreshold /\ count' \in [Ids -> 0 .. MaxCount]
    BY <1>1, AlertAssumption DEF IInv, TypeOK
  <2> QED
    BY <1>1, <2>1, <2>2 DEF OthersOK, BatchOK
<1>3. Agrees(row, drain, queue, buffer)'
  <2>1. drain' \in [Drainers -> Drainer] /\ \A d \in Drainers : drain'[d].ids = {}
    BY <1>1, AlertAssumption DEF Idle, Drainer
  <2>2. <<>> \in Seq(Ids) /\ Len(<<>>) = 0
    BY EmptySeq
  <2> QED
    BY <1>1, <2>1, <2>2
       DEF IInv, Agrees, ClaimsMarked, QueueIsCritical, BufferIsPending, LifeInMemory, Has
<1>4. DownIsEmpty' /\ Fixed
  BY <1>1 DEF DownIsEmpty, Fixed
<1> QED
  BY <1>2, <1>3, <1>4, IInvParts

\* The sweep at startup expires pending rows only.
LEMMA StartKeeps == ASSUME IInv, NEW n \in 0 .. MaxEvents, Start(n) PROVE IInv' /\ Fixed
<1> DEFINE S == Swept(n)
<1>1. /\ ~up /\ up' = TRUE /\ row' = Marked(row, S, "expired")
      /\ UNCHANGED <<life, queue, buffer, batch, dedup, count, breaker, openOver, fails, drain>>
  BY DEF Start, memVars, breakVars
<1>2. life = {} /\ queue = <<>> /\ buffer = <<>>
  BY <1>1 DEF IInv, DownIsEmpty
<1>3. S \in SUBSET Ids /\ \A i \in S : Has(row, i, "pending")
  BY DEF Swept, Pending, Status, Has
<1> HIDE DEF S
<1>4. row' \in Table /\ \A i \in Ids \ S : row'[i] = row[i]
  <2>1. \A i \in S : row[i] # None
    BY <1>3 DEF Has
  <2>2. "expired" \in {"pending", "sending"} \cup Final /\ row \in Table
    BY DEF Final, IInv, Agrees
  <2>3. /\ Marked(row, S, "expired") \in Table
        /\ \A i \in Ids \ S : Marked(row, S, "expired")[i] = row[i]
    BY <1>3, <2>1, <2>2, MarkedValue
  <2> QED
    BY <1>1, <2>3
<1>5. OthersOK' /\ BatchOK(batch', buffer')
  <2>1. OthersOK /\ BatchOK(batch, buffer)
    BY TypeParts DEF IInv
  <2>2. up' \in BOOLEAN /\ openOver' \in BOOLEAN
    BY <1>1, <2>1, Zenon DEF OthersOK
  <2> QED
    BY <1>1, <2>1, <2>2 DEF OthersOK, BatchOK
<1>6. Agrees(row, drain, queue, buffer)'
  <2>1. ClaimsMarked(row, drain)'
    <3>1. \A d \in Drainers : \A i \in drain[d].ids : i \in Ids \ S /\ Has(row, i, "sending")
      BY <1>3 DEF IInv, Agrees, ClaimsMarked, Drainer, Has
    <3>2. \A d \in Drainers : \A e \in Drainers \ {d} : drain[d].ids \cap drain[e].ids = {}
      BY DEF IInv, Agrees, ClaimsMarked
    <3> QED
      BY <1>1, <1>4, <3>1, <3>2 DEF ClaimsMarked, Has
  <2>2. <<>> \in Seq(Ids) /\ Len(<<>>) = 0
    BY EmptySeq
  <2> QED
    BY <1>1, <1>2, <1>4, <2>1, <2>2
       DEF IInv, Agrees, QueueIsCritical, BufferIsPending, LifeInMemory, Has
<1>7. DownIsEmpty' /\ Fixed
  <2>1. \A i \in S : Status(i) \notin Final
    BY <1>3 DEF Status, Has, Final
  <2> QED
    BY <1>1, <1>4, <2>1 DEF DownIsEmpty, Fixed
<1> QED
  BY <1>5, <1>6, <1>7, IInvParts

LEMMA NextIInv == IInv /\ [Next]_vars => IInv' /\ Fixed
<1> SUFFICES ASSUME IInv, [Next]_vars PROVE IInv' /\ Fixed
  OBVIOUS
<1>1. CASE Emit
  <2>1. ASSUME NEW i \in Ids, EmitInfo(i) PROVE IInv' /\ Fixed
    BY <2>1, EmitInfoKeeps
  <2>2. ASSUME NEW i \in Ids, EmitCritical(i) PROVE IInv' /\ Fixed
    BY <2>2, EmitCriticalKeeps
  <2>3. ASSUME NEW i \in Ids, NEW k \in Keys, EmitWarning(i, k) PROVE IInv' /\ Fixed
    BY <2>3, EmitWarningKeeps
  <2>4. ASSUME NEW k \in Keys, Merge(k) PROVE IInv' /\ Fixed
    BY <2>4, MergeKeeps
  <2> QED
    BY <1>1, <2>1, <2>2, <2>3, <2>4 DEF Emit
<1>2. CASE (\E k \in Keys : DedupWindowEnds(k)) \/ BatchWindowEnds \/ OpenPeriodEnds
  BY <1>2, ClockKeeps
<1>3. ASSUME NEW d \in Drainers, StartDrain(d) PROVE IInv' /\ Fixed
  BY <1>3, DrainClosedKeeps, DrainHalfOpenKeeps DEF StartDrain
<1>4. ASSUME NEW d \in Drainers, PostEnds(d) PROVE IInv' /\ Fixed
  BY <1>4, PostEndsKeeps
<1>5. CASE Die
  BY <1>5, DieKeeps
<1>6. ASSUME NEW n \in 0 .. MaxEvents, Start(n) PROVE IInv' /\ Fixed
  BY <1>6, StartKeeps
<1>7. CASE UNCHANGED vars
  <2>1. OthersOK' /\ BatchOK(batch', buffer')
    BY <1>7, TypeParts DEF IInv, vars, memVars, breakVars, OthersOK, BatchOK
  <2> QED
    BY <1>7, <2>1, QuietKeeps DEF vars, memVars
<1> QED
  BY <1>1, <1>2, <1>3, <1>4, <1>5, <1>6, <1>7 DEF Next

-----------------------------------------------------------------------------
(* Theorems                                                                *)

\* What every state of the alert agent satisfies: claims are marked and
\* disjoint, and the memory mirrors the pending rows of alert_events.
THEOREM InductiveInvariant == Spec => []IInv
<1>1. IInv /\ [Next]_vars => IInv'
  BY NextIInv
<1> QED
  BY <1>1, InitIInv, PTL DEF Spec

\* _optimistic_sending (AB4): of all that run _drain_once, one sends an alert.
THEOREM SendsOnce == Spec => []OneSender
<1>1. IInv => OneSender
  BY StatusIs DEF IInv, OneSender, Agrees, ClaimsMarked, Final
<1> QED
  BY <1>1, InductiveInvariant, PTL

\* The queue and the buffer forget no pending alert of the running process,
\* whatever batches are cut and whatever half-open tests come between.
THEOREM MemoryMirrorsTable == Spec => []NothingForgotten
<1>1. IInv => NothingForgotten
  <2> SUFFICES ASSUME IInv PROVE NothingForgotten
    OBVIOUS
  <2>1. \A i \in Ids : i \in Pending <=> Has(row, i, "pending")
    BY StatusIs DEF Pending
  <2>2. \A i \in life \cap Pending : Contains(queue, i) \/ Contains(buffer, i)
    BY <2>1 DEF IInv, Agrees, LifeInMemory, Contains
  <2>3. Range(buffer) \subseteq Pending
    <3>1. DOMAIN buffer = 1 .. Len(buffer) /\ \A n \in 1 .. Len(buffer) : buffer[n] \in Ids
      BY LenProperties, ElementOfSeq DEF IInv, Agrees, BufferIsPending
    <3> QED
      BY <2>1, <3>1 DEF Range, IInv, Agrees, BufferIsPending
  <2> QED
    BY <2>2, <2>3 DEF NothingForgotten
<1> QED
  BY <1>1, InductiveInvariant, PTL

\* The updates of _send_alert and the sweep leave a settled alert alone, and
\* dedup counts nothing into a warning that is sent.
THEOREM SettledStays == Spec => SettledIsFixed
<1>1. IInv /\ [Next]_vars => [Fixed]_vars
  BY NextIInv
<1> DEFINE A == \A i \in Ids :
        /\ Status(i) \in Final => row'[i] = row[i]
        /\ Status(i) \in Final \cup {"sending"} => count'[i] = count[i]
<1>2. IInv /\ [Next]_vars => [A]_vars
  BY <1>1 DEF Fixed
<1> QED
  BY <1>2, InductiveInvariant, PTL DEF Spec, SettledIsFixed
=============================================================================
