--------------------------- MODULE BookSync_proof ---------------------------
(***************************************************************************)
(* Proofs about BookSync, for every number of versions, messages on the    *)
(* wire and commits returned.                                              *)
(***************************************************************************)
EXTENDS BookSync, SequenceTheorems, WellFoundedInduction, TLAPS

-----------------------------------------------------------------------------
(* The inductive invariant                                                 *)

\* A push covers at least one version, and ends with one that was sent.
Proper(p) == p.from <= p.to /\ p.to <= sent

\* The wire keeps the order of the versions, and what is buffered has come
\* before what is still on the wire.
PushesInOrder ==
    /\ \A n \in 1 .. Len(wire) : Proper(wire[n])
    /\ \A m, n \in 1 .. Len(wire) : m < n => wire[m].to < wire[n].to
    /\ \A p \in pending : Proper(p) /\ \A n \in 1 .. Len(wire) : p.to < wire[n].to

\* lastApplied = Top(book), without Top.
Labelled(b, v) == b \subseteq 1 .. v /\ (v = 0 \/ v \in b)

\* The validator may lag behind the book (last_u of a snapshot under pushes
\* that were applied on top of it), but never lets an older push through.
NothingOlderPasses ==
    lastU # None => \A n \in 1 .. Len(wire) : wire[n].to > lastU => wire[n].to >= lastApplied

\* The book that waits for the commits is complete and lies below the gap.
BridgeIsSound ==
    driver = "bridge" =>
        /\ lastU # None /\ book = 1 .. lastApplied
        /\ remaining # {} /\ \A p \in remaining : p.to > lastApplied

\* The driver has synchronised the book exactly when bootstrap is over, and
\* nothing is subscribed or dropped before.
Phases ==
    /\ synced <=> driver \in {"idle", "rotation"}
    /\ synced => lastU # None
    /\ ~synced => subscribed /\ member
    /\ driver = "rotation" => subscribed

IInv == /\ TypeOK /\ PushesInOrder /\ Labelled(book, lastApplied)
        /\ NothingOlderPasses /\ BridgeIsSound /\ Phases /\ SubscribedIsHeard

-----------------------------------------------------------------------------
(* Operators                                                               *)

LEMMA TopIs ==
    ASSUME NEW S \in SUBSET Nat, NEW x \in Nat, \A y \in S : y <= x,
           x \in S \/ (x = 0 /\ S = {})
    PROVE  Top(S) = x
<1>1. CASE S = {}
  BY <1>1 DEF Top
<1>2. CASE S # {}
  <2>1. x \in S /\ \A y \in S : x >= y
    BY <1>2
  <2>2. Max(S) \in S /\ \A y \in S : Max(S) >= y
    BY <2>1 DEF Max
  <2>3. Max(S) >= x /\ x >= Max(S) /\ Max(S) \in Nat
    BY <2>1, <2>2
  <2>4. Max(S) = x
    BY <2>3
  <2> QED
    BY <1>2, <2>4 DEF Top
<1> QED
  BY <1>1, <1>2

\* A bounded set of naturals has its Top, and a nonempty one its Min.
LEMMA TopExists ==
    ASSUME NEW N \in Nat, NEW S \in SUBSET (0 .. N), S # {}
    PROVE  Top(S) \in S /\ \A y \in S : y <= Top(S)
<1> DEFINE R == OpToRel(<, Nat)
           T == {N - t : t \in S}
<1>0. \A t \in S : t \in Nat /\ t <= N /\ N - t \in Nat
  OBVIOUS
<1>1. T \subseteq Nat /\ T # {}
  BY <1>0
<1>2. \A x, y \in Nat : y < x => <<y, x>> \in R
  BY DEF OpToRel
<1>3. IsWellFoundedOn(R, Nat)
  BY NatLessThanWellFounded
<1> HIDE DEF R
<1>4. PICK x \in T : \A y \in T : <<y, x>> \notin R
  <2> HIDE DEF T
  <2> QED BY <1>1, <1>3, WFMin
<1>5. PICK t \in S : x = N - t
  OBVIOUS
<1>6. ASSUME NEW u \in S PROVE u <= t
  <2>1. N - u \in T /\ N - u \in Nat /\ x \in Nat
    BY <1>1
  <2>2. ~(N - u < x)
    BY <1>2, <1>4, <2>1
  <2> QED BY <1>5, <2>2
<1>7. Top(S) = t
  <2>1. S \in SUBSET Nat /\ t \in Nat
    BY <1>0
  <2> QED BY <1>6, <2>1, TopIs
<1> QED
  BY <1>6, <1>7

LEMMA MinExists ==
    ASSUME NEW S \in SUBSET Nat, S # {}
    PROVE  Min(S) \in S /\ \A x \in S : Min(S) <= x
<1> DEFINE R == OpToRel(<, Nat)
<1>1. \A x, y \in Nat : y < x => <<y, x>> \in R
  BY DEF OpToRel
<1>2. IsWellFoundedOn(R, Nat)
  BY NatLessThanWellFounded
<1> HIDE DEF R
<1>3. PICK x \in S : \A y \in S : <<y, x>> \notin R
  BY <1>2, WFMin
<1>4. ASSUME NEW y \in S PROVE x <= y
  <2>1. x \in Nat /\ y \in Nat /\ ~(y < x)
    BY <1>1, <1>3
  <2> QED
    BY <2>1
<1> QED
  BY <1>3, <1>4 DEF Min

LEMMA LabelledTop ==
    ASSUME NEW v \in Nat, NEW b, Labelled(b, v)
    PROVE  Top(b) = v
<1>1. b \in SUBSET Nat /\ \A y \in b : y <= v
  BY DEF Labelled
<1>2. v \in b \/ (v = 0 /\ b = {})
  BY DEF Labelled
<1> QED
  BY <1>1, <1>2, TopIs

\* Pushes that can be chained: each covers a range of versions.
Ranges(pushes) == pushes \subseteq Push /\ \A p \in pushes : p.from <= p.to

LEMMA UptoValue ==
    ASSUME NEW pushes \in SUBSET Push, NEW base \in 0 .. MaxVersion
    PROVE  /\ Upto(pushes, base) \in base .. MaxVersion
           /\ \A p \in pushes : p.to <= Upto(pushes, base)
           /\ Upto(pushes, base) = base \/ \E p \in pushes : p.to = Upto(pushes, base)
<1> DEFINE S == {p.to : p \in pushes} \cup {base}
<1>1. MaxVersion \in Nat /\ \A p \in pushes : p.to \in 1 .. MaxVersion
  BY BookSyncAssumption DEF Push, Versions
<1>2. S \in SUBSET (0 .. MaxVersion) /\ S # {} /\ base \in S
  BY <1>1
<1>3. \A p \in pushes : p.to \in S
  OBVIOUS
<1>4. \A x \in S : x = base \/ \E p \in pushes : p.to = x
  OBVIOUS
<1>5. Upto(pushes, base) = Top(S)
  BY DEF Upto
<1> HIDE DEF S
<1>6. Top(S) \in S /\ \A y \in S : y <= Top(S)
  BY <1>1, <1>2, TopExists
<1>7. Upto(pushes, base) \in base .. MaxVersion
  <2>1. Top(S) \in 0 .. MaxVersion /\ base <= Top(S)
    BY <1>2, <1>6
  <2>2. Top(S) \in base .. MaxVersion
    BY <1>1, <2>1
  <2> QED
    BY <1>5, <2>2
<1>8. \A p \in pushes : p.to <= Upto(pushes, base)
  BY <1>3, <1>5, <1>6
<1>9. Upto(pushes, base) = base \/ \E p \in pushes : p.to = Upto(pushes, base)
  BY <1>4, <1>5, <1>6
<1> QED
  BY <1>7, <1>8, <1>9

\* The pushes in strict +1 order over a version cover everything up to the
\* last of them, and every other one lies above a gap.
LEMMA ChainValue ==
    ASSUME NEW pushes, Ranges(pushes), NEW base \in 0 .. MaxVersion,
           NEW c, c = Chain(pushes, base), NEW u, u = Upto(c, base)
    PROVE  /\ c \subseteq pushes /\ u \in base .. MaxVersion
           /\ u = base \/ \E p \in c : p.to = u
           /\ \A p \in c : p.to > base /\ p.to <= u
           /\ Diffs(c) \subseteq 1 .. u /\ base + 1 .. u \subseteq Diffs(c)
           /\ \A p \in pushes \ c : p.to > base => p.to > u
<1>1. MaxVersion \in Nat /\ base \in Nat
  BY BookSyncAssumption
<1>2. c \in SUBSET Push /\ c \subseteq pushes
  BY DEF Chain, Ranges
<1>3. \A p \in pushes : p.from \in Nat \ {0} /\ p.to \in Nat /\ p.from <= p.to
  BY DEF Ranges, Push, Versions
<1>4. \A p \in pushes : p \in c <=>
         p.to > base /\ \A v \in base + 1 .. p.to : \E q \in pushes : q.to = v
  BY DEF Chain
<1>5. /\ u \in base .. MaxVersion /\ \A p \in c : p.to <= u
      /\ u = base \/ \E p \in c : p.to = u
  BY <1>2, UptoValue
<1>6. Diffs(c) \subseteq 1 .. u
  BY <1>1, <1>2, <1>3, <1>5 DEF Diffs
<1>7. ASSUME NEW x \in base + 1 .. u
      PROVE  \E q \in c : q.to = x
  <2>1. PICK p \in c : p.to = u
    BY <1>1, <1>5
  <2>2. PICK q \in pushes : q.to = x
    BY <1>2, <1>4, <2>1
  <2>3. \A v \in base + 1 .. x : v \in base + 1 .. p.to
    BY <1>1, <1>5, <2>1
  <2>4. q \in c
    BY <1>1, <1>2, <1>4, <1>5, <2>1, <2>2, <2>3
  <2> QED
    BY <2>2, <2>4
<1>8. base + 1 .. u \subseteq Diffs(c)
  <2>1. SUFFICES ASSUME NEW x \in base + 1 .. u PROVE x \in Diffs(c)
    OBVIOUS
  <2>2. PICK q \in c : q.to = x
    BY <1>7
  <2>3. x \in q.from .. q.to
    BY <1>2, <1>3, <2>2
  <2> QED
    BY <2>3 DEF Diffs
<1>9. ASSUME NEW p \in pushes \ c, p.to > base PROVE p.to > u
  <2>1. SUFFICES ASSUME p.to <= u PROVE FALSE
    BY <1>1, <1>3, <1>5
  <2>2. \A v \in base + 1 .. p.to : v \in base + 1 .. u
    BY <1>1, <1>3, <1>5, <2>1
  <2>3. \A v \in base + 1 .. p.to : \E q \in pushes : q.to = v
    BY <1>2, <1>7, <2>2
  <2> QED
    BY <1>4, <1>9, <2>3
<1> QED
  BY <1>1, <1>2, <1>3, <1>4, <1>5, <1>6, <1>8, <1>9

\* Applying the chain on top of a book labels it with the last of the chain,
\* and makes no hole.
LEMMA AppliedChain ==
    ASSUME NEW pushes, Ranges(pushes), NEW base \in 0 .. MaxVersion,
           NEW b, Labelled(b, base) \/ (b \subseteq 1 .. base /\ Chain(pushes, base) # {})
    PROVE  LET c == Chain(pushes, base) IN
           /\ Labelled(b \cup Diffs(c), Upto(c, base))
           /\ b = 1 .. base => b \cup Diffs(c) = 1 .. Upto(c, base)
<1> DEFINE c == Chain(pushes, base)
           u == Upto(c, base)
<1>1. MaxVersion \in Nat /\ base \in Nat
  BY BookSyncAssumption
<1>2. /\ u \in base .. MaxVersion /\ Diffs(c) \subseteq 1 .. u /\ base + 1 .. u \subseteq Diffs(c)
      /\ \A p \in c : p.to > base /\ p.to <= u
      /\ c \subseteq pushes
  BY ChainValue
<1>3. \A p \in pushes : p.to \in Nat
  BY DEF Ranges, Push, Versions
<1>4. b \subseteq 1 .. base
  BY DEF Labelled
<1>5. CASE u = base
  <2>1. c = {}
    BY <1>1, <1>2, <1>3, <1>5
  <2>2. Labelled(b, base)
    BY <2>1
  <2> HIDE DEF c, u
  <2>3. b \cup Diffs(c) = b \/ Diffs(c) # {}
    OBVIOUS
  <2>4. Diffs(c) = {}
    BY <2>1 DEF Diffs
  <2> QED
    BY <1>5, <2>2, <2>4 DEF c, u
<1>6. CASE u # base
  <2> HIDE DEF c, u
  <2>1. u \in base + 1 .. u
    BY <1>1, <1>2, <1>6
  <2>2. u \in Diffs(c)
    BY <1>2, <2>1
  <2>5. b \subseteq 1 .. u
    BY <1>1, <1>2, <1>4
  <2>3. b \cup Diffs(c) \subseteq 1 .. u
    BY <1>2, <2>5
  <2>4. 1 .. u \subseteq 1 .. base \cup Diffs(c)
    BY <1>1, <1>2
  <2> QED
    BY <2>2, <2>3, <2>4 DEF Labelled, c, u
<1> QED
  BY <1>5, <1>6

-----------------------------------------------------------------------------
(* The steps                                                               *)

LEMMA InitIInv ==
    ASSUME Init PROVE IInv
<1> USE BookSyncAssumption DEF Init
<1>1. TypeOK
  <2>1. wire \in Seq(Push) /\ Len(wire) = 0
    OBVIOUS
  <2>2. lastU \in 0 .. ver \cup {None} /\ remaining \subseteq pending /\ pending \subseteq Push
    OBVIOUS
  <2>3. subscribed \in BOOLEAN /\ member \in BOOLEAN /\ synced \in BOOLEAN /\ failed \in BOOLEAN
    OBVIOUS
  <2>4. ver \in 0 .. MaxVersion /\ sent \in 0 .. ver /\ lastApplied \in 0 .. ver
        /\ askedAt \in 0 .. ver /\ Len(wire) <= MaxWire /\ book \subseteq 1 .. ver
    BY <2>1
  <2> QED BY <2>1, <2>2, <2>3, <2>4 DEF TypeOK
<1>2. PushesInOrder
  BY DEF PushesInOrder
<1>3. Labelled(book, lastApplied)
  BY DEF Labelled
<1>4. NothingOlderPasses
  BY DEF NothingOlderPasses
<1>5. BridgeIsSound /\ Phases /\ SubscribedIsHeard
  BY DEF BridgeIsSound, Phases, SubscribedIsHeard
<1> QED
  BY <1>1, <1>2, <1>3, <1>4, <1>5 DEF IInv

LEMMA ChangeKeeps ==
    ASSUME IInv, Change PROVE IInv'
<1> USE BookSyncAssumption DEF IInv, Change, bookVars, taskVars
<1>1. TypeOK'
  <2>1. ver' \in 0 .. MaxVersion /\ ver < ver' /\ ver \in Nat
    BY DEF TypeOK
  <2>2. \A x \in 0 .. ver : x \in 0 .. ver'
    BY <2>1
  <2>3. \A x \in 1 .. ver : x \in 1 .. ver'
    BY <2>1
  <2> QED BY <2>1, <2>2, <2>3 DEF TypeOK
<1>2. PushesInOrder'
  BY DEF PushesInOrder, Proper
<1>3. Labelled(book, lastApplied)'
  BY DEF Labelled
<1>4. NothingOlderPasses'
  BY DEF NothingOlderPasses
<1>5. BridgeIsSound' /\ Phases' /\ SubscribedIsHeard'
  BY DEF BridgeIsSound, Phases, SubscribedIsHeard
<1> QED
  BY <1>1, <1>2, <1>3, <1>4, <1>5

LEMMA SendPushKeeps ==
    ASSUME IInv, SendPush PROVE IInv'
<1> USE BookSyncAssumption DEF IInv, SendPush, bookVars, taskVars
<1> DEFINE r == [from |-> sent + 1, to |-> ver]
<1>1. ver \in 1 .. MaxVersion /\ sent \in Nat /\ sent < ver /\ sent + 1 \in 1 .. MaxVersion
  BY DEF TypeOK
<1>2. r \in Push
  BY <1>1 DEF Push, Versions
<1>3. wire \in Seq(Push) /\ Len(wire) \in Nat
  BY DEF TypeOK
<1>4. wire' \in Seq(Push) /\ Len(wire') = Len(wire) + 1 /\ wire'[Len(wire) + 1] = r
  BY <1>2, <1>3
<1>5. \A n \in 1 .. Len(wire) : wire'[n] = wire[n] /\ wire[n] \in Push
  BY <1>2, <1>3
<1>6. \A n \in 1 .. Len(wire') : n \in 1 .. Len(wire) \/ n = Len(wire) + 1
  BY <1>3, <1>4
<1>7. r.from = sent + 1 /\ r.to = ver
  OBVIOUS
<1>8. \A q \in Push : q.to \in Nat /\ q.from \in Nat
  BY DEF Push, Versions
<1> HIDE DEF r
<1>9. TypeOK'
  <2>1. Len(wire') <= MaxWire
    BY <1>3, <1>4 DEF TypeOK
  <2>2. sent' \in 0 .. ver'
    BY <1>1
  <2> QED BY <1>4, <2>1, <2>2 DEF TypeOK
<1>10. PushesInOrder'
  <2>1. \A n \in 1 .. Len(wire) : Proper(wire[n])
    BY DEF PushesInOrder
  <2>2. \A n \in 1 .. Len(wire) : wire[n].to < ver /\ wire[n].from <= wire[n].to
    BY <1>1, <1>5, <1>8, <2>1 DEF Proper
  <2>3. \A n \in 1 .. Len(wire') : wire'[n].from <= wire'[n].to /\ wire'[n].to <= sent'
    <3>1. sent + 1 <= ver /\ sent' = ver
      BY <1>1
    <3>2. r.from <= r.to /\ r.to <= sent'
      BY <1>1, <1>7, <3>1
    <3>3. \A n \in 1 .. Len(wire) : wire[n].to <= sent'
      BY <1>1, <1>5, <1>8, <2>2, <3>1
    <3> QED BY <1>4, <1>5, <1>6, <2>2, <3>2, <3>3
  <2>4. \A m, n \in 1 .. Len(wire') : m < n => wire'[m].to < wire'[n].to
    BY <1>3, <1>4, <1>5, <1>6, <1>7, <2>2 DEF PushesInOrder
  <2>5. \A q \in pending : q.to < ver /\ q.from <= q.to /\ q.to <= sent'
    BY <1>1, <1>8 DEF PushesInOrder, Proper, TypeOK
  <2>6. \A q \in pending : \A n \in 1 .. Len(wire') : q.to < wire'[n].to
    BY <1>4, <1>5, <1>6, <1>7, <2>5 DEF PushesInOrder
  <2> QED BY <2>3, <2>4, <2>5, <2>6 DEF PushesInOrder, Proper
<1>11. Labelled(book, lastApplied)'
  BY DEF Labelled
<1>12. NothingOlderPasses'
  <2>1. ver >= lastApplied
    BY <1>1 DEF TypeOK
  <2>2. lastU # None => \A n \in 1 .. Len(wire') : wire'[n].to > lastU => wire'[n].to >= lastApplied
    BY <1>4, <1>5, <1>6, <1>7, <2>1 DEF NothingOlderPasses
  <2> QED BY <2>2 DEF NothingOlderPasses
<1>13. BridgeIsSound' /\ Phases' /\ SubscribedIsHeard'
  BY DEF BridgeIsSound, Phases, SubscribedIsHeard
<1> QED
  BY <1>9, <1>10, <1>11, <1>12, <1>13

\* What is left of the wire when its first message arrives.
LEMMA Arrival ==
    ASSUME IInv, NEW p \in Push, Arrive(p)
    PROVE  /\ wire' \in Seq(Push) /\ Len(wire') <= MaxWire
           /\ \A n \in 1 .. Len(wire') :
                 n + 1 \in 1 .. Len(wire) /\ wire'[n] = wire[n + 1] /\ p.to < wire'[n].to
           /\ 1 \in 1 .. Len(wire) /\ p = wire[1] /\ Proper(p)
           /\ \A n \in 1 .. Len(wire') : Proper(wire'[n])
           /\ \A m, n \in 1 .. Len(wire') : m < n => wire'[m].to < wire'[n].to
           /\ \A q \in pending : \A n \in 1 .. Len(wire') : q.to < wire'[n].to
<1> USE BookSyncAssumption DEF IInv, Arrive
<1>1. wire \in Seq(Push) /\ wire # <<>> /\ Len(wire) \in Nat
  BY DEF TypeOK
<1>2. wire' \in Seq(Push) /\ Len(wire') = Len(wire) - 1 /\ Len(wire) >= 1 /\ p = wire[1]
  BY <1>1
<1>3. \A n \in 1 .. Len(wire') : wire'[n] = wire[n + 1]
  BY <1>1, <1>2
<1>4. \A n \in 1 .. Len(wire') : n \in Nat /\ n + 1 \in 1 .. Len(wire) /\ 1 < n + 1
  BY <1>1, <1>2
<1>5. 1 \in 1 .. Len(wire) /\ Len(wire') <= MaxWire
  BY <1>1, <1>2 DEF TypeOK
<1>6. \A n \in 1 .. Len(wire') : p.to < wire'[n].to
  BY <1>2, <1>3, <1>4, <1>5 DEF PushesInOrder
<1>7. \A m, n \in 1 .. Len(wire') : m < n => m + 1 < n + 1
  BY <1>4
<1>8. \A m, n \in 1 .. Len(wire') : m < n => wire'[m].to < wire'[n].to
  BY <1>3, <1>4, <1>7 DEF PushesInOrder
<1>9. \A n \in 1 .. Len(wire') : Proper(wire'[n])
  BY <1>3, <1>4 DEF PushesInOrder
<1>10. \A q \in pending : \A n \in 1 .. Len(wire') : q.to < wire'[n].to
  BY <1>3, <1>4 DEF PushesInOrder
<1> QED
  BY <1>2, <1>3, <1>4, <1>5, <1>6, <1>8, <1>9, <1>10 DEF PushesInOrder

LEMMA DropForeignKeeps ==
    ASSUME IInv, NEW p \in Push, DropForeign(p) PROVE IInv'
<1> USE DEF IInv, bookVars, taskVars
<1>1. Arrive(p)
  BY DEF DropForeign
<1>2. UNCHANGED <<ver, sent, subscribed, member, synced, pending, bookVars, taskVars>>
  BY DEF DropForeign, Arrive
<1>3. TypeOK'
  BY <1>1, <1>2, Arrival DEF TypeOK
<1>4. PushesInOrder'
  BY <1>1, <1>2, Arrival DEF PushesInOrder, Proper
<1>5. Labelled(book, lastApplied)'
  BY <1>2 DEF Labelled
<1>6. NothingOlderPasses'
  BY <1>1, <1>2, Arrival DEF NothingOlderPasses
<1>7. BridgeIsSound' /\ Phases' /\ SubscribedIsHeard'
  BY <1>2 DEF BridgeIsSound, Phases, SubscribedIsHeard
<1> QED
  BY <1>3, <1>4, <1>5, <1>6, <1>7

LEMMA BufferKeeps ==
    ASSUME IInv, NEW p \in Push, Buffer(p) PROVE IInv'
<1> USE DEF IInv, bookVars, taskVars
<1>1. Arrive(p)
  BY DEF Buffer
<1>2. /\ UNCHANGED <<ver, sent, subscribed, member, synced, bookVars, taskVars>>
      /\ pending' = pending \cup {p}
  BY DEF Buffer, Arrive
<1>3. TypeOK'
  BY <1>1, <1>2, Arrival DEF TypeOK
<1>4. PushesInOrder'
  BY <1>1, <1>2, Arrival DEF PushesInOrder, Proper
<1>5. Labelled(book, lastApplied)'
  BY <1>2 DEF Labelled
<1>6. NothingOlderPasses'
  BY <1>1, <1>2, Arrival DEF NothingOlderPasses
<1>7. BridgeIsSound' /\ Phases' /\ SubscribedIsHeard'
  BY <1>2 DEF BridgeIsSound, Phases, SubscribedIsHeard
<1> QED
  BY <1>3, <1>4, <1>5, <1>6, <1>7

LEMMA DropStaleKeeps ==
    ASSUME IInv, NEW p \in Push, DropStale(p) PROVE IInv'
<1> USE DEF IInv, bookVars, taskVars
<1>1. Arrive(p)
  BY DEF DropStale
<1>2. UNCHANGED <<ver, sent, subscribed, member, synced, pending, bookVars, taskVars>>
  BY DEF DropStale, Arrive
<1>3. TypeOK'
  BY <1>1, <1>2, Arrival DEF TypeOK
<1>4. PushesInOrder'
  BY <1>1, <1>2, Arrival DEF PushesInOrder, Proper
<1>5. Labelled(book, lastApplied)'
  BY <1>2 DEF Labelled
<1>6. NothingOlderPasses'
  BY <1>1, <1>2, Arrival DEF NothingOlderPasses
<1>7. BridgeIsSound' /\ Phases' /\ SubscribedIsHeard'
  BY <1>2 DEF BridgeIsSound, Phases, SubscribedIsHeard
<1> QED
  BY <1>3, <1>4, <1>5, <1>6, <1>7

\* A push that passes the validator is not older than the book.
LEMMA ApplyKeeps ==
    ASSUME IInv, NEW p \in Push, Apply(p) PROVE IInv'
<1> USE DEF IInv, bookVars, taskVars
<1>1. Arrive(p) /\ synced
  BY DEF Apply
<1>2. /\ UNCHANGED <<ver, sent, subscribed, member, synced, pending, taskVars>>
      /\ lastU' = p.to /\ lastApplied' = p.to /\ book' = book \cup Diffs({p})
  BY DEF Apply, Arrive
<1>3. p.from \in Nat \ {0} /\ p.to \in Nat /\ p.from <= p.to /\ p.to <= sent
  BY <1>1, Arrival DEF Push, Versions, Proper
<1>4. p.to \in 0 .. ver /\ sent \in Nat
  BY <1>3 DEF TypeOK
<1>5. p.to >= lastApplied
  <2>1. lastU # None
    BY <1>1 DEF Phases
  <2>2. lastU \in Nat /\ lastU < p.to
    BY <1>3, <2>1 DEF Apply, Stale, TypeOK
  <2>3. 1 \in 1 .. Len(wire) /\ p = wire[1]
    BY <1>1, Arrival
  <2> QED
    BY <2>1, <2>2, <2>3 DEF NothingOlderPasses
<1>6. Diffs({p}) = p.from .. p.to
  BY DEF Diffs
<1>7. Labelled(book, lastApplied)'
  <2>1. p.to \in Diffs({p})
    BY <1>3, <1>6
  <2>2. Diffs({p}) \subseteq 1 .. p.to
    BY <1>3, <1>6
  <2>3. book \subseteq 1 .. p.to
    BY <1>3, <1>5 DEF TypeOK, Labelled
  <2> QED
    BY <1>2, <2>1, <2>2, <2>3 DEF Labelled
<1>8. TypeOK'
  <2>1. book' \subseteq 1 .. ver'
    <3>1. ver \in Nat
      BY BookSyncAssumption DEF TypeOK
    <3>2. 1 .. p.to \subseteq 1 .. ver
      BY <1>3, <1>4, <3>1
    <3> QED BY <1>2, <1>7, <3>2 DEF Labelled
  <2> QED
    BY <1>1, <1>2, <1>4, <2>1, Arrival DEF TypeOK
<1>9. PushesInOrder'
  BY <1>1, <1>2, Arrival DEF PushesInOrder, Proper
<1>10. NothingOlderPasses'
  <2>1. \A n \in 1 .. Len(wire') : p.to < wire'[n].to
    BY <1>1, Arrival
  <2>2. \A n \in 1 .. Len(wire') : wire'[n] \in Push
    BY <1>1, Arrival
  <2>3. \A n \in 1 .. Len(wire') : wire'[n].to >= p.to
    BY <1>3, <2>1, <2>2 DEF Push, Versions
  <2> QED
    BY <1>2, <2>3 DEF NothingOlderPasses
<1>11. BridgeIsSound' /\ Phases' /\ SubscribedIsHeard'
  <2>1. driver # "bridge" /\ lastU' # None
    BY <1>1, <1>2, <1>3, BookSyncAssumption DEF Phases
  <2> QED
    BY <1>2, <2>1 DEF BridgeIsSound, Phases, SubscribedIsHeard
<1> QED
  BY <1>7, <1>8, <1>9, <1>10, <1>11

LEMMA OnDepthKeeps ==
    ASSUME IInv, OnDepth PROVE IInv'
BY DropForeignKeeps, BufferKeeps, DropStaleKeeps, ApplyKeeps DEF OnDepth

LEMMA AskSnapshotKeeps ==
    ASSUME IInv, AskSnapshot PROVE IInv'
<1> USE DEF IInv, AskSnapshot, exchVars, bookVars
<1>1. TypeOK'
  <2>1. ver \in Nat
    BY BookSyncAssumption DEF TypeOK
  <2> QED BY <2>1 DEF TypeOK
<1>2. PushesInOrder' /\ Labelled(book, lastApplied)' /\ NothingOlderPasses'
  BY DEF PushesInOrder, Proper, Labelled, NothingOlderPasses
<1>3. BridgeIsSound' /\ Phases' /\ SubscribedIsHeard'
  BY DEF BridgeIsSound, Phases, SubscribedIsHeard
<1> QED
  BY <1>1, <1>2, <1>3

LEMMA SnapshotFailsKeeps ==
    ASSUME IInv, SnapshotFails PROVE IInv'
<1> USE DEF IInv, SnapshotFails, exchVars, bookVars
<1>1. TypeOK'
  BY DEF TypeOK
<1>2. PushesInOrder' /\ Labelled(book, lastApplied)' /\ NothingOlderPasses'
  BY DEF PushesInOrder, Proper, Labelled, NothingOlderPasses
<1>3. BridgeIsSound' /\ Phases' /\ SubscribedIsHeard'
  BY DEF BridgeIsSound, Phases, SubscribedIsHeard
<1> QED
  BY <1>1, <1>2, <1>3

LEMMA RotateInKeeps ==
    ASSUME IInv, RotateIn PROVE IInv'
<1> USE DEF IInv, RotateIn, bookVars
<1>1. ver \in Nat /\ sent \in Nat /\ sent <= ver
  BY BookSyncAssumption DEF TypeOK
<1>2. TypeOK'
  BY <1>1 DEF TypeOK
<1>3. PushesInOrder'
  <2>1. \A q \in Push : q.to \in Nat
    BY DEF Push, Versions
  <2>2. \A n \in 1 .. Len(wire) : wire[n] \in Push
    BY DEF TypeOK
  <2>3. \A q \in Push : Proper(q) => q.from <= q.to /\ q.to <= sent'
    BY <1>1, <2>1 DEF Proper
  <2> QED
    BY <2>2, <2>3 DEF PushesInOrder, Proper, TypeOK
<1>4. Labelled(book, lastApplied)' /\ NothingOlderPasses'
  BY DEF Labelled, NothingOlderPasses
<1>5. BridgeIsSound' /\ Phases' /\ SubscribedIsHeard'
  BY DEF BridgeIsSound, Phases, SubscribedIsHeard
<1> QED
  BY <1>2, <1>3, <1>4, <1>5

LEMMA RotationFailsKeeps ==
    ASSUME IInv, RotationFails PROVE IInv'
<1> USE DEF IInv, RotationFails, exchVars, bookVars
<1>1. TypeOK'
  BY DEF TypeOK
<1>2. PushesInOrder' /\ Labelled(book, lastApplied)' /\ NothingOlderPasses'
  BY DEF PushesInOrder, Proper, Labelled, NothingOlderPasses
<1>3. BridgeIsSound' /\ Phases' /\ SubscribedIsHeard'
  BY DEF BridgeIsSound, Phases, SubscribedIsHeard
<1> QED
  BY <1>1, <1>2, <1>3

LEMMA RotateOutKeeps ==
    ASSUME IInv, RotateOut PROVE IInv'
<1> USE DEF IInv, RotateOut, exchVars, bookVars, taskVars
<1>1. TypeOK'
  BY DEF TypeOK
<1>2. PushesInOrder' /\ Labelled(book, lastApplied)' /\ NothingOlderPasses'
  BY DEF PushesInOrder, Proper, Labelled, NothingOlderPasses
<1>3. BridgeIsSound' /\ Phases' /\ SubscribedIsHeard'
  BY DEF BridgeIsSound, Phases, SubscribedIsHeard
<1> QED
  BY <1>1, <1>2, <1>3

LEMMA WireIsTyped ==
    ASSUME IInv PROVE \A n \in 1 .. Len(wire) : wire[n].to \in Nat
<1>1. \A n \in 1 .. Len(wire) : wire[n] \in Push
  BY DEF IInv, TypeOK
<1>2. \A q \in Push : q.to \in Nat
  BY DEF Push, Versions
<1> QED
  BY <1>1, <1>2

\* Applying a chain of buffered pushes stays below what was sent, and so
\* below the exchange's version.
LEMMA ChainIsSent ==
    ASSUME IInv, NEW pushes \in SUBSET pending, NEW base \in 0 .. ver
    PROVE  LET c == Chain(pushes, base)
               u == Upto(c, base)
           IN  /\ base \in 0 .. MaxVersion /\ Ranges(pushes) /\ u \in base .. ver
               /\ \A n \in 1 .. Len(wire) : wire[n].to >= base => wire[n].to >= u
<1> DEFINE c == Chain(pushes, base)
           u == Upto(c, base)
<1>1. ver \in 0 .. MaxVersion /\ MaxVersion \in Nat /\ sent \in 0 .. ver /\ ver \in Nat
  BY BookSyncAssumption DEF IInv, TypeOK
<1>2. base \in 0 .. MaxVersion
  BY <1>1
<1>3. \A p \in pending : Proper(p) /\ p \in Push /\ p.to \in Nat
  BY DEF IInv, PushesInOrder, TypeOK, Push, Versions
<1>4. Ranges(pushes)
  BY <1>3 DEF Ranges, Proper
<1>5. /\ c \subseteq pushes /\ u \in base .. MaxVersion
      /\ u = base \/ \E p \in c : p.to = u
  BY <1>2, <1>4, ChainValue
<1> HIDE DEF c, u
<1>6. CASE u = base
  <2>1. u \in base .. ver
    BY <1>1, <1>6
  <2> QED BY <1>2, <1>4, <1>6, <2>1 DEF c, u
<1>7. CASE \E p \in c : p.to = u
  <2>1. PICK p \in pending : p.to = u
    BY <1>5, <1>7
  <2>2. u <= ver
    BY <1>1, <1>3, <2>1 DEF Proper
  <2>3. \A n \in 1 .. Len(wire) : u < wire[n].to /\ wire[n] \in Push
    BY <2>1 DEF IInv, PushesInOrder, TypeOK
  <2>4. \A n \in 1 .. Len(wire) : wire[n].to >= u
    BY <1>3, <2>1, <2>3 DEF Push, Versions
  <2>5. u \in base .. ver
    BY <1>1, <1>5, <2>2
  <2> QED BY <1>2, <1>4, <2>4, <2>5 DEF c, u
<1> QED
  BY <1>5, <1>6, <1>7

\* The snapshot's book: nothing of it is missing, and the gap lies above it.
LEMMA SnapshotBook ==
    ASSUME IInv, NEW v \in 0 .. MaxVersion, Snapshot(v)
    PROVE  /\ v \in 0 .. ver /\ lastU' = v /\ lastApplied' \in v .. ver
           /\ Labelled(book, lastApplied)' /\ book' = 1 .. lastApplied'
           /\ \A n \in 1 .. Len(wire) : wire[n].to >= v => wire[n].to >= lastApplied'
           /\ \A p \in pending \ Chain(pending, v) : p.to > v => p.to > lastApplied'
<1> DEFINE c == Chain(pending, v)
<1>1. /\ book' = 1 .. v \cup Diffs(c) /\ lastApplied' = Upto(c, v) /\ lastU' = v
      /\ v \in askedAt .. ver
  BY DEF Snapshot
<1>2. v \in 0 .. ver
  BY <1>1, BookSyncAssumption DEF IInv, TypeOK
<1>3. /\ Ranges(pending) /\ Upto(c, v) \in v .. ver
      /\ \A n \in 1 .. Len(wire) : wire[n].to >= v => wire[n].to >= Upto(c, v)
  BY <1>2, ChainIsSent
<1>4. Labelled(1 .. v, v)
  BY <1>2 DEF Labelled
<1>5. Labelled(1 .. v \cup Diffs(c), Upto(c, v)) /\ 1 .. v \cup Diffs(c) = 1 .. Upto(c, v)
  BY <1>3, <1>4, AppliedChain
<1>6. \A p \in pending \ c : p.to > v => p.to > Upto(c, v)
  BY <1>3, ChainValue
<1> HIDE DEF c
<1>7. Labelled(book, lastApplied)'
  BY <1>1, <1>5 DEF Labelled
<1> QED
  BY <1>1, <1>2, <1>3, <1>5, <1>6, <1>7 DEF c

LEMMA SnapshotKeeps ==
    ASSUME IInv, NEW v \in 0 .. MaxVersion, Snapshot(v) PROVE IInv'
<1> DEFINE gap == {p \in pending : p.to > v} \ Chain(pending, v)
<1>1. /\ UNCHANGED <<exchVars, subscribed, member, failed>> /\ driver = "snapshot"
      /\ IF gap = {} THEN Synced /\ UNCHANGED askedAt
         ELSE /\ driver' = "bridge" /\ remaining' = gap /\ askedAt' = ver
              /\ UNCHANGED <<synced, pending>>
  BY DEF Snapshot
<1>2. /\ v \in 0 .. ver /\ lastU' = v /\ lastApplied' \in v .. ver
      /\ Labelled(book, lastApplied)' /\ book' = 1 .. lastApplied'
      /\ \A n \in 1 .. Len(wire) : wire[n].to >= v => wire[n].to >= lastApplied'
      /\ \A p \in gap : p.to > lastApplied'
  BY SnapshotBook
<1>3. gap \subseteq pending
  OBVIOUS
<1> HIDE DEF gap
<1>4. /\ ver \in Nat /\ ver' = ver /\ sent' = sent /\ wire' = wire
  BY <1>1, BookSyncAssumption DEF IInv, TypeOK, exchVars
<1>5. lastApplied' \in 0 .. ver /\ v \in Nat /\ v # None
  BY <1>2, <1>4, BookSyncAssumption
<1>6. pending' \subseteq pending /\ remaining' \subseteq pending' /\ askedAt' \in 0 .. ver
      /\ synced' \in BOOLEAN /\ driver' \in {"bridge", "idle"}
  <2>1. CASE gap = {}
    BY <1>1, <2>1 DEF Synced, IInv, TypeOK
  <2>2. CASE gap # {}
    <3>1. /\ driver' = "bridge" /\ remaining' = gap /\ askedAt' = ver
          /\ synced' = synced /\ pending' = pending
      BY <1>1, <2>2
    <3>2. ver \in 0 .. ver /\ synced \in BOOLEAN
      BY <1>4 DEF IInv, TypeOK
    <3> QED BY <1>3, <3>1, <3>2
  <2> QED BY <2>1, <2>2
<1>7. TypeOK'
  <2>1. book' \subseteq 1 .. ver'
    BY <1>2, <1>4, <1>5
  <2>2. wire' \in Seq(Push) /\ pending' \subseteq Push /\ remaining' \subseteq pending'
    BY <1>4, <1>6 DEF IInv, TypeOK
  <2>3. subscribed' \in BOOLEAN /\ member' \in BOOLEAN /\ failed' \in BOOLEAN
    BY <1>1 DEF IInv, TypeOK
  <2> QED
    BY <1>2, <1>4, <1>5, <1>6, <2>1, <2>2, <2>3 DEF IInv, TypeOK
<1>8. PushesInOrder'
  BY <1>4, <1>6 DEF IInv, PushesInOrder, Proper
<1>9. NothingOlderPasses'
  <2>1. \A n \in 1 .. Len(wire) : wire[n].to \in Nat
    BY WireIsTyped
  <2>2. \A n \in 1 .. Len(wire) : wire[n].to > v => wire[n].to >= lastApplied'
    BY <1>2, <1>5, <2>1
  <2> QED
    BY <1>2, <1>4, <2>2 DEF NothingOlderPasses
<1>10. BridgeIsSound' /\ Phases' /\ SubscribedIsHeard'
  <2>1. ~synced /\ subscribed /\ member /\ subscribed' /\ member'
    BY <1>1 DEF IInv, Phases
  <2>2. (driver' = "idle" /\ synced') \/ (driver' = "bridge" /\ ~synced' /\ remaining' = gap /\ gap # {})
    BY <1>1, <2>1 DEF Synced
  <2> QED
    BY <1>2, <1>5, <2>1, <2>2 DEF BridgeIsSound, Phases, SubscribedIsHeard
<1> QED
  BY <1>2, <1>7, <1>8, <1>9, <1>10 DEF IInv

LEMMA RotationSnapshotKeeps ==
    ASSUME IInv, NEW v \in 0 .. MaxVersion, RotationSnapshot(v) PROVE IInv'
<1> USE DEF RotationSnapshot, exchVars
<1>1. ver \in Nat /\ v \in 0 .. ver /\ v # None
  BY BookSyncAssumption DEF IInv, TypeOK
<1>2. lastU' = v
  BY DEF RotationU
<1>3. TypeOK'
  <2>1. book' \subseteq 1 .. ver'
    BY <1>1
  <2> QED BY <1>1, <1>2, <2>1 DEF IInv, TypeOK
<1>4. PushesInOrder'
  BY DEF IInv, PushesInOrder, Proper
<1>5. Labelled(book, lastApplied)'
  BY <1>1 DEF Labelled
<1>6. NothingOlderPasses'
  <2>1. \A n \in 1 .. Len(wire) : wire[n].to \in Nat
    BY WireIsTyped
  <2> QED BY <1>1, <1>2, <2>1 DEF NothingOlderPasses
<1>7. BridgeIsSound' /\ Phases' /\ SubscribedIsHeard'
  BY <1>1, <1>2 DEF IInv, BridgeIsSound, Phases, SubscribedIsHeard
<1> QED
  BY <1>3, <1>4, <1>5, <1>6, <1>7 DEF IInv

\* The end of a bootstrap by way of the bridge, however the bridge has gone.
LEMMA BridgeEndsKeeps ==
    ASSUME IInv, driver = "bridge", NEW v \in 0 .. ver, NEW reflected,
           Labelled(reflected, v) \/ (reflected \subseteq 1 .. v /\ Chain(remaining, v) # {}),
           lastU' \in 0 .. ver, failed' \in BOOLEAN, failed => failed',
           \A n \in 1 .. Len(wire) : wire[n].to > lastU' => wire[n].to >= v,
           BridgeEnds(reflected, v)
    PROVE  IInv'
<1> DEFINE c == Chain(remaining, v)
<1>1. /\ book' = reflected \cup Diffs(c) /\ lastApplied' = Upto(c, v) /\ Synced
      /\ UNCHANGED <<ver, sent, wire, subscribed, member, askedAt>>
  BY DEF BridgeEnds, exchVars
<1>2. remaining \in SUBSET pending /\ ver \in Nat
  BY BookSyncAssumption DEF IInv, TypeOK
<1>3. /\ v \in 0 .. MaxVersion /\ Ranges(remaining) /\ Upto(c, v) \in v .. ver
      /\ \A n \in 1 .. Len(wire) : wire[n].to >= v => wire[n].to >= Upto(c, v)
  BY <1>2, ChainIsSent
<1>4. Labelled(reflected \cup Diffs(c), Upto(c, v))
  BY <1>3, AppliedChain
<1> HIDE DEF c
<1>5. Labelled(book, lastApplied)'
  BY <1>1, <1>4 DEF Labelled
<1>6. lastApplied' \in 0 .. ver
  BY <1>1, <1>2, <1>3
<1>7. /\ synced' = TRUE /\ pending' = {} /\ remaining' = {} /\ driver' = "idle"
  BY <1>1 DEF Synced
<1>8. TypeOK'
  <2>1. book' \subseteq 1 .. ver'
    <3>1. 1 .. lastApplied' \subseteq 1 .. ver
      BY <1>2, <1>6
    <3> QED BY <1>1, <1>5, <3>1 DEF Labelled
  <2>2. subscribed' \in BOOLEAN /\ member' \in BOOLEAN /\ failed' \in BOOLEAN
    BY <1>1 DEF IInv, TypeOK
  <2> QED
    BY <1>1, <1>6, <1>7, <2>1, <2>2 DEF IInv, TypeOK
<1>9. PushesInOrder'
  BY <1>1, <1>7 DEF IInv, PushesInOrder, Proper
<1>10. NothingOlderPasses'
  BY <1>1, <1>3 DEF NothingOlderPasses
<1>11. BridgeIsSound' /\ Phases' /\ SubscribedIsHeard'
  <2>1. ~synced /\ subscribed /\ member /\ lastU' # None
    BY <1>2, BookSyncAssumption DEF IInv, Phases
  <2> QED
    BY <1>1, <1>7, <2>1 DEF BridgeIsSound, Phases, SubscribedIsHeard
<1> QED
  BY <1>5, <1>8, <1>9, <1>10, <1>11 DEF IInv

\* The commits up to version w fill the book up to w or not at all.
LEMMA BridgedUIs ==
    ASSUME IInv, driver = "bridge", NEW w \in 0 .. ver
    PROVE  LET u == BridgedU(Recovered(w))
           IN  /\ u \in lastApplied .. ver
               /\ book \cup Recovered(w) = 1 .. u
<1> DEFINE R == Recovered(w)
<1>1. book = 1 .. lastApplied /\ lastApplied \in 0 .. ver /\ ver \in Nat /\ MaxCommits \in Nat
  BY BookSyncAssumption DEF IInv, BridgeIsSound, TypeOK
<1>2. CASE lastApplied + 1 > w - MaxCommits /\ w > lastApplied
  <2>1. R = lastApplied + 1 .. w
    BY <1>2 DEF Recovered
  <2> HIDE DEF R
  <2>2. R \cup {lastApplied} \in SUBSET Nat /\ w \in R \cup {lastApplied} /\ w \in Nat
        /\ \A y \in R \cup {lastApplied} : y <= w
    BY <1>1, <1>2, <2>1
  <2>3. Top(R \cup {lastApplied}) = w
    BY <2>2, TopIs
  <2>4. 1 .. lastApplied \cup R = 1 .. w
    BY <1>1, <1>2, <2>1
  <2>5. w \in lastApplied .. ver
    BY <1>1, <1>2
  <2> QED BY <1>1, <2>3, <2>4, <2>5 DEF BridgedU, R
<1>3. CASE ~(lastApplied + 1 > w - MaxCommits /\ w > lastApplied)
  <2>1. R = {}
    BY <1>1, <1>3 DEF Recovered
  <2> HIDE DEF R
  <2>2. R \cup {lastApplied} \in SUBSET Nat /\ lastApplied \in R \cup {lastApplied}
        /\ lastApplied \in Nat /\ \A y \in R \cup {lastApplied} : y <= lastApplied
    BY <1>1, <2>1
  <2>3. Top(R \cup {lastApplied}) = lastApplied
    BY <2>2, TopIs
  <2> QED BY <1>1, <2>1, <2>3 DEF BridgedU, R
<1> QED
  BY <1>2, <1>3

LEMMA BridgeCommitsKeeps ==
    ASSUME IInv, NEW w \in 0 .. MaxVersion, BridgeCommits(w) PROVE IInv'
<1> DEFINE u == BridgedU(Recovered(w))
<1>1. /\ driver = "bridge" /\ w \in askedAt .. ver /\ lastU' = u /\ failed' = failed
      /\ BridgeEnds(book \cup Recovered(w), u)
  BY DEF BridgeCommits, BridgedU
<1>2. w \in 0 .. ver /\ ver \in Nat /\ lastApplied \in Nat
  BY <1>1, BookSyncAssumption DEF IInv, TypeOK
<1>3. u \in lastApplied .. ver /\ book \cup Recovered(w) = 1 .. u
  BY <1>1, <1>2, BridgedUIs
<1> HIDE DEF u
<1>4. u \in 0 .. ver /\ Labelled(1 .. u, u)
  BY <1>2, <1>3 DEF Labelled
<1>5. \A n \in 1 .. Len(wire) : wire[n].to > lastU' => wire[n].to >= u
  BY <1>1, <1>4, WireIsTyped
<1>6. failed' \in BOOLEAN /\ lastU' \in 0 .. ver
  BY <1>1, <1>4 DEF IInv, TypeOK
<1> QED
  BY <1>1, <1>3, <1>4, <1>5, <1>6, BridgeEndsKeeps

LEMMA BridgeEmptyKeeps ==
    ASSUME IInv, BridgeEmpty PROVE IInv'
<1>1. /\ driver = "bridge" /\ failed' = TRUE /\ BridgeEnds(book, lastApplied) /\ lastU' = lastU
  BY DEF BridgeEmpty
<1>2. lastU # None /\ lastU' \in 0 .. ver /\ lastApplied \in 0 .. ver
  BY <1>1 DEF IInv, TypeOK, BridgeIsSound
<1>3. Labelled(book, lastApplied)
  BY DEF IInv
<1>4. \A n \in 1 .. Len(wire) : wire[n].to > lastU' => wire[n].to >= lastApplied
  BY <1>1, <1>2 DEF IInv, NothingOlderPasses
<1> QED
  BY <1>1, <1>2, <1>3, <1>4, BridgeEndsKeeps

\* The oldest push above the gap follows the version before it.
LEMMA BridgeFailsKeeps ==
    ASSUME IInv, BridgeFails PROVE IInv'
<1> DEFINE T == {p.to : p \in remaining}
           oldest == Min(T)
<1>1. /\ driver = "bridge" /\ failed' = TRUE /\ lastU' = oldest - 1
      /\ BridgeEnds(book, oldest - 1)
  BY DEF BridgeFails
<1>2. remaining # {} /\ remaining \subseteq pending /\ book = 1 .. lastApplied
  BY <1>1 DEF IInv, BridgeIsSound, TypeOK
<1>3. lastApplied \in Nat /\ ver \in Nat /\ sent \in Nat /\ sent <= ver
  BY BookSyncAssumption DEF IInv, TypeOK
<1>4. \A p \in remaining : p.to \in Nat /\ p.to > lastApplied /\ p.to <= ver
  <2>1. \A p \in remaining : p \in Push /\ p.to <= sent /\ p.to > lastApplied
    BY <1>1, <1>2 DEF IInv, PushesInOrder, Proper, TypeOK, BridgeIsSound
  <2>2. \A q \in Push : q.to \in Nat
    BY DEF Push, Versions
  <2> QED BY <1>3, <2>1, <2>2
<1>5. T \in SUBSET Nat /\ T # {}
  BY <1>2, <1>4
<1>6. oldest \in T
  <2> HIDE DEF T
  <2> QED BY <1>5, MinExists
<1>7. PICK p \in remaining : p.to = oldest
  BY <1>6
<1> HIDE DEF oldest, T
<1>8. oldest \in Nat /\ oldest > lastApplied /\ oldest <= ver
  BY <1>4, <1>7
<1>9. oldest - 1 \in 0 .. ver /\ oldest - 1 \in Nat /\ lastApplied <= oldest - 1
  BY <1>3, <1>8
<1>10. book \subseteq 1 .. (oldest - 1)
  BY <1>2, <1>3, <1>9
<1>11. p \in Chain(remaining, oldest - 1)
  <2>1. \A x \in (oldest - 1) + 1 .. p.to : x = p.to
    BY <1>7, <1>8
  <2> QED BY <1>7, <1>8, <2>1 DEF Chain
<1>12. \A n \in 1 .. Len(wire) : wire[n].to > lastU' => wire[n].to >= oldest - 1
  BY <1>1, <1>9, WireIsTyped
<1> QED
  BY <1>1, <1>9, <1>10, <1>11, <1>12, BridgeEndsKeeps

LEMMA NextIInv ==
    IInv /\ [Next]_vars => IInv'
<1>1. ASSUME IInv, Rest PROVE IInv'
  BY <1>1, SnapshotFailsKeeps, BridgeEmptyKeeps, BridgeFailsKeeps, RotationFailsKeeps,
     SnapshotKeeps, BridgeCommitsKeeps, RotationSnapshotKeeps DEF Rest
<1>2. ASSUME IInv, UNCHANGED vars PROVE IInv'
  BY <1>2 DEF vars, exchVars, bookVars, taskVars, IInv, TypeOK, PushesInOrder, Proper, Labelled,
              NothingOlderPasses, BridgeIsSound, Phases, SubscribedIsHeard
<1> QED
  BY <1>1, <1>2, ChangeKeeps, SendPushKeeps, OnDepthKeeps, AskSnapshotKeeps, RotateInKeeps,
     RotateOutKeeps DEF Next

-----------------------------------------------------------------------------
(* Theorems                                                                *)

\* The inductive invariant holds in every reachable state, whatever the
\* exchange, the wire, the REST calls and the rotation do.
THEOREM InductiveInvariant ==
    Spec => []IInv
<1> QED
  BY InitIInv, NextIInv, PTL DEF Spec

\* last_applied_version, under which the runner stores the book, is always
\* the newest version the book reflects: validate, discard, bridge and
\* rotation let no older push be applied over a newer state.
THEOREM LabelIsNewest ==
    Spec => []VersionLabelsBook
<1>1. IInv => VersionLabelsBook
  <2>1. IInv => TypeOK /\ lastApplied \in Nat /\ Labelled(book, lastApplied)
    BY BookSyncAssumption DEF IInv, TypeOK
  <2> QED BY <2>1, LabelledTop DEF VersionLabelsBook
<1> QED
  BY <1>1, InductiveInvariant, PTL

\* As long as no REST call has failed, the symbols subscribed at the
\* WebSocket and the symbols that on_depth listens to are the same, except
\* while the snapshot of a rotation is awaited.
THEOREM SubscriptionsAgree ==
    Spec => []SubscribedIsHeard
<1>1. IInv => SubscribedIsHeard
  BY DEF IInv
<1> QED
  BY <1>1, InductiveInvariant, PTL

\* The step that ends a bootstrap leaves a book without a hole.
LEMMA HandOver ==
    ASSUME IInv, [Next]_vars, ~synced, synced', ~failed'
    PROVE  book' = 1 .. Top(book')
<1>1. \A u \in Nat : Top(1 .. u) = u
  <2>1. SUFFICES ASSUME NEW u \in Nat PROVE Top(1 .. u) = u
    OBVIOUS
  <2>2. Labelled(1 .. u, u)
    BY DEF Labelled
  <2> QED BY <2>2, LabelledTop
<1>2. driver \notin {"idle", "rotation"}
  BY DEF IInv, Phases
<1>3. (\E v \in 0 .. MaxVersion : Snapshot(v)) \/ (\E w \in 0 .. MaxVersion : BridgeCommits(w))
  BY <1>2 DEF Next, Rest, OnDepth, Change, SendPush, DropForeign, Buffer, DropStale, Apply, Arrive,
     AskSnapshot, SnapshotFails, BridgeEmpty, BridgeFails, RotationFails, RotationSnapshot,
     RotateIn, RotateOut, vars
<1>4. ASSUME NEW v \in 0 .. MaxVersion, Snapshot(v) PROVE book' = 1 .. Top(book')
  <2>1. book' = 1 .. lastApplied' /\ lastApplied' \in v .. ver
    BY <1>4, SnapshotBook
  <2>2. lastApplied' \in Nat
    BY <2>1, BookSyncAssumption
  <2> QED BY <1>1, <2>1, <2>2
<1>5. ASSUME NEW w \in 0 .. MaxVersion, BridgeCommits(w) PROVE book' = 1 .. Top(book')
  <2> DEFINE u == BridgedU(Recovered(w))
             c == Chain(remaining, u)
  <2>1. /\ driver = "bridge" /\ w \in askedAt .. ver
        /\ book' = (book \cup Recovered(w)) \cup Diffs(c)
    BY <1>5 DEF BridgeCommits, BridgeEnds, BridgedU
  <2>2. w \in 0 .. ver /\ ver \in Nat /\ lastApplied \in Nat /\ remaining \in SUBSET pending
    BY <2>1, BookSyncAssumption DEF IInv, TypeOK
  <2>3. u \in lastApplied .. ver /\ book \cup Recovered(w) = 1 .. u
    BY <2>1, <2>2, BridgedUIs
  <2> HIDE DEF u
  <2>4. u \in 0 .. ver /\ Labelled(1 .. u, u)
    BY <2>2, <2>3 DEF Labelled
  <2>5. u \in 0 .. MaxVersion /\ Ranges(remaining) /\ Upto(c, u) \in u .. ver
    BY <2>2, <2>4, ChainIsSent
  <2>6. 1 .. u \cup Diffs(c) = 1 .. Upto(c, u)
    BY <2>4, <2>5, AppliedChain
  <2>7. Upto(c, u) \in Nat
    BY <2>2, <2>4, <2>5
  <2> HIDE DEF c
  <2> QED BY <1>1, <2>1, <2>3, <2>6, <2>7
<1> QED
  BY <1>3, <1>4, <1>5

\* _bootstrap_symbol hands over a book without holes unless a REST call
\* failed: discarding, strict +1 order and bridge lose nothing in between.
THEOREM NoHoleHandedOver ==
    Spec => HandOverWithoutHoles
<1> DEFINE A == ~synced /\ synced' /\ ~failed' => book' = 1 .. Top(book')
<1>1. IInv /\ [Next]_vars => [A]_vars
  BY HandOver
<1> HIDE DEF A
<1>2. Spec => [][A]_vars
  BY <1>1, InductiveInvariant, PTL DEF Spec
<1> QED
  BY <1>2 DEF A, HandOverWithoutHoles
=============================================================================
