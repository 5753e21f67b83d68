------------------------ MODULE EmergencyClose_proof ------------------------
(***************************************************************************)
(* Proofs about EmergencyClose, for any number of symbols, callers, tasks  *)
(* and attempts, and whatever the gateway and the table do.                *)
(***************************************************************************)
EXTENDS EmergencyClose, FiniteSetTheorems, TLAPS

-----------------------------------------------------------------------------
(* The inductive invariant                                                 *)

IsLive(t) == task[t] # None /\ task[t].pc \in Live
InProgress == {t \in Tasks : task[t] # None /\ task[t].pc \in InBody}

\* A task is in _tasks from its creation to its end, and an entry of _tasks
\* names a task of its symbol.
LiveIsRegistered == \A t \in Tasks : IsLive(t) => registry[task[t].sym] = t

RegistryNames ==
    \A s \in Symbols : registry[s] # None =>
        task[registry[s]] # None /\ task[registry[s]].sym = s

WaitsForTask == \A c \in Callers : waits[c] # None => task[waits[c]] # None

\* The FlushController counts the bodies in progress.
FlushCounts == counter = Cardinality(InProgress) /\ (resumed <=> counter = 0)

\* A result that says closed has been earned, and only such a task goes on to
\* write its outcome.
ResultEarned ==
    \A t \in Tasks : task[t] # None =>
        /\ task[t].result \in {Closed, Forced} => exch[task[t].sym] = "flat"
        /\ task[t].pc = "dbclose" => task[t].result \in {Closed, Forced}

IInv == /\ TypeOK /\ LiveIsRegistered /\ RegistryNames /\ WaitsForTask
        /\ FlushCounts /\ ResultEarned /\ ClosedRowIsFlat

LEMMA InitIInv == Init => IInv
<1> SUFFICES ASSUME Init PROVE IInv
  OBVIOUS
<1> USE EmergencyAssumption DEF Init
<1>1. TypeOK
  <2>1. row \in [Symbols -> Row \cup {None}]
    <3>1. [status |-> "open", pending |-> FALSE] \in Row
      <4>1. FALSE \in BOOLEAN /\ "open" \in {"open", "closed"}
        OBVIOUS
      <4> QED
        BY <4>1, Zenon DEF Row
    <3> HIDE DEF Row
    <3> QED
      BY <3>1
  <2>2. /\ registry \in [Symbols -> Tasks \cup {None}]
        /\ task \in [Tasks -> Task \cup {None}]
        /\ waits \in [Callers -> Tasks \cup {None}]
        /\ exch \in [Symbols -> {"open", "flat"}]
    OBVIOUS
  <2>3. counter \in Nat
    OBVIOUS
  <2>4. resumed \in BOOLEAN
    BY Zenon
  <2> QED
    BY <2>1, <2>2, <2>3, <2>4 DEF TypeOK
<1>2. LiveIsRegistered /\ RegistryNames /\ WaitsForTask /\ ResultEarned /\ ClosedRowIsFlat
  BY DEF LiveIsRegistered, RegistryNames, WaitsForTask, ResultEarned, ClosedRowIsFlat, IsLive
<1>3. FlushCounts
  <2>1. InProgress = {}
    BY DEF InProgress
  <2> QED
    BY <2>1, FS_EmptySet DEF FlushCounts
<1> QED
  BY <1>1, <1>2, <1>3 DEF IInv

-----------------------------------------------------------------------------
(* A task that moves                                                       *)

\* Task t takes the value u: of the same symbol, and not alive again.
Moves(t, u) ==
    /\ task[t] # None /\ u \in Task /\ u.sym = task[t].sym
    /\ u.pc \in Live => task[t].pc \in Live
    /\ task' = [task EXCEPT ![t] = u]

\* A flat position stays flat.
StaysFlat ==
    /\ exch' \in [Symbols -> {"open", "flat"}]
    /\ \A s \in Symbols : exch[s] = "flat" => exch'[s] = "flat"

\* A moving task keeps its entry of _tasks, and its callers.
LEMMA MoveKeepsRegistry ==
    ASSUME IInv, NEW t \in Tasks, NEW u, Moves(t, u), UNCHANGED registry,
           waits' \in [Callers -> Tasks \cup {None}],
           \A c \in Callers : waits'[c] # None => task[waits'[c]] # None
    PROVE  /\ task' \in [Tasks -> Task \cup {None}]
           /\ LiveIsRegistered' /\ RegistryNames' /\ WaitsForTask'
<1> USE EmergencyAssumption DEF IInv, Moves
<1>1. u # None /\ task \in [Tasks -> Task \cup {None}]
  BY DEF TypeOK
<1>2. /\ task' \in [Tasks -> Task \cup {None}]
      /\ \A v \in Tasks : task'[v] = IF v = t THEN u ELSE task[v]
  BY <1>1
<1>3. LiveIsRegistered'
  BY <1>1, <1>2 DEF LiveIsRegistered, IsLive
<1>4. RegistryNames'
  BY <1>1, <1>2 DEF RegistryNames, TypeOK
<1>5. WaitsForTask'
  BY <1>1, <1>2 DEF WaitsForTask
<1> QED
  BY <1>2, <1>3, <1>4, <1>5

\* The bodies in progress after the move.
LEMMA MoveInProgress ==
    ASSUME IInv, NEW t \in Tasks, NEW u, Moves(t, u)
    PROVE  /\ InProgress' = IF u.pc \in InBody THEN InProgress \cup {t} ELSE InProgress \ {t}
           /\ t \in InProgress <=> task[t].pc \in InBody
           /\ IsFiniteSet(InProgress) /\ Cardinality(InProgress) \in Nat
<1> USE EmergencyAssumption DEF IInv, Moves
<1>1. u # None /\ task \in [Tasks -> Task \cup {None}]
  BY DEF TypeOK
<1>2. \A v \in Tasks : task'[v] = IF v = t THEN u ELSE task[v]
  BY <1>1
<1>3. InProgress' = IF u.pc \in InBody THEN InProgress \cup {t} ELSE InProgress \ {t}
  BY <1>1, <1>2 DEF InProgress
<1>4. t \in InProgress <=> task[t].pc \in InBody
  BY DEF InProgress
<1>5. IsFiniteSet(InProgress) /\ Cardinality(InProgress) \in Nat
  BY FS_Subset, FS_CardinalityType DEF InProgress
<1> QED
  BY <1>3, <1>4, <1>5

\* Neither suspended nor resumed while the body goes on, or before it starts.
LEMMA FlushStays ==
    ASSUME IInv, NEW t \in Tasks, NEW u, Moves(t, u), UNCHANGED flushVars,
           u.pc \in InBody <=> task[t].pc \in InBody
    PROVE  counter' \in Nat /\ resumed' \in BOOLEAN /\ FlushCounts'
<1>1. InProgress' = InProgress
  BY MoveInProgress
<1> QED
  BY <1>1 DEF FlushCounts, IInv, TypeOK, flushVars

\* A body that starts suspends the flush.
LEMMA FlushSuspends ==
    ASSUME IInv, NEW t \in Tasks, NEW u, Moves(t, u), Suspend,
           u.pc \in InBody, task[t].pc \notin InBody
    PROVE  counter' \in Nat /\ resumed' \in BOOLEAN /\ FlushCounts'
<1>1. Cardinality(InProgress') = Cardinality(InProgress) + 1 /\ Cardinality(InProgress) \in Nat
  BY MoveInProgress, FS_AddElement
<1>2. counter = Cardinality(InProgress) /\ (resumed <=> counter = 0) /\ resumed \in BOOLEAN
  BY DEF IInv, FlushCounts, TypeOK
<1>3. counter' = counter + 1 /\ counter' # 0
  BY <1>1, <1>2 DEF Suspend
<1>4. resumed' \in BOOLEAN /\ (resumed' <=> FALSE)
  BY <1>2 DEF Suspend
<1> QED
  BY <1>1, <1>2, <1>3, <1>4 DEF FlushCounts

\* A body that ends resumes it, for the last one.
LEMMA FlushResumes ==
    ASSUME IInv, NEW t \in Tasks, NEW u, Moves(t, u), Resume,
           u.pc \notin InBody, task[t].pc \in InBody
    PROVE  counter' \in Nat /\ resumed' \in BOOLEAN /\ FlushCounts'
<1>1. /\ Cardinality(InProgress') = Cardinality(InProgress) - 1
      /\ Cardinality(InProgress) \in Nat /\ Cardinality(InProgress) # 0
  BY MoveInProgress, FS_RemoveElement, FS_EmptySet
<1>2. counter = Cardinality(InProgress) /\ (resumed <=> counter = 0) /\ resumed \in BOOLEAN
  BY DEF IInv, FlushCounts, TypeOK
<1>3. counter' = counter - 1 /\ counter' \in Nat
  BY <1>1, <1>2 DEF Resume
<1>4. CASE counter = 1
  <2>1. resumed' = TRUE /\ counter' = 0
    BY <1>3, <1>4 DEF Resume
  <2> QED
    BY <1>1, <1>2, <1>3, <2>1 DEF FlushCounts
<1>5. CASE counter # 1
  <2>1. counter > 1 /\ counter' # 0
    BY <1>1, <1>2, <1>3, <1>5
  <2>2. ~(counter <= 1)
    BY <2>1, <1>1, <1>2
  <2>3. resumed' = resumed
    BY <2>2 DEF Resume
  <2>4. resumed' = FALSE
    BY <2>1, <2>3, <1>2, <1>1
  <2> QED
    BY <1>1, <1>2, <1>3, <2>1, <2>4 DEF FlushCounts
<1> QED
  BY <1>4, <1>5

\* No move gives a result that is not earned.
LEMMA MoveKeepsResults ==
    ASSUME IInv, NEW t \in Tasks, NEW u, Moves(t, u), StaysFlat,
           u.result \in {Closed, Forced} => exch'[u.sym] = "flat",
           u.pc = "dbclose" => u.result \in {Closed, Forced}
    PROVE  ResultEarned'
<1> USE EmergencyAssumption DEF IInv, Moves
<1>1. u # None /\ task \in [Tasks -> Task \cup {None}]
  BY DEF TypeOK
<1>2. \A v \in Tasks : task'[v] = IF v = t THEN u ELSE task[v]
  BY <1>1
<1>3. \A v \in Tasks : task[v] # None => task[v].sym \in Symbols
  BY <1>1 DEF Task
<1> QED
  BY <1>1, <1>2, <1>3 DEF ResultEarned, StaysFlat

\* The rows stay as they are, and no position opens.
LEMMA RowsKeepFlat ==
    ASSUME IInv, StaysFlat, UNCHANGED row
    PROVE  row' \in [Symbols -> Row \cup {None}] /\ ClosedRowIsFlat'
BY DEF IInv, TypeOK, ClosedRowIsFlat, StaysFlat

LEMMA UnchangedStaysFlat == ASSUME IInv, UNCHANGED exch PROVE StaysFlat
BY DEF IInv, TypeOK, StaysFlat

LEMMA LostAnswerStaysFlat ==
    ASSUME IInv, NEW s \in Symbols, LostAnswer(s) PROVE StaysFlat
BY DEF IInv, TypeOK, StaysFlat, LostAnswer

\* Callers still wait for tasks that exist.
WaitsStay ==
    /\ waits' \in [Callers -> Tasks \cup {None}]
    /\ \A c \in Callers : waits'[c] # None => task[waits'[c]] # None

\* The parts that a step keeps when one task moves.
LEMMA MoveKeeps ==
    ASSUME IInv, NEW t \in Tasks, NEW u, Moves(t, u), UNCHANGED registry, WaitsStay,
           counter' \in Nat /\ resumed' \in BOOLEAN /\ FlushCounts',
           StaysFlat,
           u.result \in {Closed, Forced} => exch'[u.sym] = "flat",
           u.pc = "dbclose" => u.result \in {Closed, Forced},
           row' \in [Symbols -> Row \cup {None}], ClosedRowIsFlat'
    PROVE  IInv'
<1>1. /\ task' \in [Tasks -> Task \cup {None}]
      /\ LiveIsRegistered' /\ RegistryNames' /\ WaitsForTask'
  BY MoveKeepsRegistry DEF WaitsStay
<1>2. ResultEarned'
  BY MoveKeepsResults
<1>3. registry' \in [Symbols -> Tasks \cup {None}]
  BY DEF IInv, TypeOK
<1>4. TypeOK'
  BY <1>1, <1>3 DEF TypeOK, StaysFlat, WaitsStay
<1> QED
  BY <1>1, <1>2, <1>4 DEF IInv

\* The same when no caller is concerned.
LEMMA BodyKeeps ==
    ASSUME IInv, NEW t \in Tasks, NEW u, Moves(t, u), UNCHANGED <<registry, waits>>,
           counter' \in Nat /\ resumed' \in BOOLEAN /\ FlushCounts',
           StaysFlat,
           u.result \in {Closed, Forced} => exch'[u.sym] = "flat",
           u.pc = "dbclose" => u.result \in {Closed, Forced},
           row' \in [Symbols -> Row \cup {None}], ClosedRowIsFlat'
    PROVE  IInv'
<1>1. WaitsStay
  BY DEF IInv, TypeOK, WaitsForTask, WaitsStay
<1> QED
  BY <1>1, MoveKeeps

-----------------------------------------------------------------------------
(* Steps                                                                   *)

\* What is known of a task at a step of its body.
LEMMA TaskAt ==
    ASSUME IInv, NEW t \in Tasks, task[t] # None
    PROVE  /\ task[t] \in Task /\ task[t].sym \in Symbols
           /\ task[t].attempt \in 0 .. MaxRetry
           /\ task[t].result \in Results \cup {"cancelled"}
           /\ task[t].result \in {Closed, Forced} => exch[task[t].sym] = "flat"
           /\ task[t].pc = "dbclose" => task[t].result \in {Closed, Forced}
BY DEF IInv, TypeOK, Task, ResultEarned

\* The first step of the body keeps the invariant.
LEMMA StartKeeps == ASSUME IInv, NEW t \in Tasks, Start(t) PROVE IInv'
<1> DEFINE u == [task[t] EXCEPT !.pc = "persist"]
<1>1. task[t] # None /\ task[t].pc = "new"
  BY DEF Start, At
<1>2. Moves(t, u)
  BY <1>1, TaskAt DEF Moves, Start, Goto, Task, Live, InBody
<1>3. u.pc = "persist" /\ u.result = task[t].result /\ u.sym = task[t].sym
  BY <1>1, TaskAt DEF Task
<1>4. counter' \in Nat /\ resumed' \in BOOLEAN /\ FlushCounts'
  BY <1>1, <1>2, <1>3, FlushSuspends DEF Start, InBody
<1>5. StaysFlat /\ UNCHANGED <<registry, waits, row, exch>>
  BY UnchangedStaysFlat DEF Start
<1> QED
  BY <1>1, <1>2, <1>3, <1>4, <1>5, TaskAt, BodyKeeps, RowsKeepFlat

\* The pending mark opens the row, or fails.
LEMMA PersistKeeps == ASSUME IInv, NEW t \in Tasks, Persist(t) PROVE IInv'
<1> DEFINE u == [task[t] EXCEPT !.pc = "post"]
<1>1. task[t] # None /\ task[t].pc = "persist"
  BY DEF Persist, At
<1>2. Moves(t, u)
  BY <1>1, TaskAt DEF Moves, Persist, Goto, Task, Live, InBody
<1>3. u.pc = "post" /\ u.result = task[t].result /\ u.sym = task[t].sym
  BY <1>1, TaskAt DEF Task
<1>4. counter' \in Nat /\ resumed' \in BOOLEAN /\ FlushCounts'
  BY <1>1, <1>2, <1>3, FlushStays DEF Persist, InBody
<1>5. StaysFlat /\ UNCHANGED <<registry, waits, exch>>
  BY UnchangedStaysFlat DEF Persist
<1>6. row' \in [Symbols -> Row \cup {None}] /\ ClosedRowIsFlat'
  <2>1. PendingRow \in Row /\ PendingRow.status = "open"
    BY DEF PendingRow, Row
  <2>2. CASE UNCHANGED row
    BY <2>2, <1>5, RowsKeepFlat
  <2>3. CASE row' = [row EXCEPT ![task[t].sym] = PendingRow]
    BY <2>1, <2>3, <1>5 DEF IInv, TypeOK, ClosedRowIsFlat, StaysFlat
  <2> QED
    BY <2>2, <2>3 DEF Persist, Write
<1> QED
  BY <1>1, <1>2, <1>3, <1>4, <1>5, <1>6, TaskAt, BodyKeeps

\* An attempt, at post or at direct, that ends with this result.
LEMMA AttemptKeeps ==
    ASSUME IInv, NEW t \in Tasks, task[t] # None, task[t].pc \in {"post", "direct"},
           NEW result \in Results, AttemptEnds(t, result), StaysFlat,
           result \in {Closed, Forced} => exch'[task[t].sym] = "flat",
           UNCHANGED <<registry, waits, flushVars, row>>
    PROVE  IInv'
<1> DEFINE u == [task[t] EXCEPT !.pc = NextStep(result), !.result = result]
<1>1. NextStep(result) \in {"sleep", "dbclose"}
      /\ (NextStep(result) = "dbclose" => result \in {Closed, Forced})
  BY DEF NextStep, Results
<1>2. Moves(t, u)
  BY <1>1, TaskAt DEF Moves, AttemptEnds, Task, Live, InBody
<1>3. u.pc = NextStep(result) /\ u.result = result /\ u.sym = task[t].sym
  BY TaskAt DEF Task
<1>4. counter' \in Nat /\ resumed' \in BOOLEAN /\ FlushCounts'
  BY <1>1, <1>2, <1>3, FlushStays DEF InBody
<1> QED
  BY <1>1, <1>2, <1>3, <1>4, BodyKeeps, RowsKeepFlat

\* post_market_order keeps the invariant, whatever its outcome.
LEMMA PostKeeps == ASSUME IInv, NEW t \in Tasks, Post(t) PROVE IInv'
<1>1. /\ task[t] # None /\ task[t].pc = "post"
      /\ UNCHANGED <<registry, waits, flushVars, row>>
  BY DEF Post, At
<1>2. CASE /\ exch' = [exch EXCEPT ![task[t].sym] = "flat"]
           /\ AttemptEnds(t, Closed) \/ AttemptEnds(t, Forced)
  <2>1. StaysFlat /\ exch'[task[t].sym] = "flat"
    BY <1>1, <1>2, TaskAt DEF StaysFlat, IInv, TypeOK
  <2> QED
    BY <1>1, <1>2, <2>1, AttemptKeeps DEF Results
<1>3. CASE AttemptEnds(t, Failed) /\ (UNCHANGED exch \/ LostAnswer(task[t].sym))
  <2>1. StaysFlat
    BY <1>1, <1>3, TaskAt, UnchangedStaysFlat, LostAnswerStaysFlat
  <2>2. Failed \in Results /\ Failed \notin {Closed, Forced}
    BY DEF Failed, Results, Closed, Forced
  <2> QED
    BY <1>1, <1>3, <2>1, <2>2, AttemptKeeps
<1>4. CASE Goto(t, "direct") /\ LostAnswer(task[t].sym)
  <2> DEFINE u == [task[t] EXCEPT !.pc = "direct"]
  <2>1. Moves(t, u)
    BY <1>1, <1>4, TaskAt DEF Moves, Goto, Task, Live, InBody
  <2>2. u.pc = "direct" /\ u.result = task[t].result /\ u.sym = task[t].sym
    BY <1>1, TaskAt DEF Task
  <2>3. counter' \in Nat /\ resumed' \in BOOLEAN /\ FlushCounts'
    BY <1>1, <2>1, <2>2, FlushStays DEF InBody
  <2>4. StaysFlat
    BY <1>1, <1>4, TaskAt, LostAnswerStaysFlat
  <2>5. u.result \in {Closed, Forced} => exch'[u.sym] = "flat"
    BY <1>1, <2>2, <2>4, TaskAt DEF StaysFlat
  <2> QED
    BY <1>1, <2>1, <2>2, <2>3, <2>4, <2>5, BodyKeeps, RowsKeepFlat
<1> QED
  BY <1>2, <1>3, <1>4 DEF Post

\* _direct_market_post likewise.
LEMMA DirectKeeps == ASSUME IInv, NEW t \in Tasks, Direct(t) PROVE IInv'
<1>1. /\ task[t] # None /\ task[t].pc = "direct"
      /\ UNCHANGED <<registry, waits, flushVars, row>>
  BY DEF Direct, At
<1>2. CASE exch' = [exch EXCEPT ![task[t].sym] = "flat"] /\ AttemptEnds(t, Forced)
  <2>1. StaysFlat /\ exch'[task[t].sym] = "flat"
    BY <1>1, <1>2, TaskAt DEF StaysFlat, IInv, TypeOK
  <2> QED
    BY <1>1, <1>2, <2>1, AttemptKeeps DEF Results
<1>3. CASE AttemptEnds(t, Failed) /\ LostAnswer(task[t].sym)
  <2>1. StaysFlat
    BY <1>1, <1>3, TaskAt, LostAnswerStaysFlat
  <2>2. Failed \in Results /\ Failed \notin {Closed, Forced}
    BY DEF Failed, Results, Closed, Forced
  <2> QED
    BY <1>1, <1>3, <2>1, <2>2, AttemptKeeps
<1> QED
  BY <1>2, <1>3 DEF Direct

\* A retry, or the end after the last one.
LEMMA SleepKeeps == ASSUME IInv, NEW t \in Tasks, Sleep(t) PROVE IInv'
<1>1. /\ task[t] # None /\ task[t].pc = "sleep"
      /\ UNCHANGED <<registry, waits, row, exch>>
  BY DEF Sleep, At
<1>2. StaysFlat
  BY <1>1, UnchangedStaysFlat
<1>3. CASE task[t].attempt < MaxRetry
  <2> DEFINE u == [task[t] EXCEPT !.pc = "post", !.attempt = @ + 1]
  <2>1. task[t].attempt + 1 \in 0 .. MaxRetry
    BY <1>1, <1>3, TaskAt, EmergencyAssumption
  <2>2. Moves(t, u) /\ UNCHANGED flushVars
    BY <1>1, <1>3, <2>1, TaskAt DEF Moves, Sleep, Task, Live, InBody
  <2>3. u.pc = "post" /\ u.result = task[t].result /\ u.sym = task[t].sym
    BY <1>1, TaskAt DEF Task
  <2>4. counter' \in Nat /\ resumed' \in BOOLEAN /\ FlushCounts'
    BY <1>1, <2>2, <2>3, FlushStays DEF InBody
  <2> QED
    BY <1>1, <1>2, <2>2, <2>3, <2>4, TaskAt, BodyKeeps, RowsKeepFlat
<1>4. CASE ~(task[t].attempt < MaxRetry)
  <2> DEFINE u == [task[t] EXCEPT !.pc = "done", !.result = Failed]
  <2>1. Failed \in Results /\ Failed \notin {Closed, Forced}
    BY DEF Failed, Results, Closed, Forced
  <2>2. Moves(t, u) /\ Resume
    BY <1>1, <1>4, <2>1, TaskAt DEF Moves, Sleep, Finish, Task, Live, InBody
  <2>3. u.pc = "done" /\ u.result = Failed /\ u.sym = task[t].sym
    BY <1>1, TaskAt DEF Task
  <2>4. counter' \in Nat /\ resumed' \in BOOLEAN /\ FlushCounts'
    BY <1>1, <2>2, <2>3, FlushResumes DEF InBody
  <2> QED
    BY <1>1, <1>2, <2>1, <2>2, <2>3, <2>4, BodyKeeps, RowsKeepFlat
<1> QED
  BY <1>3, <1>4

\* The row is closed by a task whose result is earned.
LEMMA CloseInDbKeeps == ASSUME IInv, NEW t \in Tasks, CloseInDb(t) PROVE IInv'
<1> DEFINE u == [task[t] EXCEPT !.pc = "done", !.result = task[t].result]
<1>1. /\ task[t] # None /\ task[t].pc = "dbclose"
      /\ UNCHANGED <<registry, waits, exch>>
  BY DEF CloseInDb, At
<1>2. Moves(t, u) /\ Resume
  BY <1>1, TaskAt DEF Moves, CloseInDb, Finish, Task, Live, InBody
<1>3. u.pc = "done" /\ u.result = task[t].result /\ u.sym = task[t].sym
  BY <1>1, TaskAt DEF Task
<1>4. counter' \in Nat /\ resumed' \in BOOLEAN /\ FlushCounts'
  BY <1>1, <1>2, <1>3, FlushResumes DEF InBody
<1>5. StaysFlat /\ exch[task[t].sym] = "flat"
  BY <1>1, TaskAt, UnchangedStaysFlat
<1>6. row' \in [Symbols -> Row \cup {None}] /\ ClosedRowIsFlat'
  <2> DEFINE s == task[t].sym
  <2>1. s \in Symbols /\ row[s] \in Row \cup {None}
    BY <1>1, TaskAt DEF IInv, TypeOK
  <2>2. ClosedRow(row[s]) \in Row \cup {None}
    BY <2>1 DEF ClosedRow, Row
  <2>3. CASE UNCHANGED row
    BY <2>3, <1>5, RowsKeepFlat
  <2>4. CASE row' = [row EXCEPT ![s] = ClosedRow(row[s])]
    <3>1. row \in [Symbols -> Row \cup {None}]
      BY DEF IInv, TypeOK
    <3>2. \A v \in Symbols : row'[v] = IF v = s THEN ClosedRow(row[s]) ELSE row[v]
      BY <2>4, <3>1
    <3>3. row' \in [Symbols -> Row \cup {None}]
      BY <2>1, <2>2, <2>4, <3>1
    <3>4. ClosedRowIsFlat'
      BY <1>1, <1>5, <3>2 DEF ClosedRowIsFlat, IInv
    <3> QED
      BY <3>3, <3>4
  <2> QED
    BY <2>3, <2>4 DEF CloseInDb, Write
<1> QED
  BY <1>1, <1>2, <1>3, <1>4, <1>5, <1>6, TaskAt, BodyKeeps

\* emergency_close_with_retry keeps the invariant: a new task takes the place
\* of one that has ended, and is in _tasks before anything else runs.
LEMMA RequestKeeps ==
    ASSUME IInv, NEW c \in Callers, NEW s \in Symbols, Request(c, s) PROVE IInv'
<1> USE EmergencyAssumption DEF IInv
<1>1. /\ registry \in [Symbols -> Tasks \cup {None}]
      /\ task \in [Tasks -> Task \cup {None}]
      /\ waits \in [Callers -> Tasks \cup {None}]
      /\ UNCHANGED <<counter, resumed, row, exch>>
  BY DEF TypeOK, Request, flushVars
<1>2. CASE registry[s] # None
  <2>1. waits' = [waits EXCEPT ![c] = registry[s]] /\ UNCHANGED <<task, registry>>
    BY <1>2 DEF Request
  <2>2. TypeOK'
    BY <1>1, <2>1 DEF TypeOK
  <2>3. LiveIsRegistered' /\ RegistryNames' /\ ResultEarned' /\ ClosedRowIsFlat'
    BY <1>1, <2>1 DEF LiveIsRegistered, RegistryNames, ResultEarned, ClosedRowIsFlat, IsLive
  <2>4. WaitsForTask'
    BY <1>1, <1>2, <2>1 DEF WaitsForTask, RegistryNames
  <2>5. FlushCounts'
    BY <1>1, <2>1 DEF FlushCounts, InProgress
  <2> QED
    BY <2>2, <2>3, <2>4, <2>5
<1>3. CASE registry[s] = None
  <2> DEFINE u == [sym |-> s, pc |-> "new", attempt |-> 0, result |-> Failed]
  <2>1. PICK t \in Tasks :
           /\ Unused(t)
           /\ task' = [task EXCEPT ![t] = u]
           /\ waits' = [waits EXCEPT ![c] = t]
           /\ registry' = [registry EXCEPT ![s] = t]
    BY <1>3 DEF Request
  <2>2. u \in Task /\ u # None
    BY DEF Task, Live, InBody, Results
  <2>3. u.sym = s /\ u.pc = "new" /\ u.result = Failed
    OBVIOUS
  <2> HIDE DEF u
  <2>4. /\ \A v \in Tasks : task'[v] = IF v = t THEN u ELSE task[v]
        /\ \A v \in Symbols : registry'[v] = IF v = s THEN t ELSE registry[v]
        /\ \A v \in Callers : waits'[v] = IF v = c THEN t ELSE waits[v]
    BY <1>1, <2>1
  <2>5. TypeOK'
    BY <1>1, <2>1, <2>2 DEF TypeOK
  <2>6. LiveIsRegistered'
    <3>1. \A v \in Tasks : IsLive(v) => task[v].sym # s
      BY <1>3 DEF LiveIsRegistered
    <3>2. \A v \in Tasks : IsLive(v) => task[v].sym \in Symbols
      BY <1>1 DEF IsLive, Task
    <3>3. \A v \in Tasks : v # t /\ IsLive(v)' => registry'[task'[v].sym] = v
      BY <2>4, <3>1, <3>2 DEF LiveIsRegistered, IsLive
    <3>4. registry'[task'[t].sym] = t
      BY <2>3, <2>4
    <3> QED
      BY <3>3, <3>4 DEF LiveIsRegistered
  <2>7. RegistryNames'
    <3>1. \A v \in Symbols : registry[v] # None => registry[v] # t
      <4>1. CASE task[t] = None
        BY <4>1 DEF RegistryNames
      <4>2. CASE task[t] # None
        BY <4>2, <2>1 DEF Unused
      <4> QED
        BY <4>1, <4>2
    <3> QED
      BY <1>1, <2>2, <2>3, <2>4, <3>1 DEF RegistryNames
  <2>8. WaitsForTask'
    BY <1>1, <2>2, <2>4 DEF WaitsForTask
  <2>9. FlushCounts'
    <3>1. InProgress' = InProgress
      <4>1. task[t] # None => task[t].pc = "done"
        BY <2>1 DEF Unused
      <4>2. "done" \notin InBody /\ "new" \notin InBody
        BY DEF InBody
      <4> QED
        BY <2>3, <2>4, <4>1, <4>2 DEF InProgress
    <3> QED
      BY <1>1, <3>1 DEF FlushCounts
  <2>10. ResultEarned'
    <3>1. Failed \notin {Closed, Forced} /\ "new" # "dbclose"
      BY DEF Failed, Closed, Forced
    <3> QED
      BY <1>1, <2>3, <2>4, <3>1 DEF ResultEarned
  <2>11. ClosedRowIsFlat'
    BY <1>1 DEF ClosedRowIsFlat
  <2> QED
    BY <2>5, <2>6, <2>7, <2>8, <2>9, <2>10, <2>11
<1> QED
  BY <1>2, <1>3

\* A caller that has its answer keeps the invariant.
LEMMA ReturnKeeps == ASSUME IInv, NEW c \in Callers, Return(c) PROVE IInv'
<1> USE EmergencyAssumption DEF IInv, Return, flushVars
<1>1. TypeOK'
  BY DEF TypeOK
<1>2. LiveIsRegistered' /\ RegistryNames' /\ ResultEarned' /\ ClosedRowIsFlat'
  BY DEF LiveIsRegistered, RegistryNames, ResultEarned, ClosedRowIsFlat, IsLive
<1>3. WaitsForTask'
  BY DEF WaitsForTask, TypeOK
<1>4. FlushCounts'
  BY DEF FlushCounts, InProgress
<1> QED
  BY <1>1, <1>2, <1>3, <1>4

\* _done_cb removes a task that has ended, so no live one loses its entry.
LEMMA DoneCallbackKeeps == ASSUME IInv, NEW t \in Tasks, DoneCallback(t) PROVE IInv'
<1> USE EmergencyAssumption DEF IInv, DoneCallback, flushVars
<1>1. TypeOK'
  BY DEF TypeOK
<1>2. "done" \notin Live
  BY DEF Live, InBody
<1>3. LiveIsRegistered'
  BY <1>2 DEF LiveIsRegistered, IsLive, TypeOK, Task
<1>4. RegistryNames' /\ WaitsForTask' /\ ResultEarned' /\ ClosedRowIsFlat'
  BY DEF RegistryNames, WaitsForTask, ResultEarned, ClosedRowIsFlat, TypeOK
<1>5. FlushCounts'
  BY DEF FlushCounts, InProgress
<1> QED
  BY <1>1, <1>3, <1>4, <1>5

\* A cancelled caller takes the shared task with it: its finally clause runs,
\* unless it has not started or has ended.
LEMMA CancelCallerKeeps ==
    ASSUME IInv, NEW c \in Callers, CancelCaller(c) PROVE IInv'
<1> USE EmergencyAssumption
<1> DEFINE t == waits[c]
           u == [task[t] EXCEPT !.pc = "done", !.result = "cancelled"]
<1>1. /\ t \in Tasks /\ task[t] # None
      /\ waits' = [waits EXCEPT ![c] = None] /\ UNCHANGED <<registry, row>>
  BY DEF CancelCaller, IInv, TypeOK, WaitsForTask
<1>2. WaitsStay
  BY <1>1 DEF WaitsStay, IInv, TypeOK, WaitsForTask
<1>3. CASE task[t].pc = "done"
  <2>1. UNCHANGED <<registry, task, counter, resumed, row, exch>>
    BY <1>1, <1>3 DEF CancelCaller, flushVars
  <2>2. TypeOK'
    BY <1>2, <2>1 DEF TypeOK, IInv, WaitsStay
  <2>3. LiveIsRegistered' /\ RegistryNames' /\ ResultEarned' /\ ClosedRowIsFlat'
    BY <2>1 DEF LiveIsRegistered, RegistryNames, ResultEarned, ClosedRowIsFlat, IsLive, IInv
  <2>4. WaitsForTask'
    BY <1>2, <2>1 DEF WaitsForTask, WaitsStay
  <2>5. FlushCounts'
    BY <2>1 DEF FlushCounts, InProgress, IInv
  <2> QED
    BY <2>2, <2>3, <2>4, <2>5 DEF IInv
<1>4. CASE task[t].pc # "done"
  <2>1. /\ CancelTask(t)
        /\ LostAnswer(task[t].sym) \/ UNCHANGED exch
    BY <1>4 DEF CancelCaller
  <2>2. StaysFlat
    BY <1>1, <2>1, TaskAt, UnchangedStaysFlat, LostAnswerStaysFlat
  <2>3. "cancelled" \notin {Closed, Forced}
    BY DEF Closed, Forced
  <2>4. /\ u.pc = "done" /\ u.result = "cancelled" /\ u.sym = task[t].sym
        /\ u \in Task /\ "done" \notin Live
    <3>1. task[t] \in Task
      BY <1>1, TaskAt
    <3>2. u.pc = "done" /\ u.result = "cancelled" /\ u.sym = task[t].sym
      BY <3>1 DEF Task
    <3>3. u \in Task
      BY <3>1 DEF Task
    <3> QED
      BY <3>2, <3>3 DEF Live, InBody
  <2>5. Moves(t, u)
    BY <1>1, <2>1, <2>4, TaskAt, ZenonT(60) DEF Moves, CancelTask, Finish
  <2>6. counter' \in Nat /\ resumed' \in BOOLEAN /\ FlushCounts'
    <3>1. CASE task[t].pc = "new"
      <4>1. UNCHANGED flushVars
        BY <2>1, <3>1 DEF CancelTask
      <4> QED
        BY <1>1, <2>4, <2>5, <3>1, <4>1, FlushStays DEF InBody
    <3>2. CASE task[t].pc # "new"
      <4>1. Resume
        BY <2>1, <3>2 DEF CancelTask, Finish
      <4>2. task[t].pc \in InBody /\ "done" \notin InBody
        BY <1>1, <1>4, <3>2, TaskAt DEF Task, Live, InBody
      <4> QED
        BY <1>1, <2>4, <2>5, <4>1, <4>2, FlushResumes
    <3> QED
      BY <3>1, <3>2
  <2> QED
    BY <1>1, <1>2, <2>2, <2>3, <2>4, <2>5, <2>6, MoveKeeps, RowsKeepFlat
<1> QED
  BY <1>3, <1>4

LEMMA NextIInv == IInv /\ [Next]_vars => IInv'
<1> SUFFICES ASSUME IInv, [Next]_vars PROVE IInv'
  OBVIOUS
<1>1. ASSUME NEW c \in Callers, NEW s \in Symbols, Request(c, s) PROVE IInv'
  BY <1>1, RequestKeeps
<1>2. ASSUME NEW c \in Callers, Return(c) PROVE IInv'
  BY <1>2, ReturnKeeps
<1>3. ASSUME NEW c \in Callers, CancelCaller(c) PROVE IInv'
  BY <1>3, CancelCallerKeeps
<1>4. ASSUME NEW t \in Tasks, Body(t) PROVE IInv'
  <2>1. CASE Start(t)
    BY <2>1, StartKeeps
  <2>2. CASE Persist(t)
    BY <2>2, PersistKeeps
  <2>3. CASE Post(t)
    BY <2>3, PostKeeps
  <2>4. CASE Direct(t)
    BY <2>4, DirectKeeps
  <2>5. CASE Sleep(t)
    BY <2>5, SleepKeeps
  <2>6. CASE CloseInDb(t)
    BY <2>6, CloseInDbKeeps
  <2> QED
    BY <1>4, <2>1, <2>2, <2>3, <2>4, <2>5, <2>6 DEF Body
<1>5. ASSUME NEW t \in Tasks, DoneCallback(t) PROVE IInv'
  BY <1>5, DoneCallbackKeeps
<1>6. CASE UNCHANGED vars
  BY <1>6 DEF vars, flushVars, IInv, TypeOK, LiveIsRegistered, RegistryNames, IsLive,
     WaitsForTask, FlushCounts, InProgress, ResultEarned, ClosedRowIsFlat
<1> QED
  BY <1>1, <1>2, <1>3, <1>4, <1>5, <1>6 DEF Next

-----------------------------------------------------------------------------
(* Theorems                                                                *)

\* What every state of the closer satisfies: live tasks are registered, the
\* flush counts them, and what says closed is flat.
THEOREM InductiveInvariant == Spec => []IInv
<1>1. IInv /\ [Next]_vars => IInv'
  BY NextIInv
<1> QED
  BY <1>1, InitIInv, PTL DEF Spec

\* Y-351, emergency_close_with_retry: one closing task per symbol, however
\* many callers come in whatever order, and the FlushController is suspended
\* exactly while a body is in progress, also through failures and
\* cancellations.
THEOREM ClosesOnce == Spec => []SingleFlight
<1>1. IInv => SingleFlight
  <2> SUFFICES ASSUME IInv PROVE SingleFlight
    OBVIOUS
  <2>1. OneTaskPerSymbol
    BY DEF OneTaskPerSymbol, IInv, LiveIsRegistered, IsLive
  <2> QED
    BY <2>1 DEF SingleFlight, IInv, FlushCounts, InProgress
<1> QED
  BY <1>1, InductiveInvariant, PTL

\* close_position writes closed only for a position that is flat at the
\* exchange, although answers of the exchange get lost.
THEOREM ClosedMeansFlat == Spec => []ClosedRowIsFlat
<1>1. IInv => ClosedRowIsFlat
  BY DEF IInv
<1> QED
  BY <1>1, InductiveInvariant, PTL

\* Every caller of emergency_close_with_retry, the one that joined a task as
\* well as the one that made it, is told closed only of a flat position.
THEOREM AnswersAreTrue == Spec => []TruthfulAnswer
<1>1. IInv => TruthfulAnswer
  BY EmergencyAssumption DEF TruthfulAnswer, IInv, ResultEarned, WaitsForTask, TypeOK
<1> QED
  BY <1>1, InductiveInvariant, PTL
=============================================================================
