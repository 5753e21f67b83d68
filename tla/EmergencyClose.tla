---------------------------- MODULE EmergencyClose ----------------------------
(***************************************************************************)
(* Emergency closing of positions: EmergencyCloser                         *)
(* (src/src/emergency/close.py) with the FlushController                   *)
(* (src/src/execution/flush_controller.py) and the row of the table        *)
(* positions that SqliteWriter keeps under position_id = symbol.           *)
(*                                                                         *)
(* Callers and the closing tasks they share run on one event loop; a step  *)
(* is what a task does between two awaits.  The REST gateway is the        *)
(* environment: what post_market_order and _direct_market_post may do is a *)
(* set of outcomes.  The verified quantity is a stub of 1.0 in the code,   *)
(* so its dust branch cannot be taken and is left out.                     *)
(***************************************************************************)
EXTENDS Integers, FiniteSets

CONSTANTS
    Symbols, Callers,
    Tasks,          \* identities of closing tasks; an ended one is used again
    MaxRetry,       \* cfg.max_retry
    PostOutcomes,   \* of post_market_order: subset of
                    \* {"filled", "slipped", "none", "runtime", "error"}
    DirectOutcomes, \* of _direct_market_post: subset of {"filled", "none", "error"}
    DbFails,        \* may a write of the table fail?
    Cancels,        \* may a caller be cancelled?
    None

Closed  == "CLOSED"
Forced  == "FORCE_LIQUIDATED_BY_SYSTEM"
Failed  == "EMERGENCY_FAILED_POSITION_OPEN"
Results == {Closed, Forced, Failed}

\* Where the task of _emergency is: created, writing the pending mark,
\* posting, posting directly, sleeping between attempts, writing the outcome.
InBody == {"persist", "post", "direct", "sleep", "dbclose"}
Live   == InBody \cup {"new"}

Task == [sym : Symbols, pc : Live \cup {"done"}, attempt : 0 .. MaxRetry,
         result : Results \cup {"cancelled"}]

\* The columns of the row that tell states of the close apart.
Row == [status : {"open", "closed"}, pending : BOOLEAN]

ASSUME EmergencyAssumption ==
    /\ IsFiniteSet(Tasks) /\ MaxRetry \in Nat
    /\ PostOutcomes \subseteq {"filled", "slipped", "none", "runtime", "error"}
    /\ DirectOutcomes \subseteq {"filled", "none", "error"}
    /\ DbFails \in BOOLEAN /\ Cancels \in BOOLEAN
    /\ None \notin Task /\ None \notin Tasks /\ None \notin Row

VARIABLES
    registry,  \* _tasks
    task,      \* the closing tasks
    waits,     \* the task each caller awaits
    counter,   \* FlushController._counter
    resumed,   \* FlushController._async_event is set
    row,       \* table positions, by symbol
    exch       \* the position at the exchange

flushVars == <<counter, resumed>>
vars == <<registry, task, waits, flushVars, row, exch>>

TypeOK ==
    /\ registry \in [Symbols -> Tasks \cup {None}]
    /\ task \in [Tasks -> Task \cup {None}]
    /\ waits \in [Callers -> Tasks \cup {None}]
    /\ counter \in Nat /\ resumed \in BOOLEAN
    /\ row \in [Symbols -> Row \cup {None}]
    /\ exch \in [Symbols -> {"open", "flat"}]

\* The position is open at the exchange; its row is filed under the symbol,
\* or under another position_id.
Init ==
    /\ registry = [s \in Symbols |-> None]
    /\ task = [t \in Tasks |-> None]
    /\ waits = [c \in Callers |-> None]
    /\ counter = 0 /\ resumed = TRUE
    /\ row \in [Symbols -> {None, [status |-> "open", pending |-> FALSE]}]
    /\ exch = [s \in Symbols |-> "open"]

-----------------------------------------------------------------------------
(* FlushController                                                         *)

Suspend ==
    /\ counter' = counter + 1
    /\ resumed' = IF counter = 0 THEN FALSE ELSE resumed

\* An underflow is clamped to zero.
Resume ==
    /\ counter' = IF counter = 0 THEN 0 ELSE counter - 1
    /\ resumed' = IF counter <= 1 THEN TRUE ELSE resumed

-----------------------------------------------------------------------------
(* The table positions                                                     *)

\* execute_wal({position_id, emergency_pending}): INSERT OR REPLACE writes
\* every column, the missing ones with their defaults: the row is open again
\* (and has lost quantity, side and price, which no step here reads).
PendingRow == [status |-> "open", pending |-> TRUE]

\* close_position: UPDATE ... WHERE position_id = ?
ClosedRow(r) == IF r = None THEN None ELSE [r EXCEPT !.status = "closed"]

\* A write succeeds or, if the database may fail, leaves the row alone.
Write(s, new) ==
    \/ row' = [row EXCEPT ![s] = new]
    \/ DbFails /\ UNCHANGED row

-----------------------------------------------------------------------------
(* emergency_close_with_retry, the caller                                  *)

Unused(t) ==
    task[t] # None =>
        /\ task[t].pc = "done"
        /\ \A s \in Symbols : registry[s] # t
        /\ \A c \in Callers : waits[c] # t

Request_NoPreInsert(c, s) ==
    /\ waits[c] = None
    /\ IF registry[s] # None
       THEN waits' = [waits EXCEPT ![c] = registry[s]] /\ UNCHANGED <<task, registry>>
       ELSE \E t \in Tasks :
               /\ Unused(t)
               /\ task' = [task EXCEPT ![t] =
                    [sym |-> s, pc |-> "new", attempt |-> 0, result |-> Failed]]
               /\ waits' = [waits EXCEPT ![c] = t]
               /\ UNCHANGED registry
    /\ UNCHANGED <<flushVars, row, exch>>

\* A caller joins the task of its symbol, or creates one and registers it
\* before anything else can run (Y-351).
Request(c, s) ==
    /\ waits[c] = None
    /\ IF registry[s] # None
       THEN waits' = [waits EXCEPT ![c] = registry[s]] /\ UNCHANGED <<task, registry>>
       ELSE \E t \in Tasks :
               /\ Unused(t)
               /\ task' = [task EXCEPT ![t] =
                    [sym |-> s, pc |-> "new", attempt |-> 0, result |-> Failed]]
               /\ waits' = [waits EXCEPT ![c] = t]
               /\ registry' = [registry EXCEPT ![s] = t]
    /\ UNCHANGED <<flushVars, row, exch>>

\* The awaited task has ended: its result, or its CancelledError.
Return(c) ==
    /\ waits[c] # None /\ task[waits[c]].pc = "done"
    /\ waits' = [waits EXCEPT ![c] = None]
    /\ UNCHANGED <<registry, task, flushVars, row, exch>>

\* _done_cb, some time after the task has ended.
DoneCallback(t) ==
    /\ task[t] # None /\ task[t].pc = "done"
    /\ registry[task[t].sym] = t
    /\ registry' = [registry EXCEPT ![task[t].sym] = None]
    /\ UNCHANGED <<task, waits, flushVars, row, exch>>

-----------------------------------------------------------------------------
(* _emergency, the shared task                                             *)

At(t, pc) == task[t] # None /\ task[t].pc = pc

Goto(t, pc) == task' = [task EXCEPT ![t].pc = pc]

\* The finally clause and the end of the task.
Finish(t, result) ==
    /\ task' = [task EXCEPT ![t].pc = "done", ![t].result = result]
    /\ Resume

Start(t) ==
    /\ At(t, "new")
    /\ Suspend
    /\ Goto(t, "persist")
    /\ UNCHANGED <<registry, waits, row, exch>>

\* _emergency_persist_state: a failed write is logged and the close goes on.
Persist(t) ==
    /\ At(t, "persist")
    /\ Write(task[t].sym, PendingRow)
    /\ Goto(t, "post")
    /\ UNCHANGED <<registry, waits, flushVars, exch>>

\* A reduce-only order can fill only while there is a position.
FillsWith(t, outcomes) ==
    outcomes \cap {"filled", "slipped"} # {} /\ exch[task[t].sym] = "open"

\* An answer that was lost: the order may have been executed or not.
LostAnswer(s) == UNCHANGED exch \/ exch' = [exch EXCEPT ![s] = "flat"]

NextStep(result) == IF result = Failed THEN "sleep" ELSE "dbclose"

AttemptEnds_AlwaysClose(t, result) ==
    task' = [task EXCEPT ![t].pc = "dbclose", ![t].result = result]

AttemptEnds_NoneIsClosed(t, result) ==
    task' = [task EXCEPT ![t].pc = "dbclose",
                         ![t].result = IF result = Failed THEN Closed ELSE result]

\* The end of an attempt: a failed one is followed by a sleep, every other
\* one by the write of the outcome.
AttemptEnds(t, result) ==
    task' = [task EXCEPT ![t].pc = NextStep(result), ![t].result = result]

Post(t) ==
    /\ At(t, "post")
    /\ \/ /\ FillsWith(t, PostOutcomes)
          /\ exch' = [exch EXCEPT ![task[t].sym] = "flat"]
          /\ \/ "filled" \in PostOutcomes /\ AttemptEnds(t, Closed)
             \/ "slipped" \in PostOutcomes /\ AttemptEnds(t, Forced)
       \/ /\ "none" \in PostOutcomes
          /\ AttemptEnds(t, Failed)
          /\ UNCHANGED exch
       \/ /\ "error" \in PostOutcomes
          /\ AttemptEnds(t, Failed)
          /\ LostAnswer(task[t].sym)
       \/ /\ "runtime" \in PostOutcomes
          /\ Goto(t, "direct")
          /\ LostAnswer(task[t].sym)
    /\ UNCHANGED <<registry, waits, flushVars, row>>

Direct(t) ==
    /\ At(t, "direct")
    /\ \/ /\ FillsWith(t, DirectOutcomes)
          /\ exch' = [exch EXCEPT ![task[t].sym] = "flat"]
          /\ AttemptEnds(t, Forced)
       \/ /\ DirectOutcomes \cap {"none", "error"} # {}
          /\ AttemptEnds(t, Failed)
          /\ LostAnswer(task[t].sym)
    /\ UNCHANGED <<registry, waits, flushVars, row>>

Sleep_NoCount(t) ==
    /\ At(t, "sleep")
    /\ Goto(t, "post")
    /\ UNCHANGED <<registry, waits, flushVars, row, exch>>

\* The sleep after a failed attempt; max_retry + 1 attempts in all.
Sleep(t) ==
    /\ At(t, "sleep")
    /\ IF task[t].attempt < MaxRetry
       THEN /\ task' = [task EXCEPT ![t].pc = "post", ![t].attempt = @ + 1]
            /\ UNCHANGED flushVars
       ELSE Finish(t, Failed)
    /\ UNCHANGED <<registry, waits, row, exch>>

CloseInDb(t) ==
    /\ At(t, "dbclose")
    /\ Write(task[t].sym, ClosedRow(row[task[t].sym]))
    /\ Finish(t, task[t].result)
    /\ UNCHANGED <<registry, waits, exch>>

\* CancelledError in the task: a task that has not started never enters the
\* try statement; the others run their finally clause.
CancelTask(t) ==
    IF task[t].pc = "new"
    THEN /\ task' = [task EXCEPT ![t].pc = "done", ![t].result = "cancelled"]
         /\ UNCHANGED flushVars
    ELSE Finish(t, "cancelled")

\* A caller is cancelled: awaiting the shared task, it cancels that as well.
\* An order under way may have been executed.
CancelCaller(c) ==
    /\ Cancels /\ waits[c] # None
    /\ waits' = [waits EXCEPT ![c] = None]
    /\ LET t == waits[c]
       IN  IF task[t].pc = "done"
           THEN UNCHANGED <<task, flushVars, exch>>
           ELSE /\ CancelTask(t)
                /\ IF task[t].pc \in {"post", "direct"}
                   THEN LostAnswer(task[t].sym)
                   ELSE UNCHANGED exch
    /\ UNCHANGED <<registry, row>>

-----------------------------------------------------------------------------
Body(t) ==
    Start(t) \/ Persist(t) \/ Post(t) \/ Direct(t) \/ Sleep(t) \/ CloseInDb(t)

Next ==
    \/ \E c \in Callers :
          (\E s \in Symbols : Request(c, s)) \/ Return(c) \/ CancelCaller(c)
    \/ \E t \in Tasks : Body(t) \/ DoneCallback(t)

Spec == Init /\ [][Next]_vars

\* The event loop runs every ready task and callback, and the awaits of the
\* body end: the gateway bounds its own waiting and the sleep is 0.2 s.
Fairness ==
    /\ \A t \in Tasks : WF_vars(Body(t)) /\ WF_vars(DoneCallback(t))
    /\ \A c \in Callers : WF_vars(Return(c))

FairSpec == Spec /\ Fairness

-----------------------------------------------------------------------------
(* Properties                                                              *)

\* Y-351: one symbol has one closing task at a time, whatever calls come
\* between the check of _tasks, the start of the task and its callback.
OneTaskPerSymbol ==
    \A t, u \in Tasks :
        /\ task[t] # None /\ task[u] # None /\ t # u
        /\ task[t].pc \in Live /\ task[u].pc \in Live
        => task[t].sym # task[u].sym

\* Closing is single flight, and the flush is suspended exactly as often as
\* bodies are in progress: it is not resumed under a close of another symbol,
\* and no failure and no cancellation leaves it suspended.  Every state is of
\* its type.
SingleFlight ==
    /\ TypeOK
    /\ OneTaskPerSymbol
    /\ counter = Cardinality({t \in Tasks : task[t] # None /\ task[t].pc \in InBody})
    /\ resumed <=> counter = 0

\* The table says closed only of a position that is closed at the exchange.
ClosedRowIsFlat ==
    \A s \in Symbols : row[s] # None /\ row[s].status = "closed" => exch[s] = "flat"

\* A caller is told CLOSED or FORCE_LIQUIDATED only of a flat position, also
\* one that has joined the task of another, or that came after the end of the
\* task and before its callback.
TruthfulAnswer ==
    \A c \in Callers :
        waits[c] # None /\ task[waits[c]].pc = "done"
            /\ task[waits[c]].result \in {Closed, Forced}
        => exch[task[waits[c]].sym] = "flat"

\* Every call gets an answer: the retries end, also when neither exchange nor
\* database ever accept anything.
EveryCallAnswered == \A c \in Callers : waits[c] # None ~> waits[c] = None
===============================================================================
