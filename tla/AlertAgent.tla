------------------------------ MODULE AlertAgent ------------------------------
(***************************************************************************)
(* The alert agent (src/src/alerting/agent.py) over the table alert_events *)
(* (src/src/alerting/migration.py): routing by severity, dedup of          *)
(* warnings, batches, retries, the circuit breaker with its half-open      *)
(* test, and the sweep at startup.                                         *)
(*                                                                         *)
(* Everything runs on one event loop and gives way only while it awaits a  *)
(* channel, so a step is what happens between two posts.  A drainer is the *)
(* drain loop or a caller of send_direct: both run _drain_once.  Times are *)
(* replaced by the fact that matters: a window or the open period is over  *)
(* or not.  Events are numbered in the order of their ts_ms.  Errors of    *)
(* the database are not modelled.                                          *)
(***************************************************************************)
EXTENDS Integers, Sequences, FiniteSets, SequencesExt, FiniteSetsExt, Functions

CONSTANTS
    MaxEvents,     \* bound: rows ever inserted
    MaxCount,      \* bound: warnings merged into one
    Keys,          \* (symbol, event_type) of warnings
    Drainers,      \* those that run _drain_once,
    Loop,          \* ... the drain loop among them
    BatchSize,     \* batch_size
    RetryMax,      \* retry_max
    FailThreshold, \* breaker_fail_threshold
    Crashes,       \* may the process be killed?
    Watched,       \* the event that CriticalSettles follows, any one
    None

Ids        == 1 .. MaxEvents
Severities == {"CRITICAL", "WARNING", "INFO"}
Final      == {"delivered", "failed", "expired"}

Row     == [sev : Severities, status : {"pending", "sending"} \cup Final]
Idle    == [pc |-> "idle", ids |-> {}, left |-> 0]
Drainer == [pc : {"idle", "send", "batch", "test"},
            ids : SUBSET Ids, left : 0 .. RetryMax]

ASSUME AlertAssumption ==
    /\ MaxEvents \in Nat /\ MaxCount \in Nat \ {0}
    /\ {BatchSize, RetryMax, FailThreshold} \subseteq Nat \ {0}
    /\ Crashes \in BOOLEAN /\ Loop \in Drainers /\ Watched \in Ids
    /\ None \notin Row /\ None \notin Ids

VARIABLES
    up,        \* the process runs
    row,       \* alert_events
    life,      \* events emitted by the running process
    queue,     \* _critical_queue
    buffer,    \* _warning_buffer
    batch,     \* _batch_start_mono: "none", "fresh", or "due" (window over)
    dedup,     \* _dedup_index: the event of a key, as long as its window is open
    count,     \* how many warnings an event stands for
    breaker,   \* _breaker_state
    openOver,  \* the open period is over
    fails,     \* _breaker_consecutive_fails, up to FailThreshold
    drain      \* the drainers

memVars   == <<queue, buffer, batch, dedup>>
breakVars == <<breaker, openOver, fails>>
vars == <<up, row, life, memVars, count, breakVars, drain>>

TypeOK ==
    /\ up \in BOOLEAN
    /\ row \in [Ids -> Row \cup {None}]
    /\ life \subseteq Ids
    /\ queue \in Seq(Ids) /\ buffer \in Seq(Ids)
    /\ batch \in {"none", "fresh", "due"} /\ (batch = "none" <=> buffer = <<>>)
    /\ dedup \in [Keys -> Ids \cup {None}]
    /\ count \in [Ids -> 0 .. MaxCount]
    /\ breaker \in {"closed", "open", "half_open"} /\ openOver \in BOOLEAN
    /\ fails \in 0 .. FailThreshold
    /\ drain \in [Drainers -> Drainer]

Fresh ==
    /\ queue' = <<>> /\ buffer' = <<>> /\ batch' = "none"
    /\ dedup' = [k \in Keys |-> None]
    /\ breaker' = "closed" /\ openOver' = FALSE /\ fails' = 0
    /\ drain' = [d \in Drainers |-> Idle]
    /\ life' = {}

Init ==
    /\ up = TRUE
    /\ row = [i \in Ids |-> None] /\ life = {}
    /\ queue = <<>> /\ buffer = <<>> /\ batch = "none"
    /\ dedup = [k \in Keys |-> None]
    /\ count = [i \in Ids |-> 0]
    /\ breaker = "closed" /\ openOver = FALSE /\ fails = 0
    /\ drain = [d \in Drainers |-> Idle]

Status(i)   == IF row[i] = None THEN "absent" ELSE row[i].status
Pending     == {i \in Ids : Status(i) = "pending"}
Critical(i) == row[i] # None /\ row[i].sev = "CRITICAL"

-----------------------------------------------------------------------------
(* emit                                                                    *)

\* _insert_event; an INFO event is delivered at once.
Insert(i, sev) ==
    /\ \A j \in Ids : row[j] = None <=> j >= i
    /\ row' = [row EXCEPT ![i] =
            [sev |-> sev, status |-> IF sev = "INFO" THEN "delivered" ELSE "pending"]]
    /\ life' = life \cup {i}

EmitInfo(i) ==
    /\ up /\ Insert(i, "INFO")
    /\ UNCHANGED <<up, memVars, count, breakVars, drain>>

EmitCritical(i) ==
    /\ up /\ Insert(i, "CRITICAL")
    /\ queue' = Append(queue, i)
    /\ UNCHANGED <<up, buffer, batch, dedup, count, breakVars, drain>>

\* _try_dedup_merge looks up the key only, not the buffer.
Mergeable_AnyTime(k) == dedup[k] # None

\* _try_dedup_merge: the window is not over and the event is still buffered.
Mergeable(k) == Contains(buffer, dedup[k])

Merge(k) ==
    /\ up /\ Mergeable(k) /\ count[dedup[k]] < MaxCount
    /\ count' = [count EXCEPT ![dedup[k]] = @ + 1]
    /\ UNCHANGED <<up, row, life, memVars, breakVars, drain>>

EmitWarning(i, k) ==
    /\ up /\ ~Mergeable(k) /\ Insert(i, "WARNING")
    /\ buffer' = Append(buffer, i)
    /\ batch' = IF batch = "none" THEN "fresh" ELSE batch
    /\ dedup' = [dedup EXCEPT ![k] = i]
    /\ count' = [count EXCEPT ![i] = 1]
    /\ UNCHANGED <<up, queue, breakVars, drain>>

-----------------------------------------------------------------------------
(* The clock                                                               *)

\* A merge renews the window, so it may end at any time after the last one.
DedupWindowEnds(k) ==
    /\ dedup[k] # None
    /\ dedup' = [dedup EXCEPT ![k] = None]
    /\ UNCHANGED <<up, row, life, queue, buffer, batch, count, breakVars, drain>>

BatchWindowEnds ==
    /\ batch = "fresh"
    /\ batch' = "due"
    /\ UNCHANGED <<up, row, life, queue, buffer, dedup, count, breakVars, drain>>

OpenPeriodEnds ==
    /\ breaker = "open" /\ ~openOver
    /\ openOver' = TRUE
    /\ UNCHANGED <<up, row, life, memVars, count, breaker, fails, drain>>

-----------------------------------------------------------------------------
(* The breaker                                                             *)

OnSuccess ==
    /\ fails' = 0
    /\ breaker' = "closed" /\ openOver' = FALSE

OnFinalFail ==
    /\ fails' = Min({fails + 1, FailThreshold})
    /\ IF breaker = "half_open" \/ fails + 1 >= FailThreshold
       THEN breaker' = "open" /\ openOver' = FALSE
       ELSE UNCHANGED <<breaker, openOver>>

-----------------------------------------------------------------------------
(* _drain_once                                                             *)

\* The ids of S that _optimistic_sending marks, given the table.
Claimable_Any(table, S) == S

Claimable(table, S) == {i \in S : table[i].status = "pending"}

Marked(table, S, status) ==
    [i \in Ids |-> IF i \in S THEN [table[i] EXCEPT !.status = status] ELSE table[i]]

\* The ids are claimed and their first attempt is under way.
StartSend(d, pc, table, S) ==
    /\ row' = Marked(table, S, "sending")
    /\ drain' = [drain EXCEPT ![d] = [pc |-> pc, ids |-> S, left |-> RetryMax]]

GoIdle(d, table) ==
    /\ row' = table
    /\ drain' = [drain EXCEPT ![d] = Idle]

BatchReady == batch = "due" \/ Len(buffer) >= BatchSize

\* What stays buffered, once the first BatchSize warnings are taken.
Rest_Nothing == <<>>

Rest == SubSeq(buffer, BatchSize + 1, Len(buffer))

\* _flush_warning_batch
FlushBatch(d, table) ==
    LET claimed == Claimable(table, {buffer[n] : n \in 1 .. Min({BatchSize, Len(buffer)})})
    IN  /\ buffer' = Rest
        /\ batch' = IF Rest = <<>> THEN "none" ELSE "fresh"
        /\ IF claimed = {} THEN GoIdle(d, table) ELSE StartSend(d, "batch", table, claimed)

\* The loop over the criticals, from one post to the next: those that are no
\* longer pending are dropped, and the warnings follow when none is left.
\* The breaker is not looked at again.
GoOn(d, table) ==
    LET ready == {n \in DOMAIN queue : Claimable(table, {queue[n]}) # {}}
    IN  \/ /\ ready # {}
           /\ queue' = SubSeq(queue, Min(ready) + 1, Len(queue))
           /\ StartSend(d, "send", table, {queue[Min(ready)]})
           /\ UNCHANGED <<buffer, batch>>
        \/ /\ ready = {} /\ queue' = <<>>
           /\ IF BatchReady THEN FlushBatch(d, table)
              ELSE GoIdle(d, table) /\ UNCHANGED <<buffer, batch>>

DrainClosed(d) ==
    /\ up /\ drain[d].pc = "idle" /\ breaker = "closed"
    /\ GoOn(d, row)
    /\ UNCHANGED <<up, life, dedup, count, breakVars>>

DrainHalfOpen_WhenOpen(d) ==
    LET pending == {i \in Pending : Critical(i)}
    IN  /\ up /\ drain[d].pc = "idle"
        /\ breaker = "open" /\ openOver
        /\ breaker' = "half_open" /\ openOver' = FALSE
        /\ IF pending = {} THEN UNCHANGED <<row, drain>>
           ELSE StartSend(d, "test", row, {Min(pending)})
        /\ UNCHANGED <<up, life, memVars, count, fails>>

\* _half_open_test: the oldest pending critical row of the table, also one
\* that an earlier process has left; without one nothing is tested.
DrainHalfOpen(d) ==
    LET pending == {i \in Pending : Critical(i)}
    IN  /\ up /\ drain[d].pc = "idle"
        /\ breaker = "half_open" \/ (breaker = "open" /\ openOver)
        /\ breaker' = "half_open" /\ openOver' = FALSE
        /\ IF pending = {} THEN UNCHANGED <<row, drain>>
           ELSE StartSend(d, "test", row, {Min(pending)})
        /\ UNCHANGED <<up, life, memVars, count, fails>>

-----------------------------------------------------------------------------
(* _send_alert and _send_alert_batch                                       *)

Sending(d) == up /\ drain[d].pc # "idle"

\* A critical is followed by the next; a batch or a test ends _drain_once.
Settle(d, status) ==
    LET table == Marked(row, drain[d].ids, status)
    IN  /\ IF drain[d].pc = "send" THEN GoOn(d, table)
           ELSE GoIdle(d, table) /\ UNCHANGED <<queue, buffer, batch>>
        /\ UNCHANGED <<up, life, dedup, count>>

Delivered(d) ==
    /\ Sending(d)
    /\ Settle(d, "delivered")
    /\ OnSuccess

\* An attempt fails: error, timeout, 400 or 429, which differ in the wait
\* and the parse mode of the next one only.
AttemptFails(d) ==
    /\ Sending(d) /\ drain[d].left > 1
    /\ drain' = [drain EXCEPT ![d].left = @ - 1]
    /\ UNCHANGED <<up, row, life, memVars, count, breakVars>>

LastAttemptFails(d) ==
    /\ Sending(d) /\ drain[d].left = 1
    /\ Settle(d, "failed")
    /\ OnFinalFail

-----------------------------------------------------------------------------
(* The process                                                             *)

\* Killed, or stopped while a drainer awaits a channel.
Die ==
    /\ Crashes /\ up /\ up' = FALSE
    /\ Fresh
    /\ UNCHANGED <<row, count>>

Swept(n) == {i \in Pending : i <= n}

Start(n) ==
    /\ ~up /\ up' = TRUE
    /\ row' = Marked(row, Swept(n), "expired")
    /\ UNCHANGED <<life, memVars, count, breakVars, drain>>

Emit ==
    \/ \E i \in Ids :
          EmitInfo(i) \/ EmitCritical(i) \/ \E k \in Keys : EmitWarning(i, k)
    \/ \E k \in Keys : Merge(k)

StartDrain(d) == DrainClosed(d) \/ DrainHalfOpen(d)

PostEnds(d) == Delivered(d) \/ AttemptFails(d) \/ LastAttemptFails(d)

Next ==
    \/ Emit
    \/ \E k \in Keys : DedupWindowEnds(k)
    \/ BatchWindowEnds \/ OpenPeriodEnds
    \/ \E d \in Drainers : StartDrain(d) \/ PostEnds(d)
    \/ Die \/ \E n \in 0 .. MaxEvents : Start(n)

Spec == Init /\ [][Next]_vars

\* The drain loop runs at least once a second, a post ends by its timeout,
\* and time passes.  Nobody has to call send_direct.
Fairness ==
    /\ WF_vars(StartDrain(Loop)) /\ \A d \in Drainers : WF_vars(PostEnds(d))
    /\ WF_vars(BatchWindowEnds) /\ WF_vars(OpenPeriodEnds)

FairSpec == Spec /\ Fairness

-----------------------------------------------------------------------------
(* Properties                                                              *)

\* AB4, the optimistic lock: what a drainer is sending is marked so in the
\* table and no other drainer sends it, so the half-open test and the queue,
\* which hold the same critical, do not send it twice.  Every state is of its
\* type.
OneSender ==
    /\ TypeOK
    /\ \A d \in Drainers :
          /\ \A i \in drain[d].ids : Status(i) = "sending"
          /\ \A e \in Drainers \ {d} : drain[d].ids \cap drain[e].ids = {}

\* A delivered, failed or expired alert is never sent or expired again.  M,
\* dedup merges with the count: once a warning is being sent, or is sent, no
\* other is merged into it, because its message is composed and would not
\* count it.
SettledIsFixed ==
    [][\A i \in Ids :
        /\ Status(i) \in Final => row'[i] = row[i]
        /\ Status(i) \in Final \cup {"sending"} => count'[i] = count[i]]_vars

\* S=(D), the memory is a cache of alert_events: a pending alert of this
\* process waits in the queue or in the buffer, and what is buffered is
\* pending.  Cutting batches and half-open tests in between lose nothing.
NothingForgotten ==
    /\ \A i \in life \cap Pending : Contains(queue, i) \/ Contains(buffer, i)
    /\ Range(buffer) \subseteq Pending

\* A critical alert is delivered or has failed in the end, through open and
\* half-open periods, unless the process dies.
CriticalSettles ==
    (Watched \in life /\ Critical(Watched))
        ~> (Status(Watched) \in Final \/ Watched \notin life)

===============================================================================
