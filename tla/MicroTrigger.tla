----------------------------- MODULE MicroTrigger -----------------------------
(***************************************************************************)
(* From signals to entries, for one symbol: MicroTrigger                   *)
(* (src/src/features/micro_trigger.py) as the shadow runner drives it      *)
(* (src/tests/shadow/runner.py, _micro_trigger_loop).                      *)
(*                                                                         *)
(* Every round of the loop, five seconds or more after the last, evaluates *)
(* the symbol once, in one step: none of its awaits gives way.  Meanwhile  *)
(* the WebSocket brings depth pushes and signals, and the universe may     *)
(* drop the symbol and take it up again, which keeps its trigger and its   *)
(* signals.  Time is counted in five seconds; instants are kept as the     *)
(* time since they happened, up to a bound above which nothing tells them  *)
(* apart.  Of the last 200 signals only the youngest of each kind and side *)
(* matters; old ones may have been pushed out.                             *)
(*                                                                         *)
(* Left out: run_loop and cancellable_sleep, which the runner replaces by  *)
(* its own loop, and the time anchors, which nothing reads.                *)
(* _last_mt_state is never TRIGGER, so its guard is always true.           *)
(*                                                                         *)
(* No name here is one of Observation: Runner_proof extends both.          *)
(***************************************************************************)
EXTENDS Integers, FiniteSets

CONSTANTS
    Signals,       \* the signals that occur, records [kind, side]
    Window,        \* for each kind: how long a signal counts
    ValidFor,      \* a push keeps the data valid for less than this
    Deadline,      \* hard_deadline_ms
    QuarantineFor, \* quarantine_ms
    Nil

Kinds  == {"sweep", "mss", "fvg", "ote"}
Sides  == {"LONG", "SHORT"}
States == {"IDLE", "SWEEP", "MSS", "FVG_OTE", "MICRO_CONFIRM"}

MaxOf(S) == CHOOSE m \in S : \A n \in S : n <= m
MinOf(a, b) == IF a < b THEN a ELSE b

\* From this age on a signal counts for its side only.
Old == MaxOf({Window[k] : k \in Kinds}) + 1

ASSUME TriggerAssumption ==
    /\ Signals \subseteq [kind : Kinds, side : Sides] /\ IsFiniteSet(Signals)
    /\ Window \in [Kinds -> Nat]
    /\ {ValidFor, Deadline, QuarantineFor} \subseteq Nat \ {0}
    /\ Nil \notin Nat

VARIABLES
    state,      \* SymbolTriggerState.state
    paused,     \* paused_ms, up to Deadline
    pause,      \* time since pause_start_ms, up to Deadline; Nil when it is 0
    quarantine, \* time until quarantine_until_ms
    recent,     \* _recent_signals: age of the youngest of each, Nil if there is none
    data,       \* age of the last push, Nil before the first one
    due,        \* has the loop waited timer_sleep_ms since its last round?
    listened,   \* is the symbol among ShadowRunner.symbols?
    entered,    \* the entry of the last step, Nil if it made none
    lost        \* history: how long the setup under way had no valid data, as
                \* of its last evaluation, up to Deadline

machine == <<state, paused, pause, quarantine>>
triggerVars == <<machine, recent, data, due, listened, entered, lost>>

-----------------------------------------------------------------------------
\* One of the kind, of either side, is young enough.
Detected(kind) ==
    \E s \in Signals : s.kind = kind /\ recent[s] # Nil /\ recent[s] <= Window[kind]

\* The whole deque decides the side; LONG is tried first.
OnDeque(side) ==
    \A k \in {"sweep", "mss", "fvg"} :
        \E s \in Signals : s = [kind |-> k, side |-> side] /\ recent[s] # Nil

Direction ==
    CASE OnDeque("LONG") -> "LONG"
      [] ~OnDeque("LONG") /\ OnDeque("SHORT") -> "SHORT"
      [] OTHER -> Nil

Valid == data # Nil /\ data < ValidFor

\* The state after an evaluation with valid data.
Progress(st) ==
    CASE st = "IDLE" /\ Detected("sweep") -> "SWEEP"
      [] st = "SWEEP" /\ Detected("mss") -> "MSS"
      [] st = "MSS" /\ Detected("fvg") -> "FVG_OTE"
      [] st = "FVG_OTE" /\ Detected("ote") -> "MICRO_CONFIRM"
      [] st = "MICRO_CONFIRM" /\ Detected("ote") -> "TRIGGER"
      [] OTHER -> st

Expired == paused >= Deadline /\ state # "IDLE"

\* An age one unit of time later, up to a bound.
Older(age, bound) == IF age = Nil THEN Nil ELSE MinOf(age + 1, bound)

\* A total after the pause under way is added.
Flushed(total) == IF pause = Nil THEN total ELSE MinOf(total + pause, Deadline)

-----------------------------------------------------------------------------
TriggerInit ==
    /\ state = "IDLE" /\ paused = 0 /\ pause = Nil /\ quarantine = 0
    /\ recent = [s \in Signals |-> Nil] /\ data = Nil
    /\ due = FALSE /\ listened = TRUE
    /\ entered = Nil /\ lost = 0

ResetToIdle == state' = "IDLE" /\ paused' = 0 /\ pause' = Nil /\ lost' = 0

\* Data is not valid: the pause goes on, or begins.
Invalid ==
    /\ paused' = Flushed(paused) /\ pause' = 0
    /\ lost' = IF state = "IDLE" THEN 0 ELSE Flushed(lost)
    /\ entered' = Nil /\ UNCHANGED state

\* Mutant of Advance: the end of a pause does not add it to the total.
Advance_Forgives ==
    IF Progress(state) = "TRIGGER"
    THEN ResetToIdle /\ entered' \in {Nil, Direction}
    ELSE /\ state' = Progress(state) /\ pause' = Nil /\ entered' = Nil
         /\ lost' = IF state = "IDLE" THEN 0 ELSE Flushed(lost)
         /\ UNCHANGED paused

\* Data is valid: the pause ends and the setup may make progress.  A trigger
\* becomes an entry if the signals have a side, unless the operator has stopped
\* the observation (_poll_observation_stop); either way the setup is over.
Advance ==
    IF Progress(state) = "TRIGGER"
    THEN ResetToIdle /\ entered' \in {Nil, Direction}
    ELSE /\ state' = Progress(state) /\ paused' = Flushed(paused) /\ pause' = Nil
         /\ lost' = IF state = "IDLE" THEN 0 ELSE Flushed(lost)
         /\ entered' = Nil

\* Mutant of Evaluate: progress is looked at before the deadline.
Evaluate_ProgressFirst ==
    \/ Valid /\ Advance
    \/ ~Valid /\ Expired /\ ResetToIdle /\ entered' = Nil
    \/ ~Valid /\ ~Expired /\ Invalid

\* Mutant of Evaluate: the deadline is only looked at with valid data.
Evaluate_DeadlineWhenValid ==
    \/ ~Valid /\ Invalid
    \/ Valid /\ Expired /\ ResetToIdle /\ entered' = Nil
    \/ Valid /\ ~Expired /\ Advance

Evaluate ==
    \/ Expired /\ ResetToIdle /\ entered' = Nil
    \/ ~Expired /\ ~Valid /\ Invalid
    \/ ~Expired /\ Valid /\ Advance

\* One round of the loop.  A symbol that is not listened to, or in quarantine, is
\* passed over.
EvaluationRound ==
    /\ due /\ due' = FALSE
    /\ IF listened /\ quarantine = 0
       THEN Evaluate
       ELSE entered' = Nil /\ UNCHANGED <<state, paused, pause, lost>>
    /\ UNCHANGED <<quarantine, recent, data, listened>>

\* In a round an evaluation raises, before it has ended the pause or after: the
\* symbol is put in quarantine.  Only the state is reset, not the pause.
Fails ==
    /\ due /\ listened /\ quarantine = 0
    /\ due' = FALSE /\ state' = "IDLE" /\ quarantine' = QuarantineFor
    /\ \/ UNCHANGED <<paused, pause>>
       \/ Valid /\ paused' = Flushed(paused) /\ pause' = Nil
    /\ lost' = 0 /\ entered' = Nil
    /\ UNCHANGED <<recent, data, listened>>

TimePasses ==
    /\ due' = TRUE /\ pause' = Older(pause, Deadline) /\ data' = Older(data, ValidFor)
    /\ quarantine' = IF quarantine = 0 THEN 0 ELSE quarantine - 1
    /\ recent' = [s \in Signals |-> Older(recent[s], Old)]
    /\ entered' = Nil
    /\ UNCHANGED <<state, paused, listened, lost>>

\* on_depth, when the book is synchronised.
Push ==
    /\ listened /\ data' = 0 /\ entered' = Nil
    /\ UNCHANGED <<machine, recent, due, listened, lost>>

\* The detector finds a signal in the samples of the deals.
Signal(s) ==
    /\ listened /\ recent' = [recent EXCEPT ![s] = 0] /\ entered' = Nil
    /\ UNCHANGED <<machine, data, due, listened, lost>>

\* Newer signals push an old one out of the deque.
Forget(s) ==
    /\ recent[s] = Old /\ recent' = [recent EXCEPT ![s] = Nil] /\ entered' = Nil
    /\ UNCHANGED <<machine, data, due, listened, lost>>

\* The universe unsubscribes the symbol, and later takes it up again.
Unsubscribe ==
    /\ listened /\ listened' = FALSE /\ data' = Nil /\ entered' = Nil
    /\ UNCHANGED <<machine, recent, due, lost>>

Resubscribe ==
    /\ ~listened /\ listened' = TRUE /\ entered' = Nil
    /\ UNCHANGED <<machine, recent, data, due, lost>>

TriggerNext ==
    \/ EvaluationRound \/ Fails \/ TimePasses \/ Push \/ Unsubscribe \/ Resubscribe
    \/ \E s \in Signals : Signal(s) \/ Forget(s)

\* The loop runs as long as the process, and time passes.
TriggerSpec ==
    /\ TriggerInit /\ [][TriggerNext]_triggerVars
    /\ WF_triggerVars(EvaluationRound) /\ WF_triggerVars(TimePasses)

-----------------------------------------------------------------------------
TriggerTypeOK ==
    /\ state \in States /\ paused \in 0..Deadline /\ pause \in 0..Deadline \cup {Nil}
    /\ quarantine \in 0..QuarantineFor
    /\ recent \in [Signals -> 0..Old \cup {Nil}] /\ data \in 0..ValidFor \cup {Nil}
    /\ due \in BOOLEAN /\ listened \in BOOLEAN
    /\ entered \in Sides \cup {Nil} /\ lost \in 0..Deadline

(* The time that a setup has spent without valid data is never more than   *)
(* paused_ms says, whatever quarantines, other setups and absences of the  *)
(* symbol came before (evaluate adds every pause, also when it ends, and   *)
(* resets it only with the setup).  Every state is of its type.            *)
PauseIsCounted == TriggerTypeOK /\ (state # "IDLE" => lost <= paused)

(* A setup that had lost the whole deadline at its last evaluation never   *)
(* becomes an entry, even if data and confirmation come back at the same   *)
(* time; nor does one of a symbol without valid data or in quarantine (the *)
(* deadline is looked at before validity and progress).                    *)
NoEntryPastDeadline ==
    [][entered' # Nil =>
        /\ lost < Deadline
        /\ Valid /\ listened /\ quarantine = 0]_triggerVars

(* Without valid data a setup does not last: it expires, the data comes    *)
(* back or the symbol is dropped ("hard deadline fires even when           *)
(* is_valid=False").                                                       *)
SetupExpires == state # "IDLE" ~> (state = "IDLE" \/ Valid \/ ~listened)
=============================================================================
