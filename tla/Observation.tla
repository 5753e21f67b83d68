------------------------------ MODULE Observation ------------------------------
(***************************************************************************)
(* The life of an observation: the one row of observation_state            *)
(* (src/src/observation/state.py), which the operator and the shadow       *)
(* runner share, and what the runner does with it at its start, in every   *)
(* round of its micro-trigger loop and at its end                          *)
(* (src/tests/shadow/runner.py).                                           *)
(*                                                                         *)
(* The operator sets and clears the stop flag from outside at any moment,  *)
(* the process may be killed between any two statements, and reads and     *)
(* writes of the row fail up to MaxFaults times.  The loop gives way to    *)
(* other tasks, and can be cancelled, only while it sleeps or waits for an *)
(* alert.                                                                  *)
(*                                                                         *)
(* Left out: the fields that only the dashboard shows, and the paper       *)
(* positions themselves (PaperPositions): here an entry and a call of      *)
(* PaperPositionManager.finalize are events.                               *)
(***************************************************************************)
EXTENDS Integers

CONSTANTS
    Target,    \* target_days
    MaxFaults, \* bound: how often the database fails
    None

ASSUME ObservationAssumption == Target \in Nat \ {0} /\ MaxFaults \in Nat /\ None \notin Nat \cup BOOLEAN

Events == {"OBSERVATION_STOPPED", "OBSERVATION_RESUMED", "OBSERVATION_COMPLETED"}

\* The fields of the row that decide something.  "age" is the time since
\* observation_started_at_ms, up to Target, None as long as that is 0.
Row == [stop : BOOLEAN, age : 0..Target \cup {None}, done : BOOLEAN,
        marker : {"none", "clean", "unclean"}, reason : Events \cup {"none"}]

VARIABLES
    row,       \* the row of observation_state
    pc,        \* where run() and its loop are
    stopped,   \* ShadowRunner._observation_stopped
    finalized, \* ShadowRunner._auto_finalized
    entry,     \* did the last step open a position?
    faults,    \* how often the database failed
    \* histories
    said,      \* the flag as this process last read it, None before that
    resumed,   \* has the operator cleared the flag since the completion was written?
    finals,    \* calls of paper.finalize by this process
    completed, \* OBSERVATION_COMPLETED alerts of all processes
    unwritten, \* completions whose write failed
    marked,    \* has this process written "unclean" at its start?
    left       \* has it come to its normal end?

memory    == <<stopped, finalized, said, finals, marked, left>>
histories == <<resumed, completed, unwritten>>
vars == <<row, pc, memory, histories, entry, faults>>

Down  == "down"
Loop  == {"sleep", "tell", "check", "finalize", "complete", "enter"}
Ends  == {"leave", "close"}
\* Where another task of the event loop may run.
Awaits == {"sleep", "tell", "complete"}

Fault == faults < MaxFaults /\ faults' = faults + 1
Sound == UNCHANGED faults

-----------------------------------------------------------------------------
\* migrate_observation has just created the row; no process runs yet.
Init ==
    /\ row = [stop |-> FALSE, age |-> None, done |-> FALSE, marker |-> "none", reason |-> "none"]
    /\ pc = Down /\ stopped = FALSE /\ finalized = FALSE /\ entry = FALSE
    /\ faults = 0 /\ said = None /\ resumed = FALSE /\ finals = 0
    /\ completed = 0 /\ unwritten = 0 /\ marked = FALSE /\ left = FALSE

\* One statement reads the whole row, one its flag.
LoadState == row
PollStopFlag == row.stop

\* update_state, where its failure is caught and ignored.
UpdateState(new) == (Sound /\ row' = new) \/ (Fault /\ UNCHANGED row)

SetStopFlag(value) == row' = [row EXCEPT !.stop = value]

\* Mutant of Start: only the first run of all is marked unclean.
Start_MarksOnce ==
    /\ pc = Down /\ pc' = "sleep" /\ finals' = 0 /\ left' = FALSE /\ entry' = FALSE
    /\ stopped' = row.stop /\ finalized' = row.done /\ said' = row.stop
    /\ Sound /\ marked' = TRUE
    /\ row' = [row EXCEPT !.marker = IF @ = "none" THEN "unclean" ELSE @]
    /\ UNCHANGED histories

\* _sync_observation_state_on_startup: without the read there is no marker.
Start ==
    /\ pc = Down /\ pc' = "sleep" /\ finals' = 0 /\ left' = FALSE /\ entry' = FALSE
    /\ \/ /\ Fault /\ stopped' = FALSE /\ finalized' = FALSE /\ said' = None
          /\ marked' = FALSE /\ UNCHANGED row
       \/ /\ stopped' = LoadState.stop /\ finalized' = LoadState.done /\ said' = LoadState.stop
          /\ \/ Sound /\ row' = [row EXCEPT !.marker = "unclean"] /\ marked' = TRUE
             \/ Fault /\ UNCHANGED row /\ marked' = FALSE
    /\ UNCHANGED histories

\* Mutant of Poll: a failing read is taken for a cleared flag.
Poll_FailsOpen ==
    /\ pc = "sleep" /\ entry' = FALSE
    /\ \/ Fault /\ stopped' = FALSE /\ pc' = "check" /\ UNCHANGED said
       \/ /\ Sound /\ stopped' = row.stop /\ said' = row.stop
          /\ pc' = IF row.stop = stopped THEN "check" ELSE "tell"
    /\ UNCHANGED <<row, finalized, finals, marked, left, histories>>

\* Mutant of Poll: a failing read ends the loop.
Poll_Uncaught ==
    /\ pc = "sleep" /\ entry' = FALSE
    /\ \/ Fault /\ pc' = "dead" /\ UNCHANGED <<stopped, said>>
       \/ /\ Sound /\ stopped' = row.stop /\ said' = row.stop
          /\ pc' = IF row.stop = stopped THEN "check" ELSE "tell"
    /\ UNCHANGED <<row, finalized, finals, marked, left, histories>>

\* _poll_observation_stop, up to the alert of a transition.
Poll ==
    /\ pc = "sleep" /\ entry' = FALSE
    /\ \/ Fault /\ pc' = "check" /\ UNCHANGED <<stopped, said>>
       \/ /\ Sound /\ stopped' = PollStopFlag /\ said' = PollStopFlag
          /\ pc' = IF PollStopFlag = stopped THEN "check" ELSE "tell"
    /\ UNCHANGED <<row, finalized, finals, marked, left, histories>>

\* _emit_observation_transition: the alert is out; then the reason is written.
Tell ==
    /\ pc = "tell" /\ pc' = "check" /\ entry' = FALSE
    /\ UpdateState([row EXCEPT !.reason = IF stopped THEN "OBSERVATION_STOPPED"
                                                     ELSE "OBSERVATION_RESUMED"])
    /\ UNCHANGED <<memory, histories>>

\* The completion is known to this process, then written.
Complete ==
    /\ stopped' = TRUE /\ finalized' = TRUE /\ pc' = "finalize"
    /\ \/ /\ Sound /\ resumed' = FALSE /\ UNCHANGED unwritten
          /\ row' = [row EXCEPT !.stop = TRUE, !.done = TRUE, !.reason = "OBSERVATION_COMPLETED"]
       \/ Fault /\ unwritten' = unwritten + 1 /\ UNCHANGED <<row, resumed>>

\* _check_auto_finalize, up to the call of paper.finalize.
Check ==
    /\ pc = "check" /\ entry' = FALSE
    /\ \/ /\ finalized /\ pc' = "enter" /\ Sound
          /\ UNCHANGED <<row, stopped, finalized, resumed, unwritten>>
       \/ /\ ~finalized /\ Fault /\ pc' = "enter"
          /\ UNCHANGED <<row, stopped, finalized, resumed, unwritten>>
       \/ /\ ~finalized /\ LoadState.done /\ finalized' = TRUE /\ pc' = "enter" /\ Sound
          /\ UNCHANGED <<row, stopped, resumed, unwritten>>
       \/ /\ ~finalized /\ ~LoadState.done /\ LoadState.age = None /\ pc' = "enter"
          /\ UpdateState([row EXCEPT !.age = 0])
          /\ UNCHANGED <<stopped, finalized, resumed, unwritten>>
       \/ /\ ~finalized /\ ~LoadState.done /\ LoadState.age \in 0..(Target - 1) /\ pc' = "enter" /\ Sound
          /\ UNCHANGED <<row, stopped, finalized, resumed, unwritten>>
       \/ ~finalized /\ ~LoadState.done /\ LoadState.age = Target /\ Complete
    /\ UNCHANGED <<said, finals, marked, left, completed>>

Finalize ==
    /\ pc = "finalize" /\ pc' = "complete" /\ finals' = finals + 1 /\ entry' = FALSE
    /\ Sound /\ UNCHANGED <<row, stopped, finalized, said, marked, left, histories>>

\* The alert of the completion is out.
TellCompleted ==
    /\ pc = "complete" /\ pc' = "enter" /\ completed' = completed + 1 /\ entry' = FALSE
    /\ Sound /\ UNCHANGED <<row, memory, resumed, unwritten>>

\* _handle_micro_trigger_entry, when a symbol triggers.
Enter ==
    /\ pc = "enter" /\ pc' = "sleep" /\ entry' \in {FALSE, ~stopped}
    /\ Sound /\ UNCHANGED <<row, memory, histories>>

-----------------------------------------------------------------------------
\* The time is up or a watchdog stops the run: the tasks are cancelled, and if
\* nothing raises meanwhile the end is a clean one.
Leave ==
    /\ pc \in Awaits /\ entry' = FALSE
    /\ \/ pc' = "leave" /\ left' = TRUE
       \/ pc' = "close" /\ UNCHANGED left
    /\ Sound /\ UNCHANGED <<row, stopped, finalized, said, finals, marked, histories>>

\* _mark_clean_shutdown
MarkClean ==
    /\ pc = "leave" /\ pc' = "close" /\ entry' = FALSE
    /\ UpdateState([row EXCEPT !.marker = "clean"])
    /\ UNCHANGED <<memory, histories>>

\* Mutant of Close: the positions are always finalized at the end.
Close_Always ==
    /\ pc = "close" /\ pc' = Down /\ entry' = FALSE /\ finals' = finals + 1
    /\ Sound /\ UNCHANGED <<row, stopped, finalized, said, marked, left, histories>>

Close ==
    /\ pc = "close" /\ pc' = Down /\ entry' = FALSE
    /\ finals' = IF finalized THEN finals ELSE finals + 1
    /\ Sound /\ UNCHANGED <<row, stopped, finalized, said, marked, left, histories>>

Kill ==
    /\ pc # Down /\ pc' = Down /\ entry' = FALSE
    /\ Sound /\ UNCHANGED <<row, memory, histories>>

\* set_stop_flag from outside.
Operator ==
    /\ \E value \in BOOLEAN : SetStopFlag(value) /\ resumed' = (resumed \/ ~value)
    /\ entry' = FALSE
    /\ Sound /\ UNCHANGED <<pc, memory, completed, unwritten>>

Tick ==
    /\ row.age # None /\ row.age < Target /\ row' = [row EXCEPT !.age = @ + 1]
    /\ entry' = FALSE
    /\ Sound /\ UNCHANGED <<pc, memory, histories>>

Round == Poll \/ Tell \/ Check \/ Finalize \/ TellCompleted \/ Enter
Stop  == MarkClean \/ Close

Next == Start \/ Round \/ Leave \/ Stop \/ Kill \/ Operator \/ Tick

\* The loop and the end of a run go on by themselves; nothing says that a
\* process is started, left or killed, or what the operator does.
Spec == Init /\ [][Next]_vars /\ WF_vars(Round) /\ WF_vars(Stop) /\ WF_vars(Tick)

-----------------------------------------------------------------------------
TypeOK ==
    /\ row \in Row /\ pc \in {Down} \cup Loop \cup Ends
    /\ stopped \in BOOLEAN /\ finalized \in BOOLEAN /\ entry \in BOOLEAN
    /\ faults \in 0..MaxFaults /\ said \in BOOLEAN \cup {None} /\ resumed \in BOOLEAN
    /\ finals \in Nat /\ completed \in Nat /\ unwritten \in Nat
    /\ marked \in BOOLEAN /\ left \in BOOLEAN

(* A position is opened only if this process never managed to read the    *)
(* flag, or last read it cleared and the observation is not completed or   *)
(* the operator has taken the stop back since.  A failing poll keeps what  *)
(* is known (_poll_observation_stop, "Exception halinde onceki state       *)
(* korunur"), and a completion counts before the next poll.                *)
EntryPermitted ==
    [][entry' => \/ said = None
                 \/ said = FALSE /\ (row.done => resumed)]_vars

(* No process finalizes the positions twice ("paper.finalize idempotency   *)
(* garantisi yok", runner.py), and the completion is told once over all    *)
(* processes, plus once for every time it could not be written             *)
(* (_check_auto_finalize asks its own memory and the row).  Every state is *)
(* of its type.                                                            *)
FinalizedOnce == TypeOK /\ finals <= 1 /\ completed <= 1 + unwritten

(* As long as the process that wrote "unclean" at its start has not come   *)
(* to its normal end, the row says so, whatever the operator, the loop and *)
(* a kill do (_sync_observation_state_on_startup, _mark_clean_shutdown).   *)
UncleanUntilLeft == marked /\ ~left => row.marker = "unclean"

(* A stop that the operator does not take back reaches the loop, although  *)
(* polls may fail.                                                         *)
StopTakesEffect == row.stop /\ pc \in Loop ~> (stopped \/ ~row.stop \/ pc \in Ends \cup {Down})

(* When target_days are over, a process that goes on finalizes.            *)
DeadlineFinalizes == row.age = Target /\ pc \in Loop ~> (finalized \/ pc \in Ends \cup {Down})

(* The loop outlives failing reads and writes, and what it waits for comes.*)
LoopReacts == StopTakesEffect /\ DeadlineFinalizes
=============================================================================
