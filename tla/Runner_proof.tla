----------------------------- MODULE Runner_proof -----------------------------
(***************************************************************************)
(* Proofs about what the shadow runner does in each round of its           *)
(* micro-trigger loop: first Observation, for every length of an           *)
(* observation and any number of failing reads and writes, then            *)
(* MicroTrigger, for every set of signals, every window of a kind, and     *)
(* every deadline, validity and quarantine.  The two share no variable.    *)
(***************************************************************************)
EXTENDS Observation, MicroTrigger, TLAPS

-----------------------------------------------------------------------------
(* The inductive invariant                                                 *)

\* A written completion stops the observation until the operator resumes it.
StopHolds == row.done /\ ~resumed => row.stop

\* A process that trades has never read the flag, or read it cleared last; then
\* a completion it may not know of has been taken back.
TradesAsTold == stopped \/ said = None \/ (said = FALSE /\ (row.done => resumed))

\* The marker is written only on the way out of a normal end.
LeavesMarked == (pc = "leave" => left) /\ UncleanUntilLeft

\* paper.finalize follows the flag of the process, or ends it.
FinalizeFollowsFlag ==
    /\ pc # Down /\ ~finalized => finals = 0
    /\ pc = "finalize" => finalized /\ finals = 0
    /\ finals <= 1

\* Completions that were told or are about to be, against those that were
\* written or failed to be.
CompletionsTold ==
    completed + (IF pc \in {"finalize", "complete"} THEN 1 ELSE 0)
        <= (IF row.done THEN 1 ELSE 0) + unwritten

IInv == /\ TypeOK /\ StopHolds /\ TradesAsTold
        /\ LeavesMarked /\ FinalizeFollowsFlag /\ CompletionsTold

LEMMA InitIInv == Init => IInv
<1> SUFFICES ASSUME Init PROVE IInv
  OBVIOUS
<1> USE ObservationAssumption DEF Init
<1>1. TypeOK
  <2>1. row \in Row /\ pc \in {Down} \cup Loop \cup Ends
    BY DEF Row, Down, Loop, Ends
  <2>2. said \in BOOLEAN \cup {None}
    BY Zenon
  <2>3. faults \in 0..MaxFaults
    BY SMT
  <2> QED
    BY <2>1, <2>2, <2>3 DEF TypeOK
<1>2. StopHolds /\ TradesAsTold /\ LeavesMarked
  BY DEF StopHolds, TradesAsTold, LeavesMarked, UncleanUntilLeft, Down
<1>3. FinalizeFollowsFlag /\ CompletionsTold
  BY DEF FinalizeFollowsFlag, CompletionsTold, Down
<1> QED
  BY <1>1, <1>2, <1>3 DEF IInv

(* Steps                                                                   *)

\* _sync_observation_state_on_startup keeps the invariant.
LEMMA StartKeeps == ASSUME IInv, Start PROVE IInv'
<1> USE ObservationAssumption DEF Start, LoadState, Fault, Sound, memory, histories
<1>1. TypeOK /\ StopHolds /\ TradesAsTold /\ LeavesMarked /\ FinalizeFollowsFlag
         /\ CompletionsTold
  BY DEF IInv
<1>2. TypeOK'
  <2>1. row' \in Row
    BY <1>1 DEF TypeOK, Row, Events
  <2>2. pc' \in {Down} \cup Loop \cup Ends
    BY <1>1 DEF TypeOK, Down, Loop, Ends
  <2>3. stopped' \in BOOLEAN /\ finalized' \in BOOLEAN /\ entry' \in BOOLEAN
        /\ resumed' \in BOOLEAN /\ marked' \in BOOLEAN /\ left' \in BOOLEAN
    BY <1>1 DEF TypeOK, Row
  <2>4. said' \in BOOLEAN \cup {None}
    BY <1>1 DEF TypeOK, Row
  <2>5. faults' \in 0..MaxFaults /\ finals' \in Nat /\ completed' \in Nat /\ unwritten' \in Nat
    BY <1>1 DEF TypeOK
  <2> QED
    BY <2>1, <2>2, <2>3, <2>4, <2>5 DEF TypeOK
<1>3. StopHolds' /\ TradesAsTold'
  BY <1>1 DEF TypeOK, Row, StopHolds, TradesAsTold
<1>4. LeavesMarked'
  BY <1>1 DEF TypeOK, Row, LeavesMarked, UncleanUntilLeft, Down
<1>5. FinalizeFollowsFlag'
  BY <1>1 DEF TypeOK, Row, FinalizeFollowsFlag, Down, Awaits
<1>6. CompletionsTold'
  BY <1>1 DEF TypeOK, Row, CompletionsTold, Down, Awaits
<1> QED
  BY <1>2, <1>3, <1>4, <1>5, <1>6 DEF IInv

\* _poll_observation_stop keeps the invariant.
LEMMA PollKeeps == ASSUME IInv, Poll PROVE IInv'
<1> USE ObservationAssumption DEF Poll, PollStopFlag, Fault, Sound, memory, histories
<1>1. TypeOK /\ StopHolds /\ TradesAsTold /\ LeavesMarked /\ FinalizeFollowsFlag
         /\ CompletionsTold
  BY DEF IInv
<1>2. TypeOK'
  <2>1. row' \in Row
    BY <1>1 DEF TypeOK, Row, Events
  <2>2. pc' \in {Down} \cup Loop \cup Ends
    BY <1>1 DEF TypeOK, Down, Loop, Ends
  <2>3. stopped' \in BOOLEAN /\ finalized' \in BOOLEAN /\ entry' \in BOOLEAN
        /\ resumed' \in BOOLEAN /\ marked' \in BOOLEAN /\ left' \in BOOLEAN
    BY <1>1 DEF TypeOK, Row
  <2>4. said' \in BOOLEAN \cup {None}
    BY <1>1 DEF TypeOK, Row
  <2>5. faults' \in 0..MaxFaults /\ finals' \in Nat /\ completed' \in Nat /\ unwritten' \in Nat
    BY <1>1 DEF TypeOK
  <2> QED
    BY <2>1, <2>2, <2>3, <2>4, <2>5 DEF TypeOK
<1>3. StopHolds' /\ TradesAsTold'
  BY <1>1 DEF TypeOK, Row, StopHolds, TradesAsTold
<1>4. LeavesMarked'
  BY <1>1 DEF TypeOK, Row, LeavesMarked, UncleanUntilLeft, Down
<1>5. FinalizeFollowsFlag'
  BY <1>1 DEF TypeOK, Row, FinalizeFollowsFlag, Down, Awaits
<1>6. CompletionsTold'
  BY <1>1 DEF TypeOK, Row, CompletionsTold, Down, Awaits
<1> QED
  BY <1>2, <1>3, <1>4, <1>5, <1>6 DEF IInv

\* _emit_observation_transition keeps the invariant.
LEMMA TellKeeps == ASSUME IInv, Tell PROVE IInv'
<1> USE ObservationAssumption DEF Tell, UpdateState, Fault, Sound, memory, histories
<1>1. TypeOK /\ StopHolds /\ TradesAsTold /\ LeavesMarked /\ FinalizeFollowsFlag
         /\ CompletionsTold
  BY DEF IInv
<1>2. TypeOK'
  <2>1. row' \in Row
    BY <1>1 DEF TypeOK, Row, Events
  <2>2. pc' \in {Down} \cup Loop \cup Ends
    BY <1>1 DEF TypeOK, Down, Loop, Ends
  <2>3. stopped' \in BOOLEAN /\ finalized' \in BOOLEAN /\ entry' \in BOOLEAN
        /\ resumed' \in BOOLEAN /\ marked' \in BOOLEAN /\ left' \in BOOLEAN
    BY <1>1 DEF TypeOK, Row
  <2>4. said' \in BOOLEAN \cup {None}
    BY <1>1 DEF TypeOK, Row
  <2>5. faults' \in 0..MaxFaults /\ finals' \in Nat /\ completed' \in Nat /\ unwritten' \in Nat
    BY <1>1 DEF TypeOK
  <2> QED
    BY <2>1, <2>2, <2>3, <2>4, <2>5 DEF TypeOK
<1>3. StopHolds' /\ TradesAsTold'
  BY <1>1 DEF TypeOK, Row, StopHolds, TradesAsTold
<1>4. LeavesMarked'
  BY <1>1 DEF TypeOK, Row, LeavesMarked, UncleanUntilLeft, Down
<1>5. FinalizeFollowsFlag'
  BY <1>1 DEF TypeOK, Row, FinalizeFollowsFlag, Down, Awaits
<1>6. CompletionsTold'
  BY <1>1 DEF TypeOK, Row, CompletionsTold, Down, Awaits
<1> QED
  BY <1>2, <1>3, <1>4, <1>5, <1>6 DEF IInv

\* _check_auto_finalize up to the call of paper.finalize keeps the invariant.
LEMMA CheckKeeps == ASSUME IInv, Check PROVE IInv'
<1> USE ObservationAssumption DEF Check, Complete, LoadState, UpdateState, Fault, Sound, memory, histories
<1> DEFINE Completed == [row EXCEPT !.stop = TRUE, !.done = TRUE, !.reason = "OBSERVATION_COMPLETED"]
<1>0. \/ row' = row
      \/ row' = [row EXCEPT !.age = 0]
      \/ row' = Completed
  OBVIOUS
<1>1. TypeOK /\ StopHolds /\ TradesAsTold /\ LeavesMarked /\ FinalizeFollowsFlag
         /\ CompletionsTold
  BY DEF IInv
<1>2. TypeOK'
  <2>1. row' \in Row
    <3>1. row \in Row
      BY <1>1 DEF TypeOK
    <3>2. CASE row' = row
      BY <3>1, <3>2
    <3>3. CASE row' = [row EXCEPT !.age = 0]
      BY <3>1, <3>3 DEF Row
    <3>4. CASE row' = Completed
      BY <3>1, <3>4 DEF Row, Events
    <3> QED
      BY <3>2, <3>3, <3>4, <1>0
  <2>2. pc' \in {Down} \cup Loop \cup Ends
    BY <1>1 DEF TypeOK, Down, Loop, Ends
  <2>3. stopped' \in BOOLEAN /\ finalized' \in BOOLEAN /\ entry' \in BOOLEAN
        /\ resumed' \in BOOLEAN /\ marked' \in BOOLEAN /\ left' \in BOOLEAN
    BY <1>1 DEF TypeOK, Row
  <2>4. said' \in BOOLEAN \cup {None}
    BY <1>1 DEF TypeOK, Row
  <2>5. faults' \in 0..MaxFaults /\ finals' \in Nat /\ completed' \in Nat /\ unwritten' \in Nat
    BY <1>1 DEF TypeOK
  <2> QED
    BY <2>1, <2>2, <2>3, <2>4, <2>5 DEF TypeOK
<1>3. StopHolds' /\ TradesAsTold'
  BY <1>1 DEF TypeOK, Row, StopHolds, TradesAsTold
<1>4. LeavesMarked'
  BY <1>1 DEF TypeOK, Row, LeavesMarked, UncleanUntilLeft, Down
<1>5. FinalizeFollowsFlag'
  BY <1>1 DEF TypeOK, Row, FinalizeFollowsFlag, Down, Awaits
<1>6. CompletionsTold'
  <2>1. row.done \in BOOLEAN /\ completed \in Nat /\ unwritten \in Nat /\ CompletionsTold
    BY <1>1 DEF TypeOK, Row
  <2>2. CASE Complete
    <3>1. pc = "check" /\ pc' = "finalize" /\ completed' = completed /\ ~row.done
      BY <2>2
    <3>2. (row'.done /\ unwritten' = unwritten) \/ (~row'.done /\ unwritten' = unwritten + 1)
      BY <1>1, <2>2, <3>1 DEF TypeOK, Row
    <3> QED
      BY <2>1, <3>1, <3>2 DEF CompletionsTold
  <2>3. CASE ~Complete
    <3>1. pc = "check" /\ pc' = "enter" /\ completed' = completed /\ unwritten' = unwritten
      BY <2>3
    <3>2. row'.done = row.done
      BY <1>1, <2>3 DEF TypeOK, Row
    <3> QED
      BY <2>1, <3>1, <3>2 DEF CompletionsTold
  <2> QED
    BY <2>2, <2>3
<1> QED
  BY <1>2, <1>3, <1>4, <1>5, <1>6 DEF IInv

\* Paper.finalize inside _check_auto_finalize keeps the invariant.
LEMMA FinalizeKeeps == ASSUME IInv, Finalize PROVE IInv'
<1> USE ObservationAssumption DEF Finalize, Fault, Sound, memory, histories
<1>1. TypeOK /\ StopHolds /\ TradesAsTold /\ LeavesMarked /\ FinalizeFollowsFlag
         /\ CompletionsTold
  BY DEF IInv
<1>2. TypeOK'
  <2>1. row' \in Row
    BY <1>1 DEF TypeOK, Row, Events
  <2>2. pc' \in {Down} \cup Loop \cup Ends
    BY <1>1 DEF TypeOK, Down, Loop, Ends
  <2>3. stopped' \in BOOLEAN /\ finalized' \in BOOLEAN /\ entry' \in BOOLEAN
        /\ resumed' \in BOOLEAN /\ marked' \in BOOLEAN /\ left' \in BOOLEAN
    BY <1>1 DEF TypeOK, Row
  <2>4. said' \in BOOLEAN \cup {None}
    BY <1>1 DEF TypeOK, Row
  <2>5. faults' \in 0..MaxFaults /\ finals' \in Nat /\ completed' \in Nat /\ unwritten' \in Nat
    BY <1>1 DEF TypeOK
  <2> QED
    BY <2>1, <2>2, <2>3, <2>4, <2>5 DEF TypeOK
<1>3. StopHolds' /\ TradesAsTold'
  BY <1>1 DEF TypeOK, Row, StopHolds, TradesAsTold
<1>4. LeavesMarked'
  BY <1>1 DEF TypeOK, Row, LeavesMarked, UncleanUntilLeft, Down
<1>5. FinalizeFollowsFlag'
  BY <1>1 DEF TypeOK, Row, FinalizeFollowsFlag, Down, Awaits
<1>6. CompletionsTold'
  BY <1>1 DEF TypeOK, Row, CompletionsTold, Down, Awaits
<1> QED
  BY <1>2, <1>3, <1>4, <1>5, <1>6 DEF IInv

\* The OBSERVATION_COMPLETED alert keeps the invariant.
LEMMA TellCompletedKeeps == ASSUME IInv, TellCompleted PROVE IInv'
<1> USE ObservationAssumption DEF TellCompleted, Fault, Sound, memory, histories
<1>1. TypeOK /\ StopHolds /\ TradesAsTold /\ LeavesMarked /\ FinalizeFollowsFlag
         /\ CompletionsTold
  BY DEF IInv
<1>2. TypeOK'
  <2>1. row' \in Row
    BY <1>1 DEF TypeOK, Row, Events
  <2>2. pc' \in {Down} \cup Loop \cup Ends
    BY <1>1 DEF TypeOK, Down, Loop, Ends
  <2>3. stopped' \in BOOLEAN /\ finalized' \in BOOLEAN /\ entry' \in BOOLEAN
        /\ resumed' \in BOOLEAN /\ marked' \in BOOLEAN /\ left' \in BOOLEAN
    BY <1>1 DEF TypeOK, Row
  <2>4. said' \in BOOLEAN \cup {None}
    BY <1>1 DEF TypeOK, Row
  <2>5. faults' \in 0..MaxFaults /\ finals' \in Nat /\ completed' \in Nat /\ unwritten' \in Nat
    BY <1>1 DEF TypeOK
  <2> QED
    BY <2>1, <2>2, <2>3, <2>4, <2>5 DEF TypeOK
<1>3. StopHolds' /\ TradesAsTold'
  BY <1>1 DEF TypeOK, Row, StopHolds, TradesAsTold
<1>4. LeavesMarked'
  BY <1>1 DEF TypeOK, Row, LeavesMarked, UncleanUntilLeft, Down
<1>5. FinalizeFollowsFlag'
  BY <1>1 DEF TypeOK, Row, FinalizeFollowsFlag, Down, Awaits
<1>6. CompletionsTold'
  BY <1>1 DEF TypeOK, Row, CompletionsTold, Down, Awaits
<1> QED
  BY <1>2, <1>3, <1>4, <1>5, <1>6 DEF IInv

\* _handle_micro_trigger_entry keeps the invariant.
LEMMA EnterKeeps == ASSUME IInv, Enter PROVE IInv'
<1> USE ObservationAssumption DEF Enter, Fault, Sound, memory, histories
<1>1. TypeOK /\ StopHolds /\ TradesAsTold /\ LeavesMarked /\ FinalizeFollowsFlag
         /\ CompletionsTold
  BY DEF IInv
<1>2. TypeOK'
  <2>1. row' \in Row
    BY <1>1 DEF TypeOK, Row, Events
  <2>2. pc' \in {Down} \cup Loop \cup Ends
    BY <1>1 DEF TypeOK, Down, Loop, Ends
  <2>3. stopped' \in BOOLEAN /\ finalized' \in BOOLEAN /\ entry' \in BOOLEAN
        /\ resumed' \in BOOLEAN /\ marked' \in BOOLEAN /\ left' \in BOOLEAN
    BY <1>1 DEF TypeOK, Row
  <2>4. said' \in BOOLEAN \cup {None}
    BY <1>1 DEF TypeOK, Row
  <2>5. faults' \in 0..MaxFaults /\ finals' \in Nat /\ completed' \in Nat /\ unwritten' \in Nat
    BY <1>1 DEF TypeOK
  <2> QED
    BY <2>1, <2>2, <2>3, <2>4, <2>5 DEF TypeOK
<1>3. StopHolds' /\ TradesAsTold'
  BY <1>1 DEF TypeOK, Row, StopHolds, TradesAsTold
<1>4. LeavesMarked'
  BY <1>1 DEF TypeOK, Row, LeavesMarked, UncleanUntilLeft, Down
<1>5. FinalizeFollowsFlag'
  BY <1>1 DEF TypeOK, Row, FinalizeFollowsFlag, Down, Awaits
<1>6. CompletionsTold'
  BY <1>1 DEF TypeOK, Row, CompletionsTold, Down, Awaits
<1> QED
  BY <1>2, <1>3, <1>4, <1>5, <1>6 DEF IInv

\* The end of run() keeps the invariant.
LEMMA LeaveKeeps == ASSUME IInv, Leave PROVE IInv'
<1> USE ObservationAssumption DEF Leave, Fault, Sound, memory, histories
<1>1. TypeOK /\ StopHolds /\ TradesAsTold /\ LeavesMarked /\ FinalizeFollowsFlag
         /\ CompletionsTold
  BY DEF IInv
<1>2. TypeOK'
  <2>1. row' \in Row
    BY <1>1 DEF TypeOK, Row, Events
  <2>2. pc' \in {Down} \cup Loop \cup Ends
    BY <1>1 DEF TypeOK, Down, Loop, Ends
  <2>3. stopped' \in BOOLEAN /\ finalized' \in BOOLEAN /\ entry' \in BOOLEAN
        /\ resumed' \in BOOLEAN /\ marked' \in BOOLEAN /\ left' \in BOOLEAN
    BY <1>1 DEF TypeOK, Row
  <2>4. said' \in BOOLEAN \cup {None}
    BY <1>1 DEF TypeOK, Row
  <2>5. faults' \in 0..MaxFaults /\ finals' \in Nat /\ completed' \in Nat /\ unwritten' \in Nat
    BY <1>1 DEF TypeOK
  <2> QED
    BY <2>1, <2>2, <2>3, <2>4, <2>5 DEF TypeOK
<1>3. StopHolds' /\ TradesAsTold'
  BY <1>1 DEF TypeOK, Row, StopHolds, TradesAsTold
<1>4. LeavesMarked'
  BY <1>1 DEF TypeOK, Row, LeavesMarked, UncleanUntilLeft, Down
<1>5. FinalizeFollowsFlag'
  BY <1>1 DEF TypeOK, Row, FinalizeFollowsFlag, Down, Awaits
<1>6. CompletionsTold'
  BY <1>1 DEF TypeOK, Row, CompletionsTold, Down, Awaits
<1> QED
  BY <1>2, <1>3, <1>4, <1>5, <1>6 DEF IInv

\* _mark_clean_shutdown keeps the invariant.
LEMMA MarkCleanKeeps == ASSUME IInv, MarkClean PROVE IInv'
<1> USE ObservationAssumption DEF MarkClean, UpdateState, Fault, Sound, memory, histories
<1>1. TypeOK /\ StopHolds /\ TradesAsTold /\ LeavesMarked /\ FinalizeFollowsFlag
         /\ CompletionsTold
  BY DEF IInv
<1>2. TypeOK'
  <2>1. row' \in Row
    BY <1>1 DEF TypeOK, Row, Events
  <2>2. pc' \in {Down} \cup Loop \cup Ends
    BY <1>1 DEF TypeOK, Down, Loop, Ends
  <2>3. stopped' \in BOOLEAN /\ finalized' \in BOOLEAN /\ entry' \in BOOLEAN
        /\ resumed' \in BOOLEAN /\ marked' \in BOOLEAN /\ left' \in BOOLEAN
    BY <1>1 DEF TypeOK, Row
  <2>4. said' \in BOOLEAN \cup {None}
    BY <1>1 DEF TypeOK, Row
  <2>5. faults' \in 0..MaxFaults /\ finals' \in Nat /\ completed' \in Nat /\ unwritten' \in Nat
    BY <1>1 DEF TypeOK
  <2> QED
    BY <2>1, <2>2, <2>3, <2>4, <2>5 DEF TypeOK
<1>3. StopHolds' /\ TradesAsTold'
  BY <1>1 DEF TypeOK, Row, StopHolds, TradesAsTold
<1>4. LeavesMarked'
  BY <1>1 DEF TypeOK, Row, LeavesMarked, UncleanUntilLeft, Down
<1>5. FinalizeFollowsFlag'
  BY <1>1 DEF TypeOK, Row, FinalizeFollowsFlag, Down, Awaits
<1>6. CompletionsTold'
  BY <1>1 DEF TypeOK, Row, CompletionsTold, Down, Awaits
<1> QED
  BY <1>2, <1>3, <1>4, <1>5, <1>6 DEF IInv

\* The finalize at the end of run() keeps the invariant.
LEMMA CloseKeeps == ASSUME IInv, Close PROVE IInv'
<1> USE ObservationAssumption DEF Close, Fault, Sound, memory, histories
<1>1. TypeOK /\ StopHolds /\ TradesAsTold /\ LeavesMarked /\ FinalizeFollowsFlag
         /\ CompletionsTold
  BY DEF IInv
<1>2. TypeOK'
  <2>1. row' \in Row
    BY <1>1 DEF TypeOK, Row, Events
  <2>2. pc' \in {Down} \cup Loop \cup Ends
    BY <1>1 DEF TypeOK, Down, Loop, Ends
  <2>3. stopped' \in BOOLEAN /\ finalized' \in BOOLEAN /\ entry' \in BOOLEAN
        /\ resumed' \in BOOLEAN /\ marked' \in BOOLEAN /\ left' \in BOOLEAN
    BY <1>1 DEF TypeOK, Row
  <2>4. said' \in BOOLEAN \cup {None}
    BY <1>1 DEF TypeOK, Row
  <2>5. faults' \in 0..MaxFaults /\ finals' \in Nat /\ completed' \in Nat /\ unwritten' \in Nat
    BY <1>1 DEF TypeOK
  <2> QED
    BY <2>1, <2>2, <2>3, <2>4, <2>5 DEF TypeOK
<1>3. StopHolds' /\ TradesAsTold'
  BY <1>1 DEF TypeOK, Row, StopHolds, TradesAsTold
<1>4. LeavesMarked'
  BY <1>1 DEF TypeOK, Row, LeavesMarked, UncleanUntilLeft, Down
<1>5. FinalizeFollowsFlag'
  BY <1>1 DEF TypeOK, Row, FinalizeFollowsFlag, Down, Awaits
<1>6. CompletionsTold'
  BY <1>1 DEF TypeOK, Row, CompletionsTold, Down, Awaits
<1> QED
  BY <1>2, <1>3, <1>4, <1>5, <1>6 DEF IInv

\* A kill keeps the invariant.
LEMMA KillKeeps == ASSUME IInv, Kill PROVE IInv'
<1> USE ObservationAssumption DEF Kill, Fault, Sound, memory, histories
<1>1. TypeOK /\ StopHolds /\ TradesAsTold /\ LeavesMarked /\ FinalizeFollowsFlag
         /\ CompletionsTold
  BY DEF IInv
<1>2. TypeOK'
  <2>1. row' \in Row
    BY <1>1 DEF TypeOK, Row, Events
  <2>2. pc' \in {Down} \cup Loop \cup Ends
    BY <1>1 DEF TypeOK, Down, Loop, Ends
  <2>3. stopped' \in BOOLEAN /\ finalized' \in BOOLEAN /\ entry' \in BOOLEAN
        /\ resumed' \in BOOLEAN /\ marked' \in BOOLEAN /\ left' \in BOOLEAN
    BY <1>1 DEF TypeOK, Row
  <2>4. said' \in BOOLEAN \cup {None}
    BY <1>1 DEF TypeOK, Row
  <2>5. faults' \in 0..MaxFaults /\ finals' \in Nat /\ completed' \in Nat /\ unwritten' \in Nat
    BY <1>1 DEF TypeOK
  <2> QED
    BY <2>1, <2>2, <2>3, <2>4, <2>5 DEF TypeOK
<1>3. StopHolds' /\ TradesAsTold'
  BY <1>1 DEF TypeOK, Row, StopHolds, TradesAsTold
<1>4. LeavesMarked'
  BY <1>1 DEF TypeOK, Row, LeavesMarked, UncleanUntilLeft, Down
<1>5. FinalizeFollowsFlag'
  BY <1>1 DEF TypeOK, Row, FinalizeFollowsFlag, Down, Awaits
<1>6. CompletionsTold'
  BY <1>1 DEF TypeOK, Row, CompletionsTold, Down, Awaits
<1> QED
  BY <1>2, <1>3, <1>4, <1>5, <1>6 DEF IInv

\* Set_stop_flag keeps the invariant.
LEMMA OperatorKeeps == ASSUME IInv, Operator PROVE IInv'
<1> USE ObservationAssumption DEF Operator, SetStopFlag, Fault, Sound, memory, histories
<1>1. TypeOK /\ StopHolds /\ TradesAsTold /\ LeavesMarked /\ FinalizeFollowsFlag
         /\ CompletionsTold
  BY DEF IInv
<1>2. TypeOK'
  <2>1. row' \in Row
    BY <1>1 DEF TypeOK, Row, Events
  <2>2. pc' \in {Down} \cup Loop \cup Ends
    BY <1>1 DEF TypeOK, Down, Loop, Ends
  <2>3. stopped' \in BOOLEAN /\ finalized' \in BOOLEAN /\ entry' \in BOOLEAN
        /\ resumed' \in BOOLEAN /\ marked' \in BOOLEAN /\ left' \in BOOLEAN
    BY <1>1 DEF TypeOK, Row
  <2>4. said' \in BOOLEAN \cup {None}
    BY <1>1 DEF TypeOK, Row
  <2>5. faults' \in 0..MaxFaults /\ finals' \in Nat /\ completed' \in Nat /\ unwritten' \in Nat
    BY <1>1 DEF TypeOK
  <2> QED
    BY <2>1, <2>2, <2>3, <2>4, <2>5 DEF TypeOK
<1>3. StopHolds' /\ TradesAsTold'
  BY <1>1 DEF TypeOK, Row, StopHolds, TradesAsTold
<1>4. LeavesMarked'
  BY <1>1 DEF TypeOK, Row, LeavesMarked, UncleanUntilLeft, Down
<1>5. FinalizeFollowsFlag'
  BY <1>1 DEF TypeOK, Row, FinalizeFollowsFlag, Down, Awaits
<1>6. CompletionsTold'
  BY <1>1 DEF TypeOK, Row, CompletionsTold, Down, Awaits
<1> QED
  BY <1>2, <1>3, <1>4, <1>5, <1>6 DEF IInv

\* The age of the observation keeps the invariant.
LEMMA TickKeeps == ASSUME IInv, Tick PROVE IInv'
<1> USE ObservationAssumption DEF Tick, Fault, Sound, memory, histories
<1>1. TypeOK /\ StopHolds /\ TradesAsTold /\ LeavesMarked /\ FinalizeFollowsFlag
         /\ CompletionsTold
  BY DEF IInv
<1>2. TypeOK'
  <2>1. row' \in Row
    BY <1>1 DEF TypeOK, Row, Events
  <2>2. pc' \in {Down} \cup Loop \cup Ends
    BY <1>1 DEF TypeOK, Down, Loop, Ends
  <2>3. stopped' \in BOOLEAN /\ finalized' \in BOOLEAN /\ entry' \in BOOLEAN
        /\ resumed' \in BOOLEAN /\ marked' \in BOOLEAN /\ left' \in BOOLEAN
    BY <1>1 DEF TypeOK, Row
  <2>4. said' \in BOOLEAN \cup {None}
    BY <1>1 DEF TypeOK, Row
  <2>5. faults' \in 0..MaxFaults /\ finals' \in Nat /\ completed' \in Nat /\ unwritten' \in Nat
    BY <1>1 DEF TypeOK
  <2> QED
    BY <2>1, <2>2, <2>3, <2>4, <2>5 DEF TypeOK
<1>3. StopHolds' /\ TradesAsTold'
  BY <1>1 DEF TypeOK, Row, StopHolds, TradesAsTold
<1>4. LeavesMarked'
  BY <1>1 DEF TypeOK, Row, LeavesMarked, UncleanUntilLeft, Down
<1>5. FinalizeFollowsFlag'
  BY <1>1 DEF TypeOK, Row, FinalizeFollowsFlag, Down, Awaits
<1>6. CompletionsTold'
  BY <1>1 DEF TypeOK, Row, CompletionsTold, Down, Awaits
<1> QED
  BY <1>2, <1>3, <1>4, <1>5, <1>6 DEF IInv

LEMMA NextIInv == IInv /\ [Next]_vars => IInv'
<1> SUFFICES ASSUME IInv, [Next]_vars PROVE IInv'
  OBVIOUS
<1>1. CASE Start
  BY <1>1, StartKeeps
<1>2. CASE Poll
  BY <1>2, PollKeeps
<1>3. CASE Tell
  BY <1>3, TellKeeps
<1>4. CASE Check
  BY <1>4, CheckKeeps
<1>5. CASE Finalize
  BY <1>5, FinalizeKeeps
<1>6. CASE TellCompleted
  BY <1>6, TellCompletedKeeps
<1>7. CASE Enter
  BY <1>7, EnterKeeps
<1>8. CASE Leave
  BY <1>8, LeaveKeeps
<1>9. CASE MarkClean
  BY <1>9, MarkCleanKeeps
<1>10. CASE Close
  BY <1>10, CloseKeeps
<1>11. CASE Kill
  BY <1>11, KillKeeps
<1>12. CASE Operator
  BY <1>12, OperatorKeeps
<1>13. CASE Tick
  BY <1>13, TickKeeps
<1>14. CASE UNCHANGED vars
  BY <1>14 DEF vars, memory, histories, IInv, TypeOK, StopHolds, TradesAsTold,
     LeavesMarked, UncleanUntilLeft, FinalizeFollowsFlag, CompletionsTold
<1> QED
  BY <1>1, <1>2, <1>3, <1>4, <1>5, <1>6, <1>7, <1>8, <1>9, <1>10, <1>11, <1>12, <1>13, <1>14
    DEF Next, Round, Stop

-----------------------------------------------------------------------------
(* Theorems                                                                *)

\* The state is of its type, and the parts of IInv hold, whatever fails, is
\* killed or is taken back.
THEOREM InductiveInvariant == Spec => []IInv
<1> QED
  BY InitIInv, NextIInv, PTL DEF Spec

\* No process finalizes its positions twice, and a completion is told once over
\* all processes, once more for every write of it that failed
\* (_check_auto_finalize and the end of run()).
THEOREM FinalizesOnce == Spec => []FinalizedOnce
<1>1. IInv => FinalizedOnce
  BY DEF IInv, FinalizedOnce, TypeOK, Row, FinalizeFollowsFlag, CompletionsTold
<1> QED
  BY <1>1, InductiveInvariant, PTL

\* A process that did not come to its normal end leaves "unclean" behind
\* (_sync_observation_state_on_startup, _mark_clean_shutdown).
THEOREM UncleanStays == Spec => []UncleanUntilLeft
<1>1. IInv => UncleanUntilLeft
  BY DEF IInv, LeavesMarked
<1> QED
  BY <1>1, InductiveInvariant, PTL

\* Only the last step of a round opens a position.
LEMMA OnlyEnterEnters ==
    ASSUME Next, entry' PROVE Enter
<1> QED
  BY DEF Next, Round, Stop, Start, Poll, Tell, Check, Finalize, TellCompleted, Enter,
     Leave, MarkClean, Close, Kill, Operator, Tick

\* A step opens a position only if the process never read the flag, or read it
\* cleared and a completion was taken back (_poll_observation_stop keeps the last
\* state when a read fails).
THEOREM EntriesArePermitted == Spec => EntryPermitted
<1> DEFINE A == entry' => said = None \/ (said = FALSE /\ (row.done => resumed))
<1>1. ASSUME IInv, [Next]_vars PROVE [A]_vars
  <2>1. CASE UNCHANGED vars
    BY <2>1
  <2>2. CASE Next /\ ~entry'
    BY <2>2
  <2>3. CASE Next /\ entry'
    <3>1. ~stopped
      BY <2>3, OnlyEnterEnters, <1>1 DEF Enter, IInv, TypeOK
    <3> QED
      BY <3>1, <1>1 DEF IInv, TradesAsTold
  <2> QED
    BY <1>1, <2>1, <2>2, <2>3
<1> QED
  BY <1>1, InductiveInvariant, PTL DEF Spec, EntryPermitted

-----------------------------------------------------------------------------
(* MicroTrigger: operators                                                 *)

\* The oldest age that is kept is an age: there are four windows.
LEMMA OldType == Old \in Nat
<1> DEFINE W == {Window[k] : k \in Kinds}
<1>1. Window["sweep"] \in Nat /\ Window["mss"] \in Nat /\ Window["fvg"] \in Nat /\ Window["ote"] \in Nat
  BY TriggerAssumption DEF Kinds
<1>2. W = {Window["sweep"], Window["mss"], Window["fvg"], Window["ote"]}
  BY DEF Kinds
<1> HIDE DEF W
<1>3. \E m \in W : \A n \in W : n <= m
  <2> DEFINE M(a, b) == IF a <= b THEN b ELSE a
             m == M(M(Window["sweep"], Window["mss"]), M(Window["fvg"], Window["ote"]))
  <2>1. m \in W /\ \A n \in W : n <= m
    BY <1>1, <1>2
  <2> QED
    BY <2>1
<1>4. MaxOf(W) \in W
  BY <1>3 DEF MaxOf
<1>5. MaxOf(W) \in Nat
  BY <1>1, <1>2, <1>4
<1> QED
  BY <1>5 DEF Old, W

\* An age stays within its bound as it grows.
LEMMA OlderType ==
    ASSUME NEW bound \in Nat, NEW age \in 0..bound \cup {Nil}
    PROVE  Older(age, bound) \in 0..bound \cup {Nil}
BY TriggerAssumption DEF Older, MinOf

\* Adding the pause under way keeps totals in their range and in their order.
LEMMA FlushedType ==
    ASSUME pause \in 0..Deadline \cup {Nil}, NEW total \in 0..Deadline
    PROVE  Flushed(total) \in 0..Deadline
BY TriggerAssumption DEF Flushed, MinOf

LEMMA FlushedMono ==
    ASSUME pause \in 0..Deadline \cup {Nil},
           NEW a \in 0..Deadline, NEW b \in 0..Deadline, a <= b
    PROVE  Flushed(a) <= Flushed(b)
<1>1. a \in Int /\ b \in Int /\ Deadline \in Int
  BY TriggerAssumption
<1>2. CASE pause = Nil
  BY <1>2 DEF Flushed
<1>3. CASE pause # Nil /\ pause \in Int
  <2>1. Flushed(a) = MinOf(a + pause, Deadline) /\ Flushed(b) = MinOf(b + pause, Deadline)
    BY <1>3 DEF Flushed
  <2>2. MinOf(a + pause, Deadline) <= MinOf(b + pause, Deadline)
    BY <1>1, <1>3 DEF MinOf
  <2> QED
    BY <2>1, <2>2
<1> QED
  BY <1>1, <1>2, <1>3

\* One evaluation moves a setup by one state, or makes it a trigger.
LEMMA ProgressType ==
    ASSUME NEW st \in States
    PROVE  Progress(st) \in States \cup {"TRIGGER"}
BY DEF Progress, States

LEMMA TriggerIsConfirmed ==
    ASSUME NEW st \in States, Progress(st) = "TRIGGER"
    PROVE  st = "MICRO_CONFIRM"
<1>1. st # "TRIGGER"
  BY DEF States
<1> QED
  BY <1>1 DEF Progress

LEMMA DirectionType == Direction \in Sides \cup {Nil}
BY DEF Direction, Sides

-----------------------------------------------------------------------------
(* Its inductive invariant: PauseIsCounted with the types                  *)

\* What an evaluation may change is of its type, and the pauses stay counted.
EvaluatedOK ==
    /\ state' \in States /\ paused' \in 0..Deadline /\ pause' \in 0..Deadline \cup {Nil}
    /\ entered' \in Sides \cup {Nil} /\ lost' \in 0..Deadline
    /\ state' # "IDLE" => lost' <= paused'

LEMMA ResetOK == ASSUME ResetToIdle PROVE
    /\ state' \in States /\ paused' \in 0..Deadline /\ pause' \in 0..Deadline \cup {Nil}
    /\ lost' \in 0..Deadline /\ state' = "IDLE"
BY TriggerAssumption DEF ResetToIdle, States

LEMMA EvaluateOK == ASSUME PauseIsCounted, Evaluate PROVE EvaluatedOK
<1> USE TriggerAssumption
<1>1. /\ state \in States /\ paused \in 0..Deadline /\ lost \in 0..Deadline
      /\ pause \in 0..Deadline \cup {Nil} /\ (state # "IDLE" => lost <= paused)
      /\ Deadline \in Nat
  BY DEF PauseIsCounted, TriggerTypeOK
<1>2. Flushed(paused) \in 0..Deadline /\ Flushed(lost) \in 0..Deadline
  BY <1>1, FlushedType
<1>3. state # "IDLE" => Flushed(lost) <= Flushed(paused)
  BY <1>1, FlushedMono
<1>4. 0 \in 0..Deadline /\ 0 <= Flushed(paused)
  BY <1>1, <1>2
<1>5. CASE Expired /\ ResetToIdle /\ entered' = Nil
  BY <1>5, ResetOK DEF EvaluatedOK
<1>6. CASE Invalid
  BY <1>1, <1>2, <1>3, <1>4, <1>6 DEF Invalid, EvaluatedOK
<1>7. CASE Advance
  <2>1. CASE Progress(state) = "TRIGGER"
    BY <1>7, <2>1, ResetOK, DirectionType DEF Advance, EvaluatedOK
  <2>2. CASE Progress(state) # "TRIGGER"
    <3>1. Progress(state) \in States
      BY <1>1, <2>2, ProgressType
    <3> QED
      BY <1>1, <1>2, <1>3, <1>4, <1>7, <2>2, <3>1 DEF Advance, EvaluatedOK
  <2> QED
    BY <2>1, <2>2
<1> QED
  BY <1>5, <1>6, <1>7 DEF Evaluate

LEMMA InitCounted == TriggerInit => PauseIsCounted
<1> SUFFICES ASSUME TriggerInit PROVE PauseIsCounted
  OBVIOUS
<1>1. state \in States /\ state = "IDLE" /\ listened \in BOOLEAN /\ due \in BOOLEAN
  BY DEF TriggerInit, States
<1>2. paused \in 0..Deadline /\ lost \in 0..Deadline /\ quarantine \in 0..QuarantineFor
  BY TriggerAssumption DEF TriggerInit
<1>3. /\ pause = Nil /\ data = Nil /\ entered = Nil
      /\ recent \in [Signals -> 0..Old \cup {Nil}]
  BY DEF TriggerInit
<1> QED
  BY <1>1, <1>2, <1>3 DEF PauseIsCounted, TriggerTypeOK

LEMMA RoundKeepsPauses == ASSUME PauseIsCounted, EvaluationRound PROVE PauseIsCounted'
<1>1. EvaluatedOK
  <2>1. CASE listened /\ quarantine = 0
    BY <2>1, EvaluateOK DEF EvaluationRound
  <2>2. CASE ~(listened /\ quarantine = 0)
    <3>1. entered' = Nil /\ UNCHANGED <<state, paused, pause, lost>>
      BY <2>2 DEF EvaluationRound
    <3> QED
      BY <3>1 DEF PauseIsCounted, TriggerTypeOK, EvaluatedOK
  <2> QED
    BY <2>1, <2>2
<1> QED
  BY <1>1 DEF EvaluationRound, EvaluatedOK, PauseIsCounted, TriggerTypeOK

LEMMA FailureKeepsPauses == ASSUME PauseIsCounted, Fails PROVE PauseIsCounted'
<1>1. paused' \in 0..Deadline /\ pause' \in 0..Deadline \cup {Nil}
  BY FlushedType DEF Fails, PauseIsCounted, TriggerTypeOK
<1>2. QuarantineFor \in Nat /\ Deadline \in Nat
  BY TriggerAssumption
<1>3. state' \in States /\ state' = "IDLE" /\ due' \in BOOLEAN
  BY DEF Fails, States
<1>4. quarantine' \in 0..QuarantineFor /\ lost' \in 0..Deadline
  BY <1>2 DEF Fails
<1>5. entered' \in Sides \cup {Nil} /\ UNCHANGED <<recent, data, listened>>
  BY DEF Fails
<1> QED
  BY <1>1, <1>3, <1>4, <1>5 DEF PauseIsCounted, TriggerTypeOK

LEMMA TimeKeepsPauses == ASSUME PauseIsCounted, TimePasses PROVE PauseIsCounted'
<1>1. Deadline \in Nat /\ ValidFor \in Nat /\ Old \in Nat /\ QuarantineFor \in Nat
  BY OldType, TriggerAssumption
<1>2. pause' \in 0..Deadline \cup {Nil} /\ data' \in 0..ValidFor \cup {Nil}
  BY <1>1, OlderType DEF TimePasses, PauseIsCounted, TriggerTypeOK
<1>3. recent' \in [Signals -> 0..Old \cup {Nil}]
  BY <1>1, OlderType DEF TimePasses, PauseIsCounted, TriggerTypeOK
<1>4. quarantine' \in 0..QuarantineFor
  BY <1>1 DEF TimePasses, PauseIsCounted, TriggerTypeOK
<1> QED
  BY <1>2, <1>3, <1>4 DEF TimePasses, PauseIsCounted, TriggerTypeOK

LEMMA OutsideKeepsPauses ==
    ASSUME PauseIsCounted,
           Push \/ Unsubscribe \/ Resubscribe \/ (\E s \in Signals : Signal(s) \/ Forget(s))
    PROVE  PauseIsCounted'
<1> USE DEF PauseIsCounted, TriggerTypeOK, machine
<1>1. 0 \in 0..ValidFor /\ 0 \in 0..Old
  BY OldType, TriggerAssumption
<1>2. CASE Push
  BY <1>1, <1>2 DEF Push
<1>3. CASE Unsubscribe
  BY <1>3 DEF Unsubscribe
<1>4. CASE Resubscribe
  BY <1>4 DEF Resubscribe
<1>5. ASSUME NEW s \in Signals, Signal(s) PROVE PauseIsCounted'
  BY <1>1, <1>5 DEF Signal
<1>6. ASSUME NEW s \in Signals, Forget(s) PROVE PauseIsCounted'
  BY <1>6 DEF Forget
<1> QED
  BY <1>2, <1>3, <1>4, <1>5, <1>6

LEMMA NextCounted == PauseIsCounted /\ [TriggerNext]_triggerVars => PauseIsCounted'
<1> SUFFICES ASSUME PauseIsCounted, [TriggerNext]_triggerVars PROVE PauseIsCounted'
  OBVIOUS
<1>1. CASE EvaluationRound
  BY <1>1, RoundKeepsPauses
<1>2. CASE Fails
  BY <1>2, FailureKeepsPauses
<1>3. CASE TimePasses
  BY <1>3, TimeKeepsPauses
<1>4. CASE Push \/ Unsubscribe \/ Resubscribe \/ (\E s \in Signals : Signal(s) \/ Forget(s))
  BY <1>4, OutsideKeepsPauses
<1>5. CASE UNCHANGED triggerVars
  BY <1>5 DEF triggerVars, machine, PauseIsCounted, TriggerTypeOK
<1> QED
  BY <1>1, <1>2, <1>3, <1>4, <1>5 DEF TriggerNext

-----------------------------------------------------------------------------
(* Its theorems                                                            *)

\* paused_ms never falls behind the time a setup has really been without valid
\* data (evaluate, _handle_pause_start and _flush_pause).
THEOREM PausesAreCounted == TriggerSpec => []PauseIsCounted
<1> QED
  BY InitCounted, NextCounted, PTL DEF TriggerSpec

\* An entry is made by an evaluation with valid data that was not expired.
LEMMA OnlyTriggerEnters ==
    ASSUME TriggerNext, entered' # Nil
    PROVE  /\ listened /\ quarantine = 0 /\ ~Expired /\ Valid
           /\ Progress(state) = "TRIGGER"
<1>1. EvaluationRound
  BY DEF TriggerNext, Fails, TimePasses, Push, Unsubscribe, Resubscribe, Signal, Forget
<1>2. listened /\ quarantine = 0 /\ Evaluate
  BY <1>1 DEF EvaluationRound
<1>3. ~Expired /\ Valid /\ Advance
  BY <1>2 DEF Evaluate, Invalid
<1>4. Progress(state) = "TRIGGER"
  BY <1>3 DEF Advance
<1> QED
  BY <1>2, <1>3, <1>4

\* A setup that lost the whole deadline does not become an entry (evaluate looks
\* at hard_deadline_ms before validity and progress).
THEOREM NoLateEntry == TriggerSpec => NoEntryPastDeadline
<1> DEFINE A == entered' # Nil => /\ lost < Deadline
                                 /\ Valid /\ listened /\ quarantine = 0
<1>1. ASSUME PauseIsCounted, [TriggerNext]_triggerVars PROVE [A]_triggerVars
  <2>1. CASE UNCHANGED triggerVars
    BY <2>1
  <2>2. CASE TriggerNext
    <3>1. SUFFICES ASSUME entered' # Nil
                   PROVE  lost < Deadline /\ Valid /\ listened /\ quarantine = 0
      OBVIOUS
    <3>2. listened /\ quarantine = 0 /\ ~Expired /\ Valid /\ Progress(state) = "TRIGGER"
      BY <2>2, <3>1, OnlyTriggerEnters
    <3>3. state # "IDLE"
      BY <1>1, <3>2, TriggerIsConfirmed DEF PauseIsCounted, TriggerTypeOK
    <3>4. paused < Deadline /\ lost <= paused
      BY <1>1, <3>2, <3>3, TriggerAssumption DEF Expired, PauseIsCounted, TriggerTypeOK
    <3>5. lost < Deadline
      BY <1>1, <3>4, TriggerAssumption DEF PauseIsCounted, TriggerTypeOK
    <3> QED
      BY <3>2, <3>5
  <2> QED
    BY <1>1, <2>1, <2>2
<1> QED
  BY <1>1, PausesAreCounted, PTL DEF TriggerSpec, NoEntryPastDeadline
=============================================================================
