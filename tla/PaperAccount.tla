---------------------------- MODULE PaperAccount ----------------------------
(***************************************************************************)
(* What the paper account promises its users, whatever fails: a trade is   *)
(* entered at most once, a symbol has at most one live trade, the account  *)
(* has at most Limit, and a trade that is over stays over.                 *)
(***************************************************************************)
EXTENDS Integers, FiniteSets

CONSTANTS
    Symbols,  \* traded symbols
    Times,    \* signal times; a trade is known by its symbol and its time
    Limit     \* live trades of the account

VARIABLES
    entered,  \* trades ever entered
    over      \* trades that are over

vars == <<entered, over>>

Live == entered \ over

Init ==
    /\ entered = {}
    /\ over = {}

Enter(s, t) ==
    /\ <<s, t>> \notin entered
    /\ \A u \in Times : <<s, u>> \notin Live
    /\ Cardinality(Live) < Limit
    /\ entered' = entered \cup {<<s, t>>}
    /\ UNCHANGED over

\* Several trades end together when the account is wound up.
End(S) ==
    /\ S \subseteq Live
    /\ over' = over \cup S
    /\ UNCHANGED entered

\* A trade ends and another one takes its place in the same step.
Replace(trade, s, t) ==
    /\ trade \in Live
    /\ <<s, t>> \notin entered
    /\ \A u \in Times : <<s, u>> \notin Live \ {trade}
    /\ Cardinality(Live \ {trade}) < Limit
    /\ entered' = entered \cup {<<s, t>>}
    /\ over' = over \cup {trade}

Next ==
    \/ \E S \in SUBSET Live : End(S)
    \/ \E s \in Symbols, t \in Times : Enter(s, t)
    \/ \E trade \in Live, s \in Symbols, t \in Times : Replace(trade, s, t)

Spec == Init /\ [][Next]_vars
=============================================================================
