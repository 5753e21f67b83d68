-------------------------- MODULE MCPaperPositions --------------------------
(* Small instances of PaperPositions for TLC. *)
EXTENDS PaperPositions, TLC

\* Around a price of 10: a quiet bar, one that rises through the target of a
\* LONG and the stop of a SHORT, and one that falls through the opposite.
Bar(h, l, c) == [high |-> h, low |-> l, close |-> c]

MCRiseBars   == {Bar(11, 10, 10), Bar(16, 10, 15)}

\* Every candle touches every stop.
MCWideBar    == {Bar(16, 4, 10)}

MCSymmetry == Permutations(Symbols)
=============================================================================
