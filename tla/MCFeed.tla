------------------------------ MODULE MCFeed ------------------------------
(* Small instances of Feed for TLC. *)
EXTENDS Feed

CONSTANTS t1, t2

BidAt(p, q) == [side |-> "bid", price |-> p, qty |-> q]
AskAt(p, q) == [side |-> "ask", price |-> p, qty |-> q]

\* Levels come, change, go and come back, on both sides; a batch may name a
\* price twice, and one that trims a full ladder fills it again and overflows,
\* or writes over the worst level.
MCFirst  == { <<BidAt(2, 1), BidAt(4, 1)>>, <<AskAt(2, 1), AskAt(4, 1), BidAt(2, 1)>> }
MCSecond == { <<BidAt(3, 2), AskAt(1, 1)>>, <<BidAt(4, 0), BidAt(4, 2)>>, <<BidAt(2, 0), AskAt(3, 1)>> }
MCThird  == { <<BidAt(1, 1), BidAt(2, 2), BidAt(3, 1)>>, <<AskAt(2, 0), AskAt(4, 2)>>, <<BidAt(1, 1), BidAt(3, 0)>>,
              <<BidAt(1, 1), BidAt(3, 1), BidAt(4, 2), BidAt(2, 2), BidAt(4, 1)>> }

MCTapes == {<<x, y, z>> : x \in MCFirst, y \in MCSecond, z \in MCThird}

MCSymmetry == Permutations(Tasks)
=============================================================================
