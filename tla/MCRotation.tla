----------------------------- MODULE MCRotation -----------------------------
(* Small instances of Rotation for TLC. *)
EXTENDS Rotation, TLC

CONSTANTS btc, a, b, gold

Ticker(s, price, hold, volume, spread, funding) ==
    [symbol |-> s, price |-> price, hold |-> hold, volume |-> volume,
     spread |-> spread, funding |-> funding]

\* btc is always first; gold is excluded and would win; a wins by its volume, b
\* by its funding until that is extreme; in the last market neither is liquid.
MCMarkets == {
    <<Ticker(gold, 5, 9, 9, 2, 2), Ticker(a, 2, 2, 5, 2, 1), Ticker(b, 2, 2, 3, 2, 1), Ticker(btc, 9, 9, 9, 2, 0)>>,
    <<Ticker(a, 2, 2, 4, 2, 1), Ticker(b, 2, 2, 4, 2, -2)>>,
    <<Ticker(b, 2, 2, 4, 2, 3), Ticker(a, 1, 2, 2, 2, 0)>>,
    <<Ticker(b, 0, 2, 4, 2, 3), Ticker(a, 2, 2, 4, 9, 0)>> }

MCConfigured == (btc :> 1) @@ (gold :> 1)
MCListed     == [s \in Symbols |-> IF s = btc THEN 2 ELSE 1]
MCSteps      == <<4, 5>>
=============================================================================
