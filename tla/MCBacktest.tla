---------------------------- MODULE MCBacktest ----------------------------
(* Small instances of Backtest for TLC. *)
EXTENDS Backtest

CONSTANTS btc, eth

MCOrder == <<btc, eth>>

\* Around a price of 20: a bar that ends low and a bar that ends high.
Lo == [open |-> 20, high |-> 20, low |-> 16, close |-> 17]
Hi == [open |-> 20, high |-> 24, low |-> 20, close |-> 23]

\* The first candles warm up and the last ones only end what is open; between
\* them samples are free; btc may miss a second, eth trades every other one.
MCRows ==
    [stream \in Streams |-> [t \in Times |->
        CASE stream[1] = "ticker" ->
                (CASE t = 3 /\ stream[2] = btc -> {0, 1}
                   [] t = 6 -> {2}
                   [] OTHER -> {NoRow})
          [] stream = <<"ohlcv", btc>> ->
                IF t < 2 THEN {Lo} ELSE IF t < 4 THEN {Hi} ELSE IF t > 11 THEN {Lo}
                ELSE IF t = 7 THEN {Lo, Hi, NoRow} ELSE {Lo, Hi}
          [] OTHER ->
                IF t % 2 = 1 THEN {NoRow} ELSE IF t \in {4, 6, 8} THEN {Lo, Hi}
                ELSE IF t \in {0, 10} THEN {Hi} ELSE {Lo}]]
=============================================================================
