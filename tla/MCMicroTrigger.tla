---------------------------- MODULE MCMicroTrigger ----------------------------
(* Small instances of MicroTrigger for TLC. *)
EXTENDS MicroTrigger, TLC

Of(k, side) == [kind |-> k, side |-> side]

MCSignals == {Of(k, "SHORT") : k \in Kinds}
MCWindow  == [k \in Kinds |-> IF k = "sweep" THEN 1 ELSE 2]
=============================================================================
