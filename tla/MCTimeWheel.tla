---------------------------- MODULE MCTimeWheel ----------------------------
(* A timer that fires once and one that repeats, on a wheel of three     *)
(* rounds of two slots of two milliseconds.                              *)
EXTENDS TimeWheel, TLC

CONSTANTS oneshot, repeating

Two == {oneshot, repeating}
Some == {0, 9}
Intervals == (oneshot :> 0) @@ (repeating :> 3)
Counts == (oneshot :> 1) @@ (repeating :> 2)
=============================================================================
