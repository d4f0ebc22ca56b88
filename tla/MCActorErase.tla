---------------------------- MODULE MCActorErase ----------------------------
(* Model values for the runs on ActorErase. *)
EXTENDS ActorErase

CONSTANTS i1, i2, w1, w2
Anyone == {"close", "switch", "drop"}
CreateOnly == {"switch"}
=============================================================================
