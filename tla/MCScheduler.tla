----------------------------- MODULE MCScheduler -----------------------------
(* Instances of Scheduler for TLC. *)
EXTENDS Scheduler, TLC

CONSTANTS a1, a2, a3, l1, l2

ThreeActors == {a1, a2, a3}
TwoLayers == {l1, l2}
SplitThree == a1 :> l1 @@ a2 :> l1 @@ a3 :> l2
Role == {a1}
CsvClient == {a3}
=============================================================================
