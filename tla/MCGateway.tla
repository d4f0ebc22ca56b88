------------------------------ MODULE MCGateway ------------------------------
(* Model values for the run on Gateway. *)
EXTENDS Gateway, TLC

CONSTANTS r1, r2

TwoRoles == {r1, r2}
RoleSymmetry == Permutations(TwoRoles)
=============================================================================
