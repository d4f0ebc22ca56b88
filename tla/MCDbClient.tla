----------------------------- MODULE MCDbClient -----------------------------
(* Two rows: two tables of a role, or a table of two rows. *)
EXTENDS DbClient

Two == {1, 2}
Nothing == {}
First == {1}
=============================================================================
