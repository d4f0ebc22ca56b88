--------------------------- MODULE MCActorMailbox ---------------------------
(* An actor with the db and the custom condition, as actor_login has. *)
EXTENDS ActorMailbox

HighDbCustom == {1, 10}
KeysDbCustom == {2, 11}
=============================================================================
