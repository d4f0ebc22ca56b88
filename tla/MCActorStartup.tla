--------------------------- MODULE MCActorStartup ---------------------------
(* An actor with a DB condition and a custom one, as actor_login has. *)
EXTENDS ActorStartup

DbCustom == {1, 10}
KeysDbCustom == {2, 11}
=============================================================================
