---------------------------- MODULE ActorStartup ----------------------------
(***************************************************************************)
(* The mailbox of an actor that is still starting.  The layer registers    *)
(* the actor in state init; the route actor, told of it, then runs the     *)
(* callback of add_actor in three steps with no lock held: make the actor  *)
(* free, call its init(), start its DB components.  Only the last two      *)
(* register what the actor must wait for; before, "all conditions hold"    *)
(* is true of conditions that wait for nothing.                            *)
(*                                                                         *)
(*   afun     how far the callback is                                      *)
(*   the rest as in ActorMailbox; unsat grows while the callback runs      *)
(***************************************************************************)
EXTENDS ActorMailbox

DbLevel == 1          \* e_hightlevel_db: the level of a DB's reply
DbKey == DbLevel + 1

VARIABLE afun

startVars == <<vars, afun>>

StartInit ==
    /\ stat = "init"
    /\ m_list = <<>> /\ m_hightlist = NoHigh
    /\ unsat = {}
    /\ pc = "idle"
    /\ localhightlist = NoHigh /\ locallist = <<>>
    /\ lvalue = {} /\ lweight = 0 /\ lready = FALSE
    /\ sent = [p \in Prio |-> 0] /\ last = [p \in Prio |-> 0]
    /\ afun = "setfree"

(* push_task_id drops what an actor in init is sent, and nothing changes.  *)
(* A DB answers only what init_db_component asked.                         *)
StartPost(p) ==
    /\ stat # "init"
    /\ p = DbLevel => afun = "done"
    /\ Post(p) /\ UNCHANGED afun

SetFree ==
    /\ afun = "setfree" /\ afun' = "init"
    /\ stat' = "free"
    /\ UNCHANGED <<m_list, m_hightlist, unsat, pc, locals, sent, last>>

(* Mutant: a condition is kept under its level. *)
CallInitOffByOne ==
    /\ afun = "init" /\ afun' = "initdb"
    /\ unsat' = unsat \cup (High \ {DbLevel})
    /\ UNCHANGED <<stat, m_list, m_hightlist, pc, locals, sent, last>>

(* The actor's own init() registers its NSP and custom conditions. *)
CallInit ==
    /\ afun = "init" /\ afun' = "initdb"
    /\ unsat' = unsat \cup (ReadyKeys \ {DbKey})
    /\ UNCHANGED <<stat, m_list, m_hightlist, pc, locals, sent, last>>

(* init_db_component(false): from now on "db load" waits for the DB clients. *)
CallInitDb ==
    /\ afun = "initdb" /\ afun' = "done"
    /\ unsat' = unsat \cup (ReadyKeys \cap {DbKey})
    /\ UNCHANGED <<stat, m_list, m_hightlist, pc, locals, sent, last>>

Callback == SetFree \/ CallInit \/ CallInitDb

StartNext ==
    \/ \E p \in Prio : StartPost(p)
    \/ Callback
    \/ (Dispatch \/ Worker) /\ UNCHANGED afun

StartSpec == StartInit /\ [][StartNext]_startVars

(* The route actor handles its messages; the rest as in ActorMailbox. *)
StartFairSpec ==
    /\ StartSpec
    /\ WF_startVars(Callback)
    /\ WF_startVars(Dispatch /\ UNCHANGED afun) /\ WF_startVars(Worker /\ UNCHANGED afun)
-----------------------------------------------------------------------------
(* Every variable has the shape the code gives it. *)
StartTypeOK ==
    /\ stat \in {"init", "free", "list", "run"}
    /\ stat = "init" <=> afun = "setfree"
    /\ m_list \in Seq(Nat) /\ locallist \in Seq(Nat)
    /\ m_hightlist \in [High -> Seq(Nat)] /\ localhightlist \in [High -> Seq(Nat)]
    /\ unsat \subseteq ReadyKeys /\ lvalue \subseteq ReadyKeys
    /\ pc \in Pc /\ lweight \in 0..Weight /\ lready \in BOOLEAN
    /\ sent \in [Prio -> Nat] /\ last \in [Prio -> Nat]
    /\ afun \in {"setfree", "init", "initdb", "done"}

(* Conditions that appear while a worker is inside actor_handle strand     *)
(* nothing either: once the actor has started and is ready, everything it  *)
(* was sent is handled, the early messages included.                       *)
StartedDelivers ==
    \A p \in Prio, n \in 1..MaxPost :
        (afun = "done" /\ is_ready /\ sent[p] >= n) ~> (last[p] >= n)
=============================================================================
