----------------------------- MODULE ActorErase -----------------------------
(***************************************************************************)
(* One guid in its schedule_layer from creation to removal: the thread     *)
(* that adds it, the route actor that makes it runnable, posts, workers    *)
(* that run it, and the threads that erase it.  A guid may be created      *)
(* again after it was erased, as another object; Inst are those objects.   *)
(*                                                                         *)
(*   m_actorbyid     the registered object                                 *)
(*   stat            per object: actor_stat, and "new" before add_actor    *)
(*   inbox, dirty    per object: queued messages; state not saved yet      *)
(*   m_actorlist     ready queue; m_delactorfun: whose callback is kept    *)
(*   adding          the object whose add_actor has not told the route     *)
(*   route, address  messages queued for the route actor; whether its      *)
(*                   address table lists the guid (naddress)               *)
(*   wpc, lpactor    per worker: nthread::run and the actor it holds       *)
(*   epc             the erasing thread outside the actor                  *)
(*   tearing         per object: a release() under way, and the object     *)
(*                   whose callback follows it, if any does                *)
(*   switched        per object: how a switch met it when it erased it     *)
(*   released, called   per object: times release() and the callback ran   *)
(*   overlapped      the objects that were created before this node was    *)
(*                   done with an earlier one of the guid, and those       *)
(*                   earlier ones: m_delactorfun and the return of a       *)
(*                   worker look at the guid only and mix them up          *)
(*                                                                         *)
(* Nothing in the code keeps a switch from an actor that the route actor   *)
(* has not made free yet, nor a creation from the time before the erased   *)
(* object is gone, so both may happen at any step here.  One thread at a   *)
(* time creates the guid: its adder is one actor (actor_create for roles). *)
(***************************************************************************)
EXTENDS Naturals, Sequences

CONSTANTS Inst, None, Workers,
          Erasers,    \* subset of {"close", "switch", "drop"}: the actor's own
                      \* handler; actor_create, which also adds the actor;
                      \* any other thread (a role's destructor its test AI)
          MaxPost     \* bound: messages posted in all

ASSUME EraseAssumption ==
    /\ None \notin Inst /\ Inst \cap {"no", "plain"} = {}
    /\ Erasers \subseteq {"close", "switch", "drop"}
    /\ MaxPost \in Nat

VARIABLES m_actorbyid, stat, inbox, dirty, m_actorlist, m_delactorfun, adding,
          route, address, wpc, lpactor, epc, tearing, switched, released,
          called, overlapped, posted

layerVars == <<m_actorbyid, m_actorlist, m_delactorfun>>
objectVars == <<inbox, dirty, released, called>>
routeVars == <<adding, route, address>>
workerVars == <<wpc, lpactor>>
history == <<switched, overlapped>>
vars == <<layerVars, stat, objectVars, routeVars, workerVars, epc, tearing,
          history, posted>>

AddMsg(i) == [op |-> "add", inst |-> i]
DelMsg == [op |-> "del", inst |-> None]

Init ==
    /\ m_actorbyid = None /\ m_actorlist = <<>> /\ m_delactorfun = None
    /\ stat = [i \in Inst |-> "new"]
    /\ inbox = [i \in Inst |-> 0] /\ dirty = [i \in Inst |-> FALSE]
    /\ released = [i \in Inst |-> 0] /\ called = [i \in Inst |-> 0]
    /\ adding = None /\ route = <<>> /\ address = FALSE
    /\ wpc = [w \in Workers |-> "wait"] /\ lpactor = [w \in Workers |-> None]
    /\ epc = "idle"
    /\ tearing = [i \in Inst |-> "no"]
    /\ switched = [i \in Inst |-> "no"] /\ overlapped = {}
    /\ posted = 0

Held(i) == \E w \in Workers : lpactor[w] = i
Queued(i) == \E n \in DOMAIN m_actorlist : m_actorlist[n] = i

(* The objects of the guid this node has not finished with. *)
Live == {i \in Inst : Held(i) \/ Queued(i) \/ i \in {m_actorbyid, m_delactorfun}}
-----------------------------------------------------------------------------
(* actor_base::create and add_actor: the tables under the mutex, the       *)
(* message to the route actor after it.                                    *)
AddActor(i) ==
    /\ stat[i] = "new" /\ adding = None /\ m_actorbyid = None
    /\ m_actorbyid' = i /\ adding' = i
    /\ stat' = [stat EXCEPT ![i] = "init"]
    /\ overlapped' = IF Live = {} THEN overlapped ELSE overlapped \cup Live \cup {i}
    /\ UNCHANGED <<m_actorlist, m_delactorfun, objectVars, route, address,
                   workerVars, epc, tearing, switched, posted>>

(* Mutant: the route actor is not told while its table lists the guid. *)
AddNotifyOnce ==
    /\ adding # None
    /\ route' = (IF address THEN route ELSE Append(route, AddMsg(adding)))
    /\ adding' = None
    /\ UNCHANGED <<layerVars, stat, objectVars, address, workerVars, epc,
                   tearing, history, posted>>

AddNotify ==
    /\ adding # None
    /\ route' = Append(route, AddMsg(adding)) /\ adding' = None
    /\ UNCHANGED <<layerVars, stat, objectVars, address, workerVars, epc,
                   tearing, history, posted>>

(* The route actor handles np_actornode_update_mass; the callback that     *)
(* comes with an add makes the actor free whatever became of it meanwhile. *)
RouteHandle ==
    /\ route # <<>> /\ route' = Tail(route)
    /\ LET m == Head(route) IN
        IF m.op = "add"
        THEN address' = TRUE /\ stat' = [stat EXCEPT ![m.inst] = "free"]
        ELSE address' = FALSE /\ UNCHANGED stat
    /\ UNCHANGED <<layerVars, objectVars, adding, workerVars, epc, tearing,
                   history, posted>>

(* push_task_id: dropped when the guid is missing or cannot take work. *)
Post ==
    /\ posted < MaxPost /\ posted' = posted + 1
    /\ m_actorbyid # None /\ stat[m_actorbyid] \notin {"init", "close"}
    /\ LET a == m_actorbyid IN
        /\ inbox' = [inbox EXCEPT ![a] = @ + 1]
        /\ IF stat[a] = "free"
           THEN m_actorlist' = Append(m_actorlist, a) /\ stat' = [stat EXCEPT ![a] = "list"]
           ELSE UNCHANGED <<m_actorlist, stat>>
    /\ UNCHANGED <<m_actorbyid, m_delactorfun, dirty, released, called, routeVars,
                   workerVars, epc, tearing, history>>
-----------------------------------------------------------------------------
Dispatch(w) ==
    /\ wpc[w] = "wait" /\ m_actorlist # <<>>
    /\ m_actorlist' = Tail(m_actorlist)
    /\ lpactor' = [lpactor EXCEPT ![w] = Head(m_actorlist)]
    /\ wpc' = [wpc EXCEPT ![w] = "run"]
    /\ stat' = [stat EXCEPT ![Head(m_actorlist)] = "run"]
    /\ UNCHANGED <<m_actorbyid, m_delactorfun, objectVars, routeVars, epc, tearing,
                   history, posted>>

(* A handler changes the actor's DB state, saves it (the broadcast tick) or neither. *)
Handle(w) ==
    /\ wpc[w] = "run" /\ inbox[lpactor[w]] > 0
    /\ inbox' = [inbox EXCEPT ![lpactor[w]] = @ - 1]
    /\ \E d \in BOOLEAN : dirty' = [dirty EXCEPT ![lpactor[w]] = d]
    /\ UNCHANGED <<layerVars, stat, released, called, routeVars, workerVars, epc,
                   tearing, history, posted>>

EndSlice(w) ==
    /\ wpc[w] = "run"
    /\ wpc' = [wpc EXCEPT ![w] = "return"]
    /\ UNCHANGED <<layerVars, stat, objectVars, routeVars, lpactor, epc, tearing,
                   history, posted>>

(* schedule_layer::push under the mutex: only the guid is looked up. *)
ReturnRegistered(w) ==
    /\ wpc[w] = "return" /\ m_actorbyid # None
    /\ LET a == lpactor[w] IN
        IF inbox[a] > 0
        THEN m_actorlist' = Append(m_actorlist, a) /\ stat' = [stat EXCEPT ![a] = "list"]
        ELSE stat' = [stat EXCEPT ![a] = "free"] /\ UNCHANGED m_actorlist
    /\ wpc' = [wpc EXCEPT ![w] = "wait"] /\ lpactor' = [lpactor EXCEPT ![w] = None]
    /\ UNCHANGED <<m_actorbyid, m_delactorfun, objectVars, routeVars, epc, tearing,
                   history, posted>>

(* The actor was erased while it ran: release() only if a callback was kept. *)
ReturnErased(w) ==
    /\ wpc[w] = "return" /\ m_actorbyid = None
    /\ LET a == lpactor[w] IN
        IF m_delactorfun # None
        THEN /\ tearing' = [tearing EXCEPT ![a] = m_delactorfun]
             /\ stat' = [stat EXCEPT ![a] = "close"]
        ELSE UNCHANGED <<tearing, stat>>
    /\ m_delactorfun' = None
    /\ wpc' = [wpc EXCEPT ![w] = "wait"] /\ lpactor' = [lpactor EXCEPT ![w] = None]
    /\ UNCHANGED <<m_actorbyid, m_actorlist, objectVars, routeVars, epc, history, posted>>

(* The callback owed to object c, if there is one. *)
Call(c) ==
    called' = IF c \in Inst THEN [called EXCEPT ![c] = @ + 1] ELSE called

(* Mutant: the tear-down clears the queues without saving. *)
ReleaseUnsaved(i) ==
    /\ tearing[i] # "no"
    /\ tearing' = [tearing EXCEPT ![i] = "no"]
    /\ inbox' = [inbox EXCEPT ![i] = 0]
    /\ released' = [released EXCEPT ![i] = @ + 1]
    /\ Call(tearing[i])
    /\ UNCHANGED <<layerVars, stat, dirty, routeVars, workerVars, epc, history, posted>>

(* Mutant: the tear-down takes one message off, queued or not. *)
ReleaseTakesOne(i) ==
    /\ tearing[i] # "no"
    /\ tearing' = [tearing EXCEPT ![i] = "no"]
    /\ inbox' = [inbox EXCEPT ![i] = @ - 1] /\ dirty' = [dirty EXCEPT ![i] = FALSE]
    /\ released' = [released EXCEPT ![i] = @ + 1]
    /\ Call(tearing[i])
    /\ UNCHANGED <<layerVars, stat, routeVars, workerVars, epc, history, posted>>

(* actor::release: what is queued is handled, the DB state saved, the      *)
(* queues cleared; then the callback, if one was passed.                   *)
Release(i) ==
    /\ tearing[i] # "no"
    /\ tearing' = [tearing EXCEPT ![i] = "no"]
    /\ inbox' = [inbox EXCEPT ![i] = 0] /\ dirty' = [dirty EXCEPT ![i] = FALSE]
    /\ released' = [released EXCEPT ![i] = @ + 1]
    /\ Call(tearing[i])
    /\ UNCHANGED <<layerVars, stat, routeVars, workerVars, epc, history, posted>>
-----------------------------------------------------------------------------
(* erase_actor tells the route actor first and takes the mutex after. *)
NotifyErase == route' = Append(route, DelMsg) /\ UNCHANGED <<adding, address>>

(* Mutant: a queued actor stays in the ready queue. *)
EraseKeepsQueued(callback) ==
    IF m_actorbyid = None
    THEN UNCHANGED <<layerVars, stat, tearing>>
    ELSE LET a == m_actorbyid IN
        /\ m_actorbyid' = None /\ UNCHANGED m_actorlist
        /\ stat' = [stat EXCEPT ![a] = "close"]
        /\ IF stat[a] \in {"list", "free"}
           THEN /\ tearing' = [tearing EXCEPT ![a] = IF callback THEN a ELSE "plain"]
                /\ UNCHANGED m_delactorfun
           ELSE /\ m_delactorfun' = IF callback /\ m_delactorfun = None THEN a
                                    ELSE m_delactorfun
                /\ UNCHANGED tearing

(* Mutant: a running actor is torn down at once. *)
EraseTearsRunning(callback) ==
    IF m_actorbyid = None
    THEN UNCHANGED <<layerVars, stat, tearing>>
    ELSE LET a == m_actorbyid IN
        /\ m_actorbyid' = None /\ UNCHANGED m_delactorfun
        /\ stat' = [stat EXCEPT ![a] = "close"]
        /\ m_actorlist' = IF stat[a] = "list" THEN <<>> ELSE m_actorlist
        /\ tearing' = [tearing EXCEPT ![a] = IF callback THEN a ELSE "plain"]

(* Mutant: the callback is not kept for a running actor. *)
EraseForgets(callback) ==
    IF m_actorbyid = None
    THEN UNCHANGED <<layerVars, stat, tearing>>
    ELSE LET a == m_actorbyid IN
        /\ m_actorbyid' = None /\ UNCHANGED m_delactorfun
        /\ stat' = [stat EXCEPT ![a] = "close"]
        /\ m_actorlist' = IF stat[a] = "list" THEN <<>> ELSE m_actorlist
        /\ tearing' = IF stat[a] \in {"list", "free"}
                      THEN [tearing EXCEPT ![a] = IF callback THEN a ELSE "plain"]
                      ELSE tearing

(* Its locked part, with or without a callback.  Queued and idle actors    *)
(* are torn down by the erasing thread, any other is left to its worker.   *)
EraseLocked(callback) ==
    IF m_actorbyid = None
    THEN UNCHANGED <<layerVars, stat, tearing>>
    ELSE LET a == m_actorbyid IN
        /\ m_actorbyid' = None
        /\ stat' = [stat EXCEPT ![a] = "close"]
        /\ m_actorlist' = IF stat[a] = "list"
                          THEN <<>>   \* the queue holds objects of this guid only
                          ELSE m_actorlist
        /\ IF stat[a] \in {"list", "free"}
           THEN /\ tearing' = [tearing EXCEPT ![a] = IF callback THEN a ELSE "plain"]
                /\ UNCHANGED m_delactorfun
           ELSE /\ m_delactorfun' = IF callback /\ m_delactorfun = None THEN a
                                    ELSE m_delactorfun
                /\ UNCHANGED tearing

(* handle_close, "/exit": the actor's own handler erases it, no callback. *)
CloseNotify(w) ==
    /\ "close" \in Erasers
    /\ wpc[w] = "run" /\ inbox[lpactor[w]] > 0
    /\ inbox' = [inbox EXCEPT ![lpactor[w]] = @ - 1]
    /\ wpc' = [wpc EXCEPT ![w] = "closing"]
    /\ NotifyErase
    /\ UNCHANGED <<layerVars, stat, dirty, released, called, lpactor, epc, tearing,
                   history, posted>>

CloseErase(w) ==
    /\ wpc[w] = "closing"
    /\ wpc' = [wpc EXCEPT ![w] = "run"]
    /\ EraseLocked(FALSE)
    /\ UNCHANGED <<objectVars, routeVars, lpactor, epc, history, posted>>

(* A thread outside erases, with a callback: actor_create on the server    *)
(* the role leaves, between two of its handlers, or a role's destructor.   *)
SwitchNotify ==
    /\ "drop" \in Erasers \/ ("switch" \in Erasers /\ adding = None)
    /\ epc = "idle" /\ m_actorbyid # None
    /\ epc' = "erase"
    /\ NotifyErase
    /\ UNCHANGED <<layerVars, stat, objectVars, workerVars, tearing, history, posted>>

SwitchErase ==
    /\ epc = "erase" /\ epc' = "idle"
    /\ EraseLocked(TRUE)
    /\ switched' = IF m_actorbyid = None THEN switched
                   ELSE [switched EXCEPT ![m_actorbyid] = stat[m_actorbyid]]
    /\ UNCHANGED <<objectVars, routeVars, workerVars, overlapped, posted>>
-----------------------------------------------------------------------------
Worker(w) ==
    \/ Dispatch(w) \/ Handle(w) \/ EndSlice(w)
    \/ ReturnRegistered(w) \/ ReturnErased(w)
    \/ CloseNotify(w) \/ CloseErase(w)

Next ==
    \/ \E i \in Inst : AddActor(i) \/ Release(i)
    \/ AddNotify \/ RouteHandle \/ Post
    \/ \E w \in Workers : Worker(w)
    \/ SwitchNotify \/ SwitchErase

Spec == Init /\ [][Next]_vars

FairSpec ==
    /\ Spec
    /\ WF_vars(AddNotify) /\ WF_vars(RouteHandle) /\ WF_vars(SwitchErase)
    /\ \A w \in Workers : WF_vars(Worker(w))
    /\ \A i \in Inst : WF_vars(Release(i))
-----------------------------------------------------------------------------
(* Every variable has the shape the code gives it. *)
TypeOK ==
    /\ m_actorbyid \in Inst \cup {None} /\ m_delactorfun \in Inst \cup {None}
    /\ adding \in Inst \cup {None} /\ address \in BOOLEAN
    /\ stat \in [Inst -> {"new", "init", "free", "list", "run", "close"}]
    /\ inbox \in [Inst -> Nat] /\ dirty \in [Inst -> BOOLEAN]
    /\ released \in [Inst -> Nat] /\ called \in [Inst -> Nat]
    /\ m_actorlist \in Seq(Inst)
    /\ route \in Seq({AddMsg(i) : i \in Inst} \cup {DelMsg})
    /\ wpc \in [Workers -> {"wait", "run", "closing", "return"}]
    /\ lpactor \in [Workers -> Inst \cup {None}]
    /\ epc \in {"idle", "erase"}
    /\ tearing \in [Inst -> Inst \cup {"no", "plain"}]
    /\ switched \in [Inst -> {"no", "new", "init", "free", "list", "run", "close"}]
    /\ overlapped \in SUBSET Inst /\ posted \in Nat

(* release() runs handlers on the thread that calls it, so while it is     *)
(* under way no worker may run that actor, no dispatcher find it in the    *)
(* ready queue, and nobody reach it through the layer's table.             *)
TeardownAlone ==
    \A i \in Inst : tearing[i] # "no" =>
        ~Held(i) /\ ~Queued(i) /\ m_actorbyid # i

(* The callback of an erase is what loads the actor on another server.     *)
(* Whatever else happens it comes once at most and so does the tear-down,  *)
(* and an object that was torn down is saved, empty and out of everybody's *)
(* reach for good.  Unless two objects of the guid overlapped, the object  *)
(* is torn down before the callback; if they did, the callback of the one  *)
(* may come with the tear-down of the other.                               *)
HandedOverClean ==
    \A i \in Inst :
        /\ called[i] <= 1 /\ released[i] <= 1
        /\ released[i] > 0 =>
              inbox[i] = 0 /\ ~dirty[i] /\ ~Held(i) /\ ~Queued(i) /\ m_actorbyid # i
        /\ called[i] > 0 /\ i \notin overlapped => released[i] = 1

(* What is queued, held by a worker or idle matches the state the poster   *)
(* and the eraser decide by: erasing a queued actor leaves nothing of it   *)
(* in the ready queue, and no older object of the guid is taken for it.    *)
StatAgrees ==
    \A i \in Inst :
        /\ Queued(i) => stat[i] = "list"
        /\ m_actorbyid = i =>
              (stat[i] = "list" => Queued(i)) /\ (stat[i] = "run" <=> Held(i))
        /\ stat[i] = "free" => inbox[i] = 0 /\ ~Held(i)

(* Once the route actor has handled everything, its address table lists a  *)
(* guid the layer has, though both threads that tell it do so outside the  *)
(* layer's mutex and their messages may pass each other.                   *)
RouteFinds ==
    (/\ route = <<>> /\ adding = None /\ epc = "idle"
     /\ \A w \in Workers : wpc[w] # "closing")
    => (m_actorbyid # None => address)

(* A switch that meets an idle or queued actor ends in its callback, and   *)
(* so does one that meets a running actor unless the guid is created again *)
(* before a worker returns that actor.                                     *)
CallbackComes ==
    \A i \in Inst :
        /\ switched[i] \in {"free", "list"} ~> called[i] > 0
        /\ switched[i] = "run" ~> called[i] > 0 \/ i \in overlapped

(* erase_actor: "Remove an actor, notify the route actor, and run afun     *)
(* when safe." (actor_manage.h:125): the callback comes wherever the erase *)
(* met the actor.                                                          *)
SwitchCompletes == \A i \in Inst : switched[i] # "no" ~> called[i] > 0
=============================================================================
