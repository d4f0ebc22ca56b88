----------------------------- MODULE Scheduler -----------------------------
(***************************************************************************)
(* actor_manage as it runs: layers with a ready queue and a dispatcher     *)
(* thread each, the shared pool of workers, posting threads, threads that  *)
(* erase actors, and handlers that suspend dispatch.  Actors start         *)
(* registered and ready; their mailbox is the number of messages in it     *)
(* (module ActorMailbox has the rest, ActorErase guids created again).     *)
(*                                                                         *)
(*   m_actorbyid     the registered actors                                 *)
(*   stat, pending   per actor: m_stat, and messages queued                *)
(*   m_delactorfun   erased while they ran: their callbacks are kept       *)
(*   erasing         actors the erasing thread is about to release         *)
(*   m_actorlist     per layer: the ready queue                            *)
(*   layer_sem       per layer: tokens of schedule_layer::m_sem            *)
(*   dpc, lpthread   per layer: where the dispatcher is, the worker it     *)
(*                   has borrowed                                          *)
(*   m_actor, nthread_sem   per worker: nthread's fields                   *)
(*   wpc, lpactor    per worker: where its thread is, the actor it holds   *)
(*   ldefcallback    per worker: schedule_layer::push found a callback     *)
(*   seen            per worker: what its unlocked look at m_actorlist     *)
(*                   has read so far (see PostLayer)                       *)
(*   posted          counter for the bound                                 *)
(***************************************************************************)
EXTENDS WorkerPool, Sequences

CONSTANTS Actors, NoActor, Layers,
          LayerOf,         \* layer_index
          Leaving,         \* actors that another thread erases, with a callback
          SuspendActors,   \* actors whose handler constructs an actor_suspend
          MaxPost          \* bound: messages posted in all

(* Roles are what other threads erase; actor_csvclient is not one.  So no  *)
(* handler that suspends dispatch runs inside a release().                 *)
ASSUME SchedulerAssumption ==
    /\ NoActor \notin Actors
    /\ LayerOf \in [Actors -> Layers] /\ IsFiniteSet(Layers)
    /\ Leaving \subseteq Actors /\ SuspendActors \subseteq Actors \ Leaving
    /\ MaxPost \in Nat

VARIABLES m_actorbyid, stat, pending, m_delactorfun, erasing, m_actorlist,
          layer_sem, dpc, lpthread, m_actor, nthread_sem, wpc, lpactor,
          ldefcallback, seen, posted

eraseVars == <<m_actorbyid, m_delactorfun, erasing>>
actorVars == <<stat, pending, posted>>
layerVars == <<m_actorlist, layer_sem>>
dispatchVars == <<dpc, lpthread>>
workerVars == <<m_actor, nthread_sem, wpc, lpactor, ldefcallback, seen>>
vars == <<poolVars, eraseVars, actorVars, layerVars, dispatchVars, workerVars>>

Unseen == [len |-> 0, pops |-> 0]

Init ==
    /\ PoolInit
    /\ m_actorbyid = Actors /\ m_delactorfun = {} /\ erasing = {}
    /\ stat = [a \in Actors |-> "free"]
    /\ pending = [a \in Actors |-> 0]
    /\ m_actorlist = [l \in Layers |-> <<>>]
    /\ layer_sem = [l \in Layers |-> 0]
    /\ dpc = [l \in Layers |-> "wait"]
    /\ lpthread = [l \in Layers |-> NoThread]
    /\ m_actor = [w \in Workers |-> NoActor]
    /\ nthread_sem = [w \in Workers |-> 0]
    /\ wpc = [w \in Workers |-> "wait"]
    /\ lpactor = [w \in Workers |-> NoActor]
    /\ ldefcallback = [w \in Workers |-> FALSE]
    /\ seen = [w \in Workers |-> Unseen]
    /\ posted = 0
-----------------------------------------------------------------------------
(* Mutant: a running actor is queued as well. *)
PostQueuesRunning(a) ==
    /\ a \in m_actorbyid
    /\ posted < MaxPost /\ posted' = posted + 1
    /\ pending' = [pending EXCEPT ![a] = @ + 1]
    /\ IF stat[a] # "list"
       THEN /\ m_actorlist' = [m_actorlist EXCEPT ![LayerOf[a]] = Append(@, a)]
            /\ stat' = [stat EXCEPT ![a] = "list"]
            /\ layer_sem' = [layer_sem EXCEPT ![LayerOf[a]] = @ + 1]
       ELSE UNCHANGED <<m_actorlist, stat, layer_sem>>
    /\ UNCHANGED <<poolVars, eraseVars, dispatchVars, workerVars>>

(* schedule_layer::nosafe_push_task_id, with the layer's mutex held. *)
Post(a) ==
    /\ a \in m_actorbyid
    /\ posted < MaxPost /\ posted' = posted + 1
    /\ pending' = [pending EXCEPT ![a] = @ + 1]
    /\ IF stat[a] = "free"
       THEN /\ m_actorlist' = [m_actorlist EXCEPT ![LayerOf[a]] = Append(@, a)]
            /\ stat' = [stat EXCEPT ![a] = "list"]
            /\ layer_sem' = [layer_sem EXCEPT ![LayerOf[a]] = @ + 1]
       ELSE UNCHANGED <<m_actorlist, stat, layer_sem>>
    /\ UNCHANGED <<poolVars, eraseVars, dispatchVars, workerVars>>
-----------------------------------------------------------------------------
(* Mutant: the dispatcher does not wait for a token. *)
LayerWaitSpurious(l) ==
    /\ dpc[l] = "wait"
    /\ layer_sem' = [layer_sem EXCEPT ![l] = @ - 1]
    /\ dpc' = [dpc EXCEPT ![l] = "pop"]
    /\ UNCHANGED <<poolVars, eraseVars, actorVars, m_actorlist, lpthread, workerVars>>

(* schedule_layer::run, the dispatcher of layer l: wait, then borrow a     *)
(* worker and an actor for it until the ready queue is found empty.        *)
LayerWait(l) ==
    /\ dpc[l] = "wait" /\ layer_sem[l] > 0
    /\ layer_sem' = [layer_sem EXCEPT ![l] = @ - 1]
    /\ dpc' = [dpc EXCEPT ![l] = "pop"]
    /\ UNCHANGED <<poolVars, eraseVars, actorVars, m_actorlist, lpthread, workerVars>>

Pop(l) ==
    /\ dpc[l] = "pop"
    /\ \E w \in Workers :
        /\ Lend(w)
        /\ lpthread' = [lpthread EXCEPT ![l] = w]
    /\ dpc' = [dpc EXCEPT ![l] = "take"]
    /\ UNCHANGED <<eraseVars, actorVars, layerVars, workerVars>>

PopNothing(l) ==
    /\ dpc[l] = "pop" /\ ~CanLend
    /\ dpc' = [dpc EXCEPT ![l] = "poolwait"]
    /\ UNCHANGED <<poolVars, eraseVars, actorVars, layerVars, lpthread, workerVars>>

PoolWait(l) ==
    /\ dpc[l] = "poolwait" /\ PoolSemWait
    /\ dpc' = [dpc EXCEPT ![l] = "pop"]
    /\ UNCHANGED <<eraseVars, actorVars, layerVars, lpthread, workerVars>>

(* Mutant: nothing queued, and the worker is kept. *)
TakeNothingLeaks(l) ==
    /\ dpc[l] = "take" /\ m_actorlist[l] = <<>>
    /\ dpc' = [dpc EXCEPT ![l] = "wait"]
    /\ lpthread' = [lpthread EXCEPT ![l] = NoThread]
    /\ UNCHANGED <<poolVars, eraseVars, actorVars, layerVars, workerVars>>

(* Nothing queued: the worker goes back and the dispatcher sleeps. *)
TakeNothing(l) ==
    /\ dpc[l] = "take" /\ m_actorlist[l] = <<>>
    /\ push_workthreads(lpthread[l])
    /\ dpc' = [dpc EXCEPT ![l] = "wait"]
    /\ lpthread' = [lpthread EXCEPT ![l] = NoThread]
    /\ UNCHANGED <<eraseVars, actorVars, layerVars, workerVars>>

(* The front actor goes to the borrowed worker (nthread::push). *)
TakeActor(l) ==
    /\ dpc[l] = "take" /\ m_actorlist[l] # <<>>
    /\ LET a == Head(m_actorlist[l])
           w == lpthread[l]
       IN  /\ stat' = [stat EXCEPT ![a] = "run"]
           /\ m_actor' = [m_actor EXCEPT ![w] = a]
           /\ nthread_sem' = [nthread_sem EXCEPT ![w] = @ + 1]
    /\ m_actorlist' = [m_actorlist EXCEPT ![l] = Tail(@)]
    /\ seen' = [w \in Workers |->
                  IF wpc[w] = "post" /\ LayerOf[lpactor[w]] = l
                  THEN [seen[w] EXCEPT !.pops = @ + 1] ELSE seen[w]]
    /\ dpc' = [dpc EXCEPT ![l] = "pop"]
    /\ lpthread' = [lpthread EXCEPT ![l] = NoThread]
    /\ UNCHANGED <<poolVars, eraseVars, pending, posted, layer_sem, wpc, lpactor, ldefcallback>>
-----------------------------------------------------------------------------
(* nthread::run, the thread of worker w. *)
WorkerTake(w) ==
    /\ wpc[w] = "wait" /\ nthread_sem[w] > 0
    /\ nthread_sem' = [nthread_sem EXCEPT ![w] = @ - 1]
    /\ lpactor' = [lpactor EXCEPT ![w] = m_actor[w]]
    /\ wpc' = [wpc EXCEPT ![w] = IF m_actor[w] = NoActor THEN "wait" ELSE "run"]
    /\ UNCHANGED <<poolVars, eraseVars, actorVars, layerVars, dispatchVars, m_actor,
                   ldefcallback, seen>>

(* A slice handles at least one message; weight and time may leave some.   *)
(* The worker's own slot is cleared before anything is given back.         *)
HandleBatch(w) ==
    /\ wpc[w] = "run"
    /\ \E left \in 0 .. pending[lpactor[w]] - 1 :
        pending' = [pending EXCEPT ![lpactor[w]] = left]
    /\ m_actor' = [m_actor EXCEPT ![w] = NoActor]
    /\ wpc' = [wpc EXCEPT ![w] = "giveback"]
    /\ UNCHANGED <<poolVars, eraseVars, stat, posted, layerVars, dispatchVars,
                   nthread_sem, lpactor, ldefcallback, seen>>

(* actor_manage::push gives the worker back first: from here on it may be lent again. *)
GiveBack(w) ==
    /\ wpc[w] = "giveback"
    /\ push_workthreads(w)
    /\ wpc' = [wpc EXCEPT ![w] = "return"]
    /\ UNCHANGED <<eraseVars, actorVars, layerVars, dispatchVars, m_actor, nthread_sem,
                   lpactor, ldefcallback, seen>>

(* The locked part of schedule_layer::push, for an actor that is still     *)
(* registered and for one erased while it ran.                             *)
ReturnActor(w) ==
    /\ wpc[w] = "return" /\ lpactor[w] \in m_actorbyid
    /\ LET a == lpactor[w] IN
        IF pending[a] > 0
        THEN /\ m_actorlist' = [m_actorlist EXCEPT ![LayerOf[a]] = Append(@, a)]
             /\ stat' = [stat EXCEPT ![a] = "list"]
        ELSE /\ stat' = [stat EXCEPT ![a] = "free"]
             /\ UNCHANGED m_actorlist
    /\ wpc' = [wpc EXCEPT ![w] = "peek"]
    /\ UNCHANGED <<poolVars, eraseVars, pending, posted, layer_sem, dispatchVars, m_actor,
                   nthread_sem, lpactor, ldefcallback, seen>>

ReturnErased(w) ==
    /\ wpc[w] = "return" /\ lpactor[w] \notin m_actorbyid
    /\ ldefcallback' = [ldefcallback EXCEPT ![w] = lpactor[w] \in m_delactorfun]
    /\ m_delactorfun' = m_delactorfun \ {lpactor[w]}
    /\ wpc' = [wpc EXCEPT ![w] = "peek"]
    /\ UNCHANGED <<poolVars, m_actorbyid, erasing, actorVars, layerVars, dispatchVars,
                   m_actor, nthread_sem, lpactor, seen>>

(* m_actorlist.empty() with no lock: one of the deque's two ends is read   *)
(* now, the other in PostLayer.                                            *)
Peek(w) ==
    /\ wpc[w] = "peek"
    /\ seen' = [seen EXCEPT ![w] = [len |-> Len(m_actorlist[LayerOf[lpactor[w]]]), pops |-> 0]]
    /\ wpc' = [wpc EXCEPT ![w] = "post"]
    /\ UNCHANGED <<poolVars, eraseVars, actorVars, layerVars, dispatchVars, m_actor,
                   nthread_sem, lpactor, ldefcallback>>

(* The old back against the new front compares len with pops; the old      *)
(* front against the new back differs if anything was there or was added.  *)
(* An erase takes an actor out and moves the back only.                    *)
LooksEmpty(w) ==
    \/ seen[w].len = seen[w].pops
    \/ m_actorlist[LayerOf[lpactor[w]]] = <<>>

LooksFilled(w) ==
    \/ seen[w].len # seen[w].pops
    \/ seen[w].len > 0
    \/ m_actorlist[LayerOf[lpactor[w]]] # <<>>

(* The call returns, unless a callback was found: release() comes first.   *)
PushEnds(w) ==
    /\ wpc' = [wpc EXCEPT ![w] = IF ldefcallback[w] THEN "release" ELSE "wait"]
    /\ lpactor' = IF ldefcallback[w] THEN lpactor ELSE [lpactor EXCEPT ![w] = NoActor]
    /\ seen' = [seen EXCEPT ![w] = Unseen]

(* Mutant: the dispatcher is not told of the actor put back. *)
PostLayerSilent(w) ==
    /\ wpc[w] = "post"
    /\ PushEnds(w)
    /\ UNCHANGED <<poolVars, eraseVars, actorVars, layerVars, dispatchVars, m_actor,
                   nthread_sem, ldefcallback>>

PostLayer(w) ==
    /\ wpc[w] = "post"
    /\ LET l == LayerOf[lpactor[w]] IN
        \/ LooksFilled(w) /\ layer_sem' = [layer_sem EXCEPT ![l] = @ + 1]
        \/ LooksEmpty(w) /\ UNCHANGED layer_sem
    /\ PushEnds(w)
    /\ UNCHANGED <<poolVars, eraseVars, actorVars, m_actorlist, dispatchVars, m_actor,
                   nthread_sem, ldefcallback>>

(* actor::release handles or drops what is queued, then the callback runs: *)
(* on a worker that the pool may have lent again long since.               *)
Release(w) ==
    /\ wpc[w] = "release"
    /\ pending' = [pending EXCEPT ![lpactor[w]] = 0]
    /\ ldefcallback' = [ldefcallback EXCEPT ![w] = FALSE]
    /\ wpc' = [wpc EXCEPT ![w] = "wait"]
    /\ lpactor' = [lpactor EXCEPT ![w] = NoActor]
    /\ UNCHANGED <<poolVars, eraseVars, stat, posted, layerVars, dispatchVars, m_actor,
                   nthread_sem, seen>>
-----------------------------------------------------------------------------
(* handle_close: a running actor erases itself, with no callback. *)
Close(w) ==
    /\ wpc[w] = "run" /\ lpactor[w] \in m_actorbyid
    /\ m_actorbyid' = m_actorbyid \ {lpactor[w]}
    /\ stat' = [stat EXCEPT ![lpactor[w]] = "close"]
    /\ UNCHANGED <<poolVars, m_delactorfun, erasing, pending, posted, layerVars,
                   dispatchVars, workerVars>>

(* The ready queue without its i-th actor; an actor is in it once. *)
Without(q, i) == [j \in 1 .. Len(q) - 1 |-> IF j < i THEN q[j] ELSE q[j + 1]]

(* Another thread erases an actor: a queued or idle one is released by     *)
(* that thread, a running one by the worker that returns it.               *)
Erase(a) ==
    /\ a \in Leaving \cap m_actorbyid
    /\ m_actorbyid' = m_actorbyid \ {a}
    /\ stat' = [stat EXCEPT ![a] = "close"]
    /\ IF stat[a] = "list"
       THEN \E i \in DOMAIN m_actorlist[LayerOf[a]] :
                /\ m_actorlist[LayerOf[a]][i] = a
                /\ m_actorlist' = [m_actorlist EXCEPT ![LayerOf[a]] = Without(@, i)]
       ELSE UNCHANGED m_actorlist
    /\ IF stat[a] = "run"
       THEN m_delactorfun' = m_delactorfun \cup {a} /\ UNCHANGED erasing
       ELSE erasing' = erasing \cup {a} /\ UNCHANGED m_delactorfun
    /\ UNCHANGED <<poolVars, pending, posted, layer_sem, dispatchVars, workerVars>>

(* The erasing thread calls release() and the callback after the mutex. *)
ReleaseErased(a) ==
    /\ a \in erasing
    /\ erasing' = erasing \ {a}
    /\ pending' = [pending EXCEPT ![a] = 0]
    /\ UNCHANGED <<poolVars, m_actorbyid, m_delactorfun, stat, posted, layerVars,
                   dispatchVars, workerVars>>
-----------------------------------------------------------------------------
(* actor_suspend in a running handler: it asks until every worker is back. *)
Ask(w) ==
    /\ AskSuspend
    /\ wpc' = [wpc EXCEPT ![w] = IF AllReturned THEN "holding" ELSE "asking"]
    /\ UNCHANGED <<eraseVars, actorVars, layerVars, dispatchVars, m_actor, nthread_sem,
                   lpactor, ldefcallback, seen>>

StartSuspend(w) == wpc[w] = "run" /\ lpactor[w] \in SuspendActors /\ Ask(w)

AskAgain(w) == wpc[w] = "asking" /\ Ask(w)
-----------------------------------------------------------------------------
Dispatcher(l) ==
    \/ LayerWait(l) \/ Pop(l) \/ PopNothing(l) \/ PoolWait(l)
    \/ TakeNothing(l) \/ TakeActor(l)

Worker(w) ==
    \/ WorkerTake(w) \/ HandleBatch(w) \/ GiveBack(w)
    \/ ReturnActor(w) \/ ReturnErased(w) \/ Peek(w) \/ PostLayer(w) \/ Release(w)
    \/ AskAgain(w)

Next ==
    \/ \E a \in Actors : Post(a) \/ Erase(a) \/ ReleaseErased(a)
    \/ \E l \in Layers : Dispatcher(l)
    \/ \E w \in Workers : Worker(w) \/ Close(w) \/ StartSuspend(w)

Spec == Init /\ [][Next]_vars

(* Every thread keeps running.  A layer has one thread waiting on its      *)
(* semaphore, a worker one on its own; no fairness is assumed between the  *)
(* dispatchers that wait on the pool.                                      *)
FairSpec ==
    /\ Spec
    /\ \A l \in Layers : WF_vars(Dispatcher(l))
    /\ \A w \in Workers : WF_vars(Worker(w))
    /\ \A a \in Actors : WF_vars(ReleaseErased(a))
-----------------------------------------------------------------------------
(* Every variable has the shape the code gives it. *)
TypeOK ==
    /\ PoolTypeOK
    /\ m_actorbyid \subseteq Actors /\ m_delactorfun \subseteq Actors
    /\ erasing \subseteq Actors
    /\ stat \in [Actors -> {"free", "list", "run", "close"}]
    /\ pending \in [Actors -> Nat]
    /\ m_actorlist \in [Layers -> Seq(Actors)]
    /\ layer_sem \in [Layers -> Nat]
    /\ dpc \in [Layers -> {"wait", "pop", "poolwait", "take"}]
    /\ lpthread \in [Layers -> Workers \cup {NoThread}]
    /\ m_actor \in [Workers -> Actors \cup {NoActor}]
    /\ nthread_sem \in [Workers -> Nat]
    /\ wpc \in [Workers -> {"wait", "run", "asking", "holding", "giveback", "return",
                            "peek", "post", "release"}]
    /\ lpactor \in [Workers -> Actors \cup {NoActor}]
    /\ ldefcallback \in [Workers -> BOOLEAN]
    /\ seen \in [Workers -> [len : Nat, pops : Nat]]
    /\ posted \in Nat

AtWork == {"run", "asking", "holding", "giveback"}

(* Worker w answers for actor a: assigned to it, or not yet returned by    *)
(* it; or w has found its callback and releases it.                        *)
Assigned(w, a) == nthread_sem[w] > 0 /\ m_actor[w] = a
InHand(w, a) == wpc[w] \in AtWork \cup {"return"} /\ lpactor[w] = a
Holds(w, a) == Assigned(w, a) \/ InHand(w, a)
Releases(w, a) == ldefcallback[w] /\ lpactor[w] = a

(* An actor runs on one worker at a time, although a worker is lent again  *)
(* before it has returned its last actor; a running actor is never         *)
(* dropped: some worker answers for it until schedule_layer::push; the     *)
(* ready queues hold exactly the actors in state list, each once; no       *)
(* message waits in an actor that nobody is going to run; and whoever      *)
(* releases an erased actor is the only thread that still has it.          *)
ActorInOnePlace ==
    /\ \A a \in Actors :
        /\ \A v, w \in Workers : Holds(v, a) /\ Holds(w, a) => v = w
        /\ \A w \in Workers : ~(Assigned(w, a) /\ InHand(w, a))
        /\ stat[a] = "run" <=> a \in m_actorbyid /\ \E w \in Workers : Holds(w, a)
        /\ stat[a] = "list" <=>
               \E i \in DOMAIN m_actorlist[LayerOf[a]] : m_actorlist[LayerOf[a]][i] = a
        /\ stat[a] = "close" <=> a \notin m_actorbyid
        /\ pending[a] > 0 => stat[a] # "free"
    /\ \A l \in Layers : \A i, j \in DOMAIN m_actorlist[l] :
           /\ LayerOf[m_actorlist[l][i]] = l
           /\ m_actorlist[l][i] = m_actorlist[l][j] => i = j
    /\ \A a \in Actors : \A w \in Workers :
        /\ a \in erasing \/ Releases(w, a) =>
               a \notin m_actorbyid /\ \A v \in Workers : ~Holds(v, a)
        /\ Releases(w, a) => /\ a \notin erasing
                             /\ \A v \in Workers : Releases(v, a) => v = w

(* A worker that is lent out: with a dispatcher, assigned, or at work. *)
Lent(w) ==
    \/ \E l \in Layers : lpthread[l] = w
    \/ nthread_sem[w] > 0
    \/ wpc[w] \in AtWork

(* No worker is lent twice and none is lost: the available slots hold      *)
(* distinct workers, and exactly the workers that are not lent out.        *)
PoolExact ==
    /\ \A i, j \in m_workthreadpos .. m_threadcount - 1 :
           m_workthreads[i] = m_workthreads[j] => i = j
    /\ \A w \in Workers : w \in Available <=> ~Lent(w)
    /\ \A k, l \in Layers : lpthread[k] = lpthread[l] /\ lpthread[k] # NoThread => k = l

(* A dispatcher that sleeps with no token has nothing to do, or a worker   *)
(* is about to wake it whatever its unlocked look at the deque returns;    *)
(* and the pool's tokens never fall behind the available workers, but for  *)
(* those taken by dispatchers about to look again: nobody sleeps on a pool *)
(* with workers.                                                           *)
DispatcherAwake ==
    /\ \A l \in Layers :
           dpc[l] = "wait" /\ layer_sem[l] = 0 /\ m_actorlist[l] # <<>> =>
               \E w \in Workers :
                   /\ wpc[w] \in {"peek", "post"} /\ LayerOf[lpactor[w]] = l
                   /\ wpc[w] = "post" => ~LooksEmpty(w)
    /\ ~m_suspend => m_threadcount - m_workthreadpos
                     <= pool_sem + Cardinality({l \in Layers : dpc[l] = "pop"})

(* A handler that suspends dispatch waits for itself: the worker it runs   *)
(* on is lent until the handler returns, so position 0 is never seen, the  *)
(* suspension is never held and nobody ends it.                            *)
SuspenderWaits ==
    \A w \in Workers :
        /\ wpc[w] # "holding"
        /\ wpc[w] = "asking" => m_suspend /\ m_workthreadpos > 0

(* The actor was erased and nobody is going to release it. *)
Forgotten(a) ==
    /\ a \notin m_actorbyid \cup m_delactorfun \cup erasing
    /\ \A w \in Workers : ~Releases(w, a)

(* Every message is handled, although the dispatchers compete for the      *)
(* workers and other threads erase actors meanwhile: all but those of an   *)
(* actor that closed itself, and those a suspension overtakes.             *)
Drains == \A a \in Actors : pending[a] > 0 ~> pending[a] = 0 \/ Forgotten(a) \/ m_suspend
=============================================================================
