-------------------------- MODULE Scheduler_proofs --------------------------
(***************************************************************************)
(* What Scheduler guarantees for any number of actors, layers and workers, *)
(* any actors erased while they wait or run, and any handlers that suspend *)
(* dispatch.                                                               *)
(*                                                                         *)
(* The pool is an array used as a stack: a worker given back is written to *)
(* slot m_workthreadpos - 1.  That the slot exists, and holds nobody who   *)
(* is available, is a counting argument: as long as one worker is lent out *)
(* the workers in the slots from the position on are not all the workers,  *)
(* so the position is not 0 (PoolFull).  The same fact is why a handler     *)
(* that suspends dispatch never gets what it waits for: while it waits its *)
(* own worker is lent out.                                                 *)
(***************************************************************************)
EXTENDS Scheduler, FiniteSetTheorems, TLAPS

(* What a worker is lent for: its dispatcher holds it, or it has been      *)
(* given an actor, or it is at work, and one of the three only.            *)
LentOnce ==
    /\ \A l \in Layers : dpc[l] = "take" <=> lpthread[l] # NoThread
    /\ \A l \in Layers : lpthread[l] # NoThread =>
           nthread_sem[lpthread[l]] = 0 /\ wpc[lpthread[l]] \notin AtWork
    /\ \A w \in Workers : nthread_sem[w] # 0 =>
           /\ nthread_sem[w] = 1 /\ m_actor[w] \in Actors
           /\ wpc[w] \notin AtWork

(* What a worker knows where it is: its actor, whether it found a callback *)
(* for it, and, in a handler that suspends dispatch, only that the flag is *)
(* up.                                                                     *)
BusyWorker ==
    \A w \in Workers :
        /\ wpc[w] # "wait" => lpactor[w] \in Actors
        /\ ldefcallback[w] => wpc[w] \in {"peek", "post", "release"}
        /\ wpc[w] = "release" => ldefcallback[w]
        /\ wpc[w] # "holding"
        /\ wpc[w] = "asking" => m_suspend

WorkerStates == {"wait", "run", "asking", "holding", "giveback", "return",
                 "peek", "post", "release"}

Inv == TypeOK /\ LentOnce /\ BusyWorker /\ PoolExact
-----------------------------------------------------------------------------
(* The pool. *)

SlotsDistinct ==
    \A i, j \in m_workthreadpos .. m_threadcount - 1 :
        m_workthreads[i] = m_workthreads[j] => i = j

(* With the position at 0 every worker is in a slot. *)
LEMMA PoolFull ==
    ASSUME PoolTypeOK, SlotsDistinct, m_workthreadpos = 0
    PROVE  Available = Workers
  <1> USE ThreadAssumption
  <1>1. m_workthreads \in Injection(Workers, Workers)
    BY DEF PoolTypeOK, SlotsDistinct, Workers, Injection, IsInjective
  <1>2. IsFiniteSet(Workers)
    BY FS_Interval DEF Workers
  <1>3. m_workthreads \in Surjection(Workers, Workers)
    BY <1>1, <1>2, FS_Injection
  <1>4. \A w \in Workers : \E i \in Workers : m_workthreads[i] = w
    BY <1>3 DEF Surjection
  <1>5. QED
    BY <1>4 DEF Available, PoolTypeOK, Workers

LEMMA LendStep ==
    ASSUME PoolTypeOK, SlotsDistinct, NEW w, Lend(w)
    PROVE  /\ PoolTypeOK' /\ SlotsDistinct' /\ m_suspend' = m_suspend
           /\ w \in Workers /\ w \in Available /\ Available' = Available \ {w}
  <1> USE ThreadAssumption
  <1>1. /\ m_workthreadpos \in 0 .. m_threadcount - 1
        /\ w = m_workthreads[m_workthreadpos]
        /\ m_workthreadpos' = m_workthreadpos + 1
        /\ m_workthreads' = m_workthreads /\ pool_sem' = pool_sem /\ m_suspend' = m_suspend
    BY DEF Lend, CanLend, PoolTypeOK
  <1>2. PoolTypeOK' /\ w \in Workers
    <2>1. m_workthreadpos \in Workers /\ m_workthreadpos + 1 \in 0 .. m_threadcount
      BY <1>1 DEF Workers
    <2>2. QED
      BY <1>1, <2>1 DEF PoolTypeOK
  <1>3. SlotsDistinct'
    <2>1. \A i \in m_workthreadpos + 1 .. m_threadcount - 1 :
              i \in m_workthreadpos .. m_threadcount - 1
      BY <1>1
    <2>2. QED
      BY <1>1, <2>1 DEF SlotsDistinct
  <1>4. w \in Available /\ Available' = Available \ {w}
    <2>1. w \in Available
      BY <1>1 DEF Available
    <2>2. ASSUME NEW v PROVE v \in Available' <=> v \in Available /\ v # w
      <3>1. ASSUME NEW i \in m_workthreadpos + 1 .. m_threadcount - 1
            PROVE  i \in m_workthreadpos .. m_threadcount - 1 /\ m_workthreads[i] # w
        BY <1>1 DEF SlotsDistinct
      <3>2. ASSUME NEW i \in m_workthreadpos .. m_threadcount - 1, m_workthreads[i] # w
            PROVE  i \in m_workthreadpos + 1 .. m_threadcount - 1
        BY <1>1, <3>2
      <3>3. QED
        BY <1>1, <3>1, <3>2 DEF Available
    <2>3. QED
      BY <2>1, <2>2
  <1>5. QED
    BY <1>1, <1>2, <1>3, <1>4

LEMMA PushStep ==
    ASSUME PoolTypeOK, SlotsDistinct, NEW w \in Workers, w \notin Available,
           push_workthreads(w)
    PROVE  /\ PoolTypeOK' /\ SlotsDistinct' /\ m_suspend' = m_suspend
           /\ m_workthreadpos \in 1 .. m_threadcount
           /\ Available' = Available \cup {w}
  <1> USE ThreadAssumption
  <1>1. /\ m_workthreadpos \in 1 .. m_threadcount
        /\ m_workthreadpos' = m_workthreadpos - 1
        /\ m_workthreads' = [m_workthreads EXCEPT ![m_workthreadpos - 1] = w]
        /\ pool_sem' = pool_sem + 1 /\ m_suspend' = m_suspend
    <2>1. m_workthreadpos # 0
      BY PoolFull
    <2>2. QED
      BY <2>1 DEF push_workthreads, PoolTypeOK
  <1>2. m_workthreads \in [Workers -> Workers] /\ m_workthreadpos - 1 \in Workers
    <2>1. m_workthreadpos - 1 \in Workers
      BY <1>1 DEF Workers
    <2>2. QED
      BY <2>1 DEF PoolTypeOK
  <1>3. PoolTypeOK'
    BY <1>1, <1>2 DEF PoolTypeOK
  <1>4. /\ m_workthreads'[m_workthreadpos - 1] = w
        /\ \A i \in m_workthreadpos .. m_threadcount - 1 :
               /\ m_workthreads'[i] = m_workthreads[i]
               /\ m_workthreads[i] # w
    <2>1. \A i \in m_workthreadpos .. m_threadcount - 1 : i \in Workers
      BY <1>1 DEF Workers
    <2>2. \A i \in m_workthreadpos .. m_threadcount - 1 : m_workthreads[i] # w
      BY DEF Available
    <2>3. QED
      BY <1>1, <1>2, <2>1, <2>2
  <1>5. \A i : i \in m_workthreadpos' .. m_threadcount - 1 <=>
                  \/ i = m_workthreadpos - 1
                  \/ i \in m_workthreadpos .. m_threadcount - 1
    BY <1>1
  <1>6. SlotsDistinct'
    BY <1>4, <1>5 DEF SlotsDistinct
  <1>7. Available' = Available \cup {w}
    BY <1>4, <1>5 DEF Available
  <1>8. QED
    BY <1>1, <1>3, <1>6, <1>7

-----------------------------------------------------------------------------
(* The steps keep Inv. *)

AvailExact == \A w \in Workers : w \in Available <=> ~Lent(w)

OneBorrower ==
    \A k, l \in Layers : lpthread[k] = lpthread[l] /\ lpthread[k] # NoThread => k = l

LEMMA PoolExactParts ==
    /\ PoolExact <=> SlotsDistinct /\ AvailExact /\ OneBorrower
    /\ PoolExact' <=> SlotsDistinct' /\ AvailExact' /\ OneBorrower'
  BY DEF PoolExact, SlotsDistinct, AvailExact, OneBorrower

LEMMA SamePool ==
    ASSUME UNCHANGED <<m_workthreads, m_workthreadpos>>, SlotsDistinct
    PROVE  SlotsDistinct' /\ Available' = Available
  BY DEF SlotsDistinct, Available

LEMMA WorkersAreNot == NoThread \notin Workers
  BY ThreadAssumption DEF NoThread, Workers

LEMMA InitInv == Init => Inv
  <1> SUFFICES ASSUME Init PROVE Inv
    OBVIOUS
  <1> USE SchedulerAssumption, ThreadAssumption
  <1>1. PoolTypeOK /\ SlotsDistinct /\ Available = Workers
    <2>1. m_workthreads = [i \in Workers |-> i] /\ m_workthreadpos = 0
          /\ pool_sem = m_threadcount /\ m_suspend = FALSE
      BY DEF Init, PoolInit
    <2>2. PoolTypeOK
      <3>1. m_threadcount \in Nat /\ 0 \in 0 .. m_threadcount
        OBVIOUS
      <3>2. m_workthreads \in [Workers -> Workers]
        BY <2>1
      <3>3. m_workthreadpos \in 0 .. m_threadcount /\ pool_sem \in Nat
        BY <2>1, <3>1
      <3>4. m_suspend \in BOOLEAN
        BY <2>1
      <3>5. QED
        BY <3>2, <3>3, <3>4 DEF PoolTypeOK
    <2>3. SlotsDistinct
      <3>1. \A i \in 0 .. m_threadcount - 1 : m_workthreads[i] = i
        BY <2>1 DEF Workers
      <3>2. QED
        BY <2>1, <3>1 DEF SlotsDistinct
    <2>4. Available = Workers
      BY <2>1 DEF Available, Workers
    <2>5. QED
      BY <2>2, <2>3, <2>4
  <1>2. TypeOK
    BY <1>1 DEF Init, TypeOK, Unseen
  <1>3. LentOnce /\ BusyWorker
    BY DEF Init, LentOnce, BusyWorker
  <1>4. AvailExact /\ OneBorrower
    BY <1>1, WorkersAreNot DEF Init, AvailExact, OneBorrower, Lent, AtWork
  <1>5. QED
    BY <1>1, <1>2, <1>3, <1>4, PoolExactParts DEF Inv

LEMMA PostStep ==
    ASSUME Inv, NEW a \in Actors, Post(a)
    PROVE  Inv'
  <1> USE SchedulerAssumption
  <1>1. UNCHANGED <<poolVars, dispatchVars, workerVars, eraseVars>>
    BY DEF Post
  <1>2. TypeOK'
    <2>1. pending' \in [Actors -> Nat] /\ posted' \in Nat
      BY DEF Post, Inv, TypeOK
    <2>2. /\ stat \in [Actors -> {"free", "list", "run", "close"}]
          /\ m_actorlist \in [Layers -> Seq(Actors)] /\ layer_sem \in [Layers -> Nat]
      BY DEF Inv, TypeOK
    <2>3. LayerOf[a] \in Layers
      OBVIOUS
    <2>4. CASE stat[a] = "free"
      <3>1. /\ m_actorlist' = [m_actorlist EXCEPT ![LayerOf[a]] = Append(@, a)]
            /\ stat' = [stat EXCEPT ![a] = "list"]
            /\ layer_sem' = [layer_sem EXCEPT ![LayerOf[a]] = @ + 1]
        BY <2>4 DEF Post
      <3>2. Append(m_actorlist[LayerOf[a]], a) \in Seq(Actors)
        BY <2>2, <2>3
      <3>3. m_actorlist' \in [Layers -> Seq(Actors)]
        BY <2>2, <3>1, <3>2
      <3>4. stat' \in [Actors -> {"free", "list", "run", "close"}] /\ layer_sem' \in [Layers -> Nat]
        BY <2>2, <2>3, <3>1
      <3>5. QED
        BY <1>1, <2>1, <3>3, <3>4
        DEF Inv, TypeOK, PoolTypeOK, poolVars, dispatchVars, workerVars, eraseVars
    <2>5. CASE stat[a] # "free"
      <3>1. UNCHANGED <<m_actorlist, stat, layer_sem>>
        BY <2>5 DEF Post
      <3>2. QED
        BY <1>1, <2>1, <3>1
        DEF Inv, TypeOK, PoolTypeOK, poolVars, dispatchVars, workerVars, eraseVars
    <2>6. QED
      BY <2>4, <2>5
  <1>3. LentOnce' /\ BusyWorker'
    BY <1>1 DEF Inv, LentOnce, BusyWorker, poolVars, dispatchVars,
                workerVars, eraseVars
  <1>4. PoolExact'
    BY <1>1 DEF Inv, PoolExact, Available, Lent, poolVars, dispatchVars, workerVars
  <1>5. QED
    BY <1>2, <1>3, <1>4 DEF Inv

(* A step of a dispatcher's semaphore, or a look at the pool that finds    *)
(* nothing: a dispatcher that borrows nobody moves on.                     *)
LEMMA DispatcherMoves ==
    ASSUME Inv, NEW l \in Layers, LayerWait(l) \/ PopNothing(l) \/ PoolWait(l)
    PROVE  Inv'
  <1>1. PICK p \in {"pop", "poolwait"} : dpc' = [dpc EXCEPT ![l] = p]
    BY DEF LayerWait, PopNothing, PoolWait
  <1>2. dpc[l] # "take" /\ layer_sem' \in [Layers -> Nat] /\ pool_sem' \in Nat
    <2>1. layer_sem \in [Layers -> Nat] /\ pool_sem \in Nat
      BY DEF Inv, TypeOK, PoolTypeOK
    <2>2. CASE LayerWait(l)
      BY <2>1, <2>2 DEF LayerWait, poolVars
    <2>3. CASE PopNothing(l)
      BY <2>1, <2>3 DEF PopNothing, poolVars, layerVars
    <2>4. CASE PoolWait(l)
      BY <2>1, <2>4 DEF PoolWait, PoolSemWait, layerVars
    <2>5. QED
      BY <2>2, <2>3, <2>4
  <1>3. UNCHANGED <<m_workthreads, m_workthreadpos, m_suspend, actorVars, m_actorlist,
                    lpthread, workerVars, eraseVars>>
    BY DEF LayerWait, PopNothing, PoolWait, PoolSemWait, poolVars, layerVars
  <1>4. TypeOK'
    <2>1. dpc' \in [Layers -> {"wait", "pop", "poolwait", "take"}]
      BY <1>1 DEF Inv, TypeOK
    <2>2. PoolTypeOK'
      BY <1>2, <1>3 DEF Inv, TypeOK, PoolTypeOK
    <2>3. QED
      BY <1>2, <1>3, <2>1, <2>2 DEF Inv, TypeOK, actorVars, workerVars, eraseVars
  <1>5. LentOnce'
    <2>1. \A k \in Layers : dpc'[k] = "take" <=> dpc[k] = "take"
      BY <1>1, <1>2 DEF Inv, TypeOK
    <2>2. QED
      BY <1>3, <2>1 DEF Inv, LentOnce, workerVars
  <1>6. BusyWorker'
    BY <1>3 DEF Inv, BusyWorker, workerVars, eraseVars
  <1>7. PoolExact'
    BY <1>3 DEF Inv, PoolExact, Available, Lent, workerVars
  <1>8. QED
    BY <1>4, <1>5, <1>6, <1>7 DEF Inv

LEMMA PopStep ==
    ASSUME Inv, NEW l \in Layers, Pop(l)
    PROVE  Inv'
  <1>1. PICK w \in Workers : Lend(w) /\ lpthread' = [lpthread EXCEPT ![l] = w]
    BY DEF Pop
  <1>2. /\ dpc[l] = "pop" /\ dpc' = [dpc EXCEPT ![l] = "take"]
        /\ UNCHANGED <<actorVars, layerVars, workerVars, eraseVars>>
    BY DEF Pop
  <1>3. /\ PoolTypeOK' /\ SlotsDistinct'
        /\ w \in Available /\ Available' = Available \ {w} /\ m_suspend' = m_suspend
    BY <1>1, LendStep, PoolExactParts DEF Inv, TypeOK, Lend, CanLend
  <1>4. w # NoThread /\ lpthread[l] = NoThread
    BY <1>2, WorkersAreNot DEF Inv, LentOnce
  <1>5. \A k \in Layers : lpthread'[k] = IF k = l THEN w ELSE lpthread[k]
    BY <1>1 DEF Inv, TypeOK
  <1>6. ~Lent(w)
    BY <1>3 DEF Inv, PoolExact
  <1>7. TypeOK'
    <2>1. /\ dpc' \in [Layers -> {"wait", "pop", "poolwait", "take"}]
          /\ lpthread' \in [Layers -> Workers \cup {NoThread}]
      BY <1>1, <1>2 DEF Inv, TypeOK
    <2>2. QED
      BY <1>2, <1>3, <2>1 DEF Inv, TypeOK, actorVars, layerVars, workerVars, eraseVars
  <1>8. LentOnce'
    <2>1. \A k \in Layers : dpc'[k] = "take" <=> k = l \/ dpc[k] = "take"
      BY <1>2 DEF Inv, TypeOK
    <2>2. nthread_sem[w] = 0 /\ wpc[w] \notin AtWork
      BY <1>6 DEF Lent, Inv, TypeOK
    <2>3. QED
      BY <1>2, <1>4, <1>5, <2>1, <2>2 DEF Inv, LentOnce, workerVars
  <1>9. BusyWorker'
    BY <1>2, <1>3 DEF Inv, BusyWorker, workerVars, eraseVars
  <1>10. AvailExact'
    <2>1. ASSUME NEW v \in Workers PROVE Lent(v)' <=> Lent(v) \/ v = w
      <3>1. (\E k \in Layers : lpthread'[k] = v) <=> v = w \/ \E k \in Layers : lpthread[k] = v
        BY <1>4, <1>5, WorkersAreNot
      <3>2. QED
        BY <1>2, <3>1 DEF Lent, workerVars
    <2>2. QED
      BY <1>3, <2>1 DEF Inv, PoolExact, AvailExact
  <1>11. OneBorrower'
    <2>1. \A k \in Layers : lpthread[k] # w
      BY <1>6 DEF Lent
    <2>2. QED
      BY <1>5, <2>1 DEF Inv, PoolExact, OneBorrower
  <1>12. QED
    BY <1>3, <1>7, <1>8, <1>9, <1>10, <1>11, PoolExactParts DEF Inv

(* The borrowed worker goes back, unused or after its handlers. *)
LEMMA TakeNothingStep ==
    ASSUME Inv, NEW l \in Layers, TakeNothing(l)
    PROVE  Inv'
  <1> DEFINE w == lpthread[l]
  <1>1. /\ dpc[l] = "take" /\ dpc' = [dpc EXCEPT ![l] = "wait"]
        /\ lpthread' = [lpthread EXCEPT ![l] = NoThread] /\ push_workthreads(w)
        /\ UNCHANGED <<actorVars, layerVars, workerVars, eraseVars>>
    BY DEF TakeNothing
  <1>2. w \in Workers /\ w # NoThread
    BY <1>1 DEF Inv, TypeOK, LentOnce
  <1>3. Lent(w)
    BY <1>2 DEF Lent
  <1>4. \A k \in Layers : lpthread[k] = w => k = l
    BY <1>2 DEF Inv, PoolExact
  <1>5. nthread_sem[w] = 0 /\ wpc[w] \notin AtWork
    BY <1>2 DEF Inv, LentOnce
  <1>6. w \notin Available
    BY <1>2, <1>3 DEF Inv, PoolExact
  <1>7. PoolTypeOK /\ SlotsDistinct
    BY PoolExactParts DEF Inv, TypeOK
  <1> HIDE DEF w
  <1>8. /\ PoolTypeOK' /\ SlotsDistinct' /\ m_suspend' = m_suspend
        /\ m_workthreadpos # 0 /\ Available' = Available \cup {w}
    BY <1>1, <1>2, <1>6, <1>7, PushStep
  <1>9. \A k \in Layers : lpthread'[k] = IF k = l THEN NoThread ELSE lpthread[k]
    BY <1>1 DEF Inv, TypeOK
  <1>10. TypeOK'
    <2>1. /\ dpc' \in [Layers -> {"wait", "pop", "poolwait", "take"}]
          /\ lpthread' \in [Layers -> Workers \cup {NoThread}]
      BY <1>1 DEF Inv, TypeOK
    <2>2. QED
      BY <1>1, <1>8, <2>1 DEF Inv, TypeOK, actorVars, layerVars, workerVars, eraseVars
  <1>11. LentOnce'
    <2>1. \A k \in Layers : dpc'[k] = "take" <=> k # l /\ dpc[k] = "take"
      BY <1>1 DEF Inv, TypeOK
    <2>2. QED
      BY <1>1, <1>9, <2>1 DEF Inv, LentOnce, workerVars
  <1>12. BusyWorker'
    BY <1>1, <1>8 DEF Inv, BusyWorker, workerVars, eraseVars
  <1>13. AvailExact'
    <2>1. ASSUME NEW v \in Workers PROVE Lent(v)' <=> Lent(v) /\ v # w
      <3>1. (\E k \in Layers : lpthread'[k] = v) <=> v # w /\ \E k \in Layers : lpthread[k] = v
        BY <1>4, <1>9, WorkersAreNot DEF w
      <3>2. QED
        BY <1>1, <1>5, <3>1 DEF Lent, workerVars
    <2>2. QED
      BY <1>2, <1>8, <2>1 DEF Inv, PoolExact, AvailExact
  <1>14. OneBorrower'
    BY <1>9 DEF Inv, PoolExact, OneBorrower
  <1>15. QED
    BY <1>8, <1>10, <1>11, <1>12, <1>13, <1>14, PoolExactParts DEF Inv

LEMMA TakeActorStep ==
    ASSUME Inv, NEW l \in Layers, TakeActor(l)
    PROVE  Inv'
  <1> DEFINE w == lpthread[l]
             a == Head(m_actorlist[l])
  <1>1. /\ dpc[l] = "take" /\ dpc' = [dpc EXCEPT ![l] = "pop"]
        /\ m_actorlist[l] # <<>> /\ m_actorlist' = [m_actorlist EXCEPT ![l] = Tail(@)]
        /\ stat' = [stat EXCEPT ![a] = "run"]
        /\ m_actor' = [m_actor EXCEPT ![w] = a]
        /\ nthread_sem' = [nthread_sem EXCEPT ![w] = @ + 1]
        /\ lpthread' = [lpthread EXCEPT ![l] = NoThread]
        /\ UNCHANGED <<poolVars, pending, posted, layer_sem, wpc, lpactor, ldefcallback,
                       eraseVars>>
    BY DEF TakeActor
  <1>2. w \in Workers /\ w # NoThread
    BY <1>1 DEF Inv, TypeOK, LentOnce
  <1>3. nthread_sem[w] = 0 /\ wpc[w] \notin AtWork
    BY <1>2 DEF Inv, LentOnce
  <1>4. a \in Actors /\ Tail(m_actorlist[l]) \in Seq(Actors)
    BY <1>1 DEF Inv, TypeOK
  <1> HIDE DEF w, a
  <1>5. \A k \in Layers : lpthread'[k] = IF k = l THEN NoThread ELSE lpthread[k]
    BY <1>1 DEF Inv, TypeOK
  <1>6. \A v \in Workers :
            /\ nthread_sem'[v] = IF v = w THEN 1 ELSE nthread_sem[v]
            /\ m_actor'[v] = IF v = w THEN a ELSE m_actor[v]
    BY <1>1, <1>3 DEF Inv, TypeOK
  <1>7. TypeOK'
    <2>1. /\ dpc' \in [Layers -> {"wait", "pop", "poolwait", "take"}]
          /\ lpthread' \in [Layers -> Workers \cup {NoThread}]
      BY <1>1 DEF Inv, TypeOK
    <2>2. /\ m_actorlist' \in [Layers -> Seq(Actors)]
          /\ stat' \in [Actors -> {"free", "list", "run", "close"}]
      BY <1>1, <1>4 DEF Inv, TypeOK
    <2>3. /\ m_actor' \in [Workers -> Actors \cup {NoActor}]
          /\ nthread_sem' \in [Workers -> Nat]
      BY <1>1, <1>2, <1>4 DEF Inv, TypeOK
    <2>4. seen' \in [Workers -> [len : Nat, pops : Nat]]
      <3>1. seen \in [Workers -> [len : Nat, pops : Nat]]
        BY DEF Inv, TypeOK
      <3>2. \A v \in Workers : [seen[v] EXCEPT !.pops = @ + 1] \in [len : Nat, pops : Nat]
        BY <3>1
      <3>3. seen' = [v \in Workers |->
                        IF wpc[v] = "post" /\ LayerOf[lpactor[v]] = l
                        THEN [seen[v] EXCEPT !.pops = @ + 1] ELSE seen[v]]
        BY DEF TakeActor
      <3>4. QED
        BY <3>1, <3>2, <3>3
    <2>5. PoolTypeOK'
      BY <1>1 DEF Inv, TypeOK, PoolTypeOK, poolVars
    <2>6. QED
      BY <1>1, <2>1, <2>2, <2>3, <2>4, <2>5 DEF Inv, TypeOK, eraseVars
  <1>8. LentOnce'
    <2>1. \A k \in Layers : dpc'[k] = "take" <=> k # l /\ dpc[k] = "take"
      BY <1>1 DEF Inv, TypeOK
    <2>2. \A k \in Layers : k # l /\ lpthread[k] # NoThread => lpthread[k] # w
      BY DEF Inv, PoolExact, w
    <2>3. \A k \in Layers : lpthread[k] # NoThread => lpthread[k] \in Workers
      BY DEF Inv, TypeOK
    <2>4. QED
      BY <1>1, <1>3, <1>4, <1>5, <1>6, <2>1, <2>2, <2>3 DEF Inv, LentOnce
  <1>9. BusyWorker'
    BY <1>1 DEF Inv, BusyWorker, poolVars, eraseVars
  <1>10. PoolExact'
    <2>1. ASSUME NEW v \in Workers PROVE Lent(v)' <=> Lent(v)
      <3>1. \A k \in Layers : lpthread[k] = w => k = l
        BY <1>2 DEF Inv, PoolExact, w
      <3>2. (\E k \in Layers : lpthread'[k] = v) <=> v # w /\ \E k \in Layers : lpthread[k] = v
        BY <1>5, <3>1, WorkersAreNot DEF w
      <3>3. v = w => Lent(v)
        BY <1>2 DEF Lent, w
      <3>4. QED
        BY <1>1, <1>6, <3>2, <3>3 DEF Lent
    <2>2. SlotsDistinct' /\ Available' = Available
      BY <1>1, SamePool, PoolExactParts DEF Inv, poolVars
    <2>3. OneBorrower'
      BY <1>5 DEF Inv, PoolExact, OneBorrower
    <2>4. AvailExact'
      BY <2>1, <2>2 DEF Inv, PoolExact, AvailExact
    <2>5. QED
      BY <2>2, <2>3, <2>4, PoolExactParts
  <1>11. QED
    BY <1>7, <1>8, <1>9, <1>10 DEF Inv

LEMMA WorkerTakeStep ==
    ASSUME Inv, NEW w \in Workers, WorkerTake(w)
    PROVE  Inv'
  <1> USE DEF AtWork, WorkerStates
  <1>1. /\ wpc[w] = "wait" /\ nthread_sem[w] = 1 /\ m_actor[w] \in Actors
        /\ nthread_sem[w] # 0
    BY DEF WorkerTake, Inv, TypeOK, LentOnce
  <1>2. /\ nthread_sem' = [nthread_sem EXCEPT ![w] = @ - 1]
        /\ lpactor' = [lpactor EXCEPT ![w] = m_actor[w]]
        /\ wpc' = [wpc EXCEPT ![w] = "run"]
        /\ UNCHANGED <<poolVars, actorVars, layerVars, dispatchVars, m_actor, seen,
                       ldefcallback, eraseVars>>
    BY <1>1, SchedulerAssumption DEF WorkerTake
  <1>3. \A v \in Workers :
            /\ nthread_sem'[v] = IF v = w THEN 0 ELSE nthread_sem[v]
            /\ lpactor'[v] = IF v = w THEN m_actor[w] ELSE lpactor[v]
            /\ wpc'[v] = IF v = w THEN "run" ELSE wpc[v]
    BY <1>1, <1>2 DEF Inv, TypeOK
  <1>4. TypeOK'
    <2>1. nthread_sem' \in [Workers -> Nat]
      <3>1. nthread_sem \in [Workers -> Nat] /\ nthread_sem[w] - 1 \in Nat
        BY <1>1 DEF Inv, TypeOK
      <3>2. QED
        BY <1>2, <3>1
    <2>2. /\ lpactor' \in [Workers -> Actors \cup {NoActor}]
          /\ wpc' \in [Workers -> WorkerStates]
      BY <1>1, <1>2 DEF Inv, TypeOK
    <2>3. QED
      BY <1>2, <2>1, <2>2
      DEF Inv, TypeOK, PoolTypeOK, poolVars, actorVars, layerVars, dispatchVars, eraseVars
  <1>5. \A l \in Layers : lpthread[l] # w
    BY <1>1, WorkersAreNot DEF Inv, LentOnce
  <1>6. LentOnce'
    <2>1. \A l \in Layers : lpthread[l] # NoThread => lpthread[l] \in Workers
      BY DEF Inv, TypeOK
    <2>2. QED
      BY <1>2, <1>3, <1>5, <2>1 DEF Inv, LentOnce, dispatchVars
  <1>7. BusyWorker'
    BY <1>1, <1>2, <1>3 DEF Inv, BusyWorker, poolVars, eraseVars
  <1>8. PoolExact'
    <2>1. ASSUME NEW v \in Workers PROVE Lent(v)' <=> Lent(v)
      BY <1>1, <1>2, <1>3 DEF Lent, dispatchVars
    <2>2. SlotsDistinct' /\ Available' = Available
      BY <1>2, SamePool, PoolExactParts DEF Inv, poolVars
    <2>3. OneBorrower' /\ AvailExact'
      BY <1>2, <2>1, <2>2 DEF Inv, PoolExact, OneBorrower, AvailExact, dispatchVars
    <2>4. QED
      BY <2>2, <2>3, PoolExactParts
  <1>9. QED
    BY <1>4, <1>6, <1>7, <1>8 DEF Inv

LEMMA HandleBatchStep ==
    ASSUME Inv, NEW w \in Workers, HandleBatch(w)
    PROVE  Inv'
  <1> USE DEF AtWork, WorkerStates
  <1>1. /\ wpc[w] = "run" /\ wpc' = [wpc EXCEPT ![w] = "giveback"]
        /\ m_actor' = [m_actor EXCEPT ![w] = NoActor]
        /\ UNCHANGED <<poolVars, stat, posted, layerVars, dispatchVars, nthread_sem,
                       lpactor, ldefcallback, seen, eraseVars>>
    BY DEF HandleBatch
  <1>2. lpactor[w] \in Actors /\ nthread_sem[w] = 0
    BY <1>1 DEF Inv, TypeOK, LentOnce, BusyWorker
  <1>3. \A v \in Workers :
            /\ wpc'[v] = IF v = w THEN "giveback" ELSE wpc[v]
            /\ m_actor'[v] = IF v = w THEN NoActor ELSE m_actor[v]
    BY <1>1 DEF Inv, TypeOK
  <1>4. TypeOK'
    <2>1. pending' \in [Actors -> Nat]
      <3>1. pending \in [Actors -> Nat]
        BY DEF Inv, TypeOK
      <3>2. PICK left \in 0 .. pending[lpactor[w]] - 1 :
                pending' = [pending EXCEPT ![lpactor[w]] = left]
        BY DEF HandleBatch
      <3>3. left \in Nat
        BY <1>2, <3>1
      <3>4. QED
        BY <3>1, <3>2, <3>3
    <2>2. /\ m_actor' \in [Workers -> Actors \cup {NoActor}]
          /\ wpc' \in [Workers -> WorkerStates]
      BY <1>1 DEF Inv, TypeOK
    <2>3. QED
      BY <1>1, <2>1, <2>2
      DEF Inv, TypeOK, PoolTypeOK, poolVars, layerVars, dispatchVars, eraseVars
  <1>5. LentOnce'
    <2>1. \A l \in Layers : lpthread[l] # NoThread => lpthread[l] \in Workers
      BY DEF Inv, TypeOK
    <2>2. \A v \in Workers : wpc'[v] \in AtWork <=> wpc[v] \in AtWork
      BY <1>1, <1>3
    <2>3. QED
      BY <1>1, <1>2, <1>3, <2>1, <2>2 DEF Inv, LentOnce, dispatchVars
  <1>6. BusyWorker'
    BY <1>1, <1>2, <1>3 DEF Inv, BusyWorker, poolVars, eraseVars
  <1>7. PoolExact'
    <2>1. ASSUME NEW v \in Workers PROVE Lent(v)' <=> Lent(v)
      BY <1>1, <1>3 DEF Lent, dispatchVars
    <2>2. SlotsDistinct' /\ Available' = Available
      BY <1>1, SamePool, PoolExactParts DEF Inv, poolVars
    <2>3. OneBorrower' /\ AvailExact'
      BY <1>1, <2>1, <2>2 DEF Inv, PoolExact, OneBorrower, AvailExact, dispatchVars
    <2>4. QED
      BY <2>2, <2>3, PoolExactParts
  <1>8. QED
    BY <1>4, <1>5, <1>6, <1>7 DEF Inv

LEMMA GiveBackStep ==
    ASSUME Inv, NEW w \in Workers, GiveBack(w)
    PROVE  Inv'
  <1> USE DEF AtWork, WorkerStates
  <1>1. /\ wpc[w] = "giveback" /\ wpc' = [wpc EXCEPT ![w] = "return"]
        /\ push_workthreads(w)
        /\ UNCHANGED <<actorVars, layerVars, dispatchVars, m_actor, nthread_sem, lpactor,
                       ldefcallback, seen, eraseVars>>
    BY DEF GiveBack
  <1>2. nthread_sem[w] = 0 /\ \A l \in Layers : lpthread[l] # w
    BY <1>1, WorkersAreNot DEF Inv, LentOnce
  <1>3. w \notin Available
    BY <1>1 DEF Inv, PoolExact, Lent
  <1>4. PoolTypeOK /\ SlotsDistinct
    BY PoolExactParts DEF Inv, TypeOK
  <1>5. /\ PoolTypeOK' /\ SlotsDistinct' /\ m_suspend' = m_suspend
        /\ m_workthreadpos # 0 /\ Available' = Available \cup {w}
    BY <1>1, <1>3, <1>4, PushStep
  <1>6. \A v \in Workers : wpc'[v] = IF v = w THEN "return" ELSE wpc[v]
    BY <1>1 DEF Inv, TypeOK
  <1>7. TypeOK'
    <2>1. wpc' \in [Workers -> WorkerStates]
      BY <1>1 DEF Inv, TypeOK
    <2>2. QED
      BY <1>1, <1>5, <2>1 DEF Inv, TypeOK, actorVars, layerVars, dispatchVars, eraseVars
  <1>8. LentOnce'
    <2>1. \A l \in Layers : lpthread[l] # NoThread => lpthread[l] \in Workers
      BY DEF Inv, TypeOK
    <2>2. QED
      BY <1>1, <1>6, <2>1 DEF Inv, LentOnce, dispatchVars
  <1>9. BusyWorker'
    BY <1>1, <1>5, <1>6 DEF Inv, BusyWorker, eraseVars
  <1>10. AvailExact'
    <2>1. ASSUME NEW v \in Workers PROVE Lent(v)' <=> Lent(v) /\ v # w
      BY <1>1, <1>2, <1>6 DEF Lent, dispatchVars, Inv, TypeOK
    <2>2. QED
      BY <1>5, <2>1 DEF Inv, PoolExact, AvailExact
  <1>11. OneBorrower'
    BY <1>1 DEF Inv, PoolExact, OneBorrower, dispatchVars
  <1>12. QED
    BY <1>5, <1>7, <1>8, <1>9, <1>10, <1>11, PoolExactParts DEF Inv

(* From the return of its actor to its next wait a worker lends nothing.   *)
LEMMA WorkerReturns ==
    ASSUME Inv, NEW w \in Workers,
           ReturnActor(w) \/ ReturnErased(w) \/ Peek(w) \/ PostLayer(w) \/ Release(w)
    PROVE  Inv'
  <1> DEFINE a == lpactor[w]
             l == LayerOf[a]
  <1>1. PICK p \in {"wait", "peek", "post", "release"} : wpc' = [wpc EXCEPT ![w] = p]
    BY DEF ReturnActor, ReturnErased, Peek, PostLayer, PushEnds, Release
  <1>2. /\ wpc[w] \in {"return", "peek", "post", "release"}
        /\ UNCHANGED <<poolVars, m_actorbyid, erasing, posted, dispatchVars, m_actor,
                       nthread_sem>>
    BY DEF ReturnActor, ReturnErased, Peek, PostLayer, Release, actorVars, eraseVars
  <1>3. /\ lpactor' \in [Workers -> Actors \cup {NoActor}]
        /\ \A v \in Workers : v # w \/ p # "wait" => lpactor'[v] = lpactor[v]
    <2>1. lpactor' = lpactor \/ (wpc' = [wpc EXCEPT ![w] = "wait"]
                                 /\ lpactor' = [lpactor EXCEPT ![w] = NoActor])
      BY DEF ReturnActor, ReturnErased, Peek, PostLayer, PushEnds, Release
    <2>2. wpc' = [wpc EXCEPT ![w] = "wait"] => p = "wait"
      BY <1>1 DEF Inv, TypeOK
    <2>3. QED
      BY <2>1, <2>2 DEF Inv, TypeOK
  <1>4. a \in Actors /\ l \in Layers
    BY <1>2, SchedulerAssumption DEF Inv, BusyWorker
  <1>5. /\ ldefcallback' \in [Workers -> BOOLEAN]
        /\ \A v \in Workers : v # w => ldefcallback'[v] = ldefcallback[v]
        /\ ldefcallback'[w] => p # "wait"
        /\ p = "release" => ldefcallback'[w]
    <2>1. p = wpc'[w] /\ ldefcallback \in [Workers -> BOOLEAN]
      BY <1>1 DEF Inv, TypeOK
    <2>2. CASE ReturnActor(w) \/ Peek(w)
      <3>1. ldefcallback' = ldefcallback /\ wpc'[w] \in {"peek", "post"}
        BY <2>2 DEF ReturnActor, Peek, Inv, TypeOK
      <3>2. QED
        BY <2>1, <3>1
    <2>3. CASE ReturnErased(w)
      <3>1. /\ ldefcallback' = [ldefcallback EXCEPT ![w] = a \in m_delactorfun]
            /\ wpc'[w] = "peek"
        BY <2>3 DEF ReturnErased, Inv, TypeOK
      <3>2. QED
        BY <2>1, <3>1
    <2>4. CASE PostLayer(w)
      <3>1. /\ ldefcallback' = ldefcallback
            /\ wpc'[w] = IF ldefcallback[w] THEN "release" ELSE "wait"
        BY <2>4 DEF PostLayer, PushEnds, Inv, TypeOK
      <3>2. QED
        BY <2>1, <3>1
    <2>5. CASE Release(w)
      <3>1. ldefcallback' = [ldefcallback EXCEPT ![w] = FALSE] /\ wpc'[w] = "wait"
        BY <2>5 DEF Release, Inv, TypeOK
      <3>2. QED
        BY <2>1, <3>1
    <2>6. QED
      BY <2>2, <2>3, <2>4, <2>5
  <1>6. pending' \in [Actors -> Nat] /\ m_delactorfun' \subseteq Actors
    <2>1. pending' = pending \/ pending' = [pending EXCEPT ![a] = 0]
      BY DEF ReturnActor, ReturnErased, Peek, PostLayer, Release, actorVars
    <2>2. m_delactorfun' \subseteq m_delactorfun
      BY DEF ReturnActor, ReturnErased, Peek, PostLayer, Release, eraseVars
    <2>3. pending \in [Actors -> Nat] /\ m_delactorfun \subseteq Actors
      BY DEF Inv, TypeOK
    <2> HIDE DEF a
    <2>4. pending' \in [Actors -> Nat]
      BY <2>1, <2>3
    <2>5. QED
      BY <2>2, <2>3, <2>4
  <1>7. /\ stat' \in [Actors -> {"free", "list", "run", "close"}]
        /\ m_actorlist' \in [Layers -> Seq(Actors)]
    <2>1. Append(m_actorlist[l], a) \in Seq(Actors)
      BY <1>4 DEF Inv, TypeOK
    <2>2. /\ \/ stat' = stat
             \/ \E q \in {"list", "free"} : stat' = [stat EXCEPT ![a] = q]
          /\ \/ m_actorlist' = m_actorlist
             \/ m_actorlist' = [m_actorlist EXCEPT ![l] = Append(@, a)]
      BY DEF ReturnActor, ReturnErased, Peek, PostLayer, Release, actorVars, layerVars
    <2>3. /\ stat \in [Actors -> {"free", "list", "run", "close"}]
          /\ m_actorlist \in [Layers -> Seq(Actors)]
      BY DEF Inv, TypeOK
    <2> HIDE DEF a, l
    <2>4. stat' \in [Actors -> {"free", "list", "run", "close"}]
      BY <1>4, <2>2, <2>3
    <2>5. m_actorlist' \in [Layers -> Seq(Actors)]
      <3>1. CASE m_actorlist' = m_actorlist
        BY <2>3, <3>1
      <3>2. CASE m_actorlist' = [m_actorlist EXCEPT ![l] = Append(@, a)]
        BY <1>4, <2>1, <2>3, <3>2
      <3>3. QED
        BY <2>2, <3>1, <3>2
    <2>6. QED
      BY <2>4, <2>5
  <1>8. layer_sem' \in [Layers -> Nat] /\ seen' \in [Workers -> [len : Nat, pops : Nat]]
    <2>1. /\ layer_sem \in [Layers -> Nat] /\ seen \in [Workers -> [len : Nat, pops : Nat]]
          /\ Len(m_actorlist[l]) \in Nat
      BY <1>4 DEF Inv, TypeOK
    <2>2. layer_sem' = layer_sem \/ layer_sem' = [layer_sem EXCEPT ![l] = @ + 1]
      BY DEF ReturnActor, ReturnErased, Peek, PostLayer, Release, layerVars
    <2>3. \/ seen' = seen
          \/ \E k \in Nat : seen' = [seen EXCEPT ![w] = [len |-> k, pops |-> 0]]
      BY <2>1 DEF ReturnActor, ReturnErased, Peek, PostLayer, PushEnds, Release, Unseen
    <2> HIDE DEF a, l
    <2>4. layer_sem' \in [Layers -> Nat]
      BY <1>4, <2>1, <2>2
    <2>5. \A k \in Nat : [len |-> k, pops |-> 0] \in [len : Nat, pops : Nat]
      OBVIOUS
    <2>6. QED
      BY <2>1, <2>3, <2>4, <2>5
  <1>9. \A v \in Workers : wpc'[v] = IF v = w THEN p ELSE wpc[v]
    BY <1>1 DEF Inv, TypeOK
  <1>10. \A v \in Workers : wpc'[v] \in AtWork <=> wpc[v] \in AtWork
    BY <1>2, <1>9 DEF AtWork
  <1>11. TypeOK'
    <2>1. wpc' \in [Workers -> WorkerStates]
      BY <1>1 DEF Inv, TypeOK, WorkerStates
    <2>2. QED
      BY <1>2, <1>3, <1>5, <1>6, <1>7, <1>8, <2>1
      DEF Inv, TypeOK, PoolTypeOK, poolVars, dispatchVars, WorkerStates
  <1>12. LentOnce'
    <2>1. \A k \in Layers : lpthread[k] # NoThread => lpthread[k] \in Workers
      BY DEF Inv, TypeOK
    <2>2. QED
      BY <1>2, <1>10, <2>1 DEF Inv, LentOnce, dispatchVars
  <1>13. BusyWorker'
    BY <1>2, <1>3, <1>4, <1>5, <1>9 DEF Inv, BusyWorker, poolVars
  <1>14. PoolExact'
    <2>1. ASSUME NEW v \in Workers PROVE Lent(v)' <=> Lent(v)
      BY <1>2, <1>10 DEF Lent, dispatchVars
    <2>2. SlotsDistinct' /\ Available' = Available
      BY <1>2, SamePool, PoolExactParts DEF Inv, poolVars
    <2>3. OneBorrower' /\ AvailExact'
      BY <1>2, <2>1, <2>2 DEF Inv, PoolExact, OneBorrower, AvailExact, dispatchVars
    <2>4. QED
      BY <2>2, <2>3, PoolExactParts
  <1>15. QED
    BY <1>11, <1>12, <1>13, <1>14 DEF Inv

(* A ready queue from which an actor was taken is a queue of actors. *)
LEMMA WithoutSeq ==
    ASSUME NEW S, NEW q \in Seq(S), NEW i \in DOMAIN q
    PROVE  /\ Without(q, i) \in Seq(S) /\ DOMAIN Without(q, i) = 1 .. Len(q) - 1
           /\ \A j \in 1 .. Len(q) - 1 : Without(q, i)[j] = IF j < i THEN q[j] ELSE q[j + 1]
  <1>1. /\ Len(q) \in Nat /\ DOMAIN q = 1 .. Len(q) /\ i \in 1 .. Len(q)
        /\ \A j \in 1 .. Len(q) : q[j] \in S
    OBVIOUS
  <1>2. Len(q) - 1 \in Nat
    BY <1>1
  <1>3. \A j \in 1 .. Len(q) - 1 : j \in 1 .. Len(q) /\ j + 1 \in 1 .. Len(q)
    BY <1>1
  <1>4. \A j \in 1 .. Len(q) - 1 : (IF j < i THEN q[j] ELSE q[j + 1]) \in S
    BY <1>1, <1>3
  <1>5. Without(q, i) \in [1 .. Len(q) - 1 -> S]
    BY <1>4 DEF Without
  <1>6. QED
    BY <1>2, <1>5 DEF Without

(* The steps of an erase touch neither the pool nor the workers. *)
LEMMA EraseSteps ==
    ASSUME Inv,
           \/ \E w \in Workers : Close(w)
           \/ \E a \in Actors : Erase(a) \/ ReleaseErased(a)
    PROVE  Inv'
  <1>1. UNCHANGED <<poolVars, posted, layer_sem, dispatchVars, workerVars>>
    BY DEF Close, Erase, ReleaseErased, layerVars
  <1> DEFINE Touched(a) ==
            /\ pending' = pending \/ pending' = [pending EXCEPT ![a] = 0]
            /\ stat' = stat \/ stat' = [stat EXCEPT ![a] = "close"]
            /\ m_actorbyid' \subseteq Actors /\ m_delactorfun' \subseteq Actors
            /\ erasing' \subseteq Actors
            /\ \/ m_actorlist' = m_actorlist
               \/ \E i \in DOMAIN m_actorlist[LayerOf[a]] :
                      m_actorlist' = [m_actorlist EXCEPT ![LayerOf[a]] = Without(@, i)]
  <1>2. PICK a \in Actors : Touched(a)
    <2>1. ASSUME NEW w \in Workers, Close(w)
          PROVE  lpactor[w] \in Actors /\ Touched(lpactor[w])
      BY <2>1 DEF Close, Inv, TypeOK, BusyWorker, layerVars
    <2>2. ASSUME NEW a \in Actors, Erase(a) PROVE Touched(a)
      BY <2>2 DEF Erase, Inv, TypeOK
    <2>3. ASSUME NEW a \in Actors, ReleaseErased(a) PROVE Touched(a)
      BY <2>3 DEF ReleaseErased, Inv, TypeOK, layerVars
    <2> HIDE DEF Touched
    <2>4. QED
      BY <2>1, <2>2, <2>3
  <1>3. TypeOK'
    <2>1. /\ pending \in [Actors -> Nat] /\ LayerOf[a] \in Layers
          /\ stat \in [Actors -> {"free", "list", "run", "close"}]
          /\ m_actorlist \in [Layers -> Seq(Actors)]
      BY SchedulerAssumption DEF Inv, TypeOK
    <2>2. pending' \in [Actors -> Nat]
      BY <1>2, <2>1
    <2>3. stat' \in [Actors -> {"free", "list", "run", "close"}]
      BY <1>2, <2>1
    <2>4. m_actorlist' \in [Layers -> Seq(Actors)]
      <3>1. CASE m_actorlist' = m_actorlist
        BY <2>1, <3>1
      <3>2. ASSUME NEW i \in DOMAIN m_actorlist[LayerOf[a]],
                   m_actorlist' = [m_actorlist EXCEPT ![LayerOf[a]] = Without(@, i)]
            PROVE  m_actorlist' \in [Layers -> Seq(Actors)]
        <4>1. m_actorlist[LayerOf[a]] \in Seq(Actors)
          BY <2>1
        <4>2. Without(m_actorlist[LayerOf[a]], i) \in Seq(Actors)
          BY <4>1, WithoutSeq
        <4>3. QED
          BY <2>1, <3>2, <4>2
      <3>3. QED
        BY <1>2, <3>1, <3>2
    <2>5. QED
      BY <1>1, <1>2, <2>2, <2>3, <2>4
      DEF Inv, TypeOK, PoolTypeOK, poolVars, dispatchVars, workerVars
  <1>4. LentOnce' /\ BusyWorker'
    BY <1>1 DEF Inv, LentOnce, BusyWorker, poolVars, dispatchVars, workerVars
  <1>5. PoolExact'
    BY <1>1 DEF Inv, PoolExact, Available, Lent, poolVars, dispatchVars, workerVars
  <1>6. QED
    BY <1>3, <1>4, <1>5 DEF Inv

(* A handler that asks finds its own worker missing: it is at work. *)
LEMMA AskStep ==
    ASSUME Inv, NEW w \in Workers, StartSuspend(w) \/ AskAgain(w)
    PROVE  Inv'
  <1>1. wpc[w] \in {"run", "asking"}
    BY DEF StartSuspend, AskAgain
  <1>2. m_workthreadpos # 0
    <2>1. w \notin Available
      BY <1>1 DEF Inv, PoolExact, Lent, AtWork
    <2>2. PoolTypeOK /\ SlotsDistinct
      BY PoolExactParts DEF Inv, TypeOK
    <2>3. QED
      BY <2>1, <2>2, PoolFull
  <1>3. /\ m_suspend' = TRUE /\ wpc' = [wpc EXCEPT ![w] = "asking"]
        /\ UNCHANGED <<m_workthreads, m_workthreadpos, pool_sem, eraseVars, actorVars,
                       layerVars, dispatchVars, m_actor, nthread_sem, lpactor,
                       ldefcallback, seen>>
    BY <1>2 DEF StartSuspend, AskAgain, Ask, AskSuspend, AllReturned
  <1>4. \A v \in Workers : wpc'[v] = IF v = w THEN "asking" ELSE wpc[v]
    BY <1>3 DEF Inv, TypeOK
  <1>5. TypeOK'
    <2>1. wpc' \in [Workers -> WorkerStates]
      BY <1>3 DEF Inv, TypeOK, WorkerStates
    <2>2. PoolTypeOK'
      BY <1>3 DEF Inv, TypeOK, PoolTypeOK
    <2>3. QED
      BY <1>3, <2>1, <2>2
      DEF Inv, TypeOK, actorVars, layerVars, dispatchVars, eraseVars, WorkerStates
  <1>6. \A v \in Workers : wpc'[v] \in AtWork <=> wpc[v] \in AtWork
    BY <1>1, <1>4 DEF AtWork
  <1>7. LentOnce'
    <2>1. \A k \in Layers : lpthread[k] # NoThread => lpthread[k] \in Workers
      BY DEF Inv, TypeOK
    <2>2. QED
      BY <1>3, <1>6, <2>1 DEF Inv, LentOnce, dispatchVars
  <1>8. BusyWorker'
    BY <1>1, <1>3, <1>4 DEF Inv, BusyWorker
  <1>9. PoolExact'
    <2>1. ASSUME NEW v \in Workers PROVE Lent(v)' <=> Lent(v)
      BY <1>3, <1>6 DEF Lent, dispatchVars
    <2>2. SlotsDistinct' /\ Available' = Available
      BY <1>3, SamePool, PoolExactParts DEF Inv
    <2>3. OneBorrower' /\ AvailExact'
      BY <1>3, <2>1, <2>2 DEF Inv, PoolExact, OneBorrower, AvailExact, dispatchVars
    <2>4. QED
      BY <2>2, <2>3, PoolExactParts
  <1>10. QED
    BY <1>5, <1>7, <1>8, <1>9 DEF Inv

LEMMA InvStutters == Inv /\ UNCHANGED vars => Inv'
  <1> SUFFICES ASSUME Inv, UNCHANGED vars PROVE Inv'
    OBVIOUS
  <1> USE DEF vars, poolVars, actorVars, layerVars, dispatchVars, workerVars, eraseVars
  <1>1. TypeOK'
    BY DEF Inv, TypeOK, PoolTypeOK
  <1>2. LentOnce' /\ BusyWorker'
    BY DEF Inv, LentOnce, BusyWorker
  <1>3. PoolExact'
    BY DEF Inv, PoolExact, Available, Lent
  <1>4. QED
    BY <1>1, <1>2, <1>3 DEF Inv

LEMMA InvInductive == Inv /\ [Next]_vars => Inv'
  <1> SUFFICES ASSUME Inv, [Next]_vars PROVE Inv'
    OBVIOUS
  <1>1. ASSUME NEW a \in Actors, Post(a) \/ Erase(a) \/ ReleaseErased(a) PROVE Inv'
    BY <1>1, PostStep, EraseSteps
  <1>2. ASSUME NEW l \in Layers, Dispatcher(l) PROVE Inv'
    BY <1>2, DispatcherMoves, PopStep, TakeNothingStep, TakeActorStep DEF Dispatcher
  <1>3. ASSUME NEW w \in Workers, Worker(w) \/ Close(w) \/ StartSuspend(w) PROVE Inv'
    BY <1>3, WorkerTakeStep, HandleBatchStep, GiveBackStep, WorkerReturns, AskStep,
       EraseSteps DEF Worker
  <1>4. CASE UNCHANGED vars
    BY <1>4, InvStutters
  <1>5. QED
    BY <1>1, <1>2, <1>3, <1>4 DEF Next

LEMMA Invariance == Spec => []Inv
  BY InitInv, InvInductive, PTL DEF Spec

(* Every variable keeps the shape the code gives it; the position of the   *)
(* array in particular stays within it.                                    *)
THEOREM SchedulerTypeInvariant == Spec => []TypeOK
  <1>1. Inv => TypeOK
    BY DEF Inv
  <1>2. QED
    BY <1>1, Invariance, PTL

(* No worker is lent twice and none is lost, however the dispatchers, the  *)
(* workers, the threads that erase and the suspenders interleave.          *)
THEOREM PoolStaysExact == Spec => []PoolExact
  <1>1. Inv => PoolExact
    BY DEF Inv
  <1>2. QED
    BY <1>1, Invariance, PTL

(* A handler that suspends dispatch never sees every worker back, however  *)
(* many workers there are and whatever the others do: the suspension is    *)
(* asked for and never held.                                               *)
THEOREM SuspendersWait == Spec => []SuspenderWaits
  <1>1. ASSUME Inv PROVE SuspenderWaits
    <2> SUFFICES ASSUME NEW w \in Workers
                 PROVE  /\ wpc[w] # "holding"
                        /\ wpc[w] = "asking" => m_suspend /\ m_workthreadpos > 0
      BY DEF SuspenderWaits
    <2>1. wpc[w] # "holding" /\ (wpc[w] = "asking" => m_suspend)
      BY <1>1 DEF Inv, BusyWorker
    <2>2. ASSUME wpc[w] = "asking" PROVE m_workthreadpos > 0
      <3>1. w \notin Available
        BY <1>1, <2>2 DEF Inv, PoolExact, Lent, AtWork
      <3>2. PoolTypeOK /\ SlotsDistinct
        BY <1>1, PoolExactParts DEF Inv, TypeOK
      <3>3. m_workthreadpos # 0
        BY <3>1, <3>2, PoolFull
      <3>4. QED
        BY <3>2, <3>3, ThreadAssumption DEF PoolTypeOK
    <2>3. QED
      BY <2>1, <2>2
  <1>2. QED
    BY <1>1, Invariance, PTL
-----------------------------------------------------------------------------
(* Queues without repetition. *)

In(q, x) == \E i \in DOMAIN q : q[i] = x
Distinct(q) == \A i, j \in DOMAIN q : q[i] = q[j] => i = j

LEMMA AppendQueue ==
    ASSUME NEW S, NEW q \in Seq(S), NEW e \in S, Distinct(q), ~In(q, e)
    PROVE  /\ Append(q, e) \in Seq(S) /\ Distinct(Append(q, e))
           /\ \A x : In(Append(q, e), x) <=> In(q, x) \/ x = e
  <1>1. /\ Append(q, e) \in Seq(S) /\ DOMAIN q = 1 .. Len(q) /\ Len(q) \in Nat
        /\ DOMAIN Append(q, e) = 1 .. Len(q) + 1
        /\ Append(q, e)[Len(q) + 1] = e
        /\ \A i \in 1 .. Len(q) : Append(q, e)[i] = q[i]
    OBVIOUS
  <1>2. \A i : i \in 1 .. Len(q) + 1 <=> i \in 1 .. Len(q) \/ i = Len(q) + 1
    BY <1>1
  <1>3. Distinct(Append(q, e))
    BY <1>1, <1>2 DEF Distinct, In
  <1>4. \A x : In(Append(q, e), x) <=> In(q, x) \/ x = e
    BY <1>1, <1>2 DEF In
  <1>5. QED
    BY <1>1, <1>3, <1>4

LEMMA TailQueue ==
    ASSUME NEW S, NEW q \in Seq(S), q # <<>>, Distinct(q)
    PROVE  /\ Head(q) \in S /\ In(q, Head(q))
           /\ Tail(q) \in Seq(S) /\ Distinct(Tail(q))
           /\ \A x : In(Tail(q), x) <=> In(q, x) /\ x # Head(q)
  <1>1. /\ Head(q) \in S /\ Tail(q) \in Seq(S)
        /\ DOMAIN q = 1 .. Len(q) /\ Len(q) \in Nat /\ Len(q) # 0
        /\ DOMAIN Tail(q) = 1 .. Len(q) - 1
        /\ Head(q) = q[1]
        /\ \A i \in 1 .. Len(q) - 1 : Tail(q)[i] = q[i + 1]
    OBVIOUS
  <1>2. /\ \A i \in 1 .. Len(q) - 1 : i + 1 \in 1 .. Len(q) /\ i + 1 # 1
        /\ \A i \in 1 .. Len(q) : i # 1 => i - 1 \in 1 .. Len(q) - 1 /\ i = (i - 1) + 1
        /\ 1 \in 1 .. Len(q)
    BY <1>1
  <1>3. Distinct(Tail(q))
    <2>1. ASSUME NEW i \in 1 .. Len(q) - 1, NEW j \in 1 .. Len(q) - 1, Tail(q)[i] = Tail(q)[j]
          PROVE  i = j
      <3>1. i + 1 = j + 1
        BY <1>1, <1>2, <2>1 DEF Distinct
      <3>2. QED
        BY <3>1
    <2>2. QED
      BY <1>1, <2>1 DEF Distinct
  <1>4. ASSUME NEW x PROVE In(Tail(q), x) <=> In(q, x) /\ x # Head(q)
    <2>1. ASSUME NEW i \in 1 .. Len(q) - 1, Tail(q)[i] = x
          PROVE  In(q, x) /\ x # Head(q)
      BY <1>1, <1>2, <2>1 DEF In, Distinct
    <2>2. ASSUME NEW i \in 1 .. Len(q), q[i] = x, x # Head(q)
          PROVE  In(Tail(q), x)
      <3>1. i # 1
        BY <1>1, <2>2
      <3>2. i - 1 \in 1 .. Len(q) - 1 /\ Tail(q)[i - 1] = q[i]
        BY <1>1, <1>2, <3>1
      <3>3. QED
        BY <1>1, <2>2, <3>2 DEF In
    <2>3. QED
      BY <1>1, <2>1, <2>2 DEF In
  <1>5. QED
    BY <1>1, <1>2, <1>3, <1>4 DEF In

LEMMA WithoutQueue ==
    ASSUME NEW S, NEW q \in Seq(S), NEW i \in DOMAIN q, Distinct(q)
    PROVE  /\ Distinct(Without(q, i))
           /\ \A x : In(Without(q, i), x) <=> In(q, x) /\ x # q[i]
  <1> DEFINE r == Without(q, i)
             At(j) == IF j < i THEN j ELSE j + 1
  <1>1. /\ DOMAIN q = 1 .. Len(q) /\ Len(q) \in Nat /\ i \in 1 .. Len(q)
        /\ DOMAIN r = 1 .. Len(q) - 1
        /\ \A j \in 1 .. Len(q) - 1 : r[j] = IF j < i THEN q[j] ELSE q[j + 1]
    BY WithoutSeq
  <1> HIDE DEF r
  <1>2. \A j \in 1 .. Len(q) - 1 : At(j) \in 1 .. Len(q) /\ At(j) # i /\ r[j] = q[At(j)]
    BY <1>1
  <1>3. \A j, k \in 1 .. Len(q) - 1 : At(j) = At(k) => j = k
    BY <1>1
  <1>4. \A k \in 1 .. Len(q) : k # i => \E j \in 1 .. Len(q) - 1 : At(j) = k
    <2>1. ASSUME NEW k \in 1 .. Len(q), k < i PROVE k \in 1 .. Len(q) - 1 /\ At(k) = k
      BY <1>1, <2>1
    <2>2. ASSUME NEW k \in 1 .. Len(q), k > i PROVE k - 1 \in 1 .. Len(q) - 1 /\ At(k - 1) = k
      BY <1>1, <2>2
    <2>3. \A k \in 1 .. Len(q) : k # i => k < i \/ k > i
      BY <1>1
    <2> HIDE DEF At
    <2>4. QED
      BY <2>1, <2>2, <2>3
  <1> HIDE DEF At
  <1>5. Distinct(r)
    BY <1>1, <1>2, <1>3 DEF Distinct
  <1>6. ASSUME NEW x PROVE In(r, x) <=> In(q, x) /\ x # q[i]
    <2>1. ASSUME NEW j \in 1 .. Len(q) - 1, r[j] = x PROVE In(q, x) /\ x # q[i]
      BY <1>1, <1>2, <2>1 DEF In, Distinct
    <2>2. ASSUME NEW k \in 1 .. Len(q), q[k] = x, x # q[i] PROVE In(r, x)
      <3>1. k # i
        BY <2>2
      <3>2. PICK j \in 1 .. Len(q) - 1 : At(j) = k
        BY <1>4, <3>1
      <3>3. QED
        BY <1>1, <1>2, <2>2, <3>2 DEF In
    <2>3. QED
      BY <1>1, <2>1, <2>2 DEF In
  <1>7. QED
    BY <1>5, <1>6 DEF r
-----------------------------------------------------------------------------
(* Where an actor is. *)

OneHolder ==
    \A a \in Actors :
        /\ \A v, w \in Workers : Holds(v, a) /\ Holds(w, a) => v = w
        /\ \A w \in Workers : ~(Assigned(w, a) /\ InHand(w, a))

StatTrue ==
    \A a \in Actors :
        /\ stat[a] = "run" <=> a \in m_actorbyid /\ \E w \in Workers : Holds(w, a)
        /\ stat[a] = "list" <=> In(m_actorlist[LayerOf[a]], a)
        /\ stat[a] = "close" <=> a \notin m_actorbyid
        /\ pending[a] > 0 => stat[a] # "free"

QueuesExact ==
    \A l \in Layers :
        /\ Distinct(m_actorlist[l])
        /\ \A x : In(m_actorlist[l], x) => LayerOf[x] = l

OneReleaser ==
    \A a \in Actors : \A w \in Workers :
        /\ a \in erasing \/ Releases(w, a) =>
               a \notin m_actorbyid /\ \A v \in Workers : ~Holds(v, a)
        /\ Releases(w, a) => /\ a \notin erasing
                             /\ \A v \in Workers : Releases(v, a) => v = w

Places == OneHolder /\ StatTrue /\ QueuesExact /\ OneReleaser

LEMMA PlacesAre == ActorInOnePlace <=> Places
  <1>1. QueuesExact <=> \A l \in Layers : \A i, j \in DOMAIN m_actorlist[l] :
            /\ LayerOf[m_actorlist[l][i]] = l
            /\ m_actorlist[l][i] = m_actorlist[l][j] => i = j
    BY DEF QueuesExact, Distinct, In
  <1>2. QED
    BY <1>1 DEF ActorInOnePlace, Places, OneHolder, StatTrue, OneReleaser, In

(* A step after which the same workers answer for the same actors. *)
LEMMA SamePlaces ==
    ASSUME Places, UNCHANGED <<stat, m_actorlist, m_actorbyid>>, erasing' \subseteq erasing,
           \A a \in Actors : pending'[a] > 0 => pending[a] > 0 \/ stat[a] # "free",
           \A a \in Actors, w \in Workers :
               /\ Assigned(w, a)' <=> Assigned(w, a)
               /\ InHand(w, a)' <=> InHand(w, a)
               /\ Releases(w, a)' => Releases(w, a)
    PROVE  Places'
  <1>1. \A a \in Actors, w \in Workers : Holds(w, a)' <=> Holds(w, a)
    BY DEF Holds
  <1>2. OneHolder'
    BY <1>1 DEF Places, OneHolder
  <1>3. StatTrue'
    BY <1>1 DEF Places, StatTrue
  <1>4. QueuesExact'
    BY DEF Places, QueuesExact
  <1>5. OneReleaser'
    BY <1>1 DEF Places, OneReleaser
  <1>6. QED
    BY <1>2, <1>3, <1>4, <1>5 DEF Places

LEMMA InitPlaces == Init => Places
  <1> SUFFICES ASSUME Init PROVE Places
    OBVIOUS
  <1>1. \A a \in Actors, w \in Workers : ~Assigned(w, a) /\ ~InHand(w, a)
    BY DEF Init, Assigned, InHand, AtWork
  <1>2. \A l \in Layers : m_actorlist[l] = <<>>
    BY DEF Init
  <1>3. \A x : ~In(<<>>, x)
    BY DEF In
  <1>4. Distinct(<<>>)
    BY DEF Distinct
  <1>5. OneHolder
    BY <1>1 DEF OneHolder, Holds
  <1>6. QueuesExact
    BY <1>2, <1>3, <1>4 DEF QueuesExact
  <1>7. StatTrue
    BY <1>1, <1>2, <1>3, SchedulerAssumption DEF Init, StatTrue, Holds
  <1>8. OneReleaser
    BY DEF Init, OneReleaser, Releases
  <1>9. QED
    BY <1>5, <1>6, <1>7, <1>8 DEF Places

LEMMA PostPlaces ==
    ASSUME Inv, Places, NEW a \in Actors, Post(a)
    PROVE  Places'
  <1> DEFINE l == LayerOf[a]
  <1>1. /\ stat \in [Actors -> {"free", "list", "run", "close"}]
        /\ m_actorlist \in [Layers -> Seq(Actors)]
        /\ pending \in [Actors -> Nat] /\ l \in Layers
        /\ pending' = [pending EXCEPT ![a] = @ + 1]
    BY SchedulerAssumption DEF Inv, TypeOK, Post
  <1>2. \A b \in Actors, w \in Workers :
            /\ Assigned(w, b)' <=> Assigned(w, b)
            /\ InHand(w, b)' <=> InHand(w, b)
            /\ Releases(w, b)' <=> Releases(w, b)
    BY DEF Post, workerVars, Assigned, InHand, Releases
  <1>3. CASE stat[a] # "free"
    <2>1. UNCHANGED <<stat, m_actorlist, m_actorbyid, erasing>>
      BY <1>3 DEF Post, eraseVars
    <2>2. \A b \in Actors : pending'[b] > 0 => pending[b] > 0 \/ stat[b] # "free"
      BY <1>1, <1>3
    <2>3. QED
      BY <1>2, <2>1, <2>2, SamePlaces
  <1>4. CASE stat[a] = "free"
    <2>1. /\ m_actorlist' = [m_actorlist EXCEPT ![l] = Append(@, a)]
          /\ stat' = [stat EXCEPT ![a] = "list"]
          /\ a \in m_actorbyid /\ UNCHANGED <<m_actorbyid, erasing>>
      BY <1>4 DEF Post, eraseVars
    <2>2. \A b \in Actors, w \in Workers : Holds(w, b)' <=> Holds(w, b)
      BY <1>2 DEF Holds
    <2>3. ~In(m_actorlist[l], a) /\ Distinct(m_actorlist[l])
      BY <1>1, <1>4 DEF Places, StatTrue, QueuesExact
    <2> DEFINE q == m_actorlist[l]
    <2>4. q \in Seq(Actors)
      BY <1>1
    <2>5. /\ Distinct(Append(q, a))
          /\ \A x : In(Append(q, a), x) <=> In(q, x) \/ x = a
      <3> HIDE DEF q, l
      <3>1. ~In(q, a) /\ Distinct(q)
        BY <2>3 DEF q
      <3>2. QED
        BY <2>4, <3>1, AppendQueue
    <2>6. \A k \in Layers : m_actorlist'[k] = IF k = l THEN Append(q, a) ELSE m_actorlist[k]
      BY <1>1, <2>1
    <2> HIDE DEF q
    <2>7. \A k \in Layers : \A x : In(m_actorlist'[k], x) <=>
              In(m_actorlist[k], x) \/ (k = l /\ x = a)
      BY <2>5, <2>6 DEF q
    <2>8. QueuesExact'
      BY <2>5, <2>6, <2>7 DEF Places, QueuesExact
    <2>9. OneHolder'
      BY <1>2, <2>2 DEF Places, OneHolder
    <2>10. StatTrue'
      <3>1. ASSUME NEW b \in Actors
            PROVE  /\ stat'[b] = "run" <=> b \in m_actorbyid /\ \E w \in Workers : Holds(w, b)'
                   /\ stat'[b] = "list" <=> In(m_actorlist'[LayerOf[b]], b)
                   /\ stat'[b] = "close" <=> b \notin m_actorbyid
                   /\ pending'[b] > 0 => stat'[b] # "free"
        <4>1. LayerOf[b] \in Layers
          BY SchedulerAssumption
        <4>2. stat'[b] = IF b = a THEN "list" ELSE stat[b]
          BY <1>1, <2>1
        <4>3. pending'[b] = IF b = a THEN pending[b] + 1 ELSE pending[b]
          BY <1>1
        <4>4. QED
          BY <1>4, <2>1, <2>2, <2>7, <4>1, <4>2, <4>3 DEF Places, StatTrue
      <3>2. QED
        BY <2>1, <3>1, SchedulerAssumption DEF StatTrue
    <2>11. OneReleaser'
      BY <1>2, <2>1, <2>2 DEF Places, OneReleaser
    <2>12. QED
      BY <2>8, <2>9, <2>10, <2>11 DEF Places
  <1>5. QED
    BY <1>3, <1>4

LEMMA TakeActorPlaces ==
    ASSUME Inv, Places, NEW l \in Layers, TakeActor(l)
    PROVE  Places'
  <1> DEFINE w == lpthread[l]
             q == m_actorlist[l]
             a == Head(q)
  <1>1. /\ q # <<>> /\ m_actorlist' = [m_actorlist EXCEPT ![l] = Tail(q)]
        /\ stat' = [stat EXCEPT ![a] = "run"]
        /\ m_actor' = [m_actor EXCEPT ![w] = a]
        /\ nthread_sem' = [nthread_sem EXCEPT ![w] = @ + 1]
        /\ UNCHANGED <<pending, wpc, lpactor, ldefcallback, m_actorbyid, erasing>>
    BY DEF TakeActor, eraseVars
  <1>2. /\ w \in Workers /\ nthread_sem[w] = 0
    BY DEF TakeActor, Inv, TypeOK, LentOnce
  <1>3. /\ q \in Seq(Actors) /\ Distinct(q)
    BY DEF Inv, TypeOK, Places, QueuesExact
  <1> HIDE DEF q, w
  <1>4. /\ a \in Actors /\ In(q, a) /\ Distinct(Tail(q))
        /\ \A x : In(Tail(q), x) <=> In(q, x) /\ x # a
    BY <1>1, <1>3, TailQueue
  <1> HIDE DEF a
  <1>5. LayerOf[a] = l /\ stat[a] = "list" /\ a \in m_actorbyid
    BY <1>4 DEF Places, QueuesExact, StatTrue, q
  <1>6. \A v \in Workers : ~Holds(v, a)
    BY <1>4, <1>5 DEF Places, StatTrue
  <1>7. \A v \in Workers, b \in Actors :
            /\ Assigned(v, b)' <=> Assigned(v, b) \/ (v = w /\ b = a)
            /\ InHand(v, b)' <=> InHand(v, b)
            /\ ~Assigned(w, b)
            /\ Releases(v, b)' <=> Releases(v, b)
    BY <1>1, <1>2, <1>4 DEF Assigned, InHand, Releases, Inv, TypeOK
  <1>8. \A v \in Workers, b \in Actors : Holds(v, b)' <=> Holds(v, b) \/ (v = w /\ b = a)
    BY <1>7 DEF Holds
  <1>9. \A k \in Layers : \A x : In(m_actorlist'[k], x) <=> In(m_actorlist[k], x) /\ ~(k = l /\ x = a)
    BY <1>1, <1>4 DEF Inv, TypeOK, q
  <1>10. OneHolder'
    BY <1>6, <1>7, <1>8 DEF Places, OneHolder, Holds
  <1>11. QueuesExact'
    <2>1. \A k \in Layers : Distinct(m_actorlist'[k])
      BY <1>1, <1>4 DEF Inv, TypeOK, Places, QueuesExact
    <2>2. QED
      BY <1>9, <2>1 DEF Places, QueuesExact
  <1>12. StatTrue'
    <2>1. ASSUME NEW b \in Actors
          PROVE  /\ stat'[b] = "run" <=> b \in m_actorbyid /\ \E v \in Workers : Holds(v, b)'
                 /\ stat'[b] = "list" <=> In(m_actorlist'[LayerOf[b]], b)
                 /\ stat'[b] = "close" <=> b \notin m_actorbyid
                 /\ pending'[b] > 0 => stat'[b] # "free"
      <3>1. LayerOf[b] \in Layers
        BY SchedulerAssumption
      <3>2. stat'[b] = IF b = a THEN "run" ELSE stat[b]
        BY <1>1 DEF Inv, TypeOK
      <3>3. (\E v \in Workers : Holds(v, b)') <=> b = a \/ \E v \in Workers : Holds(v, b)
        BY <1>2, <1>8
      <3>4. CASE b = a
        BY <1>5, <1>9, <3>1, <3>2, <3>3, <3>4
      <3>5. CASE b # a
        BY <1>1, <1>9, <3>1, <3>2, <3>3, <3>5 DEF Places, StatTrue
      <3>6. QED
        BY <3>4, <3>5
    <2>2. QED
      BY <1>1, <2>1, SchedulerAssumption DEF StatTrue
  <1>13. OneReleaser'
    BY <1>1, <1>5, <1>7, <1>8 DEF Places, OneReleaser
  <1>14. QED
    BY <1>10, <1>11, <1>12, <1>13 DEF Places

LEMMA WorkerTakePlaces ==
    ASSUME Inv, Places, NEW w \in Workers, WorkerTake(w)
    PROVE  Places'
  <1>1. /\ wpc[w] = "wait" /\ nthread_sem[w] = 1 /\ m_actor[w] \in Actors
    BY DEF WorkerTake, Inv, TypeOK, LentOnce
  <1>2. /\ nthread_sem' = [nthread_sem EXCEPT ![w] = @ - 1]
        /\ lpactor' = [lpactor EXCEPT ![w] = m_actor[w]]
        /\ wpc' = [wpc EXCEPT ![w] = "run"]
        /\ UNCHANGED <<stat, pending, m_actorlist, m_actor, ldefcallback, m_actorbyid, erasing>>
    BY <1>1, SchedulerAssumption DEF WorkerTake, actorVars, layerVars, eraseVars
  <1>3. \A v \in Workers :
            /\ nthread_sem'[v] = IF v = w THEN 0 ELSE nthread_sem[v]
            /\ lpactor'[v] = IF v = w THEN m_actor[w] ELSE lpactor[v]
            /\ wpc'[v] = IF v = w THEN "run" ELSE wpc[v]
    BY <1>1, <1>2 DEF Inv, TypeOK
  <1>4. \A v \in Workers, a \in Actors :
            /\ Assigned(v, a)' <=> Assigned(v, a) /\ v # w
            /\ InHand(v, a)' <=> IF v = w THEN a = m_actor[w] ELSE InHand(v, a)
            /\ Assigned(w, a) <=> a = m_actor[w]
            /\ ~InHand(w, a)
    BY <1>1, <1>2, <1>3 DEF Assigned, InHand, AtWork
  <1>5. \A v \in Workers, a \in Actors : Holds(v, a)' <=> Holds(v, a)
    BY <1>4 DEF Holds
  <1>6. OneHolder'
    BY <1>4, <1>5 DEF Places, OneHolder
  <1>7. StatTrue' /\ QueuesExact'
    BY <1>2, <1>5 DEF Places, StatTrue, QueuesExact
  <1>8. \A v \in Workers, a \in Actors : Releases(v, a)' <=> Releases(v, a)
    BY <1>1, <1>2, <1>3 DEF Releases, Inv, BusyWorker
  <1>9. OneReleaser'
    BY <1>2, <1>5, <1>8 DEF Places, OneReleaser
  <1>10. QED
    BY <1>6, <1>7, <1>9 DEF Places

LEMMA ReturnActorPlaces ==
    ASSUME Inv, Places, NEW w \in Workers, ReturnActor(w)
    PROVE  Places'
  <1> DEFINE a == lpactor[w]
             l == LayerOf[a]
             q == m_actorlist[l]
  <1>1. /\ wpc[w] = "return" /\ wpc' = [wpc EXCEPT ![w] = "peek"]
        /\ a \in m_actorbyid
        /\ UNCHANGED <<pending, m_actor, nthread_sem, lpactor, ldefcallback, m_actorbyid,
                       erasing>>
    BY DEF ReturnActor, eraseVars
  <1>2. IF pending[a] > 0
        THEN m_actorlist' = [m_actorlist EXCEPT ![l] = Append(q, a)]
             /\ stat' = [stat EXCEPT ![a] = "list"]
        ELSE m_actorlist' = m_actorlist /\ stat' = [stat EXCEPT ![a] = "free"]
    BY DEF ReturnActor
  <1>3. a \in Actors /\ l \in Layers
    BY <1>1, SchedulerAssumption DEF Inv, BusyWorker
  <1>4. InHand(w, a) /\ Holds(w, a)
    BY <1>1 DEF InHand, Holds, AtWork
  <1>5. stat[a] = "run" /\ ~In(q, a) /\ \A v \in Workers : Holds(v, a) => v = w
    BY <1>1, <1>3, <1>4 DEF Places, OneHolder, StatTrue
  <1>6. q \in Seq(Actors) /\ Distinct(q)
    BY <1>3 DEF Inv, TypeOK, Places, QueuesExact
  <1>7. \A v \in Workers, b \in Actors :
            /\ Assigned(v, b)' <=> Assigned(v, b)
            /\ InHand(v, b)' <=> InHand(v, b) /\ ~(v = w /\ b = a)
            /\ Releases(v, b)' <=> Releases(v, b)
    <2>1. \A v \in Workers : wpc'[v] = IF v = w THEN "peek" ELSE wpc[v]
      BY <1>1 DEF Inv, TypeOK
    <2>2. QED
      BY <1>1, <2>1 DEF Assigned, InHand, AtWork, Releases
  <1>8. ~Assigned(w, a)
    BY <1>3, <1>4 DEF Places, OneHolder
  <1>9. \A v \in Workers, b \in Actors : Holds(v, b)' <=> Holds(v, b) /\ b # a
    BY <1>5, <1>7, <1>8 DEF Holds
  <1> HIDE DEF a, l, q
  <1>10. /\ Distinct(Append(q, a))
         /\ \A x : In(Append(q, a), x) <=> In(q, x) \/ x = a
    BY <1>3, <1>5, <1>6, AppendQueue
  <1>11. \A k \in Layers :
             m_actorlist'[k] = IF pending[a] > 0 /\ k = l THEN Append(q, a) ELSE m_actorlist[k]
    BY <1>2, <1>3 DEF Inv, TypeOK
  <1>12. \A k \in Layers : \A x : In(m_actorlist'[k], x) <=>
             In(m_actorlist[k], x) \/ (pending[a] > 0 /\ k = l /\ x = a)
    BY <1>10, <1>11 DEF q
  <1>13. QueuesExact'
    <2>1. \A k \in Layers : Distinct(m_actorlist'[k])
      BY <1>10, <1>11 DEF Places, QueuesExact
    <2>2. LayerOf[a] = l
      BY DEF l
    <2>3. QED
      BY <1>12, <2>1, <2>2 DEF Places, QueuesExact
  <1>14. OneHolder'
    BY <1>7, <1>9 DEF Places, OneHolder
  <1>15. StatTrue'
    <2>1. ASSUME NEW b \in Actors
          PROVE  /\ stat'[b] = "run" <=> b \in m_actorbyid /\ \E v \in Workers : Holds(v, b)'
                 /\ stat'[b] = "list" <=> In(m_actorlist'[LayerOf[b]], b)
                 /\ stat'[b] = "close" <=> b \notin m_actorbyid
                 /\ pending'[b] > 0 => stat'[b] # "free"
      <3>1. LayerOf[b] \in Layers /\ (b = a => LayerOf[b] = l)
        BY SchedulerAssumption DEF l
      <3>2. stat'[b] = IF b # a THEN stat[b]
                       ELSE IF pending[a] > 0 THEN "list" ELSE "free"
        BY <1>2, <1>3 DEF Inv, TypeOK
      <3>3. (\E v \in Workers : Holds(v, b)') <=> b # a /\ \E v \in Workers : Holds(v, b)
        BY <1>9
      <3>4. ~In(m_actorlist[l], a)
        BY <1>5 DEF q
      <3>5. CASE b = a
        BY <1>1, <1>12, <3>1, <3>2, <3>3, <3>4, <3>5
      <3>6. CASE b # a
        BY <1>1, <1>12, <3>1, <3>2, <3>3, <3>6 DEF Places, StatTrue
      <3>7. QED
        BY <3>5, <3>6
    <2>2. QED
      BY <1>1, <2>1, SchedulerAssumption DEF StatTrue
  <1>16. OneReleaser'
    BY <1>1, <1>7, <1>9 DEF Places, OneReleaser
  <1>17. QED
    BY <1>13, <1>14, <1>15, <1>16 DEF Places

(* An erased actor leaves the worker that ran it, which may have to release *)
(* it then.                                                                *)
LEMMA ReturnErasedPlaces ==
    ASSUME Inv, Places, NEW w \in Workers, ReturnErased(w)
    PROVE  Places'
  <1> DEFINE a == lpactor[w]
  <1>1. /\ wpc[w] = "return" /\ wpc' = [wpc EXCEPT ![w] = "peek"]
        /\ a \notin m_actorbyid
        /\ ldefcallback' = [ldefcallback EXCEPT ![w] = a \in m_delactorfun]
        /\ UNCHANGED <<stat, pending, m_actorlist, m_actor, nthread_sem, lpactor,
                       m_actorbyid, erasing>>
    BY DEF ReturnErased, actorVars, layerVars
  <1>2. a \in Actors
    BY <1>1 DEF Inv, BusyWorker
  <1>3. InHand(w, a) /\ Holds(w, a)
    BY <1>1 DEF InHand, Holds, AtWork
  <1>4. /\ \A v \in Workers : Holds(v, a) => v = w
        /\ ~Assigned(w, a)
        /\ a \notin erasing /\ \A v \in Workers : ~Releases(v, a)
    BY <1>2, <1>3 DEF Places, OneHolder, OneReleaser
  <1>5. \A v \in Workers :
            /\ wpc'[v] = IF v = w THEN "peek" ELSE wpc[v]
            /\ v # w => ldefcallback'[v] = ldefcallback[v]
    BY <1>1 DEF Inv, TypeOK
  <1>6. \A v \in Workers, b \in Actors :
            /\ Assigned(v, b)' <=> Assigned(v, b)
            /\ InHand(v, b)' <=> InHand(v, b) /\ ~(v = w /\ b = a)
            /\ Releases(v, b)' => Releases(v, b) \/ (v = w /\ b = a)
    BY <1>1, <1>5 DEF Assigned, InHand, Releases, AtWork
  <1>7. \A v \in Workers, b \in Actors : Holds(v, b)' <=> Holds(v, b) /\ b # a
    BY <1>4, <1>6 DEF Holds
  <1> HIDE DEF a
  <1>8. OneHolder'
    BY <1>6, <1>7 DEF Places, OneHolder
  <1>9. StatTrue'
    BY <1>1, <1>7 DEF Places, StatTrue
  <1>10. QueuesExact'
    BY <1>1 DEF Places, QueuesExact
  <1>11. OneReleaser'
    BY <1>1, <1>4, <1>6, <1>7 DEF Places, OneReleaser
  <1>12. QED
    BY <1>8, <1>9, <1>10, <1>11 DEF Places

(* An actor is erased: it leaves the tables, and its layer's queue when it *)
(* was in it.                                                              *)
LEMMA ErasePlaces ==
    ASSUME Inv, Places, NEW a \in Actors, a \in m_actorbyid,
           m_actorbyid' = m_actorbyid \ {a},
           stat' = [stat EXCEPT ![a] = "close"],
           erasing' = erasing \/ (stat[a] # "run" /\ erasing' = erasing \cup {a}),
           UNCHANGED <<pending, workerVars>>,
           IF stat[a] = "list"
           THEN \E i \in DOMAIN m_actorlist[LayerOf[a]] :
                    /\ m_actorlist[LayerOf[a]][i] = a
                    /\ m_actorlist' = [m_actorlist EXCEPT ![LayerOf[a]] = Without(@, i)]
           ELSE m_actorlist' = m_actorlist
    PROVE  Places'
  <1>1. \A v \in Workers, b \in Actors :
            /\ Assigned(v, b)' <=> Assigned(v, b)
            /\ InHand(v, b)' <=> InHand(v, b)
            /\ Releases(v, b)' <=> Releases(v, b)
    BY DEF Assigned, InHand, Releases, workerVars
  <1>2. \A v \in Workers, b \in Actors : Holds(v, b)' <=> Holds(v, b)
    BY <1>1 DEF Holds
  <1>3. /\ LayerOf[a] \in Layers /\ m_actorlist \in [Layers -> Seq(Actors)]
        /\ stat \in [Actors -> {"free", "list", "run", "close"}]
    BY SchedulerAssumption DEF Inv, TypeOK
  <1>4. \A k \in Layers :
            /\ Distinct(m_actorlist'[k])
            /\ \A x : In(m_actorlist'[k], x) <=>
                          In(m_actorlist[k], x) /\ ~(k = LayerOf[a] /\ x = a)
    <2>1. CASE stat[a] # "list"
      BY <2>1 DEF Places, StatTrue, QueuesExact
    <2>2. CASE stat[a] = "list"
      <3> DEFINE l == LayerOf[a]
                 q == m_actorlist[l]
      <3>1. PICK i \in DOMAIN q : /\ q[i] = a
                                  /\ m_actorlist' = [m_actorlist EXCEPT ![l] = Without(q, i)]
        BY <2>2
      <3>2. q \in Seq(Actors) /\ Distinct(q)
        BY <1>3 DEF Places, QueuesExact
      <3>3. \A k \in Layers : m_actorlist'[k] = IF k = l THEN Without(q, i) ELSE m_actorlist[k]
        BY <1>3, <3>1
      <3> HIDE DEF q
      <3>4. /\ Distinct(Without(q, i))
            /\ \A x : In(Without(q, i), x) <=> In(q, x) /\ x # a
        <4>1. /\ Distinct(Without(q, i))
              /\ \A x : In(Without(q, i), x) <=> In(q, x) /\ x # q[i]
          BY <3>2, WithoutQueue
        <4>2. QED
          BY <3>1, <4>1
      <3> HIDE DEF l
      <3>5. \A k \in Layers :
                /\ Distinct(m_actorlist'[k])
                /\ \A x : In(m_actorlist'[k], x) <=> In(m_actorlist[k], x) /\ ~(k = l /\ x = a)
        BY <3>3, <3>4 DEF q, Places, QueuesExact
      <3>6. QED
        BY <3>5 DEF l
    <2>3. QED
      BY <2>1, <2>2
  <1>5. OneHolder'
    BY <1>1, <1>2 DEF Places, OneHolder
  <1>6. QueuesExact'
    BY <1>4 DEF Places, QueuesExact
  <1>7. StatTrue'
    <2>1. ASSUME NEW b \in Actors
          PROVE  /\ stat'[b] = "run" <=> b \in m_actorbyid' /\ \E v \in Workers : Holds(v, b)'
                 /\ stat'[b] = "list" <=> In(m_actorlist'[LayerOf[b]], b)
                 /\ stat'[b] = "close" <=> b \notin m_actorbyid'
                 /\ pending'[b] > 0 => stat'[b] # "free"
      <3>1. LayerOf[b] \in Layers
        BY SchedulerAssumption
      <3>2. stat'[b] = IF b = a THEN "close" ELSE stat[b]
        BY <1>3
      <3>3. CASE b = a
        BY <1>4, <3>1, <3>2, <3>3
      <3>4. CASE b # a
        BY <1>2, <1>4, <3>1, <3>2, <3>4 DEF Places, StatTrue
      <3>5. QED
        BY <3>3, <3>4
    <2>2. QED
      BY <2>1, SchedulerAssumption DEF StatTrue
  <1>8. OneReleaser'
    <2>1. /\ \A w \in Workers : ~Releases(w, a)
          /\ stat[a] # "run" => \A v \in Workers : ~Holds(v, a)
      BY DEF Places, OneReleaser, StatTrue
    <2>2. \A b \in Actors : b # a => (b \in erasing' <=> b \in erasing)
      OBVIOUS
    <2>3. a \in erasing' => \A v \in Workers : ~Holds(v, a)
      BY <2>1 DEF Places, OneReleaser
    <2>4. QED
      BY <1>1, <1>2, <2>1, <2>2, <2>3 DEF Places, OneReleaser
  <1>9. QED
    BY <1>5, <1>6, <1>7, <1>8 DEF Places

LEMMA CloseOrErasePlaces ==
    ASSUME Inv, Places,
           (\E w \in Workers : Close(w)) \/ (\E a \in Actors : Erase(a))
    PROVE  Places'
  <1>1. ASSUME NEW w \in Workers, Close(w) PROVE Places'
    <2> DEFINE a == lpactor[w]
    <2>1. a \in Actors /\ a \in m_actorbyid /\ stat[a] = "run"
      BY <1>1 DEF Close, Inv, BusyWorker, Places, StatTrue, Holds, InHand, AtWork
    <2>2. /\ m_actorbyid' = m_actorbyid \ {a} /\ stat' = [stat EXCEPT ![a] = "close"]
          /\ UNCHANGED <<erasing, pending, m_actorlist, workerVars>>
      BY <1>1 DEF Close, layerVars
    <2> HIDE DEF a
    <2>3. QED
      BY <2>1, <2>2, ErasePlaces
  <1>2. ASSUME NEW a \in Actors, Erase(a) PROVE Places'
    BY <1>2, ErasePlaces DEF Erase
  <1>3. QED
    BY <1>1, <1>2

(* Every other step leaves each actor where it is. *)
LEMMA DispatcherPlaces ==
    ASSUME Inv, Places, NEW l \in Layers,
           \/ LayerWait(l) \/ Pop(l) \/ PopNothing(l) \/ PoolWait(l) \/ TakeNothing(l)
    PROVE  Places'
  <1>1. UNCHANGED <<stat, m_actorlist, pending, eraseVars, workerVars>>
    BY DEF LayerWait, Pop, PopNothing, PoolWait, TakeNothing, actorVars, layerVars
  <1>2. \A a \in Actors, w \in Workers :
            /\ Assigned(w, a)' <=> Assigned(w, a)
            /\ InHand(w, a)' <=> InHand(w, a)
            /\ Releases(w, a)' <=> Releases(w, a)
    BY <1>1 DEF Assigned, InHand, Releases, workerVars
  <1>3. QED
    BY <1>1, <1>2, SamePlaces DEF eraseVars

LEMMA ReleaseErasedPlaces ==
    ASSUME Inv, Places, NEW a \in Actors, ReleaseErased(a)
    PROVE  Places'
  <1>1. /\ UNCHANGED <<stat, m_actorlist, m_actorbyid, workerVars>>
        /\ erasing' \subseteq erasing /\ pending' = [pending EXCEPT ![a] = 0]
    BY DEF ReleaseErased, layerVars
  <1>2. \A b \in Actors, w \in Workers :
            /\ Assigned(w, b)' <=> Assigned(w, b)
            /\ InHand(w, b)' <=> InHand(w, b)
            /\ Releases(w, b)' <=> Releases(w, b)
    BY <1>1 DEF Assigned, InHand, Releases, workerVars
  <1>3. \A b \in Actors : pending'[b] > 0 => pending[b] > 0
    BY <1>1 DEF Inv, TypeOK
  <1>4. QED
    BY <1>1, <1>2, <1>3, SamePlaces

LEMMA WorkerKeepsPlaces ==
    ASSUME Inv, Places, NEW w \in Workers,
           \/ HandleBatch(w) \/ GiveBack(w) \/ Peek(w) \/ PostLayer(w) \/ Release(w)
           \/ StartSuspend(w) \/ AskAgain(w)
    PROVE  Places'
  <1> USE DEF AtWork
  <1>1. UNCHANGED <<stat, m_actorlist, nthread_sem, m_actorbyid, erasing>>
    BY DEF HandleBatch, GiveBack, Peek, PostLayer, Release, StartSuspend, AskAgain, Ask,
           actorVars, layerVars, eraseVars
  <1>2. PICK p \in {"giveback", "return", "post", "release", "wait", "asking", "holding"} :
            wpc' = [wpc EXCEPT ![w] = p]
    BY DEF HandleBatch, GiveBack, Peek, PostLayer, PushEnds, Release, StartSuspend,
           AskAgain, Ask
  <1>3. /\ p \in AtWork \cup {"return"} <=> wpc[w] \in AtWork
        /\ wpc[w] # "return"
        /\ p \in AtWork \cup {"return", "post"} => lpactor' = lpactor
    <2>1. p = wpc'[w]
      BY <1>2 DEF Inv, TypeOK
    <2>2. CASE HandleBatch(w) \/ GiveBack(w) \/ Peek(w)
      BY <1>2, <2>1, <2>2 DEF HandleBatch, GiveBack, Peek, Inv, TypeOK
    <2>3. CASE PostLayer(w) \/ Release(w)
      BY <1>2, <2>1, <2>3 DEF PostLayer, PushEnds, Release, Inv, TypeOK
    <2>4. CASE StartSuspend(w) \/ AskAgain(w)
      BY <1>2, <2>1, <2>4 DEF StartSuspend, AskAgain, Ask, Inv, TypeOK
    <2>5. QED
      BY <2>2, <2>3, <2>4
  <1>4. \A a \in Actors : pending'[a] > 0 => pending[a] > 0 \/ stat[a] # "free"
    <2>1. CASE pending' = pending
      BY <2>1
    <2>2. CASE HandleBatch(w)
      <3>1. wpc[w] = "run" /\ lpactor[w] \in Actors
        BY <2>2 DEF HandleBatch, Inv, BusyWorker
      <3>2. stat[lpactor[w]] \in {"run", "close"}
        BY <3>1 DEF Places, StatTrue, Holds, InHand
      <3>3. \A a \in Actors : a # lpactor[w] => pending'[a] = pending[a]
        BY <2>2 DEF HandleBatch, Inv, TypeOK
      <3>4. QED
        BY <3>2, <3>3
    <2>3. CASE Release(w)
      <3>1. pending' = [pending EXCEPT ![lpactor[w]] = 0]
        BY <2>3 DEF Release
      <3>2. QED
        BY <3>1 DEF Inv, TypeOK
    <2>4. QED
      BY <2>1, <2>2, <2>3 DEF GiveBack, Peek, PostLayer, StartSuspend, AskAgain, Ask, actorVars
  <1>5. \A v \in Workers : wpc'[v] = IF v = w THEN p ELSE wpc[v]
    BY <1>2 DEF Inv, TypeOK
  <1>6. \A v \in Workers : v # w => lpactor'[v] = lpactor[v] /\ ldefcallback'[v] = ldefcallback[v]
    BY DEF HandleBatch, GiveBack, Peek, PostLayer, PushEnds, Release, StartSuspend,
           AskAgain, Ask, Inv, TypeOK
  <1>7. \A v \in Workers : nthread_sem[v] > 0 => m_actor'[v] = m_actor[v]
    <2>1. CASE HandleBatch(w)
      BY <2>1 DEF HandleBatch, Inv, TypeOK, LentOnce
    <2>2. CASE ~HandleBatch(w)
      BY <2>2 DEF GiveBack, Peek, PostLayer, Release, StartSuspend, AskAgain, Ask
    <2>3. QED
      BY <2>1, <2>2
  <1>8. \A a \in Actors : Releases(w, a)' => Releases(w, a)
    <2>1. CASE Release(w)
      BY <2>1 DEF Release, Releases, Inv, TypeOK
    <2>2. CASE PostLayer(w)
      BY <2>2 DEF PostLayer, PushEnds, Releases, Inv, TypeOK
    <2>3. CASE ~Release(w) /\ ~PostLayer(w)
      BY <2>3 DEF HandleBatch, GiveBack, Peek, StartSuspend, AskAgain, Ask, Releases
    <2>4. QED
      BY <2>1, <2>2, <2>3
  <1>9. \A a \in Actors, v \in Workers :
            /\ Assigned(v, a)' <=> Assigned(v, a)
            /\ InHand(v, a)' <=> InHand(v, a)
            /\ Releases(v, a)' => Releases(v, a)
    <2>1. \A a \in Actors, v \in Workers : Assigned(v, a)' <=> Assigned(v, a)
      BY <1>1, <1>7 DEF Assigned
    <2>2. \A a \in Actors : InHand(w, a)' <=> InHand(w, a)
      BY <1>2, <1>3, <1>5 DEF InHand
    <2>3. \A a \in Actors, v \in Workers : v # w =>
              (InHand(v, a)' <=> InHand(v, a)) /\ (Releases(v, a)' => Releases(v, a))
      BY <1>5, <1>6 DEF InHand, Releases
    <2>4. QED
      BY <1>8, <2>1, <2>2, <2>3
  <1>10. QED
    BY <1>1, <1>4, <1>9, SamePlaces

LEMMA PlacesInductive == Inv /\ Places /\ [Next]_vars => Places'
  <1> SUFFICES ASSUME Inv, Places, [Next]_vars PROVE Places'
    OBVIOUS
  <1>1. ASSUME NEW a \in Actors, Post(a) \/ Erase(a) \/ ReleaseErased(a) PROVE Places'
    BY <1>1, PostPlaces, CloseOrErasePlaces, ReleaseErasedPlaces
  <1>2. ASSUME NEW l \in Layers, Dispatcher(l) PROVE Places'
    BY <1>2, DispatcherPlaces, TakeActorPlaces DEF Dispatcher
  <1>3. ASSUME NEW w \in Workers, Worker(w) \/ Close(w) \/ StartSuspend(w) PROVE Places'
    BY <1>3, WorkerTakePlaces, ReturnActorPlaces, ReturnErasedPlaces, WorkerKeepsPlaces,
       CloseOrErasePlaces DEF Worker
  <1>4. CASE UNCHANGED vars
    <2>1. \A a \in Actors, w \in Workers :
              /\ Assigned(w, a)' <=> Assigned(w, a)
              /\ InHand(w, a)' <=> InHand(w, a)
              /\ Releases(w, a)' <=> Releases(w, a)
      BY <1>4 DEF Assigned, InHand, Releases, vars, workerVars
    <2>2. QED
      BY <1>4, <2>1, SamePlaces DEF vars, actorVars, layerVars, eraseVars
  <1>5. QED
    BY <1>1, <1>2, <1>3, <1>4 DEF Next

(* An actor is in one place: on one worker, once in its layer's ready      *)
(* queue, or free with nothing to do; none is dropped and none run twice   *)
(* at a time, although a worker is lent again before it has returned its   *)
(* last actor; and whoever releases an erased actor has it to itself.      *)
THEOREM ActorStaysInOnePlace == Spec => []ActorInOnePlace
  <1>1. Init /\ [][Next]_vars /\ []Inv => []Places
    BY InitPlaces, PlacesInductive, PTL
  <1>2. QED
    BY <1>1, PlacesAre, Invariance, PTL DEF Spec
-----------------------------------------------------------------------------
(* Nobody sleeps on work.  Each half of DispatcherAwake is kept by every   *)
(* step, given Inv.                                                        *)

(* Worker w is about to give the dispatcher of l a token, whatever its     *)
(* unlocked look returns.                                                  *)
Wakes(w, l) ==
    /\ wpc[w] \in {"peek", "post"} /\ LayerOf[lpactor[w]] = l
    /\ wpc[w] = "post" => ~LooksEmpty(w)

LayersWoken ==
    \A l \in Layers :
        dpc[l] = "wait" /\ layer_sem[l] = 0 /\ m_actorlist[l] # <<>> =>
            \E w \in Workers : Wakes(w, l)

Popping == {l \in Layers : dpc[l] = "pop"}

TokensEnough ==
    ~m_suspend => m_threadcount - m_workthreadpos <= pool_sem + Cardinality(Popping)

Awake == LayersWoken /\ TokensEnough

LEMMA AwakeIs == DispatcherAwake <=> Awake
  BY DEF DispatcherAwake, Awake, LayersWoken, TokensEnough, Wakes, Popping

LEMMA PoppingFinite ==
    /\ IsFiniteSet(Popping) /\ Cardinality(Popping) \in Nat
    /\ IsFiniteSet(Popping') /\ Cardinality(Popping') \in Nat
  <1>1. Popping \in SUBSET Layers /\ Popping' \in SUBSET Layers
    BY DEF Popping
  <1>2. IsFiniteSet(Popping) /\ IsFiniteSet(Popping')
    BY <1>1, FS_Subset, SchedulerAssumption
  <1>3. QED
    BY <1>2, FS_CardinalityType

(* A dispatcher that moves changes the count by one at most. *)
LEMMA PoppingStep ==
    ASSUME Inv, NEW l \in Layers, NEW p, dpc' = [dpc EXCEPT ![l] = p]
    PROVE  /\ dpc[l] # "pop" /\ p # "pop" => Cardinality(Popping') = Cardinality(Popping)
           /\ dpc[l] # "pop" /\ p = "pop" => Cardinality(Popping') = Cardinality(Popping) + 1
           /\ dpc[l] = "pop" /\ p # "pop" => Cardinality(Popping') = Cardinality(Popping) - 1
  <1>1. \A k \in Layers : dpc'[k] = IF k = l THEN p ELSE dpc[k]
    BY DEF Inv, TypeOK
  <1>2. l \in Popping <=> dpc[l] = "pop"
    BY DEF Popping
  <1>3. ASSUME dpc[l] # "pop", p # "pop" PROVE Popping' = Popping
    BY <1>1, <1>3 DEF Popping
  <1>4. ASSUME dpc[l] # "pop", p = "pop" PROVE Popping' = Popping \cup {l}
    BY <1>1, <1>4 DEF Popping
  <1>5. ASSUME dpc[l] = "pop", p # "pop" PROVE Popping' = Popping \ {l}
    BY <1>1, <1>5 DEF Popping
  <1>6. /\ Cardinality(Popping \cup {l})
                = IF l \in Popping THEN Cardinality(Popping) ELSE Cardinality(Popping) + 1
        /\ Cardinality(Popping \ {l})
                = IF l \in Popping THEN Cardinality(Popping) - 1 ELSE Cardinality(Popping)
    BY PoppingFinite, FS_AddElement, FS_RemoveElement
  <1>7. QED
    BY <1>2, <1>3, <1>4, <1>5, <1>6

LEMMA InitAwake == Init => Awake
  <1> SUFFICES ASSUME Init PROVE Awake
    OBVIOUS
  <1>1. LayersWoken
    BY DEF Init, LayersWoken
  <1>2. TokensEnough
    BY PoppingFinite, ThreadAssumption DEF Init, PoolInit, TokensEnough
  <1>3. QED
    BY <1>1, <1>2 DEF Awake

(* The pool's tokens: a step that takes one leaves its dispatcher about to *)
(* look again, and a worker given back brings one.                         *)
LEMMA TokensKept ==
    ASSUME Inv, TokensEnough, [Next]_vars
    PROVE  TokensEnough'
  <1> USE ThreadAssumption
  <1>1. /\ m_workthreadpos \in 0 .. m_threadcount /\ m_workthreadpos' \in Int
        /\ pool_sem \in Nat /\ m_threadcount \in Nat
        /\ Cardinality(Popping) \in Nat /\ Cardinality(Popping') \in Nat
    <2>1. Inv'
      BY InvInductive
    <2>2. QED
      BY <2>1, PoppingFinite DEF Inv, TypeOK, PoolTypeOK
  <1>2. ASSUME UNCHANGED <<poolVars, dpc>> PROVE TokensEnough'
    <2>1. Popping' = Popping
      BY <1>2 DEF Popping
    <2>2. QED
      BY <1>2, <2>1 DEF TokensEnough, poolVars
  <1>3. ASSUME NEW a \in Actors, Post(a) \/ Erase(a) \/ ReleaseErased(a) PROVE TokensEnough'
    BY <1>2, <1>3 DEF Post, Erase, ReleaseErased, dispatchVars
  <1>4. ASSUME NEW l \in Layers, LayerWait(l) PROVE TokensEnough'
    <2>1. Cardinality(Popping') = Cardinality(Popping) + 1
      BY <1>4, PoppingStep DEF LayerWait
    <2>2. UNCHANGED poolVars
      BY <1>4 DEF LayerWait
    <2>3. QED
      BY <1>1, <2>1, <2>2 DEF TokensEnough, poolVars
  <1>5. ASSUME NEW l \in Layers, Pop(l) PROVE TokensEnough'
    <2>1. Cardinality(Popping') = Cardinality(Popping) - 1
      <3>1. PICK p \in {"take"} : dpc[l] = "pop" /\ dpc' = [dpc EXCEPT ![l] = p]
        BY <1>5 DEF Pop
      <3>2. QED
        BY <3>1, PoppingStep
    <2>2. m_workthreadpos' = m_workthreadpos + 1 /\ UNCHANGED <<pool_sem, m_suspend>>
      BY <1>5 DEF Pop, Lend
    <2>3. QED
      BY <1>1, <2>1, <2>2 DEF TokensEnough
  <1>6. ASSUME NEW l \in Layers, PopNothing(l) PROVE TokensEnough'
    <2>1. m_suspend \/ m_workthreadpos = m_threadcount
      BY <1>6 DEF PopNothing, CanLend
    <2>2. UNCHANGED poolVars
      BY <1>6 DEF PopNothing
    <2>3. QED
      BY <1>1, <2>1, <2>2 DEF TokensEnough, poolVars
  <1>7. ASSUME NEW l \in Layers, PoolWait(l) PROVE TokensEnough'
    <2>1. Cardinality(Popping') = Cardinality(Popping) + 1
      BY <1>7, PoppingStep DEF PoolWait
    <2>2. pool_sem' = pool_sem - 1 /\ UNCHANGED <<m_workthreadpos, m_suspend>>
      BY <1>7 DEF PoolWait, PoolSemWait
    <2>3. QED
      BY <1>1, <2>1, <2>2 DEF TokensEnough
  <1>8. ASSUME NEW l \in Layers, TakeNothing(l) PROVE TokensEnough'
    <2>1. Cardinality(Popping') = Cardinality(Popping)
      <3>1. PICK p \in {"wait"} : dpc[l] = "take" /\ dpc' = [dpc EXCEPT ![l] = p]
        BY <1>8 DEF TakeNothing
      <3>2. QED
        BY <3>1, PoppingStep
    <2>2. /\ m_workthreadpos' = m_workthreadpos - 1 /\ pool_sem' = pool_sem + 1
          /\ m_suspend' = m_suspend
      BY <1>8 DEF TakeNothing, push_workthreads
    <2>3. QED
      BY <1>1, <2>1, <2>2 DEF TokensEnough
  <1>9. ASSUME NEW l \in Layers, TakeActor(l) PROVE TokensEnough'
    <2>1. Cardinality(Popping') = Cardinality(Popping) + 1
      BY <1>9, PoppingStep DEF TakeActor
    <2>2. UNCHANGED poolVars
      BY <1>9 DEF TakeActor
    <2>3. QED
      BY <1>1, <2>1, <2>2 DEF TokensEnough, poolVars
  <1>10. ASSUME NEW w \in Workers, GiveBack(w) PROVE TokensEnough'
    <2>1. Popping' = Popping
      BY <1>10 DEF GiveBack, dispatchVars, Popping
    <2>2. /\ m_workthreadpos' = m_workthreadpos - 1 /\ pool_sem' = pool_sem + 1
          /\ m_suspend' = m_suspend
      BY <1>10 DEF GiveBack, push_workthreads
    <2>3. QED
      BY <1>1, <2>1, <2>2 DEF TokensEnough
  <1>11. ASSUME NEW w \in Workers,
                \/ WorkerTake(w) \/ HandleBatch(w) \/ ReturnActor(w) \/ ReturnErased(w)
                \/ Peek(w) \/ PostLayer(w) \/ Release(w) \/ Close(w)
         PROVE  TokensEnough'
    BY <1>2, <1>11 DEF WorkerTake, HandleBatch, ReturnActor, ReturnErased, Peek, PostLayer,
                       Release, Close, dispatchVars
  <1>12. ASSUME NEW w \in Workers, StartSuspend(w) \/ AskAgain(w) PROVE TokensEnough'
    BY <1>12 DEF StartSuspend, AskAgain, Ask, AskSuspend, TokensEnough
  <1>13. CASE UNCHANGED vars
    BY <1>2, <1>13 DEF vars, dispatchVars
  <1>14. QED
    <2>1. ASSUME NEW l \in Layers, Dispatcher(l) PROVE TokensEnough'
      BY <2>1, <1>4, <1>5, <1>6, <1>7, <1>8, <1>9 DEF Dispatcher
    <2>2. ASSUME NEW w \in Workers, Worker(w) \/ Close(w) \/ StartSuspend(w) PROVE TokensEnough'
      BY <2>2, <1>10, <1>11, <1>12 DEF Worker
    <2>3. QED
      BY <1>3, <1>13, <2>1, <2>2 DEF Next

(* Nothing that a sleeping dispatcher of l waits for has changed. *)
LEMMA StillWoken ==
    ASSUME NEW l \in Layers, NEW w \in Workers, Wakes(w, l),
           wpc'[w] = wpc[w], lpactor'[w] = lpactor[w], seen'[w] = seen[w],
           m_actorlist'[l] # <<>>
    PROVE  Wakes(w, l)'
  BY DEF Wakes, LooksEmpty

(* The ready queues: a step that adds to one tells its dispatcher, or is   *)
(* made by a worker that is about to.                                      *)
LEMMA LayersKept ==
    ASSUME Inv, LayersWoken, [Next]_vars
    PROVE  LayersWoken'
  <1> USE SchedulerAssumption
  <1> SUFFICES ASSUME NEW l \in Layers,
                      dpc'[l] = "wait", layer_sem'[l] = 0, m_actorlist'[l] # <<>>
               PROVE  \E w \in Workers : Wakes(w, l)'
    BY DEF LayersWoken
  <1>1. ASSUME dpc[l] = "wait", layer_sem[l] = 0, m_actorlist[l] # <<>>
        PROVE  \E w \in Workers : Wakes(w, l)
    BY <1>1 DEF LayersWoken
  <1>2. ASSUME UNCHANGED <<layer_sem, m_actorlist, wpc, lpactor, seen>>, dpc[l] = "wait"
        PROVE  \E w \in Workers : Wakes(w, l)'
    BY <1>1, <1>2, StillWoken
  <1>3. ASSUME NEW a \in Actors, Post(a) PROVE \E w \in Workers : Wakes(w, l)'
    <2>1. UNCHANGED <<dpc, wpc, lpactor, seen>>
      BY <1>3 DEF Post, dispatchVars, workerVars
    <2>2. layer_sem[l] = 0 /\ m_actorlist'[l] = m_actorlist[l]
      BY <1>3 DEF Post, Inv, TypeOK
    <2>3. QED
      BY <1>1, <2>1, <2>2, StillWoken
  <1>4. ASSUME NEW k \in Layers, TakeActor(k) PROVE \E w \in Workers : Wakes(w, l)'
    <2>1. k # l
      BY <1>4 DEF TakeActor, Inv, TypeOK
    <2>2. UNCHANGED <<layer_sem, wpc, lpactor>> /\ m_actorlist'[l] = m_actorlist[l]
      BY <1>4, <2>1 DEF TakeActor
    <2>3. dpc[l] = "wait"
      BY <1>4, <2>1 DEF TakeActor, Inv, TypeOK
    <2>4. PICK w \in Workers : Wakes(w, l)
      BY <1>1, <2>2, <2>3
    <2>5. seen'[w] = seen[w]
      BY <1>4, <2>1, <2>4 DEF TakeActor, Wakes
    <2>6. QED
      BY <2>2, <2>4, <2>5, StillWoken
  <1>5. ASSUME NEW k \in Layers, \/ LayerWait(k) \/ Pop(k) \/ PopNothing(k) \/ PoolWait(k)
        PROVE  \E w \in Workers : Wakes(w, l)'
    <2>1. k # l
      BY <1>5 DEF LayerWait, Pop, PopNothing, PoolWait, Inv, TypeOK
    <2>2. UNCHANGED <<m_actorlist, wpc, lpactor, seen>>
      BY <1>5 DEF LayerWait, Pop, PopNothing, PoolWait, layerVars, workerVars
    <2>3. dpc[l] = "wait" /\ layer_sem[l] = 0
      BY <1>5, <2>1 DEF LayerWait, Pop, PopNothing, PoolWait, layerVars, Inv, TypeOK
    <2>4. QED
      BY <1>1, <2>2, <2>3, StillWoken
  <1>6. ASSUME NEW k \in Layers, TakeNothing(k) PROVE \E w \in Workers : Wakes(w, l)'
    <2>1. UNCHANGED <<layer_sem, m_actorlist, wpc, lpactor, seen>>
      BY <1>6 DEF TakeNothing, layerVars, workerVars
    <2>2. k # l
      BY <1>6, <2>1 DEF TakeNothing
    <2>3. dpc[l] = "wait"
      BY <1>6, <2>2 DEF TakeNothing, Inv, TypeOK
    <2>4. QED
      BY <1>2, <2>1, <2>3
  <1>7. ASSUME NEW v \in Workers,
               \/ WorkerTake(v) \/ HandleBatch(v) \/ GiveBack(v) \/ Release(v)
               \/ StartSuspend(v) \/ AskAgain(v)
        PROVE  \E w \in Workers : Wakes(w, l)'
    <2>1. UNCHANGED <<dpc, layer_sem, m_actorlist, seen>>
      BY <1>7 DEF WorkerTake, HandleBatch, GiveBack, Release, StartSuspend, AskAgain, Ask,
                  layerVars, dispatchVars
    <2>2. PICK w \in Workers : Wakes(w, l)
      BY <1>1, <2>1
    <2>3. wpc[v] \notin {"peek", "post"}
      BY <1>7 DEF WorkerTake, HandleBatch, GiveBack, Release, StartSuspend, AskAgain
    <2>4. w # v
      BY <2>2, <2>3 DEF Wakes
    <2>5. wpc'[w] = wpc[w] /\ lpactor'[w] = lpactor[w]
      BY <1>7, <2>4 DEF WorkerTake, HandleBatch, GiveBack, Release, StartSuspend, AskAgain,
                        Ask, Inv, TypeOK
    <2>6. QED
      BY <2>1, <2>2, <2>5, StillWoken
  <1>8. ASSUME NEW v \in Workers, ReturnActor(v) PROVE \E w \in Workers : Wakes(w, l)'
    <2>1. /\ UNCHANGED <<dpc, layer_sem, lpactor, seen>>
          /\ wpc[v] = "return" /\ wpc'[v] = "peek"
          /\ \A w \in Workers : w # v => wpc'[w] = wpc[w]
      BY <1>8 DEF ReturnActor, dispatchVars, Inv, TypeOK
    <2>2. CASE LayerOf[lpactor[v]] = l
      BY <2>1, <2>2 DEF Wakes
    <2>3. CASE LayerOf[lpactor[v]] # l
      <3>1. m_actorlist'[l] = m_actorlist[l]
        BY <1>8, <2>3 DEF ReturnActor, Inv, TypeOK
      <3>2. PICK w \in Workers : Wakes(w, l)
        BY <1>1, <2>1, <3>1
      <3>3. w # v
        BY <2>1, <3>2 DEF Wakes
      <3>4. QED
        BY <2>1, <3>1, <3>2, <3>3, StillWoken
    <2>4. QED
      BY <2>2, <2>3
  <1>9. ASSUME NEW v \in Workers, Peek(v) PROVE \E w \in Workers : Wakes(w, l)'
    <2>1. /\ UNCHANGED <<dpc, layer_sem, lpactor, m_actorlist>>
          /\ wpc[v] = "peek" /\ wpc'[v] = "post"
          /\ \A w \in Workers : w # v => wpc'[w] = wpc[w] /\ seen'[w] = seen[w]
      BY <1>9 DEF Peek, dispatchVars, layerVars, Inv, TypeOK
    <2>2. CASE LayerOf[lpactor[v]] = l
      <3>1. Len(m_actorlist[l]) # 0
        BY <2>1 DEF Inv, TypeOK
      <3>2. seen'[v] = [len |-> Len(m_actorlist[l]), pops |-> 0]
        BY <1>9, <2>2 DEF Peek, Inv, TypeOK
      <3>3. Wakes(v, l)'
        BY <2>1, <2>2, <3>1, <3>2 DEF Wakes, LooksEmpty
      <3>4. QED
        BY <3>3
    <2>3. CASE LayerOf[lpactor[v]] # l
      <3>1. PICK w \in Workers : Wakes(w, l)
        BY <1>1, <2>1
      <3>2. w # v
        BY <2>3, <3>1 DEF Wakes
      <3>3. QED
        BY <2>1, <3>1, <3>2, StillWoken
    <2>4. QED
      BY <2>2, <2>3
  <1>10. ASSUME NEW v \in Workers, PostLayer(v) PROVE \E w \in Workers : Wakes(w, l)'
    <2>1. /\ UNCHANGED <<dpc, m_actorlist>>
          /\ \A w \in Workers : w # v => /\ wpc'[w] = wpc[w] /\ seen'[w] = seen[w]
                                         /\ lpactor'[w] = lpactor[w]
      BY <1>10 DEF PostLayer, PushEnds, dispatchVars, Inv, TypeOK
    <2>2. /\ layer_sem[l] = 0
          /\ LayerOf[lpactor[v]] = l => LooksEmpty(v)
      <3>1. layer_sem[l] \in Nat
        BY DEF Inv, TypeOK
      <3>2. CASE layer_sem' = layer_sem
        <4>1. LayerOf[lpactor[v]] = l => LooksEmpty(v)
          BY <1>10, <3>1, <3>2 DEF PostLayer, Inv, TypeOK
        <4>2. QED
          BY <3>2, <4>1
      <3>3. CASE layer_sem' = [layer_sem EXCEPT ![LayerOf[lpactor[v]]] = @ + 1]
        <4>1. LayerOf[lpactor[v]] # l
          BY <3>1, <3>3 DEF Inv, TypeOK
        <4>2. QED
          BY <3>3, <4>1 DEF Inv, TypeOK
      <3>4. QED
        BY <1>10, <3>2, <3>3 DEF PostLayer
    <2>3. PICK w \in Workers : Wakes(w, l)
      BY <1>1, <2>1, <2>2
    <2>4. w # v
      BY <1>10, <2>2, <2>3 DEF Wakes, PostLayer
    <2>5. QED
      BY <2>1, <2>3, <2>4, StillWoken
  <1>11. ASSUME NEW v \in Workers, ReturnErased(v) PROVE \E w \in Workers : Wakes(w, l)'
    <2>1. /\ UNCHANGED <<dpc, layer_sem, m_actorlist, lpactor, seen>>
          /\ wpc[v] = "return"
          /\ \A w \in Workers : w # v => wpc'[w] = wpc[w]
      BY <1>11 DEF ReturnErased, layerVars, dispatchVars, Inv, TypeOK
    <2>2. PICK w \in Workers : Wakes(w, l)
      BY <1>1, <2>1
    <2>3. w # v
      BY <2>1, <2>2 DEF Wakes
    <2>4. QED
      BY <2>1, <2>2, <2>3, StillWoken
  <1>12. ASSUME \/ \E v \in Workers : Close(v)
                \/ \E a \in Actors : Erase(a) \/ ReleaseErased(a)
         PROVE  \E w \in Workers : Wakes(w, l)'
    <2>1. UNCHANGED <<dpc, layer_sem, wpc, lpactor, seen>>
      BY <1>12 DEF Close, Erase, ReleaseErased, layerVars, dispatchVars, workerVars
    <2>2. m_actorlist[l] # <<>>
      <3>1. CASE m_actorlist' = m_actorlist
        BY <3>1
      <3>2. ASSUME NEW a \in Actors, NEW i \in DOMAIN m_actorlist[LayerOf[a]],
                   m_actorlist' = [m_actorlist EXCEPT ![LayerOf[a]] = Without(@, i)]
            PROVE  m_actorlist[l] # <<>>
        <4>1. CASE l = LayerOf[a]
          BY <3>2, <4>1
        <4>2. CASE l # LayerOf[a]
          BY <3>2, <4>2 DEF Inv, TypeOK
        <4>3. QED
          BY <4>1, <4>2
      <3>3. QED
        BY <1>12, <3>1, <3>2 DEF Close, Erase, ReleaseErased, layerVars
    <2>3. QED
      BY <1>1, <2>1, <2>2, StillWoken
  <1>13. CASE UNCHANGED vars
    BY <1>2, <1>13 DEF vars, layerVars, dispatchVars, workerVars
  <1>14. QED
    <2>1. ASSUME NEW k \in Layers, Dispatcher(k) PROVE \E w \in Workers : Wakes(w, l)'
      BY <2>1, <1>4, <1>5, <1>6 DEF Dispatcher
    <2>2. ASSUME NEW w \in Workers, Worker(w) \/ StartSuspend(w)
          PROVE  \E v \in Workers : Wakes(v, l)'
      BY <2>2, <1>7, <1>8, <1>9, <1>10, <1>11 DEF Worker
    <2>3. QED
      BY <1>3, <1>12, <1>13, <2>1, <2>2 DEF Next

LEMMA AwakeInductive == Inv /\ Awake /\ [Next]_vars => Awake'
  BY TokensKept, LayersKept DEF Awake

(* A dispatcher that sleeps with no token has nothing to do or is about to *)
(* be woken, whatever the unlocked look at the deque returns; and tokens   *)
(* of the pool never fall behind its workers but for dispatchers about to  *)
(* look again.                                                             *)
THEOREM DispatchersStayAwake == Spec => []DispatcherAwake
  <1>1. Init /\ [][Next]_vars /\ []Inv => []Awake
    BY InitAwake, AwakeInductive, PTL
  <1>2. QED
    BY <1>1, AwakeIs, Invariance, PTL DEF Spec
=============================================================================
