------------------------- MODULE ActorErase_proofs -------------------------
(***************************************************************************)
(* What holds of erasing an actor in every environment: any objects of the *)
(* guid, overlapping or not, erased in any state by their own handler, by  *)
(* a thread outside or by both, with any number of workers and messages.   *)
(***************************************************************************)
EXTENDS ActorErase, TLAPS

In(s, x) == \E n \in DOMAIN s : s[n] = x
Once(s, x) == \A m, n \in DOMAIN s : s[m] = x /\ s[n] = x => m = n

RouteMsg == {AddMsg(i) : i \in Inst} \cup {DelMsg}

(* A worker has an object exactly while it is not waiting. *)
HoldsWhenBusy == \A w \in Workers : wpc[w] # "wait" <=> lpactor[w] # None

(* An object is held by one worker or queued once, never both. *)
OnePlace ==
    /\ \A v, w \in Workers : lpactor[v] = lpactor[w] /\ lpactor[v] # None => v = w
    /\ \A i \in Inst : Once(m_actorlist, i) /\ ~(Held(i) /\ Queued(i))

(* The state the layer reads of the object it has registered is true of it, *)
(* so erase_actor takes the branch that fits.                              *)
RegisteredStat ==
    \A i \in Inst : m_actorbyid = i =>
        /\ stat[i] \in {"init", "free", "list", "run"}
        /\ stat[i] # "run" => ~Held(i)
        /\ stat[i] # "list" => ~Queued(i)

(* The route actor has not handled the object's registration yet. *)
Unannounced(i) == adding = i \/ In(route, AddMsg(i))

(* Until it has, the object has never been run, queued or torn down; it    *)
(* handles the registration once.                                          *)
UnannouncedUntouched ==
    \A i \in Inst :
        /\ Unannounced(i) =>
            stat[i] \in {"init", "close"} /\ ~Held(i) /\ ~Queued(i) /\ tearing[i] = "no"
        /\ Once(route, AddMsg(i))
        /\ ~(adding = i /\ In(route, AddMsg(i)))

(* An object not yet added is nowhere. *)
NewUntouched ==
    \A i \in Inst : stat[i] = "new" =>
        ~Held(i) /\ ~Queued(i) /\ tearing[i] = "no" /\ ~Unannounced(i)

Places ==
    /\ OnePlace /\ RegisteredStat /\ UnannouncedUntouched /\ NewUntouched
    /\ TeardownAlone

Inv == TypeOK /\ HoldsWhenBusy /\ Places
-----------------------------------------------------------------------------
(* What Append and Tail do to membership and to being there once. *)
LEMMA AppendIn ==
    ASSUME NEW S, NEW s \in Seq(S), NEW a \in S, NEW x
    PROVE  In(Append(s, a), x) <=> In(s, x) \/ x = a
  <1>1. /\ Len(Append(s, a)) = Len(s) + 1 /\ Len(s) \in Nat
        /\ DOMAIN s = 1..Len(s) /\ DOMAIN Append(s, a) = 1..(Len(s) + 1)
        /\ \A n \in 1..Len(s) : Append(s, a)[n] = s[n]
        /\ Append(s, a)[Len(s) + 1] = a
    OBVIOUS
  <1>2. ASSUME In(s, x) PROVE In(Append(s, a), x)
    <2>1. PICK n \in 1..Len(s) : s[n] = x  BY <1>1, <1>2 DEF In
    <2>2. n \in 1..(Len(s) + 1)  BY <1>1
    <2> QED  BY <1>1, <2>1, <2>2 DEF In
  <1>3. ASSUME x = a PROVE In(Append(s, a), x)
    <2>1. Len(s) + 1 \in 1..(Len(s) + 1)  BY <1>1
    <2> QED  BY <1>1, <1>3, <2>1 DEF In
  <1>4. ASSUME In(Append(s, a), x), x # a PROVE In(s, x)
    <2>1. PICK n \in 1..(Len(s) + 1) : Append(s, a)[n] = x  BY <1>1, <1>4 DEF In
    <2>2. n \in 1..Len(s)  BY <1>1, <1>4, <2>1
    <2> QED  BY <1>1, <2>1, <2>2 DEF In
  <1> QED  BY <1>2, <1>3, <1>4

LEMMA AppendOnce ==
    ASSUME NEW S, NEW s \in Seq(S), NEW a \in S, NEW x,
           Once(s, x), x = a => ~In(s, x)
    PROVE  Once(Append(s, a), x)
  <1>1. /\ Len(s) \in Nat
        /\ DOMAIN s = 1..Len(s) /\ DOMAIN Append(s, a) = 1..(Len(s) + 1)
        /\ \A n \in 1..Len(s) : Append(s, a)[n] = s[n]
        /\ Append(s, a)[Len(s) + 1] = a
    OBVIOUS
  <1>2. SUFFICES ASSUME NEW m \in 1..(Len(s) + 1), NEW n \in 1..(Len(s) + 1),
                        Append(s, a)[m] = x, Append(s, a)[n] = x
                 PROVE  m = n
    BY <1>1 DEF Once
  <1>3. CASE x = a
    <2>1. \A k \in 1..Len(s) : s[k] # x  BY <1>1, <1>3 DEF In
    <2> QED  BY <1>1, <1>2, <2>1
  <1>4. CASE x # a
    <2>1. m \in 1..Len(s) /\ n \in 1..Len(s)  BY <1>1, <1>2, <1>4
    <2> QED  BY <1>1, <1>2, <2>1 DEF Once
  <1> QED  BY <1>3, <1>4

LEMMA TailIn ==
    ASSUME NEW S, NEW s \in Seq(S), s # <<>>, NEW x
    PROVE  In(s, x) <=> x = Head(s) \/ In(Tail(s), x)
  <1>1. /\ Len(s) \in Nat /\ Len(s) > 0 /\ Head(s) = s[1]
        /\ DOMAIN s = 1..Len(s) /\ DOMAIN Tail(s) = 1..(Len(s) - 1)
        /\ \A n \in 1..(Len(s) - 1) : Tail(s)[n] = s[n + 1]
    OBVIOUS
  <1>2. ASSUME In(s, x), x # Head(s) PROVE In(Tail(s), x)
    <2>1. PICK n \in 1..Len(s) : s[n] = x  BY <1>1, <1>2 DEF In
    <2>2. n - 1 \in 1..(Len(s) - 1) /\ (n - 1) + 1 = n  BY <1>1, <1>2, <2>1
    <2> QED  BY <1>1, <2>1, <2>2 DEF In
  <1>3. ASSUME In(Tail(s), x) PROVE In(s, x)
    <2>1. PICK n \in 1..(Len(s) - 1) : Tail(s)[n] = x  BY <1>1, <1>3 DEF In
    <2>2. n + 1 \in 1..Len(s)  BY <1>1
    <2> QED  BY <1>1, <2>1, <2>2 DEF In
  <1>4. ASSUME x = Head(s) PROVE In(s, x)
    <2>1. 1 \in 1..Len(s)  BY <1>1
    <2> QED  BY <1>1, <1>4, <2>1 DEF In
  <1> QED  BY <1>2, <1>3, <1>4

LEMMA TailOnce ==
    ASSUME NEW S, NEW s \in Seq(S), s # <<>>, NEW x, Once(s, x)
    PROVE  Once(Tail(s), x) /\ (x = Head(s) => ~In(Tail(s), x))
  <1>1. /\ Len(s) \in Nat /\ Len(s) > 0 /\ Head(s) = s[1]
        /\ DOMAIN s = 1..Len(s) /\ DOMAIN Tail(s) = 1..(Len(s) - 1)
        /\ \A n \in 1..(Len(s) - 1) : Tail(s)[n] = s[n + 1]
    OBVIOUS
  <1>2. ASSUME NEW m \in 1..(Len(s) - 1), NEW n \in 1..(Len(s) - 1),
               Tail(s)[m] = x, Tail(s)[n] = x
        PROVE  m = n
    <2>1. m + 1 \in 1..Len(s) /\ n + 1 \in 1..Len(s)  BY <1>1
    <2>2. m + 1 = n + 1  BY <1>1, <1>2, <2>1 DEF Once
    <2> QED  BY <2>2
  <1>3. ASSUME x = Head(s), In(Tail(s), x) PROVE FALSE
    <2>1. PICK n \in 1..(Len(s) - 1) : Tail(s)[n] = x  BY <1>1, <1>3 DEF In
    <2>2. 1 \in 1..Len(s) /\ n + 1 \in 1..Len(s) /\ n + 1 # 1  BY <1>1
    <2> QED  BY <1>1, <1>3, <2>1, <2>2 DEF Once
  <1> QED  BY <1>1, <1>2, <1>3 DEF Once

LEMMA Messages ==
    ASSUME NEW i \in Inst
    PROVE  /\ AddMsg(i).op = "add" /\ AddMsg(i).inst = i /\ AddMsg(i) \in RouteMsg
           /\ DelMsg.op = "del" /\ DelMsg \in RouteMsg /\ AddMsg(i) # DelMsg
           /\ \A j \in Inst : AddMsg(j) = AddMsg(i) => j = i
  BY DEF AddMsg, DelMsg, RouteMsg

LEMMA InitTypeOK == Init => TypeOK
  <1> USE EraseAssumption
  <1> SUFFICES ASSUME Init PROVE TypeOK  OBVIOUS
  <1>1. <<>> \in Seq(Inst) /\ <<>> \in Seq({AddMsg(i) : i \in Inst} \cup {DelMsg})
    OBVIOUS
  <1> QED  BY <1>1 DEF Init, TypeOK

(* What erase_actor's locked part leaves well-typed. *)
LEMMA EraseLockedType ==
    ASSUME TypeOK, NEW callback \in BOOLEAN, EraseLocked(callback)
    PROVE  /\ m_actorbyid' \in Inst \cup {None} /\ m_delactorfun' \in Inst \cup {None}
           /\ stat' \in [Inst -> {"new", "init", "free", "list", "run", "close"}]
           /\ m_actorlist' \in Seq(Inst)
           /\ tearing' \in [Inst -> Inst \cup {"no", "plain"}]
  <1>1. CASE m_actorbyid = None
    BY <1>1 DEF TypeOK, EraseLocked, layerVars
  <1>2. CASE m_actorbyid # None
    <2>1. m_actorbyid \in Inst  BY <1>2 DEF TypeOK
    <2>2. <<>> \in Seq(Inst)  OBVIOUS
    <2> QED  BY <1>2, <2>1, <2>2, Zenon DEF TypeOK, EraseLocked
  <1> QED  BY <1>1, <1>2

LEMMA TypeInductive == TypeOK /\ HoldsWhenBusy /\ [Next]_vars => TypeOK'
  <1> USE EraseAssumption DEF history
  <1> SUFFICES ASSUME TypeOK, HoldsWhenBusy, [Next]_vars PROVE TypeOK'  OBVIOUS
  <1> DEFINE Msgs == {AddMsg(i) : i \in Inst} \cup {DelMsg}
  <1>0. \A w \in Workers : wpc[w] # "wait" => lpactor[w] \in Inst
    BY DEF TypeOK, HoldsWhenBusy
  <1>1. ASSUME NEW i \in Inst, AddActor(i) PROVE TypeOK'
    <2>1. overlapped' \in SUBSET Inst  BY <1>1 DEF AddActor, Live, TypeOK
    <2> QED  BY <1>1, <2>1 DEF AddActor, TypeOK, objectVars, workerVars
  <1>2. CASE AddNotify
    <2>1. adding \in Inst  BY <1>2 DEF AddNotify, TypeOK
    <2>2. AddMsg(adding) \in Msgs  BY <2>1
    <2>3. route' \in Seq(Msgs)  BY <1>2, <2>2 DEF AddNotify, TypeOK
    <2> QED  BY <1>2, <2>3 DEF AddNotify, TypeOK, layerVars, objectVars, workerVars
  <1>3. CASE RouteHandle
    <2>1. route' \in Seq(Msgs)  BY <1>3 DEF RouteHandle, TypeOK
    <2>2. stat' \in [Inst -> {"new", "init", "free", "list", "run", "close"}]
      BY <1>3 DEF RouteHandle, TypeOK
    <2>3. address' \in BOOLEAN  BY <1>3 DEF RouteHandle
    <2> QED  BY <1>3, <2>1, <2>2, <2>3 DEF RouteHandle, TypeOK, layerVars, objectVars, workerVars
  <1>4. CASE Post
    <2>1. m_actorbyid \in Inst  BY <1>4 DEF Post, TypeOK
    <2>2. Append(m_actorlist, m_actorbyid) \in Seq(Inst)  BY <2>1 DEF TypeOK
    <2>3. m_actorlist' \in Seq(Inst)  BY <1>4, <2>2 DEF Post, TypeOK
    <2>4. stat' \in [Inst -> {"new", "init", "free", "list", "run", "close"}]
      <3>1. stat' = stat \/ stat' = [stat EXCEPT ![m_actorbyid] = "list"]
        BY <1>4 DEF Post
      <3> QED  BY <2>1, <3>1 DEF TypeOK
    <2>5. inbox' \in [Inst -> Nat]
      <3>1. inbox \in [Inst -> Nat] /\ inbox' = [inbox EXCEPT ![m_actorbyid] = @ + 1]
        BY <1>4 DEF Post, TypeOK
      <3> QED  BY <2>1, <3>1
    <2>6. posted' \in Nat  BY <1>4 DEF Post, TypeOK
    <2> QED  BY <1>4, <2>3, <2>4, <2>5, <2>6 DEF Post, TypeOK, routeVars, workerVars
  <1>5. ASSUME NEW w \in Workers, Dispatch(w) PROVE TypeOK'
    <2>1. /\ m_actorlist # <<>> /\ m_actorlist' = Tail(m_actorlist)
          /\ m_actorlist \in Seq(Inst)
      BY <1>5 DEF Dispatch, TypeOK
    <2>2. Head(m_actorlist) \in Inst /\ m_actorlist' \in Seq(Inst)  BY <2>1
    <2>3. /\ stat' \in [Inst -> {"new", "init", "free", "list", "run", "close"}]
          /\ lpactor' \in [Workers -> Inst \cup {None}]
          /\ wpc' \in [Workers -> {"wait", "run", "closing", "return"}]
      BY <1>5, <2>2 DEF Dispatch, TypeOK
    <2> QED  BY <1>5, <2>2, <2>3 DEF Dispatch, TypeOK, objectVars, routeVars
  <1>6. ASSUME NEW w \in Workers, Handle(w) PROVE TypeOK'
    <2>1. lpactor[w] \in Inst  BY <1>0, <1>6 DEF Handle
    <2>2. inbox' \in [Inst -> Nat]  BY <1>6, <2>1 DEF Handle, TypeOK
    <2>3. dirty' \in [Inst -> BOOLEAN]  BY <1>6, <2>1 DEF Handle, TypeOK
    <2> QED  BY <1>6, <2>2, <2>3 DEF Handle, TypeOK, layerVars, routeVars, workerVars
  <1>7. ASSUME NEW w \in Workers, EndSlice(w) PROVE TypeOK'
    BY <1>7 DEF EndSlice, TypeOK, layerVars, objectVars, routeVars
  <1>8. ASSUME NEW w \in Workers, ReturnRegistered(w) PROVE TypeOK'
    <2>1. lpactor[w] \in Inst  BY <1>0, <1>8 DEF ReturnRegistered
    <2>2. Append(m_actorlist, lpactor[w]) \in Seq(Inst)  BY <2>1 DEF TypeOK
    <2>3. m_actorlist' \in Seq(Inst)  BY <1>8, <2>2 DEF ReturnRegistered, TypeOK
    <2>4. stat' \in [Inst -> {"new", "init", "free", "list", "run", "close"}]
      BY <1>8, <2>1 DEF ReturnRegistered, TypeOK
    <2>5. /\ lpactor' \in [Workers -> Inst \cup {None}]
          /\ wpc' \in [Workers -> {"wait", "run", "closing", "return"}]
      BY <1>8 DEF ReturnRegistered, TypeOK
    <2> QED  BY <1>8, <2>3, <2>4, <2>5 DEF ReturnRegistered, TypeOK, objectVars, routeVars
  <1>9. ASSUME NEW w \in Workers, ReturnErased(w) PROVE TypeOK'
    <2>1. lpactor[w] \in Inst  BY <1>0, <1>9 DEF ReturnErased
    <2>2. /\ stat' \in [Inst -> {"new", "init", "free", "list", "run", "close"}]
          /\ tearing' \in [Inst -> Inst \cup {"no", "plain"}]
      <3>1. CASE m_delactorfun = None
        BY <1>9, <3>1 DEF ReturnErased, TypeOK
      <3>2. CASE m_delactorfun # None
        <4>1. m_delactorfun \in Inst  BY <3>2 DEF TypeOK
        <4>2. /\ stat' = [stat EXCEPT ![lpactor[w]] = "close"]
              /\ tearing' = [tearing EXCEPT ![lpactor[w]] = m_delactorfun]
          BY <1>9, <3>2 DEF ReturnErased
        <4> QED  BY <2>1, <4>1, <4>2 DEF TypeOK
      <3> QED  BY <3>1, <3>2
    <2>3. /\ lpactor' \in [Workers -> Inst \cup {None}]
          /\ wpc' \in [Workers -> {"wait", "run", "closing", "return"}]
          /\ m_delactorfun' \in Inst \cup {None}
      BY <1>9 DEF ReturnErased, TypeOK
    <2> QED  BY <1>9, <2>2, <2>3 DEF ReturnErased, TypeOK, objectVars, routeVars
  <1>10. ASSUME NEW w \in Workers, CloseNotify(w) PROVE TypeOK'
    <2>1. lpactor[w] \in Inst  BY <1>0, <1>10 DEF CloseNotify
    <2>2. inbox' \in [Inst -> Nat]  BY <1>10, <2>1 DEF CloseNotify, TypeOK
    <2>3. route' \in Seq(Msgs)  BY <1>10 DEF CloseNotify, NotifyErase, TypeOK
    <2>4. wpc' \in [Workers -> {"wait", "run", "closing", "return"}]
      BY <1>10 DEF CloseNotify, TypeOK
    <2> QED  BY <1>10, <2>2, <2>3, <2>4 DEF CloseNotify, NotifyErase, TypeOK, layerVars
  <1>11. ASSUME NEW w \in Workers, CloseErase(w) PROVE TypeOK'
    <2>1. EraseLocked(FALSE)  BY <1>11 DEF CloseErase
    <2>2. /\ wpc' \in [Workers -> {"wait", "run", "closing", "return"}]
          /\ lpactor' \in [Workers -> Inst \cup {None}]
      BY <1>11 DEF CloseErase, TypeOK
    <2>3. UNCHANGED <<objectVars, routeVars, epc, history, posted>>
      BY <1>11 DEF CloseErase
    <2>4. /\ m_actorbyid' \in Inst \cup {None} /\ m_delactorfun' \in Inst \cup {None}
          /\ stat' \in [Inst -> {"new", "init", "free", "list", "run", "close"}]
          /\ m_actorlist' \in Seq(Inst)
          /\ tearing' \in [Inst -> Inst \cup {"no", "plain"}]
      BY <2>1, EraseLockedType
    <2> HIDE <1>11, <2>1
    <2> QED  BY <2>2, <2>3, <2>4, ZenonT(30) DEF TypeOK, objectVars, routeVars
  <1>12. ASSUME NEW i \in Inst, Release(i) PROVE TypeOK'
    <2>1. called' \in [Inst -> Nat]
      <3>1. called \in [Inst -> Nat]  BY DEF TypeOK
      <3>2. \A c \in Inst : called[c] + 1 \in Nat  BY <3>1
      <3>3. called' = IF tearing[i] \in Inst
                      THEN [called EXCEPT ![tearing[i]] = @ + 1] ELSE called
        BY <1>12 DEF Release, Call
      <3> QED  BY <3>1, <3>2, <3>3
    <2>2. tearing' \in [Inst -> Inst \cup {"no", "plain"}]
      BY <1>12 DEF Release, TypeOK
    <2>3. inbox' \in [Inst -> Nat]
      <3>1. inbox' = [inbox EXCEPT ![i] = 0]  BY <1>12 DEF Release
      <3>2. inbox \in [Inst -> Nat]  BY DEF TypeOK
      <3> QED  BY <3>1, <3>2
    <2>4. released' \in [Inst -> Nat]
      <3>1. released' = [released EXCEPT ![i] = @ + 1]  BY <1>12 DEF Release
      <3>2. released \in [Inst -> Nat]  BY DEF TypeOK
      <3> QED  BY <3>1, <3>2
    <2>5. dirty' \in [Inst -> BOOLEAN]
      <3>1. dirty' = [dirty EXCEPT ![i] = FALSE]  BY <1>12 DEF Release
      <3>2. dirty \in [Inst -> BOOLEAN]  BY DEF TypeOK
      <3> QED  BY <3>1, <3>2
    <2>6. UNCHANGED <<layerVars, stat, routeVars, workerVars, epc, history, posted>>
      BY <1>12 DEF Release
    <2> HIDE <1>12
    <2> QED
      BY <2>1, <2>2, <2>3, <2>4, <2>5, <2>6 DEF TypeOK, layerVars, routeVars, workerVars
  <1>13. CASE SwitchNotify
    <2>1. route' \in Seq(Msgs)  BY <1>13 DEF SwitchNotify, NotifyErase, TypeOK
    <2> QED  BY <1>13, <2>1 DEF SwitchNotify, NotifyErase, TypeOK, layerVars, objectVars, workerVars
  <1>14. CASE SwitchErase
    <2>1. EraseLocked(TRUE)  BY <1>14 DEF SwitchErase
    <2>2. switched' \in [Inst -> {"no", "new", "init", "free", "list", "run", "close"}]
      <3>1. CASE m_actorbyid = None  BY <1>14, <3>1 DEF SwitchErase, TypeOK
      <3>2. CASE m_actorbyid # None
        <4>1. m_actorbyid \in Inst  BY <3>2 DEF TypeOK
        <4>2. switched' = [switched EXCEPT ![m_actorbyid] = stat[m_actorbyid]]
          BY <1>14, <3>2 DEF SwitchErase
        <4> QED  BY <4>1, <4>2 DEF TypeOK
      <3> QED  BY <3>1, <3>2
    <2> QED  BY <1>14, <2>1, <2>2, EraseLockedType
             DEF SwitchErase, TypeOK, objectVars, routeVars, workerVars
  <1>15. CASE UNCHANGED vars
    BY <1>15 DEF vars, TypeOK, layerVars, objectVars, routeVars, workerVars
  <1> QED
    BY <1>1, <1>2, <1>3, <1>4, <1>5, <1>6, <1>7, <1>8, <1>9, <1>10, <1>11,
       <1>12, <1>13, <1>14, <1>15 DEF Next, Worker
-----------------------------------------------------------------------------
LEMMA HoldsInductive == TypeOK /\ HoldsWhenBusy /\ [Next]_vars => HoldsWhenBusy'
  <1> USE EraseAssumption
  <1> SUFFICES ASSUME TypeOK, HoldsWhenBusy, [Next]_vars PROVE HoldsWhenBusy'  OBVIOUS
  <1>1. CASE UNCHANGED workerVars
    BY <1>1 DEF workerVars, HoldsWhenBusy
  <1>2. ASSUME NEW w \in Workers, Dispatch(w) PROVE HoldsWhenBusy'
    <2>1. /\ m_actorlist # <<>> /\ m_actorlist \in Seq(Inst)
      BY <1>2 DEF Dispatch, TypeOK
    <2>2. Head(m_actorlist) # None  BY <2>1
    <2>3. /\ wpc' = [wpc EXCEPT ![w] = "run"]
          /\ lpactor' = [lpactor EXCEPT ![w] = Head(m_actorlist)]
      BY <1>2 DEF Dispatch
    <2>4. wpc \in [Workers -> {"wait", "run", "closing", "return"}]
          /\ lpactor \in [Workers -> Inst \cup {None}]
      BY DEF TypeOK
    <2> HIDE <1>2
    <2> QED  BY <2>2, <2>3, <2>4 DEF HoldsWhenBusy
  <1>3. ASSUME NEW w \in Workers, EndSlice(w) \/ CloseNotify(w) \/ CloseErase(w)
        PROVE  HoldsWhenBusy'
    <2>1. lpactor' = lpactor /\ wpc[w] # "wait"
      BY <1>3 DEF EndSlice, CloseNotify, CloseErase
    <2>2. \E p \in {"return", "closing", "run"} : wpc' = [wpc EXCEPT ![w] = p]
      BY <1>3 DEF EndSlice, CloseNotify, CloseErase
    <2>3. wpc \in [Workers -> {"wait", "run", "closing", "return"}]
      BY DEF TypeOK
    <2> HIDE <1>3
    <2> QED  BY <2>1, <2>2, <2>3 DEF HoldsWhenBusy
  <1>4. ASSUME NEW w \in Workers, ReturnRegistered(w) \/ ReturnErased(w)
        PROVE  HoldsWhenBusy'
    <2>1. /\ wpc' = [wpc EXCEPT ![w] = "wait"]
          /\ lpactor' = [lpactor EXCEPT ![w] = None]
      BY <1>4 DEF ReturnRegistered, ReturnErased
    <2>2. /\ wpc \in [Workers -> {"wait", "run", "closing", "return"}]
          /\ lpactor \in [Workers -> Inst \cup {None}]
      BY DEF TypeOK
    <2> HIDE <1>4
    <2> QED  BY <2>1, <2>2 DEF HoldsWhenBusy
  <1> QED
    BY <1>1, <1>2, <1>3, <1>4
    DEF Next, Worker, vars, AddActor, AddNotify, RouteHandle, Post, Handle,
        Release, SwitchNotify, SwitchErase, workerVars

LEMMA InitPlaces == Init => HoldsWhenBusy /\ Places
  <1> USE EraseAssumption
  <1> SUFFICES ASSUME Init PROVE HoldsWhenBusy /\ Places  OBVIOUS
  <1>1. \A x : ~In(<<>>, x) /\ Once(<<>>, x)  BY DEF In, Once
  <1>2. \A i \in Inst : ~Held(i) /\ ~Queued(i) /\ ~Unannounced(i)
    BY <1>1 DEF Init, Held, Queued, Unannounced, In
  <1>3. HoldsWhenBusy  BY DEF Init, HoldsWhenBusy
  <1>4. OnePlace  BY <1>1, <1>2 DEF Init, OnePlace
  <1>5. RegisteredStat  BY DEF Init, RegisteredStat
  <1>6. UnannouncedUntouched  BY <1>1, <1>2 DEF Init, UnannouncedUntouched
  <1>7. NewUntouched  BY <1>2 DEF Init, NewUntouched
  <1>8. TeardownAlone  BY DEF Init, TeardownAlone
  <1> QED  BY <1>3, <1>4, <1>5, <1>6, <1>7, <1>8 DEF Places

(* No registration enters or leaves the route actor's inbox. *)
SameRoute ==
    \A i \in Inst : /\ In(route', AddMsg(i)) <=> In(route, AddMsg(i))
                    /\ Once(route', AddMsg(i))

LEMMA RouteKept ==
    ASSUME TypeOK, Places, UNCHANGED route \/ route' = Append(route, DelMsg)
    PROVE  SameRoute
  <1>1. route \in Seq(RouteMsg)  BY DEF TypeOK, RouteMsg
  <1>2. \A i \in Inst : Once(route, AddMsg(i))  BY DEF Places, UnannouncedUntouched
  <1>3. CASE UNCHANGED route  BY <1>2, <1>3 DEF SameRoute
  <1>4. CASE route' = Append(route, DelMsg)
    <2> SUFFICES ASSUME NEW i \in Inst
                 PROVE  /\ In(route', AddMsg(i)) <=> In(route, AddMsg(i))
                        /\ Once(route', AddMsg(i))
      BY DEF SameRoute
    <2>1. DelMsg \in RouteMsg /\ AddMsg(i) # DelMsg  BY Messages
    <2> QED  BY <1>1, <1>2, <1>4, <2>1, AppendIn, AppendOnce
  <1> QED  BY <1>3, <1>4

(* A step that moves no object may end a tear-down. *)
LEMMA NothingMoves ==
    ASSUME Places, SameRoute,
           UNCHANGED <<m_actorbyid, m_actorlist, stat, adding, lpactor>>,
           \A i \in Inst : tearing'[i] \in {tearing[i], "no"}
    PROVE  Places'
  <1>1. \A i \in Inst : (Held(i)' <=> Held(i)) /\ (Queued(i)' <=> Queued(i))
    BY DEF Held, Queued
  <1>2. \A i \in Inst : Unannounced(i)' <=> Unannounced(i)
    BY DEF Unannounced, SameRoute
  <1>3. OnePlace'  BY <1>1 DEF Places, OnePlace
  <1>4. RegisteredStat'  BY <1>1 DEF Places, RegisteredStat
  <1>5. UnannouncedUntouched'
    BY <1>1, <1>2 DEF Places, UnannouncedUntouched, SameRoute
  <1>6. NewUntouched'  BY <1>1, <1>2 DEF Places, NewUntouched
  <1>7. TeardownAlone'  BY <1>1 DEF Places, TeardownAlone
  <1> QED  BY <1>3, <1>4, <1>5, <1>6, <1>7 DEF Places

(* erase_actor's locked part finds queued and idle objects where it expects *)
(* them, and leaves every other to whoever holds it.                       *)
LEMMA EraseLockedPlaces ==
    ASSUME TypeOK, Places, NEW callback \in BOOLEAN, EraseLocked(callback),
           UNCHANGED <<adding, route, lpactor>>
    PROVE  Places'
  <1> USE EraseAssumption
  <1>0. SameRoute  BY RouteKept
  <1>1. CASE m_actorbyid = None
    BY <1>0, <1>1, NothingMoves DEF EraseLocked, layerVars
  <1>2. CASE m_actorbyid # None
    <2>1. PICK a \in Inst : a = m_actorbyid  BY <1>2 DEF TypeOK
    <2>2. /\ stat[a] \in {"init", "free", "list", "run"}
          /\ stat[a] # "run" => ~Held(a)
          /\ stat[a] # "list" => ~Queued(a)
      BY <2>1 DEF Places, RegisteredStat
    <2>3. /\ m_actorbyid' = None
          /\ stat' = [stat EXCEPT ![a] = "close"]
          /\ m_actorlist' = IF stat[a] = "list" THEN <<>> ELSE m_actorlist
          /\ stat[a] \notin {"list", "free"} => tearing' = tearing
          /\ stat[a] \in {"list", "free"} =>
                tearing' = [tearing EXCEPT ![a] = IF callback THEN a ELSE "plain"]
      BY <1>2, <2>1 DEF EraseLocked
    <2>4. /\ \A i \in Inst : Held(i)' <=> Held(i)
          /\ \A i \in Inst : Queued(i)' => Queued(i)
          /\ \A i \in Inst : Once(m_actorlist', i)
      BY <2>3 DEF Held, Queued, Once, Places, OnePlace
    <2>5. \A i \in Inst : Unannounced(i)' <=> Unannounced(i)
      BY DEF Unannounced
    <2>6. stat[a] \in {"list", "free"} => ~Held(a)' /\ ~Queued(a)'
      <3>1. CASE stat[a] = "list"
        <4>1. m_actorlist' = <<>>  BY <2>3, <3>1
        <4>2. ~Queued(a)'  BY <4>1 DEF Queued
        <4> QED  BY <2>2, <2>4, <3>1, <4>2
      <3>2. CASE stat[a] = "free"
        BY <2>2, <2>4, <3>2
      <3> QED  BY <3>1, <3>2
    <2>7. /\ \A i \in Inst : i # a => stat'[i] = stat[i] /\ tearing'[i] = tearing[i]
          /\ stat'[a] = "close"
      BY <2>1, <2>3 DEF TypeOK
    <2>8. OnePlace'  BY <2>4 DEF Places, OnePlace
    <2>9. RegisteredStat'  BY <2>3 DEF RegisteredStat
    <2>10. UnannouncedUntouched'
      BY <1>0, <2>1, <2>3, <2>4, <2>5, <2>7
      DEF Places, UnannouncedUntouched, SameRoute
    <2>11. NewUntouched'  BY <2>4, <2>5, <2>7 DEF Places, NewUntouched
    <2>12. TeardownAlone'
      BY <2>1, <2>3, <2>4, <2>6, <2>7 DEF Places, TeardownAlone
    <2> QED  BY <2>8, <2>9, <2>10, <2>11, <2>12 DEF Places
  <1> QED  BY <1>1, <1>2

LEMMA AddActorPlaces ==
    ASSUME TypeOK, Places, NEW i \in Inst, AddActor(i) PROVE Places'
  <1> USE EraseAssumption
  <1>1. /\ stat[i] = "new" /\ adding = None /\ m_actorbyid = None
        /\ m_actorbyid' = i /\ adding' = i /\ stat' = [stat EXCEPT ![i] = "init"]
        /\ UNCHANGED <<m_actorlist, lpactor, route, tearing>>
    BY DEF AddActor, workerVars
  <1>2. \A j \in Inst : (Held(j)' <=> Held(j)) /\ (Queued(j)' <=> Queued(j))
    BY <1>1 DEF Held, Queued
  <1>3. \A j \in Inst : Unannounced(j)' <=> Unannounced(j) \/ j = i
    BY <1>1 DEF Unannounced
  <1>4. stat'[i] = "init" /\ \A j \in Inst : j # i => stat'[j] = stat[j]
    BY <1>1 DEF TypeOK
  <1>5. ~Held(i) /\ ~Queued(i) /\ tearing[i] = "no" /\ ~Unannounced(i)
    BY <1>1 DEF Places, NewUntouched
  <1>6. OnePlace'  BY <1>1, <1>2 DEF Places, OnePlace
  <1>7. RegisteredStat'  BY <1>1, <1>2, <1>4, <1>5 DEF RegisteredStat
  <1>8. UnannouncedUntouched'
    <2>1. ~In(route, AddMsg(i))  BY <1>5 DEF Unannounced
    <2> QED  BY <1>1, <1>2, <1>3, <1>4, <1>5, <2>1 DEF Places, UnannouncedUntouched
  <1>9. NewUntouched'  BY <1>1, <1>2, <1>3, <1>4 DEF Places, NewUntouched
  <1>10. TeardownAlone'  BY <1>1, <1>2, <1>5 DEF Places, TeardownAlone
  <1> QED  BY <1>6, <1>7, <1>8, <1>9, <1>10 DEF Places

LEMMA AddNotifyPlaces == ASSUME TypeOK, Places, AddNotify PROVE Places'
  <1> USE EraseAssumption
  <1>1. /\ adding \in Inst /\ adding' = None /\ route' = Append(route, AddMsg(adding))
        /\ UNCHANGED <<m_actorbyid, m_actorlist, stat, lpactor, tearing>>
    BY DEF AddNotify, TypeOK, layerVars, workerVars
  <1>2. PICK a \in Inst : a = adding  BY <1>1
  <1>3. route \in Seq(RouteMsg) /\ AddMsg(a) \in RouteMsg
    BY Messages DEF TypeOK, RouteMsg
  <1>4. \A i \in Inst : In(route', AddMsg(i)) <=> In(route, AddMsg(i)) \/ i = a
    BY <1>1, <1>2, <1>3, AppendIn, Messages
  <1>5. \A i \in Inst : Once(route', AddMsg(i))
    <2> TAKE i \in Inst
    <2>1. Once(route, AddMsg(i)) /\ (i = a => ~In(route, AddMsg(i)))
      BY <1>2 DEF Places, UnannouncedUntouched
    <2>2. AddMsg(i) = AddMsg(a) => i = a  BY Messages
    <2> QED  BY <1>1, <1>2, <1>3, <2>1, <2>2, AppendOnce
  <1>6. \A i \in Inst : Unannounced(i)' <=> Unannounced(i)
    BY <1>1, <1>2, <1>4 DEF Unannounced
  <1>7. \A i \in Inst : (Held(i)' <=> Held(i)) /\ (Queued(i)' <=> Queued(i))
    BY <1>1 DEF Held, Queued
  <1>8. OnePlace'  BY <1>1, <1>7 DEF Places, OnePlace
  <1>9. RegisteredStat'  BY <1>1, <1>7 DEF Places, RegisteredStat
  <1>10. UnannouncedUntouched'
    BY <1>1, <1>5, <1>6, <1>7 DEF Places, UnannouncedUntouched
  <1>11. NewUntouched'  BY <1>1, <1>6, <1>7 DEF Places, NewUntouched
  <1>12. TeardownAlone'  BY <1>1, <1>7 DEF Places, TeardownAlone
  <1> QED  BY <1>8, <1>9, <1>10, <1>11, <1>12 DEF Places

(* The callback of add_actor makes its object free: it was nowhere yet. *)
LEMMA RouteHandlePlaces == ASSUME TypeOK, Places, RouteHandle PROVE Places'
  <1> USE EraseAssumption
  <1>1. /\ route # <<>> /\ route' = Tail(route) /\ route \in Seq(RouteMsg)
        /\ UNCHANGED <<m_actorbyid, m_actorlist, adding, lpactor, tearing>>
    BY DEF RouteHandle, TypeOK, RouteMsg, layerVars, workerVars
  <1>2. \A i \in Inst : In(route, AddMsg(i)) <=>
                          AddMsg(i) = Head(route) \/ In(route', AddMsg(i))
    BY <1>1, TailIn
  <1>3. \A i \in Inst : /\ Once(route', AddMsg(i))
                        /\ AddMsg(i) = Head(route) => ~In(route', AddMsg(i))
    <2>1. \A i \in Inst : Once(route, AddMsg(i))  BY DEF Places, UnannouncedUntouched
    <2> QED  BY <1>1, <2>1, TailOnce
  <1>4. \A i \in Inst : (Held(i)' <=> Held(i)) /\ (Queued(i)' <=> Queued(i))
    BY <1>1 DEF Held, Queued
  <1>5. OnePlace'  BY <1>1, <1>4 DEF Places, OnePlace
  <1>6. TeardownAlone'  BY <1>1, <1>4 DEF Places, TeardownAlone
  <1>7. Head(route) \in RouteMsg  BY <1>1
  <1>8. CASE Head(route) = DelMsg
    <2>1. stat' = stat  BY <1>8, Messages DEF RouteHandle, DelMsg
    <2>2. \A i \in Inst : In(route', AddMsg(i)) <=> In(route, AddMsg(i))
      BY <1>2, <1>8, Messages
    <2>3. \A i \in Inst : Unannounced(i)' <=> Unannounced(i)
      BY <1>1, <2>2 DEF Unannounced
    <2>4. RegisteredStat'  BY <1>1, <1>4, <2>1 DEF Places, RegisteredStat
    <2>5. UnannouncedUntouched'
      BY <1>1, <1>3, <1>4, <2>1, <2>2, <2>3 DEF Places, UnannouncedUntouched
    <2>6. NewUntouched'  BY <1>1, <1>4, <2>1, <2>3 DEF Places, NewUntouched
    <2> QED  BY <1>5, <1>6, <2>4, <2>5, <2>6 DEF Places
  <1>9. ASSUME NEW a \in Inst, Head(route) = AddMsg(a) PROVE Places'
    <2>1. stat' = [stat EXCEPT ![a] = "free"]  BY <1>9, Messages DEF RouteHandle
    <2>2. stat'[a] = "free" /\ \A i \in Inst : i # a => stat'[i] = stat[i]
      BY <2>1 DEF TypeOK
    <2>3. \A i \in Inst : In(route', AddMsg(i)) <=> In(route, AddMsg(i)) /\ i # a
      BY <1>2, <1>3, <1>9, Messages
    <2>4. In(route, AddMsg(a))  BY <1>2, <1>9
    <2>5. adding # a /\ ~Held(a) /\ ~Queued(a)
      BY <2>4 DEF Places, UnannouncedUntouched, Unannounced
    <2>6. \A i \in Inst : Unannounced(i)' <=> Unannounced(i) /\ i # a
      BY <1>1, <2>3, <2>5 DEF Unannounced
    <2>7. RegisteredStat'  BY <1>1, <1>4, <2>2, <2>5 DEF Places, RegisteredStat
    <2>8. UnannouncedUntouched'
      BY <1>1, <1>3, <1>4, <2>2, <2>3, <2>6 DEF Places, UnannouncedUntouched
    <2>9. NewUntouched'  BY <1>1, <1>4, <2>2, <2>6 DEF Places, NewUntouched
    <2> QED  BY <1>5, <1>6, <2>7, <2>8, <2>9 DEF Places
  <1> QED  BY <1>7, <1>8, <1>9 DEF RouteMsg

(* An object that is not queued joins the ready queue: a registered idle   *)
(* one for a post, the one a worker just gave back for its return.         *)
LEMMA Enqueue ==
    ASSUME TypeOK, Places, NEW a \in Inst, ~Queued(a), ~Unannounced(a),
           tearing[a] = "no", m_actorlist' = Append(m_actorlist, a),
           stat' = [stat EXCEPT ![a] = "list"],
           UNCHANGED <<m_actorbyid, adding, route, tearing>>,
           \A v, w \in Workers : lpactor'[v] = lpactor'[w] /\ lpactor'[v] # None => v = w,
           \A i \in Inst : Held(i)' => Held(i) /\ i # a
    PROVE  Places'
  <1>1. \A i \in Inst : Queued(i) <=> In(m_actorlist, i)  BY DEF Queued, In
  <1>2. \A i \in Inst : Queued(i)' <=> In(m_actorlist', i)  BY DEF Queued, In
  <1>3. m_actorlist \in Seq(Inst)  BY DEF TypeOK
  <1>4. \A i \in Inst : Queued(i)' <=> Queued(i) \/ i = a
    BY <1>1, <1>2, <1>3, AppendIn
  <1>5. \A i \in Inst : Once(m_actorlist', i)
    <2>1. \A i \in Inst : Once(m_actorlist, i)  BY DEF Places, OnePlace
    <2> QED  BY <1>1, <1>3, <2>1, AppendOnce
  <1>6. \A i \in Inst : Unannounced(i)' <=> Unannounced(i)  BY DEF Unannounced
  <1>7. stat'[a] = "list" /\ \A i \in Inst : i # a => stat'[i] = stat[i]
    BY DEF TypeOK
  <1>8. OnePlace'  BY <1>4, <1>5 DEF Places, OnePlace
  <1>9. RegisteredStat'  BY <1>4, <1>7 DEF Places, RegisteredStat
  <1>10. UnannouncedUntouched'
    BY <1>4, <1>6, <1>7 DEF Places, UnannouncedUntouched
  <1>11. NewUntouched'  BY <1>4, <1>6, <1>7 DEF Places, NewUntouched
  <1>12. TeardownAlone'
    <2>1. m_actorbyid' = m_actorbyid  OBVIOUS
    <2> QED  BY <1>4, <2>1 DEF Places, TeardownAlone
  <1> QED  BY <1>8, <1>9, <1>10, <1>11, <1>12 DEF Places

LEMMA PostPlaces == ASSUME TypeOK, Places, Post PROVE Places'
  <1> USE EraseAssumption
  <1>1. PICK a \in Inst : a = m_actorbyid  BY DEF Post, TypeOK
  <1>2. UNCHANGED <<m_actorbyid, adding, route, lpactor, tearing>>
    BY DEF Post, routeVars, workerVars
  <1>3. CASE stat[a] = "free"
    <2>1. /\ m_actorlist' = Append(m_actorlist, a)
          /\ stat' = [stat EXCEPT ![a] = "list"]
      BY <1>1, <1>3 DEF Post
    <2>2. ~Held(a) /\ ~Queued(a)
      BY <1>1, <1>3 DEF Places, RegisteredStat
    <2>3. ~Unannounced(a)  BY <1>3 DEF Places, UnannouncedUntouched
    <2>4. tearing[a] = "no"  BY <1>1 DEF Places, TeardownAlone
    <2>5. \A i \in Inst : Held(i)' => Held(i) /\ i # a  BY <1>2, <2>2 DEF Held
    <2>6. \A v, w \in Workers : lpactor'[v] = lpactor'[w] /\ lpactor'[v] # None => v = w
      BY <1>2 DEF Places, OnePlace
    <2> QED  BY <1>2, <2>1, <2>2, <2>3, <2>4, <2>5, <2>6, Enqueue
  <1>4. CASE stat[a] # "free"
    <2>1. UNCHANGED <<m_actorlist, stat>>  BY <1>1, <1>4 DEF Post
    <2> QED  BY <1>2, <2>1, RouteKept, NothingMoves
  <1> QED  BY <1>3, <1>4

LEMMA DispatchPlaces ==
    ASSUME TypeOK, Places, NEW w \in Workers, Dispatch(w) PROVE Places'
  <1> USE EraseAssumption
  <1>1. /\ m_actorlist # <<>> /\ m_actorlist \in Seq(Inst)
        /\ m_actorlist' = Tail(m_actorlist)
        /\ UNCHANGED <<m_actorbyid, adding, route, tearing>>
    BY DEF Dispatch, TypeOK, routeVars
  <1>2. PICK a \in Inst : a = Head(m_actorlist)  BY <1>1
  <1>3. /\ lpactor' = [lpactor EXCEPT ![w] = a]
        /\ stat' = [stat EXCEPT ![a] = "run"]
    BY <1>2 DEF Dispatch
  <1>4. \A i \in Inst : Queued(i) <=> In(m_actorlist, i)  BY DEF Queued, In
  <1>5. \A i \in Inst : Queued(i)' <=> In(m_actorlist', i)  BY DEF Queued, In
  <1>6. \A i \in Inst : Once(m_actorlist, i)  BY DEF Places, OnePlace
  <1>7. \A i \in Inst : Queued(i) <=> i = a \/ Queued(i)'
    BY <1>1, <1>2, <1>4, <1>5, TailIn
  <1>8. /\ \A i \in Inst : Once(m_actorlist', i)
        /\ ~Queued(a)'
    BY <1>1, <1>2, <1>5, <1>6, TailOnce
  <1>9. ~Held(a)  BY <1>7 DEF Places, OnePlace
  <1>10. \A i \in Inst : Held(i)' => Held(i) \/ i = a
    BY <1>3 DEF Held, TypeOK
  <1>11. stat'[a] = "run" /\ \A i \in Inst : i # a => stat'[i] = stat[i]
    BY <1>3 DEF TypeOK
  <1>12. \A i \in Inst : Unannounced(i)' <=> Unannounced(i)
    BY <1>1 DEF Unannounced
  <1>13. ~Unannounced(a) /\ tearing[a] = "no" /\ m_actorbyid \in Inst \cup {None}
    BY <1>7 DEF Places, UnannouncedUntouched, TeardownAlone, TypeOK
  <1>14. OnePlace'
    <2>1. \A u, v \in Workers : lpactor'[u] = lpactor'[v] /\ lpactor'[u] # None => u = v
      BY <1>3, <1>9 DEF Held, TypeOK, Places, OnePlace
    <2> QED  BY <1>7, <1>8, <1>10, <2>1 DEF Places, OnePlace
  <1>15. RegisteredStat'
    BY <1>1, <1>7, <1>8, <1>10, <1>11 DEF Places, RegisteredStat
  <1>16. UnannouncedUntouched'
    BY <1>1, <1>7, <1>10, <1>11, <1>12, <1>13 DEF Places, UnannouncedUntouched
  <1>17. NewUntouched'
    BY <1>1, <1>7, <1>10, <1>11, <1>12 DEF Places, NewUntouched
  <1>18. \A i \in Inst : tearing[i] # "no" => i # a  BY <1>13
  <1>19. TeardownAlone'
    BY <1>1, <1>7, <1>10, <1>18 DEF Places, TeardownAlone
  <1> QED  BY <1>14, <1>15, <1>16, <1>17, <1>19 DEF Places

(* After a worker has given its object back nobody holds it. *)
LEMMA GivenBack ==
    ASSUME TypeOK, Places, NEW w \in Workers, lpactor[w] \in Inst,
           lpactor' = [lpactor EXCEPT ![w] = None]
    PROVE  /\ \A i \in Inst : Held(i)' <=> Held(i) /\ i # lpactor[w]
           /\ \A u, v \in Workers : lpactor'[u] = lpactor'[v] /\ lpactor'[u] # None => u = v
  <1> USE EraseAssumption
  <1>1. \A u, v \in Workers : lpactor[u] = lpactor[v] /\ lpactor[u] # None => u = v
    BY DEF Places, OnePlace
  <1>2. lpactor'[w] = None /\ \A v \in Workers : v # w => lpactor'[v] = lpactor[v]
    BY DEF TypeOK
  <1> QED  BY <1>1, <1>2 DEF Held

LEMMA ReturnRegisteredPlaces ==
    ASSUME TypeOK, HoldsWhenBusy, Places, NEW w \in Workers, ReturnRegistered(w)
    PROVE  Places'
  <1> USE EraseAssumption
  <1>1. PICK a \in Inst : a = lpactor[w]
    BY DEF ReturnRegistered, TypeOK, HoldsWhenBusy
  <1>2. /\ lpactor' = [lpactor EXCEPT ![w] = None]
        /\ UNCHANGED <<m_actorbyid, adding, route, tearing>>
    BY DEF ReturnRegistered, routeVars
  <1>3. /\ \A i \in Inst : Held(i)' <=> Held(i) /\ i # a
        /\ \A u, v \in Workers : lpactor'[u] = lpactor'[v] /\ lpactor'[u] # None => u = v
    BY <1>1, <1>2, GivenBack
  <1>4. Held(a)  BY <1>1 DEF Held
  <1>5. ~Queued(a) /\ ~Unannounced(a) /\ tearing[a] = "no"
    BY <1>4 DEF Places, OnePlace, UnannouncedUntouched, TeardownAlone
  <1>6. CASE inbox[a] > 0
    <2>1. /\ m_actorlist' = Append(m_actorlist, a)
          /\ stat' = [stat EXCEPT ![a] = "list"]
      BY <1>1, <1>6 DEF ReturnRegistered
    <2> QED  BY <1>2, <1>3, <1>5, <2>1, Enqueue
  <1>7. CASE ~(inbox[a] > 0)
    <2>1. m_actorlist' = m_actorlist /\ stat' = [stat EXCEPT ![a] = "free"]
      BY <1>1, <1>7 DEF ReturnRegistered
    <2>2. stat'[a] = "free" /\ \A i \in Inst : i # a => stat'[i] = stat[i]
      BY <2>1 DEF TypeOK
    <2>3. \A i \in Inst : Queued(i)' <=> Queued(i)  BY <2>1 DEF Queued
    <2>4. \A i \in Inst : Unannounced(i)' <=> Unannounced(i)
      BY <1>2 DEF Unannounced
    <2>5. OnePlace'  BY <1>3, <2>1, <2>3 DEF Places, OnePlace
    <2>6. RegisteredStat'
      BY <1>2, <1>3, <1>5, <2>2, <2>3 DEF Places, RegisteredStat
    <2>7. UnannouncedUntouched'
      BY <1>2, <1>3, <1>5, <2>2, <2>3, <2>4 DEF Places, UnannouncedUntouched
    <2>8. NewUntouched'
      BY <1>2, <1>3, <2>2, <2>3, <2>4 DEF Places, NewUntouched
    <2>9. TeardownAlone'  BY <1>2, <1>3, <2>3 DEF Places, TeardownAlone
    <2> QED  BY <2>5, <2>6, <2>7, <2>8, <2>9 DEF Places
  <1> QED  BY <1>6, <1>7

LEMMA ReturnErasedPlaces ==
    ASSUME TypeOK, HoldsWhenBusy, Places, NEW w \in Workers, ReturnErased(w)
    PROVE  Places'
  <1> USE EraseAssumption
  <1>1. PICK a \in Inst : a = lpactor[w]
    BY DEF ReturnErased, TypeOK, HoldsWhenBusy
  <1>2. /\ lpactor' = [lpactor EXCEPT ![w] = None]
        /\ m_actorbyid = None
        /\ UNCHANGED <<m_actorbyid, m_actorlist, adding, route>>
    BY DEF ReturnErased, routeVars
  <1>3. /\ \A i \in Inst : Held(i)' <=> Held(i) /\ i # a
        /\ \A u, v \in Workers : lpactor'[u] = lpactor'[v] /\ lpactor'[u] # None => u = v
    BY <1>1, <1>2, GivenBack
  <1>4. Held(a)  BY <1>1 DEF Held
  <1>5. ~Queued(a) /\ ~Unannounced(a) /\ stat[a] # "new"
    BY <1>4 DEF Places, OnePlace, UnannouncedUntouched, NewUntouched
  <1>6. \A i \in Inst : i # a => stat'[i] = stat[i] /\ tearing'[i] = tearing[i]
    BY <1>1 DEF ReturnErased, TypeOK
  <1>7. stat'[a] # "new"  BY <1>1, <1>5 DEF ReturnErased, TypeOK
  <1>8. \A i \in Inst : Queued(i)' <=> Queued(i)  BY <1>2 DEF Queued
  <1>9. \A i \in Inst : Unannounced(i)' <=> Unannounced(i)
    BY <1>2 DEF Unannounced
  <1>10. OnePlace'  BY <1>2, <1>3, <1>8 DEF Places, OnePlace
  <1>11. RegisteredStat'  BY <1>2 DEF RegisteredStat
  <1>12. UnannouncedUntouched'
    BY <1>2, <1>3, <1>5, <1>6, <1>8, <1>9 DEF Places, UnannouncedUntouched
  <1>13. NewUntouched'
    BY <1>2, <1>3, <1>6, <1>7, <1>8, <1>9 DEF Places, NewUntouched
  <1>14. TeardownAlone'
    BY <1>2, <1>3, <1>5, <1>6, <1>8 DEF Places, TeardownAlone
  <1> QED  BY <1>10, <1>11, <1>12, <1>13, <1>14 DEF Places

(* Every action keeps every object in its place. *)
LEMMA PlacesInductive == TypeOK /\ HoldsWhenBusy /\ Places /\ [Next]_vars => Places'
  <1> SUFFICES ASSUME TypeOK, HoldsWhenBusy, Places, [Next]_vars PROVE Places'  OBVIOUS
  <1>1. ASSUME NEW i \in Inst, AddActor(i) PROVE Places'  BY <1>1, AddActorPlaces
  <1>2. CASE AddNotify  BY <1>2, AddNotifyPlaces
  <1>3. CASE RouteHandle  BY <1>3, RouteHandlePlaces
  <1>4. CASE Post  BY <1>4, PostPlaces
  <1>5. ASSUME NEW w \in Workers, Dispatch(w) PROVE Places'  BY <1>5, DispatchPlaces
  <1>6. ASSUME NEW w \in Workers, Handle(w) \/ EndSlice(w) \/ CloseNotify(w) PROVE Places'
    <2>1. UNCHANGED <<m_actorbyid, m_actorlist, stat, adding, lpactor, tearing>>
      BY <1>6 DEF Handle, EndSlice, CloseNotify, NotifyErase, layerVars, routeVars, workerVars
    <2>2. UNCHANGED route \/ route' = Append(route, DelMsg)
      BY <1>6 DEF Handle, EndSlice, CloseNotify, NotifyErase, routeVars
    <2> QED  BY <2>1, <2>2, RouteKept, NothingMoves
  <1>7. ASSUME NEW w \in Workers, ReturnRegistered(w) PROVE Places'
    BY <1>7, ReturnRegisteredPlaces
  <1>8. ASSUME NEW w \in Workers, ReturnErased(w) PROVE Places'
    BY <1>8, ReturnErasedPlaces
  <1>9. ASSUME NEW w \in Workers, CloseErase(w) PROVE Places'
    <2>1. EraseLocked(FALSE) /\ UNCHANGED <<adding, route, lpactor>>
      BY <1>9 DEF CloseErase, routeVars
    <2> QED  BY <2>1, EraseLockedPlaces
  <1>10. ASSUME NEW i \in Inst, Release(i) PROVE Places'
    <2>1. UNCHANGED <<m_actorbyid, m_actorlist, stat, adding, route, lpactor>>
      BY <1>10 DEF Release, layerVars, routeVars, workerVars
    <2>2. \A j \in Inst : tearing'[j] \in {tearing[j], "no"}
      BY <1>10 DEF Release, TypeOK
    <2> QED  BY <2>1, <2>2, RouteKept, NothingMoves
  <1>11. CASE SwitchNotify
    <2>1. UNCHANGED <<m_actorbyid, m_actorlist, stat, adding, lpactor, tearing>>
      BY <1>11 DEF SwitchNotify, NotifyErase, layerVars, workerVars
    <2>2. route' = Append(route, DelMsg)  BY <1>11 DEF SwitchNotify, NotifyErase
    <2> QED  BY <2>1, <2>2, RouteKept, NothingMoves
  <1>12. CASE SwitchErase
    <2>1. EraseLocked(TRUE) /\ UNCHANGED <<adding, route, lpactor>>
      BY <1>12 DEF SwitchErase, routeVars, workerVars
    <2> QED  BY <2>1, EraseLockedPlaces
  <1>13. CASE UNCHANGED vars
    <2>1. UNCHANGED <<m_actorbyid, m_actorlist, stat, adding, route, lpactor, tearing>>
      BY <1>13 DEF vars, layerVars, routeVars, workerVars
    <2> QED  BY <2>1, RouteKept, NothingMoves
  <1> QED
    BY <1>1, <1>2, <1>3, <1>4, <1>5, <1>6, <1>7, <1>8, <1>9, <1>10, <1>11,
       <1>12, <1>13 DEF Next, Worker
-----------------------------------------------------------------------------
LEMMA InvInductive == Spec => []Inv
  <1>1. Init => Inv  BY InitTypeOK, InitPlaces DEF Inv
  <1>2. Inv /\ [Next]_vars => Inv'
    BY TypeInductive, HoldsInductive, PlacesInductive DEF Inv
  <1> QED  BY <1>1, <1>2, PTL DEF Spec

(* Every variable keeps its shape, in every environment. *)
THEOREM EraseTypeInvariant == Spec => []TypeOK
  BY InvInductive, PTL DEF Inv

(* erase_actor and schedule_layer::push release an actor outside the       *)
(* layer's mutex, on whatever thread they run; it meets no worker, no      *)
(* dispatcher and no poster, even if the guid is created again early or    *)
(* an actor is erased while it starts.                                     *)
THEOREM TeardownMeetsNobody == Spec => []TeardownAlone
  <1>1. Inv => TeardownAlone  BY DEF Inv, Places
  <1> QED  BY <1>1, InvInductive, PTL

(* Two dispatches never give one object to two workers, nor queue it while *)
(* one runs it, although the layer knows objects by their guid only.       *)
THEOREM ObjectInOnePlace == Spec => []OnePlace
  <1>1. Inv => OnePlace  BY DEF Inv, Places
  <1> QED  BY <1>1, InvInductive, PTL
-----------------------------------------------------------------------------
(* What the states say of the objects.                                     *)

(* A queued object is in state list, the one registered in list or run is  *)
(* where its state says, and an object that starts or idles has nothing to *)
(* handle and nobody running it.                                           *)
QueuedListed == \A i \in Inst : Queued(i) => stat[i] = "list"

RegisteredPlace ==
    \A i \in Inst : m_actorbyid = i =>
        (stat[i] = "list" => Queued(i)) /\ (stat[i] = "run" => Held(i))

IdleEmpty ==
    \A i \in Inst :
        /\ stat[i] \in {"new", "free"} \/ Unannounced(i) => inbox[i] = 0
        /\ stat[i] = "free" => ~Held(i)

Orderly == QueuedListed /\ RegisteredPlace /\ IdleEmpty

LEMMA InitOrderly == Init => Orderly
  <1> USE EraseAssumption
  <1> SUFFICES ASSUME Init PROVE Orderly  OBVIOUS
  <1>1. \A i \in Inst : ~Queued(i) /\ ~Held(i)
    <2>1. m_actorlist = <<>> /\ \A w \in Workers : lpactor[w] = None  BY DEF Init
    <2>2. \A i \in Inst : ~Queued(i)  BY <2>1 DEF Queued
    <2> QED  BY <2>1, <2>2 DEF Held
  <1>2. RegisteredPlace  BY DEF Init, RegisteredPlace
  <1> QED  BY <1>1, <1>2 DEF Init, Orderly, QueuedListed, IdleEmpty

(* A step that moves no object may empty inboxes. *)
LEMMA OrderlyStill ==
    ASSUME Orderly, UNCHANGED <<m_actorbyid, m_actorlist, stat, lpactor>>,
           \A i \in Inst : Unannounced(i)' => Unannounced(i),
           \A i \in Inst : inbox[i] = 0 => inbox'[i] = 0
    PROVE  Orderly'
  <1>1. \A i \in Inst : (Held(i)' <=> Held(i)) /\ (Queued(i)' <=> Queued(i))
    BY DEF Held, Queued
  <1>2. QueuedListed'  BY <1>1 DEF Orderly, QueuedListed
  <1>3. RegisteredPlace'  BY <1>1 DEF Orderly, RegisteredPlace
  <1>4. IdleEmpty'  BY <1>1 DEF Orderly, IdleEmpty
  <1> QED  BY <1>2, <1>3, <1>4 DEF Orderly

LEMMA AddActorOrderly ==
    ASSUME Inv, Orderly, NEW i \in Inst, AddActor(i) PROVE Orderly'
  <1> USE EraseAssumption
  <1>1. /\ stat[i] = "new" /\ m_actorbyid' = i /\ adding' = i
        /\ UNCHANGED <<m_actorlist, inbox, lpactor, route>>
    BY DEF AddActor, objectVars, workerVars
  <1>2. \A j \in Inst : stat'[j] = IF j = i THEN "init" ELSE stat[j]
    BY DEF AddActor, Inv, TypeOK
  <1>3. \A j \in Inst : (Held(j)' <=> Held(j)) /\ (Queued(j)' <=> Queued(j))
    BY <1>1 DEF Held, Queued
  <1>4. \A j \in Inst : Unannounced(j)' => Unannounced(j) \/ j = i
    BY <1>1 DEF Unannounced
  <1>5. QueuedListed'  BY <1>1, <1>2, <1>3 DEF Orderly, QueuedListed
  <1>6. RegisteredPlace'  BY <1>1, <1>2 DEF RegisteredPlace
  <1>7. IdleEmpty'  BY <1>1, <1>2, <1>3, <1>4 DEF Orderly, IdleEmpty
  <1> QED  BY <1>5, <1>6, <1>7 DEF Orderly

(* What the route actor has still to handle. *)
LEMMA AddNotifyUnannounced ==
    ASSUME TypeOK, Places, AddNotify
    PROVE  \A i \in Inst : Unannounced(i)' <=> Unannounced(i)
  <1> USE EraseAssumption
  <1>1. /\ adding \in Inst /\ adding' = None /\ route' = Append(route, AddMsg(adding))
    BY DEF AddNotify, TypeOK
  <1>2. PICK a \in Inst : a = adding  BY <1>1
  <1>3. route \in Seq(RouteMsg) /\ AddMsg(a) \in RouteMsg
    BY Messages DEF TypeOK, RouteMsg
  <1>4. \A i \in Inst : In(route', AddMsg(i)) <=> In(route, AddMsg(i)) \/ i = a
    BY <1>1, <1>2, <1>3, AppendIn, Messages
  <1> QED  BY <1>1, <1>2, <1>4 DEF Unannounced

LEMMA RouteUnannounced ==
    ASSUME TypeOK, Places, RouteHandle
    PROVE  \A i \in Inst : Unannounced(i)' <=> Unannounced(i) /\ Head(route) # AddMsg(i)
  <1>1. /\ route # <<>> /\ route' = Tail(route) /\ route \in Seq(RouteMsg)
        /\ adding' = adding
    BY DEF RouteHandle, TypeOK, RouteMsg
  <1>2. \A i \in Inst : In(route, AddMsg(i)) <=>
                          AddMsg(i) = Head(route) \/ In(route', AddMsg(i))
    BY <1>1, TailIn
  <1>3. \A i \in Inst : /\ Once(route, AddMsg(i))
                        /\ ~(adding = i /\ In(route, AddMsg(i)))
    BY DEF Places, UnannouncedUntouched
  <1>4. \A i \in Inst : AddMsg(i) = Head(route) => ~In(route', AddMsg(i))
    BY <1>1, <1>3, TailOnce
  <1> QED  BY <1>1, <1>2, <1>3, <1>4 DEF Unannounced

(* The callback of add_actor comes to an object that never had anything to *)
(* handle, even if the object was erased before it came.                   *)
LEMMA RouteHandleOrderly == ASSUME Inv, Orderly, RouteHandle PROVE Orderly'
  <1> USE EraseAssumption
  <1>1. /\ UNCHANGED <<m_actorbyid, m_actorlist, inbox, lpactor>>
        /\ route # <<>> /\ route \in Seq(RouteMsg)
    BY DEF RouteHandle, layerVars, objectVars, workerVars, Inv, TypeOK, RouteMsg
  <1>2. \A i \in Inst : Unannounced(i)' <=> Unannounced(i) /\ Head(route) # AddMsg(i)
    BY RouteUnannounced DEF Inv
  <1>3. Head(route) \in RouteMsg  BY <1>1
  <1>4. CASE Head(route) = DelMsg
    <2>1. stat' = stat  BY <1>4, Messages DEF RouteHandle, DelMsg
    <2> QED  BY <1>1, <1>2, <2>1, OrderlyStill
  <1>5. ASSUME NEW a \in Inst, Head(route) = AddMsg(a) PROVE Orderly'
    <2>1. stat' = [stat EXCEPT ![a] = "free"]  BY <1>5, Messages DEF RouteHandle
    <2>2. \A i \in Inst : stat'[i] = IF i = a THEN "free" ELSE stat[i]
      BY <2>1 DEF Inv, TypeOK
    <2>3. Unannounced(a)  BY <1>1, <1>5, TailIn DEF Unannounced
    <2>4. ~Held(a) /\ ~Queued(a) /\ inbox[a] = 0
      BY <2>3 DEF Inv, Places, UnannouncedUntouched, Orderly, IdleEmpty
    <2>5. \A i \in Inst : (Held(i)' <=> Held(i)) /\ (Queued(i)' <=> Queued(i))
      BY <1>1 DEF Held, Queued
    <2>6. QueuedListed'  BY <2>2, <2>4, <2>5 DEF Orderly, QueuedListed
    <2>7. RegisteredPlace'  BY <1>1, <2>2, <2>5 DEF Orderly, RegisteredPlace
    <2>8. IdleEmpty'  BY <1>1, <1>2, <2>2, <2>4, <2>5 DEF Orderly, IdleEmpty
    <2> QED  BY <2>6, <2>7, <2>8 DEF Orderly
  <1> QED  BY <1>3, <1>4, <1>5 DEF RouteMsg

LEMMA PostOrderly == ASSUME Inv, Orderly, Post PROVE Orderly'
  <1> USE EraseAssumption
  <1>1. PICK a \in Inst : a = m_actorbyid  BY DEF Post, Inv, TypeOK
  <1>2. /\ UNCHANGED <<m_actorbyid, adding, route, lpactor>>
        /\ stat[a] \in {"free", "list", "run"}
    BY <1>1 DEF Post, routeVars, workerVars, Inv, Places, RegisteredStat
  <1>3. \A i \in Inst : i # a => inbox'[i] = inbox[i]  BY <1>1 DEF Post, Inv, TypeOK
  <1>4. \A i \in Inst : stat'[i] = IF i = a /\ stat[a] = "free" THEN "list" ELSE stat[i]
    <2>1. CASE stat[a] = "free"  BY <1>1, <2>1 DEF Post, Inv, TypeOK
    <2>2. CASE stat[a] # "free"  BY <1>1, <2>2 DEF Post
    <2> QED  BY <2>1, <2>2
  <1>5. \A i \in Inst : Queued(i)' <=> Queued(i) \/ (i = a /\ stat[a] = "free")
    <2>1. m_actorlist \in Seq(Inst)  BY DEF Inv, TypeOK
    <2>2. CASE stat[a] = "free"
      <3>1. m_actorlist' = Append(m_actorlist, a)  BY <1>1, <2>2 DEF Post
      <3>2. \A i \in Inst : In(m_actorlist', i) <=> In(m_actorlist, i) \/ i = a
        BY <2>1, <3>1, AppendIn
      <3> QED  BY <2>2, <3>2 DEF In, Queued
    <2>3. CASE stat[a] # "free"  BY <1>1, <2>3 DEF Post, Queued
    <2> QED  BY <2>2, <2>3
  <1>6. \A i \in Inst : (Held(i)' <=> Held(i)) /\ (Unannounced(i)' <=> Unannounced(i))
    BY <1>2 DEF Held, Unannounced
  <1>7. QueuedListed'  BY <1>4, <1>5 DEF Orderly, QueuedListed
  <1>8. RegisteredPlace'
    BY <1>1, <1>2, <1>4, <1>5, <1>6 DEF Orderly, RegisteredPlace
  <1>9. ~Unannounced(a)  BY <1>2 DEF Inv, Places, UnannouncedUntouched
  <1>10. IdleEmpty'  BY <1>2, <1>3, <1>4, <1>6, <1>9 DEF Orderly, IdleEmpty
  <1> QED  BY <1>7, <1>8, <1>10 DEF Orderly

LEMMA DispatchOrderly ==
    ASSUME Inv, Orderly, NEW w \in Workers, Dispatch(w) PROVE Orderly'
  <1> USE EraseAssumption
  <1>1. /\ m_actorlist # <<>> /\ m_actorlist \in Seq(Inst)
        /\ m_actorlist' = Tail(m_actorlist)
        /\ UNCHANGED <<m_actorbyid, inbox, adding, route>>
        /\ lpactor[w] = None
    BY DEF Dispatch, Inv, TypeOK, routeVars, objectVars, HoldsWhenBusy
  <1>2. PICK a \in Inst : a = Head(m_actorlist)  BY <1>1
  <1>3. \A i \in Inst : Once(m_actorlist, i)  BY DEF Inv, Places, OnePlace
  <1>4. \A i \in Inst : /\ In(m_actorlist, i) <=> i = a \/ In(m_actorlist', i)
                        /\ i = a => ~In(m_actorlist', i)
    BY <1>1, <1>2, <1>3, TailIn, TailOnce
  <1>5. \A i \in Inst : Queued(i)' <=> Queued(i) /\ i # a
    BY <1>4 DEF In, Queued
  <1>6. \A i \in Inst : stat'[i] = IF i = a THEN "run" ELSE stat[i]
    BY <1>2 DEF Dispatch, Inv, TypeOK
  <1>7. /\ lpactor'[w] = a
        /\ \A v \in Workers : v # w => lpactor'[v] = lpactor[v]
    BY <1>2 DEF Dispatch, Inv, TypeOK
  <1>8. \A i \in Inst : Held(i)' <=> Held(i) \/ i = a
    BY <1>1, <1>7 DEF Held
  <1>9. \A i \in Inst : Unannounced(i)' <=> Unannounced(i)
    BY <1>1 DEF Unannounced
  <1>10. QueuedListed'  BY <1>5, <1>6 DEF Orderly, QueuedListed
  <1>11. RegisteredPlace'
    BY <1>1, <1>5, <1>6, <1>8 DEF Orderly, RegisteredPlace
  <1>12. IdleEmpty'  BY <1>1, <1>6, <1>8, <1>9 DEF Orderly, IdleEmpty
  <1> QED  BY <1>10, <1>11, <1>12 DEF Orderly

(* The object given back need not be the one registered: an older one that *)
(* was erased while it ran goes back to the queue of the newer.            *)
LEMMA ReturnRegisteredOrderly ==
    ASSUME Inv, Orderly, NEW w \in Workers, ReturnRegistered(w) PROVE Orderly'
  <1> USE EraseAssumption
  <1>1. PICK a \in Inst : a = lpactor[w]
    BY DEF ReturnRegistered, Inv, TypeOK, HoldsWhenBusy
  <1>2. /\ UNCHANGED <<m_actorbyid, inbox, adding, route>>
        /\ lpactor' = [lpactor EXCEPT ![w] = None]
    BY DEF ReturnRegistered, routeVars, objectVars
  <1>3. \A i \in Inst : Held(i)' <=> Held(i) /\ i # a
    BY <1>1, <1>2, GivenBack DEF Inv
  <1>4. /\ inbox[a] > 0 => /\ stat' = [stat EXCEPT ![a] = "list"]
                           /\ m_actorlist' = Append(m_actorlist, a)
        /\ ~(inbox[a] > 0) => /\ stat' = [stat EXCEPT ![a] = "free"]
                              /\ m_actorlist' = m_actorlist
    BY <1>1 DEF ReturnRegistered
  <1>5. \A i \in Inst : stat'[i] = IF i # a THEN stat[i]
                                   ELSE IF inbox[a] > 0 THEN "list" ELSE "free"
    <2>1. stat \in [Inst -> {"new", "init", "free", "list", "run", "close"}]
      BY DEF Inv, TypeOK
    <2> QED  BY <1>4, <2>1
  <1>6. \A i \in Inst : Queued(i)' <=> Queued(i) \/ (i = a /\ inbox[a] > 0)
    <2>1. m_actorlist \in Seq(Inst)  BY DEF Inv, TypeOK
    <2>2. CASE inbox[a] > 0
      <3>1. m_actorlist' = Append(m_actorlist, a)  BY <1>4, <2>2
      <3>2. \A i \in Inst : In(m_actorlist', i) <=> In(m_actorlist, i) \/ i = a
        BY <2>1, <3>1, AppendIn
      <3> QED  BY <2>2, <3>2 DEF In, Queued
    <2>3. CASE ~(inbox[a] > 0)  BY <1>4, <2>3 DEF Queued
    <2> QED  BY <2>2, <2>3
  <1>7. Held(a) /\ ~Queued(a)  BY <1>1 DEF Held, Inv, Places, OnePlace
  <1>8. ~Unannounced(a)  BY <1>7 DEF Inv, Places, UnannouncedUntouched
  <1>9. \A i \in Inst : Unannounced(i)' <=> Unannounced(i)
    BY <1>2 DEF Unannounced
  <1>10. QueuedListed'  BY <1>5, <1>6, <1>7 DEF Orderly, QueuedListed
  <1>11. RegisteredPlace'
    BY <1>2, <1>3, <1>5, <1>6 DEF Orderly, RegisteredPlace
  <1>12. IdleEmpty'
    <2>1. inbox[a] \in Nat  BY DEF Inv, TypeOK
    <2> QED  BY <1>2, <1>3, <1>5, <1>8, <1>9, <2>1 DEF Orderly, IdleEmpty
  <1> QED  BY <1>10, <1>11, <1>12 DEF Orderly

LEMMA ReturnErasedOrderly ==
    ASSUME Inv, Orderly, NEW w \in Workers, ReturnErased(w) PROVE Orderly'
  <1> USE EraseAssumption
  <1>1. PICK a \in Inst : a = lpactor[w]
    BY DEF ReturnErased, Inv, TypeOK, HoldsWhenBusy
  <1>2. /\ m_actorbyid' = None
        /\ lpactor' = [lpactor EXCEPT ![w] = None]
        /\ UNCHANGED <<m_actorlist, inbox, adding, route>>
    BY DEF ReturnErased, routeVars, objectVars
  <1>3. \A i \in Inst : Held(i)' <=> Held(i) /\ i # a
    BY <1>1, <1>2, GivenBack DEF Inv
  <1>4. /\ \A i \in Inst : i # a => stat'[i] = stat[i]
        /\ stat'[a] \in {stat[a], "close"}
    BY <1>1 DEF ReturnErased, Inv, TypeOK
  <1>5. Held(a)  BY <1>1 DEF Held
  <1>6. ~Queued(a) /\ stat[a] \notin {"free", "new"}
    BY <1>5 DEF Inv, Places, OnePlace, NewUntouched, Orderly, IdleEmpty
  <1>7. \A i \in Inst : (Queued(i)' <=> Queued(i)) /\ (Unannounced(i)' <=> Unannounced(i))
    BY <1>2 DEF Queued, Unannounced
  <1>8. QueuedListed'  BY <1>4, <1>6, <1>7 DEF Orderly, QueuedListed
  <1>9. RegisteredPlace'  BY <1>2 DEF RegisteredPlace
  <1>10. IdleEmpty'
    BY <1>2, <1>3, <1>4, <1>6, <1>7 DEF Orderly, IdleEmpty
  <1> QED  BY <1>8, <1>9, <1>10 DEF Orderly

(* erase_actor empties the queue only if the object it erases is in it. *)
LEMMA EraseLockedOrderly ==
    ASSUME Inv, Orderly, NEW callback \in BOOLEAN, EraseLocked(callback),
           UNCHANGED <<inbox, adding, route, lpactor>>
    PROVE  Orderly'
  <1> USE EraseAssumption
  <1>0. \A i \in Inst : (Held(i)' <=> Held(i)) /\ (Unannounced(i)' <=> Unannounced(i))
    BY DEF Held, Unannounced
  <1>1. CASE m_actorbyid = None
    <2>1. UNCHANGED <<m_actorbyid, m_actorlist, stat>>
      BY <1>1 DEF EraseLocked, layerVars
    <2> QED  BY <1>0, <2>1, OrderlyStill
  <1>2. CASE m_actorbyid # None
    <2>1. PICK a \in Inst : a = m_actorbyid  BY <1>2 DEF Inv, TypeOK
    <2>2. m_actorbyid' = None /\ m_actorlist' = IF stat[a] = "list" THEN <<>> ELSE m_actorlist
      BY <1>2, <2>1 DEF EraseLocked
    <2>3. \A i \in Inst : stat'[i] = IF i = a THEN "close" ELSE stat[i]
      <3>1. stat' = [stat EXCEPT ![a] = "close"]  BY <1>2, <2>1 DEF EraseLocked
      <3> QED  BY <3>1 DEF Inv, TypeOK
    <2>4. \A i \in Inst : Queued(i)' => Queued(i) /\ i # a
      <3>1. CASE stat[a] = "list"  BY <2>2, <3>1 DEF Queued
      <3>2. CASE stat[a] # "list"
        BY <2>1, <2>2, <3>2 DEF Queued, Inv, Places, RegisteredStat
      <3> QED  BY <3>1, <3>2
    <2>5. QueuedListed'  BY <2>3, <2>4 DEF Orderly, QueuedListed
    <2>6. RegisteredPlace'  BY <2>2 DEF RegisteredPlace
    <2>7. IdleEmpty'  BY <1>0, <2>3 DEF Orderly, IdleEmpty
    <2> QED  BY <2>5, <2>6, <2>7 DEF Orderly
  <1> QED  BY <1>1, <1>2

LEMMA OrderlyInductive == Inv /\ Orderly /\ [Next]_vars => Orderly'
  <1> SUFFICES ASSUME Inv, Orderly, [Next]_vars PROVE Orderly'  OBVIOUS
  <1>1. ASSUME NEW i \in Inst, AddActor(i) PROVE Orderly'
    BY <1>1, AddActorOrderly
  <1>2. CASE AddNotify
    <2>1. UNCHANGED <<m_actorbyid, m_actorlist, stat, lpactor, inbox>>
      BY <1>2 DEF AddNotify, layerVars, objectVars, workerVars
    <2>2. \A i \in Inst : Unannounced(i)' <=> Unannounced(i)
      BY <1>2, AddNotifyUnannounced DEF Inv
    <2> QED  BY <2>1, <2>2, OrderlyStill
  <1>3. CASE RouteHandle  BY <1>3, RouteHandleOrderly
  <1>4. CASE Post  BY <1>4, PostOrderly
  <1>5. ASSUME NEW w \in Workers, Dispatch(w) PROVE Orderly'
    BY <1>5, DispatchOrderly
  <1>6. ASSUME NEW w \in Workers, Handle(w) \/ EndSlice(w) \/ CloseNotify(w)
        PROVE  Orderly'
    <2>1. UNCHANGED <<m_actorbyid, m_actorlist, stat, lpactor, adding>>
      BY <1>6 DEF Handle, EndSlice, CloseNotify, NotifyErase, layerVars, routeVars, workerVars
    <2>2. UNCHANGED route \/ route' = Append(route, DelMsg)
      BY <1>6 DEF Handle, EndSlice, CloseNotify, NotifyErase, routeVars
    <2>3. \A i \in Inst : Unannounced(i)' <=> Unannounced(i)
      BY <2>1, <2>2, RouteKept DEF Unannounced, SameRoute, Inv
    <2>4. \A i \in Inst : inbox[i] = 0 => inbox'[i] = 0
      BY <1>6 DEF Handle, EndSlice, CloseNotify, objectVars, Inv, TypeOK
    <2> QED  BY <2>1, <2>3, <2>4, OrderlyStill
  <1>7. ASSUME NEW w \in Workers, ReturnRegistered(w) PROVE Orderly'
    BY <1>7, ReturnRegisteredOrderly
  <1>8. ASSUME NEW w \in Workers, ReturnErased(w) PROVE Orderly'
    BY <1>8, ReturnErasedOrderly
  <1>9. ASSUME NEW w \in Workers, CloseErase(w) PROVE Orderly'
    <2>1. EraseLocked(FALSE) /\ UNCHANGED <<inbox, adding, route, lpactor>>
      BY <1>9 DEF CloseErase, routeVars, objectVars
    <2> QED  BY <2>1, EraseLockedOrderly
  <1>10. ASSUME NEW i \in Inst, Release(i) PROVE Orderly'
    <2>1. UNCHANGED <<m_actorbyid, m_actorlist, stat, lpactor, adding, route>>
      BY <1>10 DEF Release, layerVars, routeVars, workerVars
    <2>2. \A j \in Inst : inbox[j] = 0 => inbox'[j] = 0
      BY <1>10 DEF Release, Inv, TypeOK
    <2>3. \A j \in Inst : Unannounced(j)' <=> Unannounced(j)
      BY <2>1 DEF Unannounced
    <2> QED  BY <2>1, <2>2, <2>3, OrderlyStill
  <1>11. CASE SwitchNotify
    <2>1. /\ UNCHANGED <<m_actorbyid, m_actorlist, stat, lpactor, adding, inbox>>
          /\ route' = Append(route, DelMsg)
      BY <1>11 DEF SwitchNotify, NotifyErase, layerVars, objectVars, workerVars
    <2>2. \A i \in Inst : Unannounced(i)' <=> Unannounced(i)
      BY <2>1, RouteKept DEF Unannounced, SameRoute, Inv
    <2> QED  BY <2>1, <2>2, OrderlyStill
  <1>12. CASE SwitchErase
    <2>1. EraseLocked(TRUE) /\ UNCHANGED <<inbox, adding, route, lpactor>>
      BY <1>12 DEF SwitchErase, routeVars, objectVars, workerVars
    <2> QED  BY <2>1, EraseLockedOrderly
  <1>13. CASE UNCHANGED vars
    <2>1. UNCHANGED <<m_actorbyid, m_actorlist, stat, lpactor, adding, route, inbox>>
      BY <1>13 DEF vars, layerVars, routeVars, objectVars, workerVars
    <2>2. \A j \in Inst : Unannounced(j)' <=> Unannounced(j)
      BY <2>1 DEF Unannounced
    <2> QED  BY <2>1, <2>2, OrderlyStill
  <1> QED
    BY <1>1, <1>2, <1>3, <1>4, <1>5, <1>6, <1>7, <1>8, <1>9, <1>10, <1>11,
       <1>12, <1>13 DEF Next, Worker

LEMMA OrderlyInvariance == Spec => []Orderly
  <1>1. Init => Orderly  BY InitOrderly
  <1> QED  BY <1>1, OrderlyInductive, InvInductive, PTL DEF Spec

(* The states poster and eraser decide by are true of the objects, though  *)
(* an older object of the guid may be queued or run beside the registered  *)
(* one and the route actor makes an object free that was erased before.    *)
THEOREM StatStaysTrue == Spec => []StatAgrees
  <1>1. Inv /\ Orderly => StatAgrees
    <2> SUFFICES ASSUME Inv, Orderly, NEW i \in Inst
                 PROVE  /\ Queued(i) => stat[i] = "list"
                        /\ m_actorbyid = i =>
                             (stat[i] = "list" => Queued(i)) /\ (stat[i] = "run" <=> Held(i))
                        /\ stat[i] = "free" => inbox[i] = 0 /\ ~Held(i)
      BY DEF StatAgrees
    <2>1. Queued(i) => stat[i] = "list"  BY DEF Orderly, QueuedListed
    <2>2. m_actorbyid = i =>
            (stat[i] = "list" => Queued(i)) /\ (stat[i] = "run" => Held(i))
      BY DEF Orderly, RegisteredPlace
    <2>3. m_actorbyid = i /\ Held(i) => stat[i] = "run"
      BY DEF Inv, Places, RegisteredStat
    <2>4. stat[i] = "free" => inbox[i] = 0 /\ ~Held(i)
      BY DEF Orderly, IdleEmpty
    <2> QED  BY <2>1, <2>2, <2>3, <2>4
  <1> QED  BY <1>1, InvInductive, OrderlyInvariance, PTL
-----------------------------------------------------------------------------
(* What becomes of the tear-down and of the callback.                      *)

(* Objects of the guid that this node works on at the same time are known  *)
(* to overlap, and so are two that share a callback.                       *)
Alone ==
    /\ \A i, j \in Live : i = j \/ (i \in overlapped /\ j \in overlapped)
    /\ \A i, j \in Inst : tearing[i] = j => i = j \/ (i \in overlapped /\ j \in overlapped)

(* The callback of an erase waits in m_delactorfun or with one tear-down.  *)
Owed(i) == m_delactorfun = i \/ \E j \in Inst : tearing[j] = i

CalledOnce ==
    \A i \in Inst :
        /\ called[i] <= 1
        /\ Owed(i) => called[i] = 0
        /\ Owed(i) \/ called[i] = 1 => m_actorbyid # i /\ stat[i] # "new"
        /\ \A j, k \in Inst : tearing[j] = i /\ tearing[k] = i => j = k
        /\ m_delactorfun = i => \A j \in Inst : tearing[j] # i

(* An object that was torn down: nobody here has it or will have it again. *)
Gone(i) ==
    /\ stat[i] # "new" /\ m_actorbyid # i /\ tearing[i] = "no"
    /\ ~Held(i) /\ ~Queued(i) /\ ~Unannounced(i)

ReleasedOnce ==
    \A i \in Inst :
        /\ released[i] <= 1
        /\ released[i] = 1 => Gone(i) /\ inbox[i] = 0 /\ ~dirty[i]

(* A tear-down comes before its callback, if no object overlapped. *)
CalledAfter == \A i \in Inst : called[i] > 0 /\ i \notin overlapped => released[i] = 1

Handed == Alone /\ CalledOnce /\ ReleasedOnce /\ CalledAfter

LEMMA InitHanded == Init => Handed
  <1> USE EraseAssumption
  <1> SUFFICES ASSUME Init PROVE Handed  OBVIOUS
  <1>1. \A w \in Workers : lpactor[w] = None  BY DEF Init
  <1>2. m_actorlist = <<>> /\ m_actorbyid = None /\ m_delactorfun = None  BY DEF Init
  <1>3. \A i \in Inst : ~Queued(i)  BY <1>2 DEF Queued
  <1>4. \A i \in Inst : ~Held(i)  BY <1>1 DEF Held
  <1>5. Live = {}  BY <1>2, <1>3, <1>4 DEF Live
  <1>6. \A i \in Inst : tearing[i] = "no" /\ called[i] = 0 /\ released[i] = 0
    BY DEF Init
  <1>7. Alone  BY <1>5, <1>6 DEF Alone
  <1>8. \A i \in Inst : ~Owed(i)  BY <1>2, <1>6 DEF Owed
  <1>9. CalledOnce
    <2> SUFFICES ASSUME NEW i \in Inst
                 PROVE  /\ called[i] <= 1
                        /\ Owed(i) => called[i] = 0
                        /\ Owed(i) \/ called[i] = 1 => m_actorbyid # i /\ stat[i] # "new"
                        /\ \A j, k \in Inst : tearing[j] = i /\ tearing[k] = i => j = k
                        /\ m_delactorfun = i => \A j \in Inst : tearing[j] # i
      BY DEF CalledOnce
    <2>1. called[i] = 0 /\ ~Owed(i)  BY <1>6, <1>8
    <2>2. m_delactorfun # i /\ \A j \in Inst : tearing[j] # i  BY <2>1 DEF Owed
    <2> QED  BY <2>1, <2>2
  <1>10. ReleasedOnce /\ CalledAfter  BY <1>6 DEF ReleasedOnce, CalledAfter
  <1> QED  BY <1>7, <1>9, <1>10 DEF Handed

(* Only a creation brings this node another object to work on. *)
LEMMA LiveShrinks ==
    ASSUME Inv, [Next]_vars, ~\E i \in Inst : AddActor(i)
    PROVE  Live' \subseteq Live
  <1> USE EraseAssumption
  <1>1. ASSUME NEW i \in Inst, Held(i)' PROVE i \in Live
    <2>1. PICK v \in Workers : lpactor'[v] = i  BY <1>1 DEF Held
    <2>2. CASE lpactor' = lpactor  BY <2>1, <2>2 DEF Held, Live
    <2>3. ASSUME NEW w \in Workers, Dispatch(w) PROVE i \in Live
      <3>1. m_actorlist # <<>> /\ m_actorlist \in Seq(Inst)
        BY <2>3 DEF Dispatch, Inv, TypeOK
      <3>2. In(m_actorlist, Head(m_actorlist))  BY <3>1, TailIn
      <3>3. lpactor'[v] = lpactor[v] \/ lpactor'[v] = Head(m_actorlist)
        BY <2>3 DEF Dispatch, Inv, TypeOK
      <3> QED  BY <2>1, <3>2, <3>3 DEF In, Queued, Held, Live
    <2>4. ASSUME NEW w \in Workers, ReturnRegistered(w) \/ ReturnErased(w)
          PROVE  i \in Live
      <3>1. lpactor' = [lpactor EXCEPT ![w] = None]
        BY <2>4 DEF ReturnRegistered, ReturnErased
      <3>2. lpactor'[v] = lpactor[v] \/ lpactor'[v] = None
        BY <3>1 DEF Inv, TypeOK
      <3> QED  BY <2>1, <3>2 DEF Held, Live
    <2> QED
      BY <2>2, <2>3, <2>4
      DEF Next, Worker, vars, AddNotify, RouteHandle, Post, Handle, EndSlice,
          CloseNotify, CloseErase, Release, SwitchNotify, SwitchErase, workerVars
  <1>2. ASSUME NEW i \in Inst, Queued(i)' PROVE i \in Live
    <2>0. m_actorlist \in Seq(Inst)  BY DEF Inv, TypeOK
    <2>1. In(m_actorlist', i)  BY <1>2 DEF In, Queued
    <2>2. CASE m_actorlist' = m_actorlist  BY <1>2, <2>2 DEF Queued, Live
    <2>3. CASE m_actorlist' = <<>>  BY <1>2, <2>3 DEF Queued
    <2>4. ASSUME NEW w \in Workers, Dispatch(w) PROVE i \in Live
      <3>1. m_actorlist # <<>> /\ m_actorlist' = Tail(m_actorlist)
        BY <2>4 DEF Dispatch
      <3>2. In(m_actorlist, i)  BY <2>0, <2>1, <3>1, TailIn
      <3> QED  BY <3>2 DEF In, Queued, Live
    <2>5. ASSUME NEW w \in Workers, ReturnRegistered(w) PROVE i \in Live
      <3>1. lpactor[w] \in Inst  BY <2>5 DEF ReturnRegistered, Inv, TypeOK, HoldsWhenBusy
      <3>2. m_actorlist' \in {m_actorlist, Append(m_actorlist, lpactor[w])}
        BY <2>5 DEF ReturnRegistered
      <3>3. In(Append(m_actorlist, lpactor[w]), i) <=> In(m_actorlist, i) \/ i = lpactor[w]
        BY <2>0, <3>1, AppendIn
      <3>4. In(m_actorlist, i) \/ i = lpactor[w]  BY <2>1, <3>2, <3>3
      <3> QED  BY <3>4 DEF In, Queued, Held, Live
    <2>6. CASE Post
      <3>1. m_actorbyid \in Inst  BY <2>6 DEF Post, Inv, TypeOK
      <3>2. m_actorlist' \in {m_actorlist, Append(m_actorlist, m_actorbyid)}
        BY <2>6 DEF Post
      <3>3. In(Append(m_actorlist, m_actorbyid), i) <=> In(m_actorlist, i) \/ i = m_actorbyid
        BY <2>0, <3>1, AppendIn
      <3>4. In(m_actorlist, i) \/ i = m_actorbyid  BY <2>1, <3>2, <3>3
      <3> QED  BY <3>4 DEF In, Queued, Live
    <2>7. ASSUME NEW callback \in BOOLEAN, EraseLocked(callback) PROVE i \in Live
      BY <2>2, <2>3, <2>7 DEF EraseLocked, layerVars
    <2> QED
      BY <2>2, <2>4, <2>5, <2>6, <2>7
      DEF Next, Worker, vars, AddNotify, RouteHandle, Handle, EndSlice,
          CloseNotify, CloseErase, ReturnErased, Release, SwitchNotify, SwitchErase,
          layerVars
  <1>3. ASSUME NEW callback \in BOOLEAN, EraseLocked(callback)
        PROVE  /\ m_actorbyid' \in {None, m_actorbyid}
               /\ m_delactorfun' \in {None, m_delactorfun, m_actorbyid}
    BY <1>3 DEF EraseLocked, layerVars
  <1>4. /\ m_actorbyid' \in {None, m_actorbyid}
        /\ m_delactorfun' \in {None, m_delactorfun, m_actorbyid}
    BY <1>3
    DEF Next, Worker, vars, AddNotify, RouteHandle, Post, Dispatch, Handle, EndSlice,
        ReturnRegistered, ReturnErased, CloseNotify, CloseErase, Release,
        SwitchNotify, SwitchErase, layerVars
  <1> QED  BY <1>1, <1>2, <1>4 DEF Live

(* Which callbacks wait with a tear-down after a step. *)
LEMMA TearingComes ==
    ASSUME Inv, [Next]_vars, NEW j \in Inst, NEW i \in Inst, tearing'[j] = i
    PROVE  \/ tearing[j] = i
           \/ j = i /\ m_actorbyid = i /\ m_actorbyid' = None /\ m_delactorfun' = m_delactorfun
              /\ \A k \in Inst : k # j => tearing'[k] = tearing[k]
           \/ m_delactorfun = i /\ m_delactorfun' = None /\ Held(j)
              /\ \A k \in Inst : k # j => tearing'[k] = tearing[k]
  <1> USE EraseAssumption
  <1> DEFINE Goal ==
           \/ tearing[j] = i
           \/ j = i /\ m_actorbyid = i /\ m_actorbyid' = None /\ m_delactorfun' = m_delactorfun
              /\ \A k \in Inst : k # j => tearing'[k] = tearing[k]
           \/ m_delactorfun = i /\ m_delactorfun' = None /\ Held(j)
              /\ \A k \in Inst : k # j => tearing'[k] = tearing[k]
  <1>1. ASSUME tearing' = tearing PROVE Goal  BY <1>1
  <1>2. ASSUME NEW w \in Workers, ReturnErased(w) PROVE Goal
    <2>1. CASE m_delactorfun = None  BY <1>1, <1>2, <2>1 DEF ReturnErased
    <2>2. CASE m_delactorfun # None
      <3>1. tearing' = [tearing EXCEPT ![lpactor[w]] = m_delactorfun] /\ m_delactorfun' = None
        BY <1>2, <2>2 DEF ReturnErased
      <3>2. \A k \in Inst : k # lpactor[w] => tearing'[k] = tearing[k]
        BY <3>1 DEF Inv, TypeOK
      <3>3. CASE j = lpactor[w]
        <4>1. tearing'[j] = m_delactorfun  BY <3>1, <3>3 DEF Inv, TypeOK
        <4>2. Held(j)  BY <3>3 DEF Held
        <4> QED  BY <3>1, <3>2, <3>3, <4>1, <4>2
      <3>4. CASE j # lpactor[w]  BY <3>2, <3>4
      <3> QED  BY <3>3, <3>4
    <2> QED  BY <2>1, <2>2
  <1>3. ASSUME NEW k \in Inst, Release(k) PROVE Goal
    <2>1. tearing' = [tearing EXCEPT ![k] = "no"]  BY <1>3 DEF Release
    <2>2. i # "no"  OBVIOUS
    <2> QED  BY <2>1, <2>2 DEF Inv, TypeOK
  <1>4. ASSUME NEW callback \in BOOLEAN, EraseLocked(callback) PROVE Goal
    <2>1. CASE m_actorbyid = None \/ stat[m_actorbyid] \notin {"list", "free"}
      BY <1>1, <1>4, <2>1 DEF EraseLocked
    <2>2. CASE m_actorbyid # None /\ stat[m_actorbyid] \in {"list", "free"}
      <3>1. /\ tearing' = [tearing EXCEPT ![m_actorbyid] =
                             IF callback THEN m_actorbyid ELSE "plain"]
            /\ m_delactorfun' = m_delactorfun /\ m_actorbyid' = None
        BY <1>4, <2>2 DEF EraseLocked
      <3>2. \A k \in Inst : k # m_actorbyid => tearing'[k] = tearing[k]
        BY <3>1 DEF Inv, TypeOK
      <3>3. m_actorbyid \in Inst /\ i # "plain"  BY <2>2 DEF Inv, TypeOK
      <3>4. CASE j = m_actorbyid
        <4>1. tearing'[j] = IF callback THEN m_actorbyid ELSE "plain"
          BY <3>1, <3>4 DEF Inv, TypeOK
        <4> QED  BY <3>1, <3>2, <3>3, <3>4, <4>1
      <3>5. CASE j # m_actorbyid  BY <3>2, <3>5
      <3> QED  BY <3>4, <3>5
    <2> QED  BY <2>1, <2>2
  <1> HIDE DEF Goal
  <1>5. \/ tearing' = tearing
        \/ \E w \in Workers : ReturnErased(w)
        \/ \E k \in Inst : Release(k)
        \/ EraseLocked(TRUE) \/ EraseLocked(FALSE)
    <2>1. ASSUME NEW w \in Workers, Worker(w)
          PROVE  tearing' = tearing \/ ReturnErased(w) \/ EraseLocked(FALSE)
      BY <2>1
      DEF Worker, Dispatch, Handle, EndSlice, ReturnRegistered, CloseNotify, CloseErase
    <2>2. SwitchErase => EraseLocked(TRUE)  BY DEF SwitchErase
    <2>3. AddNotify \/ RouteHandle \/ Post \/ SwitchNotify \/ UNCHANGED vars
          \/ (\E k \in Inst : AddActor(k)) => tearing' = tearing
      BY DEF vars, AddActor, AddNotify, RouteHandle, Post, SwitchNotify
    <2>4. CASE \E w \in Workers : Worker(w)  BY <2>1, <2>4
    <2>5. CASE SwitchErase  BY <2>2, <2>5
    <2>6. CASE \E k \in Inst : AddActor(k) \/ Release(k)  BY <2>3, <2>6
    <2>7. CASE AddNotify \/ RouteHandle \/ Post \/ SwitchNotify \/ UNCHANGED vars
      BY <2>3, <2>7
    <2> QED  BY <2>4, <2>5, <2>6, <2>7 DEF Next
  <1>6. (EraseLocked(TRUE) => Goal) /\ (EraseLocked(FALSE) => Goal)  BY <1>4
  <1>7. (\E w \in Workers : ReturnErased(w)) => Goal  BY <1>2
  <1>8. (\E k \in Inst : Release(k)) => Goal  BY <1>3
  <1>9. Goal  BY <1>1, <1>5, <1>6, <1>7, <1>8
  <1> QED  BY <1>9 DEF Goal

LEMMA AloneInductive == Inv /\ Alone /\ [Next]_vars => Alone'
  <1> USE EraseAssumption
  <1> SUFFICES ASSUME Inv, Alone, [Next]_vars PROVE Alone'  OBVIOUS
  <1>1. overlapped \subseteq overlapped'
    BY DEF Next, Worker, vars, AddActor, AddNotify, RouteHandle, Post, Dispatch, Handle,
           EndSlice, ReturnRegistered, ReturnErased, CloseNotify, CloseErase, Release,
           SwitchNotify, SwitchErase, history
  <1>2. ASSUME NEW i \in Live', NEW j \in Live'
        PROVE  i = j \/ (i \in overlapped' /\ j \in overlapped')
    <2>1. CASE i \in Live /\ j \in Live  BY <1>1, <2>1 DEF Alone
    <2>2. CASE ~(i \in Live /\ j \in Live)
      <3>1. PICK a \in Inst : AddActor(a)  BY <1>2, <2>2, LiveShrinks
      <3>2. \A k \in Live' : k \in Live \/ k = a
        <4>1. m_actorbyid' = a /\ UNCHANGED <<m_actorlist, m_delactorfun, lpactor>>
          BY <3>1 DEF AddActor, workerVars
        <4> QED  BY <4>1 DEF Live, Held, Queued
      <3>3. Live # {} => overlapped' = overlapped \cup Live \cup {a}
        BY <3>1 DEF AddActor
      <3> QED  BY <1>2, <3>2, <3>3
    <2> QED  BY <2>1, <2>2
  <1>3. ASSUME NEW i \in Inst, NEW j \in Inst, tearing'[i] = j
        PROVE  i = j \/ (i \in overlapped' /\ j \in overlapped')
    <2>1. CASE tearing[i] = j  BY <1>1, <2>1 DEF Alone
    <2>2. CASE m_delactorfun = j /\ Held(i)
      BY <1>1, <2>2 DEF Alone, Live
    <2> QED  BY <1>3, <2>1, <2>2, TearingComes
  <1> QED  BY <1>2, <1>3 DEF Alone

(* Once a callback came or waits, its object is never registered again.    *)
LEMMA NotBack ==
    ASSUME Inv, [Next]_vars, NEW i \in Inst, stat[i] # "new", m_actorbyid # i
    PROVE  stat'[i] # "new" /\ m_actorbyid' # i
  <1> USE EraseAssumption
  <1>0. stat \in [Inst -> {"new", "init", "free", "list", "run", "close"}]
    BY DEF Inv, TypeOK
  <1>1. ASSUME NEW callback \in BOOLEAN, EraseLocked(callback)
        PROVE  stat'[i] # "new" /\ m_actorbyid' # i
    <2>1. stat' = stat \/ stat' = [stat EXCEPT ![m_actorbyid] = "close"]
      BY <1>1 DEF EraseLocked
    <2>2. m_actorbyid' \in {None, m_actorbyid}  BY <1>1 DEF EraseLocked, layerVars
    <2> QED  BY <1>0, <2>1, <2>2
  <1>2. m_actorbyid' # i
    BY <1>1
    DEF Next, Worker, vars, AddActor, AddNotify, RouteHandle, Post, Dispatch, Handle,
        EndSlice, ReturnRegistered, ReturnErased, CloseNotify, CloseErase, Release,
        SwitchNotify, SwitchErase, layerVars
  <1>3. stat'[i] # "new"
    <2>1. ASSUME NEW k, NEW s \in {"init", "free", "list", "run", "close"},
                 stat' = [stat EXCEPT ![k] = s]
          PROVE  stat'[i] # "new"
      BY <1>0, <2>1
    <2>2. CASE stat' = stat  BY <2>2
    <2>3. CASE EraseLocked(TRUE) \/ EraseLocked(FALSE)  BY <1>1, <2>3
    <2>4. ASSUME NEW w \in Workers, Worker(w)
          PROVE  \/ stat' = stat \/ EraseLocked(FALSE)
                 \/ \E k : \E s \in {"init", "free", "list", "run", "close"} :
                       stat' = [stat EXCEPT ![k] = s]
      BY <2>4 DEF Worker, Dispatch, Handle, EndSlice, ReturnRegistered, ReturnErased,
                  CloseNotify, CloseErase, layerVars
    <2>5. CASE RouteHandle \/ Post \/ \E k \in Inst : AddActor(k)
      BY <2>1, <2>2, <2>5 DEF RouteHandle, Post, AddActor
    <2>6. SwitchErase => EraseLocked(TRUE)  BY DEF SwitchErase
    <2>7. AddNotify \/ SwitchNotify \/ UNCHANGED vars \/ (\E k \in Inst : Release(k))
          => stat' = stat
      BY DEF vars, AddNotify, SwitchNotify, Release
    <2> QED  BY <2>1, <2>2, <2>3, <2>4, <2>5, <2>6, <2>7 DEF Next
  <1> QED  BY <1>2, <1>3

(* How a callback comes to be waiting. *)
LEMMA OwedComes ==
    ASSUME Inv, [Next]_vars, NEW i \in Inst, Owed(i)', ~Owed(i)
    PROVE  m_actorbyid = i /\ m_actorbyid' = None
  <1> USE EraseAssumption
  <1>1. ASSUME NEW j \in Inst, tearing'[j] = i PROVE m_actorbyid = i /\ m_actorbyid' = None
    BY <1>1, TearingComes DEF Owed
  <1>2. CASE m_delactorfun' = i
    <2>1. m_delactorfun' # m_delactorfun  BY <1>2 DEF Owed
    <2>2. ASSUME NEW callback \in BOOLEAN, EraseLocked(callback)
          PROVE  m_actorbyid = i /\ m_actorbyid' = None
      BY <1>2, <2>1, <2>2 DEF EraseLocked, layerVars
    <2>3. ASSUME NEW w \in Workers, ReturnErased(w) PROVE FALSE
      BY <1>2, <2>3 DEF ReturnErased
    <2>4. ASSUME NEW w \in Workers, Worker(w) PROVE EraseLocked(FALSE)
      BY <2>1, <2>3, <2>4 DEF Worker, Dispatch, Handle, EndSlice, ReturnRegistered,
                         CloseNotify, CloseErase, layerVars
    <2>5. SwitchErase => EraseLocked(TRUE)  BY DEF SwitchErase
    <2>6. EraseLocked(TRUE) \/ EraseLocked(FALSE)
      <3>1. ~(\E k \in Inst : AddActor(k) \/ Release(k))
        BY <2>1 DEF AddActor, Release, layerVars
      <3>2. ~(AddNotify \/ RouteHandle \/ Post \/ SwitchNotify \/ UNCHANGED vars)
        BY <2>1 DEF vars, AddNotify, RouteHandle, Post, SwitchNotify, layerVars
      <3> QED  BY <2>4, <2>5, <3>1, <3>2 DEF Next
    <2> QED  BY <2>2, <2>6
  <1> QED  BY <1>1, <1>2 DEF Owed

(* The callback runs where it waits. *)
LEMMA CalledComes ==
    ASSUME Inv, [Next]_vars, NEW i \in Inst
    PROVE  \/ called'[i] = called[i]
           \/ \E j \in Inst : /\ Release(j) /\ tearing[j] = i /\ tearing'[j] = "no"
                              /\ called'[i] = called[i] + 1
  <1>1. CASE called' = called  BY <1>1
  <1>2. ASSUME NEW j \in Inst, Release(j)
        PROVE  \/ called'[i] = called[i]
               \/ tearing[j] = i /\ tearing'[j] = "no" /\ called'[i] = called[i] + 1
    <2>1. called \in [Inst -> Nat] /\ tearing \in [Inst -> Inst \cup {"no", "plain"}]
      BY DEF Inv, TypeOK
    <2>2. tearing' = [tearing EXCEPT ![j] = "no"]  BY <1>2 DEF Release
    <2>3. called' = IF tearing[j] \in Inst
                    THEN [called EXCEPT ![tearing[j]] = @ + 1] ELSE called
      BY <1>2 DEF Release, Call
    <2>4. tearing'[j] = "no"  BY <2>1, <2>2
    <2>5. CASE tearing[j] = i  BY <2>1, <2>3, <2>4, <2>5
    <2>6. CASE tearing[j] # i  BY <2>1, <2>3, <2>6
    <2> QED  BY <2>5, <2>6
  <1>3. called' = called \/ \E j \in Inst : Release(j)
    BY DEF Next, Worker, vars, AddActor, AddNotify, RouteHandle, Post, Dispatch, Handle,
           EndSlice, ReturnRegistered, ReturnErased, CloseNotify, CloseErase,
           SwitchNotify, SwitchErase, objectVars
  <1> QED  BY <1>1, <1>2, <1>3

LEMMA CalledOnceInductive == Inv /\ CalledOnce /\ [Next]_vars => CalledOnce'
  <1> USE EraseAssumption
  <1> SUFFICES ASSUME Inv, CalledOnce, [Next]_vars, NEW i \in Inst
               PROVE  /\ called'[i] <= 1
                      /\ Owed(i)' => called'[i] = 0
                      /\ Owed(i)' \/ called'[i] = 1 => m_actorbyid' # i /\ stat'[i] # "new"
                      /\ \A j, k \in Inst : tearing'[j] = i /\ tearing'[k] = i => j = k
                      /\ m_delactorfun' = i => \A j \in Inst : tearing'[j] # i
    BY DEF CalledOnce
  <1>0. /\ called[i] \in Nat /\ called[i] <= 1
        /\ Owed(i) => called[i] = 0
        /\ Owed(i) \/ called[i] = 1 => m_actorbyid # i /\ stat[i] # "new"
        /\ \A j, k \in Inst : tearing[j] = i /\ tearing[k] = i => j = k
        /\ m_delactorfun = i => \A j \in Inst : tearing[j] # i
    BY DEF CalledOnce, Inv, TypeOK
  <1>1. m_actorbyid = i => stat[i] # "new"  BY DEF Inv, Places, RegisteredStat
  <1>2. ASSUME Owed(i)', ~Owed(i)
        PROVE  /\ m_actorbyid = i /\ m_actorbyid' # i /\ called[i] = 0
    <2>1. m_actorbyid = i /\ m_actorbyid' = None  BY <1>2, OwedComes
    <2> QED  BY <1>0, <2>1
  <1>3. called'[i] <= 1 /\ (Owed(i)' => called'[i] = 0)
    <2>1. CASE called'[i] = called[i]  BY <1>0, <1>2, <2>1
    <2>2. ASSUME NEW j \in Inst, Release(j), tearing[j] = i, tearing'[j] = "no",
                 called'[i] = called[i] + 1
          PROVE  called'[i] <= 1 /\ ~Owed(i)'
      <3>1. Owed(i)  BY <2>2 DEF Owed
      <3>2. called'[i] = 1  BY <1>0, <2>2, <3>1
      <3>3. m_delactorfun' = m_delactorfun /\ tearing' = [tearing EXCEPT ![j] = "no"]
        BY <2>2 DEF Release, layerVars
      <3>4. m_delactorfun # i  BY <1>0, <2>2
      <3>5. \A k \in Inst : tearing'[k] # i
        BY <1>0, <2>2, <3>3 DEF Inv, TypeOK
      <3> QED  BY <3>2, <3>3, <3>4, <3>5 DEF Owed
    <2> QED  BY <2>1, <2>2, CalledComes
  <1>4. Owed(i)' \/ called'[i] = 1 => m_actorbyid' # i /\ stat'[i] # "new"
    <2>1. CASE Owed(i) \/ called[i] = 1  BY <1>0, <2>1, NotBack
    <2>2. CASE ~Owed(i) /\ called[i] # 1
      <3>1. called'[i] # 1
        <4>1. ASSUME NEW j \in Inst, tearing[j] = i PROVE FALSE
          BY <2>2, <4>1 DEF Owed
        <4> QED  BY <2>2, <4>1, CalledComes
      <3>2. CASE Owed(i)'
        <4>1. m_actorbyid = i /\ m_actorbyid' # i  BY <1>2, <2>2, <3>2
        <4>2. stat'[i] # "new"
          <5>1. \E callback \in BOOLEAN : EraseLocked(callback)
            <6>1. ASSUME NEW w \in Workers, Worker(w) PROVE EraseLocked(FALSE)
              BY <4>1, <6>1 DEF Worker, Dispatch, Handle, EndSlice, ReturnRegistered,
                                ReturnErased, CloseNotify, CloseErase, layerVars
            <6>2. SwitchErase => EraseLocked(TRUE)  BY DEF SwitchErase
            <6>3. ~(\E k \in Inst : AddActor(k) \/ Release(k))
              BY <4>1 DEF AddActor, Release, layerVars
            <6>4. ~(AddNotify \/ RouteHandle \/ Post \/ SwitchNotify \/ UNCHANGED vars)
              BY <4>1 DEF vars, AddNotify, RouteHandle, Post, SwitchNotify, layerVars
            <6>5. EraseLocked(TRUE) \/ EraseLocked(FALSE)
              BY <6>1, <6>2, <6>3, <6>4 DEF Next
            <6> QED  BY <6>5
          <5>2. stat' = [stat EXCEPT ![i] = "close"]
            BY <4>1, <5>1 DEF EraseLocked
          <5> QED  BY <5>2 DEF Inv, TypeOK
        <4> QED  BY <4>1, <4>2
      <3> QED  BY <3>1, <3>2
    <2> QED  BY <2>1, <2>2
  <1>5. ASSUME NEW j \in Inst, NEW k \in Inst, tearing'[j] = i, tearing'[k] = i
        PROVE  j = k
    <2>1. CASE tearing[j] = i /\ tearing[k] = i  BY <1>0, <2>1
    <2>2. ASSUME NEW x \in Inst, NEW y \in Inst, x # y, tearing'[x] = i, tearing'[y] = i,
                 tearing[x] # i
          PROVE  FALSE
      <3>1. /\ m_actorbyid = i \/ m_delactorfun = i
            /\ tearing'[y] = tearing[y]
        BY <2>2, TearingComes
      <3>2. tearing[y] = i  BY <2>2, <3>1
      <3>3. Owed(i)  BY <3>2 DEF Owed
      <3> QED  BY <1>0, <3>1, <3>2, <3>3
    <2> QED  BY <1>5, <2>1, <2>2
  <1>6. ASSUME m_delactorfun' = i, NEW j \in Inst, tearing'[j] = i PROVE FALSE
    <2>1. CASE tearing[j] = i
      <3>1. Owed(i) /\ m_delactorfun # i  BY <1>0, <2>1 DEF Owed
      <3>2. m_actorbyid # i  BY <1>0, <3>1
      <3>3. ASSUME NEW callback \in BOOLEAN, EraseLocked(callback) PROVE FALSE
        BY <1>6, <3>1, <3>2, <3>3 DEF EraseLocked, layerVars
      <3>4. ASSUME NEW w \in Workers, Worker(w) PROVE FALSE
        BY <1>6, <3>1, <3>3, <3>4
        DEF Worker, Dispatch, Handle, EndSlice, ReturnRegistered, ReturnErased,
            CloseNotify, CloseErase, layerVars
      <3>5. ~SwitchErase  BY <3>3 DEF SwitchErase
      <3>6. ~(\E k \in Inst : AddActor(k) \/ Release(k))
        BY <1>6, <3>1 DEF AddActor, Release, layerVars
      <3>7. ~(AddNotify \/ RouteHandle \/ Post \/ SwitchNotify \/ UNCHANGED vars)
        BY <1>6, <3>1 DEF vars, AddNotify, RouteHandle, Post, SwitchNotify, layerVars
      <3> QED  BY <3>4, <3>5, <3>6, <3>7 DEF Next
    <2>2. CASE tearing[j] # i
      <3>1. m_actorbyid = i /\ m_delactorfun' = m_delactorfun
        BY <1>6, <2>2, TearingComes
      <3>2. Owed(i)  BY <1>6, <3>1 DEF Owed
      <3> QED  BY <1>0, <3>1, <3>2
    <2> QED  BY <2>1, <2>2
  <1> QED  BY <1>3, <1>4, <1>5, <1>6

(* Whoever erases finds the object registered, or nothing. *)
LEMMA GoneErased ==
    ASSUME Inv, NEW i \in Inst, Gone(i), NEW callback \in BOOLEAN, EraseLocked(callback)
    PROVE  /\ stat'[i] = stat[i] /\ tearing'[i] = tearing[i] /\ m_actorbyid' # i
           /\ Queued(i)' => Queued(i)
  <1> USE EraseAssumption
  <1>1. m_actorbyid # i  BY DEF Gone
  <1>2. stat' = stat \/ stat' = [stat EXCEPT ![m_actorbyid] = "close"]
    BY DEF EraseLocked
  <1>3. tearing' = tearing \/ \E c : tearing' = [tearing EXCEPT ![m_actorbyid] = c]
    BY DEF EraseLocked
  <1>4. stat'[i] = stat[i]  BY <1>1, <1>2 DEF Inv, TypeOK
  <1>5. tearing'[i] = tearing[i]  BY <1>1, <1>3 DEF Inv, TypeOK
  <1>6. m_actorbyid' \in {None, m_actorbyid}  BY DEF EraseLocked, layerVars
  <1>7. m_actorlist' \in {<<>>, m_actorlist}  BY DEF EraseLocked, layerVars
  <1>8. Queued(i)' => Queued(i)
    <2>1. CASE m_actorlist' = <<>>  BY <2>1 DEF Queued
    <2>2. CASE m_actorlist' = m_actorlist  BY <2>2 DEF Queued
    <2> QED  BY <1>7, <2>1, <2>2
  <1> QED  BY <1>1, <1>4, <1>5, <1>6, <1>8

(* No step of anybody reaches an object that was torn down. *)
LEMMA GoneStays ==
    ASSUME Inv, [Next]_vars, NEW i \in Inst, Gone(i)
    PROVE  Gone(i)' /\ inbox'[i] = inbox[i] /\ (dirty'[i] <=> dirty[i])
           /\ released'[i] = released[i]
  <1> USE EraseAssumption
  <1> DEFINE Same == inbox'[i] = inbox[i] /\ (dirty'[i] <=> dirty[i])
                     /\ released'[i] = released[i]
  <1>0. /\ stat[i] # "new" /\ m_actorbyid # i /\ tearing[i] = "no"
        /\ ~Held(i) /\ ~Queued(i) /\ ~Unannounced(i)
        /\ \A w \in Workers : lpactor[w] # i
        /\ m_actorlist \in Seq(Inst) /\ ~In(m_actorlist, i)
    BY DEF Gone, Held, Inv, TypeOK, Queued, In
  <1>1. ASSUME NEW j \in Inst, AddActor(j) PROVE Gone(i)' /\ Same
    <2>1. /\ j # i /\ m_actorbyid' = j /\ adding' = j /\ stat' = [stat EXCEPT ![j] = "init"]
          /\ UNCHANGED <<m_actorlist, lpactor, route, tearing, inbox, dirty, released>>
      BY <1>0, <1>1 DEF AddActor, workerVars, objectVars
    <2>2. stat'[i] = stat[i]  BY <2>1 DEF Inv, TypeOK
    <2> QED  BY <1>0, <2>1, <2>2 DEF Gone, Held, Queued, Unannounced
  <1>2. ASSUME AddNotify PROVE Gone(i)' /\ Same
    <2>1. UNCHANGED <<stat, m_actorbyid, tearing, lpactor, m_actorlist, inbox, dirty, released>>
      BY <1>2 DEF AddNotify, layerVars, objectVars, workerVars
    <2>2. Unannounced(i)' <=> Unannounced(i)  BY <1>2, AddNotifyUnannounced DEF Inv
    <2> QED  BY <1>0, <2>1, <2>2 DEF Gone, Held, Queued
  <1>3. ASSUME RouteHandle PROVE Gone(i)' /\ Same
    <2>1. UNCHANGED <<m_actorbyid, tearing, lpactor, m_actorlist, inbox, dirty, released>>
      BY <1>3 DEF RouteHandle, layerVars, objectVars, workerVars
    <2>2. ~Unannounced(i)'  BY <1>0, <1>3, RouteUnannounced DEF Inv
    <2>3. stat'[i] # "new"
      BY <1>0, <1>3 DEF RouteHandle, Inv, TypeOK
    <2> QED  BY <1>0, <2>1, <2>2, <2>3 DEF Gone, Held, Queued
  <1>4. ASSUME Post PROVE Gone(i)' /\ Same
    <2>1. PICK a \in Inst : a = m_actorbyid  BY <1>4 DEF Post, Inv, TypeOK
    <2>2. /\ UNCHANGED <<m_actorbyid, tearing, lpactor, dirty, released, adding, route>>
          /\ inbox' = [inbox EXCEPT ![a] = @ + 1]
          /\ stat' = stat \/ stat' = [stat EXCEPT ![a] = "list"]
          /\ m_actorlist' \in {m_actorlist, Append(m_actorlist, a)}
      BY <1>4, <2>1 DEF Post, routeVars, workerVars
    <2>3. a # i  BY <1>0, <2>1
    <2>4. inbox'[i] = inbox[i] /\ stat'[i] = stat[i]
      BY <2>2, <2>3 DEF Inv, TypeOK
    <2>5. In(Append(m_actorlist, a), i) <=> In(m_actorlist, i) \/ i = a
      BY <1>0, AppendIn
    <2>6. ~In(m_actorlist', i)  BY <1>0, <2>2, <2>3, <2>5
    <2>7. ~Queued(i)'  BY <2>6 DEF In, Queued
    <2> QED  BY <1>0, <2>2, <2>4, <2>7 DEF Gone, Held, Unannounced
  <1>5. ASSUME NEW w \in Workers, Dispatch(w) PROVE Gone(i)' /\ Same
    <2>1. /\ UNCHANGED <<m_actorbyid, tearing, inbox, dirty, released, adding, route>>
          /\ m_actorlist # <<>> /\ m_actorlist' = Tail(m_actorlist)
          /\ lpactor' = [lpactor EXCEPT ![w] = Head(m_actorlist)]
          /\ stat' = [stat EXCEPT ![Head(m_actorlist)] = "run"]
      BY <1>5 DEF Dispatch, routeVars, objectVars
    <2>2. Head(m_actorlist) # i /\ ~In(m_actorlist', i)
      BY <1>0, <2>1, TailIn
    <2>3. stat'[i] = stat[i]  BY <2>1, <2>2 DEF Inv, TypeOK
    <2>4. \A v \in Workers : lpactor'[v] # i
      BY <1>0, <2>1, <2>2 DEF Inv, TypeOK
    <2>5. ~Queued(i)'  BY <2>2 DEF In, Queued
    <2>6. ~Held(i)'  BY <2>4 DEF Held
    <2> QED  BY <1>0, <2>1, <2>3, <2>5, <2>6 DEF Gone, Unannounced
  <1>6. ASSUME NEW w \in Workers, Handle(w) \/ EndSlice(w) \/ CloseNotify(w)
        PROVE  Gone(i)' /\ Same
    <2>1. UNCHANGED <<m_actorbyid, m_actorlist, stat, lpactor, adding, tearing, released>>
      BY <1>6 DEF Handle, EndSlice, CloseNotify, NotifyErase, layerVars, objectVars,
                  routeVars, workerVars
    <2>2. UNCHANGED route \/ route' = Append(route, DelMsg)
      BY <1>6 DEF Handle, EndSlice, CloseNotify, NotifyErase, routeVars
    <2>3. Unannounced(i)' <=> Unannounced(i)
      BY <2>1, <2>2, RouteKept DEF Unannounced, SameRoute, Inv
    <2>4. inbox'[i] = inbox[i]
      <3>1. inbox' = inbox \/ inbox' = [inbox EXCEPT ![lpactor[w]] = @ - 1]
        BY <1>6 DEF Handle, EndSlice, CloseNotify, objectVars
      <3> QED  BY <1>0, <3>1 DEF Inv, TypeOK
    <2>5. dirty'[i] <=> dirty[i]
      <3>1. dirty' = dirty \/ \E d \in BOOLEAN : dirty' = [dirty EXCEPT ![lpactor[w]] = d]
        BY <1>6 DEF Handle, EndSlice, CloseNotify, objectVars
      <3>2. dirty \in [Inst -> BOOLEAN] /\ lpactor[w] # i  BY <1>0 DEF Inv, TypeOK
      <3> QED  BY <3>1, <3>2
    <2> QED  BY <1>0, <2>1, <2>3, <2>4, <2>5 DEF Gone, Held, Queued
  <1>7. ASSUME NEW w \in Workers, ReturnRegistered(w) \/ ReturnErased(w)
        PROVE  Gone(i)' /\ Same
    <2>1. /\ UNCHANGED <<m_actorbyid, inbox, dirty, released, adding, route>>
          /\ lpactor' = [lpactor EXCEPT ![w] = None]
      BY <1>7 DEF ReturnRegistered, ReturnErased, objectVars, routeVars
    <2>2. PICK a \in Inst : a = lpactor[w]
      BY <1>7 DEF ReturnRegistered, ReturnErased, Inv, TypeOK, HoldsWhenBusy
    <2>3. a # i  BY <1>0, <2>2
    <2>4. ~Held(i)'  BY <1>0, <2>1, <2>2, GivenBack DEF Inv
    <2>5. stat' = stat \/ \E x : stat' = [stat EXCEPT ![a] = x]
      BY <1>7, <2>2 DEF ReturnRegistered, ReturnErased
    <2>6. tearing' = tearing \/ \E x : tearing' = [tearing EXCEPT ![a] = x]
      BY <1>7, <2>2 DEF ReturnRegistered, ReturnErased
    <2>7. m_actorlist' \in {m_actorlist, Append(m_actorlist, a)}
      BY <1>7, <2>2 DEF ReturnRegistered, ReturnErased
    <2>8. stat'[i] = stat[i]  BY <2>3, <2>5 DEF Inv, TypeOK
    <2>9. tearing'[i] = tearing[i]  BY <2>3, <2>6 DEF Inv, TypeOK
    <2>10. In(Append(m_actorlist, a), i) <=> In(m_actorlist, i) \/ i = a
      BY <1>0, AppendIn
    <2>11. ~In(m_actorlist', i)  BY <1>0, <2>3, <2>7, <2>10
    <2>12. ~Queued(i)'  BY <2>11 DEF In, Queued
    <2> QED  BY <1>0, <2>1, <2>4, <2>8, <2>9, <2>12 DEF Gone, Unannounced
  <1>8. ASSUME NEW callback \in BOOLEAN, EraseLocked(callback),
               UNCHANGED <<inbox, dirty, released, adding, route, lpactor>>
        PROVE  Gone(i)' /\ Same
    <2>1. /\ stat'[i] = stat[i] /\ tearing'[i] = tearing[i] /\ m_actorbyid' # i
          /\ Queued(i)' => Queued(i)
      BY <1>8, GoneErased
    <2> QED  BY <1>0, <1>8, <2>1 DEF Gone, Held, Unannounced
  <1>9. ASSUME NEW w \in Workers, CloseErase(w) PROVE Gone(i)' /\ Same
    <2>1. EraseLocked(FALSE) /\ UNCHANGED <<inbox, dirty, released, adding, route, lpactor>>
      BY <1>9 DEF CloseErase, objectVars, routeVars
    <2> QED  BY <1>8, <2>1
  <1>10. ASSUME SwitchErase PROVE Gone(i)' /\ Same
    <2>1. EraseLocked(TRUE) /\ UNCHANGED <<inbox, dirty, released, adding, route, lpactor>>
      BY <1>10 DEF SwitchErase, objectVars, routeVars, workerVars
    <2> QED  BY <1>8, <2>1
  <1>11. ASSUME NEW j \in Inst, Release(j) PROVE Gone(i)' /\ Same
    <2>1. j # i  BY <1>0, <1>11 DEF Release
    <2>2. UNCHANGED <<stat, m_actorbyid, m_actorlist, lpactor, adding, route>>
      BY <1>11 DEF Release, layerVars, routeVars, workerVars
    <2>3. inbox'[i] = inbox[i] /\ released'[i] = released[i]
      BY <1>11, <2>1 DEF Release, Inv, TypeOK
    <2>4. dirty'[i] <=> dirty[i]  BY <1>11, <2>1 DEF Release, Inv, TypeOK
    <2>5. tearing'[i] = tearing[i]  BY <1>11, <2>1 DEF Release, Inv, TypeOK
    <2> QED  BY <1>0, <2>2, <2>3, <2>4, <2>5 DEF Gone, Held, Queued, Unannounced
  <1>12. ASSUME SwitchNotify PROVE Gone(i)' /\ Same
    <2>1. /\ UNCHANGED <<stat, m_actorbyid, tearing, lpactor, m_actorlist, adding>>
          /\ UNCHANGED <<inbox, dirty, released>> /\ route' = Append(route, DelMsg)
      BY <1>12 DEF SwitchNotify, NotifyErase, layerVars, objectVars, workerVars
    <2>2. Unannounced(i)' <=> Unannounced(i)
      BY <2>1, RouteKept DEF Unannounced, SameRoute, Inv
    <2> QED  BY <1>0, <2>1, <2>2 DEF Gone, Held, Queued
  <1>13. ASSUME UNCHANGED vars PROVE Gone(i)' /\ Same
    BY <1>0, <1>13 DEF vars, layerVars, objectVars, routeVars, workerVars,
                       Gone, Held, Queued, Unannounced
  <1> HIDE DEF Same
  <1>14. Gone(i)' /\ Same
    BY <1>1, <1>2, <1>3, <1>4, <1>5, <1>6, <1>7, <1>9, <1>10, <1>11, <1>12, <1>13
       DEF Next, Worker
  <1> QED  BY <1>14 DEF Same

(* release() counts once, on an object that was not gone. *)
LEMMA ReleasedOnceInductive == Inv /\ ReleasedOnce /\ [Next]_vars => ReleasedOnce'
  <1> USE EraseAssumption
  <1> SUFFICES ASSUME Inv, ReleasedOnce, [Next]_vars, NEW i \in Inst
               PROVE  /\ released'[i] <= 1
                      /\ released'[i] = 1 => Gone(i)' /\ inbox'[i] = 0 /\ ~dirty'[i]
    BY DEF ReleasedOnce
  <1>1. CASE released[i] = 1
    <2>1. Gone(i) /\ inbox[i] = 0 /\ ~dirty[i]  BY <1>1 DEF ReleasedOnce
    <2>2. Gone(i)' /\ inbox'[i] = 0 /\ ~dirty'[i] /\ released'[i] = 1
      BY <1>1, <2>1, GoneStays
    <2> QED  BY <2>2
  <1>2. CASE released[i] # 1
    <2>0. released[i] = 0  BY <1>2 DEF ReleasedOnce, Inv, TypeOK
    <2>1. CASE released' = released  BY <2>0, <2>1
    <2>2. ASSUME NEW j \in Inst, Release(j)
          PROVE  /\ released'[i] <= 1
                 /\ released'[i] = 1 => Gone(i)' /\ inbox'[i] = 0 /\ ~dirty'[i]
      <3>1. CASE j # i
        BY <2>0, <2>2, <3>1 DEF Release, Inv, TypeOK
      <3>2. CASE j = i
        <4>1. released'[i] = 1 /\ inbox'[i] = 0 /\ ~dirty'[i] /\ tearing'[i] = "no"
          BY <2>0, <2>2, <3>2 DEF Release, Inv, TypeOK
        <4>2. tearing[i] # "no"  BY <2>2, <3>2 DEF Release
        <4>3. /\ stat[i] # "new" /\ ~Held(i) /\ ~Queued(i) /\ m_actorbyid # i
              /\ ~Unannounced(i)
          BY <4>2 DEF Inv, Places, TeardownAlone, NewUntouched, UnannouncedUntouched
        <4>4. UNCHANGED <<stat, lpactor, m_actorlist, m_actorbyid, adding, route>>
          BY <2>2 DEF Release, workerVars, layerVars, routeVars
        <4>5. Gone(i)'
          BY <4>1, <4>3, <4>4 DEF Gone, Held, Queued, Unannounced
        <4> QED  BY <4>1, <4>5
      <3> QED  BY <3>1, <3>2
    <2>3. released' = released \/ \E j \in Inst : Release(j)
      BY DEF Next, Worker, vars, AddActor, AddNotify, RouteHandle, Post, Dispatch, Handle,
             EndSlice, ReturnRegistered, ReturnErased, CloseNotify, CloseErase,
             SwitchNotify, SwitchErase, objectVars
    <2> QED  BY <2>1, <2>2, <2>3
  <1> QED  BY <1>1, <1>2

LEMMA CalledAfterInductive ==
    Inv /\ Alone /\ ReleasedOnce /\ CalledAfter /\ [Next]_vars => CalledAfter'
  <1> USE EraseAssumption
  <1> SUFFICES ASSUME Inv, Alone, ReleasedOnce, CalledAfter, [Next]_vars, NEW i \in Inst,
                      called'[i] > 0, i \notin overlapped'
               PROVE  released'[i] = 1
    BY DEF CalledAfter
  <1>1. overlapped \subseteq overlapped'
    BY DEF Next, Worker, vars, AddActor, AddNotify, RouteHandle, Post, Dispatch, Handle,
           EndSlice, ReturnRegistered, ReturnErased, CloseNotify, CloseErase, Release,
           SwitchNotify, SwitchErase, history
  <1>2. CASE called'[i] = called[i]
    <2>1. released[i] = 1  BY <1>1, <1>2 DEF CalledAfter
    <2>2. Gone(i)  BY <2>1 DEF ReleasedOnce
    <2> QED  BY <2>1, <2>2, GoneStays
  <1>3. ASSUME NEW j \in Inst, Release(j), tearing[j] = i PROVE released'[i] = 1
    <2>1. j = i  BY <1>1, <1>3 DEF Alone
    <2>2. released[i] # 1
      <3>1. tearing[i] # "no"  BY <1>3, <2>1
      <3> QED  BY <3>1 DEF ReleasedOnce, Gone
    <2>3. released[i] = 0  BY <2>2 DEF ReleasedOnce, Inv, TypeOK
    <2> QED  BY <1>3, <2>1, <2>3 DEF Release, Inv, TypeOK
  <1> QED  BY <1>2, <1>3, CalledComes

LEMMA HandedInvariance == Spec => []Handed
  <1>1. Inv /\ Handed /\ [Next]_vars => Handed'
    BY AloneInductive, CalledOnceInductive, ReleasedOnceInductive, CalledAfterInductive
       DEF Handed
  <1> QED  BY <1>1, InitHanded, InvInductive, PTL DEF Spec

(* The callback of an erase hands the actor to another server: it comes    *)
(* once at most, and unless objects of the guid overlapped it comes after  *)
(* this server has torn the object down, once, and saved it.  No step      *)
(* touches an object again that was torn down.                             *)
THEOREM HandedOverStaysClean == Spec => []HandedOverClean
  <1>1. Inv /\ Handed => HandedOverClean
    <2> SUFFICES ASSUME Inv, Handed, NEW i \in Inst
                 PROVE  /\ called[i] <= 1 /\ released[i] <= 1
                        /\ released[i] > 0 =>
                              /\ inbox[i] = 0 /\ ~dirty[i]
                              /\ ~Held(i) /\ ~Queued(i) /\ m_actorbyid # i
                        /\ called[i] > 0 /\ i \notin overlapped => released[i] = 1
      BY DEF HandedOverClean
    <2>1. released[i] \in Nat  BY DEF Inv, TypeOK
    <2>2. called[i] <= 1  BY DEF Handed, CalledOnce
    <2>3. /\ released[i] <= 1
          /\ released[i] = 1 => Gone(i) /\ inbox[i] = 0 /\ ~dirty[i]
      BY DEF Handed, ReleasedOnce
    <2>4. called[i] > 0 /\ i \notin overlapped => released[i] = 1
      BY DEF Handed, CalledAfter
    <2>5. released[i] > 0 => released[i] = 1  BY <2>1, <2>3
    <2> QED  BY <2>2, <2>3, <2>4, <2>5 DEF Gone
  <1> QED  BY <1>1, InvInductive, HandedInvariance, PTL
-----------------------------------------------------------------------------
(* The route actor's address table, which two kinds of thread write by     *)
(* messages they send outside the layer's mutex.                           *)

(* What the table will say when every message is handled. *)
Listed == IF route = <<>> THEN address ELSE route[Len(route)] # DelMsg

Erasing == epc = "erase" \/ \E w \in Workers : wpc[w] = "closing"

(* An erase that told the route actor before the object was added also     *)
(* removes the object, so a registered one is told last.                   *)
RouteTells == ~Erasing /\ adding = None /\ m_actorbyid # None => Listed

LEMMA ListedAppend ==
    ASSUME TypeOK, NEW m \in RouteMsg, route' = Append(route, m)
    PROVE  Listed' <=> m # DelMsg
  <1>1. route \in Seq(RouteMsg)
    BY DEF TypeOK, RouteMsg
  <1>2. /\ Append(route, m) # <<>> /\ Len(Append(route, m)) = Len(route) + 1
        /\ Append(route, m)[Len(route) + 1] = m
    BY <1>1
  <1> QED
    BY <1>2 DEF Listed

LEMMA ListedTail == ASSUME TypeOK, RouteHandle PROVE Listed' <=> Listed
  <1>1. /\ route \in Seq(RouteMsg) /\ route # <<>> /\ route' = Tail(route)
    BY DEF RouteHandle, TypeOK, RouteMsg
  <1>2. /\ Len(route) \in Nat \ {0} /\ Head(route) = route[1] /\ Head(route) \in RouteMsg
        /\ Len(Tail(route)) = Len(route) - 1
        /\ \A n \in 1..(Len(route) - 1) : Tail(route)[n] = route[n + 1]
    BY <1>1
  <1>3. Tail(route) = <<>> <=> Len(route) = 1
    <2>1. PICK t \in Seq(RouteMsg) : t = Tail(route)
      BY <1>1
    <2>2. t = <<>> <=> Len(t) = 0
      OBVIOUS
    <2>3. Len(t) = 0 <=> Len(route) = 1
      BY <1>2, <2>1
    <2> QED
      BY <2>1, <2>2, <2>3
  <1>4. address' <=> Head(route) # DelMsg
    <2>1. Head(route).op = "add" <=> Head(route) # DelMsg
      <3>1. PICK m \in RouteMsg : m = Head(route)
        BY <1>2
      <3>2. CASE m = DelMsg
        BY <3>1, <3>2 DEF DelMsg
      <3>3. ASSUME NEW i \in Inst, m = AddMsg(i) PROVE m.op = "add" /\ m # DelMsg
        BY <3>3, Messages
      <3> QED
        BY <3>1, <3>2, <3>3, Messages DEF RouteMsg
    <2> QED
      BY <2>1 DEF RouteHandle
  <1>5. CASE Len(route) = 1
    BY <1>1, <1>2, <1>3, <1>4, <1>5 DEF Listed
  <1>6. CASE Len(route) # 1
    <2>1. Len(route) - 1 \in 1..(Len(route) - 1) /\ (Len(route) - 1) + 1 = Len(route)
      BY <1>2, <1>6
    <2>2. Tail(route)[Len(Tail(route))] = route[Len(route)] /\ Tail(route) # <<>>
      BY <1>2, <1>3, <1>6, <2>1
    <2> QED
      BY <1>1, <2>2 DEF Listed
  <1> QED
    BY <1>5, <1>6

LEMMA RouteInductive == Inv /\ RouteTells /\ [Next]_vars => RouteTells'
  <1> USE EraseAssumption
  <1> SUFFICES ASSUME Inv, RouteTells, [Next]_vars PROVE RouteTells'
    OBVIOUS
  <1>1. ASSUME Listed' <=> Listed, Erasing' <=> Erasing, UNCHANGED <<adding, m_actorbyid>>
        PROVE  RouteTells'
    BY <1>1 DEF RouteTells
  <1>2. ASSUME UNCHANGED <<route, address>> PROVE Listed' <=> Listed
    BY <1>2 DEF Listed
  <1>3. ASSUME NEW i \in Inst, AddActor(i) PROVE RouteTells'
    BY <1>3 DEF AddActor, RouteTells
  <1>4. CASE AddNotify
    <2>1. PICK a \in Inst : a = adding
      BY <1>4 DEF AddNotify, Inv, TypeOK
    <2>2. Listed'
      BY <1>4, <2>1, Messages, ListedAppend DEF AddNotify, Inv
    <2> QED
      BY <2>2 DEF RouteTells
  <1>5. CASE RouteHandle
    <2>1. Listed' <=> Listed
      BY <1>5, ListedTail DEF Inv
    <2>2. UNCHANGED <<adding, m_actorbyid, epc, wpc>>
      BY <1>5 DEF RouteHandle, layerVars, workerVars
    <2> QED
      BY <1>1, <2>1, <2>2 DEF Erasing
  <1>6. ASSUME NEW w \in Workers, CloseNotify(w) PROVE RouteTells'
    <2>1. Erasing'
      BY <1>6 DEF CloseNotify, Erasing, Inv, TypeOK
    <2> QED
      BY <2>1 DEF RouteTells
  <1>7. CASE SwitchNotify
    <2>1. Erasing'
      BY <1>7 DEF SwitchNotify, Erasing
    <2> QED
      BY <2>1 DEF RouteTells
  <1>8. ASSUME NEW w \in Workers, CloseErase(w) PROVE RouteTells'
    <2>1. m_actorbyid' = None
      BY <1>8 DEF CloseErase, EraseLocked, layerVars
    <2> QED
      BY <2>1 DEF RouteTells
  <1>9. CASE SwitchErase
    <2>1. m_actorbyid' = None
      BY <1>9 DEF SwitchErase, EraseLocked, layerVars
    <2> QED
      BY <2>1 DEF RouteTells
  <1>10. ASSUME NEW w \in Workers, \/ Dispatch(w) \/ EndSlice(w)
                                   \/ ReturnRegistered(w) \/ ReturnErased(w)
         PROVE  RouteTells'
    <2>1. UNCHANGED <<route, address, adding, m_actorbyid, epc>>
      BY <1>10 DEF Dispatch, EndSlice, ReturnRegistered, ReturnErased, routeVars, layerVars
    <2>2. PICK p \in {"run", "return", "wait"} : wpc' = [wpc EXCEPT ![w] = p]
      BY <1>10 DEF Dispatch, EndSlice, ReturnRegistered, ReturnErased
    <2>3. wpc[w] # "closing"
      BY <1>10 DEF Dispatch, EndSlice, ReturnRegistered, ReturnErased
    <2>4. \A v \in Workers : wpc'[v] = "closing" <=> wpc[v] = "closing"
      BY <2>2, <2>3 DEF Inv, TypeOK
    <2> QED
      BY <1>1, <1>2, <2>1, <2>4 DEF Erasing
  <1>11. ASSUME UNCHANGED <<route, address, adding, m_actorbyid, epc, wpc>> PROVE RouteTells'
    BY <1>1, <1>2, <1>11 DEF Erasing
  <1>12. CASE Post \/ UNCHANGED vars
    BY <1>11, <1>12 DEF Post, vars, routeVars, layerVars, workerVars
  <1>13. ASSUME NEW w \in Workers, Handle(w) PROVE RouteTells'
    BY <1>11, <1>13 DEF Handle, routeVars, layerVars, workerVars
  <1>14. ASSUME NEW i \in Inst, Release(i) PROVE RouteTells'
    BY <1>11, <1>14 DEF Release, routeVars, layerVars, workerVars
  <1> QED
    BY <1>3, <1>4, <1>5, <1>6, <1>7, <1>8, <1>9, <1>10, <1>12, <1>13, <1>14 DEF Next, Worker

(* However the messages of creations and erases pass each other, the route *)
(* actor's table ends with the guid whenever the layer has an object of it. *)
THEOREM RouteStaysFound == Spec => []RouteFinds
  <1>1. Init => RouteTells
    BY DEF Init, RouteTells
  <1>2. Spec => []RouteTells
    BY <1>1, RouteInductive, InvInductive, PTL DEF Spec
  <1>3. RouteTells => RouteFinds
    BY DEF RouteTells, RouteFinds, Erasing, Listed
  <1> QED
    BY <1>2, <1>3, PTL
=============================================================================
