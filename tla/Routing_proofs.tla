--------------------------- MODULE Routing_proofs ---------------------------
(***************************************************************************)
(* No actor is given a message twice, for any nodes, any actors and any    *)
(* number of messages, while actors come up and addresses arrive.          *)
(***************************************************************************)
EXTENDS Routing, TLAPS

Ids(s) == {s[k].id : k \in DOMAIN s}
Distinct(s) == \A k, l \in DOMAIN s : s[k].id = s[l].id => k = l

(* The messages at each stage of their way from node n *)
Sending(n) == IF batch[n].msg = <<>> THEN {} ELSE {batch[n].msg.id}
Routed(n) == Ids(route[n])
OnNet(n, m) == Ids(net[n][m])

Held(n, i) == i \in Sending(n) \/ i \in Routed(n) \/ \E m \in Nodes : i \in OnNet(n, m)

(* A message is on its way from one node, ... *)
OneSender ==
    \A m, n \in Nodes : \A i \in 1..MaxSend : Held(m, i) /\ Held(n, i) => m = n

(* ... at one stage of it, ... *)
OneStage ==
    \A n \in Nodes : \A i \in 1..MaxSend :
        /\ ~(i \in Sending(n) /\ i \in Routed(n))
        /\ \A m \in Nodes : i \in OnNet(n, m) => i \notin Sending(n) /\ i \notin Routed(n)

(* ... once in a queue, and never to the node it comes from. *)
OneCopy ==
    \A n \in Nodes :
        Distinct(route[n]) /\ net[n][n] = <<>> /\ \A m \in Nodes : Distinct(net[n][m])

(* A message not sent yet is nowhere. *)
NotYet ==
    \A i \in 1..MaxSend : i > sends =>
        (\A n \in Nodes : ~Held(n, i)) /\ \A g \in Guids : got[i][g] = 0

(* Whoever a message can still reach has not got it: what is in the        *)
(* sender's hands or with its route actor was delivered on the sender's    *)
(* node only, and there to nobody who is still to come.                    *)
Due ==
    \A n \in Nodes : \A i \in 1..MaxSend : \A g \in Guids :
        /\ (i \in Sending(n) \/ i \in Routed(n)) /\ Home[g] # n => got[i][g] = 0
        /\ i \in OnNet(n, Home[g]) => got[i][g] = 0
        /\ i \in Sending(n) /\ g \in batch[n].left => got[i][g] = 0

Inv == TypeOK /\ OneSender /\ OneStage /\ OneCopy /\ NotYet /\ Due /\ AtMostOnce
-----------------------------------------------------------------------------
(* What Append, Tail and the empty queue do to the ids in a queue. *)
LEMMA IdsOfNone == Ids(<<>>) = {} /\ Distinct(<<>>)
  BY DEF Ids, Distinct

LEMMA IdsAppend ==
    ASSUME NEW s \in Seq(Messages), NEW x \in Messages
    PROVE  /\ Ids(Append(s, x)) = Ids(s) \cup {x.id}
           /\ Distinct(s) /\ x.id \notin Ids(s) => Distinct(Append(s, x))
  <1>1. /\ Len(s) \in Nat
        /\ DOMAIN s = 1..Len(s) /\ DOMAIN Append(s, x) = 1..(Len(s) + 1)
        /\ \A k \in 1..Len(s) : Append(s, x)[k] = s[k]
        /\ Append(s, x)[Len(s) + 1] = x
    OBVIOUS
  <1>2. 1..(Len(s) + 1) = 1..Len(s) \cup {Len(s) + 1}
    BY <1>1
  <1>3. Ids(Append(s, x)) = Ids(s) \cup {x.id}
    <2>1. ASSUME NEW i \in Ids(Append(s, x)) PROVE i \in Ids(s) \cup {x.id}
      BY <1>1, <1>2 DEF Ids
    <2>2. ASSUME NEW i \in Ids(s) PROVE i \in Ids(Append(s, x))
      BY <1>1, <1>2 DEF Ids
    <2>3. x.id \in Ids(Append(s, x))
      BY <1>1, <1>2 DEF Ids
    <2> QED  BY <2>1, <2>2, <2>3
  <1>4. ASSUME Distinct(s), x.id \notin Ids(s) PROVE Distinct(Append(s, x))
    <2>1. \A k \in 1..Len(s) : s[k].id # x.id
      BY <1>1, <1>4 DEF Ids
    <2>2. SUFFICES ASSUME NEW k \in 1..(Len(s) + 1), NEW l \in 1..(Len(s) + 1),
                          Append(s, x)[k].id = Append(s, x)[l].id
                   PROVE  k = l
      BY <1>1 DEF Distinct
    <2>3. CASE k \in 1..Len(s) /\ l \in 1..Len(s)
      BY <1>1, <1>4, <2>2, <2>3 DEF Distinct
    <2>4. CASE k = Len(s) + 1
      BY <1>1, <1>2, <2>1, <2>2, <2>4
    <2>5. CASE l = Len(s) + 1
      BY <1>1, <1>2, <2>1, <2>2, <2>5
    <2> QED  BY <1>2, <2>3, <2>4, <2>5
  <1> QED  BY <1>3, <1>4

LEMMA IdsTail ==
    ASSUME NEW s \in Seq(Messages), s # <<>>, Distinct(s)
    PROVE  /\ Tail(s) \in Seq(Messages) /\ Head(s) \in Messages
           /\ Head(s).id \in Ids(s)
           /\ Ids(Tail(s)) = Ids(s) \ {Head(s).id} /\ Distinct(Tail(s))
  <1>1. /\ Len(s) \in Nat /\ Len(s) > 0 /\ Head(s) = s[1]
        /\ DOMAIN s = 1..Len(s) /\ DOMAIN Tail(s) = 1..(Len(s) - 1)
        /\ \A k \in 1..(Len(s) - 1) : Tail(s)[k] = s[k + 1]
        /\ Tail(s) \in Seq(Messages)
    OBVIOUS
  <1>2. 1 \in 1..Len(s)
    BY <1>1
  <1>3. \A k \in 1..Len(s) : k # 1 => s[k].id # s[1].id
    BY <1>1, <1>2 DEF Distinct
  <1>4. ASSUME NEW i \in Ids(Tail(s)) PROVE i \in Ids(s) \ {s[1].id}
    <2>1. PICK k \in 1..(Len(s) - 1) : i = s[k + 1].id
      BY <1>1 DEF Ids
    <2>2. k + 1 \in 1..Len(s) /\ k + 1 # 1
      BY <1>1
    <2> QED  BY <1>1, <1>3, <2>1, <2>2 DEF Ids
  <1>5. ASSUME NEW i \in Ids(s), i # s[1].id PROVE i \in Ids(Tail(s))
    <2>1. PICK k \in 1..Len(s) : i = s[k].id
      BY <1>1 DEF Ids
    <2>2. k - 1 \in 1..(Len(s) - 1) /\ (k - 1) + 1 = k
      BY <1>1, <1>5, <2>1
    <2>3. i = Tail(s)[k - 1].id
      BY <1>1, <2>1, <2>2
    <2> QED  BY <1>1, <2>2, <2>3 DEF Ids
  <1>6. Distinct(Tail(s))
    <2>1. SUFFICES ASSUME NEW k \in 1..(Len(s) - 1), NEW l \in 1..(Len(s) - 1),
                          s[k + 1].id = s[l + 1].id
                   PROVE  k = l
      BY <1>1 DEF Distinct
    <2>2. k + 1 \in 1..Len(s) /\ l + 1 \in 1..Len(s)
      BY <1>1
    <2>3. k + 1 = l + 1
      BY <1>1, <2>1, <2>2 DEF Distinct
    <2> QED  BY <1>1, <2>3
  <1>7. Head(s) \in Messages /\ Head(s).id \in Ids(s)
    BY <1>1, <1>2 DEF Ids
  <1> QED  BY <1>1, <1>4, <1>5, <1>6, <1>7

LEMMA IdsTyped ==
    ASSUME NEW s \in Seq(Messages), NEW i \in Ids(s)
    PROVE  i \in 1..MaxSend
  <1>1. PICK k \in DOMAIN s : i = s[k].id
    BY DEF Ids
  <1>2. s[k] \in Messages
    OBVIOUS
  <1> QED  BY <1>1, <1>2 DEF Messages

(* A message is not the empty value of an idle batch. *)
LEMMA MessageIsNotEmpty == \A x \in Messages : x # <<>>
  <1>1. DOMAIN <<>> = {}
    OBVIOUS
  <1>2. ASSUME NEW x \in Messages PROVE "id" \in DOMAIN x
    BY DEF Messages
  <1> QED  BY <1>1, <1>2

-----------------------------------------------------------------------------
LEMMA MsgTyped ==
    ASSUME TypeOK, sends < MaxSend, NEW kind \in {"one", "set", "type"},
           NEW to \in SUBSET Guids
    PROVE  Msg(kind, to) \in Messages /\ sends + 1 \in 1..MaxSend
  BY RoutingAssumption DEF TypeOK, Msg, Messages

LEMMA DeliverStep ==
    ASSUME TypeOK, NEW i \in 1..MaxSend, NEW G, Deliver(i, G)
    PROVE  /\ got' \in [1..MaxSend -> [Guids -> Nat]]
           /\ \A j \in 1..MaxSend : \A g \in Guids :
                 got'[j][g] = IF j = i /\ g \in G THEN got[j][g] + 1 ELSE got[j][g]
  <1>1. got \in [1..MaxSend -> [Guids -> Nat]]
    BY DEF TypeOK
  <1>2. got' = [got EXCEPT ![i] = [g \in Guids |-> got[i][g] + IF g \in G THEN 1 ELSE 0]]
    BY DEF Deliver
  <1>3. [g \in Guids |-> got[i][g] + IF g \in G THEN 1 ELSE 0] \in [Guids -> Nat]
    BY <1>1
  <1> QED  BY <1>1, <1>2, <1>3

(* The variables' types, and that a set under way is not the idle value *)
LEMMA TypeInit == Init => TypeOK
  BY RoutingAssumption DEF Init, TypeOK

LEMMA SentTyped ==
    ASSUME TypeOK, NEW n \in Nodes, NEW to \in SUBSET Guids, Sent(n, to)
    PROVE  sends' \in 0..MaxSend /\ sure' \in [1..MaxSend -> SUBSET Guids]
  <1>1. sends + 1 \in 1..MaxSend /\ sends' = sends + 1
    BY RoutingAssumption DEF TypeOK, Sent
  <1>2. to \cap (Local(n) \cup (up \cap address[n])) \in SUBSET Guids
    OBVIOUS
  <1>3. sure' \in [1..MaxSend -> SUBSET Guids]
    BY <1>1, <1>2 DEF Sent, TypeOK
  <1> QED  BY <1>1, <1>3, RoutingAssumption

LEMMA TypeStep == TypeOK /\ [Next]_vars => TypeOK'
  <1> SUFFICES ASSUME TypeOK, [Next]_vars PROVE TypeOK'
    OBVIOUS
  <1>1. CASE UNCHANGED vars
    BY <1>1 DEF TypeOK, vars
  <1>2. ASSUME NEW g \in Guids, Register(g) PROVE TypeOK'
    BY <1>2 DEF Register, TypeOK
  <1>3. ASSUME NEW n \in Nodes, NEW g \in Guids, actor_address_add(n, g) PROVE TypeOK'
    BY <1>3 DEF actor_address_add, TypeOK
  <1>4. ASSUME NEW n \in Nodes, NEW g \in Guids, SendOne(n, g) PROVE TypeOK'
    <2> DEFINE to == {g}
    <2>0. to \in SUBSET Guids /\ Sent(n, to)
      BY <1>4 DEF SendOne
    <2> HIDE DEF to
    <2>1. /\ sends' \in 0..MaxSend /\ sure' \in [1..MaxSend -> SUBSET Guids]
          /\ sends < MaxSend
      BY <2>0, SentTyped DEF Sent
    <2>2. PICK x \in Messages : x = Msg("one", {g})
      BY <2>1, MsgTyped
    <2>3. sends + 1 \in 1..MaxSend
      BY <2>1, MsgTyped
    <2>4. CASE g \in Local(n)
      <3>1. Deliver(sends + 1, {g}) /\ UNCHANGED route
        BY <1>4, <2>4 DEF SendOne
      <3>2. got' \in [1..MaxSend -> [Guids -> Nat]]
        BY <2>3, <3>1, DeliverStep
      <3> QED  BY <1>4, <2>1, <3>1, <3>2 DEF SendOne, TypeOK
    <2>5. CASE g \notin Local(n)
      <3>1. route' = [route EXCEPT ![n] = Append(@, x)] /\ UNCHANGED got
        BY <1>4, <2>2, <2>5 DEF SendOne
      <3>2. route' \in [Nodes -> Seq(Messages)]
        BY <3>1 DEF TypeOK
      <3> QED  BY <1>4, <2>1, <3>1, <3>2 DEF SendOne, TypeOK
    <2> QED  BY <2>4, <2>5
  <1>5. ASSUME NEW n \in Nodes, NEW G \in SUBSET Guids, SendSet(n, G) PROVE TypeOK'
    <2>1. /\ sends' \in 0..MaxSend /\ sure' \in [1..MaxSend -> SUBSET Guids]
          /\ sends < MaxSend
      BY <1>5, SentTyped DEF SendSet, Sent
    <2>2. [left |-> G, lmass |-> FALSE, msg |-> Msg("set", G)] \in Batches
      BY <2>1, MsgTyped DEF Batches
    <2>3. batch' \in [Nodes -> {None} \cup Batches]
      BY <1>5, <2>2 DEF SendSet, TypeOK
    <2> QED  BY <1>5, <2>1, <2>3 DEF SendSet, TypeOK
  <1>6. ASSUME NEW n \in Nodes, NEW t \in Types, SendType(n, t) PROVE TypeOK'
    <2>1. OfType(t) \in SUBSET Guids /\ {g \in OfType(t) : Home[g] = n} \in SUBSET Guids
      BY DEF OfType
    <2>2. /\ sends' \in 0..MaxSend /\ sure' \in [1..MaxSend -> SUBSET Guids]
          /\ sends < MaxSend
      BY <1>6, <2>1, SentTyped DEF SendType, Sent
    <2>3. [left |-> {g \in OfType(t) : Home[g] = n}, lmass |-> TRUE,
           msg |-> Msg("type", OfType(t))] \in Batches
      BY <2>1, <2>2, MsgTyped DEF Batches
    <2>4. batch' \in [Nodes -> {None} \cup Batches]
      BY <1>6, <2>3 DEF SendType, TypeOK
    <2> QED  BY <1>6, <2>2, <2>4 DEF SendType, TypeOK
  <1>7. ASSUME NEW n \in Nodes, BatchStep(n) PROVE TypeOK'
    <2>1. PICK g \in batch[n].left :
            IF g \in Local(n)
            THEN /\ Deliver(batch[n].msg.id, {g})
                 /\ batch' = [batch EXCEPT ![n].left = @ \ {g}]
            ELSE /\ batch' = IF batch[n].msg.kind = "set"
                             THEN [batch EXCEPT ![n].left = {}, ![n].lmass = TRUE]
                             ELSE [batch EXCEPT ![n].left = @ \ {g}]
                 /\ UNCHANGED got
      BY <1>7 DEF BatchStep
    <2>2. batch[n] \in Batches
      BY <2>1 DEF TypeOK, None
    <2>3. batch[n].msg.id \in 1..MaxSend
      BY <2>2 DEF Batches, Messages
    <2>4. batch' \in [Nodes -> {None} \cup Batches]
      <3>1. /\ [batch[n] EXCEPT !.left = @ \ {g}] \in Batches
            /\ [batch[n] EXCEPT !.left = {}, !.lmass = TRUE] \in Batches
        BY <2>2 DEF Batches
      <3>2. \/ batch' = [batch EXCEPT ![n] = [batch[n] EXCEPT !.left = @ \ {g}]]
            \/ batch' = [batch EXCEPT ![n] = [batch[n] EXCEPT !.left = {}, !.lmass = TRUE]]
        BY <2>1
      <3> QED  BY <3>1, <3>2 DEF TypeOK
    <2>5. got' \in [1..MaxSend -> [Guids -> Nat]]
      BY <2>1, <2>3, DeliverStep DEF TypeOK
    <2> QED  BY <1>7, <2>4, <2>5 DEF BatchStep, TypeOK
  <1>8. ASSUME NEW n \in Nodes, BatchEnd(n) PROVE TypeOK'
    <2>1. batch[n] \in Batches /\ batch' = [batch EXCEPT ![n] = None]
      BY <1>8 DEF BatchEnd, Idle, TypeOK
    <2>2. PICK x \in Messages : x = batch[n].msg
      BY <2>1 DEF Batches
    <2>3. route' = route \/ route' = [route EXCEPT ![n] = Append(@, x)]
      BY <1>8, <2>2 DEF BatchEnd
    <2>4. route' \in [Nodes -> Seq(Messages)]
      <3>1. route \in [Nodes -> Seq(Messages)]
        BY DEF TypeOK
      <3>2. Append(route[n], x) \in Seq(Messages)
        BY <3>1
      <3>3. CASE route' = [route EXCEPT ![n] = Append(@, x)]
        BY <3>1, <3>2, <3>3
      <3> QED  BY <2>3, <3>1, <3>3
    <2>5. batch' \in [Nodes -> {None} \cup Batches]
      BY <2>1 DEF TypeOK
    <2> QED  BY <1>8, <2>4, <2>5 DEF BatchEnd, TypeOK
  <1>9. ASSUME NEW n \in Nodes, Forward(n) PROVE TypeOK'
    <2>1. PICK x \in Messages : x = Head(route[n])
      BY <1>9 DEF Forward, TypeOK
    <2>2. PICK f : f = [m \in Nodes |-> [x EXCEPT !.to = IF x.kind = "type" THEN @
                                                       ELSE Targets(n, m, x)]]
      OBVIOUS
    <2>3. \A m \in Nodes : f[m] \in Messages
      BY <2>1, <2>2 DEF Messages, Targets
    <2>4. net' = [net EXCEPT ![n] = [m \in Nodes |->
                    IF m \in Receivers(n, x) THEN Append(@[m], f[m]) ELSE @[m]]]
      BY <1>9, <2>1, <2>2 DEF Forward
    <2>5. [m \in Nodes |-> IF m \in Receivers(n, x) THEN Append(net[n][m], f[m])
                           ELSE net[n][m]] \in [Nodes -> Seq(Messages)]
      BY <2>3 DEF TypeOK
    <2>6. net' \in [Nodes -> [Nodes -> Seq(Messages)]]
      BY <2>4, <2>5 DEF TypeOK
    <2>7. route' \in [Nodes -> Seq(Messages)]
      BY <1>9 DEF Forward, TypeOK
    <2> QED  BY <1>9, <2>6, <2>7 DEF Forward, TypeOK
  <1>10. ASSUME NEW n \in Nodes, NEW m \in Nodes, Receive(n, m) PROVE TypeOK'
    <2>1. PICK x \in Messages : x = Head(net[n][m])
      BY <1>10 DEF Receive, TypeOK
    <2>2. x.id \in 1..MaxSend /\ Deliver(x.id, x.to \cap Local(m))
      BY <1>10, <2>1 DEF Receive, Messages
    <2>3. got' \in [1..MaxSend -> [Guids -> Nat]]
      BY <2>2, DeliverStep
    <2>4. net' \in [Nodes -> [Nodes -> Seq(Messages)]]
      BY <1>10 DEF Receive, TypeOK
    <2> QED  BY <1>10, <2>3, <2>4 DEF Receive, TypeOK
  <1> QED
    BY <1>1, <1>2, <1>3, <1>4, <1>5, <1>6, <1>7, <1>8, <1>9, <1>10 DEF Next

-----------------------------------------------------------------------------
Safe == OneSender /\ OneStage /\ OneCopy /\ NotYet /\ Due /\ AtMostOnce

(* A batch is under way exactly when it has a message. *)
LEMMA BusyBatch ==
    ASSUME TypeOK, NEW n \in Nodes
    PROVE  /\ Idle(n) => Sending(n) = {} /\ batch[n].left = {}
           /\ ~Idle(n) => /\ batch[n] \in Batches /\ batch[n].msg \in Messages
                          /\ Sending(n) = {batch[n].msg.id}
  <1>1. CASE Idle(n)
    BY <1>1 DEF Idle, None, Sending
  <1>2. CASE ~Idle(n)
    <2>1. batch[n] \in Batches /\ batch[n].msg \in Messages
      BY <1>2 DEF Idle, TypeOK, Batches
    <2>2. batch[n].msg # <<>>
      BY <2>1, MessageIsNotEmpty
    <2> QED  BY <1>2, <2>1, <2>2 DEF Sending
  <1> QED  BY <1>1, <1>2

LEMMA SafeInit == Init => Safe
  <1> SUFFICES ASSUME Init PROVE Safe
    OBVIOUS
  <1>1. \A n \in Nodes : Sending(n) = {} /\ Routed(n) = {} /\ Distinct(route[n])
    BY IdsOfNone DEF Init, Sending, None, Routed
  <1>2. \A n, m \in Nodes : OnNet(n, m) = {} /\ net[n][m] = <<>> /\ Distinct(net[n][m])
    BY IdsOfNone DEF Init, OnNet
  <1>3. \A i \in 1..MaxSend : \A g \in Guids : got[i][g] = 0
    BY DEF Init
  <1>4. \A n \in Nodes : \A i \in 1..MaxSend : ~Held(n, i)
    BY <1>1, <1>2 DEF Held
  <1>5. OneSender /\ OneStage /\ OneCopy
    BY <1>1, <1>2, <1>4 DEF OneSender, OneStage, OneCopy
  <1>6. NotYet /\ Due /\ AtMostOnce
    BY <1>3, <1>4 DEF NotYet, Due, AtMostOnce
  <1> QED  BY <1>5, <1>6 DEF Safe

(* Steps that touch neither a queue, nor a batch, nor a delivery *)
LEMMA SafeStutter ==
    ASSUME Safe, UNCHANGED <<batch, route, net, sends, got>>
    PROVE  Safe'
  <1>1. \A m \in Nodes : Sending(m)' = Sending(m) /\ Routed(m)' = Routed(m)
    BY DEF Sending, Routed
  <1>2. \A m, k \in Nodes : OnNet(m, k)' = OnNet(m, k)
    BY DEF OnNet
  <1>3. \A m \in Nodes : \A i \in 1..MaxSend : Held(m, i)' <=> Held(m, i)
    BY <1>1, <1>2 DEF Held
  <1>4. OneSender' /\ OneStage' /\ OneCopy'
    BY <1>1, <1>2, <1>3 DEF Safe, OneSender, OneStage, OneCopy
  <1>5. NotYet' /\ AtMostOnce'
    BY <1>3 DEF Safe, NotYet, AtMostOnce
  <1>6. Due'
    BY <1>1, <1>2, RoutingAssumption DEF Safe, Due
  <1> QED  BY <1>4, <1>5, <1>6 DEF Safe

(* One guid of the sender's own node: delivered at once *)
LEMMA SafeSendHere ==
    ASSUME Inv, NEW n \in Nodes, NEW g \in Guids, SendOne(n, g), g \in Local(n)
    PROVE  Safe'
  <1> USE DEF Inv
  <1> DEFINE i == sends + 1
  <1>1. i \in 1..MaxSend /\ sends' = i /\ i > sends
    BY RoutingAssumption DEF SendOne, Sent, TypeOK
  <1>2. Deliver(i, {g}) /\ UNCHANGED <<route, batch, net>>
    BY DEF SendOne
  <1> HIDE DEF i
  <1>3. \A j \in 1..MaxSend : \A h \in Guids :
           got'[j][h] = IF j = i /\ h \in {g} THEN got[j][h] + 1 ELSE got[j][h]
    BY <1>1, <1>2, DeliverStep
  <1>4. \A m \in Nodes : Sending(m)' = Sending(m) /\ Routed(m)' = Routed(m)
    BY <1>2 DEF Sending, Routed
  <1>5. \A m, k \in Nodes : OnNet(m, k)' = OnNet(m, k)
    BY <1>2 DEF OnNet
  <1>6. \A m \in Nodes : \A j \in 1..MaxSend : Held(m, j)' <=> Held(m, j)
    BY <1>4, <1>5 DEF Held
  <1>7. OneSender' /\ OneStage' /\ OneCopy'
    BY <1>2, <1>4, <1>5, <1>6 DEF OneSender, OneStage, OneCopy
  <1>8. /\ \A m \in Nodes : ~Held(m, i)
        /\ \A h \in Guids : got[i][h] = 0
    BY <1>1 DEF NotYet
  <1>9. \A j \in 1..MaxSend : j > i => j > sends /\ j # i
    BY <1>1 DEF TypeOK
  <1>10. NotYet'
    BY <1>1, <1>3, <1>6, <1>9 DEF NotYet
  <1>11. Due'
    <2>1. \A m \in Nodes : i \notin Sending(m) /\ i \notin Routed(m)
                           /\ \A h \in Guids : i \notin OnNet(m, Home[h])
      BY <1>8, RoutingAssumption DEF Held
    <2> QED  BY <1>2, <1>3, <1>4, <1>5, <2>1, RoutingAssumption DEF Due
  <1>12. AtMostOnce'
    <2>1. SUFFICES ASSUME NEW j \in 1..MaxSend, NEW h \in Guids
                   PROVE  got'[j][h] <= 1
      BY DEF AtMostOnce
    <2>2. got[j][h] <= 1 /\ (j = i => got[j][h] = 0)
      BY <1>8 DEF AtMostOnce
    <2> QED  BY <1>3, <2>2
  <1> QED  BY <1>7, <1>10, <1>11, <1>12 DEF Safe

(* What a step does that gives the message with the next number to the     *)
(* route actor or the batch of node n, and delivers nothing *)
LEMMA SafeHandedOver ==
    ASSUME Inv, NEW n \in Nodes, sends < MaxSend, sends' = sends + 1,
           UNCHANGED <<net, got>>,
           \A m \in Nodes : Distinct(route[m])',
           \A m \in Nodes : m # n => /\ Sending(m)' = Sending(m) /\ Routed(m)' = Routed(m)
                                     /\ batch'[m] = batch[m],
           \/ /\ Sending(n)' = Sending(n) /\ Routed(n)' = Routed(n) \cup {sends + 1}
              /\ batch'[n] = batch[n]
           \/ /\ Sending(n) = {} /\ Sending(n)' = {sends + 1} /\ Routed(n)' = Routed(n)
    PROVE  Safe'
  <1> USE DEF Inv
  <1> DEFINE i == sends + 1
  <1>1. i \in 1..MaxSend /\ sends' = i /\ i > sends
        /\ \A j \in 1..MaxSend : j > i => j > sends /\ j # i
    BY RoutingAssumption DEF TypeOK
  <1>2. \/ /\ Sending(n)' = Sending(n) /\ Routed(n)' = Routed(n) \cup {i}
           /\ batch'[n] = batch[n]
        \/ /\ Sending(n) = {} /\ Sending(n)' = {i} /\ Routed(n)' = Routed(n)
    OBVIOUS
  <1> HIDE DEF i
  <1>3. /\ \A m \in Nodes : ~Held(m, i)
        /\ \A h \in Guids : got[i][h] = 0
    BY <1>1 DEF NotYet
  <1>4. \A m, k \in Nodes : OnNet(m, k)' = OnNet(m, k)
    BY DEF OnNet
  <1>5. ASSUME NEW m \in Nodes, NEW j \in 1..MaxSend
        PROVE  Held(m, j)' => Held(m, j) \/ (m = n /\ j = i)
    <2>1. CASE m = n
      BY <1>2, <1>4, <2>1 DEF Held
    <2>2. CASE m # n
      BY <1>4, <2>2 DEF Held
    <2> QED  BY <2>1, <2>2
  <1>6. OneSender'
    BY <1>1, <1>3, <1>5 DEF OneSender
  <1>7. \A m \in Nodes : /\ i \notin Sending(m) /\ i \notin Routed(m)
                         /\ \A k \in Nodes : i \notin OnNet(m, k)
    BY <1>3 DEF Held
  <1>8. OneStage'
    BY <1>2, <1>4, <1>7 DEF OneStage
  <1>9. OneCopy'
    BY DEF OneCopy
  <1>10. NotYet'
    BY <1>1, <1>5 DEF NotYet
  <1>11. Due'
    <2>1. SUFFICES ASSUME NEW m \in Nodes, NEW j \in 1..MaxSend, NEW h \in Guids
                   PROVE  /\ j \in Sending(m)' \/ j \in Routed(m)'
                             => (Home[h] # m => got[j][h] = 0)
                          /\ j \in OnNet(m, Home[h])' => got[j][h] = 0
                          /\ j \in Sending(m)' /\ h \in batch'[m].left => got[j][h] = 0
      BY DEF Due
    <2>2. CASE j = i
      BY <1>3, <2>2
    <2>3. CASE j # i
      BY <1>2, <1>4, <2>3, RoutingAssumption DEF Due
    <2> QED  BY <2>2, <2>3
  <1>12. AtMostOnce'
    BY DEF AtMostOnce
  <1> QED  BY <1>6, <1>8, <1>9, <1>10, <1>11, <1>12 DEF Safe

(* One guid elsewhere, or not known yet: the route actor's *)
LEMMA SafeSendAway ==
    ASSUME Inv, NEW n \in Nodes, NEW g \in Guids, SendOne(n, g), g \notin Local(n)
    PROVE  Safe'
  <1> USE DEF Inv
  <1>1. sends < MaxSend /\ sends' = sends + 1 /\ UNCHANGED <<batch, net, got>>
    BY DEF SendOne, Sent
  <1>2. PICK to \in SUBSET Guids : to = {g}
    OBVIOUS
  <1>3. PICK x \in Messages : x = Msg("one", to) /\ x.id = sends + 1
    BY <1>1, MsgTyped DEF Msg
  <1>4. route' = [route EXCEPT ![n] = Append(@, x)] /\ route \in [Nodes -> Seq(Messages)]
    BY <1>2, <1>3 DEF SendOne, TypeOK
  <1>5. \A m \in Nodes : route'[m] = IF m = n THEN Append(route[n], x) ELSE route[m]
    BY <1>4
  <1>6. x.id \notin Ids(route[n]) /\ Distinct(route[n])
    <2>1. x.id \in 1..MaxSend /\ x.id > sends
      BY <1>3 DEF Messages, TypeOK
    <2> QED  BY <2>1 DEF NotYet, Held, Routed, OneCopy
  <1>7. /\ Ids(Append(route[n], x)) = Ids(route[n]) \cup {sends + 1}
        /\ Distinct(Append(route[n], x))
    BY <1>3, <1>4, <1>6, IdsAppend
  <1>8. \A m \in Nodes : Distinct(route[m])'
    BY <1>5, <1>7 DEF OneCopy
  <1>9. \A m \in Nodes : Sending(m)' = Sending(m) /\ batch'[m] = batch[m]
    BY <1>1 DEF Sending
  <1>10. Routed(n)' = Routed(n) \cup {sends + 1}
    BY <1>5, <1>7 DEF Routed
  <1>11. \A m \in Nodes : m # n => Routed(m)' = Routed(m)
    BY <1>5 DEF Routed
  <1> QED  BY <1>1, <1>8, <1>9, <1>10, <1>11, SafeHandedOver

(* A set or a type: the batch of the node *)
LEMMA SafeSendMany ==
    ASSUME Inv, NEW n \in Nodes, NEW x \in Messages, NEW b \in Batches, Idle(n),
           sends < MaxSend, sends' = sends + 1, UNCHANGED <<route, net, got>>,
           b.msg = x, x.id = sends + 1, batch' = [batch EXCEPT ![n] = b]
    PROVE  Safe'
  <1> USE DEF Inv
  <1>1. \A m \in Nodes : batch'[m] = IF m = n THEN b ELSE batch[m]
    BY DEF TypeOK
  <1>2. \A m \in Nodes : Routed(m)' = Routed(m)
    BY DEF Routed
  <1>3. \A m \in Nodes : Distinct(route[m])'
    BY DEF OneCopy
  <1>4. \A m \in Nodes : m # n => Sending(m)' = Sending(m) /\ batch'[m] = batch[m]
    BY <1>1 DEF Sending
  <1>5. Sending(n) = {}
    BY BusyBatch
  <1>6. Sending(n)' = {sends + 1}
    BY <1>1, MessageIsNotEmpty DEF Sending
  <1> QED  BY <1>2, <1>3, <1>4, <1>5, <1>6, SafeHandedOver

(* One guid of a batch: delivered here, or left to the route actor *)
LEMMA SafeBatchStep ==
    ASSUME Inv, NEW n \in Nodes, BatchStep(n)
    PROVE  Safe'
  <1> USE DEF Inv
  <1>1. PICK g \in batch[n].left :
            IF g \in Local(n)
            THEN /\ Deliver(batch[n].msg.id, {g})
                 /\ batch' = [batch EXCEPT ![n].left = @ \ {g}]
            ELSE /\ batch' = IF batch[n].msg.kind = "set"
                             THEN [batch EXCEPT ![n].left = {}, ![n].lmass = TRUE]
                             ELSE [batch EXCEPT ![n].left = @ \ {g}]
                 /\ UNCHANGED got
    BY DEF BatchStep
  <1>2. batch[n] \in Batches /\ batch[n].msg \in Messages /\ ~Idle(n)
        /\ Sending(n) = {batch[n].msg.id}
    BY <1>1, BusyBatch
  <1>3. PICK i \in 1..MaxSend : i = batch[n].msg.id
    BY <1>2 DEF Messages
  <1>4. g \in Guids /\ UNCHANGED <<route, net, sends>>
    BY <1>1, <1>2 DEF BatchStep, Batches
  <1>5. \A m \in Nodes : /\ batch'[m].msg = batch[m].msg
                         /\ m # n => batch'[m] = batch[m]
                         /\ batch'[m].left \subseteq batch[m].left
    BY <1>1, <1>2 DEF TypeOK, Batches
  <1>6. g \in Local(n) => g \notin batch'[n].left
    BY <1>1, <1>2 DEF TypeOK, Batches
  <1>7. \A m \in Nodes : Sending(m)' = Sending(m) /\ Routed(m)' = Routed(m)
    BY <1>4, <1>5 DEF Sending, Routed
  <1>8. \A m, k \in Nodes : OnNet(m, k)' = OnNet(m, k)
    BY <1>4 DEF OnNet
  <1>9. \A m \in Nodes : \A j \in 1..MaxSend : Held(m, j)' <=> Held(m, j)
    BY <1>7, <1>8 DEF Held
  <1>10. OneSender' /\ OneStage' /\ OneCopy'
    BY <1>4, <1>7, <1>8, <1>9 DEF Safe, OneSender, OneStage, OneCopy
  <1>11. i \in Sending(n) /\ got[i][g] = 0
    BY <1>1, <1>2, <1>3, <1>4 DEF Due
  <1>12. \A m \in Nodes : Held(m, i) => m = n
    BY <1>11 DEF OneSender, Held
  <1>13. i <= sends
    BY <1>11, <1>3 DEF NotYet, Held, TypeOK
  <1>14. CASE g \in Local(n)
    <2>1. Deliver(i, {g})
      BY <1>1, <1>3, <1>14
    <2>2. \A j \in 1..MaxSend : \A h \in Guids :
             got'[j][h] = IF j = i /\ h \in {g} THEN got[j][h] + 1 ELSE got[j][h]
      BY <2>1, DeliverStep
    <2>3. got'[i][g] = 1 /\ Home[g] = n
      BY <1>4, <1>11, <1>14, <2>2 DEF Local
    <2>4. \A j \in 1..MaxSend : j > sends => j # i
      BY <1>13 DEF TypeOK
    <2>5. NotYet'
      BY <1>4, <1>9, <2>2, <2>4 DEF NotYet
    <2>6. AtMostOnce'
      BY <2>2, <2>3 DEF AtMostOnce
    <2>7. Due'
      <3>1. SUFFICES ASSUME NEW m \in Nodes, NEW j \in 1..MaxSend, NEW h \in Guids
                     PROVE  /\ j \in Sending(m) \/ j \in Routed(m)
                               => (Home[h] # m => got'[j][h] = 0)
                            /\ j \in OnNet(m, Home[h]) => got'[j][h] = 0
                            /\ j \in Sending(m) /\ h \in batch'[m].left => got'[j][h] = 0
        BY <1>7, <1>8, RoutingAssumption DEF Due
      <3>2. CASE ~(j = i /\ h = g)
        BY <1>5, <2>2, <3>2 DEF Due
      <3>3. CASE j = i /\ h = g
        <4>1. ~Held(m, i) \/ m = n
          BY <1>12
        <4>2. i \notin OnNet(n, n)
          BY IdsOfNone DEF OneCopy, OnNet
        <4>3. CASE m = n
          BY <1>6, <1>14, <2>3, <3>3, <4>2, <4>3
        <4>4. CASE ~Held(m, i)
          BY <3>3, <4>4, <2>3 DEF Held
        <4> QED  BY <4>1, <4>3, <4>4
      <3> QED  BY <3>2, <3>3
    <2> QED  BY <1>10, <2>5, <2>6, <2>7 DEF Safe
  <1>15. CASE g \notin Local(n)
    <2>1. got' = got
      BY <1>1, <1>15
    <2>2. NotYet' /\ AtMostOnce'
      BY <1>4, <1>9, <2>1 DEF NotYet, AtMostOnce
    <2>3. Due'
      BY <1>5, <1>7, <1>8, <2>1, RoutingAssumption DEF Due
    <2> QED  BY <1>10, <2>2, <2>3 DEF Safe
  <1> QED  BY <1>14, <1>15

(* The end of a batch: what is left goes to the route actor, or ends here *)
LEMMA SafeBatchEnd ==
    ASSUME Inv, NEW n \in Nodes, BatchEnd(n)
    PROVE  Safe'
  <1> USE DEF Inv
  <1>1. ~Idle(n) /\ UNCHANGED <<net, sends, got>>
    BY DEF BatchEnd
  <1>2. batch[n] \in Batches /\ batch[n].msg \in Messages /\ Sending(n) = {batch[n].msg.id}
    BY <1>1, BusyBatch
  <1>3. PICK x \in Messages : x = batch[n].msg
    BY <1>2
  <1>4. PICK i \in 1..MaxSend : i = x.id
    BY DEF Messages
  <1>5. Sending(n) = {i}
    BY <1>2, <1>3, <1>4
  <1>6. \A m \in Nodes : batch'[m] = IF m = n THEN None ELSE batch[m]
    BY DEF BatchEnd, TypeOK
  <1>7. Sending(n)' = {} /\ batch'[n].left = {}
    BY <1>6 DEF Sending, None
  <1>8. \A m \in Nodes : m # n => Sending(m)' = Sending(m) /\ batch'[m] = batch[m]
    BY <1>6 DEF Sending
  <1>9. route \in [Nodes -> Seq(Messages)]
    BY DEF TypeOK
  <1>10. route' = route \/ route' = [route EXCEPT ![n] = Append(@, x)]
    BY <1>3 DEF BatchEnd
  <1>11. \A m \in Nodes : m # n => route'[m] = route[m]
    BY <1>9, <1>10
  <1>12. route'[n] = route[n] \/ route'[n] = Append(route[n], x)
    BY <1>9, <1>10
  <1>13. Distinct(route[n]) /\ x.id \notin Ids(route[n])
    BY <1>4, <1>5 DEF OneCopy, OneStage, Routed
  <1>14. /\ Ids(Append(route[n], x)) = Ids(route[n]) \cup {i}
         /\ Distinct(Append(route[n], x))
    BY <1>4, <1>9, <1>13, IdsAppend
  <1>15. Distinct(route[n])' /\ (Routed(n)' = Routed(n) \/ Routed(n)' = Routed(n) \cup {i})
    BY <1>12, <1>13, <1>14 DEF Routed
  <1>16. \A m \in Nodes : m # n => Routed(m)' = Routed(m) /\ Distinct(route[m])'
    BY <1>11 DEF Routed, OneCopy
  <1>17. \A m, k \in Nodes : OnNet(m, k)' = OnNet(m, k)
    BY <1>1 DEF OnNet
  <1>18. ASSUME NEW m \in Nodes, NEW j \in 1..MaxSend PROVE Held(m, j)' => Held(m, j)
    <2>1. CASE m = n
      BY <1>5, <1>7, <1>15, <1>17, <2>1 DEF Held
    <2>2. CASE m # n
      BY <1>8, <1>16, <1>17, <2>2 DEF Held
    <2> QED  BY <2>1, <2>2
  <1>19. OneSender'
    BY <1>18 DEF OneSender
  <1>20. OneStage'
    BY <1>5, <1>7, <1>8, <1>15, <1>16, <1>17 DEF OneStage
  <1>21. OneCopy'
    BY <1>1, <1>15, <1>16 DEF OneCopy
  <1>22. NotYet' /\ AtMostOnce'
    BY <1>1, <1>18 DEF NotYet, AtMostOnce
  <1>23. Due'
    <2>1. SUFFICES ASSUME NEW m \in Nodes, NEW j \in 1..MaxSend, NEW h \in Guids
                   PROVE  /\ j \in Sending(m)' \/ j \in Routed(m)'
                             => (Home[h] # m => got[j][h] = 0)
                          /\ j \in OnNet(m, Home[h]) => got[j][h] = 0
                          /\ j \in Sending(m)' /\ h \in batch'[m].left => got[j][h] = 0
      BY <1>1, <1>17, RoutingAssumption DEF Due
    <2>2. CASE m = n
      BY <1>5, <1>7, <1>15, <2>2 DEF Due
    <2>3. CASE m # n
      BY <1>8, <1>16, <2>3 DEF Due
    <2> QED  BY <2>2, <2>3
  <1> QED  BY <1>19, <1>20, <1>21, <1>22, <1>23 DEF Safe

(* The route actor turns its next message into packets. *)
LEMMA SafeForward ==
    ASSUME Inv, NEW n \in Nodes, Forward(n)
    PROVE  Safe'
  <1> USE DEF Inv
  <1>1. UNCHANGED <<batch, sends, got>> /\ route[n] # <<>>
    BY DEF Forward
  <1>2. route \in [Nodes -> Seq(Messages)] /\ net \in [Nodes -> [Nodes -> Seq(Messages)]]
    BY DEF TypeOK
  <1>3. Distinct(route[n])
    BY DEF OneCopy
  <1>4. PICK s \in Seq(Messages) : s = route[n]
    BY <1>2
  <1>5. /\ Tail(s) \in Seq(Messages) /\ Head(s) \in Messages /\ Head(s).id \in Ids(s)
        /\ Ids(Tail(s)) = Ids(s) \ {Head(s).id} /\ Distinct(Tail(s))
    BY <1>1, <1>3, <1>4, IdsTail
  <1>6. PICK x \in Messages : x = Head(s)
    BY <1>5
  <1>7. PICK i \in 1..MaxSend : i = x.id
    BY DEF Messages
  <1>8. \A m \in Nodes : route'[m] = IF m = n THEN Tail(s) ELSE route[m]
    BY <1>2, <1>4 DEF Forward
  <1>9. i \in Routed(n) /\ Routed(n)' = Routed(n) \ {i} /\ Distinct(route[n])'
    BY <1>4, <1>5, <1>6, <1>7, <1>8 DEF Routed
  <1>10. \A m \in Nodes : m # n => Routed(m)' = Routed(m)
    BY <1>8 DEF Routed
  <1>11. \A m \in Nodes : Distinct(route[m])'
    BY <1>8, <1>9 DEF OneCopy
  <1>12. \A m \in Nodes : Sending(m)' = Sending(m)
    BY <1>1 DEF Sending
  <1>13. PICK f : f = [m \in Nodes |-> [x EXCEPT !.to = IF x.kind = "type" THEN @
                                                       ELSE Targets(n, m, x)]]
    OBVIOUS
  <1>14. \A m \in Nodes : f[m] \in Messages /\ f[m].id = i
    BY <1>7, <1>13 DEF Messages, Targets
  <1>15. net' = [net EXCEPT ![n] = [m \in Nodes |->
                   IF m \in Receivers(n, x) THEN Append(@[m], f[m]) ELSE @[m]]]
    BY <1>4, <1>6, <1>13 DEF Forward
  <1>16. /\ \A m, k \in Nodes : m # n => net'[m][k] = net[m][k]
         /\ \A k \in Nodes : net'[n][k] = IF k \in Receivers(n, x) THEN Append(net[n][k], f[k])
                                          ELSE net[n][k]
    BY <1>2, <1>15
  <1>17. n \notin Receivers(n, x)
    BY DEF Receivers
  <1>18. ASSUME NEW k \in Nodes
         PROVE  /\ Distinct(net[n][k])'
                /\ OnNet(n, k)' = OnNet(n, k) \/ OnNet(n, k)' = OnNet(n, k) \cup {i}
    <2>1. Distinct(net[n][k]) /\ i \notin Ids(net[n][k])
      BY <1>9 DEF OneCopy, OneStage, OnNet
    <2>2. PICK u \in Seq(Messages) : u = net[n][k]
      BY <1>2
    <2>3. PICK y \in Messages : y = f[k] /\ y.id = i
      BY <1>14
    <2>4. Ids(Append(u, y)) = Ids(u) \cup {i} /\ Distinct(Append(u, y))
      BY <2>1, <2>2, <2>3, IdsAppend
    <2>5. net'[n][k] = u \/ net'[n][k] = Append(u, y)
      BY <1>16, <2>2, <2>3
    <2> QED  BY <2>1, <2>2, <2>4, <2>5 DEF OnNet
  <1>19. \A m, k \in Nodes : m # n => OnNet(m, k)' = OnNet(m, k)
    BY <1>16 DEF OnNet
  <1>20. net'[n][n] = <<>>
    BY <1>16, <1>17 DEF OneCopy
  <1>21. ASSUME NEW m \in Nodes, NEW j \in 1..MaxSend PROVE Held(m, j)' => Held(m, j)
    <2>1. CASE m = n
      BY <1>9, <1>12, <1>18, <2>1 DEF Held
    <2>2. CASE m # n
      BY <1>10, <1>12, <1>19, <2>2 DEF Held
    <2> QED  BY <2>1, <2>2
  <1>22. OneSender'
    BY <1>21 DEF OneSender
  <1>23. OneStage'
    BY <1>9, <1>10, <1>12, <1>18, <1>19 DEF OneStage
  <1>24. OneCopy'
    <2>1. \A m, k \in Nodes : m # n => net'[m][k] = net[m][k] /\ Distinct(net[m][k])
      BY <1>16 DEF OneCopy
    <2> QED  BY <1>11, <1>18, <1>20, <2>1 DEF OneCopy
  <1>25. NotYet' /\ AtMostOnce'
    BY <1>1, <1>21 DEF NotYet, AtMostOnce
  <1>26. Due'
    <2>1. SUFFICES ASSUME NEW m \in Nodes, NEW j \in 1..MaxSend, NEW h \in Guids
                   PROVE  /\ j \in Sending(m) \/ j \in Routed(m)'
                             => (Home[h] # m => got[j][h] = 0)
                          /\ j \in OnNet(m, Home[h])' => got[j][h] = 0
                          /\ j \in Sending(m) /\ h \in batch[m].left => got[j][h] = 0
      BY <1>1, <1>12 DEF Due
    <2>2. Home[h] \in Nodes
      BY RoutingAssumption
    <2>3. CASE m # n
      BY <1>10, <1>19, <2>2, <2>3 DEF Due
    <2>4. CASE m = n
      <3>1. OnNet(n, n)' = {}
        BY <1>20, IdsOfNone DEF OnNet
      <3>2. j \in OnNet(n, Home[h])' => j \in OnNet(n, Home[h]) \/ (j = i /\ Home[h] # n)
        BY <1>18, <2>2, <3>1
      <3> QED  BY <1>9, <2>4, <3>2 DEF Due
    <2> QED  BY <2>3, <2>4
  <1> QED  BY <1>22, <1>23, <1>24, <1>25, <1>26 DEF Safe

(* A packet reaches its node. *)
LEMMA SafeReceive ==
    ASSUME Inv, NEW n \in Nodes, NEW m \in Nodes, Receive(n, m)
    PROVE  Safe'
  <1> USE DEF Inv
  <1>1. UNCHANGED <<batch, route, sends>> /\ net[n][m] # <<>>
    BY DEF Receive
  <1>2. PICK s \in Seq(Messages) : s = net[n][m]
    BY DEF TypeOK
  <1>3. /\ Tail(s) \in Seq(Messages) /\ Head(s) \in Messages /\ Head(s).id \in Ids(s)
        /\ Ids(Tail(s)) = Ids(s) \ {Head(s).id} /\ Distinct(Tail(s))
    BY <1>1, <1>2, IdsTail DEF OneCopy
  <1>4. PICK x \in Messages : x = Head(s)
    BY <1>3
  <1>5. PICK i \in 1..MaxSend : i = x.id
    BY DEF Messages
  <1>6. PICK G : G = x.to \cap Local(m)
    OBVIOUS
  <1>7. Deliver(i, G)
    BY <1>2, <1>4, <1>5, <1>6 DEF Receive
  <1>8. \A j \in 1..MaxSend : \A h \in Guids :
           got'[j][h] = IF j = i /\ h \in G THEN got[j][h] + 1 ELSE got[j][h]
    BY <1>7, DeliverStep
  <1>9. \A k, l \in Nodes : net'[k][l] = IF k = n /\ l = m THEN Tail(s) ELSE net[k][l]
    BY <1>2 DEF Receive, TypeOK
  <1>10. i \in OnNet(n, m) /\ OnNet(n, m)' = OnNet(n, m) \ {i} /\ Distinct(net[n][m])'
    BY <1>2, <1>3, <1>4, <1>5, <1>9 DEF OnNet
  <1>11. \A k, l \in Nodes : OnNet(k, l)' = IF k = n /\ l = m THEN OnNet(n, m) \ {i}
                                           ELSE OnNet(k, l)
    BY <1>9, <1>10 DEF OnNet
  <1>12. \A k \in Nodes : Sending(k)' = Sending(k) /\ Routed(k)' = Routed(k)
    BY <1>1 DEF Sending, Routed
  <1>13. \A k \in Nodes : \A j \in 1..MaxSend : Held(k, j)' => Held(k, j)
    BY <1>11, <1>12 DEF Held
  <1>14. m # n
    BY <1>1 DEF OneCopy
  <1>15. OneSender'
    BY <1>13 DEF OneSender
  <1>16. OneStage'
    BY <1>11, <1>12 DEF OneStage
  <1>17. OneCopy'
    BY <1>1, <1>9, <1>10, <1>14 DEF OneCopy
  <1>18. Held(n, i) /\ \A k \in Nodes : Held(k, i) => k = n
    BY <1>10 DEF OneSender, Held
  <1>19. i <= sends
    BY <1>18 DEF NotYet, TypeOK
  <1>20. \A h \in G : Home[h] = m
    BY <1>6 DEF Local
  <1>21. NotYet'
    <2>1. \A j \in 1..MaxSend : j > sends => j # i
      BY <1>19 DEF TypeOK
    <2> QED  BY <1>1, <1>8, <1>13, <2>1 DEF NotYet
  <1>22. AtMostOnce'
    <2>1. \A h \in Guids : h \in G => got[i][h] = 0
      BY <1>10, <1>20 DEF Due
    <2> QED  BY <1>8, <2>1 DEF AtMostOnce
  <1>23. Due'
    <2>1. SUFFICES ASSUME NEW k \in Nodes, NEW j \in 1..MaxSend, NEW h \in Guids
                   PROVE  /\ j \in Sending(k) \/ j \in Routed(k)
                             => (Home[h] # k => got'[j][h] = 0)
                          /\ j \in OnNet(k, Home[h])' => got'[j][h] = 0
                          /\ j \in Sending(k) /\ h \in batch[k].left => got'[j][h] = 0
      BY <1>1, <1>12 DEF Due
    <2>2. Home[h] \in Nodes
      BY RoutingAssumption
    <2>3. CASE ~(j = i /\ h \in G)
      BY <1>8, <1>11, <2>2, <2>3 DEF Due
    <2>4. CASE j = i /\ h \in G
      <3>1. i \notin Sending(k) /\ i \notin Routed(k)
        BY <1>10, <1>18 DEF OneStage, Held
      <3>2. i \notin OnNet(k, Home[h])'
        BY <1>11, <1>18, <1>20, <2>2, <2>4 DEF Held
      <3> QED  BY <2>4, <3>1, <3>2
    <2> QED  BY <2>3, <2>4
  <1> QED  BY <1>15, <1>16, <1>17, <1>21, <1>22, <1>23 DEF Safe

LEMMA InvStep == Inv /\ [Next]_vars => Inv'
  <1> SUFFICES ASSUME Inv, [Next]_vars PROVE Inv'
    OBVIOUS
  <1>1. TypeOK'
    BY TypeStep DEF Inv
  <1>2. Safe
    BY DEF Inv, Safe
  <1>3. ASSUME UNCHANGED vars PROVE Safe'
    BY <1>2, <1>3, SafeStutter DEF vars
  <1>4. ASSUME NEW g \in Guids, Register(g) PROVE Safe'
    BY <1>2, <1>4, SafeStutter DEF Register
  <1>5. ASSUME NEW n \in Nodes, NEW g \in Guids, actor_address_add(n, g) PROVE Safe'
    BY <1>2, <1>5, SafeStutter DEF actor_address_add
  <1>6. ASSUME NEW n \in Nodes, NEW g \in Guids, SendOne(n, g) PROVE Safe'
    BY <1>6, SafeSendHere, SafeSendAway
  <1>7. ASSUME NEW n \in Nodes, NEW G \in SUBSET Guids, SendSet(n, G) PROVE Safe'
    <2>1. sends < MaxSend /\ sends' = sends + 1 /\ Idle(n) /\ UNCHANGED <<route, net, got>>
      BY <1>7 DEF SendSet, Sent
    <2>2. PICK x \in Messages : x = Msg("set", G) /\ x.id = sends + 1
      BY <2>1, MsgTyped DEF Msg, Inv
    <2>3. PICK b \in Batches : b = [left |-> G, lmass |-> FALSE, msg |-> x]
      BY DEF Batches
    <2>4. batch' = [batch EXCEPT ![n] = b] /\ b.msg = x
      BY <1>7, <2>2, <2>3 DEF SendSet
    <2> QED  BY <2>1, <2>2, <2>4, SafeSendMany
  <1>8. ASSUME NEW n \in Nodes, NEW t \in Types, SendType(n, t) PROVE Safe'
    <2>1. sends < MaxSend /\ sends' = sends + 1 /\ Idle(n) /\ UNCHANGED <<route, net, got>>
      BY <1>8 DEF SendType, Sent
    <2>2. PICK G \in SUBSET Guids : G = OfType(t)
      BY DEF OfType
    <2>3. PICK x \in Messages : x = Msg("type", G) /\ x.id = sends + 1
      BY <2>1, MsgTyped DEF Msg, Inv
    <2>4. PICK b \in Batches :
             b = [left |-> {g \in G : Home[g] = n}, lmass |-> TRUE, msg |-> x]
      BY DEF Batches
    <2>5. batch' = [batch EXCEPT ![n] = b] /\ b.msg = x
      BY <1>8, <2>2, <2>3, <2>4 DEF SendType
    <2> QED  BY <2>1, <2>3, <2>5, SafeSendMany
  <1>9. ASSUME NEW n \in Nodes, BatchStep(n) PROVE Safe'
    BY <1>9, SafeBatchStep
  <1>10. ASSUME NEW n \in Nodes, BatchEnd(n) PROVE Safe'
    BY <1>10, SafeBatchEnd
  <1>11. ASSUME NEW n \in Nodes, Forward(n) PROVE Safe'
    BY <1>11, SafeForward
  <1>12. ASSUME NEW n \in Nodes, NEW m \in Nodes, Receive(n, m) PROVE Safe'
    BY <1>12, SafeReceive
  <1>13. Safe'
    BY <1>3, <1>4, <1>5, <1>6, <1>7, <1>8, <1>9, <1>10, <1>11, <1>12 DEF Next
  <1> QED  BY <1>1, <1>13 DEF Inv, Safe

(* Every queue, batch and packet of the routing holds what the code puts   *)
(* there, on every node and for every set of actors.                       *)
THEOREM RoutingTypeInvariant == Spec => []TypeOK
  <1> QED  BY TypeInit, TypeStep, PTL DEF Spec

(* push_task_id, push_task_type, naddress::forward: however actors come up *)
(* and addresses arrive while a message is on its way, and though a set or *)
(* a type send delivers locally and then hands all its targets to the      *)
(* route actor, no actor is given the message twice.                       *)
THEOREM NobodyGetsItTwice == Spec => []AtMostOnce
  <1>1. Init => Inv
    BY TypeInit, SafeInit DEF Inv, Safe
  <1>2. Inv => AtMostOnce
    BY DEF Inv
  <1> QED  BY <1>1, <1>2, InvStep, PTL DEF Spec

=============================================================================
