------------------------------- MODULE Routing -------------------------------
(***************************************************************************)
(* Where a message goes: actor_manage's three ways to address actors (one  *)
(* guid, a set of guids, all actors of a type), the route actor of each    *)
(* node, which forwards what is not local by its address table, and the    *)
(* connections between the nodes.  Actors stay on their node here; that    *)
(* they come up while messages are on their way is part of the model.      *)
(*                                                                         *)
(*   up          guids registered in m_actorbyid of their node             *)
(*   address     per node: the guids its address table lists (naddress)    *)
(*   batch       per node: a set or type send that is under way            *)
(*   route       per node: the inbox of the route actor (actor_client)     *)
(*   net         per pair of nodes: packets on the connection              *)
(*   sends       the messages sent so far, by number                       *)
(*   got         per message and guid: how often it was delivered          *)
(*   sure        per message: addressees that were up and, if remote, in   *)
(*               the sender's address table when it was sent               *)
(***************************************************************************)
EXTENDS Naturals, Sequences

CONSTANTS Nodes, Guids, Types,
          Home,      \* the node an actor lives on
          TypeOf,    \* its ENUM_ACTOR
          MaxSend    \* bound: messages sent

LAYER_COUNT == 8

ASSUME RoutingAssumption ==
    /\ Guids \subseteq Nat
    /\ Home \in [Guids -> Nodes] /\ TypeOf \in [Guids -> Types]
    /\ MaxSend \in Nat

VARIABLES up, address, batch, route, net, sends, got, sure

vars == <<up, address, batch, route, net, sends, got, sure>>

Local(n) == {g \in up : Home[g] = n}
OfType(t) == {g \in Guids : TypeOf[g] = t}

(* m_actor, m_massactors or m_forwardtype of handle_pram. *)
Messages == [id : 1..MaxSend, kind : {"one", "set", "type"}, to : SUBSET Guids]

(* The index of the dispatcher layer: guids are data ids here. *)
layer_index(g) == g % LAYER_COUNT

Before(g, h) == layer_index(g) < layer_index(h)
                \/ (layer_index(g) = layer_index(h) /\ g < h)

(* A send under way: the guids still to come, and who may be elsewhere. *)
Batches == [left : SUBSET Guids, lmass : BOOLEAN, msg : Messages]
None == [left |-> {}, lmass |-> FALSE, msg |-> <<>>]
Idle(n) == batch[n] = None

Init ==
    /\ up = {} /\ address = [n \in Nodes |-> {}]
    /\ batch = [n \in Nodes |-> None]
    /\ route = [n \in Nodes |-> <<>>]
    /\ net = [n \in Nodes |-> [m \in Nodes |-> <<>>]]
    /\ sends = 0
    /\ got = [i \in 1..MaxSend |-> [g \in Guids |-> 0]]
    /\ sure = [i \in 1..MaxSend |-> {}]
-----------------------------------------------------------------------------
(* add_actor puts the actor in its layer's tables. *)
Register(g) ==
    /\ g \notin up /\ up' = up \cup {g}
    /\ UNCHANGED <<address, batch, route, net, sends, got, sure>>

(* Mutant: the update overtakes the registration. *)
address_add_early(n, g) ==
    /\ g \notin address[n]
    /\ address' = [address EXCEPT ![n] = @ \cup {g}]
    /\ UNCHANGED <<up, batch, route, net, sends, got, sure>>

(* The address update reaches each node in its own time. *)
actor_address_add(n, g) ==
    /\ g \in up \ address[n]
    /\ address' = [address EXCEPT ![n] = @ \cup {g}]
    /\ UNCHANGED <<up, batch, route, net, sends, got, sure>>

Deliver(i, G) == got' = [got EXCEPT ![i] = [g \in Guids |-> @[g] + IF g \in G THEN 1 ELSE 0]]

Sent(n, to) ==
    /\ sends < MaxSend /\ sends' = sends + 1
    /\ sure' = [sure EXCEPT ![sends + 1] = to \cap (Local(n) \cup (up \cap address[n]))]

Msg(kind, to) == [id |-> sends + 1, kind |-> kind, to |-> to]

(* push_task_id of one guid: local, or the route actor's to forward. *)
SendOne(n, g) ==
    /\ Sent(n, {g})
    /\ IF g \in Local(n)
       THEN Deliver(sends + 1, {g}) /\ UNCHANGED route
       ELSE route' = [route EXCEPT ![n] = Append(@, Msg("one", {g}))] /\ UNCHANGED got
    /\ UNCHANGED <<up, address, batch, net>>

(* push_task_id of a set: partitioned by layer, one lock per guid. *)
SendSet(n, G) ==
    /\ Idle(n) /\ Sent(n, G)
    /\ batch' = [batch EXCEPT ![n] = [left |-> G, lmass |-> FALSE, msg |-> Msg("set", G)]]
    /\ UNCHANGED <<up, address, route, net, got>>

(* push_task_type: each layer delivers to its actors of the type. *)
SendType(n, t) ==
    /\ Idle(n) /\ Sent(n, OfType(t))
    /\ batch' = [batch EXCEPT ![n] = [left |-> {g \in OfType(t) : Home[g] = n},
                                      lmass |-> TRUE, msg |-> Msg("type", OfType(t))]]
    /\ UNCHANGED <<up, address, route, net, got>>

(* The next guid in layer order.  "lmass = lmass || push(...)" pushes to   *)
(* nobody any more once one guid was missing, within a layer and across.   *)
BatchStep(n) ==
    /\ \E g \in batch[n].left :
        /\ \A h \in batch[n].left \ {g} : Before(g, h)
        /\ IF g \in Local(n)
           THEN /\ Deliver(batch[n].msg.id, {g})
                /\ batch' = [batch EXCEPT ![n].left = @ \ {g}]
           ELSE /\ batch' = IF batch[n].msg.kind = "set"
                            THEN [batch EXCEPT ![n].left = {}, ![n].lmass = TRUE]
                            ELSE [batch EXCEPT ![n].left = @ \ {g}]
                /\ UNCHANGED got
    /\ UNCHANGED <<up, address, route, net, sends, sure>>

(* Mutant: what was delivered here is not forwarded to anyone. *)
BatchEndKeeps(n) ==
    /\ ~Idle(n) /\ batch[n].left = {}
    /\ batch' = [batch EXCEPT ![n] = None]
    /\ UNCHANGED <<up, address, route, net, sends, got, sure>>

(* One message with all the targets goes to the route actor. *)
BatchEnd(n) ==
    /\ ~Idle(n) /\ batch[n].left = {}
    /\ route' = IF batch[n].lmass THEN [route EXCEPT ![n] = Append(@, batch[n].msg)]
                ELSE route
    /\ batch' = [batch EXCEPT ![n] = None]
    /\ UNCHANGED <<up, address, net, sends, got, sure>>
-----------------------------------------------------------------------------
(* handle_send::send: the targets of the message that the address table    *)
(* has on node m.                                                          *)
Targets(n, m, msg) == {g \in msg.to \cap address[n] : Home[g] = m}

(* Mutant: the node sends to itself as well. *)
ReceiversAndSelf(n, msg) == {m \in Nodes : Targets(n, m, msg) # {}}

(* A packet for the node itself has no session to go over. *)
Receivers(n, msg) == {m \in Nodes \ {n} : Targets(n, m, msg) # {}}

(* The route actor has no handler for it: naddress::forward. *)
Forward(n) ==
    /\ route[n] # <<>>
    /\ LET msg == Head(route[n]) IN
        net' = [net EXCEPT ![n] = [m \in Nodes |->
                  IF m \in Receivers(n, msg)
                  THEN Append(@[m], [msg EXCEPT !.to = IF msg.kind = "type" THEN @
                                                       ELSE Targets(n, m, msg)])
                  ELSE @[m]]]
    /\ route' = [route EXCEPT ![n] = Tail(@)]
    /\ UNCHANGED <<up, address, batch, sends, got, sure>>

(* protocol.h: the packet is pushed with IS_SEND = false, so a miss is not *)
(* forwarded again and does not end the loop over a set.                   *)
Receive(n, m) ==
    /\ net[n][m] # <<>>
    /\ LET msg == Head(net[n][m]) IN Deliver(msg.id, msg.to \cap Local(m))
    /\ net' = [net EXCEPT ![n][m] = Tail(@)]
    /\ UNCHANGED <<up, address, batch, route, sends, sure>>

Next ==
    \/ \E g \in Guids : Register(g)
    \/ \E n \in Nodes :
        \/ \E g \in Guids : actor_address_add(n, g) \/ SendOne(n, g)
        \/ \E G \in SUBSET Guids \ {{}} : SendSet(n, G)
        \/ \E t \in Types : SendType(n, t)
        \/ BatchStep(n) \/ BatchEnd(n) \/ Forward(n)
        \/ \E m \in Nodes : Receive(n, m)

Spec == Init /\ [][Next]_vars

(* A sender finishes its call, the route actor runs, connections deliver. *)
FairSpec ==
    /\ Spec
    /\ \A n \in Nodes :
        /\ WF_vars(BatchStep(n)) /\ WF_vars(BatchEnd(n)) /\ WF_vars(Forward(n))
        /\ \A m \in Nodes : WF_vars(Receive(n, m))
-----------------------------------------------------------------------------
(* Every variable has the shape the code gives it. *)
TypeOK ==
    /\ up \subseteq Guids
    /\ address \in [Nodes -> SUBSET up]
    /\ batch \in [Nodes -> {None} \cup Batches]
    /\ route \in [Nodes -> Seq(Messages)]
    /\ net \in [Nodes -> [Nodes -> Seq(Messages)]]
    /\ sends \in 0..MaxSend
    /\ got \in [1..MaxSend -> [Guids -> Nat]]
    /\ sure \in [1..MaxSend -> SUBSET Guids]

(* No actor is given a message twice, though a set or type send delivers   *)
(* locally first and then hands all its targets to the route actor, while  *)
(* actors come up and addresses arrive.                                    *)
AtMostOnce == \A i \in 1..MaxSend, g \in Guids : got[i][g] <= 1

Reached(i, g) == got[i][g] > 0

(* Whoever is sure to be addressed gets it: a single guid wherever it      *)
(* lives, every actor of a type, and of a set those on other nodes.        *)
AddresseeReached ==
    \A n \in Nodes, i \in 1..MaxSend, g \in Guids :
        (/\ g \in sure[i]
         /\ \/ /\ batch[n].msg # <<>> /\ batch[n].msg.id = i
               /\ batch[n].msg.kind = "type" \/ Home[g] # n
            \/ /\ route[n] # <<>> /\ Head(route[n]).id = i
               /\ Head(route[n]).kind = "one")
        ~> Reached(i, g)

(* actor_manage.h: a set send reaches each addressee of the node itself. *)
LocalReached ==
    \A n \in Nodes, i \in 1..MaxSend, g \in Guids :
        (batch[n].msg # <<>> /\ batch[n].msg.id = i /\ g \in sure[i] /\ Home[g] = n)
        ~> Reached(i, g)
=============================================================================
