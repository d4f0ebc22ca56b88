-------------------------------- MODULE Nsp --------------------------------
(***************************************************************************)
(* NSP replicates the rows of one database table from the actor that owns  *)
(* them (the NSP server) to peers: readers (nsp_read) and writers          *)
(* (nsp_write).  A peer asks to be registered until it is answered; the    *)
(* server answers with the peers it knows, streams its rows in chunks, and *)
(* announces the new peer to the others.  From then on a writer sends what *)
(* its handlers changed straight to every peer that cares, and to the      *)
(* server.                                                                 *)
(*                                                                         *)
(* Announcements, changes and farewells go to sets of actors.  Such a send *)
(* gives the message to the targets on the sender's own node up to the     *)
(* first that is not there, and to none after it; those on other nodes get *)
(* it through the route actor (module Routing).                            *)
(*                                                                         *)
(* Messages of one sender to one receiver arrive in order.  A message to a *)
(* peer whose address the server's node has not learned is dropped there;  *)
(* the nodes of the peers know the addresses.  One area; field permissions *)
(* are not modelled: a row is its version.                                 *)
(***************************************************************************)
EXTENDS Naturals, Sequences, FiniteSets

CONSTANTS
    Peers,
    Server,
    Ids,             \* rows; the server's map is ordered by id
    Writers,         \* nsp_write; the other peers are nsp_read
    All,             \* instance_readall and instance_writeall
    readids,         \* peer -> rows, of the peers not in All
    writeids,
    esend_maxcount,  \* rows in a chunk
    Stored,          \* rows the database has at first
    Unaddressed,     \* peers whose address the server's node learns late
    Leavers,         \* peers whose actor may be erased
    Places,          \* nodes of the cluster
    Layouts,         \* where the actors are, and their turn in a set send
    MaxWrite,        \* bound: changes made by handlers
    MaxRegister      \* bound: np_channel_register a peer has on its way

ASSUME NspAssumption ==
    /\ Server \notin Peers /\ Ids \subseteq Nat /\ IsFiniteSet(Ids) /\ Stored \subseteq Ids
    /\ {Writers, All, Unaddressed, Leavers} \subseteq SUBSET Peers
    /\ {readids, writeids} \subseteq [Peers -> SUBSET Ids]
    /\ esend_maxcount \in Nat \ {0} /\ {MaxWrite, MaxRegister} \subseteq Nat
    /\ Layouts \subseteq [home : [Peers \cup {Server} -> Places],
                         turn : [Peers \cup {Server} -> Nat]]

VARIABLES
    rows,         \* the server's rows: version, 0 for none
    care,         \* the peers registered with the server
    addressed,    \* the peers the server's node has an address for
    life,         \* "up" or "gone"
    m_register,   \* peers whose registration was answered
    m_loadfinish, \* peers that have all the chunks of their first load
    known,        \* known[p][q]: how much of q's scope p sends to
    m_data,       \* the rows of each peer
    chan,         \* chan[from][to]
    version,      \* changes so far
    layout,       \* one of Layouts; it does not change
    promised,     \* row -> who is owed its last change
    untold,       \* <<p, q>>: the announcement of q skipped p
    missed        \* rows with a change that skipped the server; this and
                  \* the last two are seen by the properties only

auxVars == <<version, layout, promised, untold, missed>>
peerVars == <<life, m_register, m_loadfinish, known, m_data>>
vars == <<rows, care, addressed, life, m_register, m_loadfinish, known, m_data,
          chan, auxVars>>

Nodes == Peers \cup {Server}
(* "all", "part" (m_othercare) or, for a peer not known, "none". *)
Scopes == {"none", "part", "all"}
Full(p) == IF p \in All THEN "all" ELSE "part"

(* care_data::is_care and is_write, for a peer announced with a scope. *)
Cares(p, scope, d) ==
    \/ scope = "all"
    \/ scope = "part" /\ (d \in readids[p] \/ (p \in Writers /\ d \in writeids[p]))
MayWrite(p, d) == p \in Writers /\ (p \in All \/ d \in writeids[p])
(* No row has two writers.  The specification does not need it; that the   *)
(* copies of a row agree does.                                             *)
OneWriter == \A p, q \in Peers, d \in Ids : MayWrite(p, d) /\ MayWrite(q, d) => p = q

(* What travels: np_channel_register, its answer, the announcement of a    *)
(* peer, rows, np_channel_exit.                                            *)
Messages ==
    [t : {"register"}]
    \cup [t : {"reply"}, care : SUBSET Peers]
    \cup [t : {"sync"}, peer : Peers, scope : Scopes]
    \cup [t : {"data"}, first : BOOLEAN, fin : BOOLEAN,
           rows : SUBSET (Ids \X Nat), dels : SUBSET Ids]
    \cup [t : {"exit"}]
Data(first, fin, ds, dels) ==
    [t |-> "data", first |-> first, fin |-> fin, rows |-> ds, dels |-> dels]
(* What is sent to a peer that has left is dropped on arrival: here, at    *)
(* once.                                                                   *)
Alive(n) == n = Server \/ life[n] = "up"
PutAll(c, from, S, ms) ==
    [c EXCEPT ![from] = [n \in Nodes |->
        IF n \in S /\ Alive(n) THEN @[n] \o ms ELSE @[n]]]

(* actor::send_actor of a set, over actor_manage::push_task_id and that of *)
(* the layers: the targets in their turn, by layer and guid.  One that     *)
(* left is not there any more.                                             *)
Here(from, n) == layout.home[n] = layout.home[from] /\ Alive(n)
Reached(from, S) ==
    {n \in S : \/ layout.home[n] # layout.home[from]
               \/ \A m \in S : layout.turn[m] < layout.turn[n] => Here(from, m)}
Skipped(from, S) == S \ Reached(from, S)

Take(from, to) == [chan EXCEPT ![from][to] = Tail(@)]
Get(from, to, t) == chan[from][to] # <<>> /\ Head(chan[from][to]).t = t
-----------------------------------------------------------------------------
Init ==
    /\ rows = [d \in Ids |-> IF d \in Stored THEN 1 ELSE 0]
    /\ care = {}
    /\ layout \in Layouts   \* the server's own node needs no address
    /\ addressed = {p \in Peers : \/ p \notin Unaddressed
                                  \/ layout.home[p] = layout.home[Server]}
    /\ life = [p \in Peers |-> "up"]
    /\ m_register = {} /\ m_loadfinish = {}
    /\ known = [p \in Peers |-> [q \in Peers |-> "none"]]
    /\ m_data = [p \in Peers |-> [d \in Ids |-> 0]]
    /\ chan = [m \in Nodes |-> [n \in Nodes |-> <<>>]]
    /\ version = 1
    /\ promised = [d \in Ids |-> {}] /\ untold = {} /\ missed = {}

(* The node of the server learns the peer's address. *)
LearnAddress(p) ==
    /\ life[p] = "up" /\ p \notin addressed
    /\ addressed' = addressed \cup {p}
    /\ UNCHANGED <<rows, care, peerVars, chan, auxVars>>

(* np_channel_check, every ten seconds until the registration is answered. *)
Check(p) ==
    /\ life[p] = "up" /\ p \notin m_register
    /\ Len(chan[p][Server]) < MaxRegister
    /\ chan' = PutAll(chan, p, {Server}, <<[t |-> "register"]>>)
    /\ UNCHANGED <<rows, care, addressed, peerVars, auxVars>>

(* A handler of a writer changes or erases a row it may write, and then    *)
(* change() sends what changed: one packet to the server and the peers of  *)
(* all rows, and one to the peers of some rows that care for this row.     *)
Wide(p) == {Server} \cup {q \in Peers : known[p][q] = "all"}
(* Mutant: the peers that care for some rows are forgotten. *)
NarrowNobody(p, d) == {}
Narrow(p, d) == {q \in Peers : known[p][q] = "part" /\ Cares(q, "part", d)}
Owed(p, d) ==
    (IF p \in m_register THEN {Server} ELSE {})
    \cup {q \in m_loadfinish : /\ Cares(q, Full(q), d)
                              /\ (q = p \/ known[p][q] # "none")}
Handler(p, d) ==
    \E erase \in BOOLEAN :
        LET v == IF erase THEN 0 ELSE version + 1
            m == IF erase THEN Data(FALSE, TRUE, {}, {d})
                 ELSE Data(FALSE, TRUE, {<<d, v>>}, {})
        IN  /\ life[p] = "up" /\ MayWrite(p, d)
            /\ version <= MaxWrite
            /\ version' = version + 1
            /\ promised' = [promised EXCEPT ![d] =
                   Owed(p, d) \ (Skipped(p, Wide(p)) \cup Skipped(p, Narrow(p, d)))]
            /\ missed' = missed \cup {e \in {d} : Server \in Skipped(p, Wide(p))}
            /\ m_data' = [m_data EXCEPT ![p][d] = v]
            /\ chan' = PutAll(chan, p, Reached(p, Wide(p)) \cup Reached(p, Narrow(p, d)),
                              <<m>>)
            /\ UNCHANGED <<rows, care, addressed, life, m_register,
                           m_loadfinish, known, layout, untold>>

(* exit(): a writer first announces itself without rows of its own to the  *)
(* writers of all rows, the peers of some and the server, which has no     *)
(* handler for it; then everyone it has heard of is told that it leaves,   *)
(* and the instance is destroyed.                                          *)
Exit(p) ==
    LET heard == {q \in Peers : known[p][q] # "none"}
        bye == [t |-> "exit"]
        narrow == [t |-> "sync", peer |-> p, scope |-> "part"]
        announced == IF p \notin Writers THEN {}
                     ELSE {q \in heard : known[p][q] = "part" \/ q \in Writers}
        sent == PutAll(PutAll(chan, p, announced \cap Reached(p, announced \cup {Server}),
                              <<narrow>>),
                       p, Reached(p, heard \cup {Server}), <<bye>>)
    IN  /\ life[p] = "up" /\ p \in Leavers
        /\ life' = [life EXCEPT ![p] = "gone"]
        /\ chan' = [m \in Nodes |-> [sent[m] EXCEPT ![p] = <<>>]]
        /\ m_register' = m_register \ {p}
        /\ m_loadfinish' = m_loadfinish \ {p}
        /\ known' = [known EXCEPT ![p] = [q \in Peers |-> "none"]]
        /\ m_data' = [m_data EXCEPT ![p] = [d \in Ids |-> 0]]
        /\ UNCHANGED <<rows, care, addressed, auxVars>>
-----------------------------------------------------------------------------
(* The server *)

(* The map of rows is walked in the order of the ids. *)
Ascending(S) == CHOOSE f \in [1..Cardinality(S) -> S] :
                    \A i, j \in 1..Cardinality(S) : i < j => f[i] < f[j]

(* The rows of a first load in the order they are sent, and their chunks;  *)
(* the last one, possibly empty, carries m_recvfinish.                     *)
RowOrder(p) ==
    LET Present(S) == Ascending({d \in S : rows[d] # 0})
    IN  IF p \in All THEN Present(Ids)
        ELSE Present(readids[p])
             \o IF p \in Writers THEN Present(writeids[p]) ELSE <<>>
(* Mutant: no chunk for the rows that do not fill one. *)
ChunksWhole(ds) ==
    LET full == Len(ds) \div esend_maxcount
        Rows(k) == {<<ds[i], rows[ds[i]]>> :
                        i \in {j \in DOMAIN ds : (j - 1) \div esend_maxcount = k}}
    IN  [k \in 1..full |-> Data(TRUE, k = full, Rows(k - 1), {})]
Chunks(ds) ==
    LET full == Len(ds) \div esend_maxcount
        Rows(k) == {<<ds[i], rows[ds[i]]>> :
                        i \in {j \in DOMAIN ds : (j - 1) \div esend_maxcount = k}}
    IN  [k \in 1..full + 1 |-> Data(TRUE, k = full + 1, Rows(k - 1), {})]

(* Mutants: the peer is told of itself; it is told of the writers only. *)
AnswerSelf(p) == <<[t |-> "reply", care |-> care \cup {p}]>> \o Chunks(RowOrder(p))
AnswerWriters(p) == <<[t |-> "reply", care |-> care \cap Writers]>> \o Chunks(RowOrder(p))
Answer(p) == <<[t |-> "reply", care |-> care]>> \o Chunks(RowOrder(p))

(* np_channel_register: a peer that is registered already is not answered. *)
ServerRegister(p) ==
    LET sync == [t |-> "sync", peer |-> p, scope |-> Full(p)]
    IN  /\ Get(p, Server, "register")
        /\ care' = care \cup {p}
        /\ IF p \in care
           THEN chan' = Take(p, Server) /\ UNCHANGED untold
           ELSE /\ chan' = PutAll(PutAll(Take(p, Server), Server,
                                         {p} \cap addressed, Answer(p)),
                                  Server, addressed \cap Reached(Server, care), <<sync>>)
                /\ untold' = untold \cup (Skipped(Server, care) \X {p})
        /\ UNCHANGED <<rows, addressed, peerVars, version, layout, promised, missed>>

(* Rows of a peer that is not registered are refused. *)
ServerData(p) ==
    LET m == Head(chan[p][Server])
    IN  /\ Get(p, Server, "data")
        /\ rows' = IF p \notin care THEN rows
                   ELSE [d \in Ids |->
                            IF d \in m.dels THEN 0
                            ELSE IF \E v \in 1..MaxWrite + 1 : <<d, v>> \in m.rows
                                 THEN CHOOSE v \in 1..MaxWrite + 1 : <<d, v>> \in m.rows
                                 ELSE rows[d]]
        /\ chan' = Take(p, Server)
        /\ UNCHANGED <<care, addressed, peerVars, auxVars>>

ServerExit(p) ==
    /\ Get(p, Server, "exit")
    /\ care' = care \ {p}
    /\ chan' = Take(p, Server)
    /\ UNCHANGED <<rows, addressed, peerVars, auxVars>>
-----------------------------------------------------------------------------
(* The peers *)

PeerReply(p) ==
    LET m == Head(chan[Server][p])
    IN  /\ Get(Server, p, "reply")
        /\ m_register' = m_register \cup {p}
        /\ known' = [known EXCEPT ![p] = [q \in Peers |->
                        IF q \in m.care THEN Full(q) ELSE @[q]]]
        /\ chan' = Take(Server, p)
        /\ UNCHANGED <<rows, care, addressed, life, m_loadfinish, m_data, auxVars>>

PeerSync(p, from) ==
    LET m == Head(chan[from][p])
    IN  /\ Get(from, p, "sync")
        /\ known' = [known EXCEPT ![p][m.peer] = m.scope]
        /\ chan' = Take(from, p)
        /\ UNCHANGED <<rows, care, addressed, life, m_register, m_loadfinish,
                       m_data, auxVars>>

(* A reader has no handler for it: what it has heard of only grows. *)
PeerExit(p, from) ==
    /\ Get(from, p, "exit")
    /\ known' = IF p \in Writers THEN [known EXCEPT ![p][from] = "none"] ELSE known
    /\ chan' = Take(from, p)
    /\ UNCHANGED <<rows, care, addressed, life, m_register, m_loadfinish,
                   m_data, auxVars>>

PeerData(p, from) ==
    LET m == Head(chan[from][p])
        Mine(d) == Cares(p, Full(p), d)
    IN  /\ Get(from, p, "data")
        /\ m_data' = [m_data EXCEPT ![p] = [d \in Ids |->
                IF Mine(d) /\ d \in m.dels THEN 0
                ELSE IF Mine(d) /\ \E v \in 1..MaxWrite + 1 : <<d, v>> \in m.rows
                     THEN CHOOSE v \in 1..MaxWrite + 1 : <<d, v>> \in m.rows
                     ELSE @[d]]]
        /\ m_loadfinish' = IF m.first /\ m.fin THEN m_loadfinish \cup {p}
                           ELSE m_loadfinish
        /\ chan' = Take(from, p)
        /\ UNCHANGED <<rows, care, addressed, life, m_register, known, auxVars>>

ServerDeliver(p) == ServerRegister(p) \/ ServerData(p) \/ ServerExit(p)
PeerDeliver(p, from) ==
    (from = Server /\ PeerReply(p)) \/ PeerSync(p, from) \/ PeerExit(p, from)
    \/ PeerData(p, from)

Next ==
    \E p \in Peers :
        \/ LearnAddress(p) \/ Check(p) \/ Exit(p)
        \/ \E d \in Ids : Handler(p, d)
        \/ ServerDeliver(p)
        \/ \E from \in Nodes : PeerDeliver(p, from)

Spec == Init /\ [][Next]_vars

(* Timers keep firing, every connection delivers, addresses spread. *)
FairSpec ==
    /\ Spec
    /\ \A p \in Peers :
        /\ WF_vars(LearnAddress(p)) /\ WF_vars(Check(p))
        /\ WF_vars(ServerDeliver(p))
        /\ \A from \in Nodes : WF_vars(PeerDeliver(p, from))
-----------------------------------------------------------------------------
(* Every variable has the shape the code gives it. *)
TypeOK ==
    /\ rows \in [Ids -> Nat] /\ m_data \in [Peers -> [Ids -> Nat]]
    /\ {care, addressed, m_register, m_loadfinish} \subseteq SUBSET Peers
    /\ life \in [Peers -> {"up", "gone"}]
    /\ known \in [Peers -> [Peers -> Scopes]] /\ \A p \in Peers : known[p][p] = "none"
    /\ chan \in [Nodes -> [Nodes -> Seq(Messages)]]
    /\ version \in 1..MaxWrite + 1
    /\ promised \in [Ids -> SUBSET Nodes]
    /\ layout \in Layouts /\ untold \subseteq Peers \X Peers /\ missed \subseteq Ids

UnderWay(p, ts) ==
    \E from \in Nodes : \E i \in DOMAIN chan[from][p] : chan[from][p][i].t \in ts

(* However the registrations of peers overlap, a writer ends up knowing    *)
(* every registered peer with its whole scope, from the answer or from the *)
(* announcement that follows it, unless the server's send of that          *)
(* announcement skipped it.                                                *)
EveryoneKnown ==
    \A p \in Writers \cap m_register, q \in m_register :
        p # q /\ life[p] = "up" /\ life[q] = "up" /\ ~UnderWay(p, {"reply", "sync"})
        => known[p][q] = Full(q) \/ <<p, q>> \in untold

Touched(d) ==
    \E m, n \in Nodes : \E i \in DOMAIN chan[m][n] : LET x == chan[m][n][i] IN
        x.t = "data" /\ (d \in x.dels \/ \E y \in x.rows : y[1] = d)

(* A peer the server could answer is never left waiting: once all is       *)
(* delivered it was answered and its first load is finished; and a peer    *)
(* whose first load is finished has every row it cares for that nobody has *)
(* changed at the server, wherever the chunks were cut, unless a change of *)
(* the row skipped the server.                                             *)
LoadComplete ==
    /\ \A p \in care \ Unaddressed :
        life[p] = "up" /\ (\A from \in Nodes : chan[from][p] = <<>>)
        => p \in m_register \cap m_loadfinish
    /\ \A p \in m_loadfinish, d \in Ids :
        rows[d] = 1 /\ d \notin missed /\ Cares(p, Full(p), d) /\ ~Touched(d)
        => m_data[p][d] = 1

(* The last change of a row reaches the server and every loaded peer the   *)
(* writer knew of and did not skip, and nothing older overtakes it, while  *)
(* other peers register, load and leave.                                   *)
ChangeArrives ==
    \A d \in Ids : ~Touched(d) =>
        \A p, q \in promised[d] \cap {n \in Peers : life[n] = "up"} :
            /\ m_data[p][d] = m_data[q][d]
            /\ Server \in promised[d] => rows[d] = m_data[p][d]
=============================================================================
