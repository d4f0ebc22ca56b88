------------------------------ MODULE Gateway ------------------------------
(***************************************************************************)
(* A client reaches its role through a login server and a gateway node.   *)
(* The login actor hands out one session per account and announces it to   *)
(* the gateway (np_actorrole_login); the client then connects a socket     *)
(* and presents the session (PROBUFF_NET_ROLE_LOGIN).  On the gateway      *)
(* node three actors keep a gateway_info each: actor_gateway decides, and  *)
(* actor_gateway_c2g and actor_gateway_g2c follow it by messages.  Both    *)
(* followers get the same messages and run the same code: one `mirror`     *)
(* stands for either.  The login process may end and start again, without  *)
(* the sessions it kept in memory; the gateway lives on.                   *)
(*                                                                         *)
(* A gateway_info holds raw pointers: m_sockinfo maps a socket to the      *)
(* entry of m_info that owns it.                                           *)
(*                                                                         *)
(* Messages of one source arrive in order; actor_gateway takes the next    *)
(* message of any source.  Not modelled: robot_test mode, KCP, the game    *)
(* server an entry names and what the role does when its session is given  *)
(* up (np_actor_disconnect_close).                                         *)
(***************************************************************************)
EXTENDS Naturals, Sequences, FiniteSets

CONSTANTS
    Roles,
    NoRole,      \* "no entry" in m_sockinfo
    MaxSocket,   \* bound: sockets the clients open
    MaxSession,  \* bound: sessions the login actor creates
    MaxLogin     \* bound: account logins

ASSUME GatewayAssumption ==
    /\ NoRole \notin Roles
    /\ {MaxSocket, MaxSession, MaxLogin} \subseteq Nat

VARIABLES
    m_actorbyserver, \* login actor: role -> session, 0 when it has none
    sessions,        \* sessions created so far
    logins,          \* account logins so far
    fromLogin,       \* np_actorrole_login on their way to the gateway
    token,           \* role -> session its client was last told
    conn,            \* socket -> what the network knows of it
    info,            \* the gateway_info of actor_gateway
    mirror,          \* the gateway_info of a follower
    updates,         \* np_actor_gatewayinfo_updata in the follower's mailbox
    timers,          \* role -> session-wait timers that have not fired
    m_rolegateway    \* roles the nodes hold a gateway for

loginVars == <<m_actorbyserver, sessions, logins, token>>
vars == <<loginVars, fromLogin, conn, info, mirror, updates, timers,
          m_rolegateway>>

Sockets == 1..MaxSocket
NoEntry == [session |-> 0, socket |-> 0]
Entries == [session : 1..MaxSession, socket : {0} \cup Sockets]
Infos == [m_info : [Roles -> Entries \cup {NoEntry}],
          m_sockinfo : [Sockets -> Roles \cup {NoRole}]]
Updates == [m_delsocket : {0} \cup Sockets,
            m_delactorid : Roles \cup {NoRole},
            m_add : Roles \cup {NoRole},
            entry : Entries \cup {NoEntry}]

(* A socket is unused, or opened by a client that sent one login for       *)
(* `role`, not handled yet (asked), accepted (in) or refused (out); once   *)
(* the peer has closed it an np_actor_session_close is on its way (gone).  *)
NoConn == [role |-> NoRole, session |-> 0, open |-> FALSE,
           login |-> "out", gone |-> FALSE]
Conns == [role : Roles \cup {NoRole}, session : 0..MaxSession,
          open : BOOLEAN, login : {"asked", "in", "out"}, gone : BOOLEAN]

Known(g, r) == g.m_info[r] # NoEntry
-----------------------------------------------------------------------------
(* gateway_info *)

(* Mutant: the entry keeps the socket. *)
RemovePointer(g, s) == [g EXCEPT !.m_sockinfo[s] = NoRole]
remove_socket(g, s) ==
    IF g.m_sockinfo[s] = NoRole THEN g
    ELSE [m_info |-> [g.m_info EXCEPT ![g.m_sockinfo[s]].socket = 0],
          m_sockinfo |-> [g.m_sockinfo EXCEPT ![s] = NoRole]]

(* Mutants: the pointer of the socket stays; only the session is cleared. *)
RemoveEntry(g, r) == [g EXCEPT !.m_info[r] = NoEntry]
RemoveSession(g, r) == [g EXCEPT !.m_info[r].session = 0]
remove_actorid(g, r) ==
    [m_info |-> [g.m_info EXCEPT ![r] = NoEntry],
     m_sockinfo |-> [s \in Sockets |->
         IF s = g.m_info[r].socket THEN NoRole ELSE g.m_sockinfo[s]]]

Own(g, r, e) ==
    [m_info |-> [g.m_info EXCEPT ![r] = e],
     m_sockinfo |-> [s \in Sockets |->
         IF s = e.socket THEN r ELSE g.m_sockinfo[s]]]

(* The socket an update takes from its entry, 0 for none. *)
Replaced(g, r, s) == IF g.m_info[r].socket = s THEN 0 ELSE g.m_info[r].socket

updata(g, r, e) ==
    LET old == Replaced(g, r, e.socket)
    IN  Own(IF old = 0 THEN g ELSE remove_socket(g, old), r, e)

updata_socket(g, r, s) ==
    updata(g, r, [g.m_info[r] EXCEPT !.socket = s])

Del(g, u) == IF u.m_delsocket = 0 THEN g ELSE remove_socket(g, u.m_delsocket)
(* Mutant: a follower overlooks m_delactorid. *)
ForgetNothing(g, u) == g
Forget(g, u) == IF u.m_delactorid = NoRole THEN g
                ELSE remove_actorid(g, u.m_delactorid)
Add(g, u) == IF u.m_add = NoRole THEN g ELSE updata(g, u.m_add, u.entry)
ApplyUpdate(g, u) == Add(Forget(Del(g, u), u), u)

Update(delsocket, delactorid, add, e) ==
    updates' = Append(updates, [m_delsocket |-> delsocket,
                                m_delactorid |-> delactorid,
                                m_add |-> add, entry |-> e])
-----------------------------------------------------------------------------
Init ==
    /\ m_actorbyserver = [r \in Roles |-> 0]
    /\ sessions = 0
    /\ logins = 0
    /\ fromLogin = <<>>
    /\ token = [r \in Roles |-> 0]
    /\ conn = [s \in Sockets |-> NoConn]
    /\ info = [m_info |-> [r \in Roles |-> NoEntry],
               m_sockinfo |-> [s \in Sockets |-> NoRole]]
    /\ mirror = info
    /\ updates = <<>>
    /\ timers = [r \in Roles |-> 0]
    /\ m_rolegateway = {}

(* PROBUFF_NET_ACOUNT_LOGIN: a session is made for an account that has     *)
(* none; the gateway and the client are told either way.                   *)
AccountLogin(r) ==
    LET fresh == m_actorbyserver[r] = 0
        sess == IF fresh THEN sessions + 1 ELSE m_actorbyserver[r]
    IN  /\ logins < MaxLogin
        /\ fresh => sessions < MaxSession
        /\ logins' = logins + 1
        /\ sessions' = IF fresh THEN sess ELSE sessions
        /\ m_actorbyserver' = [m_actorbyserver EXCEPT ![r] = sess]
        /\ fromLogin' = Append(fromLogin, [role |-> r, session |-> sess])
        /\ token' = [token EXCEPT ![r] = sess]
        /\ UNCHANGED <<conn, info, mirror, updates, timers, m_rolegateway>>

(* The login process ends, with its sessions and a tail of what it sent,   *)
(* and starts again.  Nothing else takes a session out of m_actorbyserver. *)
LoginRestart ==
    /\ m_actorbyserver' = [r \in Roles |-> 0]
    /\ \E n \in 0..Len(fromLogin) : fromLogin' = SubSeq(fromLogin, 1, n)
    /\ UNCHANGED <<sessions, logins, token, conn, info, mirror, updates, timers,
                   m_rolegateway>>

(* A client that was told a session connects and presents it. *)
Connect(r) ==
    \E s \in Sockets :
        /\ conn[s] = NoConn
        /\ \A t \in 1..(s - 1) : conn[t] # NoConn
        /\ token[r] # 0
        /\ conn' = [conn EXCEPT ![s] =
               [role |-> r, session |-> token[r], open |-> TRUE,
                login |-> "asked", gone |-> FALSE]]
        /\ UNCHANGED <<loginVars, fromLogin, info, mirror, updates, timers,
                       m_rolegateway>>

(* The peer closes: asio_tcp::close, which posts np_actor_session_close. *)
PeerClose(s) ==
    /\ conn[s].open
    /\ conn' = [conn EXCEPT ![s].open = FALSE, ![s].gone = TRUE]
    /\ UNCHANGED <<loginVars, fromLogin, info, mirror, updates, timers,
                   m_rolegateway>>
-----------------------------------------------------------------------------
(* actor_gateway *)

HandleRoleLogin ==
    LET m == Head(fromLogin)
        e == [session |-> m.session, socket |-> 0]
    IN  /\ fromLogin # <<>>
        /\ fromLogin' = Tail(fromLogin)
        /\ IF Known(info, m.role)
           THEN UNCHANGED <<info, updates, m_rolegateway>>
           ELSE /\ info' = updata(info, m.role, e)
                /\ Update(0, NoRole, m.role, e)
                /\ m_rolegateway' = m_rolegateway \cup {m.role}
        /\ UNCHANGED <<loginVars, conn, mirror, timers>>

(* PROBUFF_NET_ROLE_LOGIN on socket s.  A second socket of a role pushes   *)
(* the first out: close_net closes it and posts nothing.                   *)
HandleClientLogin(s) ==
    LET r == conn[s].role
        old == info.m_info[r].socket
        pushed == old \notin {0, s}
        bound == updata_socket(IF pushed THEN remove_socket(info, old)
                               ELSE info, r, s)
        heard == [conn EXCEPT ![s].login = "in"]
    IN  /\ conn[s].login = "asked"
        /\ IF Known(info, r) /\ info.m_info[r].session = conn[s].session
           THEN /\ info' = bound
                /\ conn' = IF pushed THEN [heard EXCEPT ![old].open = FALSE]
                           ELSE heard
                /\ IF pushed THEN Update(old, r, r, bound.m_info[r])
                   ELSE Update(0, NoRole, r, bound.m_info[r])
           ELSE /\ conn' = [conn EXCEPT ![s].login = "out"]
                /\ UNCHANGED <<info, updates>>
        /\ UNCHANGED <<loginVars, fromLogin, mirror, timers, m_rolegateway>>

(* np_actor_session_close and session_close: the entry stays, without a    *)
(* socket, until a session-wait timer fires.                               *)
HandleSessionClose(s) ==
    LET r == info.m_sockinfo[s]
    IN  /\ conn[s].gone /\ conn[s].login # "asked"
        /\ conn' = [conn EXCEPT ![s].gone = FALSE]
        /\ IF r = NoRole
           THEN UNCHANGED <<info, updates, timers, m_rolegateway>>
           ELSE /\ info' = remove_socket(info, s)
                /\ timers' = [timers EXCEPT ![r] = @ + 1]
                /\ m_rolegateway' = m_rolegateway \ {r}
                /\ Update(s, NoRole, NoRole, NoEntry)
        /\ UNCHANGED <<loginVars, fromLogin, mirror>>

(* A session-wait timer fires and np_gateway_close_session is handled: the *)
(* entry goes only when it has no socket; the followers are told to drop   *)
(* the role in any case.  What is sent to the login actor reaches nobody:  *)
(* its guid has no data id, the one it is sent to has the server's.        *)
HandleCloseSession(r) ==
    /\ timers[r] > 0
    /\ timers' = [timers EXCEPT ![r] = @ - 1]
    /\ IF Known(info, r)
       THEN /\ info' = IF info.m_info[r].socket = 0
                       THEN remove_actorid(info, r) ELSE info
            /\ Update(0, r, NoRole, NoEntry)
       ELSE UNCHANGED <<info, updates>>
    /\ UNCHANGED <<loginVars, fromLogin, conn, mirror, m_rolegateway>>

(* A follower applies an update.  updata closes a socket it replaces       *)
(* (nnet::close), which posts np_actor_session_close.                      *)
MirrorUpdate ==
    LET u == Head(updates)
        g == Forget(Del(mirror, u), u)
        old == IF u.m_add = NoRole THEN 0
               ELSE Replaced(g, u.m_add, u.entry.socket)
    IN  /\ updates # <<>>
        /\ updates' = Tail(updates)
        /\ mirror' = ApplyUpdate(mirror, u)
        /\ conn' = IF old = 0 THEN conn
                   ELSE [conn EXCEPT ![old].open = FALSE, ![old].gone = TRUE]
        /\ UNCHANGED <<loginVars, fromLogin, info, timers, m_rolegateway>>

Next ==
    \/ \E r \in Roles : AccountLogin(r) \/ Connect(r) \/ HandleCloseSession(r)
    \/ \E s \in Sockets :
           PeerClose(s) \/ HandleClientLogin(s) \/ HandleSessionClose(s)
    \/ LoginRestart
    \/ HandleRoleLogin
    \/ MirrorUpdate

Spec == Init /\ [][Next]_vars
-----------------------------------------------------------------------------
(* Every variable has the shape the code gives it. *)
TypeOK ==
    /\ m_actorbyserver \in [Roles -> 0..MaxSession]
    /\ sessions \in 0..MaxSession /\ logins \in 0..MaxLogin
    /\ fromLogin \in Seq([role : Roles, session : 1..MaxSession])
    /\ token \in [Roles -> 0..MaxSession]
    /\ conn \in [Sockets -> Conns]
    /\ info \in Infos /\ mirror \in Infos
    /\ updates \in Seq(Updates)
    /\ timers \in [Roles -> Nat]
    /\ m_rolegateway \subseteq Roles

(* The raw pointers of m_sockinfo lead to live entries that name the same  *)
(* socket, and no bound entry is out of its reach.                         *)
PointersExact(g) ==
    \A r \in Roles, s \in Sockets :
        g.m_sockinfo[s] = r <=> Known(g, r) /\ g.m_info[r].socket = s

(* gateway_info.cpp: no update, in whatever order sockets are replaced,    *)
(* entries dropped and timers fired, leaves a dangling pointer, in         *)
(* actor_gateway or in a follower.                                         *)
NoDanglingPointer == PointersExact(info) /\ PointersExact(mirror)

(* A bound entry names a socket that is open, or one whose close the       *)
(* gateway has not handled; and a client that was let in and is still      *)
(* connected is the one its role is bound to: no second client of a role   *)
(* keeps talking after it was pushed out, and none is cut off silently.    *)
ClientsExact ==
    /\ \A r \in Roles : LET s == info.m_info[r].socket IN
           s # 0 => conn[s].login = "in" /\ (conn[s].open \/ conn[s].gone)
    /\ \A s \in Sockets : conn[s].open /\ conn[s].login = "in" =>
           info.m_info[conn[s].role].socket = s

(* Once a follower has no update left, whatever it knows of a role is what *)
(* actor_gateway knows: it never forwards a client's message for a role on *)
(* a socket or a session the gateway has given up.                         *)
MirrorSound ==
    updates = <<>> => \A r \in Roles :
        Known(mirror, r) => mirror.m_info[r] = info.m_info[r]
=============================================================================
