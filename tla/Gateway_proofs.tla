--------------------------- MODULE Gateway_proofs ---------------------------
(***************************************************************************)
(* What Gateway guarantees for any roles and any number of sockets,        *)
(* sessions and logins: no gateway_info ever holds a dangling pointer, a   *)
(* role has one client, and a follower that has caught up is right about   *)
(* whatever it knows.                                                      *)
(*                                                                         *)
(* All of it rests on one fact: a socket has one role for life, the one    *)
(* its client logs in for.  Whatever order updates, closes and timers come *)
(* in, the entry that would be given a socket is the only one that can     *)
(* hold it.  `Sound` says that of a gateway_info, `SoundUpdate` of a       *)
(* message to a follower.                                                  *)
(***************************************************************************)
EXTENDS Gateway, TLAPS

(* Every socket that a gateway_info gives to a role is its client's.       *)
OwnedIn(c, g) ==
    \A s \in Sockets : g.m_sockinfo[s] # NoRole => c[s].role = g.m_sockinfo[s]

Sound(c, g) == g \in Infos /\ PointersExact(g) /\ OwnedIn(c, g)

SoundUpdate(c, u) ==
    u.m_add # NoRole =>
        /\ u.entry \in Entries
        /\ u.entry.socket # 0 => c[u.entry.socket].role = u.m_add

Unbound(e) == [session |-> e.session, socket |-> 0]

(* A socket keeps the role it has. *)
Keeps(c, d) == \A s \in Sockets : c[s].role # NoRole => d[s].role = c[s].role

ClientsNamed == \A s \in Sockets : conn[s].login # "out" => conn[s].role \in Roles

Inv ==
    /\ TypeOK
    /\ ClientsNamed
    /\ Sound(conn, info)
    /\ Sound(conn, mirror)
    /\ \A i \in DOMAIN updates : SoundUpdate(conn, updates[i])
-----------------------------------------------------------------------------
(* Sequences *)

LEMMA AppendIn ==
    ASSUME NEW S, NEW q \in Seq(S), NEW e \in S
    PROVE  /\ Append(q, e) \in Seq(S)
           /\ \A i \in DOMAIN Append(q, e) :
                  (i \in DOMAIN q /\ Append(q, e)[i] = q[i]) \/ Append(q, e)[i] = e
  OBVIOUS

LEMMA PrefixIn ==
    ASSUME NEW T, NEW q \in Seq(T), NEW n \in 0..Len(q)
    PROVE  SubSeq(q, 1, n) \in Seq(T)
  OBVIOUS

LEMMA TailIn ==
    ASSUME NEW S, NEW q \in Seq(S), q # <<>>
    PROVE  /\ Head(q) \in S /\ 1 \in DOMAIN q /\ Head(q) = q[1]
           /\ Tail(q) \in Seq(S)
           /\ \A i \in DOMAIN Tail(q) : i + 1 \in DOMAIN q /\ Tail(q)[i] = q[i + 1]
  OBVIOUS
-----------------------------------------------------------------------------
(* gateway_info: each operation keeps the pointers exact.                  *)

LEMMA SocketsPositive == \A s \in Sockets : s \in Nat /\ s # 0
  BY GatewayAssumption DEF Sockets

LEMMA EntriesKnown ==
    /\ NoEntry \notin Entries
    /\ \A e \in Entries : e.session \in 1..MaxSession /\ e.socket \in {0} \cup Sockets
  BY GatewayAssumption DEF Entries, NoEntry

(* A bound entry is known, and its socket points back at it.               *)
LEMMA BoundPointsBack ==
    ASSUME NEW c, NEW g, Sound(c, g), NEW r \in Roles, g.m_info[r].socket # 0
    PROVE  /\ g.m_info[r] \in Entries
           /\ g.m_info[r].socket \in Sockets
           /\ g.m_sockinfo[g.m_info[r].socket] = r
  <1>1. g.m_info[r] \in Entries \cup {NoEntry}
    BY DEF Sound, Infos
  <1>2. g.m_info[r] \in Entries /\ g.m_info[r] # NoEntry
    BY <1>1, EntriesKnown DEF NoEntry
  <1>3. g.m_info[r].socket \in Sockets
    BY <1>2, EntriesKnown
  <1>4. QED
    BY <1>2, <1>3 DEF Sound, PointersExact, Known

LEMMA RemoveSocketSound ==
    ASSUME NEW c, NEW g, Sound(c, g), NEW s \in Sockets
    PROVE  /\ Sound(c, remove_socket(g, s))
           /\ \A r \in Roles :
                  remove_socket(g, s).m_info[r] =
                      IF g.m_info[r].socket = s THEN Unbound(g.m_info[r])
                      ELSE g.m_info[r]
  <1>1. CASE g.m_sockinfo[s] = NoRole
    <2>1. remove_socket(g, s) = g
      BY <1>1 DEF remove_socket
    <2>2. \A r \in Roles : g.m_info[r].socket # s
      BY <1>1, BoundPointsBack, SocketsPositive, GatewayAssumption
    <2>3. QED
      BY <2>1, <2>2
  <1>2. CASE g.m_sockinfo[s] # NoRole
    <2> DEFINE h == remove_socket(g, s)
               o == g.m_sockinfo[s]
    <2>1. /\ o \in Roles
          /\ g.m_info \in [Roles -> Entries \cup {NoEntry}]
          /\ g.m_sockinfo \in [Sockets -> Roles \cup {NoRole}]
      BY <1>2 DEF Sound, Infos
    <2>2. g.m_info[o] # NoEntry /\ g.m_info[o].socket = s
      BY <2>1 DEF Sound, PointersExact, Known
    <2>3. g.m_info[o] \in Entries
      BY <2>1, <2>2
    <2> DEFINE cleared == Unbound(g.m_info[o])
    <2>4. /\ cleared \in Entries /\ cleared.socket = 0
          /\ cleared = [g.m_info[o] EXCEPT !.socket = 0]
      BY <2>3 DEF Entries, Unbound
    <2>5. /\ h = [m_info |-> [g.m_info EXCEPT ![o] = cleared],
                  m_sockinfo |-> [g.m_sockinfo EXCEPT ![s] = NoRole]]
      BY <1>2, <2>4 DEF remove_socket
    <2> HIDE DEF cleared, h
    <2>6. h.m_info \in [Roles -> Entries \cup {NoEntry}]
      BY <2>1, <2>4, <2>5
    <2>7. h.m_sockinfo \in [Sockets -> Roles \cup {NoRole}]
      BY <2>1, <2>5
    <2>8. h \in Infos
      BY <2>5, <2>6, <2>7 DEF Infos
    <2>9. ASSUME NEW r \in Roles, NEW t \in Sockets
          PROVE  h.m_sockinfo[t] = r <=> h.m_info[r] # NoEntry /\ h.m_info[r].socket = t
      <3>1. g.m_sockinfo[t] = r <=> g.m_info[r] # NoEntry /\ g.m_info[r].socket = t
        BY DEF Sound, PointersExact, Known
      <3>2. /\ h.m_sockinfo[t] = IF t = s THEN NoRole ELSE g.m_sockinfo[t]
            /\ h.m_info[r] = IF r = o THEN cleared ELSE g.m_info[r]
        BY <2>1, <2>5, Zenon
      <3>3. CASE r = o
        BY <3>1, <3>2, <3>3, <2>2, <2>4, SocketsPositive, GatewayAssumption
      <3>4. CASE r # o
        BY <3>1, <3>2, <3>4, GatewayAssumption
      <3>5. QED
        BY <3>3, <3>4
    <2>10. \A t \in Sockets :
               h.m_sockinfo[t] # NoRole => h.m_sockinfo[t] = g.m_sockinfo[t]
      BY <2>1, <2>5
    <2>11. Sound(c, h)
      BY <2>8, <2>9, <2>10 DEF Sound, PointersExact, Known, OwnedIn
    <2>12. ASSUME NEW r \in Roles
           PROVE  h.m_info[r] = IF g.m_info[r].socket = s
                                THEN Unbound(g.m_info[r]) ELSE g.m_info[r]
      <3>1. g.m_info[r].socket = s <=> r = o
        BY <2>2, BoundPointsBack, SocketsPositive
      <3>2. h.m_info[r] = IF r = o THEN cleared ELSE g.m_info[r]
        BY <2>1, <2>5
      <3>3. QED
        BY <3>1, <3>2 DEF cleared
    <2>13. QED
      BY <2>11, <2>12 DEF h
  <1>3. QED
    BY <1>1, <1>2

LEMMA RemoveActorSound ==
    ASSUME NEW c, NEW g, Sound(c, g), NEW r \in Roles
    PROVE  /\ Sound(c, remove_actorid(g, r))
           /\ remove_actorid(g, r).m_info = [g.m_info EXCEPT ![r] = NoEntry]
  <1> DEFINE h == remove_actorid(g, r)
  <1>1. /\ g.m_info \in [Roles -> Entries \cup {NoEntry}]
        /\ g.m_sockinfo \in [Sockets -> Roles \cup {NoRole}]
    BY DEF Sound, Infos
  <1>2. /\ h.m_info = [g.m_info EXCEPT ![r] = NoEntry]
        /\ h.m_sockinfo = [s \in Sockets |->
               IF s = g.m_info[r].socket THEN NoRole ELSE g.m_sockinfo[s]]
        /\ h = [m_info |-> h.m_info, m_sockinfo |-> h.m_sockinfo]
    BY DEF remove_actorid
  <1> HIDE DEF h
  <1>3. h.m_info \in [Roles -> Entries \cup {NoEntry}]
    BY <1>1, <1>2
  <1>4. h.m_sockinfo \in [Sockets -> Roles \cup {NoRole}]
    BY <1>1, <1>2
  <1>5. h \in Infos
    BY <1>2, <1>3, <1>4 DEF Infos
  <1>6. ASSUME NEW q \in Roles, NEW t \in Sockets
        PROVE  h.m_sockinfo[t] = q <=> h.m_info[q] # NoEntry /\ h.m_info[q].socket = t
    <2>1. /\ g.m_sockinfo[t] = q <=> g.m_info[q] # NoEntry /\ g.m_info[q].socket = t
          /\ g.m_sockinfo[t] = r <=> g.m_info[r] # NoEntry /\ g.m_info[r].socket = t
      BY DEF Sound, PointersExact, Known
    <2>2. g.m_info[r].socket = t => g.m_sockinfo[t] = r
      BY BoundPointsBack, SocketsPositive
    <2>3. /\ h.m_sockinfo[t] = IF t = g.m_info[r].socket THEN NoRole ELSE g.m_sockinfo[t]
          /\ h.m_info[q] = IF q = r THEN NoEntry ELSE g.m_info[q]
      BY <1>1, <1>2
    <2>4. QED
      BY <2>1, <2>2, <2>3, GatewayAssumption
  <1>7. \A t \in Sockets : h.m_sockinfo[t] # NoRole => h.m_sockinfo[t] = g.m_sockinfo[t]
    BY <1>2
  <1>8. QED
    BY <1>2, <1>5, <1>6, <1>7 DEF h, Sound, PointersExact, Known, OwnedIn

(* A role takes a socket that is its client's, when no other entry and no  *)
(* other socket of its own stands in the way.                              *)
LEMMA OwnSound ==
    ASSUME NEW c, NEW g, Sound(c, g), NEW r \in Roles, NEW e \in Entries,
           g.m_info[r].socket \in {0, e.socket},
           e.socket # 0 => c[e.socket].role = r
    PROVE  Sound(c, Own(g, r, e))
  <1> DEFINE h == Own(g, r, e)
  <1>1. /\ g.m_info \in [Roles -> Entries \cup {NoEntry}]
        /\ g.m_sockinfo \in [Sockets -> Roles \cup {NoRole}]
    BY DEF Sound, Infos
  <1>2. /\ h.m_info = [g.m_info EXCEPT ![r] = e]
        /\ h.m_sockinfo = [s \in Sockets |-> IF s = e.socket THEN r ELSE g.m_sockinfo[s]]
        /\ h = [m_info |-> h.m_info, m_sockinfo |-> h.m_sockinfo]
    BY DEF Own
  <1> HIDE DEF h
  <1>3. h.m_info \in [Roles -> Entries \cup {NoEntry}]
    BY <1>1, <1>2
  <1>4. h.m_sockinfo \in [Sockets -> Roles \cup {NoRole}]
    BY <1>1, <1>2
  <1>5. h \in Infos
    BY <1>2, <1>3, <1>4 DEF Infos
  <1>6. ASSUME NEW q \in Roles, NEW t \in Sockets
        PROVE  h.m_sockinfo[t] = q <=> h.m_info[q] # NoEntry /\ h.m_info[q].socket = t
    <2>1. /\ g.m_sockinfo[t] = q <=> g.m_info[q] # NoEntry /\ g.m_info[q].socket = t
          /\ g.m_sockinfo[t] = r <=> g.m_info[r] # NoEntry /\ g.m_info[r].socket = t
      BY DEF Sound, PointersExact, Known
    <2>2. t = e.socket => g.m_sockinfo[t] \in {NoRole, r}
      BY SocketsPositive DEF Sound, OwnedIn
    <2>3. /\ h.m_sockinfo[t] = IF t = e.socket THEN r ELSE g.m_sockinfo[t]
          /\ h.m_info[q] = IF q = r THEN e ELSE g.m_info[q]
      BY <1>1, <1>2
    <2>4. e # NoEntry
      BY EntriesKnown
    <2>5. CASE q = r
      BY <2>1, <2>3, <2>4, <2>5, SocketsPositive
    <2>6. CASE q # r
      BY <2>1, <2>2, <2>3, <2>6, GatewayAssumption
    <2>7. QED
      BY <2>5, <2>6
  <1>7. OwnedIn(c, h)
    <2> SUFFICES ASSUME NEW t \in Sockets, h.m_sockinfo[t] # NoRole
                 PROVE  c[t].role = h.m_sockinfo[t]
      BY DEF OwnedIn
    <2>1. h.m_sockinfo[t] = IF t = e.socket THEN r ELSE g.m_sockinfo[t]
      BY <1>2
    <2>2. QED
      BY <2>1, SocketsPositive DEF Sound, OwnedIn
  <1>8. QED
    BY <1>5, <1>6, <1>7 DEF h, Sound, PointersExact, Known

LEMMA UpdataSound ==
    ASSUME NEW c, NEW g, Sound(c, g), NEW r \in Roles, NEW e \in Entries,
           e.socket # 0 => c[e.socket].role = r
    PROVE  /\ Sound(c, updata(g, r, e))
           /\ updata(g, r, e).m_info = [g.m_info EXCEPT ![r] = e]
  <1> DEFINE old == Replaced(g, r, e.socket)
             h == IF old = 0 THEN g ELSE remove_socket(g, old)
  <1>1. updata(g, r, e) = Own(h, r, e)
    BY DEF updata
  <1>2. /\ Sound(c, h) /\ h.m_info[r].socket \in {0, e.socket}
        /\ \A q \in Roles \ {r} : h.m_info[q] = g.m_info[q]
    <2>1. CASE old = 0
      BY <2>1 DEF Replaced
    <2>2. CASE old # 0
      <3>1. old = g.m_info[r].socket
        BY <2>2 DEF Replaced
      <3>2. old \in Sockets
        BY <2>2, <3>1, BoundPointsBack
      <3>3. /\ g.m_info[r] \in Entries
            /\ \A q \in Roles \ {r} : g.m_info[q].socket # old
        BY <2>2, <3>1, BoundPointsBack
      <3>4. /\ Sound(c, h)
            /\ h.m_info[r] = Unbound(g.m_info[r])
            /\ \A q \in Roles \ {r} : h.m_info[q] = g.m_info[q]
        BY <2>2, <3>1, <3>2, <3>3, RemoveSocketSound
      <3>5. QED
        BY <3>3, <3>4 DEF Entries, Unbound
    <2>3. QED
      BY <2>1, <2>2
  <1>3. Own(h, r, e).m_info = [g.m_info EXCEPT ![r] = e]
    <2>1. h.m_info \in [Roles -> Entries \cup {NoEntry}]
          /\ g.m_info \in [Roles -> Entries \cup {NoEntry}]
      BY <1>2 DEF Sound, Infos
    <2>2. [h.m_info EXCEPT ![r] = e] = [g.m_info EXCEPT ![r] = e]
      BY <1>2, <2>1
    <2>3. QED
      BY <2>2 DEF Own
  <1>4. QED
    BY <1>1, <1>2, <1>3, OwnSound

(* What a follower makes of an update, and the socket that falls out of it. *)
LEMMA ApplySound ==
    ASSUME NEW c, NEW g, Sound(c, g), NEW u \in Updates, SoundUpdate(c, u)
    PROVE  /\ Sound(c, ApplyUpdate(g, u))
           /\ Sound(c, Forget(Del(g, u), u))
  <1>1. /\ u.m_delsocket \in {0} \cup Sockets
        /\ u.m_delactorid \in Roles \cup {NoRole}
        /\ u.m_add \in Roles \cup {NoRole}
    BY DEF Updates
  <1>2. Sound(c, Del(g, u))
    BY <1>1, RemoveSocketSound DEF Del
  <1>3. Sound(c, Forget(Del(g, u), u))
    BY <1>1, <1>2, RemoveActorSound DEF Forget
  <1>4. Sound(c, Add(Forget(Del(g, u), u), u))
    <2>1. CASE u.m_add = NoRole
      BY <1>3, <2>1 DEF Add
    <2>2. CASE u.m_add # NoRole
      <3>1. u.m_add \in Roles /\ u.entry \in Entries
        BY <1>1, <2>2 DEF SoundUpdate
      <3>2. u.entry.socket # 0 => c[u.entry.socket].role = u.m_add
        BY <2>2 DEF SoundUpdate
      <3>3. QED
        BY <1>3, <2>2, <3>1, <3>2, UpdataSound DEF Add
    <2>3. QED
      BY <2>1, <2>2
  <1>5. QED
    BY <1>3, <1>4 DEF ApplyUpdate

LEMMA KeepsSound ==
    ASSUME NEW c, NEW d, Keeps(c, d)
    PROVE  /\ \A g : Sound(c, g) => Sound(d, g)
           /\ \A u \in Updates : SoundUpdate(c, u) => SoundUpdate(d, u)
  <1>1. ASSUME NEW g, Sound(c, g)
        PROVE  Sound(d, g)
    BY <1>1 DEF Sound, OwnedIn, Keeps
  <1>2. ASSUME NEW u \in Updates, SoundUpdate(c, u)
        PROVE  SoundUpdate(d, u)
    BY <1>2, EntriesKnown DEF SoundUpdate, Keeps
  <1>3. QED
    BY <1>1, <1>2
-----------------------------------------------------------------------------
(* The steps.                                                              *)

LEMMA AppendUpdate ==
    ASSUME NEW c, NEW us \in Seq(Updates), NEW u \in Updates, SoundUpdate(c, u),
           \A i \in DOMAIN us : SoundUpdate(c, us[i])
    PROVE  /\ Append(us, u) \in Seq(Updates)
           /\ \A i \in DOMAIN Append(us, u) : SoundUpdate(c, Append(us, u)[i])
  BY AppendIn

LEMMA TailUpdate ==
    ASSUME NEW c, NEW us \in Seq(Updates), us # <<>>,
           \A i \in DOMAIN us : SoundUpdate(c, us[i])
    PROVE  /\ Head(us) \in Updates /\ SoundUpdate(c, Head(us))
           /\ Tail(us) \in Seq(Updates)
           /\ \A i \in DOMAIN Tail(us) : SoundUpdate(c, Tail(us)[i])
  BY TailIn

(* A step that gives sockets roles, and touches no gateway_info, keeps     *)
(* everything that is said of gateway_infos and updates.                   *)
LEMMA ConnChanges ==
    ASSUME Inv, conn' \in [Sockets -> Conns], Keeps(conn, conn')
    PROVE  /\ Sound(conn', info) /\ Sound(conn', mirror)
           /\ updates \in Seq(Updates)
           /\ \A i \in DOMAIN updates : SoundUpdate(conn', updates[i])
  <1>1. \A i \in DOMAIN updates : updates[i] \in Updates
    BY DEF Inv, TypeOK
  <1>2. QED
    BY <1>1, KeepsSound DEF Inv, TypeOK

LEMMA InitInv == Init => Inv
  <1> SUFFICES ASSUME Init PROVE Inv
    OBVIOUS
  <1>1. info \in Infos /\ mirror \in Infos
    BY DEF Init, Infos
  <1>2. TypeOK
    <2>1. NoConn \in Conns
      BY GatewayAssumption DEF NoConn, Conns
    <2>2. QED
      BY <1>1, <2>1, GatewayAssumption DEF Init, TypeOK
  <1>3. Sound(conn, info) /\ Sound(conn, mirror)
    BY <1>1, GatewayAssumption DEF Init, Sound, PointersExact, OwnedIn, Known
  <1>4. ClientsNamed
    BY DEF Init, ClientsNamed, NoConn
  <1>5. QED
    BY <1>2, <1>3, <1>4 DEF Init, Inv

LEMMA AccountLoginStep ==
    ASSUME Inv, NEW r \in Roles, AccountLogin(r)
    PROVE  Inv'
  <1> DEFINE sess == IF m_actorbyserver[r] = 0 THEN sessions + 1 ELSE m_actorbyserver[r]
  <1>1. sess \in 1..MaxSession /\ sessions' \in 0..MaxSession /\ logins' \in 0..MaxLogin
    BY GatewayAssumption, SMTT(30) DEF AccountLogin, Inv, TypeOK
  <1>2. /\ m_actorbyserver' = [m_actorbyserver EXCEPT ![r] = sess]
        /\ token' = [token EXCEPT ![r] = sess]
        /\ fromLogin' = Append(fromLogin, [role |-> r, session |-> sess])
    BY DEF AccountLogin
  <1> HIDE DEF sess
  <1>3. fromLogin' \in Seq([role : Roles, session : 1..MaxSession])
    BY <1>1, <1>2, AppendIn DEF Inv, TypeOK
  <1>4. /\ m_actorbyserver' \in [Roles -> 0..MaxSession]
        /\ token' \in [Roles -> 0..MaxSession]
    BY <1>1, <1>2, SMTT(30) DEF Inv, TypeOK
  <1>5. UNCHANGED <<conn, info, mirror, updates, timers, m_rolegateway>>
    BY DEF AccountLogin
  <1>6. QED
    BY <1>1, <1>3, <1>4, <1>5 DEF Inv, TypeOK, ClientsNamed

LEMMA LoginRestartStep ==
    ASSUME Inv, LoginRestart
    PROVE  Inv'
  <1>1. m_actorbyserver' \in [Roles -> 0..MaxSession]
    BY GatewayAssumption DEF LoginRestart
  <1>2. PICK n \in 0..Len(fromLogin) : fromLogin' = SubSeq(fromLogin, 1, n)
    BY DEF LoginRestart
  <1>3. fromLogin' \in Seq([role : Roles, session : 1..MaxSession])
    BY <1>2, PrefixIn DEF Inv, TypeOK
  <1>4. UNCHANGED <<sessions, logins, token, conn, info, mirror, updates, timers,
                    m_rolegateway>>
    BY DEF LoginRestart
  <1>5. QED
    BY <1>1, <1>3, <1>4 DEF Inv, TypeOK, ClientsNamed

LEMMA ConnectStep ==
    ASSUME Inv, NEW r \in Roles, Connect(r)
    PROVE  Inv' /\ Keeps(conn, conn')
  <1>1. PICK s \in Sockets :
            /\ conn[s] = NoConn
            /\ conn' = [conn EXCEPT ![s] =
                   [role |-> r, session |-> token[r], open |-> TRUE,
                    login |-> "asked", gone |-> FALSE]]
    BY DEF Connect
  <1>2. conn' \in [Sockets -> Conns]
    BY <1>1 DEF Inv, TypeOK, Conns
  <1>3. Keeps(conn, conn')
    BY <1>1 DEF Keeps, NoConn, Inv, TypeOK
  <1>4. ClientsNamed'
    BY <1>1 DEF ClientsNamed, Inv, TypeOK
  <1>5. UNCHANGED <<loginVars, fromLogin, info, mirror, updates, timers, m_rolegateway>>
    BY DEF Connect
  <1>6. QED
    BY <1>2, <1>3, <1>4, <1>5, ConnChanges DEF Inv, TypeOK, loginVars

(* What setting a field of one connection can disturb. *)
LEMMA ConnClosed ==
    ASSUME NEW c \in [Sockets -> Conns], NEW o \in Sockets
    PROVE  /\ [c EXCEPT ![o].open = FALSE] \in [Sockets -> Conns]
           /\ \A t \in Sockets : [c EXCEPT ![o].open = FALSE][t].role = c[t].role
           /\ \A t \in Sockets : [c EXCEPT ![o].open = FALSE][t].login = c[t].login
  <1>1. [c[o] EXCEPT !.open = FALSE] \in Conns
    BY DEF Conns
  <1>2. \A t \in Sockets : [c EXCEPT ![o].open = FALSE][t] =
            IF t = o THEN [c[o] EXCEPT !.open = FALSE] ELSE c[t]
    OBVIOUS
  <1>3. \A t \in Sockets : c[t] \in Conns
    OBVIOUS
  <1>4. \A t \in Sockets : [c EXCEPT ![o].open = FALSE][t].role = c[t].role
    BY <1>2, <1>3 DEF Conns
  <1>5. \A t \in Sockets : [c EXCEPT ![o].open = FALSE][t].login = c[t].login
    BY <1>2, <1>3 DEF Conns
  <1>6. QED
    BY <1>1, <1>4, <1>5

LEMMA ConnHeard ==
    ASSUME NEW c \in [Sockets -> Conns], NEW o \in Sockets
    PROVE  /\ [c EXCEPT ![o].gone = FALSE] \in [Sockets -> Conns]
           /\ \A t \in Sockets : [c EXCEPT ![o].gone = FALSE][t].role = c[t].role
           /\ \A t \in Sockets : [c EXCEPT ![o].gone = FALSE][t].login = c[t].login
  <1>1. [c[o] EXCEPT !.gone = FALSE] \in Conns
    BY DEF Conns
  <1>2. \A t \in Sockets : [c EXCEPT ![o].gone = FALSE][t] =
            IF t = o THEN [c[o] EXCEPT !.gone = FALSE] ELSE c[t]
    OBVIOUS
  <1>3. \A t \in Sockets : c[t] \in Conns
    OBVIOUS
  <1>4. \A t \in Sockets : [c EXCEPT ![o].gone = FALSE][t].role = c[t].role
    BY <1>2, <1>3 DEF Conns
  <1>5. \A t \in Sockets : [c EXCEPT ![o].gone = FALSE][t].login = c[t].login
    BY <1>2, <1>3 DEF Conns
  <1>6. QED
    BY <1>1, <1>4, <1>5

LEMMA ConnRefused ==
    ASSUME NEW c \in [Sockets -> Conns], NEW o \in Sockets
    PROVE  /\ [c EXCEPT ![o].login = "out"] \in [Sockets -> Conns]
           /\ \A t \in Sockets : [c EXCEPT ![o].login = "out"][t].role = c[t].role
           /\ \A t \in Sockets : [c EXCEPT ![o].login = "out"][t].login # "out" => c[t].login # "out"
  <1>1. [c[o] EXCEPT !.login = "out"] \in Conns
    BY DEF Conns
  <1>2. \A t \in Sockets : [c EXCEPT ![o].login = "out"][t] =
            IF t = o THEN [c[o] EXCEPT !.login = "out"] ELSE c[t]
    OBVIOUS
  <1>3. \A t \in Sockets : c[t] \in Conns
    OBVIOUS
  <1>4. \A t \in Sockets : [c EXCEPT ![o].login = "out"][t].role = c[t].role
    BY <1>2, <1>3 DEF Conns
  <1>5. \A t \in Sockets : [c EXCEPT ![o].login = "out"][t].login # "out" => c[t].login # "out"
    BY <1>2, <1>3 DEF Conns
  <1>6. QED
    BY <1>1, <1>4, <1>5

LEMMA PeerCloseStep ==
    ASSUME Inv, NEW s \in Sockets, PeerClose(s)
    PROVE  Inv' /\ Keeps(conn, conn')
  <1>1. conn' \in [Sockets -> Conns]
    <2>1. conn' = [conn EXCEPT ![s].open = FALSE, ![s].gone = TRUE]
      BY DEF PeerClose
    <2>2. conn \in [Sockets -> Conns]
      BY DEF Inv, TypeOK
    <2>3. [conn[s] EXCEPT !.open = FALSE, !.gone = TRUE] \in Conns
      BY <2>2 DEF Conns
    <2>4. QED
      BY <2>1, <2>2, <2>3
  <1>2. Keeps(conn, conn')
    BY DEF PeerClose, Keeps, Inv, TypeOK
  <1>3. ClientsNamed'
    BY SMTT(30) DEF PeerClose, ClientsNamed, Inv, TypeOK
  <1>4. UNCHANGED <<loginVars, fromLogin, info, mirror, updates, timers, m_rolegateway>>
    BY DEF PeerClose
  <1>5. QED
    BY <1>1, <1>2, <1>3, <1>4, ConnChanges DEF Inv, TypeOK, loginVars

LEMMA HandleRoleLoginStep ==
    ASSUME Inv, HandleRoleLogin
    PROVE  Inv'
  <1> DEFINE m == Head(fromLogin)
             e == [session |-> m.session, socket |-> 0]
  <1>1. /\ m \in [role : Roles, session : 1..MaxSession]
        /\ fromLogin' \in Seq([role : Roles, session : 1..MaxSession])
    BY TailIn DEF HandleRoleLogin, Inv, TypeOK
  <1>2. m.role \in Roles /\ e \in Entries /\ e.socket = 0
    BY <1>1 DEF Entries
  <1>3. UNCHANGED <<loginVars, conn, mirror, timers>>
    BY DEF HandleRoleLogin
  <1>4. CASE Known(info, m.role)
    <2>1. UNCHANGED <<info, updates, m_rolegateway>>
      BY <1>4 DEF HandleRoleLogin
    <2>2. QED
      BY <1>1, <1>3, <2>1 DEF Inv, TypeOK, ClientsNamed, loginVars
  <1>5. CASE ~Known(info, m.role)
    <2> DEFINE u == [m_delsocket |-> 0, m_delactorid |-> NoRole,
                     m_add |-> m.role, entry |-> e]
    <2>1. /\ info' = updata(info, m.role, e)
          /\ updates' = Append(updates, u)
          /\ m_rolegateway' = m_rolegateway \cup {m.role}
      BY <1>5 DEF HandleRoleLogin, Update
    <2>2. Sound(conn, info')
      BY <1>2, <2>1, UpdataSound DEF Inv
    <2>3. u \in Updates /\ SoundUpdate(conn, u)
      BY <1>2 DEF Updates, SoundUpdate
    <2>4. /\ updates' \in Seq(Updates)
          /\ \A i \in DOMAIN updates' : SoundUpdate(conn, updates'[i])
      BY <2>1, <2>3, AppendUpdate DEF Inv, TypeOK
    <2>5. m_rolegateway' \subseteq Roles
      BY <1>2, <2>1 DEF Inv, TypeOK
    <2>6. QED
      BY <1>1, <1>3, <2>2, <2>4, <2>5 DEF Inv, TypeOK, ClientsNamed, loginVars, Sound
  <1>6. QED
    BY <1>4, <1>5

(* The login on socket s is accepted; the socket its role has so far, and  *)
(* whether that one is pushed out; what the followers are told.            *)
Accepted(s) ==
    Known(info, conn[s].role) /\ info.m_info[conn[s].role].session = conn[s].session
OldSocket(s) == info.m_info[conn[s].role].socket
PushedOut(s) == OldSocket(s) \notin {0, s}
LoginUpdate(s, e) ==
    [m_delsocket |-> IF PushedOut(s) THEN OldSocket(s) ELSE 0,
     m_delactorid |-> IF PushedOut(s) THEN conn[s].role ELSE NoRole,
     m_add |-> conn[s].role, entry |-> e]

(* A login that is accepted binds the role to the socket it came on, which *)
(* is its client's; the socket before it is pushed out.                    *)
LEMMA ClientLoginBinds ==
    ASSUME Inv, NEW s \in Sockets, HandleClientLogin(s), Accepted(s)
    PROVE  \E e \in Entries :
               /\ e.socket = s
               /\ Sound(conn, info')
               /\ info'.m_info[conn[s].role] = e
               /\ \A q \in Roles \ {conn[s].role} : info'.m_info[q] = info.m_info[q]
               /\ updates' = Append(updates, LoginUpdate(s, e))
  <1> DEFINE r == conn[s].role
             old == OldSocket(s)
             pushed == PushedOut(s)
             g == IF pushed THEN remove_socket(info, old) ELSE info
             e == [g.m_info[r] EXCEPT !.socket = s]
             bound == updata_socket(g, r, s)
  <1>1. r \in Roles
    BY Zenon DEF HandleClientLogin, Inv, ClientsNamed
  <1>2. /\ info' = bound
        /\ IF pushed THEN Update(old, r, r, bound.m_info[r])
           ELSE Update(0, NoRole, r, bound.m_info[r])
    BY Zenon DEF HandleClientLogin, Accepted, OldSocket, PushedOut
  <1>3. pushed => old \in Sockets
    BY <1>1, BoundPointsBack DEF Inv, OldSocket, PushedOut
  <1>4. info.m_info[r] \in Entries
    BY <1>1 DEF Accepted, Known, Inv, TypeOK, Infos
  <1>5. /\ Sound(conn, g) /\ g.m_info[r] \in Entries
        /\ \A q \in Roles \ {r} : g.m_info[q] = info.m_info[q]
    <2>1. CASE pushed
      <3>1. /\ Sound(conn, g) /\ g.m_info[r] = Unbound(info.m_info[r])
            /\ \A q \in Roles : info.m_info[q].socket # old =>
                   g.m_info[q] = info.m_info[q]
        <4> DEFINE h == remove_socket(info, old)
        <4>1. /\ Sound(conn, h)
              /\ \A q \in Roles : h.m_info[q] = IF info.m_info[q].socket = old
                                               THEN Unbound(info.m_info[q])
                                               ELSE info.m_info[q]
          <5>1. Sound(conn, info) /\ old \in Sockets
            BY <1>3, <2>1 DEF Inv
          <5> HIDE DEF old
          <5>2. QED
            BY <5>1, RemoveSocketSound
        <4>2. g = h
          BY <2>1
        <4>3. info.m_info[r].socket = old
          BY DEF OldSocket
        <4> HIDE DEF g, h, old
        <4>4. QED
          BY <1>1, <4>1, <4>2, <4>3
      <3>2. \A q \in Roles \ {r} : info.m_info[q].socket # old
        BY <1>1, <2>1, BoundPointsBack DEF Inv, OldSocket, PushedOut
      <3>3. \A q \in Roles \ {r} : g.m_info[q] = info.m_info[q]
        BY <3>1, <3>2
      <3>4. Unbound(info.m_info[r]) \in Entries
        BY <1>4 DEF Unbound, Entries
      <3>5. QED
        BY <3>1, <3>3, <3>4
    <2>2. CASE ~pushed
      BY <1>4, <2>2 DEF Inv
    <2>3. QED
      BY <2>1, <2>2
  <1>6. e \in Entries /\ e.socket = s
    BY <1>5 DEF Entries
  <1>7. bound = updata(g, r, e)
    BY DEF updata_socket
  <1> HIDE DEF e, g, bound
  <1>8. Sound(conn, bound) /\ bound.m_info = [g.m_info EXCEPT ![r] = e]
    <2>1. e.socket # 0 => conn[e.socket].role = r
      BY <1>6
    <2>2. QED
      BY <1>1, <1>5, <1>6, <1>7, <2>1, UpdataSound
  <1>9. /\ bound.m_info[r] = e
        /\ \A q \in Roles \ {r} : bound.m_info[q] = info.m_info[q]
    BY <1>1, <1>5, <1>8 DEF Sound, Infos
  <1>10. QED
    BY <1>2, <1>6, <1>8, <1>9, Zenon DEF Update, LoginUpdate

LEMMA HandleClientLoginStep ==
    ASSUME Inv, NEW s \in Sockets, HandleClientLogin(s)
    PROVE  Inv' /\ Keeps(conn, conn')
  <1> DEFINE r == conn[s].role
             old == OldSocket(s)
             pushed == PushedOut(s)
             heard == [conn EXCEPT ![s].login = "in"]
  <1>1. r \in Roles
    BY Zenon DEF HandleClientLogin, Inv, ClientsNamed
  <1>2. UNCHANGED <<loginVars, fromLogin, mirror, timers, m_rolegateway>>
    BY DEF HandleClientLogin
  <1>3. CASE Accepted(s)
    <2>1. conn' = IF pushed THEN [heard EXCEPT ![old].open = FALSE] ELSE heard
      BY <1>3, Zenon DEF HandleClientLogin, Accepted, OldSocket, PushedOut
    <2>2. pushed => old \in Sockets
      BY <1>1, BoundPointsBack DEF Inv, OldSocket, PushedOut
    <2>3. PICK e \in Entries :
              /\ e.socket = s
              /\ Sound(conn, info')
              /\ updates' = Append(updates, LoginUpdate(s, e))
      BY <1>3, ClientLoginBinds
    <2> DEFINE u == LoginUpdate(s, e)
    <2>4. u \in Updates /\ SoundUpdate(conn, u)
      BY <1>1, <2>2, <2>3 DEF LoginUpdate, Updates, SoundUpdate
    <2>5. /\ heard \in [Sockets -> Conns]
          /\ heard[s].login = "in"
          /\ \A t \in Sockets : heard[t].role = conn[t].role
          /\ \A t \in Sockets \ {s} : heard[t] = conn[t]
      BY ZenonT(30) DEF Inv, TypeOK, Conns
    <2>6. /\ conn' \in [Sockets -> Conns]
          /\ \A t \in Sockets : /\ conn'[t].role = heard[t].role
                                /\ conn'[t].login = heard[t].login
      <3> HIDE DEF heard, old, pushed, Conns
      <3>1. CASE pushed
        <4>1. old \in Sockets /\ conn' = [heard EXCEPT ![old].open = FALSE]
          BY <2>1, <2>2, <3>1
        <4>2. /\ [heard EXCEPT ![old].open = FALSE] \in [Sockets -> Conns]
              /\ \A t \in Sockets :
                     [heard EXCEPT ![old].open = FALSE][t].role = heard[t].role
              /\ \A t \in Sockets :
                     [heard EXCEPT ![old].open = FALSE][t].login = heard[t].login
          BY <2>5, <4>1, ConnClosed, Zenon
        <4>3. QED
          BY <4>1, <4>2, Zenon
      <3>2. CASE ~pushed
        BY <2>1, <2>5, <3>2
      <3>3. QED
        BY <3>1, <3>2
    <2> HIDE DEF heard
    <2>7. Keeps(conn, conn')
      BY <2>5, <2>6 DEF Keeps
    <2>8. ClientsNamed'
      <3> SUFFICES ASSUME NEW t \in Sockets, conn'[t].login # "out"
                   PROVE  conn'[t].role \in Roles
        BY DEF ClientsNamed
      <3>1. conn[t].login # "out"
        BY <2>5, <2>6, Zenon DEF HandleClientLogin
      <3>2. QED
        BY <2>5, <2>6, <3>1 DEF Inv, ClientsNamed
    <2>9. Sound(conn', info')
      BY <2>3, <2>7, KeepsSound
    <2>10. Sound(conn', mirror)
      BY <2>6, <2>7, ConnChanges
    <2>11. /\ updates' \in Seq(Updates)
           /\ \A i \in DOMAIN updates' : SoundUpdate(conn', updates'[i])
      <3>1. SoundUpdate(conn', u)
        <4> HIDE DEF u
        <4>1. QED
          BY <2>4, <2>7, KeepsSound
      <3>2. updates' = Append(updates, u)
        BY <2>3
      <3> HIDE DEF u
      <3>3. QED
        BY <2>4, <2>6, <2>7, <3>1, <3>2, ConnChanges, AppendUpdate
    <2>12. QED
      BY <1>2, <2>6, <2>7, <2>8, <2>9, <2>10, <2>11, Zenon DEF Inv, TypeOK, loginVars, Sound
  <1>4. CASE ~Accepted(s)
    <2>1. /\ conn' = [conn EXCEPT ![s].login = "out"]
          /\ UNCHANGED <<info, updates>>
      BY <1>4, Zenon DEF HandleClientLogin, Accepted
    <2>2. conn \in [Sockets -> Conns]
      BY DEF Inv, TypeOK
    <2>3. /\ conn' \in [Sockets -> Conns]
          /\ \A t \in Sockets : conn'[t].role = conn[t].role
          /\ \A t \in Sockets : conn'[t].login # "out" => conn[t].login # "out"
      <3> DEFINE d == [conn EXCEPT ![s].login = "out"]
      <3>1. /\ d \in [Sockets -> Conns]
            /\ \A t \in Sockets : d[t].role = conn[t].role
            /\ \A t \in Sockets : d[t].login # "out" => conn[t].login # "out"
        BY <2>2, ConnRefused, ZenonT(30)
      <3>2. conn' = d
        BY <2>1
      <3> HIDE DEF d
      <3>3. QED
        BY <3>1, <3>2
    <2>4. Keeps(conn, conn') /\ ClientsNamed'
      BY <2>3 DEF Inv, Keeps, ClientsNamed
    <2>5. QED
      BY <1>2, <2>1, <2>3, <2>4, ConnChanges, Zenon DEF Inv, TypeOK, loginVars
  <1>5. QED
    BY <1>3, <1>4, Zenon

LEMMA HandleSessionCloseStep ==
    ASSUME Inv, NEW s \in Sockets, HandleSessionClose(s)
    PROVE  Inv' /\ Keeps(conn, conn')
  <1> DEFINE r == info.m_sockinfo[s]
  <1>1. conn' \in [Sockets -> Conns] /\ Keeps(conn, conn') /\ ClientsNamed'
    <2>1. conn' = [conn EXCEPT ![s].gone = FALSE]
      BY DEF HandleSessionClose
    <2>2. conn \in [Sockets -> Conns]
      BY DEF Inv, TypeOK
    <2>3. /\ conn' \in [Sockets -> Conns]
          /\ \A t \in Sockets : conn'[t].role = conn[t].role
          /\ \A t \in Sockets : conn'[t].login = conn[t].login
      BY <2>1, <2>2, ConnHeard, Zenon
    <2>4. QED
      BY <2>3 DEF Inv, Keeps, ClientsNamed
  <1>2. UNCHANGED <<loginVars, fromLogin, mirror>>
    BY DEF HandleSessionClose
  <1>3. CASE r = NoRole
    <2>1. UNCHANGED <<info, updates, timers, m_rolegateway>>
      BY <1>3 DEF HandleSessionClose
    <2>2. QED
      BY <1>1, <1>2, <2>1, ConnChanges DEF Inv, TypeOK, loginVars
  <1>4. CASE r # NoRole
    <2> DEFINE u == [m_delsocket |-> s, m_delactorid |-> NoRole,
                     m_add |-> NoRole, entry |-> NoEntry]
    <2>1. /\ info' = remove_socket(info, s)
          /\ timers' = [timers EXCEPT ![r] = @ + 1]
          /\ m_rolegateway' = m_rolegateway \ {r}
          /\ updates' = Append(updates, u)
      BY <1>4 DEF HandleSessionClose, Update
    <2>2. r \in Roles
      BY <1>4 DEF Inv, TypeOK, Infos
    <2>3. timers' \in [Roles -> Nat] /\ m_rolegateway' \subseteq Roles
      <3> HIDE DEF r
      <3>1. timers' \in [Roles -> Nat]
        BY <2>1, <2>2 DEF Inv, TypeOK
      <3>2. m_rolegateway' \subseteq Roles
        BY <2>1 DEF Inv, TypeOK
      <3>3. QED
        BY <3>1, <3>2
    <2>4. Sound(conn', info')
      BY <1>1, <2>1, ConnChanges, RemoveSocketSound
    <2>5. u \in Updates /\ SoundUpdate(conn', u)
      BY DEF Updates, SoundUpdate
    <2>6. /\ updates' \in Seq(Updates)
          /\ \A i \in DOMAIN updates' : SoundUpdate(conn', updates'[i])
      <3> HIDE DEF u
      <3>1. QED
        BY <1>1, <2>1, <2>5, ConnChanges, AppendUpdate
    <2>7. QED
      BY <1>1, <1>2, <2>3, <2>4, <2>6, ConnChanges DEF Inv, TypeOK, loginVars, Sound
  <1>5. QED
    BY <1>3, <1>4

LEMMA HandleCloseSessionStep ==
    ASSUME Inv, NEW r \in Roles, HandleCloseSession(r)
    PROVE  Inv'
  <1>1. timers' \in [Roles -> Nat]
    BY DEF HandleCloseSession, Inv, TypeOK
  <1>2. UNCHANGED <<loginVars, fromLogin, conn, mirror, m_rolegateway>>
    BY DEF HandleCloseSession
  <1>3. CASE Known(info, r)
    <2> DEFINE u == [m_delsocket |-> 0, m_delactorid |-> r,
                     m_add |-> NoRole, entry |-> NoEntry]
    <2>1. /\ info' = IF info.m_info[r].socket = 0 THEN remove_actorid(info, r) ELSE info
          /\ updates' = Append(updates, u)
      BY <1>3 DEF HandleCloseSession, Update
    <2>2. Sound(conn, info')
      BY <2>1, RemoveActorSound DEF Inv
    <2>3. u \in Updates /\ SoundUpdate(conn, u)
      BY DEF Updates, SoundUpdate
    <2>4. /\ updates' \in Seq(Updates)
          /\ \A i \in DOMAIN updates' : SoundUpdate(conn, updates'[i])
      <3> HIDE DEF u
      <3>1. QED
        BY <2>1, <2>3, AppendUpdate DEF Inv, TypeOK
    <2>5. QED
      BY <1>1, <1>2, <2>2, <2>4 DEF Inv, TypeOK, ClientsNamed, Sound, loginVars
  <1>4. CASE ~Known(info, r)
    <2>1. UNCHANGED <<info, updates>>
      BY <1>4 DEF HandleCloseSession
    <2>2. QED
      BY <1>1, <1>2, <2>1 DEF Inv, TypeOK, ClientsNamed, loginVars
  <1>5. QED
    BY <1>3, <1>4

LEMMA MirrorUpdateStep ==
    ASSUME Inv, MirrorUpdate
    PROVE  Inv' /\ Keeps(conn, conn')
  <1> DEFINE u == Head(updates)
             g == Forget(Del(mirror, u), u)
             old == IF u.m_add = NoRole THEN 0 ELSE Replaced(g, u.m_add, u.entry.socket)
  <1>1. /\ u \in Updates /\ SoundUpdate(conn, u)
        /\ updates' \in Seq(Updates)
        /\ \A i \in DOMAIN updates' : SoundUpdate(conn, updates'[i])
    BY TailUpdate, Zenon DEF MirrorUpdate, Inv, TypeOK
  <1>2. Sound(conn, mirror') /\ Sound(conn, g)
    BY <1>1, ApplySound DEF MirrorUpdate, Inv
  <1>3. old \in {0} \cup Sockets
    <2>1. CASE u.m_add = NoRole
      BY <2>1
    <2>2. CASE u.m_add # NoRole
      <3>1. u.m_add \in Roles
        BY <1>1, <2>2, Zenon DEF Updates
      <3>2. QED
        BY <1>2, <2>2, <3>1, BoundPointsBack DEF Replaced
    <2>3. QED
      BY <2>1, <2>2
  <1>4. conn' = IF old = 0 THEN conn
                ELSE [conn EXCEPT ![old].open = FALSE, ![old].gone = TRUE]
    BY Zenon DEF MirrorUpdate
  <1>5. UNCHANGED <<loginVars, fromLogin, info, timers, m_rolegateway>>
    BY DEF MirrorUpdate
  <1> HIDE DEF old
  <1>6. conn' \in [Sockets -> Conns]
    <2>1. conn \in [Sockets -> Conns]
      BY DEF Inv, TypeOK
    <2>2. \A t \in Sockets : [conn[t] EXCEPT !.open = FALSE, !.gone = TRUE] \in Conns
      BY <2>1 DEF Conns
    <2>3. CASE old = 0
      BY <1>4, <2>1, <2>3
    <2>4. CASE old # 0
      <3>1. old \in Sockets
        BY <1>3, <2>4
      <3>2. QED
        BY <1>4, <2>1, <2>2, <2>4, <3>1
    <2>5. QED
      BY <2>3, <2>4
  <1>7. Keeps(conn, conn') /\ ClientsNamed'
    BY <1>3, <1>4 DEF Inv, TypeOK, Keeps, ClientsNamed
  <1>8. Sound(conn', info') /\ Sound(conn', mirror')
    BY <1>2, <1>5, <1>6, <1>7, ConnChanges, KeepsSound
  <1>9. \A i \in DOMAIN updates' : SoundUpdate(conn', updates'[i])
    BY <1>1, <1>7, KeepsSound
  <1>10. QED
    BY <1>1, <1>5, <1>6, <1>7, <1>8, <1>9 DEF Inv, TypeOK, loginVars, Sound

LEMMA StepInv == Inv /\ [Next]_vars => Inv'
  <1> SUFFICES ASSUME Inv, [Next]_vars PROVE Inv'
    OBVIOUS
  <1>1. ASSUME NEW r \in Roles, AccountLogin(r) PROVE Inv'
    BY <1>1, AccountLoginStep
  <1>2. ASSUME NEW r \in Roles, Connect(r) PROVE Inv'
    BY <1>2, ConnectStep
  <1>3. ASSUME NEW r \in Roles, HandleCloseSession(r) PROVE Inv'
    BY <1>3, HandleCloseSessionStep
  <1>4. ASSUME NEW s \in Sockets, PeerClose(s) PROVE Inv'
    BY <1>4, PeerCloseStep
  <1>5. ASSUME NEW s \in Sockets, HandleClientLogin(s) PROVE Inv'
    BY <1>5, HandleClientLoginStep
  <1>6. ASSUME NEW s \in Sockets, HandleSessionClose(s) PROVE Inv'
    BY <1>6, HandleSessionCloseStep
  <1>7. CASE LoginRestart
    BY <1>7, LoginRestartStep
  <1>8. CASE HandleRoleLogin
    BY <1>8, HandleRoleLoginStep
  <1>9. CASE MirrorUpdate
    BY <1>9, MirrorUpdateStep
  <1>10. CASE UNCHANGED vars
    BY <1>10 DEF vars, loginVars, Inv, TypeOK, ClientsNamed, Sound
  <1>11. QED
    BY <1>1, <1>2, <1>3, <1>4, <1>5, <1>6, <1>7, <1>8, <1>9, <1>10 DEF Next

LEMMA Invariance == Spec => []Inv
  BY InitInv, StepInv, PTL DEF Spec

(* Every variable keeps the shape the code gives it. *)
THEOREM GatewayTypeInvariant == Spec => []TypeOK
  <1>1. Inv => TypeOK
    BY DEF Inv
  <1>2. QED
    BY Invariance, <1>1, PTL

(* gateway_info.cpp: whatever order sockets are replaced, entries dropped  *)
(* and timers fired in, m_sockinfo leads to live entries only, in the      *)
(* gateway and in its followers.                                           *)
THEOREM PointersStayExact == Spec => []NoDanglingPointer
  <1>1. Inv => NoDanglingPointer
    BY DEF Inv, Sound, NoDanglingPointer
  <1>2. QED
    BY Invariance, <1>1, PTL
-----------------------------------------------------------------------------
(* A role and its client.                                                  *)

(* A socket that waits for its login, or has had a close posted, is as     *)
(* the network left it.                                                    *)
ConnsSane ==
    \A s \in Sockets :
        /\ conn[s].login = "asked" => conn[s].open \/ conn[s].gone
        /\ conn[s].gone => ~conn[s].open

ClientsInv == ConnsSane /\ ClientsExact

(* Closing a socket, with the message that follows, leaves every entry with *)
(* a socket whose close is to come.                                        *)
LEMMA CloseStep ==
    ASSUME Inv, ClientsInv, UNCHANGED info, NEW s \in Sockets,
           conn' = [conn EXCEPT ![s].open = FALSE, ![s].gone = TRUE]
    PROVE  ClientsInv'
  <1>1. \A t \in Sockets :
            /\ conn'[t].role = conn[t].role /\ conn'[t].login = conn[t].login
            /\ (conn'[t].open <=> t # s /\ conn[t].open)
            /\ (conn'[t].gone <=> t = s \/ conn[t].gone)
    BY DEF Inv, TypeOK, Conns
  <1>2. \A r \in Roles : info.m_info[r].socket \in {0} \cup Sockets
    BY BoundPointsBack DEF Inv
  <1>3. ConnsSane'
    BY <1>1 DEF ClientsInv, ConnsSane
  <1>4. ClientsExact'
    BY <1>1, <1>2, Zenon DEF ClientsInv, ClientsExact
  <1>5. QED
    BY <1>3, <1>4 DEF ClientsInv

LEMMA ConnectClients ==
    ASSUME Inv, ClientsInv, NEW r \in Roles, Connect(r)
    PROVE  ClientsInv'
  <1>1. PICK s \in Sockets :
            /\ conn[s] = NoConn
            /\ conn' = [conn EXCEPT ![s] =
                   [role |-> r, session |-> token[r], open |-> TRUE,
                    login |-> "asked", gone |-> FALSE]]
    BY DEF Connect
  <1>2. /\ conn'[s].login = "asked" /\ conn'[s].open /\ ~conn'[s].gone
        /\ \A t \in Sockets \ {s} : conn'[t] = conn[t]
    BY <1>1 DEF Inv, TypeOK
  <1>3. info' = info
    BY DEF Connect
  <1>4. \A q \in Roles : info.m_info[q].socket \in ({0} \cup Sockets) \ {s}
    BY <1>1, BoundPointsBack, SocketsPositive DEF Inv, ClientsInv, ClientsExact, NoConn
  <1>5. ConnsSane'
    BY <1>2 DEF ClientsInv, ConnsSane
  <1>6. ClientsExact'
    BY <1>2, <1>3, <1>4 DEF ClientsInv, ClientsExact
  <1>7. QED
    BY <1>5, <1>6 DEF ClientsInv

LEMMA RoleLoginClients ==
    ASSUME Inv, ClientsInv, HandleRoleLogin
    PROVE  ClientsInv'
  <1> DEFINE m == Head(fromLogin)
             e == [session |-> m.session, socket |-> 0]
  <1>1. m.role \in Roles /\ e \in Entries /\ e.socket = 0
    <2>1. m \in [role : Roles, session : 1..MaxSession]
      BY TailIn DEF HandleRoleLogin, Inv, TypeOK
    <2>2. QED
      BY <2>1 DEF Entries
  <1>2. conn' = conn
    BY DEF HandleRoleLogin
  <1>3. CASE Known(info, m.role)
    BY <1>2, <1>3 DEF HandleRoleLogin, ClientsInv, ConnsSane, ClientsExact
  <1>4. CASE ~Known(info, m.role)
    <2>1. info' = updata(info, m.role, e)
      BY <1>4 DEF HandleRoleLogin
    <2> DEFINE o == m.role
    <2>2. info.m_info[o].socket = 0
      BY <1>4 DEF Known, NoEntry
    <2>3. info'.m_info = [info.m_info EXCEPT ![o] = e]
      BY <1>1, <2>1, UpdataSound DEF Inv
    <2>4. \A r \in Roles : info'.m_info[r].socket = info.m_info[r].socket
      <3> HIDE DEF e, o
      <3>1. QED
        BY <1>1, <2>2, <2>3, Zenon DEF Inv, TypeOK, Infos, o
    <2>5. \A s \in Sockets : conn[s].login = "in" => conn[s].role \in Roles
      BY DEF Inv, ClientsNamed
    <2>6. QED
      BY <1>2, <2>4, <2>5 DEF ClientsInv, ConnsSane, ClientsExact
  <1>5. QED
    BY <1>3, <1>4

(* The role's new socket takes the place of the one that is pushed out.    *)
LEMMA ClientLoginClients ==
    ASSUME Inv, ClientsInv, NEW s \in Sockets, HandleClientLogin(s)
    PROVE  ClientsInv'
  <1> DEFINE r == conn[s].role
             old == OldSocket(s)
             pushed == PushedOut(s)
             heard == [conn EXCEPT ![s].login = "in"]
  <1>1. r \in Roles /\ conn[s].login = "asked"
    BY Zenon DEF HandleClientLogin, Inv, ClientsNamed
  <1>2. CASE Accepted(s)
    <2>1. conn' = IF pushed THEN [heard EXCEPT ![old].open = FALSE] ELSE heard
      BY <1>2, Zenon DEF HandleClientLogin, Accepted, OldSocket, PushedOut
    <2>2. pushed => old \in Sockets
      BY <1>1, BoundPointsBack DEF Inv, OldSocket, PushedOut
    <2>3. /\ info'.m_info[r].socket = s
          /\ \A q \in Roles \ {r} : info'.m_info[q].socket = info.m_info[q].socket
      BY <1>2, ClientLoginBinds
    <2>4. /\ heard \in [Sockets -> Conns]
          /\ heard[s] = [conn[s] EXCEPT !.login = "in"]
          /\ \A t \in Sockets \ {s} : heard[t] = conn[t]
      BY Zenon DEF Inv, TypeOK, Conns
    <2>5. /\ heard[s].login = "in" /\ (heard[s].open <=> conn[s].open)
          /\ (heard[s].gone <=> conn[s].gone) /\ heard[s].role = r
      BY <2>4 DEF Inv, TypeOK, Conns
    <2>6. \A t \in Sockets :
               /\ conn'[t].role = heard[t].role /\ conn'[t].login = heard[t].login
               /\ (conn'[t].gone <=> heard[t].gone)
               /\ (conn'[t].open <=> heard[t].open /\ ~(pushed /\ t = old))
      <3> HIDE DEF heard, old, pushed
      <3>1. CASE pushed
        BY <2>1, <2>2, <2>4, <3>1 DEF Conns
      <3>2. CASE ~pushed
        BY <2>1, <2>4, <3>2 DEF Conns
      <3>3. QED
        BY <3>1, <3>2
    <2> HIDE DEF heard
    <2>7. ConnsSane'
      <3>1. pushed => conn[old].login = "in"
        BY <1>1, <2>2 DEF ClientsInv, ClientsExact, OldSocket, PushedOut
      <3> HIDE DEF old, pushed
      <3>2. \A t \in Sockets :
               /\ heard[t].login = "asked" => t # s /\ conn[t].login = "asked"
               /\ (heard[t].open <=> conn[t].open) /\ (heard[t].gone <=> conn[t].gone)
        BY <2>4, <2>5
      <3>3. pushed => heard[old].login # "asked"
        BY <1>1, <2>2, <3>1, <3>2
      <3>4. ConnsSane
        BY DEF ClientsInv
      <3>5. QED
        BY <2>6, <3>2, <3>3, <3>4 DEF ConnsSane
    <2>8. ASSUME NEW q \in Roles, info'.m_info[q].socket # 0
          PROVE  LET t == info'.m_info[q].socket IN
                 conn'[t].login = "in" /\ (conn'[t].open \/ conn'[t].gone)
      <3>1. CASE q = r
        <4>1. conn[s].open \/ conn[s].gone
          BY <1>1 DEF ClientsInv, ConnsSane
        <4>2. QED
          BY <2>3, <2>5, <2>6, <3>1, <4>1 DEF PushedOut
      <3>2. CASE q # r
        <4> DEFINE t == info.m_info[q].socket
        <4>1. info'.m_info[q].socket = t
          BY <2>3, <3>2
        <4>2. t \in Sockets /\ t # 0
          BY <2>8, <4>1, BoundPointsBack DEF Inv
        <4>3. conn[t].login = "in" /\ (conn[t].open \/ conn[t].gone)
          BY <4>2 DEF ClientsInv, ClientsExact
        <4>4. t # s /\ ~(pushed /\ t = old)
          BY <1>1, <3>2, <4>2, <4>3, BoundPointsBack DEF Inv, OldSocket
        <4>5. QED
          BY <2>4, <2>6, <4>1, <4>2, <4>3, <4>4
      <3>3. QED
        BY <3>1, <3>2
    <2>9. ASSUME NEW t \in Sockets, conn'[t].open, conn'[t].login = "in"
          PROVE  info'.m_info[conn'[t].role].socket = t
      <3>1. CASE t = s
        BY <2>3, <2>5, <2>6, <3>1
      <3>2. CASE t # s
        <4>1. /\ conn[t].open /\ conn[t].login = "in" /\ ~(pushed /\ t = old)
              /\ conn'[t].role = conn[t].role
          BY <2>4, <2>6, <2>9, <3>2
        <4>2. conn[t].role \in Roles /\ info.m_info[conn[t].role].socket = t
          BY <4>1 DEF ClientsInv, ClientsExact, Inv, ClientsNamed
        <4>3. conn[t].role # r
          BY <3>2, <4>1, <4>2, SocketsPositive DEF OldSocket, PushedOut
        <4>4. QED
          BY <2>3, <4>1, <4>2, <4>3
      <3>3. QED
        BY <3>1, <3>2
    <2>10. ClientsExact'
      BY <2>8, <2>9, Zenon DEF ClientsExact
    <2>11. QED
      BY <2>7, <2>10, Zenon DEF ClientsInv
  <1>3. CASE ~Accepted(s)
    <2>1. conn' = [conn EXCEPT ![s].login = "out"] /\ info' = info
      BY <1>3, Zenon DEF HandleClientLogin, Accepted
    <2>2. /\ conn'[s].login = "out" /\ (conn'[s].gone <=> conn[s].gone)
          /\ (conn'[s].open <=> conn[s].open)
          /\ \A t \in Sockets \ {s} : conn'[t] = conn[t]
      BY <2>1 DEF Inv, TypeOK, Conns
    <2>3. \A q \in Roles : info.m_info[q].socket \in ({0} \cup Sockets) \ {s}
      BY <1>1, BoundPointsBack, SocketsPositive DEF Inv, ClientsInv, ClientsExact
    <2>4. ConnsSane'
      BY <2>2 DEF ClientsInv, ConnsSane
    <2>5. ClientsExact'
      BY <2>1, <2>2, <2>3 DEF ClientsInv, ClientsExact
    <2>6. QED
      BY <2>4, <2>5 DEF ClientsInv
  <1>4. QED
    BY <1>2, <1>3

LEMMA SessionCloseClients ==
    ASSUME Inv, ClientsInv, NEW s \in Sockets, HandleSessionClose(s)
    PROVE  ClientsInv'
  <1>1. /\ conn[s].gone /\ conn[s].login # "asked"
        /\ conn' = [conn EXCEPT ![s].gone = FALSE]
        /\ info' = remove_socket(info, s)
    BY DEF HandleSessionClose, remove_socket
  <1>2. \A r \in Roles : info'.m_info[r] = IF info.m_info[r].socket = s
                                          THEN Unbound(info.m_info[r]) ELSE info.m_info[r]
    BY <1>1, RemoveSocketSound DEF Inv
  <1>3. \A r \in Roles :
            /\ info.m_info[r].socket = s => info'.m_info[r].socket = 0
            /\ info.m_info[r].socket # s => info'.m_info[r] = info.m_info[r]
    <2> TAKE r \in Roles
    <2>1. ASSUME info.m_info[r].socket = s PROVE info'.m_info[r].socket = 0
      <3>1. info'.m_info[r] = Unbound(info.m_info[r])
        BY <1>2, <2>1
      <3>2. QED
        BY <3>1 DEF Unbound
    <2>2. ASSUME info.m_info[r].socket # s PROVE info'.m_info[r] = info.m_info[r]
      BY <1>2, <2>2
    <2>3. QED
      BY <2>1, <2>2
  <1>4. /\ ~conn'[s].gone /\ (conn'[s].open <=> conn[s].open)
        /\ conn'[s].login = conn[s].login
        /\ \A t \in Sockets \ {s} : conn'[t] = conn[t]
    BY <1>1 DEF Inv, TypeOK, Conns
  <1>5. ~conn[s].open
    BY <1>1 DEF ClientsInv, ConnsSane
  <1>6. \A r \in Roles : info.m_info[r].socket \in {0} \cup Sockets
    BY BoundPointsBack DEF Inv
  <1>7. ConnsSane'
    BY <1>1, <1>4 DEF ClientsInv, ConnsSane
  <1>8. \A t \in Sockets : conn[t].login = "in" => conn[t].role \in Roles
    BY DEF Inv, ClientsNamed
  <1>9. ClientsExact'
    BY <1>3, <1>4, <1>5, <1>6, <1>8 DEF ClientsInv, ClientsExact
  <1>10. QED
    BY <1>7, <1>9 DEF ClientsInv

LEMMA CloseSessionClients ==
    ASSUME Inv, ClientsInv, NEW r \in Roles, HandleCloseSession(r)
    PROVE  ClientsInv'
  <1>1. conn' = conn
    BY DEF HandleCloseSession
  <1>2. \A q \in Roles : info'.m_info[q].socket = info.m_info[q].socket
    <2>1. CASE Known(info, r) /\ info.m_info[r].socket = 0
      <3>1. info'.m_info = [info.m_info EXCEPT ![r] = NoEntry]
        BY <2>1, RemoveActorSound DEF HandleCloseSession, Inv
      <3>2. QED
        BY <2>1, <3>1 DEF NoEntry, Inv, TypeOK, Infos
    <2>2. CASE ~(Known(info, r) /\ info.m_info[r].socket = 0)
      BY <2>2 DEF HandleCloseSession
    <2>3. QED
      BY <2>1, <2>2
  <1>3. \A t \in Sockets : conn[t].login = "in" => conn[t].role \in Roles
    BY DEF Inv, ClientsNamed
  <1>4. QED
    BY <1>1, <1>2, <1>3 DEF ClientsInv, ConnsSane, ClientsExact

LEMMA MirrorClients ==
    ASSUME Inv, ClientsInv, MirrorUpdate
    PROVE  ClientsInv'
  <1> DEFINE u == Head(updates)
             g == Forget(Del(mirror, u), u)
             old == IF u.m_add = NoRole THEN 0 ELSE Replaced(g, u.m_add, u.entry.socket)
  <1>1. u \in Updates /\ SoundUpdate(conn, u)
    BY TailUpdate DEF MirrorUpdate, Inv, TypeOK
  <1>2. Sound(conn, g)
    BY <1>1, ApplySound DEF Inv
  <1>3. old \in {0} \cup Sockets
    BY <1>1, <1>2, BoundPointsBack, Zenon DEF Replaced, Updates
  <1>4. /\ info' = info
        /\ conn' = IF old = 0 THEN conn
                   ELSE [conn EXCEPT ![old].open = FALSE, ![old].gone = TRUE]
    BY DEF MirrorUpdate
  <1> HIDE DEF old
  <1>5. CASE old = 0
    BY <1>4, <1>5 DEF ClientsInv, ConnsSane, ClientsExact
  <1>6. CASE old # 0
    BY <1>3, <1>4, <1>6, CloseStep
  <1>7. QED
    BY <1>5, <1>6, Zenon

LEMMA ClientsStep == Inv /\ ClientsInv /\ [Next]_vars => ClientsInv'
  <1> SUFFICES ASSUME Inv, ClientsInv, [Next]_vars PROVE ClientsInv'
    OBVIOUS
  <1>1. ASSUME UNCHANGED <<conn, info>> PROVE ClientsInv'
    BY <1>1 DEF ClientsInv, ConnsSane, ClientsExact
  <1>2. ASSUME NEW r \in Roles, AccountLogin(r) \/ Connect(r) \/ HandleCloseSession(r)
        PROVE  ClientsInv'
    BY <1>1, <1>2, ConnectClients, CloseSessionClients DEF AccountLogin
  <1>3. ASSUME NEW s \in Sockets,
               PeerClose(s) \/ HandleClientLogin(s) \/ HandleSessionClose(s)
        PROVE  ClientsInv'
    BY <1>3, CloseStep, ClientLoginClients, SessionCloseClients DEF PeerClose
  <1>4. CASE LoginRestart \/ UNCHANGED vars
    BY <1>1, <1>4 DEF LoginRestart, vars
  <1>5. CASE HandleRoleLogin \/ MirrorUpdate
    BY <1>5, RoleLoginClients, MirrorClients
  <1>6. QED
    BY <1>2, <1>3, <1>4, <1>5 DEF Next

(* A role is bound to a socket that is open or whose close is to come, and *)
(* a client that was let in and is still connected is the one its role is  *)
(* bound to: the socket a second login pushes out does not stay open.      *)
THEOREM ClientsStayExact == Spec => []ClientsExact
  <1>1. Init => ClientsInv
    BY GatewayAssumption DEF Init, ClientsInv, ConnsSane, ClientsExact, NoConn, NoEntry
  <1>2. ClientsInv => ClientsExact
    BY DEF ClientsInv
  <1>3. QED
    BY <1>1, <1>2, ClientsStep, Invariance, PTL DEF Spec
-----------------------------------------------------------------------------
(* The followers.  A follower lags: what it will be once it has applied    *)
(* the updates in its mailbox agrees with the gateway.                     *)

Agrees(g, h) == \A r \in Roles : Known(g, r) => g.m_info[r] = h.m_info[r]

(* f lists what a follower in state g becomes, update by update. *)
Leads(us, f, g) == f[1] = g /\ \A i \in 1..Len(us) : f[i + 1] = ApplyUpdate(f[i], us[i])

Follows(c, us, g, h) ==
    \E f : Leads(us, f, g) /\ Sound(c, f[Len(us) + 1]) /\ Agrees(f[Len(us) + 1], h)

FollowInv == Follows(conn, updates, mirror, info)

LEMMA LeadsAppend ==
    ASSUME NEW us \in Seq(Updates), NEW u \in Updates, NEW f, NEW g, Leads(us, f, g)
    PROVE  \E e : /\ Leads(Append(us, u), e, g)
                  /\ e[Len(Append(us, u)) + 1] = ApplyUpdate(f[Len(us) + 1], u)
  <1> DEFINE n == Len(us)
             e == [i \in 1..n + 2 |-> IF i = n + 2 THEN ApplyUpdate(f[n + 1], u) ELSE f[i]]
  <1>1. /\ n \in Nat /\ Len(Append(us, u)) = n + 1
        /\ \A i \in 1..n : Append(us, u)[i] = us[i]
        /\ Append(us, u)[n + 1] = u
    OBVIOUS
  <1>2. /\ \A i \in 1..n + 1 : e[i] = f[i]
        /\ e[n + 2] = ApplyUpdate(f[n + 1], u)
    BY <1>1
  <1> HIDE DEF n, e
  <1>3. ASSUME NEW i \in 1..n + 1
        PROVE  e[i + 1] = ApplyUpdate(e[i], Append(us, u)[i])
    <2>1. CASE i = n + 1
      <3>1. e[i + 1] = ApplyUpdate(f[i], u) /\ e[i] = f[i] /\ Append(us, u)[i] = u
        BY <1>1, <1>2, <2>1
      <3>2. QED
        BY <3>1
    <2>2. CASE i # n + 1
      <3>1. i \in 1..n
        BY <1>1, <2>2
      <3>2. f[i + 1] = ApplyUpdate(f[i], us[i])
        BY <3>1 DEF Leads, n
      <3>3. e[i + 1] = f[i + 1] /\ e[i] = f[i] /\ Append(us, u)[i] = us[i]
        BY <1>1, <1>2, <3>1
      <3>4. QED
        BY <3>2, <3>3
    <2>3. QED
      BY <2>1, <2>2
  <1>4. e[1] = g
    BY <1>1, <1>2 DEF Leads
  <1>5. Leads(Append(us, u), e, g)
    BY <1>1, <1>3, <1>4 DEF Leads
  <1>6. e[Len(Append(us, u)) + 1] = ApplyUpdate(f[Len(us) + 1], u)
    BY <1>1, <1>2 DEF n
  <1>7. QED
    BY <1>5, <1>6

LEMMA LeadsTail ==
    ASSUME NEW us \in Seq(Updates), us # <<>>, NEW f, NEW g, Leads(us, f, g)
    PROVE  \E e : /\ Leads(Tail(us), e, ApplyUpdate(g, Head(us)))
                  /\ e[Len(Tail(us)) + 1] = f[Len(us) + 1]
  <1> DEFINE n == Len(us)
             e == [i \in 1..n |-> f[i + 1]]
  <1>1. /\ n \in Nat \ {0} /\ Len(Tail(us)) = n - 1 /\ Head(us) = us[1]
        /\ \A i \in 1..n - 1 : Tail(us)[i] = us[i + 1]
    OBVIOUS
  <1>2. \A i \in 1..n : e[i] = f[i + 1]
    OBVIOUS
  <1> HIDE DEF n, e
  <1>3. ASSUME NEW i \in 1..n - 1
        PROVE  e[i + 1] = ApplyUpdate(e[i], Tail(us)[i])
    <2>1. i + 1 \in 1..n /\ i \in 1..n
      BY <1>1
    <2>2. f[i + 1 + 1] = ApplyUpdate(f[i + 1], us[i + 1])
      BY <2>1 DEF Leads, n
    <2>3. e[i + 1] = f[i + 1 + 1] /\ e[i] = f[i + 1] /\ Tail(us)[i] = us[i + 1]
      BY <1>1, <1>2, <2>1
    <2>4. QED
      BY <2>2, <2>3
  <1>4. e[1] = ApplyUpdate(g, Head(us))
    <2>1. 1 \in 1..n
      BY <1>1
    <2>2. f[1 + 1] = ApplyUpdate(f[1], us[1]) /\ f[1] = g
      BY <2>1 DEF Leads, n
    <2>3. QED
      BY <1>1, <1>2, <2>1, <2>2
  <1>5. Leads(Tail(us), e, ApplyUpdate(g, Head(us)))
    BY <1>1, <1>3, <1>4 DEF Leads
  <1>6. e[Len(Tail(us)) + 1] = f[Len(us) + 1]
    BY <1>1, <1>2 DEF n
  <1>7. QED
    BY <1>5, <1>6

(* An update that takes what agrees with the old gateway to what agrees    *)
(* with the new one may be appended.                                       *)
LEMMA FollowsAppend ==
    ASSUME NEW c, NEW us \in Seq(Updates), NEW u \in Updates, SoundUpdate(c, u),
           NEW g, NEW h, NEW k, Follows(c, us, g, h),
           \A x : Sound(c, x) /\ Agrees(x, h) => Agrees(ApplyUpdate(x, u), k)
    PROVE  Follows(c, Append(us, u), g, k)
  <1>1. PICK f : /\ Leads(us, f, g)
                 /\ Sound(c, f[Len(us) + 1]) /\ Agrees(f[Len(us) + 1], h)
    BY DEF Follows
  <1>2. PICK e : /\ Leads(Append(us, u), e, g)
                 /\ e[Len(Append(us, u)) + 1] = ApplyUpdate(f[Len(us) + 1], u)
    BY <1>1, LeadsAppend
  <1>3. Sound(c, ApplyUpdate(f[Len(us) + 1], u))
    BY <1>1, ApplySound
  <1>4. Agrees(ApplyUpdate(f[Len(us) + 1], u), k)
    BY <1>1
  <1>5. QED
    BY <1>2, <1>3, <1>4 DEF Follows

LEMMA FollowsKeeps ==
    ASSUME NEW c, NEW d, Keeps(c, d), NEW us, NEW g, NEW h, Follows(c, us, g, h)
    PROVE  Follows(d, us, g, h)
  <1>1. PICK f : /\ Leads(us, f, g)
                 /\ Sound(c, f[Len(us) + 1]) /\ Agrees(f[Len(us) + 1], h)
    BY DEF Follows
  <1>2. Sound(d, f[Len(us) + 1])
    BY <1>1, KeepsSound
  <1>3. QED
    BY <1>1, <1>2 DEF Follows

(* What the three kinds of update do to a follower that agrees. *)

LEMMA AddAgrees ==
    ASSUME NEW c, NEW x, NEW h, Sound(c, x), Agrees(x, h), NEW k \in Infos,
           NEW r \in Roles, NEW e \in Entries, e.socket # 0 => c[e.socket].role = r,
           k.m_info[r] = e, \A q \in Roles \ {r} : k.m_info[q] = h.m_info[q]
    PROVE  Agrees(updata(x, r, e), k)
  <1>1. updata(x, r, e).m_info = [x.m_info EXCEPT ![r] = e]
    BY UpdataSound
  <1>2. ASSUME NEW q \in Roles, Known(updata(x, r, e), q)
        PROVE  updata(x, r, e).m_info[q] = k.m_info[q]
    <2>1. updata(x, r, e).m_info[q] = IF q = r THEN e ELSE x.m_info[q]
      BY <1>1 DEF Sound, Infos
    <2>2. QED
      BY <1>2, <2>1 DEF Agrees, Known
  <1>3. QED
    BY <1>2 DEF Agrees

(* Dropping a role's socket and then the role leaves the others alone: the *)
(* socket is the role's in the follower too, or nobody's.                  *)
LEMMA DropAgrees ==
    ASSUME NEW c, NEW x, NEW h, Sound(c, x), Sound(c, h), Agrees(x, h),
           NEW r \in Roles, NEW s \in Sockets, h.m_info[r].socket = s
    PROVE  /\ Sound(c, remove_actorid(remove_socket(x, s), r))
           /\ Agrees(remove_actorid(remove_socket(x, s), r), h)
  <1> DEFINE y == remove_socket(x, s)
             z == remove_actorid(y, r)
  <1>1. /\ Sound(c, y)
        /\ \A q \in Roles : y.m_info[q] = IF x.m_info[q].socket = s
                                         THEN Unbound(x.m_info[q]) ELSE x.m_info[q]
    BY RemoveSocketSound
  <1>2. Sound(c, z) /\ z.m_info = [y.m_info EXCEPT ![r] = NoEntry]
    <2> HIDE DEF y
    <2>1. QED
      BY <1>1, RemoveActorSound
  <1>3. c[s].role = r
    BY BoundPointsBack, SocketsPositive, GatewayAssumption DEF Sound, OwnedIn
  <1>4. \A q \in Roles \ {r} : x.m_info[q].socket # s
    BY <1>3, BoundPointsBack, SocketsPositive, GatewayAssumption DEF Sound, OwnedIn
  <1>5. ASSUME NEW q \in Roles, Known(z, q)
        PROVE  z.m_info[q] = h.m_info[q]
    <2> HIDE DEF y, z
    <2>1. z.m_info[q] = IF q = r THEN NoEntry ELSE y.m_info[q]
      BY <1>1, <1>2 DEF Sound, Infos
    <2>2. q # r /\ z.m_info[q] = y.m_info[q]
      BY <1>5, <2>1 DEF Known
    <2>3. y.m_info[q] = x.m_info[q]
      BY <1>1, <1>4, <2>2
    <2>4. QED
      BY <1>5, <2>2, <2>3 DEF Agrees, Known
  <1>6. QED
    BY <1>2, <1>5 DEF Agrees

LEMMA CloseAgrees ==
    ASSUME NEW c, NEW x, NEW h, Sound(c, x), Sound(c, h), Agrees(x, h),
           NEW s \in Sockets
    PROVE  Agrees(remove_socket(x, s), remove_socket(h, s))
  <1> DEFINE y == remove_socket(x, s)
             k == remove_socket(h, s)
  <1>1. /\ \A q \in Roles : y.m_info[q] = IF x.m_info[q].socket = s
                                         THEN Unbound(x.m_info[q]) ELSE x.m_info[q]
        /\ \A q \in Roles : k.m_info[q] = IF h.m_info[q].socket = s
                                         THEN Unbound(h.m_info[q]) ELSE h.m_info[q]
    BY RemoveSocketSound
  <1> HIDE DEF y, k
  <1>2. ASSUME NEW q \in Roles, Known(y, q)
        PROVE  y.m_info[q] = k.m_info[q]
    <2>1. Known(x, q)
      <3>1. SUFFICES ASSUME x.m_info[q] = NoEntry PROVE FALSE
        BY DEF Known
      <3>2. x.m_info[q].socket # s
        BY <3>1, SocketsPositive DEF NoEntry
      <3>3. QED
        BY <1>1, <1>2, <3>1, <3>2 DEF Known
    <2>2. x.m_info[q] = h.m_info[q]
      BY <2>1 DEF Agrees
    <2>3. QED
      BY <1>1, <2>2
  <1>3. QED
    BY <1>2 DEF Agrees, y, k

LEMMA ForgetAgrees ==
    ASSUME NEW c, NEW x, NEW h, Sound(c, x), Agrees(x, h), NEW r \in Roles, NEW k,
           \A q \in Roles \ {r} : k.m_info[q] = h.m_info[q]
    PROVE  Agrees(remove_actorid(x, r), k)
  <1> DEFINE z == remove_actorid(x, r)
  <1>1. z.m_info = [x.m_info EXCEPT ![r] = NoEntry]
    BY RemoveActorSound
  <1> HIDE DEF z
  <1>2. ASSUME NEW q \in Roles, Known(z, q)
        PROVE  z.m_info[q] = k.m_info[q]
    <2>1. z.m_info[q] = IF q = r THEN NoEntry ELSE x.m_info[q]
      BY <1>1 DEF Sound, Infos
    <2>2. QED
      BY <1>2, <2>1 DEF Agrees, Known
  <1>3. QED
    BY <1>2 DEF Agrees, z
(* A step that leaves the gateway, the follower and the updates alone. *)
LEMMA FollowIdle ==
    ASSUME FollowInv, Keeps(conn, conn'), UNCHANGED <<info, mirror, updates>>
    PROVE  FollowInv'
  BY FollowsKeeps DEF FollowInv

(* A step of the gateway and the update it sends. *)
LEMMA FollowSend ==
    ASSUME Inv, FollowInv, Keeps(conn, conn'), UNCHANGED mirror,
           NEW u \in Updates, SoundUpdate(conn, u), updates' = Append(updates, u),
           \A x : Sound(conn, x) /\ Agrees(x, info) => Agrees(ApplyUpdate(x, u), info')
    PROVE  FollowInv'
  <1>1. updates \in Seq(Updates)
    BY DEF Inv, TypeOK
  <1>2. Follows(conn, Append(updates, u), mirror, info')
    BY <1>1, FollowsAppend DEF FollowInv
  <1>3. Follows(conn', Append(updates, u), mirror, info')
    BY <1>2, FollowsKeeps
  <1>4. QED
    BY <1>3 DEF FollowInv

LEMMA RoleLoginFollow ==
    ASSUME Inv, FollowInv, HandleRoleLogin
    PROVE  FollowInv'
  <1> DEFINE m == Head(fromLogin)
             e == [session |-> m.session, socket |-> 0]
             u == [m_delsocket |-> 0, m_delactorid |-> NoRole,
                   m_add |-> m.role, entry |-> e]
  <1>1. m \in [role : Roles, session : 1..MaxSession]
    BY TailIn DEF HandleRoleLogin, Inv, TypeOK
  <1>2. m.role \in Roles /\ m.role # NoRole /\ e \in Entries /\ e.socket = 0
    BY <1>1, GatewayAssumption DEF Entries
  <1>3. Keeps(conn, conn') /\ mirror' = mirror
    BY DEF HandleRoleLogin, Keeps
  <1>4. CASE Known(info, m.role)
    BY <1>3, <1>4, FollowIdle DEF HandleRoleLogin
  <1>5. CASE ~Known(info, m.role)
    <2>1. info' = updata(info, m.role, e) /\ updates' = Append(updates, u)
      BY <1>5 DEF HandleRoleLogin, Update
    <2>2. u \in Updates /\ SoundUpdate(conn, u)
      BY <1>2 DEF Updates, SoundUpdate
    <2>3. Sound(conn, info') /\ info'.m_info = [info.m_info EXCEPT ![m.role] = e]
      <3> HIDE DEF e, m
      <3>1. QED
        BY <1>2, <2>1, UpdataSound DEF Inv
    <2>4. /\ info' \in Infos
          /\ info'.m_info[m.role] = e
          /\ \A q \in Roles \ {m.role} : info'.m_info[q] = info.m_info[q]
      <3> HIDE DEF e, m
      <3>1. QED
        BY <1>2, <2>3, Zenon DEF Inv, TypeOK, Infos, Sound
    <2>5. ASSUME NEW x, Sound(conn, x), Agrees(x, info)
          PROVE  Agrees(ApplyUpdate(x, u), info')
      <3>1. ApplyUpdate(x, u) = updata(x, m.role, e)
        BY <1>2 DEF ApplyUpdate, Add, Forget, Del
      <3> HIDE DEF e, m, u
      <3>2. QED
        BY <1>2, <2>4, <2>5, <3>1, AddAgrees
    <2> HIDE DEF u
    <2>6. QED
      BY <1>3, <2>1, <2>2, <2>5, FollowSend
  <1>6. QED
    BY <1>4, <1>5

(* The socket that is pushed out is the role's in the follower too, or     *)
(* nobody's: clearing it touches no other role.                            *)
LEMMA ClientLoginFollow ==
    ASSUME Inv, FollowInv, NEW s \in Sockets, HandleClientLogin(s)
    PROVE  FollowInv'
  <1> DEFINE r == conn[s].role
  <1>1. r \in Roles /\ r # NoRole
    BY GatewayAssumption, Zenon DEF HandleClientLogin, Inv, ClientsNamed
  <1>2. Inv' /\ Keeps(conn, conn') /\ mirror' = mirror
    BY HandleClientLoginStep, Zenon DEF HandleClientLogin
  <1>3. CASE Accepted(s)
    <2>1. PICK e \in Entries :
              /\ e.socket = s
              /\ info'.m_info[r] = e
              /\ \A q \in Roles \ {r} : info'.m_info[q] = info.m_info[q]
              /\ updates' = Append(updates, LoginUpdate(s, e))
      BY <1>3, ClientLoginBinds
    <2> DEFINE u == LoginUpdate(s, e)
    <2>2. PushedOut(s) => OldSocket(s) \in Sockets
      BY <1>1, BoundPointsBack DEF Inv, OldSocket, PushedOut
    <2>3. u \in Updates /\ SoundUpdate(conn, u)
      BY <1>1, <2>1, <2>2 DEF LoginUpdate, Updates, SoundUpdate
    <2>4. info' \in Infos
      BY <1>2 DEF Inv, TypeOK
    <2>5. ASSUME NEW x, Sound(conn, x), Agrees(x, info)
          PROVE  Agrees(ApplyUpdate(x, u), info')
      <3> DEFINE y == Forget(Del(x, u), u)
      <3>1. Sound(conn, y) /\ Agrees(y, info)
        <4>1. CASE PushedOut(s)
          <5> DEFINE old == OldSocket(s)
          <5>1. old \in Sockets /\ info.m_info[r].socket = old
            BY <2>2, <4>1 DEF OldSocket
          <5>2. y = remove_actorid(remove_socket(x, old), r)
            BY <1>1, <4>1, <5>1, SocketsPositive DEF Forget, Del, LoginUpdate
          <5> HIDE DEF old, y, r
          <5>3. QED
            BY <1>1, <2>5, <5>1, <5>2, DropAgrees DEF Inv
        <4>2. CASE ~PushedOut(s)
          BY <2>5, <4>2 DEF Forget, Del, LoginUpdate
        <4>3. QED
          BY <4>1, <4>2
      <3>2. ApplyUpdate(x, u) = updata(y, r, e)
        BY <1>1 DEF ApplyUpdate, Add, LoginUpdate
      <3>3. e.socket # 0 => conn[e.socket].role = r
        BY <2>1
      <3> HIDE DEF y, r, u
      <3>4. QED
        BY <1>1, <2>1, <2>4, <3>1, <3>2, <3>3, AddAgrees
    <2>6. updates' = Append(updates, u)
      BY <2>1, Zenon
    <2> HIDE DEF u
    <2>7. QED
      BY <1>2, <2>3, <2>5, <2>6, FollowSend
  <1>4. CASE ~Accepted(s)
    BY <1>2, <1>4, FollowIdle, Zenon DEF HandleClientLogin, Accepted
  <1>5. QED
    BY <1>3, <1>4

LEMMA SessionCloseFollow ==
    ASSUME Inv, FollowInv, NEW s \in Sockets, HandleSessionClose(s)
    PROVE  FollowInv'
  <1>1. Keeps(conn, conn') /\ mirror' = mirror
    BY HandleSessionCloseStep DEF HandleSessionClose
  <1>2. CASE info.m_sockinfo[s] = NoRole
    BY <1>1, <1>2, FollowIdle DEF HandleSessionClose
  <1>3. CASE info.m_sockinfo[s] # NoRole
    <2> DEFINE u == [m_delsocket |-> s, m_delactorid |-> NoRole,
                     m_add |-> NoRole, entry |-> NoEntry]
    <2>1. info' = remove_socket(info, s) /\ updates' = Append(updates, u)
      BY <1>3 DEF HandleSessionClose, Update
    <2>2. u \in Updates /\ SoundUpdate(conn, u)
      BY DEF Updates, SoundUpdate
    <2>3. ASSUME NEW x, Sound(conn, x), Agrees(x, info)
          PROVE  Agrees(ApplyUpdate(x, u), info')
      <3>1. ApplyUpdate(x, u) = remove_socket(x, s)
        BY SocketsPositive DEF ApplyUpdate, Add, Forget, Del
      <3>2. QED
        BY <2>1, <2>3, <3>1, CloseAgrees DEF Inv
    <2> HIDE DEF u
    <2>4. QED
      BY <1>1, <2>1, <2>2, <2>3, FollowSend
  <1>4. QED
    BY <1>2, <1>3

(* The followers forget the role even when the gateway keeps its record.   *)
LEMMA CloseSessionFollow ==
    ASSUME Inv, FollowInv, NEW r \in Roles, HandleCloseSession(r)
    PROVE  FollowInv'
  <1>1. Keeps(conn, conn') /\ mirror' = mirror
    BY DEF HandleCloseSession, Keeps
  <1>2. CASE Known(info, r)
    <2> DEFINE u == [m_delsocket |-> 0, m_delactorid |-> r,
                     m_add |-> NoRole, entry |-> NoEntry]
    <2>1. /\ info' = IF info.m_info[r].socket = 0 THEN remove_actorid(info, r) ELSE info
          /\ updates' = Append(updates, u)
      BY <1>2 DEF HandleCloseSession, Update
    <2>2. u \in Updates /\ SoundUpdate(conn, u)
      BY DEF Updates, SoundUpdate
    <2>3. \A q \in Roles \ {r} : info'.m_info[q] = info.m_info[q]
      <3>1. remove_actorid(info, r).m_info = [info.m_info EXCEPT ![r] = NoEntry]
        BY RemoveActorSound DEF Inv
      <3>2. QED
        BY <2>1, <3>1, Zenon DEF Inv, TypeOK, Infos
    <2>4. ASSUME NEW x, Sound(conn, x), Agrees(x, info)
          PROVE  Agrees(ApplyUpdate(x, u), info')
      <3>1. ApplyUpdate(x, u) = remove_actorid(x, r)
        BY GatewayAssumption DEF ApplyUpdate, Add, Forget, Del
      <3>2. QED
        BY <2>3, <2>4, <3>1, ForgetAgrees
    <2> HIDE DEF u
    <2>5. QED
      BY <1>1, <2>1, <2>2, <2>4, FollowSend
  <1>3. CASE ~Known(info, r)
    BY <1>1, <1>3, FollowIdle DEF HandleCloseSession
  <1>4. QED
    BY <1>2, <1>3

LEMMA MirrorFollow ==
    ASSUME Inv, FollowInv, MirrorUpdate
    PROVE  FollowInv'
  <1>1. Keeps(conn, conn')
    BY MirrorUpdateStep
  <1>2. /\ updates \in Seq(Updates) /\ updates # <<>> /\ updates' = Tail(updates)
        /\ mirror' = ApplyUpdate(mirror, Head(updates)) /\ info' = info
    BY DEF MirrorUpdate, Inv, TypeOK
  <1>3. PICK f : /\ Leads(updates, f, mirror)
                 /\ Sound(conn, f[Len(updates) + 1])
                 /\ Agrees(f[Len(updates) + 1], info)
    BY DEF FollowInv, Follows
  <1>4. PICK e : /\ Leads(Tail(updates), e, ApplyUpdate(mirror, Head(updates)))
                 /\ e[Len(Tail(updates)) + 1] = f[Len(updates) + 1]
    BY <1>2, <1>3, LeadsTail
  <1>5. Follows(conn, updates', mirror', info')
    BY <1>2, <1>3, <1>4 DEF Follows
  <1>6. QED
    BY <1>1, <1>5, FollowsKeeps DEF FollowInv

LEMMA FollowStep == Inv /\ FollowInv /\ [Next]_vars => FollowInv'
  <1> SUFFICES ASSUME Inv, FollowInv, [Next]_vars PROVE FollowInv'
    OBVIOUS
  <1>1. ASSUME UNCHANGED <<conn, info, mirror, updates>> PROVE FollowInv'
    BY <1>1, FollowIdle DEF Keeps
  <1>2. ASSUME NEW r \in Roles, AccountLogin(r) \/ Connect(r) \/ HandleCloseSession(r)
        PROVE  FollowInv'
    <2>1. CASE AccountLogin(r)
      BY <1>1, <2>1 DEF AccountLogin
    <2>2. CASE Connect(r)
      BY <2>2, ConnectStep, FollowIdle DEF Connect
    <2>3. CASE HandleCloseSession(r)
      BY <2>3, CloseSessionFollow
    <2>4. QED
      BY <1>2, <2>1, <2>2, <2>3
  <1>3. ASSUME NEW s \in Sockets,
               PeerClose(s) \/ HandleClientLogin(s) \/ HandleSessionClose(s)
        PROVE  FollowInv'
    <2>1. CASE PeerClose(s)
      BY <2>1, PeerCloseStep, FollowIdle DEF PeerClose
    <2>2. CASE HandleClientLogin(s)
      BY <2>2, ClientLoginFollow
    <2>3. CASE HandleSessionClose(s)
      BY <2>3, SessionCloseFollow
    <2>4. QED
      BY <1>3, <2>1, <2>2, <2>3
  <1>4. CASE LoginRestart \/ UNCHANGED vars
    BY <1>1, <1>4 DEF LoginRestart, vars
  <1>5. CASE HandleRoleLogin \/ MirrorUpdate
    BY <1>5, RoleLoginFollow, MirrorFollow
  <1>6. QED
    BY <1>2, <1>3, <1>4, <1>5 DEF Next

(* A follower with no update left knows of a role what the gateway knows,  *)
(* or nothing: it never forwards for a socket or a session that was given  *)
(* up, whatever sockets it closed itself on the way.                       *)
THEOREM FollowersStaySound == Spec => []MirrorSound
  <1>1. Init => FollowInv
    <2> SUFFICES ASSUME Init PROVE FollowInv
      OBVIOUS
    <2> DEFINE f == [i \in {1} |-> mirror]
    <2>1. updates = <<>> /\ Len(updates) = 0 /\ mirror = info
      BY DEF Init
    <2>2. f[1] = mirror
      OBVIOUS
    <2> HIDE DEF f
    <2>3. Leads(updates, f, mirror)
      BY <2>1, <2>2 DEF Leads
    <2>4. Sound(conn, f[Len(updates) + 1]) /\ Agrees(f[Len(updates) + 1], info)
      BY <2>1, <2>2, InitInv DEF Inv, Agrees
    <2>5. QED
      BY <2>3, <2>4 DEF FollowInv, Follows
  <1>2. FollowInv => MirrorSound
    <2> SUFFICES ASSUME FollowInv, updates = <<>>
                 PROVE  Agrees(mirror, info)
      BY DEF MirrorSound, Agrees
    <2>1. Len(updates) + 1 = 1
      OBVIOUS
    <2>2. QED
      BY <2>1 DEF FollowInv, Follows, Leads
  <1>3. QED
    BY <1>1, <1>2, FollowStep, Invariance, PTL DEF Spec
=============================================================================
