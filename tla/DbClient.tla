------------------------------ MODULE DbClient ------------------------------
(***************************************************************************)
(* An actor, its DB clients (ndbclient, nmanage_dbclient) and the DB       *)
(* actors of its tables (actor_db with ndbtab, db_data and db_cache).  The *)
(* clients load when the actor is created; its handlers change rows in     *)
(* memory; a broadcast tick sends what is marked modified; the DB actor    *)
(* keeps the rows in memory, remembers which to write, and two timers of   *)
(* its table write them to SQL.                                            *)
(*                                                                         *)
(* Two kinds of actor use it: one that owns all the rows of a table (mail, *)
(* families, ranks) and one that owns the row with its id in each of       *)
(* several tables (a role), which comes and goes while the server runs.    *)
(*                                                                         *)
(* A row is its version.  Messages of one connection stay in order.  An id *)
(* is not used again once its row is deleted.  Scripts and the GM's edits  *)
(* are not modelled.                                                       *)
(***************************************************************************)
EXTENDS Naturals, Sequences, FiniteSets, SequencesExt

CONSTANTS
    Keys,
    m_sendmaxcount,  \* rows in a chunk of a bulk load
    InitChanges,     \* rows that initdata() changes (the tasks of a role)
    MaxVersion,      \* bound: changes of a row
    MaxCrash         \* bound: crashes

ASSUME DbAssumption ==
    /\ Keys # {} /\ IsFiniteSet(Keys) /\ InitChanges \subseteq Keys
    /\ {m_sendmaxcount, MaxVersion} \subseteq Nat \ {0} /\ MaxCrash \in Nat

VARIABLES
    bound,       \* m_id is the actor's own id: a row in each table
    phase,       \* of the actor: "down", "loading" or "running"
    m_data,      \* the rows in the actor's memory, 0 for none
    m_modified,  \* the ids marked
    m_dellist,
    m_load,      \* the tables that are loaded
    chan,        \* table -> messages from the actor to the DB actor
    resp,        \* table -> load responses on their way back
    db_data,     \* the rows in the DB actor's memory, 0 for none
    m_idindex,   \* the ids the DB actor knows
    m_cache_save,
    m_cache_del,
    flushes,     \* table -> np_actortime_db_cache in the DB actor's mailbox
    sql,         \* the rows on disk
    crashes

clientVars == <<phase, m_data, m_modified, m_dellist, m_load>>
dbVars == <<db_data, m_idindex>>
cacheVars == <<m_cache_save, m_cache_del>>
vars == <<bound, clientVars, chan, resp, dbVars, cacheVars, flushes, sql, crashes>>

Gone == MaxVersion + 1  \* deleted; as absent as 0

Whole == CHOOSE k \in Keys : TRUE
Table(k) == IF bound THEN k ELSE Whole
Tables == {Table(k) : k \in Keys}
Of(t, S) == {k \in S : Table(k) = t}
NoRows == [k \in Keys |-> 0]
Quiet == [t \in Keys |-> <<>>]

Stored(k) == sql[k] \notin {0, Gone}
(* ndbtab::init: a table is preloaded as a whole, or its ids only. *)
Preloaded(disk) == [k \in Keys |-> IF bound \/ disk[k] = Gone THEN 0 ELSE disk[k]]

(* The rows f of S, a chunk at a time; the last one, possibly empty, is    *)
(* marked m_over.                                                          *)
Chunks(f, S) ==
    LET ids == SetToSeq(S)
        Chunk(n) == {ids[i] : i \in {j \in DOMAIN ids : (j - 1) \div m_sendmaxcount = n}}
        last == Len(ids) \div m_sendmaxcount
    IN  [n \in 1..last + 1 |-> [rows |-> [k \in Chunk(n - 1) |-> f[k]],
                                m_over |-> n = last + 1]]

(* What travels: some rows, the requests of a client, the answers of the   *)
(* DB actor, and what its timers post to it.                               *)
Rows == UNION {[S -> 1..MaxVersion] : S \in SUBSET Keys}
Messages ==
    [t : {"load"}, from : 0..MaxCrash] \cup [t : {"save"}, rows : Rows]
    \cup [t : {"del"}, ids : SUBSET Keys]
Answers == [rows : Rows, m_over : BOOLEAN]
Flushes == [t : {"save", "del"}, ids : SUBSET Keys]

(* f with the rows of r put over it *)
With(f, r) == [k \in Keys |-> IF k \in DOMAIN r THEN r[k] ELSE f[k]]
-----------------------------------------------------------------------------
Init ==
    /\ bound \in BOOLEAN
    /\ phase = "down" /\ m_data = NoRows
    /\ m_modified = {} /\ m_dellist = {} /\ m_load = {}
    /\ chan = Quiet /\ resp = Quiet /\ flushes = Quiet
    /\ sql \in [Keys -> {0, 1}]
    /\ db_data = Preloaded(sql)
    /\ m_idindex = {k \in Keys : Stored(k)}
    /\ m_cache_save = {} /\ m_cache_del = {}
    /\ crashes = 0

(* Mutant: a request for every row of the table. *)
CreateLoadsEach ==
    /\ phase = "down"
    /\ phase' = "loading"
    /\ chan' = [t \in Keys |-> Append(chan[t], [t |-> "load", from |-> crashes])]
    /\ UNCHANGED <<bound, m_data, m_modified, m_dellist, m_load, resp, dbVars,
                   cacheVars, flushes, sql, crashes>>

(* The actor is created; each client asks for its rows. *)
Create ==
    /\ phase = "down"
    /\ phase' = "loading"
    /\ chan' = [t \in Keys |-> IF t \in Tables
                   THEN Append(chan[t], [t |-> "load", from |-> crashes]) ELSE chan[t]]
    /\ UNCHANGED <<bound, m_data, m_modified, m_dellist, m_load, resp, dbVars,
                   cacheVars, flushes, sql, crashes>>

(* loadfinish, and with the last table on_load_finish: initdata() of every *)
(* component, then the marks are cleared.                                  *)
LoadFinish(t) ==
    LET m == Head(resp[t])
        loaded == IF m.m_over THEN m_load \cup {t} ELSE m_load
        rows == With(m_data, m.rows)
        Changes(k) == bound /\ k \in InitChanges /\ rows[k] \in 1..MaxVersion - 1
        inited == [k \in Keys |-> rows[k] + IF Changes(k) THEN 1 ELSE 0]
    IN  /\ resp[t] # <<>>
        /\ resp' = [resp EXCEPT ![t] = Tail(@)]
        /\ m_load' = loaded
        /\ IF loaded = Tables
           THEN phase' = "running" /\ m_data' = inited /\ m_modified' = {}
           ELSE m_data' = rows /\ UNCHANGED <<phase, m_modified>>
        /\ UNCHANGED <<bound, m_dellist, chan, dbVars, cacheVars, flushes, sql, crashes>>

(* Mutant: a batch ends at its first row, and all marks are cleared. *)
SavedFirst(t) == LET S == {k \in Of(t, m_modified) : m_data[k] # 0} IN
    IF S = {} THEN <<>>
    ELSE <<[t |-> "save", rows |-> [k \in {CHOOSE k \in S : TRUE} |-> m_data[k]]]>>

(* What savedb and deldb send to table t *)
Saved(t) == LET S == {k \in Of(t, m_modified) : m_data[k] # 0} IN
    IF S = {} THEN <<>> ELSE <<[t |-> "save", rows |-> [k \in S |-> m_data[k]]]>>
Deleted(t) == LET S == Of(t, m_dellist) IN
    IF S = {} THEN <<>> ELSE <<[t |-> "del", ids |-> S]>>

(* handle_broadcast: save() of every client, then del(). *)
Tick ==
    /\ phase = "running"
    /\ chan' = [t \in Keys |-> chan[t] \o Saved(t) \o Deleted(t)]
    /\ m_modified' = {} /\ m_dellist' = {}
    /\ UNCHANGED <<bound, phase, m_data, m_load, resp, dbVars, cacheVars, flushes,
                   sql, crashes>>

(* release() of an actor that leaves: it saves, and does not delete. *)
Release ==
    /\ phase = "running" /\ bound
    /\ phase' = "down"
    /\ chan' = [t \in Keys |-> chan[t] \o Saved(t)]
    /\ m_data' = NoRows /\ m_modified' = {} /\ m_dellist' = {} /\ m_load' = {}
    /\ UNCHANGED <<bound, resp, dbVars, cacheVars, flushes, sql, crashes>>
-----------------------------------------------------------------------------
(* The DB actor of table t *)

Next1(t, kind) == chan[t] # <<>> /\ Head(chan[t]).t = kind

(* Mutant: the row made for an unknown id is not put in the save cache. *)
DbLoadUnsaved(t) ==
    LET rows == [db_data EXCEPT ![t] = IF bound /\ @ = 0
                                       THEN IF t \in m_idindex THEN sql[t] ELSE 1 ELSE @]
        answer == IF bound
                  THEN <<[rows |-> [k \in {t} |-> rows[t]], m_over |-> TRUE]>>
                  ELSE Chunks(rows, {k \in Keys : rows[k] # 0})
    IN  /\ Next1(t, "load")
        /\ chan' = [chan EXCEPT ![t] = Tail(@)]
        /\ db_data' = rows
        /\ m_idindex' = IF bound THEN m_idindex \cup {t} ELSE m_idindex
        /\ resp' = [resp EXCEPT ![t] = answer]
        /\ UNCHANGED <<bound, clientVars, cacheVars, flushes, sql, crashes>>

(* A bulk load answers with the rows in memory; the load of one row makes  *)
(* it when its id is unknown, and reads it from disk when it has not yet.  *)
DbLoad(t) ==
    LET new == bound /\ t \notin m_idindex
        rows == [db_data EXCEPT ![t] = IF new THEN 1
                                       ELSE IF bound /\ @ = 0 THEN sql[t] ELSE @]
        answer == IF bound
                  THEN <<[rows |-> [k \in {t} |-> rows[t]], m_over |-> TRUE]>>
                  ELSE Chunks(rows, {k \in Keys : rows[k] # 0})
    IN  /\ Next1(t, "load")
        /\ chan' = [chan EXCEPT ![t] = Tail(@)]
        /\ db_data' = rows
        /\ m_idindex' = IF bound THEN m_idindex \cup {t} ELSE m_idindex
        /\ m_cache_save' = IF new THEN m_cache_save \cup {t} ELSE m_cache_save
        /\ resp' = IF Head(chan[t]).from = crashes THEN [resp EXCEPT ![t] = answer]
                   ELSE resp
        /\ UNCHANGED <<bound, clientVars, m_cache_del, flushes, sql, crashes>>

(* Mutant: only rows that are new in memory are queued for the disk. *)
DbSaveNew(t) ==
    LET rows == Head(chan[t]).rows
    IN  /\ Next1(t, "save")
        /\ chan' = [chan EXCEPT ![t] = Tail(@)]
        /\ db_data' = With(db_data, rows)
        /\ m_idindex' = m_idindex \cup DOMAIN rows
        /\ m_cache_save' = m_cache_save \cup {k \in DOMAIN rows : db_data[k] = 0}
        /\ UNCHANGED <<bound, clientVars, resp, m_cache_del, flushes, sql, crashes>>

DbSave(t) ==
    LET rows == Head(chan[t]).rows
    IN  /\ Next1(t, "save")
        /\ chan' = [chan EXCEPT ![t] = Tail(@)]
        /\ db_data' = With(db_data, rows)
        /\ m_idindex' = m_idindex \cup DOMAIN rows
        /\ m_cache_save' = m_cache_save \cup DOMAIN rows
        /\ UNCHANGED <<bound, clientVars, resp, m_cache_del, flushes, sql, crashes>>

DbDelete(t) ==
    LET ids == Head(chan[t]).ids
    IN  /\ Next1(t, "del")
        /\ chan' = [chan EXCEPT ![t] = Tail(@)]
        /\ db_data' = With(db_data, [k \in ids |-> 0])
        /\ m_idindex' = m_idindex \ ids
        /\ m_cache_del' = m_cache_del \cup ids
        /\ UNCHANGED <<bound, clientVars, resp, m_cache_save, flushes, sql, crashes>>

(* The timers of the two caches of a table post what has gathered. *)
SaveTimer(t) ==
    /\ Of(t, m_cache_save) # {}
    /\ flushes' = [flushes EXCEPT ![t] =
                      Append(@, [t |-> "save", ids |-> Of(t, m_cache_save)])]
    /\ m_cache_save' = m_cache_save \ Of(t, m_cache_save)
    /\ UNCHANGED <<bound, clientVars, chan, resp, dbVars, m_cache_del, sql, crashes>>

DelTimer(t) ==
    /\ Of(t, m_cache_del) # {}
    /\ flushes' = [flushes EXCEPT ![t] =
                      Append(@, [t |-> "del", ids |-> Of(t, m_cache_del)])]
    /\ m_cache_del' = m_cache_del \ Of(t, m_cache_del)
    /\ UNCHANGED <<bound, clientVars, chan, resp, dbVars, m_cache_save, sql, crashes>>

(* Mutant: the row is not looked for first. *)
FlushSaveBlind(t) ==
    /\ flushes[t] # <<>> /\ Head(flushes[t]).t = "save"
    /\ flushes' = [flushes EXCEPT ![t] = Tail(@)]
    /\ sql' = With(sql, [k \in Head(flushes[t]).ids |-> db_data[k]])
    /\ UNCHANGED <<bound, clientVars, chan, resp, dbVars, cacheVars, crashes>>

(* np_actortime_db_cache: rows that are no longer in memory are not saved. *)
FlushSave(t) ==
    LET ids == {k \in Head(flushes[t]).ids : db_data[k] # 0}
    IN  /\ flushes[t] # <<>> /\ Head(flushes[t]).t = "save"
        /\ flushes' = [flushes EXCEPT ![t] = Tail(@)]
        /\ sql' = With(sql, [k \in ids |-> db_data[k]])
        /\ UNCHANGED <<bound, clientVars, chan, resp, dbVars, cacheVars, crashes>>

FlushDel(t) ==
    LET ids == Head(flushes[t]).ids
    IN  /\ flushes[t] # <<>> /\ Head(flushes[t]).t = "del"
        /\ flushes' = [flushes EXCEPT ![t] = Tail(@)]
        /\ db_data' = With(db_data, [k \in ids |-> 0])
        /\ m_idindex' = m_idindex \ ids
        /\ sql' = With(sql, [k \in ids |-> Gone])
        /\ UNCHANGED <<bound, clientVars, chan, resp, cacheVars, crashes>>
-----------------------------------------------------------------------------
(* What the owner of row k sees, or would see if it loaded now: its own    *)
(* memory, else the last message under way, else what the DB actor has.    *)
Mentions(k, m) == \/ m.t = "save" /\ k \in DOMAIN m.rows
                  \/ m.t = "del" /\ k \in m.ids
UnderWay(k) == {i \in DOMAIN chan[Table(k)] : Mentions(k, chan[Table(k)][i])}
Deleting(k) ==
    \/ k \in m_cache_del
    \/ \E i \in DOMAIN flushes[Table(k)] :
           flushes[Table(k)][i].t = "del" /\ k \in flushes[Table(k)][i].ids
AtDb(k) == IF db_data[k] # 0 THEN db_data[k] ELSE IF Deleting(k) THEN Gone ELSE sql[k]
Sent(k) ==
    IF UnderWay(k) = {} THEN AtDb(k)
    ELSE LET m == chan[Table(k)][CHOOSE i \in UnderWay(k) : \A j \in UnderWay(k) : j <= i]
         IN  IF m.t = "del" THEN Gone ELSE m.rows[k]
Value(k) ==
    CASE k \in m_dellist -> Gone
      [] phase = "running" /\ m_data[k] # 0 -> m_data[k]
      [] OTHER -> Sent(k)

(* Handlers: a row is changed (or made), or deleted.  The row of an actor  *)
(* with its own id is not deleted.                                         *)
Change(k) ==
    /\ phase = "running" /\ Value(k) < MaxVersion
    /\ m_data' = [m_data EXCEPT ![k] = @ + 1]
    /\ m_modified' = m_modified \cup {k}
    /\ UNCHANGED <<bound, phase, m_dellist, m_load, chan, resp, dbVars, cacheVars,
                   flushes, sql, crashes>>

Del(k) ==
    /\ phase = "running" /\ ~bound /\ m_data[k] # 0
    /\ m_data' = [m_data EXCEPT ![k] = 0]
    /\ m_dellist' = m_dellist \cup {k}
    /\ UNCHANGED <<bound, phase, m_modified, m_load, chan, resp, dbVars, cacheVars,
                   flushes, sql, crashes>>

(* The game server dies: its memory is lost, and a tail of what it sent.   *)
(* What the DB actor still answers goes to a connection that is closed.    *)
GameCrash ==
    /\ crashes < MaxCrash
    /\ crashes' = crashes + 1
    /\ phase' = "down" /\ m_data' = NoRows
    /\ m_modified' = {} /\ m_dellist' = {} /\ m_load' = {} /\ resp' = Quiet
    /\ \E kept \in [Keys -> UNION {0..Len(chan[t]) : t \in Keys}] :
           /\ \A t \in Keys : kept[t] <= Len(chan[t])
           /\ chan' = [t \in Keys |-> SubSeq(chan[t], 1, kept[t])]
    /\ UNCHANGED <<bound, dbVars, cacheVars, flushes, sql>>

(* The DB server dies, and the game server with it (losing the DB          *)
(* connection is fatal); the DB server starts again from the disk.         *)
DbCrash ==
    /\ crashes < MaxCrash
    /\ crashes' = crashes + 1
    /\ phase' = "down" /\ m_data' = NoRows
    /\ m_modified' = {} /\ m_dellist' = {} /\ m_load' = {}
    /\ chan' = Quiet /\ resp' = Quiet /\ flushes' = Quiet
    /\ db_data' = Preloaded(sql) /\ m_idindex' = {k \in Keys : Stored(k)}
    /\ m_cache_save' = {} /\ m_cache_del' = {}
    /\ UNCHANGED <<bound, sql>>

DbHandle(t) == DbLoad(t) \/ DbSave(t) \/ DbDelete(t)
DbFlush(t) == FlushSave(t) \/ FlushDel(t)

Next ==
    \/ Create \/ Tick \/ Release \/ GameCrash \/ DbCrash
    \/ \E k \in Keys : Change(k) \/ Del(k)
    \/ \E t \in Keys : LoadFinish(t) \/ DbHandle(t) \/ DbFlush(t)
                       \/ SaveTimer(t) \/ DelTimer(t)

Spec == Init /\ [][Next]_vars

(* Ticks and timers keep coming, connections deliver, workers take up what *)
(* is posted.                                                              *)
FairSpec ==
    /\ Spec /\ WF_vars(Tick)
    /\ \A t \in Keys :
        /\ WF_vars(LoadFinish(t)) /\ WF_vars(DbHandle(t)) /\ WF_vars(DbFlush(t))
        /\ WF_vars(SaveTimer(t)) /\ WF_vars(DelTimer(t))
-----------------------------------------------------------------------------
(* Every variable has the shape the code gives it. *)
TypeOK ==
    /\ bound \in BOOLEAN /\ phase \in {"down", "loading", "running"}
    /\ {m_data, db_data} \subseteq [Keys -> 0..MaxVersion]
    /\ sql \in [Keys -> 0..Gone]
    /\ {m_modified, m_dellist, m_load, m_idindex, m_cache_save, m_cache_del}
           \subseteq SUBSET Keys
    /\ chan \in [Keys -> Seq(Messages)] /\ resp \in [Keys -> Seq(Answers)]
    /\ flushes \in [Keys -> Seq(Flushes)]
    /\ \A t \in Keys \ Tables : chan[t] = <<>> /\ resp[t] = <<>> /\ flushes[t] = <<>>
    /\ crashes \in 0..MaxCrash

RS == INSTANCE RowStore WITH value <- [k \in Keys |-> Value(k)], durable <- sql

(* The clients and the DB actor implement the row store: an actor that is  *)
(* erased and created again sees its last change whatever is still on the  *)
(* way or not on disk, the disk never falls back and never gets ahead, and *)
(* a crash takes no more than what had not reached the disk.               *)
ImplementsRowStore == RS!RowSpec

(* nmanage_dbclient.cpp:75: only marks that loading made are cleared.  So  *)
(* a row that is not marked is as the DB actor has or will have it.        *)
CleanMeansSent ==
    \A k \in Keys : phase = "running" /\ m_data[k] # 0 /\ k \notin m_modified
                    => m_data[k] = Sent(k)

(* What differs between the memory of the DB actor and the disk is still   *)
(* to be flushed, whatever order saves, deletes and both timers take.      *)
Flushing(k, kind, cache) ==
    \/ k \in cache
    \/ \E i \in DOMAIN flushes[Table(k)] :
           flushes[Table(k)][i].t = kind /\ k \in flushes[Table(k)][i].ids
DifferenceQueued ==
    \A k \in Keys :
        /\ db_data[k] \notin {0, sql[k]} => Flushing(k, "save", m_cache_save)
        /\ k \notin m_idindex /\ Stored(k) => Flushing(k, "del", m_cache_del)

(* Once changes and crashes end, the disk gets what the owner saw last.    *)
EventuallyDurable == <>[](\A k \in Keys : sql[k] = Value(k))
=============================================================================
