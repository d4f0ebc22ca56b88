# A formal model of the ngl_server actor runtime

ngl_server is a C++ game server. Every piece of game logic is an actor; a
process ("node") holds many actors, a cluster is several nodes. The code that
must be right for everything else to be right is the actor runtime in
`src/public/cpp/actor/actor_base/core`: who runs an actor, in which order its
messages are handled, when it is created, torn down or handed to another node,
and where a message goes. On it stand the services every game server uses: the
database clients and the DB actor, NSP replication, timers, and the gateway
that binds a client's socket to its role. This directory holds TLA+ modules of
both, the TLC configurations that check them, and proofs checked by TLAPS.

Source paths below are relative to `src/public/cpp/actor/actor_base/core`
unless they start with `src/`.

## Inventory

| component | state it keeps | operations | interacts with |
|---|---|---|---|
| actor mailbox (`actor.cpp`, `actor_base.cpp`) | normal FIFO `m_list`, privileged buckets `m_hightlist`, readiness conditions `nready`, `m_stat` | `push`, `actor_handle` (a slice), `release`, `handle_close` | posters (any thread), one worker |
| worker (`nthread.cpp`) | its actor, a semaphore | `push`, `run` | dispatcher, pool, mailbox |
| schedule layer (`actor_manage.cpp`) | lookup tables, ready queue `m_actorlist`, deferred erase callbacks, a semaphore, a dispatcher thread | `add_actor`, `erase_actor`, `push`, `push_task_id`, `push_task_type`, `run` | mailboxes, pool, route actor |
| worker pool (`actor_manage.cpp`) | stack of workers, position, semaphore, suspend flag | `pop_workthreads`, `push_workthreads`, `statrt_suspend_thread`, `finish_suspend_thread` | 8 dispatchers, all workers, suspenders |
| start-up (`actor_base_create.cpp`, `actor_manage.h`) | how far the `add_actor` callback is | make free, `init`, `init_db_component` | route actor's thread, mailbox |
| routing (`handle_pram.h`, `naddress.cpp`, `protocol.h`, `actor_client`, `actor_server`) | address table, sessions | send to one / a set / a type, forward, receive, add / remove addresses | layers of every node |
| DB clients and DB actor (`ndbclient.h`, `nmanage_dbclient.cpp`, `actor_db.h`) | rows, modified bits, caches | load, save, delete | mailbox (privileged replies), SQL threads |
| NSP (`../nsp`) | replicas of records, registrations | register, full and incremental update | actors on several nodes |
| timers (`src/public/cpp/tools/tools/tools_time_wheel.cpp`) | slots of several wheels, the hands, timers by id, due callbacks | add, remove, advance, fire | any thread, wheel thread, callback thread |
| login and gateway (`actor_login`, `actor_gateway*`) | sessions by account, `gateway_info` three times, session-wait timers | account login, role login, session close, close by timer, updates of the followers | clients, network, nodes |
| role switch (`actor_create.h`, gateway, role) | the actor's home, the gateway's table | erase here, create there | layers, routing, gateway |
| match rooms and other game logic | per-player tables | handlers | the above |
| transports, tables, scripts, logging, generated code, admin site | - | I/O and data handling | - |

What is hard here: three kinds of threads (posters, dispatchers, workers)
meet in one mailbox under two mutexes, with decisions taken from values read
before; teardown runs outside the mutex; callbacks are kept for "later"; the
start-up of an actor runs on another actor's thread; local delivery and remote
forwarding share one message. Above the runtime, state is kept in several
places at once - a row in the owner's memory, in the DB actor's and on disk; a
session in the login actor, the gateway and its followers; a replica in every
peer - and is brought together by messages, timers and restarts.
`PROJECT.json` lists each hazard at its line and
the properties aimed at it.

What would make each component correct:

* mailbox - each class of messages is handled in order, once, only when its
  conditions allow it; nothing runnable is left in an idle actor;
* scheduler and pool - an actor runs on one worker at a time; no worker is lost
  or lent twice; nobody sleeps while there is work and a worker for it; an
  erased actor is released by the one thread that still has it;
* registration and erase - teardown meets nobody; the callback of an erase
  comes once, when this node is done with the actor; the address table finds
  what the layer has; an actor torn down is saved;
* start-up - messages wait for the conditions, and are handled once these hold;
* routing - an addressee that is known gets the message, nobody gets it twice;
* database - a row never turns back: what the owner saw last reaches the disk,
  and a crash costs no more than what had not reached it;
* NSP - a loaded peer has the rows it cares for, and the last change of a row
  reaches whoever the writer knows and its sends to sets do not skip;
* gateway - no dangling entry, one client per role, followers that never
  forward for a session that was given up;
* timers - none is early, lost or delivered twice.

## Modules

| module | models | composes |
|---|---|---|
| `SerialMailbox` | what an actor promises: an inbox per class, handled one by one in order | - |
| `ActorMailbox` | one actor, any number of posters, one worker step by step | implements `SerialMailbox` |
| `ActorStartup` | the same mailbox while the `add_actor` callback runs | `ActorMailbox` |
| `ActorMailbox_proofs` | theorems about both | `ActorStartup` |
| `WorkerPool` | critical sections of the shared pool | - |
| `Scheduler` | layers, dispatchers, workers, erases, handlers that suspend dispatch; mailboxes are counters | `WorkerPool` |
| `Scheduler_proofs` | theorems about it | `Scheduler` |
| `ActorErase` | one guid from `add_actor` to erase, re-creation, the route actor | - |
| `ActorErase_proofs` | theorems about it | `ActorErase` |
| `Routing` | set, type and single sends between nodes | - |
| `Routing_proofs` | theorems about it | `Routing` |
| `RowStore` | what the database promises the owner of a row | - |
| `DbClient` | an actor, its DB clients and the DB actors of its tables, with crashes | implements `RowStore` |
| `DbClient_proofs` | theorems about it | `DbClient` |
| `Nsp` | the NSP server of a table and its readers and writers | - |
| `Nsp_proofs` | theorems about it | `Nsp` |
| `Gateway` | login actor, gateway actor, a follower, clients and sockets | - |
| `Gateway_proofs` | theorems about it | `Gateway` |
| `TimeWheel` | the timer wheel, its thread, callers of `addtimer` and `removetimer`, the callback thread | - |
| `TimeWheel_proofs` | theorems about it | `TimeWheel` |

`MC*` modules give the constants their values for TLC.

### ActorMailbox

`Post` is `actor::push` with the layer's and the actor's mutex held, including
the decision of `nosafe_push_task_id` to queue an idle actor. The slice is cut
where `actor_handle` takes or releases the actor's mutex and at every handler
call: `Check` (the look at `list_empty` in `nthread::run`), `SwapHigh` (swap the
buckets out, read the gate), `HandleHigh`, `EndHigh`, `RestoreHigh`,
`SwapNormal`, `HandleNormal`, `EndNormal`, and `Return` (`schedule_layer::push`).
Posts interleave with all of them. Messages are numbered per class, so order,
loss and duplication show. A condition is a key, one above the level that may
satisfy it (`nready::set_ready`); handlers of that level may satisfy it, and
conditions stay satisfied (a DB or NSP load is not undone). The time budget of
a slice ends it at any message but the first: it is at least a millisecond and
is measured from the start of the loop.

`hightlevel_ready` is the code's optional as a set of at most one key: `Below`
reads "the optional is empty or greater".

### Scheduler and WorkerPool

A dispatcher waits on its layer's semaphore, then borrows workers and hands out
actors until the queue is empty. The pool operators are the code's critical
sections; the semaphore post that follows one is folded into it, since the
poster touches none of the guarded fields in between. A worker gives itself back
(`GiveBack`) before it returns its actor (`ReturnActor`), as in
`actor_manage::push`, and may be lent again in between. The look at
`m_actorlist.empty()` outside the mutex is two reads (`Peek`, `PostLayer`): one
end of the deque is read before, the other after whatever other threads do in
between, so `LooksEmpty` and `LooksFilled` may both be possible. Actors are
ready and messages are counted; `ActorMailbox` has the rest.

An actor may close itself in its handler (`Close`), and those in `Leaving` are
erased by another thread (`Erase`): queued or idle, that thread also releases
them (`ReleaseErased`); running, the callback is kept and the worker that
returns the actor finds it (`ReturnErased`) and calls `release()`, which runs
handlers, at the very end of its loop (`Release`) - long after it gave itself
back, so the pool may have lent it again. An erase takes an actor out of the
middle of the deque (`std::erase_if`), which moves the back and not the front;
`LooksEmpty` and `LooksFilled` take that into account. Guids that are created
again are in `ActorErase`.

Dispatch is suspended by a handler, as the only caller at this commit does
(`actor_csvclient`): `StartSuspend` and `AskAgain` are the spin of
`statrt_suspend_thread` on the worker that runs the handler. What would follow it,
`finish_suspend_thread`, has no action, because no thread gets there
(`SuspenderWaits`).

### ActorErase

`Inst` are successive objects with one guid. `add_actor` registers the object
and then posts to the route actor, whose handling makes it free. `erase_actor`
posts the removal first and then takes the mutex; queued and idle objects are
torn down by the erasing thread, any other is left to its worker with the
callback kept under the guid. Erasers are the actor itself (`handle_close`,
from its own handler, no callback) and a switch (`actor_create`, with a
callback) or any other thread (`Erasers`: "close", "switch", "drop"); the
thread that switches is also the one that adds, so it does not erase in the
middle of its own `add_actor`, the others may. `tearing[i]` is whether object i
is being torn down, and the object whose callback follows: a callback kept for
one object can be picked up by the worker of another. Nothing in the code keeps
an erase from an object still in init, nor a creation from the time in which a
worker still has an erased object of the guid, so both happen at any step.
`overlapped` records the objects that were on the node together and `switched`
how an erase with a callback met an object: the properties say what holds
nevertheless, and for whom it does not.

### ActorStartup

`StartInit` is the actor as registered: state init and "db load" true because
no DB client exists yet. `SetFree`, `CallInit`, `CallInitDb` are the three calls
of the callback, on the route actor's thread. Registering a condition is one
step here; the code's map is not guarded, see the hazards.

### Routing

`SendSet` and `SendType` run over the targets in layer order, one step a guid,
with registrations, address updates and other sends in between. The short
circuit `lmass = lmass || push(...)` is modelled as it is. `Forward` is the
route actor, with the split by server of `handle_send::send`; a packet carries
its targets, and `Receive` delivers to those that are local. Actors stay on
their node. `sure` records, when a message is sent, which addressees are up and
known to the sender: the delivery properties are about those.

### DbClient and RowStore

One actor and the DB actors of its tables. `bound` is chosen at the start: the
actor owns the row with its own id in each of several tables (a role, which
comes and goes), or all rows of one table (mail, families, ranks). A row is its
version; `Change` and `Del` are handlers, `Tick` the broadcast that saves and
deletes, `Release` the save of an actor that leaves. `DbLoad`, `DbSave` and
`DbDelete` are the handlers of `actor_db.h`, with `db_data` the rows in its
memory, `m_idindex` the ids it knows, and the two caches whose timers
(`SaveTimer`, `DelTimer`) post a flush to the DB actor itself. `GameCrash`
loses the game server's memory and a tail of what it sent on each connection;
`DbCrash` takes both down (a game server that loses its DB connection
terminates, `src/public/cpp/net/tcp/ntcp.cpp:77`) and starts the DB actor from
the disk. A load carries the number of the crash before it, so that the answer
to a dead process is dropped.

`RowStore` knows two values of a row: what its owner sees, and what is durable.
The mapping is `Value` (a deletion that waits, else the owner's memory, else
the last message under way, else the DB actor's memory, else the disk) and
`sql`.

### Nsp

The server's rows, its set `care` of registered peers, and for each peer what
it has heard of the others (`known`) and its replica. `Check` is the retry of a
registration, every ten seconds until it is answered. `ServerRegister` answers
with the peers known so far, streams the first load in chunks and announces the
newcomer. `Handler` is a writer's handler with the `change()` that follows it:
one packet to the server and the peers of all rows (`Wide`), one to the peers
of some that care for the row (`Narrow`). Announcements, changes and farewells
go to sets of actors, and such a send short-circuits (run `routing_batch`):
`layout` is where the actors are and their turn in a set, `Reached` whom the
send gets to - the targets on other nodes and the local ones before the first
that is not here - and `Skipped` the rest. The nodes of the peers are taken to
know all addresses, the server's node learns some late. Messages of one sender
to one receiver arrive in order, no more: an announcement may overtake an
answer, a change of one writer may meet the first load. `promised` records, for
the last change of a row, who is owed it: the server and the loaded peers the
writer knew of, but for those the send skipped. `untold` are the pairs of a
peer and a newcomer whose announcement skipped it, `missed` the rows with a
change that skipped the server.

### Gateway

The login actor's sessions, `gateway_info` of the gateway actor and of one
follower (`actor_gateway_c2g` and `actor_gateway_g2c` run the same code on the
same messages), and what the network knows of each socket. The login process
may end and start again (`LoginRestart`), without its sessions and without a
tail of what it sent: the only way a session leaves `m_actorbyserver`. What the
gateway sends to the login actor when it gives a session up is left out, since
it reaches nobody (see below). `m_info` and `m_sockinfo` are kept as the code
keeps them, in two maps updated by `updata`, `updata_socket`, `remove_socket`
and `remove_actorid`. Closing by the peer posts `np_actor_session_close`;
closing by the gateway (`close_net`) posts nothing, and a follower that
replaces a socket closes it and does post. Timers count those that have been
set and have not fired; none is ever cancelled.

### TimeWheel

`m_slots` is the set of placements (round, slot, timer), `Push` and `PushSlots`
the code's choice of a slot by the absolute due time, `Cascaded` the fall of
buckets when a round wraps. A `Tick` is one slot of `run()` under the mutex: the
hands turn, buckets fall, what the hand of the first round meets is queued for
the callback thread, a repeating timer is placed again. `AddRead` and
`AddLocked` are the halves of `addtimer`, before and after the mutex: the wheel
may turn in between. `Clock` runs ahead of the wheel by at most `MaxLate`.
Intervals below the precision are excluded by `WheelAssumption`.

## Runs

Every run finishes in at most two minutes.

| run | checks | shows |
|---|---|---|
| `mailbox` | `TypeOK` `NoStrandedWork` `ImplementsSerialMailbox` `ReadyDelivers` `PrivilegedProgress` | an actor with levels db and custom, both conditions, weight 2, three messages per class |
| `startup` | `StartTypeOK` `StartedDelivers` | conditions that appear while the actor already runs: every message is handled once start-up is over |
| `scheduler` | `TypeOK` `ActorInOnePlace` `PoolExact` `DispatcherAwake` `SuspenderWaits` `Drains` | three actors on two layers and two workers; one is erased by another thread, any closes itself, one suspends dispatch |
| `erase` | `TypeOK` `StatAgrees` `TeardownAlone` `HandedOverClean` `RouteFinds` `CallbackComes` | two objects of a guid that may overlap, an actor closing itself, a switch and another erasing thread at any moment, start-up included |
| `routing` | `TypeOK` `AtMostOnce` `AddresseeReached` | three actors on two nodes that come up while a message of any kind travels |
| `db` | `TypeOK` `CleanMeansSent` `DifferenceQueued` `ImplementsRowStore` `EventuallyDurable` | two rows, of one table or of two, with two versions each, and two crashes of either server at any moment |
| `nsp` | `TypeOK` `EveryoneKnown` `LoadComplete` `ChangeArrives` | two writers and a reader of all rows on two nodes, in two orders of a set send; one writer's address is learned late and it may leave |
| `gateway` | `TypeOK` `NoDanglingPointer` `ClientsExact` `MirrorSound` | two roles, three sockets, two sessions, three logins, a login process that starts again |
| `wheel` | `TypeOK` `OnTime` `CountExact` `Fires` | a timer that fires once and one that repeats, added by a slow caller to a late wheel of three rounds, cascading, caught up, removed |

### Runs that end in a violation

Each states what a comment or a document of the repository says.

| run | property | what happens |
|---|---|---|
| `routing_batch` | `LocalReached` | after the first target that is elsewhere, a set send skips its local targets |
| `erase_switch` | `SwitchCompletes` | an erase that meets an actor still in init keeps its callback for a worker that will never return the actor |
| `db_init` | `CleanMeansSent` | what `initdata()` changes at the end of a load loses its mark with the marks of the load, and is not saved |

`routing` states delivery of what its sender could know to be reachable, which
is why `LocalReached` is apart: `AddresseeReached` leaves local targets of a set
to it. `erase` claims the callback of an erase that met an idle or queued actor,
and of one that met a running actor unless the guid is created again before a
worker returns it (`CallbackComes`); `SwitchCompletes` is what the comment at
`actor_manage.h:125` promises of every erase. `db` runs with components whose
`initdata()` changes nothing.

### Met while modelling

Disagreements between text and code that have no run of their own, and
behaviour a reader of the runs should know.

Runtime:

* The `add_actor` callback makes an actor free before it registers what the
  actor must wait for (`actor_base_create.cpp:43`); until then "db load" waits
  for nothing and early messages are handled before the load, against
  `src/doc/actor-ready-hightlevel.md:270`. `StartedDelivers` says that none is
  lost over it.
* `actor_csvclient`'s handler suspends dispatch
  (`src/public/cpp/actor/actor_logic/actor_csvclient/message/actor_csvclient_handle.cpp:26`)
  and so waits for the return of the worker it runs on
  (`actor_manage.cpp:602`): for ever, with dispatch stopped, against
  `actor_manage.h:249-250`, "Suspend / resume all dispatch. statrt_suspend_thread()
  spin-waits until every worker is idle; finish_suspend_thread() releases them."
  `SuspenderWaits` is what the code does. No start-up of the repository
  creates that actor. "Every worker is idle" would not mean that no handler runs
  either: `release()` runs handlers on a worker given back before, and on
  erasing threads.
* An actor that closes itself is running; the deferred branch of `erase_actor`
  (`actor_manage.cpp:173`) keeps nothing when there is no callback, so it is
  never released nor saved, against `actor.h:186` and
  `src/doc/database-layer.md:76`. `HandedOverClean` says of objects that are
  torn down that they are saved, and leaves this one out.
* A returning worker looks its actor up by guid (`actor_manage.cpp:202`): when
  the guid has been created again, the erased object goes back to work, and its
  callback is lost or comes with the tear-down of the other object.
* A removal and an addition are posted to the route actor outside the layer's
  mutex and may pass each other. `RouteFinds` is the half that holds: what the
  layer has registered is listed in the end. The other half does not: an erase
  that has told the route actor and finds the guid created again in between
  leaves the table listing a guid the layer no longer has.
* The gate of a slice is read before the handlers that open it
  (`actor.cpp:211`), so a slice may handle normal messages after it has put
  back privileged ones, against `src/doc/actor-ready-hightlevel.md:257`.
* The pool semaphore is posted for every returned worker but taken only when
  the pool was empty, so it is not "available workers" (`actor_manage.h:179`).
  `DispatcherAwake` has the half that matters: tokens suffice.

Services:

* When a session is given up the gateway tells the login server ("Notify the
  login server about the player disconnect.",
  `src/public/cpp/actor/actor_logic/actor_gateway/message/actor_gateway_handle.cpp:54`)
  by a message to the guid (ACTOR_LOGIN, area, server id), but the login actor's
  guid has no data id
  (`src/public/cpp/actor/actor_logic/actor_login/actor_login.cpp:22-33`): nobody
  has that address, the message is dropped, and the handler at
  `actor_login_handle.cpp:19` is never reached. (It would look the role up in a map
  that line 75 keys by account.) So the login hands out the session it
  has for as long as it lives, also after the gateway gave it up.
* After a restart the login hands out new sessions, and a gateway that still has
  the record of the old one ignores the new (lines 69-73 of
  `actor_gateway_handle.cpp`): the client is refused (lines 189-193) until the
  old record is dropped, against `src/doc/gateway-architecture.md:56`.
* A session-wait timer also fires on the record of a later login, and drops it
  while it waits for its client. If the client is bound again by then, the
  record stays but the followers are told to drop the role all the same:
  `MirrorSound` therefore says "what the gateway knows, or nothing".
* After a disconnect the nodes drop the role's gateway
  (`src/public/cpp/actor/actor_logic/actor_gateway/actor_gateway.cpp:141`); a
  client that comes back within the wait is let in without it being put back,
  which only a login that makes a new record does (line 95 of
  `message/actor_gateway_handle.cpp`). `m_rolegateway` follows this; no property
  states it, since how a node then reaches the client is not modelled.
* The NSP server answers a peer only once (`../nsp/nsp_server_function.h:181`):
  a peer whose first answer was dropped, because its address was not known yet,
  asks for ever. `LoadComplete` excludes such peers.
* Announcements, changes and farewells of NSP are sends to sets of actors, and
  miss the local targets after the first that is elsewhere (run
  `routing_batch`). A writer that an announcement skipped
  (`../nsp/nsp_server_function.h:172`) never learns of the newcomer and sends it
  nothing, against the comment at `:170`, "Every existing peer needs the new
  peer's scope so route and exit state stay complete."; a change that skips the
  server (`../nsp/nsp_write_function.h:287`) is in no later first load and not in the
  database. `EveryoneKnown`, `LoadComplete` and `ChangeArrives` say that
  nothing else goes wrong, and both kinds of skip happen in the run.
* An NSP reader has no handler for a peer that leaves; what it has heard of only
  grows. A server that restarts has lost `m_care` and no peer registers again;
  the model has no such restart.
* `release()` saves and does not delete: deletes that wait for the next tick are
  lost with the actor. The actors that leave have one row of their own id, which
  no handler deletes, so the model has `Del` for the others only.
* A timer beyond the span of the wheels is freed by `schedule_locked`
  (`tools_time_wheel.cpp:487`) and by its owner (`:322`); when the highest round
  wraps, its bucket is not spread (`:617`). The model refuses such a timer and
  ends before the wrap; with the deployed wheels the span is weeks to years. A
  timer that fires once and is already queued is not found by `removetimer`.

### Bounds

`MaxPost` and `MaxSend` bound how much is sent; the rest is finite by itself.
Three messages of a class with weight 2 make a slice break off with some left
while more arrive; two levels with a condition above each give a gate that is
shut, half open and open. Two workers and two layers are the least that can run
one actor twice, lend one worker twice, or leave one dispatcher asleep while
another works; a third actor makes a ready queue longer than one. Two messages
(`scheduler`, 238,604 states) put two actors in that queue for an erase to take
either out, or give one actor a message while it runs and is erased, or leave
an actor queued while another suspends dispatch. Two objects of a guid are the
least that overlap (`erase`, 156,015 states; three messages let one be queued
again after it was run). Two nodes and three actors give a set with a target
here, a target there, and one after either in layer order.

`db`: with two rows and chunks of one (`m_sendmaxcount`), a load has a full
last chunk and an empty one; `MaxVersion = 2` lets a row be saved, changed and
saved again while the first save is in a cache or a flush; with `MaxCrash = 2`
a process dies, comes back and dies again on what the first crash left. `nsp`:
three peers let one register while another leaves and the third writes (952,138
states); on two nodes, in one order of a set send a change of `writer` skips
the server, in the other a change of `other` skips the reader, and
announcements skip `writer` in both; two rows and chunks of two give a full
last chunk; `MaxRegister = 1` allows a repeated registration once the first was
taken. `gateway`: a third socket lets a second client push out a first whose
close is still under way, while a third waits; three logins with two sessions
repeat a session, and a record can be made, dropped and made again, before and
after the login process starts again (4,095,853 states). Only this run uses
symmetry, of the two roles, as it checks invariants only. `wheel`: three rounds
of two slots of two milliseconds span 16; `MaxNow = 13` stops before the wrap
of the highest round; delays 0 and 9 start in the lowest and the highest round,
the interval 3 is no multiple of a slot; `MaxLate = 4` puts the wheel two slots
behind the clock.

### Fairness

Dispatchers and workers are detached threads in endless loops; each gets weak
fairness on its own loop, a thread that is erasing or releasing an actor on its
next step,
the route actor on its inbox, a connection on its head. A handler is assumed to
end. Nothing is assumed of posters, of a switch beginning, or of the order in
which dispatchers win the pool's semaphore. `Drains` is claimed for boundedly
many posts: with an endless stream, an unfair semaphore may starve a layer. It
leaves out what a suspension overtakes, since dispatch then never resumes, and
actors that closed themselves, whose messages are lost with them.

`DbClient`: ticks and the timers of the caches keep coming, connections deliver,
the DB actor takes up its mailbox. Nothing makes an actor load, change or leave,
or a server crash. `TimeWheel`: time passes and the wheel and callback threads
run; nobody has to add or remove. `Gateway` is a safety specification, and so is
what is checked of `Nsp`: clients and peers may stop anywhere.

## Proofs

`ActorMailbox_proofs` proves, for every set of levels, every set of keys, every
weight and any number of messages (`MailboxAssumption` only: levels and keys are
naturals, levels and the weight are not zero):

* `TypeInvariant`: `Spec => []TypeOK`;
* `NothingStranded`: `Spec => []NoStrandedWork`. The invariant is not
  inductive. `Inv` adds that a worker is at the actor exactly in state run
  (`RunIffBusy`); that an actor queued, or about to be looked at by `Check`, and
  ready, has work (`QueuedHasWork`) - otherwise `Check` would skip
  `actor_handle` and return lready = false; and that a worker returning a ready
  actor has lready = true (`ReadySaysSo`), which is all `schedule_layer::push`
  has to judge normal messages by. `PostUnwoken` is the core: a message for
  which `actor::push` returns false is one an idle actor could not run, because
  a bucket at or below it was already held back by the gate;
* `MailboxImplementsSerial`: `Spec => ImplementsSerialMailbox`. The mapping
  puts what the worker holds in front of the queue. `SimInv` says that the
  worker holds messages only in the phase that took them, that normal messages
  are handled only when ready, and that whatever the gate read at the start of
  the slice lets through the true conditions let through too (`GateIsSafe`).
  The last needs that the lowest unsatisfied key exists (`LowestKey`, from the
  well-foundedness of strict inclusion on finite sets) and that conditions are
  only ever satisfied;
* `StartTypeInvariant` and `NothingStrandedAtStart`: `StartSpec => []StartTypeOK`
  and `StartSpec => []NoStrandedWork`, for the same actor while the callback of
  `add_actor` runs. Conditions then appear as well as disappear. `StartInv` says
  that an actor in state init has nothing and nobody at it, and is `Inv` from
  then on; `GrowingGate` is why a new condition loses no wakeup: it makes less
  runnable, never more, so what `PostUnwoken` says of an idle actor still holds.

`Scheduler_proofs` proves all five invariants of the run `scheduler`, for any
actors, any number of workers, any actors erased while they wait or run, and any
handlers that suspend dispatch (`SchedulerAssumption`, which asks that layers are
finite in number and that the actors others erase are not those that suspend,
and `ThreadAssumption`):

* `SchedulerTypeInvariant`, `PoolStaysExact`, `SuspendersWait`:
  `Spec => []TypeOK`, `[]PoolExact`, `[]SuspenderWaits`. The pool is an array
  used as a stack. That the slot below the position exists when a worker comes back
  is a counting argument (`PoolFull`): while one worker is lent, those in the slots
  are not all of them, so the position is not 0. The same fact is why a
  suspension is never held: the worker of the handler that asks is lent. `Inv`
  adds `LentOnce` (what a worker is lent for: a dispatcher holds it, it has been
  given an actor, or it is at work, one of the three) and `BusyWorker` (which
  worker has an actor, has found a callback, or asks with the flag up);
* `ActorStaysInOnePlace`: `Spec => []ActorInOnePlace`. A worker gives itself back
  before it returns its actor, so for a while it answers for two: the one it
  returns and the one it was lent for. `Places` counts both, and `OneReleaser`
  adds who releases an erased actor: the erasing thread, or the worker that found
  its callback, and then nobody else has the actor;
* `DispatchersStayAwake`: `Spec => []DispatcherAwake`, the absence of lost
  wakeups. It is inductive on top of `Inv` once split into the layers' half and
  the pool's half (`LayersWoken`, `TokensEnough`); the second compares the free
  workers with the tokens and the dispatchers about to look again, by cardinality.

`ActorErase_proofs` proves all five invariants of the run `erase`, for any objects
of a guid, overlapping or not, any workers, erasers and number of messages
(`EraseAssumption`: the null and the two marks of `tearing` are not objects):

* `EraseTypeInvariant`: `Spec => []TypeOK`;
* `TeardownMeetsNobody`: `Spec => []TeardownAlone`;
* `StatStaysTrue`: `Spec => []StatAgrees`;
* `HandedOverStaysClean`: `Spec => []HandedOverClean`;
* `RouteStaysFound`: `Spec => []RouteFinds`;
* `ObjectInOnePlace`: an object is held by one worker or queued once, never both.

`Inv` says where an object can be. `OnePlace` is the last theorem.
`RegisteredStat`: the state of the registered object is true of it, so
`erase_actor` tears down at once only what nobody holds. That needs
`UnannouncedUntouched`: the callback that makes an object free comes once, to an
object that was never run, queued or torn down (otherwise it could turn a
running object into a free one, to be queued twice). `schedule_layer::push` puts
an old object back into the queue under the new one's guid, and the proof shows
that this costs the callback but never exclusion. Queues enter the proof only
through four lemmas on `Append` and `Tail`. On top of `Inv`:

* `Orderly`: what is queued is in state list (`QueuedListed`), the registered
  object is where its state says (`RegisteredPlace`), and an object that is idle
  or unannounced is empty (`IdleEmpty`);
* `Handed`: two objects live together only if they are recorded as overlapping
  (`Alone`), the callback of an object waits in one place and comes once
  (`CalledOnce`), and an object torn down is out of everybody's reach for good
  (`ReleasedOnce`, with `Gone`); `CalledAfter` is the order of the two;
* `RouteTells`: what the table will say when the route actor has handled
  everything (`Listed`). An erase that told the route actor before an object was
  added takes that object out as well, so a registered object is told last.

`Gateway_proofs` proves all four invariants of the run `gateway`, for any roles
and any number of sockets, sessions and logins (`GatewayAssumption`: "no entry"
is not a role, the bounds are naturals):

* `GatewayTypeInvariant`: `Spec => []TypeOK`;
* `PointersStayExact`: `Spec => []NoDanglingPointer`. `Inv` adds what makes the
  pointers exact: a socket has one role for life, so an entry is never given a
  socket that another entry holds (`Sound`), and what is on its way to the
  followers respects that too (`SoundUpdate`). Each operation of `gateway_info`
  has a lemma (`RemoveSocketSound`, `RemoveActorSound`, `UpdataSound`), and the
  steps follow from them;
* `ClientsStayExact`: `Spec => []ClientsExact`, with `ConnsSane`: a socket whose
  login waits is open or has a close posted. The core is `ClientLoginClients`:
  the only other socket of the role is the one the login pushes out;
* `FollowersStaySound`: `Spec => []MirrorSound`. The invariant is about the
  future: what the follower will be once it has applied every update in its
  mailbox agrees with the gateway (`Follows` lists its states on the way there).
  A step of the gateway then appends one state (`FollowsAppend`), a step of the
  follower drops one (`LeadsTail`). `DropAgrees` is why pushing a socket out
  spares the other roles of a follower that lags behind.

`Routing_proofs` proves, for any nodes, actors, layers and number of messages
(`RoutingAssumption` only):

* `RoutingTypeInvariant`: `Spec => []TypeOK`;
* `NobodyGetsItTwice`: `Spec => []AtMostOnce`. A set or a type send delivers to
  the local targets and then hands *all* targets to the route actor; that nobody
  gets the message twice is because a packet never goes to the node it comes
  from and reaches each other node once. `Inv` says it: a message is on its way
  from one node (`OneSender`), at one stage (`OneStage`), once in a queue
  (`OneCopy`), and whoever it can still reach has not got it (`Due`).

`DbClient_proofs` proves, for any finite set of rows, any chunk size, any number
of changes and of crashes (`DbAssumption`):

* `DbTypeInvariant`: `Spec => []TypeOK`;
* `DifferenceQueuedAlways`: `Spec => []DifferenceQueued`;
* `CleanMeansSentAlways`: `ASSUME InitChanges = {} PROVE Spec => []CleanMeansSent`;
* `ClientsImplementRowStore`: `ASSUME InitChanges = {} PROVE Spec =>
  ImplementsRowStore`. Handlers are the store's changes and deletions, flushes its
  `Persist`, crashes its `Crash`; the load that makes a row is a change too, and
  every other step leaves the owner's view and the disk alone. Losing nothing at
  `Release` is where `CleanMeansSent` is needed.

All four rest on one inductive invariant, `Inv`. Its core is an order: the
versions of a row on disk, in the DB actor (`RowOK`), in the messages under way
(`Order`) and in the owner's memory (`Owner`) never fall along that path.
`RowOK` also says why no flush can undo another: a row to be deleted is not in
the DB actor's memory. `Talk` follows the load: the DB actor either still has
the request before it, last of its connection behind what dead processes left
(`Asked`), or has answered, and then every row is in the owner's memory or in a
chunk still to come (`Served`). That the chunks hold every row and that only
the last says so is arithmetic on positions (`ChunksAnswer`). The assumption on
`InitChanges` is needed: with a row that `initdata()` changes, the run
`db_init` shows `CleanMeansSent` violated.

`Nsp_proofs` proves, for any peers, any finite set of rows, any scopes and chunk
size (`NspAssumption`), while peers register, write, leave and get their
addresses late:

* `NspTypeInvariant`: `Spec => []TypeOK`. That no peer lists itself among those
  it sends to is part of it, and needs `OthersOnly` of what is on its way;
* `EveryoneIsKnown`: `Spec => []EveryoneKnown`. Registrations overlap: the answer
  to one peer and the announcement of another cross. `Talk` says that of two
  registered peers, one that was answered knows the other, has it in something
  on its way, or was skipped (`Heard`), and what farewells and announcements may
  say;
* `LoadsComplete`: `Spec => []LoadComplete`. `Load` follows a row that nobody has
  changed at the server: in every peer whose load has begun it is there, or in a
  chunk on its way, or a change of it is on its way *to the server* or has
  skipped it (`LoadedFresh`, `ChangesPending`). The case of a change is why the property may speak
  of the server's rows only, and needs that a change can reach nobody before its
  writer is registered (`KnownListed`, `SpokenListed`), and that a writer's
  farewell is the last thing the server hears of it (`ExitLast`). That every row
  is in some chunk, wherever the load is cut, and that the last chunk says so, is
  arithmetic on positions (`ChunksOf`); that the rows can be walked in ascending
  order at all is a minimum over finite sets (`AscendingExists`);
* `ChangesArrive`: `ASSUME OneWriter PROVE Spec => []ChangeArrives`. `Last` adds
  the future of a row: `Arrives` says that whoever is owed its last change has it,
  or has it as the last thing about the row in the channel from its one writer
  (`Ends`, with `EndsTail` and `EndsAppend` for a delivery and a sending). Nothing
  else on its way may touch the row where it counts: a peer sends only changes of
  rows it may write (`Sole`), and a peer with a finished load has no chunk
  coming (`LoadedOnce`; only the last chunk says that it is the last, `LastFin`,
  and nobody is answered twice). Whoever is owed a change and not skipped is sent
  it (`Audience`), since a peer is known with its whole scope or not at all
  (`Scoped`); the server takes it, since a writer is listed until its last message (`Listens`).

`OneWriter` says that no row has two writers. Two writers of one row may reach two
peers in different orders and leave them with different copies, so the theorem
needs it, and the instance of the run satisfies it (TLC evaluates it). The
repository's actors keep to it field by field: of `tdb_brief`, a role writes
`mbase` of its own row (`actor_role.cpp:173`) and the activity manager writes
`mactivityvalues` (`actor_activity_manage.cpp:84`); of `tdb_keyvalue`, the role
manager writes one row (`actor_role_manage.cpp:65`). Field permissions
are not modelled, so for `tdb_brief` the theorem speaks of the rows restricted to
the fields of one writer.

`TimeWheel_proofs` proves all three invariants of the run `wheel`, for any number
of rounds, slots and timers, any precision, and however late the thread wakes
(`WheelAssumption`):

* `WheelTypeInvariant`: `Spec => []TypeOK`;
* `TimersOnTime`: `Spec => []OnTime`;
* `CountsStayExact`: `Spec => []CountExact`.

They rest on `WheelInv`. `HandsOK`: the hands are in step with the ticks, each
round counting the whole turns of the round below it. `Placed`: a node is in the
slot of the time it is due at, ahead of the hand of its round and not a whole
turn away. `OneSlot` and `Life`: a node is in one slot, in one of the lists or
with the callback thread. The steps follow `push` (`PushIs`, `PushSlotsIs`), the
turn of the hands and what falls from a round to the one below (`TurnHands`,
`TurnNode`, `FallenIs`), and `NoWrap` says why a position modulo the number of
slots is taken for one node only. The length of a slot, `m_slot_ms`, is written as
the constructor's loop computes it, round by round, since powers are opaque to
the prover; that such a function exists is proved by its least counterexample
(`SlotsExist`).

The runs check these properties on an instance. Every invariant and every
refinement of a passing run is proved; liveness and `ENABLED`, which the prover does
not reach, stay with TLC: `ReadyDelivers`, `PrivilegedProgress`,
`StartedDelivers`, `Drains`, `CallbackComes`,
`AddresseeReached`, `EventuallyDurable`, `Fires`.

## Plan

1. The role switch over two nodes and a gateway, composed with `Routing` and
   `ActorErase`: addresses that move while packets travel, the gateway's record
   of the game server.
2. `Nsp` with field permissions and a server that restarts; edits of rows by
   scripts and by the GM in `DbClient`.
3. Registration of nodes and reconnects of a node; KCP sessions.

## Not modelled

Transports (a connection is a FIFO of packets that may end), configuration,
tables, scripts, logging and mail, generated protocol classes and the admin site
hold no concurrent state of their own. Match rooms and the other game logic are
sequential handlers of one actor: their concurrency is the mailbox's, their
persistence `DbClient`'s. Message payloads are abstracted everywhere. Queue depth
warnings of the mailbox only log. Data races on `nready`'s map during start-up
and the lifetime of a captured message pointer in `actor_create` are listed as
hazards and not modelled. SQL is taken not to fail, and packing a message not to
either.

Most of the repository's lines are generated protocol classes
(`src/public/cpp/actor/generated`), tools that generate them, and third-party
readers; the share of all lines that the map names stays small for that reason.
