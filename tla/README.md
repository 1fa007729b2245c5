# KarmaOT server: TLA+ specifications and proofs

KarmaOT is a game server in C++ (a fork of The Forgotten Server). Its source is
`src/sources/src/`; file names below are relative to that directory. This
project models the parts of the server whose correctness depends on an order of
events: threads handing work to each other, timers racing cancellations,
connections that fail half-way, players that wait for a slot, the shutdown.

## 1. The system

### Threads

| Thread | Code | What it does |
|---|---|---|
| main / network | `main` (otserv.cpp), `ServiceManager::run`, connection.cpp | starts the others, waits for the loader, then runs the `io_service` of all sockets; joins the other threads at the end |
| dispatcher | `Dispatcher::threadMain` (tasks.cpp) | runs every task of the game logic, one at a time |
| scheduler | `Scheduler::threadMain` (scheduler.cpp) | turns timers into dispatcher tasks |
| database | `DatabaseTasks::threadMain` (databasetasks.cpp) | runs the queries nobody waits for |

The game state (creatures, items, houses, parties, trades, ...) belongs to the
dispatcher thread. The other threads reach it only by `g_dispatcher.addTask`.
The dispatcher reaches the scheduler by `addEvent`/`stopEvent`, the database
thread by `g_databaseTasks.addTask`, and a socket by `Connection::send` and
`close`, under the connection's own lock.

### Inventory

| Component | State | Operations | What must hold |
|---|---|---|---|
| Dispatcher (tasks.cpp) | task list, thread state, condition variable | addTask, threadMain, stop, shutdown | FIFO, no lost wake-up, every accepted task handled, the thread ends |
| Scheduler (scheduler.cpp) | timers by event id, `io_context` queue | addEvent, stopEvent, timer handler, shutdown | an event is dispatched at most once, never after a cancellation that came first, and always without one |
| DatabaseTasks (databasetasks.cpp) | query list, thread state | addTask, threadMain, flush, shutdown | every accepted query runs exactly once, in order while serving; the thread ends |
| Database (database.cpp) | MySQL handle, recursive lock | beginTransaction, commit, rollback, executeQuery, DBTransaction | a transaction is all or nothing and contains nobody else's queries |
| Connection (connection.cpp) | socket, closed flag, message queue, timers, protocol | accept, parseHeader, parsePacket, send, onWriteOperation, handleTimeout, close | one write outstanding, messages in order, Protocol::release once, the socket is closed in the end |
| Protocol, OutputMessage (protocol.cpp, outputmessage.cpp) | output buffer, auto-send list | getOutputBuffer, send, sendAll, release | no message is lost or reordered, none sent after release |
| ServiceManager, ServicePort (server.cpp) | acceptors | open, accept, onAccept, close, stop | the port reopens after an error; nothing is accepted after stop |
| Wait list (protocolgame.cpp) | two lists of waiting accounts with deadlines | clientLogin, findClient, cleanupList | the server is never over its limit; who waits keeps the place |
| Login, logout (protocolgame.cpp) | player/client links, pending reconnect event | login, connect, logout, release | at most one client per player; a replaced client cannot act |
| Game, shutdown (game.cpp, otserv.cpp, signals.cpp) | game state, players, objects to release | setGameState, saveGameState, shutdown, cleanup | shutdown is final, saves everybody, ends the threads |
| Creature checks (game.cpp) | check lists, reference counts | addCreatureCheck, removeCreatureCheck, checkCreatures | a creature is in one list, and freed after it left |
| Decay (game.cpp) | buckets, items to decay | startDecay, checkDecay, internalDecayItem | an item decays once, not before its time |
| Walking (creature.cpp, player.cpp) | eventWalk, walk tasks | addEventWalk, stopEventWalk, onWalk, setNextWalkActionTask | one chain of walk events per creature |
| Trade (game.cpp) | trade state, items in trade | request, accept, close | both items change hands or none does |
| Party (party.cpp) | members, invitations, leader | invite, join, leave, pass leadership, disband | a player is in one party; invitations are symmetric |
| Spawns (spawn.cpp) | spawned map, event id | checkSpawn, cleanup, removeMonster, stopEvent | a block never has two monsters |
| Raids (raids.cpp) | running raid, events | checkRaids, executeRaidEvent, resetRaid, clear | one raid at a time; a reload cancels it |
| Global events (globalevent.cpp) | timer and think maps, event ids | startup, timer, think, clear | one timer chain; events fire at their time |
| Market (iomarket.cpp) | offers, histories, balances | accept, cancel, checkExpiredOffers | an offer ends once, what it holds is returned once |
| Script timers (luascript.cpp) | timerEvents, registry references | addEvent, stopEvent, executeTimerEvent | a callback runs once or is cancelled; its references are freed |
| Houses, beds, guilds, chat, bans | owner, access lists, sleepers, ranks, channels, expirations | see files | ownership and item transfer |
| Login data (iologindata.cpp), map save (iomapserialize.cpp) | database rows | savePlayer, loadPlayer, save | a save is atomic |
| Cylinders: containers, tiles, items, depots | item trees | queryAdd, addThing, removeThing, internalMoveItem | an item has one place; counts are conserved |
| Combat, conditions, monsters, npcs, spells, weapons, items | per-creature state | see files | game rules |
| Network message, RSA, XTEA, base64, tools | bytes | see files | encodings |
| File formats, configuration, Lua binding | data loaded at start | see files | loading |

### What is hard here

* **Interleavings**: the lock of the dispatcher and of the database queue is
  released before `notify_one`, and the waits have no predicate.
* **Cancellation**: `stopEvent` is asynchronous; a timer that has fired is a
  dispatcher task that nothing can withdraw any more.
* **Half-failed I/O**: a connection is closed by the network thread, by a
  timeout or by the game, in the middle of a write, and its protocol must be
  released exactly once.
* **Shutdown**: four threads end in an order that depends on what each is doing.
* **Clocks and lists**: the wait list, decay buckets and auctions combine
  deadlines with positions in lists.

## 2. Plan

The modules in the order in which they were written, the most important
behaviour first. `XProofs` in the last column means that the safety of the
component is proved there.

| # | Module | What it adds | State |
|---|---|---|---|
| 1 | `TaskQueue` | abstract: tasks are accepted and handled in order until the queue closes | done |
| 2 | `Dispatcher` | the list, the lock, the condition variable, expiration, the end of the thread; implements `TaskQueue` | `ThreadsProofs` |
| 3 | `Scheduler` | events, ids, timers, cancellation | `ThreadsProofs` |
| 4 | `Threads` | 2 and 3 together: an expired event passes from one thread to the other, and both are brought down | `ThreadsProofs` |
| 5 | `Connection` | one connection with its timers and its queue | `ConnectionProofs` |
| 6 | `DatabaseTasks` | the queries nobody waits for | `UpkeepProofs` |
| 7 | `Server` | main, the loader, a port that opens again, the shutdown of every thread | `UpkeepProofs` |
| 8 | `Login` | login, replacement of a client, logout, release, buffered output | `SessionsProofs` |
| 9 | `WaitList` | the two lists of a full server | `TurnsProofs` |
| 10 | `Creatures` | check lists, reference counts, friends and targets, idle monsters | `WorldProofs` |
| 11 | `Decay` | buckets, durations, references | `UpkeepProofs` |
| 12 | `Walking` | walk events, walk tasks, stop, speed, death | `SessionsProofs` |
| 13 | `Trade`, `Party`, `Chat` | agreements of players, and who hears them | `AgreementsProofs` |
| 14 | `Saving` | the transactions of a save | `SessionsProofs` |
| | `Market` | offers, goods and gold | `SessionsProofs` |
| 15 | `Spawn` | monsters of a spawn and their replacement | `UpkeepProofs` |
| 16 | `Tiles`, `Conditions` | what a tile keeps of its items, what a condition changes | `WorldProofs` |
| | `Containers` | where items are | `AgreementsProofs` |
| 17 | `Raids`, `GlobalEvents` (over `Chains`), `ScriptTimers` | chains of events and their reload | `TurnsProofs` |
| 18 | houses and beds, guild membership, bans per address, known creatures, open containers of clients | | not begun |

Abstract specifications: `TaskQueue` is what the rest of the server relies on,
and `Dispatcher` is shown to implement it, by itself and together with the
scheduler.

## 3. The modules

A module takes the threads of the program as actors and a critical section, or
whatever runs without yielding to others that can see it, as one step. Where
all of a component runs in tasks of the dispatcher, a step is a task: between
two tasks of one player those of others come, and a task that was queued finds
what the others left. Definitions whose name ends in `Mutant` are not part of a
model: each of them is a plausible bug in the definition that follows it, and the
property that catches it is named in `PROJECT.json`.

### Threads, Dispatcher, TaskQueue, Scheduler

`Dispatcher` has the members of the class as variables (`taskList`,
`threadState`), the local `tmpTaskList` of `threadMain`, a program counter for
the dispatcher thread, and for each producer thread the moment between
`unlock()` and `notify_one()` in `addTask`. Waiting on the condition variable is
`LockAndWait`; it ends by `Wake` after a notification or by `SpuriousWake` at any
time, since the code waits without a predicate. A task is run (`RunTask`) or
dropped for its expiration (`DropTask`, with the test for 0 of
`Task::hasExpired`); running one may itself add tasks, or bring the server down
the way `Game::setGameState(GAME_STATE_SHUTDOWN)` and `Game::shutdown` do
(`SetShutdown`, `Stop`, `GameShutdown`), and `main` does when no service runs
(`MainShutdown`). `Terminate` is `Dispatcher::shutdown`, whose own task ends the
thread. The cycle counter is left out.

In `Scheduler`, `addEvent` and `stopEvent` post handlers to the `io_context`:
`ready` is its queue, in which expired and cancelled waits queue their
completions as well. `timer` is `eventIdTimerMap`. The consequences of Asio's
rules are in `Cancel`: a cancelled, re-armed or destroyed timer completes its
pending wait with `operation_aborted`, and an expired one is beyond cancellation.
Ids are taken modulo `IdLimit`, which stands for 2^32.

`Threads` is the composition that shares state: the wait handler of the
scheduler's thread either deletes the task or is in `Dispatcher`'s `AddTask` until
it has notified, and `Game::shutdown` ends both threads. Its behaviours are those
of both threads and, with more tasks, those of each alone.

### Connection

The record `conn` holds the members of the class. Every handler runs under the
recursive `connectionLock`; it is one step, written as a composition of functions
on the record that have the names of the member functions (`Close`, `CloseSocket`,
`Send`, `InternalSend`, ...). An operation of a closed or dead socket completes with
an error (`Fails`); a timer that expired leaves `handleTimeout` to run later, when
cancelling is too late. `Accept` is what `ServicePort::onAccept` makes of a new
connection. `GameSends` and `GameCloses` are the dispatcher's `Protocol::send` and
`disconnect`. The queue is a number: messages are only ever pushed at the back and
popped at the front.

### Server, DatabaseTasks

`Server` follows `main` and `mainLoader`: the loader is the first task, main waits
for its signal (which may come before main waits, `unheard`, or be a spurious one,
`early`), one port accepts, closes its acceptor after an error and leaves an event
that opens it again, and a signal ends the game, the port, the `io_service` and the
three threads. The state of a thread and the thread itself are two variables:
`g_databaseTasks.shutdown()` sets the one, `join()` waits for the other. What the
thread of the queries does with a state that turned to TERMINATED is taken over from
`DatabaseTasks`: it ends (`DatabaseThreadEnds`), or it had tested the state before
and waits for a notification that has been given (`DatabaseThreadParks`), so that
`main` hangs in its join (`JoinHangs`, finding 1). `DatabaseTasks` has the members
`tasks` and `threadState`, the thread in `threadMain` and the one in `shutdown()`,
which empties the list by itself in `flush()` while the database thread may still
hold a query. The state is tested without the lock, as the code does.

### Login, WaitList

`Login` follows a character and the clients that come to it: the first message,
`login`, the `connect` a second after another client was disconnected, logout,
kicks, death, the loss of the connection in the network thread, `release` and the
freeing of the `Player` object. `Moves` brings the character to a tile that it may
not log out on, or away from one (`noLogout`): neither `sendPing` nor the idle kick
take a player from there, and the idle kick takes none with access (`HasAccess`,
player.cpp:1530). Then there is the list of protocols with buffered output
with its chain of `sendAll` events. `WaitList` has the two lists with entries of a
guid and the time left; `Tick` is five seconds, of which all times in the code are
multiples. `WaitLonger` overwrites the guid of the entry, as the code does; the
value `Overwritten` stands for the low 32 bits of the time in milliseconds, assumed
to be nobody's guid.

### Creatures, Tiles, Conditions

`Creatures` counts what refers to a creature: its tile, its check list, the friend
and target lists of monsters, its master, the list of creatures to release; and
it has the pointers that are not counted. A monster sleeps and wakes as
`updateIdleStatus` does. `Tiles` has the ground, the list of items with the down
items before the top items, and the flags and heights that `setTileFlags` and
`resetTileFlags` keep. `Conditions` has what each condition changed and takes back,
with merging, deferral by a player that steps, and expiry that is noticed late.

### Decay, Spawn, Walking

A list of decaying items is, per item, the number of its entries: its order does
not matter. The unit of time is half an interval of `checkDecay`. `Spawn` has the
blocks with the multimap of monsters placed and the check event. `Walking` has
the steps still to take, `eventWalk` and the events that exist, the walk task and
what waits at the dispatcher.

### Trade, Party, Chat, Containers, Market, Saving

Each is one class of agreements, kept by hand on two or more sides: tables of
offers and trade states of players; members, invitees and the parties that players
point at; users and guests of channels; items and the containers they are in;
rows of offers, gold and goods. `Saving` is a save in a transaction, with
statements, commits and connections that fail. In `Market` the database thread
looks for expired offers, and what it found is processed later.

### Raids, GlobalEvents, ScriptTimers, Chains

`Chains` is what raids and global events have in common: an event that schedules
its successor, the id that names it, and events whose id was forgotten.
`ScriptTimers` has the table of callbacks by number, the references in Lua's
registry and the events of the scheduler.

### Agreements, World, Sessions, Upkeep, Turns

Components whose steps share no state are checked side by side: the variable
`part` chooses in the initial state which component moves, the others stay as they
begin. Such a run explores the behaviours of each of its components and no product
of them, and its properties are those of the components. This is sound because the
components share no variable; where two do share one (`Threads`, `Server`), the
composition is a real one.

## 4. The runs

| Run | States | Shows | Bounds |
|---|---|---|---|
| `threads` | 141915 | order, wake-ups, drain, the end of both threads; one owner per event, cancellation final, what is handed over accepted; the refinement of `TaskQueue`, fairness included; events that nobody stops are run | two producers, one of them the scheduler's thread; plain tasks, one with a deadline, those that end an online and an offline server; three events, ids wrap around after two |
| `connection` | 2772 | released once, one write, never forgotten, stalled writes end | three queued messages, exceptions included |
| `turns` | 202541 | seats respected, one entry each; newcomers wait while somebody does, who is let in from a list leaves a seat to each counted before it, expired entries keep nobody out; one raid at a time; one chain per kind of event; callbacks once | three players and a privileged one, three seats, three entries; two raids of two events, one not repeatable, two loads; two names of each origin; four callbacks, two numbers |
| `agreements` | 103112 | both sides of trades, parties and channels agree, trades move both items or none, parties outlive leavers, items are in one place and none is lost | three traders with a bag and two items; four players, two parties; three chatters, two private channels; three containers and three stacks of at most two |
| `sessions` | 1225247 | a character is in the game once with at most one client, walks can be stopped and resumed, saves are whole, gold and goods add up | three clients of one character, without access, on tiles of both kinds; two steps, two events, two orders; two saves of three tables; two traders, two offers |
| `world` | 434226 | references that are counted exist, no dangling pointer, monsters that see players are awake; flags are those of the items; conditions take back what they changed | a player and two monsters in two rooms; three items; six kinds of conditions |
| `upkeep` | 53432 | safety of the server, the queries, decay and a spawn; under fairness the server comes up and goes down but for a join that hangs, queries run, output is sent, deserted characters leave where idle time is counted, offers expire, items decay, monsters come back, raids and walks end | three errors, two connections; three queries; two clients of a character without access; two traders, one offer, gold for two; one item with durations below, at and above a round; two blocks and four bodies |
| `database_tasks_join` | 100 | **violated**: the thread may never end after a shutdown | one submitter, one query |
| `connection_stalled_peer` | 760 | **violated**: a graceful close does not end if the peer stops reading | one queued message |
| `wait_list_keeps_place` | 36 | **violated**: coming back on time loses the place | two entries |
| `login_released` | 3067 | **violated**: a released session takes a player over | two clients |
| `chat_leaver_hears` | 93 | **violated**: who left a party hears its channel | two players |

Why these bounds are enough: a lost wake-up, a double release or a broken order
needs two actors and one or two items; the third item makes a list that has a
middle. Three seats and three entries reach every branch of `clientLogin`, and let a
client enter from a list while others wait, with and without a seat left for them. With two
ids for three events a live timer's id comes round again, which with 2^32 ids no
test would reach; the same holds for the numbers of script timers. A third trader
makes a counter-offer by the wrong one possible, a fourth player a party that
outlives one who leaves. The third client replaces one that is itself waiting to
replace another. A decay duration below a round (8), of exactly a round and just
below two rounds reach each way to choose a bucket.

Symmetry is used only in runs without liveness properties, over the players
without privilege, traders, items but the bag, and rooms. Deadlock checking is off
in every run: the servers modelled are meant to stop, a closed connection does
nothing more, and the orders of players are bounded.

### Fairness

* A thread that can take a step takes one: `TimerThreadStep`, `DispatcherThread`,
  `EndScheduler` and `EndDispatcher` of `Threads`; `RunMain`, `Load`, `Handle`,
  `RunTaskOfServer`, `SchedulerThreadEnds` and `DatabaseThreadEnds \/
  DatabaseThreadParks` of `Server`, of which the last two are one step of the thread
  whose outcome is not ours to choose; `DatabaseThread` and `DatabaseShutdown`. The
  operating system schedules them, and no modelled step blocks except a wait, which
  is not enabled until notified. Spurious wake-ups get no fairness.
* A thread between `unlock()` and `notify_one()` notifies in the end (`Notify`,
  `NotifyThread`).
* Timers expire and tasks that were queued are run: `TimerExpires`, `ReopeningDue`;
  `RunTask`, `SendAll`, `Cleanup`, `ConnectDue` and `KickDeserted` of `Login`;
  `CheckDecay`; `CheckSpawn` and `Rest`; `RaidEvents`; `RunTaskOfWalk`, `WalkDue`,
  `ActionDue` and `RestEnds` of `Walking`; `FindExpired` and `ProcessExpired` of
  `Market`. The theorems about `Threads` and the liveness checked there are what
  entitles the components to this. For connections it is claimed per write: a timer
  armed anew by every packet need not expire.
* `KickDeserted` is fair only where the code counts idle time (player.cpp:1530): it is
  not enabled on a tile without logout, nor for a character with access. So
  `DesertedLeave` says of a deserted character without access that it leaves, is taken
  over by another client, or gets to such a tile; there, and with access, it may stay
  for ever. Nobody is obliged to move it.
* A check of a spawn that finds every block willing comes again and again while
  something is missing (the one strong fairness): players do not stand on a spawn
  for ever.
* Nobody is obliged to add tasks, submit queries, shut down, send, read, trade or
  walk.

### Findings

Each is a run that must fail, and a quotation of the line it contradicts
(`PROJECT.json`, `findings`).

1. `database_tasks_join`: the database thread tests the state without the lock and
   waits without a predicate; a shutdown that notifies in between is missed and
   `main` hangs in `join()`. `Server` has this outcome, and `ShutdownCompletes` says
   that it is the only thing that may keep `main` from its end.
2. `connection_stalled_peer`: the write timeout of a connection closed without force
   calls `close(FORCE_CLOSE)`, which returns at once because `closed` is set; the
   socket stays open.
3. `wait_list_keeps_place`: the prolonged timeout is written over the guid, so that
   a client loses its place by coming back on time.
4. `login_released`: `connect()` asks whether the connection was destroyed, and not
   whether its session was released.
5. `chat_leaver_hears`: the party of a player is cleared before the channel of the
   party is looked up by it.

### Observations

Behaviour that the models contain, that looks unintended and that no document
contradicts, so that no run is spent on it:

* Scheduler: the handler that cancels the timers at shutdown also stops the
  `io_context`, so that the wait handlers that would delete the pending tasks never
  run. Wait list: `findClient` counts a slot from the entry to the END of its list
  and adds one. A client alone in the lists needs two free seats; and with a and then b
  waiting and two seats free, b is let in while a, who came first, is told to wait.
  `SeatsGoByTheLists` therefore claims no order within a list.
* Server: the signal of the loader may come before main waits for it; the wait may
  end spuriously; a login may be queued behind the shutdown; the save of
  GAME_STATE_MAINTAIN ends in GAME_STATE_NORMAL; the guard `pendingStart` never
  matters.
* Login: `isConnecting` stays set when `connect` finds the connection expired; a
  second chain of `sendAll` is possible; access players and tiles without logout are
  exempt from the idle kick, so that a character whose client is gone may stand there
  for ever.
* Market: a sell offer of a stackable never reaches `createOffer`, so that goods and
  fee are lost; an expiry found before a partial acceptance refunds the offer in
  full; a single item that is not at the top level of the depot costs the fee; of one
  that is, the code tests neither kind nor count: it removes whatever item of the depot
  has the id the client sent (game.cpp:5264-5282), a whole stack or a filled container
  as well, and offers one piece of the kind asked for. The results of the statements
  that insert, change and remove offers are ignored.
* Containers: `addThing` with an index at or above the capacity drops the item;
  `internalAddItem` leaks the original of an item it merged in part.
* Decay: an item that is put out and lit again within a round decays twice as fast;
  an item put on again within a second is charged for it; the removal from
  `decayItems` in `internalRemoveItem` (game.cpp:1408) is never reached.
* Creatures: monsters that were convinced or unsummoned keep stale entries; with
  `removeOnDespawn` off a monster may sleep in view of a player.
* Spawn: a block that the startup leaves empty gets no check of its own; monsters
  that walked away are still counted; with a rate of 1 and three blocks the higher ones
  can starve.
* Saving: a connection made anew in the middle of a transaction goes on outside of
  one; `begin()` sets its state before the BEGIN succeeds; a BEGIN is sent before the
  lock is taken, and a failed one unlocks what was not locked.
* Walking: a player revived exactly at the temple, whose walk event came while it was
  dead, keeps an `eventWalk` of nothing; a stop is forgotten when the speed is
  restored; a stale event begins a second chain, which ends by itself.
* Tiles: the marks of field, teleport, mailbox, trash holder, bed, depot and
  floor change go with the first such item removed although a second stays;
  IMMOVABLEBLOCKPATH is reset and never set.
* Conditions: a stronger drunkenness keeps the old strength; of two outfits with
  different ids the end of one undoes the other; a deferred removal also takes a newer
  paralysis; haste and paralysis meet when one expired unnoticed.
* Chat: users of a guild's channel stay when a script changes their guild; who may
  not use a normal channel any more cannot close it.
* Raids: a raid that may not be repeated is out of the reach of `clear()` while it
  runs; its events go on after a reload, and its end frees the place of another raid,
  so that two may run. A raid without events runs for ever. A check that expired
  before a reload begins a second chain.
* Global events: `clear` stops the chain of both origins and serves those that stay
  only when another is registered; `timer()` that finds nothing leaves the id set.
* Script timers: when the numbers come round, `emplace` fails on a live one and the
  callback is lost with its references; a timer stopped too late may run a later
  callback with its number.

## 5. The proofs

Eight modules hold the theorems. They rest on the named assumptions on the constants
of the modules they extend and on nothing else; TLC evaluates these assumptions in
every run. A theorem speaks of every value of the constants, a run of one.

| Module | Theorems | Of the runs' properties |
|---|---|---|
| `ThreadsProofs` | `TypeCorrect`, `WakeupsNotLost`, `ReachedInOrder`, `DrainedWhenDone`, `ImplementsQueue` (the dispatcher by itself) | `TypeOK`, `NoLostWakeup`, `DispatchOrder`, `DrainedAtExit` |
| | `DispatcherIsSafe`, `BothImplementQueue`, `EventsAreSafe` (both threads) | the same for both threads together, and `EventsSafe` |
| `ConnectionProofs` | `TypeCorrect`, `ReleasedExactlyOnce`, `WritesOneByOne`, `NotForgotten` | `TypeOK`, `ReleasedOnce`, `OneWriteOutstanding`, `NeverForgotten` |
| `TurnsProofs` | `RaidsAreSound`, `ScriptsAreSound`, `TimersAreSound`, `ListsAreSound`, `SeatsGoAsCounted` | `RaidsSound`, `ScriptsSound`, `ListsSound`, `SeatsGoByTheLists` |
| `UpkeepProofs` | `QueriesAreServed`, `ServerIsSound`, `DecayIsSound`, `NoneDecaysTooEarly`, `SpawnIsSound` | `QueueSound`, `ServerSound`, `DecaySound`, `SpawnSound` |
| `AgreementsProofs` | `TradesAreSound`, `TradesMoveBothOrNothing`, `PartiesAreSound`, `PartiesLast`, `ChatIsSound`, `ContainersAreSound`, `PiecesAreConserved` | `TradeSound`, `BothOrNothing`, `PartySound`, `PartiesOutliveLeavers`, `ChatSound`, `ContainersSound`, `PiecesConserved` |
| `SessionsProofs` | `SavesAreSound`, `WalksAreSound`, `SessionsAreSound`, `MarketIsSound`, `OwnersHavePaid` | `SavingSound`, `WalkingSound`, `LoginSound`, `MarketSound`, `OwnersPaidInAdvance` |
| `WorldProofs` | `TilesAreSound`, `ConditionsAreSound`, `CreaturesAreSound` | `TilesSound`, `ConditionsSound`, `CreaturesSound` |
| `FoldLemmas` | lemmas only, used by the three above and by `TurnsProofs` | |

**Dispatcher.** `DrainedAtExit` is not inductive: that an online server leaves
nothing behind depends on how it is brought down. `ShutdownInv` adds that the
terminating task is pushed once (`OnceInv`), that an online dispatcher still
accepting has none in its list (`OnlineInv`), that a closing one has no unaccepted
tasks behind it (`ClosingInv`) and that the terminating task is the last of all
(`TerminatedInv`). `ImplementsQueue` shows that each step of the dispatcher is a
step of `TaskQueue` or leaves it alone; the fairness of the abstract queue stays
with TLC.

**Scheduler and both threads.** `SchedulerInv` says that an event has one owner,
which is a handler in line or a wait under the event's own id, once from `addEvent`
to its end (`OwnedOnce`), that an id in the table is that of a live event
(`KeysAreLive`), and that the completion of a cancelled wait is an abort
(`CancelledAborts`). A handler takes the first entry of the queue and appends some;
`Moved` states that once for all of them. A step of both threads is, seen by each,
one of its own, so that the invariants of the two hold together; `SharedInv` adds that
no event but the shared ones is ever given to the scheduler, from which
`HandedOver` follows step by step.

**Connection.** Handlers are compositions of functions on the record `conn`, so that
the proof has a lemma for each function: from a record that is `Kept` (true also in
the middle of a handler, for instance after the queue was popped and before the next
write was started) it makes one that is `Sound` (true between handlers). `ConnInv`
adds that nothing was done to a connection not yet accepted (`NewInv`), and that a
destroyed one has no handler left (`GoneInv`).

**Raids, global events, script timers.** One raid at a time is not inductive: it
depends on which of its events are to come. `RaidsInv` adds that listed and running
raids are of the last load (`LoadsInv`), that a raid is between two events only while
one is to come or it was stopped (`BetweenEvents`), and what the history variable
`outlived` means (`OutlivedInv`). `GlobalsInv` is what one chain (`Single`) and its
use (`Serving`) rest on. `TimersInv` relates the entries, the fates and the numbers
of callbacks; until the numbers come round no two live events share one
(`NumbersInv`).

**Wait list.** `ListsSound` is not inductive: that a privileged player who enters
without a look at the lists is in none of them, and that without a limit the lists
are empty, must be added (`WaitInv`). Cleaning, taking out and overwriting an entry
all make a list `Less`, with no player twice that was not, and what is less is as fit
(`LessFits`). That `cleanupList` keeps what has time left, in order, is shown of its
fold by `LeftExists` and `LeftFits`; what it says of the entries dropped is what nobody
being turned away for nothing rests on. `SeatsGoAsCounted` also needs that
each counted before the one let in has a lower slot, which taking that entry out does
not raise: the entries behind it move up by one and the list is shorter by one.

**Queries.** `QueueInv`: who takes a query off the list has it at hand, accepted
queries are the executed ones and those in hand or in line, in order
(`CountInv`, `MembersInv`), and nothing waits any more once the shutdown has flushed
the list (`ShutInv`).

**Server.** `ServerInv`: the attempt to open the port is followed from the event to
the task and to the next error (`ReopeningInv`, `ServedPortInv`), and nothing touches
the port before the loader has ended, being the first in the queue (`LoaderInv`);
a thread ends only after its state says so (`ThreadsFit`).

**Decay.** That an item decays on time needs to know where its entry is: `InTime`
says that what the record has left and what really is left differ by the visits that
the entry's bucket still waits for. `Sane` counts references and entries. That an
interval is half a round of four buckets of 250 ms, and a duration below a round goes
to the next bucket, are numbers of the code (`Numbers`); the durations are any. The
bound on the entries of one item, one or two, is kept: it is what makes an item put
out and lit again the worst case.

**Spawn.** `SpawnSound` is inductive as it stands. The assumptions are that there are
finitely many blocks, and at least as many bodies as blocks.

**Trade.** `TradeSound` is inductive as it stands: that no offered item is
within another (`OffersApart`) is needed for reach, and reach for the transfer.
`BothOrNothing` needs of it that the two items and players of a transfer are
distinct and that the room tested for the second item is still there after the first
was moved, which a counting argument over the finite set of items shows.

**Party.** `PartyInv` adds to `PartySound` that nobody is invited to the own party
(`NotInvitedHome`) and that absent players belong to none and are invited to none
(`AbsentAreAlone`). A handler changes parties first and players afterwards; `Changed`
says what it may have done to the parties, and `PublishKeeps` that publishing it keeps
the invariant and loses at most one member.

**Chat.** `ChatInv` adds that no channel whatever has the owner of a private channel
of another id (`OneOwner`), and that the channel of the scripts is there and has none
(`ScriptsOwn`): without the latter a player closing "the own" channel could close
that of everybody. `ChannelsStayOrderly` is the step that all handlers share.

**Containers.** That no container is inside itself is inductive only as a rank that
falls from an item to its parent (`Ranked`): to move x into b adds the rank of b to
all that is below x, which b is not (`PutIs`). `Within`, which climbs as many steps as
there are containers, climbs the whole chain of parents, since a longer one would pass
a container twice and the rank falls (`ChainEnds`); so it is what its parent is in and
itself (`WithinIs`). While a container is taken out and not yet put in, what it holds
is in no root: `Shaped(w, x)` is the invariant but for what is in x. `FillInv` follows
a new stack from place to place: until nothing is left, what is left and the room of
the places passed add up to what came, so that a full container, which must have the
room, leaves nothing to be put in front. The pieces are a sum that changes by what is
taken, merged and put (`StackMerged`, `StackMoved`); an index behind the last slot,
where the rest would be dropped, is one of an overfull container, hence the locker.

**Saving.** `SavingInv` says what every table holds inside an open transaction
before its next statement (`RowsBefore`): the first table is rewritten by one
statement, the others are emptied and filled again. A broken connection is the only
way to be in a save without a transaction.

**Walking.** Two events of one walk may be on their way, so that "a stop is heeded"
says what is left when it was asked for: the walk is to be cancelled or has no steps,
and after one more step has none (`Heeds`). `WalkingInv` adds that events, walks and
paths that wait are at most `MaxEvents + 1`, so that a new event always finds a
number that no other has: a walk event that took the number of one to come would
refute `EventToCome`, and the program's counter does not come round.

**Login.** That a body has the client that has it is not inductive: a second login of
one session would break the links, and a released session could be closed again.
`TasksFit` relates what a session has queued to what it has done: a login is queued
once, before the release, and by a session that has touched nothing; a connect only
by one that has no player yet. `QueueFit` says that each task waits once.
`BodiesFit` counts the holders of a body by its own fields, from which the count over
all sessions follows by the links. Which tile the character stands on matters to
none of this (`TileFits`). The bound of the chains of `sendAll` is that each
began with another login. `LinkMadeKeeps` is what the four ways to take a body share.

**Market.** That nothing is made or lost is inductive only with what a queued result
may hold: `MarketInv` adds that an offer's number was given before, that a SELL offer
is of one piece (as the code creates it), and that a row of a result is an offer as it
is in the table, or as it was before a part of it was accepted (`RowsFit`); without it
the refund of a row could give back more than the offer ever held. The accounts are
sums over all traders and offers: `FoldLemmas` shows that a fold adds up in any order
(`AnyOrder`), and how a sum changes with one value (`SumOneChanged`), with a subset of
the values (`SumLessOf`) and when the rows of a result are added up by owner and kind
(`SumByKey`). One lemma says what an offer gone or made smaller does to the two sums of
the table (`LessIs`), one what a payment and a parcel do to the sums of the traders
(`PaysIs`, `ReceivedIs`); an action then puts them together. The
lot that a sale of a single item takes from the depot may be of any kind and size
(`LotIs`), so that what is offered need not be what is removed (`LotSold`): both
differences are counted, and `swapped` has at most one piece for each row inserted.
`OwnersHavePaid` needs of the invariant that prices and amounts are natural numbers
and the balances as well.

**Tiles.** `TilesInv` adds to `TilesSound` that a mark which two items bore at a time
is remembered (`TwoRemembered`). Every change is made of three: an item more
(`GainFits`), an item less (`LossFits`), an item in the place of another
(`ReplacedFits`). The first two rest on `OneMore`, a bijection between the places of
two tiles but for one, from which flags, marks and the height follow without a sum.
Adding, loading and transforming an item are then cases. A change that is not yet
remembered (`Sound`) becomes so at the end of the action (`BecomesFits`). That a set of
numbers has a least one, which the code's loops look for, is a use of well-founded
induction (`LeastOf`).

**Conditions.** `ConditionsInv` is `ConditionsSound` with the sums written out for the
six conditions that add up (`AmountsFit`), with the events that are put off being of
conditions of this behaviour (`Events`), and with the values a condition can have.
What one condition does when it starts, is merged or ends is a lemma by its type
(`StartChanges`, `MergeChanges`, `EndChanges`). `EndAll` and `Sum` are folds over
sets: `FoldExists` (in `FoldLemmas`) shows, by well-founded induction on the
cardinality, that the function which a fold chooses exists, and `FoldFits` that its
value is in every family of sets that the steps lead through, in whatever order the
elements are chosen. That nobody is hasted and paralysed needs that a step gives the
player nothing it had not, or is known to have renewed it (`Calmer`).

**Creatures.** `CreaturesSound` is not inductive, and what makes it so does not hold
in the midst of an action, when some were told that a creature came, moved or went
and others were not. `Calm` says what holds then too, but for those who still wait:
the references are exact (`Good`); summons are monsters, their masters have none and
are not removed later (`Masters`); what is to be released was removed (`Released`); a
monster that was removed while it was well has empty lists, and who is awake thinks
(`Mind`); whoever is attacked is in view, but for the watchers who were not told yet
that it moved (`InView`); wild monsters know the players around, but for the pairs of
monster and player that are pending (`Watch`, `Pending`). `CreaturesInv` is `Calm`
with nobody waiting, no summon on the map without its master (`Bound`), and nobody
removed without a reference. The functions on the books are shown to keep this in the
order in which they are built, from one entry of one list (`AddFriendIs`) through
what one monster does when it meets somebody (`FoundIs`, `LeftIs`, `OnMoveIs`) to a move and a removal with all summons
(`MoveCreatureIs`, `RemoveCreatureIs`). Each loop over all creatures is unrolled into a
sequence of values (`TellAllSteps` and the like, from `LeftExists`), in which one
more of those told waits no longer. That freeing settles is a count: every round over
the creatures in which somebody is unreferred leaves fewer removed ones
(`FreeAllIs`), and there are as many rounds as creatures (`FreeAgainIs`). That only
the dying stay needs the depth of masters: who remains without settling serves a
master that remains too, and that one serves none (`WhoStaysServes`).

**Model-checked only**

* Liveness and the fairness of the abstract queue: `Exits`, `EventsServed`,
  `Implements` (its fairness), `WritesEnd`, `ServerGoesOn`, `EveryQueryRuns`,
  `PlayersGoOn`, `WorldGoesOn`. The provers do not handle liveness under fairness.

## 6. Not modelled

The reasons are in `PROJECT.json`, component by component. In short: packet
formats, formulas of combat and spells, path finding, loading of data and nearly all
of the Lua binding are computations or tables without an order of events; houses and
beds, bans, quests and the known creatures of clients have state and are left for
later. Inside what is modelled:

* Data races on a single variable are below the granularity (the states of
  `ThreadHolder` are atomics; `closeAll` closes sockets without their lock).
* Tiles: browse fields, `tilesToClean`, what spectators are told, removal of a part
  of a stack. Containers: equipment and tiles as targets, attributes, weight.
* Market: scripts in `data/` that move goods from the inbox to the depot. Statements
  that insert, change or remove a row succeed: the code ignores their results
  (iomarket.cpp:266-277 and the callers in game.cpp), so that a failed one would lose
  what was taken or leave an offer whose goods were given, outside of the accounts.
* Raids: a raid script that loads the raids again inside its own event. A task of a
  deleted raid reads freed memory; it is modelled as finding what was there.
* Walking: path finding and durations. Creatures: zones, invisibility, scripts that
  remove a creature while it appears; players that monsters ignore
  (`PlayerFlag_IgnoredByMonsters`, monster.cpp:522) and aggressive conditions, which
  keep a monster awake with nobody in view (monster.cpp:738-743).
* Conditions: suppressed types and subIds, which `hasCondition` looks at
  (creature.cpp:1394-1402).
* Saving: the statement that `saveAccountStorageValues` stops at, and loading; players
  whose row has `save` 0, for whom one UPDATE is all (iologindata.cpp:672-674); and that
  the tables of depots are rewritten only when a depot changed (818-866): all of them
  always are in the model, a save of fewer tables is one with a smaller `Refilled`.
