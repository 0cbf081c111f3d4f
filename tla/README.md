# clientprefs-redis in TLA+

A model of the SourceMod extension in `src/`: it keeps the preferences
("cookies") of the players of a game server in Redis.  This file says what the
system consists of, what is modelled and where, what the runs of TLC show, what
is proved with TLAPS, and what is left.

## The system

| part | source | state | operations |
|---|---|---|---|
| CookieManager | `cookie.cpp`, `cookie.h` | per slot `connected`, `statsLoaded`, `statsPending`, `clientData`; the cookies with their `dbid` and a pointer per slot (`data`) | client callbacks, query callbacks, get/set, `Unload`, `OnPluginDestroyed` |
| Natives | `natives.cpp` | handles | what plugins call: register, get and set cookies, write for an absent Steam id, iterate, menus |
| Extension | `extension.cpp` | `tqq`, `worker_exit`, configuration | load and unload, the query threads' loop, `RunFrame`, `CatchLateLoadClients` |
| Queues | `TQueue.h` | `queryQueue`, `resultQueue` | add, get, put and get a result |
| Queries | `query.cpp`, `query.h` | one `TQueryOp` per query with parameters and results | `RunThreadPart` on a query thread, `RunThinkPart` on the game thread |
| Async client | `client.cpp`, `client.h`, `reply.cpp` | command queue, semaphore, flags, the connection | `Append`, `Commit`, `Command`, connect and disconnect; one io thread per client |
| Settings menu | `menus.cpp` | `AutoMenuData` per item | select and display |
| Redis | outside | `cookies.list`, `cookies.id.*`, `cookies.desc.*`, `cookies.access.*`, `<steamId>.<id>` | commands and one Lua script (`query.h:43`) |
| Vendored | `concurrentqueue.h`, `blockingconcurrentqueue.h`, hiredis, Win32 interop | | lock-free queues, semaphore, protocol |

How they interact.  All of SourceMod (players, plugins, frames) is one thread,
the game thread.  A handler that needs Redis creates a `TQueryOp` and puts it
into `queryQueue`; a query thread takes it, talks to Redis over its own
connection, and puts it into `resultQueue`; one `RunFrame` per frame takes one
result and calls the CookieManager back.  Between question and answer anything
may happen on the game thread.

What is hard:

* **late answers**: a player may leave, and another take the slot, before the
  answer arrives.  Only the serial in the query tells (`cookie.cpp:209`).
* **asking again**: every native runs `CatchLateLoadClients`, also
  `OnClientDisconnecting`, which thereby asks for the very player who is leaving
  (`cookie.cpp:167`).
* **several threads** (`RedisQueryThread`, 4 by default) that order nothing:
  saves and loads of one player can pass each other.
* **ids that are not known yet**: a cookie has id -1 until its InsertCookie
  query is back.
* **the script cleans up** `cookies.list` while InsertCookie fills it.
* **exceptions on a query thread** end the server: a reply of the wrong type
  throws (`reply.cpp:95`).
* unloading while threads run: who may still use the queue, and what is saved.
* **failing connections**: a lost connection shows only when it is used, and the
  commands under way are answered with a null reply, or never.
* **commits and flags** between the thread that appends commands and the io
  thread that sends them: a wake-up missed is a wait for ever.
* **the vendored lock-free queue** that carries everything between the threads:
  recycled blocks, a hash that grows under its users, counters that are given
  back, a semaphore whose waiters time out.
* **names and texts as keys**: cookies are found by a name that was cut, menu
  items by their text, values by a Steam id in one of several formats.

## Modules

| module | models | is used by |
|---|---|---|
| `CookieManager` | the game thread: CookieManager, the natives, CatchLateLoadClients, RunFrame; queries may come back in any order with any answer they allow | `QueryPipeline` extends it |
| `CookieManagerProofs` | theorems about it | |
| `QueryPipeline` | the queue, the query threads, their connections (always up), Redis and the result queue | |
| `QueryPipelineProofs` | theorems about it: the refinement, and no exception on a thread | |
| `QueryPipelineStored` | theorems about what Redis ends up with, which extend those | |
| `WorkerShutdown` | `SDK_OnUnload`, `SDK_OnDependenciesDropped`, `Unload` and the end of the query threads | |
| `WorkerShutdownProofs` | theorems about it | |
| `CommandPipe` | what the Redis client promises: an ordered pipe | `AsyncClient` implements it |
| `AsyncClient` | `client.cpp`: the caller, the io thread, the connection that may be lost | `QueryThread` extends it |
| `QueryThread` | one query thread: `connectDb`, the loop, the commands of each operation, over `AsyncClient` | |
| `AsyncClientProofs` | theorems about the client and the query thread over it, in `MCQueryThread` | |
| `SelectData` | what a load makes of Redis, by the script and by the slow path, through `reply.cpp` | |
| `CookieRegistry` | cookies by name: lookup, cut names, and the InsertCookie queries that give them their ids, on several connections that may be lost | |
| `SteamIds` | `QueryPipeline` with plugins that write Steam ids in any format | extends `QueryPipeline` |
| `SettingsMenu` | menu items, their data, their owners, open submenus | |
| `CountingSemaphore` | what the semaphore promises | `LightweightSemaphore` implements it |
| `LightweightSemaphore` | `blockingconcurrentqueue.h:251-412` | |
| `LightweightSemaphoreProofs` | theorems about it | |
| `NodePool` | what the free list promises | `FreeList` implements it |
| `FreeList` | `concurrentqueue.h:1353-1466` | |
| `ProducerHash` | how a thread finds the producer that is its own, while the table grows | |
| `BulkFifo` | what one producer promises | `ImplicitProducer` implements it |
| `ImplicitProducer` | blocks, block index and counters of one producer | |
| `SharedFifo` | what a queue promises its users | `BlockingQueue` implements it |
| `BlockingQueue` | producers and semaphore together: `enqueue`, `wait_dequeue`, `try_dequeue`, `wait_dequeue_bulk_timed` | |
| `BlockingQueueProofs` | theorems about it | |
| `PartsProofs` | theorems about `CookieRegistry`, `SelectData` and `FreeList`, in `MCParts` | |

`MCCookieManager`, `MCQueryPipeline`, `MCSteamIds` and `MCWorkerShutdown` give
instances and symmetry.  Three more MC modules run several specifications under one
configuration, by a variable that is chosen in the initial state and says what
runs, while the variables of the rest keep their initial values:

* `MCQueryThread`: the client under a query thread (`user = "thread"`), or under
  any caller with the arguments the extension passes (`"caller"`) or with a cache
  of two commands and a pipe timeout (`"cached"`);
* `MCWaiting`: `LightweightSemaphore`, `BlockingQueue` or `WorkerShutdown`;
* `MCParts`: `FreeList`, `ProducerHash`, `ImplicitProducer` (twice), `CookieRegistry`,
  `SettingsMenu` or `SelectData`.

A property there is the one of the module, for the time that its part runs.  What
the free list, the registry and the load are about (nodes, threads, names and how they
are cut and hashed, values) are constants of `MCParts`, so that the theorems about those
parts are for any of them; the configuration gives them the values of the run.

Refinements.  `CookieManager` is the abstract specification of `QueryPipeline`,
which adds its variables, conjoins to each game step what the handler puts into
the queue (`Enqueue`), and determines the answers CookieManager leaves open
(`ImplementsCookieManager`).  The others are INSTANCEs with a mapping: a command
is in the pipe while it is in `m_commands`, in the io thread's hands or on the
wire, a set whose order is that of the commands' numbers (`ClientIsPipe`); the permits of the semaphore are `m_count` plus the waiters
who are counted (`SemaphoreSpec`); a producer's queue is what was published and not
claimed (`ProducerIsFifo`); the pool is who owns each node (`FreeListIsPool`); the
queue is what each producer's tail and head leave (`QueueIsFifo`).  They chain:
`QueryPipeline` takes `TQueue` for FIFOs per producer, which is `SharedFifo`;
`BlockingQueue` takes its parts for what `CountingSemaphore`, `ProducerHash` and
`BulkFifo` say; `ImplicitProducer` takes its blocks from what `NodePool` says;
`AsyncClient` takes `m_commands` for a FIFO.

### CookieManager

A slot is 1..MaxClients.  `player`, `serial`, `authorized` are what the server
knows of a slot; `connected`, `statsLoaded`, `statsPending` are the code's
arrays.  `clientData[c]` is the vector of `CookieData` of the slot in append
order, and `data[n][c]` the cookie's pointer to one of them, as an index (0 is
NULL), so that a pointer that outlives its target is an index out of range.  A
value carries the player it was written for.  `ops` is the set of `TQueryOp`
objects that exist, each with an identity made of an address and its place in
the call that created it; an address is used again when its objects are gone.

| code | action |
|---|---|
| a client takes a slot (server) | `ClientConnect` |
| `OnClientAuthorized` with `CatchLateLoadClients` | `OnClientAuthorized` |
| `OnClientDisconnecting`, then the server empties the slot | `OnClientDisconnecting` |
| `RegClientCookie`, `SetClientCookie`, `GetClientCookie`, `SetAuthIdCookie` | the same names |
| the other natives and `OnCoreMapStart`: `AttemptReconnection` only | `CheckMissed` |
| the settings menu's choice | `OnMenuSelect` |
| `RunFrame` with each query's callback and `Destroy` | `InsertCookieCallback`, `SelectIdCallback`, `InsertDataDone`, `ClientConnectCallback` |

A leaving player's values are saved if the server has their Steam id to give
(`HasAuthId`, the `pAuth == NULL` of `cookie.cpp:184`): it has that of an authorized
player, and of the others or not (`AuthIdEarly`).

`ClientConnectCallback` cannot assume anything of the answer but that it has at
most one row per cookie (`Rows(p)`), with values stored under the player's own
id (`Stored(p)`).

### QueryPipeline

`queryQueue` is a sequence; `resultQueue` has one sequence per query thread,
because `ConcurrentQueue` keeps the order of one producer and promises none
between producers.  A thread takes a query (`Take`), runs `BindParamsAndRun` up
to each reply it waits for (`InsertCookieThread`, `SelectIdThread`,
`ScriptReply`, `KeysReply`, `KeyIdReply`, `ValueReply`) and puts the result
(`PutResult`).  `pipe[w]` holds the commands sent over its connection; Redis
executes the oldest of one connection at a time (`Execute`), so that what was
only appended is still on its way when the result is put.  Redis itself is
`ids`, `listed`, `described` and `stored`.  What Redis may answer is a set
(`Answers`), for SMEMBERS and the script give their elements in any order; a
handler that creates several queries at once (a late load) puts them into the queue
in the order of the slots (`Enqueue`, `InOrder`).  `crashed` is an exception that left
a thread.  `saved` is a history variable for the properties: what was last
queued for storage for a player and cookie.

### WorkerShutdown

A module of its own, with the queue but without what queries do.  `phase` says
how far the game thread is in `SDK_OnUnload` (one nullptr per thread, wait for
`worker_exit`, `delete tqq`) and `SDK_OnDependenciesDropped`, which SourceMod
calls after it.  A thread connects, waits in `GetQuery`, runs its operation
(after connecting again if the connection is down), and exits on a nullptr.  The
queue object may be deleted while threads use it; a thread that then touches it
goes "astray", and nothing more is said of it.  `unsaved` are the slots with a
changed value, `lost` those whose save went into the deleted queue.

### AsyncClient and QueryThread

The caller appends commands, sets `flush` and signals the semaphore (`Commit`, two
steps), and waits in `get()` for the answer (`caller.pc`).  The io thread is
`worker`, one action per statement of its loop that can see another thread: the
test at the top, the permit, the size of the batch, one round of
`wait_dequeue_bulk_timed`, the flag, the append to hiredis' buffer, one reply
each.  `wire` and `replies` are the two directions of the connection; `Sever`
takes the connection with part of both, and the client learns it (`ctx = "err"`)
when it runs out of replies.  `flush_pipeline` has no initializer, so both values
are initial.  hiredis and Redis are external.

`QueryThread` drives that client through `connectDb` (AUTH, SELECT, SCRIPT LOAD),
`GetQuery`, `delete db` and the commands of each of the four operations, with every
dereference of a reply that may be null (`thread = "crashed"`) and every exception
that leaves the thread, where `GetString` meets a reply that is no string
(`"terminated"`).  Redis may answer with an error what `MayRefuse` names (a wrong
password and what it does not obey after it, a database it does not have, a command that
is forbidden), each time or not, and forgets the script or not when the connection is
lost.  A thread without SELECT works on database 0 (`selected`); `results` remembers of
every finished load whether the server gave it the list of cookies.

### SelectData, CookieRegistry, SteamIds, SettingsMenu

`SelectData` has Redis as functions from names to strings or nil, the queries that
write to it command by command, and the two ways of loading: each reply is
converted as `reply.cpp` does, `GetString` throws on what is no string, and the loop
over the script's rows ends at the first that is no row of four.

`CookieRegistry` keeps for each cookie the name it was stored under and the name
that `UTIL_strncpy` leaves, so that `FindCookie` compares what the code compares.  An
InsertCookie query asks for the id (`Get`), and when there is none appends its commands
and puts its result without waiting (`InsertCookie`); Redis executes the SET of the id
later (`Execute`) or, when the connection is lost, never (`Lose`).  Redis may have ids
that are not the hashes of today's build (`OldIds`).

`SteamIds` extends `QueryPipeline`: `Players` are the ids as plugins write them, and
`Steam2Id` says whose they are.  `SetAuthIdCookieAs` looks for somebody with that
Steam2 id in the slots and else queues a save under the id as it was written; players
join, are loaded and are saved under the Steam2 id.

`SettingsMenu` has the items in order, each with its `AutoMenuData` (`data`, and in
`live` while it is not deleted), what each plugin's list of texts says
(`SettingsMenuItems`), and the menu each client has open.  `undefined` records
that a deleted `AutoMenuData` was read.

### The queues and the semaphore

The extension's build uses implicit producers only (thread-exit support is
disabled, no tokens are made), and of the queue's operations `enqueue`,
`wait_dequeue`, `try_dequeue`, `size_approx` and `wait_dequeue_bulk_timed`.  In
`LightweightSemaphore`, `FreeList`, `ProducerHash` and `ImplicitProducer` every
access to a shared atomic is a step of its own, in the order of the code; a load
and a successful compare-exchange that depend on nothing but the value compared are
one step.  `BlockingQueue` is a level higher: of a producer the four counters
remain.  `blocking` says whether all consumers wait at the semaphore
(`queryQueue`, the clients' `m_commands`) or the game thread polls alone
(`resultQueue`, one call of `GetResult` per frame).

| code | actions |
|---|---|
| `waitWithPartialSpinning`, `waitMany`, `tryWait`, `signal` | `LightweightSemaphore`: `Waiting`, `Post`, `Signal` |
| `FreeList::try_get`, `add`, `add_knowing_refcount_is_zero` | `FreeList`: one action per atomic access |
| `get_or_add_implicit_producer`, `add_producer` | `ProducerHash` |
| `ImplicitProducer::enqueue`, `dequeue`, `dequeue_bulk`, the block index, the destructor | `ImplicitProducer` |
| `try_dequeue`, `try_dequeue_bulk`, `size_approx`, the blocking wrappers | `BlockingQueue` |

## Runs

Every property is broken by at least one plausible bug of the code; those
variants of the definitions stand next to them, named `Bug...`.

| run | instance | shows |
|---|---|---|
| `slots` | 2 slots, 2 players, 1 cookie, ids {0, 1}, at most 1 new connection after the 2 initial serials, 2 outstanding calls | nobody is forgotten, asked for twice (`ServedOnce`), taken for the slot's earlier holder (`LoadedIsCurrent`) or given that holder's values (`OwnValuesOnly`) |
| `values` | 1 slot, a human and a bot, 2 cookies, plugins also write to an empty slot | pointers, values and ids stay consistent (`PointerIsNewest`, `LoadedValuesStable`, `IdStable`) |
| `one` | 1 thread, 1 slot, 1 player who may reconnect once, 2 values, 3 outstanding calls of which handlers leave one to callbacks; with the script or the slow path, with a name that hashes to 0 or 1 | saves are neither lost nor reordered, cookies stay listed, loads see what was saved, every player who stays is loaded (`StoredWhenQuiet`, `ListedWhenQuiet`, `LoadSeesStored`, `EventuallyLoaded`) |
| `two` | 2 threads, 1 value, the script | no exception ends the server, and the pipeline implements CookieManager (`PipelineTypeOK`, `NeverTerminates`, `ImplementsCookieManager`) |
| `thread` | one thread with 1 operation and 12 commands, or a caller with 4; 2 connects (1 with the cache); losses at any moment; AUTH, SELECT, SCRIPT LOAD and KEYS obeyed or refused | `NoCommandDropped`, `ClientIsPipe`, `CommandReturns`, `CrashesOnlyAfterLoss`, `LoadsAreReal`, `SelectedFirst` |
| `waiting` | semaphore: 2 waiters with 3 calls, 2 signalers with 3 signals of at most 2; queue: 2 producers with 3 items, 2 consumers that take at most 2, or the game thread that polls; unloading: 2 threads, 2 connected players, at most 2 operations queued before the nullptrs | no wake-up is lost, and a permit goes to one call (`SemaphoreInv`, `SemaphoreSpec`, `SleepersWake`); permits are items, which leave in order and do leave (`QueueInv`, `QueueIsFifo`, `EveryItemDequeued`, `LonePollFinds`); once a query thread has exited no operation is left in the queue, and nothing at all after the last one (`DrainedBeforeExit`, in `ShutdownInv`), and the threads exit (`ThreadsExit`) |
| `parts` | free list: 2 nodes, 3 threads; hash: 3 threads, a first table of 2, 4 calls, 1 failed allocation; producer: 3 blocks of 2, an index of 2 that grows, 5 items, 2 consumers, 2 calls, 1 failed allocation; the same with 2 blocks, 17 items, 1 consumer, 9 calls and indexes that wrap around at 16; registry: 3 names of which one is cut to another, 2 threads, 3 cookies, an id that is no hash; menu: 2 plugins with a text in common and one of their own, 1 client, 3 items, 3 loads; load: 2 names, 2 connections, access "0" or "2" | `FreeListInv`, `FreeListIsPool`, `ProducerHashInv`, `ProducerBlocksInv`, `DestructorIsExact`, `ProducerIsFifo`, `IdsAgree`, `SettingsMenuInv`, `OwnItemsGo`, `LoadIsExact` |
| `early` | 1 thread, expected to fail | `AuthIdValueSeen` |
| `threads` | 2 threads, expected to fail | `AuthIdValueSeenOnceKnown` |
| `formats` | 1 thread, 1 player with an id in 2 formats, expected to fail | `AnyFormatSeen` |
| `flushed` | unloading as in `waiting`, expected to fail | `FlushedWhenDropped` |
| `saved` | unloading as in `waiting`, expected to fail | `ConnectedPlayersSaved` |

An invariant that ends in `Inv` is a conjunction: the module's type invariant and
the named facts before it, such as `NextIsStable` (no ABA on the free list),
`SlotFree` (a probe of the hash ends), `TakesWhatItClaimed` and `NoUseAfterFree`
(blocks and index entries recycled under consumers), `PostsMatchWaiters` (no
wake-up lost in a timeout), `PermitsAreItems` and `ItemsAreLive`.

Bounds.  `MaxSerial` bounds the connections of a behaviour: initial slots have
serials too, so `MaxClients + 1` is the first reconnection, which is what it
takes to see a stale answer or a slot's next holder.  `Addresses` bounds the
calls with outstanding queries: two suffice for a query and another one that
passes it; `one` has a third one that handlers leave to callbacks (`Reserved`), as
SelectId takes one while the query it follows still exists.
`MaxPipe` bounds what is on its way when a thread takes the next query; 1 is
enough for a command to be passed by another connection.  Two nodes and three
threads are what ABA takes; three threads make a table of two grow while a third
one looks; three blocks of two with an index of two make a block be freed, used
again and found in a larger index; seventeen items wrap around indexes modulo 16,
which stand for 2^64 as the assumption on `Range` allows any multiple of two blocks.
Twelve commands are `connectDb`, the longest operation, a loss, and `connectDb` again.
`AuthIdEarly` is TRUE in some runs and FALSE in `values` and `two`.
The mutants and the failing runs find their cases within these bounds.
`CHECK_DEADLOCK FALSE` stands in every configuration because of them: with the
bounds used up and everything done the model stops.

Fairness.  `EventuallyLoaded` assumes what the code is given by its environment:
frames keep coming (`FrameHook`), threads are scheduled, Redis answers.  It is
weak fairness per thread and for "some result is taken per frame".  The run has one
thread on purpose: with several, `try_dequeue` is free to prefer another
producer's results, and the code does nothing about it.  Players and plugins
are under no fairness at all.  `ThreadsExit` assumes that unloading, once begun, goes
on, that threads are scheduled, and that a thread whose connection is down
reaches Redis again.  `CommandReturns` assumes that the io thread runs, that the
server answers and that a call begun goes on; not that the connection stays, nor that
anybody calls.  `SleepersWake` and `EveryItemDequeued` assume that threads inside a
call go on and that consumers keep calling, as the loops of the query and io
threads and `RunFrame` do; nothing is assumed of who enqueues or when.

### What the failing runs show

* `early`: `SetAuthIdCookie` (`natives.cpp:134,156`) uses the id the cookie has at
  the moment.  Right after `RegClientCookie` that is -1, and the value goes to the
  key `<steamId>.-1`, which no load reads.  The comment at `natives.cpp:148` says
  that players who connect later in the map have the correct value.
* `threads`: even when the id is known, with two threads the load may overtake the
  save, and the player starts with the old value.  The default is four threads
  (`extension.cpp:101`); the priority given to saves is ignored (`TQueue.h:54`).
  With one thread `LoadSeesStored` holds (run `one`, theorem `LoadsSeeSaves`).
* `formats`: `IsAuthIdConnected` knows a player by the Steam2 id, the Steam3 id and the
  auth string (`natives.cpp:99-101`), but what is written for an absent player goes to a
  key with the id as the plugin gave it (`natives.cpp:155`), and loads read the one
  with the Steam2 id (`extension.cpp:330`).  With one thread and the cookie's id known,
  a value written under the Steam3 id is not seen.
* `flushed`: `worker_exit` starts at 0 and threads only decrement it, so
  `SDK_OnUnload` (`extension.cpp:237`) does not wait for any thread and deletes the
  queue under them, while `extension.cpp:262` relies on their being done.  Should a
  thread take its nullptr before the game thread looks, `worker_exit` is negative
  and stays so: `DeleteQueue` is never enabled again and the server hangs.
* `saved`: the values of connected players (`cookie.cpp:53`) are queued by
  `SDK_OnDependenciesDropped`, after the queue was deleted and the threads were
  told to exit.  This does not depend on `worker_exit`.

Two more properties are restricted to one thread because of the same lack of
order: `StoredWhenQuiet` (two saves of one key may change places) and
`ListedWhenQuiet` (the script may remove a name between `SADD` and `SET`,
`query.cpp:159-162`, and the cookie is loaded for nobody until it is registered
again).  `NeverTerminates` holds with two threads unless a name hashes to 0: then
SelectId may overtake the `SET` of the id and throws (`query.cpp:281-285`).

`OwnValuesOnly` is conditional on plugins that leave empty slots alone
(`EmptySlotCalls = FALSE`): the natives check a slot's range only
(`natives.cpp:170`).

## Proofs

Each theorem holds for all values of the constants that satisfy the assumption of
the module it is about; the runs evaluate every one of those assumptions.

| theorem | module | states |
|---|---|---|
| `TypeCorrect` | `CookieManagerProofs` | `Spec => []TypeOK` |
| `ServedInvariant` | `CookieManagerProofs` | `Spec => []ServedInv` |
| `PlayersServedOnce` | `CookieManagerProofs` | `Spec => []ServedOnce` |
| `LoadedPlayersCurrent` | `CookieManagerProofs` | `Spec => []LoadedIsCurrent` |
| `LoadedStable` | `CookieManagerProofs` | `Spec => LoadedValuesStable` |
| `PointersNewest` | `CookieManagerProofs` | `Spec => []PointerIsNewest` |
| `ValuesOwn` | `CookieManagerProofs` | `Spec => []OwnValuesOnly` |
| `IdsAskedForOnce` | `CookieManagerProofs` | `Spec => []IdsAskedOnce` |
| `IdsStable` | `CookieManagerProofs` | `Spec => IdStable` |
| `PipelineInvariant` | `QueryPipelineProofs` | `PipelineSpec => []IInv` |
| `PipelineTypes` | `QueryPipelineProofs` | `PipelineSpec => []PipelineTypeOK` |
| `Refines` | `QueryPipelineProofs` | `PipelineSpec => ImplementsCookieManager` |
| `PipelineKeepsPromises` | `QueryPipelineProofs` | the six properties of CookieManager above, of `PipelineSpec` |
| `NoTermination` | `QueryPipelineProofs` | `PipelineSpec => []NeverTerminates`, if `InOrderOrNoZero` |
| `SavesStored` | `QueryPipelineStored` | `PipelineSpec => []StoredWhenQuiet`, if `OneThread` and `HashesDiffer` |
| `CookiesListed` | `QueryPipelineStored` | `PipelineSpec => []ListedWhenQuiet`, if `OneThread` |
| `LoadsSeeSaves` | `QueryPipelineStored` | `PipelineSpec => LoadSeesStored`, if `OneThread` and `HashesDiffer` |
| `KeepsCommands` | `AsyncClientProofs` | `MCSpec => []NoCommandDropped`, if `OneRound` |
| `IsOrderedPipe` | `AsyncClientProofs` | `MCSpec => ClientIsPipe`, if `OneRound` |
| `NoCrashUnlessLost` | `AsyncClientProofs` | `MCSpec => []CrashesOnlyAfterLoss`, if `OneRound` |
| `SelectsFirst` | `AsyncClientProofs` | `MCSpec => SelectedFirst`, if `OneRound` |
| `EndsRealLoads` | `AsyncClientProofs` | `MCSpec => []LoadsAreReal`, if `OneRound` |
| `Drained` | `WorkerShutdownProofs` | `ShutdownSpec => []ShutdownInv` |
| `PostsAndSleepers` | `LightweightSemaphoreProofs` | `Spec => []SemaphoreInv` |
| `CountsPermits` | `LightweightSemaphoreProofs` | `Spec => SemaphoreSpec` |
| `PermitsStandForItems` | `BlockingQueueProofs` | `QueueSpec => []QueueInv` |
| `ItemsInOrder` | `BlockingQueueProofs` | `QueueSpec => QueueIsFifo` |
| `PollFindsItem` | `BlockingQueueProofs` | `QueueSpec => LonePollFinds` |
| `FreeListIsWhole` | `PartsProofs` | `Spec => []FreeListInv` |
| `FreeListPools` | `PartsProofs` | `Spec => FreeListIsPool` |
| `LoadsAreExact` | `PartsProofs` | `Spec => LoadIsExact` |
| `IdsOfNamesAgree` | `PartsProofs` | `Spec => []IdsAgree` |

Assumptions.  `ConstantsAssumption`, `PipelineAssumption`, `ShutdownAssumption`,
`SemaphoreAssumption`, `QueueAssumption`, those of the client and `PartsAssumption`
are ASSUMEs of their modules: sets are finite, special values are not ordinary ones,
bounds are numbers.

Hypotheses.  Four more restrict the system, each where TLC shows that the code needs it
or where the code says so:

* `InOrderOrNoZero`: one query thread, or no name hashes to 0.  Needed by
  `NeverTerminates` (see above); 0 is one hash in 2^31.
* `OneThread`: one query thread, which is a setting (`RedisQueryThread`,
  `extension.cpp:101`).  Needed by `StoredWhenQuiet`, `ListedWhenQuiet` and
  `LoadSeesStored` (run `threads`).
* `HashesDiffer`: no two names have the same hash.  Two cookies with one hash share the
  key of every player's value (`query.cpp:140-165`), and each overwrites the other's.
* `OneRound`: the client has no cache, as `connectDb` makes it, or a pipe timeout.
  Otherwise the loop of `client.cpp:81` overwrites commands.

### The arguments

*CookieManager.*  `TypeOK` is inductive on its own; the work is in the shape of new
operations and of the vectors, one lemma per operator.  `ServedOnce` is not
inductive: a step that finds no query for a player's serial must know that serials
are unique, that none above `lastSerial` is in use, that a query was made for a
serial that was handed out, and that the queries of a departed player (the one
`OnClientDisconnecting` makes for itself among them) can never match a later
holder.  `ServedInv` adds those facts, with `LoadedIsCurrent` and the flags of
players who are not yet authorized.  Each step then either leaves the queries of
a slot alone or adds or removes exactly one, and `LoadedStable` follows because an
answer that is accepted needs a query for the serial of a slot that is loaded,
which `ServedInv` excludes.  `PointerIsNewest` is inductive with the types.
`OwnValuesOnly` needs `AnswersOwn` besides: a load that still reaches a slot asked for
the player who is in it, again by the serials.  `IdStable` needs that a cookie's id is
asked for at most once at a time and never once it is known (`IdsAskedOnce`): two
outstanding queries could come back with different ids.

*QueryPipeline.*  `IInv` says where each operation is, and it is in one place only
(`Placed`); that each thread is in one of seven situations, which relate the commands
still on its connection, the replies it has and what it waits for (`ThreadOK`); and that
what is stored, sent and loaded for a player is that player's own.  Only then is a
row that a thread reads the kind of row `ClientConnectCallback` allows, and the step
of `RunFrame` maps to the callback of CookieManager; the handlers map to themselves and
everything else stutters.  `NeverTerminates` needs more: that on each connection a
name's description goes before its id, so that Redis never has an id without a
description (`DescribedFirst`, `KnownDescribed`); that the keys and rows a thread holds
are of described names (`KeysDescribed`, `Found`); and that SelectId is queued only
when the id is stored or on its way (`IdSent`).  With several threads "on its way" may be
on another connection, which is where the hypothesis comes in.

*What Redis ends up with.*  Three invariants on top of `IInv`.  `IdsInv`: a cookie's id
is its name's hash in the game thread, on every connection, in every result and in Redis,
with any number of threads.  `StoredInv`: for each player and cookie the value last
queued for storage is the last of its key on the way there: the last such query in
`queryQueue`, or, when there is none, the last such `SET` on the connection, or what is
stored (`Latest`).  One thread moves queries from the one to the other in order, and
Redis executes the commands of one connection in order.  `ListedInv`: once a thread has a
cookie's id, the cookie is listed or its `SADD` is on the way, and so is the id's `SET`.
The script removes a name that has no id: on one connection it runs after the `SET`,
since both were sent before the thread took the next query; on another it may
run between `SADD` and `SET`, which is why `ListedWhenQuiet` needs one thread.

*What a load finds* (`LoadSeesStored`).  `LoadInv` follows a load that still has a
player waiting for it (`Live`) from the query queue to the results.  Such a player is in
a slot and authorized, so nothing is saved for them: `SetAuthIdCookie` changes the slot
of a player it finds, and only the player's own departure saves, which ends the wait.
Hence what the player is known to have does not change until they are loaded, and no
save is queued behind the load (`LoadsQueued`); with one thread none is ahead of it once
it runs (`LoadsRunning`).  When the script or a `GET` is executed it is alone on the
connection, so that by `StoredInv` and `ListedInv` Redis has the values, listed under
their ids, which are known for good (`KeptKnown`, from `IdsAskedOnce`).  From then on the
thread has the values or has yet to read their keys (`Gathers`: by the script in one
reply, on the slow path key by key), and so has its result (`LoadsDone`).  The callback
then shows them, one row per cookie, to the player who asked.  Should the load of a
player who left come back late it is not `Live`, and its rows are dropped.

*The client.*  `IInv(once)` says where the commands are: their numbers increase from
the server over the wire and the batch to `m_commands` (`Increasing`, `ExecutedFirst`); a
batch never takes more than there is room for in `reqs` (`Batches`); the replies and
requests on the connection are those of the rest of the batch, in order, until the
connection is lost (`Owed`, `Connections`); and a command is answered once
(`Answers`).  The order and `Owed` together give the callback of a reply its own command,
which is the step of CommandPipe that matters.  `NoCommandDropped` adds `Kept`, that a
command without an answer is queued or held.  Over the client, `ThreadInv` says what the
thread's last answers were and so which dereference is safe; `DataInv` that on every
connection SELECT was obeyed, was sent before, or was refused, or AUTH was (`ReadyInv`);
and that KEYS is asked for after an error to the script, or on a connection that is
dead, where it stays in the queue and ends no load (`LoadInv`).

*WorkerShutdown.*  That no operation is left once a thread exited depends on the shape
of the queue: operations first, nullptrs after them, and as many of those queued or
taken as were sent (`NullsLast`).

*LightweightSemaphore.*  `PostsMatchWaiters` compares two cardinalities, the waiters
counted in `m_count` and the posts that are there or due, and is inductive with what
a call has taken at each of its steps (`CallInv`).  A permit of CountingSemaphore is one
of `m_count` plus the counted waiters', so counting oneself and being counted by a
signal are stutters, and the post is the step that hands a permit over.

*BlockingQueue.*  A consumer reads `dequeueOvercommit`, `dequeueOptimisticCount` and
`tailIndex` one after the other while others take, fail and give back.  `IInv` splits
`dequeueOptimisticCount` into what was dequeued, claimed, reserved and given back
(`CountersInv`), orders the reservations by the value each call got (`Ordered`), and says
of each call that all items claimed or reserved up to its own fit under `tailIndex`
or under the bound it is about to compare with (`Fits`).  A call that passes the
comparison therefore has its items, which is the step that `head <= tail`,
`PermitsAreItems` and the refinement of SharedFifo need.  `Total`, the sum of a function,
is the cardinality of a set of pairs, about which the library has theorems.
`LonePollFinds` adds that a queue polled by one thread has nothing claimed or reserved by
others, so `dequeueOptimisticCount` is exactly what was dequeued plus what was given back;
`PollInv` follows the call from the sum of the sizes (`Sums`) over the choice of a
producer (`Scores`) to the dequeue that cannot fail (`Dequeues`).

*FreeList.*  `PoolInv` has three parts.  `PoolCounts`: the count in `freeListRefs` is the
number of threads that hold a reference plus one for the list's own, two cardinalities that
each atomic access changes alike.  `PoolFlags`: a node whose bit is set belongs to
nobody, and somebody is adding it or still has a reference and will; whoever is in
`add_knowing_refcount_is_zero` is alone there; and the `freeListNext` that a thread has
read stays as it was while it holds the reference.  `PoolChain`: `next` is injective on
the listed nodes, and each but the head is the next of one with a smaller rank.  The
rank excludes a cycle, in which nodes could be listed and never be reached.
`ListIsExact` says that the nodes nobody has are the least set closed under head and
next, which is what following the list reaches.

*CookieRegistry and SelectData.*  `RegistryInv`: wherever an id is, in a cookie, a result,
an answer or on a connection, it is the one its name has in Redis or, while it has none
there, the name's hash (`Agreed`); so a SET that is lost, late or repeated changes nothing
that anybody knows.
`SelectInv`: of a registration that is under way the commands left are such that access
level and description are there before the id is (`Remaining`); then each reply the
load meets is of the type its getter wants, and the rows follow command by command.

### What is only model-checked

* Liveness (`EventuallyLoaded`, `ThreadsExit`, `CommandReturns`, `SleepersWake`,
  `EveryItemDequeued`): fairness and ENABLED are beyond the prover.
* `SettingsMenuInv` and `OwnItemsGo`: a plugin's texts are removed by a fold over its list
  (`FoldLeft`) and the rest compared with `SelectSeq`; both are recursive functions of the
  libraries, and what they compute takes induction over data.
* `ProducerHashInv`, `ProducerBlocksInv`, `DestructorIsExact` and `ProducerIsFifo`: indexes
  that wrap around and probes modulo a capacity; arithmetic modulo a constant that is no
  numeral is hard for the SMT solver.  `BlockingQueue`, whose theorems are about the same
  queue one level up, takes these for what they promise.

## Known not to hold

Behaviour the models reach, for which no failing run is kept:

* **Lost connections leave operations hanging.**  After an error the io thread
  stops without answering what is left in `m_commands`, and `Commit` signals nobody
  (`client.cpp:60-63,165`), although `client.h:42` has the callback told of failure: the
  `get()` of a later command of the same operation never returns, and its query
  thread is lost.  `CommandReturns` therefore excepts a lost connection.
* **Null replies are dereferenced** after a loss: in `connectDb`
  (`extension.cpp:133`), InsertCookie, SelectId and the slow path (`query.cpp:148, 219,
  241, 280`).  `CrashesOnlyAfterLoss` says that there is no other way to it.
* **A reply of another type throws** with every connection up: a nil or an error where
  `GetString` wants a string, in SelectId (`query.cpp:285`) and for a description on the
  slow path (`query.cpp:252`), ends the server.
* **A refused AUTH** (an empty password, `extension.cpp:131-139`) leaves
  `connectDb` without SELECT and SCRIPT LOAD, and the reply to **SELECT** is never read
  (`extension.cpp:137`): after either, operations run in database 0.  `SelectedFirst`
  says that nothing else leads there.
* **An empty load that is none**: when Redis refused the script, an error to KEYS or a
  connection lost under it ends the load without rows and with success
  (`query.cpp:211`).  `LoadsAreReal` says that nothing else does.
* **The client's cache**: without a pipe timeout a second round of
  `wait_dequeue_bulk_timed` overwrites the commands of the first (`client.cpp:81`);
  with one, a flag set by `Commit` before the batch's end is cleared with it
  (`client.cpp:89,165`).  The extension uses neither.
* **Names of 30 characters and more** are stored under the whole name and compared
  by their first 29 (`cookie.h:102`, `cookie.cpp:94`): they are never found again, and every
  registration makes another cookie.
* **Menu items with the same text**: the plugin that goes takes the first one, which
  may be another plugin's (`cookie.cpp:295`).  `OwnItemsGo` is about the other items.
* **A submenu open while its plugin goes** reads the deleted `AutoMenuData`
  (`menus.cpp:126`).

## Abstractions

In CookieManager and QueryPipeline: names shorter than `MAX_NAME_LENGTH` with
distinct hashes; one value per write, told apart by writer and version; no key
expiry (two weeks, longer than a session); the connection is up.  A plugin writes
a value meant for the player in the slot.  Elsewhere: `QueryThread` tells
operations apart by type only; a load is one step in `SelectData`;
`CookieRegistry` has of an InsertCookie's commands the GET and the SET of the id, and
Redis obeys both; a wait with a timeout takes what is there or times out at once in
`AsyncClient`.  Atomics are sequentially consistent, spin loops are any number of
rounds, and allocation fails at most as often as its bound says.

## Not modelled, and what is left

Not modelled: explicit producers, tokens, `enqueue_bulk`, move and swap of the
vendored queue, which nothing here uses; weak memory orders, which a model of
interleavings cannot show; handles, cookie iterators, timestamps and the access
level check of the natives (no state of their own that others see); descriptions, which
`CreateCookie` rewrites while InsertCookie may be copying them (`cookie.cpp:81`,
`query.cpp:143`), so that Redis may get a text that no plugin gave; the
configuration and the benchmark plugin; hiredis and the Windows interop (I/O).

Left for later: the invariant of `ProducerHash` without wrapping indexes; an abstract
preference store that one query thread implements.
