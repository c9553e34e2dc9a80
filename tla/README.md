# nft-torrent: TLA+ models, model checking and proofs

NFTorrent serves a collection of TON NFTs whose content lives in IPFS. One Python
process per instance runs an asyncio event loop with

- a pool of liteserver worker *processes* that read the chain,
- an indexer that copies the collection into PostgreSQL,
- a processor of scheduled NFT tasks (renewal warnings and notifications),
- an IPFS manager that uploads, confirms, pins and unpins content,
- a web API, and a Telegram bot that talks to it.

Several instances may run side by side on one database and one etcd. This directory
models the parts of `src/NFTorrent` whose correctness depends on the order of events.
`PROJECT.json` maps every definition to the source lines it stands for and lists the
hazards, runs, mutants and theorems.

## 1. Inventory

| Component | State | Operations | Hard because |
|---|---|---|---|
| **Keyed lock** `locks.py` | `lock_index`: key → `asyncio.Lock`; a reference count on the lock object | `async with OperationLock(key, index, wait)` | entries are created and deleted while tasks queue; a task may be cancelled while queued, also just after it was woken |
| **Worker supervision** `tonlib/manager.py` | `WorkerControl`: `is_alive`, `is_enabled`, start time, retry window and count | `check_children_alive`, `spawn_worker`, `terminate_worker`, `worker_control` | processes die at any time, a respawn may raise in the middle of a pass, windows expire |
| **Block consensus** `tonlib/manager.py` | `last_block`, `is_sync` per worker, `consensus_block` | `check_working`, `LAST_BLOCK_UPDATE`, `select_worker` | dead workers keep voting; respawns between report and round; quorum arithmetic |
| **Request dispatch** `tonlib/manager.py`, `worker.py` | futures and `pending_tasks` per worker, two queues per worker process | `dispatch_request(_to_worker)`, `dispatch_archival_request`, `read_results`, `main_loop`, `process_task` | answers, timeouts, cancellations, deaths and respawns race; queues are replaced while a put is under way |
| **Worker process** `tonlib/worker.py` | exit event, sync deadline, keystore on disk | `sync_initial`, `sync_verify`, `report_sync`, `main_loop`, `report_archival`, `shutdown` | the first task that ends, ends the process; a silent liteserver, a bad keystore |
| **NFT task queue** `indexer/indexdb.py`, `dbmodels.py` | tables `nft_task_queue`, `pet_memory_nft`; a batch per processor | `nft_task_processor`, `sync_nft_task_get`, `nft_update`, `_nft_update`, `bulk_update`, `nft_update_nft_data` | claim and completion are two transactions; instances, indexer and web server write the same rows; every task must create its successor |
| **Collection indexer, cluster lock** `indexer/indexdb.py` | etcd lease and lock, collection index in the database | `EtcdPoolLock`, `nft_indexer`, `_nft_indexer_cycle`, `bot_polling` | the lease may expire while the bulk insert runs in a thread |
| **User queue** `indexer/indexdb.py` | `asyncio.Queue` of 10000, table of users | `register_tg_user`, `process_tg_queue`, upsert, `shutdown` | queue full, join without `task_done`; lookup by one of two keys, by several instances |
| **Bot polling** `indexer/indexdb.py` | etcd lease and lock of the bot, `start_polling` and `refresh_loop` | `bot_polling`, `shutdown` | one poller among several instances, by timing alone; the lease is renewed late, calls are slow, polling takes time to stop |
| **IPFS content** `ipfs/manager.py`, `webserver.py` | pins in several clusters, content pending confirmation | `create_content`, `confirm_content`, `cid_pin`, `cid_unpin`, `nft_unlink`, `sync_nft_data` | the chain decides, through caches and polling; CIDs are shared |
| **Rate limits** `ratelimit.py` | next start time, a lock and a semaphore (`UniformRateLimit`); a token bucket that nothing uses | `acquire`, `release` | cancellation between acquire and release |
| **NFT reads** `tonlib/manager.py`, `cache.py`, `webserver.py` | the entries of `get_nft_data` and `raw_run_method` | cached calls, `sync_nft_data` | one cache on top of the other; overlapping misses |
| **Node state** `ipfs/manager.py` | `node_state`, `node_state_time` | `check_ipfs_alive`, `get_node_state`, the guard of `create_content` | a cached count that decides; failing readings |
| **Bot inquiries** `bot/backend.py`, `bot/handlers/*` | inquiry rows, dialogue state | create, reply, close, block; lists by pages | several admins, a cache of 15 s |
| **Database queries**, **random feed** `indexer/indexdb.py` | none | listing, collection, feed | the feed samples the table by segments, in a loop |
| **Settings, authentication, statistics, parsing** | none that decides anything | | |

Interactions. Web handlers call the tonlib manager (futures, worker queues), the IPFS
manager (HTTP) and the database (threads). They take `OperationLock` on an NFT's
address for uploads and synchronisation. The tonlib manager's three background loops
share `WorkerControl` records with the request path; a coroutine runs undisturbed
between awaits, so these loops' passes are atomic and the interleavings are at the
awaits. Instances interact only through the database and etcd.

What makes each component correct:

- *Keyed lock*: one task per key in the block; nobody waits for ever; a refusal means
  that somebody is inside; the dictionary does not lose an entry in use.
- *Supervision*: a crashing worker is neither respawned without bound nor given up;
  one worker does not spoil the supervision of the others.
- *Consensus*: a selectable worker is at the consensus block with its present process;
  the consensus block is what a quorum knows; workers that live serve.
- *Dispatch*: a request ends once, with its own answer, and its future and counter go
  with it; no respawn leaves a request waiting for a dead process.
- *NFT tasks*: while an NFT is not due, exactly one chain of due-date tasks exists for
  it; owners are warned, and not too often; rows are stuck only after an error.
- *Indexer*: no NFT is forgotten; the index does not fall behind the rows, and catches
  up with the chain.
- *IPFS*: only content that the chain names or has named is pinned; confirmed content
  is unpinned only when nothing refers to it; uploads are accepted by a recent state
  of the cluster.
- *NFT reads*: what a synchronisation stores has been on the chain recently.
- *Worker process*: it ends in time when its liteserver is silent or when it is told
  to, and leaves no keystore behind that one of its requests found bad.
- *Rate limits*: calls are an interval apart; no permit gets lost unaccounted.
- *User queue*: an accepted user gets into the table, and not too late; one row per
  owner.
- *Bot polling*: one instance at a time, and always some instance.
- *Random feed*: it is answered, with distinct rows, as many as there are.
- *Inquiries*: one open inquiry per user; who closes one is told the truth.

## 2. Modules

| Module | Models | Composes / is composed |
|---|---|---|
| `KeyMutex` | abstract: one mutex per key | implemented by `OperationLock` |
| `OperationLock`, `MCOperationLock`, `OperationLockProofs` | `locks.py` | |
| `Supervisor` | `check_children_alive`, `spawn_worker` | its outcome (deaths, respawns, failed respawns at any time) is what `Consensus` and `Dispatch` assume |
| `Consensus` | `check_working`, reports, selection | |
| `MCManager`, `ManagerProofs` | | the last two, one per behaviour (`subject`): the other stays as it is initially |
| `RemoteCall` | abstract: a request ends once, results are computed for it | implemented by `Dispatch` |
| `Dispatch`, `MCDispatch`, `DispatchProofs` | the request path and the worker's queues | |
| `NftTasks`, `MCNftTasks`, `NftTasksProofs` | the task table, processors, indexer insert, synchronisation | the indexer is one atomic insert here |
| `Indexer`, `MCIndexer`, `IndexerProofs` | the cluster lock and the indexer's cycles | how that insert comes about |
| `IpfsPins`, `MCIpfsPins`, `IpfsPinsProofs` | uploads, confirmations and synchronisations against chain, database and cluster | its locks are those of `OperationLock`, reduced to "somebody is inside" |
| `Inquiry`, `MCInquiry`, `InquiryProofs` | the form, the dialogues and the rows of inquiries | |
| `RateLimit` | `UniformRateLimit` and the calls under it | the way to the public API that `Dispatch` takes as a request in "public" |
| `WorkerProcess` | the life of a worker's process | the process whose deaths `Supervisor`, `Consensus` and `Dispatch` assume |
| `UserQueue` | Telegram users: queue, bulk upsert, shutdown | |
| `RandomFeed` | the climb of the random feed | |
| `BotPolling` | the bot's lock and who polls | the lock's use in `Indexer`, with time |
| `NftReads` | the two caches of an NFT's data and `sync_nft_data`'s sleep | the outdated reads of `IpfsPins`, with time |
| `NodeState` | the cached state of the IPFS cluster | the guard in front of `IpfsPins`' uploads |
| `MCServices`, `ServicesProofs` | | the last seven, one per behaviour, in one run; the proofs are of all of them but `RandomFeed` |

`Supervisor` says when a dead worker is respawned. `Consensus` and `Dispatch` contain
a respawn of their own that may happen whenever the worker is dead and known to be
dead, which is weaker than any schedule of `Supervisor`: their safety results hold
under every supervision policy, and they use of `Supervisor` only `BroughtBack`, as
fairness of `Respawn` in `Dispatch`.

The seven parts of `MCServices` share no state in the code. The variable `service`,
fixed initially, names the part that a behaviour is about, and the other parts keep
their initial states, so that the state spaces add up where a product would be out of
reach. Nothing is lost by it: no action of one part reads a variable of another.
`RateLimit` is extended, since TLC evaluates assumptions of extended modules only; the
others are instances, two of them with renamed variables, and their assumptions are
stated in `MCServices` (`AgesAssumption`, `TimeoutsAssumption`, `BulkAssumption`,
`LeaseAssumption`).

### Correspondence

**OperationLock.** `lock_index`, `ref_count`, `locked`, `waiters` are the dictionary,
the counter attribute and `asyncio.Lock`'s two fields; `pc`, `key` and `lock` are the
task's position in `__aenter__`/`__aexit__` and its local object. `EnterNew`,
`EnterRefused`, `EnterExisting` are the branches of `__aenter__` up to its only await;
`Resume`, `Cancel`, `Abort` what may happen at that await; `Exit` is `__aexit__`, with
the lock's `Release` in it.
`asyncio.Lock` is external: FIFO of futures, `release` completes the first one, the
woken task takes the flag when it runs. `abandoned` is a history variable: a cancelled
acquisition never gives its reference back, so the counter stays too high, the entry
is never deleted again, and the dictionary grows by one key (`RefCountExact` says by
how much).

**Supervisor.** `wctl[w]` holds the fields of `WorkerControl` the pass uses, with
times kept as time left. `CheckChildrenAlive` is one pass of the loop, in index order;
an exception ends it, so `Reached` is the set of workers up to the first one that
raises. Two things raise: `restart_retry_count -= 1` on `None` (`manager.py:476`) when
a death was never noticed as one, and `Process.start`. `Fragile` is the set of workers
whose process may exit before the `is_alive()` after `start()`, or fail to start.

**Consensus.** `last_block`, `is_alive`, `is_sync`, `consensus_block` are the
manager's. A round of `check_working` is `CheckWorking`; `Report` is
`LAST_BLOCK_UPDATE`: any block of the chain, also one below the last, and also one
that a process left on its queue when it died ("dead"; what a queue holds is not
counted, so a dead process may leave any number of reports). `Respawn` and
`RespawnFails` are `spawn_worker` with and without the assignments after `start()`,
which makes a worker "unborn": there is no queue to read. `Suitable`, `Enough` and
`ConsensusSeqno` are the sums over the four newest blocks. The chain never stops. A
block is a place counted from its end: `Grow` moves every block down by one, and place
0 stands for all blocks that have left the scale.

**Dispatch.** `futures`, `pending_tasks`, `is_alive` are `WorkerControl`'s; `inbox`,
`running`, `outbox` are the two queues and the process's tasks. A request is `sending`
while a thread puts it on the queue, `waiting` in `wait_for`. `Register` is
`dispatch_request_to_worker` up to its first await, `Leave` its `finally` together
with the caller's handler (`TonlibError`: a second attempt, by
`dispatch_archival_request`). `queue_open` says that the put goes to a queue of the
worker's present process. A request in `PublicRequest` is of a kind that the public
API answers too: without a worker it goes to "public" (`NoWorker`) and ends there
(`PublicEnds`); after a failed attempt at a worker the public API is not asked.

**NftTasks.** `queue` and `db` are the tables, `batch[p]` the local state of an
instance's `nft_task_processor` between its awaits: `Fetch` (claim and read),
`UpdateNft` (one turn of `nft_update`), `ProcessTask` (one task of the batch), `Write`
(the completing transaction), `Fail` (an exception or the end of the instance).
`SyncRead`/`SyncWrite` are the two halves of `nft_update_nft_data`, which stores an NFT
with an `error_code` again even if nothing has changed, and its task with it; `Index`
is the indexer's insert.

**Indexer.** `index` and `rows` are the two tables, `holder` the instance whose lease
keeps the lock's key in etcd, `cycle[i]` what `_nft_indexer_cycle` of an instance has
in hand: `data.instance.index`, `next_index` and `bulk`. `pc` is where the cycle's
task stands: `RefreshCollection`, `NextIndex`, one `Fetch` or `PassOver` per turn of
the loop, `StartInsert` and `Commit`. `Acquire` and `Release` are the lock's context
manager; `Expire` and `Interrupt` what happens when the refresh comes too late or
fails. The insert runs in a thread that a cancellation does not stop: `Interrupt`
moves it to `late[i]`, from where `LateEnd` commits it or rolls it back at any later
time. `Orphan` is a cancellation inside `__aenter__`, after which nobody releases the
lock. `skipped` is a history variable: the NFTs whose request failed.

**IpfsPins.** `chain[n]` is the content the NFT's contract names, `cached[n]` what a
read through the caches of the tonlib manager may return, `stored[n]` the images the
database row has had (`nft_get` is cached, so it may return any of them), `pins` the
cluster with the metadata of each pin, `owners` the NFTs a cached status may name.
`job[j]` is a coroutine of an instance at an await, with its local variables: `adding`
and `repinning` are `create_content` (453-495), `created` to `unpinning` the task
`confirm_content`, `reading` to `storing` `sync_nft_data` with `nft_update_nft_data`
and `nft_unlink`. `Abort` ends a coroutine anywhere: an exception, a cancellation, the
timeout of the confirmation, the end of the instance. Three reads are looser than the
code: the ages of caches are not measured, the pin's expiry may or may not call for a
confirmation, and an old status may be as old as it likes.

**Inquiry.** `form[p]` is the `FSMContext` of a user or an admin: the state, the keys
of the data the handlers use, and whether a Submit button for the present id has been
sent; `rows` is `user_inquiry`, `job[h]` an event being handled, at an await, with its
local variables. aiogram handles the events of one chat concurrently, and
`MemoryStorage` is used without event isolation (`indexdb.py:239`), so a handler's
reads and writes of the form are separate steps with those of other handlers in
between. `readable[x]` holds the statuses `x` has had: `inquiry_get` is cached for 15
s, and a block ends by itself, so a handler may see any of them. An id without a row
that no form and no handler holds stands for a new random one (`Fresh`); an old button
fits no form's data. `Abort` ends a handler at an await with an exception, `Restart`
empties `MemoryStorage`. Screenshots and the text of messages are left out.

**RateLimit.** `permits` and `pending` are the value and the waiters of `_pending`,
`line` the tasks in front of `_lock`, `delay` what is left until `_delay_until`, `nap`
the sleep under the lock. `Ask` begins a request, with three calls for
`update_init_block`; `TakePermit`, `EnterLock` and `WakeUp` are the three parts of
`acquire`, `EndCall` is `release` and what follows, `CancelCall` a cancellation at any
await. `lost` counts the permits of tasks that are cancelled inside `acquire`, for
which `__aexit__` never runs.

**WorkerProcess.** `phase` is where `run` stands: the first synchronisation, its
verification, the three tasks, and the way out ("completed", "closing"). `deadline` is
`sync_mtimeout`, `wait` what is left of a request or of the sleep between two, `poll`
the wait of `main_loop` for its queue. `Turn` is one turn of the phase's loop, in
which a deadline is looked at only after a failed request; `Report` is a successful
`report_sync`, which moves the deadline; `Finish` and `Exit` are the end of `run` with
the removal of the keystore. A keystore is "bad" when `process_task` has met
`BlockDeleted`, which counts it, and "suspect" when only `sync_verify`, `report_sync`
or `report_archival` have, which handle it like every `TonlibException` (`Swallowed`).
The manager's `exit_event` is set by `Terminate`; `Kill` is any other end.
`keystore_remove_on_fail` is a constant; `keystore_recreate`, which only a test sets,
is left out.

**UserQueue.** `queue` and `unfinished` are `asyncio.Queue`'s items and its count of
unfinished tasks. `TakeBulk` is `process_tg_queue` up to the thread, `LookUp` one
query of the upsert, `Commit` and `Fail` the end of its transaction; what another
instance has added and not committed is invisible. `Shutdown`, `StopIndexers`,
`StopTasks` and `StopManagers` are `Server.shutdown` with `IndexDb.shutdown`: up to
`join()`, through the cancelled indexers, through the other cancelled tasks, and to the
end. None of these waits need end: `join()` waits for a count that nothing brings down,
and an indexer or `nft_task_processor` cancelled in a request to a worker takes the
cancellation for `TonlibNoResponse` (`manager.py:554`) and may go on.

**RandomFeed.** The local variables of `sync_collection_random_feed` under their
names, `Climb` one turn of its loop. What matters of `n` once it is not an integer is
that it is neither odd nor even: one value `Fraction` stands for all of them. The rows
of a query are any of those in the segment, as the sampling is random.

**BotPolling.** `place[i]` is where `bot_polling` stands, from the sleep of the outer
loop through `EtcdPoolLock.__aenter__`, the polling itself, and the wait for its two
children to `__aexit__`; `refresh[i]` is the state of `refresh_loop`. `lease[i]` is
what is left of the key in etcd. `StopsChildren` is what follows `asyncio.wait`,
`Cancel` a cancellation at any await, `Orphan` a cancelled `__aenter__` whose thread
still asks for the lock.

**NftReads.** A task is a page or the one synchronisation the operation lock lets in.
`GetNftData` looks into the two caches; `ReadChain` is the moment a worker reads,
`Answer` and `Verified` fill the caches; the reads of others that overlap overwrite
each other's entries. Ages are exact up to the bound.

**NodeState.** `Check` is a turn of `check_ipfs_alive`, `Count`, `Read` and
`ReadFails` the calls of `get_node_state`; `since` is the time since
`node_state_time`, which is taken *before* the calls (`spent`). `CreateContent` is the
guard in front of an upload.

## 3. Runs

| Run | Instance | Shows |
|---|---|---|
| `OperationLock` | 3 tasks, 2 keys, 3 lock objects, 2 cancelled acquisitions per lock object | exclusion, exact counters, progress, refusal only while the key is held; implements `KeyMutex` |
| `Manager` | supervision: 2 workers, the second fragile; retry window 4, 1 retry, restart timeout 1. Consensus: 2 workers, the newest 7 places of an endless chain | `RestartBudget` (2 · RetryCount + 1 respawns in a window's length), who may be wedged, who is brought back; living workers serve |
| `Consensus` | 3 workers, the newest 5 places of an endless chain | who is selectable, when the consensus block moves |
| `Consensus_comment` | the instance of `Consensus` | **violation** of the comment "at least 60% of ls know it" (`manager.py:394`) |
| `Dispatch` | 2 workers, 2 requests, one of a kind the public API answers, 2 deaths, all kinds of answers | no leak, no orphan, implements `RemoteCall`, every request ends |
| `NftTasks_safety` | 1 NFT, 2 processors, times 0..3, one extension, one failure, one synchronisation that stores | due-date tasks neither lost nor multiplied, stuck rows only after an error |
| `NftTasks_live` | 1 NFT, 1 processor, times 0..4, one extension, one failure, one synchronisation that stores | owners are warned |
| `NftTasks_frequent` | 1 NFT, 1 processor, no extension, failure or synchronisation | **violation** of the guard "frequent due date notification" (`indexdb.py:388`) |
| `Indexer` | 2 instances, 3 NFTs, bulks of 2, one lost lock, one failure | no NFT is forgotten, the index is not behind the rows, every NFT is reached |
| `IpfsPins` | 2 NFTs, 2 contents, 2 instances, 2 coroutines at a time, one change on the chain | only named contents are pinned; a confirmed content stays pinned but for three reasons |
| `Services` | seven parts, see below | permits and spacing of calls, the end of a worker and its keystore, users kept and served, the feed, one poller, recent data, recent state of the cluster |
| `Inquiry` | 1 user, 1 admin, 2 inquiries, 2 handlers at a time | one open inquiry per user, an inquiry is closed once and told so by who closed it, when a form loses its id |

What the parts of `Services` are tried with, and what holds:

| Part | Instance | Properties |
|---|---|---|
| `RateLimit` | 3 tasks, interval 2, 2 permits | `PermitsAccounted`: a permit is free, with a call on its way, or lost by a cancellation inside `acquire`. `StartsSpaced`: calls start an interval apart, and an interval after another's end unless asleep by then |
| `WorkerProcess` | timeouts 4 (synchronisation), 3 (verification), 2 (request) | `StopsInTime`: a silent liteserver or an exit event ends the process within the stated time. `BadKeystoreRemoved`: the next process does not get a keystore on which `process_task` met `BlockDeleted` |
| `UserQueue` | 2 instances, 2 owners (one with 2 users), queue of 3, bulks of 2, 3 registrations | `UsersKept`, `SecondRowOnlyByRace`, and `UsersServed`: nobody stays on the way for ever |
| `RandomFeed` | feeds of 1, all tables of up to 9 ids with up to 3 matching rows | `FeedAnswered`: the climb ends, with a complete answer, exactly from the segments `MustEnd` names |
| `BotPolling` | 2 instances, TTL 12, calls of up to 1, stop at once, pause 1 | `OnePoller`, `PollingResumes` |
| `NftReads` | 2 tasks, caches of 3, requests of 1, sleep of 2 | `StoredIsRecent` |
| `NodeState` | cache 6, check 2, answers within 2 | `AcceptedOnRecentCount` |

Type invariants (`TypeOK` of each module) hold on the same instances. They are proved
where a module has proofs, and are no properties of the runs, whose properties are
those that say something about the code. The same goes for `EntryWhileInUse` of
`OperationLock`, which is proved.

Each property of a passing run has a mutant in `PROJECT.json`: an operator marked
*Slip* in the module that is a plausible mistake in the mapped lines and that TLC
finds to violate the property.

Bounds, and why they are enough:

- *OperationLock.* Three tasks are a holder, a waiter and a newcomer, the smallest
  crowd in which an entry can be deleted under somebody who has looked it up. Three lock objects are
  one more than the two entries. `MaxAbandon = 2` cancels both of a holder's waiters.
  The proofs cover all sizes.
- *Supervisor.* The window is longer than the restart timeout, so that retries run out
  inside it; with one retry and a window of four the budget of three respawns is
  reached. Time is not bounded: times are kept as time left.
- *Consensus.* Three workers: two are 60 %, one is not. `MaxSeqno` is the newest
  place; a chain without end has states without number, so blocks below place 1 are
  told apart no more. Nothing depends on their order: `Grow` needs a consensus block
  above 3, so that whoever is moved out at 0 is behind the consensus block, and no
  round that raises it counts a report at 0 among those within three blocks. The chain
  may thus be up to `MaxSeqno - 3` blocks ahead of the consensus block. Liveness is
  checked (in `Manager`) with two workers, of which a dead one that is ahead outvotes one that has
  not reported; three workers are beyond the time of a run with liveness.
  `SelectableIsCurrent` and `QuorumKnows` are proved for every bound and any workers.
- *Dispatch.* Two requests meet at one worker or not, and each has two attempts; two
  deaths kill a worker and its successor, or both workers.
- *NftTasks.* Two instances contend for a row; the clock passes warning, expiry and
  due time. The table is large enough in every reachable state for the actions'
  `Fits`. `MaxSync` bounds the synchronisations that store. `MaxTime` ends time: the
  system then stops, which is why these runs do not check deadlock.
- *Indexer*: three NFTs and bulks of two make a full bulk, a partial one and two
  cycles. One lost lock leaves one late insert, which meets the other instance's
  cycles and those of its own instance. The proofs cover all bounds.
- *IpfsPins*: two contents let an NFT change once and share with the other NFT; two
  coroutines are two confirmations, a confirmation and a synchronisation, or one with
  its successor, in one instance or in two. The proofs cover any number of NFTs,
  contents, coroutines and changes.
- *Services*: three callers are one that calls, one that sleeps under the lock and one
  that waits for a permit, or two that hold the permits and one that waits. The
  worker's timeouts differ from each other, as the code's do, and the first one leaves
  room for a retry. Three registrations meet in one bulk or two, of one instance or
  both. A segment of the feed has two ids, so that tables of nine have five segments
  and three levels; of the climbs that never end the first `Reach` ids are followed.
  Two replicas are the poller and its successor, and the times are the smallest that
  keep the lease's margin (see below). Two readers overlap in the caches, a third one
  could not make an entry older than two requests. The safety properties of all parts
  are also proved, for every bound.
- *Inquiry*: two handlers are a step of the form and what overtakes it, two
  submissions, or two closings, of the user and an admin or of one of them twice. Two
  inquiries are an old one and its successor; the last one stays open (`Bounded`), as
  behaviours with both closed repeat those with one.

Fairness. *OperationLock*: the event loop runs ready tasks and the blocks end (their
calls and polls have timeouts); nobody has to enter. *Supervisor*: the pass runs and
the clock goes on. *Consensus*: the loops run, and a live worker that is behind the consensus block, or
has not reported, reports a block that is not behind (`CatchUp`: its liteserver does
not stay behind the others for ever); the chain need not grow, and may always. *Dispatch*: ready coroutines run, a process works off its tasks, the reader
reads, dead workers come back (`BroughtBack`, for workers that are not behind a
fragile one); **no** fairness of timeouts. *NftTasks*: processors, started
synchronisations and the clock go on; nobody has to synchronise or extend, and
failures are free to happen. *Indexer*: the cycle's steps run, threads end, the lease
of an instance that does not refresh it expires, and an instance that asks again and
again gets the collection's present index now and then (the cache expires, a
liteserver in sync answers): strong fairness of `NextIndex(i, next_item_index)`; no
fairness of `Mint`. *UserQueue*: the database is there in the end,
`event_processor` takes its turns and threads end; no step of a shutdown, and no
registration, need ever come. *RandomFeed*: the
loop's thread runs. *BotPolling*: coroutines run, unanswered calls fail, time passes,
and etcd, asked again and again, grants the lock and delivers the answer now and then
(strong fairness of `Acquire` and `BeginPolling`); nobody has to die, be shut down or
fail. *IpfsPins*, *Inquiry* and the other parts of *Services* have safety properties
only.

## 4. Findings

1. **The consensus block may be known to one worker only** (`Consensus_comment`,
   `manager.py:396`). The 60 % are taken of the workers within three blocks of the
   best report. A worker that runs ahead of all others by more than three blocks is
   100 % of them. `QuorumKnows` states what does hold: the comment is right while no
   reporting worker is further behind than three blocks.
2. **The guard against frequent notifications does not work** (`NftTasks_frequent`,
   `indexdb.py:416`). `last_notified` is set on a copy that is stored only if the NFT
   itself changed (805-807), and when the stamp is stored it comes back without a time
   zone and the comparison at 390 raises `TypeError`, which abandons the batch
   (`ProcessTask`, first branch). Between the warning and the due time the next
   due-date task lies in the past at once (679-689), so every cycle of the processor
   notifies again.

Observations that the models contain as they are, or that are outside them:

- `manager.py:476`: `None -= 1` raises in every pass for a worker that exited before
  its first `is_alive()`. The workers after it are never supervised again.
- `locks.py:25`: a cancelled acquisition leaks its dictionary entry.
- `indexdb.py:813`: an NFT gone from the chain has no `_nft_image_updated`; the
  `AttributeError` abandons the whole batch (part of `Fail`).
- `indexdb.py:1024`: rows claimed by a batch that failed stay with `task_time` NULL
  and are never claimed again (`StuckOnlyAfterError` says that only a failure does
  this).
- `manager.py:674`: a missing `await` returns a coroutine from the fallback.
- `ratelimit.py:31`: a call cancelled inside `acquire` keeps its permit
  (`PermitsAccounted` counts it as lost). With the default `toncenter_rate_limit` of 1
  there is one permit: after one such cancellation every later call to the public API
  waits for ever.
- `manager.py:169`: `update_liteserver_config` is started without a public API too,
  and then fails in every turn.
- `settings.py:292`: `TONLIB_SYNC_TIMEOUT` is assigned to `request_timeout`; the
  synchronisation's timeout cannot be configured, and the request's is overwritten.
- `indexdb.py:603`: `shutdown` joins a queue whose consumers never call `task_done`:
  once a user has been put on the queue, the server does not stop by itself
  (`StopIndexers` is never enabled), and its tasks are never cancelled. `stop_polling` has
  ended the bot's polling by then, but `bot_polling` itself is not cancelled and
  starts polling again after its pause, as a server that is shutting down.
- `manager.py:553`: `TonlibNoResponse` is what becomes of a cancellation of the caller,
  too. A loop of the indexer that is cancelled in a request handles it and goes on, and
  `shutdown` (607, 611) waits for it.
- `worker.py:208`, `235`, `288`: `BlockDeleted` outside `process_task` is logged like
  any exception of tonlib; the keystore then stays, unless the first phases fail.
- `indexdb.py:969`: Python's `and` of two column expressions is the first one, as a
  comparison with a value is false: a user is looked up by the owner alone, the second
  user of an owner is passed over, and two rows of an owner, which two instances can
  make, let every later bulk with that owner fail.
- `indexdb.py:1189`: halving with `/` makes a fraction of an odd segment number, which
  is never odd again: the climb then only grows to the right. With too few rows above
  its low end it never covers the table, and its thread runs until the database
  refuses the numbers (`MustEnd`).
- `indexdb.py:1178`: the last row of the table is missing from the feed if its id is
  where the last segment ends (`Complete`).
- `indexdb.py:157`: the margin of the bot's lease is a quarter of what etcd reports
  less the calls on the way. With 60 s and calls of up to 5 s that is 12.5 s, of which
  two calls may use 10: `start_polling` has 2.5 s to stop (`LeaseAssumption`). TLC
  finds two pollers as soon as the inequality fails.
- `indexdb.py:520`: a cancellation while `bot_polling` waits for its children lets it
  release the lock before `start_polling` has ended (`cut`).
- `indexdb.py:503`: whether the *refresh* was cancelled is asked of `pooling`.
- `indexdb.py:267`: the first `check_dbstats` task is overwritten and never cancelled.
- `ipfs/manager.py:331`: a node state that cannot be read again is kept, and trusted,
  for ever; before the first one succeeded `create_content` raises `TypeError` (462).
  All entries of the cluster's answer are counted as peers, valid or not.
- `indexdb.py:878`: a bulk insert whose cycle was cancelled can commit after another
  instance has moved the index further. If that instance passed over the NFTs of the
  late bulk, nothing in the database objects: the late commit sets the index back
  behind rows that exist, and from then on every bulk violates `collection_index_uk`
  and the indexer stands still. `IndexNotBehind` says that it takes both, a lost lock
  and a passed-over NFT; `CatchesUp` excludes that state.
- `indexdb.py:875`: NFTs that are passed over are never asked for again once a later
  NFT of their bulk is stored, also when the request failed for want of a worker in
  sync.
- `ipfs/manager.py:315`: `confirm_content` unpins the content read before the upload
  without asking whose pin it is. `nft_unlink` (511) does ask. If another NFT shares
  the content, or the owner has returned to it, a content the chain names loses its
  pin: these are the exceptions `ConfirmedStaysPinned` names.
- `webserver.py:362`: the synchronisation waits 3 s "for cache expiration", but
  `raw_run_method` and `get_nft_data` are cached for 5 s each
  (`tonlib/manager.py:189-192`), one inside the other. An outdated read that makes the
  synchronisation unlink the present content is the third exception. `StoredIsRecent`
  gives the exact age, reached by an overlap of readers: two lives of an entry and two
  requests, which is more than 10 s.
- `ipfs/manager.py:493`: the pin of a content that is on the chain already is made
  without the NFT's address. It replaces the metadata of an existing pin, and
  `nft_unlink` never removes it afterwards (`Anonymous`).
- `indexdb.py:760`: `cid` is unbound if the image has left IPFS; the synchronisation
  ends with `UnboundLocalError` and stores nothing (`LoadDb`).
- `ipfs/manager.py:194`: the pin's expiry is the *later* of the due time and now plus
  `max_pin_duration`.
- `bot/handlers/inquiry.py:446`: Cancel handled while a step of the form waits for
  Telegram clears the data, and the step then sets its state: a form without an id.
  Its next text raises `KeyError`, and `/inquiry` answers with a keyboard that cannot
  be built for the id `None`, although its text says 'If you want to start over press
  "Cancel"' (426). The user is stuck until a restart or a reply to an older inquiry.
  `FormHasDraft` says that nothing else leads there.
- `bot/handlers/inquiry.py:604`: a late end of a submission clears whatever the form
  holds by then; Cancel during a submission answers "cancelled", and the inquiry is
  created all the same.
- `bot/handlers/inquiry.py:192`, `341`: if closing fails, for instance because
  somebody else has closed the inquiry, the dialogue stays, and every later message is
  taken for the closing message until "Cancel reply" is pressed.
- `bot/handlers/inquiry.py:180`: a reply is sent for a closed inquiry too.
- `bot/handlers/inquiry.py:546`: "respond to it or close it before submitting a new
  one", but only closing allows a new one.
- `indexdb.py:647`: a synchronised NFT that is not in the database yet is not
  inserted, since `_nft_update` clears the flags set before.

## 5. Proofs

All theorems are about `Spec` without fairness, for every value of the constants that
satisfies the modules' assumptions.

**OperationLockProofs** (assumptions: `Task` finite, `NoLock`/`NoKey` not among the
locks and keys, `MaxAbandon` a natural number). None of the safety properties is
inductive. The invariant `IInv` adds: the dictionary keeps the lock of whoever uses it
(`UseInv`) and gives different keys different locks (`OneKeyInv`); a queue holds
exactly the tasks that wait for the lock, each once (`QueueInv`); only the head of a
queue can have been woken, and then only while the lock is free (`HeadInv`); a locked
lock has exactly one holder (`HolderInv`); the cancelled acquisitions are counted
(`CancelInv`). The step for `Exit` needs a counting argument (`LastUser`): if the
decrement leaves zero, the leaving task was the only user. From `IInv` follow
`TypeOK`, `EntryWhileInUse`, `MutualExclusion`, `RefCountExact` and
`RefusedOnlyWhenHeld` (a lock that is locked has a holder, and it is the key's), and,
one lemma for the steps, the refinement `Spec => Mutex!Spec`. What `asyncio.Lock`
guarantees by itself, that no wake-up is lost and that a queue is served in order, is
part of the model of that lock (`HeadInv`, `QueueInv`) and is not claimed of this code.

**ManagerProofs** (assumptions: counts and timeouts are natural numbers, at least
one retry and a positive restart timeout, `Fragile` a set of workers, `None` not an
integer; `Liteserver`, the workers of `Consensus`, finite and `MaxSeqno` a natural
number). The theorems on `Supervisor` are about its `Spec`, those on `Consensus` about
the instance's, `Blocks!Spec`. Supervision: `KnownDead`:
a sturdy worker that the manager believes dead has a retry window; `Paired`: the
window's end and count are set together. They give `WedgedOnlyIfFragile` for any
number of workers and any timeouts. For `RestartBudget` the respawns of the last
`RetryTimeout` are divided into those from before the open window, of which there are
at most `RetryCount + 1`, and those it has paid for (`Within`): when the window
expires, none from before it is recent any more, and its own, with the one that closes
it, are at most `RetryCount + 1` again. Consensus: `OwnBlock`: a block of a worker
that runs, or that the manager believes alive, was reported by the present process;
`AliveKnown`: the manager never takes a running process for dead, so that a respawn
replaces a dead one. They give `SelectableIsCurrent`, a property of steps: a worker
gets into service by a round only. The quorum result `QuorumKnows` needs that a maximum of
the reports exists (`MaxExists`, by well-foundedness) and that the search over the
four newest blocks succeeds, since all suitable workers are counted at the last
(`ConsensusFound`).

**IndexerProofs** (assumptions: the bounds are natural numbers, `None` is not an
instance). What a transaction may do to the tables depends on what its cycle saw
earlier, so the invariant speaks of every insert that is being collected, running or
left over: each NFT below its index is stored, passed over or in its bulk, and the
bulk lies below that index (`Fit`). Rows and `skipped` only grow, so `Fit` survives
everything others do, and `NothingForgotten` follows. For `IndexNotBehind` one lemma
(`StoreStep`) has two arguments: with no NFT passed over, a bulk disjoint from the
rows can only lie above the index, whoever commits it; with no lock lost, nothing is
left over and only the lock's holder works, so its index is not behind the table's
(`Guarded`). The steps are then instances of a few lemmas on the shape of a step
(`WorkStep`, `QuietStep`, `OutsideStep`).

**IpfsPinsProofs** (assumptions: the marks `None`, `Gone` and `Anonymous` differ and
are neither NFTs nor contents, `MaxChange` is a natural number). Whether a pin may go
depends on what a coroutine read several awaits ago, so the invariant says of each
coroutine what it still knows (`JobInv`): what it is about to pin its NFT names or has
named; what it is about to unpin differs from the content it saw last, so that, unless
that read was outdated, the NFT has left it behind (`Left`). The chain's history only
grows, so both survive the steps of others (`JobStays`), and one lemma (`UnpinStep`)
covers both places that unpin. The status `nft_unlink` asks for is not needed: what
protects a confirmed content is the order of reads, not the check.

**DispatchProofs** (assumptions: finitely many requests, `MaxDeaths` a natural number,
answers of the four kinds, a retry after an error or no response only, `None` distinct
from workers, outcomes and states of futures). None of the properties is inductive.
The invariant says that a worker's record has an entry for exactly the requests under
way at it (`FuturesInv`), counted by `pending_tasks` (`CountInv`); that a request
whose queue was replaced has a future that is done (`PlaceInv`); that a process only
has tasks of requests that were made (`KnownInv`) and its answers are true
(`AnswersInv`). The steps of coroutines change one request and its worker's record
(lemmas on the records without that request), those of processes and the supervision
complete futures and move tasks. The refinement `Spec => Call!Spec` follows, one lemma
per kind of step.

**NftTasksProofs** (assumptions: offsets with `Expired <= Warn`, `Users` a set of
NFTs, the bounds natural numbers and `Processor` finite, `None` not an integer, row or
stamp). Three inductions over one invariant. `IInv` says who has a claimed row: no row
is in two batches (`Apart`); the rows of a batch are in the table, without a time, and
their NFTs were found (`Held`); a batch never has more than two tasks to insert for
each of its rows (`Room`); what a batch or a synchronisation is about to store is not
later than the chain says and comes with a task for the due date, if that lies ahead
(`Noted`, `SyncSound`); no stored due date is later than the chain's (`RowsInv`).
`StuckOnlyAfterError` then says of each step whose row it leaves without a time. For
`DueTaskKept` an NFT with a due date ahead expects a row that waits, a claimed row not
yet looked at, or a task the batch has noted (`Expected`, `Kept`): `nft_update` reads
a due date from the chain that is not before the stored one, so it notes a follower
whenever the stored one lies ahead. For `DueTasksBounded` the steps of a processor
move an NFT's tasks between these three places and make none (`FetchNoMore`,
`UpdateNoMore`, `WriteNoMore`): the ids of the inserted rows are mapped one to one
to positions of the list (`InsertedDue`, from `Rank`, the number of free ids up to
one). Only the indexer, for an NFT without tasks (`NoneBefore`), and a synchronisation
that stores the NFT add a task, at most one (`OneInList`).

**InquiryProofs** (assumption: users and admins differ, `None` is none of them).
Each place of a handler comes with the local variables its next step uses (`JobsInv`),
each form with the data its buttons use (`FormsInv`); a handler that is about to set a
state of a form is there only while the form has its id, or the form counts as
overtaken (`DraftInv`). `OneOpenInquiry` rests on the unique constraint of the table,
not on the list the handler reads before, and on reopening changing no closed row; its
inductive form is that two open inquiries of a user are one (`OneOpen`).
`TellsTruth` is inductive with these: a closed row is never written again.

**ServicesProofs**. Assumptions: `Caller` finite, a positive interval and number of
permits (`RateLimit`); `AgesAssumption`: times are natural numbers, entries live at
least a tick, and the answers of the IPFS node come within the cache's time;
`TimeoutsAssumption`: a phase of a worker has time for a turn, `KeystoreRemoveOnFail`
is a truth value; `BulkAssumption`: a
bulk has room for a user; `LeaseAssumption`: two calls fit into the TTL, and what the
refresh loop leaves of a lease covers two calls and the stop. Apart from `RateLimit`'s,
all theorems are about `ServicesSpec`, of which each part's steps leave the others
alone.

- *Rate limits*: `PermitsAccounted` needs that whoever waits for a permit or for the
  lock is in exactly one queue and there once (`QueuesInv`), so that a step moves one
  holder (`HolderComes`, `HolderLeaves`). For `StartsSpaced`, what is left until
  `_delay_until` and the time since the last start, or end, make up an interval, and
  so does what is left of the one sleep under the lock (`SpacingInv`).
- *Reads*: the age of the data in hand plus what is left of the request is bounded,
  and so is an entry's age plus what is left of its life (`AgesInv`).
- *Node*: the age of the state is at most what `since` tells, unless the last reading
  failed (`CountInv`).
- *Bot*: the lease of a replica outlives what it may still wait for, at every place of
  the loop (`LeaseCovers`); with a single key in etcd (`OneKey`) two replicas that
  poll would both have it.
- *Worker*: the time since the last answer plus what is left of the deadline, or of
  the request or sleep under way, is bounded in each phase (`GivesUp`), and so is the
  time since the exit event (`Exits`). A keystore that is to be removed
  is bad only while the failures that were counted are going to be looked at (`Seen`).
- *Users*: what is looked up in a bulk has a row in the table or in its transaction
  (`KeptInv`), so that a commit stores the bulk; a shutdown that is past the queue has
  left nobody there (`JoinedInv`). Two rows of an owner are due to a
  race wherever they are: in the table, in a transaction and what it sees, or in two
  transactions (`RowsInv`).

Only model-checked: all liveness properties (`Progress`, `BroughtBack`, `LivingServe`,
`Ends`, `OwnersWarned`, `CatchesUp`, `UsersServed`, `FeedAnswered`,
`PollingResumes`), which are out of the prover's reach.

## 6. Plan

Order: the core that every request passes through first, then what writes the
database, then what talks to IPFS, then the bot.

| Step | Module | Content | Run and properties | Proof |
|---|---|---|---|---|
| done | `OperationLock`, `Supervisor`, `Consensus`, `Dispatch`, `NftTasks`, `Indexer`, `IpfsPins`, `Inquiry` | above | above | above |
| done | `RateLimit`, `WorkerProcess`, `UserQueue`, `RandomFeed`, `BotPolling`, `NftReads`, `NodeState` | above | `Services` | `ServicesProofs` |
| 1 | `MCManager` | `Supervisor` and `Consensus` over the same processes, a pass as one step of both | `SelectableIsCurrent`, `WedgedOnlyIfFragile` | that a pass is a sequence of `LookAt`, `Respawn` and `RespawnFails`, which is argued in words (section 2) so far |

## 7. Not modelled, and why

- `worker_control` (the switch used at shutdown), the statistics of `check_working`,
  and `is_archival`: a worker's kind only decides which workers are asked.
- `keystore_recreate` of a worker, which only a test sets.
- Deadlines in `Dispatch` (any wait may time out); `is_sync` is left to `Consensus`. A
  liteserver that reports a block the chain does not have is outside `Consensus`,
  where reports are blocks of one chain.
- Icons (but for the synchronisation that an `error_code` repeats), the deletion of
  NFTs, and all of an NFT but its due time in `NftTasks`.
- The lists of the database and the bot, with their paging: single SELECTs of
  committed rows, and arithmetic on their arguments. What a cache's key is made of:
  rendering of arguments.
- `TokenBucketRateLimit`: nothing uses it.
- Authentication (`auth.py`): cryptographic checks of one request. Its only state is a
  cache of tokens for other nodes, each used until a minute before its expiry.
- Settings are read once at the start. Parsing of content and images converts one
  value and keeps no state. Statistics and logs decide nothing.
- The Telegram library, etcd, PostgreSQL, IPFS and TON are external and modelled,
  where they appear, from how the code uses them.
