# Verification of the Douban to Feishu sync service

TLA+ models of the backend in `src/backend/src` and of the Redis server in
`src/backend/redis-stable`, model-checked with TLC and, for some of the
properties, proved with TLAPS.  Paths below are relative to
`src/backend/src`, those of C files to `src/backend/redis-stable/src`.

## The system

A user triggers a sync.  `SyncService.triggerSync` creates a `sync_history` row
and a Bull job.  `SyncProcessor.handleSync` takes the job, scrapes the user's
collections from Douban and hands them to
`SyncEngineService.performIncrementalSync`, which compares them with the records
of a Feishu table and creates, updates and deletes records there through
`FeishuTableService`.  Every Feishu request needs a token from
`FeishuAuthService`.  Which Feishu field a Douban field is written to is a
mapping kept by `FieldMappingService`, which creates missing fields.  Progress is
written to the row and pushed over a WebSocket gateway.  State lives in Postgres
(rows), in Redis (queue, tokens, field lists, mappings, sync state), in Feishu
(tables) and in process memory (fallbacks, counters, connections).

Interactions that matter: several requests, workers and progress callbacks write
one row; several syncs write one Feishu table; several calls share the caches.
All of them interleave at every `await`.

The repository carries the sources of the Redis server all of this state rests
on: the queue, the token and field caches and the sync state are as durable and
as consistent as Redis makes them.  Six modules model the parts of it where
several actors, crashes or long sequences of commands meet: cluster failover,
Sentinel, replication, the append only file, the commands whose effect spans
several calls (transactions, blocking, client side caching), and the hash tables
under every key.

### Inventory

| Part | Source | Module |
|---|---|---|
| Sync tasks, processor, queue | `sync/sync.service.ts`, `sync.processor.ts`, `sync.module.ts` | `SyncJobs` |
| Incremental engine, records | `feishu/services/sync-engine.service.ts`, `feishu-table.service.ts` | `SyncEngine` |
| Access tokens, rate limit | `feishu/services/feishu-auth.service.ts` | `FeishuAuth` |
| Fields and field mappings | `feishu/services/field-mapping.service.ts`, `feishu-table.service.ts`, `field-auto-creation.service.ts` | `FieldMapping` |
| Sync configuration | `config/config.service.ts` | in `FieldMapping` (its mappings only) |
| Scraping, progress reports, WebSocket gateway | `sync/sync.processor.ts`, `sync/sync.gateway.ts`, `douban/douban.service.ts`, `book-scraper`, `anti-spider`, `parseListPage` | `SyncSession` |
| Redis Cluster | `cluster_legacy.c` | `RedisCluster` |
| Redis Sentinel | `sentinel.c` | `RedisSentinel` |
| Redis replication | `replication.c`, parts of `rdb.c`, `networking.c`, `server.c` | `RedisReplication` |
| Redis append only file | `aof.c`, `bio.c`, parts of `server.c` | `RedisAof` |
| Redis transactions, blocking, caching | `multi.c`, `blocked.c`, `tracking.c`, parts of `t_list.c`, `db.c`, `expire.c` | `RedisClients` |
| Redis key space | `dict.c`, `kvstore.c`, parts of `db.c`, `expire.c`, `server.c` | `RedisDict`, `RedisKvstore`, `KeyIteration` |
| Movie scraper, detail pages, transformation | `douban/services/*` | not modelled |
| Credentials, accounts | `config/config.service.ts`, `auth/auth.service.ts` | not modelled |
| Second Feishu client | `feishu/feishu.service.ts`, `feishu.controller.ts` | not modelled |
| Crypto, logging, bootstrap, DTOs | `common/*`, `main.ts` | not modelled: no state of their own |
| Frontend | `src/frontend` | not modelled |
| The rest of Redis | event loop, data types, encodings, scripting, modules, tools | not modelled |

`PROJECT.json` lists all the parts with their status, the lines each definition
models, and the hazards found in the code.

## Modules

Each component has a module of the same shape: constants, named assumptions,
`Init`, one action per stretch of code between two awaits (in the Redis modules,
per command, packet, callback or timer), `Next`, `Spec`, then the properties.
Most modules have a set `Scenarios` (or `Budgets`) of records from which `Init`
picks one: it says what may happen in a behaviour and how often.  An `MC` module
gives the constants small values.  The `Proofs` modules hold theorems, as does
`RedisSentinelSteps`, on which `RedisSentinelProofs` builds.  Operators whose
comment says "Mutant" are altered copies of the definition that follows them; no
specification uses them.  They record which mistake in the code the corresponding
property would catch.

### SyncJobs

One element of `Syncs` is a request with the row and the job it may create.
`row` is the `sync_history` row (status, whether `completedAt` and
`errorMessage` are set), `job` the Bull job (state, attempts, stalled count,
lock), `worker` a process in a phase of `handleSync`, `late` the number of
`updateProgress` calls the progress callback started and nobody awaits.

- `TriggerCheck`, `TriggerCreate`, `TriggerAdd`: the three awaited steps of
  `triggerSync`.
- `CancelFind`, `CancelList`, `CancelRemove`, `CancelUpdate`: `cancelSync`, which
  searches active and waiting jobs only.
- `Start`, `GetUserCredentials`, `FetchDoubanData`, `SyncToFeishu`,
  `PerformIncrementalSync`, `Finish`, `Fail`: `handleSync`; `Resolve` and
  `Reject` are what Bull does when it returns or throws.
- `LateProgress`: an un-awaited update reaches the database.
- `PromoteDelayed`, `TakeJob`, `ExpireLock`, `StalledCheck`: Bull, from the
  options in `sync.module.ts`.
- `Integrated...`: `executeIntegratedSync`, the path without a queue.
- `Crash`, `IntegratedCrash`: the process dies in a handler.

`updateSyncProgress` swallows database errors: `UpdateSyncProgress` may leave the
row as it is, and the history variable `cause` remembers that a final status was
lost this way, or that a process died, or that a late update undid a status.

### SyncEngine

`table` is the Feishu table.  A call reads it page by page into `index`
(`FetchPage`; `FetchPageFails` ends the loop early, as the code does), computes
the changes (`Analyze`), writes them in batches (`CreateBatch`, `UpdateBatch`
with its fallback to single updates, `DeleteRecord`) and stores the sync state
(`Finish`).  The HTTP client repeats a request whose answer is lost: a batch
create then takes effect several times.

The contents of a record's mapped fields are one value.  The two conversions a
value goes through are kept: `Normal` (null and undefined alike, trimmed, lower
case) for the comparison, `Format` (trimmed) for writing.  The hash is
abstracted to the equality of what it is computed from.  `richText` of a
scenario says in which of the two forms the record schema allows a text cell comes back from the
API: a string or an array of objects.

### FeishuAuth

`getAccessToken` of one app: `CheckRateLimit` and `ExpireCounter` (incr and
expire of the window counter, with the in-process list behind them),
`GetCachedToken`, `RequestNewToken`, `CacheToken`, `Return`; `ClearTokenCache`;
`Crash`, which empties the process memory; `Tick`, which moves the clock and lets
Redis keys expire.  Any Redis command may fail, whereupon the code falls back to
memory.  A Redis command is answered within one unit of time, a token request
within `MaxLatency`.  The HTTP retries inside the token request are part of its
latency.

### FieldMapping

Calls of `autoConfigureFieldMappings`, its enhanced form, `setFieldMappings`,
`getFieldMappings`, and the beginning of `performIncrementalSync`, which
configures a mapping if there is none, for one user.  `fields` are the fields of
each Feishu table with their position as id, `fieldCache` and `mapCache` the two
Redis caches, `row` the user's `sync_config` row.  `GetCachedFields`,
`FetchFields`, `CacheFields` are `getTableFields`; `CreateField`, `DropCache` are
`createTableField`; `UpdateField`, `ClearFieldCache` are `updateFieldInternal`;
`ReadRow`, `SaveMappings`, `CacheMappings` save a mapping; `UpdateSyncConfig` and
`DeleteSyncConfig` are the configuration service, which writes the same column.
`Learn` is the decision taken on a list of fields: plan the creations, or, inside
`ensureFieldConfiguration`, create, update or leave one field.  Feishu is
assumed to refuse a second field of the same name.  `Put` is the assignment
`mappings[doubanField] = field_id`; `Missing` lists the fields without an entry
in the order of the configuration, and `Aligned` pairs the created fields with
the planned ones by position, as the plain variant does.

### SyncSession

One attempt of `handleSync` as its user sees it.  The books are scraped page by
page (`fetchBookList`) and one by one (`Details`) through `makeRequest`, while
the user marks and unmarks books at Douban (`MarkBook`, `UnmarkBook`, external).
Each stage is reported: `updateSyncProgressWrites` and
`updateSyncProgressNotifies` are the two awaits of `updateSyncProgress`, either
of which may fail, and `notifyProgress` sends to the rooms of the gateway.  The
engine's reports (`onProgress`) are not awaited and land in `late`.  Browsers
connect or are rejected, subscribe and leave.  `handleSubscribeSync` joins the
rooms of whatever task ids the message names, several at a time and without
asking whose they are (`sync.gateway.ts:135`), so a socket may hear the reports
of any tasks; `inbox[s][u]` keeps those of each task apart, since no property
compares two tasks.  Whether a connection is accepted is a free choice: it
depends on `client.user`, which the source reads (242) and nowhere sets.  Left
out: the retries of the queue (`SyncJobs`), `userConnections` (a statistic), what
is in a detail page.  The socket adapter is the in-process one, so
`handleConnection` is one step; the list changes only between two page requests.

### RedisCluster

`st[n]` is what node `n` believes: its epochs, and of every node the master, the
`configEpoch`, the shard and the FAIL flag, with the owner of every slot, if it
has one.  The C functions
that edit `clusterState` are operators from table to table
(`clusterUpdateSlotsConfigWith`, `clusterHandleConfigEpochCollision`, ...) and a
packet handler composes them in the order of the code (`ProcessPong`,
`ProcessUpdate`, `ProcessFail`, `ProcessAuthRequest`, `ProcessAuthAck`).
`ScheduleElection`, `RequestFailoverAuth`, `WinElection` are
`clusterHandleSlaveFailover`; `Takeover` is CLUSTER FAILOVER TAKEOVER, `Replicate`
is CLUSTER REPLICATE (the migration of a replica makes the same change with a
target of its own choice); `Restart` reads `nodes.conf`.  A node that others know
as a master and that joins another shard loses its slots in their tables
(`SwitchRole`, `clusterDelNodeSlots`), which leaves the slots without an owner
until somebody claims them.  A vote and the fsync of `nodes.conf` are one step: the answer is queued and
leaves the process after `clusterBeforeSleep` has saved, so that a crash before
the save is a request without an answer.  Packets are lost, delayed and overtake
each other.
`LateAcks = FALSE` is a timing assumption: an acknowledgement does not outlive
the election timeout of the candidate it answers, which then asks again in a new
epoch (acknowledgements carry the voter's current epoch, not the epoch voted in).

### RedisSentinel

`sn[s]` is Sentinel `s`'s view of one monitored master.  `sentinelTimer` is one
run of the timer for it: subjective and objective down, the start of a failover,
`sentinelGetLeader`, and the steps of `sentinelFailoverStateMachine`.
`IsMasterDownByAddr` answers and votes, `sentinelProcessHelloMessage` takes over
a newer configuration, `PromotionSeen`, `ReconfSeen`, `FixSlave` and
`DiscoverSlaves` are `sentinelRefreshInstanceInfo`, `ApplySlaveof` is a server
executing its transaction, `Restart` reads the configuration file.  Every
`sentinelFlushConfig` succeeds: when `rewriteConfig` fails (`sentinel.c:2273`) the
code logs a warning, its callers go on, and a vote that only memory holds is
forgotten by a restart.  What is said below of votes and epochs across restarts is said
of Sentinels whose file can be written.  Periods of
time are choices.  The histories `votes`, `leaders`, `promoted` and `configs`
record every vote, everybody who began to act on a failover, every server that
was a master, and every pair of configuration epoch and address.

### RedisReplication

`sv[n]` holds a server's replication fields, dataset, backlog and RDB file,
`link[r]` both ends of a replica's connection.  Actions: a write and its
propagation, the execution of the stream, REPLICAOF and REPLICAOF NO ONE, PSYNC
and its two answers, the fork, the transfer and the load of the RDB, ACKs,
broken links, the release of an idle backlog, a crash, FAILOVER with its abort.
A command is one unit of offset.  The transfer is disk-based, the AOF is off, a
link breaks for both ends at once.

### RedisAof

`p` is the process with its buffer, sizes, manifest and the queue of the
background thread, `d` the disk.  A file has a fsynced part, which a power
failure keeps, and a rest, of which it keeps any prefix.  `call` and
`beforeSleep` write and flush, `bioThread` runs a background job, `StartRewrite`
begins a rewrite, and `RenameFiles`, `PersistManifest`, `RemoveHistory` and
`RewriteDone` are the steps of `backgroundRewriteDoneHandler`.  Each may fail, and
a crash or a power failure may come between any two (`p.step`);
`stopAppendOnly` and `startAppendOnly` are CONFIG SET.  A rename, an unlink or a
new file is on the disk at once, so the fsync of the directory matters only by
its result: when it fails, `persistAofManifestFails` has replaced the manifest
and returns an error (`p.torn`).  Commands are written whole, and a start is one
step.

### RedisClients

One server that runs one command at a time; an action is a whole command, with
what `call`, `handleClientsBlockedOnKeys` and `afterCommand` do behind it.
`watchCommand`, `multiCommand`, `Exec`, `discardCommand`, `unwatchCommand`;
blocking pops and moves within `Command`, served by `handleClientsBlockedOnKey`;
`enableTracking`, `disableTracking` and the invalidation messages that `Receive`
delivers to the client's cache; `Clock`, `activeExpireCycle`, `BlockedTimeout`,
`freeClient`.  A master only, a fixed database per client, list keys only; a
NOLOOP client forgets what it writes itself.

### RedisDict, RedisKvstore, KeyIteration

`RedisDict` has the functions of `dict.c` as operators on a store and a dict
index: two tables, `rehashidx`, a step of rehashing per operation or a bucket
moved out of turn, growing and shrinking with the ratios of the code, insertion
by link, two-phase unlink, and the reverse-binary cursor of `dictScan`.
`RedisKvstore` adds the array of dicts with its totals, the Fenwick tree, the
list of rehashing dicts, dicts that are allocated and freed, and drives them by
commands, `databasesCron`, child processes and the calls of a SCAN or of the
expire cycle.  Table sizes and ratios are constants so that small instances
reach them; the code's values are 4 buckets, a fill of 1/8, a forced ratio of 4,
10 empty visits per bucket, 16 dicts and 100 buckets per cron run, and the expire
cycle's skipping of a dict with more than 100 buckets per key
(`isExpiryDictValidForSamplingCb`, the `skip_cb` of `kvstoreScan`).  `resizeAllowed`
always agrees (it refuses near `maxmemory`); DICT_RESIZE_FORBID, set only in a
fork's child, is left out, as are `pauseAutoResize` and defragmentation.

`KeyIteration` is the promise of SCAN to its callers: an iteration returns every
key that is in the store from its beginning to its end, whatever else is written.
`ScanPromise` states that `RedisKvstore` implements it, with the refinement
mapping keys = the stored keys, scanning = there is a cursor, owed = the keys
present since the beginning and not yet returned; what the expire cycle skips is
owed no longer, since nothing promises that it is visited.  The refinement alone
would excuse a lost key as one that was removed, so `ScanPromise` also states, as
`OnlyThatKey`, that every operation leaves all keys alone but its own.

## Runs

| Run | Shows |
|---|---|
| `sync_jobs_safety` | One queued and one direct sync, 2 workers, 3 attempts, 1 stall, 1 late update, 1 lost write, 2 crashes.  A RUNNING row without a handler has one of three causes (`RunningExplained`); SUCCESS only after the engine returned (`SuccessMeansSynced`); starts bounded (`RunsBounded`); one live handler per job, whose lock keeps cancelSync from removing it (`OneHandlerPerJob`). |
| `sync_jobs_liveness` | Two syncs, 1 worker, 2 attempts, 1 crash.  Every RUNNING row leaves RUNNING (`RunningEnds`).  This is with no late update, no lost write, and no more crashes than Bull forgives; with any of these a row can stay RUNNING, which is what `RunningExplained` lists. |
| `engine` | Two calls at once on one table with a page that cannot be read and a lost answer; one call whose answers are lost until the client gives up; three calls in a row over changing data with a refused write; texts in array form.  Every planned operation is counted once (`CountsAddUp`); a call that reports no failure has delivered its data, if the other call has the same data (`Delivered`); only orphans are deleted (`OnlyOrphansDeleted`); undisturbed calls leave no subject twice (`UniqueSubject`) and leave a table in sync alone (`NothingToDo`). |
| `feishu_auth` | Two callers, 6 calls, 5 units of time, a Redis failure and a crash anywhere.  No expired token is returned (`TokenUsable`); over any interval as long as a window the Redis counter lets at most twice the limit through (`WindowBound`; calls let through by the process during a Redis failure are not in this count); while nothing has failed, a call is refused only when the limit was reached (`RefusedOnlyIfBusy`). |
| `field_mapping` | Two calls of any kind, 3 fields, one failure of Feishu or the database and one of Redis.  The enhanced configuration maps each Douban field to the Feishu field of its name, the plain one does if no creation failed, and reports every field once, as mapped or failed (`MappingSound`); a mapping that was never saved is not served, though an old one may be (`CachedWasSaved`). |
| `sync_session` | Lists of 0 to 4 books that change under the paging, failing and refused requests, an unreadable entry, lost reports, browsers that come, are rejected and go, two users at once with a browser subscribed to either task or both.  The scraped data repeats or misses at most one book per change of the list (`PagingBounded`); the awaited reports of a task are heard in order, once per room, whatever tasks the socket subscribed to (`HeardInOrder`); a browser connected before the end of its user's job hears how it ended (`FinalHeard`). |
| `redis_cluster` | Three masters, two replicas of a failed one, a node that joins another shard.  One winner per epoch, also when a voter crashes and restarts (`OneWinnerPerEpoch`), no `configEpoch` above one's own `currentEpoch` (`EpochsKnown`), two claims of a slot differ in epoch (`OneOwnerPerEpoch`), no rest in disagreement (`SettledAgree`). |
| `redis_sentinel` | Three Sentinels, a master and two replicas.  One leader per epoch (`OneLeaderPerEpoch`), one master per configuration epoch, unless a leader was elected with votes of another epoch or by command, or an old master was promoted again (`ConfigNamesOneMaster`), only servers that were promoted are advertised (`AdvertisedWasPromoted`). |
| `redis_replication` | Three servers in a star, a chain and a pair, a backlog of one command.  A connected replica has neither skipped nor repeated a command (`StreamExact`), an id and an offset name one dataset (`SameIdSameData`), a planned failover loses no write (`FailoverKeepsWrites`), replicas catch up (`CatchesUp`). |
| `redis_aof` | Two databases, three fsync policies, rewrites and switches that fail at each step, crashes and power failures at and between them.  The files and the buffer rebuild the dataset (`ReplayExact`); what WAITAOF and `always` promise survives a power failure (`FsyncedDurable`, `AlwaysDurable`); a start after a crash loads a prefix of the history with no transaction by half (`RecoversPrefix`).  All four suppose `ManifestKept`, see `aof.c:593` and `aof.c:2810` below. |
| `redis_clients` | Three clients, two keys, two databases, nine scenarios.  EXEC runs only on what was watched and is given up only for a change (`WatchExact`); nobody is left blocked on a list with elements (`NoLostWakeup`); no cache stays stale, except for what was read before a SWAPDB (`CacheCoherent`, see `db.c:2175`). |
| `redis_kvstore` | Five keys, cursors of three bits, one dict or four.  Every key is found, and returned once by a walk, through any state of a rehashing (`Findable`), the totals and the tree are exact (`Accounted`), no operation changes another key and SCAN keeps the abstract promise (`ScanPromise`), rehashing ends (`RehashEnds`). |

The runs check what the modules promise.  Each module also defines a `TypeOK`,
which documents the shape of its state; it is proved for `SyncJobs`,
`SyncEngine`, `FieldMapping`, `RedisCluster` and `RedisSentinel`, and holds in the
other modules' runs when `TypeOK` is added to the invariants of their
configurations.

### Where the code differs from its documentation

Each of these was found as a counterexample in one of the models, by a property
that states the quoted sentence; the properties that are checked now exclude the
case by their premise or by the scenarios.

| Code | What happens |
|---|---|
| `sync.service.ts:60` | Two triggers of one user both pass the RUNNING check, although `sync.controller.ts:56` documents a 409. |
| `sync.processor.ts:297` | A late progress update leaves the row RUNNING; the next trigger is refused with "Another sync is already in progress" although nothing is. |
| `sync.service.ts:206` | A sync succeeds after cancelSync found it RUNNING, and is then marked CANCELLED. |
| `sync.service.ts:195` | An attempt fails after cancelSync found the row RUNNING; its job is now delayed, cancelSync does not find it, and the cancelled sync runs again. |
| `sync-engine.service.ts:709` | With text cells in array form, as `record.schema.ts:15` has them, every record looks new, and a second sync creates every record again. |
| `field-mapping.service.ts:199` | After one failed field creation the later fields are mapped to the wrong Douban fields. |
| `sentinel.c:4813` | A Sentinel whose `current_epoch` rose while it waited for votes is elected for its failover's epoch with another Sentinel's vote of the newer epoch; the comment at 4790 asks for "the same epoch". |
| `sentinel.c:2925` | A Sentinel that reconfigures the replicas hears of a newer configuration whose address is the one it fails over from: it takes the epoch and keeps its failover, so `sentinelGetCurrentMasterAddress` (1646: "it means that we already have the new configuration epoch in the master") advertises its own promoted replica under the epoch of the other configuration.  It takes a server that is promoted a second time; the proof of `ConfigNamesOneMaster` brought it up. |
| `aof.c:593` | The fsync of the directory fails after the rename of the manifest: `persistAofManifest` returns an error, `backgroundRewriteDoneHandler` (2785) removes the BASE file that the manifest on the disk names, and the next start fails unless another rewrite has written a manifest first.  `openNewIncrAofForAppend` goes on with the old INCR file, which is no longer the last, so that a cut transaction at its end is fatal, although the comment at 796 says that "the entire operation will rollback". |
| `aof.c:2810` | BGREWRITEAOF with AOF off, no manifest written after the removal of the history, and a restart: the new INCR file takes the name of a history file and is removed with it; the comment at 2808 says such a failure "will not cause any problems". |
| `multi.c:392` | A watcher flagged expired ends the loop that should "Mark all the clients watching this key" (374); a client behind it runs its EXEC on a changed key. |
| `db.c:2175` | SWAPDB exchanges the keys of two databases and sends no invalidation message (`swapMainDbWithTempDb` does, at 2262): a client keeps a cached value of the other database until it reads the key again or the key is written. |
| `tracking.c:405` | A NOLOOP client whose own command makes the full tracking table forget a key is not told, against the comment at 368. |

More counterexamples were met with other constants:
`UniqueSubject` fails in `SyncEngine` with a page that cannot be read, with a
lost answer to a batch create, with two engines at once and with repeated input;
`Delivered` fails when a field
that was filled becomes undefined; the enhanced configuration neither maps nor
reports a planned field that another call creates first;
`RefusedOnlyIfBusy` fails when `expire` fails or the process dies after `incr`,
which leaves the counter without a time to live; `FailoverKeepsWrites` fails when
the target restarts or is reconfigured in between (`replication.c:1041`);
`FsyncedDurable` excludes a failed background fsync and the file of before a
rewrite that is not yet fsynced (`aof.c:1153`); with `everysec` a power failure
during a rewrite can lose the middle of the history (`aof.c:845`), and a write
error at its beginning replays commands twice (`aof.c:2559`), so the scenarios
combine rewrites with power failures and with write errors only under `always`.

### Bounds

Every bound is a constant named `Max...` or a field of a scenario; faults are
bounded, and so are requests, writes and commands; steps of a handler are not.
One queued sync suffices for the per-row properties, since rows
interact only through the RUNNING check; `sync_jobs_liveness` has two.  Page and batch sizes of 1 or 2 against tables of 0
to 3 records and inputs of 1 to 3 items put the ends of the loops on, before and behind a
boundary.  Two retries or lost answers exceed `retryAttempts = 1`, so the
give-up path is reached.  In `feishu_auth` the time covers the life of a token
and two windows.  Three fields are the fewest for which a failed creation can be
followed by two successful ones.  Workers and callers are symmetric;
symmetry is not used in runs with liveness properties.

A scenario of a Redis module combines the two or three troubles that interact and
leaves the others out, because all of them together are out of TLC's reach.
Three masters of which one fails are the fewest with a majority that is not
everybody; two replicas, or two Sentinels, race for it.  A backlog of one command
puts every partial resync at its edge.  Two databases are enough for a missing
SELECT to show.  Cursors of three bits and hashes 0, 4, 2, 6, 1 make tables of 1
to 8 buckets in which keys fall together and apart as they grow and shrink; the
scenarios reach growing, shrinking and two-level rehashing under a SCAN, two
dicts rehashing at once, a dict freed under the cursor, and a rehashing stalled
by a child process.

Deadlock is not checked: requests, commands and faults may stop arriving, and all
the models can come to rest when they do.

### Fairness

`SyncJobs!Fairness`: every await in a handler settles.  The HTTP clients have
timeouts of 30 or 60 seconds and `RedisService` limits its retries; for the
database the code sets no timeout, so that it answers or fails is assumed.  Bull promotes, delivers and checks its jobs on timers; a
`cancelSync` that has found its row goes on.  Requests, cancellations, crashes and late
updates need not happen.  A job of `SyncSession` that was begun
is run to its end, for the same reasons.
`RedisReplication!Spec`: links that can be made are made and what is on its way
arrives; retries and the end of children are the work of `replicationCron` and
`serverCron`.  `RedisKvstore!Fairness`: `databasesCron` runs again and again, and
a child process ends; it is written out as a formula over the state because
TLC's ENABLED of the nested operators is too slow, and is weak fairness of the
cron step that rehashes.  Nothing is assumed of faults.

## Proofs

TLAPS checks every proof to its last leaf.  The theorems hold for any number of
users, workers, nodes or Sentinels and for any bounds, so what a run shows on a
small instance does not depend on it.  Each inductive invariant was an invariant
of a TLC run before it was proved.

| Module | Theorems | Assumed |
|---|---|---|
| `SyncJobsProofs` | `TypeCorrect`, `RunningIsExplained`, `SuccessIsSynced`, `StartsBounded`, `HandlersExclusive` | `ConstantsAssumption`: kinds of the constants, at least one attempt |
| `FeishuAuthProofs` | `TokensUsable`, `LimitHolds`, `RefusalsJustified` | `AuthAssumption`: the life times below; a window is not empty |
| `SyncEngineProofs` | `EngineTypes`, `CountsHold`, `OrphansHold`, `UniqueHolds`, `IncrementalHolds` | `EngineAssumption`: kinds of the constants; null and undefined are not changed by trimming or lower case |
| `SyncSessionProofs` | `OrderHolds` | `SessionAssumption`: every socket has a user; kinds of the bounds |
| `FieldMappingProofs` | `MappingTypes`, `MappingsAreSound`, `ServedWasSaved` | `MappingAssumption`: kinds of the constants, a configuration that names every Douban field once, well-formed input |
| `RedisClusterProofs` | `ClusterTypes`, `NoEpochAhead`, `NodesVoteOnce` | `ClusterConstants`: finitely many nodes, kinds of the bounds |
| `RedisSentinelSteps`, `RedisSentinelProofs` | `SentinelTypes`, `SentinelsVoteOnce`, `OneLeader`, `Advertised`, `OneMasterPerConfig` | `SentinelConstants`: finitely many Sentinels, kinds of the constants |

A step lemma has one case per action.  What an operation may do to a row, a
worker, a table or a record is said once in a lemma of its own and cited where
several actions use it.

**Sync tasks.**  The invariant `IInv` adds to the properties

- `WorkerConsistent`: a worker is idle exactly when it has no sync;
- `FinishMeansSynced`: a handler about to write SUCCESS has the engine's result,
  without which `SuccessMeansSynced` is not inductive;
- `RunsCounted`: each start is paid for by a failed attempt, a stall or the
  present run, which gives the bound of `RunsBounded`.

**Tokens** (`TokensUsable`).  No expired token is returned for any life times,
buffers and latencies with `TokenTtl + MaxLatency < life + 2 * RefreshBuffer` and
`MaxLatency < life`.  The first inequality is what the code relies on: the expiry
of an entry is reckoned from the arrival of the answer with the configured life
time, less the buffer, and the buffer is subtracted again when the entry is
served.  The invariant says that every cache entry satisfies it (`EntrySafe`) and
that an answer under way is no older than `MaxLatency` (`ReplySafe`).

**Rate limit** (`LimitHolds`, `RefusalsJustified`).  Every INCR adds an entry to
the log, so the last `counter.n` entries are those of the current window.  The
invariant `LimitInv` says that the first `MaxRequests` of them passed
(`FirstPass`), that a counter with a time to live dies one window after its first
call (`Dies`), that a call between INCR and EXPIRE opened the window at this
moment and is alone (`Opening`), and that earlier windows let at most
`MaxRequests` calls through in the last window's length before the current one
opened (`Before`).  The last is what makes `WindowBound` inductive: an interval as
long as a window that reaches the newest call reaches back into one earlier window
at most.  `NoTtl`, that only a fault leaves the counter without a time to live,
gives the action property.

**Sync engine, any calls** (`CountsHold`, `OrphansHold`).  `Inv` says of every
call, wherever the others are, that the operations it has counted, those it still
has to do and those it was not asked to do make up the total (`Counted`; before
the analysis nothing is counted), that its index has each record under that
record's subject (`IndexOK`), and that what it is to delete has no subject of its
data (`Orphans`).  The other calls do not disturb this, because records keep their
positions and subjects and deleted ones do not come back (`Grows`).  `OrphansHold`
is an action property of the deletion, which may come long after the table was
read.

**Sync engine, one call at a time** (`UniqueHolds`, `IncrementalHolds`).  Under the
premise of `UniqueSubject` (a single engine, text cells as strings, no page lost, no
answer lost, data and table without repetition) `Alone` says how far the index has got: it has exactly
the records up to the cursor (`Indexed`, `Exact`), so that what is to be created
is new (`Fresh`), and stays new while it is created batch by batch, whichever
batches are refused.  A call that finds its data in the table then plans nothing.
For this proof the selection in `analyzeChanges` is written as `Pick`, the
elements of a sequence at given positions, and not with `SelectSeq`, which is
recursive.

**Reports** (`OrderHolds`).  A job is between two reports, in one, or over
(`JobOK`); only the final report leads to the end, and every path through the
scraping loops either makes no report or begins exactly one (`Goes`).  What a
socket heard of a job is of its past (`Past`): no report number above those made,
none equal to the one under way, and a final one only if the job is over.  So a
report is newer than all that was heard of that job when it is sent, and a socket
gets it at most once per room.  Nothing is assumed of the rooms a socket is in:
the invariant is per socket and task, and each job numbers its reports on its own.

**Field mappings** (`MappingsAreSound`, `ServedWasSaved`).  Feishu fields keep
their ids and names, so a list that was read, cached or carried by a call agrees
with the table for ever (`Agrees`), however stale.  `CallOK` states for each place
of a call what holds there; for the plain variant, that unless a creation was
refused, the fields made so far are those of the plan before the rest
(`Planned`), which is what the pairing by position needs, and in the end that
every Douban field is mapped or reported and none is both (`Reported`).
`SavedOK` follows a mapping from the row through a call to the cache.

**Cluster** (`NoEpochAhead`, `NodesVoteOnce`).  The invariant extends
`EpochsKnown` to packets on their way, whose epochs are not above the
`currentEpoch` in their header, and to elections, and says that `nodes.conf` has
an epoch not below the last vote.  `NodesVoteOnce` is an action property: a vote
moves `lastVoteEpoch` forward to the epoch of the vote, and nothing takes it back,
a restart included.

**Sentinel** (`OneLeader`, `OneMasterPerConfig`).  `Good` relates a Sentinel's
memory and file to the votes (`VotesKept`): all it ever gave are of epochs up to
its `leader_epoch`, in memory and in the file, and a leader it remembers or was
told of by another is one that was voted for.  Hence no Sentinel votes twice
(`SentinelsVoteOnce`).  A leader elected with
votes of its epoch has a majority of the Sentinels behind it; two majorities share
a Sentinel, so the two leaders are one.  On this `Conf` builds, under the premise
of `ConfigNamesOneMaster`: an epoch has at most one configuration, made by the
leader of that epoch, and every Sentinel, file and hello carries one that was
made.  `Advertised` needs less: a Sentinel leaves `wait_promotion` only when the
replica has said that it is a master.

Only model-checked:

- all liveness properties (`RunningEnds`, `CatchesUp`, `RehashEnds`,
  `FinalHeard`), which are outside the prover's reach;
- `OneWinnerPerEpoch`, `OneOwnerPerEpoch` and `SettledAgree` of `RedisCluster`:
  every node counts the majority among the masters that it believes to have slots,
  and that the beliefs of two candidates of one epoch share a voter is not known
  as an invariant for every cluster;
- `Delivered` of `SyncEngine`, which depends on the data: it fails when a filled
  field becomes undefined (see above), and holds for the inputs of the run;
- `PagingBounded` of `SyncSession` and the properties of `RedisReplication`,
  `RedisAof`, `RedisClients` and `RedisKvstore`.  They compare a whole list,
  stream, file or walk with a dataset, and their actions fold over sequences or,
  in `RedisClients`, recurse over the keys that became ready; what such a fold
  computes for every input takes induction over data, which the prover cannot do
  here.

## Not modelled

Of the service: read-only queries and statistics; request validation in
controllers and DTOs; encryption; logging; detail pages and the repairs of their
text; the movie scraper, which no sync reaches; the pauses of the batch loops;
accounts and credential rows, whose races the database's unique keys decide.  A
second user is left out of `FieldMapping`, a second app out of `FeishuAuth`.

Of Redis: most of it by volume.  The modelled functions are about 9,100 of the
180,000 lines of C in the repository, some 5 percent.  They were chosen for what
tests reach least: agreement between processes, recovery, and structures that
change a step at a time.  The remainder is of three kinds.  Sequential code over
bytes (encodings, data types, checksums, the allocator, the RDB format) has no
interleaving for a model checker to explore, and a model of it would be a
transliteration.  Input and output (event loop, sockets, TLS, threads for I/O,
the tools) is modelled only by its effects: loss, delay, cut writes.  Code for
embedders (Lua, functions, the module interface) and bundled libraries depend on
programs that are not in the repository.  Parts that could be modelled and are
not: eviction, the expire cycle's limits on time and samples, slot migration and manual
failover in the cluster, diskless and rdb-channel replication, blocking on
streams and sorted sets, Pub/Sub, active defragmentation, and of the key space
the walk of `kvstoreIteratorNext` over a dict that is freed while the iterator
stands on it (`kvstore.c:632`).

## Next

Proofs: for the cluster, a condition on the nodes' beliefs about who owns slots
under which `OneWinnerPerEpoch` can be proved; for replication, the part of
`StreamExact` about offsets, which needs no replay of the stream.
