# A TLA+ verification of the Freelens Kafka extension

The extension shows Kafka clusters that run in, or are reachable from, a Kubernetes cluster.
It is a TypeScript program in two processes: `src/src/main` opens the Kafka connections and
serves requests over IPC, `src/src/renderer` runs in one frame per Kubernetes cluster, caches
what main answers and draws it, and `src/src/common` is shared. JavaScript runs one callback
at a time, so what is concurrent is everything between two `await`s: requests, invalidations,
timers, sockets, `kubectl` processes and the host's shutdown.

This directory holds TLA+ modules of that concurrency, the TLC runs that check them on small
instances, and proofs about them that TLAPS checks for every instance. All paths below are
relative to `src/src/` unless they name a document.

Contents

1. Inventory
2. Plan
3. The modules and how they correspond to the code
4. Runs: what is checked, with which bounds
5. Fairness
6. What is proved, and how
7. What is only model-checked, what is not modelled
8. Running it


## 1. Inventory

The components, the state each keeps, what changes it and what must be true of it. `PROJECT.json`
has the same list with the modules, and the hazards with the lines at which they bite.

### Main process

**Kafka session manager** (`main/kafka/session-manager.ts`). State: the map of pooled entries
(connection, leases, last use, idle timer), the map of pending connects, two counters of
generations (all keys, one key). Operations: `acquire` (lease, join, or connect), a lease's
`release` and `release(connection)`, `clear(key?)`, the idle timer. Hard: a connect that
resolves after `clear`; several callers waiting for one connect; `evictIfNeeded` and `clear`
await disconnects in their loops, so what they knew at the start of a turn is old at the next;
a release that waits for an eviction before it arms the timer. Correct when: leases are exact,
a key never has two connections, nothing invalidated is pooled, a leased session is not evicted
or timed out, an idle one always has its timer, the maximum is exceeded by leases only.

**Connection lifecycle** (`main/ipc.ts` L937-1078, `main/kafka/target-session-registry.ts`).
State: generations per target and shutdown, the session keys registered for each target, the
operations pending per target, the closed flag. Operations: `resolveConnection` (resolve the
target's credentials, register the key, acquire, check that nothing was invalidated, clean up
if it was), `healthInvalidate` with `closeSessions`, `shutdown`. Calls the session manager, the
credential cache and the health workers. Hard: an invalidation must find sessions that are
open, are being opened, and are not yet known to anybody; two invalidations and a shutdown
overlap; clean-ups are by key, and the key may be somebody else's by then. Correct when: an
invalidation that has returned leaves no connection of before; so does shutdown; requests that
it does not concern are left alone; nothing waits for ever.

**Credential resolution** (`main/kafka/external-credentials.ts`, `credentials.ts`,
`workload-environment.ts`, `kube-reader.ts`). State: the cache of credential profiles, promises
by session key. Hard: a profile read before an invalidation and used after it; a failed load
deletes the key's profile, which may be a newer one. Correct when no connection opened after an
invalidation uses credentials read before it.

**Kafka connection** (`main/kafka/kafka-connection.ts`, `connect-discovered.ts`). State: the
admin client and its read cluster, port forwards, producers. Operations: connect, reads,
produce, disconnect. Hard: the read cluster is connected lazily and shared, and `disconnect` may
meet it half-way; a second port forward fails after the first has opened. Correct when: whatever
was opened is closed exactly once, by whom ever.

**kubectl tunnels, forwarder, port forwards** (`main/kafka/kubectl-tunnels.ts`, `main/tunnel-host.ts`,
`main/kafka/tunnel-forwarder.ts`, `port-forward-manager.ts`, `redirect.ts`). State: one `kubectl`
process per tunnel with its readiness, deadline and abort listener; one tunnel per pod and port;
listeners per broker. Hard: readiness, deadline, exit and abort race; closing races opening;
the end of an old tunnel must not forget its successor. Correct when: every `kubectl` started is
killed or has exited by the end of its session; a caller gets one outcome.

**Aggregate health** (`main/kafka/aggregate-health-manager.ts`, `cluster-health.ts`,
`operation-timeout.ts`, `ipc.ts` L406-491). State: an entry per key with the snapshot, the work
in flight and its abort controller, listeners; persisted snapshots. Operations: `load`, `refresh`,
`read`, `restore`, `invalidate`, `remove`, `clear`, and eviction at ten entries. Hard: replacing a
worker whose cancellation has not settled; subscribers that wait for it; snapshots stored after
their target was removed. Correct when: one worker runs per key, a cancelled one publishes
nothing, the known lag never goes back within a generation, partial data are never shown as
complete.

**Consumer group reads** (`main/kafka/group-fetch.ts`, `group-offset-batch.ts`). State: a shared scan
per connection with subscribers and an abort controller; coordinators and a batching switch. Hard:
the last subscriber leaves while a new one joins; batches fail in part and fall back to single
reads. Correct when: a caller's cancellation ends only what nobody else wants, and no group is
lost or counted twice.

**Cluster health and topic sizes** (`main/kafka/cluster-health.ts`, `offset-batch.ts`, `log-dirs.ts`).
State: what one computation has read so far; the metadata of the read cluster and the status of the group
index, which concurrent reads share. Hard: any part may be missing or refused, and what is shared changes
while a computation awaits. Correct when a total is exact or marked as a bound.

**Messages** (`main/kafka/message-fetch.ts`). State: the page that is read, and the offset the caller
continues from. Hard: batches, budgets, markers and gaps cut pages at different offsets. Correct when
pages that follow each other leave no record out.

**Request handlers** (`main/ipc.ts`, `operation-timeout.ts`, `write-mode.ts`). State of a request: its
lease, its timer, whether it has noted that it is cancelled. Hard: a limit fires while Kafka works on.
Correct when the lease covers the work, an answer comes, and nothing is published after it.

**Progress store** (`main/progress-store.ts`, `main/kafka/progress.ts`, `common/kafka-phase-progress.ts`).
State: up to 64 events of up to 500 operations, each with a cursor. Hard: pruned events and
operations between two fetches of a frame. Correct when: what a frame sees is a subsequence of
what was published, in order, without repetition.

**The stateless parts**: discovery, reachability, ACLs, broker and topic configurations, wire
codecs, MSK IAM tokens, Schema Registry, Kafka Connect.

### Renderer and shared

**Caches** (`renderer/kafka-snapshot-cache.ts`, `kafka-resource-cache.ts`, `kafka-ipc-deduper.ts`).
State: entries with age, the load in flight, generations, listeners. Hard: a load that ends after
its key was invalidated, deleted or evicted. Correct when it installs nothing.

**Progress pull** (`renderer/kafka-progress-pull.ts`). State: the operations a frame asked for, their
cursors, a fetch in flight, the signals that came meanwhile. Hard: signals during a fetch or after
the request has settled. Correct when: all events are delivered, once, in order, and the pull ends.

**Message page** (`renderer/kafka-messages.tsx`). State: the tail's session number, timer, cursor and
loading flag. Hard: stop, restart and leave while a request runs. Correct when an answer of an old
session changes nothing.

**Persistent state** (`common/kafka-persistent-state-store.ts`, `renderer/kafka-write-settings.ts`).
State: a copy of the host's store in main and in each frame. Hard: both write at the same time.
Correct when main's own keys survive, and the write mode that main checks is the one the user set
last, in the end.

**Pages** (`renderer/kafka-topic-pages.tsx`, `kafka-group-pages.tsx`, `kafka-resource-pages.tsx`,
`kafka-overview.tsx`). State: the selected cluster, the open topic or group, what is loading and for
what, the confirmations that are open, the catalog of found clusters. Hard: answers arrive in any order
while the selection changes; a confirmation outlives its context; two pages save one document. Correct
when a page shows its own context or waits for it, and writes what was confirmed, where it was.

**Other settings and pages** (ACLs, Schema Registry, Connect, shell): one callback each, or the same
guards as the pages above.

### How they interact

    frame --IPC--> KafkaIpcMain --acquire/release/clear--> KafkaSessionManager --connect/disconnect--> KafkaConnection
                        |                                                                                 |
                        |-- register keys --> TargetSessionRegistry                       TunnelForwarder --> KubectlTunnels
                        |-- resolve, forget --> profile cache (ExternalCredentials)
                        |-- load, invalidate, remove --> AggregateHealthManager --> ConsumerGroupOffsetIndex
                        '-- publish --> ProgressStore <--fetch with a cursor-- ProgressPull (frame)

Requests and invalidations come from the frames; `closed`, the generations and the map of pending
operations are what a request reads before an `await` and checks after it.


## 2. Plan

The most important behaviour first: the pool that all connections live in, then the code that
drives it, then what uses the connections.

| # | module | composes | abstract specification | theorems |
|---|--------|----------|------------------------|----------|
| 1 | `SessionManager` (done) | | `LeasePool` | type, one connection per key, exact leases, bound, protection, idle timers, eviction of the coldest, the refinement (all done) |
| 2 | `KafkaIpcMain` (done) | `SessionManager` | | type, `ClosingIsFinal`, `CalmUnharmed` (all done) |
| 3 | `AggregateHealth` (done) | the health requests, closings and shutdown of `KafkaIpcMain`, as far as workers and records go | | type, live workers owned, replacement in turn, listeners (done) |
| 4 | `KubectlTunnels`, `TunnelForwarder` (done) | the second extends the first | | types, `NoneOutlives`, the map of tunnels, waiting sockets (done) |
| 4b | `BrokerConnection`, `CredentialProfiles`, `RequestLife` (done) | | whatever was opened is closed once | the closing, the lease under a limit, sound credentials (done) |
| 5 | `ProgressStream` (done): store, signals and pull | | an ordered stream of events | order, heard before the answer (done) |
| 6 | `GroupScan`, `GroupOffsetBatch`, `ClusterHealth`, `TopicSizes`, `MessageFetch` (done) | | exact or marked totals, gapless pages | one scan, heeded brokers, sizes, lag, pages (done) |
| 7 | `FrameCaches`, `SharedStore`, `MessagePage`, `TopicWorkspace`, `TopicWrites`, `GroupWorkspace`, `TargetPage`, `ClusterCatalog`, `ConnectionDrawer` (done) | | | all their properties but liveness (done) |

What the plan has left: two details of the code, `restore` with the merging of progress in
`AggregateHealth` and the exit hook of `kubectl`.

Bounds: two or three of whatever competes (callers, keys, connections, targets), one of what only
has to overlap (an invalidation, a shutdown), a capacity below the number of keys. Counters that would
grow (generations, last use) are modelled by the relation the code tests. Where the code numbers its
calls, or a history is needed, a constant (`MaxCalls`, `MaxScans`, `MaxClears`, ...) bounds them.


## 3. The modules and how they correspond to the code

### SessionManager

An action is the code between two awaits. A promise that settles (`ConnectResolves`,
`DisconnectDone`) and the continuation that awaits it (`Resume`, `EvictAgain`, `ContinueClear`) are
two actions, so that anything may come between.

| state | code |
|-------|------|
| `sessions`, `pending` | `this.sessions`, `this.pending`, as the connection of each key |
| `phase`, `keyOf` | where a connection is in its life and the key it was opened for |
| `stale` | a captured generation (all keys, or the key's) that no longer matches: what `connect().then` tests at L51 |
| `leases`, `timer`, `orphans` | `entry.leases`, `entry.idleTimer` armed, and armed timers `entry.idleTimer` no longer names |
| `older` | the order of `entry.lastUsedAt`, all that eviction reads of it |
| `client` | the call each caller is in: what a suspended async function remembers |
| `closed` | `KafkaIpcMain.closed`, which refuses new requests |

| action | code |
|--------|------|
| `AcquireSession`, `JoinPending`, `StartConnect` | the three ways through `acquire` up to its await (L36-60) |
| `ConnectResolves`, `ConnectRejects` | the `then` of `connect()` with its check of the generations (L49-58) |
| `Resume`, `ResumeRejected` | a waiter goes on: `finally`, lease, pool, `evictIfNeeded` (L59-71) |
| `EvictTurn`, `EvictAgain` | one turn of `evictIfNeeded`, up to its await (L131-142) |
| `ReleaseLease`, `ReleaseConnection`, `FinishRelease` | both releases and what follows the eviction they await (L78-90, L106-114) |
| `ClearKey`, `ClearAll`, `ContinueClear`, `FinishClear` | `clear` (L92-104) |
| `IdleFires` | the callback of `scheduleIdleCleanup` (L116-129) |

Three rules keep it finite and exact. *Identities are recycled*: a closed connection that nothing
refers to may stand for the next one opened, so the number of connects is unbounded. *Waiters of
one promise resume back to back* (`Draining`): JavaScript queues their microtasks together, and
`Resume` has no await that would let another callback in. *A clear may abandon a lease*
(`Abandons`): the request that was invalidated while it connected clears its key and returns
without releasing (`ipc.ts` L1018-1022); no other caller does that.

### LeasePool

What the pool promises to its callers: which sessions are pooled, and who holds each. A session is
pooled with a holder; holders come and go; a session without holders may be dropped at any time,
one with holders only while somebody revokes, who may give up a lease of its own on what it
revokes. It knows of no keys, timers, eviction or promises.
`SessionManager!ImplementsPool` is its specification under the mapping pooled = `Pooled(sessions)`,
held = the callers that run or are about to run with the lease, revoking = the callers in `clear`.

### KafkaIpcMain

Declares the variables of `SessionManager`, instantiates it with the requests, one `clear` per
invalidated key and the shutdown as its clients, and conjoins its actions with its own state.

| state | code |
|-------|------|
| `registered` | `TargetSessionRegistry`'s entries (the keys of health workers are always among them, so that the union at L1064-1068 adds none) |
| `current` | requests whose captured generations are those of their target and of the shutdown |
| `profile` | `credentialProfiles`: nobody, the request that loads it, or loaded |
| `req`, `inv`, `shut` | where each request, invalidation and the shutdown is |
| `aged`, `outdated`, `calm` | history for the properties only; no guard of the code reads them |

`Begin` to `Connected` is `resolveConnection`, `resolveConnectionOwned` and `connectForRequest`
(L937-1041), a Strimzi request taking the longer way through `Located` and `CredentialsRead`;
`Failed` and `Clean` are their clean-ups, `Finish` the handlers' `finally`; `Invalidate`,
`ClearSession`, `AwaitPending`, `Invalidated` are `invalidateHealthTarget` (L1059-1077) and
`ShutdownBegins`, `ShutdownClears`, `ShutdownEnds` are `shutdown` (L1043-1057).

Order matters more here than in the pool, so the module keeps the event loop: continuations are
microtasks, and all that are ready run before the next message, answer or timer (`Quiet`).
Connects and disconnects may also end within microtasks, because a direct connection opens no
socket before its first use. The `clear`s of one invalidation start one after another in the same
callback: `ClearSession` comes before everything else.

### AggregateHealth

The manager of the workers with the part of `KafkaIpcMain` that drives it: the health handler, the
closing invalidations and the shutdown. Sessions and connecting requests are `KafkaIpcMain`'s
matter: here a request connects for a while, an invalidation overtakes it (`current`), and what was
overtaken fails.

| state | code |
|-------|------|
| `entries`, `older`, `fresh` | `this.entries`, the order of `lastUsedAt`, the entries whose `expiresAt` lies ahead |
| `inFlight`, `listeners` | `entry.inFlight`, `entry.listeners` as the requests behind them |
| `work`, `cancelled` | what a running worker measures, and whether its signal is aborted |
| `known` | `healthWorkersByTarget` |
| `req` | where each request is: connecting, loading (subscribed), waiting (for cancelled work), replacing (about to load again) |
| `stored` | the persisted record, and whether it is of before the target was last closed |
| `closing`, `shut`, `current` | the invalidation and the shutdown under way, the requests neither has overtaken |
| `ended`, `evicted`, `former` | history for the properties: why a worker has lost its entry, which requests are of before |

| action | code |
|--------|------|
| `Begin`, `Connected`, `ConnectFails` | the health handler up to the awaits of `resolveConnection` and of `load` (`ipc.ts` L406-444) |
| `LoadCached`, `LoadShared`, `LoadStarts` | the three ways through `load`: fresh data, work in flight, a new worker and the evictions it causes |
| `Replace` | the `then` of L118-126: cancelled work is over, load again |
| `Succeeds`, `Fails`, `CancelledSettles` | the worker's promise with its `then`, `catch` and `finally`, and its subscribers up to `setItem` |
| `Expire` | `expiresAt` passes |
| `CloseBegins`, `CloseEnds` | `healthInvalidate` with `closeSessions`, and the deletion of the record |
| `ShutdownBegins`, `ShutdownEnds` | `shutdown` |

A worker that settles and everything its promise carries are one step: they are microtasks, and no
message comes between. For the same reason a request that has to load again does so before the next
message (`Quiet`). An entry that was deleted is forgotten altogether: its worker is cancelled, and
the closures that still hold the entry compare it only with itself. `restore` is left out: it makes
an entry whose data are not fresh, which `load` treats like one that was just made. Which progress a listener
is told, and the merging of lags, are left out.

### KubectlTunnels and TunnelForwarder

`KubectlTunnels` has the life of each `kubectl`, `TunnelForwarder` extends it with the session that
uses it: the map of tunnels, the sockets its listeners accept, its `close()`. Every step of the
first that settles a promise is a step of the second as well, because what the promise leads to
(`Rejected`, `Resolved`, `Ended`) are microtasks.

| state | code |
|-------|------|
| `runs[r].at` | preparing: awaits the host's kubectl and environment (L161-165); alive: spawned; exited: `exited`, with its promise still to settle |
| `runs[r].said` | how the promise of `open` has settled: `settled`, `ready` |
| `runs[r].told` | `stopping`: SIGTERM with the late timer armed, or SIGKILL |
| `runs[r].signal` | the signal that `open` was given: the session's |
| `aborted`, `closed`, `connected` | the aborted signals, `this.closed`, whether the host says that the cluster is connected |
| `tunnels`, `forwarder` | the map of each session by pod (`tunnel-forwarder.ts` L44), and where its `close()` is |
| `sockets` | the accepted sockets, waiting for a tunnel or piped to one |

| action | code |
|--------|------|
| `Opens`, `Shares` | `forward` and `tunnelOf`: the first socket of a pod calls `open`, the next share its promise |
| `Prepared` | the rest of `open` after the await: refused, not spawned, or spawned and followed, where the reaction on the status may end it at once |
| `BecomesReady`, `GivenUp`, `NeverStarts`, `Exit`, `Closes` | the handlers of `follow`: the line, the deadline or an error, a child that never was, `exit`, `close` |
| `LateFires` | the timer of `stop` |
| `Disconnects`, `Connects` | the status of the cluster |
| `CloseAll` | `KubectlTunnels.closeAll` at the end of the extension |
| `CloseBegins`, `CloseSettles`, `CloseEnds` | the three parts of the forwarder's `close()` between its awaits |
| `SocketCloses`, `UpstreamCloses` | either end of a piped socket closes |
| `SessionOpens` | another session under a name that is free again, so that behaviours do not end |

`exit` and `close` are two events: between them the output of a `kubectl` that has exited is still
read, and the line of readiness may be in it. What the hook at the exit of the process does is left
out, and so are sockets that are accepted and refused in one callback.


### The parts side by side: MCMainParts, MCFrameParts, MCWaits

The modules below each have their own variables. Where the code of one calls that of another, the
callee is modelled in the caller by what it may answer, and its details are in a module of its own.
Two of them share an object in the code: the index of consumer groups (`ConsumerGroupOffsetIndex`) is
the connection's, `GroupScan` is about the index and the callers of a topic's consumers, and the worker of
`ClusterHealth` asks it twice, for the offsets and, after the watermarks, for the status of the scan.
`ClusterHealth` therefore has of the index what `scanStatus()` would say (`status`), and
`IndexReplaced` is what other callers' scans and clears do to it in between. The other parts are such
that nothing one does changes what another reads. The MC modules put them side by side (`MCClusterHealth`
only names the partitions of a small instance of the worker; `MCWaits` has the session manager as an
instance, because `AggregateHealth` has an order `older` of its own).
A behaviour is of one `part`, chosen at the start; the others rest in an initial state. That is the
union of their state spaces and not the product, so that each part runs through all its
interleavings. An invariant of the composition is the conjunction of those of the parts.

### RequestLife

The path of one request through the handler that its channel has. `Handler` gives for each channel
whether it is guarded, whether it leases a connection, whether it heeds its cancellation, and where its
limit is: around the lease (the limit abandons the work and the lease is released when *the work*
settles), the same with a teardown that is awaited, inside it (ACL writes: the lease may go while Kafka
still writes), or nowhere. The health request, whose work is shared, is `AggregateHealth`'s.

| state | code |
|-------|------|
| `conn`, `given` | the connection asked for, leased or refused, and how often `release` was called |
| `task`, `limit`, `answer` | the work, `withTimeout`'s timer and the promise of the handler |
| `withdrawn`, `late` | the `cancelled` flag the handler's report checks, and a report after the answer |

`Arrives` is the guard and what comes up to the first await; `Connects`, `ResolvesNot` the connection;
`Works` the work with the check after it, `LimitExpires` the timer, `ReportsProgress` a report.

### BrokerConnection

A connection from `connectDiscovered` to the end of `disconnect`. `stage`, `seed`, `servers` and
`tunnels` are the two phases of listeners, `cluster` the shared read cluster with its pending connect,
`use[u]` an operation and the admin or cluster it has, `closer[d]` a call of `disconnect` at one of its
awaits. `OpensSeed`, `ReadsMetadata`, `OpensBroker`, `FailsToConnect` are the connect; `Begins` to
`LeavesUse` an operation; `Disconnects`, `WaitEnds`, `ClusterClosed`, `ClosesPorts`, `TunnelsClose` the
disconnect. `ClusterConnects` closes the cluster itself if the connection has gone meanwhile.

### CredentialProfiles

The cache of promises (`profile`), the scans behind them (`kubeScan`: position, workers, memoized
reads of Secrets, the best so far), and requests that join a scan and apply what it found
(`asker`). `Applied` is `applySecurityOverride` branch by branch, `Parsed` what a workload's variables
amount to, `OfStrimzi` the credentials of a Strimzi listener. `Visits` is one turn of a worker between
two awaits.

### GroupScan and GroupOffsetBatch

The scan that all callers of the index share, named after the caller that started it. `Calls` to
`Joins` is `all()`; `Aborts` a caller's signal; `ClearIndex`, `Expires` the end of what is kept;
`Lists`, `BatchAnswers`, `FallsBack`, `Completes` the build. `AllHeard` is the order of the event loop:
the reactions to a settled build come before the next task. `Answers` is `fetchTopicConsumers`, which
asks for the marks of unavailable groups (`marks`, `IsUnavailable`) after its own awaits; `exact` is what
it has told the caller as exact, for the properties.

`GroupOffsetBatch` is the reader the scan asks first: `capability`, `known` (coordinators), `ready`
(metadata), and of one read the `requests` to the brokers and those of earlier reads that have not
settled (`stray`). `FindsBroker` has the two checks between which an await lies.

### ClusterHealth, TopicSizes, MessageFetch

What these compute depends on what the brokers answered to several requests, some of which fail.
`ClusterHealth` asks for topology, groups, watermarks by leader (`LeaderAnswers`) or topic by topic
(`TopicRead`), and for the coverage at the very end (`Unavailable`, in `ReportsHealth`). `TopicSizes` has concurrent readers over the metadata of one
read cluster, whose targets they add to; `Sizes` is `aggregateTopicSizes`. `MessageFetch` reads pages
from a log of records, markers and gaps; `Selected` and `AfterSelected` are the cut of a page and its
`nextOffset`, `Previewed` the budget of a preview.

### ProgressStream

Store, wire and pull, for a frame beside others. `Reports` is `put` with its pruning and the
signal; `Hands` the answer of a fetch; `MainAnswers` the answer of the request, behind which everything
main sent before has arrived. In the frame `Asks` is `own`, `Released` and `GraceEnds` its end,
`ReceivesSignal`, `ReceivesEvents`, `ReceivesAnswer` the pull. `told` is history: what pages heard, what
was due, what made room.

### FrameCaches and SharedStore

`FrameCaches` has entries of both kinds of cache (`Single` is what `KafkaResourceCache` keeps without a
bound), the loads under way with the generation they began in, and the requests they share. `StartsLoad`
is `load` up to its await, `Stores` and `Fails` what follows, `Invalidates` and `ClearsAll` the
invalidations, `Evicted` the bound.

`SharedStore` has the document in main and in each frame, and those on their way. `Saves` is a frame
that writes its whole copy, `MainReceives` the `fromStore` in which main keeps its own keys, `Relays`
what goes out again, `FrameReceives` the watch, `Switches` the write mode.

### The pages: MessagePage, TopicWorkspace, TopicWrites, GroupWorkspace, TargetPage, ClusterCatalog, ConnectionDrawer

One step is an event (a click, an answer, a timer) with the renders and effects React runs before the
next one; an effect that depends on what the event changed is part of its action. A call carries what
it was made for and whether it is still the current one (an operation ID, a session number or the
`cancelled` flag of an effect); data is what it was read for.

| module | state | events |
|--------|-------|--------|
| `MessagePage` | window, cursor, session, timer, calls | `Browses`, `StartsTail`, `StopsTail`, `Polls`, answers and failures of each kind of call |
| `TopicWorkspace` | open topic and tab, `panel[k]` of four kinds of load | selections, `MetadataArrives`, `OpensTab`, `Retries`, answers |
| `TopicWrites` | ticked topics, three dialogs and their locks, requests | selections, ticks, `OpensDialog`, `OpensBatch`, `Confirms`, `Submits`, answers |
| `GroupWorkspace` | list, detail, reset drawer | `OpensGroup`, `OpensDrawer`, `TypesName`, `SubmitsReset`, answers |
| `TargetPage` | metadata, health and reachability of the selected cluster, the cache and what main has saved | selections, `Refreshes`, `RefreshesHealth`, `Paints` (the animation frame), `Invalidated`, answers |
| `ClusterCatalog` | stored catalogs, endpoints and selections; the copies of each opening of the page | `OpensClusters`, `StartsScan`, `ScanFinds`, `ScanFails`, `AddsEndpoint`, `RemovesEndpoint` |
| `ConnectionDrawer` | the drawer's target, settings, the overview that reconnects | `AppliesSettings`, `RemovesTarget`, `LookEnds` |


## 4. Runs: what is checked, with which bounds

| run | instance | states | what it shows |
|-----|----------|--------|---------------|
| `sessions` | 3 keys, 2 callers, 3 connections, maximum 2 | 93,019 | `LeasesCounted`, `OnePerKey`, `StaleNeverPooled`, `IdleHasTimer`, `BoundRespectsLeases`; `LeaseProtects`, `EvictsColdest` for every step; the refinement `ImplementsPool` |
| `ipc_invalidation` | 2 keys of 1 target, 2 requests, 1 invalidation, shutdown, 2 connections, maximum 1 | 822,432 | `ClosingIsFinal`, `CalmUnharmed` |
| `ipc_progress` | 1 key, 2 requests, 1 invalidation, shutdown | 311,606 | `EveryWaitEnds` under fairness |
| `waits` | pool: 2 keys, 2 callers, 2 connections, maximum 1; health: 2 keys of 1 target, 2 requests, 3 workers, 1 entry; 2 callers of the index; 1 request under a limit | 119,630 | `LiveWorkerOwned`, `ReplacedInTurn`, `WaitersHear`; `EveryCallReturns`, `EveryLoadEnds`, `EveryCallEnds` under fairness |
| `tunnels` | 1 session with 2 pods, 3 `kubectl`, 2 sockets | 47,220 | `NoneOutlives`, `MapServes`, `WaitsForOpening`; `EveryTunnelEnds` under fairness |
| `main_parts` | nine parts of main, see below | 644,392 | `ProgressIsHeard`, `LimitIsClean`, `ClosedOnceAndAll`, `CredentialsAreSound`, `TotalsAreBounds`, `PagesAreGapless`, `ScanServes`, `AnswersAreHeeded` |
| `frame_parts` | nine parts of a frame, see below | 1,102,951 | `ShowsItsContext`, `TailIsGapless`, `CachesAreFresh`, `WritesWhatWasConfirmed`, `NothingKnownIsLost` |
| `health_eviction`, `health_shutdown`, `health_record`, `lag_coverage`, `reset_confirmed` | small instances of `AggregateHealth`, `ClusterHealth` and `GroupWorkspace` | | five claims of the documents that the code does not keep, see below |

Every run checks its module's type invariant as well. Several properties are conjunctions, of parts that
say one thing together or of the parts of a composition:

| property | its parts |
|----------|-----------|
| `ClosingIsFinal` | `InvalidationIsFinal`, `InvalidationFindsAll`, `ShutdownLeavesNothing` (`KafkaIpcMain`) |
| `EveryTunnelEnds` | `EveryKubectlEnds`, `EverySocketAnswered`, `EverySessionCloses` (`TunnelForwarder`) |
| `EveryCallEnds` | `CallsEnd` (`GroupScan`), `LimitAnswers` (`RequestLife`) |
| `ProgressIsHeard` | `HeardInOrder`, `HeardBeforeAnswer` (`ProgressStream`) |
| `LimitIsClean` | `LeaseCoversWork`, `SilentAfterAnswer` (`RequestLife`) |
| `ClosedOnceAndAll` | `NothingLeft`, `ClosedByOne` (`BrokerConnection`) |
| `CredentialsAreSound` | `StrongestFound`, `ProfileIsSound`, `AppliedIsSound` (`CredentialProfiles`) |
| `ScanServes` | `PartialIsMarked`, `PartialIsTold`, `OneScan`, `ClearedNeverServes`, `DroppedForCause` (`GroupScan`) |
| `AnswersAreHeeded` | `StopsBatching`, `RefusalHeeded` (`GroupOffsetBatch`) |
| `TotalsAreBounds` | `OldTargetsForgiven` (`TopicSizes`), `LagIsMinimum` (`ClusterHealth`) |
| `ShowsItsContext` | `ShowsItsTopic`, `LoadingEnds` (`MessagePage`), `ShowsWhatIsOpen` (`TopicWorkspace`), `ShownOrComing` (`TargetPage`), `ShowsOpenGroup` (`GroupWorkspace`), `FoundWithSettings` (`ConnectionDrawer`), `FramesFollow` (`SharedStore`) |
| `CachesAreFresh` | `AskedSinceDropped`, `Bounded` (`FrameCaches`) |
| `WritesWhatWasConfirmed` | `SentInItsContext`, `FrozenWhileOpen` (`TopicWrites`) |
| `NothingKnownIsLost` | `DataKept` (`FrameCaches`), `FailureKeepsHealth` (`TargetPage`), `RowsKept` (`ClusterCatalog`), `SnapshotKept` (`SharedStore`) |

`sessions` and `ipc_invalidation` use the symmetry of keys, callers and connections, which no definition
tells apart; the runs with a liveness property use none.

Why these are enough to be interesting. Two callers are one that holds, and one that clears, evicts or
waits; a third connection lets an old entry survive in a snapshot of `clear` while
the key has been pooled anew. A maximum below the number of keys makes a change of key an
eviction. In `KafkaIpcMain` two requests are the one that
comes too late and the one its clean-up could harm; the invalidation repeats without limit, so any
number of generations passes. Larger instances were checked once and hold as well: in the pool three
callers (858,579 states up to symmetry); in `KafkaIpcMain` three requests with one key, two
invalidations, and two keys with three connections.

Every property has a mutant in `PROJECT.json`: a plausible slip in a mapped definition (a dropped
guard, a missing wait, a lease not counted) under which the run finds the property violated.

In `AggregateHealth` two requests, which come again without limit, are one whose work is cancelled and
one that waits for it, evicts or refreshes; a single entry makes every other key an eviction. `Worker` bounds how many
workers *run at a time*; three are one more than any violation below needs.

In `TunnelForwarder` three `kubectl` are one that is slow to exit, its successor for the same pod,
and the other pod's; two sockets share a tunnel or race for two. `Run` and `Socket` bound how many
there are at a time, and sessions follow one another without limit. Two sessions with three pods
(100,308 states up to symmetry) were checked once for the invariants and hold as well.

The bounds of `main_parts`, by part:

* progress: three events of one operation, of which the store keeps two (`PerOp`), beside an operation
  of another frame in a store with room for one (`Operations`), so that both kinds of loss happen;
* scan: three callers (one that leaves, one that stays, one that comes while the scan is aborted), one
  group on two brokers, so that its offsets can be there in part, and a clear;
* connection: two brokers (the second may fail after the first has opened), two operations that share
  the read cluster, two disconnects;
* credentials: two workloads of three kinds that differ in strength and in what they read, two visitors
  that share the reads, two scans with the key deleted between them, three overrides;
* batch: two groups and two coordinators, one of which moves, two reads;
* fetch: offsets 0 to 2 with a record, a marker or nothing at each, pages of one and two records, budgets
  of one, appends and retention between the pages;
* sizes: two topics of which either is deleted, two readers of one read cluster, one broker beside the
  case of no leader;
* health: one group with commits in three partitions of two topics, two leaders, everything may fail, and
  the index may be scanned anew or cleared between any two answers.

And of `frame_parts`: three calls of the message page over a log of three records; two entries that
compete for one place and one kept without a bound, three loads, one invalidation; two frames that save
twice while main saves once and one opening; two clusters with three topic names, one of them internal,
and both topics of the same name on both clusters; two groups; two openings of the Clusters page of one
Kubernetes cluster; three applied settings. Two clusters with the same names are what tells "of this
cluster" from "of this name". Where a page's calls are bounded (`MaxAsks`, `MaxInquiries`, `MaxReads`)
the bound is on calls that are under way at a time, and two of them can overtake each other.

### Where the code does not do what the documents say

* **Two workers of one generation** (`health_eviction`, `OneWorkerPerGeneration`).
  `evictIfNeeded` (`aggregate-health-manager.ts` L237-246) cancels the work of the entry it evicts
  and deletes the entry, and with it the only reference to that work. A load of `k1`, a load of `k2`
  that evicts it, a load of `k1` again: the second worker of `k1` runs beside the first, which is
  still being cancelled. SPEC-014 has at most one per generation (REQ-188, L536-537) and replacement
  after cancelled work has settled (L966-967). With ten entries it takes eleven generations in use.
* **A worker after the shutdown** (`health_shutdown`, `ShutdownLeavesNoWorker`). A refresh finds
  cancelled work and waits for it; `shutdown` clears the manager; the work settles, and the waiter
  calls `load` (L125), which makes an entry and starts a worker. SPEC-019, REQ-229 (L70-72) wants
  no health worker left. Nothing cancels this one: it ends by its timeout.
* **The record survives a change of security** (`health_record`, `ClosedRecordDeleted`).
  `healthInvalidate` deletes the record only when asked to (`ipc.ts` L381), and a change of the
  settings does not ask (`renderer/kafka-overview.tsx` L1243). SPEC-014 (L976-977) says that it is
  deleted.
* **A lag that misses groups shown as complete** (`lag_coverage`, `CompleteIsExact`). The worker takes the
  offsets from `all()`, awaits the watermarks, and then asks the index for the coverage
  (`cluster-health.ts` L152). The offsets it got may have been close to the end of their `ttlMs`: another
  caller then starts a new scan, in which nothing is unavailable at first (`group-fetch.ts` L126-134), or a
  refresh clears the index (L159-172). A lag from which a group is missing is reported without its `≥`
  and with coverage "complete", against SPEC-014 (REQ-187, L534-535). What does hold, and is proved, is
  `LagIsMinimum`: the number is a lower bound; an unmarked one counts every offset the worker was handed; and it
  is the true lag if the status is still that of the worker's own scan.
* **A reset of what was not confirmed** (`reset_confirmed`, `ResetsWhatWasConfirmed`). The drawer that
  resets offsets does not remember for what it was opened. When another cluster or group is selected it
  stays open with the typed name and the switch, and `resetOffsets` is sent for whatever is selected then
  (`renderer/kafka-group-pages.tsx` L373-414). A group of the same name on the other cluster passes the
  comparison with the typed name. SPEC-009 (REQ-106, L118-120) has the destination locked when the
  operation is composed, and a change of context cancel it.

The cause of the second (the waiter that loads again) has more effects than the run shows. A waiter of the old generation also loads
again after its target was *removed*, and its `setItem` creates the deleted record anew. The worker
it starts is not in `healthWorkersByTarget`, since the handler registers it before `load` only, so
that no later refresh or closing of the target cancels it. What does hold, and is proved, is the part without
evictions and closings: `ReplacedInTurn`.

What some of the properties do *not* say:

* The pool may hold more than `maxSessions`, if every session is leased. That is what the
  specification wants: `src/docs/specs/014-production-scale-performance.md` L968 has eviction
  reserve active leases.
* `CalmUnharmed` speaks of requests that began when no stale request of the same key was under way
  during an invalidation of their target. A request that begins *in the middle* of one, with the
  same session key, can lose its connection to the clean-up of a late request (`ipc.ts` L1020 and
  L1027 clear by key). The frame sends its invalidation without waiting for it and reconnects
  (`renderer/kafka-overview.tsx` L1240-1246), but a change of the settings changes the key as well,
  so that only an invalidation without a change of the settings gets there. The request fails
  and can be repeated; nothing is left open.
* `MapServes` counts the `kubectl` that serve. One that missed its deadline is told to end and may
  still be exiting when the next socket opens its successor: two processes of one pod, one tunnel.
* `EverySessionCloses`: `close()` returns when each tunnel has exited or was sent SIGKILL, so that
  "the session leaves no kubectl" is true a little later than its return. It does not wait at all for
  a `kubectl` whose `open` failed.
* `LeaseCoversWork` leaves out the ACL writes: their limit is inside the lease (`ipc.ts` L900-904), so
  that Kafka may go on writing when the lease is gone.
* `ClosedOnceAndAll` speaks of connections that have opened. When the second of two listeners fails, the
  first stays open (`kafka-connection.ts` L98), which REQ-229 does not want; `FailsToConnect` does that.
* `AskedSinceDropped` counts when a load began, not the request it joined: a load that follows an
  invalidation joins an equal request that was sent before it (`kafka-ipc-deduper.ts` L25), and what
  main had read before the invalidation then counts as fresh, against SPEC-004 (L336).
* `OldTargetsForgiven` excepts reads during which a topic was deleted or another read ran: reads share
  the targets of the read cluster, and a refresh for one may fail for another's topic, or answer
  without a topic that the other has just added.
* `RowsKept` is about discovered clusters on one page. Each opening of the Clusters page saves the
  catalogs and endpoints it read when it opened, over what another opening has saved since
  (`kafka-overview.tsx` L1116; SPEC-014, REQ-156 and L318). During a scan the rows are there but
  hidden behind its progress (`kafka-overview.tsx` L1080, L1376).
* `FramesFollow` is about messages that have arrived. Until they have, main's guard may still let a write
  through that a frame shows as off (REQ-231).
* `ShownOrComing` and `FailureKeepsHealth`: a failed refresh keeps the health, but metadata are replaced by
  the error (`kafka-resource-pages.tsx` L308-317), against SPEC-014 (REQ-166).
* `ShowsWhatIsOpen` is about partitions and sizes. The configuration of a topic is loaded again only
  if the name of the open topic changes (`kafka-topic-pages.tsx` L790), so that a topic of the same name
  on another cluster may show the configuration of the first (REQ-041).
* `PartialIsTold` has the condition that the marks of the index are still those of the scan the caller has
  read. `fetchTopicConsumers` asks for them (`group-fetch.ts` L473) after it has awaited the description of
  the groups and the watermarks; when the index was cleared or another scan has ended meanwhile, a lag
  of which only a part was read is told as exact. The cause is that of `lag_coverage`; SPEC-014 (L585-586)
  has every incomplete lag labelled, and a test (`group-fetch.test.ts` L584) shows it for an index nobody
  else uses.
* `SentInItsContext` has the end of the write mode among the changes that cancel a message or a batch, and
  not among those that cancel the deletion of a single topic. That dialog closes when the cluster or the
  topic changes (`renderer/kafka-topic-pages.tsx` L940-948); its drawer does not depend on the write mode
  (L1119) and its submission does not ask for it (L958-962), so that it stays, and sends, after the write
  mode was switched off. SPEC-009 (REQ-102, L107-109) has no write element visible then. Main's own
  guard may refuse the call, which REQ-197 calls no substitute.
* `FrozenWhileOpen` says nothing of internal topics. SPEC-009 (REQ-203, L178-180) has them "ticked one by
  one"; the code disables their boxes ("Internal topics are not deleted in batches",
  `kafka-topic-pages.tsx` L1538-1540; `CHANGELOG.md` L69 has "internal topics excluded"). `TicksOne` follows
  the code. The two documents disagree, so that no run takes a side.
* `WritesWhatWasConfirmed`: the batch is of names. Its answer keeps the failed names ticked, also when the
  cluster was changed before it came (REQ-203), and the answer to a deletion closes the dialog of whichever
  topic is open by then. Both change what is shown and send nothing.
* `CredentialsAreSound`: the strongest profile is of what could be *read*. A profile found while a Secret
  could not be read is cached like any other, and between equals the one that completes first wins.


## 5. Fairness

The `Fairness` of each module is weak fairness of these kinds of step, and of nothing else:

* a continuation whose promise has settled runs: JavaScript guarantees it;
* a connect, a disconnect, a read of credentials ends, in an answer or an error. Connecting has its
  timeout in the code (`connectionTimeout`, `main/kafka/kafka-connection.ts` L112 and
  `connect-discovered.ts` L95); that closing a socket and a request to the Kubernetes API end is
  what the code itself counts on, and an assumption about kafkajs and the host here;
* an armed timer fires;
* a health worker settles: `withTimeout` ends it after `KAFKA_CLUSTER_HEALTH_TIMEOUT_MS`, and aborting
  it disconnects the client it reads with;
* for `kubectl`: the host answers (it downloads or it fails: an assumption about the host), the
  deadline of 15 s and the late timer fire, a process that was sent SIGKILL exits, and the kernel closes
  the sockets of a process that has exited. A `kubectl` need not become ready, exit at SIGTERM, or
  exit unasked;
* for the scan of the groups (`ScanFairness`): a request to Kafka answers or fails, since KafkaJS gives
  each one a timeout, and the promises that wait for it settle;
* for a request under a limit (`RequestFairness`): its timer fires and main's own continuations run.
  Kafka need never answer it: `LimitAnswers` holds by the timer alone.

Nobody has to call, to release a lease or to invalidate: a request may hold its connection for ever.
`EveryWaitEnds` holds all the same, because an invalidation waits only for operations that *resolve*
a connection and not for those that use one. After the shutdown nothing need happen, which is why
the runs of `KafkaIpcMain`, `AggregateHealth` and `TunnelForwarder` do not check for deadlock. Nor do
those of the parts: a request, a connection or a computation ends, and the bounds on calls end the
pages. The run `sessions` does, without an end to its behaviours.

`EveryLoadEnds` has an exception, and it is real: a waiter that loads again may find work that has
been started and dropped again meanwhile, by an eviction or a closing, and nothing bounds how often.


## 6. What is proved, and how

For any sets of keys, callers and connections (keys and callers finite) and any maximum of at least
one (`SessionAssumption`):

| theorem | module | |
|---------|--------|---|
| `TypeCorrect` | `SessionManagerProofs` | `Spec => []TypeOK` |
| `OnePerKeyAlways` | `SessionManagerProofs` | `Spec => []OnePerKey` |
| `StaleConnectsDiscarded` | `SessionManagerProofs` | `Spec => []StaleNeverPooled` |
| `LeasesCountedAlways` | `SessionLeaseProofs` | `Spec => []LeasesCounted` |
| `OnlyLeasesExceedBound` | `SessionPoolProofs` | `Spec => []BoundRespectsLeases` |
| `LeasesProtect` | `SessionPoolProofs` | `Spec => LeaseProtects`, an action property |
| `IdleSessionsTimed` | `SessionLeaseProofs` | `Spec => []IdleHasTimer` |
| `UsesAlwaysOrdered` | `SessionPoolProofs` | `older` is a strict total order of the pooled sessions |
| `ColdestEvicted` | `SessionPoolProofs` | `Spec => EvictsColdest`, an action property |
| `ManagerImplementsPool` | `SessionPoolProofs` | `Spec => ImplementsPool`, the refinement of `LeasePool` |

The inductive invariant is `IInv` of `SessionManagerProofs`: `TypeOK` with three strengthenings.
`Linked` says how the two maps and the phases determine one another: a pooled connection is open and
under its key, an open one is pooled, a pending one is on its way, a key has not both. `Calls` says
what each suspended call remembers: the phases its entry can be in while it waits or holds.
`Snapshots` says that a `clear` with entries left to close is the shutdown's, and that nothing has
taken the place of those entries: no connect is pending for their keys and no other session is
pooled under them. None of `TypeOK`, `OnePerKey` and `StaleNeverPooled` is inductive without them:
`clear` deletes by key the entry of a snapshot taken many steps earlier, and only `Snapshots` rules
out that the key has another entry by then.

On top of it, `Counted` (`SessionLeaseProofs`) equates the counter of *every* connection that is
ready or open, not only of the pooled ones, with the number of its holders, which makes the lease
that is taken just before pooling part of the induction. The bound and the protection of leases
(`SessionPoolProofs`) follow from the exact count: an entry without leases has no holder, and it is
the only kind that eviction and the idle timer close.

`EvictsColdest` needs two things of a sequence of evictions. `UsesAlwaysOrdered`: whatever was used
later is above, so that the victims are the least of those without leases. `NothingToEvictAgain`: a
caller that comes back from awaiting an eviction never evicts again, because `BoundRespectsLeases` held
all the while: each eviction has made room for what its own caller added. The refinement is proved step by step: `GiveBackMoves`,
`EvictAgainMoves` and `ResumeMoves` say of each action what it does to the pooled sessions and to
their holders, and each is then a `Lease`, `Return`, `Drop`, `Revoke`, `Revoked` or a stutter. It found
that a request which was invalidated while it connected gives up a lease of its own by clearing: that
is why `Revoke` may take one.

For any targets, keys, requests, invalidations and connections (keys, requests and invalidations finite,
the callers of the pool distinct) and any maximum of at least one (`IpcAssumption`):

| theorem | module | |
|---------|--------|---|
| `IpcTypeCorrect` | `KafkaIpcProofs` | `Spec => []TypeOK` |
| `ClosingAlwaysFinal` | `KafkaIpcProofs` | `Spec => []ClosingIsFinal` |
| `CalmAlwaysUnharmed` | `KafkaIpcProofs` | `Spec => []CalmUnharmed` |

Here the requests, the closings of each invalidation and the shutdown are the callers of the pool, and
the pool's invariants hold of them through an instance of its proofs (`P`). Another instance is
`KafkaIpcMain`'s own (`S`): the lemmas `Same...` say that the two have the same actions. The last
section of `SessionPoolProofs` states what this composition needs: which calls and connections a step of
the pool leaves alone (`Rests`), and how it moves the one it is about (`GoesOn`, `Leased`, `Joined`,
`Begun`, `Cleared`). The inductive invariant `IpcInv` adds:

* `Places`: in which call of the pool a request is at each place of its operation, and for which key;
  `Awaited`: every connect that still matters is awaited by a request, so none ends unseen.
* `Invalidating`: the callback of an invalidation is not interrupted: while it has keys left to clear
  no promise has settled, and no request of its target is current.
* `Found`: what is open or on its way is registered, about to be cleared by an invalidation, or on the
  shutdown's list. `InvalidationFindsAll` also allows that a late request will clean it up; the
  invariant shows that this case never occurs alone: whoever takes a key off the registry also closes
  or marks what the pool has under it.
* `AgedEnd`: what is older than an invalidation of its target is on the list that the invalidation
  clears, or it is marked and awaited by a request that the invalidation waits for. `LateWaited`: it waits for every late
  request, whose clean-up would otherwise close sessions of after its end.
* `StaleHasLate`: behind each connect that will be rejected there is a late request of its key. Hence
  `Calm`: a request that no invalidation has to do with shares its key with no late one, so it joins no
  such connect, and nobody cleans up under it.
* `Closing`: from the first step of the shutdown nothing is registered or current, it waits for
  every request that was resolving, and after its wait nothing is alive.
* `Profiles`: a cached profile is of a registered key, so that an invalidation forgets it.

For any targets, keys (finitely many), requests and workers and any maximum of at least one entry
(`HealthAssumption`):

| theorem | module | |
|---------|--------|---|
| `HealthTypes` | `AggregateHealthProofs` | `Spec => []TypeOK`, with the bound of the cache |
| `WorkersOwned` | `AggregateHealthProofs` | `Spec => []LiveWorkerOwned` |
| `WorkersReplacedInTurn` | `AggregateHealthProofs` | `Spec => []ReplacedInTurn` |
| `WaitersAlwaysHear` | `AggregateHealthProofs` | `Spec => []WaitersHear` |

The invariant (`IInv` there) adds to the type: `Mapped`, an entry names only a running worker of its
own key; `Owned`, a running worker is named by its key's entry unless it was taken from it, and then
it is cancelled; `Waits`, a request that loads or waits does so for a running worker of its key;
`Hears`, a loading one is a listener exactly while that worker is not cancelled. `Hears` needs the equivalence:
that a refresh forgets all listeners of a key is harmless because it cancels what they listen to,
and a listener left behind by cancelled work would be told of the next worker's progress.

For any sessions, pods, `kubectl` runs and sockets, without an assumption that any of these sets is
finite (`TunnelAssumption`, `ForwarderAssumption`):

| theorem | module | |
|---------|--------|---|
| `TunnelTypes` | `TunnelForwarderProofs` | `Spec => []TypeOK` |
| `KubectlsToldToEnd` | `TunnelForwarderProofs` | `Spec => []NoneOutlives` |
| `MapServesAlways` | `TunnelForwarderProofs` | `Spec => []MapServes` |
| `SocketsWaitForOpenings` | `TunnelForwarderProofs` | `Spec => []WaitsForOpening` |

Its invariant ties the three parts of the state together. `Closing`: a session's signal is aborted
exactly from the moment its forwarder closes, so that what is opened and what is refused agree.
`Shaped`: a run that has not been spawned, or has exited, has not settled. `Named`: an entry of the
map names a run that serves or may yet serve, of its own session, no two name the same, and as long
as the session is open every such run is named. `Waiting`: so is what a socket waits for.
`MapServes` is not inductive without `Named`: a run still *preparing* must be in the map already, or
it could become ready outside it. `MapFollows` is the heart of the induction: whatever a step does,
an entry leaves the map exactly when its run stops serving or with its session.

The parts of main (`MainPartsProofs`), for any values of their constants under the assumption each
module names: bounds are numbers; the consumers and partitions whose lag is summed are finite sets; the
operations of a frame are not those of others; the containers and overrides of `CredentialProfiles` have
the fields the code gives them.

| theorem | of | why the invariant is what it is |
|---------|----|-------|
| `LimitsAreClean` | `RequestLife` | the limit that fired has told a handler that heeds it, and such a handler answers only after it has heard, or with nothing left to do |
| `ConnectionsClose` | `BrokerConnection` | the read cluster is in the hands of one disconnect at most, or of the connect that a disconnect waits for (`OneHand`); the forwarder is hooked, or some disconnect is at it (`Hooked`) |
| `ScansServe` | `GroupScan` | what was read in part of a scan that is over is among what it misses (`KeptIsMarked`), so that whoever tells a lag while the marks are of its scan tells it as a bound; the shared scan is of after the last clear and the only one that runs unaborted (`SharedRuns`); its subscribers are those who joined it (`Subscribed`); an aborted one has callers of before a clear only (`AbortedForCause`) |
| `BrokersHeeded` | `GroupOffsetBatch` | inductive with the types; the action property needs that nothing is sent once the read has stopped |
| `SizesAlwaysForgive` | `TopicSizes` | at each stage of an undisturbed read its topics exist, are targeted and sent for (`Served`), and no other read runs |
| `LagAlwaysMinimum`, `TotalsAlwaysBounds` | `ClusterHealth`, `TopicSizes` | what has been indexed was committed: the sums compare the cardinalities of three sets, what is measured, indexed and committed; while the status is of the worker's own scan, a group that it does not miss is indexed whole (`HealthInv`). The lag is the true one under that condition only, without which it is not (`lag_coverage`) |
| `PagesAlwaysGapless` | `MessageFetch` | a following page starts where the last one ended; `SelectedIsPrefix`: what the limit selects is an initial part of the records |
| `ProgressAlwaysHeard` | `ProgressStream` | the numbers of events and the cursors of the store differ by `Base`; what a cursor has passed is heard, about to be heard or trimmed (`Covers`), in order (`InOrder`), with one fetch under way per operation (`Wired`) |
| `CredentialsAlwaysSound` | `CredentialProfiles` | the workers visit different workloads, and all before the next one are visited or being visited; so the best profile is as strong as all that were read |
| `MainAlwaysTyped` | all | the bounds of sizes beside the invariants: the store names an operation once (`Distinct`), so that its length is what it holds; no cursor on the wire is beyond the events there are (`Within`); a scan fails before its first visit only (`CredBounds`); what `PreviewBudget` hands out stays within the response (`PreviewsInBudget`) |

The parts of a frame (`FramePartsProofs`), for any clusters, topics, groups, frames, calls and bounds:

| theorem | of | why the invariant is what it is |
|---------|----|-------|
| `DrawerShowsItsSettings` | `ConnectionDrawer` | what is awaited was asked with the settings in effect |
| `RowsAlwaysKept` | `ClusterCatalog` | a page on screen shows the catalog it has in memory |
| `OpenGroupAlwaysShown`, `OpenTopicAlwaysShown`, `SectionsAlwaysCome` | `GroupWorkspace`, `TopicWorkspace`, `TargetPage` | a call that is still heeded is of what is open now |
| `StoreAlwaysFollows` | `SharedStore` | the last document on its way to a frame is main's; if none is, the frame has main's or has sent its own with main's snapshot in it (`Catches`) |
| `CachesAlwaysFresh` | `FrameCaches` | an entry of a generation has its load under way, which took with it what there was (`Sound`); the order of use lists each entry once, and what an eviction takes from it is enough |
| `WritesAlwaysConfirmed` | `TopicWrites` | an open dialog stays locked to its cluster and, but for a batch, its topic, so that a change of either closes it (`InLock`); the end of the write mode closes the dialogs of messages and batches, and not that of a single topic (section 4) |
| `TailAlwaysGapless` | `MessagePage` | a running tail has one call under way or its timer armed, and goes on where the window ends (`TailsAlone`, `TimedAlone`); while a browse is awaited no tail runs (`BrowsesAlone`) |
| `FrameAlwaysTyped`, `ContextAlwaysShown`, `NothingIsEverLost` | all | conjunctions: a behaviour of the composition is one of each part |

`PreviewsInBudget` is about a fold, whose recursive function is not one the provers know to exist: it is
built up by the number of records (`TakenExists`), and a smallest set of records with too large a sum
leads to a smaller one (`TakenInBudget`).

Each preservation lemma has one step per action. The lemmas called `...Effect` give a handler's
assignments connection by connection and key by key, so that the leaves need no function update.


## 7. What is only model-checked, what is not modelled

Only model-checked: liveness under fairness, which is out of reach of the prover (`EveryCallReturns`,
`EveryWaitEnds`, `EveryLoadEnds`, the liveness of tunnels, requests and scans), and the runs that show a
violation. Every other property of a passing run is a theorem. `EveryLoadEnds` has been checked with two keys.

Abstracted: time (a timer is something that may fire, an age something that may have passed), payloads,
credentials as values (when they were read and of which kind they are matters), the number of orphaned
timers of one entry (some or none), failures of `disconnect`, whose result the pool ignores. A session
key names its context and target (`TargetOf`), as `credentialProfileKey` builds it. The composition of
parts side by side is what section 3 says it is: that the code of one part does nothing to the state of
another, but for the index that `ClusterHealth` has the status of, was read from the code and is not
itself checked.

External, and modelled from how the code uses them: KafkaJS and the brokers (they answer, fail, move
coordinators, append, retain), Kubernetes and the host's messages between main and its frames.

Not modelled yet: `restore` and the merging of progress of health workers, and the exit hook of
`kubectl`. Not modelled at all, and why:

* discovery, reachability, administration reads, codecs, MSK IAM, Schema Registry and Kafka Connect
  clients: one request each and its formatting, no state survives the call (their handlers are in
  `RequestLife`);
* the text of workloads and of certificates: `CredentialProfiles` begins at the pieces of security they
  amount to;
* the pages of ACLs, Schema Registry and Connect, and the brokers' view: they load and confirm with the
  guards of the pages that are modelled, and share nothing with them;
* the estimates of remaining time, filters, sorting, drafts and layout: they select or format what is there;
* the shell of the renderer, version checks, migration of old documents: one callback each;
* build scripts, the demo and tests: not the program.


## 8. Running it

    tlc -workers 2 -config Sessions.cfg MCSessionManager.tla
    tlc -workers 2 -config IpcInvalidation.cfg MCKafkaIpcMain.tla
    tlc -workers 2 -config IpcProgress.cfg MCKafkaIpcMain.tla
    tlc -workers 2 -config Waits.cfg MCWaits.tla
    tlc -workers 2 -config Tunnels.cfg MCTunnelForwarder.tla
    tlc -workers 2 -config MainParts.cfg MCMainParts.tla
    tlc -workers 2 -config FrameParts.cfg MCFrameParts.tla
    tlc -workers 2 -config HealthEviction.cfg MCAggregateHealth.tla
    tlc -workers 2 -config HealthShutdown.cfg MCAggregateHealth.tla
    tlc -workers 2 -config HealthRecord.cfg MCAggregateHealth.tla
    tlc -workers 2 -config LagCoverage.cfg MCClusterHealth.tla
    tlc -workers 2 -config ResetConfirmed.cfg GroupWorkspace.tla
    tlapm SessionPoolProofs.tla
    tlapm KafkaIpcProofs.tla
    tlapm AggregateHealthProofs.tla
    tlapm TunnelForwarderProofs.tla
    tlapm MainPartsProofs.tla
    tlapm FramePartsProofs.tla

The runs take from a few seconds to about three minutes each, the proofs a few
minutes, those of the parts about ten. `SessionPoolProofs`
extends the other two modules of proofs about the pool, which are checked by themselves in the same way.
