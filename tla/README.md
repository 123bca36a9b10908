# graphify-daemon: TLA+ verification project

graphify-daemon watches an Obsidian vault, keeps a knowledge graph of it in
memory and serves read-only MCP tools over that graph. This directory holds
TLA+ models of the parts of the daemon whose correctness depends on timing:
timers against locks, batches against shutdown, saves against crashes, queries
against publication, a child process against its timeout, signals against all of
them. The models are translated from `src/graphify_daemon/`;
`PROJECT.json` maps each definition to its lines.

## 1. Inventory

| Component | State | Operations | Hard part |
|---|---|---|---|
| `vault_compiler/batching.py` `VaultWatcher` | `_pending`, `_timer`, `_idle_timer`, `_rejecting_events`, `_warned_this_episode`, gauge and counter | `on_any_event`, `_queue_change`, `_flush`, `schedule_idle`, `cancel_idle`, `reject_new_events`, `drain_pending_batch`, `stop` | `Timer.cancel()` does nothing once the timer went off; `on_batch` runs outside `_lock` |
| `daemon.py`, `artifact_lifecycle/shutdown.py`, `cadence.py`, `vault_compiler/slow_cadence.py` | coordinator lock, tracker, `DaemonState`, SQLite connection | `_compile_batch`, `_on_idle_cadence`, `shutdown`, signal handler | flush threads, idle threads and main compete for one unfair lock; signals arrive inside `shutdown()` |
| `vault_compiler/extraction.py`, `artifact_lifecycle/cold_start.py`, `vault_index.py` | extraction cache with mtimes, `graph_cache.json`, `vault_index.db` | `extract_batch`, `sync_batch`, `save`, `load`, `cold_start` | files change while they are read; the process ends between two steps; changes nobody watches |
| `vault_compiler/snapshot.py`, `clustering.py`, `graph_query_api/tools.py`, `query_cache.py` | current snapshot, version counter, LRU cache | `publish`, `run_clustering_cycle`, `on_call_tool`, `QueryCache.get/set` | a call outlives its snapshot; a clustering cycle republishes a captured graph |
| `clustering.py` `run_clustering_subprocess` | pipe, child process | `get(timeout)`, `join`, `terminate` | large results, a child that dies half-way |
| `daemon.py` `main`, `run_forever`, `graph_query_api/transport.py`, `errors.py` | signal handlers, connections, worker threads | start-up, API-key gate, `uvicorn.run`, `finally: shutdown()` | signals at any point; streams that stay open; errors after the watcher started; duplicate headers |
| `graph_query_api/tools.py` `_cut_lines_to_budget` | none | cutting an answer to its token budget | positions and counts at the edges |
| `metrics.py`, `health.py` | counters, gauges, latency window | `increment`, `set_gauge`, `record_latency`, `latency_percentiles` | percentile index at the edges |
| `exclusions.py` | none | `is_excluded`, `resolve_within_vault` | moves across the boundary |
| `paths.py`, `security.py`, `logging_config.py`, `adapters/`, `migration/` | none | I/O and delegation | none |

How they interact. The watchdog thread calls `on_any_event`, which queues a
change and restarts the debounce timer. The timer's thread takes the queue and
calls `Daemon._on_batch`, which compiles under `ShutdownCoordinator._lock`:
extract into the cache, commit rows, publish a snapshot, record the batch, and
either run the slow cycle (cluster, write `graph.json`, `KNOWLEDGE.md` and
`graph_cache.json`) or start the idle timer, whose thread runs the cycle under
the same lock. Tool calls read the published reference without a lock. Main
serves until a signal, then rejects events, drains the queue, compiles the
drained batch, stops the watcher and persists under the lock.

What makes each correct: the watcher hands every accepted change over once, in
order, and strands none; the daemon ends with everything saved and never blocks
for good; the copies follow the vault; a call is answered from one snapshot; a
clustering call returns with its child gone; a signal ends in `shutdown()`.

## 2. Modules

| Module | Role |
|---|---|
| `ChangeBatcher` | abstract promise of the watcher: a queue handed over whole, once, in order, eventually; nothing accepted once closed |
| `VaultWatcher` | `batching.py`; one action per method body (each holds `_lock`) and per step of a `threading.Timer` |
| `VaultWatcherProofs` | TLAPS proofs about `VaultWatcher` |
| `Daemon`, `DaemonProofs` | composes `VaultWatcher` (`INSTANCE`) with the writer lock, the compile stages, the slow cadence, main and signals |
| `VaultSync`, `VaultSyncProofs` | contents: vault, cache, index, snapshot and `graph_cache.json` through batches, crashes and cold starts |
| `QueryServing`, `QueryServingProofs` | snapshots, clustering, tool calls and the query cache |
| `ClusterSubprocess`, `ClusterSubprocessProofs` | one clustering call: parent, child, and the pipe between them |
| `Serving`, `ServingProofs` | the main thread around `shutdown()`: start-up, signal handlers, uvicorn, clients, API-key gate |
| `ToolCalls`, `ToolCallsProofs` | the token budget of an answer and the latency window with its percentiles |
| `SequenceLemmas` | what `RemoveAt` does, for the proofs about the query cache and the waiting batches |
| `MC*` | events, requests, symmetry sets for TLC |

**VaultWatcher.** `pending`, `timer`, `idleTimer`, `rejecting`, `warned` are the
fields of the class. Each timer object is `free`, `armed` (cancel still works),
`fired` (its thread is past the cancellation test and waits for `_lock`) or
`taken` (its thread runs `on_batch`). `accepted`, `handed` and `episodes` are
history. `phase` fixes the order of shutdown's calls, which is all the watcher
relies on.

**Daemon.** `lock` is the coordinator's lock and `stage` what its holder does
next; every stage is an action, so other threads act between any two.
`extracted`, `indexed`, `published`, `graphJson`, `saved` count the changes that
reached each copy. `sinceBatch` and `idleAge` are ages in ticks. `mainPc` is
main's place in `shutdown()`. `graph.json` and `KNOWLEDGE.md` are written before
`graph_cache.json`, which is truncated (`torn`) and then filled, in separate
steps. `Raise` lets SQLite, `build_graph`, the start of the subprocess or a write fail
at any of them, and `ExtractRaises` lets `extract_batch` raise after a part of its
batch (a `stat` that fails with anything but FileNotFoundError). `lateChanges`,
`lateCycle` and `abandoned` are history: what a flush or idle thread did after main
had persisted, and the changes an extraction that raised never came to. The clustering stage ends here; when it does not is
the subject of `ClusterSubprocess`.

**VaultSync.** A file is the number of the write that produced it, which is its
content and its mtime; a move carries both. Extraction reads content and mtime
in two steps, the vault may change between, and the extractor may fail on a
file. `pos` is the change at which the loop of `extract_batch` or `sync_batch`
stands. `rows` is what `sync_batch`'s open transaction sees and `index` what is
committed: the rows are written change by change, each with a `stat` of its own,
`Commit` makes them durable and a process that ends before loses them (`Ends`).
`BatchRaises` is the exception path of `_compile_batch`, taken at any `stat`, at any
statement of `sync_batch`, at its commit, or before the publication: the thread dies
and gives the lock back, `with conn` rolls the rows back, the cache keeps what was
extracted, nothing is published, and the process goes on. `SaveRaises` is the same
for a save, which leaves the file torn. The flush threads waiting for the lock are a sequence from which any may
be next. `staleGraph` and `staleIndex` are history: they name, per path, the
known ways in which a copy may be wrong, so that the invariants state exactly
what else is right. The causes for the graph are: `unseen` (changed behind the
cold-start scan), `overtaken` (its batches compiled out of order), `mtime` (recorded
with a later mtime than its content's), `failed` (its extractor failed), `raised` (its
batch raised before it was extracted) and `unpublished` (a batch that raised changed
it and nothing has been published since). A batch that is published clears
`unpublished` for every path, because the graph is built from the whole cache, and
the others for the paths it is about. `rglob` is taken to list the files of one directory at once.

**QueryServing.** A graph is its set of nodes; a result is the pair of arguments
and what it was computed from. `on_call_tool` is split where it awaits: lookup,
execution in a worker thread, store. A call may be cancelled at its await.
`entries` is the `OrderedDict`, least recently used first; `lru_size` may be any
integer, as the environment variable may be.

**ClusterSubprocess.** `parent` is the line `run_clustering_subprocess` is at.
A message is a number of writes; the pipe holds `PipeCapacity` of them and the
child blocks when it is full. `GetTimesOut` needs an empty pipe, because the
timeout of `Queue.get` covers the wait for the first byte; `ReadSome` has none,
because `recv_bytes` has none. The child may die at any moment. External:
`multiprocessing`, modelled from its use here; `start()` is taken to return and
SIGTERM to end the child.

**Serving.** `pc` is the main thread's place from `main()` to the end of the
process; `handler` and `saved` are the installed and the remembered handlers.
`Unwind` is what an exception does at each place: out of the event loop the
runner waits for worker threads, out of the `try` comes `shutdown()`, elsewhere
the process ends. The call of `shutdown()` ends by returning (`finished`), by an
exception of its own from the drained compile or the final persist (`failed`), or by a
further signal (`interrupted`). uvicorn's part (capture, drain, restore, raise again) and
asyncio's are external. `shutdown()` itself is one step here and module `Daemon`
in detail: `pc = "shutdown"` is where `Daemon`'s `BeginShutdown` starts. A
request is its list of headers; connections are open tool calls or streams the
server never closes.

**ToolCalls.** The lines of an answer are where each ends once they are joined
(`ends`), so `"\n".join` puts its newlines at those places, and slicing, `rfind`
and `count` are comparisons, a maximum and a cardinality over them. `window` is the
deque of latencies; the n-th of the sorted samples is the least sample that n of
them do not exceed. Percentiles are integers (50, 95, 99): `int(n * p)` equals the
integer quotient for every n up to the window of 1000.

## 3. Runs

Passing runs.

| Run | Properties | Bounds |
|---|---|---|
| `watcher` | `TypeOK`, `ExactlyOnceInOrder`, `NoStrandedChange`, `OneWarningPerEpisode`, `SinglePendingIdle`, `NothingAfterDrain`, `ImplementsBatcher` | 3 debounce and 2 idle timers, 3 changes, threshold 2, an event for each reason to be ignored; 152,640 states |
| `daemon` | `TypeOK`, `LostOnlyInFlight`, `CacheLoadableAfterStop`, `NoEmptyCycle`, `UnsavedIsSaved`, `ShutdownCompletes` | 2 + 2 timers, 3 changes, threshold 3, quiet period 2 ticks, 2 signals, 1 failure; 357,095 states |
| `vault_sync` | `TypeOK`, `GraphFollowsVault`, `IndexFollowsVault`, `ExcludedStaysOut` | 2 notes, 1 excluded path, every initial vault, 2 edits, 2 starts, 2 waiting batches; 2,395,701 states |
| `query_serving` | `TypeOK`, `AnswersFromOwnSnapshot`, `CacheBounded`, `ClusteringKeepsGraph` | 2 nodes, 2 questions, 2 concurrent calls, cache of 2, 3 versions; 1,722,578 states |
| `cluster_subprocess` | `TypeOK`, `ReturnedCleanly`, `ParentReturns`, `ResultDelivered` | pipe of 2 writes, results of 1 to 4, 2 cycles; 908 states |
| `serving` | `TypeOK`, `CleanupOnEveryWayOut`, `GateAgrees`, `StopReachesShutdown` | 2 clients, 12 header lists, 3 signals; 12,742 states |
| `tool_calls` | `TypeOK`, `CutIsHonest`, `PercentilesAreQuantiles` | answers of up to 4 lines of up to 5 characters under budgets of 3, 6 and 9 characters; a window of 101 over 103 calls, 2 of them slow; 194,584 states |

Why the bounds are enough. Three debounce timers give one that went off late,
one that was forgotten and one that is current; more timers only repeat these
roles, and the theorems cover any number. `daemon` has two of each, so that its
liveness can be checked with two signals and a failure in one graph; its safety
properties also hold with three of each (148,081 states up to symmetry). Three changes with a threshold of three
give batches below the threshold that replace an armed idle timer, one that reaches it
beside an armed timer, and one that is at the threshold alone. Two edits give a change during the
extraction of another and two batches in either order; two starts give every
crash followed by a recovery. A third edit (with three waiting batches and no
excluded path: 13,546,495 states, no error) shows that a reordered path, and one whose
batch raised, is right again after its next batch. Two calls and three versions give a result computed for one snapshot
while another is published and queried, with the cache over its limit. Results of
one to four writes are below, at and above a pipe of two; a second cycle shows
what the first leaves behind. Three signals give one that is captured, one that
forces uvicorn and one that hits `shutdown()`. At 101 samples p99 leaves the
slowest call, as p95 does at 21 and p50 at 3: every percentile is checked on both
sides of the size from which it ignores one slow call, and of the size from which
it ignores two for p50 and p95.

`vault_sync` has `CHECK_DEADLOCK FALSE`: its edits and starts are bounded, so
a daemon that is down may stay so. The other runs check for deadlock.

Runs that are expected to fail. Each states a sentence of the repository's own
documentation and shows a behaviour of the code that contradicts it.

| Run | Property | What TLC shows |
|---|---|---|
| `daemon_in_flight` | `InFlightBeforePersist` | a flush thread has cleared `_pending` and not yet reached the lock; shutdown drains nothing, persists and exits without that batch |
| `vault_sync_reorder` | `LiveEditsReachGraph` | a delete and a re-creation in two batches compiled in the other order leave the file out of the graph |
| `vault_sync_torn` | `CacheNeverBlocksStart` | a process that ends while `graph_cache.json` is rewritten leaves a file `load` raises on |
| `cluster_hang` | `AlwaysReturns` | the child dies after a part of a large result; the parent, which holds the pipe's write end itself, reads on for good, with the writer lock held |
| `query_serving_communities` | `CommunitiesInGraph` | a batch publishes the previous community map beside a graph without some of its nodes, and `get_community` fails |

Further observations, built into the properties as their exceptions:

- A second signal raises `SystemExit` inside `shutdown()`, and a drained compile or a
  persist that raises leaves it too; the daemon then stays in STOPPING, although
  `run_forever`'s docstring promises the same cleanup on every way out (`signals > 1`
  and `failures > 0` in `ShutdownCompletes`, `interrupted` and `failed` in
  `CleanupOnEveryWayOut`). The lock is given back and the process does end. A first
  signal that uvicorn captured never cuts the cleanup it asks for.
- A batch that raises leaves no trace for a retry. Its rows in `vault_index.db` wait
  for the next batch about the same file (`staleIndex`); what it had extracted waits
  for the next publication (cause `"unpublished"`); and what it had not come to waits
  for the file's next change or a restart (cause `"raised"`, and `abandoned` in
  `LostOnlyInFlight`: the final persist does not have it either). `extract_batch`'s
  docstring says it never aborts the batch, but its `stat` is outside the isolation.
- Between `daemon.start()` and `run_forever`'s `try`, a signal or a
  `GRAPHIFY_DAEMON_PORT` that is no number ends the process without
  `shutdown()` (`tried` in `CleanupOnEveryWayOut`).
- A file written between its extraction and its `stat` is recorded as extracted;
  if the process ends before its own batch is saved, cold start skips it (cause
  `"mtime"` in `staleGraph`), although `README.md` says that everything "can be
  rebuilt from the vault on cold start".
- Cold start writes no row of `vault_index.db`, which the same sentence names
  (`staleIndex`).
- An idle timer that went off before the drain can run a whole cycle after the
  final persist, and the process may end while it rewrites `graph_cache.json`
  (`lateCycle` in `CacheLoadableAfterStop`: the property exempts this way to a torn
  cache by name and shows that there is no other, a failed save before it included).
- A batch that fails before its idle timer is scheduled leaves its predecessor's
  timer armed. If another idle thread saves everything meanwhile, that timer
  starts a cycle with nothing to save, which rewrites the artifacts unchanged
  (`failures = 0` in `NoEmptyCycle`; TLC finds it with a threshold of three, a
  quiet period of one tick and three idle timers).
- Where a save fails after it emptied `graph_cache.json`, the daemon goes on over a
  torn file until the next save (`SaveRaises`).
- After a failed batch the change stays in memory until the next batch or the
  shutdown (`failures > 0` in `UnsavedIsSaved`).
- The drain timeout of 5 s does not bound asyncio's wait for a running tool call,
  so a slow query delays `shutdown()` (`WorkerDone` in `Serving`'s fairness).
- `_flush` clears `_timer` also where it names a newer timer, so two debounce
  timers can be armed at once; the only effect is an early flush.
- A line that ends exactly at the budget is cut all the same, unless it is the
  first (`>=` in `CutIsHonest`).

### Fairness

`VaultWatcher`: an armed debounce timer goes off and its thread gets `_lock`,
which no step holds for longer than itself. Every event replaces the debounce timer,
so the hand-over promise in `ImplementsBatcher` is about bursts that end: the bound
`MaxAccepted` makes events stop, and a stream of events closer together than the
debounce window would put the hand-over off for as long as it lasts. `Daemon`: time passes, the holder
of the lock and main go on, timer threads go on, and a waiter for the lock gets
it eventually. `threading.Lock` promises no order; with finitely many batches
(bound `MaxAccepted`) weak fairness is what the scheduler gives. Nothing is
assumed of events, signals or the moment of shutdown. The stage that clusters is
taken to end; `ParentReturns` is what justifies this, with the one exception it
names. `ClusterSubprocess`: the parent runs and its timeouts expire, the child's
feeder thread writes when there is room, a terminated child ends; nothing is
assumed of how long clustering takes or of the child's exit. `Serving`: the main
thread runs, the drain timeout expires, a tool call in a worker thread ends (it
is a finite computation), `shutdown()` comes to an end, by returning or raising
(`ShutdownCompletes`); clients need do nothing.

Timing assumption (`Tick`): what follows the long stages of `run_batch`, the
hand-over of a free lock, and main's own short steps take far less than the
quiet period of 60 s. `NoEmptyCycle` depends on it.

## 4. Proofs

`VaultWatcherProofs` proves, for every set of paths, events and timers, every
threshold and every bound:

| Theorem | States |
|---|---|
| `TypeCorrect` | `Spec => []TypeOK` |
| `NoChangeLost` | `Spec => []ExactlyOnceInOrder` |
| `NoChangeStranded` | `Spec => []NoStrandedChange` |
| `WarningsCorrect` | `Spec => []OneWarningPerEpisode` |
| `SingleIdleTimer` | `Spec => []SinglePendingIdle` |
| `DrainIsFinal` | `Spec => NothingAfterDrain` |
| `ImplementsBatcherSafety` | initial states map to initial states of `ChangeBatcher`, steps to steps or stuttering |

Assumptions: `ThresholdAssumption` (the threshold is an integer, also zero or
negative, as the environment variable may be), `NoneAssumption` (None is
no timer and no path), `EventsAssumption` (the shape of a watchdog event).

The inductive invariant `WatcherInv` is the conjunction of the invariants and
`ShutdownInOrder`. `NoStrandedChange` is inductive only with the type of
`timers` and because a free timer is chosen for a new change: cancelling the
timer `_timer` names cannot hit the new one. `OneWarningPerEpisode` needs its
own second part (`warned` exactly while the queue is at or above the threshold
and not empty), without which a depth that equals the threshold might already be warned of.
`NothingAfterDrain` needs `ShutdownInOrder`: events are rejected from the first
call on, so the queue the drain emptied stays empty and a late flush takes its
early return.

`ClusterSubprocessProofs` proves `ClusterTypeCorrect` (`Spec => []TypeOK`) and
`CleanReturn` (`Spec => []ReturnedCleanly`) for every pipe capacity, result size
and number of cycles (`CapacityAssumption`: the pipe holds at least one write).
The invariant adds `PhaseInv`: without "an idle parent has no live child" a child
could act after the return and undo what `ReturnedCleanly` says of it.

`ServingProofs` proves, for any clients, requests and number of signals,
`CleanupGuaranteed` (`Spec => []CleanupOnEveryWayOut`), `TypeCorrect` and
`GateLetsInTheKey` (`Spec => []GateAgrees`). The argument for the first is about
handlers: `HandlersInv` says that from the `try` on the default handlers are never
installed, not even after uvicorn's restore, because what uvicorn saved are the
daemon's; `ProgressInv` counts the calls of `shutdown()` by place. A signal is then
either captured or raises into the `finally`. The call of `shutdown()` may return,
raise or be cut; that only a further signal cuts it needs that a captured signal has
been counted (`captured # None => signals >= 1`). The gate's theorem rests on
`SingleHeaderMeans`: `_single_header` gives a value exactly if one header has the
name. It holds for every list of headers over all strings. Assumptions:
`NoneAssumption` (None is no signal and no header value) and `GateAssumption` (a
request is a list of headers, and the key is a non-empty string, which is all
`validate_api_key` lets through).

`QueryServingProofs` proves, for every set of nodes, questions and calls, every
cache size and every number of publications:

| Theorem | States |
|---|---|
| `TypeCorrect` | `Spec => []TypeOK` |
| `AnswersAreOwn` | `Spec => []AnswersFromOwnSnapshot` |
| `CacheStaysBounded` | `Spec => []CacheBounded` |
| `ClusteringNeverReverts` | `Spec => []ClusteringKeepsGraph` |

`AnswersFromOwnSnapshot` compares a cached text with a snapshot that is no longer
published, so its induction needs the past. `ServingInv` says that there is a
function `G` from versions to graphs (`FollowsHistory`) which the current
snapshot, every snapshot a call still holds and every cache entry agree with. A
publication extends `G` at `nextVersion`, which nobody refers to yet; an entry
found under the version of a call's snapshot then holds the call's own answer.
`CallsInOrder` adds what a call carries at each place. Eviction and move-to-end
are covered by lemmas on `RemoveAt`, `Tail` and `Append`. Assumptions:
`SizeAssumption` (the cache size is an integer), `NoneAssumption`.

`DaemonProofs` proves, for every set of timers and events, every threshold, quiet
period and number of signals, failures and changes:

| Theorem | States |
|---|---|
| `DaemonImplementsWatcher` | `Spec => Watcher!Spec` |
| `WatcherInvariantInDaemon` | `Spec => []WatcherProofs!WatcherInv` |
| `TypeCorrect` | `Spec => []TypeOK`, which includes that the lock's holder is alive |
| `StoppedCacheLoads` | `Spec => []CacheLoadableAfterStop` |
| `LedgerBalances` | `Spec => []Ledger` |
| `ShutdownLosesOnlyInFlight` | `Spec => []LostOnlyInFlight` |
| `IdleTimersKeepTime` | `Spec => []IdleTiming` |
| `NoCycleWithNothingToSave` | `Spec => NoEmptyCycle` |

The daemon uses the watcher as `VaultWatcher` says it is to be used, which is a
theorem and not an assumption: every daemon step is a watcher step or leaves the
watcher alone. The watcher's own theorems are therefore available in the daemon
and are not proved again.

- `DaemonInv` ties the holder of the lock to its stage (`StageOfHolder`), main's
  place to the watcher's phase (`WatcherPhase`), and says that only the final
  persist closes the connection and what happens after it is a late flush or idle
  thread (`PersistIsLast`). `CacheLoadableAfterStop` follows from the last.
- `Ledger` is what `LostOnlyInFlight` needs to be inductive: at all times the
  accepted changes are at most those extracted, held by flush threads, pending,
  drained, or abandoned by an extraction that raised. A change that is extracted while its thread still holds it is counted
  twice and subtracted once (`CountedTwice`). The drain empties the queue for good
  (the watcher's invariant), the persist turns `extracted` into `saved`.
- `IdleTiming` is what `NoEmptyCycle` needs: the tracker counts only what is
  unsaved, the batch that reaches the threshold runs the cycle itself, no idle
  thread runs a cycle beside an armed timer, and beside an armed timer, or with
  everything saved, an idle thread that waits finds that no quiet period has passed.

TLC checked the inductive parts (`DaemonInv`, `Ledger`, `IdleTiming`) before
they were proved, with thresholds of two and three. The proof attempt is what
showed that `NoEmptyCycle` needs `failures = 0` (section 3). Assumptions:
`WatcherAssumption` (what `VaultWatcher` assumes of the constants it shares) and
`DaemonAssumption` (threads are distinct; change threshold and quiet period are
positive, as `main()` leaves them at their defaults of 25 and 60 s).

`VaultSyncProofs` proves, for every finite set of notes and excluded paths and
every number of edits, starts and waiting batches:

| Theorem | States |
|---|---|
| `TypeCorrect` | `Spec => []TypeOK` |
| `SyncInvariant` | `Spec => []SyncInv` |
| `GraphIsCurrent` | `Spec => []GraphFollowsVault` |
| `IndexIsCurrent` | `Spec => []IndexFollowsVault` |
| `ExclusionHolds` | `Spec => []ExcludedStaysOut` |

`GraphFollowsVault` and `IndexFollowsVault` speak only of moments when nothing is
on its way; `SyncInv` says, note by note, what holds in between.

- `ChangesAgree`: the newest change about a note, in the queue, in a waiting batch
  or in the one that is compiled, agrees with the vault (there is a file exactly if
  that change left one), unless the batch it is in was overtaken. An edit makes
  itself the newest; taking a batch moves it whole; a batch that starts out of turn
  marks those it passes. This is why extraction may skip a missing file and read a
  newer one: a later change is then on its way.
- `ExtractInv` and `RowsInv`: a note whose last change lies behind the loop of
  `extract_batch` or `sync_batch` is in the cache or in the open transaction as it
  is in the vault, unless a change about it is still waiting; `ReadInv` is the same
  between the extractor's read and the `stat`.
- `RestInv`: a note no change on its way is about is in the cache as in the vault,
  unless a cause other than `unpublished` is on record; `SnapInv`: the
  snapshot has of a note what the cache has, unless `unpublished` is or the batch that is
  compiled is about it. A batch
  that raises keeps both (`RaiseNote`): what its loop had come through is as
  `ExtractInv` says, the rest gets the cause `raised`, all of it `unpublished`, and the
  index is back at its last commit, with the batch's paths in `staleIndex`.
  `ScanInv` is the same for the part of the vault cold start has scanned.
- `ExcludedStaysOut` is inductive by itself, given the types and that `stat`
  follows only an extraction of a note (`PhaseInv`).

No induction over a batch is needed, because its changes are steps of the
specification. TLC checked `SyncInv` first, on the instance of `vault_sync` and on
one with three edits and three waiting batches. Assumptions: `VaultSyncAssumption`
(paths are finitely many, no path is both a note and excluded, None is neither a
path nor a record).

`ToolCallsProofs` proves, for every number of lines and line length, every set of
budgets of at least one token (the schema's minimum), every window size and number
of calls:

| Theorem | States |
|---|---|
| `TypeCorrect` | `Spec => []TypeOK`: the window is the last `LatencyWindow` calls |
| `AnswersAreCutHonestly` | `Spec => []CutIsHonest` |
| `ReportsQuantiles` | `Spec => []PercentilesAreQuantiles` |

The invariant `CallInv` adds that the ends of the lines rise, so that no two
newlines coincide and none is at 0. Then the newlines before a cut are those of the
first lines, without a gap (`NoGap`), their number is the index of the line the cut
ends (`NewlinesBefore`), and `rfind` gives the last line end below the budget
(`CutShape`); `CutHonest` puts the cases together. For the percentiles,
`PercentileIndex` is the greatest index that leaves no more than the given
percentage before it (`IndexIs`), and at the n-th sorted sample at least n samples
are no larger and fewer than n smaller (`SortedAtIs`). Latencies are fast or slow, as
in the model: two values are what the place of a quantile tells apart. Where the code's `int(n * p)`
with a floating-point p would differ from the integer quotient the theorem would
not apply; it does not up to the default window of 1000. Assumptions:
`ToolCallsAssumption` (types and signs of the constants).

Only model-checked:

- All liveness (`UnsavedIsSaved`, `ShutdownCompletes`, `ParentReturns`,
  `ResultDelivered`, `StopReachesShutdown`, the hand-over promise in
  `ImplementsBatcher`): fairness and ENABLED are beyond the prover.

Every other property of the passing runs is a theorem.

## 5. Not modelled

The wording of tool answers and of `KNOWLEDGE.md`, the extractors, the search and
the clustering algorithm of `graphifyy`, path parsing and symlink resolution (fixed
sets of paths here), SQLite's own locking, the hit rate, RSS and git revision,
permissions, logging, the MCP library's Host check, the migration comparator: they
are formatting, I/O, or code outside the repository. `PROJECT.json` gives the
reason for each component.

## 6. Plan

Done: watcher (model, refinement, proofs), daemon (model, refinement of the
watcher, proofs), contents, query serving, clustering subprocess, serving and tool
calls (models, proofs).

Next: `is_excluded` over paths as sequences of parts, so that `Hidden` and
`Excluded` become what the function computes.
