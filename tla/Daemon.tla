------------------------------- MODULE Daemon -------------------------------
(***************************************************************************)
(* daemon.py with artifact_lifecycle/shutdown.py, slow_cadence.py and      *)
(* cadence.py on top of VaultWatcher: flush threads and idle-timer threads *)
(* that compile under the ShutdownCoordinator's lock, the slow cadence,    *)
(* and the main thread that serves, is told to stop, and shuts down.       *)
(*                                                                         *)
(* The lock is a threading.Lock: any waiter may get it next.  Contents are *)
(* abstracted to how many accepted changes have reached the extraction     *)
(* cache, vault_index.db, the published snapshot and the files on disk;    *)
(* the order in which batches arrive there is VaultSync's subject.         *)
(***************************************************************************)
EXTENDS Integers, Sequences, FiniteSets

CONSTANTS
  Paths, Excluded, Outside, Events, Timers, IdleTimers, None,
  PendingWarnThreshold, MaxAccepted,    \* the watcher's, see VaultWatcher
  Main,               \* the main thread, as a holder of the lock
  ChangeThreshold,    \* slow_cadence_change_threshold
  QuietTicks,         \* slow_cadence_quiet_seconds, in clock ticks
  MaxSignals,         \* bound: signals, the one that ends serving included
  MaxFailures         \* bound: exceptions that end a compile or a persist

\* What VaultWatcher assumes of its constants
ASSUME WatcherAssumption ==
  /\ PendingWarnThreshold \in Int
  /\ None \notin Timers /\ None \notin IdleTimers /\ None \notin Paths
  /\ Events \subseteq [type : STRING, isDir : BOOLEAN, src : Paths, dest : Paths]
ASSUME DaemonAssumption ==
  /\ Main \notin Timers \cup IdleTimers \cup {None}
  /\ Timers \cap IdleTimers = {}
  /\ ChangeThreshold \in Nat \ {0}
  /\ QuietTicks \in Nat \ {0}
  /\ MaxSignals \in Nat /\ MaxFailures \in Nat

VARIABLES
  pending, timer, timers, batchOf, idleTimer, idleTimers, rejecting, warned,
  queueDepth, warnings, phase, drained, accepted, handed, episodes,
  lock,         \* holder of ShutdownCoordinator._lock
  stage,        \* how far the holder has got
  extracted,    \* changes applied to the ExtractionCache
  indexed,      \* changes committed to vault_index.db
  published,    \* changes the current snapshot was built from
  graphJson,    \* changes graph.json and KNOWLEDGE.md were written from
  saved,        \* changes the last complete graph_cache.json was written from
  torn,         \* graph_cache.json has been emptied and not yet filled again
  connOpen,     \* vault_index_conn is open
  accumulated,  \* SlowCadenceTracker._accumulated_changes
  sinceBatch,   \* ticks since SlowCadenceTracker._last_batch_at, at most QuietTicks
  idleAge,      \* ticks since each idle timer was started, at most QuietTicks
  state,        \* DaemonState
  mainPc,       \* where the main thread is
  signals, failures,   \* how many there were
  lateChanges,  \* history: changes whose compile ran after the final persist
  abandoned,    \* history: changes that an extraction that raised never came to
  lateCycle     \* history: a slow-cadence cycle began after the final persist

Watcher == INSTANCE VaultWatcher

watcherVars == <<pending, timer, timers, batchOf, idleTimer, idleTimers, rejecting,
                 warned, queueDepth, warnings, phase, drained, accepted, handed, episodes>>
artifactVars == <<graphJson, saved, torn>>
dataVars == <<extracted, indexed, published, artifactVars, connOpen>>
trackerVars == <<accumulated, sinceBatch, idleAge>>
mainVars == <<state, mainPc, signals>>
lateVars == <<lateChanges, abandoned, lateCycle>>
vars == <<watcherVars, lock, stage, dataVars, trackerVars, mainVars, failures, lateVars>>

-----------------------------------------------------------------------------
(* SlowCadenceTracker *)

ShouldTrigger(count, quiet) == count >= ChangeThreshold \/ quiet >= QuietTicks

\* Mutated form of Reset: the quiet period is not started again.
ResetCountOnly == accumulated' = 0 /\ UNCHANGED <<sinceBatch, idleAge>>

Reset == accumulated' = 0 /\ sinceBatch' = 0 /\ UNCHANGED idleAge

-----------------------------------------------------------------------------
Init ==
  /\ Watcher!Init
  /\ lock = None /\ stage = "none"
  /\ extracted = 0 /\ indexed = 0 /\ published = 0 /\ graphJson = 0 /\ saved = 0
  /\ torn = FALSE
  /\ connOpen = TRUE
  /\ accumulated = 0 /\ sinceBatch = 0 /\ idleAge = [t \in IdleTimers |-> 0]
  /\ state = "RUNNING" /\ mainPc = "serving"
  /\ signals = 0 /\ failures = 0
  /\ lateChanges = 0 /\ abandoned = 0 /\ lateCycle = FALSE

-----------------------------------------------------------------------------
(* The watcher's own steps and the clock *)

\* The process has not ended: timer threads are daemon threads and end with it.
Alive == mainPc # "exited"

\* An idle timer goes off no earlier than quiet_seconds after its start.
WatcherStep ==
  /\ Alive
  /\ \/ \E e \in Events : Watcher!OnAnyEvent(e)
     \/ \E t \in Timers : Watcher!Fire(t) \/ Watcher!Flush(t) \/ Watcher!FlushNothing(t)
     \/ \E t \in IdleTimers : idleAge[t] = QuietTicks /\ Watcher!IdleFire(t)
  /\ UNCHANGED <<lock, stage, dataVars, trackerVars, mainVars, failures, lateVars>>

WantsLock ==
  \/ \E t \in Timers : timers[t] = "taken"
  \/ \E t \in IdleTimers : idleTimers[t] = "fired"
  \/ mainPc \in {"compile", "persist"}

Older(n) == IF n < QuietTicks THEN n + 1 ELSE n

\* Time passes: while nobody needs the lock, and while its holder extracts,
\* uses SQLite, clusters or writes files.  Timing assumption: what is left of
\* run_batch after that, the hand-over of a free lock, and what main does in
\* shutdown() but for the drained compile take far less than the quiet
\* period (60 s).
Tick ==
  /\ lock # None \/ ~WantsLock
  /\ stage \notin {"schedule", "cancel", "release", "persist", "persistFill"}
  /\ mainPc \in {"serving", "compile", "persist"}
  /\ sinceBatch' = Older(sinceBatch)
  /\ idleAge' = [t \in IdleTimers |->
                   IF idleTimers[t] = "armed" THEN Older(idleAge[t]) ELSE idleAge[t]]
  /\ UNCHANGED <<watcherVars, lock, stage, dataVars, accumulated, mainVars,
                 failures, lateVars>>

-----------------------------------------------------------------------------
(* run_batch: take the lock, compile, give it back *)

\* _on_batch on a flush thread
BeginBatch(t) ==
  /\ Alive
  /\ lock = None
  /\ timers[t] = "taken"
  /\ lock' = t
  /\ stage' = "extract"
  /\ UNCHANGED <<watcherVars, dataVars, trackerVars, mainVars, failures, lateVars>>

\* shutdown compiles the drained batch itself
BeginDrained ==
  /\ lock = None
  /\ mainPc = "compile"
  /\ lock' = Main
  /\ stage' = "extract"
  /\ UNCHANGED <<watcherVars, dataVars, trackerVars, mainVars, failures, lateVars>>

\* _on_idle_cadence and run_slow_cadence_cycle's test
BeginIdle(t) ==
  /\ Alive
  /\ lock = None
  /\ idleTimers[t] = "fired"
  /\ lock' = t
  /\ stage' = IF ShouldTrigger(accumulated, sinceBatch) THEN "cluster" ELSE "release"
  /\ lateCycle' = (lateCycle \/ ~connOpen)
  /\ UNCHANGED <<watcherVars, dataVars, trackerVars, mainVars, failures, lateChanges,
                 abandoned>>

BatchSize == Len(IF lock = Main THEN drained ELSE batchOf[lock])

Extract ==
  /\ stage = "extract"
  /\ extracted' = extracted + BatchSize
  /\ stage' = "sync"
  /\ lateChanges' = IF connOpen THEN lateChanges ELSE lateChanges + BatchSize
  /\ UNCHANGED <<watcherVars, lock, indexed, published, artifactVars, connOpen,
                 trackerVars, mainVars, failures, abandoned, lateCycle>>

Sync ==
  /\ stage = "sync"
  /\ connOpen
  /\ indexed' = indexed + BatchSize
  /\ stage' = "publish"
  /\ UNCHANGED <<watcherVars, lock, extracted, published, artifactVars, connOpen,
                 trackerVars, mainVars, failures, lateVars>>

\* publish, record_batch, and run_slow_cadence_cycle's test
Publish ==
  /\ stage = "publish"
  /\ published' = extracted
  /\ accumulated' = accumulated + BatchSize
  /\ sinceBatch' = 0
  /\ stage' = IF ShouldTrigger(accumulated', 0) THEN "cluster" ELSE "schedule"
  /\ UNCHANGED <<watcherVars, lock, extracted, indexed, artifactVars, connOpen,
                 idleAge, mainVars, failures, lateVars>>

\* run_clustering_cycle; what it publishes is built from the same graph
Cluster ==
  /\ stage = "cluster"
  /\ stage' = "save"
  /\ UNCHANGED <<watcherVars, lock, dataVars, trackerVars, mainVars, failures, lateVars>>

\* write_graph_json and write_knowledge_md, then ExtractionCache.save begins:
\* write_text empties the file ...
WriteArtifacts ==
  /\ stage = "save"
  /\ graphJson' = published
  /\ torn' = TRUE
  /\ stage' = "fill"
  /\ UNCHANGED <<watcherVars, lock, extracted, indexed, published, saved, connOpen,
                 trackerVars, mainVars, failures, lateVars>>

\* ... and fills it; then the tracker is reset.
SaveArtifacts ==
  /\ stage = "fill"
  /\ saved' = extracted
  /\ torn' = FALSE
  /\ Reset
  /\ stage' = IF lock \in IdleTimers THEN "release" ELSE "cancel"
  /\ UNCHANGED <<watcherVars, lock, extracted, indexed, published, graphJson, connOpen,
                 mainVars, failures, lateVars>>

\* Mutated form of ScheduleIdle: no timer is started after a small batch.
ScheduleNothing ==
  /\ stage = "schedule"
  /\ stage' = "release"
  /\ UNCHANGED <<watcherVars, lock, dataVars, trackerVars, mainVars, failures, lateVars>>

ScheduleIdle ==
  /\ stage = "schedule"
  /\ \E t \in IdleTimers :
        /\ Watcher!ScheduleIdle(t)
        /\ idleAge' = [idleAge EXCEPT ![t] = 0]
  /\ stage' = "release"
  /\ UNCHANGED <<lock, dataVars, accumulated, sinceBatch, mainVars, failures, lateVars>>

CancelIdle ==
  /\ stage = "cancel"
  /\ Watcher!CancelIdle
  /\ stage' = "release"
  /\ UNCHANGED <<lock, dataVars, trackerVars, mainVars, failures, lateVars>>

\* The holder's thread leaves run_batch: a timer's thread ends, main goes to `pc`.
LeaveLock(pc) ==
  /\ lock' = None
  /\ stage' = "none"
  /\ \/ lock = Main /\ mainPc' = pc /\ UNCHANGED watcherVars
     \/ lock \in Timers /\ Watcher!BatchDone(lock) /\ UNCHANGED mainPc
     \/ lock \in IdleTimers /\ Watcher!IdleDone(lock) /\ UNCHANGED mainPc
  /\ UNCHANGED <<state, signals>>

\* Mutated form of Release: the thread ends without giving the lock back.
ReleaseForgotten ==
  /\ stage = "release"
  /\ stage' = "none"
  /\ \/ lock = Main /\ mainPc' = "stop" /\ UNCHANGED watcherVars
     \/ lock \in Timers /\ Watcher!BatchDone(lock) /\ UNCHANGED mainPc
     \/ lock \in IdleTimers /\ Watcher!IdleDone(lock) /\ UNCHANGED mainPc
  /\ UNCHANGED <<lock, state, signals, dataVars, trackerVars, failures, lateVars>>

Release ==
  /\ stage = "release"
  /\ LeaveLock("stop")
  /\ UNCHANGED <<dataVars, trackerVars, failures, lateVars>>

\* extract_batch raises: stat fails on a file that was extracted.  The cache
\* keeps the changes before it, the others are not looked at.
ExtractRaises ==
  /\ stage = "extract"
  /\ failures < MaxFailures
  /\ failures' = failures + 1
  /\ \E n \in 0..(BatchSize - 1) :
       /\ extracted' = extracted + n
       /\ abandoned' = IF connOpen THEN abandoned + (BatchSize - n) ELSE abandoned
  /\ lateChanges' = IF connOpen THEN lateChanges ELSE lateChanges + BatchSize
  /\ LeaveLock("aborted")
  /\ UNCHANGED <<indexed, published, artifactVars, connOpen, trackerVars, lateCycle>>

\* SQLite, build_graph, the start of the subprocess or a file write raises,
\* between any two of the writes: a timer's thread dies, shutdown is left.
Raise ==
  /\ \/ stage = "sync" /\ ~connOpen /\ UNCHANGED <<failures, graphJson, torn>>
     \/ /\ stage \in {"sync", "publish", "cluster", "fill", "persistFill"}
        /\ failures < MaxFailures
        /\ failures' = failures + 1
        /\ UNCHANGED <<graphJson, torn>>
     \/ /\ stage \in {"save", "persist"}
        /\ failures < MaxFailures
        /\ failures' = failures + 1
        /\ graphJson' \in {graphJson, published}
        /\ UNCHANGED torn
  /\ LeaveLock("aborted")
  /\ UNCHANGED <<extracted, indexed, published, saved, connOpen, trackerVars, lateVars>>

-----------------------------------------------------------------------------
(* The main thread *)

\* transport.run ends, by a signal (uvicorn re-raises it once it has stopped
\* serving) or by returning, and shutdown() passes its test of _state.
BeginShutdown ==
  /\ mainPc = "serving"
  /\ signals' = signals + 1
  /\ state' = "STOPPING"
  /\ mainPc' = "reject"
  /\ UNCHANGED <<watcherVars, lock, stage, dataVars, trackerVars, failures, lateVars>>

\* Mutated form of SignalAgain: the lock is not given back.
SignalKeepsLock ==
  /\ signals < MaxSignals
  /\ mainPc \in {"reject", "drain", "compile", "stop", "persist", "mark"}
  /\ signals' = signals + 1
  /\ mainPc' = "aborted"
  /\ UNCHANGED <<watcherVars, lock, stage, dataVars, trackerVars, state, failures, lateVars>>

\* A further signal raises SystemExit wherever shutdown() is; a held lock is
\* given back on the way out.
SignalAgain ==
  /\ signals < MaxSignals
  /\ mainPc \in {"reject", "drain", "compile", "stop", "persist", "mark"}
  /\ signals' = signals + 1
  /\ mainPc' = "aborted"
  /\ lock' = IF lock = Main THEN None ELSE lock
  /\ stage' = IF lock = Main THEN "none" ELSE stage
  /\ UNCHANGED <<watcherVars, dataVars, trackerVars, state, failures, lateVars>>

Reject ==
  /\ mainPc = "reject"
  /\ Watcher!RejectNewEvents
  /\ mainPc' = "drain"
  /\ UNCHANGED <<lock, stage, dataVars, trackerVars, state, signals, failures, lateVars>>

\* Mutated form of Drain: the drained batch is not compiled.
DrainDiscard ==
  /\ mainPc = "drain"
  /\ Watcher!DrainPendingBatch
  /\ mainPc' = "stop"
  /\ UNCHANGED <<lock, stage, dataVars, trackerVars, state, signals, failures, lateVars>>

Drain ==
  /\ mainPc = "drain"
  /\ Watcher!DrainPendingBatch
  /\ mainPc' = IF pending = <<>> THEN "stop" ELSE "compile"
  /\ UNCHANGED <<lock, stage, dataVars, trackerVars, state, signals, failures, lateVars>>

StopWatcher ==
  /\ mainPc = "stop"
  /\ Watcher!Stop
  /\ mainPc' = "persist"
  /\ UNCHANGED <<lock, stage, dataVars, trackerVars, state, signals, failures, lateVars>>

\* ShutdownCoordinator.shutdown takes the lock
BeginPersist ==
  /\ mainPc = "persist"
  /\ lock = None
  /\ lock' = Main
  /\ stage' = "persist"
  /\ UNCHANGED <<watcherVars, dataVars, trackerVars, mainVars, failures, lateVars>>

\* persist_on_shutdown: the same writes, whatever the tracker says, ...
PersistArtifacts ==
  /\ stage = "persist"
  /\ graphJson' = published
  /\ torn' = TRUE
  /\ stage' = "persistFill"
  /\ UNCHANGED <<watcherVars, lock, extracted, indexed, published, saved, connOpen,
                 trackerVars, mainVars, failures, lateVars>>

\* Mutated form of Persist: the lock is given back before the cache is filled.
PersistEarly ==
  /\ stage = "persistFill"
  /\ connOpen' = FALSE
  /\ LeaveLock("mark")
  /\ UNCHANGED <<extracted, indexed, published, artifactVars, trackerVars, failures,
                 lateVars>>

\* ... and the connection is closed.
Persist ==
  /\ stage = "persistFill"
  /\ saved' = extracted
  /\ torn' = FALSE
  /\ connOpen' = FALSE
  /\ LeaveLock("mark")
  /\ UNCHANGED <<extracted, indexed, published, graphJson, trackerVars, failures, lateVars>>

MarkStopped ==
  /\ mainPc = "mark"
  /\ state' = "STOPPED"
  /\ mainPc' = "done"
  /\ UNCHANGED <<watcherVars, lock, stage, dataVars, trackerVars, signals, failures, lateVars>>

\* main() returns or SystemExit leaves it; daemon threads die with the process.
Exit ==
  /\ mainPc \in {"done", "aborted"}
  /\ mainPc' = "exited"
  /\ lock' = None
  /\ stage' = "none"
  /\ UNCHANGED <<watcherVars, dataVars, trackerVars, state, signals,
                 failures, lateVars>>

-----------------------------------------------------------------------------
HolderStep ==
  Extract \/ Sync \/ Publish \/ Cluster \/ WriteArtifacts \/ SaveArtifacts
    \/ ScheduleIdle \/ CancelIdle \/ Release \/ ExtractRaises \/ Raise
    \/ PersistArtifacts \/ Persist

MainStep == BeginDrained \/ Reject \/ Drain \/ StopWatcher \/ BeginPersist \/ MarkStopped

Exited == mainPc = "exited" /\ UNCHANGED vars

Next ==
  \/ WatcherStep
  \/ Tick
  \/ \E t \in Timers : BeginBatch(t)
  \/ \E t \in IdleTimers : BeginIdle(t)
  \/ HolderStep
  \/ MainStep
  \/ BeginShutdown
  \/ SignalAgain
  \/ Exit
  \/ Exited

Spec == Init /\ [][Next]_vars

\* Every thread that can go on does; a free lock is given to each waiter in
\* turn for as long as batches stop coming.  Nothing is assumed of events,
\* signals, failures or of when the daemon is told to stop.
Fairness ==
  /\ WF_vars(Tick) /\ WF_vars(HolderStep) /\ WF_vars(MainStep) /\ WF_vars(Exit)
  /\ \A t \in Timers :
       /\ WF_vars(BeginBatch(t))
       /\ WF_vars(WatcherStep /\ Watcher!Fire(t))
       /\ WF_vars(WatcherStep /\ Watcher!Flush(t))
  /\ \A t \in IdleTimers :
       /\ WF_vars(BeginIdle(t))
       /\ WF_vars(WatcherStep /\ Watcher!IdleFire(t))

FairSpec == Spec /\ Fairness

-----------------------------------------------------------------------------
(* Properties *)

\* The holder of the lock is always a thread inside run_batch or shutdown.
HolderIsLive ==
  /\ lock = None <=> stage = "none"
  /\ lock \in Timers => timers[lock] = "taken"
  /\ lock \in IdleTimers => idleTimers[lock] = "fired"
  /\ lock = Main => mainPc \in {"compile", "persist"}

TypeOK ==
  /\ Watcher!TypeOK
  /\ HolderIsLive
  /\ lock \in Timers \cup IdleTimers \cup {Main, None}
  /\ stage \in {"none", "extract", "sync", "publish", "cluster", "save", "fill",
                "schedule", "cancel", "release", "persist", "persistFill"}
  /\ {extracted, indexed, published, graphJson, saved, accumulated, lateChanges,
      abandoned} \subseteq Nat
  /\ sinceBatch \in 0..QuietTicks /\ idleAge \in [IdleTimers -> 0..QuietTicks]
  /\ {connOpen, torn, lateCycle} \subseteq BOOLEAN
  /\ state \in {"RUNNING", "STOPPING", "STOPPED"}
  /\ mainPc \in {"serving", "reject", "drain", "compile", "stop", "persist", "mark",
                 "done", "aborted", "exited"}
  /\ signals \in Nat /\ failures \in 0..MaxFailures

\* The changes flush threads hold, and how many there are
HeldChanges == UNION {{t} \X DOMAIN batchOf[t] : t \in Timers}
InFlight == Cardinality(HeldChanges)

\* A completed shutdown loses no accepted change except those a flush thread
\* already held and had not yet brought to the writer lock when main took it,
\* and those an extraction that raised never came to: neither the pending queue,
\* nor the drained batch, nor a batch that was compiling, nor what was extracted
\* of one whose compile failed.
LostOnlyInFlight ==
  state = "STOPPED" => Len(accepted) <= saved + InFlight + lateChanges + abandoned

\* A running daemon never starts a slow-cadence cycle with nothing to save: not
\* when an idle timer goes off while a batch reaches the threshold and runs the
\* cycle inline, nor when it goes off while a newer batch starts its own timer.
\* (After a failed compile it may: the batch that failed has not cancelled its
\* predecessor's timer, and another idle thread has saved everything meanwhile.)
NoEmptyCycle ==
  [][stage' = "cluster" /\ stage # "cluster" /\ state = "RUNNING" /\ failures = 0
       => extracted > saved]_vars

\* A completed shutdown leaves a graph_cache.json the next start can load, also
\* where an earlier save failed half-way, unless an idle cycle that waited for
\* the lock gets it after the final persist and the process ends under it.
CacheLoadableAfterStop == state = "STOPPED" /\ torn => lateCycle

\* Changes below the threshold do not stay in memory only: with no further
\* change, the idle timer saves them (unless the daemon is told to stop, or a
\* compile failed: then they wait for the next batch).
UnsavedIsSaved ==
  accumulated > 0 ~> accumulated = 0 \/ mainPc # "serving" \/ failures > 0

\* A shutdown once begun ends the process, though it waits for the lock twice
\* while flush and idle threads hold it; and it ends it with everything done
\* (STOPPED) unless a further signal or a failure cut it short.
ShutdownCompletes ==
  state = "STOPPING" ~>
    mainPc = "exited" /\ (state = "STOPPED" \/ signals > 1 \/ failures > 0)

\* Daemon.shutdown's docstring: what was pending is compiled, any batch in
\* flight is waited for, then artifacts are persisted.  So the final
\* graph_cache.json holds every accepted change.
InFlightBeforePersist ==
  state = "STOPPED" /\ failures = 0 => saved = Len(accepted)

=============================================================================
