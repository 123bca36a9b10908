---------------------------- MODULE DaemonProofs ----------------------------
(***************************************************************************)
(* Proofs about Daemon for every set of timers and events, every threshold *)
(* and every number of signals, failures and changes.  What VaultWatcher's *)
(* proofs say of the watcher alone holds of the watcher inside the daemon, *)
(* because every step of the daemon is a step of the watcher or none.      *)
(***************************************************************************)
EXTENDS Daemon, FiniteSetTheorems, TLAPS

WatcherProofs == INSTANCE VaultWatcherProofs

\* Which thread may be at which stage, and where main is while it holds the lock.
StageOfHolder ==
  /\ stage \in {"persist", "persistFill"} => lock = Main
  /\ lock = Main =>
       (mainPc = "persist" <=> stage \in {"persist", "persistFill"})
  /\ lock \in IdleTimers => stage \in {"cluster", "save", "fill", "release"}

\* How far the watcher's shutdown is, by where main is.
WatcherPhase ==
  /\ mainPc = "serving" <=> state = "RUNNING"
  /\ mainPc \in {"serving", "reject"} => phase = "running"
  /\ mainPc = "drain" => phase = "rejecting"
  /\ mainPc \in {"compile", "stop"} => phase = "drained"
  /\ mainPc \in {"persist", "mark", "done"} => phase = "stopped"
  /\ mainPc = "compile" => drained # <<>>

\* The connection is closed by the final persist and by nothing else; what is
\* torn after that, an idle cycle that came too late has torn.
PersistIsLast ==
  /\ mainPc \in {"mark", "done"} \/ state = "STOPPED" => ~connOpen
  /\ ~connOpen => /\ mainPc \in {"mark", "done", "aborted", "exited"}
                  /\ phase = "stopped"
                  /\ stage \in {"none", "extract", "sync", "cluster", "save", "fill", "release"}
                  /\ stage \in {"cluster", "save", "fill"} => lock \in IdleTimers
                  /\ stage \in {"cluster", "save", "fill"} \/ torn => lateCycle

DaemonInv == TypeOK /\ StageOfHolder /\ WatcherPhase /\ PersistIsLast

\* The changes of the batch being compiled that are extracted and that its
\* thread still holds: HeldChanges counts them a second time.
CountedTwice == IF lock \in Timers /\ stage # "extract" THEN Len(batchOf[lock]) ELSE 0

\* The drained batch, until shutdown has extracted it.
DrainedLeft ==
  IF mainPc = "compile" /\ (lock # Main \/ stage = "extract") THEN Len(drained) ELSE 0

\* Where every accepted change is: extracted, in a flush thread's hands,
\* pending, drained or abandoned by an extraction that raised; and once the
\* final persist is over, saved, in a flush thread's hands, compiled too late or
\* abandoned.
Ledger ==
  /\ saved <= extracted
  /\ IsFiniteSet(HeldChanges)
  /\ \A t \in Timers : timers[t] # "taken" <=> batchOf[t] = <<>>
  /\ connOpen /\ mainPc \notin {"aborted", "exited"} =>
       Len(accepted) + CountedTwice
         <= extracted + InFlight + Len(pending) + DrainedLeft + abandoned
  /\ ~connOpen => Len(accepted) + CountedTwice <= saved + InFlight + lateChanges + abandoned

\* What the tracker counts is not saved yet, and neither is a batch that is
\* being indexed or published.
CountedIsUnsaved ==
  /\ connOpen /\ accumulated > 0 => extracted > saved
  /\ connOpen /\ stage \in {"sync", "publish"} => extracted > saved

Running == state = "RUNNING" /\ failures = 0

\* A cycle, and a timer about to be started, have something to save.
CycleHasWork ==
  /\ stage \in {"cluster", "save", "fill", "schedule"} => extracted > saved
  /\ stage = "schedule" => sinceBatch = 0

\* The batch that reaches the threshold runs the cycle inline.
ThresholdInline ==
  accumulated >= ChangeThreshold =>
    lock \notin IdleTimers /\ stage \in {"cluster", "save", "fill"}

\* An idle thread runs a cycle only when no timer is armed ...
IdleCycleAlone ==
  lock \in IdleTimers /\ stage \in {"cluster", "save", "fill"} =>
    \A t \in IdleTimers : idleTimers[t] # "armed"

\* ... because beside an armed timer a waiting idle thread finds no quiet time.
ArmedIsFresh ==
  \A t, s \in IdleTimers :
    idleTimers[t] = "fired" /\ idleTimers[s] = "armed" /\ stage \in {"none", "release"}
      => sinceBatch = 0

\* With all saved, no timer stays armed and a waiting idle thread finds no quiet
\* time, or waits for a batch that is being extracted.
NothingToSave ==
  extracted = saved =>
    /\ \A t \in IdleTimers : idleTimers[t] = "armed" => stage = "cancel" /\ sinceBatch = 0
    /\ \A t \in IdleTimers : idleTimers[t] = "fired" => stage = "extract" \/ sinceBatch = 0

QuietInv ==
  CycleHasWork /\ ThresholdInline /\ IdleCycleAlone /\ ArmedIsFresh /\ NothingToSave

\* While the daemon runs and nothing failed, the idle timers keep time.
IdleTiming == CountedIsUnsaved /\ (Running => QuietInv)

-----------------------------------------------------------------------------
(* The daemon drives the watcher by the watcher's own rules *)

\* The holder's thread leaves run_batch by the watcher's own step, if at all.
LEMMA LeaveIsWatcherStep ==
  ASSUME NEW pc, LeaveLock(pc)
  PROVE  Watcher!Next \/ UNCHANGED watcherVars
<1>1. CASE lock = Main /\ mainPc' = pc /\ UNCHANGED watcherVars
  BY <1>1
<1>2. CASE lock \in Timers /\ Watcher!BatchDone(lock) /\ UNCHANGED mainPc
  BY <1>2 DEF Watcher!Next, Watcher!DebounceTimerStep
<1>3. CASE lock \in IdleTimers /\ Watcher!IdleDone(lock) /\ UNCHANGED mainPc
  BY <1>3 DEF Watcher!Next, Watcher!IdleTimerStep
<1>. QED BY <1>1, <1>2, <1>3 DEF LeaveLock

\* Every step of the daemon is a step of the watcher or leaves it alone.
LEMMA DaemonStepIsWatcherStep ==
  ASSUME [Next]_vars
  PROVE  Watcher!Next \/ UNCHANGED watcherVars
<1>1. CASE WatcherStep
  BY <1>1 DEF WatcherStep, Watcher!Next, Watcher!DebounceTimerStep, Watcher!IdleTimerStep
<1>2. CASE Tick \/ (\E t \in Timers : BeginBatch(t)) \/ (\E t \in IdleTimers : BeginIdle(t))
  BY <1>2 DEF Tick, BeginBatch, BeginIdle
<1>3. CASE HolderStep
  <2>1. CASE Extract \/ Sync \/ Publish \/ Cluster \/ WriteArtifacts \/ SaveArtifacts
                \/ PersistArtifacts
    BY <2>1 DEF Extract, Sync, Publish, Cluster, WriteArtifacts, SaveArtifacts, PersistArtifacts
  <2>2. CASE ScheduleIdle
    BY <2>2 DEF ScheduleIdle, Watcher!Next, Watcher!IdleTimerStep
  <2>3. CASE CancelIdle
    BY <2>3 DEF CancelIdle, Watcher!Next
  <2>4. CASE ExtractRaises \/ Release \/ Raise \/ Persist
    BY <2>4, LeaveIsWatcherStep DEF ExtractRaises, Release, Raise, Persist
  <2>. QED BY <1>3, <2>1, <2>2, <2>3, <2>4 DEF HolderStep
<1>4. CASE MainStep
  <2>1. CASE BeginDrained \/ BeginPersist \/ MarkStopped
    BY <2>1 DEF BeginDrained, BeginPersist, MarkStopped
  <2>2. CASE Reject \/ Drain \/ StopWatcher
    BY <2>2 DEF Reject, Drain, StopWatcher, Watcher!Next
  <2>. QED BY <1>4, <2>1, <2>2 DEF MainStep
<1>5. CASE BeginShutdown \/ SignalAgain \/ Exit \/ Exited \/ UNCHANGED vars
  BY <1>5 DEF BeginShutdown, SignalAgain, Exit, Exited, vars
<1>. QED BY <1>1, <1>2, <1>3, <1>4, <1>5 DEF Next

\* The daemon refines VaultWatcher: no interleaving of flush threads, idle
\* threads, signals, failures and shutdown calls the watcher out of the order
\* its own specification allows.
THEOREM DaemonImplementsWatcher == Spec => Watcher!Spec
<1>1. Init => Watcher!Init
  BY DEF Init
<1>2. [Next]_vars => [Watcher!Next]_(Watcher!watcherVars)
  <2>1. UNCHANGED watcherVars => UNCHANGED Watcher!watcherVars
    BY DEF watcherVars, Watcher!watcherVars, Watcher!queueVars, Watcher!idleVars
  <2>. QED BY <2>1, DaemonStepIsWatcherStep
<1>. QED BY <1>1, <1>2, PTL DEF Spec, Watcher!Spec

-----------------------------------------------------------------------------
(* What VaultWatcherProofs proves holds inside the daemon *)

\* Both instances of VaultWatcher say the same.
LEMMA SameWatcher ==
  /\ Watcher!Init => WatcherProofs!Init
  /\ Watcher!Next => WatcherProofs!Next
  /\ UNCHANGED watcherVars => UNCHANGED WatcherProofs!watcherVars
  /\ WatcherProofs!TypeOK <=> Watcher!TypeOK
<1>. USE DEF Watcher!idleVars, WatcherProofs!idleVars, Watcher!queueVars,
         WatcherProofs!queueVars
<1>1. Watcher!Init => WatcherProofs!Init
  BY DEF Watcher!Init, WatcherProofs!Init
<1>2. ASSUME NEW e \in Events, Watcher!OnAnyEvent(e) PROVE WatcherProofs!OnAnyEvent(e)
  <2>1. WatcherProofs!Relevant(e) /\ WatcherProofs!FileChange(e) = Watcher!FileChange(e)
    BY <1>2 DEF Watcher!OnAnyEvent, Watcher!Relevant, WatcherProofs!Relevant,
         Watcher!FileChange, WatcherProofs!FileChange,
         Watcher!WatchdogEventKind, WatcherProofs!WatchdogEventKind
  <2>2. PICK t \in Timers : timers[t] = "free" /\ Watcher!QueueChange(Watcher!FileChange(e), t)
    BY <1>2 DEF Watcher!OnAnyEvent
  <2>3. WatcherProofs!QueueChange(Watcher!FileChange(e), t)
    BY <2>2 DEF Watcher!QueueChange, WatcherProofs!QueueChange,
         Watcher!ReachesThreshold, WatcherProofs!ReachesThreshold,
         Watcher!Start, WatcherProofs!Start, Watcher!Cancel, WatcherProofs!Cancel
  <2>. QED BY <1>2, <2>1, <2>2, <2>3 DEF Watcher!OnAnyEvent, WatcherProofs!OnAnyEvent
<1>3. ASSUME NEW e \in Events, Watcher!IgnoreEvent(e) PROVE WatcherProofs!IgnoreEvent(e)
  BY <1>3 DEF Watcher!IgnoreEvent, WatcherProofs!IgnoreEvent, Watcher!Relevant,
       WatcherProofs!Relevant, Watcher!WatchdogEventKind, WatcherProofs!WatchdogEventKind,
       Watcher!watcherVars, WatcherProofs!watcherVars
<1>4. ASSUME NEW t \in Timers, Watcher!DebounceTimerStep(t)
      PROVE  WatcherProofs!DebounceTimerStep(t)
  BY <1>4 DEF Watcher!DebounceTimerStep, WatcherProofs!DebounceTimerStep,
       Watcher!Fire, WatcherProofs!Fire, Watcher!Flush, WatcherProofs!Flush,
       Watcher!TakePending, WatcherProofs!TakePending,
       Watcher!FlushNothing, WatcherProofs!FlushNothing,
       Watcher!BatchDone, WatcherProofs!BatchDone
<1>5. ASSUME NEW t \in IdleTimers, Watcher!IdleTimerStep(t)
      PROVE  WatcherProofs!IdleTimerStep(t)
  BY <1>5 DEF Watcher!IdleTimerStep, WatcherProofs!IdleTimerStep,
       Watcher!ScheduleIdle, WatcherProofs!ScheduleIdle, Watcher!Start, WatcherProofs!Start,
       Watcher!Cancel, WatcherProofs!Cancel, Watcher!IdleFire, WatcherProofs!IdleFire,
       Watcher!IdleDone, WatcherProofs!IdleDone
<1>6. Watcher!CancelIdleTimer => WatcherProofs!CancelIdleTimer
  BY DEF Watcher!CancelIdleTimer, WatcherProofs!CancelIdleTimer,
       Watcher!Cancel, WatcherProofs!Cancel
<1>7. /\ Watcher!CancelIdle => WatcherProofs!CancelIdle
      /\ Watcher!RejectNewEvents => WatcherProofs!RejectNewEvents
      /\ Watcher!DrainPendingBatch => WatcherProofs!DrainPendingBatch
      /\ Watcher!Stop => WatcherProofs!Stop
  BY <1>6 DEF Watcher!CancelIdle, WatcherProofs!CancelIdle,
       Watcher!RejectNewEvents, WatcherProofs!RejectNewEvents,
       Watcher!DrainPendingBatch, WatcherProofs!DrainPendingBatch,
       Watcher!TakePending, WatcherProofs!TakePending, Watcher!Cancel, WatcherProofs!Cancel,
       Watcher!Stop, WatcherProofs!Stop
<1>8. Watcher!Next => WatcherProofs!Next
  BY <1>2, <1>3, <1>4, <1>5, <1>7 DEF Watcher!Next, WatcherProofs!Next
<1>9. UNCHANGED watcherVars => UNCHANGED WatcherProofs!watcherVars
  BY DEF watcherVars, WatcherProofs!watcherVars
<1>10. WatcherProofs!TypeOK <=> Watcher!TypeOK
  BY DEF WatcherProofs!TypeOK, Watcher!TypeOK, WatcherProofs!TimerStates,
       Watcher!TimerStates, WatcherProofs!FileChanges, Watcher!FileChanges,
       WatcherProofs!ChangeKind, Watcher!ChangeKind
<1>. QED BY <1>1, <1>8, <1>9, <1>10

\* The watcher's inductive invariant, of which the daemon's proofs use the
\* types, that the phases come in order, and that one idle timer is armed.
WatcherHolds ==
  /\ Watcher!TypeOK
  /\ Watcher!SinglePendingIdle
  /\ Watcher!ExactlyOnceInOrder
  /\ phase \in {"drained", "stopped"} => rejecting /\ pending = <<>>

LEMMA WatcherInvStep ==
  ASSUME WatcherProofs!WatcherInv, [Next]_vars
  PROVE  WatcherProofs!WatcherInv'
<1>1. [WatcherProofs!Next]_(WatcherProofs!watcherVars)
  BY DaemonStepIsWatcherStep, SameWatcher
<1>. QED BY <1>1, WatcherProofs!WatcherStep, WatcherAssumption

LEMMA WatcherInvGives == WatcherProofs!WatcherInv => WatcherHolds
<1>. SUFFICES ASSUME WatcherProofs!WatcherInv PROVE WatcherHolds
  OBVIOUS
<1>1. Watcher!TypeOK
  BY SameWatcher DEF WatcherProofs!WatcherInv
<1>2. Watcher!SinglePendingIdle /\ Watcher!ExactlyOnceInOrder
  BY DEF WatcherProofs!WatcherInv, WatcherProofs!SinglePendingIdle, Watcher!SinglePendingIdle,
       WatcherProofs!ExactlyOnceInOrder, Watcher!ExactlyOnceInOrder
<1>3. phase \in {"drained", "stopped"} => rejecting /\ pending = <<>>
  BY DEF WatcherProofs!WatcherInv, WatcherProofs!ShutdownInOrder
<1>. QED BY <1>1, <1>2, <1>3 DEF WatcherHolds

\* The watcher's invariant holds in every state of the daemon.
THEOREM WatcherInvariantInDaemon == Spec => []WatcherProofs!WatcherInv
<1>1. Init => WatcherProofs!WatcherInv
  BY SameWatcher, WatcherProofs!WatcherInit, WatcherAssumption DEF Init
<1>2. WatcherProofs!WatcherInv /\ [Next]_vars => WatcherProofs!WatcherInv'
  BY WatcherInvStep
<1>. QED BY <1>1, <1>2, PTL DEF Spec

-----------------------------------------------------------------------------
(* The lock, the stages and the final persist *)

\* Only its own thread ends a flush or an idle callback: timers that go off, are
\* cancelled or started, and the calls of shutdown leave it running.
LEMMA CallbacksGoOn ==
  ASSUME WatcherHolds,
         WatcherStep \/ Reject \/ Drain \/ StopWatcher \/ ScheduleIdle \/ CancelIdle
  PROVE  /\ \A t \in Timers : timers[t] = "taken" =>
              timers'[t] = "taken" /\ batchOf'[t] = batchOf[t]
         /\ \A t \in IdleTimers : idleTimers[t] = "fired" => idleTimers'[t] = "fired"
<1>. USE DEF Watcher!idleVars, Watcher!queueVars
<1>0. /\ timers \in [Timers -> Watcher!TimerStates] /\ batchOf \in [Timers -> Seq(Watcher!FileChanges)]
      /\ idleTimers \in [IdleTimers -> Watcher!TimerStates \ {"taken"}]
  BY DEF WatcherHolds, Watcher!TypeOK
<1>. DEFINE Flushes == \A t \in Timers : timers[t] = "taken" =>
                         timers'[t] = "taken" /\ batchOf'[t] = batchOf[t]
            Idles == \A t \in IdleTimers : idleTimers[t] = "fired" => idleTimers'[t] = "fired"
<1>1. CASE WatcherStep
  <2>1. ASSUME NEW e \in Events, Watcher!OnAnyEvent(e) PROVE Flushes /\ Idles
    BY <1>0, <2>1 DEF Watcher!OnAnyEvent, Watcher!QueueChange, Watcher!Start, Watcher!Cancel
  <2>2. ASSUME NEW t \in Timers, Watcher!Fire(t) \/ Watcher!Flush(t) \/ Watcher!FlushNothing(t)
        PROVE  Flushes /\ Idles
    BY <1>0, <2>2 DEF Watcher!Fire, Watcher!Flush, Watcher!TakePending, Watcher!FlushNothing
  <2>3. ASSUME NEW t \in IdleTimers, Watcher!IdleFire(t) PROVE Flushes /\ Idles
    BY <1>0, <2>3 DEF Watcher!IdleFire
  <2>. QED BY <1>1, <2>1, <2>2, <2>3 DEF WatcherStep
<1>2. CASE Reject
  BY <1>0, <1>2 DEF Reject, Watcher!RejectNewEvents
<1>3. CASE Drain
  BY <1>0, <1>3 DEF Drain, Watcher!DrainPendingBatch, Watcher!CancelIdleTimer, Watcher!Cancel
<1>4. CASE StopWatcher
  BY <1>0, <1>4 DEF StopWatcher, Watcher!Stop, Watcher!CancelIdleTimer, Watcher!Cancel
<1>5. CASE ScheduleIdle
  BY <1>0, <1>5 DEF ScheduleIdle, Watcher!ScheduleIdle, Watcher!Start, Watcher!Cancel
<1>6. CASE CancelIdle
  BY <1>0, <1>6 DEF CancelIdle, Watcher!CancelIdle, Watcher!CancelIdleTimer, Watcher!Cancel
<1>. QED BY <1>1, <1>2, <1>3, <1>4, <1>5, <1>6

\* The daemon as it starts to serve satisfies the invariant.
LEMMA DaemonInit == Init /\ Watcher!TypeOK => DaemonInv
<1>. SUFFICES ASSUME Init, Watcher!TypeOK PROVE DaemonInv
  OBVIOUS
<1>1. lock \notin Timers /\ lock \notin IdleTimers /\ lock # Main
  BY WatcherAssumption, DaemonAssumption DEF Init
<1>2. TypeOK
  <2>1. {connOpen, torn, lateCycle} \subseteq BOOLEAN
    BY DEF Init
  <2>2. HolderIsLive
    BY <1>1 DEF Init, HolderIsLive
  <2>3. /\ sinceBatch \in 0..QuietTicks /\ idleAge \in [IdleTimers -> 0..QuietTicks]
        /\ failures \in 0..MaxFailures
    BY DaemonAssumption DEF Init
  <2>. QED BY <2>1, <2>2, <2>3 DEF Init, TypeOK
<1>3. StageOfHolder /\ PersistIsLast
  BY <1>1 DEF Init, StageOfHolder, PersistIsLast
<1>4. WatcherPhase
  BY DEF Init, Watcher!Init, WatcherPhase
<1>. QED BY <1>2, <1>3, <1>4 DEF DaemonInv

\* A step of the watcher's own threads keeps it.
LEMMA WatcherStepKeeps ==
  ASSUME DaemonInv, WatcherHolds, Watcher!TypeOK', WatcherStep
  PROVE  DaemonInv'
<1>1. /\ \A t \in Timers : timers[t] = "taken" => timers'[t] = "taken"
      /\ \A t \in IdleTimers : idleTimers[t] = "fired" => idleTimers'[t] = "fired"
  BY CallbacksGoOn
<1>2. phase' = phase /\ drained' = drained
  BY DEF WatcherStep, Watcher!OnAnyEvent, Watcher!Fire, Watcher!Flush, Watcher!FlushNothing,
       Watcher!IdleFire
<1>3. UNCHANGED <<lock, stage, dataVars, trackerVars, mainVars, failures, lateVars>>
  BY DEF WatcherStep
<1>. USE DEF dataVars, artifactVars, trackerVars, mainVars, lateVars
<1>4. TypeOK'
  BY <1>1, <1>3 DEF DaemonInv, TypeOK, HolderIsLive
<1>. QED BY <1>2, <1>3, <1>4
     DEF DaemonInv, StageOfHolder, WatcherPhase, PersistIsLast


\* So does the clock, and a thread that gets the lock.
LEMMA ClockAndLockKeep ==
  ASSUME DaemonInv, WatcherHolds,
         \/ Tick
         \/ \E t \in Timers : BeginBatch(t)
         \/ \E t \in IdleTimers : BeginIdle(t)
         \/ BeginDrained \/ BeginPersist
  PROVE  DaemonInv'
<1>. USE DEF watcherVars, dataVars, artifactVars, trackerVars, mainVars, lateVars
<1>0. Watcher!TypeOK'
  BY DEF WatcherHolds, Watcher!TypeOK, Tick, BeginBatch, BeginIdle, BeginDrained, BeginPersist
<1>1. CASE Tick
  <2>1. /\ sinceBatch' \in 0..QuietTicks
        /\ idleAge' \in [IdleTimers -> 0..QuietTicks]
    BY <1>1, DaemonAssumption DEF DaemonInv, TypeOK, Tick, Older
  <2>2. TypeOK'
    BY <1>0, <1>1, <2>1 DEF DaemonInv, TypeOK, HolderIsLive, Tick
  <2>. QED BY <1>1, <2>2 DEF DaemonInv, StageOfHolder, WatcherPhase, PersistIsLast, Tick
<1>2. ASSUME NEW t \in Timers, BeginBatch(t) PROVE DaemonInv'
  <2>1. t \notin IdleTimers /\ t # Main /\ t # None
    BY WatcherAssumption, DaemonAssumption
  <2>2. TypeOK'
    BY <1>0, <1>2, <2>1 DEF DaemonInv, TypeOK, HolderIsLive, BeginBatch
  <2>. QED BY <1>2, <2>1, <2>2
       DEF DaemonInv, StageOfHolder, WatcherPhase, PersistIsLast, BeginBatch
<1>3. ASSUME NEW t \in IdleTimers, BeginIdle(t) PROVE DaemonInv'
  <2>1. t \notin Timers /\ t # Main /\ t # None
    BY WatcherAssumption, DaemonAssumption
  <2>2. lateCycle' \in BOOLEAN /\ (~connOpen => lateCycle')
    BY <1>3 DEF BeginIdle
  <2>3. stage' \in {"cluster", "release"}
    BY <1>3 DEF BeginIdle
  <2>4. TypeOK'
    BY <1>0, <1>3, <2>1, <2>2, <2>3 DEF DaemonInv, TypeOK, HolderIsLive, BeginIdle
  <2>. QED BY <1>3, <2>1, <2>2, <2>3, <2>4
       DEF DaemonInv, StageOfHolder, WatcherPhase, PersistIsLast, BeginIdle
<1>4. CASE BeginDrained \/ BeginPersist
  <2>1. Main \notin Timers /\ Main \notin IdleTimers /\ Main # None
    BY DaemonAssumption
  <2>2. TypeOK'
    BY <1>0, <1>4, <2>1 DEF DaemonInv, TypeOK, HolderIsLive, BeginDrained, BeginPersist
  <2>. QED BY <1>4, <2>1, <2>2
       DEF DaemonInv, StageOfHolder, WatcherPhase, PersistIsLast, BeginDrained, BeginPersist
<1>. QED BY <1>1, <1>2, <1>3, <1>4

\* A batch has a size: it is a flush thread's or the drained one.
LEMMA BatchSizeType ==
  ASSUME DaemonInv, WatcherHolds, stage \in {"extract", "sync", "publish"}
  PROVE  BatchSize \in Nat
<1>1. lock = Main \/ lock \in Timers
  BY DEF DaemonInv, TypeOK, HolderIsLive, StageOfHolder
<1>2. drained \in Seq(Watcher!FileChanges) /\ batchOf \in [Timers -> Seq(Watcher!FileChanges)]
  BY DEF WatcherHolds, Watcher!TypeOK
<1>. QED BY <1>1, <1>2 DEF BatchSize

\* So do the holder's steps under the lock.
LEMMA HolderStepKeeps ==
  ASSUME DaemonInv, WatcherHolds, Watcher!TypeOK',
         Extract \/ Sync \/ Publish \/ Cluster \/ WriteArtifacts \/ SaveArtifacts
           \/ ScheduleIdle \/ CancelIdle \/ PersistArtifacts
  PROVE  DaemonInv'
<1>. USE DEF watcherVars, dataVars, artifactVars, trackerVars, mainVars, lateVars
<1>0. lock # None /\ lock' = lock /\ mainPc' = mainPc /\ state' = state /\ signals' = signals
      /\ failures' = failures /\ connOpen' = connOpen /\ lateCycle' = lateCycle
      /\ phase' = phase /\ drained' = drained
  BY DEF DaemonInv, TypeOK, HolderIsLive, Extract, Sync, Publish, Cluster, WriteArtifacts,
       SaveArtifacts, ScheduleIdle, CancelIdle, PersistArtifacts,
       Watcher!ScheduleIdle, Watcher!CancelIdle
<1>1. HolderIsLive' 
  <2>1. /\ \A t \in Timers : timers[t] = "taken" => timers'[t] = "taken"
        /\ \A t \in IdleTimers : idleTimers[t] = "fired" => idleTimers'[t] = "fired"
    <3>1. CASE ScheduleIdle \/ CancelIdle
      BY <3>1, CallbacksGoOn
    <3>2. CASE ~(ScheduleIdle \/ CancelIdle)
      BY <3>2 DEF Extract, Sync, Publish, Cluster, WriteArtifacts, SaveArtifacts, PersistArtifacts
    <3>. QED BY <3>1, <3>2
  <2>2. stage' # "none"
    BY DEF Extract, Sync, Publish, Cluster, WriteArtifacts, SaveArtifacts, ScheduleIdle,
         CancelIdle, PersistArtifacts
  <2>. QED BY <1>0, <2>1, <2>2 DEF DaemonInv, TypeOK, HolderIsLive
<1>2. /\ stage' \in {"sync", "publish", "cluster", "save", "fill", "schedule", "cancel",
                     "release", "persistFill"}
      /\ torn' \in BOOLEAN
  BY DEF DaemonInv, TypeOK, Extract, Sync, Publish, Cluster, WriteArtifacts, SaveArtifacts,
       ScheduleIdle, CancelIdle, PersistArtifacts
<1>3. {extracted, indexed, published, graphJson, saved, accumulated, lateChanges,
       abandoned}' \subseteq Nat
  <2>1. CASE Extract \/ Sync \/ Publish
    BY <2>1, BatchSizeType DEF DaemonInv, TypeOK, Extract, Sync, Publish
  <2>2. CASE ~(Extract \/ Sync \/ Publish)
    BY <2>2 DEF DaemonInv, TypeOK, Cluster, WriteArtifacts, SaveArtifacts, Reset, ScheduleIdle,
         CancelIdle, PersistArtifacts
  <2>. QED BY <2>1, <2>2
<1>4. sinceBatch' \in 0..QuietTicks /\ idleAge' \in [IdleTimers -> 0..QuietTicks]
  BY DaemonAssumption DEF DaemonInv, TypeOK, Extract, Sync, Publish, Cluster, WriteArtifacts,
       SaveArtifacts, Reset, ScheduleIdle, CancelIdle, PersistArtifacts
<1>5. TypeOK'
  BY <1>0, <1>1, <1>2, <1>3, <1>4 DEF DaemonInv, TypeOK
<1>6. StageOfHolder'
  BY <1>0 DEF DaemonInv, StageOfHolder, TypeOK, Extract, Sync, Publish, Cluster, WriteArtifacts,
       SaveArtifacts, ScheduleIdle, CancelIdle, PersistArtifacts
<1>7. WatcherPhase'
  BY <1>0 DEF DaemonInv, WatcherPhase
<1>8. PersistIsLast'
  <2>1. CASE connOpen
    BY <1>0, <2>1 DEF DaemonInv, PersistIsLast
  <2>2. CASE ~connOpen
    <3>1. /\ mainPc \in {"mark", "done", "aborted", "exited"} /\ phase = "stopped"
          /\ stage \in {"none", "extract", "sync", "cluster", "save", "fill", "release"}
          /\ stage \in {"cluster", "save", "fill"} => lock \in IdleTimers
          /\ stage \in {"cluster", "save", "fill"} \/ torn => lateCycle
      BY <2>2 DEF DaemonInv, PersistIsLast
    <3>2. \/ stage = "extract" /\ stage' = "sync" /\ torn' = torn
          \/ stage = "cluster" /\ stage' = "save" /\ torn' = torn
          \/ stage = "save" /\ stage' = "fill"
          \/ stage = "fill" /\ stage' = "release" /\ lock \in IdleTimers
      BY <2>2, <3>1 DEF Extract, Sync, Publish, Cluster, WriteArtifacts,
         SaveArtifacts, ScheduleIdle, CancelIdle, PersistArtifacts
    <3>. QED BY <1>0, <2>2, <3>1, <3>2 DEF PersistIsLast
  <2>. QED BY <2>1, <2>2
<1>. QED BY <1>5, <1>6, <1>7, <1>8 DEF DaemonInv

\* What a thread does that leaves run_batch or the final persist.
LEMMA LeaveEffect ==
  ASSUME DaemonInv, WatcherHolds, NEW pc, LeaveLock(pc)
  PROVE  /\ lock' = None /\ stage' = "none" /\ state' = state /\ signals' = signals
         /\ phase' = phase /\ drained' = drained /\ pending' = pending /\ accepted' = accepted
         /\ lock = Main => mainPc' = pc /\ batchOf' = batchOf
         /\ lock \in Timers =>
              /\ mainPc' = mainPc /\ batchOf' = [batchOf EXCEPT ![lock] = <<>>]
              /\ timers' = [timers EXCEPT ![lock] = "free"] /\ idleTimers' = idleTimers
         /\ lock \in IdleTimers =>
              /\ mainPc' = mainPc /\ batchOf' = batchOf /\ timers' = timers
              /\ idleTimers' = [idleTimers EXCEPT ![lock] = "free"]
         /\ lock = Main => timers' = timers /\ idleTimers' = idleTimers
<1>1. Main \notin Timers /\ Main \notin IdleTimers /\ Timers \cap IdleTimers = {}
  BY DaemonAssumption
<1>. QED BY <1>1 DEF LeaveLock, watcherVars, Watcher!BatchDone, Watcher!IdleDone,
       Watcher!queueVars, Watcher!idleVars

\* So do the ends of a compile, good or bad, and the final persist.
LEMMA LeaveKeeps ==
  ASSUME DaemonInv, WatcherHolds, Watcher!TypeOK',
         ExtractRaises \/ Release \/ Raise \/ Persist
  PROVE  DaemonInv'
<1>. USE DEF artifactVars, dataVars, trackerVars, lateVars
<1>1. PICK pc : /\ LeaveLock(pc)
                /\ \/ Release /\ pc = "stop"
                   \/ (ExtractRaises \/ Raise) /\ pc = "aborted"
                   \/ Persist /\ pc = "mark"
  BY DEF ExtractRaises, Release, Raise, Persist
<1>2. /\ lock' = None /\ stage' = "none" /\ state' = state /\ signals' = signals
      /\ phase' = phase /\ drained' = drained
      /\ lock = Main => mainPc' = pc
      /\ lock # Main => mainPc' = mainPc
  BY <1>1, LeaveEffect, DaemonAssumption DEF DaemonInv, TypeOK, HolderIsLive,
     ExtractRaises, Release, Raise, Persist
<1>3. None \notin Timers /\ None \notin IdleTimers /\ None # Main
  BY WatcherAssumption, DaemonAssumption
<1>4. /\ failures' \in 0..MaxFailures
      /\ {extracted, indexed, published, graphJson, saved, accumulated, lateChanges,
          abandoned}' \subseteq Nat
      /\ sinceBatch' = sinceBatch /\ idleAge' = idleAge /\ lateCycle' = lateCycle
  <2>1. CASE ExtractRaises
    <3>1. BatchSize \in Nat
      BY <2>1, BatchSizeType DEF ExtractRaises
    <3>. QED BY <2>1, <3>1, DaemonAssumption DEF DaemonInv, TypeOK, ExtractRaises
  <2>2. CASE ~ExtractRaises
    BY <2>2, DaemonAssumption DEF DaemonInv, TypeOK, Release, Raise, Persist
  <2>. QED BY <2>1, <2>2
<1>5. (torn' = torn \/ torn' = FALSE) /\ (connOpen' = connOpen \/ connOpen' = FALSE)
  BY DEF ExtractRaises, Release, Raise, Persist
<1>6. TypeOK'
  <2>1. {connOpen, torn, lateCycle}' \subseteq BOOLEAN
    BY <1>4, <1>5 DEF DaemonInv, TypeOK
  <2>2. HolderIsLive'
    BY <1>2, <1>3 DEF HolderIsLive
  <2>. QED BY <1>1, <1>2, <1>4, <2>1, <2>2 DEF DaemonInv, TypeOK
<1>7. StageOfHolder'
  BY <1>2, <1>3 DEF StageOfHolder
<1>8. lock = Main => mainPc \in {"compile", "persist"}
  BY DEF DaemonInv, TypeOK, HolderIsLive
<1>9. /\ Release /\ lock = Main => mainPc = "compile"
      /\ Persist => lock = Main /\ mainPc = "persist"
  BY <1>8 DEF DaemonInv, StageOfHolder, Release, Persist
<1>10. WatcherPhase'
  BY <1>1, <1>2, <1>8, <1>9 DEF DaemonInv, WatcherPhase
<1>11. PersistIsLast'
  <2>1. CASE Persist
    <3>1. mainPc' = "mark" /\ phase' = "stopped"
      BY <1>2, <1>9, <2>1, LeaveEffect DEF DaemonInv, WatcherPhase, Persist
    <3>2. ~connOpen' /\ ~torn'
      BY <2>1 DEF Persist
    <3>. QED BY <1>2, <3>1, <3>2 DEF PersistIsLast
  <2>2. CASE ~Persist
    <3>1. connOpen' = connOpen /\ torn' = torn /\ lateCycle' = lateCycle
      BY <2>2 DEF ExtractRaises, Release, Raise
    <3>2. mainPc' = mainPc \/ (lock = Main /\ mainPc' \in {"stop", "aborted"})
      BY <1>1, <1>2, <2>2
    <3>3. lock = Main => connOpen
      BY <1>8 DEF DaemonInv, PersistIsLast
    <3>. QED BY <1>2, <3>1, <3>2, <3>3 DEF DaemonInv, PersistIsLast
  <2>. QED BY <2>1, <2>2
<1>. QED BY <1>6, <1>7, <1>10, <1>11 DEF DaemonInv

\* So do the steps of main outside the lock and the end of the process.
LEMMA MainKeeps ==
  ASSUME DaemonInv, WatcherHolds, Watcher!TypeOK',
         \/ BeginShutdown \/ SignalAgain \/ Reject \/ Drain \/ StopWatcher \/ MarkStopped \/ Exit
         \/ Exited
  PROVE  DaemonInv'
<1>. USE DEF watcherVars, artifactVars, dataVars, trackerVars, mainVars, lateVars
<1>0. None \notin Timers /\ None \notin IdleTimers /\ None # Main
  BY WatcherAssumption, DaemonAssumption
<1>1. /\ {extracted, indexed, published, graphJson, saved, accumulated, lateChanges,
          abandoned}' \subseteq Nat
      /\ sinceBatch' = sinceBatch /\ idleAge' = idleAge /\ lateCycle' = lateCycle
      /\ torn' = torn /\ connOpen' = connOpen /\ failures' = failures /\ signals' \in Nat
      /\ state' \in {"RUNNING", "STOPPING", "STOPPED"}
      /\ mainPc' \in {"serving", "reject", "drain", "compile", "stop", "persist", "mark",
                      "done", "aborted", "exited"}
  BY DEF DaemonInv, TypeOK, vars, BeginShutdown, SignalAgain, Reject, Drain, StopWatcher,
       MarkStopped, Exit, Exited
<1>2. \/ lock' = lock /\ stage' = stage
      \/ lock' = None /\ stage' = "none"
  BY DEF vars, BeginShutdown, SignalAgain, Reject, Drain, StopWatcher, MarkStopped, Exit, Exited
<1>3. lock' = Main => lock = Main /\ Exited
  BY <1>0 DEF DaemonInv, TypeOK, HolderIsLive, StageOfHolder, vars, BeginShutdown, SignalAgain,
       Reject, Drain, StopWatcher, MarkStopped, Exit, Exited
<1>4. HolderIsLive'
  <2>1. /\ \A t \in Timers : timers[t] = "taken" => timers'[t] = "taken"
        /\ \A t \in IdleTimers : idleTimers[t] = "fired" => idleTimers'[t] = "fired"
    <3>1. CASE Reject \/ Drain \/ StopWatcher
      BY <3>1, CallbacksGoOn
    <3>2. CASE ~(Reject \/ Drain \/ StopWatcher)
      BY <3>2 DEF vars, BeginShutdown, SignalAgain, MarkStopped, Exit, Exited
    <3>. QED BY <3>1, <3>2
  <2>2. lock' # Main
    BY <1>3 DEF DaemonInv, TypeOK, HolderIsLive, Exited
  <2>. QED BY <1>0, <1>2, <2>1, <2>2 DEF DaemonInv, TypeOK, HolderIsLive
<1>5. TypeOK'
  BY <1>0, <1>1, <1>2, <1>4 DEF DaemonInv, TypeOK
<1>6. StageOfHolder'
  <2>1. lock' # Main
    BY <1>3 DEF DaemonInv, TypeOK, HolderIsLive, Exited
  <2>2. lock # Main => stage \notin {"persist", "persistFill"}
    BY DEF DaemonInv, StageOfHolder
  <2>. QED BY <1>0, <1>2, <2>1, <2>2 DEF DaemonInv, StageOfHolder
<1>7. WatcherPhase'
  BY DEF DaemonInv, TypeOK, WatcherPhase, vars, BeginShutdown, SignalAgain, Reject, Drain,
       StopWatcher, MarkStopped, Exit, Exited, Watcher!RejectNewEvents,
       Watcher!DrainPendingBatch, Watcher!Stop
<1>8. PersistIsLast'
  <2>1. connOpen => /\ mainPc' \notin {"mark", "done"} /\ state' # "STOPPED"
    BY DEF DaemonInv, PersistIsLast, vars, BeginShutdown, SignalAgain, Reject, Drain,
       StopWatcher, MarkStopped, Exit, Exited
  <2>2. ~connOpen => mainPc' \in {"mark", "done", "aborted", "exited"} /\ phase' = phase
    BY DEF DaemonInv, PersistIsLast, vars, BeginShutdown, SignalAgain, Reject, Drain,
       StopWatcher, MarkStopped, Exit, Exited
  <2>. QED BY <1>1, <1>2, <2>1, <2>2 DEF DaemonInv, PersistIsLast
<1>. QED BY <1>5, <1>6, <1>7, <1>8 DEF DaemonInv

\* Every step of the daemon keeps the invariant.
LEMMA DaemonInvStep ==
  ASSUME DaemonInv, WatcherHolds, Watcher!TypeOK', [Next]_vars
  PROVE  DaemonInv'
<1>1. CASE WatcherStep
  BY <1>1, WatcherStepKeeps
<1>2. CASE Tick \/ (\E t \in Timers : BeginBatch(t)) \/ (\E t \in IdleTimers : BeginIdle(t))
             \/ BeginDrained \/ BeginPersist
  BY <1>2, ClockAndLockKeep
<1>3. CASE Extract \/ Sync \/ Publish \/ Cluster \/ WriteArtifacts \/ SaveArtifacts
             \/ ScheduleIdle \/ CancelIdle \/ PersistArtifacts
  BY <1>3, HolderStepKeeps
<1>4. CASE ExtractRaises \/ Release \/ Raise \/ Persist
  BY <1>4, LeaveKeeps
<1>5. CASE BeginShutdown \/ SignalAgain \/ Reject \/ Drain \/ StopWatcher \/ MarkStopped
             \/ Exit \/ Exited
  BY <1>5, MainKeeps
<1>6. CASE UNCHANGED vars
  BY <1>6 DEF vars, watcherVars, artifactVars, dataVars, trackerVars, mainVars, lateVars,
       DaemonInv, TypeOK, HolderIsLive, StageOfHolder, WatcherPhase, PersistIsLast
<1>. QED BY <1>1, <1>2, <1>3, <1>4, <1>5, <1>6 DEF Next, HolderStep, MainStep

\* The daemon's own invariant, beside the watcher's, in every reachable state.
THEOREM DaemonInductive == Spec => [](DaemonInv /\ WatcherHolds)
<1>1. WatcherProofs!WatcherInv => WatcherHolds /\ Watcher!TypeOK
  BY WatcherInvGives DEF WatcherHolds
<1>2. Init /\ WatcherProofs!WatcherInv => DaemonInv
  BY <1>1, DaemonInit
<1>3. WatcherProofs!WatcherInv' => Watcher!TypeOK'
  BY <1>1, PTL
<1>4. DaemonInv /\ WatcherProofs!WatcherInv /\ WatcherProofs!WatcherInv' /\ [Next]_vars
        => DaemonInv'
  BY <1>1, <1>3, DaemonInvStep
<1>. QED BY <1>1, <1>2, <1>4, WatcherInvariantInDaemon, PTL DEF Spec

\* The types, and that the writer lock is held by a thread that is alive and
\* will give it back: ShutdownCoordinator.run_batch and shutdown.
THEOREM TypeCorrect == Spec => []TypeOK
<1>1. DaemonInv => TypeOK
  BY DEF DaemonInv
<1>. QED BY <1>1, DaemonInductive, PTL

\* A shutdown that came to its end leaves a complete graph_cache.json unless an
\* idle cycle began after it.
THEOREM StoppedCacheLoads == Spec => []CacheLoadableAfterStop
<1>1. DaemonInv => CacheLoadableAfterStop
  BY DEF DaemonInv, PersistIsLast, CacheLoadableAfterStop
<1>. QED BY <1>1, DaemonInductive, PTL

-----------------------------------------------------------------------------
(* Where every accepted change is *)

Held(b) == UNION {{t} \X DOMAIN b[t] : t \in Timers}

\* b and c are what the flush threads hold, and only t's part differs.
DiffersAt(b, c, t) ==
  /\ t \in Timers
  /\ \E S : b \in [Timers -> Seq(S)] /\ c \in [Timers -> Seq(S)]
  /\ \A s \in Timers : s # t => c[s] = b[s]

\* What a flush thread takes is added to what the others hold.
LEMMA HeldAdded ==
  ASSUME NEW b, NEW c, NEW t, DiffersAt(b, c, t), b[t] = <<>>, IsFiniteSet(Held(b))
  PROVE  /\ IsFiniteSet(Held(c))
         /\ Cardinality(Held(c)) = Cardinality(Held(b)) + Len(c[t])
<1>. DEFINE q == c[t]
            T == {t} \X DOMAIN q
<1>0. PICK S : q \in Seq(S)
  BY DEF DiffersAt
<1>. HIDE DEF q
<1>1. IsFiniteSet(T) /\ Cardinality(T) = Len(q)
  <2>. DEFINE n == Len(q)
              I == 1..n
  <2>1. n \in Nat /\ DOMAIN q = I
    BY <1>0
  <2>2. IsFiniteSet(I) /\ Cardinality(I) = n
    <3>1. 1 \in Int /\ n \in Int
      BY <2>1
    <3>. HIDE DEF n
    <3>2. IsFiniteSet(1..n) /\ Cardinality(1..n) = IF 1 > n THEN 0 ELSE n - 1 + 1
      BY ONLY <3>1, FS_Interval, Zenon
    <3>. QED BY <2>1, <3>2
  <2>3. IsFiniteSet({t}) /\ Cardinality({t}) = 1
    BY FS_Singleton
  <2>. HIDE DEF I, n
  <2>4. /\ IsFiniteSet({t} \X I)
        /\ Cardinality({t} \X I) = Cardinality({t}) * Cardinality(I)
    BY ONLY <2>2, <2>3, FS_Product, Zenon
  <2>. QED BY <2>1, <2>2, <2>3, <2>4 DEF n
<1>2. Held(c) = Held(b) \cup T
  <2>1. t \in Timers /\ c[t] = q /\ \A s \in Timers : s # t => c[s] = b[s]
    BY DEF DiffersAt, q
  <2>2. DOMAIN b[t] = {}
    OBVIOUS
  <2>3. \A x \in Held(c) : x \in Held(b) \cup T
    BY <2>1 DEF Held
  <2>4. \A x \in Held(b) : x \in Held(c)
    BY <2>1, <2>2 DEF Held
  <2>5. \A x \in T : x \in Held(c)
    BY <2>1 DEF Held
  <2>. QED BY <2>3, <2>4, <2>5
<1>3. Held(b) \cap T = {}
  <2>1. DOMAIN b[t] = {}
    OBVIOUS
  <2>. QED BY <2>1 DEF Held
<1>4. Cardinality(Held(b)) \in Nat /\ Len(q) \in Nat
  BY <1>0, FS_CardinalityType
<1>. HIDE DEF T
<1>5. /\ IsFiniteSet(Held(b) \cup T)
      /\ Cardinality(Held(b) \cup T)
           = Cardinality(Held(b)) + Cardinality(T) - Cardinality(Held(b) \cap T)
  BY <1>1, FS_Union
<1>6. Cardinality(Held(b) \cap T) = 0
  BY <1>3, FS_EmptySet
<1>. QED BY <1>1, <1>2, <1>4, <1>5, <1>6 DEF q

\* A flush thread that ends takes away what it held.
LEMMA HeldRemoved ==
  ASSUME NEW b, NEW c, NEW t, DiffersAt(b, c, t), c[t] = <<>>, IsFiniteSet(Held(b))
  PROVE  /\ IsFiniteSet(Held(c))
         /\ Cardinality(Held(c)) = Cardinality(Held(b)) - Len(b[t])
<1>1. IsFiniteSet(Held(c))
  <2>1. DOMAIN c[t] = {}
    OBVIOUS
  <2>2. Held(c) \in SUBSET Held(b)
    BY <2>1 DEF Held, DiffersAt
  <2>. QED BY <2>2, FS_Subset
<1>2. DiffersAt(c, b, t)
  BY DEF DiffersAt
<1>3. Cardinality(Held(b)) = Cardinality(Held(c)) + Len(b[t])
  BY <1>1, <1>2, HeldAdded
<1>4. PICK m \in Nat, n \in Nat : m = Cardinality(Held(c)) /\ n = Len(b[t])
  BY <1>1, FS_CardinalityType DEF DiffersAt
<1>5. m = (m + n) - n
  OBVIOUS
<1>. QED BY <1>1, <1>3, <1>4, <1>5

\* The entries of the ledger are numbers.
LEMMA LedgerTypes ==
  ASSUME DaemonInv, WatcherHolds, Ledger
  PROVE  /\ Len(accepted) \in Nat /\ Len(pending) \in Nat /\ Len(drained) \in Nat
         /\ extracted \in Nat /\ saved \in Nat /\ lateChanges \in Nat /\ abandoned \in Nat
         /\ InFlight \in Nat /\ CountedTwice \in Nat /\ DrainedLeft \in Nat
<1>1. /\ accepted \in Seq(Watcher!FileChanges) /\ pending \in Seq(Watcher!FileChanges)
      /\ drained \in Seq(Watcher!FileChanges)
      /\ batchOf \in [Timers -> Seq(Watcher!FileChanges)]
  BY DEF WatcherHolds, Watcher!TypeOK
<1>2. Len(accepted) \in Nat /\ Len(pending) \in Nat /\ Len(drained) \in Nat
  BY <1>1
<1>3. lock \in Timers => Len(batchOf[lock]) \in Nat
  BY <1>1
<1>4. CountedTwice \in Nat /\ DrainedLeft \in Nat
  BY <1>2, <1>3 DEF CountedTwice, DrainedLeft
<1>5. InFlight \in Nat
  BY FS_CardinalityType DEF Ledger, InFlight
<1>6. extracted \in Nat /\ saved \in Nat /\ lateChanges \in Nat /\ abandoned \in Nat
  BY DEF DaemonInv, TypeOK
<1>. QED BY <1>2, <1>4, <1>5, <1>6

LEMMA LedgerInit == Init => Ledger
<1>. SUFFICES ASSUME Init PROVE Ledger
  OBVIOUS
<1>1. \A t \in Timers : timers[t] = "free" /\ batchOf[t] = <<>>
  BY DEF Init, Watcher!Init
<1>2. HeldChanges = {}
  <2>1. \A t \in Timers : DOMAIN batchOf[t] = {}
    BY <1>1
  <2>. QED BY <2>1 DEF HeldChanges
<1>3. IsFiniteSet(HeldChanges) /\ InFlight = 0
  BY <1>2, FS_EmptySet DEF InFlight
<1>4. lock = None /\ CountedTwice = 0 /\ DrainedLeft = 0
  BY WatcherAssumption DEF Init, CountedTwice, DrainedLeft
<1>5. Len(accepted) = 0 /\ Len(pending) = 0
  BY DEF Init, Watcher!Init
<1>6. connOpen
  BY DEF Init
<1>. QED BY <1>1, <1>3, <1>4, <1>5, <1>6 DEF Ledger, Init

\* A step that leaves the batches alone keeps the ledger if the numbers do.
LEMMA LedgerFrame ==
  ASSUME Ledger, batchOf' = batchOf
  PROVE  /\ InFlight' = InFlight /\ IsFiniteSet(HeldChanges)'
         /\ HeldChanges' = HeldChanges
<1>1. HeldChanges' = HeldChanges
  BY DEF HeldChanges
<1>. QED BY <1>1 DEF InFlight, Ledger

\* The watcher's own steps: a change is queued, or a batch is taken.
LEMMA LedgerWatcherStep ==
  ASSUME DaemonInv, WatcherHolds, Ledger, WatcherStep
  PROVE  Ledger'
<1>. USE DEF Watcher!idleVars, Watcher!queueVars
<1>0. /\ batchOf \in [Timers -> Seq(Watcher!FileChanges)]
      /\ timers \in [Timers -> Watcher!TimerStates]
      /\ pending \in Seq(Watcher!FileChanges) /\ accepted \in Seq(Watcher!FileChanges)
  BY DEF WatcherHolds, Watcher!TypeOK
<1>1. /\ lock' = lock /\ stage' = stage /\ mainPc' = mainPc /\ connOpen' = connOpen
      /\ extracted' = extracted /\ saved' = saved
      /\ lateChanges' = lateChanges /\ abandoned' = abandoned
  BY DEF WatcherStep, dataVars, artifactVars, trackerVars, mainVars, lateVars
<1>2. drained' = drained /\ DrainedLeft' = DrainedLeft
  <2>1. drained' = drained
    BY DEF WatcherStep, Watcher!OnAnyEvent, Watcher!Fire, Watcher!Flush, Watcher!FlushNothing,
       Watcher!IdleFire
  <2>. QED BY <1>1, <2>1 DEF DrainedLeft
<1>3. lock \in Timers => timers[lock] = "taken" /\ batchOf'[lock] = batchOf[lock]
  BY CallbacksGoOn DEF DaemonInv, TypeOK, HolderIsLive
<1>4. CountedTwice' = CountedTwice
  BY <1>1, <1>3 DEF CountedTwice
<1>5. ~connOpen => phase = "stopped" /\ pending = <<>>
  BY DEF DaemonInv, PersistIsLast, WatcherHolds
<1>6. ASSUME NEW e \in Events, Watcher!OnAnyEvent(e) PROVE Ledger'
  <2>1. PICK t \in Timers : timers[t] = "free" /\ Watcher!QueueChange(Watcher!FileChange(e), t)
    BY <1>6 DEF Watcher!OnAnyEvent
  <2>2. /\ accepted' = Append(accepted, Watcher!FileChange(e))
        /\ pending' = Append(pending, Watcher!FileChange(e)) /\ batchOf' = batchOf
    BY <2>1 DEF Watcher!QueueChange
  <2>3. Len(accepted') = Len(accepted) + 1 /\ Len(pending') = Len(pending) + 1
    BY <1>0, <2>2
  <2>4. \A s \in Timers : timers'[s] = "taken" <=> timers[s] = "taken"
    BY <1>0, <2>1 DEF Watcher!QueueChange, Watcher!Start, Watcher!Cancel
  <2>5. connOpen
    BY <1>5, <1>6 DEF Watcher!OnAnyEvent
  <2>6. InFlight' = InFlight /\ IsFiniteSet(HeldChanges)'
    BY <2>2, LedgerFrame
  <2>7. \A s \in Timers : timers'[s] # "taken" <=> batchOf'[s] = <<>>
    BY <2>2, <2>4 DEF Ledger
  <2>8. connOpen' /\ saved' <= extracted'
    BY <1>1, <2>5 DEF Ledger
  <2>9. mainPc' \notin {"aborted", "exited"} =>
          Len(accepted') + CountedTwice'
            <= extracted' + InFlight' + Len(pending') + DrainedLeft' + abandoned'
    <3>1. mainPc \notin {"aborted", "exited"} =>
            Len(accepted) + CountedTwice
              <= extracted + InFlight + Len(pending) + DrainedLeft + abandoned
      BY <2>5 DEF Ledger
    <3>2. /\ Len(accepted) \in Nat /\ Len(pending) \in Nat
          /\ extracted \in Nat /\ InFlight \in Nat /\ CountedTwice \in Nat /\ DrainedLeft \in Nat
          /\ abandoned \in Nat
      BY LedgerTypes
    <3>3. InFlight' = InFlight /\ CountedTwice' = CountedTwice /\ DrainedLeft' = DrainedLeft
          /\ extracted' = extracted /\ mainPc' = mainPc /\ abandoned' = abandoned
      BY <1>1, <1>2, <1>4, <2>6
    <3>. QED BY ONLY <2>3, <3>1, <3>2, <3>3, SMTT(90)
  <2>. QED BY <2>6, <2>7, <2>8, <2>9 DEF Ledger
<1>7. ASSUME NEW t \in Timers, Watcher!Flush(t) PROVE Ledger'
  <2>1. /\ batchOf' = [batchOf EXCEPT ![t] = pending] /\ pending' = <<>> /\ pending # <<>>
        /\ accepted' = accepted /\ timers[t] = "fired" /\ timers' = [timers EXCEPT ![t] = "taken"]
    BY <1>7 DEF Watcher!Flush, Watcher!TakePending
  <2>2. batchOf[t] = <<>> /\ connOpen
    BY <1>5, <2>1 DEF Ledger
  <2>3. DiffersAt(batchOf, batchOf', t) /\ batchOf'[t] = pending
    BY <1>0, <2>1 DEF DiffersAt
  <2>4. IsFiniteSet(Held(batchOf)) /\ InFlight = Cardinality(Held(batchOf))
    BY DEF Ledger, HeldChanges, Held, InFlight
  <2>5. /\ IsFiniteSet(Held(batchOf'))
        /\ Cardinality(Held(batchOf')) = InFlight + Len(pending)
    BY <2>2, <2>3, <2>4, HeldAdded
  <2>6. IsFiniteSet(HeldChanges)' /\ InFlight' = InFlight + Len(pending)
    BY <2>5 DEF HeldChanges, Held, InFlight
  <2>7. \A s \in Timers : timers'[s] # "taken" <=> batchOf'[s] = <<>>
    BY <1>0, <2>1 DEF Ledger
  <2>8. Len(pending') = 0
    BY <2>1
  <2>9. connOpen' /\ saved' <= extracted'
    BY <1>1, <2>2 DEF Ledger
  <2>10. mainPc' \notin {"aborted", "exited"} =>
          Len(accepted') + CountedTwice'
            <= extracted' + InFlight' + Len(pending') + DrainedLeft' + abandoned'
    BY <1>1, <1>2, <1>4, <2>1, <2>2, <2>6, <2>8, LedgerTypes DEF Ledger
  <2>. QED BY <2>6, <2>7, <2>9, <2>10 DEF Ledger
<1>8. ASSUME batchOf' = batchOf, accepted' = accepted, pending' = pending,
             \A s \in Timers : timers'[s] = "taken" <=> timers[s] = "taken"
      PROVE  Ledger'
  <2>1. InFlight' = InFlight /\ IsFiniteSet(HeldChanges)'
    BY <1>8, LedgerFrame
  <2>. QED BY <1>1, <1>2, <1>4, <1>8, <2>1 DEF Ledger
<1>9. ASSUME NEW t \in Timers, Watcher!Fire(t) \/ Watcher!FlushNothing(t) PROVE Ledger'
  <2>1. \A s \in Timers : timers'[s] = "taken" <=> timers[s] = "taken"
    BY <1>0, <1>9 DEF Watcher!Fire, Watcher!FlushNothing
  <2>. QED BY <1>8, <1>9, <2>1 DEF Watcher!Fire, Watcher!FlushNothing
<1>10. ASSUME NEW t \in IdleTimers, Watcher!IdleFire(t) PROVE Ledger'
  BY <1>8, <1>10 DEF Watcher!IdleFire
<1>. QED BY <1>6, <1>7, <1>9, <1>10 DEF WatcherStep

\* A step that moves no batch keeps the ledger, if what leaves the queue is
\* drained and at most what was extracted is saved.
LEMMA LedgerSame ==
  ASSUME DaemonInv, WatcherHolds, Ledger, Watcher!TypeOK',
         batchOf' = batchOf, accepted' = accepted,
         \A s \in Timers : timers'[s] = "taken" <=> timers[s] = "taken",
         connOpen' = connOpen, extracted' = extracted, saved' \in {saved, extracted},
         lateChanges' = lateChanges, abandoned' = abandoned,
         CountedTwice' \in {CountedTwice, 0},
         mainPc' \notin {"aborted", "exited"} =>
           /\ mainPc \notin {"aborted", "exited"}
           /\ Len(pending') + DrainedLeft' = Len(pending) + DrainedLeft
  PROVE  Ledger'
<1>1. /\ Len(accepted) \in Nat /\ Len(pending) \in Nat /\ DrainedLeft \in Nat
      /\ extracted \in Nat /\ saved \in Nat /\ lateChanges \in Nat /\ abandoned \in Nat
      /\ InFlight \in Nat /\ CountedTwice \in Nat
  BY LedgerTypes
<1>2. InFlight' = InFlight /\ IsFiniteSet(HeldChanges)'
  BY LedgerFrame
<1>3. saved' <= extracted' /\ saved <= saved' /\ saved' \in Nat
  BY <1>1 DEF Ledger
<1>4. \A s \in Timers : timers'[s] # "taken" <=> batchOf'[s] = <<>>
  BY DEF Ledger
<1>5. Len(accepted') = Len(accepted) /\ CountedTwice' \in Nat /\ CountedTwice' <= CountedTwice
  BY <1>1
<1>6. ASSUME connOpen', mainPc' \notin {"aborted", "exited"}
      PROVE  Len(accepted') + CountedTwice'
               <= extracted' + InFlight' + Len(pending') + DrainedLeft' + abandoned'
  <2>1. Len(accepted) + CountedTwice
          <= extracted + InFlight + Len(pending) + DrainedLeft + abandoned
    BY <1>6 DEF Ledger
  <2>2. Len(accepted) + CountedTwice
          <= extracted + InFlight + (Len(pending) + DrainedLeft) + abandoned
    BY <1>1, <2>1
  <2>3. Len(pending') + DrainedLeft' = Len(pending) + DrainedLeft /\ extracted' = extracted
        /\ abandoned' = abandoned
    BY <1>6
  <2>4. Len(accepted') + CountedTwice'
          <= extracted' + InFlight' + (Len(pending') + DrainedLeft') + abandoned'
    BY ONLY <1>1, <1>2, <1>5, <2>2, <2>3, SMTT(90)
  <2>5. Len(pending') \in Nat /\ DrainedLeft' \in Nat
    <3>1. pending' \in Seq(Watcher!FileChanges) /\ drained' \in Seq(Watcher!FileChanges)
      BY DEF Watcher!TypeOK, Watcher!FileChanges, Watcher!ChangeKind
    <3>2. Len(pending') \in Nat /\ Len(drained') \in Nat
      BY <3>1
    <3>. QED BY <3>2 DEF DrainedLeft
  <2>. QED BY ONLY <1>1, <1>2, <1>5, <2>3, <2>4, <2>5, SMTT(90)
<1>7. ASSUME ~connOpen'
      PROVE  Len(accepted') + CountedTwice' <= saved' + InFlight' + lateChanges' + abandoned'
  <2>1. Len(accepted) + CountedTwice <= saved + InFlight + lateChanges + abandoned
    BY <1>7 DEF Ledger
  <2>2. lateChanges' = lateChanges /\ abandoned' = abandoned
    OBVIOUS
  <2>. QED BY ONLY <1>1, <1>2, <1>3, <1>5, <2>1, <2>2, SMTT(90)
<1>. QED BY <1>2, <1>3, <1>4, <1>6, <1>7 DEF Ledger

\* The clock and the threads that take the lock move no batch.
LEMMA LedgerLockTaken ==
  ASSUME DaemonInv, WatcherHolds, Ledger, Watcher!TypeOK',
         \/ Tick
         \/ \E t \in Timers : BeginBatch(t)
         \/ \E t \in IdleTimers : BeginIdle(t)
         \/ BeginDrained \/ BeginPersist
  PROVE  Ledger'
<1>. USE DEF watcherVars, artifactVars, dataVars, trackerVars, mainVars, lateVars
<1>1. /\ batchOf' = batchOf /\ accepted' = accepted /\ timers' = timers /\ pending' = pending
      /\ drained' = drained /\ mainPc' = mainPc /\ connOpen' = connOpen
      /\ extracted' = extracted /\ saved' = saved
      /\ lateChanges' = lateChanges /\ abandoned' = abandoned
  BY DEF Tick, BeginBatch, BeginIdle, BeginDrained, BeginPersist
<1>2. /\ Main \notin Timers /\ None \notin Timers /\ Main # None
      /\ \A t \in IdleTimers : t \notin Timers /\ t # Main
      /\ \A t \in Timers : t # Main
  BY WatcherAssumption, DaemonAssumption
<1>3. CountedTwice' = CountedTwice
  <2>1. \/ lock' = lock /\ stage' = stage
        \/ lock \notin Timers /\ (lock' \notin Timers \/ stage' = "extract")
    BY <1>2 DEF Tick, BeginBatch, BeginIdle, BeginDrained, BeginPersist
  <2>. QED BY <1>1, <2>1 DEF CountedTwice
<1>4. DrainedLeft' = DrainedLeft
  <2>1. \/ lock' = lock /\ stage' = stage
        \/ lock # Main /\ (lock' # Main \/ stage' = "extract" \/ mainPc # "compile")
    BY <1>2 DEF Tick, BeginBatch, BeginIdle, BeginDrained, BeginPersist
  <2>. QED BY <1>1, <2>1 DEF DrainedLeft
<1>. QED BY <1>1, <1>3, <1>4, LedgerSame

\* Nor do the holder's steps between the extraction and the end.
LEMMA LedgerHolderStep ==
  ASSUME DaemonInv, WatcherHolds, Ledger, Watcher!TypeOK',
         Sync \/ Publish \/ Cluster \/ WriteArtifacts \/ SaveArtifacts
           \/ ScheduleIdle \/ CancelIdle \/ PersistArtifacts
  PROVE  Ledger'
<1>. USE DEF watcherVars, artifactVars, dataVars, trackerVars, mainVars, lateVars
<1>1. /\ batchOf' = batchOf /\ accepted' = accepted /\ timers' = timers /\ pending' = pending
      /\ drained' = drained /\ mainPc' = mainPc /\ connOpen' = connOpen
      /\ extracted' = extracted /\ saved' \in {saved, extracted}
      /\ lateChanges' = lateChanges /\ abandoned' = abandoned
      /\ lock' = lock /\ stage # "extract" /\ stage' # "extract"
  BY DEF Sync, Publish, Cluster, WriteArtifacts, SaveArtifacts, ScheduleIdle, CancelIdle,
       PersistArtifacts, Watcher!ScheduleIdle, Watcher!CancelIdle, Watcher!queueVars
<1>2. CountedTwice' = CountedTwice /\ DrainedLeft' = DrainedLeft
  BY <1>1 DEF CountedTwice, DrainedLeft
<1>. QED BY <1>1, <1>2, LedgerSame

\* main moves the queue to the drained batch, or cuts its shutdown short.
LEMMA LedgerMainStep ==
  ASSUME DaemonInv, WatcherHolds, Ledger, Watcher!TypeOK',
         \/ BeginShutdown \/ SignalAgain \/ Reject \/ Drain \/ StopWatcher \/ MarkStopped
         \/ Exit \/ UNCHANGED vars
  PROVE  Ledger'
<1>. USE DEF watcherVars, artifactVars, dataVars, trackerVars, mainVars, lateVars, vars
<1>0. None \notin Timers /\ Main \notin Timers
  BY WatcherAssumption, DaemonAssumption
<1>1. /\ batchOf' = batchOf /\ accepted' = accepted /\ connOpen' = connOpen
      /\ extracted' = extracted /\ saved' = saved
      /\ lateChanges' = lateChanges /\ abandoned' = abandoned
      /\ (lock' = lock /\ stage' = stage) \/ lock' = None
  BY DEF BeginShutdown, SignalAgain, Reject, Drain, StopWatcher, MarkStopped, Exit,
       Watcher!RejectNewEvents, Watcher!DrainPendingBatch, Watcher!TakePending, Watcher!Stop
<1>2. CountedTwice' \in {CountedTwice, 0}
  BY <1>0, <1>1 DEF CountedTwice
<1>3. \A s \in Timers : timers'[s] = "taken" <=> timers[s] = "taken"
  <2>1. timers \in [Timers -> Watcher!TimerStates]
    BY DEF WatcherHolds, Watcher!TypeOK
  <2>. QED BY <2>1 DEF BeginShutdown, SignalAgain, Reject, Drain, StopWatcher, MarkStopped, Exit,
         Watcher!RejectNewEvents, Watcher!DrainPendingBatch, Watcher!Stop, Watcher!Cancel
<1>4. ASSUME mainPc' \notin {"aborted", "exited"}
      PROVE  /\ mainPc \notin {"aborted", "exited"}
             /\ Len(pending') + DrainedLeft' = Len(pending) + DrainedLeft
  <2>1. mainPc \notin {"aborted", "exited"}
    BY <1>4 DEF BeginShutdown, SignalAgain, Reject, Drain, StopWatcher, MarkStopped, Exit
  <2>2. CASE Drain
    <3>1. lock # Main /\ lock' # Main
      BY <2>2 DEF DaemonInv, TypeOK, HolderIsLive, Drain
    <3>2. drained' = pending /\ pending' = <<>> /\ mainPc # "compile"
      BY <2>2 DEF Drain, Watcher!DrainPendingBatch, Watcher!TakePending
    <3>3. mainPc' = IF pending = <<>> THEN "stop" ELSE "compile"
      BY <2>2 DEF Drain
    <3>4. DrainedLeft = 0 /\ DrainedLeft' = Len(pending) /\ Len(pending') = 0
      BY <3>1, <3>2, <3>3 DEF DrainedLeft
    <3>5. Len(pending) \in Nat
      BY LedgerTypes
    <3>. QED BY <2>1, <3>4, <3>5
  <2>3. CASE ~Drain
    <3>1. pending' = pending /\ drained' = drained
      BY <1>4, <2>3 DEF BeginShutdown, SignalAgain, Reject, StopWatcher, MarkStopped, Exit,
         Watcher!RejectNewEvents, Watcher!Stop
    <3>2. \/ mainPc' # "compile" /\ mainPc # "compile"
          \/ mainPc' = mainPc /\ lock' = lock /\ stage' = stage
      BY <1>4, <2>3 DEF BeginShutdown, SignalAgain, Reject, StopWatcher, MarkStopped, Exit
    <3>3. DrainedLeft' = DrainedLeft
      BY <3>1, <3>2 DEF DrainedLeft
    <3>. QED BY <2>1, <3>1, <3>3
  <2>. QED BY <2>2, <2>3
<1>. QED BY <1>1, <1>2, <1>3, <1>4, LedgerSame

\* The extraction enters a batch that its thread still holds, or takes over the
\* drained one.
LEMMA LedgerExtract ==
  ASSUME DaemonInv, WatcherHolds, Ledger, Extract
  PROVE  Ledger'
<1>. USE DEF watcherVars, artifactVars, dataVars, trackerVars, mainVars, lateVars
<1>0. /\ Len(accepted) \in Nat /\ Len(pending) \in Nat /\ DrainedLeft \in Nat
      /\ extracted \in Nat /\ saved \in Nat /\ lateChanges \in Nat /\ abandoned \in Nat
      /\ InFlight \in Nat /\ CountedTwice \in Nat
  BY LedgerTypes
<1>1. /\ batchOf' = batchOf /\ accepted' = accepted /\ timers' = timers /\ pending' = pending
      /\ drained' = drained /\ mainPc' = mainPc /\ connOpen' = connOpen
      /\ extracted' = extracted + BatchSize /\ saved' = saved
      /\ lateChanges' = IF connOpen THEN lateChanges ELSE lateChanges + BatchSize
      /\ abandoned' = abandoned /\ lock' = lock /\ stage = "extract" /\ stage' = "sync"
  BY DEF Extract
<1>2. BatchSize \in Nat
  BY <1>1, BatchSizeType
<1>3. InFlight' = InFlight /\ IsFiniteSet(HeldChanges)'
  BY <1>1, LedgerFrame
<1>4. saved' <= extracted' /\ \A s \in Timers : timers'[s] # "taken" <=> batchOf'[s] = <<>>
  BY <1>0, <1>1, <1>2 DEF Ledger
<1>5. \/ /\ lock \in Timers /\ DrainedLeft' = DrainedLeft
         /\ CountedTwice = 0 /\ CountedTwice' = BatchSize
      \/ /\ connOpen /\ DrainedLeft = BatchSize /\ DrainedLeft' = 0
         /\ CountedTwice = 0 /\ CountedTwice' = 0
  <2>1. lock \in Timers \/ lock = Main
    BY <1>1 DEF DaemonInv, TypeOK, HolderIsLive, StageOfHolder
  <2>2. CASE lock \in Timers
    <3>1. lock # Main
      BY <2>2, DaemonAssumption
    <3>. QED BY <1>1, <2>2, <3>1 DEF DrainedLeft, CountedTwice, BatchSize
  <2>3. CASE lock = Main
    <3>1. lock \notin Timers
      BY <2>3, DaemonAssumption
    <3>2. mainPc = "compile"
      BY <1>1, <2>3 DEF DaemonInv, TypeOK, HolderIsLive, StageOfHolder
    <3>3. connOpen
      BY <3>2 DEF DaemonInv, PersistIsLast
    <3>. QED BY <1>1, <2>3, <3>1, <3>2, <3>3 DEF DrainedLeft, CountedTwice, BatchSize
  <2>. QED BY <2>1, <2>2, <2>3
<1>6. ASSUME connOpen', mainPc' \notin {"aborted", "exited"}
      PROVE  Len(accepted') + CountedTwice'
               <= extracted' + InFlight' + Len(pending') + DrainedLeft' + abandoned'
  <2>1. Len(accepted) + CountedTwice
          <= extracted + InFlight + Len(pending) + DrainedLeft + abandoned
    BY <1>1, <1>6 DEF Ledger
  <2>2. Len(accepted') = Len(accepted) /\ Len(pending') = Len(pending)
        /\ extracted' = extracted + BatchSize /\ abandoned' = abandoned
    BY <1>1
  <2>3. DrainedLeft' + BatchSize = DrainedLeft + CountedTwice' /\ CountedTwice = 0
        /\ DrainedLeft' \in Nat /\ CountedTwice' \in Nat
    BY <1>0, <1>2, <1>5
  <2>4. InFlight' = InFlight
    BY <1>3
  <2>. QED BY ONLY <1>0, <1>2, <2>1, <2>2, <2>3, <2>4, SMTT(90)
<1>7. ASSUME ~connOpen'
      PROVE  Len(accepted') + CountedTwice' <= saved' + InFlight' + lateChanges' + abandoned'
  <2>1. Len(accepted) + CountedTwice <= saved + InFlight + lateChanges + abandoned
    BY <1>1, <1>7 DEF Ledger
  <2>2. CountedTwice = 0 /\ CountedTwice' = BatchSize
    BY <1>1, <1>5, <1>7
  <2>3. /\ lateChanges' = lateChanges + BatchSize /\ abandoned' = abandoned
        /\ saved' = saved /\ Len(accepted') = Len(accepted)
    BY <1>1, <1>7
  <2>4. InFlight' = InFlight
    BY <1>3
  <2>. QED BY ONLY <1>0, <1>2, <2>1, <2>2, <2>3, <2>4, SMTT(90)
<1>. QED BY <1>3, <1>4, <1>6, <1>7 DEF Ledger

\* A flush thread that ends gives up what it held.
LEMMA HolderLetsGo ==
  ASSUME WatcherHolds, Ledger, lock \in Timers,
         batchOf' = [batchOf EXCEPT ![lock] = <<>>], timers' = [timers EXCEPT ![lock] = "free"]
  PROVE  /\ IsFiniteSet(HeldChanges)'
         /\ InFlight' = InFlight - Len(batchOf[lock]) /\ InFlight' \in Nat
         /\ \A s \in Timers : timers'[s] # "taken" <=> batchOf'[s] = <<>>
<1>1. /\ batchOf \in [Timers -> Seq(Watcher!FileChanges)]
      /\ timers \in [Timers -> Watcher!TimerStates]
  BY DEF WatcherHolds, Watcher!TypeOK
<1>2. DiffersAt(batchOf, batchOf', lock) /\ batchOf'[lock] = <<>>
  <2>1. batchOf' \in [Timers -> Seq(Watcher!FileChanges)]
    <3>1. <<>> \in Seq(Watcher!FileChanges)
      OBVIOUS
    <3>. QED BY <1>1, <3>1
  <2>. QED BY <1>1, <2>1 DEF DiffersAt
<1>3. IsFiniteSet(Held(batchOf)) /\ InFlight = Cardinality(Held(batchOf))
  BY DEF Ledger, HeldChanges, Held, InFlight
<1>4. /\ IsFiniteSet(Held(batchOf'))
      /\ Cardinality(Held(batchOf')) = Cardinality(Held(batchOf)) - Len(batchOf[lock])
  BY <1>2, <1>3, HeldRemoved
<1>5. IsFiniteSet(HeldChanges)' /\ InFlight' = InFlight - Len(batchOf[lock])
  BY <1>3, <1>4 DEF HeldChanges, Held, InFlight
<1>6. InFlight' \in Nat
  BY <1>5, FS_CardinalityType DEF InFlight
<1>7. \A s \in Timers : timers'[s] # "taken" <=> batchOf'[s] = <<>>
  BY <1>1 DEF Ledger
<1>. QED BY <1>5, <1>6, <1>7

\* What an extraction that raises does not come to, it abandons.
LEMMA LedgerExtractRaises ==
  ASSUME DaemonInv, WatcherHolds, Ledger, Watcher!TypeOK', ExtractRaises
  PROVE  Ledger'
<1>. USE DEF artifactVars, trackerVars
<1>0. /\ Len(accepted) \in Nat /\ Len(pending) \in Nat /\ DrainedLeft \in Nat
      /\ extracted \in Nat /\ saved \in Nat /\ lateChanges \in Nat /\ abandoned \in Nat
      /\ InFlight \in Nat /\ CountedTwice \in Nat
  BY LedgerTypes
<1>1. LeaveLock("aborted")
  BY DEF ExtractRaises
<1>2. /\ lock' = None /\ stage' = "none" /\ drained' = drained /\ pending' = pending
      /\ accepted' = accepted
      /\ lock = Main => mainPc' = "aborted" /\ batchOf' = batchOf /\ timers' = timers
      /\ lock \in Timers =>
              /\ mainPc' = mainPc /\ batchOf' = [batchOf EXCEPT ![lock] = <<>>]
              /\ timers' = [timers EXCEPT ![lock] = "free"]
  BY <1>1, LeaveEffect
<1>3. stage = "extract" /\ saved' = saved /\ connOpen' = connOpen
  BY DEF ExtractRaises
<1>4. BatchSize \in Nat
  BY <1>3, BatchSizeType
<1>5. PICK n \in 0..(BatchSize - 1) :
        /\ extracted' = extracted + n
        /\ abandoned' = IF connOpen THEN abandoned + (BatchSize - n) ELSE abandoned
        /\ lateChanges' = IF connOpen THEN lateChanges ELSE lateChanges + BatchSize
  BY DEF ExtractRaises
<1>6. saved' <= extracted' /\ n \in Nat
  BY <1>0, <1>3, <1>4, <1>5 DEF Ledger
<1>7. /\ None \notin Timers /\ Main \notin Timers
      /\ lock \in Timers => lock # Main
  BY WatcherAssumption, DaemonAssumption
<1>8. CASE lock = Main
  <2>1. connOpen' /\ mainPc' = "aborted"
    BY <1>2, <1>3, <1>8 DEF DaemonInv, TypeOK, HolderIsLive, StageOfHolder, PersistIsLast
  <2>2. InFlight' = InFlight /\ IsFiniteSet(HeldChanges)' /\ batchOf' = batchOf /\ timers' = timers
    BY <1>2, <1>8, LedgerFrame
  <2>3. \A s \in Timers : timers'[s] # "taken" <=> batchOf'[s] = <<>>
    BY <2>2 DEF Ledger
  <2>. QED BY <1>6, <2>1, <2>2, <2>3 DEF Ledger
<1>9. CASE lock \in Timers
  <2>1. /\ IsFiniteSet(HeldChanges)'
        /\ InFlight' = InFlight - Len(batchOf[lock]) /\ InFlight' \in Nat
        /\ \A s \in Timers : timers'[s] # "taken" <=> batchOf'[s] = <<>>
    BY <1>2, <1>9, HolderLetsGo
  <2>2. InFlight' = InFlight - BatchSize /\ CountedTwice = 0 /\ CountedTwice' = 0
    BY <1>2, <1>3, <1>7, <1>9, <2>1 DEF BatchSize, CountedTwice
  <2>3. DrainedLeft' = DrainedLeft /\ mainPc' = mainPc
    BY <1>2, <1>7, <1>9, DaemonAssumption DEF DrainedLeft
  <2>4. Len(accepted') = Len(accepted) /\ Len(pending') = Len(pending)
    BY <1>2
  <2>5. ASSUME connOpen', mainPc' \notin {"aborted", "exited"}
        PROVE  Len(accepted') + CountedTwice'
                 <= extracted' + InFlight' + Len(pending') + DrainedLeft' + abandoned'
    <3>1. Len(accepted) + CountedTwice
            <= extracted + InFlight + Len(pending) + DrainedLeft + abandoned
      BY <1>3, <2>3, <2>5 DEF Ledger
    <3>2. extracted' = extracted + n /\ abandoned' = abandoned + (BatchSize - n)
      BY <1>3, <1>5, <2>5
    <3>. QED BY ONLY <1>0, <1>4, <1>6, <2>2, <2>3, <2>4, <3>1, <3>2, SMTT(90)
  <2>6. ASSUME ~connOpen'
        PROVE  Len(accepted') + CountedTwice' <= saved' + InFlight' + lateChanges' + abandoned'
    <3>1. Len(accepted) + CountedTwice <= saved + InFlight + lateChanges + abandoned
      BY <1>3, <2>6 DEF Ledger
    <3>2. lateChanges' = lateChanges + BatchSize /\ abandoned' = abandoned /\ saved' = saved
      BY <1>3, <1>5, <2>6
    <3>. QED BY ONLY <1>0, <1>4, <2>2, <2>4, <3>1, <3>2, SMTT(90)
  <2>. QED BY <1>6, <2>1, <2>5, <2>6 DEF Ledger
<1>10. lock \in Timers \/ lock = Main
  BY <1>3 DEF DaemonInv, TypeOK, HolderIsLive, StageOfHolder
<1>. QED BY <1>8, <1>9, <1>10

\* A flush thread that ends no longer holds what it extracted; the final persist
\* saves all that was extracted.
LEMMA LedgerLeave ==
  ASSUME DaemonInv, WatcherHolds, Ledger, Watcher!TypeOK', Release \/ Raise \/ Persist
  PROVE  Ledger'
<1>. USE DEF artifactVars, dataVars, trackerVars, lateVars
<1>0. /\ Len(accepted) \in Nat /\ Len(pending) \in Nat /\ DrainedLeft \in Nat
      /\ extracted \in Nat /\ saved \in Nat /\ lateChanges \in Nat /\ abandoned \in Nat
      /\ InFlight \in Nat /\ CountedTwice \in Nat
  BY LedgerTypes
<1>1. PICK pc : /\ LeaveLock(pc)
                /\ \/ Release /\ pc = "stop"
                   \/ Raise /\ pc = "aborted"
                   \/ Persist /\ pc = "mark"
  BY DEF Release, Raise, Persist
<1>2. /\ lock' = None /\ stage' = "none" /\ drained' = drained /\ pending' = pending
      /\ accepted' = accepted
      /\ lock = Main => mainPc' = pc /\ batchOf' = batchOf /\ timers' = timers
      /\ lock \in Timers =>
              /\ mainPc' = mainPc /\ batchOf' = [batchOf EXCEPT ![lock] = <<>>]
              /\ timers' = [timers EXCEPT ![lock] = "free"]
      /\ lock \in IdleTimers => mainPc' = mainPc /\ batchOf' = batchOf /\ timers' = timers
  BY <1>1, LeaveEffect
<1>3. /\ extracted' = extracted /\ lateChanges' = lateChanges /\ abandoned' = abandoned
      /\ stage # "extract"
      /\ ~Persist => saved' = saved /\ connOpen' = connOpen
  BY DEF Release, Raise, Persist
<1>4. /\ None \notin Timers /\ Main \notin Timers /\ Main \notin IdleTimers /\ Main # None
      /\ \A t \in IdleTimers : t \notin Timers
  BY WatcherAssumption, DaemonAssumption
<1>5. CountedTwice' = 0
  BY <1>2, <1>4 DEF CountedTwice
<1>6. lock \in Timers \/ lock \in IdleTimers \/ lock = Main
  BY <1>1 DEF LeaveLock
<1>7. Persist => lock = Main /\ mainPc = "persist"
  BY DEF DaemonInv, StageOfHolder, Persist
<1>8. CASE lock \in Timers
  <2>1. IsFiniteSet(HeldChanges)' /\ InFlight' = InFlight - Len(batchOf[lock]) /\ InFlight' \in Nat
    BY <1>2, <1>8, HolderLetsGo
  <2>2. CountedTwice = Len(batchOf[lock])
    BY <1>3, <1>8 DEF CountedTwice
  <2>3. \A s \in Timers : timers'[s] # "taken" <=> batchOf'[s] = <<>>
    BY <1>2, <1>8, HolderLetsGo
  <2>4. ~Persist
    BY <1>4, <1>7, <1>8
  <2>5. DrainedLeft' = DrainedLeft
    BY <1>2, <1>4, <1>8 DEF DrainedLeft
  <2>6. ASSUME connOpen', mainPc' \notin {"aborted", "exited"}
         PROVE  Len(accepted') + CountedTwice'
                  <= extracted' + InFlight' + Len(pending') + DrainedLeft' + abandoned'
    <3>1. Len(accepted) + CountedTwice
            <= extracted + InFlight + Len(pending) + DrainedLeft + abandoned
      BY <1>2, <1>3, <1>8, <2>4, <2>6 DEF Ledger
    <3>2. /\ Len(accepted') = Len(accepted) /\ extracted' = extracted
          /\ Len(pending') = Len(pending) /\ abandoned' = abandoned
      BY <1>2, <1>3
    <3>3. InFlight' = InFlight - CountedTwice /\ InFlight' \in Nat
      BY <2>1, <2>2
    <3>. QED BY ONLY <1>0, <1>5, <2>5, <3>1, <3>2, <3>3, SMTT(90)
  <2>7. ASSUME ~connOpen'
         PROVE  Len(accepted') + CountedTwice' <= saved' + InFlight' + lateChanges' + abandoned'
    <3>1. Len(accepted) + CountedTwice <= saved + InFlight + lateChanges + abandoned
      BY <1>3, <2>4, <2>7 DEF Ledger
    <3>2. /\ Len(accepted') = Len(accepted) /\ saved' = saved
          /\ lateChanges' = lateChanges /\ abandoned' = abandoned
      BY <1>2, <1>3, <2>4
    <3>3. InFlight' = InFlight - CountedTwice /\ InFlight' \in Nat
      BY <2>1, <2>2
    <3>. QED BY ONLY <1>0, <1>5, <3>1, <3>2, <3>3, SMTT(90)
  <2>8. saved' <= extracted'
    BY <1>3, <2>4 DEF Ledger
  <2>. QED BY <2>1, <2>3, <2>6, <2>7, <2>8 DEF Ledger
<1>9. CASE lock \notin Timers /\ ~Persist
  <2>1. batchOf' = batchOf /\ timers' = timers
    BY <1>2, <1>6, <1>9
  <2>2. ASSUME mainPc' \notin {"aborted", "exited"}
        PROVE  /\ mainPc \notin {"aborted", "exited"}
               /\ Len(pending') + DrainedLeft' = Len(pending) + DrainedLeft
    <3>1. CASE lock = Main
      <4>1. Release /\ mainPc \in {"compile", "persist"} /\ mainPc' = "stop"
        BY <1>1, <1>2, <1>9, <2>2, <3>1 DEF DaemonInv, TypeOK, HolderIsLive
      <4>2. DrainedLeft' = 0 /\ DrainedLeft = 0
        BY <1>2, <1>3, <3>1, <4>1 DEF DrainedLeft
      <4>. QED BY <1>2, <4>1, <4>2
    <3>2. CASE lock \in IdleTimers
      <4>1. DrainedLeft' = DrainedLeft /\ mainPc' = mainPc
        BY <1>2, <1>4, <3>2 DEF DrainedLeft
      <4>. QED BY <1>2, <2>2, <4>1
    <3>. QED BY <1>6, <1>9, <3>1, <3>2
  <2>. QED BY <1>2, <1>3, <1>5, <1>9, <2>1, <2>2, LedgerSame
<1>10. CASE Persist
  <2>1. lock = Main /\ mainPc = "persist" /\ phase = "stopped" /\ connOpen
    BY <1>7, <1>10 DEF DaemonInv, WatcherPhase, PersistIsLast
  <2>2. pending = <<>> /\ Len(pending) = 0
    BY <2>1 DEF WatcherHolds
  <2>3. DrainedLeft = 0
    BY <2>1 DEF DrainedLeft
  <2>4. Len(accepted) + CountedTwice
          <= extracted + InFlight + Len(pending) + DrainedLeft + abandoned
    BY <2>1 DEF Ledger
  <2>5. InFlight' = InFlight /\ IsFiniteSet(HeldChanges)' /\ batchOf' = batchOf /\ timers' = timers
    BY <1>2, <2>1, LedgerFrame
  <2>6. saved' = extracted
    BY <1>10 DEF Persist
  <2>7. connOpen' = FALSE
    BY <1>10 DEF Persist
  <2>8. accepted' = accepted /\ lateChanges' = lateChanges /\ abandoned' = abandoned
    BY <1>2, <1>3
  <2>9. Len(accepted') + CountedTwice' <= saved' + InFlight' + lateChanges' + abandoned'
    BY ONLY <1>0, <1>5, <2>2, <2>3, <2>4, <2>5, <2>6, <2>8, SMTT(90)
  <2>10. saved' <= extracted'
    BY <1>0, <1>3, <2>6
  <2>11. \A s \in Timers : timers'[s] # "taken" <=> batchOf'[s] = <<>>
    BY <2>5 DEF Ledger
  <2>. QED BY <2>5, <2>7, <2>9, <2>10, <2>11 DEF Ledger
<1>. QED BY <1>8, <1>9, <1>10

LEMMA LedgerStep ==
  ASSUME DaemonInv, WatcherHolds, Ledger, Watcher!TypeOK', [Next]_vars
  PROVE  Ledger'
<1>1. CASE WatcherStep
  BY <1>1, LedgerWatcherStep
<1>2. CASE Tick \/ (\E t \in Timers : BeginBatch(t)) \/ (\E t \in IdleTimers : BeginIdle(t))
             \/ BeginDrained \/ BeginPersist
  BY <1>2, LedgerLockTaken
<1>3. CASE Sync \/ Publish \/ Cluster \/ WriteArtifacts \/ SaveArtifacts
             \/ ScheduleIdle \/ CancelIdle \/ PersistArtifacts
  BY <1>3, LedgerHolderStep
<1>4. CASE Extract
  BY <1>4, LedgerExtract
<1>5. CASE ExtractRaises \/ Release \/ Raise \/ Persist
  BY <1>5, LedgerExtractRaises, LedgerLeave
<1>6. CASE BeginShutdown \/ SignalAgain \/ Reject \/ Drain \/ StopWatcher \/ MarkStopped
             \/ Exit \/ Exited \/ UNCHANGED vars
  BY <1>6, LedgerMainStep DEF Exited
<1>. QED BY <1>1, <1>2, <1>3, <1>4, <1>5, <1>6 DEF Next, HolderStep, MainStep

\* Every accepted change is accounted for in every reachable state.
THEOREM LedgerBalances == Spec => []Ledger
<1>1. WatcherHolds' => Watcher!TypeOK'
  BY DEF WatcherHolds
<1>2. DaemonInv /\ WatcherHolds /\ WatcherHolds' /\ Ledger /\ [Next]_vars => Ledger'
  BY <1>1, LedgerStep
<1>. QED BY <1>2, LedgerInit, DaemonInductive, PTL DEF Spec

\* A completed shutdown loses no accepted change but those a flush thread held
\* and had not brought to the lock before the final persist, and those an
\* extraction that raised never came to: daemon.py's
\* shutdown with ShutdownCoordinator's lock and the watcher's drain.
THEOREM ShutdownLosesOnlyInFlight == Spec => []LostOnlyInFlight
<1>1. DaemonInv /\ WatcherHolds /\ Ledger => LostOnlyInFlight
  <2>. SUFFICES ASSUME DaemonInv, WatcherHolds, Ledger, state = "STOPPED"
                PROVE  Len(accepted) <= saved + InFlight + lateChanges + abandoned
    BY DEF LostOnlyInFlight
  <2>1. Len(accepted) + CountedTwice <= saved + InFlight + lateChanges + abandoned
    BY DEF DaemonInv, PersistIsLast, Ledger
  <2>. QED BY <2>1, LedgerTypes
<1>. QED BY <1>1, LedgerBalances, DaemonInductive, PTL

-----------------------------------------------------------------------------
(* No cycle with nothing to save *)

\* A batch that is compiled is not empty.
LEMMA BatchNotEmpty ==
  ASSUME DaemonInv, WatcherHolds, Ledger, stage \in {"extract", "sync", "publish"}
  PROVE  BatchSize \in Nat /\ BatchSize > 0
<1>1. BatchSize \in Nat
  BY BatchSizeType
<1>2. CASE lock \in Timers
  <2>1. lock # Main /\ timers[lock] = "taken"
    BY <1>2, DaemonAssumption DEF DaemonInv, TypeOK, HolderIsLive
  <2>2. batchOf[lock] \in Seq(Watcher!FileChanges) /\ batchOf[lock] # <<>>
    BY <1>2, <2>1 DEF Ledger, WatcherHolds, Watcher!TypeOK
  <2>3. Len(batchOf[lock]) # 0
    BY <2>2
  <2>. QED BY <1>1, <2>1, <2>3 DEF BatchSize
<1>3. CASE lock = Main
  <2>1. drained \in Seq(Watcher!FileChanges) /\ drained # <<>>
    BY <1>3 DEF DaemonInv, TypeOK, HolderIsLive, StageOfHolder, WatcherPhase, WatcherHolds,
       Watcher!TypeOK
  <2>2. Len(drained) # 0
    BY <2>1
  <2>. QED BY <1>1, <1>3, <2>2 DEF BatchSize
<1>4. lock \in Timers \/ lock = Main
  BY DEF DaemonInv, TypeOK, HolderIsLive, StageOfHolder
<1>. QED BY <1>2, <1>3, <1>4

\* What the tracker counts stays unsaved until the tracker is reset.
LEMMA CountedStep ==
  ASSUME DaemonInv, WatcherHolds, Ledger, CountedIsUnsaved, [Next]_vars
  PROVE  CountedIsUnsaved'
<1>. USE DEF watcherVars, artifactVars, dataVars, trackerVars, mainVars, lateVars, vars
<1>0. extracted \in Nat /\ saved \in Nat /\ saved <= extracted /\ accumulated \in Nat
  BY DEF DaemonInv, TypeOK, Ledger
<1>1. CASE Extract
  <2>1. stage = "extract" /\ extracted' = extracted + BatchSize /\ saved' = saved
    BY <1>1 DEF Extract
  <2>2. extracted' > saved'
    BY <1>0, <2>1, BatchNotEmpty
  <2>. QED BY <2>2 DEF CountedIsUnsaved
<1>2. CASE Sync \/ Publish
  <2>1. /\ stage \in {"sync", "publish"} /\ connOpen' = connOpen
        /\ extracted' = extracted /\ saved' = saved
    BY <1>2 DEF Sync, Publish
  <2>2. connOpen => extracted > saved
    BY <2>1 DEF CountedIsUnsaved
  <2>. QED BY <2>1, <2>2 DEF CountedIsUnsaved
<1>3. CASE SaveArtifacts
  BY <1>3 DEF SaveArtifacts, Reset, CountedIsUnsaved
<1>4. CASE Persist
  BY <1>4 DEF Persist, CountedIsUnsaved
<1>5. CASE ExtractRaises
  <2>1. BatchSize \in Nat /\ stage' = "none" /\ saved' = saved
    BY <1>5, BatchSizeType DEF ExtractRaises, LeaveLock
  <2>2. /\ extracted' \in Nat /\ extracted' >= extracted
        /\ accumulated' = accumulated /\ connOpen' = connOpen
    BY <1>0, <1>5, <2>1 DEF ExtractRaises
  <2>3. connOpen' /\ accumulated' > 0 => extracted' > saved'
    BY <1>0, <2>1, <2>2 DEF CountedIsUnsaved
  <2>. QED BY <2>1, <2>3 DEF CountedIsUnsaved
<1>6. CASE ~(Extract \/ Sync \/ Publish \/ SaveArtifacts \/ Persist \/ ExtractRaises)
  <2>1. /\ extracted' = extracted /\ saved' = saved /\ accumulated' = accumulated
        /\ connOpen' = connOpen
    BY <1>6 DEF Next, HolderStep, MainStep, WatcherStep, Tick, BeginBatch, BeginIdle, Cluster,
         WriteArtifacts, ScheduleIdle, CancelIdle, Release, Raise, PersistArtifacts, BeginDrained,
         Reject, Drain, StopWatcher, BeginPersist, MarkStopped, BeginShutdown, SignalAgain, Exit,
         Exited
  <2>2. stage' = stage \/ stage' \notin {"sync", "publish"}
    BY <1>6 DEF Next, HolderStep, MainStep, WatcherStep, Tick, BeginBatch, BeginIdle, Cluster,
         WriteArtifacts, ScheduleIdle, CancelIdle, Release, Raise, PersistArtifacts, BeginDrained,
         Reject, Drain, StopWatcher, BeginPersist, MarkStopped, BeginShutdown, SignalAgain, Exit,
         Exited, LeaveLock
  <2>. QED BY <2>1, <2>2 DEF CountedIsUnsaved
<1>. QED BY <1>1, <1>2, <1>3, <1>4, <1>5, <1>6

\* A daemon that runs holds its connection, main holds no lock, and only these
\* steps leave it running without a failure.
LEMMA RunningSteps ==
  ASSUME DaemonInv, [Next]_vars, Running'
  PROVE  /\ Running /\ connOpen /\ lock # Main /\ stage \notin {"persist", "persistFill"}
         /\ \/ WatcherStep \/ Tick
            \/ \E t \in Timers : BeginBatch(t)
            \/ \E t \in IdleTimers : BeginIdle(t)
            \/ Extract \/ Sync \/ Publish \/ Cluster \/ WriteArtifacts \/ SaveArtifacts
            \/ ScheduleIdle \/ CancelIdle \/ Release \/ UNCHANGED vars
<1>. USE DEF watcherVars, artifactVars, dataVars, trackerVars, mainVars, lateVars, vars
<1>0. failures \in Nat
  BY DEF DaemonInv, TypeOK
<1>1. state = "RUNNING" /\ ~BeginShutdown /\ ~MarkStopped
  BY DEF Running, Next, HolderStep, MainStep, WatcherStep, Tick, BeginBatch, BeginIdle, Extract,
       Sync, Publish, Cluster, WriteArtifacts, SaveArtifacts, ScheduleIdle, CancelIdle, Release,
       ExtractRaises, Raise, PersistArtifacts, Persist, LeaveLock, BeginDrained, Reject, Drain,
       StopWatcher, BeginPersist, MarkStopped, BeginShutdown, SignalAgain, Exit, Exited
<1>2. mainPc = "serving"
  BY <1>1 DEF DaemonInv, WatcherPhase
<1>3. connOpen
  BY <1>2 DEF DaemonInv, PersistIsLast
<1>4. lock # Main /\ stage \notin {"persist", "persistFill"}
  BY <1>2 DEF DaemonInv, TypeOK, HolderIsLive, StageOfHolder
<1>5. ~Raise /\ ~ExtractRaises
  <2>1. SUFFICES ASSUME Raise \/ ExtractRaises PROVE FALSE
    OBVIOUS
  <2>2. failures' = failures + 1
    BY <1>3, <2>1 DEF Raise, ExtractRaises
  <2>. QED BY <1>0, <2>2 DEF Running
<1>6. \/ WatcherStep \/ Tick
      \/ \E t \in Timers : BeginBatch(t)
      \/ \E t \in IdleTimers : BeginIdle(t)
      \/ Extract \/ Sync \/ Publish \/ Cluster \/ WriteArtifacts \/ SaveArtifacts
      \/ ScheduleIdle \/ CancelIdle \/ Release \/ UNCHANGED vars
  BY <1>1, <1>2, <1>4, <1>5 DEF Next, HolderStep, MainStep, PersistArtifacts, Persist,
       BeginDrained, Reject, Drain, StopWatcher, BeginPersist, SignalAgain, Exit, Exited
<1>7. failures = 0
  BY <1>6 DEF Running, WatcherStep, Tick, BeginBatch, BeginIdle, Extract,
       Sync, Publish, Cluster, WriteArtifacts, SaveArtifacts, ScheduleIdle, CancelIdle, Release
<1>. QED BY <1>1, <1>3, <1>4, <1>6, <1>7 DEF Running

\* An idle thread that starts a cycle has changes to save: fewer than the
\* threshold are counted when the lock is free, so quiet time has passed.
LEMMA IdleCycleHasWork ==
  ASSUME DaemonInv, Ledger, QuietInv, NEW t \in IdleTimers, BeginIdle(t), stage' = "cluster"
  PROVE  /\ sinceBatch # 0 /\ extracted > saved
         /\ \A s \in IdleTimers : idleTimers[s] # "armed"
<1>1. stage = "none" /\ idleTimers[t] = "fired"
  BY DEF BeginIdle, DaemonInv, TypeOK, HolderIsLive
<1>2. ShouldTrigger(accumulated, sinceBatch)
  BY DEF BeginIdle
<1>3. ~(accumulated >= ChangeThreshold)
  BY <1>1 DEF QuietInv, ThresholdInline
<1>4. sinceBatch >= QuietTicks
  BY <1>2, <1>3 DEF ShouldTrigger
<1>5. sinceBatch # 0
  BY <1>4, DaemonAssumption
<1>6. extracted # saved
  BY <1>1, <1>5 DEF QuietInv, NothingToSave
<1>7. extracted \in Nat /\ saved \in Nat /\ saved <= extracted
  BY DEF DaemonInv, TypeOK, Ledger
<1>8. \A s \in IdleTimers : idleTimers[s] # "armed"
  BY <1>1, <1>5 DEF QuietInv, ArmedIsFresh
<1>. QED BY <1>5, <1>6, <1>7, <1>8

\* Cancelling the timer that _idle_timer names leaves none armed.
LEMMA CancelLeavesNoneArmed ==
  ASSUME WatcherHolds, idleTimers' = Watcher!Cancel(idleTimers, idleTimer)
  PROVE  \A t \in IdleTimers : /\ idleTimers'[t] # "armed"
                               /\ idleTimers'[t] = "fired" <=> idleTimers[t] = "fired"
<1>1. idleTimers \in [IdleTimers -> Watcher!TimerStates \ {"taken"}]
  BY DEF WatcherHolds, Watcher!TypeOK
<1>. QED BY <1>1 DEF WatcherHolds, Watcher!SinglePendingIdle, Watcher!Cancel

\* A timer goes off, or the queue moves.
LEMMA QuietWatcherStep ==
  ASSUME WatcherHolds, QuietInv, WatcherStep
  PROVE  QuietInv'
<1>. USE DEF artifactVars, dataVars, trackerVars, mainVars, lateVars
<1>0. idleTimers \in [IdleTimers -> Watcher!TimerStates \ {"taken"}]
  BY DEF WatcherHolds, Watcher!TypeOK
<1>1. /\ stage' = stage /\ lock' = lock /\ extracted' = extracted /\ saved' = saved
      /\ sinceBatch' = sinceBatch /\ accumulated' = accumulated
  BY DEF WatcherStep
<1>2. CycleHasWork' /\ ThresholdInline'
  BY <1>1 DEF QuietInv, CycleHasWork, ThresholdInline
<1>3. CASE idleTimers' = idleTimers
  BY <1>1, <1>2, <1>3 DEF QuietInv, IdleCycleAlone, ArmedIsFresh, NothingToSave
<1>4. ASSUME NEW x \in IdleTimers, Watcher!IdleFire(x) PROVE QuietInv'
  <2>1. idleTimers[x] = "armed" /\ idleTimers' = [idleTimers EXCEPT ![x] = "fired"]
    BY <1>4 DEF Watcher!IdleFire
  <2>2. \A t \in IdleTimers : idleTimers'[t] # "armed"
    BY <1>0, <2>1 DEF WatcherHolds, Watcher!SinglePendingIdle
  <2>3. \A t \in IdleTimers : idleTimers'[t] = "fired" => t = x \/ idleTimers[t] = "fired"
    BY <1>0, <2>1
  <2>4. IdleCycleAlone' /\ ArmedIsFresh'
    BY <2>2 DEF IdleCycleAlone, ArmedIsFresh
  <2>5. NothingToSave'
    BY <1>1, <2>1, <2>2, <2>3 DEF QuietInv, NothingToSave
  <2>. QED BY <1>2, <2>4, <2>5 DEF QuietInv
<1>5. idleTimers' = idleTimers \/ \E x \in IdleTimers : Watcher!IdleFire(x)
  BY DEF WatcherStep, Watcher!OnAnyEvent, Watcher!Fire, Watcher!Flush, Watcher!FlushNothing,
       Watcher!idleVars
<1>. QED BY <1>3, <1>4, <1>5

\* Time passes.
LEMMA QuietTick ==
  ASSUME DaemonInv, Ledger, CountedIsUnsaved, connOpen, QuietInv, Tick
  PROVE  QuietInv'
<1>. USE DEF watcherVars, artifactVars, dataVars, trackerVars, mainVars, lateVars
<1>1. /\ stage' = stage /\ lock' = lock /\ extracted' = extracted /\ saved' = saved
      /\ idleTimers' = idleTimers /\ accumulated' = accumulated
      /\ stage \notin {"schedule", "cancel", "release", "persist", "persistFill"}
  BY DEF Tick
<1>2. stage = "none" => \A t \in IdleTimers : idleTimers[t] # "fired"
  BY DEF Tick, WantsLock, DaemonInv, TypeOK, HolderIsLive
<1>3. CycleHasWork' /\ ThresholdInline' /\ IdleCycleAlone'
  BY <1>1 DEF QuietInv, CycleHasWork, ThresholdInline, IdleCycleAlone
<1>4. ArmedIsFresh'
  BY <1>1, <1>2 DEF ArmedIsFresh
<1>5. extracted = saved => stage \in {"none", "extract"}
  <2>1. extracted \in Nat /\ saved \in Nat
    BY DEF DaemonInv, TypeOK
  <2>2. stage \in {"none", "extract"} \/ extracted > saved
    BY <1>1 DEF CountedIsUnsaved, QuietInv, CycleHasWork, DaemonInv, TypeOK
  <2>. QED BY <2>1, <2>2
<1>6. NothingToSave'
  BY <1>1, <1>2, <1>5 DEF QuietInv, NothingToSave
<1>. QED BY <1>3, <1>4, <1>6 DEF QuietInv

\* A thread gets the lock.
LEMMA QuietLockTaken ==
  ASSUME DaemonInv, Ledger, QuietInv,
         (\E t \in Timers : BeginBatch(t)) \/ (\E t \in IdleTimers : BeginIdle(t))
  PROVE  QuietInv'
<1>. USE DEF watcherVars, artifactVars, dataVars, trackerVars, mainVars, lateVars
<1>1. /\ extracted' = extracted /\ saved' = saved /\ sinceBatch' = sinceBatch
      /\ idleTimers' = idleTimers /\ accumulated' = accumulated /\ stage = "none"
  BY DEF BeginBatch, BeginIdle, DaemonInv, TypeOK, HolderIsLive
<1>2. ThresholdInline'
  BY <1>1 DEF QuietInv, ThresholdInline
<1>3. \A t \in IdleTimers : extracted = saved =>
        idleTimers[t] # "armed" /\ (idleTimers[t] = "fired" => sinceBatch = 0)
  BY <1>1 DEF QuietInv, NothingToSave
<1>4. NothingToSave'
  BY <1>1, <1>3 DEF NothingToSave
<1>5. ArmedIsFresh'
  BY <1>1 DEF QuietInv, ArmedIsFresh
<1>6. CASE stage' = "extract"
  <2>1. CycleHasWork' /\ IdleCycleAlone'
    BY <1>6 DEF CycleHasWork, IdleCycleAlone
  <2>. QED BY <1>2, <1>4, <1>5, <2>1 DEF QuietInv
<1>7. CASE stage' = "release"
  <2>1. CycleHasWork' /\ IdleCycleAlone'
    BY <1>7 DEF CycleHasWork, IdleCycleAlone
  <2>. QED BY <1>2, <1>4, <1>5, <2>1 DEF QuietInv
<1>8. CASE stage' = "cluster"
  <2>1. PICK t \in IdleTimers : BeginIdle(t)
    BY <1>8 DEF BeginBatch
  <2>2. extracted > saved /\ \A s \in IdleTimers : idleTimers[s] # "armed"
    BY <1>8, <2>1, IdleCycleHasWork
  <2>3. CycleHasWork' /\ IdleCycleAlone'
    BY <1>1, <1>8, <2>2 DEF CycleHasWork, IdleCycleAlone
  <2>. QED BY <1>2, <1>4, <1>5, <2>3 DEF QuietInv
<1>9. stage' \in {"extract", "release", "cluster"}
  BY DEF BeginBatch, BeginIdle
<1>. QED BY <1>6, <1>7, <1>8, <1>9

\* A batch is extracted, indexed and published.
LEMMA QuietBatchStep ==
  ASSUME DaemonInv, WatcherHolds, Ledger, CountedIsUnsaved, connOpen, lock # Main, QuietInv,
         Extract \/ Sync \/ Publish
  PROVE  QuietInv'
<1>. USE DEF watcherVars, artifactVars, dataVars, trackerVars, mainVars, lateVars
<1>0. extracted \in Nat /\ saved \in Nat /\ saved <= extracted /\ accumulated \in Nat
  BY DEF DaemonInv, TypeOK, Ledger
<1>1. /\ saved' = saved /\ idleTimers' = idleTimers /\ lock' = lock
      /\ stage \in {"extract", "sync", "publish"}
  BY DEF Extract, Sync, Publish
<1>2. lock \notin IdleTimers
  BY <1>1 DEF DaemonInv, StageOfHolder
<1>3. extracted' > saved' /\ extracted' # saved'
  <2>1. CASE Extract
    <3>1. extracted' = extracted + BatchSize
      BY <2>1 DEF Extract
    <3>. QED BY <1>0, <1>1, <3>1, BatchNotEmpty
  <2>2. CASE Sync \/ Publish
    <3>1. extracted' = extracted /\ stage \in {"sync", "publish"}
      BY <2>2 DEF Sync, Publish
    <3>. QED BY <1>0, <1>1, <3>1 DEF CountedIsUnsaved
  <2>. QED BY <2>1, <2>2
<1>4. NothingToSave'
  BY <1>3 DEF NothingToSave
<1>5. IdleCycleAlone'
  BY <1>1, <1>2 DEF IdleCycleAlone
<1>6. stage' \in {"sync", "publish", "cluster", "schedule"}
  BY DEF Extract, Sync, Publish
<1>7. ArmedIsFresh'
  BY <1>6 DEF ArmedIsFresh
<1>8. CycleHasWork'
  BY <1>3 DEF CycleHasWork, Extract, Sync, Publish
<1>9. ThresholdInline'
  <2>1. CASE Extract \/ Sync
    <3>1. accumulated' = accumulated /\ ~(accumulated >= ChangeThreshold)
      BY <1>1, <2>1 DEF Extract, Sync, QuietInv, ThresholdInline
    <3>. QED BY <3>1 DEF ThresholdInline
  <2>2. CASE Publish
    <3>1. accumulated' >= ChangeThreshold => stage' = "cluster"
      BY <2>2 DEF Publish, ShouldTrigger
    <3>. QED BY <1>1, <1>2, <3>1 DEF ThresholdInline
  <2>. QED BY <2>1, <2>2
<1>. QED BY <1>4, <1>5, <1>7, <1>8, <1>9 DEF QuietInv

\* The cycle, the idle timer and the end of a compile.
LEMMA QuietCycleStep ==
  ASSUME DaemonInv, WatcherHolds, Ledger, lock # Main, QuietInv,
         Cluster \/ WriteArtifacts \/ SaveArtifacts \/ ScheduleIdle \/ CancelIdle \/ Release
  PROVE  QuietInv'
<1>. USE DEF watcherVars, artifactVars, dataVars, trackerVars, mainVars, lateVars
<1>0. extracted \in Nat /\ saved \in Nat /\ saved <= extracted
  BY DEF DaemonInv, TypeOK, Ledger
<1>1. CASE Cluster \/ WriteArtifacts
  <2>1. /\ saved' = saved /\ idleTimers' = idleTimers /\ lock' = lock /\ extracted' = extracted
        /\ sinceBatch' = sinceBatch /\ accumulated' = accumulated
        /\ stage \in {"cluster", "save"} /\ stage' \in {"save", "fill"}
    BY <1>1 DEF Cluster, WriteArtifacts
  <2>2. extracted > saved
    BY <2>1 DEF QuietInv, CycleHasWork
  <2>3. extracted' # saved'
    BY <1>0, <2>1, <2>2
  <2>. QED BY <2>1, <2>2, <2>3 DEF QuietInv, CycleHasWork, ThresholdInline, IdleCycleAlone,
         ArmedIsFresh, NothingToSave
<1>2. CASE SaveArtifacts
  <2>1. /\ saved' = extracted /\ idleTimers' = idleTimers /\ lock' = lock
        /\ extracted' = extracted /\ sinceBatch' = 0 /\ accumulated' = 0 /\ stage = "fill"
        /\ stage' = IF lock \in IdleTimers THEN "release" ELSE "cancel"
    BY <1>2 DEF SaveArtifacts, Reset
  <2>2. ~(accumulated' >= ChangeThreshold)
    BY <2>1, DaemonAssumption
  <2>3. \A t \in IdleTimers : idleTimers'[t] = "armed" => stage' = "cancel"
    BY <2>1 DEF QuietInv, IdleCycleAlone
  <2>. QED BY <2>1, <2>2, <2>3 DEF QuietInv, CycleHasWork, ThresholdInline, IdleCycleAlone,
         ArmedIsFresh, NothingToSave
<1>3. CASE ScheduleIdle
  <2>1. /\ saved' = saved /\ lock' = lock /\ extracted' = extracted
        /\ sinceBatch' = sinceBatch /\ accumulated' = accumulated
        /\ stage = "schedule" /\ stage' = "release"
    BY <1>3 DEF ScheduleIdle
  <2>2. extracted > saved /\ sinceBatch = 0 /\ ~(accumulated >= ChangeThreshold)
    BY <2>1 DEF QuietInv, CycleHasWork, ThresholdInline
  <2>3. extracted' # saved'
    BY <1>0, <2>1, <2>2
  <2>. QED BY <2>1, <2>2, <2>3 DEF QuietInv, CycleHasWork, ThresholdInline, IdleCycleAlone,
         ArmedIsFresh, NothingToSave
<1>4. CASE CancelIdle
  <2>1. /\ saved' = saved /\ lock' = lock /\ extracted' = extracted
        /\ sinceBatch' = sinceBatch /\ accumulated' = accumulated
        /\ stage = "cancel" /\ stage' = "release"
        /\ idleTimers' = Watcher!Cancel(idleTimers, idleTimer)
    BY <1>4 DEF CancelIdle, Watcher!CancelIdle, Watcher!CancelIdleTimer
  <2>2. \A t \in IdleTimers : /\ idleTimers'[t] # "armed"
                              /\ idleTimers'[t] = "fired" <=> idleTimers[t] = "fired"
    BY <2>1, CancelLeavesNoneArmed
  <2>3. ~(accumulated >= ChangeThreshold)
    BY <2>1 DEF QuietInv, ThresholdInline
  <2>4. CycleHasWork' /\ ThresholdInline' /\ IdleCycleAlone' /\ ArmedIsFresh'
    BY <2>1, <2>2, <2>3 DEF CycleHasWork, ThresholdInline, IdleCycleAlone, ArmedIsFresh
  <2>5. NothingToSave'
    BY <2>1, <2>2 DEF QuietInv, NothingToSave
  <2>. QED BY <2>4, <2>5 DEF QuietInv
<1>5. CASE Release
  <2>1. /\ saved' = saved /\ extracted' = extracted /\ sinceBatch' = sinceBatch
        /\ accumulated' = accumulated /\ stage = "release" /\ stage' = "none"
    BY <1>5 DEF Release, LeaveLock
  <2>2. \A t \in IdleTimers : idleTimers'[t] \in {idleTimers[t], "free"}
    <3>1. idleTimers \in [IdleTimers -> Watcher!TimerStates \ {"taken"}]
      BY DEF WatcherHolds, Watcher!TypeOK
    <3>2. \/ idleTimers' = idleTimers
          \/ idleTimers' = [idleTimers EXCEPT ![lock] = "free"]
      BY <1>5 DEF Release, LeaveLock, Watcher!BatchDone, Watcher!IdleDone, Watcher!idleVars
    <3>. QED BY <3>1, <3>2
  <2>3. \A t \in IdleTimers : /\ idleTimers'[t] = "armed" => idleTimers[t] = "armed"
                              /\ idleTimers'[t] = "fired" => idleTimers[t] = "fired"
    BY <2>2
  <2>4. ~(accumulated >= ChangeThreshold)
    BY <2>1 DEF QuietInv, ThresholdInline
  <2>5. CycleHasWork' /\ ThresholdInline' /\ IdleCycleAlone'
    BY <2>1, <2>4 DEF CycleHasWork, ThresholdInline, IdleCycleAlone
  <2>6. ArmedIsFresh'
    BY <2>1, <2>3 DEF QuietInv, ArmedIsFresh
  <2>7. NothingToSave'
    BY <2>1, <2>3 DEF QuietInv, NothingToSave
  <2>. QED BY <2>5, <2>6, <2>7 DEF QuietInv
<1>. QED BY <1>1, <1>2, <1>3, <1>4, <1>5

LEMMA IdleTimingStep ==
  ASSUME DaemonInv, WatcherHolds, Ledger, IdleTiming, [Next]_vars
  PROVE  IdleTiming'
<1>1. CountedIsUnsaved'
  BY CountedStep DEF IdleTiming
<1>2. ASSUME Running' PROVE QuietInv'
  <2>1. /\ Running /\ connOpen /\ lock # Main
        /\ \/ WatcherStep \/ Tick
           \/ \E t \in Timers : BeginBatch(t)
           \/ \E t \in IdleTimers : BeginIdle(t)
           \/ Extract \/ Sync \/ Publish \/ Cluster \/ WriteArtifacts \/ SaveArtifacts
           \/ ScheduleIdle \/ CancelIdle \/ Release \/ UNCHANGED vars
    BY <1>2, RunningSteps
  <2>2. QuietInv /\ CountedIsUnsaved
    BY <2>1 DEF IdleTiming
  <2>3. CASE UNCHANGED vars
    BY <2>2, <2>3 DEF vars, watcherVars, artifactVars, dataVars, trackerVars, QuietInv,
       CycleHasWork, ThresholdInline, IdleCycleAlone, ArmedIsFresh, NothingToSave
  <2>. QED BY <2>1, <2>2, <2>3, QuietWatcherStep, QuietTick, QuietLockTaken, QuietBatchStep,
         QuietCycleStep
<1>. QED BY <1>1, <1>2 DEF IdleTiming

LEMMA IdleTimingInit == Init => IdleTiming
<1>. SUFFICES ASSUME Init PROVE IdleTiming
  OBVIOUS
<1>1. ~(accumulated >= ChangeThreshold) /\ ~(accumulated > 0)
  BY DaemonAssumption DEF Init
<1>2. stage = "none" /\ \A t \in IdleTimers : idleTimers[t] = "free"
  BY DEF Init, Watcher!Init
<1>. QED BY <1>1, <1>2 DEF IdleTiming, CountedIsUnsaved, QuietInv, CycleHasWork, ThresholdInline,
       IdleCycleAlone, ArmedIsFresh, NothingToSave

\* The idle timers keep time in every reachable state.
THEOREM IdleTimersKeepTime == Spec => []IdleTiming
<1>1. DaemonInv /\ WatcherHolds /\ Ledger /\ IdleTiming /\ [Next]_vars => IdleTiming'
  BY IdleTimingStep
<1>. QED BY <1>1, IdleTimingInit, LedgerBalances, DaemonInductive, PTL DEF Spec

\* A step that begins a cycle is a batch that reached the threshold or an idle
\* thread after quiet time; both find unsaved changes.
LEMMA CycleStepHasWork ==
  ASSUME DaemonInv, WatcherHolds, Ledger, IdleTiming, [Next]_vars,
         stage' = "cluster", stage # "cluster", state = "RUNNING", failures = 0
  PROVE  extracted > saved
<1>1. Publish \/ \E t \in IdleTimers : BeginIdle(t)
  BY DEF vars, Next, HolderStep, MainStep, WatcherStep, Tick, BeginBatch, Extract, Sync, Cluster,
       WriteArtifacts, SaveArtifacts, ScheduleIdle, CancelIdle, Release, ExtractRaises, Raise,
       PersistArtifacts, Persist, LeaveLock, BeginDrained, Reject, Drain, StopWatcher,
       BeginPersist, MarkStopped, BeginShutdown, SignalAgain, Exit, Exited
<1>2. CASE Publish
  <2>1. stage = "publish" /\ connOpen
    BY <1>2 DEF Publish, DaemonInv, PersistIsLast
  <2>. QED BY <2>1 DEF IdleTiming, CountedIsUnsaved
<1>3. CASE \E t \in IdleTimers : BeginIdle(t)
  BY <1>3, IdleCycleHasWork DEF IdleTiming, Running
<1>. QED BY <1>1, <1>2, <1>3

\* No slow-cadence cycle of a daemon that runs and has not failed rewrites
\* artifacts that already hold everything: slow_cadence.py's tracker, the
\* watcher's idle timer and cadence.py agree in every interleaving.
THEOREM NoCycleWithNothingToSave == Spec => NoEmptyCycle
<1>1. DaemonInv /\ WatcherHolds /\ Ledger /\ IdleTiming /\ [Next]_vars
        => [stage' = "cluster" /\ stage # "cluster" /\ state = "RUNNING" /\ failures = 0
              => extracted > saved]_vars
  BY CycleStepHasWork
<1>. QED BY <1>1, IdleTimersKeepTime, LedgerBalances, DaemonInductive, PTL DEF Spec, NoEmptyCycle

=============================================================================
