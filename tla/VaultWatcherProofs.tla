------------------------- MODULE VaultWatcherProofs -------------------------
(***************************************************************************)
(* Proofs about VaultWatcher for every set of paths, events and timers,    *)
(* every threshold and every bound: the invariants the runs check, and the *)
(* safety part of the refinement of ChangeBatcher.                         *)
(***************************************************************************)
EXTENDS VaultWatcher, TLAPS

\* What the shutdown calls have achieved, each by the time the next one runs.
ShutdownInOrder ==
  /\ phase # "running" => rejecting
  /\ phase \in {"drained", "stopped"} => pending = <<>>

\* The inductive invariant.  NothingAfterDrain needs ShutdownInOrder (a late
\* flush finds nothing), which needs rejecting to stay up from its first part.
WatcherInv ==
  /\ TypeOK
  /\ ExactlyOnceInOrder
  /\ NoStrandedChange
  /\ OneWarningPerEpisode
  /\ SinglePendingIdle
  /\ ShutdownInOrder

-----------------------------------------------------------------------------
\* What on_any_event builds from an event it does not ignore is a FileChange
\* that satisfies FileChange.__post_init__.
LEMMA FileChangeType ==
  ASSUME NEW e \in Events, Relevant(e)
  PROVE  FileChange(e) \in FileChanges
<1>1. /\ e.type \in {"created", "modified", "deleted", "moved"}
      /\ e.src \in Paths /\ e.dest \in Paths
  BY EventsAssumption DEF Relevant, WatchdogEventKind
<1>2. CASE e.type = "moved"
  BY <1>1, <1>2 DEF FileChange, FileChanges
<1>3. CASE e.type # "moved"
  <2>1. WatchdogEventKind[e.type] \in ChangeKind \ {"RENAMED"}
    BY <1>1, <1>3 DEF WatchdogEventKind, ChangeKind
  <2>. QED BY <2>1, <1>1, <1>3 DEF FileChange, FileChanges
<1>. QED BY <1>2, <1>3

-----------------------------------------------------------------------------
\* A VaultWatcher as __init__ leaves it satisfies the invariant.
LEMMA WatcherInit == Init => WatcherInv
<1>. SUFFICES ASSUME Init PROVE WatcherInv
  OBVIOUS
<1>1. TypeOK
  <2>1. <<>> \in Seq(FileChanges)
    OBVIOUS
  <2>. QED BY <2>1 DEF Init, TypeOK, TimerStates
<1>2. ExactlyOnceInOrder /\ NoStrandedChange
  BY DEF Init, ExactlyOnceInOrder, NoStrandedChange
<1>3. OneWarningPerEpisode
  BY DEF Init, OneWarningPerEpisode
<1>4. SinglePendingIdle /\ ShutdownInOrder
  BY DEF Init, SinglePendingIdle, ShutdownInOrder
<1>. QED BY <1>1, <1>2, <1>3, <1>4 DEF WatcherInv

\* An event queued by on_any_event and _queue_change keeps the invariant.
LEMMA OnAnyEventInv ==
  ASSUME WatcherInv, NEW e \in Events, OnAnyEvent(e)
  PROVE  WatcherInv'
<1>1. PICK t \in Timers : timers[t] = "free" /\ QueueChange(FileChange(e), t)
  BY DEF OnAnyEvent
<1>2. FileChange(e) \in FileChanges
  BY FileChangeType DEF OnAnyEvent
<1>3. /\ pending \in Seq(FileChanges) /\ accepted \in Seq(FileChanges)
      /\ handed \in Seq(FileChanges) /\ timers \in [Timers -> TimerStates]
  BY DEF WatcherInv, TypeOK
<1>4. /\ pending' = Append(pending, FileChange(e))
      /\ accepted' = Append(accepted, FileChange(e))
      /\ handed' = handed /\ rejecting' = rejecting /\ phase' = phase
      /\ idleTimer' = idleTimer /\ idleTimers' = idleTimers /\ drained' = drained
      /\ ~rejecting
  BY <1>1 DEF OnAnyEvent, QueueChange, idleVars
<1>5. /\ timers' \in [Timers -> TimerStates]
      /\ timer' = t /\ timers'[t] = "armed"
  BY <1>1, <1>3 DEF QueueChange, Cancel, Start, TimerStates
<1>6. OneWarningPerEpisode'
  <2>1. Len(pending) \in Nat /\ Len(pending') = Len(pending) + 1
    BY <1>2, <1>3, <1>4
  <2>. /\ pending # <<>> <=> Len(pending) > 0
       /\ pending' # <<>>
    <3>1. pending \in Seq(FileChanges) /\ pending' \in Seq(FileChanges)
      BY <1>2, <1>3, <1>4
    <3>. QED BY <3>1, <2>1
  <2>2. /\ warned <=> pending # <<>> /\ Len(pending) >= PendingWarnThreshold
        /\ warnings = episodes /\ queueDepth = Len(pending)
        /\ warned \in BOOLEAN /\ warnings \in Nat /\ PendingWarnThreshold \in Int
    BY ThresholdAssumption DEF WatcherInv, TypeOK, OneWarningPerEpisode
  <2>3. queueDepth' = Len(pending')
    BY <1>1, <2>1 DEF QueueChange
  <2>4. CASE Len(pending) + 1 >= PendingWarnThreshold /\ ~warned
    <3>1. warnings' = warnings + 1 /\ episodes' = episodes + 1
      BY <1>1, <2>1, <2>2, <2>4 DEF QueueChange, ReachesThreshold
    <3>2. warned'
      BY <1>1, <2>4 DEF QueueChange
    <3>. QED BY <2>1, <2>2, <2>3, <2>4, <3>1, <3>2 DEF OneWarningPerEpisode
  <2>5. CASE ~(Len(pending) + 1 >= PendingWarnThreshold /\ ~warned)
    <3>1. /\ warned' = warned /\ warnings' = warnings /\ episodes' = episodes
      BY <1>1, <2>1, <2>2, <2>5 DEF QueueChange, ReachesThreshold
    <3>. QED BY <2>1, <2>2, <2>3, <2>5, <3>1 DEF OneWarningPerEpisode
  <2>. QED BY <2>4, <2>5
<1>7. TypeOK'
  <2>1. queueDepth' \in Nat /\ warnings' \in Nat /\ episodes' \in Nat /\ warned' \in BOOLEAN
    BY <1>1, <1>3 DEF WatcherInv, TypeOK, QueueChange
  <2>. QED BY <2>1, <1>1, <1>2, <1>3, <1>4, <1>5 DEF WatcherInv, TypeOK, QueueChange
<1>8. ExactlyOnceInOrder'
  <2>1. Append(handed \o pending, FileChange(e)) = handed \o Append(pending, FileChange(e))
    <3>1. pending \in Seq(FileChanges) /\ handed \in Seq(FileChanges)
      BY <1>3
    <3>. QED BY <1>2, <3>1
  <2>. QED BY <2>1, <1>4 DEF WatcherInv, ExactlyOnceInOrder
<1>9. NoStrandedChange'
  BY <1>1, <1>5, NoneAssumption DEF NoStrandedChange
<1>10. SinglePendingIdle' /\ ShutdownInOrder'
  BY <1>4 DEF WatcherInv, SinglePendingIdle, ShutdownInOrder
<1>. QED BY <1>6, <1>7, <1>8, <1>9, <1>10 DEF WatcherInv

\* So does a debounce timer that goes off, flushes, finds nothing or ends.
LEMMA DebounceTimerInv ==
  ASSUME WatcherInv, NEW t \in Timers, DebounceTimerStep(t)
  PROVE  WatcherInv'
<1>. USE DEF idleVars
<1>1. CASE Fire(t)
  <2>1. TypeOK'
    BY <1>1 DEF WatcherInv, TypeOK, Fire, TimerStates
  <2>2. NoStrandedChange'
    BY <1>1 DEF WatcherInv, TypeOK, NoStrandedChange, Fire
  <2>. QED BY <1>1, <2>1, <2>2
       DEF WatcherInv, ExactlyOnceInOrder, OneWarningPerEpisode, SinglePendingIdle,
           ShutdownInOrder, Fire
<1>2. CASE Flush(t)
  <2>1. TypeOK'
    <3>1. <<>> \in Seq(FileChanges) /\ handed \o pending \in Seq(FileChanges)
      BY DEF WatcherInv, TypeOK
    <3>. QED BY <1>2, <3>1 DEF WatcherInv, TypeOK, Flush, TakePending, TimerStates
  <2>2. ExactlyOnceInOrder'
    BY <1>2 DEF WatcherInv, TypeOK, ExactlyOnceInOrder, Flush, TakePending
  <2>3. NoStrandedChange'
    BY <1>2 DEF NoStrandedChange, Flush, TakePending
  <2>4. OneWarningPerEpisode'
    BY <1>2 DEF WatcherInv, OneWarningPerEpisode, Flush, TakePending
  <2>5. SinglePendingIdle' /\ ShutdownInOrder'
    BY <1>2 DEF WatcherInv, SinglePendingIdle, ShutdownInOrder, Flush, TakePending
  <2>. QED BY <2>1, <2>2, <2>3, <2>4, <2>5 DEF WatcherInv
<1>3. CASE FlushNothing(t)
  <2>1. TypeOK'
    BY <1>3 DEF WatcherInv, TypeOK, FlushNothing, TimerStates
  <2>. QED BY <1>3, <2>1
       DEF WatcherInv, ExactlyOnceInOrder, NoStrandedChange, OneWarningPerEpisode,
           SinglePendingIdle, ShutdownInOrder, FlushNothing
<1>4. CASE BatchDone(t)
  <2>1. TypeOK'
    BY <1>4 DEF WatcherInv, TypeOK, BatchDone, TimerStates
  <2>2. NoStrandedChange'
    BY <1>4 DEF WatcherInv, TypeOK, NoStrandedChange, BatchDone
  <2>. QED BY <1>4, <2>1, <2>2
       DEF WatcherInv, ExactlyOnceInOrder, OneWarningPerEpisode, SinglePendingIdle,
           ShutdownInOrder, BatchDone
<1>. QED BY <1>1, <1>2, <1>3, <1>4 DEF DebounceTimerStep

\* CancelIdleTimer leaves no idle timer armed and none named.
LEMMA CancelIdleTimerFacts ==
  ASSUME WatcherInv, CancelIdleTimer
  PROVE  /\ idleTimers' \in [IdleTimers -> TimerStates \ {"taken"}]
         /\ idleTimer' = None
         /\ \A t \in IdleTimers : idleTimers'[t] # "armed"
<1>1. /\ idleTimers \in [IdleTimers -> TimerStates \ {"taken"}]
      /\ "free" \in TimerStates \ {"taken"}
  BY DEF WatcherInv, TypeOK, TimerStates
<1>. QED BY <1>1 DEF CancelIdleTimer, Cancel, WatcherInv, SinglePendingIdle

\* So do schedule_idle, cancel_idle and the idle timer's own steps.
LEMMA IdleInv ==
  ASSUME WatcherInv, CancelIdle \/ \E t \in IdleTimers : IdleTimerStep(t)
  PROVE  WatcherInv'
<1>1. /\ UNCHANGED <<queueVars, phase, drained>>
      /\ idleTimers' \in [IdleTimers -> TimerStates \ {"taken"}]
      /\ idleTimer' \in IdleTimers \cup {None}
      /\ SinglePendingIdle'
  <2>0. /\ idleTimers \in [IdleTimers -> TimerStates \ {"taken"}]
        /\ "free" \in TimerStates \ {"taken"} /\ "armed" \in TimerStates \ {"taken"}
        /\ "fired" \in TimerStates \ {"taken"}
        /\ idleTimer \in IdleTimers \cup {None} /\ SinglePendingIdle
    BY DEF WatcherInv, TypeOK, TimerStates
  <2>1. CASE CancelIdle
    BY <2>1, CancelIdleTimerFacts DEF CancelIdle, SinglePendingIdle
  <2>2. ASSUME NEW t \in IdleTimers, ScheduleIdle(t)
        PROVE  <1>1!1 /\ <1>1!2 /\ <1>1!3 /\ <1>1!4
    <3>1. Cancel(idleTimers, idleTimer) \in [IdleTimers -> TimerStates \ {"taken"}]
      BY <2>0 DEF Cancel
    <3>2. \A s \in IdleTimers : Cancel(idleTimers, idleTimer)[s] # "armed"
      BY <2>0 DEF Cancel, SinglePendingIdle
    <3>. QED BY <2>0, <2>2, <3>1, <3>2 DEF Start, ScheduleIdle, SinglePendingIdle
  <2>3. ASSUME NEW t \in IdleTimers, IdleFire(t) \/ IdleDone(t)
        PROVE  <1>1!1 /\ <1>1!2 /\ <1>1!3 /\ <1>1!4
    BY <2>0, <2>3 DEF IdleFire, IdleDone, SinglePendingIdle
  <2>. QED BY <2>1, <2>2, <2>3 DEF IdleTimerStep
<1>2. TypeOK'
  BY <1>1 DEF WatcherInv, TypeOK, queueVars
<1>. QED BY <1>1, <1>2
     DEF WatcherInv, ExactlyOnceInOrder, NoStrandedChange, OneWarningPerEpisode,
         ShutdownInOrder, queueVars

\* So do reject_new_events, drain_pending_batch and stop.
LEMMA ShutdownCallsInv ==
  ASSUME WatcherInv, RejectNewEvents \/ DrainPendingBatch \/ Stop
  PROVE  WatcherInv'
<1>0. /\ pending \in Seq(FileChanges) /\ handed \in Seq(FileChanges)
      /\ timers \in [Timers -> TimerStates] /\ "free" \in TimerStates
  BY DEF WatcherInv, TypeOK, TimerStates
<1>1. CASE RejectNewEvents
  <2>1. TypeOK'
    BY <1>1 DEF WatcherInv, TypeOK, RejectNewEvents, idleVars
  <2>. QED BY <1>1, <2>1
       DEF WatcherInv, ExactlyOnceInOrder, NoStrandedChange, OneWarningPerEpisode,
           SinglePendingIdle, ShutdownInOrder, RejectNewEvents, idleVars
<1>2. CASE DrainPendingBatch
  <2>1. /\ timers' \in [Timers -> TimerStates]
        /\ timer' = None
    BY <1>0, <1>2 DEF DrainPendingBatch, Cancel
  <2>2. /\ idleTimers' \in [IdleTimers -> TimerStates \ {"taken"}]
        /\ idleTimer' = None
        /\ SinglePendingIdle'
    BY <1>2, CancelIdleTimerFacts DEF DrainPendingBatch, SinglePendingIdle
  <2>3. pending' = <<>> /\ handed' = handed \o pending /\ accepted' = accepted
    BY <1>0, <1>2 DEF DrainPendingBatch, TakePending
  <2>4. OneWarningPerEpisode'
    <3>1. CASE pending = <<>>
      BY <1>2, <3>1 DEF WatcherInv, OneWarningPerEpisode, DrainPendingBatch
    <3>2. CASE pending # <<>>
      BY <1>2, <3>2
      DEF WatcherInv, OneWarningPerEpisode, DrainPendingBatch, TakePending
    <3>. QED BY <3>1, <3>2
  <2>5. TypeOK'
    <3>1. pending' \in Seq(FileChanges) /\ handed' \in Seq(FileChanges)
      BY <1>0, <2>3
    <3>2. /\ drained' \in Seq(FileChanges) /\ accepted' = accepted /\ batchOf' = batchOf
          /\ rejecting' = rejecting /\ phase' = "drained"
          /\ warnings' = warnings /\ episodes' = episodes
      BY <1>0, <1>2 DEF DrainPendingBatch, TakePending
    <3>3. queueDepth' \in Nat
      BY <1>2 DEF WatcherInv, TypeOK, DrainPendingBatch, TakePending
    <3>4. warned' \in BOOLEAN
      <4>1. warned' = warned \/ warned' = FALSE
        BY <1>2 DEF DrainPendingBatch, TakePending
      <4>. QED BY <4>1 DEF WatcherInv, TypeOK
    <3>. QED BY <2>1, <2>2, <3>1, <3>2, <3>3, <3>4 DEF WatcherInv, TypeOK
  <2>6. ExactlyOnceInOrder' /\ NoStrandedChange'
    BY <1>0, <2>3 DEF WatcherInv, ExactlyOnceInOrder, NoStrandedChange
  <2>7. ShutdownInOrder'
    BY <1>2, <2>3 DEF WatcherInv, ShutdownInOrder, DrainPendingBatch, TakePending
  <2>. QED BY <2>2, <2>4, <2>5, <2>6, <2>7 DEF WatcherInv
<1>3. CASE Stop
  <2>1. timers' \in [Timers -> TimerStates] /\ timer' = None
    BY <1>0, <1>3 DEF Stop, Cancel
  <2>2. /\ idleTimers' \in [IdleTimers -> TimerStates \ {"taken"}]
        /\ idleTimer' = None
        /\ SinglePendingIdle'
    BY <1>3, CancelIdleTimerFacts DEF Stop, SinglePendingIdle
  <2>3. TypeOK'
    BY <1>3, <2>1, <2>2 DEF WatcherInv, TypeOK, Stop
  <2>. QED BY <1>3, <2>2, <2>3
       DEF WatcherInv, ExactlyOnceInOrder, NoStrandedChange, OneWarningPerEpisode,
           ShutdownInOrder, Stop
<1>. QED BY <1>1, <1>2, <1>3

\* The invariant is inductive: every step of Next, and stuttering, keeps it.
LEMMA WatcherStep == WatcherInv /\ [Next]_watcherVars => WatcherInv'
<1>. SUFFICES ASSUME WatcherInv, [Next]_watcherVars PROVE WatcherInv'
  OBVIOUS
<1>1. CASE UNCHANGED watcherVars
  <2>1. TypeOK'
    BY <1>1 DEF WatcherInv, TypeOK, watcherVars, queueVars, idleVars
  <2>. QED BY <1>1, <2>1
       DEF WatcherInv, ExactlyOnceInOrder, NoStrandedChange, OneWarningPerEpisode,
           SinglePendingIdle, ShutdownInOrder, watcherVars, queueVars, idleVars
<1>2. CASE \E e \in Events : OnAnyEvent(e)
  BY <1>2, OnAnyEventInv
<1>3. CASE \E e \in Events : IgnoreEvent(e)
  BY <1>1, <1>3 DEF IgnoreEvent
<1>4. CASE \E t \in Timers : DebounceTimerStep(t)
  BY <1>4, DebounceTimerInv
<1>5. CASE CancelIdle \/ \E t \in IdleTimers : IdleTimerStep(t)
  BY <1>5, IdleInv
<1>6. CASE RejectNewEvents \/ DrainPendingBatch \/ Stop
  BY <1>6, ShutdownCallsInv
<1>. QED BY <1>1, <1>2, <1>3, <1>4, <1>5, <1>6 DEF Next

\* The inductive invariant holds in every reachable state.
THEOREM WatcherInvariant == Spec => []WatcherInv
BY WatcherInit, WatcherStep, PTL DEF Spec

\* The watcher's fields keep their types; every queued FileChange satisfies
\* FileChange.__post_init__.
THEOREM TypeCorrect == Spec => []TypeOK
BY WatcherInvariant, PTL DEF WatcherInv

\* No accepted change is lost, repeated or reordered by the debounce queue,
\* its flush threads and the shutdown drain.
THEOREM NoChangeLost == Spec => []ExactlyOnceInOrder
BY WatcherInvariant, PTL DEF WatcherInv

\* Changes that wait always have a live debounce timer.
THEOREM NoChangeStranded == Spec => []NoStrandedChange
BY WatcherInvariant, PTL DEF WatcherInv

\* One backlog warning for each time the queue grows to the threshold.
THEOREM WarningsCorrect == Spec => []OneWarningPerEpisode
BY WatcherInvariant, PTL DEF WatcherInv

\* schedule_idle, cancel_idle, drain_pending_batch and stop keep at most one
\* idle timer counting down.
THEOREM SingleIdleTimer == Spec => []SinglePendingIdle
BY WatcherInvariant, PTL DEF WatcherInv

-----------------------------------------------------------------------------
\* In a state of the invariant, a step after the drain hands nothing over.
LEMMA AfterDrainStep ==
  ASSUME WatcherInv, [Next]_watcherVars, phase \in {"drained", "stopped"}
  PROVE  handed' = handed
<1>1. pending = <<>> /\ rejecting
  BY DEF WatcherInv, ShutdownInOrder
<1>2. ASSUME NEW e \in Events, OnAnyEvent(e) \/ IgnoreEvent(e) PROVE handed' = handed
  BY <1>1, <1>2 DEF OnAnyEvent, IgnoreEvent, watcherVars, queueVars
<1>3. ASSUME NEW t \in Timers, DebounceTimerStep(t) PROVE handed' = handed
  BY <1>1, <1>3 DEF DebounceTimerStep, Fire, Flush, FlushNothing, BatchDone
<1>4. ASSUME NEW t \in IdleTimers, IdleTimerStep(t) PROVE handed' = handed
  BY <1>4 DEF IdleTimerStep, ScheduleIdle, IdleFire, IdleDone, queueVars
<1>5. CASE CancelIdle \/ RejectNewEvents \/ DrainPendingBatch \/ Stop
  BY <1>5 DEF CancelIdle, RejectNewEvents, DrainPendingBatch, Stop, queueVars
<1>. QED BY <1>2, <1>3, <1>4, <1>5 DEF Next, watcherVars, queueVars

\* Once shutdown has drained the watcher, no late timer and no late event
\* produces another batch.
THEOREM DrainIsFinal == Spec => NothingAfterDrain
<1>1. WatcherInv /\ [Next]_watcherVars
        => [(phase \in {"drained", "stopped"}) => handed' = handed]_watcherVars
  BY AfterDrainStep
<1>. QED BY <1>1, WatcherInvariant, PTL DEF Spec, NothingAfterDrain

-----------------------------------------------------------------------------
\* Each watcher step is a step of the abstract batcher or leaves it alone.
LEMMA BatcherStep ==
  ASSUME WatcherInv, [Next]_watcherVars
  PROVE  [Batcher!Next]_(Batcher!abstractVars)
<1>. USE DEF Batcher!Next, Batcher!abstractVars
<1>1. ASSUME NEW e \in Events, OnAnyEvent(e) PROVE Batcher!Next
  <2>1. FileChange(e) \in FileChanges /\ pending' = Append(pending, FileChange(e))
    BY <1>1, FileChangeType DEF OnAnyEvent, QueueChange
  <2>2. ~rejecting /\ handed' = handed /\ rejecting' = rejecting
    BY <1>1 DEF OnAnyEvent, QueueChange
  <2>. QED BY <2>1, <2>2 DEF Batcher!Accept
<1>2. ASSUME NEW e \in Events, IgnoreEvent(e) PROVE UNCHANGED Batcher!abstractVars
  BY <1>2 DEF IgnoreEvent, watcherVars, queueVars
<1>3. ASSUME NEW t \in Timers, Flush(t) PROVE Batcher!Next
  BY <1>3 DEF Flush, TakePending, Batcher!HandOver
<1>4. ASSUME NEW t \in Timers, Fire(t) \/ FlushNothing(t) \/ BatchDone(t)
      PROVE  UNCHANGED Batcher!abstractVars
  BY <1>4 DEF Fire, FlushNothing, BatchDone
<1>5. ASSUME CancelIdle \/ \E t \in IdleTimers : IdleTimerStep(t)
      PROVE  UNCHANGED Batcher!abstractVars
  BY <1>5 DEF CancelIdle, IdleTimerStep, ScheduleIdle, IdleFire, IdleDone, queueVars
<1>6. ASSUME RejectNewEvents PROVE Batcher!Next
  BY <1>6 DEF RejectNewEvents, Batcher!Close
<1>7. ASSUME DrainPendingBatch PROVE [Batcher!Next]_(Batcher!abstractVars)
  BY <1>7 DEF DrainPendingBatch, TakePending, Batcher!HandOver
<1>8. ASSUME Stop PROVE UNCHANGED Batcher!abstractVars
  BY <1>8 DEF Stop
<1>9. CASE UNCHANGED watcherVars
  BY <1>9 DEF watcherVars, queueVars
<1>. QED BY <1>1, <1>2, <1>3, <1>4, <1>5, <1>6, <1>7, <1>8, <1>9
     DEF Next, DebounceTimerStep

\* The safety part of ImplementsBatcher: with timers, cancellations, late
\* flushes and the shutdown drain, the watcher behaves as the abstract queue.
THEOREM ImplementsBatcherSafety ==
  Spec => Batcher!Init /\ [][Batcher!Next]_(Batcher!abstractVars)
<1>1. Init => Batcher!Init
  BY DEF Init, Batcher!Init
<1>2. WatcherInv /\ [Next]_watcherVars => [Batcher!Next]_(Batcher!abstractVars)
  BY BatcherStep
<1>. QED BY <1>1, <1>2, WatcherInvariant, PTL DEF Spec

=============================================================================
