---------------------------- MODULE VaultWatcher ----------------------------
(***************************************************************************)
(* vault_compiler/batching.py: the watchdog handler, the debounce queue    *)
(* and its timers, the idle timer, and the calls the daemon's shutdown     *)
(* makes on them.  Every method body runs under VaultWatcher._lock, so     *)
(* each is one step; what is not atomic is a threading.Timer: once it has  *)
(* gone off (its thread is past `finished.is_set()` and waits for _lock)   *)
(* cancel() no longer stops it, and on_batch runs after _lock is released. *)
(*                                                                         *)
(* A timer is                                                              *)
(*   "free"   not started yet, cancelled, or its thread has ended;         *)
(*   "armed"  counting down, cancel() still stops it;                      *)
(*   "fired"  gone off, its callback has not yet run under _lock;          *)
(*   "taken"  (debounce only) _flush holds a batch and runs on_batch.      *)
(***************************************************************************)
EXTENDS Integers, Sequences, FiniteSets

CONSTANTS
  Paths,                  \* files named by events
  Excluded,               \* paths is_excluded is true of
  Outside,                \* paths resolve_within_vault gives None for
  Events,                 \* filesystem events watchdog may report
  Timers,                 \* debounce timers
  IdleTimers,             \* idle-cadence timers
  None,                   \* Python's None
  PendingWarnThreshold,   \* pending_warn_threshold
  MaxAccepted             \* bound: changes accepted in one behaviour

\* main() takes any integer from GRAPHIFY_DAEMON_PENDING_WARN_THRESHOLD.
ASSUME ThresholdAssumption == PendingWarnThreshold \in Int
ASSUME NoneAssumption ==
  None \notin Timers /\ None \notin IdleTimers /\ None \notin Paths
ASSUME EventsAssumption ==
  Events \subseteq [type : STRING, isDir : BOOLEAN, src : Paths, dest : Paths]

VARIABLES
  pending,       \* _pending
  timer,         \* _timer, the debounce timer last started, or None
  timers,        \* state of every debounce timer
  batchOf,       \* the batch the thread of a "taken" timer holds
  idleTimer,     \* _idle_timer
  idleTimers,    \* state of every idle timer
  rejecting,     \* _rejecting_events
  warned,        \* _warned_this_episode
  queueDepth,    \* gauge "queue_depth"
  warnings,      \* counter "queue_depth_warnings"
  phase,         \* how far Daemon.shutdown has got with this watcher
  drained,       \* what drain_pending_batch returned (<<>> for None)
  accepted,      \* history: every change appended to _pending
  handed,        \* history: every change that left _pending, in that order
  episodes       \* history: times the queue grew to the threshold

queueVars == <<pending, timer, timers, batchOf, rejecting, warned,
               queueDepth, warnings, accepted, handed, episodes>>
idleVars == <<idleTimer, idleTimers>>
watcherVars == <<queueVars, idleVars, phase, drained>>

-----------------------------------------------------------------------------
(* The event handler's filter *)

ChangeKind == {"CREATED", "MODIFIED", "DELETED", "RENAMED"}

WatchdogEventKind ==
  [created |-> "CREATED", modified |-> "MODIFIED",
   deleted |-> "DELETED", moved |-> "RENAMED"]

\* FileChange.__post_init__: a rename, and only a rename, names its source.
FileChanges ==
  [kind : ChangeKind \ {"RENAMED"}, path : Paths, previous : {None}]
    \cup [kind : {"RENAMED"}, path : Paths, previous : Paths]

\* Mutated form of FileChange: the source of a move is not passed on.
FileChangeNoPrevious(e) ==
  [kind |-> WatchdogEventKind[e.type],
   path |-> IF e.type = "moved" THEN e.dest ELSE e.src, previous |-> None]

FileChange(e) ==
  IF e.type = "moved"
    THEN [kind |-> "RENAMED", path |-> e.dest, previous |-> e.src]
    ELSE [kind |-> WatchdogEventKind[e.type], path |-> e.src, previous |-> None]

\* A move is kept whatever its destination is: its source needs cleaning up.
Relevant(e) ==
  /\ ~e.isDir
  /\ e.type \in DOMAIN WatchdogEventKind
  /\ e.type = "moved" \/ e.src \notin Excluded \cup Outside

-----------------------------------------------------------------------------
(* threading.Timer *)

\* cancel() on the timer `ref` (None: no call); no effect once it went off.
Cancel(ts, ref) ==
  [t \in DOMAIN ts |-> IF t = ref /\ ts[t] = "armed" THEN "free" ELSE ts[t]]

Start(ts, t) == [ts EXCEPT ![t] = "armed"]

-----------------------------------------------------------------------------
Init ==
  /\ pending = <<>> /\ accepted = <<>> /\ handed = <<>> /\ drained = <<>>
  /\ timer = None /\ timers = [t \in Timers |-> "free"]
  /\ batchOf = [t \in Timers |-> <<>>]
  /\ idleTimer = None /\ idleTimers = [t \in IdleTimers |-> "free"]
  /\ rejecting = FALSE /\ warned = FALSE
  /\ queueDepth = 0 /\ warnings = 0 /\ episodes = 0
  /\ phase = "running"

\* The history's notion of an episode: the queue grows to the threshold, or a
\* threshold below 1 is met by the first change.
ReachesThreshold(depth) ==
  depth = IF PendingWarnThreshold > 1 THEN PendingWarnThreshold ELSE 1

\* Mutated form of QueueChange: _timer is assigned before it is cancelled, so
\* that the new timer is the one that stops.
QueueChangeCancelNew(c, t) ==
  LET depth == Len(pending) + 1
      crosses == depth >= PendingWarnThreshold /\ ~warned
  IN /\ pending' = Append(pending, c)
     /\ queueDepth' = depth
     /\ warned' = (warned \/ crosses)
     /\ warnings' = IF crosses THEN warnings + 1 ELSE warnings
     /\ timers' = Cancel(Start(timers, t), IF timer = None THEN None ELSE t)
     /\ timer' = t
     /\ accepted' = Append(accepted, c)
     /\ episodes' = IF ReachesThreshold(depth) THEN episodes + 1 ELSE episodes
     /\ UNCHANGED <<batchOf, rejecting, handed>>

\* _queue_change, past the test of _rejecting_events
QueueChange(c, t) ==
  LET depth == Len(pending) + 1
      crosses == depth >= PendingWarnThreshold /\ ~warned
  IN /\ pending' = Append(pending, c)
     /\ queueDepth' = depth
     /\ warned' = (warned \/ crosses)
     /\ warnings' = IF crosses THEN warnings + 1 ELSE warnings
     /\ timers' = Start(Cancel(timers, timer), t)
     /\ timer' = t
     /\ accepted' = Append(accepted, c)
     /\ episodes' = IF ReachesThreshold(depth) THEN episodes + 1 ELSE episodes
     /\ UNCHANGED <<batchOf, rejecting, handed>>

\* on_any_event on the observer thread, for a change that is queued
OnAnyEvent(e) ==
  /\ phase # "stopped"
  /\ Relevant(e)
  /\ ~rejecting
  /\ Len(accepted) < MaxAccepted
  /\ \E t \in Timers : timers[t] = "free" /\ QueueChange(FileChange(e), t)
  /\ UNCHANGED <<idleVars, phase, drained>>

\* on_any_event or _queue_change returns early
IgnoreEvent(e) ==
  /\ phase # "stopped"
  /\ ~Relevant(e) \/ rejecting
  /\ UNCHANGED watcherVars

\* The interval is over before cancel() was called.
Fire(t) ==
  /\ timers[t] = "armed"
  /\ timers' = [timers EXCEPT ![t] = "fired"]
  /\ UNCHANGED <<pending, timer, batchOf, rejecting, warned, queueDepth, warnings,
                 accepted, handed, episodes, idleVars, phase, drained>>

\* Mutated form of TakePending: the batch is copied and not cleared.
TakePendingNoClear ==
  /\ handed' = handed \o pending
  /\ warned' = FALSE
  /\ queueDepth' = 0
  /\ UNCHANGED <<pending, rejecting, warnings, accepted, episodes>>

\* Mutated form of TakePending: the warning is not re-armed.
TakePendingKeepWarned ==
  /\ pending' = <<>>
  /\ handed' = handed \o pending
  /\ queueDepth' = 0
  /\ UNCHANGED <<warned, rejecting, warnings, accepted, episodes>>

\* _pending.clear() and what goes with it, shared by _flush and drain
TakePending ==
  /\ pending' = <<>>
  /\ handed' = handed \o pending
  /\ warned' = FALSE
  /\ queueDepth' = 0
  /\ UNCHANGED <<rejecting, warnings, accepted, episodes>>

\* _flush when there is something to hand over
Flush(t) ==
  /\ timers[t] = "fired"
  /\ pending # <<>>
  /\ TakePending
  /\ timer' = None
  /\ timers' = [timers EXCEPT ![t] = "taken"]
  /\ batchOf' = [batchOf EXCEPT ![t] = pending]
  /\ UNCHANGED <<idleVars, phase, drained>>

\* _flush's early return: _timer keeps naming whatever it named
FlushNothing(t) ==
  /\ timers[t] = "fired"
  /\ pending = <<>>
  /\ timers' = [timers EXCEPT ![t] = "free"]
  /\ UNCHANGED <<pending, timer, batchOf, rejecting, warned, queueDepth, warnings,
                 accepted, handed, episodes, idleVars, phase, drained>>

\* on_batch returns (or raises) and the timer's thread ends.
BatchDone(t) ==
  /\ timers[t] = "taken"
  /\ timers' = [timers EXCEPT ![t] = "free"]
  /\ batchOf' = [batchOf EXCEPT ![t] = <<>>]
  /\ UNCHANGED <<pending, timer, rejecting, warned, queueDepth, warnings,
                 accepted, handed, episodes, idleVars, phase, drained>>

\* Mutated form of ScheduleIdle: the previous timer is left running.
ScheduleIdleNoCancel(t) ==
  /\ idleTimers[t] = "free"
  /\ idleTimers' = Start(idleTimers, t)
  /\ idleTimer' = t
  /\ UNCHANGED <<queueVars, phase, drained>>

ScheduleIdle(t) ==
  /\ idleTimers[t] = "free"
  /\ idleTimers' = Start(Cancel(idleTimers, idleTimer), t)
  /\ idleTimer' = t
  /\ UNCHANGED <<queueVars, phase, drained>>

CancelIdleTimer ==
  /\ idleTimers' = Cancel(idleTimers, idleTimer)
  /\ idleTimer' = None

CancelIdle ==
  /\ CancelIdleTimer
  /\ UNCHANGED <<queueVars, phase, drained>>

IdleFire(t) ==
  /\ idleTimers[t] = "armed"
  /\ idleTimers' = [idleTimers EXCEPT ![t] = "fired"]
  /\ UNCHANGED <<queueVars, idleTimer, phase, drained>>

\* The idle callback returns; _idle_timer still names the timer.
IdleDone(t) ==
  /\ idleTimers[t] = "fired"
  /\ idleTimers' = [idleTimers EXCEPT ![t] = "free"]
  /\ UNCHANGED <<queueVars, idleTimer, phase, drained>>

-----------------------------------------------------------------------------
(* The calls of Daemon.shutdown, in its order *)

\* Mutated form of RejectNewEvents: the flag is not raised.
RejectNothing ==
  /\ phase = "running"
  /\ phase' = "rejecting"
  /\ UNCHANGED <<queueVars, idleVars, drained>>

RejectNewEvents ==
  /\ phase = "running"
  /\ phase' = "rejecting"
  /\ rejecting' = TRUE
  /\ UNCHANGED <<pending, timer, timers, batchOf, warned, queueDepth, warnings,
                 accepted, handed, episodes, idleVars, drained>>

\* Mutated form of DrainPendingBatch: timers are cancelled, nothing is taken.
DrainTimersOnly ==
  /\ phase = "rejecting"
  /\ phase' = "drained"
  /\ timers' = Cancel(timers, timer)
  /\ timer' = None
  /\ CancelIdleTimer
  /\ UNCHANGED <<pending, batchOf, rejecting, warned, queueDepth, warnings,
                 accepted, handed, episodes, drained>>

DrainPendingBatch ==
  /\ phase = "rejecting"
  /\ phase' = "drained"
  /\ timers' = Cancel(timers, timer)
  /\ timer' = None
  /\ CancelIdleTimer
  /\ drained' = pending
  /\ IF pending = <<>>
       THEN UNCHANGED <<pending, handed, warned, queueDepth, rejecting, warnings,
                        accepted, episodes>>
       ELSE TakePending
  /\ UNCHANGED batchOf

Stop ==
  /\ phase = "drained"
  /\ phase' = "stopped"
  /\ timers' = Cancel(timers, timer)
  /\ timer' = None
  /\ CancelIdleTimer
  /\ UNCHANGED <<pending, batchOf, rejecting, warned, queueDepth, warnings,
                 accepted, handed, episodes, drained>>

-----------------------------------------------------------------------------
DebounceTimerStep(t) == Fire(t) \/ Flush(t) \/ FlushNothing(t) \/ BatchDone(t)
IdleTimerStep(t) == ScheduleIdle(t) \/ IdleFire(t) \/ IdleDone(t)

Next ==
  \/ \E e \in Events : OnAnyEvent(e) \/ IgnoreEvent(e)
  \/ \E t \in Timers : DebounceTimerStep(t)
  \/ \E t \in IdleTimers : IdleTimerStep(t)
  \/ CancelIdle
  \/ RejectNewEvents
  \/ DrainPendingBatch
  \/ Stop

Spec == Init /\ [][Next]_watcherVars

\* A started timer goes off, and its thread gets _lock: no step holds _lock for
\* longer than itself.  Nothing is assumed of events or of shutdown.
Fairness ==
  \A t \in Timers : WF_watcherVars(Fire(t)) /\ WF_watcherVars(Flush(t))

FairSpec == Spec /\ Fairness

-----------------------------------------------------------------------------
(* Properties *)

TimerStates == {"free", "armed", "fired", "taken"}

TypeOK ==
  /\ pending \in Seq(FileChanges) /\ drained \in Seq(FileChanges)
  /\ accepted \in Seq(FileChanges) /\ handed \in Seq(FileChanges)
  /\ timer \in Timers \cup {None}
  /\ timers \in [Timers -> TimerStates]
  /\ batchOf \in [Timers -> Seq(FileChanges)]
  /\ idleTimer \in IdleTimers \cup {None}
  /\ idleTimers \in [IdleTimers -> TimerStates \ {"taken"}]
  /\ rejecting \in BOOLEAN /\ warned \in BOOLEAN
  /\ queueDepth \in Nat /\ warnings \in Nat /\ episodes \in Nat
  /\ phase \in {"running", "rejecting", "drained", "stopped"}

\* Every change the handler accepted has been handed over in a batch exactly
\* once and in arrival order, or is still pending, through cancelled timers,
\* timers that went off too late to be cancelled, and the shutdown drain.
ExactlyOnceInOrder == accepted = handed \o pending

\* Changes that wait have a live timer that will flush them: no order of
\* queueing, flushing and late timers leaves _pending filled with _timer None
\* or naming a timer whose thread is gone.
NoStrandedChange ==
  pending # <<>> => timer # None /\ timers[timer] \in {"armed", "fired"}

\* Once drain_pending_batch has returned, no event and no late flush produces
\* another batch: the shutdown that follows sees the last of the changes.
NothingAfterDrain ==
  [][(phase \in {"drained", "stopped"}) => handed' = handed]_watcherVars

\* The backlog warning is given once per time the queue grows to the threshold
\* and is re-armed by every hand-over; the gauge agrees with the queue.
OneWarningPerEpisode ==
  /\ warnings = episodes
  /\ warned <=> pending # <<>> /\ Len(pending) >= PendingWarnThreshold
  /\ queueDepth = Len(pending)

\* schedule_idle's docstring: at most one idle timer is ever pending.
SinglePendingIdle ==
  \A t \in IdleTimers : idleTimers[t] = "armed" => t = idleTimer

Batcher == INSTANCE ChangeBatcher WITH
  Changes <- FileChanges, queued <- pending, closed <- rejecting

\* The timers, cancellations and the shutdown drain implement the abstract
\* batcher, its promise that queued changes are handed over included.
ImplementsBatcher == Batcher!Spec

=============================================================================
