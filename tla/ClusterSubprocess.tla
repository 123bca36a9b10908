-------------------------- MODULE ClusterSubprocess --------------------------
(***************************************************************************)
(* vault_compiler/clustering.py, run_clustering_subprocess: the parent     *)
(* thread (which holds the writer lock), the spawned child, and the pipe   *)
(* under their multiprocessing.Queue.  A result is `size` writes long; the *)
(* pipe holds PipeCapacity of them, and the child's feeder thread blocks   *)
(* on a full pipe.  Queue.get(timeout) waits with the timeout for the      *)
(* first byte only; the rest of the message is read without one.  The      *)
(* parent keeps the pipe's write end open, so a child that dies in the     *)
(* middle of a message gives no end of file.                               *)
(*                                                                         *)
(* process.start() is taken to return, and terminate()'s SIGTERM to end    *)
(* the child (neither graphify nor the worker handles it).                 *)
(***************************************************************************)
EXTENDS Naturals

CONSTANTS
  PipeCapacity,   \* writes the OS pipe buffer holds
  MaxResult,      \* bound: writes one result takes
  MaxCycles       \* bound: clustering cycles in one behaviour

ASSUME CapacityAssumption == PipeCapacity \in Nat \ {0} /\ MaxResult \in Nat

VARIABLES
  parent,     \* where run_clustering_subprocess is; "idle" outside it
  child,      \* the child process: "none", "clustering", "sending", "gone"
  signalled,  \* terminate() was called on it
  status,     \* the message's first field, as the child puts it
  size,       \* writes the message takes
  sent,       \* writes the child has made
  received,   \* of those, how many the parent has read
  outcome,    \* what the last call returned: "result" or "None"
  cycles

msgVars == <<status, size, sent, received>>
vars == <<parent, child, signalled, msgVars, outcome, cycles>>

Init ==
  /\ parent = "idle" /\ child = "none" /\ signalled = FALSE
  /\ status = "ok" /\ size = 0 /\ sent = 0 /\ received = 0
  /\ outcome = "None" /\ cycles = 0

-----------------------------------------------------------------------------
(* The child *)

\* cluster(graph) returned or raised, and the worker called put().
ChildClusters ==
  /\ child = "clustering"
  /\ child' = "sending"
  /\ status' \in {"ok", "error"}
  /\ size' \in 1..MaxResult
  /\ UNCHANGED <<parent, signalled, sent, received, outcome, cycles>>

\* The feeder thread writes what the pipe has room for.
ChildSends ==
  /\ child = "sending"
  /\ sent < size
  /\ sent - received < PipeCapacity
  /\ sent' = sent + 1
  /\ UNCHANGED <<parent, child, signalled, status, size, received, outcome, cycles>>

\* The worker returned and the feeder thread has nothing left to write.
ChildEnds ==
  /\ child = "sending"
  /\ sent = size
  /\ child' = "gone"
  /\ UNCHANGED <<parent, signalled, msgVars, outcome, cycles>>

\* The child dies: out of memory, a crash in native code, SIGTERM from the
\* parent, Ctrl-C in the terminal both share.
ChildDies ==
  /\ child \in {"clustering", "sending"}
  /\ child' = "gone"
  /\ UNCHANGED <<parent, signalled, msgVars, outcome, cycles>>

-----------------------------------------------------------------------------
(* The parent *)

\* Mutated form of Start: one queue for all cycles.
StartSameQueue ==
  /\ parent = "idle" /\ cycles < MaxCycles
  /\ parent' = "get" /\ child' = "clustering" /\ signalled' = FALSE
  /\ sent' = 0
  /\ cycles' = cycles + 1
  /\ UNCHANGED <<status, size, received, outcome>>

\* Mutated form of Start: the process is joined before its result is read.
StartJoins ==
  /\ parent = "idle" /\ cycles < MaxCycles
  /\ parent' = "join" /\ child' = "clustering" /\ signalled' = FALSE
  /\ size' = 0 /\ sent' = 0 /\ received' = 0
  /\ cycles' = cycles + 1
  /\ UNCHANGED <<status, outcome>>

\* A new queue and a new process for every cycle
Start ==
  /\ parent = "idle" /\ cycles < MaxCycles
  /\ parent' = "get" /\ child' = "clustering" /\ signalled' = FALSE
  /\ size' = 0 /\ sent' = 0 /\ received' = 0
  /\ cycles' = cycles + 1
  /\ UNCHANGED <<status, outcome>>

\* get(): poll() sees the first byte ...
BeginRead ==
  /\ parent = "get"
  /\ sent > 0
  /\ parent' = "read"
  /\ UNCHANGED <<child, signalled, msgVars, outcome, cycles>>

\* ... and recv_bytes() reads to the end of the message
ReadSome ==
  /\ parent = "read"
  /\ received < sent
  /\ received' = received + 1
  /\ parent' = IF received' = size THEN "join" ELSE "read"
  /\ UNCHANGED <<child, signalled, status, size, sent, outcome, cycles>>

\* Mutated form of GetTimesOut: the call returns and leaves the child alone.
GetTimesOutLeaves ==
  /\ parent = "get"
  /\ sent = 0
  /\ parent' = "idle" /\ outcome' = "None"
  /\ UNCHANGED <<child, signalled, msgVars, cycles>>

\* queue.Empty
GetTimesOut ==
  /\ parent = "get"
  /\ sent = 0
  /\ parent' = "terminate"
  /\ UNCHANGED <<child, signalled, msgVars, outcome, cycles>>

Return ==
  /\ parent' = "idle"
  /\ outcome' = IF received = size /\ size > 0 /\ status = "ok" THEN "result" ELSE "None"
  /\ UNCHANGED <<child, signalled, msgVars, cycles>>

\* process.join(timeout=5.0) finds the child gone
Joined == parent = "join" /\ child = "gone" /\ Return

\* Mutated form of JoinTimesOut: nothing ends a child that does not exit.
JoinForever == FALSE /\ UNCHANGED vars

JoinTimesOut ==
  /\ parent = "join"
  /\ child # "gone"
  /\ parent' = "terminate"
  /\ UNCHANGED <<child, signalled, msgVars, outcome, cycles>>

Terminate ==
  /\ parent = "terminate"
  /\ parent' = "reap"
  /\ signalled' = TRUE
  /\ UNCHANGED <<child, msgVars, outcome, cycles>>

\* The join() that follows terminate() has no timeout.
Reaped == parent = "reap" /\ child = "gone" /\ Return

-----------------------------------------------------------------------------
ChildStep == ChildClusters \/ ChildSends \/ ChildEnds \/ ChildDies

ParentStep ==
  BeginRead \/ ReadSome \/ GetTimesOut \/ Joined \/ JoinTimesOut \/ Terminate \/ Reaped

\* All cycles of the behaviour are over, or the parent waits for the rest of a
\* message nobody will write.
Stopped ==
  /\ \/ parent = "idle" /\ cycles = MaxCycles
     \/ parent = "read" /\ child = "gone" /\ received = sent
  /\ UNCHANGED vars

Next == Start \/ ChildStep \/ ParentStep \/ Stopped

Spec == Init /\ [][Next]_vars

\* The parent's thread runs, its timeouts expire, the feeder thread writes when
\* there is room, and a terminated child ends.  Nothing is assumed of how long
\* cluster() takes, of the child's exit, or of its dying otherwise.
Fairness ==
  /\ WF_vars(ParentStep)
  /\ WF_vars(ChildSends)
  /\ WF_vars(signalled /\ ChildDies)

FairSpec == Spec /\ Fairness

-----------------------------------------------------------------------------
(* Properties *)

TypeOK ==
  /\ parent \in {"idle", "get", "read", "join", "terminate", "reap"}
  /\ child \in {"none", "clustering", "sending", "gone"}
  /\ signalled \in BOOLEAN
  /\ status \in {"ok", "error"} /\ outcome \in {"result", "None"}
  /\ size \in 0..MaxResult /\ sent \in 0..size /\ received \in 0..sent
  /\ sent - received <= PipeCapacity
  /\ cycles \in Nat

\* The child died with only a part of its message in the pipe.
Cut == child = "gone" /\ 0 < sent /\ sent < size

\* When run_clustering_subprocess has returned, its process is gone (cycles do
\* not pile up children), and it returned a community map exactly if the child
\* reported one and the whole of it was read: not after a timeout that raced
\* the first byte, nor for an error, nor after terminating a slow exit.
ReturnedCleanly ==
  parent = "idle" /\ cycles > 0 =>
    /\ child = "gone"
    /\ outcome = "result" <=> status = "ok" /\ size > 0 /\ received = size

\* A call returns whatever the child does and however large its result is,
\* unless the child dies in the middle of sending it.
ParentReturns ==
  parent # "idle" ~> parent = "idle" \/ (parent = "read" /\ Cut)

\* Once the child has begun to send, before the timeout, what it sends is what
\* the call returns: a result larger than the pipe buffer is not lost, and its
\* sender not terminated, because the parent does not read (ADR 0003).
ResultDelivered ==
  parent \in {"get", "join"} /\ sent > 0 ~>
    Cut \/ (parent = "idle" /\ (outcome = "result" <=> status = "ok"))

\* The docstring: "Returns None (logging the failure) on subprocess failure or
\* on exceeding `timeout`".  The call always returns.
AlwaysReturns == parent # "idle" ~> parent = "idle"

=============================================================================
