---------------------------- MODULE ChangeBatcher ----------------------------
(***************************************************************************)
(* What the debounced watcher promises to the rest of the daemon: a queue  *)
(* of file changes whose whole content is handed over, never a part of it, *)
(* never twice and never out of order.  Nothing is accepted once the queue *)
(* is closed (VaultWatcher.reject_new_events), and whatever is queued is   *)
(* handed over eventually, whether it was closed or not.                   *)
(***************************************************************************)
EXTENDS Sequences

CONSTANT Changes

VARIABLES
  queued,   \* changes accepted and not yet handed over, oldest first
  handed,   \* every change handed over so far, in that order
  closed    \* no change is accepted any more

abstractVars == <<queued, handed, closed>>

Init ==
  /\ queued = <<>>
  /\ handed = <<>>
  /\ closed = FALSE

Accept ==
  /\ ~closed
  /\ \E c \in Changes : queued' = Append(queued, c)
  /\ UNCHANGED <<handed, closed>>

HandOver ==
  /\ queued # <<>>
  /\ handed' = handed \o queued
  /\ queued' = <<>>
  /\ UNCHANGED closed

Close ==
  /\ closed' = TRUE
  /\ UNCHANGED <<queued, handed>>

Next == Accept \/ HandOver \/ Close

Spec == Init /\ [][Next]_abstractVars /\ WF_abstractVars(HandOver)

=============================================================================
