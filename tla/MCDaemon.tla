------------------------------ MODULE MCDaemon ------------------------------
(***************************************************************************)
(* Daemon with one note whose changes are all alike: its properties count  *)
(* changes and never look at them.                                         *)
(***************************************************************************)
EXTENDS Daemon, TLC

MCEvents == {[type |-> "modified", isDir |-> FALSE, src |-> "n", dest |-> "n"]}

MCSymmetry == Permutations(Timers) \cup Permutations(IdleTimers)

=============================================================================
