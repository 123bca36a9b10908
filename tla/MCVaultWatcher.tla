--------------------------- MODULE MCVaultWatcher ---------------------------
(***************************************************************************)
(* VaultWatcher on a vault with a note n, an excluded path x and a path o  *)
(* that resolves outside the vault.                                        *)
(***************************************************************************)
EXTENDS VaultWatcher, TLC

MCPaths == {"n", "x", "o"}

Event(type, src, dest) == [type |-> type, isDir |-> FALSE, src |-> src, dest |-> dest]

\* Two changes that are queued (one of them only because a move is), and one
\* event for each reason to ignore it.
MCEvents ==
  { Event("modified", "n", "n"), Event("moved", "n", "x"),
    Event("modified", "x", "x"), Event("deleted", "o", "o"),
    Event("opened", "n", "n"), [Event("modified", "n", "n") EXCEPT !.isDir = TRUE] }

MCSymmetry == Permutations(Timers) \cup Permutations(IdleTimers)

=============================================================================
