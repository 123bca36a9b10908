----------------------------- MODULE MCVaultSync -----------------------------
(* VaultSync on notes and an excluded path, the notes being alike.           *)
EXTENDS VaultSync, TLC

MCSymmetry == Permutations(Notes)

=============================================================================
