--------------------------- MODULE MCQueryServing ---------------------------
(* QueryServing with calls, questions and nodes that are each alike.         *)
EXTENDS QueryServing, TLC

MCSymmetry == Permutations(Calls) \cup Permutations(Questions) \cup Permutations(Nodes)

=============================================================================
