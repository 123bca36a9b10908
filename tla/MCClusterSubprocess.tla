------------------------ MODULE MCClusterSubprocess ------------------------
(***************************************************************************)
(* ClusterSubprocess with results smaller than, as large as and larger     *)
(* than the pipe, over two cycles.                                         *)
(***************************************************************************)
EXTENDS ClusterSubprocess

=============================================================================
