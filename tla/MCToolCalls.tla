----------------------------- MODULE MCToolCalls -----------------------------
(***************************************************************************)
(* ToolCalls with answers below, at and above their budget, and a window   *)
(* one sample longer than p99 needs to leave the slowest call.             *)
(***************************************************************************)
EXTENDS ToolCalls

=============================================================================
