-------------------------- MODULE MCMcpSupervisor --------------------------
(* Small instances of McpSupervisor. *)
EXTENDS McpSupervisor, TLC

AnyCall == Permutations(Calls)
=============================================================================
