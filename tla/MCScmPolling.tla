----------------------------- MODULE MCScmPolling -----------------------------
(* The instance that TLC checks: two workspaces and two branch names. *)
EXTENDS ScmPolling
=============================================================================
