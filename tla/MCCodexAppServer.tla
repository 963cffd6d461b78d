--------------------------- MODULE MCCodexAppServer ---------------------------
(* TLC instance of CodexAppServer. *)
EXTENDS CodexAppServer
=============================================================================
