--------------------------- MODULE MCBootProbation ---------------------------
(* Instance of BootProbation for TLC. *)
EXTENDS BootProbation
=============================================================================
