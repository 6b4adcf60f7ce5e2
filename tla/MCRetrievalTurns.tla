------------------------- MODULE MCRetrievalTurns -------------------------
(* Small instances of RetrievalTurns for TLC. *)
EXTENDS RetrievalTurns
=============================================================================
