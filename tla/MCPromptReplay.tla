--------------------------- MODULE MCPromptReplay ---------------------------
(* Small instances of PromptReplay for TLC. *)
EXTENDS PromptReplay, TLC

\* Messages and requests are interchangeable.
Symmetry == Permutations(Messages) \union Permutations(Requests)
=============================================================================
