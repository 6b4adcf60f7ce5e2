-------------------------- MODULE MCSharedCcrStore --------------------------
(* Small instances of SharedCcrStore for TLC. *)
EXTENDS SharedCcrStore, TLC

\* Hashes and workers are interchangeable: no definition orders or names them.
Symmetry == Permutations(Keys) \union Permutations(Workers)
=============================================================================
