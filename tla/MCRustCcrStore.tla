--------------------------- MODULE MCRustCcrStore ---------------------------
(* Small instances of RustCcrStore for TLC. *)
EXTENDS RustCcrStore, TLC

\* Hashes and threads are interchangeable: no definition orders or names them.
Symmetry == Permutations(Keys) \union Permutations(Threads)
=============================================================================
