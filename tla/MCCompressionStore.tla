------------------------ MODULE MCCompressionStore ------------------------
(* Small instances of CompressionStore for TLC. *)
EXTENDS CompressionStore

\* Hashes and threads are interchangeable: no definition orders or names them.
Symmetry == Permutations(Keys) \union Permutations(Threads)
=============================================================================
