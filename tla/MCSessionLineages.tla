------------------------- MODULE MCSessionLineages -------------------------
(* Small instances of SessionLineages for TLC. *)
EXTENDS SessionLineages, TLC

\* Messages, requests and sessions are interchangeable.
Symmetry == Permutations(Messages) \union Permutations(Requests)
=============================================================================
