----------------------------- MODULE MCImagePool -----------------------------
(* Small instances of ImagePool for TLC. *)
EXTENDS ImagePool
=============================================================================
