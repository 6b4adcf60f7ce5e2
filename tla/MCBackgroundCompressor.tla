---------------------- MODULE MCBackgroundCompressor ----------------------
(* Small instances of BackgroundCompressor for TLC. *)
EXTENDS BackgroundCompressor
=============================================================================
