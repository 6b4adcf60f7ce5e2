---------------------- MODULE MCCompressionQuarantine ----------------------
(* Small instances of CompressionQuarantine for TLC. *)
EXTENDS CompressionQuarantine
=============================================================================
