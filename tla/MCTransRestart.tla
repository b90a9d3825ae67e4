-------------------------- MODULE MCTransRestart --------------------------
(* Small instances of TransRestart for TLC. *)
EXTENDS TransRestart
============================================================================
