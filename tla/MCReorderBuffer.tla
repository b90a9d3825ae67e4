-------------------------- MODULE MCReorderBuffer --------------------------
(* Small instances of ReorderBuffer for TLC. *)
EXTENDS ReorderBuffer
============================================================================
