----------------------------- MODULE MCHostCmd -----------------------------
(* Small instances of HostCmd for TLC. *)
EXTENDS HostCmd
============================================================================
