------------------------- MODULE MCRemainOnChannel -------------------------
(* RemainOnChannel for TLC. *)
EXTENDS RemainOnChannel
============================================================================
