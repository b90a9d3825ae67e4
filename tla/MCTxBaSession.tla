--------------------------- MODULE MCTxBaSession ---------------------------
(* Small instances of TxBaSession for TLC. *)
EXTENDS TxBaSession
============================================================================
