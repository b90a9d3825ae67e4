----------------------------- MODULE MCTxQueue -----------------------------
(* Small instances of TxQueue for TLC. *)
EXTENDS TxQueue
============================================================================
