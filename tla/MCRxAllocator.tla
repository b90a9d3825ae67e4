--------------------------- MODULE MCRxAllocator ---------------------------
(* The RX buffers with the default queue and at most one RSS queue. *)
EXTENDS RxAllocator
=============================================================================
