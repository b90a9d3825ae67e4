--------------------------- MODULE MCStationMlme ---------------------------
(* StationMlme for TLC. *)
EXTENDS StationMlme
============================================================================
