--------------------------- MODULE MCChargerCover ---------------------------
(* Four commands for a queue of two: while one is handled the queue fills, *)
(* and the next drops the oldest.                                          *)
EXTENDS ChargerCover
=============================================================================
