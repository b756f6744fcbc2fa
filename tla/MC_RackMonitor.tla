--------------------------- MODULE MC_RackMonitor ----------------------------
(* The rack monitor, for TLC.                                              *)
EXTENDS RackMonitor

MCSlots == 1 .. 2
=============================================================================
