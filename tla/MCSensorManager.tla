--------------------------- MODULE MCSensorManager ----------------------------
(* TLC instance of SensorManager: the constants are given in MCSensorManager.cfg. *)
EXTENDS SensorManager
===============================================================================
