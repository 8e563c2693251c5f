------------------------------ MODULE MCBme280 --------------------------------
(* TLC instance of Bme280: the constants are given in MCBme280.cfg. *)
EXTENDS Bme280
===============================================================================
