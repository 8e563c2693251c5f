------------------------------ MODULE MCDaemon --------------------------------
(* TLC instance of Daemon: the constants are given in MCDaemon.cfg. *)
EXTENDS Daemon
===============================================================================
