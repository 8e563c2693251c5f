---------------------------- MODULE MCThreadPool ------------------------------
(* TLC instance of ThreadPool: the constants are given in MCThreadPool.cfg. *)
EXTENDS ThreadPool
===============================================================================
