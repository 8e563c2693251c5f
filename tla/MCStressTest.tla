----------------------------- MODULE MCStressTest -----------------------------
(* Two clients for each test, of hosts with up to two addresses. *)
EXTENDS StressTest
MCClients == 1..2
===============================================================================
