------------------------------- MODULE MCServer -------------------------------
(* TLC instances of Server: the constants are given in the .cfg files.       *)
EXTENDS Server, TLC

\* Clients and workers are interchangeable in the invariants, and so are the requests.
Symmetry == Permutations(Clients) \cup Permutations(Workers) \cup Permutations(Requests)
===============================================================================
