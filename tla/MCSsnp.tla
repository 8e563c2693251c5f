-------------------------------- MODULE MCSsnp --------------------------------
(* TLC instances of Ssnp: two numbers, of different lengths, and one time.   *)
EXTENDS Ssnp

MCDigits == {"d1", "d2", "d3", "d4"}
MCNumbers == {<<"d1", "d2", "d3">>, <<"d2", "d4", "d1", "d3">>}
MCTimestamps == {<<"d4", "d1">>}
===============================================================================
