------------------------------ MODULE SampleCache ------------------------------
(***************************************************************************)
(* What BME280SensorManager promises the threads that serve clients: one   *)
(* register that holds a whole sample or nothing, written when a new       *)
(* sample arrives and emptied when the sensor fails.  A read() takes       *)
(* effect at one instant between its call and its return, and samples      *)
(* never go back in time.                                                  *)
(***************************************************************************)
EXTENDS Naturals

CONSTANTS
  Readers,   \* the threads that call read()
  Samples,   \* the sensor's samples, numbered in the order it takes them
  Invalid,   \* no valid sample; the answer of a read() that returns -1
  Pending    \* a read() that has been called and has not taken effect

VARIABLES
  cell,      \* the sample the register holds, or Invalid
  latest,    \* the newest sample it has held
  answer     \* the answer to each reader's latest read()

vars == <<cell, latest, answer>>

Init ==
  /\ cell = Invalid
  /\ latest = 0
  /\ answer = [r \in Readers |-> Invalid]

Refresh(s) ==
  /\ s >= latest
  /\ cell' = s
  /\ latest' = s
  /\ UNCHANGED answer

Invalidate ==
  /\ cell' = Invalid
  /\ UNCHANGED <<latest, answer>>

Ask(r) ==
  /\ answer[r] # Pending
  /\ answer' = [answer EXCEPT ![r] = Pending]
  /\ UNCHANGED <<cell, latest>>

Answer(r) ==
  /\ answer[r] = Pending
  /\ answer' = [answer EXCEPT ![r] = cell]
  /\ UNCHANGED <<cell, latest>>

Next ==
  \/ \E s \in Samples : Refresh(s)
  \/ Invalidate
  \/ \E r \in Readers : Ask(r) \/ Answer(r)

SafeSpec == Init /\ [][Next]_vars

\* Every read() is answered.  Nothing says that a new sample must arrive.
Spec == SafeSpec /\ \A r \in Readers : WF_vars(Answer(r))
===============================================================================
