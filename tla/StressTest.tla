------------------------------ MODULE StressTest ------------------------------
(***************************************************************************)
(* src/test_server.sh: for each kind of client it launches all clients,    *)
(* waits for each, counts, shows the logs of those that look failed, and   *)
(* at the end tells by its exit status whether a client failed.            *)
(***************************************************************************)
EXTENDS Client, Sequences, FiniteSetsExt

ASSUME StressAssumption == IsFiniteSet(Clients) /\ Clients \subseteq Nat

VARIABLES
  tests,    \* the kinds of client still to be tested
  spc,      \* where the script is
  success, failure,  \* counts of the running test
  waited,   \* clients of the test that have been waited for
  shown,    \* clients whose log was shown in the latest report
  total,    \* total_failures
  failed,   \* history: clients launched so far, in all tests, that failed
  exit      \* exit status of the script

scriptVars == <<tests, spc, success, failure, waited, shown, total, failed, exit>>
vars == <<clientVars, scriptVars>>

EXIT_STATUSES == 256

Init ==
  /\ ClientInit
  /\ tests \in {<<"cpp">>, <<"python">>, <<"cpp", "python">>}
  /\ spc = "choose"
  /\ success = 0 /\ failure = 0 /\ waited = {} /\ shown = {}
  /\ total = 0 /\ failed = 0 /\ exit = None

\* A client program that is not there is skipped, which counts as no failure.
Skip ==
  /\ spc = "choose" /\ tests # <<>>
  /\ tests' = Tail(tests)
  /\ UNCHANGED <<clientVars, spc, success, failure, waited, shown, total, failed, exit>>

\* run_test()
Begin ==
  /\ spc = "choose" /\ tests # <<>>
  /\ spc' = "launch"
  /\ success' = 0 /\ failure' = 0 /\ waited' = {} /\ shown' = {}
  /\ cpc' = [c \in Clients |-> "off"]
  /\ UNCHANGED <<program, left, fd, sockets, peer, log, status, tests, total, failed, exit>>

Off == {c \in Clients : cpc[c] = "off"}

\* The loop of launches, client by client.
LaunchNext ==
  /\ spc = "launch" /\ Off # {}
  /\ Launch(Min(Off), Head(tests))
  /\ UNCHANGED scriptVars

AllLaunched ==
  /\ spc = "launch" /\ Off = {}
  /\ spc' = "wait"
  /\ UNCHANGED <<clientVars, tests, success, failure, waited, shown, total, failed, exit>>

\* Mutant: each client that is waited for is counted twice.
WaitNextTwice ==
  /\ spc = "wait" /\ waited # Clients
  /\ LET c == Min(Clients \ waited) IN
       /\ cpc[c] = "exited"
       /\ waited' = waited \cup {c}
       /\ success' = IF status[c] = 0 THEN success + 2 ELSE success
       /\ failure' = IF status[c] = 0 THEN failure ELSE failure + 1
       /\ failed' = IF status[c] = 0 THEN failed ELSE failed + 1
  /\ UNCHANGED <<clientVars, tests, spc, shown, total, exit>>

\* wait for the next one, in the order of their launch.
WaitNext ==
  /\ spc = "wait" /\ waited # Clients
  /\ LET c == Min(Clients \ waited) IN
       /\ cpc[c] = "exited"
       /\ waited' = waited \cup {c}
       /\ success' = IF status[c] = 0 THEN success + 1 ELSE success
       /\ failure' = IF status[c] = 0 THEN failure ELSE failure + 1
       /\ failed' = IF status[c] = 0 THEN failed ELSE failed + 1
  /\ UNCHANGED <<clientVars, tests, spc, shown, total, exit>>

LooksFailed(c) == log[c] \cap {Disconnected, Response} = {}

\* Mutant: the failures of one test replace those of the test before.
ReportAnew ==
  /\ spc = "wait" /\ waited = Clients
  /\ shown' = IF failure > 0 THEN {c \in Clients : LooksFailed(c)} ELSE {}
  /\ total' = failure % EXIT_STATUSES
  /\ tests' = Tail(tests) /\ spc' = "choose"
  /\ UNCHANGED <<clientVars, success, failure, waited, failed, exit>>

\* The results; run_test() returns the number of failures, as an exit status.
Report ==
  /\ spc = "wait" /\ waited = Clients
  /\ shown' = IF failure > 0 THEN {c \in Clients : LooksFailed(c)} ELSE {}
  /\ total' = total + (failure % EXIT_STATUSES)
  /\ tests' = Tail(tests) /\ spc' = "choose"
  /\ UNCHANGED <<clientVars, success, failure, waited, failed, exit>>

Finish ==
  /\ spc = "choose" /\ tests = <<>>
  /\ exit' = IF total = 0 THEN 0 ELSE 1
  /\ spc' = "over"
  /\ UNCHANGED <<clientVars, tests, success, failure, waited, shown, total, failed>>

Over == spc = "over" /\ UNCHANGED vars

Run == Begin \/ LaunchNext \/ AllLaunched \/ WaitNext \/ Report \/ Finish
Next ==
  \/ Run \/ Skip \/ Over
  \/ \E c \in Clients : (ClientStep(c) \/ ServerEnds(c)) /\ UNCHANGED scriptVars

\* Script and clients run, and the server ends each connection that waits for it
\* (it does while it serves: see Served in Server; a client has no timeout).
Spec ==
  /\ Init /\ [][Next]_vars
  /\ WF_vars(Run)
  /\ \A c \in Clients : /\ WF_vars(ClientStep(c) /\ UNCHANGED scriptVars)
                        /\ WF_vars(ServerEnds(c) /\ UNCHANGED scriptVars)
-------------------------------------------------------------------------------
(* Properties *)

\* The variables keep their types, and the counts are of the clients waited for.
TypeOK ==
  /\ ClientTypeOK
  /\ tests \in {<<>>, <<"cpp">>, <<"python">>, <<"cpp", "python">>}
  /\ spc \in {"choose", "launch", "wait", "over"}
  /\ waited \subseteq Clients /\ shown \subseteq Clients
  /\ success \in Nat /\ failure \in Nat /\ success + failure = Cardinality(waited)
  /\ total \in Nat /\ failed \in Nat
  /\ exit \in {0, 1, None}

\* The script passes exactly when no client it launched failed, in any of its
\* tests; with 256 clients or more a test with 256 failures would pass.
Verdict ==
  spc = "over" /\ Cardinality(Clients) < EXIT_STATUSES => (exit = 0 <=> failed = 0)

Reported == waited = Clients /\ spc \in {"choose", "over"}
Failed == {c \in Clients : status[c] \notin {0, None}}

\* README.md: the script "displays failed client outputs for debugging".
ShowsEveryFailure == Reported => Failed \subseteq shown

\* The script comes to its end: no client waits for ever.
Finishes == <>(spc = "over")
===============================================================================
