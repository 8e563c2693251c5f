--------------------------- MODULE StressTestProofs ---------------------------
(***************************************************************************)
(* Theorems about StressTest and the clients of Client that it runs, for   *)
(* any number of clients and addresses: TypeOK, OneSocket, ExitTells and   *)
(* Verdict.                                                                *)
(***************************************************************************)
EXTENDS StressTest, FiniteSetTheorems, WellFoundedInduction, TLAPS

\* The socket of a client, by where it is: the C++ client has one from the address
\* that answers until disconnect(), the Python client from its first call on.
SocketOf(c) ==
  /\ cpc[c] = "start" \/ (cpc[c] = "connect" /\ program[c] = "cpp") =>
       fd[c] = "none" /\ sockets[c] = 0
  /\ cpc[c] \in {"send", "receive", "parse"} \/ (cpc[c] = "connect" /\ program[c] = "python") =>
       fd[c] = "open" /\ sockets[c] = 1
  /\ cpc[c] = "return" => fd[c] = "stale" /\ sockets[c] = 0

\* What a client knows of its server, by where it is: the server ends the
\* connection while the client sends or receives, once.
PeerOf(c) ==
  /\ cpc[c] \in {"start", "connect"} => peer[c] = "none"
  /\ cpc[c] = "send" => peer[c] \in {"waiting", "reset"}
  /\ cpc[c] = "receive" => peer[c] # "none"
  /\ cpc[c] = "parse" => Answered(c)

\* ExitTells for one client, from where main() has its return value on.
StatusOf(c) ==
  cpc[c] \in {"return", "exited"} =>
    /\ status[c] # None
    /\ peer[c] = "data" => status[c] = 0
    /\ status[c] = 0 => Answered(c) \/ (program[c] = "python" /\ peer[c] = "closed")

ClientInv(c) == SocketOf(c) /\ PeerOf(c) /\ StatusOf(c)

\* A test is being run only if there is one.
Testing == spc \in {"launch", "wait"} => tests # <<>>

\* The running test counts from nothing, and no test loses a failure: those of the
\* tests before are in total, those of the running one in failure.
Counted ==
  /\ spc = "launch" => waited = {}
  /\ Cardinality(Clients) < EXIT_STATUSES =>
       failed = total + (IF spc \in {"launch", "wait"} THEN failure ELSE 0)
  /\ spc = "over" => (exit = 0 <=> total = 0)

IInv ==
  /\ TypeOK /\ Testing /\ Counted
  /\ \A c \in Clients : ClientInv(c)

\* Every client is where it may be.
ClientsOK == ClientTypeOK /\ \A c \in Clients : ClientInv(c)

\* None is no exit status.
LEMMA NoneIsNoStatus == None \notin 0..255
BY ClientAssumption

\* Where nothing of the clients changes, nothing of the invariant does.
LEMMA ClientsKept == ClientsOK /\ UNCHANGED clientVars => ClientsOK'
BY DEF ClientsOK, ClientTypeOK, ClientInv, SocketOf, PeerOf, StatusOf, Answered, clientVars

\* A step of one client leaves the others alone.
Others(c) ==
  \A d \in Clients \ {c} :
    /\ program'[d] = program[d] /\ cpc'[d] = cpc[d] /\ fd'[d] = fd[d]
    /\ sockets'[d] = sockets[d] /\ peer'[d] = peer[d] /\ status'[d] = status[d]

\* After a step of one client it is enough to look at that client.
LEMMA OneClient ==
  ASSUME ClientsOK, NEW c \in Clients, ClientTypeOK', Others(c), ClientInv(c)'
  PROVE  ClientsOK'
<1> SUFFICES ASSUME NEW d \in Clients \ {c} PROVE ClientInv(d)'
  BY DEF ClientsOK
<1>1. ClientInv(d)
  BY DEF ClientsOK
<1> QED
  BY <1>1 DEF Others, ClientInv, SocketOf, PeerOf, StatusOf, Answered

\* The script launches a client anew.
LEMMA LaunchKeeps ==
  ASSUME ClientsOK, NEW c \in Clients, NEW p \in {"cpp", "python"}, Launch(c, p)
  PROVE  ClientsOK'
<1>1. ClientTypeOK' /\ Others(c)
  BY DEF ClientsOK, ClientTypeOK, Launch, Others
<1>2. ClientInv(c)'
  BY DEF ClientsOK, ClientTypeOK, Launch, ClientInv, SocketOf, PeerOf, StatusOf
<1> QED
  BY <1>1, <1>2, OneClient

\* A client may end at any time, provided its status tells what its server did.
LEMMA ExitKeeps ==
  ASSUME ClientsOK, NEW c \in Clients, NEW s \in 0..255, NEW marks \in SUBSET {Disconnected, Response},
         Exit(c, s, marks),
         peer[c] = "data" => s = 0,
         s = 0 => Answered(c) \/ (program[c] = "python" /\ peer[c] = "closed")
  PROVE  ClientsOK'
<1>1. ClientTypeOK' /\ Others(c)
  BY DEF ClientsOK, ClientTypeOK, Exit, Others
<1>2. ClientInv(c)'
  BY NoneIsNoStatus DEF ClientsOK, ClientTypeOK, Exit, ClientInv, SocketOf, PeerOf, StatusOf, Answered
<1> QED
  BY <1>1, <1>2, OneClient

\* A client that goes on with what it has.
LEMMA PassKeeps ==
  ASSUME ClientsOK, NEW c \in Clients,
         \/ cpc[c] = "send" /\ Pass(c, "receive")
         \/ cpc[c] = "receive" /\ Answered(c) /\ Pass(c, "parse")
  PROVE  ClientsOK'
<1>1. ClientTypeOK' /\ Others(c)
  BY DEF ClientsOK, ClientTypeOK, Pass, Goto, Others
<1>2. ClientInv(c)
  BY DEF ClientsOK
<1>3. ClientInv(c)'
  BY <1>2 DEF ClientsOK, ClientTypeOK, Pass, Goto, ClientInv, SocketOf, PeerOf, StatusOf, Answered
<1> QED
  BY <1>1, <1>3, OneClient

\* disconnect() on a connection that is open, and the value that main() returns.
LEMMA LeaveKeeps ==
  ASSUME ClientsOK, NEW c \in Clients, NEW s \in {0, MINUS_ONE}, Leave(c, s),
         cpc[c] \in {"send", "receive", "parse"},
         peer[c] = "data" => s = 0, s = 0 => Answered(c)
  PROVE  ClientsOK'
<1>1. ClientInv(c) /\ sockets[c] = 1
  BY DEF ClientsOK, ClientInv, SocketOf
<1>2. ClientTypeOK' /\ Others(c)
  BY <1>1 DEF ClientsOK, ClientTypeOK, Leave, Others, MINUS_ONE
<1>3. ClientInv(c)'
  BY <1>1, NoneIsNoStatus DEF ClientsOK, ClientTypeOK, Leave, ClientInv, SocketOf, PeerOf, StatusOf, Answered, MINUS_ONE
<1> QED
  BY <1>2, <1>3, OneClient

\* Every step of a client, of either program.
LEMMA ClientStepKeeps ==
  ASSUME ClientsOK, NEW c \in Clients, ClientStep(c)
  PROVE  ClientsOK'
<1> USE DEF MINUS_ONE, ONE, ABORT
<1>0. ClientTypeOK /\ ClientInv(c)
  BY DEF ClientsOK
<1>1. CASE Resolve(c)
  <2>1. ASSUME NEW n \in 1..MaxAddresses, Goto(c, "connect"), left' = [left EXCEPT ![c] = n],
               UNCHANGED <<fd, sockets, peer>>
        PROVE  ClientsOK'
    <3>1. ClientTypeOK' /\ Others(c)
      BY <1>0, <2>1, ClientAssumption DEF ClientTypeOK, Goto, Others
    <3>2. ClientInv(c)'
      BY <1>0, <1>1, <2>1 DEF Resolve, ClientTypeOK, Goto, ClientInv, SocketOf, PeerOf, StatusOf
    <3> QED
      BY <3>1, <3>2, OneClient
  <2>2. CASE Exit(c, MINUS_ONE, {})
    BY <1>0, <1>1, <2>2, ExitKeeps DEF Resolve, ClientInv, PeerOf
  <2> QED
    BY <1>1, <2>1, <2>2 DEF Resolve
<1>2. CASE TryAddress(c)
  <2>1. CASE Connected(c)
    <3>1. ClientTypeOK' /\ Others(c)
      BY <1>0, <2>1 DEF ClientTypeOK, Connected, Goto, Open, Others
    <3>2. ClientInv(c)'
      BY <1>0, <1>2, <2>1 DEF TryAddress, Connected, Open, ClientTypeOK, Goto, ClientInv, SocketOf, PeerOf, StatusOf
    <3> QED
      BY <3>1, <3>2, OneClient
  <2>2. CASE NextAddress(c) /\ NotOpen(c) /\ UNCHANGED peer
    <3>1. left[c] - 1 \in 0..MaxAddresses
      BY <1>0, <1>2, ClientAssumption DEF TryAddress, ClientTypeOK
    <3>2. ClientTypeOK' /\ Others(c)
      BY <1>0, <2>2, <3>1 DEF ClientTypeOK, NextAddress, NotOpen, Goto, Others
    <3>3. ClientInv(c)'
      BY <1>0, <1>2, <2>2 DEF TryAddress, NextAddress, NotOpen, ClientTypeOK, Goto, ClientInv, SocketOf, PeerOf, StatusOf
    <3> QED
      BY <3>2, <3>3, OneClient
  <2> QED
    BY <1>2, <2>1, <2>2 DEF TryAddress
<1>3. CASE NoAddressLeft(c)
  BY <1>0, <1>3, ExitKeeps DEF NoAddressLeft, ClientInv, PeerOf
<1>4. CASE Send(c)
  BY <1>0, <1>4, PassKeeps, LeaveKeeps DEF Send
<1>5. CASE Receive(c)
  BY <1>0, <1>5, PassKeeps, LeaveKeeps DEF Receive, Answered
<1>6. CASE Parse(c)
  BY <1>0, <1>6, LeaveKeeps, ExitKeeps DEF Parse, ClientInv, PeerOf
<1>7. CASE DestroyClient(c)
  BY <1>0, <1>7, ExitKeeps DEF DestroyClient, ClientInv, StatusOf, ClientTypeOK
<1>8. CASE PySocket(c)
  <2>1. CASE Goto(c, "connect") /\ Open(c) /\ UNCHANGED <<left, peer>>
    <3>1. ClientTypeOK' /\ Others(c)
      BY <1>0, <2>1 DEF ClientTypeOK, Goto, Open, Others
    <3>2. ClientInv(c)'
      BY <1>0, <1>8, <2>1 DEF PySocket, Open, ClientTypeOK, Goto, ClientInv, SocketOf, PeerOf, StatusOf
    <3> QED
      BY <3>1, <3>2, OneClient
  <2>2. CASE Exit(c, ONE, {})
    BY <1>0, <1>8, <2>2, ExitKeeps DEF PySocket, ClientInv, PeerOf
  <2> QED
    BY <1>8, <2>1, <2>2 DEF PySocket
<1>9. CASE PyConnect(c)
  <2>1. CASE Goto(c, "send") /\ peer' = [peer EXCEPT ![c] = "waiting"] /\ UNCHANGED <<left, fd, sockets>>
    <3>1. ClientTypeOK' /\ Others(c)
      BY <1>0, <2>1 DEF ClientTypeOK, Goto, Others
    <3>2. ClientInv(c)'
      BY <1>0, <1>9, <2>1 DEF PyConnect, ClientTypeOK, Goto, ClientInv, SocketOf, PeerOf, StatusOf
    <3> QED
      BY <3>1, <3>2, OneClient
  <2>2. CASE PyExit(c, ONE, {})
    BY <1>0, <1>9, <2>2, ExitKeeps DEF PyConnect, PyExit, ClientInv, PeerOf
  <2> QED
    BY <1>9, <2>1, <2>2 DEF PyConnect
<1>10. CASE PySend(c)
  BY <1>0, <1>10, PassKeeps, ExitKeeps DEF PySend, PyExit, Answered
<1>11. CASE PyReceive(c)
  <2>1. peer[c] \in {"data", "part", "closed", "reset"}
    BY <1>0, <1>11 DEF PyReceive, ClientInv, PeerOf, ClientTypeOK
  <2>2. \/ Answered(c) /\ PyExit(c, 0, {Response})
        \/ peer[c] = "closed" /\ PyExit(c, 0, {})
        \/ peer[c] = "reset" /\ PyExit(c, ONE, {})
    BY <1>11, <2>1 DEF PyReceive, Answered
  <2> QED
    BY <1>0, <1>11, <2>2, ExitKeeps DEF PyReceive, PyExit, Answered
<1> QED
  BY <1>1, <1>2, <1>3, <1>4, <1>5, <1>6, <1>7, <1>8, <1>9, <1>10, <1>11 DEF ClientStep

\* The server ends a connection that waits for it.
LEMMA ServerEndsKeeps ==
  ASSUME ClientsOK, NEW c \in Clients, ServerEnds(c)
  PROVE  ClientsOK'
<1>1. ClientTypeOK' /\ Others(c)
  BY DEF ClientsOK, ClientTypeOK, ServerEnds, Others
<1>2. ClientInv(c)
  BY DEF ClientsOK
<1>3. ClientInv(c)'
  BY <1>2 DEF ClientsOK, ClientTypeOK, ServerEnds, ClientInv, SocketOf, PeerOf, StatusOf
<1> QED
  BY <1>1, <1>3, OneClient

\* The least of some clients, by their numbers, is one of them.
LEMMA LeastClient ==
  ASSUME NEW C \in SUBSET Clients, C # {}
  PROVE  Min(C) \in C
<1> DEFINE R == {ss \in Nat \X Nat : ss[1] < ss[2]}
<1>1. IsWellFoundedOn(R, Nat)
  BY NatLessThanWellFounded DEF OpToRel
<1>2. C \in SUBSET Nat
  BY StressAssumption
<1>3. PICK n \in C : \A m \in C : <<m, n>> \notin R
  BY <1>1, <1>2, WFMin
<1>4. ASSUME NEW m \in C PROVE n <= m
  <2>1. <<m, n>> \in Nat \X Nat
    BY <1>2
  <2>2. <<m, n>> \in R <=> m < n
    BY <2>1
  <2> QED
    BY <1>3, <2>1, <2>2
<1> QED
  BY <1>4 DEF Min

\* What is left to test when a test is over.
LEMMA TestsLeft ==
  ASSUME tests \in {<<"cpp">>, <<"python">>, <<"cpp", "python">>}
  PROVE  /\ Head(tests) \in {"cpp", "python"}
         /\ Tail(tests) \in {<<>>, <<"python">>}
<1>1. CASE tests = <<"cpp">>
  BY <1>1
<1>2. CASE tests = <<"python">>
  BY <1>2
<1>3. CASE tests = <<"cpp", "python">>
  <2>1. Head(tests) = "cpp"
    BY <1>3
  <2>2. Tail(tests) = <<"python">>
    BY <1>3
  <2> QED
    BY <2>1, <2>2
<1> QED
  BY <1>1, <1>2, <1>3

\* The invariant holds when the script starts.
LEMMA InitIInv == Init => IInv
<1> SUFFICES ASSUME Init PROVE IInv
  OBVIOUS
<1>1. Cardinality({}) = 0
  BY FS_EmptySet
<1>2. TypeOK
  BY <1>1, ClientAssumption DEF Init, ClientInit, TypeOK, ClientTypeOK
<1>3. \A c \in Clients : ClientInv(c)
  BY DEF Init, ClientInit, ClientInv, SocketOf, PeerOf, StatusOf
<1>4. Testing /\ Counted
  BY DEF Init, Testing, Counted
<1> QED
  BY <1>2, <1>3, <1>4 DEF IInv

\* A step of the script that is no launch and no start of a test leaves the
\* clients alone.
LEMMA ClientsOfIInv ==
  /\ IInv => ClientsOK
  /\ ClientsOK' => (\A c \in Clients : ClientInv(c)') /\ ClientTypeOK'
BY DEF IInv, TypeOK, ClientsOK

\* WaitNext counts one client more, and the failure of one that failed twice: in
\* the running test and in the history.
LEMMA WaitNextKeeps == IInv /\ WaitNext => IInv'
<1> SUFFICES ASSUME IInv, WaitNext PROVE IInv'
  OBVIOUS
<1> DEFINE c == Min(Clients \ waited)
<1>1. c \in Clients \ waited
  BY LeastClient DEF IInv, TypeOK, WaitNext
<1>2. IsFiniteSet(waited) /\ IsFiniteSet(waited \cup {c})
  BY StressAssumption, FS_Subset, FS_AddElement DEF IInv, TypeOK
<1>3. Cardinality(waited \cup {c}) = Cardinality(waited) + 1
  BY <1>1, <1>2, FS_AddElement
<1>4. ClientsOK'
  BY ClientsOfIInv, ClientsKept DEF WaitNext
<1> HIDE DEF c
<1>5. TypeOK'
  <2>1. waited' \subseteq Clients /\ Cardinality(waited') = Cardinality(waited) + 1
    BY <1>1, <1>3 DEF IInv, TypeOK, WaitNext, c
  <2>2. success' \in Nat /\ failure' \in Nat /\ success' + failure' = success + failure + 1 /\ failed' \in Nat
    BY DEF IInv, TypeOK, WaitNext
  <2> QED
    BY <1>4, <2>1, <2>2 DEF IInv, TypeOK, WaitNext, ClientsOK
<1>6. Testing' /\ Counted'
  BY DEF IInv, TypeOK, Testing, Counted, WaitNext
<1> QED
  BY <1>4, <1>5, <1>6, ClientsOfIInv DEF IInv

\* A report carries the failures of the test into the total: all of them, when
\* they fit in an exit status.
LEMMA ReportKeeps == IInv /\ Report => IInv'
<1> SUFFICES ASSUME IInv, Report PROVE IInv'
  OBVIOUS
<1>1. tests' \in {<<>>, <<"python">>}
  BY TestsLeft DEF IInv, TypeOK, Testing, Report
<1>2. ClientsOK'
  BY ClientsOfIInv, ClientsKept DEF Report
<1>3. failure % EXIT_STATUSES \in Nat
  BY DEF IInv, TypeOK, EXIT_STATUSES
<1>4. TypeOK'
  BY <1>1, <1>2, <1>3 DEF IInv, TypeOK, Report, ClientsOK
<1>5. failure <= Cardinality(Clients)
  BY DEF IInv, TypeOK, Report
<1>6. ASSUME Cardinality(Clients) < EXIT_STATUSES
      PROVE  failed = total + (failure % EXIT_STATUSES)
  <2>1. Cardinality(Clients) \in Nat
    BY StressAssumption, FS_CardinalityType
  <2>2. failure % EXIT_STATUSES = failure
    BY <1>5, <1>6, <2>1 DEF IInv, TypeOK, EXIT_STATUSES
  <2> QED
    BY <1>6, <2>2 DEF IInv, Counted, Report
<1>7. Testing' /\ Counted'
  BY <1>3, <1>6 DEF IInv, TypeOK, Testing, Counted, Report
<1> QED
  BY <1>2, <1>4, <1>7, ClientsOfIInv DEF IInv

\* Every step of the script and of its clients keeps the invariant.
LEMMA NextIInv == IInv /\ [Next]_vars => IInv'
<1> SUFFICES ASSUME IInv, [Next]_vars PROVE IInv'
  OBVIOUS
<1>0. ClientsOK
  BY ClientsOfIInv
<1>1. CASE Skip
  <2>1. tests' \in {<<>>, <<"python">>}
    BY <1>1, TestsLeft DEF IInv, TypeOK, Skip
  <2>2. ClientsOK'
    BY <1>0, <1>1, ClientsKept DEF Skip
  <2>3. TypeOK'
    BY <1>1, <2>1, <2>2 DEF IInv, TypeOK, Skip, ClientsOK
  <2>4. Testing' /\ Counted'
    BY <1>1 DEF IInv, Testing, Counted, Skip
  <2> QED
    BY <2>2, <2>3, <2>4, ClientsOfIInv DEF IInv
<1>2. CASE Begin
  <2>1. Cardinality({}) = 0
    BY FS_EmptySet
  <2>2. TypeOK'
    BY <1>2, <2>1 DEF IInv, TypeOK, ClientTypeOK, Begin
  <2>3. \A c \in Clients : ClientInv(c)'
    BY <1>2 DEF Begin, ClientInv, SocketOf, PeerOf, StatusOf
  <2>4. Testing' /\ Counted'
    BY <1>2 DEF IInv, TypeOK, Testing, Counted, Begin
  <2> QED
    BY <2>2, <2>3, <2>4 DEF IInv
<1>3. CASE LaunchNext
  <2>1. Min(Off) \in Clients
    BY <1>3, LeastClient DEF LaunchNext, Off
  <2>2. Head(tests) \in {"cpp", "python"}
    BY <1>3, TestsLeft DEF IInv, TypeOK, Testing, LaunchNext
  <2>3. ClientsOK'
    BY <1>0, <1>3, <2>1, <2>2, LaunchKeeps DEF LaunchNext
  <2>4. TypeOK' /\ Testing' /\ Counted'
    BY <1>3, <2>3 DEF IInv, TypeOK, Testing, Counted, LaunchNext, scriptVars, ClientsOK
  <2> QED
    BY <2>3, <2>4, ClientsOfIInv DEF IInv
<1>4. CASE AllLaunched
  <2>1. ClientsOK'
    BY <1>0, <1>4, ClientsKept DEF AllLaunched
  <2>2. TypeOK' /\ Testing' /\ Counted'
    BY <1>4, <2>1 DEF IInv, TypeOK, Testing, Counted, AllLaunched, ClientsOK
  <2> QED
    BY <2>1, <2>2, ClientsOfIInv DEF IInv
<1>5. CASE WaitNext
  BY <1>5, WaitNextKeeps
<1>6. CASE Report
  BY <1>6, ReportKeeps
<1>7. CASE Finish
  <2>1. ClientsOK'
    BY <1>0, <1>7, ClientsKept DEF Finish
  <2>2. TypeOK' /\ Testing' /\ Counted'
    BY <1>7, <2>1, ClientAssumption DEF IInv, TypeOK, Testing, Counted, Finish, ClientsOK
  <2> QED
    BY <2>1, <2>2, ClientsOfIInv DEF IInv
<1>8. ASSUME NEW c \in Clients, ClientStep(c) \/ ServerEnds(c), UNCHANGED scriptVars
      PROVE  IInv'
  <2>1. ClientsOK'
    BY <1>0, <1>8, ClientStepKeeps, ServerEndsKeeps
  <2>2. TypeOK' /\ Testing' /\ Counted'
    BY <1>8, <2>1 DEF IInv, TypeOK, Testing, Counted, scriptVars, ClientsOK
  <2> QED
    BY <2>1, <2>2, ClientsOfIInv DEF IInv
<1>9. CASE UNCHANGED vars
  <2>1. ClientsOK' /\ UNCHANGED scriptVars
    BY <1>0, <1>9, ClientsKept DEF vars
  <2>2. TypeOK' /\ Testing' /\ Counted'
    BY <2>1 DEF IInv, TypeOK, Testing, Counted, scriptVars, ClientsOK
  <2> QED
    BY <2>1, <2>2, ClientsOfIInv DEF IInv
<1> QED
  BY <1>1, <1>2, <1>3, <1>4, <1>5, <1>6, <1>7, <1>8, <1>9 DEF Next, Run, Over

\* The invariant holds in every state.
LEMMA SpecIInv == Spec => []IInv
BY InitIInv, NextIInv, PTL DEF Spec

\* The variables keep their types, and a test counts the clients it has waited
\* for, each once (StressTest!TypeOK).
THEOREM StressTypeOK == Spec => []TypeOK
<1>1. IInv => TypeOK
  BY DEF IInv
<1> QED
  BY SpecIInv, <1>1, PTL

\* A running client has the one socket that socket_fd names, or none
\* (Client!OneSocket), however many addresses its host has.
THEOREM ClientOneSocket == Spec => []OneSocket
<1>1. IInv => OneSocket
  BY DEF IInv, TypeOK, ClientTypeOK, ClientInv, SocketOf, OneSocket
<1> QED
  BY SpecIInv, <1>1, PTL

\* The exit status of a client tells what its server did (Client!ExitTells).
THEOREM ClientExitTells == Spec => []ExitTells
<1>1. IInv => ExitTells
  BY DEF IInv, ClientInv, StatusOf, ExitTells
<1> QED
  BY SpecIInv, <1>1, PTL

\* The script passes exactly when none of its clients failed
\* (StressTest!Verdict), for any number of clients that an exit status can count.
THEOREM StressVerdict == Spec => []Verdict
<1>1. IInv => Verdict
  BY DEF IInv, TypeOK, Counted, Verdict
<1> QED
  BY SpecIInv, <1>1, PTL
===============================================================================
