-------------------------------- MODULE Client --------------------------------
(***************************************************************************)
(* Client programs as processes: src/client.cpp on the class Client of     *)
(* src/my_socket_lib.cpp, and src/envSensorClient.py.  A client finds the  *)
(* server's addresses, connects to one, sends its request, takes one       *)
(* answer and exits; what it leaves behind is its status and its log.      *)
(***************************************************************************)
EXTENDS Integers, FiniteSets

CONSTANTS
  Clients,       \* the client processes
  MaxAddresses,  \* bound: addresses a host name has
  None           \* no exit status yet

ASSUME ClientAssumption == MaxAddresses \in Nat \ {0} /\ None \notin Nat

VARIABLES
  program,  \* the program that a client is: "cpp" or "python"
  cpc,      \* where it is
  left,     \* addresses of the host that have not been tried
  fd,       \* socket_fd: none (-1), open, or stale: closed, and the number kept
  sockets,  \* sockets that the process has open
  peer,     \* external: what the server's end has done with the connection
  log,      \* the marks of the log that the script looks for
  status    \* exit status

clientVars == <<program, cpc, left, fd, sockets, peer, log, status>>

Disconnected == "Disconnected from server"
Response == "Server response:"
\* Exit statuses: return -1, sys.exit(1), and an uncaught exception in C++.
MINUS_ONE == 255
ONE == 1
ABORT == 134
-------------------------------------------------------------------------------
ClientInit ==
  /\ program = [c \in Clients |-> "cpp"]
  /\ cpc = [c \in Clients |-> "off"]
  /\ left = [c \in Clients |-> 0]
  /\ fd = [c \in Clients |-> "none"]
  /\ sockets = [c \in Clients |-> 0]
  /\ peer = [c \in Clients |-> "none"]
  /\ log = [c \in Clients |-> {}]
  /\ status = [c \in Clients |-> None]

\* A new process, with a log of its own.
Launch(c, p) ==
  /\ program' = [program EXCEPT ![c] = p]
  /\ cpc' = [cpc EXCEPT ![c] = "start"]
  /\ fd' = [fd EXCEPT ![c] = "none"]
  /\ sockets' = [sockets EXCEPT ![c] = 0]
  /\ peer' = [peer EXCEPT ![c] = "none"]
  /\ log' = [log EXCEPT ![c] = {}]
  /\ status' = [status EXCEPT ![c] = None]
  /\ UNCHANGED left

Goto(c, to) == cpc' = [cpc EXCEPT ![c] = to] /\ UNCHANGED <<program, log, status>>

\* The process ends; the kernel closes what it has open.
Exit(c, s, marks) ==
  /\ cpc' = [cpc EXCEPT ![c] = "exited"]
  /\ status' = [status EXCEPT ![c] = s]
  /\ log' = [log EXCEPT ![c] = @ \cup marks]
  /\ sockets' = [sockets EXCEPT ![c] = 0]
  /\ UNCHANGED <<program, left, fd, peer>>

Open(c) ==
  /\ fd' = [fd EXCEPT ![c] = "open"]
  /\ sockets' = [sockets EXCEPT ![c] = @ + 1]
NotOpen(c) == fd' = [fd EXCEPT ![c] = "none"] /\ UNCHANGED sockets
Pass(c, to) == Goto(c, to) /\ UNCHANGED <<left, fd, sockets, peer>>
NextAddress(c) == left' = [left EXCEPT ![c] = @ - 1] /\ Goto(c, "connect")
-------------------------------------------------------------------------------
(* client.cpp *)

\* connect_to_server(): getaddrinfo() finds addresses, or fails.
Resolve(c) ==
  /\ program[c] = "cpp" /\ cpc[c] = "start"
  /\ \/ /\ Goto(c, "connect")
        /\ \E n \in 1..MaxAddresses : left' = [left EXCEPT ![c] = n]
        /\ UNCHANGED <<fd, sockets, peer>>
     \/ Exit(c, MINUS_ONE, {})

Connected(c) ==
  /\ Goto(c, "send") /\ Open(c)
  /\ peer' = [peer EXCEPT ![c] = "waiting"]
  /\ UNCHANGED left

\* Mutant: the socket of an address that does not answer stays open.
TryAddressLeaky(c) ==
  /\ program[c] = "cpp" /\ cpc[c] = "connect" /\ left[c] > 0
  /\ \/ Connected(c)
     \/ NextAddress(c) /\ (NotOpen(c) \/ Open(c)) /\ UNCHANGED peer

\* One round of the loop: socket() and connect(); after a failure of either no
\* socket is left.
TryAddress(c) ==
  /\ program[c] = "cpp" /\ cpc[c] = "connect" /\ left[c] > 0
  /\ \/ Connected(c)
     \/ NextAddress(c) /\ NotOpen(c) /\ UNCHANGED peer

\* Mutant: the client starts again until it finds a server.
NoAddressLeftRetries(c) ==
  /\ program[c] = "cpp" /\ cpc[c] = "connect" /\ left[c] = 0
  /\ Pass(c, "start")

NoAddressLeft(c) ==
  /\ program[c] = "cpp" /\ cpc[c] = "connect" /\ left[c] = 0
  /\ Exit(c, MINUS_ONE, {})

\* Mutant: main() returns 0 after every disconnect().
LeaveWell(c, s) ==
  /\ fd' = [fd EXCEPT ![c] = "stale"] /\ sockets' = [sockets EXCEPT ![c] = @ - 1]
  /\ cpc' = [cpc EXCEPT ![c] = "return"]
  /\ status' = [status EXCEPT ![c] = 0]
  /\ log' = IF s = 0 THEN [log EXCEPT ![c] = @ \cup {Disconnected}] ELSE log
  /\ UNCHANGED <<program, left, peer>>

\* disconnect(), which keeps the number, and what main() returns; only success is
\* followed by the farewell.
Leave(c, s) ==
  /\ fd' = [fd EXCEPT ![c] = "stale"] /\ sockets' = [sockets EXCEPT ![c] = @ - 1]
  /\ cpc' = [cpc EXCEPT ![c] = "return"]
  /\ status' = [status EXCEPT ![c] = s]
  /\ log' = IF s = 0 THEN [log EXCEPT ![c] = @ \cup {Disconnected}] ELSE log
  /\ UNCHANGED <<program, left, peer>>

\* send() takes the whole request of at most 17 bytes, or fails.  buildRequest()
\* has not refused: the command line always asks for something (CommandLine).
Send(c) ==
  /\ program[c] = "cpp" /\ cpc[c] = "send"
  /\ IF peer[c] = "reset" THEN Leave(c, MINUS_ONE) ELSE Pass(c, "receive")

Answered(c) == peer[c] \in {"data", "part"}

Receive(c) ==
  /\ program[c] = "cpp" /\ cpc[c] = "receive" /\ peer[c] # "waiting"
  /\ IF Answered(c) THEN Pass(c, "parse") ELSE Leave(c, MINUS_ONE)

\* parseResponse(); a response that was cut may pass, be refused, or make
\* std::stof() throw (see Ssnp).
Parse(c) ==
  /\ program[c] = "cpp" /\ cpc[c] = "parse"
  /\ \/ Leave(c, 0)
     \/ peer[c] = "part" /\ (Leave(c, MINUS_ONE) \/ Exit(c, ABORT, {}))

\* ~Client closes the number once more, which names nothing any more.
DestroyClient(c) ==
  /\ cpc[c] = "return"
  /\ Exit(c, status[c], {})
-------------------------------------------------------------------------------
(* envSensorClient.py *)

\* Outside the try statement: nothing catches a failure, and nothing is logged.
PySocket(c) ==
  /\ program[c] = "python" /\ cpc[c] = "start"
  /\ \/ Goto(c, "connect") /\ Open(c) /\ UNCHANGED <<left, peer>>
     \/ Exit(c, ONE, {})

\* Every way out of the try statement goes through its finally clause.
PyExit(c, s, marks) == Exit(c, s, marks \cup {Disconnected})

PyConnect(c) ==
  /\ program[c] = "python" /\ cpc[c] = "connect"
  /\ \/ Goto(c, "send") /\ peer' = [peer EXCEPT ![c] = "waiting"] /\ UNCHANGED <<left, fd, sockets>>
     \/ PyExit(c, ONE, {})

PySend(c) ==
  /\ program[c] = "python" /\ cpc[c] = "send"
  /\ IF peer[c] = "reset" THEN PyExit(c, ONE, {}) ELSE Pass(c, "receive")

\* A server that closes without an answer is no failure here.
PyReceive(c) ==
  /\ program[c] = "python" /\ cpc[c] = "receive" /\ peer[c] # "waiting"
  /\ CASE Answered(c) -> PyExit(c, 0, {Response})
       [] peer[c] = "closed" -> PyExit(c, 0, {})
       [] peer[c] = "reset" -> PyExit(c, ONE, {})
-------------------------------------------------------------------------------
\* The server answers a request, in whole or in part, or closes; the connection
\* may be reset at any time, when the daemon ends for instance.
ServerEnds(c) ==
  /\ peer[c] = "waiting" /\ cpc[c] \in {"send", "receive"}
  /\ \E p \in {"reset"} \cup (IF cpc[c] = "receive" THEN {"data", "part", "closed"} ELSE {}) :
       peer' = [peer EXCEPT ![c] = p]
  /\ UNCHANGED <<program, cpc, left, fd, sockets, log, status>>

ClientStep(c) ==
  \/ Resolve(c) \/ TryAddress(c) \/ NoAddressLeft(c)
  \/ Send(c) \/ Receive(c) \/ Parse(c) \/ DestroyClient(c)
  \/ PySocket(c) \/ PyConnect(c) \/ PySend(c) \/ PyReceive(c)
-------------------------------------------------------------------------------
(* Properties *)

\* The variables of the clients keep their types.
ClientTypeOK ==
  /\ program \in [Clients -> {"cpp", "python"}]
  /\ cpc \in [Clients -> {"off", "start", "connect", "send", "receive", "parse", "return", "exited"}]
  /\ left \in [Clients -> 0..MaxAddresses]
  /\ fd \in [Clients -> {"none", "open", "stale"}]
  /\ sockets \in [Clients -> Nat]
  /\ peer \in [Clients -> {"none", "waiting", "data", "part", "closed", "reset"}]
  /\ log \in [Clients -> SUBSET {Disconnected, Response}]
  /\ status \in [Clients -> 0..255 \cup {None}]

\* While a client runs, socket_fd is the one socket it has: none is lost over an
\* address that failed, and the number that ~Client closes again is no other's.
OneSocket ==
  \A c \in Clients :
    cpc[c] \notin {"off", "exited"} => sockets[c] = IF fd[c] = "open" THEN 1 ELSE 0

\* What the status says of a client: one that was answered in full succeeds, and
\* one that succeeds was answered, but the Python client also succeeds when the
\* server closes without an answer.
ExitTells ==
  \A c \in Clients :
    cpc[c] = "exited" =>
      /\ peer[c] = "data" => status[c] = 0
      /\ status[c] = 0 => Answered(c) \/ (program[c] = "python" /\ peer[c] = "closed")
===============================================================================
