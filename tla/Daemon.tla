-------------------------------- MODULE Daemon --------------------------------
(***************************************************************************)
(* The life of a daemon process: main() of src/server.cpp from its command *)
(* line to its accept loop, its exits and its death, and what it shares    *)
(* with other instances: the instance lock, the sensor's bus and the port. *)
(*                                                                         *)
(* main() returns only when it has failed to come up: its destructors run, *)
(* and the kernel closes what is left.  A daemon that serves ends by a     *)
(* signal and runs no destructor.  Either way the kernel closes the        *)
(* descriptors in ascending order: the lock, the bus, the socket.          *)
(***************************************************************************)
EXTENDS Integers, FiniteSets

CONSTANTS
  Procs,    \* the daemons that are started; one may be started again
  Ports,    \* the ports they are told to listen on
  None

ASSUME DaemonAssumption == None \notin Procs \cup Ports

VARIABLES
  pc,       \* where each process is
  port,     \* its config.port
  locker,   \* the process whose open file holds the flock, or None
  bus,      \* the processes that have the bus open
  bound,    \* the listening process of each port, or None
  status    \* the exit status of each process's latest life, or None

vars == <<pc, port, locker, bus, bound, status>>

\* The process has returned from acquireInstanceLock() with the lock and runs.
Working == {"sensor", "listen", "serving", "unwind"}

Goto(p, to) == pc' = [pc EXCEPT ![p] = to]

\* return s from main(): there are objects to destroy once the lock is taken.
ReturnFrom(p, s) ==
  /\ status' = [status EXCEPT ![p] = s]
  /\ Goto(p, IF pc[p] \in Working THEN "unwind" ELSE "closing")
-------------------------------------------------------------------------------
Init ==
  /\ pc = [p \in Procs |-> "off"]
  /\ port = [p \in Procs |-> None]
  /\ locker = None
  /\ bus = {}
  /\ bound = [n \in Ports |-> None]
  /\ status = [p \in Procs |-> None]

Start(p) ==
  /\ pc[p] = "off"
  /\ Goto(p, "parse")
  /\ status' = [status EXCEPT ![p] = None]
  /\ UNCHANGED <<port, locker, bus, bound>>

\* Mutant: there is no default port.
ParseNoDefault(p) ==
  /\ pc[p] = "parse"
  /\ Goto(p, "lock")
  /\ UNCHANGED <<port, locker, bus, bound, status>>

\* Usage errors, --help and --version end the process before it takes the lock.
ParseCommandLine(p) ==
  /\ pc[p] = "parse"
  /\ \/ \E n \in Ports : Goto(p, "lock") /\ port' = [port EXCEPT ![p] = n] /\ UNCHANGED status
     \/ \E s \in {-1, 0} : ReturnFrom(p, s) /\ UNCHANGED port
  /\ UNCHANGED <<locker, bus, bound>>

\* Mutant: the lock file is closed when acquireInstanceLock() returns.
AcquireAndDrop(p) ==
  /\ pc[p] = "lock"
  /\ IF locker = None THEN Goto(p, "sensor") /\ UNCHANGED status ELSE ReturnFrom(p, -1)
  /\ UNCHANGED <<port, locker, bus, bound>>

\* Mutant: flock() without LOCK_NB.
AcquireBlocking(p) ==
  /\ pc[p] = "lock"
  /\ locker = None
  /\ Goto(p, "sensor")
  /\ locker' = p
  /\ UNCHANGED <<port, bus, bound, status>>

\* open() and flock(LOCK_EX | LOCK_NB): either may fail for another reason, too.
AcquireInstanceLock(p) ==
  /\ pc[p] = "lock"
  /\ \/ locker = None /\ locker' = p /\ Goto(p, "sensor") /\ UNCHANGED status
     \/ ReturnFrom(p, -1) /\ UNCHANGED locker
  /\ UNCHANGED <<port, bus, bound>>

\* The sensor is initialised and the acquisition worker started, or not.
InitSensor(p) ==
  /\ pc[p] = "sensor"
  /\ \/ bus' = bus \cup {p} /\ Goto(p, "listen") /\ UNCHANGED status
     \/ bus' \in {bus, bus \cup {p}} /\ ReturnFrom(p, -1)
  /\ UNCHANGED <<port, locker, bound>>

\* socket(), bind() and listen(): each may fail, and does on a port in use.
ConnectToPort(p) ==
  /\ pc[p] = "listen"
  /\ \/ /\ bound[port[p]] = None
        /\ bound' = [bound EXCEPT ![port[p]] = p]
        /\ Goto(p, "serving")
        /\ UNCHANGED status
     \/ ReturnFrom(p, 1) /\ UNCHANGED bound
  /\ UNCHANGED <<port, locker, bus>>
-------------------------------------------------------------------------------
(* Exits *)

\* ~BME280SensorManager joins the worker; ~I2CBus leaves the bus to the kernel.
Unwind(p) ==
  /\ pc[p] = "unwind"
  /\ Goto(p, "closing")
  /\ UNCHANGED <<port, locker, bus, bound, status>>

\* A signal ends the process: SIGTERM, SIGINT and SIGPIPE are not handled.
Kill(p) ==
  /\ pc[p] \notin {"off", "closing"}
  /\ Goto(p, "closing")
  /\ UNCHANGED <<port, locker, bus, bound, status>>

\* The kernel closes the descriptors one by one and reaps the process.
KernelClose(p) ==
  /\ pc[p] = "closing"
  /\ IF locker = p THEN locker' = None /\ UNCHANGED <<bus, bound, pc>>
     ELSE IF p \in bus THEN bus' = bus \ {p} /\ UNCHANGED <<locker, bound, pc>>
     ELSE /\ bound' = [n \in Ports |-> IF bound[n] = p THEN None ELSE bound[n]]
          /\ Goto(p, "off")
          /\ UNCHANGED <<locker, bus>>
  /\ UNCHANGED <<port, status>>
-------------------------------------------------------------------------------
Startup(p) == ParseCommandLine(p) \/ AcquireInstanceLock(p) \/ InitSensor(p) \/ ConnectToPort(p)
Ending(p) == Unwind(p) \/ KernelClose(p)

Next == \E p \in Procs : Start(p) \/ Startup(p) \/ Ending(p) \/ Kill(p)

SafeSpec == Init /\ [][Next]_vars

\* A process that runs goes on; nobody is obliged to start one or to kill it.
Spec == SafeSpec /\ \A p \in Procs : WF_vars(Startup(p)) /\ WF_vars(Ending(p))
-------------------------------------------------------------------------------
(* Properties *)

\* The variables keep their types; a process past its command line has a port.
TypeOK ==
  /\ pc \in [Procs -> {"off", "parse", "lock", "closing"} \cup Working]
  /\ port \in [Procs -> Ports \cup {None}]
  /\ \A p \in Procs : pc[p] \in {"lock"} \cup Working => port[p] # None
  /\ locker \in Procs \cup {None}
  /\ bus \subseteq Procs
  /\ bound \in [Ports -> Procs \cup {None}]
  /\ status \in [Procs -> {None, -1, 0, 1}]

\* Only one instance of the daemon works at a time, from the moment it opens the
\* bus until it has stopped using it, whoever was killed when; the others have
\* left without touching the bus or a port.
SingleInstance ==
  \A p \in Procs :
    /\ pc[p] \in Working => locker = p
    /\ p \in bus \/ (\E n \in Ports : bound[n] = p) => pc[p] \in Working \cup {"closing"}

\* A daemon that is started soon serves or is gone again: it never waits for
\* another instance.
StartDecides == \A p \in Procs : pc[p] = "parse" ~> pc[p] \in {"serving", "off"}
===============================================================================
