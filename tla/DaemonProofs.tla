----------------------------- MODULE DaemonProofs -----------------------------
(***************************************************************************)
(* Theorems about Daemon, for any processes and ports: TypeOK and          *)
(* SingleInstance, the mutual exclusion that the instance lock gives.      *)
(***************************************************************************)
EXTENDS Daemon, TLAPS

\* The inductive invariant is the conjunction: the lock is held by the one
\* process that works, and bus and ports are only touched with it.
IInv == TypeOK /\ SingleInstance

\* Nobody runs at first.
LEMMA InitIInv == Init => IInv
<1> SUFFICES ASSUME Init PROVE IInv
  OBVIOUS
<1> USE DaemonAssumption DEF Init
<1>1. TypeOK
  BY DEF TypeOK, Working
<1>2. SingleInstance
  BY DEF SingleInstance, Working
<1> QED
  BY <1>1, <1>2 DEF IInv

\* Every step of every process, and its death at any point, keeps it.
LEMMA NextIInv == IInv /\ [Next]_vars => IInv'
<1> SUFFICES ASSUME IInv, [Next]_vars PROVE IInv'
  OBVIOUS
<1> USE DaemonAssumption DEF IInv, TypeOK, Goto
<1>1. ASSUME NEW p \in Procs, Start(p) PROVE IInv'
  <2>1. TypeOK'
    BY <1>1 DEF Start, Working
  <2>2. SingleInstance'
    BY <1>1 DEF Start, SingleInstance, Working
  <2> QED
    BY <2>1, <2>2
<1>2. ASSUME NEW p \in Procs, ParseCommandLine(p) PROVE IInv'
  <2>1. TypeOK'
    BY <1>2 DEF ParseCommandLine, ReturnFrom, Working
  <2>2. SingleInstance'
    BY <1>2 DEF ParseCommandLine, ReturnFrom, SingleInstance, Working
  <2> QED
    BY <2>1, <2>2
<1>3. ASSUME NEW p \in Procs, AcquireInstanceLock(p) PROVE IInv'
  <2>1. TypeOK'
    BY <1>3 DEF AcquireInstanceLock, ReturnFrom, Working
  <2>2. SingleInstance'
    BY <1>3 DEF AcquireInstanceLock, ReturnFrom, SingleInstance, Working
  <2> QED
    BY <2>1, <2>2
<1>4. ASSUME NEW p \in Procs, InitSensor(p) PROVE IInv'
  <2>1. TypeOK'
    BY <1>4 DEF InitSensor, ReturnFrom, Working
  <2>2. SingleInstance'
    BY <1>4 DEF InitSensor, ReturnFrom, SingleInstance, Working
  <2> QED
    BY <2>1, <2>2
<1>5. ASSUME NEW p \in Procs, ConnectToPort(p) PROVE IInv'
  <2>1. TypeOK'
    BY <1>5 DEF ConnectToPort, ReturnFrom, Working
  <2>2. SingleInstance'
    BY <1>5 DEF ConnectToPort, ReturnFrom, SingleInstance, Working
  <2> QED
    BY <2>1, <2>2
<1>6. ASSUME NEW p \in Procs, Unwind(p) \/ Kill(p) PROVE IInv'
  <2>1. TypeOK'
    BY <1>6 DEF Unwind, Kill, Working
  <2>2. SingleInstance'
    BY <1>6 DEF Unwind, Kill, SingleInstance, Working
  <2> QED
    BY <2>1, <2>2
<1>7. ASSUME NEW p \in Procs, KernelClose(p) PROVE IInv'
  <2>1. TypeOK'
    BY <1>7 DEF KernelClose, Working
  <2>2. SingleInstance'
    BY <1>7 DEF KernelClose, SingleInstance, Working
  <2> QED
    BY <2>1, <2>2
<1>8. CASE UNCHANGED vars
  BY <1>8 DEF vars, SingleInstance, Working
<1> QED
  BY <1>1, <1>2, <1>3, <1>4, <1>5, <1>6, <1>7, <1>8 DEF Next, Startup, Ending

\* The variables keep their types, and a process past its command line has a port.
THEOREM DaemonTypeOK == Spec => []TypeOK
<1>1. IInv => TypeOK
  BY DEF IInv
<1> QED
  BY InitIInv, NextIInv, <1>1, PTL DEF Spec, SafeSpec

\* Only one instance works at a time, however many are started, killed and
\* started again (server.cpp, acquireInstanceLock()).
THEOREM DaemonSingleInstance == Spec => []SingleInstance
<1>1. IInv => SingleInstance
  BY DEF IInv
<1> QED
  BY InitIInv, NextIInv, <1>1, PTL DEF Spec, SafeSpec
===============================================================================
