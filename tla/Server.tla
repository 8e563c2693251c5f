-------------------------------- MODULE Server --------------------------------
(***************************************************************************)
(* The running daemon: the accept loop of src/server.cpp, the worker pool  *)
(* that runs handleClientCallback() on each accepted descriptor, the       *)
(* socket calls of src/my_socket_lib.cpp, and the clients at the other end *)
(* of the connections.                                                     *)
(*                                                                         *)
(* The pool and the sensor cache are the abstract components TaskPool and  *)
(* SampleCache; ThreadPool and SensorManager are shown to implement them.  *)
(* A connection is named by its client; a request is the set of fields it  *)
(* asks for, and any other text is Malformed, a piece of a request as well *)
(* (Ssnp: NoPartialRequest).                                               *)
(* The behaviours start when the pool's constructor has returned.          *)
(***************************************************************************)
EXTENDS Integers, Sequences, FiniteSets

CONSTANTS
  Clients,    \* the clients; each connects at most once
  Workers,    \* the pool's threads
  Fds,        \* the descriptors left for connections (RLIMIT_NOFILE)
  Backlog,    \* maxnpending
  Requests,   \* the well-formed requests that are sent
  Malformed,  \* any other request
  None, Invalid, Pending,
  MaxSample   \* bound: samples in one behaviour

\* What a client can be sent.
Replies == [fields : Requests, sample : 0..MaxSample]

ASSUME ServerAssumption ==
  /\ Fds \subseteq Nat \ {0}
  /\ Backlog \in Nat
  /\ None \notin Clients \cup Fds \cup Requests \cup {Malformed} \cup Replies
  /\ Malformed \notin Requests
  /\ MaxSample \in Nat
  /\ {Invalid, Pending} \cap Nat = {} /\ Invalid # Pending

VARIABLES
  up,         \* the process runs
  backlog,    \* the kernel's queue of established connections
  fdTable,    \* the connection each descriptor refers to, or None
  accepted,   \* client_fd of the accept loop, or None while it waits in accept()
  queue, running,        \* the pool (TaskPool)
  pc,         \* where each worker is in handleClientCallback()
  request,    \* the request each worker is serving, or None
  cell, latest, answer,  \* the sensor cache (SampleCache)
  conn,       \* the server's end of each connection
  peer,       \* the client's end
  sent,       \* what the client has sent, or None
  unread,     \* how much of that is still to be received: "nothing", the "rest", or "all"
  reply,      \* what the server has sent, or None
  asOf,       \* history: the newest sample when the client sent its request
  outage      \* history: the cache has been invalid since then

poolVars == <<queue, running>>
cacheVars == <<cell, latest, answer>>
clientVars == <<peer, sent, unread, asOf, outage>>
vars == <<up, backlog, fdTable, accepted, poolVars, pc, request, cacheVars,
          conn, clientVars, reply>>

\* main() never leaves its loop: the pool is never stopped, its workers stay.
Pool == INSTANCE TaskPool WITH
  Tasks <- Fds, alive <- DOMAIN running, stopped <- ~TRUE, closed <- ~TRUE
Cache == INSTANCE SampleCache WITH Readers <- Workers, Samples <- 0..MaxSample

Free == {f \in Fds : fdTable[f] = None}
-------------------------------------------------------------------------------
Init ==
  /\ up = TRUE
  /\ backlog = <<>>
  /\ fdTable = [f \in Fds |-> None]
  /\ accepted = None
  /\ queue = <<>> /\ running = [w \in Workers |-> None]
  /\ pc = [w \in Workers |-> "idle"]
  /\ request = [w \in Workers |-> None]
  /\ cell = 0 /\ latest = 0 /\ answer = [w \in Workers |-> Invalid]
  /\ conn = [c \in Clients |-> "none"]
  /\ peer = [c \in Clients |-> "absent"]
  /\ sent = [c \in Clients |-> None]
  /\ unread = [c \in Clients |-> "nothing"]
  /\ reply = [c \in Clients |-> None]
  /\ asOf = [c \in Clients |-> 0]
  /\ outage = [c \in Clients |-> FALSE]
-------------------------------------------------------------------------------
(* Clients and the network *)

Connect(c) ==
  /\ peer[c] = "absent"
  /\ Len(backlog) < Backlog
  /\ peer' = [peer EXCEPT ![c] = "here"]
  /\ conn' = [conn EXCEPT ![c] = "pending"]
  /\ backlog' = Append(backlog, c)
  /\ UNCHANGED <<up, fdTable, accepted, poolVars, pc, request, cacheVars, sent, unread,
                 reply, asOf, outage>>

Send(c, m) ==
  /\ peer[c] = "here" /\ conn[c] # "closed" /\ sent[c] = None
  /\ sent' = [sent EXCEPT ![c] = m]
  /\ unread' = [unread EXCEPT ![c] = "all"]
  /\ asOf' = [asOf EXCEPT ![c] = latest]
  /\ outage' = [outage EXCEPT ![c] = cell = Invalid]
  /\ UNCHANGED <<up, backlog, fdTable, accepted, poolVars, pc, request, cacheVars, conn,
                 peer, reply>>

\* The client closes its end, or its system resets the connection, or both.
HangUp(c) ==
  /\ conn[c] # "closed"
  /\ \/ peer[c] = "here" /\ peer' \in {[peer EXCEPT ![c] = p] : p \in {"fin", "rst"}}
     \/ peer[c] = "fin" /\ peer' = [peer EXCEPT ![c] = "finrst"]
  /\ UNCHANGED <<up, backlog, fdTable, accepted, poolVars, pc, request, cacheVars, conn,
                 sent, unread, reply, asOf, outage>>
-------------------------------------------------------------------------------
(* The accept loop.  accept() takes the lowest free descriptor.  Without one *)
(* it fails with the connection still in the backlog, and the loop goes on.  *)

\* Mutant: the result of accept() is enqueued whatever it is.
AcceptUnchecked ==
  /\ accepted = None
  /\ backlog # <<>>
  /\ IF Free = {}
     THEN accepted' = -1 /\ UNCHANGED <<fdTable, backlog, conn>>
     ELSE \E f \in Free :
            /\ accepted' = f
            /\ fdTable' = [fdTable EXCEPT ![f] = Head(backlog)]
            /\ backlog' = Tail(backlog)
            /\ conn' = [conn EXCEPT ![Head(backlog)] = "open"]
  /\ UNCHANGED <<up, poolVars, pc, request, cacheVars, clientVars, reply>>

Accept ==
  /\ accepted = None
  /\ backlog # <<>>
  /\ \E f \in Free :
       /\ \A g \in Free : f <= g
       /\ accepted' = f
       /\ fdTable' = [fdTable EXCEPT ![f] = Head(backlog)]
       /\ backlog' = Tail(backlog)
       /\ conn' = [conn EXCEPT ![Head(backlog)] = "open"]
  /\ UNCHANGED <<up, poolVars, pc, request, cacheVars, clientVars, reply>>

Enqueue ==
  /\ accepted # None
  /\ Pool!Submit(accepted)
  /\ accepted' = None
  /\ UNCHANGED <<up, backlog, fdTable, pc, request, cacheVars, conn, clientVars, reply>>
-------------------------------------------------------------------------------
(* handleClientCallback(client_fd) in a worker of the pool *)

Peer(w) == fdTable[running[w]]   \* the connection behind client_fd
Step(w, from, to) == pc[w] = from /\ pc' = [pc EXCEPT ![w] = to]
Return(w) == Pool!Finish(w) /\ request' = [request EXCEPT ![w] = None]

Take(w) ==
  /\ Pool!Start(w)
  /\ Step(w, "idle", "recv")
  /\ UNCHANGED <<up, backlog, fdTable, accepted, request, cacheVars, conn, clientVars, reply>>

\* What one recv() may give of a text m, and what it leaves: the whole, or only the
\* first piece.  No beginning of a request is a request; one of another text can be.
Pieces(m) ==
  {[text |-> m, left |-> "nothing"]} \cup
  [text : {Malformed} \cup (IF m = Malformed THEN Requests ELSE {}), left : {"rest"}]

\* parseRequest() of the piece p, and how the handler goes on.
Parse(w, p) ==
  /\ IF p.text \in Requests
     THEN Step(w, "recv", "read") /\ request' = [request EXCEPT ![w] = p.text]
     ELSE Step(w, "recv", "close") /\ request' = request
  /\ unread' = [unread EXCEPT ![Peer(w)] = p.left]

\* The connection has ended: there is nothing to receive any more.
NoRequest(w) == Step(w, "recv", "close") /\ UNCHANGED <<request, unread>>

\* Mutant: recv() does not wait for the client.
ReceiveAtOnce(w) ==
  /\ pc[w] = "recv"
  /\ IF unread[Peer(w)] = "all"
     THEN \E p \in Pieces(sent[Peer(w)]) : Parse(w, p)
     ELSE NoRequest(w)
  /\ UNCHANGED <<up, backlog, fdTable, accepted, poolVars, cacheVars, conn, peer, sent, asOf,
                 outage, reply>>

\* receive_request() calls recv() once.  It waits for data or for the end of the
\* connection; what arrived before a reset is still delivered.
Receive(w) ==
  /\ pc[w] = "recv"
  /\ \/ unread[Peer(w)] = "all" /\ \E p \in Pieces(sent[Peer(w)]) : Parse(w, p)
     \/ unread[Peer(w)] # "all" /\ peer[Peer(w)] # "here" /\ NoRequest(w)
  /\ UNCHANGED <<up, backlog, fdTable, accepted, poolVars, cacheVars, conn, peer, sent, asOf,
                 outage, reply>>

\* Mutant: the answer to the worker's previous read() is used again.
ReadSensorOnce(w) ==
  /\ Step(w, "read", "answer")
  /\ IF answer[w] = Invalid THEN Cache!Ask(w) ELSE UNCHANGED cacheVars
  /\ UNCHANGED <<up, backlog, fdTable, accepted, poolVars, request, conn, clientVars, reply>>

ReadSensor(w) ==
  /\ Step(w, "read", "answer")
  /\ Cache!Ask(w)
  /\ UNCHANGED <<up, backlog, fdTable, accepted, poolVars, request, conn, clientVars, reply>>

\* Mutant: a failed sensor read returns without closing the connection.
SensorAnsweredLeak(w) ==
  /\ answer[w] # Pending
  /\ IF answer[w] = Invalid
     THEN Step(w, "answer", "idle") /\ Return(w)
     ELSE Step(w, "answer", "send") /\ UNCHANGED <<queue, running, request>>
  /\ UNCHANGED <<up, backlog, fdTable, accepted, cacheVars, conn, clientVars, reply>>

SensorAnswered(w) ==
  /\ answer[w] # Pending
  /\ Step(w, "answer", IF answer[w] = Invalid THEN "close" ELSE "send")
  /\ UNCHANGED <<up, backlog, fdTable, accepted, poolVars, request, cacheVars, conn, clientVars,
                 reply>>

\* buildResponse() and send_data().  The response fits the socket's buffer, so
\* send() takes all of it or fails.
Respond(w) ==
  /\ Step(w, "send", "close")
  /\ peer[Peer(w)] # "finrst"
  /\ reply' = IF peer[Peer(w)] = "rst" THEN reply
              ELSE [reply EXCEPT ![Peer(w)] = [fields |-> request[w], sample |-> answer[w]]]
  /\ UNCHANGED <<up, backlog, fdTable, accepted, poolVars, request, cacheVars, conn, clientVars>>

\* A send() to a connection that was closed and then reset raises SIGPIPE, which
\* the program neither handles nor blocks.
Killed(w) ==
  /\ pc[w] = "send" /\ peer[Peer(w)] = "finrst"
  /\ up' = FALSE
  /\ UNCHANGED <<backlog, fdTable, accepted, poolVars, pc, request, cacheVars, conn, clientVars,
                 reply>>

CloseFd(w) ==
  /\ fdTable' = [fdTable EXCEPT ![running[w]] = None]
  /\ conn' = [c \in Clients |-> IF c = Peer(w) THEN "closed" ELSE conn[c]]
  /\ UNCHANGED <<up, backlog, accepted, cacheVars, clientVars, reply>>

\* Mutant: an error branch closes without returning, and close() follows again.
CloseTwice(w) ==
  \/ Step(w, "close", "idle") /\ CloseFd(w) /\ Return(w)
  \/ Step(w, "close", "close") /\ request[w] = None /\ CloseFd(w) /\ UNCHANGED <<poolVars, request>>

\* close(client_fd), the last thing the handler does on every path.
Close(w) == Step(w, "close", "idle") /\ CloseFd(w) /\ Return(w)
-------------------------------------------------------------------------------
(* The sensor cache *)

others == <<up, backlog, fdTable, accepted, poolVars, pc, request, conn, peer, sent, unread,
            reply, asOf>>

Refresh == \E s \in latest .. MaxSample : Cache!Refresh(s) /\ UNCHANGED <<others, outage>>

Invalidate ==
  /\ Cache!Invalidate
  /\ outage' = [c \in Clients |-> TRUE]
  /\ UNCHANGED others

CacheAnswer(w) == Cache!Answer(w) /\ UNCHANGED <<others, outage>>
-------------------------------------------------------------------------------
ClientStep(c) == (\E m \in Requests \cup {Malformed} : Send(c, m)) \/ HangUp(c)
Acceptor == Accept \/ Enqueue
Handler(w) ==
  \/ Receive(w) \/ ReadSensor(w) \/ SensorAnswered(w) \/ Respond(w) \/ Killed(w)
  \/ Close(w) \/ CacheAnswer(w)

Running ==
  \/ \E c \in Clients : Connect(c) \/ ClientStep(c)
  \/ Acceptor
  \/ \E w \in Workers : Take(w) \/ Handler(w)
  \/ Refresh \/ Invalidate

Next == up /\ Running

SafeSpec == Init /\ [][Next]_vars

\* The process is scheduled, the pool and the cache keep their promises, and a
\* client that has connected sends something or goes away.  Nobody has to
\* connect, and the sensor owes nobody a sample.
Fairness ==
  /\ WF_vars(up /\ Acceptor)
  /\ WF_vars(up /\ \E w \in Workers : Take(w))
  /\ \A w \in Workers : WF_vars(up /\ Handler(w))
  /\ \A c \in Clients : WF_vars(up /\ sent[c] = None /\ peer[c] = "here" /\ ClientStep(c))

Spec == SafeSpec /\ Fairness
-------------------------------------------------------------------------------
(* Properties *)

\* The variables keep their types; a worker is in the handler exactly while the
\* pool has given it a descriptor, and no error code is taken for one.
TypeOK ==
  /\ up \in BOOLEAN
  /\ backlog \in Seq(Clients)
  /\ fdTable \in [Fds -> Clients \cup {None}]
  /\ accepted \in Fds \cup {None}
  /\ queue \in Seq(Fds)
  /\ running \in [Workers -> Fds \cup {None}]
  /\ pc \in [Workers -> {"idle", "recv", "read", "answer", "send", "close"}]
  /\ \A w \in Workers : running[w] = None <=> pc[w] = "idle"
  /\ request \in [Workers -> Requests \cup {None}]
  /\ cell \in 0..MaxSample \cup {Invalid}
  /\ latest \in 0..MaxSample
  /\ answer \in [Workers -> 0..MaxSample \cup {Invalid, Pending}]
  /\ conn \in [Clients -> {"none", "pending", "open", "closed"}]
  /\ peer \in [Clients -> {"absent", "here", "fin", "rst", "finrst"}]
  /\ sent \in [Clients -> Requests \cup {Malformed, None}]
  /\ unread \in [Clients -> {"nothing", "rest", "all"}]
  /\ reply \in [Clients -> Replies \cup {None}]
  /\ asOf \in [Clients -> 0..MaxSample]
  /\ outage \in [Clients -> BOOLEAN]

\* Every open descriptor is in the hands of one owner - the accept loop, the
\* pool's queue or one worker - and every descriptor somebody will still use is
\* open: none leaks, and none is closed twice, when its number may already
\* belong to another client.
FdOwned ==
  LET Queued == {queue[i] : i \in DOMAIN queue}
      Handled == {running[w] : w \in Workers} \ {None}
  IN /\ Fds \ Free = Queued \cup Handled \cup ({accepted} \ {None})
     /\ accepted \notin Queued \cup Handled
     /\ Queued \cap Handled = {}
     /\ \A i, j \in DOMAIN queue : queue[i] = queue[j] => i = j
     /\ \A v, w \in Workers : running[v] = running[w] /\ running[v] # None => v = w

\* A client is sent the fields it asked for, from a sample that was not already
\* superseded when it asked, although descriptors are reused at once and the
\* cache changes under the handler.  Only one that sent no request may get other
\* fields: those of a request that its text begins with.
RightReply ==
  \A c \in Clients : reply[c] # None =>
    /\ reply[c].fields = sent[c] \/ (sent[c] = Malformed /\ unread[c] = "rest")
    /\ reply[c].sample \in asOf[c]..latest

\* A client that is still there is turned away only for a text that is no request,
\* because the one recv() gave no more than a piece of its request, or because the
\* sensor has failed since it asked: never before it has sent anything, and never
\* with its whole request received and the cache valid throughout.
NoGroundlessRefusal ==
  \A c \in Clients :
    conn[c] = "closed" /\ reply[c] = None /\ peer[c] = "here" =>
      sent[c] = Malformed \/ (sent[c] \in Requests /\ (unread[c] = "rest" \/ outage[c]))

\* Every connection is accepted, served and closed, also when descriptors had
\* run out, as long as no client ties up a worker by staying silent.
Served ==
  \A c \in Clients : conn[c] = "pending" ~> (conn[c] = "closed" \/ ~up)
===============================================================================
