------------------------------ MODULE ServerProofs ------------------------------
(***************************************************************************)
(* Proofs about Server, for any number of clients, workers and             *)
(* descriptors: types, the ownership of descriptors, and what clients are  *)
(* sent or refused.                                                        *)
(***************************************************************************)
EXTENDS Server, TLAPS

\* FdOwned, descriptor by descriptor.
Owned ==
  /\ \A f \in Fds : fdTable[f] # None <=>
       accepted = f \/ (\E i \in DOMAIN queue : queue[i] = f) \/ (\E w \in Workers : running[w] = f)
  /\ \A i \in DOMAIN queue : queue[i] # accepted
  /\ \A w \in Workers : running[w] # None =>
       running[w] # accepted /\ \A i \in DOMAIN queue : queue[i] # running[w]
  /\ \A i, j \in DOMAIN queue : queue[i] = queue[j] => i = j
  /\ \A v, w \in Workers : running[v] = running[w] /\ running[v] # None => v = w

\* A connection is behind at most one descriptor, and until then in the backlog.
Conns ==
  /\ \A f \in Fds : fdTable[f] # None => conn[fdTable[f]] = "open"
  /\ \A f, g \in Fds : fdTable[f] = fdTable[g] /\ fdTable[f] # None => f = g
  /\ \A i \in DOMAIN backlog : conn[backlog[i]] = "pending"
  /\ \A i, j \in DOMAIN backlog : backlog[i] = backlog[j] => i = j
  /\ \A c \in Clients : conn[c] = "none" <=> peer[c] = "absent"

\* A worker serves the request that its client sent, or one that the client's
\* text begins with.
Meant(c, r) == sent[c] = r \/ (sent[c] = Malformed /\ unread[c] = "rest")
Asked ==
  /\ \A w \in Workers : pc[w] \in {"read", "answer", "send"} =>
       request[w] \in Requests /\ Meant(Peer(w), request[w])
  /\ \A w \in Workers : answer[w] = Pending => pc[w] = "answer"
  /\ \A c \in Clients : unread[c] # "nothing" => sent[c] # None

\* The sample a worker was given was the newest at some time since its client
\* asked; if it was given none, the cache has been invalid since.
Fresh ==
  /\ cell \in {latest, Invalid}
  /\ \A c \in Clients : asOf[c] <= latest
  /\ \A c \in Clients : sent[c] # None /\ cell = Invalid => outage[c]
  /\ \A w \in Workers : pc[w] \in {"answer", "send"} /\ answer[w] # Pending =>
       IF answer[w] = Invalid THEN pc[w] = "answer" /\ outage[Peer(w)]
       ELSE answer[w] \in asOf[Peer(w)]..latest

\* A connection is about to be closed, or closed, for one of five reasons.
Settled(c) ==
  \/ reply[c] # None
  \/ peer[c] # "here"
  \/ sent[c] = Malformed
  \/ sent[c] \in Requests /\ (unread[c] = "rest" \/ outage[c])
Closing ==
  /\ \A w \in Workers : pc[w] = "close" => Settled(Peer(w))
  /\ \A c \in Clients : conn[c] = "closed" => Settled(c)

IInv == TypeOK /\ Owned /\ Conns /\ Asked /\ Fresh /\ RightReply /\ Closing

\* The strengthened invariant holds at the start.
LEMMA InitIInv ==
  ASSUME Init
  PROVE  IInv
<1> USE ServerAssumption DEF Init
<1>1. 0 \in 0..MaxSample
  OBVIOUS
<1>2. TypeOK
  BY <1>1 DEF TypeOK
<1>3. Owned
  BY DEF Owned
<1>4. Conns /\ Asked /\ Fresh
  BY <1>1 DEF Conns, Meant, Asked, Fresh
<1>5. RightReply /\ Closing
  BY DEF RightReply, Closing
<1> QED
  BY <1>2, <1>3, <1>4, <1>5 DEF IInv

\* The pointwise form says what FdOwned says.
LEMMA OwnedIsFdOwned ==
  ASSUME TypeOK, Owned
  PROVE  FdOwned
<1> DEFINE Queued == {queue[i] : i \in DOMAIN queue}
           Handled == {running[w] : w \in Workers} \ {None}
<1> USE ServerAssumption DEF TypeOK, Owned
<1>1. Queued \subseteq Fds /\ Handled \subseteq Fds
  OBVIOUS
<1>2. Fds \ Free = Queued \cup Handled \cup ({accepted} \ {None})
  <2>1. ASSUME NEW f \in Fds
        PROVE  fdTable[f] # None <=> f \in Queued \cup Handled \cup ({accepted} \ {None})
    <3>1. f \in Queued <=> \E i \in DOMAIN queue : queue[i] = f
      OBVIOUS
    <3>2. f \in Handled <=> \E w \in Workers : running[w] = f
      OBVIOUS
    <3> QED
      BY <3>1, <3>2
  <2>2. accepted # None => accepted \in Fds
    OBVIOUS
  <2> DEFINE Used == Queued \cup Handled \cup ({accepted} \ {None})
  <2>3. Used \subseteq Fds
    BY <1>1, <2>2
  <2>4. \A f \in Fds : f \in Fds \ Free <=> f \in Used
    BY <2>1 DEF Free
  <2> HIDE DEF Used
  <2>5. Fds \ Free = Used
    BY <2>3, <2>4
  <2> QED
    BY <2>5 DEF Used
<1>3. accepted \notin Queued \cup Handled /\ Queued \cap Handled = {}
  OBVIOUS
<1> QED
  BY <1>2, <1>3 DEF FdOwned

\* While a worker is in the handler its descriptor is open.
LEMMA PeerOpen ==
  ASSUME TypeOK, Owned, NEW w \in Workers, pc[w] # "idle"
  PROVE  running[w] \in Fds /\ Peer(w) \in Clients /\ fdTable[running[w]] # None
<1>1. running[w] \in Fds
  BY DEF TypeOK
<1>2. fdTable[running[w]] # None
  BY <1>1 DEF Owned
<1> QED
  BY <1>1, <1>2 DEF TypeOK, Peer

\* The steps of clients and of the network.
LEMMA ConnectIInv ==
  ASSUME IInv, NEW c \in Clients, Connect(c)
  PROVE  IInv'
<1> USE ServerAssumption DEF Connect, IInv, poolVars, cacheVars
<1>1. /\ backlog' \in Seq(Clients) /\ Len(backlog') = Len(backlog) + 1
      /\ backlog'[Len(backlog) + 1] = c
      /\ \A i \in 1..Len(backlog) : backlog'[i] = backlog[i]
  BY DEF TypeOK
<1>2. TypeOK'
  BY <1>1 DEF TypeOK
<1>3. Owned'
  BY DEF Owned
<1>4. conn[c] = "none"
  BY DEF Conns
<1>5. Conns'
  BY <1>1, <1>4 DEF Conns, TypeOK
<1>6. Asked' /\ Fresh' /\ RightReply'
  BY DEF Meant, Asked, Fresh, RightReply, Peer, TypeOK
<1>7. \A w \in Workers : pc[w] = "close" => Peer(w) # c
  BY <1>4, PeerOpen DEF Conns, Peer
<1>8. Closing'
  BY <1>4, <1>7, PeerOpen DEF Closing, Settled, Peer, TypeOK
<1> QED
  BY <1>2, <1>3, <1>5, <1>6, <1>8

\* A client sends its request.
LEMMA SendIInv ==
  ASSUME IInv, NEW c \in Clients, NEW m \in Requests \cup {Malformed}, Send(c, m)
  PROVE  IInv'
<1> USE ServerAssumption DEF Send, IInv, poolVars, cacheVars
<1>1. TypeOK'
  BY DEF TypeOK
<1>2. Owned' /\ Conns'
  BY DEF Owned, Conns
<1>3. reply[c] = None
  BY DEF RightReply, TypeOK, Replies
<1>4. \A w \in Workers : pc[w] \in {"read", "answer", "send", "close"} => Peer(w) # c
  BY <1>3, PeerOpen DEF Meant, Asked, Closing, Settled, Conns, Peer
<1>5. Asked'
  BY <1>4, PeerOpen DEF Meant, Asked, Peer, TypeOK
<1>6. Fresh'
  <2>1. cell' \in {latest', Invalid} /\ \A d \in Clients : asOf'[d] <= latest'
    BY DEF Fresh, TypeOK
  <2>2. \A d \in Clients : sent'[d] # None /\ cell' = Invalid => outage'[d]
    BY DEF Fresh, TypeOK
  <2>3. ASSUME NEW w \in Workers, pc[w] \in {"answer", "send"}
        PROVE  Peer(w)' = Peer(w) /\ asOf'[Peer(w)] = asOf[Peer(w)] /\ outage'[Peer(w)] = outage[Peer(w)]
    BY <1>4, <2>3, PeerOpen DEF Peer, TypeOK
  <2> QED
    BY <2>1, <2>2, <2>3 DEF Fresh
<1>7. RightReply'
  BY <1>3 DEF RightReply, TypeOK
<1>8. Closing'
  BY <1>3, <1>4, PeerOpen DEF Closing, Settled, Peer, TypeOK
<1> QED
  BY <1>1, <1>2, <1>5, <1>6, <1>7, <1>8

\* A client closes its connection, or resets it.
LEMMA HangUpIInv ==
  ASSUME IInv, NEW c \in Clients, HangUp(c)
  PROVE  IInv'
<1> USE ServerAssumption DEF HangUp, IInv, poolVars, cacheVars
<1>1. PICK p \in {"fin", "rst", "finrst"} : peer' = [peer EXCEPT ![c] = p] /\ peer[c] \in {"here", "fin"}
  OBVIOUS
<1>2. TypeOK'
  BY <1>1 DEF TypeOK
<1>3. Owned'
  BY DEF Owned
<1>4. Conns'
  BY <1>1 DEF Conns, TypeOK
<1>5. Asked' /\ Fresh' /\ RightReply'
  BY DEF Meant, Asked, Fresh, RightReply, Peer
<1>6. \A d \in Clients : Settled(d) => Settled(d)'
  BY <1>1 DEF Settled, TypeOK
<1>7. Closing'
  BY <1>6, PeerOpen DEF Closing, Peer
<1> QED
  BY <1>2, <1>3, <1>4, <1>5, <1>7

\* The accept loop.
LEMMA AcceptIInv ==
  ASSUME IInv, Accept
  PROVE  IInv'
<1> USE ServerAssumption DEF IInv, poolVars, cacheVars, clientVars
<1>1. PICK f \in Free :
        /\ accepted' = f
        /\ fdTable' = [fdTable EXCEPT ![f] = Head(backlog)]
        /\ backlog' = Tail(backlog)
        /\ conn' = [conn EXCEPT ![Head(backlog)] = "open"]
  BY DEF Accept
<1> DEFINE c == Head(backlog)
<1>2. /\ f \in Fds /\ fdTable[f] = None
      /\ accepted = None /\ backlog # <<>>
      /\ UNCHANGED <<up, queue, running, pc, request, cell, latest, answer,
                     peer, sent, unread, asOf, outage, reply>>
  BY <1>1 DEF Accept, Free
<1>3. /\ c \in Clients /\ c = backlog[1] /\ 1 \in DOMAIN backlog
      /\ backlog' \in Seq(Clients)
      /\ \A i \in DOMAIN backlog' : i + 1 \in DOMAIN backlog /\ i + 1 # 1 /\ backlog'[i] = backlog[i + 1]
  BY <1>1, <1>2 DEF TypeOK
<1> HIDE DEF c
<1>4. TypeOK'
  BY <1>1, <1>2, <1>3 DEF TypeOK, c
<1>5. f \notin {queue[i] : i \in DOMAIN queue} \cup {running[w] : w \in Workers} \cup {accepted}
  BY <1>2 DEF Owned
<1>6. \A g \in Fds : fdTable'[g] # None <=> fdTable[g] # None \/ g = f
  BY <1>1, <1>2, <1>3 DEF TypeOK, c
<1>7. Owned'
  <2>1. ASSUME NEW g \in Fds
        PROVE  fdTable'[g] # None <=>
                 \/ accepted' = g
                 \/ \E i \in DOMAIN queue' : queue'[i] = g
                 \/ \E w \in Workers : running'[w] = g
    BY <1>1, <1>2, <1>6 DEF Owned
  <2> QED
    BY <1>1, <1>2, <1>5, <2>1 DEF Owned
<1>8. conn[c] = "pending"
  BY <1>3 DEF Conns
<1>9. Conns'
  BY <1>1, <1>2, <1>3, <1>8 DEF Conns, TypeOK, c
<1>10. \A w \in Workers : pc[w] # "idle" => running[w] # f /\ Peer(w)' = Peer(w) /\ Peer(w) \in Clients
  BY <1>1, <1>2, PeerOpen DEF Peer, TypeOK
<1>11. Asked' /\ Fresh' /\ RightReply'
  BY <1>2, <1>10 DEF Meant, Asked, Fresh, RightReply
<1>12. \A d \in Clients : Settled(d)' = Settled(d)
  BY <1>2 DEF Settled
<1>13. Closing'
  BY <1>1, <1>2, <1>8, <1>10, <1>12 DEF Closing, TypeOK, c
<1> QED
  BY <1>4, <1>7, <1>9, <1>11, <1>13

\* The accept loop gives a descriptor to the pool.
LEMMA EnqueueIInv ==
  ASSUME IInv, Enqueue
  PROVE  IInv'
<1> USE ServerAssumption DEF IInv, clientVars, cacheVars
<1>1. /\ accepted # None /\ accepted' = None
      /\ queue' = Append(queue, accepted)
      /\ UNCHANGED <<up, backlog, fdTable, running, pc, request, cell, latest, answer,
                     conn, peer, sent, unread, asOf, outage, reply>>
  BY DEF Enqueue, Pool!Submit
<1>2. /\ queue' \in Seq(Fds) /\ Len(queue') = Len(queue) + 1 /\ Len(queue) \in Nat
      /\ DOMAIN queue' = 1 .. Len(queue) + 1 /\ DOMAIN queue = 1..Len(queue)
      /\ queue'[Len(queue) + 1] = accepted
      /\ \A i \in 1..Len(queue) : queue'[i] = queue[i]
  BY <1>1 DEF TypeOK
<1>3. TypeOK'
  BY <1>1, <1>2 DEF TypeOK
<1>4. Owned'
  <2>1. ASSUME NEW g \in Fds
        PROVE  (\E i \in DOMAIN queue' : queue'[i] = g) <=>
                 accepted = g \/ \E i \in DOMAIN queue : queue[i] = g
    BY <1>2
  <2>2. ASSUME NEW g \in Fds
        PROVE  fdTable'[g] # None <=>
                 \/ accepted' = g
                 \/ \E i \in DOMAIN queue' : queue'[i] = g
                 \/ \E w \in Workers : running'[w] = g
    BY <1>1, <2>1 DEF Owned
  <2>3. \A i \in DOMAIN queue' : queue'[i] # accepted'
    BY <1>1, <1>2 DEF TypeOK
  <2>4. \A i, j \in DOMAIN queue' : queue'[i] = queue'[j] => i = j
    BY <1>2 DEF Owned
  <2>5. \A w \in Workers : running'[w] # None =>
          running'[w] # accepted' /\ \A i \in DOMAIN queue' : queue'[i] # running'[w]
    BY <1>1, <1>2 DEF Owned
  <2>6. \A v, w \in Workers : running'[v] = running'[w] /\ running'[v] # None => v = w
    BY <1>1 DEF Owned
  <2> QED
    BY <2>2, <2>3, <2>4, <2>5, <2>6 DEF Owned
<1>5. Conns' /\ Asked' /\ Fresh' /\ RightReply' /\ Closing'
  BY <1>1 DEF Conns, Meant, Asked, Fresh, RightReply, Closing, Settled, Peer
<1> QED
  BY <1>3, <1>4, <1>5

\* The handler.
LEMMA TakeIInv ==
  ASSUME IInv, NEW w \in Workers, Take(w)
  PROVE  IInv'
<1> USE ServerAssumption DEF IInv, clientVars, cacheVars
<1>1. /\ running[w] = None /\ queue # <<>> /\ pc[w] = "idle"
      /\ running' = [running EXCEPT ![w] = Head(queue)]
      /\ queue' = Tail(queue)
      /\ pc' = [pc EXCEPT ![w] = "recv"]
      /\ UNCHANGED <<up, backlog, fdTable, accepted, request, cell, latest, answer,
                     conn, peer, sent, unread, asOf, outage, reply>>
  BY DEF Take, Pool!Start, Step
<1> DEFINE h == Head(queue)
<1>2. /\ h \in Fds /\ h = queue[1] /\ 1 \in DOMAIN queue
      /\ queue' \in Seq(Fds)
      /\ \A i \in DOMAIN queue' : i + 1 \in DOMAIN queue /\ i + 1 # 1 /\ queue'[i] = queue[i + 1]
      /\ \A i \in DOMAIN queue : i # 1 => i - 1 \in DOMAIN queue' /\ queue'[i - 1] = queue[i]
      /\ \A i \in DOMAIN queue' : i \in Int
  BY <1>1 DEF TypeOK
<1>3. running' = [running EXCEPT ![w] = h]
  BY <1>1
<1> HIDE DEF h
<1>4. running'[w] = h /\ \A v \in Workers : v # w => running'[v] = running[v]
  BY <1>3 DEF TypeOK
<1>5. TypeOK'
  BY <1>1, <1>2, <1>3 DEF TypeOK
<1>6. Owned'
  <2>1. ASSUME NEW g \in Fds
        PROVE  (\E i \in DOMAIN queue : queue[i] = g) <=>
                 g = h \/ \E i \in DOMAIN queue' : queue'[i] = g
    BY <1>2
  <2>2. ASSUME NEW g \in Fds
        PROVE  (\E v \in Workers : running'[v] = g) <=>
                 g = h \/ \E v \in Workers : running[v] = g
    BY <1>1, <1>4
  <2>3. ASSUME NEW g \in Fds
        PROVE  fdTable'[g] # None <=>
                 \/ accepted' = g
                 \/ \E i \in DOMAIN queue' : queue'[i] = g
                 \/ \E v \in Workers : running'[v] = g
    BY <1>1, <2>1, <2>2 DEF Owned
  <2>4. \A i \in DOMAIN queue' : queue'[i] # accepted' /\ queue'[i] # h
    BY <1>1, <1>2 DEF Owned
  <2>5. \A i, j \in DOMAIN queue' : queue'[i] = queue'[j] => i = j
    BY <1>2 DEF Owned
  <2>6. h # accepted /\ \A v \in Workers : running[v] # h
    BY <1>2 DEF Owned
  <2>7. \A v \in Workers : running'[v] # None =>
          running'[v] # accepted' /\ \A i \in DOMAIN queue' : queue'[i] # running'[v]
    BY <1>1, <1>2, <1>4, <2>4, <2>6 DEF Owned
  <2>8. \A u, v \in Workers : running'[u] = running'[v] /\ running'[u] # None => u = v
    BY <1>4, <2>6 DEF Owned
  <2> QED
    BY <2>3, <2>4, <2>5, <2>7, <2>8 DEF Owned
<1>7. \A v \in Workers : pc'[v] \in {"read", "answer", "send", "close"} =>
        v # w /\ pc'[v] = pc[v] /\ Peer(v)' = Peer(v)
  BY <1>1, <1>4 DEF Peer, TypeOK
<1>8. answer[w] # Pending
  BY <1>1 DEF Asked
<1>9. Conns' /\ RightReply'
  BY <1>1 DEF Conns, RightReply
<1>10. Asked'
  BY <1>1, <1>7, <1>8 DEF Meant, Asked, TypeOK
<1>11. Fresh'
  BY <1>1, <1>7 DEF Fresh
<1>12. \A c \in Clients : Settled(c)' = Settled(c)
  BY <1>1 DEF Settled
<1>13. Closing'
  BY <1>1, <1>7, <1>12, PeerOpen DEF Closing
<1> QED
  BY <1>5, <1>6, <1>9, <1>10, <1>11, <1>13

\* A handler receives the request, or the end of the connection.
LEMMA ReceiveIInv ==
  ASSUME IInv, NEW w \in Workers, Receive(w)
  PROVE  IInv'
<1> USE ServerAssumption DEF IInv, poolVars, cacheVars
<1> DEFINE c == Peer(w)
<1>1. c \in Clients /\ running[w] \in Fds
  BY PeerOpen DEF Receive
<1>2. /\ pc[w] = "recv"
      /\ UNCHANGED <<up, backlog, fdTable, accepted, queue, running, cell, latest, answer,
                     conn, peer, sent, asOf, outage, reply>>
  BY DEF Receive
<1>3. \/ /\ unread[c] = "all" /\ unread' = [unread EXCEPT ![c] = "nothing"]
         /\ sent[c] \in Requests
         /\ pc' = [pc EXCEPT ![w] = "read"]
         /\ request' = [request EXCEPT ![w] = sent[c]]
      \/ /\ unread[c] = "all" /\ unread' = [unread EXCEPT ![c] = "nothing"]
         /\ sent[c] \notin Requests
         /\ pc' = [pc EXCEPT ![w] = "close"]
         /\ request' = request
      \/ /\ unread[c] = "all" /\ unread' = [unread EXCEPT ![c] = "rest"]
         /\ \/ /\ pc' = [pc EXCEPT ![w] = "close"]
               /\ request' = request
            \/ /\ sent[c] = Malformed
               /\ pc' = [pc EXCEPT ![w] = "read"]
               /\ \E q \in Requests : request' = [request EXCEPT ![w] = q]
      \/ /\ peer[c] # "here" /\ unread' = unread
         /\ pc' = [pc EXCEPT ![w] = "close"]
         /\ request' = request
  <2>1. CASE unread[c] # "all" /\ peer[c] # "here" /\ NoRequest(w)
    BY <2>1 DEF NoRequest, Step
  <2>2. ASSUME unread[c] = "all", NEW piece \in Pieces(sent[c]), Parse(w, piece)
        PROVE  <1>3!1 \/ <1>3!2 \/ <1>3!3
    <3>1. CASE piece.text = sent[c] /\ piece.left = "nothing"
      BY <2>2, <3>1 DEF Parse, Step
    <3>2. CASE piece.left = "rest" /\ (piece.text = Malformed \/ (sent[c] = Malformed /\ piece.text \in Requests))
      BY <2>2, <3>2 DEF Parse, Step
    <3> QED
      BY <2>2, <3>1, <3>2 DEF Pieces
  <2> QED
    BY <2>1, <2>2 DEF Receive
<1>4. \A v \in Workers : Peer(v)' = Peer(v)
  BY <1>2 DEF Peer
<1> HIDE DEF c
<1>5. TypeOK'
  <2>1. /\ pc' \in [Workers -> {"idle", "recv", "read", "answer", "send", "close"}]
        /\ request' \in [Workers -> Requests \cup {None}]
        /\ unread' \in [Clients -> {"nothing", "rest", "all"}]
    <3>1. /\ pc \in [Workers -> {"idle", "recv", "read", "answer", "send", "close"}]
          /\ request \in [Workers -> Requests \cup {None}]
          /\ unread \in [Clients -> {"nothing", "rest", "all"}]
      BY DEF TypeOK
    <3>2. \E to \in {"read", "close"} : pc' = [pc EXCEPT ![w] = to]
      BY <1>3
    <3>3. request' = request \/ \E q \in Requests : request' = [request EXCEPT ![w] = q]
      BY <1>3
    <3>4. unread' = unread \/ \E l \in {"nothing", "rest"} : unread' = [unread EXCEPT ![c] = l]
      BY <1>3
    <3> QED
      BY <3>1, <3>2, <3>3, <3>4
  <2>2. \A v \in Workers : pc'[v] = "idle" <=> pc[v] = "idle"
    BY <1>2, <1>3 DEF TypeOK
  <2> QED
    BY <1>2, <2>1, <2>2 DEF TypeOK
<1>6. Owned' /\ Conns' /\ RightReply'
  <2>1. Owned'
    BY <1>2 DEF Owned
  <2>2. Conns'
    BY <1>2 DEF Conns
  <2>3. RightReply'
    BY <1>1, <1>2, <1>3 DEF RightReply, TypeOK
  <2> QED
    BY <2>1, <2>2, <2>3
<1>7. Asked'
  <2>1. ASSUME NEW v \in Workers, pc'[v] \in {"read", "answer", "send"}
        PROVE  request'[v] \in Requests /\ Meant(Peer(v), request[v])'
    <3>1. CASE v = w
      BY <1>1, <1>2, <1>3, <1>4, <2>1, <3>1 DEF TypeOK, Meant, c
    <3>2. CASE v # w
      BY <1>1, <1>2, <1>3, <1>4, <2>1, <3>2, PeerOpen DEF TypeOK, Meant, Asked
    <3> QED
      BY <3>1, <3>2
  <2>2. \A v \in Workers : answer'[v] = Pending => pc'[v] = "answer"
    BY <1>2, <1>3 DEF Asked, TypeOK
  <2>3. \A d \in Clients : unread'[d] # "nothing" => sent'[d] # None
    BY <1>1, <1>2, <1>3 DEF Asked, TypeOK
  <2> QED
    BY <2>1, <2>2, <2>3 DEF Meant, Asked
<1>8. Fresh'
  BY <1>2, <1>3, <1>4 DEF Fresh, TypeOK
<1>9. \A d \in Clients : Settled(d) => Settled(d)'
  BY <1>1, <1>2, <1>3 DEF Settled, TypeOK
<1>10. ASSUME pc'[w] = "close"
       PROVE  peer[c] # "here" \/ sent[c] = Malformed \/ (sent[c] \in Requests /\ unread'[c] = "rest")
  <2>1. DOMAIN pc = Workers /\ DOMAIN unread = Clients
    BY DEF TypeOK
  <2>2. unread[c] = "all" => sent[c] \in Requests \cup {Malformed}
    BY <1>1 DEF Asked, TypeOK
  <2> QED
    BY <1>1, <1>3, <1>10, <2>1, <2>2
<1>11. ASSUME NEW v \in Workers, pc'[v] = "close" PROVE Settled(Peer(v))'
  <2>1. CASE v = w
    BY <1>2, <1>4, <1>10, <1>11, <2>1 DEF c, Settled
  <2>2. CASE v # w
    <3>1. pc[v] = "close"
      BY <1>3, <1>11, <2>2 DEF TypeOK
    <3> QED
      BY <3>1, <1>4, <1>9, PeerOpen DEF Closing
  <2> QED
    BY <2>1, <2>2
<1>12. Closing'
  BY <1>2, <1>9, <1>11 DEF Closing
<1> QED
  BY <1>5, <1>6, <1>7, <1>8, <1>12

\* A handler asks the manager for its sample.
LEMMA ReadSensorIInv ==
  ASSUME IInv, NEW w \in Workers, ReadSensor(w)
  PROVE  IInv'
<1> USE ServerAssumption DEF IInv, poolVars, clientVars
<1>1. /\ pc[w] = "read" /\ pc' = [pc EXCEPT ![w] = "answer"]
      /\ answer' = [answer EXCEPT ![w] = Pending]
      /\ UNCHANGED <<up, backlog, fdTable, accepted, queue, running, request, cell, latest,
                     conn, peer, sent, unread, asOf, outage, reply>>
  BY DEF ReadSensor, Step, Cache!Ask
<1>2. TypeOK'
  BY <1>1 DEF TypeOK
<1>3. Owned' /\ Conns'
  BY <1>1 DEF Owned, Conns
<1>4. RightReply'
  BY <1>1 DEF RightReply
<1>5. \A v \in Workers : Peer(v)' = Peer(v)
  BY <1>1 DEF Peer
<1>6. Asked'
  BY <1>1, <1>5 DEF Meant, Asked, TypeOK
<1>7. Fresh'
  BY <1>1, <1>5 DEF Fresh, TypeOK
<1>8. \A d \in Clients : Settled(d)' = Settled(d)
  BY <1>1 DEF Settled
<1>9. \A v \in Workers : pc'[v] = "close" => pc[v] = "close"
  BY <1>1 DEF TypeOK
<1>10. Closing'
  BY <1>1, <1>5, <1>8, <1>9, PeerOpen DEF Closing
<1> QED
  BY <1>2, <1>3, <1>4, <1>6, <1>7, <1>10

\* A handler goes on as the answer of the manager says.
LEMMA SensorAnsweredIInv ==
  ASSUME IInv, NEW w \in Workers, SensorAnswered(w)
  PROVE  IInv'
<1> USE ServerAssumption DEF IInv, poolVars, clientVars, cacheVars
<1>1. /\ pc[w] = "answer" /\ answer[w] # Pending
      /\ pc' = [pc EXCEPT ![w] = IF answer[w] = Invalid THEN "close" ELSE "send"]
      /\ UNCHANGED <<up, backlog, fdTable, accepted, queue, running, request, cell, latest, answer,
                     conn, peer, sent, unread, asOf, outage, reply>>
  BY DEF SensorAnswered, Step
<1>2. TypeOK'
  BY <1>1 DEF TypeOK
<1>3. Owned' /\ Conns'
  BY <1>1 DEF Owned, Conns
<1>4. RightReply'
  BY <1>1 DEF RightReply
<1>5. \A v \in Workers : Peer(v)' = Peer(v)
  BY <1>1 DEF Peer
<1>6. Asked'
  BY <1>1, <1>5 DEF Meant, Asked, TypeOK
<1>7. Fresh'
  BY <1>1, <1>5 DEF Fresh, TypeOK
<1>8. \A d \in Clients : Settled(d)' = Settled(d)
  BY <1>1 DEF Settled
<1>9. answer[w] = Invalid => Settled(Peer(w))
  BY <1>1 DEF Fresh, Asked, Meant, Settled
<1>10. \A v \in Workers : pc'[v] = "close" => pc[v] = "close" \/ (v = w /\ answer[w] = Invalid)
  BY <1>1 DEF TypeOK
<1>11. Closing'
  BY <1>1, <1>5, <1>8, <1>9, <1>10, PeerOpen DEF Closing
<1> QED
  BY <1>2, <1>3, <1>4, <1>6, <1>7, <1>11

\* A handler sends its response.
LEMMA RespondIInv ==
  ASSUME IInv, NEW w \in Workers, Respond(w)
  PROVE  IInv'
<1> USE ServerAssumption DEF IInv, poolVars, clientVars, cacheVars
<1> DEFINE c == Peer(w)
           sample == answer[w]
           r == [fields |-> request[w], sample |-> answer[w]]
<1>1. /\ pc[w] = "send" /\ pc' = [pc EXCEPT ![w] = "close"]
      /\ peer[c] # "finrst"
      /\ reply' = IF peer[c] = "rst" THEN reply ELSE [reply EXCEPT ![c] = r]
      /\ UNCHANGED <<up, backlog, fdTable, accepted, queue, running, request, cell, latest, answer,
                     conn, peer, sent, unread, asOf, outage>>
  BY DEF Respond, Step
<1>2. c \in Clients
  BY <1>1, PeerOpen
<1>3. /\ request[w] \in Requests /\ Meant(c, request[w])
      /\ sample \in Nat /\ sample \in asOf[c]..latest /\ sample \in 0..MaxSample
  BY <1>1, <1>2 DEF Asked, Fresh, TypeOK
<1>4. r \in Replies /\ r # None /\ Meant(c, r.fields) /\ r.sample = sample
  BY <1>3 DEF Replies
<1>5. \A v \in Workers : Peer(v)' = Peer(v)
  BY <1>1 DEF Peer
<1> HIDE DEF c, r, sample
<1>6. TypeOK'
  BY <1>1, <1>2, <1>4 DEF TypeOK
<1>7. Owned' /\ Conns'
  BY <1>1 DEF Owned, Conns
<1>8. RightReply'
  <2> SUFFICES ASSUME NEW d \in Clients, reply'[d] # None
               PROVE  Meant(d, reply'[d].fields) /\ reply'[d].sample \in asOf[d]..latest
    BY <1>1 DEF RightReply, Meant
  <2>1. CASE reply'[d] = reply[d]
    BY <2>1 DEF RightReply, Meant
  <2>2. CASE d = c /\ reply'[d] = r
    BY <1>3, <1>4, <2>2
  <2> QED
    BY <1>1, <2>1, <2>2 DEF TypeOK
<1>9. Asked'
  BY <1>1, <1>5 DEF Meant, Asked, TypeOK
<1>10. Fresh'
  BY <1>1, <1>5 DEF Fresh, TypeOK
<1>11. \A d \in Clients : Settled(d) => Settled(d)'
  BY <1>1, <1>4 DEF Settled, TypeOK
<1>12. peer'[c] # "here" \/ reply'[c] # None
  <2>1. CASE peer[c] = "rst"
    BY <1>1, <2>1
  <2>2. CASE peer[c] # "rst"
    BY <1>1, <1>2, <1>4, <2>2 DEF TypeOK
  <2> QED
    BY <2>1, <2>2
<1>13. \A v \in Workers : pc'[v] = "close" => pc[v] = "close" \/ v = w
  BY <1>1 DEF TypeOK
<1>14. Closing'
  <2>1. ASSUME NEW v \in Workers, pc'[v] = "close" PROVE Settled(Peer(v))'
    <3>1. CASE v = w
      BY <1>5, <1>12, <3>1 DEF Settled, c
    <3>2. CASE v # w
      BY <1>5, <1>11, <1>13, <2>1, <3>2, PeerOpen DEF Closing
    <3> QED
      BY <3>1, <3>2
  <2> QED
    BY <1>1, <1>11, <2>1 DEF Closing
<1> QED
  BY <1>6, <1>7, <1>8, <1>9, <1>10, <1>14

\* SIGPIPE ends the process.
LEMMA KilledIInv ==
  ASSUME IInv, NEW w \in Workers, Killed(w)
  PROVE  IInv'
<1> USE DEF Killed, IInv, poolVars, clientVars, cacheVars
<1>1. TypeOK'
  BY DEF TypeOK
<1>2. Owned' /\ Conns'
  BY DEF Owned, Conns
<1>3. Asked' /\ Fresh'
  BY DEF Meant, Asked, Fresh, Peer
<1>4. RightReply' /\ Closing'
  BY DEF RightReply, Closing, Settled, Peer
<1> QED
  BY <1>1, <1>2, <1>3, <1>4

\* A handler closes its descriptor.
LEMMA CloseIInv ==
  ASSUME IInv, NEW w \in Workers, Close(w)
  PROVE  IInv'
<1> USE ServerAssumption DEF IInv, clientVars, cacheVars
<1> DEFINE c == Peer(w)
           f == running[w]
<1>1. /\ pc[w] = "close" /\ pc' = [pc EXCEPT ![w] = "idle"]
      /\ running' = [running EXCEPT ![w] = None]
      /\ request' = [request EXCEPT ![w] = None]
      /\ fdTable' = [fdTable EXCEPT ![f] = None]
      /\ conn' = [d \in Clients |-> IF d = c THEN "closed" ELSE conn[d]]
      /\ UNCHANGED <<up, backlog, accepted, queue, cell, latest, answer,
                     peer, sent, unread, asOf, outage, reply>>
  BY DEF Close, CloseFd, Return, Step, Pool!Finish
<1>2. f \in Fds /\ c \in Clients /\ fdTable[f] = c /\ f # None /\ fdTable[f] # None
  BY <1>1, PeerOpen DEF Peer
<1> HIDE DEF c, f
<1>3. TypeOK'
  BY <1>1, <1>2 DEF TypeOK
<1>4. /\ fdTable'[f] = None /\ \A g \in Fds : g # f => fdTable'[g] = fdTable[g]
      /\ running'[w] = None /\ \A v \in Workers : v # w => running'[v] = running[v]
      /\ running[w] = f
  BY <1>1, <1>2 DEF TypeOK, f
<1>5. Owned'
  <2>1. f # accepted /\ (\A i \in DOMAIN queue : queue[i] # f)
        /\ \A v \in Workers : v # w => running[v] # f
    BY <1>2, <1>4 DEF Owned
  <2>2. ASSUME NEW g \in Fds
        PROVE  (\E v \in Workers : running'[v] = g) <=> g # f /\ \E v \in Workers : running[v] = g
    BY <1>4, <2>1
  <2>3. ASSUME NEW g \in Fds
        PROVE  fdTable'[g] # None <=>
                 \/ accepted' = g
                 \/ \E i \in DOMAIN queue' : queue'[i] = g
                 \/ \E v \in Workers : running'[v] = g
    <3>1. CASE g = f
      BY <1>1, <1>4, <2>1, <2>2, <3>1
    <3>2. CASE g # f
      BY <1>1, <1>4, <2>2, <3>2 DEF Owned
    <3> QED
      BY <3>1, <3>2
  <2>4. /\ \A i \in DOMAIN queue' : queue'[i] # accepted'
        /\ \A i, j \in DOMAIN queue' : queue'[i] = queue'[j] => i = j
    BY <1>1 DEF Owned
  <2>5. \A v \in Workers : running'[v] # None =>
          running'[v] # accepted' /\ \A i \in DOMAIN queue' : queue'[i] # running'[v]
    BY <1>1, <1>4 DEF Owned
  <2>6. \A u, v \in Workers : running'[u] = running'[v] /\ running'[u] # None => u = v
    BY <1>4 DEF Owned
  <2> QED
    BY <2>3, <2>4, <2>5, <2>6 DEF Owned
<1>6. conn[c] = "open"
  BY <1>2 DEF Conns
<1>7. Conns'
  <2>1. \A g \in Fds : fdTable'[g] # None => fdTable'[g] = fdTable[g] /\ g # f /\ fdTable[g] # c
    BY <1>2, <1>4 DEF Conns
  <2>2. \A g \in Fds : fdTable'[g] # None => conn'[fdTable'[g]] = "open"
    BY <1>1, <2>1 DEF Conns, TypeOK
  <2>3. \A g, h \in Fds : fdTable'[g] = fdTable'[h] /\ fdTable'[g] # None => g = h
    BY <2>1 DEF Conns
  <2>4. \A i \in DOMAIN backlog' : conn'[backlog'[i]] = "pending"
    BY <1>1, <1>6 DEF Conns, TypeOK
  <2>5. \A i, j \in DOMAIN backlog' : backlog'[i] = backlog'[j] => i = j
    BY <1>1 DEF Conns
  <2>6. \A d \in Clients : conn'[d] = "none" <=> peer'[d] = "absent"
    BY <1>1, <1>2, <1>6 DEF Conns
  <2> QED
    BY <2>2, <2>3, <2>4, <2>5, <2>6 DEF Conns
<1>8. \A v \in Workers : pc'[v] # "idle" => v # w /\ pc'[v] = pc[v] /\ pc[v] # "idle"
  BY <1>1 DEF TypeOK
<1>9. \A v \in Workers : pc'[v] # "idle" => Peer(v)' = Peer(v) /\ Peer(v) \in Clients
  BY <1>2, <1>4, <1>8, PeerOpen DEF Owned, Peer
<1>10. Asked'
  <2>1. ASSUME NEW v \in Workers, pc'[v] \in {"read", "answer", "send"}
        PROVE  request'[v] \in Requests /\ Meant(Peer(v), request[v])'
    <3>1. v # w /\ pc'[v] = pc[v] /\ Peer(v)' = Peer(v) /\ request'[v] = request[v]
      BY <1>1, <1>8, <1>9, <2>1 DEF TypeOK
    <3> QED
      BY <1>1, <2>1, <3>1 DEF Asked, Meant
  <2>2. \A v \in Workers : answer'[v] = Pending => pc'[v] = "answer"
    BY <1>1 DEF Asked, TypeOK
  <2>3. \A d \in Clients : unread'[d] # "nothing" => sent'[d] # None
    BY <1>1 DEF Asked
  <2> QED
    BY <2>1, <2>2, <2>3 DEF Asked
<1>11. Fresh'
  BY <1>1, <1>8, <1>9 DEF Fresh
<1>12. RightReply'
  BY <1>1 DEF RightReply
<1>13. \A d \in Clients : Settled(d)' = Settled(d)
  BY <1>1 DEF Settled
<1>14. Settled(c)
  BY <1>1 DEF Closing, c
<1>15. Closing'
  BY <1>1, <1>8, <1>9, <1>13, <1>14 DEF Closing
<1> QED
  BY <1>3, <1>5, <1>7, <1>10, <1>11, <1>12, <1>15

\* The sensor cache.
LEMMA CacheAnswerIInv ==
  ASSUME IInv, NEW w \in Workers, CacheAnswer(w)
  PROVE  IInv'
<1> USE ServerAssumption DEF IInv, poolVars
<1>1. /\ answer[w] = Pending /\ answer' = [answer EXCEPT ![w] = cell]
      /\ UNCHANGED <<up, backlog, fdTable, accepted, queue, running, pc, request, cell, latest,
                     conn, peer, sent, unread, asOf, outage, reply>>
  BY DEF CacheAnswer, Cache!Answer, others
<1>2. TypeOK'
  BY <1>1 DEF TypeOK
<1>3. Owned' /\ Conns'
  BY <1>1 DEF Owned, Conns
<1>4. RightReply' /\ Closing'
  BY <1>1 DEF RightReply, Closing, Settled, Peer
<1>5. \A v \in Workers : Peer(v)' = Peer(v)
  BY <1>1 DEF Peer
<1>6. Asked'
  BY <1>1, <1>5 DEF Meant, Asked, TypeOK
<1>7. pc[w] = "answer" /\ Peer(w) \in Clients /\ sent[Peer(w)] # None
  BY <1>1, PeerOpen DEF Asked, Meant
<1>8. cell # Pending /\ (cell = Invalid => outage[Peer(w)])
      /\ (cell # Invalid => cell \in asOf[Peer(w)]..latest)
  <2>1. asOf[Peer(w)] \in Nat /\ latest \in Nat /\ asOf[Peer(w)] <= latest
    BY <1>7 DEF Fresh, TypeOK
  <2>2. cell # Invalid => cell = latest
    BY DEF Fresh
  <2>3. cell # Pending
    BY <2>1, <2>2
  <2>4. cell = Invalid => outage[Peer(w)]
    BY <1>7 DEF Fresh
  <2> QED
    BY <2>1, <2>2, <2>3, <2>4
<1>9. Fresh'
  <2>1. ASSUME NEW v \in Workers, pc'[v] \in {"answer", "send"}, answer'[v] # Pending
        PROVE  IF answer'[v] = Invalid THEN pc'[v] = "answer" /\ outage'[Peer(v)']
               ELSE answer'[v] \in asOf'[Peer(v)']..latest'
    <3>1. CASE v = w
      BY <1>1, <1>5, <1>7, <1>8, <3>1 DEF TypeOK
    <3>2. CASE v # w
      BY <1>1, <1>5, <2>1, <3>2 DEF TypeOK, Fresh
    <3> QED
      BY <3>1, <3>2
  <2>2. /\ cell' \in {latest', Invalid}
        /\ \A c \in Clients : asOf'[c] <= latest'
        /\ \A c \in Clients : sent'[c] # None /\ cell' = Invalid => outage'[c]
    BY <1>1 DEF Fresh
  <2> QED
    BY <2>1, <2>2 DEF Fresh
<1> QED
  BY <1>2, <1>3, <1>4, <1>6, <1>9

\* The manager stores a new sample.
LEMMA RefreshIInv ==
  ASSUME IInv, Refresh
  PROVE  IInv'
<1> USE ServerAssumption DEF IInv, poolVars
<1>1. PICK s \in latest .. MaxSample :
        /\ cell' = s /\ latest' = s
        /\ UNCHANGED <<up, backlog, fdTable, accepted, queue, running, pc, request, answer,
                       conn, peer, sent, unread, asOf, outage, reply>>
  BY DEF Refresh, Cache!Refresh, others
<1>2. s \in 0..MaxSample /\ s \in Nat /\ s # Invalid /\ latest <= s
  <2>1. latest \in Nat /\ s \in latest .. MaxSample
    BY DEF TypeOK
  <2>2. s \in Nat /\ s \in 0..MaxSample /\ latest <= s
    BY <2>1
  <2> QED
    BY <2>2
<1>3. TypeOK'
  BY <1>1, <1>2 DEF TypeOK
<1>4. Owned' /\ Conns'
  BY <1>1 DEF Owned, Conns
<1>5. Asked' /\ Closing'
  BY <1>1 DEF Meant, Asked, Closing, Settled, Peer
<1>6. \A c \in Clients : asOf[c] \in Nat
  BY DEF TypeOK
<1>7. \A c \in Clients : asOf[c]..latest \subseteq asOf[c]..s
  BY <1>2, <1>6 DEF TypeOK
<1>8. \A w \in Workers : pc[w] # "idle" => Peer(w) \in Clients /\ Peer(w)' = Peer(w)
  BY <1>1, PeerOpen DEF Peer
<1>9. Fresh'
  <2>1. ASSUME NEW v \in Workers, pc'[v] \in {"answer", "send"}, answer'[v] # Pending
        PROVE  IF answer'[v] = Invalid THEN pc'[v] = "answer" /\ outage'[Peer(v)']
               ELSE answer'[v] \in asOf'[Peer(v)']..latest'
    BY <1>1, <1>7, <1>8, <2>1 DEF Fresh
  <2>2. \A c \in Clients : asOf'[c] <= latest'
    BY <1>1, <1>2, <1>6 DEF Fresh, TypeOK
  <2>3. cell' = latest' /\ cell' # Invalid
    BY <1>1, <1>2
  <2> QED
    BY <2>1, <2>2, <2>3 DEF Fresh
<1>10. RightReply'
  BY <1>1, <1>7 DEF RightReply
<1> QED
  BY <1>3, <1>4, <1>5, <1>9, <1>10

\* The manager marks its sample as invalid.
LEMMA InvalidateIInv ==
  ASSUME IInv, Invalidate
  PROVE  IInv'
<1> USE ServerAssumption DEF IInv, poolVars
<1>1. /\ cell' = Invalid
      /\ outage' = [c \in Clients |-> TRUE]
      /\ UNCHANGED <<up, backlog, fdTable, accepted, queue, running, pc, request, latest, answer,
                     conn, peer, sent, unread, asOf, reply>>
  BY DEF Invalidate, Cache!Invalidate, others
<1>2. TypeOK'
  BY <1>1 DEF TypeOK
<1>3. Owned' /\ Conns'
  BY <1>1 DEF Owned, Conns
<1>4. Asked' /\ RightReply'
  BY <1>1 DEF Meant, Asked, RightReply, Peer
<1>5. \A w \in Workers : pc[w] # "idle" => Peer(w) \in Clients /\ Peer(w)' = Peer(w)
  BY <1>1, PeerOpen DEF Peer
<1>6. Fresh'
  BY <1>1, <1>5 DEF Fresh
<1>7. \A c \in Clients : Settled(c) => Settled(c)'
  BY <1>1 DEF Settled
<1>8. Closing'
  BY <1>1, <1>5, <1>7 DEF Closing
<1> QED
  BY <1>2, <1>3, <1>4, <1>6, <1>8

\* The strengthened invariant is inductive.
LEMMA NextIInv ==
  ASSUME IInv, [Next]_vars
  PROVE  IInv'
<1>1. CASE UNCHANGED vars
  <2> USE <1>1 DEF vars, IInv, poolVars, cacheVars, clientVars
  <2>1. TypeOK'
    BY DEF TypeOK
  <2>2. Owned' /\ Conns'
    BY DEF Owned, Conns
  <2>3. Asked' /\ Fresh'
    BY DEF Meant, Asked, Fresh, Peer
  <2>4. RightReply' /\ Closing'
    BY DEF RightReply, Closing, Settled, Peer
  <2> QED
    BY <2>1, <2>2, <2>3, <2>4
<1>2. CASE Running
  <2>1. ASSUME NEW c \in Clients, Connect(c) \/ ClientStep(c)
        PROVE  IInv'
    BY <2>1, ConnectIInv, SendIInv, HangUpIInv DEF ClientStep
  <2>2. CASE Acceptor
    BY <2>2, AcceptIInv, EnqueueIInv DEF Acceptor
  <2>3. ASSUME NEW w \in Workers, Take(w) \/ Handler(w)
        PROVE  IInv'
    BY <2>3, TakeIInv, ReceiveIInv, ReadSensorIInv, SensorAnsweredIInv, RespondIInv,
       KilledIInv, CloseIInv, CacheAnswerIInv DEF Handler
  <2>4. CASE Refresh \/ Invalidate
    BY <2>4, RefreshIInv, InvalidateIInv
  <2> QED
    BY <1>2, <2>1, <2>2, <2>3, <2>4 DEF Running
<1> QED
  BY <1>1, <1>2 DEF Next

\* Every reachable state of the server is in the invariant.
LEMMA SpecIInv == SafeSpec => []IInv
<1>1. Init => IInv
  BY InitIInv
<1>2. IInv /\ [Next]_vars => IInv'
  BY NextIInv
<1> QED
  BY <1>1, <1>2, PTL DEF SafeSpec

\* Every variable keeps its type, and a worker is in handleClientCallback()
\* exactly while the pool has given it a descriptor.
THEOREM ServerTypeOK == Spec => []TypeOK
<1>1. IInv => TypeOK
  BY DEF IInv
<1> QED
  BY <1>1, SpecIInv, PTL DEF Spec

\* No descriptor leaks between accept() and close(), and none is closed twice.
THEOREM ServerFdOwned == Spec => []FdOwned
<1>1. IInv => FdOwned
  BY OwnedIsFdOwned DEF IInv
<1> QED
  BY <1>1, SpecIInv, PTL DEF Spec

\* A client is sent the fields it asked for - if what it sent is no request, those of
\* a request that its text begins with - from a sample that was current at some time
\* between its request and the reply.
THEOREM ServerRightReply == Spec => []RightReply
<1>1. IInv => RightReply
  BY DEF IInv
<1> QED
  BY <1>1, SpecIInv, PTL DEF Spec

\* A waiting client is closed without a reply only for a malformed request, for one
\* of which recv() gave a piece (my_socket_lib.cpp, receive_request()), or because
\* the sensor has failed since it asked.
THEOREM ServerNoGroundlessRefusal == Spec => []NoGroundlessRefusal
<1>1. IInv => NoGroundlessRefusal
  BY DEF IInv, Closing, Settled, NoGroundlessRefusal
<1> QED
  BY <1>1, SpecIInv, PTL DEF Spec
===============================================================================
