------------------------------- MODULE FakeTCP -------------------------------
(***************************************************************************)
(* The FakeTCP transport: faketcp/socket.go and faketcp/stack.go, which    *)
(* imitate TCP connections over a TUN device, and conn/bind_faketcp.go,    *)
(* which sends the packets of a device over them.                          *)
(*                                                                         *)
(* Every node listens and connects with the same port, so that there is    *)
(* one address tuple for each pair of nodes.  Goroutines: the callers of   *)
(* Bind.Send, which connect when there is no socket yet and hold b.mu for  *)
(* reading meanwhile; packetReader; one goroutine for every connection     *)
(* that is accepted, which later becomes acceptLoop's handleSocket; the    *)
(* routines that receive from the bind; and Close.                         *)
(*                                                                         *)
(* Nothing reads sequence numbers, so packets are their flags and payload. *)
(* The queues (512 packets, 128 sockets, 1024 packets) are never full, and *)
(* no connection gets to MaxUnackedLen.  acceptLoop never ends: it stops   *)
(* when Stack.Close is called, and Close calls that after waiting for      *)
(* acceptLoop.  So the sockets of an open bind are not closed by it.       *)
(***************************************************************************)
EXTENDS Integers, Sequences, Bags, BagsExt

CONSTANTS
  Nodes,
  Senders,     \* goroutines that call Send
  RetryCount,
  MaxSockets,  \* bound on sockets ever made
  MaxCalls,    \* bound on calls of Send, by one goroutine
  Scenarios,   \* [from, to, calls, faults, close, update]: where each sender is and sends to, how
               \* often it calls Send, bounds on losses, failed writes and delays, the nodes that
               \* Close, and those opened by Device.BindUpdate
  Nil

ASSUME FakeTCPAssumption ==
  RetryCount \in Nat \ {0} /\ \A c \in Scenarios : \A s \in Senders : c.calls[s] \in 0..MaxCalls

VARIABLES
  scenario,     \* fixed
  bind,         \* of each node: [open, closed, sockets], stack # nil, b.closed and b.sockets
  registered,   \* stack.sockets of each node
  socks,        \* all sockets: [node, remote, state, closed, incoming, run, tries]
  reader,       \* the node whose SYN packetReader is about to accept
  acceptQueue,
  acceptor,     \* acceptLoop: Nil when not running, 0 in Accept, or the socket for which it waits for b.mu
  sender,       \* of each sender: [pc, sock, tries]
  closer,       \* of each node, where Close is
  recvQueue,
  receiving,    \* nodes whose receive functions have not returned ErrClosed
  got,          \* frames received by the device, of each node
  wire,         \* packets between the TUN devices
  good,         \* frames written to a connection that the other side has accepted, and not lost
  budget

vars == <<scenario, bind, registered, socks, reader, acceptQueue, acceptor, sender, closer, recvQueue,
          receiving, got, wire, good, budget>>

stack == <<registered, socks, reader, acceptQueue>>
app == <<recvQueue, receiving, got>>

Flags == {"SYN", "SYN|ACK", "ACK"}
Packet(n, m, flags, data) == [from |-> n, to |-> m, flags |-> flags, data |-> data]

NoSender == [pc |-> "idle", sock |-> Nil, tries |-> 0]

NewFakeTCPBind == [open |-> FALSE, closed |-> FALSE, sockets |-> [m \in Nodes |-> Nil]]

Init ==
  /\ scenario \in Scenarios
  /\ bind = [n \in Nodes |-> NewFakeTCPBind]
  /\ registered = [n \in Nodes |-> [m \in Nodes |-> Nil]]
  /\ socks = <<>> /\ reader = [n \in Nodes |-> Nil]
  /\ acceptQueue = [n \in Nodes |-> <<>>] /\ acceptor = [n \in Nodes |-> Nil]
  /\ sender = [s \in Senders |-> NoSender]
  /\ closer = [n \in Nodes |-> IF n \in scenario.update THEN "update" ELSE "no"]
  /\ recvQueue = [n \in Nodes |-> <<>>] /\ receiving = {} /\ got = [n \in Nodes |-> {}]
  /\ wire = EmptyBag /\ good = {}
  /\ budget = [calls |-> scenario.calls, faults |-> scenario.faults]

Fault == budget.faults > 0 /\ budget' = [budget EXCEPT !.faults = @ - 1]

\* Socket.sendPacket, without an error.
sendPacket(p) == wire' = BagAdd(wire, p) /\ UNCHANGED budget

(***************************************************************************)
(* b.mu: a writer that waits keeps new readers out, and does its work as   *)
(* soon as it has the lock.                                                *)
(***************************************************************************)

At(s) == scenario.from[s]
To(s) == scenario.to[s]

\* Mutant: the read lock is not released before the write lock is taken.
MutUpgrade(n) == \E s \in Senders : At(s) = n /\ sender[s].pc \in {"syn", "wait", "store", "send"}

RLocked(n) == \E s \in Senders : At(s) = n /\ sender[s].pc \in {"syn", "wait", "send"}

WriterWaits(n) ==
  \/ acceptor[n] \notin {Nil, 0}
  \/ closer[n] = "lock"
  \/ \E s \in Senders : At(s) = n /\ sender[s].pc = "store"

CanRLock(n) == ~WriterWaits(n)
CanLock(n) == ~RLocked(n)

(***************************************************************************)
(* Sockets.                                                                *)
(***************************************************************************)

newSocket(n, m, state, run) ==
  [node |-> n, remote |-> m, state |-> state, closed |-> FALSE, incoming |-> <<>>, run |-> run, tries |-> 0]

\* The socket is made and takes the place of another with the same addresses.
Register(n, m, state, run) ==
  /\ Len(socks) < MaxSockets
  /\ socks' = Append(socks, newSocket(n, m, state, run))
  /\ registered' = [registered EXCEPT ![n][m] = Len(socks) + 1]

\* What is registered for the addresses is removed, be it the socket that is
\* closed or another.
unregisterSocket(n, m) == registered' = [registered EXCEPT ![n][m] = Nil]

\* Socket.Close.
SocketClosed(i) ==
  /\ socks' = [socks EXCEPT ![i].state = "closed", ![i].closed = TRUE, ![i].run = "none"]
  /\ unregisterSocket(socks[i].node, socks[i].remote)

handleIncoming(i, p) ==
  socks' = IF socks[i].closed THEN socks ELSE [socks EXCEPT ![i].incoming = Append(@, p)]

\* The payload that Socket.Recv takes from the next packet.
Payload(i) == Head(socks[i].incoming).data

\* Nothing is under way between the nodes, nobody is about to send.
Quiet(n, m) ==
  /\ \A p \in BagToSet(wire) : {p.from, p.to} # {n, m}
  /\ reader[n] # m /\ reader[m] # n
  /\ \A i \in DOMAIN socks :
       {socks[i].node, socks[i].remote} = {n, m} /\ socks[i].run \in {"connect", "accept"} => socks[i].incoming = <<>>
  /\ \A s \in Senders : {At(s), To(s)} = {n, m} => sender[s].pc # "syn"

\* ConnTimeout (3 seconds) is longer than an answer takes, but for faults.
Timeout(n, m) == IF Quiet(n, m) THEN UNCHANGED budget ELSE Fault

(***************************************************************************)
(* Bind.Send, with Stack.Connect and Socket.Connect.                       *)
(***************************************************************************)

Go(s, pc, sock, tries) == sender' = [sender EXCEPT ![s] = [pc |-> pc, sock |-> sock, tries |-> tries]]
Return(s) == sender' = [sender EXCEPT ![s] = NoSender]

\* The socket of the remote address, or a new connection.
Send(s) ==
  LET n == At(s)
      sock == bind[n].sockets[To(s)]
  IN /\ sender[s].pc = "idle" /\ budget.calls[s] > 0
     /\ bind[n].open /\ CanRLock(n)
     /\ budget' = [budget EXCEPT !.calls[s] = @ - 1]
     /\ \/ bind[n].closed /\ UNCHANGED <<sender, stack>>
        \/ ~bind[n].closed /\ sock # Nil /\ Go(s, "send", sock, 0) /\ UNCHANGED stack
        \/ /\ ~bind[n].closed /\ sock = Nil
           /\ Register(n, To(s), "synsent", "connect")
           /\ Go(s, "syn", Len(socks) + 1, 0)
           /\ UNCHANGED <<reader, acceptQueue>>
     /\ UNCHANGED <<scenario, bind, acceptor, closer, app, wire, good>>

\* The loop of Socket.Connect: a SYN for every try, then the error.
SendSYN(s) ==
  LET i == sender[s].sock
      next == sender[s].tries + 1
  IN /\ sender[s].pc = "syn"
     /\ \/ /\ sender[s].tries < RetryCount
           /\ sendPacket(Packet(At(s), To(s), "SYN", Nil))
           /\ Go(s, "wait", i, sender[s].tries)
           /\ UNCHANGED <<registered, socks>>
        \/ /\ sender[s].tries < RetryCount /\ Fault
           /\ Go(s, "syn", i, next)
           /\ UNCHANGED <<registered, socks, wire>>
        \/ /\ sender[s].tries = RetryCount
           /\ socks' = [socks EXCEPT ![i].state = "closed", ![i].run = "none"]
           /\ unregisterSocket(At(s), To(s))
           /\ Return(s)
           /\ UNCHANGED <<wire, budget>>
     /\ UNCHANGED <<scenario, bind, reader, acceptQueue, acceptor, closer, app, good>>

\* Only a SYN|ACK is an answer, anything else costs a try.
SynSent(s) ==
  LET i == sender[s].sock
      p == Head(socks[i].incoming)
      rest == [socks EXCEPT ![i].incoming = Tail(@)]
      next == sender[s].tries + 1
  IN /\ sender[s].pc = "wait" /\ socks[i].incoming # <<>>
     /\ \/ /\ p.flags # "SYN|ACK"
           /\ socks' = rest /\ Go(s, "syn", i, next)
           /\ UNCHANGED <<wire, budget>>
        \/ /\ p.flags = "SYN|ACK" /\ Fault
           /\ socks' = rest /\ Go(s, "syn", i, next)
           /\ UNCHANGED wire
        \/ /\ p.flags = "SYN|ACK"
           /\ sendPacket(Packet(At(s), To(s), "ACK", Nil))
           /\ socks' = [rest EXCEPT ![i].state = "established", ![i].run = "none"]
           /\ Go(s, "store", i, 0)
     /\ UNCHANGED <<scenario, bind, registered, reader, acceptQueue, acceptor, closer, app, good>>

ConnectTimeout(s) ==
  LET i == sender[s].sock
  IN /\ sender[s].pc = "wait" /\ socks[i].incoming = <<>>
     /\ Timeout(At(s), To(s))
     /\ Go(s, "syn", i, sender[s].tries + 1)
     /\ UNCHANGED <<scenario, bind, stack, acceptor, closer, app, wire, good>>

\* The read lock is exchanged for the write lock and back.
Store(s) ==
  /\ sender[s].pc = "store" /\ CanLock(At(s))
  /\ bind' = [bind EXCEPT ![At(s)].sockets[To(s)] = sender[s].sock]
  /\ Go(s, "again", sender[s].sock, 0)
  /\ UNCHANGED <<scenario, stack, acceptor, closer, app, wire, good, budget>>

Again(s) ==
  /\ sender[s].pc = "again" /\ CanRLock(At(s))
  /\ Go(s, "send", sender[s].sock, 0)
  /\ UNCHANGED <<scenario, bind, stack, acceptor, closer, app, wire, good, budget>>

\* The connection of m with n is accepted.
Accepted(m, n) ==
  LET i == registered[m][n] IN i # Nil /\ socks[i].state = "established" /\ socks[i].run # "none"

Frame(s) == <<s, budget.calls[s]>>

\* Socket.Send.
SocketSend(s) ==
  LET i == sender[s].sock
      ok == socks[i].state = "established" /\ ~socks[i].closed
  IN /\ sender[s].pc = "send"
     /\ Return(s)
     /\ \/ ok /\ sendPacket(Packet(At(s), To(s), "ACK", Frame(s)))
              /\ good' = IF Accepted(To(s), At(s)) THEN good \cup {Frame(s)} ELSE good
        \/ ok /\ Fault /\ UNCHANGED <<wire, good>>
        \/ ~ok /\ UNCHANGED <<wire, good, budget>>
     /\ UNCHANGED <<scenario, bind, stack, acceptor, closer, app>>

(***************************************************************************)
(* Stack.packetReader and Stack.handlePacket.                              *)
(***************************************************************************)

\* Mutant: every SYN is taken for a new connection.
MutSYN(p) ==
  LET n == p.to
      i == registered[n][p.from]
      new == bind[n].open /\ p.flags = "SYN"
  IN /\ BagIn(p, wire) /\ reader[n] = Nil
     /\ wire' = BagRemove(wire, p)
     /\ reader' = IF new THEN [reader EXCEPT ![n] = p.from] ELSE reader
     /\ socks' = IF bind[n].open /\ i # Nil /\ ~new THEN [socks EXCEPT ![i].incoming = Append(@, p)] ELSE socks
     /\ UNCHANGED <<scenario, bind, registered, acceptQueue, acceptor, sender, closer, app, good, budget>>

\* Socket.handleIncoming for a known connection; a SYN for an unknown one is
\* accepted next; anything else is ignored.
handlePacket(p) ==
  LET n == p.to
      i == registered[n][p.from]
  IN /\ BagIn(p, wire) /\ reader[n] = Nil
     /\ wire' = BagRemove(wire, p)
     /\ \/ ~bind[n].open /\ UNCHANGED <<socks, reader>>
        \/ /\ bind[n].open /\ i # Nil
           /\ handleIncoming(i, p)
           /\ UNCHANGED reader
        \/ /\ bind[n].open /\ i = Nil
           /\ reader' = IF p.flags = "SYN" THEN [reader EXCEPT ![n] = p.from] ELSE reader
           /\ UNCHANGED socks
     /\ UNCHANGED <<scenario, bind, registered, acceptQueue, acceptor, sender, closer, app, good, budget>>

\* Socket.Accept answers the SYN, for the socket that was just registered.
AnswerSYN(n, m) ==
  Register(n, m, "synreceived", "accept") /\ sendPacket(Packet(n, m, "SYN|ACK", Nil))

\* The socket for the SYN is registered whatever has been registered since, and
\* its goroutine answers.  If that fails the socket is closed.
NewConnection(n) ==
  LET m == reader[n]
  IN /\ m # Nil
     /\ reader' = [reader EXCEPT ![n] = Nil]
     /\ \/ AnswerSYN(n, m)
        \/ /\ Fault
           /\ unregisterSocket(n, m)
           /\ UNCHANGED <<socks, wire>>
     /\ UNCHANGED <<scenario, bind, acceptQueue, acceptor, sender, closer, app, good>>

\* Mutant: one try too many.
MutTries(i, sock) ==
  IF socks[i].tries < RetryCount
  THEN socks' = [socks EXCEPT ![i] = [sock EXCEPT !.tries = @ + 1]] /\ UNCHANGED registered
  ELSE SocketClosed(i)

\* The next try of Socket.Accept; after the last one the socket is closed.
NextTry(i, sock) ==
  IF socks[i].tries + 1 < RetryCount
  THEN socks' = [socks EXCEPT ![i] = [sock EXCEPT !.tries = @ + 1]] /\ UNCHANGED registered
  ELSE SocketClosed(i)

\* Anything with an ACK completes the handshake, a frame included, which is lost.
SynReceived(i) ==
  LET p == Head(socks[i].incoming)
      sock == [socks[i] EXCEPT !.incoming = Tail(@)]
      n == socks[i].node
  IN /\ socks[i].run = "accept" /\ socks[i].incoming # <<>>
     /\ IF p.flags = "SYN"
        THEN NextTry(i, sock) /\ UNCHANGED acceptQueue
        ELSE /\ socks' = [socks EXCEPT ![i] = [sock EXCEPT !.state = "established", !.run = "queued"]]
             /\ acceptQueue' = [acceptQueue EXCEPT ![n] = Append(@, i)]
             /\ UNCHANGED registered
     /\ UNCHANGED <<scenario, bind, reader, acceptor, sender, closer, app, wire, good, budget>>

\* The SYN|ACK is sent again.
AcceptTimeout(i) ==
  LET n == socks[i].node
      m == socks[i].remote
  IN /\ socks[i].run = "accept" /\ socks[i].incoming = <<>>
     /\ Timeout(n, m)
     /\ NextTry(i, socks[i])
     /\ wire' = BagAdd(wire, Packet(n, m, "SYN|ACK", Nil))
     /\ UNCHANGED <<scenario, bind, reader, acceptQueue, acceptor, sender, closer, app, good>>

(***************************************************************************)
(* The rest of the bind.                                                   *)
(***************************************************************************)

\* BindUpdate closes a bind before it opens it, also the first time.
Open(n) ==
  /\ ~bind[n].open /\ closer[n] \in {"no", "done"}
  /\ bind' = [bind EXCEPT ![n].open = TRUE]
  /\ acceptor' = [acceptor EXCEPT ![n] = 0]
  /\ receiving' = receiving \cup {n}
  /\ UNCHANGED <<scenario, stack, sender, closer, recvQueue, got, wire, good, budget>>

\* acceptLoop takes a socket and waits for b.mu.
Accept(n) ==
  /\ acceptor[n] = 0 /\ acceptQueue[n] # <<>>
  /\ acceptor' = [acceptor EXCEPT ![n] = Head(acceptQueue[n])]
  /\ acceptQueue' = [acceptQueue EXCEPT ![n] = Tail(@)]
  /\ UNCHANGED <<scenario, bind, registered, socks, reader, sender, closer, app, wire, good, budget>>

\* It stores the socket and starts handleSocket.
acceptLoop(n) ==
  LET i == acceptor[n]
  IN /\ i \notin {Nil, 0} /\ CanLock(n)
     /\ bind' = [bind EXCEPT ![n].sockets[socks[i].remote] = i]
     /\ socks' = [socks EXCEPT ![i].run = "recv"]
     /\ acceptor' = [acceptor EXCEPT ![n] = 0]
     /\ UNCHANGED <<scenario, registered, reader, acceptQueue, sender, closer, app, wire, good, budget>>

\* handleSocket with Socket.Recv: packets without payload are skipped.  When
\* the bind is closed it ends after one frame or another.
handleSocket(i) ==
  LET data == Payload(i)
      n == socks[i].node
  IN /\ socks[i].run = "recv" /\ socks[i].incoming # <<>>
     /\ \/ /\ data = Nil
           /\ socks' = [socks EXCEPT ![i].incoming = Tail(@)]
           /\ UNCHANGED recvQueue
        \/ /\ data # Nil
           /\ socks' = [socks EXCEPT ![i].incoming = Tail(@)]
           /\ recvQueue' = [recvQueue EXCEPT ![n] = Append(@, data)]
        \/ /\ data # Nil /\ bind[n].closed
           /\ socks' = [socks EXCEPT ![i].incoming = Tail(@), ![i].run = "none"]
           /\ UNCHANGED recvQueue
     /\ UNCHANGED <<scenario, bind, registered, reader, acceptQueue, acceptor, sender, closer, receiving, got, wire,
                    good, budget>>

\* makeReceiveFunc: a packet, or ErrClosed.
Receive(n) ==
  /\ n \in receiving
  /\ \/ /\ recvQueue[n] # <<>>
        /\ got' = [got EXCEPT ![n] = @ \cup {Head(recvQueue[n])}]
        /\ recvQueue' = [recvQueue EXCEPT ![n] = Tail(@)]
        /\ UNCHANGED receiving
     \/ bind[n].closed /\ receiving' = receiving \ {n} /\ UNCHANGED <<got, recvQueue>>
  /\ UNCHANGED <<scenario, bind, stack, acceptor, sender, closer, wire, good, budget>>

\* Close is called, by BindUpdate or in the end.
CallClose(n) ==
  /\ \/ closer[n] = "update"
     \/ closer[n] \in {"no", "done"} /\ bind[n].open /\ n \in scenario.close /\ ~bind[n].closed
  /\ closer' = [closer EXCEPT ![n] = "lock"]
  /\ UNCHANGED <<scenario, bind, stack, acceptor, sender, app, wire, good, budget>>

\* closed is set and stopChan is closed.  Then it waits for acceptLoop.
Close(n) ==
  /\ closer[n] = "lock" /\ CanLock(n)
  /\ bind' = [bind EXCEPT ![n].closed = TRUE]
  /\ closer' = [closer EXCEPT ![n] = IF acceptor[n] = Nil THEN "done" ELSE "wait"]
  /\ UNCHANGED <<scenario, stack, acceptor, sender, app, wire, good, budget>>

\* The network loses a packet.
Lose(p) ==
  /\ BagIn(p, wire) /\ Fault
  /\ wire' = BagRemove(wire, p)
  /\ good' = good \ {p.data}
  /\ UNCHANGED <<scenario, bind, stack, acceptor, sender, closer, app>>

Steps ==
  \/ \E s \in Senders : SendSYN(s) \/ SynSent(s) \/ ConnectTimeout(s) \/ Store(s) \/ Again(s) \/ SocketSend(s)
  \/ \E p \in BagToSet(wire) : handlePacket(p)
  \/ \E i \in DOMAIN socks : SynReceived(i) \/ AcceptTimeout(i) \/ handleSocket(i)
  \/ \E n \in Nodes : NewConnection(n) \/ Accept(n) \/ acceptLoop(n) \/ Receive(n) \/ Close(n)

Next ==
  \/ \E s \in Senders : Send(s)
  \/ \E n \in Nodes : Open(n) \/ CallClose(n)
  \/ \E p \in BagToSet(wire) : Lose(p)
  \/ Steps

\* Goroutines run and packets that are not lost arrive.  Every behaviour within
\* the bounds is finite, so that this is fairness for each of them.
Spec == Init /\ [][Next]_vars /\ WF_vars(Steps)

(***************************************************************************)
(* Properties.                                                             *)
(***************************************************************************)

SocketIds == 1..Len(socks)

TypeOK ==
  /\ \A i \in SocketIds :
       /\ socks[i].node \in Nodes /\ socks[i].remote \in Nodes \ {socks[i].node}
       /\ socks[i].state \in {"synsent", "synreceived", "established", "closed"} /\ socks[i].closed \in BOOLEAN
       /\ socks[i].run \in {"connect", "accept", "queued", "recv", "none"}
       /\ socks[i].tries \in 0..(RetryCount - 1)
       /\ \A p \in {socks[i].incoming[k] : k \in DOMAIN socks[i].incoming} :
            p.from = socks[i].remote /\ p.to = socks[i].node /\ p.flags \in Flags
  /\ \A n, m \in Nodes : {registered[n][m], bind[n].sockets[m]} \subseteq
       {i \in SocketIds : socks[i].node = n /\ socks[i].remote = m} \cup {Nil}
  /\ \A n \in Nodes : acceptor[n] \in SocketIds \cup {Nil, 0} /\ reader[n] \in Nodes \cup {Nil}
  /\ \A s \in Senders : /\ sender[s].pc \in {"idle", "syn", "wait", "store", "again", "send"}
                        /\ sender[s].sock \in SocketIds \cup {Nil} /\ sender[s].tries \in 0..RetryCount

\* Every call of Send returns, although it connects with b.mu held for reading
\* and takes the lock again for writing while acceptLoop, Close and other calls
\* of Send want it; and once the bind is closed its receive functions return.
Returns ==
  /\ \A s \in Senders : sender[s].pc # "idle" ~> sender[s].pc = "idle"
  /\ \A n \in Nodes : bind[n].closed ~> n \notin receiving

OneWay == \A s, r \in Senders : At(s) = At(r)

\* When only one of two nodes sends, a frame written to a connection that the
\* other node has accepted is received there, whatever was lost, delayed or
\* sent twice before, and if two calls of Send have connected at once, unless
\* the frame itself is lost or the bind is closed.
Flows ==
  OneWay => \A s \in Senders : \A k \in 0..MaxCalls :
    <<s, k>> \in good ~> (<<s, k>> \in got[To(s)] \/ <<s, k>> \notin good \/ bind[To(s)].closed)
=============================================================================
