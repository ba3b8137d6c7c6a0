---------------------------- MODULE Forwarding ------------------------------
(***************************************************************************)
(* How the edges carry Ethernet frames and control messages to each other  *)
(* (RoutineReadFromTUN, RoutineSequentialReceiver and the senders of       *)
(* receivesendproc.go).                                                    *)
(*                                                                         *)
(* A frame goes to one node along the next hops, is broadcast along the    *)
(* routes from its source, or is spread to every peer, where duplicates    *)
(* are recognised by their content.  Every node looks routes up in its own *)
(* copy of the next-hop table, and a new table reaches the nodes one by    *)
(* one while frames are under way.  Which node a host is at is learned     *)
(* from the frames it sends.                                               *)
(*                                                                         *)
(* DupCheckTimeout is longer than the life of a frame, so that nothing is  *)
(* forgotten by the duplicate filter.  Receiving a frame and sending it on *)
(* is one step.                                                            *)
(***************************************************************************)
EXTENDS PathGraph, Bags

CONSTANTS
  Broadcast, Spread,  \* the special destinations
  Hosts,              \* MAC addresses
  Scenarios,          \* [old, new, peers, disableRelay, at, known, spread, frames]: the
                      \* tables, the configuration, where the hosts are, the hosts that
                      \* have been heard of, which nodes spread, and a bound on the frames
  DefaultTTL,
  MaxEvents           \* bound: losses, moves of hosts and timeouts of the L2FIB

VARIABLES
  scenario,  \* fixed
  table,     \* graph.nhTable of every node
  at,        \* the node each host is at
  l2fib,     \* where a node believes a host is
  sent,      \* the frames, in the order they were sent: [src, dst, host]
  wire,      \* the bag of copies under way: [id, ttl, from, to]
  checking,  \* copies whose receiver is inside CheckNoDup
  dupData,   \* contents a node has seen
  got,       \* per node, the bag of frames written to the tap or processed
  calm,      \* frames not lost, and sent and carried under one table
  mixed,     \* frames that were sent on in place of others
  raced,     \* <<node, id>>: two receivers were inside CheckNoDup together
  events

net == <<wire, checking, dupData, got, raced, mixed>>
vars == <<scenario, table, at, l2fib, sent, net, calm, events>>

Init ==
  /\ scenario \in Scenarios
  /\ table = [n \in Vertices |-> scenario.old]
  /\ at = scenario.at
  /\ l2fib = [n \in Vertices |-> [h \in Hosts |->
       IF h \in scenario.known /\ at[h] # n THEN at[h] ELSE None]]
  /\ sent = <<>> /\ wire = EmptyBag /\ checking = EmptyBag
  /\ dupData = [n \in Vertices |-> {}]
  /\ got = [n \in Vertices |-> EmptyBag]
  /\ calm = {} /\ mixed = {} /\ raced = {} /\ events = 0

Event == events < MaxEvents /\ events' = events + 1

(***************************************************************************)
(* Senders.                                                                *)
(***************************************************************************)

\* IG.Next, IG.GetBoardcastList and IG.GetBoardcastThroughList in node n's table.
NextHop(n, dst) == table[n][n][dst]

GetBoardcastList(n) == {table[n][n][d] : d \in Vertices} \ {None}

OnPath(t, n, u, v) ==
  LET p == Path(t, u, v) IN p[Len(p)] = v /\ \E i \in 1..Len(p) : p[i] = n

\* (Mutant: a broadcast is passed on to every neighbour but the last hop.)
MutGetBoardcastThroughList(n, in, src) == GetBoardcastList(n) \ {in, src}

GetBoardcastThroughList(n, in, src) ==
  {p \in GetBoardcastList(n) : p # in /\ OnPath(table[n], n, src, p)}

\* SendPacket to those of the nodes that are peers with an address.
Copies(n, id, ttl, to) ==
  SetToBag({[id |-> id, ttl |-> ttl, from |-> n, to |-> p] : p \in to \cap scenario.peers[n]})

\* A frame enters the network; a copy for a node that is no peer is lost.
Send(n, dst, host, to) ==
  /\ Len(sent) < scenario.frames
  /\ sent' = Append(sent, [src |-> n, dst |-> dst, host |-> host])
  /\ wire' = wire (+) Copies(n, Len(sent) + 1, DefaultTTL, to)
  /\ calm' = IF \A m \in Vertices : table[m] = table[n] THEN calm \cup {Len(sent) + 1} ELSE calm
  /\ UNCHANGED <<scenario, table, at, l2fib, checking, dupData, got, raced, mixed, events>>

\* RoutineReadFromTUN: a host sends to another, or to all.  An address that is
\* unknown is broadcast to.
Lookup(n, h) == IF l2fib[n][h] = None THEN Broadcast ELSE l2fib[n][h]

RoutineReadFromTUN(host, dst) ==
  LET n == at[host]
      d == IF dst = Broadcast THEN Broadcast ELSE Lookup(n, dst)
  IN Send(n, d, host, IF d = Broadcast THEN GetBoardcastList(n) ELSE {NextHop(n, d)})

\* A control message for all, known or not: the peers of node n are spread.
SpreadPacket(n) == n \in scenario.spread /\ Send(n, Spread, None, scenario.peers[n])

(***************************************************************************)
(* RoutineSequentialReceiver.                                              *)
(***************************************************************************)

\* The time to live is spent at the node that passes the frame on.
\* (Mutants: the time to live is spent but not looked at; it is not spent.)
MutSpent(n, c, to) ==
  IF n \in scenario.disableRelay THEN EmptyBag ELSE Copies(n, c.id, c.ttl - 1, to)

MutTransfer(n, c, to) ==
  IF n \in scenario.disableRelay \/ c.ttl = 0 THEN EmptyBag ELSE Copies(n, c.id, c.ttl, to)

Transfer(n, c, to) ==
  IF n \in scenario.disableRelay \/ c.ttl = 0 THEN EmptyBag
  ELSE Copies(n, c.id, c.ttl - 1, to)

\* A frame of a host shows where the host is.
Learn(n, f) == l2fib' = [l2fib EXCEPT ![n][f.host] = f.src]

Accept(n, id) == got' = [got EXCEPT ![n] = @ (+) SetToBag({id})]

\* A frame for this node, for another one, or for all.  The goroutine that
\* passes it on runs later, which is as if the frame had come later.
ReceiveNormal(c) ==
  LET n == c.to
      f == sent[c.id]
      forMe == f.dst \in {n, Broadcast}
      on == CASE f.dst = Broadcast -> GetBoardcastThroughList(n, c.from, f.src)
              [] f.dst = n -> {}
              [] OTHER -> {NextHop(n, f.dst)}
  IN /\ f.dst # Spread
     /\ wire' = (wire (-) SetToBag({c})) (+) Transfer(n, c, on)
     /\ IF forMe THEN Learn(n, f) /\ Accept(n, c.id) ELSE UNCHANGED <<l2fib, got>>
     /\ UNCHANGED <<scenario, table, at, sent, checking, dupData, calm, raced, mixed, events>>

\* A message that is spread.  CheckNoDup first looks the content up, ...
Busy(c) == \E x \in BagToSet(checking) : x.from = c.from /\ x.to = c.to

\* Another receiver of the node is inside CheckNoDup with the same content.
Checked(c) == \E x \in BagToSet(checking) : x.to = c.to /\ x.id = c.id

LoadDup(c) ==
  /\ sent[c.id].dst = Spread /\ c.to \notin scenario.disableRelay /\ ~Busy(c)
  /\ wire' = wire (-) SetToBag({c})
  /\ checking' = IF c.id \in dupData[c.to] THEN checking ELSE checking (+) SetToBag({c})
  /\ raced' = IF Checked(c) THEN raced \cup {<<c.to, c.id>>} ELSE raced
  /\ UNCHANGED <<scenario, table, at, l2fib, sent, dupData, got, calm, mixed, events>>

\* ... and then notes it.
Set(n, id) == dupData' = [dupData EXCEPT ![n] = @ \cup {id}]

\* (Mutant: the source is not left out of those it is passed on to.)
MutSetDup(c) ==
  /\ checking' = checking (-) SetToBag({c})
  /\ Set(c.to, c.id)
  /\ wire' = wire (+) Transfer(c.to, c, Vertices \ {c.from})
  /\ Accept(c.to, c.id)
  /\ UNCHANGED <<scenario, table, at, l2fib, sent, calm, raced, mixed, events>>

\* A new message is noted, passed on to the other peers and processed.
SetDup(c) ==
  LET n == c.to
  IN /\ checking' = checking (-) SetToBag({c})
     /\ Set(n, c.id)
     /\ wire' = wire (+) Transfer(n, c, Vertices \ {sent[c.id].src, c.from})
     /\ Accept(n, c.id)
     /\ UNCHANGED <<scenario, table, at, l2fib, sent, calm, raced, mixed, events>>

\* A node that does not relay processes every copy.
ProcessSpread(c) ==
  /\ sent[c.id].dst = Spread /\ c.to \in scenario.disableRelay
  /\ wire' = wire (-) SetToBag({c})
  /\ Accept(c.to, c.id)
  /\ UNCHANGED <<scenario, table, at, l2fib, sent, checking, dupData, calm, raced, mixed, events>>

(***************************************************************************)
(* The surroundings.                                                       *)
(***************************************************************************)

\* UDP loses a copy.
Lose(c) ==
  /\ Event
  /\ wire' = wire (-) SetToBag({c})
  /\ calm' = calm \ {c.id}
  /\ UNCHANGED <<scenario, table, at, l2fib, sent, checking, dupData, got, raced, mixed>>

\* A copy that is passed on is read by a goroutine, when the receiver may have
\* given the buffer back and another frame may have been received into it.
Overwrite(c, x) ==
  /\ Event
  /\ c.from # sent[c.id].src /\ x.to = c.from /\ x.id # c.id
  /\ wire' = (wire (-) SetToBag({c})) (+) SetToBag({[c EXCEPT !.id = x.id]})
  /\ calm' = calm \ {c.id, x.id}
  /\ mixed' = mixed \cup {x.id}
  /\ UNCHANGED <<scenario, table, at, l2fib, sent, checking, dupData, got, raced>>

\* SetNHTable: a node gets the new table.
SetNHTable(n) ==
  /\ table[n] # scenario.new
  /\ table' = [table EXCEPT ![n] = scenario.new]
  /\ calm' = {}
  /\ UNCHANGED <<scenario, at, l2fib, sent, net, events>>

\* A host moves to another node; RoutineClearL2FIB forgets a host.
Move(h, n) ==
  /\ Event /\ at[h] # n
  /\ at' = [at EXCEPT ![h] = n]
  /\ UNCHANGED <<scenario, table, l2fib, sent, net, calm>>

RoutineClearL2FIB(n, h) ==
  /\ Event /\ l2fib[n][h] # None
  /\ l2fib' = [l2fib EXCEPT ![n][h] = None]
  /\ UNCHANGED <<scenario, table, at, sent, net, calm>>

Receive ==
  \/ \E c \in BagToSet(wire) : ReceiveNormal(c) \/ LoadDup(c) \/ ProcessSpread(c)
  \/ \E c \in BagToSet(checking) : SetDup(c)

Next ==
  \/ \E host \in DOMAIN at : \E dst \in (DOMAIN at \ {host}) \cup {Broadcast} : RoutineReadFromTUN(host, dst)
  \/ \E n \in Vertices : SpreadPacket(n) \/ SetNHTable(n)
  \/ Receive
  \/ \E c \in BagToSet(wire) : Lose(c) \/ \E x \in BagToSet(wire) : Overwrite(c, x)
  \/ \E n \in Vertices, h \in DOMAIN at : Move(h, n) \/ RoutineClearL2FIB(n, h)

Spec == Init /\ [][Next]_vars
FairSpec == Spec /\ WF_vars(Receive)

(***************************************************************************)
(* Properties.                                                             *)
(***************************************************************************)

UnderWay == {c.id : c \in BagToSet(wire) \cup BagToSet(checking)}

TypeOK ==
  /\ \A h \in DOMAIN at : at[h] \in Vertices
  /\ l2fib \in [Vertices -> [Hosts -> Vertices \cup {None}]]
  /\ \A c \in BagToSet(wire) \cup BagToSet(checking) :
       c.id \in DOMAIN sent /\ c.ttl \in 0..DefaultTTL /\ c.to \in scenario.peers[c.from]
  /\ calm \subseteq DOMAIN sent

\* A node never gets its own frames back: none is written to its tap, none is
\* processed, and it never learns that one of its own hosts is at itself, which
\* would cut the host off.  This holds while the nodes have different tables,
\* and but for frames that were sent on in place of others.
NotEchoed ==
  \A n \in Vertices :
    /\ \A id \in BagToSet(got[n]) \ mixed : sent[id].src # n
    /\ \A h \in Hosts : l2fib[n][h] = n => \E id \in mixed : sent[id].src = n

\* The route of table t leads from u to v, within the time to live and over
\* nodes that relay.
Arrives(t, u, v) ==
  LET p == Path(t, u, v)
  IN /\ p[Len(p)] = v /\ Len(p) <= DefaultTTL + 2
     /\ \A i \in 1..(Len(p) - 1) : p[i + 1] \in scenario.peers[p[i]]
     /\ \A i \in 2..(Len(p) - 1) : p[i] \notin scenario.disableRelay

\* When all nodes have the same table and nothing is lost, a frame for one node
\* reaches this node once, and a broadcast reaches every node that has a route
\* from the source once: the nodes agree, each from its own place on the
\* routes, on who passes it on to whom.
\* A message that is spread is processed once by a node that relays, however
\* many peers pass it on, unless two receivers checked it at the same time.
ExactlyOnce ==
  /\ \A id \in calm \ UnderWay : \A n \in Vertices \ {sent[id].src} :
       sent[id].dst # Spread =>
         CopiesIn(id, got[n]) =
           IF sent[id].dst \in {n, Broadcast} /\ Arrives(table[n], sent[id].src, n) THEN 1 ELSE 0
  /\ \A n \in Vertices \ scenario.disableRelay : \A id \in DOMAIN sent :
       sent[id].dst = Spread /\ <<n, id>> \notin raced => CopiesIn(id, got[n]) <= 1

\* Every frame comes to an end, also one that the tables send in circles while
\* they change.
Ends == <>[](UnderWay = {})
=============================================================================
