# EtherGuard in TLA+

Specifications, model-checking configurations and proofs for EtherGuard, a
layer-2 mesh VPN derived from wireguard-go. They are translated from the Go code
under `src/`; `PROJECT.json` maps every definition to its lines.

    tlc -workers 2 -config RouteTables.cfg MCRouteGraph      # a run
    tlapm RatelimiterProofs.tla                              # a proof module

## The system and its parts

*Edges* carry Ethernet frames for the hosts behind their tap device. They talk
to each other in Noise sessions as in WireGuard and forward frames for each
other along a next-hop table. In *super mode* a *supernode* collects latency
reports, calculates the table and distributes it with the list of peers and
parameters; in *P2P mode* each edge does this for itself; in *static mode* the
table is configured.

| part | code | modules |
|---|---|---|
| replay window of a keypair | `replay/` | `AntiReplayWindow` (what it promises), `ReplayFilter` (the ring), `ReplayFilterProofs` |
| handshakes, keypairs, index table | `device/noise-protocol.go`, `keypair.go`, `indextable.go` | `NoiseSession`, `NoiseSessionProofs`, `NoiseAgreementProofs`, `NoiseKeypairProofs` |
| staged packets, nonces, queues, timers, start and stop of a peer | `device/send.go`, `receive.go`, `timers.go`, `peer.go`, `channels.go`, `device.go` | `PeerQueues`, `PeerQueuesProofs` |
| limiter of handshakes under load | `ratelimiter/` | `Ratelimiter`, `RatelimiterProofs` |
| endpoints of a peer, failover IPv6 → IPv4 → FakeTCP | `device/peer.go` | `PeerEndpoint`, `PeerEndpointProofs` |
| finding the address of a peer | `device/peer.go`, `receivesendproc.go` | `PeerDiscovery` |
| FakeTCP connections and bind | `faketcp/`, `conn/bind_faketcp.go` | `FakeTCP` |
| shortest routes | `path/path.go` | `PathGraph` (operators), `FloydWarshall`, `ShortestWalks` (reference), `FloydWarshallProofs` |
| latency graph, recalculation, publication | `path/path.go`, `main_super.go`, `main_httpserver.go` | `RouteGraph` (on `PathGraph`) |
| distribution by the supernode | `main_super.go`, `main_httpserver.go`, `device/receivesendproc.go` | `SuperSync` |
| forwarding, broadcast, learning | `device/receive.go`, `send.go`, `receivesendproc.go` | `Forwarding` (on `PathGraph`) |

How they depend on each other: sessions (`NoiseSession`) make the keys whose
nonces `PeerQueues` hands out and whose receive side `ReplayFilter` protects;
`PeerQueues` leaves the sealed packet to `PeerEndpoint`, whose last resort is
`FakeTCP`; `PeerDiscovery` chooses the address `PeerEndpoint` is given;
`FloydWarshall` is one step of `RouteGraph`, whose published table is one of the
three kinds of state `SuperSync` distributes; `Forwarding` starts from the fact
that nodes then have different tables for a while. `RouteGraph`, `Forwarding`
and `FloydWarshall` share the operators of `PathGraph`, so the theorems about
the calculation are about the same definitions that the other two use.

Every `MC...` module gives constants for its component. Several instances of a
component share a run: a variable (`scenario`, `setting`, `load`) is chosen in
`Init` and never changes.

## Modules and code

**ReplayFilter.** `ring`, `last` are the fields of `Filter`; `seen` is the
history of accepted counters. Actions `ValidateCounter` and `Reset`. Refines
`AntiReplayWindow`, which only knows the highest counter and what was accepted.

**NoiseSession.** For each link (the `Peer` object a node has for another):
`hs` the handshake, `kps` the three keypair slots, and for each node the index
`table`. What the code does under one hold of `handshake.mutex` is one step; the
consume functions, which check under `RLock` and update under `Lock`, are two,
so workers, timers and senders interleave as in the program. Cryptography is
symbolic: a key is its transcript. The network keeps every packet for ever and
delivers it any number of times. Timestamps are in order of creation. `raced` is
history: the links on which two workers have consumed messages at the same time.

**PeerQueues.** One peer, seen from one side. Threads: `packet`
(RoutineSendPacket), a timer, a handshake worker, the sequential receiver; they
all run SendStagedPackets step by step. `sendNonce` is the counter of each key in
the order in which the keys were made. `outbound`, `inbound`, `crypting` are the
queues, `refs` the writers of the encryption queue, `caller` the calls of Up,
Down, RemovePeer and Close. Simplifications: one timer thread stands for all
timers of the peer, persistent keepalive is off, the fetch-and-add of a nonce is
part of taking a packet, SendBuffer returns, BindUpdate is atomic, queues (1024) are
never full except the staged one. So a sender that is stuck as in finding 1, or
FakeTCPBind.Close, which never returns, would block the calls in ways that are not part
of this module. RoutineSendPing is left out: what it would push
along must get along without it. `asked` is the state of the handshake, `last` what
became of the message that lastSentHandshake was set for.

**Ratelimiter.** `table` and a heap of `entries`; `worker` is a call of Allow
between its lookup and its return; the goroutine of Init is `gc` and `ticker`.
Tokens are time, as in the code. `excess` and `quiet` are history: how much more
than its rate an address was granted in the worst stretch of time that ends now,
and how long ago Allow last decided for it. What a worker that was overtaken
between lookup and use gives away is taken off `excess` (a new bucket in place of
another, a packet on a dropped entry): the code does grant it. A worker keeps the
time it read before the lock, so one that is late makes its entry with a time before
now.

**PeerEndpoint.** `mem` is what the peer's RWMutex protects; flags are atomics.
Senders, setter, receiver and the IPv6 recovery routine take the lock with Go's
rule that a waiting writer keeps new readers out. An address is its family.

**PeerDiscovery.** `tried` and `untried` are the try lists in the order in which
GetNextTry takes them, `byFamily` the maps of dual stack, `events` the length of
event_tryendpoint, `trying` the place of RoutineTryReceivedEndpoint, `bad` the names
that DNS does not resolve (any more). A first try is pinged and answered, or not,
before the next (`ConnNextTry`); later tries of an address are not pinged, and are
left to RoutineSendPing, which may come or not. TimeoutCheckInterval is at least
ConnNextTry. The channel has 2 places instead of 64, so that it does fill.

**FakeTCP.** Sockets with their state and queue, the map of registered tuples,
the bind with `b.mu`. All nodes use one port, so a pair of nodes has one tuple.
Nobody reads sequence numbers, so packets are flags and payload; queues are never
full; MaxUnackedLen is not reached. A timeout comes when nothing is under way, or
too early as one of the faults.

**FloydWarshall, PathGraph, ShortestWalks.** `Relaxed(t, k)` is one round of the
loop over `k`; the order in which Go iterates over a map is any order. The
reference is the minimum over all walks. Latencies are integers and Infinity is
a constant no sum of which reaches it.

**RouteGraph.** `records` are the links with current and old value and validity,
`nhTable` the table in use, `published` what edges download. A step is what a
goroutine does under one hold of `edgelock`, or one access to a field without lock: a
calculation finds out the neighbours of each vertex, and for each link enters the
weight, reads the latency and remembers it, in three steps; its pivots are one
step, since its tables are local. `late` is history: `"table"` when the table was made
of other latencies than those remembered when it was assigned, `"published"` when the
change of a table was not noticed or an older table was stored after a newer one.

**SuperSync.** Content is salted-hashed; `hash` is what an edge reports, `held`
what it has applied, `seen` what the supernode believes; messages are lost, delayed
and reordered, downloads fail before or after the supernode noted them, both sides
restart. An edge handles the pushes of its connections over IPv4 and IPv6 at the same
time. manage_superupdate writes the parameters before it takes the lock and hashes
them: `updating` are the calls in between. `unnamed`, `crossed` and `misnamed` are
history: an edge has stored a hash that does not name what was served with it, two
receivers of an edge have updated the same state, the last call that hashed is not the last
that wrote.

**Forwarding.** Every node has its own table, `l2fib` and duplicate filter; a
frame is an entry of `sent`, its copies are in the bag `wire`. Taking a frame in
and passing it on is one step. DupCheckTimeout (40 s) is longer than the life of
a frame. `mixed` marks frames sent on in place of others: the buffer of a
received element is returned to the pool while goroutines still read it.

## Runs

| run | what is checked | result |
|---|---|---|
| `replay_filter` | the ring tells the truth about every live block; it implements the abstract window | holds |
| `noise_handshakes` | index table exact; ends that share a key have opposite roles and the initiator sends to the index the responder has; no use before confirmation; one keypair per initiation, no key derived twice by a responder | holds; a link on which two workers have consumed messages at once may make a second keypair for an initiation |
| `floyd_warshall` | all graphs on 3 vertices: shortest, descending, clock offsets harmless | holds |
| `route_tables` | live and near-best routes, published, never a loop; converges | holds, with exceptions for deleted peers, racing handlers and links that change while they are read (findings) |
| `peer_endpoint` | UDP is given up last; nobody stuck on the peer lock | holds, with one exception (findings) |
| `super_sync` | hashes tell the truth; everybody synced in the end | holds, with four exceptions: an edge served between the two stores of a publication, the radius set to 0 (findings), two receivers of an edge at once, two calls of manage_superupdate at once |
| `forwarding` | no echo, exactly once under equal tables, frames end | holds |
| `peer_queues` | nonces unique, queue open for its writers, calls return, staged packets are sent or dropped without later traffic | holds, with one exception for the calls and one for the packets (findings) |
| `peer_discovery` | a peer that answers at an address that is listed or rumoured is found | holds without dual stack, unless the channel jams (findings) |
| `discovery_dual_stack` | the same with dual stack | **violated** |
| `fake_tcp` | Send and receive functions return; a one-way flow arrives | holds |
| `ratelimiter` | rate bounded, Allow returns, slow packets pass | holds, with one exception (findings) |

Each property also fails when a plausible bug is put into the code's model; the
definitions named `Mut...` are these bugs.

### Findings

1. `tryIPv6Send` takes the peer's write lock while its caller has the read lock
   (`device/peer.go:587`): IPv4 never takes over, the sender waits for itself.
2. `RemovePeer` waits for the receiver with `device.peers` locked, which the
   receiver needs to forward a frame (`device/device.go:175`).
3. With dual stack, on by default, the addresses the supernode lists are never
   tried (`device/peer.go:129`).
4. Two workers that make the same rate limiter entry may leave Allow and the
   garbage collection waiting for each other (`ratelimiter/ratelimiter.go:141`).
5. Deleting a peer leaves the routes over it (`path/path.go:134`, `166`).
6. Of two calculations at the same time the older may be the last to assign its
   table, and no later check repairs it (`path/path.go:152`).
7. Of two publications at the same time the older may be the last to be stored
   (`main_super.go:478`), and a change may be compared with a table that another
   calculation is replacing.
8. RoutineTryReceivedEndpoint waits for itself when `event_tryendpoint` fills while
   it sleeps (`device/receivesendproc.go:816`).
9. An answer to a handshake that fails suppresses initiations and sets no timer:
   packets staged meanwhile wait for later traffic (`device/send.go:144`).
10. The parameter hash made when a peer is added leaves out DampingFilterRadius
    (`main_super.go:354`): a later change of the radius to 0 is not noticed by it.

Other things the models reproduce, seen while translating: without dual stack
`udpFailed` is never cleared; two FakeTCP nodes that connect at the same time
swallow each other's SYN; sockets made by Send have no reader, so
answers on them are not received; `FakeTCPBind.Close` of an open bind waits for
acceptLoop for ever, and `BindUpdate` closes the bind before it is first opened, so
that Send always returns ErrClosed.

## Bounds

Instances are chosen so that the interesting cases happen in them.

* `replay_filter`: 3 blocks of 2 bits, counters to 11, twice the window: moves by
  less than, exactly and more than the ring.
* `noise_handshakes`: two nodes; 2+1 initiations that cross with one worker, or 2 with
  two workers each; 3 indices, so that freed indices come back at once. Symmetric in
  indices and workers (invariants only).
* `floyd_warshall`: every graph on 3 vertices over latencies −2, 1, 3, none, with
  and without an additional cost; 3 vertices make detours and negative cycles.
* `route_tables`: a direct link and a detour; latencies within, at and beyond the
  jitter tolerance; 3 reports in super mode, 2 in the others; `Slack` is the jitter.
  Calls interleave with time, cooldown and, everywhere, with changes between the
  reads of a calculation; in the racing setting two handlers take 2 reports of one
  link at the same time, which expires meanwhile, without cooldown.
* `peer_endpoint`: 2 senders with 2 packets each, 2 outages, one set, one roam;
  four configurations.
* `super_sync`: one kind of state at a time (they share only the messages); one
  connection that loses messages with 2 changes, or 1 and a restart (the table: 2 and
  a restart), or two connections with 2 changes of the table or 1 of the others; one push
  in flight on a connection.
* `forwarding`: 4 nodes in a chain, star, mesh or with two ways; the table changes once, one host
  may move, two frames where learning matters; TTL 3.
* `peer_queues`: staged queue of 1, keys of 2 nonces, 1 retry; eight scenarios each
  with a few things that happen together; what a scenario offers bounds the keys.
* `peer_discovery`: one or two peers, 3 good addresses, which may cease to be
  resolved, and one that never is, 2 messages, 1 or 2 moves, 2 places in the channel.
* `fake_tcp`: 2 nodes, 2 callers, 2 faults, 2 tries; `MaxSockets` is never the limit.
* `ratelimiter`: 2 workers, 2 addresses, 3 calls, 4 ticks with a collection time
  and bucket of 2.

Deadlock is not checked where the bounds or the end of all work stop a run, nor in
`peer_discovery`, where the jammed channel (finding 8) does stop the system.

## Fairness

* `RouteGraph`: a goroutine in a call goes on, the periodic TimeoutCheck comes
  again, the cooldown ends: they are loops with Sleep.
* `SuperSync`: periodic push and register (WF); a message sent again and again is
  received at last, and so is a download that is tried again and again (SF): loss
  is not for ever.
* `Forwarding`: what is on the wire is received or lost.
* `PeerQueues`: runnable goroutines run, calls go on, RekeyTimeout passes and the
  timers retransmitHandshake and zeroKeyMaterial fire (WF). Nothing is assumed about
  the other side, about further packets or about pings.
* `PeerDiscovery`: the routines are loops with Sleep, time passes, and a peer that is
  where a first try pings it answers. Nothing is assumed about RoutineSendPing.
* `FakeTCP`: weak fairness of all steps but faults together; all behaviours are
  finite within the bounds, so this means that the program goes on while it can.
* `Ratelimiter`: workers in a call and the garbage collection go on; Go's locks are
  not unfair for ever. Nothing is assumed about the clock or Close.

## Proofs

All theorems hold for every value of the constants that satisfies the named
ASSUME of the module.

* `ReplayFilterProofs` (`FilterAssumption`: at least one block of at least one
  bit). `RingFaithful` with the type is inductive: it says of every block that the
  ring stands for that exactly the accepted counters have their bit set, and nothing
  of slots that were not used yet, which the window clears when it reaches them.
  `FilterImplementsWindow`: the answer of the ring is that of the abstract window, so
  every call is a step of it. Facts about division and modulus are lemmas.
* `NoiseSessionProofs`. `TableExact`: the index table is exactly the live
  receivers, for any number of nodes, workers and messages. The invariant is
  inductive with the type, because it includes that no keypair is in two slots:
  otherwise freeing what falls out of one slot would cut off the other.
* `NoiseAgreementProofs`, on the invariant of `NoiseSessionProofs`. `SessionsMirror`
  and `KeysConfirmed` are about the two ends of a session, and the two ends never
  share a variable: `AInv` follows a key and the index chosen for it through all
  places where the pair is found (the responder's handshake, its worker, the message
  in the network, the initiator's worker and handshake, the keypairs) and says that a key
  has one index, that its roles are those of its transcript, and that the responder's
  ephemeral in it is one the responder has made, so the next one is in no key yet. It
  holds for any number of racing workers.
* `NoiseKeypairProofs`. `OneKeypairEach`, for any number of workers. Two workers that
  consume messages of one peer at the same time may both pass the check, and the
  theorem excepts the links on which this has happened (`raced`), and no others: other
  links of the same node, and the other end, keep what they have. `RaceInv` says of a
  link that was not raced that a handshake between two messages is owned by the one
  worker that is about to go on with it, so what the first half of a consume function
  has checked still holds in the second half; that an initiation being answered is later
  than all that were; and that every key of an initiator is backed by its responder.
  `KeyInv` holds on all links, raced or not: the transcript a
  responder is about to make a key of is the key of none of the keypairs it has made,
  so it never derives a key twice.
* `PeerEndpointProofs` (`EndpointAssumption`: types, and the goroutines are
  different). `UDPBeforeFakeTCP` and `LockIsLive` for any number of senders and any
  configuration. The invariant says for each goroutine which part of the lock it has
  and what is left of its call, and that a family a dual-stack sender has left behind
  had an outage. From the first part it follows that somebody can go on unless a
  sender waits for its own read lock. `FailoverNeverReturns` proves the other half of
  finding 1: such a sender never leaves tryIPv6Send.
* `PeerQueuesProofs` (`QueueAssumption`: types, a staged queue of at least one, and
  RejectAfterMessages at least 5 below the wrap-around of the counter; it is 2^13
  below it). `NInv` says that what is held, sealed or queued has a nonce below the
  counter of its key, and that a counter passes RejectAfterMessages by no more than
  the number of threads that have overdrawn it and not yet set it back: without this
  bound an induction could not exclude a counter that wraps around to used nonces.
  `NoncesUsedOnce` says that nonces in use are below the counter, `NoncesNeverReturn`
  that the counter does not go back below the limit. `LInv` is about Start and Stop:
  at most one caller is inside Stop, a timer that may send and a receiver that has not
  ended mean that the peer runs or that Stop waits for them, and then the peer's
  reference to the encryption queue is still there (`WritersFindQueueOpen`).
* `FloydWarshallProofs` (`PathAssumption`, `GraphAssumption`: only types). The
  invariant `Bounded` says that distances, corrected by any offsets that make all
  links positive, are not negative, so no `dist[i][i]` is (`ClocksHarmless`). `OneRetry`:
  the second attempt has no negative cycle. `NoLoops` and `PivotsSettle` use `RInv`:
  every entry of the table is a link followed by a shorter rest, and a pivot that was
  used shortens nothing any more; they assume `InRange`, sums below Infinity (99999 s).
* `RatelimiterProofs` (`RatelimiterAssumption`: 0 < packetCost < maxTokens ≤
  garbageCollectTime; in the code 50 ms, 250 ms, 1 s). `RateBounded` needs `Budget`:
  what an address has left in its bucket plus its excess is at most one bucket. It
  is kept by cleanup because a bucket that was idle for garbageCollectTime is full.
  `ServedSafely` needs that an entry is never younger than the last decision for its
  address, and that a worker about to wake the collector has made an entry.

Only model-checked: the invariants of `RouteGraph`, `SuperSync`, `Forwarding`,
`PeerDiscovery` and `FakeTCP`; all liveness, and that something is enabled (outside
the prover's reach, with fairness); that distances equal the minimum over all walks
(an induction over walks); the exceptions of the properties above.

## Not modelled

Cookies (`device/cookie.go`): their guarantees rest on MACs and secrets that age;
a refused message is a lost message for `NoiseSession`. Sockets and platform
variants in `conn/`, tap devices, UAPI, obfuscation, configuration files and their
generators, JSON, passwords and JWT: data, parsing or system calls around the
operations that are modelled. Byte layouts and checksums of packets. The locking
of the map of peers across several peers (`process_RequestPeerMsg` takes it twice)
and unsynchronised iteration over it: the hazards list says where. VPP and Windows
variants.
