-------------------------- MODULE MCPeerDiscovery ----------------------------
(***************************************************************************)
(* Instances of PeerDiscovery: lists of the supernode that replace each    *)
(* other, rumours of neighbours, peers that move and names that vanish.    *)
(* event_tryendpoint has two places, so that it may be full.               *)
(***************************************************************************)
EXTENDS PeerDiscovery

CONSTANTS p1, p2, local, public, old, unknown

Priorities == (local :> 2) @@ (public :> 1) @@ (old :> 1) @@ (unknown :> 3)
Nobody == [x \in {} |-> public]
Public == [x \in Peers |-> public]
Entry(c, urls) == [cred |-> c, urls |-> urls]

\* One peer that moves, with an old list and a new one.
Super ==
  [p2p |-> FALSE, dual |-> FALSE, static |-> Nobody, at |-> [x \in Peers |-> old],
   bad |-> {unknown}, failing |-> {old, public},
   lists |-> {p1 :> Entry(1, {old, unknown}), p1 :> Entry(2, {local, public})},
   rumours |-> {}, messages |-> 2, moves |-> 1]

\* Two peers, one of them static and listed with the key it has, or a new one.
TwoPeers ==
  [p2p |-> FALSE, dual |-> FALSE, static |-> (p2 :> local), at |-> Public,
   bad |-> {}, failing |-> {},
   lists |-> {(p1 :> Entry(1, {public})) @@ (p2 :> Entry(c, {public})) : c \in 0..1},
   rumours |-> {}, messages |-> 1, moves |-> 1]

\* A static peer that is heard of from another address and then moves on.
Static == [TwoPeers EXCEPT !.lists = {p2 :> Entry(0, {public})}, !.moves = 2]

\* Neighbours tell of one peer.
Rumours ==
  [p2p |-> TRUE, dual |-> FALSE, static |-> Nobody, at |-> Public, lists |-> {},
   bad |-> {unknown}, failing |-> {old, public},
   rumours |-> {<<p1, public>>, <<p1, old>>, <<p1, unknown>>}, messages |-> 2, moves |-> 1]

SingleStack == {Super, TwoPeers, Static, Rumours}

\* The supernode lists two addresses of one peer, and dual stack is enabled, as
\* it is by default.
DualStack ==
  {[p2p |-> FALSE, dual |-> TRUE, static |-> Nobody, at |-> Public,
    bad |-> {}, failing |-> {}, lists |-> {p1 :> Entry(1, {local, public}), p1 :> Entry(1, {public})},
    rumours |-> {}, messages |-> 2, moves |-> 0]}
=============================================================================
