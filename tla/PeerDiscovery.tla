--------------------------- MODULE PeerDiscovery -----------------------------
(***************************************************************************)
(* How a node finds the address of its peers: endpoint_trylist in          *)
(* device/peer.go and the routines around it in device/receivesendproc.go. *)
(*                                                                         *)
(* The supernode lists every peer with some addresses (process_UpdatePeer- *)
(* Msg), or, in P2P mode, neighbours tell theirs (process_BoardcastPeer-   *)
(* Msg).  RoutineTryReceivedEndpoint gives every peer that is not alive    *)
(* the address it has tried least recently, and pings it.  It is woken by  *)
(* the channel event_tryendpoint, which it also writes itself.             *)
(*                                                                         *)
(* A peer is at one address at a time and may move; an address may stop    *)
(* resolving.  The pings of a first try are answered within ConnNextTry,   *)
(* the time the routine sleeps between tries.                              *)
(***************************************************************************)
EXTENDS Integers, SequencesExt

CONSTANTS
  Peers,      \* the nodes that may become peers of this one
  Urls,       \* addresses
  Priority,   \* the number given with an address: low ones are tried first
  Receivers,  \* the sequential receivers that hear of peers
  Capacity,   \* of event_tryendpoint
  Scenarios,  \* [p2p, dual, static, at, bad, failing, lists, rumours, messages, moves]: the
              \* mode, whether dual stack is enabled, the addresses of peers configured as
              \* static, where peers are at first, the addresses that do not resolve at first
              \* and those that may stop to, what the supernode and neighbours may say, and
              \* bounds on messages and on moves, of peers and of addresses
  Nil

ASSUME DiscoveryAssumption ==
  /\ Priority \in [Urls -> Nat]
  /\ Capacity \in Nat \ {0}

VARIABLES
  scenario,  \* fixed
  where,     \* the address each peer is at
  bad,       \* the addresses that cannot be resolved
  inMap,     \* device.peers.IDMap
  static,    \* peers whose StaticConn is set
  cred,      \* the node ID and preshared key a peer was added with
  endpoint,  \* peer.endpoint
  alive,     \* peers heard of within PeerAliveTimeout (LastPacketReceivedAdd1Sec)
  untried,   \* addresses of trymap_super that were never tried, lastTry standing for the priority
  tried,     \* the other items of trymap_super, and those of trymap_p2p, by lastTry
  byFamily,  \* addresses of trymap_super_v4 and trymap_super_v6, which nothing reads
  events,    \* len(event_tryendpoint)
  ticked,    \* RoutineDetectOffline has written since the last sleep
  receiver,  \* receivers that are about to write to event_tryendpoint
  trying,    \* where RoutineTryReceivedEndpoint is
  budget

lists == <<untried, tried>>
vars == <<scenario, where, bad, inMap, static, cred, byFamily, endpoint, alive, lists, events, ticked, receiver, trying, budget>>

\* An item of endpoint_trylist: firstTry is zero, within the timeout, or past it.
Items == [map : {"super", "p2p"}, url : Urls, first : {"no", "new", "old"}]

\* The routine waits; else it has peers still to visit, a try to make, and
\* those that it pings since a fast try.
Waiting ==
  [pc |-> "wait", todo |-> {}, peer |-> Nil, url |-> Nil, fast |-> FALSE, pinged |-> {}, next |-> FALSE]

\* Peers of the configuration file have their endpoint from the start.
Init ==
  /\ scenario \in Scenarios
  /\ where = scenario.at /\ bad = scenario.bad
  /\ inMap = DOMAIN scenario.static /\ static = inMap
  /\ cred = [p \in Peers |-> 0]
  /\ endpoint = [p \in Peers |-> IF p \in inMap THEN scenario.static[p] ELSE Nil]
  /\ alive = {}
  /\ untried = [p \in Peers |-> {}] /\ tried = [p \in Peers |-> <<>>]
  /\ byFamily = [p \in Peers |-> {}]
  /\ events = 0 /\ ticked = FALSE /\ receiver = {}
  /\ trying = Waiting
  /\ budget = [messages |-> scenario.messages, moves |-> scenario.moves]

Spend(what) ==
  /\ budget[what] > 0
  /\ budget' = [budget EXCEPT ![what] = @ - 1]

(***************************************************************************)
(* endpoint_trylist.                                                       *)
(***************************************************************************)

\* The addresses in one of the maps.
UrlsOf(map, seq) == {i.url : i \in {j \in ToSet(seq) : j.map = map}}

\* The addresses UpdateSuper keeps in trymap_super: those that can be resolved.
\* With dual stack they only go to trymap_super_v4 and trymap_super_v6.
Kept(urls) == IF scenario.dual THEN {} ELSE urls \ bad

\* UpdateSuper, for a list seq of tried items: known addresses keep their item.
UpdatedTried(seq, urls) == SelectSeq(seq, LAMBDA i : i.map = "p2p" \/ i.url \in Kept(urls))
UpdatedUntried(seq, urls) == Kept(urls) \ UrlsOf("super", seq)

\* Mutant: a known address gets a second item.
MutUpdateP2P(seq, url) ==
  IF url \in bad THEN seq ELSE Append(seq, [map |-> "p2p", url |-> url, first |-> "no"])

\* UpdateP2P: a new address is queued behind all others.
UpdateP2P(seq, url) ==
  IF url \in bad \/ url \in UrlsOf("p2p", seq) THEN seq
  ELSE Append(seq, [map |-> "p2p", url |-> url, first |-> "no"])

Delete(p, url) ==
  /\ untried' = [untried EXCEPT ![p] = @ \ {url}]
  /\ tried' = [tried EXCEPT ![p] = SelectSeq(@, LAMBDA i : i.url # url)]

\* The item GetNextTry chooses: that with the smallest lastTry.
Smallest(p) ==
  IF untried[p] # {}
  THEN {[map |-> "super", url |-> u, first |-> "no"] :
          u \in {v \in untried[p] : \A w \in untried[p] : Priority[v] <= Priority[w]}}
  ELSE IF tried[p] # <<>> THEN {Head(tried[p])} ELSE {}

\* An address of a neighbour is forgotten when its time is over, which is
\* noticed when the next one is chosen.
Expired(i) == i.map = "p2p" /\ i.first = "old"

\* Mutant: lastTry is not set.
MutTriedAgain(seq, i) ==
  LET rest == SelectSeq(seq, LAMBDA j : j # i /\ ~Expired(j))
  IN IF Expired(i) THEN rest ELSE <<[i EXCEPT !.first = IF @ = "no" THEN "new" ELSE @]>> \o rest

\* lastTry and firstTry are set.  The chosen item may itself just have expired.
TriedAgain(seq, i) ==
  LET rest == SelectSeq(seq, LAMBDA j : j # i /\ ~Expired(j))
  IN IF Expired(i) THEN rest ELSE Append(rest, [i EXCEPT !.first = IF @ = "no" THEN "new" ELSE @])

(***************************************************************************)
(* RoutineTryReceivedEndpoint.                                             *)
(***************************************************************************)

Woken ==
  /\ trying.pc = "wait" /\ events > 0
  /\ events' = events - 1
  /\ trying' = [Waiting EXCEPT !.pc = "visit", !.todo = inMap]
  /\ UNCHANGED <<scenario, where, bad, inMap, static, cred, byFamily, endpoint, alive, lists, ticked, receiver, budget>>

\* A peer that is not alive is given its next address, unless it is static.
\* Peers removed since are not met.
GetNextTry(p) ==
  LET next == [trying EXCEPT !.todo = @ \ {p}]
  IN /\ trying.pc = "visit" /\ p \in trying.todo
     /\ IF p \notin inMap \ alive \/ Smallest(p) = {}
        THEN trying' = next /\ UNCHANGED lists
        ELSE \E i \in Smallest(p) :
               /\ untried' = [untried EXCEPT ![p] = @ \ {i.url}]
               /\ tried' = [tried EXCEPT ![p] = TriedAgain(@, i)]
               /\ trying' = IF p \in static THEN next
                            ELSE [next EXCEPT !.pc = "set", !.peer = p, !.url = i.url, !.fast = i.first # "old"]
     /\ UNCHANGED <<scenario, where, bad, inMap, static, cred, byFamily, endpoint, alive, events, ticked, receiver, budget>>

\* SetEndpointFromConnURL, whether or not the peer has been heard of meanwhile.
\* An address that has stopped resolving is deleted; only a fast try is pinged.
\* An orphan is a peer that was removed: nobody uses its endpoint.
SetEndpoint ==
  LET p == trying.peer
      url == trying.url
      done == [trying EXCEPT !.pc = "visit", !.peer = Nil, !.url = Nil, !.fast = FALSE]
  IN /\ trying.pc = "set"
     /\ IF url \in bad
        THEN /\ IF p = Nil THEN UNCHANGED lists ELSE Delete(p, url)
             /\ trying' = done /\ UNCHANGED endpoint
        ELSE /\ endpoint' = IF p = Nil THEN endpoint ELSE [endpoint EXCEPT ![p] = url]
             /\ trying' = IF trying.fast THEN [done EXCEPT !.next = TRUE, !.pinged = @ \cup ({p} \ {Nil})]
                          ELSE done
             /\ UNCHANGED lists
     /\ UNCHANGED <<scenario, where, bad, inMap, static, cred, byFamily, alive, events, ticked, receiver, budget>>

\* What was signalled meanwhile is done, and the routine sleeps.
ClearChan ==
  /\ trying.pc = "visit" /\ trying.todo = {}
  /\ events' = 0
  /\ trying' = [trying EXCEPT !.pc = "sleep"]
  /\ UNCHANGED <<scenario, where, bad, inMap, static, cred, byFamily, endpoint, alive, lists, ticked, receiver, budget>>

Reached(p) == p \in inMap \ alive /\ endpoint[p] = where[p]

\* ConnNextTry is over.  If a new address was tried, the routine signals itself.
Sleep ==
  /\ trying.pc = "sleep" /\ \A p \in trying.pinged : ~Reached(p)
  /\ trying' = IF trying.next THEN [Waiting EXCEPT !.pc = "send"] ELSE Waiting
  /\ ticked' = FALSE
  /\ UNCHANGED <<scenario, where, bad, inMap, static, cred, byFamily, endpoint, alive, lists, events, receiver, budget>>

\* A write to event_tryendpoint waits for a free place.
Signal == events < Capacity /\ events' = events + 1

SendEvent ==
  /\ trying.pc = "send" /\ Signal
  /\ trying' = Waiting
  /\ UNCHANGED <<scenario, where, bad, inMap, static, cred, byFamily, endpoint, alive, lists, ticked, receiver, budget>>

RoutineTryReceivedEndpoint ==
  Woken \/ (\E p \in Peers : GetNextTry(p)) \/ SetEndpoint \/ ClearChan \/ Sleep \/ SendEvent

\* RoutineDetectOfflineAndTryNextEndpoint: TimeoutCheckInterval is not shorter
\* than ConnNextTry.
RoutineDetectOffline ==
  /\ ~ticked /\ ticked' = TRUE
  /\ Signal
  /\ UNCHANGED <<scenario, where, bad, inMap, static, cred, byFamily, endpoint, alive, lists, receiver, trying, budget>>

(***************************************************************************)
(* What is heard of peers.                                                 *)
(***************************************************************************)

\* The list is a function from peers to [cred, urls].  Peers that are not
\* listed, or with another ID or key, are removed; a new peer needs an address.
Removed(list) == {p \in inMap : p \notin DOMAIN list \/ list[p].cred # cred[p]}
Added(list) == {p \in DOMAIN list \ (inMap \ Removed(list)) : list[p].urls # {}}

\* NewPeer, with an empty endpoint_trylist, as are those of removed peers.
NewPeer(new, gone) ==
  /\ inMap' = (inMap \ gone) \cup new /\ static' = static \ gone
  /\ endpoint' = [p \in Peers |-> IF p \in new \cup gone THEN Nil ELSE endpoint[p]]
  /\ alive' = alive \ (new \cup gone)

Orphaned(gone) ==
  [trying EXCEPT !.peer = IF @ \in gone THEN Nil ELSE @, !.pinged = @ \ gone]

process_UpdatePeerMsg(r, list) ==
  /\ ~scenario.p2p /\ r \notin receiver /\ Spend("messages")
  /\ LET gone == Removed(list)
         new == Added(list)
         seq(p) == IF p \in new \cup gone THEN <<>> ELSE tried[p]
     IN /\ NewPeer(new, gone)
        /\ cred' = [p \in Peers |-> IF p \in new THEN list[p].cred ELSE cred[p]]
        /\ tried' = [p \in Peers |-> IF p \in inMap' THEN UpdatedTried(seq(p), list[p].urls) ELSE <<>>]
        /\ untried' = [p \in Peers |-> IF p \in inMap' THEN UpdatedUntried(seq(p), list[p].urls) ELSE {}]
        /\ byFamily' = [p \in Peers |-> IF p \in inMap' THEN list[p].urls \ bad ELSE {}]
        /\ trying' = Orphaned(gone)
        /\ receiver' = IF inMap' \subseteq alive' THEN receiver ELSE receiver \cup {r}
  /\ UNCHANGED <<scenario, where, bad, events, ticked>>

process_BoardcastPeerMsg(r, p, url) ==
  /\ scenario.p2p /\ r \notin receiver /\ Spend("messages")
  /\ NewPeer({p} \ inMap, {})
  /\ IF p \in alive' THEN UNCHANGED <<tried, receiver>>
     ELSE /\ tried' = [tried EXCEPT ![p] = UpdateP2P(@, url)]
          /\ receiver' = receiver \cup {r}
  /\ UNCHANGED <<scenario, where, bad, cred, byFamily, untried, events, ticked, trying>>

\* The handler ends with the write to event_tryendpoint.
Signalled(r) ==
  /\ r \in receiver /\ Signal
  /\ receiver' = receiver \ {r}
  /\ UNCHANGED <<scenario, where, bad, inMap, static, cred, byFamily, endpoint, alive, lists, ticked, trying, budget>>

(***************************************************************************)
(* The peers, and time.                                                    *)
(***************************************************************************)

\* A peer answers the pings sent to where it is: those of a fast try, or one of
\* RoutineSendPing, which may come at any time or not at all.
Answer(p) ==
  /\ Reached(p)
  /\ alive' = alive \cup {p}
  /\ UNCHANGED <<scenario, where, bad, inMap, static, cred, byFamily, endpoint, lists, events, ticked, receiver, trying, budget>>

\* SetEndpointFromPacket: a packet of a peer that has found this node.
Roam(p) ==
  /\ p \in inMap /\ endpoint[p] # where[p]
  /\ Spend("moves")
  /\ endpoint' = [endpoint EXCEPT ![p] = where[p]]
  /\ alive' = alive \cup {p}
  /\ UNCHANGED <<scenario, where, bad, inMap, static, cred, byFamily, lists, events, ticked, receiver, trying>>

Move(p, url) ==
  /\ url # where[p] /\ Spend("moves")
  /\ where' = [where EXCEPT ![p] = url]
  /\ UNCHANGED <<scenario, bad, inMap, static, cred, byFamily, endpoint, alive, lists, events, ticked, receiver, trying>>

\* The name of an address is withdrawn.
Unresolved(url) ==
  /\ url \in scenario.failing \ bad /\ Spend("moves")
  /\ bad' = bad \cup {url}
  /\ UNCHANGED <<scenario, where, inMap, static, cred, byFamily, endpoint, alive, lists, events, ticked, receiver, trying>>

\* PeerAliveTimeout after the last packet.
Silent(p) ==
  /\ p \in alive /\ endpoint[p] # where[p]
  /\ alive' = alive \ {p}
  /\ UNCHANGED <<scenario, where, bad, inMap, static, cred, byFamily, endpoint, lists, events, ticked, receiver, trying, budget>>

\* PeerAliveTimeout after the first try of an address.
Age(p) ==
  \E n \in DOMAIN tried[p] :
    /\ tried[p][n].first = "new"
    /\ tried' = [tried EXCEPT ![p][n].first = "old"]
    /\ UNCHANGED <<scenario, where, bad, inMap, static, cred, byFamily, endpoint, alive, untried, events, ticked, receiver, trying, budget>>

\* A static peer that is not alive goes back to the address of the configuration.
RoutineResetEndpoint(p) ==
  /\ p \in static \ alive
  /\ endpoint[p] # scenario.static[p]
  /\ endpoint' = [endpoint EXCEPT ![p] = scenario.static[p]]
  /\ UNCHANGED <<scenario, where, bad, inMap, static, cred, byFamily, alive, lists, events, ticked, receiver, trying, budget>>

Next ==
  \/ RoutineTryReceivedEndpoint \/ RoutineDetectOffline
  \/ \E r \in Receivers : Signalled(r)
  \/ \E r \in Receivers, list \in scenario.lists : process_UpdatePeerMsg(r, list)
  \/ \E r \in Receivers, m \in scenario.rumours : process_BoardcastPeerMsg(r, m[1], m[2])
  \/ \E p \in Peers : Answer(p) \/ Roam(p) \/ Silent(p) \/ Age(p) \/ RoutineResetEndpoint(p)
  \/ \E p \in Peers, url \in Urls : Move(p, url)
  \/ \E url \in Urls : Unresolved(url)

Spec == Init /\ [][Next]_vars

\* The routines go on, time passes, and reachable peers answer the pings of a
\* fast try; nothing is assumed about RoutineSendPing.
Fairness ==
  /\ WF_vars(RoutineTryReceivedEndpoint) /\ WF_vars(RoutineDetectOffline)
  /\ \A r \in Receivers : WF_vars(Signalled(r))
  /\ \A p \in Peers : WF_vars(p \in trying.pinged /\ Answer(p)) /\ WF_vars(Silent(p)) /\ WF_vars(Age(p)) /\ WF_vars(RoutineResetEndpoint(p))

FairSpec == Spec /\ Fairness

(***************************************************************************)
(* Properties.                                                             *)
(***************************************************************************)

\* The type of the state; a map has one item for an address.
TypeOK ==
  /\ static \subseteq inMap /\ alive \subseteq inMap /\ inMap \subseteq Peers
  /\ endpoint \in [Peers -> Urls \cup {Nil}]
  /\ events \in 0..Capacity /\ receiver \subseteq Receivers
  /\ trying.pc \in {"wait", "visit", "set", "sleep", "send"}
  /\ \A p \in Peers :
       /\ untried[p] \subseteq Urls \ UrlsOf("super", tried[p])
       /\ ToSet(tried[p]) \subseteq Items
       /\ \A m, n \in DOMAIN tried[p] :
            tried[p][m].map = tried[p][n].map /\ tried[p][m].url = tried[p][n].url => m = n

\* The addresses of a peer that were not tried yet, and these with all that the
\* supernode lists.
New(p) == untried[p] \cup UrlsOf("p2p", SelectSeq(tried[p], LAMBDA i : i.first = "no"))
Fresh(p) == byFamily[p] \cup New(p)

\* RoutineTryReceivedEndpoint, the only reader of event_tryendpoint, waits for a
\* free place in it.
Jammed == trying.pc = "send" /\ events = Capacity

\* RoutineTryReceivedEndpoint finds a peer that is at an address it has heard
\* of: tries go on, every address has its turn whatever else is announced, and
\* a first try that is answered finds the peer.  An address that is tried for
\* longer than the timeout is not pinged: the endpoint is set to it again and
\* again, and the peer left to the next periodic ping.  All tries end when the
\* channel is full while the routine itself is about to write to it.
Found ==
  \A p \in Peers, url \in Urls :
    (p \in inMap \ static /\ where[p] = url /\ url \in Fresh(p) \ bad)
      ~> \/ p \in alive \/ p \notin inMap \/ where[p] # url \/ url \in bad
         \/ ~scenario.p2p /\ url \notin Fresh(p)
         \/ endpoint[p] = url /\ url \notin New(p) /\ p \notin trying.pinged
         \/ Jammed
=============================================================================
