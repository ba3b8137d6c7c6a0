----------------------------- MODULE SuperSync ------------------------------
(***************************************************************************)
(* How the supernode keeps its edges up to date (main_super.go,            *)
(* main_httpserver.go and the edge's side in device/receivesendproc.go).   *)
(*                                                                         *)
(* There are three kinds of state: the next-hop table "nh", the list of    *)
(* peers "peer" and the parameters "param".  The supernode names each by a *)
(* salted hash, remembers the hash it believes every edge has, and pushes  *)
(* the current hash to the edges it believes are behind.  An edge that is  *)
(* pushed a hash it does not have downloads the state over HTTP, which the *)
(* supernode only serves for its current hash, applies it, and stores the  *)
(* hash.  Its periodic Register message reports the hashes it has.         *)
(*                                                                         *)
(* Pushes and registers may be lost, delayed and reordered, downloads may  *)
(* fail before or after the supernode has taken note of them, edges and    *)
(* the supernode may restart, and an edge may handle the pushes of its two *)
(* connections to the supernode (over IPv4 and IPv6) at the same time.     *)
(***************************************************************************)
EXTENDS Naturals, FiniteSets

CONSTANTS
  Edges,        \* the nodes that may be peers of the supernode
  Scenarios,    \* what is looked at together: [kinds, members, addable, deletable, watched,
                \* receivers (the connections that are configured), dampings (the values
                \* of DampingFilterRadius, of which 0 is the zero value), lossy (whether the
                \* network loses anything), posts (whether edges post latencies), and
                \* bounds: changes (of the state, and losses of contact) and restarts]
  NhTables,     \* next-hop tables that may be calculated
  Generals,     \* values of the intervals in the parameters
  Costs,        \* values of AdditionalCost, given for each member; none is negative, which
                \* would leave an edge its own
  Receivers,    \* the connections an edge may have to the supernode, each with a
                \* RoutineSequentialReceiver of its own
  MaxFlight     \* bound: pushes under way on one connection

Kinds == {"nh", "peer", "param"}
NoHash == <<>>
None == "none"

\* The goroutines that publish tables: the event handler and the HTTP server.
Handlers == {"event", "http"}

VARIABLES
  scenario,   \* which scenario this is, fixed
  peers,      \* http_PeerID2Info, http_PeerState: the members
  heard,      \* members whose address the supernode knows (GetConnurl is not empty)
  alive,      \* members seen within PeerAliveTimeout
  salt,       \* http_HashSalt
  state,      \* [nh, peer]: the contents named by http_NhTable_Hash and http_PeerInfo_hash
  table,      \* http_NhTableStr, stored after the hash that names it
  storing,    \* the table a handler has published the hash of and not yet stored
  config,     \* [general, damping, cost] of http_sconfig, which the parameters come from
  saved,      \* http_sconfig as in the configuration file
  updating,   \* what calls of manage_superupdate have written to it and not yet hashed
  misnamed,   \* history: the parameters were hashed after a later call had written others
  paramHash,  \* PeerState.SuperParamState
  seen,       \* what the supernode believes an edge has: NhTableState, ...
  panicked,   \* the supernode process has died
  hash,       \* state_hashes of the edges
  held,       \* what the edges have applied
  unnamed,    \* history: <<e, k>>, e was served a state that is not the one its hash names
  crossed,    \* history: <<e, k>>, two receivers of e updated k with different states at once
  register,   \* the Register message of an edge under way, if any
  inbox,      \* pushes under way to a connection of an edge
  work,       \* what the receiver of a connection is doing
  removing,   \* deleted members whose super_peerdel_notify still runs
  running,    \* edges whose process runs
  budget

nhtable == <<table, storing>>
params == <<config, saved, updating, misnamed, paramHash>>
super == <<peers, heard, alive, salt, state, nhtable, params, seen, panicked, removing>>
edge == <<hash, held, unnamed, crossed, work, running>>
vars == <<scenario, super, edge, register, inbox, budget>>

(***************************************************************************)
(* State.                                                                  *)
(***************************************************************************)

\* md5 over the salted content: distinct contents have distinct hashes.
Hash(content) == <<salt, content>>

\* get_api_peers: the members whose address is known, and whether they live.
PeerInfo == [p \in peers \cap heard |-> p \in alive]

\* API_SuperParams as edge_get_superparams answers, and as super_peeradd
\* hashes it when a member is added: without the damping radius.
SuperParams(c, e) == [general |-> c.general, damping |-> c.damping, cost |-> c.cost[e]]
ParamsAtAdd(c, e) == [SuperParams(c, e) EXCEPT !.damping = 0]

\* What a member should have, and the hash it is known by.
Content(k, e) == IF k = "param" THEN SuperParams(config, e) ELSE state[k]
Current(k, e) ==
  CASE k = "param" -> paramHash[e]
    [] k = "peer" -> Hash(state.peer)
    [] k = "nh" -> IF state.nh = None THEN NoHash ELSE Hash(state.nh)

\* What an edge starts with: no peers, and the values of its own config.
Empty(k) ==
  CASE k = "nh" -> None
    [] k = "peer" -> {}
    [] k = "param" -> [general |-> 0, damping |-> 0, cost |-> 0]

\* A receiver is idle, asks for the state of a push, has the answer, or has
\* applied it and is about to store the hash.
Idle == [step |-> "idle", push |-> <<>>, answer |-> <<>>, crossed |-> FALSE]

\* The supernode starts from its configuration file, with no table.
Init ==
  /\ scenario \in Scenarios
  /\ peers = scenario.members
  /\ heard = {} /\ alive = {}
  /\ salt = 1
  /\ state = [nh |-> None, peer |-> [p \in {} |-> TRUE]] /\ table = None
  /\ storing = [h \in Handlers |-> None]
  /\ \E d \in scenario.dampings :
       config = [general |-> CHOOSE g \in Generals : TRUE, damping |-> d,
                 cost |-> [e \in Edges |-> CHOOSE c \in Costs : TRUE]]
  /\ saved = config /\ updating = {} /\ misnamed = FALSE
  /\ paramHash = [e \in Edges |-> Hash(ParamsAtAdd(config, e))]
  /\ seen = [e \in Edges |-> [k \in Kinds |-> NoHash]]
  /\ panicked = FALSE
  /\ hash = [e \in Edges |-> [k \in Kinds |-> NoHash]]
  /\ held = [e \in Edges |-> [k \in Kinds |-> Empty(k)]]
  /\ unnamed = {} /\ crossed = {}
  /\ register = [e \in Edges |-> {}]
  /\ inbox = [e \in Edges |-> [r \in Receivers |-> {}]]
  /\ work = [e \in Edges |-> [r \in Receivers |-> Idle]]
  /\ removing = {}
  /\ running = Edges
  /\ budget = [changes |-> scenario.changes, restarts |-> scenario.restarts]

Spend(what) ==
  /\ budget[what] > 0
  /\ budget' = [budget EXCEPT ![what] = @ - 1]

(***************************************************************************)
(* Pushes.                                                                 *)
(***************************************************************************)

\* PushNhTable, PushPeerinfo, PushServerParams: the members that are alive and
\* not known to have the current hash, or all that can be reached when forced.
Behind(k) == {e \in peers \cap alive : seen[e][k] # Current(k, e)}
Targets(k, force) == IF force THEN peers \cap heard ELSE Behind(k)

\* The same after a handler's own changes: what is pushed is read from the
\* state it leaves behind.  A push goes out on both connections; one that
\* finds the connection full is lost, as are those to members that are not
\* watched, which only matter here for being members, alive or not.
Push(what) ==
  inbox' = [e \in Edges |-> [r \in Receivers |->
    LET new == {<<m[1], m[3]>> : m \in {m \in what : m[2] = e /\ r \in scenario.receivers /\ (e \in scenario.watched \/ m[1] = "shutdown")}}
    IN IF Cardinality(inbox[e][r] \cup new) > MaxFlight THEN inbox[e][r]
       ELSE inbox[e][r] \cup new]]

PushOf(k, to) == {<<k, e, Current(k, e)>> : e \in to}

\* The periodic push of RoutinePushSettings: the table is forced now and then.
RoutinePushSettings(force) ==
  /\ ~panicked
  /\ Push(UNION {PushOf(k, Targets(k, force /\ k = "nh")) : k \in scenario.kinds})
  /\ UNCHANGED <<scenario, super, edge, register, budget>>

LosePush(e, r) ==
  /\ scenario.lossy
  /\ \E m \in inbox[e][r] : inbox' = [inbox EXCEPT ![e][r] = @ \ {m}]
  /\ UNCHANGED <<scenario, super, edge, register, budget>>

(***************************************************************************)
(* The supernode's event handler.                                          *)
(***************************************************************************)

NoteHashes(e, said) == seen' = [seen EXCEPT ![e] = said]

\* A Register message of an edge: it is alive, its hashes are what it has,
\* and the kinds it is behind in are pushed.  The peer list is calculated
\* anew (list and hash are assigned in this order, so that a list served in
\* between goes under its old hash and is replaced by the next push).  The state
\* of a member deleted meanwhile is a nil pointer.
HandleRegister(e) ==
  /\ ~panicked
  /\ UNCHANGED <<scenario, peers, salt, nhtable, params, removing, edge, budget>>
  /\ register' = [register EXCEPT ![e] = {}]
  /\ \E said \in register[e] :
       IF e \notin peers
       THEN panicked' = TRUE /\ UNCHANGED <<heard, alive, state, seen, inbox>>
       ELSE /\ heard' = heard \cup {e} /\ alive' = alive \cup {e}
            /\ NoteHashes(e, said)
            /\ state' = [state EXCEPT !.peer = PeerInfo']
            /\ panicked' = FALSE
            /\ LET news == {k \in scenario.kinds : \/ seen[e][k] # said[k]
                                                   \/ k = "peer" /\ state'.peer # state.peer}
               IN Push(UNION {PushOf(k, Behind(k))' : k \in news})

LoseRegister(e) ==
  /\ scenario.lossy
  /\ register[e] # {}
  /\ register' = [register EXCEPT ![e] = {}]
  /\ UNCHANGED <<scenario, super, edge, inbox, budget>>

\* RoutineTimeoutCheck: a dummy Register makes the handler recalculate the list.
RefreshPeers ==
  /\ ~panicked /\ "peer" \in scenario.kinds
  /\ state.peer # PeerInfo
  /\ state' = [state EXCEPT !.peer = PeerInfo]
  /\ UNCHANGED <<scenario, peers, heard, alive, salt, nhtable, params, seen, panicked, removing,
                 edge, register, budget>>
  /\ Push(PushOf("peer", Behind("peer"))')

\* A changed table is published: first its hash is stored, then the table, and
\* then the hash is pushed.  Both handlers only hold the lock for reading, so
\* others run in between.
StoreHash(h, t) ==
  /\ storing[h] = None
  /\ state' = [state EXCEPT !.nh = t]
  /\ storing' = [storing EXCEPT ![h] = t]

StoreTable(h) ==
  /\ ~panicked /\ storing[h] # None
  /\ table' = storing[h]
  /\ storing' = [storing EXCEPT ![h] = None]
  /\ UNCHANGED <<scenario, peers, heard, alive, salt, state, params, seen, panicked, removing,
                 edge, register, budget>>
  /\ Push(PushOf("nh", Behind("nh")))

\* A pong, or the passing of time, changes the next-hop table.
HandlePong(t) ==
  /\ ~panicked /\ "nh" \in scenario.kinds
  /\ t # state.nh /\ Spend("changes")
  /\ StoreHash("event", t)
  /\ UNCHANGED <<scenario, peers, heard, alive, salt, table, params, seen, panicked, removing,
                 edge, register, inbox>>

\* edge_post_nodeinfo: the report of a member shows that it is alive, and its
\* latencies may change the table.
edge_post_nodeinfo(e, t) ==
  /\ ~panicked /\ "nh" \in scenario.kinds /\ scenario.posts
  /\ e \in running \cap peers \cap heard
  /\ Spend("changes")
  /\ alive' = alive \cup {e}
  /\ \/ t # state.nh /\ StoreHash("http", t)
     \/ t = state.nh /\ e \notin alive /\ UNCHANGED <<state, storing>>
  /\ UNCHANGED <<scenario, peers, heard, salt, table, params, seen, panicked, removing,
                 edge, register, inbox>>

\* PeerAliveTimeout passes without news of a member.
Timeout(e) ==
  /\ ~panicked /\ e \in alive /\ Spend("changes")
  /\ alive' = alive \ {e}
  /\ UNCHANGED <<scenario, peers, heard, salt, state, nhtable, params, seen, panicked, removing,
                 edge, register, inbox>>

(***************************************************************************)
(* The management API.                                                     *)
(***************************************************************************)

\* super_peeradd: the member starts with no hashes and, for its parameters, a
\* hash that leaves the damping radius out.
super_peeradd(e) ==
  /\ peers' = peers \cup {e}
  /\ paramHash' = [paramHash EXCEPT ![e] = Hash(ParamsAtAdd(config, e))]
  /\ seen' = [seen EXCEPT ![e] = [k \in Kinds |-> NoHash]]

\* This fails for a member that is being deleted, which the devices still have.
\* The configuration is written to its file with the member in it.
manage_peeradd(e) ==
  /\ ~panicked /\ e \in scenario.addable \ (peers \cup removing) /\ Spend("changes")
  /\ super_peeradd(e)
  /\ saved' = config
  /\ UNCHANGED <<scenario, heard, alive, salt, state, nhtable, config, updating, misnamed, panicked, removing,
                 edge, register, inbox>>

\* super_peerdel: the state of the member is gone at once.
MutForget(e) == peers' = peers \ {e} /\ heard' = heard /\ alive' = alive \ {e}
Forget(e) == peers' = peers \ {e} /\ heard' = heard \ {e} /\ alive' = alive \ {e}

\* The member is deleted, and told to shut down.
manage_peerdel(e) ==
  /\ ~panicked /\ e \in scenario.deletable \cap peers /\ Spend("changes")
  /\ Forget(e)
  /\ removing' = removing \cup {e}
  /\ UNCHANGED <<scenario, salt, state, nhtable, params, seen, panicked, edge, register>>
  /\ Push({<<"shutdown", e, NoHash>>})

\* super_peerdel_notify ends: the devices forget the peer and what it sends.
super_peerdel_notify(e) ==
  /\ ~panicked /\ e \in removing
  /\ removing' = removing \ {e}
  /\ register' = [register EXCEPT ![e] = {}]
  /\ UNCHANGED <<scenario, peers, heard, alive, salt, state, nhtable, params, seen, panicked,
                 edge, inbox, budget>>

\* manage_superupdate: new intervals and a new damping radius.  They are written
\* without a lock, one after the other; what is served in between goes under the
\* old hash and is replaced when the hashes follow.
manage_superupdate(g, d) ==
  /\ ~panicked /\ "param" \in scenario.kinds
  /\ <<g, d>> # <<config.general, config.damping>> /\ Spend("changes")
  /\ config' = [config EXCEPT !.general = g, !.damping = d]
  /\ updating' = updating \cup {<<g, d>>}
  /\ UNCHANGED <<scenario, peers, heard, alive, salt, state, nhtable, saved, misnamed, paramHash, seen,
                 panicked, removing, edge, register, inbox>>

\* A new hash for every member, of what this call has written.
HashParams(u) ==
  paramHash' = [e \in Edges |->
    IF e \in peers THEN Hash([general |-> u[1], damping |-> u[2], cost |-> config.cost[e]])
    ELSE paramHash[e]]

\* Then, under the lock, the hashes are stored and the file is written.
FinishUpdate ==
  /\ ~panicked
  /\ \E u \in updating :
       /\ HashParams(u)
       /\ updating' = updating \ {u}
       /\ misnamed' = (u # <<config.general, config.damping>>)
  /\ saved' = config
  /\ UNCHANGED <<scenario, peers, heard, alive, salt, state, nhtable, config, seen, panicked, removing,
                 edge, register, inbox, budget>>

\* manage_peerupdate: the additional cost of one member, all of it under the lock.
manage_peerupdate(e, c) ==
  /\ ~panicked /\ "param" \in scenario.kinds
  /\ e \in peers /\ c # config.cost[e] /\ Spend("changes")
  /\ config' = [config EXCEPT !.cost[e] = c]
  /\ saved' = config'
  /\ paramHash' = [paramHash EXCEPT ![e] = Hash(SuperParams(config', e))]
  /\ UNCHANGED <<scenario, peers, heard, alive, salt, state, nhtable, updating, misnamed, seen, panicked,
                 removing, edge, register, inbox>>

\* The supernode restarts: all it knows is its configuration, the salt is new,
\* and it has no table yet.
RestartSuper ==
  /\ Spend("restarts")
  /\ salt' = salt + 1
  /\ heard' = {} /\ alive' = {}
  /\ state' = [nh |-> None, peer |-> [p \in {} |-> TRUE]]
  /\ table' = None /\ storing' = [h \in Handlers |-> None]
  /\ seen' = [e \in Edges |-> [k \in Kinds |-> NoHash]]
  /\ removing' = {} /\ panicked' = FALSE
  /\ register' = [e \in Edges |-> {}]
  /\ config' = saved /\ updating' = {} /\ misnamed' = FALSE
  /\ UNCHANGED <<scenario, peers, saved, edge, inbox>>
  /\ paramHash' = [e \in Edges |-> Hash(ParamsAtAdd(config, e))']

(***************************************************************************)
(* The edges.                                                              *)
(***************************************************************************)

\* RoutineRegister: the hashes the edge has are reported.
Register(e) ==
  /\ e \in running /\ register[e] = {}
  /\ e \in peers \cup removing
  /\ register' = [register EXCEPT ![e] = {hash[e]}]
  /\ UNCHANGED <<scenario, super, edge, inbox, budget>>

SetWork(e, r, w) == work' = [work EXCEPT ![e][r] = w]

\* process_ServerUpdateMsg: a hash the edge has already is skipped.
process_ServerUpdateMsg(e, r, m) ==
  /\ e \in running /\ work[e][r].step = "idle"
  /\ m \in inbox[e][r]
  /\ inbox' = [inbox EXCEPT ![e][r] = @ \ {m}]
  /\ IF m[1] = "shutdown" THEN running' = running \ {e} /\ work' = work
     ELSE /\ running' = running
          /\ SetWork(e, r, IF hash[e][m[1]] = m[2] THEN Idle
                           ELSE [Idle EXCEPT !.step = "ask", !.push = m])
  /\ UNCHANGED <<scenario, super, hash, held, unnamed, crossed, register, budget>>

Served(e, m) == e \in peers /\ m[2] = Current(m[1], e)

\* The answer, and whether the hash names something else: the table is whatever
\* is stored, and the parameters those of the moment.  An empty body, sent as
\* long as there is no table, is not JSON and ends the update.
Answer(k, e) ==
  LET new == IF k = "nh" THEN table ELSE Content(k, e)
  IN <<new, Current(k, e) # Hash(new)>>
NoJSON(k) == k = "nh" /\ table = None

TakenToHave(e, m) == seen' = [seen EXCEPT ![e][m[1]] = m[2]]

\* Other receivers that are about to apply something else, or to store its hash.
Crossing(e, r) ==
  {q \in Receivers \ {r} : /\ work[e][q].step \in {"got", "applied"}
                           /\ work[e][q].push[1] = work[e][r].push[1]
                           /\ work[e][q].push[2] # work[e][r].push[2]}

Download(e, r) ==
  LET m == work[e][r].push
  IN /\ ~panicked /\ e \in running /\ work[e][r].step = "ask"
     /\ IF Served(e, m)
        THEN /\ TakenToHave(e, m)
             /\ IF NoJSON(m[1]) THEN SetWork(e, r, Idle)
                ELSE work' = [work EXCEPT ![e] = [q \in Receivers |->
                       IF q = r THEN [step |-> "got", push |-> m, answer |-> Answer(m[1], e),
                                      crossed |-> Crossing(e, r) # {}]
                       ELSE [work[e][q] EXCEPT !.crossed = @ \/ q \in Crossing(e, r)]]]
        ELSE seen' = seen /\ SetWork(e, r, Idle)
     /\ UNCHANGED <<scenario, peers, heard, alive, salt, state, nhtable, params, panicked, removing,
                    hash, held, unnamed, crossed, running, register, inbox, budget>>

\* The download fails: on its way to the supernode, or on its way back.
LoseDownload(e, r) ==
  LET m == work[e][r].push
  IN /\ scenario.lossy /\ e \in running /\ work[e][r].step = "ask"
     /\ \/ seen' = seen
        \/ ~panicked /\ Served(e, m) /\ TakenToHave(e, m)
     /\ SetWork(e, r, Idle)
     /\ UNCHANGED <<scenario, peers, heard, alive, salt, state, nhtable, params, panicked, removing,
                    hash, held, unnamed, crossed, running, register, inbox, budget>>

\* process_UpdatePeerMsg: peers that are not listed are removed, peers that are
\* listed with an address are added.
UpdatePeers(e, info) == {p \in DOMAIN info \ {e} : info[p] \/ p \in held[e]["peer"]}

\* The answer is applied: SetNHTable, the peers, or the parameters.
Apply(e, r) ==
  LET w == work[e][r]
      k == w.push[1]
      new == w.answer[1]
  IN /\ e \in running /\ w.step = "got"
     /\ held' = [held EXCEPT ![e][k] = IF k = "peer" THEN UpdatePeers(e, new) ELSE new]
     /\ unnamed' = IF w.answer[2] THEN unnamed \cup {<<e, k>>} ELSE unnamed \ {<<e, k>>}
     /\ SetWork(e, r, [w EXCEPT !.step = "applied"])
     /\ UNCHANGED <<scenario, super, hash, crossed, running, register, inbox, budget>>

\* Then the hash is stored, in a step of its own.
Store(e, r) ==
  LET m == work[e][r].push
  IN /\ e \in running /\ work[e][r].step = "applied"
     /\ hash' = [hash EXCEPT ![e][m[1]] = m[2]]
     /\ crossed' = IF work[e][r].crossed THEN crossed \cup {<<e, m[1]>>} ELSE crossed \ {<<e, m[1]>>}
     /\ SetWork(e, r, Idle)
     /\ UNCHANGED <<scenario, super, held, unnamed, running, register, inbox, budget>>

\* An edge starts again with nothing: no hashes, no state.
RestartEdge(e) ==
  /\ e \in scenario.watched \cup (Edges \ running)
  /\ Spend("restarts")
  /\ running' = running \cup {e}
  /\ hash' = [hash EXCEPT ![e] = [k \in Kinds |-> NoHash]]
  /\ held' = [held EXCEPT ![e] = [k \in Kinds |-> Empty(k)]]
  /\ unnamed' = {x \in unnamed : x[1] # e} /\ crossed' = {x \in crossed : x[1] # e}
  /\ work' = [work EXCEPT ![e] = [r \in Receivers |-> Idle]]
  /\ inbox' = [inbox EXCEPT ![e] = [r \in Receivers |-> {}]]
  /\ register' = [register EXCEPT ![e] = {}]
  /\ UNCHANGED <<scenario, super>>

Receive(e, r) == \E m \in inbox[e][r] : process_ServerUpdateMsg(e, r, m)

Ask == \E e \in Edges, r \in Receivers : Download(e, r)
Finish == \E e \in Edges, r \in Receivers : Apply(e, r) \/ Store(e, r)

Next ==
  \/ \E force \in BOOLEAN : RoutinePushSettings(force)
  \/ \E e \in Edges, r \in Receivers : LosePush(e, r)
  \/ \E e \in Edges : HandleRegister(e) \/ LoseRegister(e) \/ Timeout(e) \/ Register(e)
  \/ RefreshPeers
  \/ \E t \in NhTables : HandlePong(t)
  \/ \E h \in Handlers : StoreTable(h)
  \/ RestartSuper
  \/ \E e \in Edges, t \in NhTables : edge_post_nodeinfo(e, t)
  \/ \E e \in Edges : manage_peeradd(e) \/ manage_peerdel(e) \/ super_peerdel_notify(e)
  \/ \E g \in Generals, d \in scenario.dampings : manage_superupdate(g, d)
  \/ FinishUpdate
  \/ \E e \in Edges, c \in Costs : manage_peerupdate(e, c)
  \/ \E e \in Edges, r \in Receivers : Receive(e, r) \/ LoseDownload(e, r)
  \/ Ask \/ Finish
  \/ \E e \in Edges : RestartEdge(e)

\* Timers fire, goroutines go on, and what is sent again and again arrives at
\* some time: pushes, registers and downloads are not lost for ever.
Fairness ==
  /\ WF_vars(RoutinePushSettings(FALSE)) /\ WF_vars(RefreshPeers)
  /\ WF_vars(\E h \in Handlers : StoreTable(h)) /\ WF_vars(FinishUpdate)
  /\ \A e \in Edges : WF_vars(Register(e)) /\ SF_vars(HandleRegister(e))
  /\ SF_vars(\E e \in Edges, r \in Receivers : Receive(e, r))
  /\ SF_vars(Ask) /\ WF_vars(Finish)

Spec == Init /\ [][Next]_vars

FairSpec == Spec /\ Fairness

(***************************************************************************)
(* Properties.                                                             *)
(***************************************************************************)

TypeOK ==
  /\ scenario \in Scenarios
  /\ peers \subseteq Edges /\ alive \subseteq heard /\ heard \subseteq peers
  /\ removing \subseteq Edges \ peers /\ running \subseteq Edges
  /\ state.nh \in NhTables \cup {None} /\ DOMAIN state.peer \subseteq Edges
  /\ config.general \in Generals
  /\ \A e \in Edges :
       /\ held[e]["peer"] \subseteq Edges \ {e}
       /\ Cardinality(register[e]) <= 1
       /\ \A r \in Receivers : Cardinality(inbox[e][r]) <= MaxFlight

\* What an edge has is the current state: the table and the parameters are the
\* supernode's, the peers include all that are online and none that is gone.
UpToDate(e, k) ==
  IF k = "peer"
  THEN LET info == state.peer
       IN /\ {p \in DOMAIN info \ {e} : info[p]} \subseteq held[e]["peer"]
          /\ held[e]["peer"] \subseteq DOMAIN info
  ELSE held[e][k] = Content(k, e)

\* The exceptions.  A table was served after the store of its hash and before its
\* own.  Parameters were served under a hash that does not name them, as is the
\* one a member is added with, and that now names the parameters they have been
\* changed to, so that the change is no change of the hash: so it is when the
\* radius is set to 0.  Two receivers of the edge have updated the same
\* state at once, and the hash one stored last is not of what the other applied
\* last.  Or of two calls of manage_superupdate the one that wrote first was the
\* last to hash.
Misled(e, k) ==
  \/ k = "nh" /\ <<e, k>> \in unnamed
  \/ k = "param" /\ <<e, k>> \in unnamed /\ Current(k, e) = Hash(Content(k, e))
  \/ k = "param" /\ misnamed
  \/ <<e, k>> \in crossed


=============================================================================
