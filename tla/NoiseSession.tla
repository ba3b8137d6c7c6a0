---------------------------- MODULE NoiseSession ----------------------------
(***************************************************************************)
(* The Noise IKpsk2 handshake of package device, the keypairs it produces  *)
(* and the index table that routes packets to them, for any number of      *)
(* nodes.  A link <<n, p>> is the Peer object that node n keeps for p.     *)
(*                                                                         *)
(* An operation of the code that holds handshake.mutex is one step; the    *)
(* operations that take it twice (a check under RLock, then an update      *)
(* under Lock) are two, so the handshake workers, the retransmit timer and *)
(* the sender interleave as they do in the program.                        *)
(*                                                                         *)
(* Cryptography is symbolic.  chainKey and hash are the transcript mixed   *)
(* so far: <<initiator, responder, e>>, then <<initiator, responder, e, r>>*)
(* with the ephemerals e and r; two ends agree on a key exactly when their *)
(* transcripts are equal.  A packet once sent stays in net: the network    *)
(* may lose it (never delivered), duplicate, delay and reorder it.  The    *)
(* flood gate, the rekey gate and expiry by age only drop or delay, which  *)
(* the network already does.                                               *)
(***************************************************************************)
EXTENDS Integers, Sequences

CONSTANTS Nodes,    \* the devices
          Indices,  \* the receiver indices NewIndexForHandshake draws from
          NoIndex,  \* index 0, "no index"
          None,     \* a nil pointer
          Workers,  \* RoutineHandshake instances of a device
          Loads     \* what may happen: the nodes that zero or expire key material,
                    \* the ephemerals a node makes before it stops initiating (a
                    \* bound), and the workers that run (NumCPU of them)

AnyIndex == Indices \cup {NoIndex}

Transcript == Seq(Nodes \cup Nat)

Keypair == [key : Transcript, isInitiator : BOOLEAN,
            localIndex : AnyIndex, remoteIndex : AnyIndex]

ASSUME SessionAssumption == /\ NoIndex \notin Indices
                            /\ None \notin Keypair

ASSUME LoadAssumption ==
    Loads \subseteq [forgetful : SUBSET Nodes, fresh : [Nodes -> Nat],
                    workers : SUBSET Workers]

Links == {l \in Nodes \X Nodes : l[1] # l[2]}

VARIABLES load,    \* one of Loads
          hs,      \* hs[l]: peer.handshake
          kps,     \* kps[l]: peer.keypairs
          table,   \* table[n]: device.indexTable.table
          worker,  \* worker[n][w]: where a RoutineHandshake is
          flush,   \* flush[l]: ZeroAndFlushAll is between its two halves
          fresh,   \* fresh[n]: ephemerals made so far; also the clock of n
          net,     \* net[n]: every packet ever sent to n
          derived, \* history: derived[l], the keypairs made, in order
          raced    \* history: the links on which two workers were busy at once

vars == <<load, hs, kps, table, worker, flush, fresh, net, derived, raced>>

Idle == [pc |-> "idle"]

Init == /\ load \in Loads
        /\ hs = [l \in Links |-> [state |-> "Zeroed", chain |-> <<>>,
                                  localIndex |-> NoIndex,
                                  remoteIndex |-> NoIndex,
                                  lastTimestamp |-> 0]]
        /\ kps = [l \in Links |-> [current |-> None, previous |-> None,
                                   next |-> None]]
        /\ table = [n \in Nodes |-> [i \in {} |-> None]]
        /\ worker = [n \in Nodes |-> [w \in Workers |-> Idle]]
        /\ flush = [l \in Links |-> FALSE]
        /\ fresh = [n \in Nodes |-> 0]
        /\ net = [n \in Nodes |-> {}]
        /\ derived = [l \in Links |-> <<>>]
        /\ raced = {}

-----------------------------------------------------------------------------
(* The index table *)

Delete(t, i) == [j \in DOMAIN t \ {i} |-> t[j]]

Put(t, i, entry) == [j \in DOMAIN t \cup {i} |-> IF j = i THEN entry ELSE t[j]]

\* DeleteKeypair of each keypair in ks; a nil one is passed over.
DeleteKeypairs(t, ks) ==
    [j \in DOMAIN t \ {k.localIndex : k \in ks \ {None}} |-> t[j]]

\* Mutant: the entry is replaced without asking whether it is still there.
MutSwapIndexForKeypair(t, i, k) ==
    Put(t, i, [peer |-> IF i \in DOMAIN t THEN t[i].peer ELSE None,
               keypair |-> k])

SwapIndexForKeypair(t, i, k) ==
    IF i \in DOMAIN t
    THEN Put(t, i, [peer |-> t[i].peer, keypair |-> k])
    ELSE t

\* The indices the retry loop of NewIndexForHandshake may end with.
FreeIndices(t) == Indices \ DOMAIN t

\* Delete(old) and then NewIndexForHandshake, as both message creators do.
Reindexed(t, old, i, p) == Put(Delete(t, old), i, [peer |-> p, keypair |-> None])

\* A packet to p enters the network.
Sent(p, m) == [net EXCEPT ![p] = @ \cup {m}]

SetWorker(n, w, state) == [worker EXCEPT ![n][w] = state]

-----------------------------------------------------------------------------
(* Handshake messages *)

\* SendHandshakeInitiation, called by the sender and by the timers.
CreateMessageInitiation(l) ==
    LET n == l[1]
        p == l[2]
        e == fresh[n] + 1
    IN  /\ fresh[n] < load.fresh[n]
        /\ \E i \in FreeIndices(Delete(table[n], hs[l].localIndex)) :
              /\ hs' = [hs EXCEPT ![l].chain = <<n, p, e>>,
                                  ![l].localIndex = i,
                                  ![l].state = "InitiationCreated"]
              /\ table' = [table EXCEPT ![n] =
                              Reindexed(@, hs[l].localIndex, i, p)]
              /\ net' = Sent(p, [type |-> "initiation", from |-> n,
                                 sender |-> i, e |-> e])
        /\ fresh' = [fresh EXCEPT ![n] = e]
        /\ UNCHANGED <<load, kps, worker, flush, derived>>

\* ConsumeMessageInitiation up to RUnlock: the replay check.
ConsumeInitiationCheck(n, w, m) ==
    /\ worker[n][w].pc = "idle"
    /\ m.type = "initiation"
    /\ m.e > hs[<<n, m.from>>].lastTimestamp
    /\ worker' = SetWorker(n, w, [pc |-> "initiation checked", peer |-> m.from,
                                  msg |-> m])
    /\ UNCHANGED <<load, hs, kps, table, flush, fresh, net, derived>>

\* The rest of it, under Lock: an initiation of our own is given up.
ConsumeInitiationUpdate(n, w) ==
    LET p == worker[n][w].peer
        l == <<n, p>>
        m == worker[n][w].msg
    IN  /\ worker[n][w].pc = "initiation checked"
        /\ hs' = [hs EXCEPT ![l].chain = <<p, n, m.e>>,
                            ![l].remoteIndex = m.sender,
                            ![l].lastTimestamp = IF m.e > @ THEN m.e ELSE @,
                            ![l].state = "InitiationConsumed"]
        /\ worker' = SetWorker(n, w, [pc |-> "initiation consumed", peer |-> p])
        /\ UNCHANGED <<load, kps, table, flush, fresh, net, derived>>

\* CreateMessageResponse: fails when the handshake moved on meanwhile.
CreateMessageResponse(n, w) ==
    LET p == worker[n][w].peer
        l == <<n, p>>
        r == fresh[n] + 1
        key == Append(hs[l].chain, r)
    IN  /\ worker[n][w].pc = "initiation consumed"
        /\ \/ /\ hs[l].state # "InitiationConsumed"
              /\ worker' = SetWorker(n, w, Idle)
              /\ UNCHANGED <<hs, table, fresh>>
           \/ /\ hs[l].state = "InitiationConsumed"
              /\ \E i \in FreeIndices(Delete(table[n], hs[l].localIndex)) :
                    /\ hs' = [hs EXCEPT ![l].chain = key,
                                        ![l].localIndex = i,
                                        ![l].state = "ResponseCreated"]
                    /\ table' = [table EXCEPT ![n] =
                                    Reindexed(@, hs[l].localIndex, i, p)]
                    /\ worker' = SetWorker(n, w,
                          [pc |-> "response created", peer |-> p,
                           msg |-> [type |-> "response", sender |-> i,
                                    receiver |-> hs[l].remoteIndex,
                                    key |-> key]])
              /\ fresh' = [fresh EXCEPT ![n] = r]
        /\ UNCHANGED <<load, kps, flush, net, derived>>

\* ConsumeMessageResponse up to RUnlock.  The transcript of the handshake,
\* extended with the response's ephemeral, must open the Empty field.
ConsumeResponseCheck(n, w, m) ==
    /\ worker[n][w].pc = "idle"
    /\ m.type = "response"
    /\ m.receiver \in DOMAIN table[n]
    /\ table[n][m.receiver].keypair = None
    /\ LET p == table[n][m.receiver].peer
           l == <<n, p>>
       IN  /\ hs[l].state = "InitiationCreated"
           /\ Append(hs[l].chain, m.key[4]) = m.key
           /\ worker' = SetWorker(n, w, [pc |-> "response checked", peer |-> p,
                                         msg |-> m])
    /\ UNCHANGED <<load, hs, kps, table, flush, fresh, net, derived>>

\* Mutant: the index the responder chose is not recorded.
MutConsumeResponseUpdate(n, w) ==
    LET p == worker[n][w].peer
        l == <<n, p>>
    IN  /\ worker[n][w].pc = "response checked"
        /\ hs' = [hs EXCEPT ![l].chain = worker[n][w].msg.key,
                            ![l].state = "ResponseConsumed"]
        /\ worker' = SetWorker(n, w, [pc |-> "response consumed", peer |-> p])
        /\ UNCHANGED <<load, kps, table, flush, fresh, net, derived>>

\* The rest of it, under Lock; nothing is checked again.
ConsumeResponseUpdate(n, w) ==
    LET p == worker[n][w].peer
        l == <<n, p>>
        m == worker[n][w].msg
    IN  /\ worker[n][w].pc = "response checked"
        /\ hs' = [hs EXCEPT ![l].chain = m.key,
                            ![l].remoteIndex = m.sender,
                            ![l].state = "ResponseConsumed"]
        /\ worker' = SetWorker(n, w, [pc |-> "response consumed", peer |-> p])
        /\ UNCHANGED <<load, kps, table, flush, fresh, net, derived>>

-----------------------------------------------------------------------------
(* Keypairs *)

CanDerive(l) == hs[l].state \in {"ResponseConsumed", "ResponseCreated"}

NewKeypair(l) == [key |-> hs[l].chain,
                  isInitiator |-> hs[l].state = "ResponseConsumed",
                  localIndex |-> hs[l].localIndex,
                  remoteIndex |-> hs[l].remoteIndex]

\* Mutant: a responder starts to send at once, before the key is confirmed.
MutRotated(kp, k) == [current |-> k, previous |-> kp.current, next |-> None]

\* The keypair slots after BeginSymmetricSession has made k.
Rotated(kp, k) ==
    IF k.isInitiator
    THEN [current |-> k,
          previous |-> IF kp.next # None THEN kp.next ELSE kp.current,
          next |-> None]
    ELSE [current |-> kp.current, previous |-> None, next |-> k]

\* The keypairs it deletes from the index table.
Displaced(kp, k) ==
    IF k.isInitiator
    THEN {kp.previous} \cup (IF kp.next # None THEN {kp.current} ELSE {})
    ELSE {kp.next, kp.previous}

\* Mutant: the handshake keeps the index that now belongs to the keypair.
MutZeroedHandshake(h) == [h EXCEPT !.state = "Zeroed", !.chain = <<>>]

ZeroedHandshake(h) == [h EXCEPT !.state = "Zeroed", !.chain = <<>>,
                                !.localIndex = NoIndex]

BeginSymmetricSession(l) ==
    LET n == l[1]
        k == NewKeypair(l)
    IN  /\ CanDerive(l)
        /\ hs' = [hs EXCEPT ![l] = ZeroedHandshake(@)]
        /\ table' = [table EXCEPT ![n] = DeleteKeypairs(
                        SwapIndexForKeypair(@, hs[l].localIndex, k),
                        Displaced(kps[l], k))]
        /\ kps' = [kps EXCEPT ![l] = Rotated(@, k)]
        /\ derived' = [derived EXCEPT ![l] = Append(@, k)]

\* What SendStagedPackets puts on the wire under keypair k.
Data(k) == [type |-> "data", receiver |-> k.remoteIndex, key |-> k.key,
            fromInitiator |-> k.isInitiator]

\* The end of SendHandshakeResponse: no keypair, no response.
FinishResponse(n, w) ==
    LET l == <<n, worker[n][w].peer>>
    IN  /\ worker[n][w].pc = "response created"
        /\ \/ /\ BeginSymmetricSession(l)
              /\ net' = Sent(l[2], worker[n][w].msg)
           \/ /\ ~ CanDerive(l)
              /\ UNCHANGED <<hs, kps, table, net, derived>>
        /\ worker' = SetWorker(n, w, Idle)
        /\ UNCHANGED <<load, flush, fresh>>

\* The end of a response in RoutineHandshake; the keepalive confirms the key.
FinishSession(n, w) ==
    LET l == <<n, worker[n][w].peer>>
    IN  /\ worker[n][w].pc = "response consumed"
        /\ \/ /\ BeginSymmetricSession(l)
              /\ net' = IF kps'[l].current = None THEN net
                        ELSE Sent(l[2], Data(kps'[l].current))
           \/ /\ ~ CanDerive(l)
              /\ UNCHANGED <<hs, kps, table, net, derived>>
        /\ worker' = SetWorker(n, w, Idle)
        /\ UNCHANGED <<load, flush, fresh>>

\* SendStagedPackets with a keypair; without one it initiates instead.
SendStagedPackets(l) ==
    /\ kps[l].current # None
    /\ net' = Sent(l[2], Data(kps[l].current))
    /\ UNCHANGED <<load, hs, kps, table, worker, flush, fresh, derived>>

\* The first packet under next makes it current.
ReceivedWithKeypair(l) ==
    /\ kps' = [kps EXCEPT ![l] = [current |-> @.next, previous |-> @.current,
                                  next |-> None]]
    /\ table' = [table EXCEPT ![l[1]] = DeleteKeypairs(@, {kps[l].previous})]

\* A transport packet that the index table leads to a keypair that opens it.
\* Under any keypair but next it changes nothing here.
ReceiveData(n, m) ==
    /\ m.type = "data"
    /\ m.receiver \in DOMAIN table[n]
    /\ LET entry == table[n][m.receiver]
           l == <<n, entry.peer>>
       IN  /\ entry.keypair # None
           /\ entry.keypair.key = m.key
           /\ entry.keypair.isInitiator # m.fromInitiator
           /\ kps[l].next = entry.keypair
           /\ ReceivedWithKeypair(l)
    /\ UNCHANGED <<load, hs, worker, flush, fresh, net, derived>>

-----------------------------------------------------------------------------
(* Forgetting *)

\* Mutant: the unconfirmed keypair is dropped but not deleted.
MutZeroKeypairs(l) ==
    /\ l[1] \in load.forgetful
    /\ ~ flush[l]
    /\ table' = [table EXCEPT ![l[1]] = DeleteKeypairs(@,
                    {kps[l].previous, kps[l].current})]
    /\ kps' = [kps EXCEPT ![l] = [current |-> None, previous |-> None,
                                  next |-> None]]
    /\ flush' = [flush EXCEPT ![l] = TRUE]
    /\ UNCHANGED <<load, hs, worker, fresh, net, derived>>

\* The first half of ZeroAndFlushAll, under the keypairs lock.
ZeroKeypairs(l) ==
    /\ l[1] \in load.forgetful
    /\ ~ flush[l]
    /\ table' = [table EXCEPT ![l[1]] = DeleteKeypairs(@,
                    {kps[l].previous, kps[l].current, kps[l].next})]
    /\ kps' = [kps EXCEPT ![l] = [current |-> None, previous |-> None,
                                  next |-> None]]
    /\ flush' = [flush EXCEPT ![l] = TRUE]
    /\ UNCHANGED <<load, hs, worker, fresh, net, derived>>

\* Mutant: Clear also forgets the last timestamp, so an old initiation that
\* the network still holds is accepted again.
MutClearHandshake(l) ==
    /\ table' = [table EXCEPT ![l[1]] = Delete(@, hs[l].localIndex)]
    /\ hs' = [hs EXCEPT ![l] = [ZeroedHandshake(@) EXCEPT !.lastTimestamp = 0]]

ClearHandshake(l) ==
    /\ table' = [table EXCEPT ![l[1]] = Delete(@, hs[l].localIndex)]
    /\ hs' = [hs EXCEPT ![l] = ZeroedHandshake(@)]

\* The second half, under handshake.mutex.
ZeroHandshake(l) ==
    /\ flush[l]
    /\ ClearHandshake(l)
    /\ flush' = [flush EXCEPT ![l] = FALSE]
    /\ UNCHANGED <<load, kps, worker, fresh, net, derived>>

\* The nonces it exhausts are those of PeerQueues.
ExpireCurrentKeypairs(l) ==
    /\ l[1] \in load.forgetful
    /\ ClearHandshake(l)
    /\ UNCHANGED <<load, kps, worker, flush, fresh, net, derived>>

WorkerStep(n, w) ==
    \/ ConsumeInitiationUpdate(n, w)
    \/ CreateMessageResponse(n, w)
    \/ FinishResponse(n, w)
    \/ ConsumeResponseUpdate(n, w)
    \/ FinishSession(n, w)

Receive(n, w, m) ==
    /\ w \in load.workers
    /\ ConsumeInitiationCheck(n, w, m) \/ ConsumeResponseCheck(n, w, m)

Step == \/ \E l \in Links : \/ CreateMessageInitiation(l)
                            \/ SendStagedPackets(l)
                            \/ ZeroKeypairs(l)
                            \/ ZeroHandshake(l)
                            \/ ExpireCurrentKeypairs(l)
        \/ \E n \in Nodes, w \in Workers : WorkerStep(n, w)
        \/ \E n \in Nodes, w \in Workers : \E m \in net[n] : Receive(n, w, m)
        \/ \E n \in Nodes : \E m \in net[n] : ReceiveData(n, m)

\* Two workers of l[1] are between two locks of the same handshake.
Works(l, w) == worker[l[1]][w].pc # "idle" /\ worker[l[1]][w].peer = l[2]

Races(l) == \E w, x \in Workers : w # x /\ Works(l, w) /\ Works(l, x)

Next == Step /\ raced' = raced \cup {l \in Links : Races(l)'}

Spec == Init /\ [][Next]_vars

-----------------------------------------------------------------------------
Initiation(n) == [type : {"initiation"}, from : Nodes \ {n}, sender : Indices,
                  e : Nat]

Response == [type : {"response"}, sender : Indices, receiver : AnyIndex,
             key : Transcript]

Packet(n) == Initiation(n) \cup Response \cup
             [type : {"data"}, receiver : AnyIndex, key : Transcript,
              fromInitiator : BOOLEAN]

WorkerState(n) ==
    [pc : {"idle"}]
    \cup [pc : {"initiation consumed", "response consumed"}, peer : Nodes \ {n}]
    \cup [pc : {"initiation checked"}, peer : Nodes \ {n}, msg : Initiation(n)]
    \cup [pc : {"response created", "response checked"}, peer : Nodes \ {n},
          msg : Response]

IsTable(n, t) == /\ DOMAIN t \subseteq Indices
                 /\ t \in [DOMAIN t -> [peer : Nodes \ {n},
                                        keypair : Keypair \cup {None}]]

\* Type invariant of the handshake, keypair and index table state.
TypeOK ==
    /\ hs \in [Links -> [state : {"Zeroed", "InitiationCreated",
                                  "InitiationConsumed", "ResponseCreated",
                                  "ResponseConsumed"},
                         chain : Transcript, localIndex : AnyIndex,
                         remoteIndex : AnyIndex, lastTimestamp : Nat]]
    /\ kps \in [Links -> [current : Keypair \cup {None},
                          previous : Keypair \cup {None},
                          next : Keypair \cup {None}]]
    /\ DOMAIN table = Nodes
    /\ \A n \in Nodes : IsTable(n, table[n])
    /\ DOMAIN worker = Nodes
    /\ \A n \in Nodes : worker[n] \in [Workers -> WorkerState(n)]
    /\ flush \in [Links -> BOOLEAN]
    /\ fresh \in [Nodes -> Nat]
    /\ DOMAIN net = Nodes
    /\ \A n \in Nodes : net[n] \subseteq Packet(n)
    /\ derived \in [Links -> Seq(Keypair)]

Slots(kp) == {kp.current, kp.previous, kp.next} \ {None}

Indexed(k) == k # None /\ k.localIndex # NoIndex

SlotsDistinct(kp) ==
    /\ Indexed(kp.current) => kp.current # kp.previous /\ kp.current # kp.next
    /\ Indexed(kp.previous) => kp.previous # kp.next

\* Index i leads to keypair k of peer p, or to its handshake when k is None.
Leads(t, i, p, k) == i \in DOMAIN t /\ t[i].peer = p /\ t[i].keypair = k

\* Table t of node n against h[p], the handshake index of peer p, and ks[p],
\* the keypairs of peer p.
NodeExact(n, t, h, ks) ==
    /\ \A i \in DOMAIN t :
          IF t[i].keypair = None
          THEN h[t[i].peer] = i
          ELSE t[i].keypair \in ks[t[i].peer] /\ t[i].keypair.localIndex = i
    /\ \A p \in Nodes \ {n} : h[p] # NoIndex => Leads(t, h[p], p, None)
    /\ \A p \in Nodes \ {n} : \A k \in ks[p] :
          k.localIndex # NoIndex => Leads(t, k.localIndex, p, k)

HandshakeIndices(n) == [p \in Nodes \ {n} |-> hs[<<n, p>>].localIndex]

PeerKeypairs(n) == [p \in Nodes \ {n} |-> Slots(kps[<<n, p>>])]

\* The index table holds exactly the live receivers: the handshake index of
\* a peer leads to that handshake, the local index of a keypair in a slot
\* leads to that keypair, nothing else is in the table, and no keypair sits in
\* two slots.  An entry too few drops every packet of a live session; one too
\* many is never reclaimed.
IndexTableExact ==
    /\ \A n \in Nodes :
          NodeExact(n, table[n], HandshakeIndices(n), PeerKeypairs(n))
    /\ \A l \in Links : SlotsDistinct(kps[l])

Opposite(l) == <<l[2], l[1]>>

Made(l) == {derived[l][j] : j \in DOMAIN derived[l]}

\* Two ends that derived the same key hold opposite roles, and the initiator
\* addresses the index the responder allocated for that very key, whichever
\* handshakes crossed, were retried or were cleared in between.
SessionMirror ==
    \A l \in Links : \A k \in Made(l), o \in Made(Opposite(l)) :
       k.key = o.key => /\ k.isInitiator # o.isInitiator
                        /\ k.isInitiator => k.remoteIndex = o.localIndex

\* A responder sends data under a key only once the initiator has derived it
\* too: the next slot is promoted by ReceivedWithKeypair alone.
ConfirmedBeforeUse ==
    \A l \in Links : LET k == kps[l].current
                     IN  k # None /\ ~ k.isInitiator =>
                            \E o \in Made(Opposite(l)) :
                               o.key = k.key /\ o.isInitiator

\* An initiation or a response that the network repeats never yields a second
\* keypair on a link, and the responder never answers one initiation with two
\* keys; whoever consumes a response derives a key that the responder has
\* derived as well (SendHandshakeResponse sends nothing when
\* BeginSymmetricSession fails).  Both hold unless two of the NumCPU workers of
\* that node (for the second, of the responder) once worked on the same
\* handshake at the same time, between the check and the update of
\* ConsumeMessageInitiation or ConsumeMessageResponse.  And no race makes a
\* responder use a key twice.
OneKeypairPerHandshake ==
    \A l \in Links :
       /\ l \notin raced => \A i, j \in DOMAIN derived[l] :
            SubSeq(derived[l][i].key, 1, 3) = SubSeq(derived[l][j].key, 1, 3) => i = j
       /\ Opposite(l) \notin raced => \A k \in Made(l) : k.isInitiator =>
            \E o \in Made(Opposite(l)) : o.key = k.key /\ ~ o.isInitiator
       /\ \A i, j \in DOMAIN derived[l] :
            /\ ~ derived[l][i].isInitiator /\ ~ derived[l][j].isInitiator
            /\ derived[l][i].key = derived[l][j].key
            => i = j
=============================================================================
