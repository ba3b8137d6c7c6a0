------------------------ MODULE NoiseAgreementProofs ------------------------
(***************************************************************************)
(* What two ends of a Noise session agree on, for every number of nodes,   *)
(* indices and ephemerals.                                                 *)
(*                                                                         *)
(* A response binds a key to the index its responder chose.  The key and   *)
(* the index travel together, from CreateMessageResponse to the keypairs   *)
(* of both ends: Claims are all the places where such a pair is found.     *)
(***************************************************************************)
EXTENDS NoiseSessionProofs

Ends(key, initiator, responder) == key[1] = initiator /\ key[2] = responder

\* Whose transcript a handshake has, by its state.
HandshakeEnds(l) ==
    LET c == hs[l].chain
    IN  /\ hs[l].state = "InitiationCreated" => Len(c) = 3 /\ Ends(c, l[1], l[2])
        /\ hs[l].state = "InitiationConsumed" => Len(c) = 3 /\ Ends(c, l[2], l[1])
        /\ hs[l].state = "ResponseCreated" => Ends(c, l[2], l[1])
        /\ hs[l].state = "ResponseConsumed" => Ends(c, l[1], l[2])

WorkerEnds(n, w) ==
    LET st == worker[n][w]
    IN  /\ st.pc = "response created" => Ends(st.msg.key, st.peer, n)
        /\ st.pc = "response checked" => Ends(st.msg.key, n, st.peer)

KeypairEnds(l, k) == IF k.isInitiator THEN Ends(k.key, l[1], l[2])
                                      ELSE Ends(k.key, l[2], l[1])

Roles == /\ \A l \in Links : HandshakeEnds(l)
         /\ \A n \in Nodes, w \in Workers : WorkerEnds(n, w)
         /\ \A l \in Links : \A k \in Made(l) : KeypairEnds(l, k)

-----------------------------------------------------------------------------
\* The index of the responder, as an end knows it.
Addressed(k) == IF k.isInitiator THEN k.remoteIndex ELSE k.localIndex

NetClaims == {<<m.key, m.sender>> :
                 m \in {x \in UNION {net[n] : n \in Nodes} : x.type = "response"}}

HoldsResponse(n, w) == worker[n][w].pc \in {"response created", "response checked"}

WorkerClaims == {<<worker[x[1]][x[2]].msg.key, worker[x[1]][x[2]].msg.sender>> :
                    x \in {y \in Nodes \X Workers : HoldsResponse(y[1], y[2])}}

HandshakeClaims == {<<NewKeypair(l).key, Addressed(NewKeypair(l))>> :
                       l \in {x \in Links : CanDerive(x)}}

MadeClaims == {<<k.key, Addressed(k)>> : k \in UNION {Made(l) : l \in Links}}

Claims == NetClaims \cup WorkerClaims \cup HandshakeClaims \cup MadeClaims

\* The responder's ephemeral in a key is one that it has made.
ClaimsFresh == \A c \in Claims : /\ c[1][2] \in Nodes /\ c[1][4] \in Nat
                                 /\ c[1][4] <= fresh[c[1][2]]

ClaimsAgree == \A c, d \in Claims : c[1] = d[1] => c[2] = d[2]

-----------------------------------------------------------------------------
\* A slot has a keypair that was made here, and next one of a responder.
SlotsMade == \A l \in Links :
                /\ Slots(kps[l]) \subseteq Made(l)
                /\ kps[l].next # None => ~ kps[l].next.isInitiator

\* Data is sent under a keypair that was made.
DataMade == \A n \in Nodes : \A m \in net[n] : m.type = "data" =>
               \E l \in Links : \E k \in Made(l) :
                  k.key = m.key /\ k.isInitiator = m.fromInitiator

AInv == Roles /\ ClaimsFresh /\ ClaimsAgree /\ SlotsMade /\ DataMade
        /\ ConfirmedBeforeUse

-----------------------------------------------------------------------------
(* What a step must show of the parts it changes *)

LEMMA RolesFrame ==
    ASSUME Roles,
           \A l \in Links : hs'[l] = hs[l] \/ HandshakeEnds(l)',
           \A n \in Nodes, w \in Workers :
              worker'[n][w] = worker[n][w] \/ WorkerEnds(n, w)',
           \A l \in Links : \A k \in Made(l)' : k \in Made(l) \/ KeypairEnds(l, k)
    PROVE  Roles'
<1>1. \A l \in Links : HandshakeEnds(l)'
  BY DEF Roles, HandshakeEnds
<1>2. \A n \in Nodes, w \in Workers : WorkerEnds(n, w)'
  BY Zenon DEF Roles, WorkerEnds
<1>3. \A l \in Links : \A k \in Made(l)' : KeypairEnds(l, k)
  BY DEF Roles
<1> QED BY <1>1, <1>2, <1>3 DEF Roles, KeypairEnds, Ends

LEMMA ClaimsWithin ==
    ASSUME NEW C, Claims \subseteq C,
           \A n \in Nodes : \A m \in net'[n] :
              m.type = "response" => m \in net[n] \/ <<m.key, m.sender>> \in C,
           \A n \in Nodes, w \in Workers : HoldsResponse(n, w)' =>
              \/ worker'[n][w] = worker[n][w]
              \/ <<worker'[n][w].msg.key, worker'[n][w].msg.sender>> \in C,
           \A l \in Links : CanDerive(l)' =>
              \/ hs'[l] = hs[l]
              \/ <<NewKeypair(l)'.key, Addressed(NewKeypair(l)')>> \in C,
           \A l \in Links : \A k \in Made(l)' :
              k \in Made(l) \/ <<k.key, Addressed(k)>> \in C
    PROVE  Claims' \subseteq C
<1>0. NetClaims \subseteq C /\ WorkerClaims \subseteq C /\ HandshakeClaims \subseteq C
      /\ MadeClaims \subseteq C
  BY DEF Claims
<1>1. NetClaims' \subseteq C
  BY <1>0 DEF NetClaims
<1>2. WorkerClaims' \subseteq C
  <2> SUFFICES ASSUME NEW n \in Nodes, NEW w \in Workers, HoldsResponse(n, w)'
               PROVE  <<worker'[n][w].msg.key, worker'[n][w].msg.sender>> \in C
    BY DEF WorkerClaims
  <2>1. CASE worker'[n][w] = worker[n][w]
    <3>1. HoldsResponse(n, w)
      BY <2>1, Zenon DEF HoldsResponse
    <3>2. <<n, w>> \in {y \in Nodes \X Workers : HoldsResponse(y[1], y[2])}
      BY <3>1
    <3>3. <<worker[n][w].msg.key, worker[n][w].msg.sender>> \in WorkerClaims
      BY <3>2 DEF WorkerClaims
    <3> QED BY <1>0, <2>1, <3>3
  <2> QED BY <2>1
<1>3. HandshakeClaims' \subseteq C
  <2> SUFFICES ASSUME NEW l \in Links, CanDerive(l)'
               PROVE  <<NewKeypair(l)'.key, Addressed(NewKeypair(l)')>> \in C
    BY DEF HandshakeClaims, Addressed
  <2>1. CASE hs'[l] = hs[l]
    <3>1. CanDerive(l) /\ NewKeypair(l)' = NewKeypair(l)
      BY <2>1 DEF CanDerive, NewKeypair
    <3> QED BY <1>0, <3>1 DEF HandshakeClaims
  <2> QED BY <2>1
<1>4. MadeClaims' \subseteq C
  BY <1>0 DEF MadeClaims, Addressed
<1> QED BY <1>1, <1>2, <1>3, <1>4 DEF Claims

LEMMA WorkerClaim ==
    ASSUME NEW n \in Nodes, NEW w \in Workers, HoldsResponse(n, w)
    PROVE  <<worker[n][w].msg.key, worker[n][w].msg.sender>> \in Claims
<1>1. <<n, w>> \in {y \in Nodes \X Workers : HoldsResponse(y[1], y[2])}
  OBVIOUS
<1>2. <<worker[n][w].msg.key, worker[n][w].msg.sender>> \in WorkerClaims
  BY <1>1 DEF WorkerClaims
<1> QED BY <1>2, Zenon DEF Claims

LEMMA ClaimsFrame ==
    ASSUME \A n \in Nodes : \A m \in net'[n] :
              m.type = "response" => m \in net[n] \/ <<m.key, m.sender>> \in Claims,
           \A n \in Nodes, w \in Workers : HoldsResponse(n, w)' =>
              \/ worker'[n][w] = worker[n][w]
              \/ <<worker'[n][w].msg.key, worker'[n][w].msg.sender>> \in Claims,
           \A l \in Links : CanDerive(l)' =>
              \/ hs'[l] = hs[l]
              \/ <<NewKeypair(l)'.key, Addressed(NewKeypair(l)')>> \in Claims,
           \A l \in Links : \A k \in Made(l)' :
              k \in Made(l) \/ <<k.key, Addressed(k)>> \in Claims
    PROVE  Claims' \subseteq Claims
<1>1. PICK C : C = Claims
  BY Zenon
<1> QED BY <1>1, ClaimsWithin

LEMMA ClaimsKept ==
    ASSUME ClaimsFresh, ClaimsAgree, Claims' \subseteq Claims,
           fresh \in [Nodes -> Nat], fresh' \in [Nodes -> Nat],
           \A n \in Nodes : fresh[n] <= fresh'[n]
    PROVE  ClaimsFresh' /\ ClaimsAgree'
<1>1. ClaimsAgree'
  BY DEF ClaimsAgree
<1>2. ASSUME NEW c \in Claims'
      PROVE  c[1][2] \in Nodes /\ c[1][4] \in Nat /\ c[1][4] <= fresh'[c[1][2]]
  <2>1. c[1][2] \in Nodes /\ c[1][4] \in Nat /\ c[1][4] <= fresh[c[1][2]]
    BY <1>2 DEF ClaimsFresh
  <2> QED BY <2>1
<1> QED BY <1>1, <1>2 DEF ClaimsFresh

LEMMA SlotsFrame ==
    ASSUME SlotsMade, ConfirmedBeforeUse, \A l \in Links : Made(l) \subseteq Made(l)',
           \A l \in Links : \/ kps'[l] = kps[l]
                            \/ /\ Slots(kps'[l]) \subseteq Made(l)'
                               /\ kps'[l].next # None => ~ kps'[l].next.isInitiator,
           \A l \in Links : \/ kps'[l].current \in {kps[l].current, None}
                            \/ kps'[l].current.isInitiator
                            \/ \E o \in Made(Opposite(l))' :
                                  o.key = kps'[l].current.key /\ o.isInitiator
    PROVE  SlotsMade' /\ ConfirmedBeforeUse'
<1>1. SlotsMade'
  <2> SUFFICES ASSUME NEW l \in Links
               PROVE  /\ Slots(kps'[l]) \subseteq Made(l)'
                      /\ kps'[l].next # None => ~ kps'[l].next.isInitiator
    BY DEF SlotsMade, Slots
  <2>1. /\ Slots(kps[l]) \subseteq Made(l)'
        /\ kps[l].next # None => ~ kps[l].next.isInitiator
    BY DEF SlotsMade
  <2> QED BY <2>1
<1>2. \A l \in Links : Opposite(l) \in Links
  BY DEF Links, Opposite
<1>3. ConfirmedBeforeUse'
  BY <1>2 DEF ConfirmedBeforeUse, Opposite
<1> QED BY <1>1, <1>3

LEMMA DataFrame ==
    ASSUME DataMade, \A l \in Links : Made(l) \subseteq Made(l)',
           \A n \in Nodes : \A m \in net'[n] : m.type = "data" =>
              \/ m \in net[n]
              \/ \E l \in Links : \E k \in Made(l)' :
                    k.key = m.key /\ k.isInitiator = m.fromInitiator
    PROVE  DataMade'
<1> SUFFICES ASSUME NEW n \in Nodes, NEW m \in net'[n], m.type = "data"
             PROVE  \E l \in Links : \E k \in Made(l)' :
                       k.key = m.key /\ k.isInitiator = m.fromInitiator
  BY DEF DataMade
<1>1. CASE m \in net[n]
  <2>1. PICK l \in Links : \E k \in Made(l) : k.key = m.key /\ k.isInitiator = m.fromInitiator
    BY <1>1 DEF DataMade
  <2> QED BY <2>1
<1> QED BY <1>1

-----------------------------------------------------------------------------
(* What the steps do, one link, one worker, one receiver at a time *)

LEMMA Types ==
    ASSUME IInv
    PROVE  /\ hs \in [Links -> Handshake] /\ kps \in [Links -> KeypairSlots]
           /\ TablesOK(table) /\ WorkersOK(worker) /\ NetOK(net)
           /\ fresh \in [Nodes -> Nat] /\ derived \in [Links -> Seq(Keypair)]
  BY TypeParts DEF IInv

\* Nothing is made that is fresh.
LEMMA ClockStays ==
    ASSUME IInv, fresh' = fresh
    PROVE  /\ fresh \in [Nodes -> Nat] /\ fresh' \in [Nodes -> Nat]
           /\ \A x \in Nodes : fresh[x] <= fresh'[x]
<1>1. fresh \in [Nodes -> Nat]
  BY Types
<1>2. \A a \in Nat : a <= a
  OBVIOUS
<1>3. ASSUME NEW x \in Nodes PROVE fresh[x] <= fresh'[x]
  <2>1. fresh[x] \in Nat
    BY <1>1
  <2> QED BY <1>2, <2>1, Zenon
<1> QED BY <1>1, <1>3

LEMMA WorkerSet ==
    ASSUME IInv, NEW n \in Nodes, NEW w \in Workers, NEW st,
           worker' = SetWorker(n, w, st)
    PROVE  \A x \in Nodes, y \in Workers :
              worker'[x][y] = IF x = n /\ y = w THEN st ELSE worker[x][y]
<1>1. DOMAIN worker = Nodes /\ \A x \in Nodes : DOMAIN worker[x] = Workers
  BY Types DEF WorkersOK
<1>2. worker' = [worker EXCEPT ![n] = [worker[n] EXCEPT ![w] = st]]
  BY DEF SetWorker
<1> QED BY <1>1, <1>2

LEMMA NetSent ==
    ASSUME IInv, NEW p \in Nodes, NEW m, net' = Sent(p, m)
    PROVE  \A x \in Nodes : net'[x] = IF x = p THEN net[x] \cup {m} ELSE net[x]
  BY Types, Zenon DEF NetOK, Sent

LEMMA MadeSame ==
    ASSUME derived' = derived
    PROVE  \A l \in Links : Made(l)' = Made(l)
  BY DEF Made

LEMMA MadeOne ==
    ASSUME IInv, NEW l \in Links, NEW k \in Keypair,
           derived' = [derived EXCEPT ![l] = Append(@, k)]
    PROVE  /\ Made(l)' = Made(l) \cup {k}
           /\ \A x \in Links : x # l => Made(x)' = Made(x)
<1>1. derived[l] \in Seq(Keypair) /\ DOMAIN derived = Links
  BY Types
<1>2. derived'[l] = Append(derived[l], k) /\ \A x \in Links : x # l => derived'[x] = derived[x]
  BY <1>1
<1> DEFINE d == derived[l]
<1>3. Made(l)' = {Append(d, k)[j] : j \in DOMAIN Append(d, k)} /\ Made(l) = {d[j] : j \in DOMAIN d}
  BY <1>2 DEF Made
<1>4. d \in Seq(Keypair)
  BY <1>1
<1> HIDE DEF d
<1>5. /\ DOMAIN Append(d, k) = 1..Len(d) + 1 /\ DOMAIN d = 1..Len(d) /\ Len(d) \in Nat
      /\ \A j \in 1..Len(d) : Append(d, k)[j] = d[j]
      /\ Append(d, k)[Len(d) + 1] = k
  BY <1>4
<1>6. {Append(d, k)[j] : j \in DOMAIN Append(d, k)} = {d[j] : j \in DOMAIN d} \cup {k}
  BY <1>5
<1>7. \A x \in Links : x # l => Made(x)' = Made(x)
  BY <1>2 DEF Made
<1> QED BY <1>3, <1>6, <1>7, Zenon

LEMMA InitiationFacts ==
    ASSUME IInv, NEW l \in Links, CreateMessageInitiation(l)
    PROVE  /\ hs'[l].state = "InitiationCreated"
           /\ hs'[l].chain = <<l[1], l[2], fresh[l[1]] + 1>>
           /\ hs'[l].lastTimestamp = hs[l].lastTimestamp
           /\ \A x \in Links : x # l => hs'[x] = hs[x]
           /\ \E i : net' = Sent(l[2], [type |-> "initiation", from |-> l[1],
                                        sender |-> i, e |-> fresh[l[1]] + 1])
           /\ fresh' = [fresh EXCEPT ![l[1]] = fresh[l[1]] + 1]
           /\ UNCHANGED <<load, kps, worker, derived>>
<1> DEFINE n == l[1]
           e == fresh[n] + 1
<1>1. PICK i : /\ hs' = [hs EXCEPT ![l].chain = <<n, l[2], e>>, ![l].localIndex = i,
                                   ![l].state = "InitiationCreated"]
               /\ net' = Sent(l[2], [type |-> "initiation", from |-> n,
                                     sender |-> i, e |-> e])
  BY Zenon DEF CreateMessageInitiation
<1>2. hs[l] \in Handshake /\ DOMAIN hs = Links
  BY Types
<1> DEFINE new == [hs[l] EXCEPT !.chain = <<n, l[2], e>>, !.localIndex = i,
                                !.state = "InitiationCreated"]
<1>3. hs' = [hs EXCEPT ![l] = new]
  BY <1>1, Zenon
<1>4. /\ new.state = "InitiationCreated" /\ new.chain = <<n, l[2], e>>
      /\ new.lastTimestamp = hs[l].lastTimestamp
  BY <1>2 DEF Handshake
<1> HIDE DEF new
<1>5. hs'[l] = new /\ \A x \in Links : x # l => hs'[x] = hs[x]
  BY <1>2, <1>3
<1>6. fresh' = [fresh EXCEPT ![n] = e] /\ UNCHANGED <<load, kps, worker, derived>>
  BY DEF CreateMessageInitiation
<1> QED BY <1>1, <1>4, <1>5, <1>6, Zenon

\* The link a busy worker works on.
LEMMA WorkerLink ==
    ASSUME IInv, NEW n \in Nodes, NEW w \in Workers, worker[n][w].pc # "idle"
    PROVE  \E l \in Links : l[1] = n /\ l[2] = worker[n][w].peer /\ l = <<n, worker[n][w].peer>>
<1>1. worker[n][w].peer \in Nodes \ {n}
  BY BusyWorker, Zenon DEF IInv
<1>2. <<n, worker[n][w].peer>> \in Links
  BY <1>1 DEF Links
<1> QED BY <1>2

OtherLinksStay(l) == \A x \in Links : x # l => hs'[x] = hs[x]

\* The worker w of n is at pc, with peer p, and no other worker has moved.
WorkerAt(n, w, pc, p) ==
    /\ worker'[n][w].pc = pc /\ worker'[n][w].peer = p
    /\ \A x \in Nodes, y \in Workers : x # n \/ y # w => worker'[x][y] = worker[x][y]

WorkerStops(n, w) ==
    /\ worker'[n][w] = Idle
    /\ \A x \in Nodes, y \in Workers : x # n \/ y # w => worker'[x][y] = worker[x][y]

LEMMA WorkerGoesOn ==
    ASSUME IInv, NEW n \in Nodes, NEW w \in Workers, NEW pc, NEW p,
           worker' = SetWorker(n, w, [pc |-> pc, peer |-> p])
    PROVE  WorkerAt(n, w, pc, p)
<1>1. \A x \in Nodes, y \in Workers :
         worker'[x][y] = IF x = n /\ y = w THEN [pc |-> pc, peer |-> p] ELSE worker[x][y]
  BY WorkerSet
<1> QED BY <1>1 DEF WorkerAt

LEMMA WorkerTakes ==
    ASSUME IInv, NEW n \in Nodes, NEW w \in Workers, NEW pc, NEW p, NEW m,
           worker' = SetWorker(n, w, [pc |-> pc, peer |-> p, msg |-> m])
    PROVE  WorkerAt(n, w, pc, p) /\ worker'[n][w].msg = m
<1>1. \A x \in Nodes, y \in Workers :
         worker'[x][y] = IF x = n /\ y = w THEN [pc |-> pc, peer |-> p, msg |-> m]
                         ELSE worker[x][y]
  BY WorkerSet
<1> QED BY <1>1 DEF WorkerAt

LEMMA WorkerIsDone ==
    ASSUME IInv, NEW n \in Nodes, NEW w \in Workers, worker' = SetWorker(n, w, Idle)
    PROVE  WorkerStops(n, w)
<1>1. \A x \in Nodes, y \in Workers :
         worker'[x][y] = IF x = n /\ y = w THEN Idle ELSE worker[x][y]
  BY WorkerSet
<1> QED BY <1>1, Zenon DEF WorkerStops

InitiationChecked(n, w, m, l) ==
    /\ l[1] = n /\ worker[n][w].pc = "idle" /\ m.type = "initiation"
    /\ m.e > hs[l].lastTimestamp
    /\ WorkerAt(n, w, "initiation checked", l[2]) /\ worker'[n][w].msg = m
    /\ UNCHANGED <<load, hs, kps, fresh, net, derived>>

ResponseChecked(n, w, m, l) ==
    /\ l[1] = n /\ worker[n][w].pc = "idle" /\ m.type = "response"
    /\ WorkerAt(n, w, "response checked", l[2]) /\ worker'[n][w].msg = m
    /\ hs[l].state = "InitiationCreated" /\ Ends(m.key, n, l[2])
    /\ m.key[3] = hs[l].chain[3]
    /\ UNCHANGED <<load, hs, kps, fresh, net, derived>>

InitiationUpdated(n, w, m, l) ==
    /\ l[1] = n /\ worker[n][w].pc = "initiation checked" /\ worker[n][w].peer = l[2]
    /\ m = worker[n][w].msg /\ m.e \in Nat
    /\ hs'[l].state = "InitiationConsumed" /\ Ends(hs'[l].chain, l[2], l[1])
    /\ Len(hs'[l].chain) = 3 /\ hs'[l].chain[3] = m.e
    /\ hs'[l].lastTimestamp = IF m.e > hs[l].lastTimestamp THEN m.e
                              ELSE hs[l].lastTimestamp
    /\ OtherLinksStay(l) /\ WorkerAt(n, w, "initiation consumed", l[2])
    /\ UNCHANGED <<load, kps, fresh, net, derived>>

ResponseUpdated(n, w, m, l) ==
    /\ l[1] = n /\ worker[n][w].pc = "response checked" /\ worker[n][w].peer = l[2]
    /\ m = worker[n][w].msg
    /\ hs'[l].state = "ResponseConsumed" /\ hs'[l].chain = m.key
    /\ hs'[l].remoteIndex = m.sender /\ hs'[l].lastTimestamp = hs[l].lastTimestamp
    /\ OtherLinksStay(l) /\ WorkerAt(n, w, "response consumed", l[2])
    /\ UNCHANGED <<load, kps, fresh, net, derived>>

\* CreateMessageResponse that does not fail.
ResponseMade(n, w, l) ==
    /\ l[1] = n /\ worker[n][w].pc = "initiation consumed" /\ worker[n][w].peer = l[2]
    /\ hs[l].state = "InitiationConsumed" /\ hs'[l].state = "ResponseCreated"
    /\ hs'[l].chain = Append(hs[l].chain, fresh[n] + 1)
    /\ hs'[l].lastTimestamp = hs[l].lastTimestamp
    /\ OtherLinksStay(l) /\ WorkerAt(n, w, "response created", l[2])
    /\ worker'[n][w].msg.key = hs'[l].chain
    /\ worker'[n][w].msg.sender = hs'[l].localIndex
    /\ fresh' = [fresh EXCEPT ![n] = fresh[n] + 1]
    /\ UNCHANGED <<load, kps, net, derived>>

\* CreateMessageResponse that finds a handshake that has moved on.
ResponseFailed(n, w, l) ==
    /\ l[1] = n /\ worker[n][w].pc = "initiation consumed" /\ worker[n][w].peer = l[2]
    /\ hs[l].state # "InitiationConsumed" /\ WorkerStops(n, w)
    /\ UNCHANGED <<load, hs, kps, fresh, net, derived>>

\* A transcript with one ephemeral, extended with the second.
LEMMA Extended ==
    ASSUME NEW c \in Transcript, NEW x
    PROVE  Len(c) = 3 =>
              /\ Len(Append(c, x)) = 4 /\ Append(c, x)[4] = x
              /\ Append(c, x)[1] = c[1] /\ Append(c, x)[2] = c[2] /\ Append(c, x)[3] = c[3]
<1> DEFINE T == Nodes \cup Nat \cup {x}
<1>1. x \in T /\ Nodes \cup Nat \subseteq T
  OBVIOUS
<1> HIDE DEF T
<1>2. c \in Seq(T)
  BY <1>1 DEF Transcript
<1>3. /\ Len(Append(c, x)) = Len(c) + 1 /\ Append(c, x)[Len(c) + 1] = x
      /\ \A j \in 1..Len(c) : Append(c, x)[j] = c[j]
  BY <1>1, <1>2
<1>4. Len(c) = 3 => Len(c) + 1 = 4 /\ 1 \in 1..Len(c) /\ 2 \in 1..Len(c) /\ 3 \in 1..Len(c)
  OBVIOUS
<1> QED BY <1>3, <1>4, Zenon

\* BeginSymmetricSession that makes keypair k.
SessionMade(l, k) ==
    /\ CanDerive(l) /\ k = NewKeypair(l) /\ k \in Keypair /\ k # None
    /\ k.key = hs[l].chain /\ k.isInitiator = (hs[l].state = "ResponseConsumed")
    /\ hs'[l].state = "Zeroed" /\ hs'[l].lastTimestamp = hs[l].lastTimestamp
    /\ OtherLinksStay(l)
    /\ kps'[l] = Rotated(kps[l], k) /\ \A x \in Links : x # l => kps'[x] = kps[x]
    /\ derived'[l] = Append(derived[l], k)
    /\ \A x \in Links : x # l => derived'[x] = derived[x]
    /\ Made(l)' = Made(l) \cup {k} /\ \A x \in Links : x # l => Made(x)' = Made(x)

LEMMA SessionFacts ==
    ASSUME IInv, NEW l \in Links, BeginSymmetricSession(l)
    PROVE  \E k : SessionMade(l, k)
<1>0. PICK k : k = NewKeypair(l)
  BY Zenon
<1>1. /\ CanDerive(l)
      /\ hs' = [hs EXCEPT ![l] = ZeroedHandshake(hs[l])]
      /\ kps' = [kps EXCEPT ![l] = Rotated(kps[l], k)]
      /\ derived' = [derived EXCEPT ![l] = Append(@, k)]
  BY <1>0 DEF BeginSymmetricSession
<1>2. hs[l] \in Handshake /\ DOMAIN hs = Links /\ DOMAIN kps = Links /\ DOMAIN derived = Links
  BY Types
<1>3. /\ hs[l].chain \in Transcript /\ hs[l].localIndex \in AnyIndex
      /\ hs[l].remoteIndex \in AnyIndex
  BY <1>2 DEF Handshake
<1>4. (hs[l].state = "ResponseConsumed") \in BOOLEAN
  OBVIOUS
<1>5. k \in Keypair /\ k # None /\ k.key = hs[l].chain
      /\ k.isInitiator = (hs[l].state = "ResponseConsumed")
  <2>1. k \in Keypair
    BY <1>0, <1>3, <1>4 DEF NewKeypair, Keypair
  <2>2. k.key = hs[l].chain
    BY <1>0 DEF NewKeypair
  <2>3. k.isInitiator = (hs[l].state = "ResponseConsumed")
    BY <1>0, Zenon DEF NewKeypair
  <2> QED BY <2>1, <2>2, <2>3, SessionAssumption, Zenon
<1>6. /\ ZeroedHandshake(hs[l]).state = "Zeroed"
      /\ ZeroedHandshake(hs[l]).lastTimestamp = hs[l].lastTimestamp
  BY <1>2 DEF ZeroedHandshake, Handshake
<1>7. /\ hs'[l] = ZeroedHandshake(hs[l]) /\ kps'[l] = Rotated(kps[l], k)
      /\ \A x \in Links : x # l => hs'[x] = hs[x] /\ kps'[x] = kps[x]
  BY <1>1, <1>2
<1>8. /\ derived'[l] = Append(derived[l], k)
      /\ \A x \in Links : x # l => derived'[x] = derived[x]
  BY <1>1, <1>2
<1>9. Made(l)' = Made(l) \cup {k} /\ \A x \in Links : x # l => Made(x)' = Made(x)
  BY <1>1, <1>5, MadeOne, Zenon
<1>10. SessionMade(l, k)
  BY <1>0, <1>1, <1>5, <1>6, <1>7, <1>8, <1>9, Zenon DEF SessionMade, OtherLinksStay
<1> QED BY <1>10

LEMMA ClearFacts ==
    ASSUME IInv, NEW l \in Links, ClearHandshake(l)
    PROVE  /\ hs'[l].state = "Zeroed" /\ hs'[l].lastTimestamp = hs[l].lastTimestamp
           /\ \A x \in Links : x # l => hs'[x] = hs[x]
<1>1. hs' = [hs EXCEPT ![l] = ZeroedHandshake(hs[l])]
  BY DEF ClearHandshake
<1>2. hs[l] \in Handshake /\ DOMAIN hs = Links
  BY Types
<1>3. /\ ZeroedHandshake(hs[l]).state = "Zeroed"
      /\ ZeroedHandshake(hs[l]).lastTimestamp = hs[l].lastTimestamp
  BY <1>2 DEF ZeroedHandshake, Handshake
<1> QED BY <1>1, <1>2, <1>3

LEMMA InitiationCheckFacts ==
    ASSUME IInv, NEW n \in Nodes, NEW w \in Workers, NEW m \in net[n],
           ConsumeInitiationCheck(n, w, m)
    PROVE  \E l \in Links : InitiationChecked(n, w, m, l)
<1> DEFINE l == <<n, m.from>>
<1>1. /\ worker[n][w].pc = "idle" /\ m.type = "initiation"
      /\ m.e > hs[l].lastTimestamp
      /\ worker' = SetWorker(n, w, [pc |-> "initiation checked", peer |-> m.from, msg |-> m])
      /\ UNCHANGED <<load, hs, kps, fresh, net, derived>>
  BY Zenon DEF ConsumeInitiationCheck
<1>2. m \in Packet(n)
  BY Types DEF NetOK
<1>3. m.from \in Nodes \ {n}
  BY <1>1, <1>2, Zenon DEF Packet, Initiation, Response
<1>4. l \in Links /\ l[1] = n /\ l[2] = m.from
  BY <1>3 DEF Links
<1>5. WorkerAt(n, w, "initiation checked", m.from) /\ worker'[n][w].msg = m
  <2>1. PICK q : q = m.from
    BY Zenon
  <2>2. worker' = SetWorker(n, w, [pc |-> "initiation checked", peer |-> q, msg |-> m])
    BY <1>1, <2>1, Zenon
  <2>3. WorkerAt(n, w, "initiation checked", q) /\ worker'[n][w].msg = m
    BY <2>2, WorkerTakes, Zenon
  <2> QED BY <2>1, <2>3, Zenon
<1> HIDE DEF l
<1>6. WorkerAt(n, w, "initiation checked", l[2])
  BY <1>4, <1>5, Zenon
<1>7. InitiationChecked(n, w, m, l)
  BY <1>1, <1>4, <1>5, <1>6, Zenon DEF InitiationChecked
<1> QED BY <1>4, <1>7

LEMMA ResponseCheckFacts ==
    ASSUME IInv, Roles, NEW n \in Nodes, NEW w \in Workers, NEW m \in net[n],
           ConsumeResponseCheck(n, w, m)
    PROVE  \E l \in Links : ResponseChecked(n, w, m, l)
<1> DEFINE p == table[n][m.receiver].peer
           l == <<n, p>>
           c == hs[l].chain
<1>1. /\ worker[n][w].pc = "idle" /\ m.type = "response" /\ m.receiver \in DOMAIN table[n]
      /\ hs[l].state = "InitiationCreated" /\ Append(c, m.key[4]) = m.key
      /\ worker' = SetWorker(n, w, [pc |-> "response checked", peer |-> p, msg |-> m])
      /\ UNCHANGED <<load, hs, kps, fresh, net, derived>>
  BY Zenon DEF ConsumeResponseCheck
<1>2. p \in Nodes \ {n}
  BY <1>1, Types, Zenon DEF TablesOK, IsTable
<1> HIDE DEF p
<1>3. l \in Links /\ l[1] = n /\ l[2] = p
  BY <1>2 DEF Links
<1>4. Len(c) = 3 /\ Ends(c, n, p) /\ c \in Transcript
  BY <1>1, <1>3, Types, Zenon DEF Roles, HandshakeEnds, Handshake
<1> HIDE DEF c
<1>5. m.key[1] = c[1] /\ m.key[2] = c[2] /\ m.key[3] = c[3]
  <2>1. PICK d \in Transcript : d = c /\ Len(d) = 3 /\ Append(d, m.key[4]) = m.key
    BY <1>1, <1>4, Zenon
  <2>2. PICK x : x = m.key[4]
    BY Zenon
  <2>3. Len(d) = 3 => Append(d, x)[1] = d[1] /\ Append(d, x)[2] = d[2] /\ Append(d, x)[3] = d[3]
    BY Extended
  <2> QED BY <2>1, <2>2, <2>3, Zenon
<1>6. Ends(m.key, n, p) /\ m.key[3] = c[3]
  BY <1>4, <1>5 DEF Ends
<1>7. WorkerAt(n, w, "response checked", p) /\ worker'[n][w].msg = m
  <2>1. PICK q : q = p
    BY Zenon
  <2>2. worker' = SetWorker(n, w, [pc |-> "response checked", peer |-> q, msg |-> m])
    BY <1>1, <2>1, Zenon
  <2>3. WorkerAt(n, w, "response checked", q) /\ worker'[n][w].msg = m
    BY <2>2, WorkerTakes, Zenon
  <2> QED BY <2>1, <2>3, Zenon
<1>8. c = hs[l].chain
  BY DEF c
<1> HIDE DEF l
<1>9. WorkerAt(n, w, "response checked", l[2]) /\ Ends(m.key, n, l[2])
  BY <1>3, <1>6, <1>7, Zenon
<1>10. ResponseChecked(n, w, m, l)
  BY <1>1, <1>3, <1>6, <1>7, <1>8, <1>9, Zenon DEF ResponseChecked
<1> QED BY <1>3, <1>10

LEMMA InitiationUpdateFacts ==
    ASSUME IInv, NEW n \in Nodes, NEW w \in Workers, ConsumeInitiationUpdate(n, w)
    PROVE  \E l \in Links : \E m : InitiationUpdated(n, w, m, l)
<1>1. worker[n][w].pc = "initiation checked" /\ UNCHANGED <<load, kps, fresh, net, derived>>
  BY Zenon DEF ConsumeInitiationUpdate
<1>2. PICK l \in Links : l[1] = n /\ l[2] = worker[n][w].peer
                         /\ l = <<n, worker[n][w].peer>>
  BY <1>1, WorkerLink, Zenon
<1>3. PICK m : m = worker[n][w].msg
  BY Zenon
<1>4. worker[n][w].msg \in Initiation(n)
  BY <1>1, BusyWorker, Zenon DEF IInv
<1>5. m.e \in Nat
  BY <1>3, <1>4 DEF Initiation
<1> DEFINE t == hs[l].lastTimestamp
           new == [hs[l] EXCEPT !.chain = <<l[2], l[1], m.e>>, !.remoteIndex = m.sender,
                                !.lastTimestamp = IF m.e > t THEN m.e ELSE t,
                                !.state = "InitiationConsumed"]
<1>6. hs' = [hs EXCEPT ![l] = new]
  <2>1. PICK p : p = worker[n][w].peer
    BY Zenon
  <2>2. hs' = [hs EXCEPT ![<<n, p>>].chain = <<p, n, m.e>>,
                         ![<<n, p>>].remoteIndex = m.sender,
                         ![<<n, p>>].lastTimestamp = IF m.e > @ THEN m.e ELSE @,
                         ![<<n, p>>].state = "InitiationConsumed"]
    BY <1>3, <2>1, Zenon DEF ConsumeInitiationUpdate
  <2>3. l[1] = n /\ l[2] = p /\ l = <<n, p>>
    BY <1>2, <2>1, Zenon
  <2> QED BY <2>2, <2>3, Zenon
<1>7. hs[l] \in Handshake /\ DOMAIN hs = Links
  BY Types
<1>8. /\ new.state = "InitiationConsumed" /\ new.chain = <<l[2], l[1], m.e>>
      /\ new.lastTimestamp = IF m.e > t THEN m.e ELSE t
  BY <1>7 DEF Handshake
<1>9. /\ Len(<<l[2], l[1], m.e>>) = 3 /\ Ends(<<l[2], l[1], m.e>>, l[2], l[1])
      /\ <<l[2], l[1], m.e>>[3] = m.e
  BY DEF Ends
<1> HIDE DEF new
<1>10. hs'[l] = new /\ OtherLinksStay(l)
  BY <1>6, <1>7 DEF OtherLinksStay
<1>11. WorkerAt(n, w, "initiation consumed", l[2])
  <2>1. worker' = SetWorker(n, w, [pc |-> "initiation consumed", peer |-> worker[n][w].peer])
    BY Zenon DEF ConsumeInitiationUpdate
  <2>2. WorkerAt(n, w, "initiation consumed", worker[n][w].peer)
    BY <2>1, WorkerGoesOn, Zenon
  <2> QED BY <1>2, <2>2, Zenon
<1>12. InitiationUpdated(n, w, m, l)
  BY <1>1, <1>2, <1>3, <1>5, <1>8, <1>9, <1>10, <1>11, Zenon DEF InitiationUpdated
<1> QED BY <1>12

LEMMA ResponseUpdateFacts ==
    ASSUME IInv, NEW n \in Nodes, NEW w \in Workers, ConsumeResponseUpdate(n, w)
    PROVE  \E l \in Links : \E m : ResponseUpdated(n, w, m, l)
<1>1. worker[n][w].pc = "response checked" /\ UNCHANGED <<load, kps, fresh, net, derived>>
  BY Zenon DEF ConsumeResponseUpdate
<1>2. PICK l \in Links : l[1] = n /\ l[2] = worker[n][w].peer
                         /\ l = <<n, worker[n][w].peer>>
  BY <1>1, WorkerLink, Zenon
<1>3. PICK m : m = worker[n][w].msg
  BY Zenon
<1> DEFINE new == [hs[l] EXCEPT !.chain = m.key, !.remoteIndex = m.sender,
                                !.state = "ResponseConsumed"]
<1>4. hs' = [hs EXCEPT ![l] = new]
  BY <1>2, <1>3, Zenon DEF ConsumeResponseUpdate
<1>5. hs[l] \in Handshake /\ DOMAIN hs = Links
  BY Types
<1>6. /\ new.state = "ResponseConsumed" /\ new.chain = m.key /\ new.remoteIndex = m.sender
      /\ new.lastTimestamp = hs[l].lastTimestamp
  BY <1>5 DEF Handshake
<1> HIDE DEF new
<1>7. hs'[l] = new /\ OtherLinksStay(l)
  BY <1>4, <1>5 DEF OtherLinksStay
<1>8. WorkerAt(n, w, "response consumed", l[2])
  <2>1. worker' = SetWorker(n, w, [pc |-> "response consumed", peer |-> worker[n][w].peer])
    BY Zenon DEF ConsumeResponseUpdate
  <2>2. WorkerAt(n, w, "response consumed", worker[n][w].peer)
    BY <2>1, WorkerGoesOn, Zenon
  <2> QED BY <1>2, <2>2, Zenon
<1>9. ResponseUpdated(n, w, m, l)
  BY <1>1, <1>2, <1>3, <1>6, <1>7, <1>8, Zenon DEF ResponseUpdated
<1> QED BY <1>9

LEMMA ResponseFacts ==
    ASSUME IInv, NEW n \in Nodes, NEW w \in Workers, CreateMessageResponse(n, w)
    PROVE  \E l \in Links : ResponseMade(n, w, l) \/ ResponseFailed(n, w, l)
<1>1. worker[n][w].pc = "initiation consumed" /\ UNCHANGED <<load, kps, net, derived>>
  BY Zenon DEF CreateMessageResponse
<1>2. PICK l \in Links : l[1] = n /\ l[2] = worker[n][w].peer
                         /\ l = <<n, worker[n][w].peer>>
  BY <1>1, WorkerLink, Zenon
<1>3. CASE hs[l].state # "InitiationConsumed"
  <2>1. worker' = SetWorker(n, w, Idle) /\ UNCHANGED <<hs, fresh>>
    BY <1>2, <1>3, Zenon DEF CreateMessageResponse
  <2>2. WorkerStops(n, w)
    BY <2>1, WorkerIsDone
  <2>3. ResponseFailed(n, w, l)
    BY <1>1, <1>2, <1>3, <2>1, <2>2, Zenon DEF ResponseFailed
  <2> QED BY <2>3
<1>4. CASE hs[l].state = "InitiationConsumed"
  <2>1. PICK key, p : key = Append(hs[l].chain, fresh[n] + 1) /\ p = worker[n][w].peer
    BY Zenon
  <2>2. PICK i : /\ hs' = [hs EXCEPT ![l].chain = key, ![l].localIndex = i,
                                     ![l].state = "ResponseCreated"]
                 /\ worker' = SetWorker(n, w,
                       [pc |-> "response created", peer |-> p,
                        msg |-> [type |-> "response", sender |-> i,
                                 receiver |-> hs[l].remoteIndex, key |-> key]])
    <3>1. PICK i :
             /\ hs' = [hs EXCEPT ![l].chain = Append(hs[l].chain, fresh[n] + 1),
                                 ![l].localIndex = i, ![l].state = "ResponseCreated"]
             /\ worker' = SetWorker(n, w,
                   [pc |-> "response created", peer |-> worker[n][w].peer,
                    msg |-> [type |-> "response", sender |-> i,
                             receiver |-> hs[l].remoteIndex,
                             key |-> Append(hs[l].chain, fresh[n] + 1)]])
      <4> DEFINE q == <<n, worker[n][w].peer>>
      <4>1. hs[q].state = "InitiationConsumed"
        BY <1>2, <1>4
      <4>2. \E i \in FreeIndices(Delete(table[n], hs[q].localIndex)) :
               /\ hs' = [hs EXCEPT ![q].chain = Append(hs[q].chain, fresh[n] + 1),
                                   ![q].localIndex = i, ![q].state = "ResponseCreated"]
               /\ table' = [table EXCEPT ![n] = Reindexed(@, hs[q].localIndex, i,
                                                          worker[n][w].peer)]
               /\ worker' = SetWorker(n, w,
                     [pc |-> "response created", peer |-> worker[n][w].peer,
                      msg |-> [type |-> "response", sender |-> i,
                               receiver |-> hs[q].remoteIndex,
                               key |-> Append(hs[q].chain, fresh[n] + 1)]])
        BY <4>1, Zenon DEF CreateMessageResponse
      <4>3. q = l
        BY <1>2
      <4> HIDE DEF q
      <4> QED BY <4>2, <4>3, Zenon
    <3> QED BY <2>1, <3>1, Zenon
  <2>3. fresh' = [fresh EXCEPT ![n] = fresh[n] + 1]
    BY <1>2, <1>4, Zenon DEF CreateMessageResponse
  <2> DEFINE new == [hs[l] EXCEPT !.chain = key, !.localIndex = i,
                                  !.state = "ResponseCreated"]
  <2>4. hs' = [hs EXCEPT ![l] = new]
    BY <2>2, Zenon
  <2>5. hs[l] \in Handshake /\ DOMAIN hs = Links
    BY Types
  <2>6. /\ new.state = "ResponseCreated" /\ new.chain = key /\ new.localIndex = i
        /\ new.lastTimestamp = hs[l].lastTimestamp
    BY <2>5 DEF Handshake
  <2> HIDE DEF new
  <2>7. hs'[l] = new /\ OtherLinksStay(l)
    BY <2>4, <2>5 DEF OtherLinksStay
  <2>8. PICK m : m = [type |-> "response", sender |-> i, receiver |-> hs[l].remoteIndex,
                      key |-> key]
    BY Zenon
  <2>9. m.sender = i /\ m.key = key
    BY <2>8
  <2>10. worker' = SetWorker(n, w, [pc |-> "response created", peer |-> p, msg |-> m])
    BY <2>2, <2>8, Zenon
  <2>11. WorkerAt(n, w, "response created", p) /\ worker'[n][w].msg = m
    BY <2>10, WorkerTakes, Zenon
  <2>12. ResponseMade(n, w, l)
    BY <1>1, <1>2, <1>4, <2>1, <2>3, <2>6, <2>7, <2>9, <2>11, Zenon DEF ResponseMade
  <2> QED BY <2>12
<1> QED BY <1>3, <1>4

-----------------------------------------------------------------------------
(* The steps keep AInv *)

LEMMA SlotsSame ==
    ASSUME AInv, UNCHANGED <<kps, derived>>
    PROVE  SlotsMade' /\ ConfirmedBeforeUse'
  BY DEF AInv, SlotsMade, ConfirmedBeforeUse, Made, Slots, Opposite

LEMMA DataSame ==
    ASSUME AInv, UNCHANGED <<net, derived>>
    PROVE  DataMade'
  BY DEF AInv, DataMade, Made

\* A fresh ephemeral is later than the ones before.
LEMMA Later ==
    ASSUME IInv, NEW n \in Nodes, fresh' = [fresh EXCEPT ![n] = fresh[n] + 1]
    PROVE  /\ fresh' \in [Nodes -> Nat] /\ fresh'[n] = fresh[n] + 1
           /\ \A x \in Nodes : fresh[x] <= fresh'[x]
  BY Types

LEMMA InitiationAgrees ==
    ASSUME IInv, AInv, NEW l \in Links, CreateMessageInitiation(l)
    PROVE  AInv'
<1>1. l[1] \in Nodes /\ l[2] \in Nodes
  BY DEF Links
<1>2. /\ hs'[l].state = "InitiationCreated"
      /\ hs'[l].chain = <<l[1], l[2], fresh[l[1]] + 1>>
      /\ \A x \in Links : x # l => hs'[x] = hs[x]
      /\ fresh' = [fresh EXCEPT ![l[1]] = fresh[l[1]] + 1]
      /\ UNCHANGED <<load, kps, worker, derived>>
  BY InitiationFacts
<1>3. PICK m : net' = Sent(l[2], m) /\ m.type = "initiation"
  <2>1. PICK i : net' = Sent(l[2], [type |-> "initiation", from |-> l[1],
                                    sender |-> i, e |-> fresh[l[1]] + 1])
    BY InitiationFacts, Zenon
  <2>2. [type |-> "initiation", from |-> l[1], sender |-> i, e |-> fresh[l[1]] + 1].type
           = "initiation"
    OBVIOUS
  <2> QED BY <2>1, <2>2, Zenon
<1>4. \A x \in Nodes : net'[x] = IF x = l[2] THEN net[x] \cup {m} ELSE net[x]
  BY <1>1, <1>3, NetSent
<1>5. \A x \in Links : Made(x)' = Made(x)
  BY <1>2, MadeSame
<1>6. HandshakeEnds(l)'
  <2>1. PICK c : c = hs'[l].chain /\ Len(c) = 3 /\ Ends(c, l[1], l[2])
    BY <1>2 DEF Ends
  <2> QED BY <1>2, <2>1 DEF HandshakeEnds
<1>7. Roles'
  BY <1>2, <1>5, <1>6, RolesFrame DEF AInv
<1>8. ~ CanDerive(l)'
  BY <1>2 DEF CanDerive
<1>9. Claims' \subseteq Claims
  <2>1. \A n \in Nodes : \A x \in net'[n] : x.type = "response" => x \in net[n]
    BY <1>3, <1>4, Zenon
  <2> QED BY <1>2, <1>5, <1>8, <2>1, ClaimsFrame
<1>10. ClaimsFresh' /\ ClaimsAgree'
  BY <1>1, <1>2, <1>9, ClaimsKept, Later, Types DEF AInv
<1>11. DataMade'
  <2>1. \A n \in Nodes : \A x \in net'[n] : x.type = "data" => x \in net[n]
    BY <1>3, <1>4, Zenon
  <2> QED BY <1>5, <2>1, DataFrame DEF AInv
<1> QED BY <1>2, <1>7, <1>10, <1>11, SlotsSame DEF AInv

LEMMA ClaimsStay ==
    ASSUME IInv, AInv, Claims' \subseteq Claims, fresh' = fresh
    PROVE  ClaimsFresh' /\ ClaimsAgree'
<1>1. ClaimsFresh /\ ClaimsAgree
  BY Zenon DEF AInv
<1> QED BY <1>1, ClaimsKept, ClockStays

\* A step of a worker on its handshake, that leaves the keypairs and the
\* network alone, and makes no new claim.
LEMMA WorkerAgrees ==
    ASSUME IInv, AInv, NEW n \in Nodes, NEW w \in Workers, NEW l \in Links,
           \A x \in Nodes, y \in Workers : x # n \/ y # w => worker'[x][y] = worker[x][y],
           OtherLinksStay(l), UNCHANGED <<kps, fresh, net, derived>>,
           WorkerEnds(n, w)', hs'[l] = hs[l] \/ HandshakeEnds(l)',
           HoldsResponse(n, w)' =>
              <<worker'[n][w].msg.key, worker'[n][w].msg.sender>> \in Claims,
           CanDerive(l)' => \/ hs'[l] = hs[l]
                            \/ <<NewKeypair(l)'.key, Addressed(NewKeypair(l)')>> \in Claims
    PROVE  AInv'
<1>1. \A x \in Links : Made(x)' = Made(x)
  BY MadeSame
<1>2. \A x \in Links : x # l => hs'[x] = hs[x]
  BY DEF OtherLinksStay
<1>3. Roles'
  BY <1>1, <1>2, RolesFrame DEF AInv
<1>4. Claims' \subseteq Claims
  <2>1. \A x \in Nodes : \A m \in net'[x] : m.type = "response" => m \in net[x]
    OBVIOUS
  <2>2. \A x \in Nodes, y \in Workers : HoldsResponse(x, y)' =>
              \/ worker'[x][y] = worker[x][y]
              \/ <<worker'[x][y].msg.key, worker'[x][y].msg.sender>> \in Claims
    OBVIOUS
  <2>3. \A x \in Links : CanDerive(x)' =>
              \/ hs'[x] = hs[x]
              \/ <<NewKeypair(x)'.key, Addressed(NewKeypair(x)')>> \in Claims
    BY <1>2
  <2> QED BY <1>1, <2>1, <2>2, <2>3, ClaimsFrame
<1>5. ClaimsFresh' /\ ClaimsAgree'
  BY <1>4, ClaimsStay
<1> QED BY <1>3, <1>5, SlotsSame, DataSame DEF AInv

LEMMA StopAgrees ==
    ASSUME IInv, AInv, NEW n \in Nodes, NEW w \in Workers, WorkerStops(n, w),
           UNCHANGED <<hs, kps, fresh, net, derived>>, NEW l \in Links
    PROVE  AInv'
<1>1. worker'[n][w].pc = "idle"
  BY DEF WorkerStops, Idle
<1>2. WorkerEnds(n, w)' /\ ~ HoldsResponse(n, w)'
  BY <1>1 DEF WorkerEnds, HoldsResponse
<1>3. hs'[l] = hs[l] /\ OtherLinksStay(l)
  BY DEF OtherLinksStay
<1>4. \A x \in Nodes, y \in Workers : x # n \/ y # w => worker'[x][y] = worker[x][y]
  BY DEF WorkerStops
<1> QED BY <1>2, <1>3, <1>4, WorkerAgrees, Zenon

LEMMA CheckAgrees ==
    ASSUME IInv, AInv, NEW n \in Nodes, NEW w \in Workers, NEW m \in net[n],
           Receive(n, w, m)
    PROVE  AInv'
<1>1. CASE ConsumeInitiationCheck(n, w, m)
  <2>1. PICK l \in Links : InitiationChecked(n, w, m, l)
    BY <1>1, InitiationCheckFacts
  <2>2. /\ worker'[n][w].pc = "initiation checked"
        /\ \A x \in Nodes, y \in Workers : x # n \/ y # w => worker'[x][y] = worker[x][y]
        /\ UNCHANGED <<hs, kps, fresh, net, derived>>
    BY <2>1, Zenon DEF InitiationChecked, WorkerAt
  <2>3. WorkerEnds(n, w)' /\ ~ HoldsResponse(n, w)'
    BY <2>2, Zenon DEF WorkerEnds, HoldsResponse
  <2>4. hs'[l] = hs[l] /\ OtherLinksStay(l)
    BY <2>2, Zenon DEF OtherLinksStay
  <2> QED BY <2>2, <2>3, <2>4, WorkerAgrees, Zenon
<1>2. CASE ConsumeResponseCheck(n, w, m)
  <2>0. Roles
    BY DEF AInv
  <2>1. PICK l \in Links : ResponseChecked(n, w, m, l)
    BY <1>2, <2>0, ResponseCheckFacts
  <2>2. /\ worker'[n][w].pc = "response checked" /\ worker'[n][w].peer = l[2]
        /\ worker'[n][w].msg = m /\ Ends(m.key, n, l[2]) /\ m.type = "response"
        /\ \A x \in Nodes, y \in Workers : x # n \/ y # w => worker'[x][y] = worker[x][y]
        /\ UNCHANGED <<hs, kps, fresh, net, derived>>
    BY <2>1, Zenon DEF ResponseChecked, WorkerAt
  <2>3. WorkerEnds(n, w)'
    BY <2>2, Zenon DEF WorkerEnds
  <2>4. <<m.key, m.sender>> \in Claims
    BY <2>2, Zenon DEF Claims, NetClaims
  <2>5. hs'[l] = hs[l] /\ OtherLinksStay(l)
    BY <2>2, Zenon DEF OtherLinksStay
  <2> QED BY <2>2, <2>3, <2>4, <2>5, WorkerAgrees, Zenon
<1> QED BY <1>1, <1>2 DEF Receive

LEMMA InitiationUpdateAgrees ==
    ASSUME IInv, AInv, NEW n \in Nodes, NEW w \in Workers, ConsumeInitiationUpdate(n, w)
    PROVE  AInv'
<1>0. PICK l \in Links : \E m : InitiationUpdated(n, w, m, l)
  BY InitiationUpdateFacts
<1>1. PICK m : InitiationUpdated(n, w, m, l)
  BY <1>0
<1>2. /\ hs'[l].state = "InitiationConsumed" /\ Ends(hs'[l].chain, l[2], l[1])
      /\ Len(hs'[l].chain) = 3 /\ OtherLinksStay(l)
      /\ worker'[n][w].pc = "initiation consumed"
      /\ \A x \in Nodes, y \in Workers : x # n \/ y # w => worker'[x][y] = worker[x][y]
      /\ UNCHANGED <<kps, fresh, net, derived>>
  BY <1>1, Zenon DEF InitiationUpdated, WorkerAt
<1>3. WorkerEnds(n, w)' /\ ~ HoldsResponse(n, w)'
  BY <1>2, Zenon DEF WorkerEnds, HoldsResponse
<1>4. HandshakeEnds(l)' /\ ~ CanDerive(l)'
  BY <1>2, Zenon DEF HandshakeEnds, CanDerive
<1> QED BY <1>2, <1>3, <1>4, WorkerAgrees, Zenon

LEMMA ResponseUpdateAgrees ==
    ASSUME IInv, AInv, NEW n \in Nodes, NEW w \in Workers, ConsumeResponseUpdate(n, w)
    PROVE  AInv'
<1>0. PICK l \in Links : \E m : ResponseUpdated(n, w, m, l)
  BY ResponseUpdateFacts
<1>1. PICK m : ResponseUpdated(n, w, m, l)
  BY <1>0
<1>2. /\ l[1] = n /\ worker[n][w].pc = "response checked" /\ worker[n][w].peer = l[2]
      /\ m = worker[n][w].msg
      /\ hs'[l].state = "ResponseConsumed" /\ hs'[l].chain = m.key
      /\ hs'[l].remoteIndex = m.sender /\ OtherLinksStay(l)
      /\ worker'[n][w].pc = "response consumed"
      /\ \A x \in Nodes, y \in Workers : x # n \/ y # w => worker'[x][y] = worker[x][y]
      /\ UNCHANGED <<kps, fresh, net, derived>>
  BY <1>1, Zenon DEF ResponseUpdated, WorkerAt
<1>3. WorkerEnds(n, w)' /\ ~ HoldsResponse(n, w)'
  BY <1>2, Zenon DEF WorkerEnds, HoldsResponse
<1>4. HandshakeEnds(l)'
  <2>1. Ends(m.key, l[1], l[2])
    BY <1>2, Zenon DEF AInv, Roles, WorkerEnds
  <2> QED BY <1>2, <2>1, Zenon DEF HandshakeEnds
<1>5. <<NewKeypair(l)'.key, Addressed(NewKeypair(l)')>> \in Claims
  <2>1. HoldsResponse(n, w)
    BY <1>2, Zenon DEF HoldsResponse
  <2>2. <<m.key, m.sender>> \in Claims
    BY <1>2, <2>1, WorkerClaim, Zenon
  <2>3. NewKeypair(l)'.key = m.key
    BY <1>2, Zenon DEF NewKeypair
  <2>4. NewKeypair(l)'.isInitiator /\ NewKeypair(l)'.remoteIndex = m.sender
    BY <1>2, Zenon DEF NewKeypair
  <2>5. Addressed(NewKeypair(l)') = m.sender
    BY <2>4 DEF Addressed
  <2> QED BY <2>2, <2>3, <2>5 DEF Claims
<1> QED BY <1>2, <1>3, <1>4, <1>5, WorkerAgrees, Zenon

\* CreateMessageResponse makes one new claim, with an ephemeral later than all.
LEMMA ResponseAgrees ==
    ASSUME IInv, AInv, NEW n \in Nodes, NEW w \in Workers, NEW l \in Links,
           ResponseMade(n, w, l)
    PROVE  AInv'
<1>1. /\ l[1] = n /\ hs[l].state = "InitiationConsumed" /\ hs'[l].state = "ResponseCreated"
      /\ hs'[l].chain = Append(hs[l].chain, fresh[n] + 1)
      /\ worker'[n][w].pc = "response created" /\ worker'[n][w].peer = l[2]
      /\ worker'[n][w].msg.key = hs'[l].chain
      /\ worker'[n][w].msg.sender = hs'[l].localIndex
      /\ \A x \in Nodes, y \in Workers : x # n \/ y # w => worker'[x][y] = worker[x][y]
      /\ \A x \in Links : x # l => hs'[x] = hs[x]
      /\ fresh' = [fresh EXCEPT ![n] = fresh[n] + 1]
      /\ UNCHANGED <<kps, net, derived>>
  BY Zenon DEF ResponseMade, WorkerAt, OtherLinksStay
<1>2. /\ fresh \in [Nodes -> Nat] /\ fresh' \in [Nodes -> Nat]
      /\ fresh'[n] = fresh[n] + 1 /\ \A x \in Nodes : fresh[x] <= fresh'[x]
  BY <1>1, Later, Types, Zenon
<1>3. Len(hs[l].chain) = 3 /\ Ends(hs[l].chain, l[2], l[1]) /\ hs[l].chain \in Transcript
  BY <1>1, Types, Zenon DEF AInv, Roles, HandshakeEnds, Handshake
<1>4. PICK key : key = hs'[l].chain
  BY Zenon
<1>5. Ends(key, l[2], n) /\ key[4] = fresh[n] + 1
  <2>1. PICK c \in Transcript : c = hs[l].chain
    BY <1>3
  <2>2. PICK x : x = fresh[n] + 1
    BY Zenon
  <2>3. Append(c, x)[4] = x /\ Append(c, x)[1] = c[1] /\ Append(c, x)[2] = c[2]
    BY <1>3, <2>1, Extended, Zenon
  <2>4. key = Append(c, x)
    BY <1>1, <1>4, <2>1, <2>2, Zenon
  <2>5. key[4] = x /\ key[1] = c[1] /\ key[2] = c[2]
    BY <2>3, <2>4, Zenon
  <2> QED BY <1>1, <1>3, <2>1, <2>2, <2>5, Zenon DEF Ends
<1>6. \A x \in Links : Made(x)' = Made(x)
  BY <1>1, MadeSame, Zenon
<1>7. Roles'
  <2>1. HandshakeEnds(l)'
    BY <1>1, <1>4, <1>5, Zenon DEF HandshakeEnds
  <2>2. WorkerEnds(n, w)'
    BY <1>1, <1>4, <1>5, Zenon DEF WorkerEnds
  <2> QED BY <1>1, <1>6, <2>1, <2>2, RolesFrame, Zenon DEF AInv
<1>8. PICK c : c = <<key, hs'[l].localIndex>>
  BY Zenon
<1>9. c[1] = key
  BY <1>8
<1>10. Claims' \subseteq Claims \cup {c}
  <2>1. <<worker'[n][w].msg.key, worker'[n][w].msg.sender>> = c
    BY <1>1, <1>4, <1>8, Zenon
  <2>2. NewKeypair(l)'.key = key /\ NewKeypair(l)'.localIndex = hs'[l].localIndex
    BY <1>4 DEF NewKeypair
  <2>3. ~ NewKeypair(l)'.isInitiator
    BY <1>1, Zenon DEF NewKeypair
  <2>4. <<NewKeypair(l)'.key, Addressed(NewKeypair(l)')>> = c
    BY <1>8, <2>2, <2>3 DEF Addressed
  <2>5. PICK C : C = Claims \cup {c}
    BY Zenon
  <2>6. Claims \subseteq C /\ c \in C
    BY <2>5
  <2>7. \A x \in Nodes, y \in Workers : HoldsResponse(x, y)' =>
              \/ worker'[x][y] = worker[x][y]
              \/ <<worker'[x][y].msg.key, worker'[x][y].msg.sender>> \in C
    BY <1>1, <2>1, <2>6, Zenon
  <2>8. \A x \in Links : CanDerive(x)' =>
              \/ hs'[x] = hs[x]
              \/ <<NewKeypair(x)'.key, Addressed(NewKeypair(x)')>> \in C
    BY <1>1, <2>4, <2>6, Zenon
  <2>9. \A x \in Nodes : \A m \in net'[x] : m.type = "response" => m \in net[x]
    BY <1>1, Zenon
  <2>10. Claims' \subseteq C
    BY <1>6, <2>6, <2>7, <2>8, <2>9, ClaimsWithin
  <2> QED BY <2>5, <2>10
<1>11. \A d \in Claims : /\ d[1][2] \in Nodes /\ d[1][4] \in Nat
                         /\ d[1][4] <= fresh[d[1][2]] /\ d[1] # key
  <2> SUFFICES ASSUME NEW d \in Claims
               PROVE  /\ d[1][2] \in Nodes /\ d[1][4] \in Nat
                      /\ d[1][4] <= fresh[d[1][2]] /\ d[1] # key
    OBVIOUS
  <2>1. d[1][2] \in Nodes /\ d[1][4] \in Nat /\ d[1][4] <= fresh[d[1][2]]
    BY DEF AInv, ClaimsFresh
  <2>2. CASE d[1] = key
    <3>1. key[4] <= fresh[n]
      BY <1>5, <2>1, <2>2 DEF Ends
    <3> QED BY <1>2, <1>5, <3>1
  <2> QED BY <2>1, <2>2
<1>12. ClaimsFresh'
  <2> SUFFICES ASSUME NEW d \in Claims'
               PROVE  d[1][2] \in Nodes /\ d[1][4] \in Nat /\ d[1][4] <= fresh'[d[1][2]]
    BY DEF ClaimsFresh
  <2>1. CASE d \in Claims
    <3>1. d[1][2] \in Nodes /\ d[1][4] \in Nat /\ d[1][4] <= fresh[d[1][2]]
      BY <1>11, <2>1
    <3> QED BY <1>2, <3>1
  <2>2. CASE d = c
    <3>1. d[1][2] = n /\ d[1][4] = fresh[n] + 1
      BY <1>5, <1>9, <2>2 DEF Ends
    <3> QED BY <1>2, <3>1
  <2> QED BY <1>10, <2>1, <2>2
<1>13. ClaimsAgree'
  BY <1>9, <1>10, <1>11 DEF AInv, ClaimsAgree
<1> QED BY <1>1, <1>7, <1>12, <1>13, SlotsSame, DataSame, Zenon DEF AInv

\* Rotated keeps to the keypairs that were made.
LEMMA RotatedSlots ==
    ASSUME IInv, AInv, NEW l \in Links, NEW k, k # None, NEW kp, kp = Rotated(kps[l], k)
    PROVE  /\ Slots(kp) \subseteq Made(l) \cup {k}
           /\ kp.next # None => ~ kp.next.isInitiator
           /\ kp.current = kps[l].current \/ kp.current.isInitiator
<1>1. Slots(kps[l]) \subseteq Made(l)
  BY DEF AInv, SlotsMade
<1>2. CASE k.isInitiator
  <2>1. /\ kp.current = k /\ kp.next = None
        /\ kp.previous = IF kps[l].next # None THEN kps[l].next ELSE kps[l].current
    BY <1>2 DEF Rotated
  <2> QED BY <1>1, <1>2, <2>1 DEF Slots
<1>3. CASE ~ k.isInitiator
  <2>1. kp.current = kps[l].current /\ kp.next = k /\ kp.previous = None
    BY <1>3 DEF Rotated
  <2> QED BY <1>1, <1>3, <2>1 DEF Slots
<1> QED BY <1>2, <1>3

\* BeginSymmetricSession at the end of a worker's step.
LEMMA SessionAgrees ==
    ASSUME IInv, AInv, NEW n \in Nodes, NEW w \in Workers, WorkerStops(n, w),
           NEW l \in Links, NEW k, SessionMade(l, k), fresh' = fresh,
           \A x \in Nodes : \A m \in net'[x] :
              \/ m \in net[x]
              \/ m.type = "response" /\ <<m.key, m.sender>> \in Claims
              \/ m.type = "data" /\ \E o \in Made(l)' :
                    o.key = m.key /\ o.isInitiator = m.fromInitiator
    PROVE  AInv'
<1>1. /\ CanDerive(l) /\ k = NewKeypair(l) /\ k # None
      /\ k.key = hs[l].chain /\ k.isInitiator = (hs[l].state = "ResponseConsumed")
      /\ hs'[l].state = "Zeroed" /\ \A x \in Links : x # l => hs'[x] = hs[x]
      /\ kps'[l] = Rotated(kps[l], k) /\ \A x \in Links : x # l => kps'[x] = kps[x]
      /\ Made(l)' = Made(l) \cup {k} /\ \A x \in Links : x # l => Made(x)' = Made(x)
  BY DEF SessionMade, OtherLinksStay
<1>2. /\ worker'[n][w].pc = "idle"
      /\ \A x \in Nodes, y \in Workers : x # n \/ y # w => worker'[x][y] = worker[x][y]
  BY DEF WorkerStops, Idle
<1>3. HandshakeEnds(l)' /\ ~ CanDerive(l)'
  BY <1>1 DEF HandshakeEnds, CanDerive
<1>4. WorkerEnds(n, w)' /\ ~ HoldsResponse(n, w)'
  BY <1>2 DEF WorkerEnds, HoldsResponse
<1>5. KeypairEnds(l, k)
  <2>1. HandshakeEnds(l)
    BY DEF AInv, Roles
  <2>2. CASE hs[l].state = "ResponseConsumed"
    <3>1. k.isInitiator /\ Ends(k.key, l[1], l[2])
      BY <1>1, <2>1, <2>2, Zenon DEF HandshakeEnds
    <3> QED BY <3>1 DEF KeypairEnds
  <2>3. CASE hs[l].state = "ResponseCreated"
    <3>1. ~ k.isInitiator /\ Ends(k.key, l[2], l[1])
      BY <1>1, <2>1, <2>3, Zenon DEF HandshakeEnds
    <3> QED BY <3>1 DEF KeypairEnds
  <2> QED BY <1>1, <2>2, <2>3 DEF CanDerive
<1>6. Roles'
  <2>1. \A x \in Links : \A o \in Made(x)' : o \in Made(x) \/ KeypairEnds(x, o)
    BY <1>1, <1>5
  <2> QED BY <1>1, <1>2, <1>3, <1>4, <2>1, RolesFrame DEF AInv
<1>7. <<k.key, Addressed(k)>> \in Claims
  BY <1>1 DEF Claims, HandshakeClaims
<1>8. Claims' \subseteq Claims
  <2>1. \A x \in Nodes : \A m \in net'[x] :
           m.type = "response" => m \in net[x] \/ <<m.key, m.sender>> \in Claims
    OBVIOUS
  <2>2. \A x \in Links : \A o \in Made(x)' : o \in Made(x) \/ <<o.key, Addressed(o)>> \in Claims
    BY <1>1, <1>7
  <2> QED BY <1>1, <1>2, <1>3, <1>4, <2>1, <2>2, ClaimsFrame
<1>9. ClaimsFresh' /\ ClaimsAgree'
  BY <1>8, ClaimsStay
<1>10. \A x \in Links : Made(x) \subseteq Made(x)'
  BY <1>1
<1>11. SlotsMade' /\ ConfirmedBeforeUse'
  <2>1. PICK kp : kp = kps'[l]
    BY Zenon
  <2>2. /\ Slots(kp) \subseteq Made(l) \cup {k}
        /\ kp.next # None => ~ kp.next.isInitiator
        /\ kp.current = kps[l].current \/ kp.current.isInitiator
    <3>1. kp = Rotated(kps[l], k) /\ k # None
      BY <1>1, <2>1
    <3> QED BY <3>1, RotatedSlots
  <2>3. \A x \in Links : \/ kps'[x] = kps[x]
                         \/ /\ Slots(kps'[x]) \subseteq Made(x)'
                            /\ kps'[x].next # None => ~ kps'[x].next.isInitiator
    BY <1>1, <2>1, <2>2
  <2>4. \A x \in Links : \/ kps'[x].current \in {kps[x].current, None}
                         \/ kps'[x].current.isInitiator
    BY <1>1, <2>1, <2>2
  <2> QED BY <1>10, <2>3, <2>4, SlotsFrame DEF AInv
<1>12. DataMade'
  <2>1. \A x \in Nodes : \A m \in net'[x] : m.type = "data" =>
           \/ m \in net[x]
           \/ \E q \in Links : \E o \in Made(q)' :
                 o.key = m.key /\ o.isInitiator = m.fromInitiator
    BY Zenon
  <2> QED BY <1>10, <2>1, DataFrame DEF AInv
<1> QED BY <1>6, <1>9, <1>11, <1>12 DEF AInv

\* What travels is under the current keypair of the sender.
LEMMA DataFields ==
    ASSUME NEW k
    PROVE  Data(k).type = "data" /\ Data(k).key = k.key /\ Data(k).fromInitiator = k.isInitiator
<1>1. Data(k).type = "data" /\ Data(k).key = k.key
  BY DEF Data
<1>2. Data(k).fromInitiator = k.isInitiator
  BY Zenon DEF Data
<1> QED BY <1>1, <1>2

LEMMA FinishAgrees ==
    ASSUME IInv, AInv, NEW n \in Nodes, NEW w \in Workers,
           FinishResponse(n, w) \/ FinishSession(n, w)
    PROVE  AInv'
<1>1. /\ worker[n][w].pc \in {"response created", "response consumed"}
      /\ worker' = SetWorker(n, w, Idle) /\ UNCHANGED fresh
  BY Zenon DEF FinishResponse, FinishSession
<1>2. WorkerStops(n, w)
  BY <1>1, WorkerIsDone, Zenon
<1>3. PICK l \in Links : l[1] = n /\ l[2] = worker[n][w].peer
                         /\ l = <<n, worker[n][w].peer>>
  BY <1>1, WorkerLink, Zenon
<1>4. l[2] \in Nodes
  BY DEF Links
<1>5. CASE UNCHANGED <<hs, kps, table, net, derived>>
  BY <1>1, <1>2, <1>5, StopAgrees, Zenon
<1>6. CASE /\ worker[n][w].pc = "response created" /\ BeginSymmetricSession(l)
           /\ net' = Sent(l[2], worker[n][w].msg)
  <2>1. PICK k : SessionMade(l, k)
    BY <1>6, SessionFacts, Zenon
  <2>2. PICK m : m = worker[n][w].msg
    BY Zenon
  <2>3. m \in Response
    BY <1>6, <2>2, BusyWorker, Zenon DEF IInv
  <2>4. m.type = "response"
    BY <2>3 DEF Response
  <2>5. HoldsResponse(n, w)
    BY <1>6, Zenon DEF HoldsResponse
  <2>6. <<m.key, m.sender>> \in Claims
    BY <2>2, <2>5, WorkerClaim, Zenon
  <2>7. \A x \in Nodes : net'[x] = IF x = l[2] THEN net[x] \cup {m} ELSE net[x]
    <3>1. net' = Sent(l[2], m)
      BY <1>6, <2>2, Zenon
    <3> QED BY <1>4, <3>1, NetSent, Zenon
  <2>8. \A x \in Nodes : \A y \in net'[x] :
           \/ y \in net[x]
           \/ y.type = "response" /\ <<y.key, y.sender>> \in Claims
    <3> SUFFICES ASSUME NEW x \in Nodes, NEW y \in net'[x], y \notin net[x]
                 PROVE  y.type = "response" /\ <<y.key, y.sender>> \in Claims
      BY Zenon
    <3>1. y = m
      BY <2>7, Zenon
    <3> QED BY <2>4, <2>6, <3>1
  <2> QED BY <1>1, <1>2, <2>1, <2>8, SessionAgrees, Zenon
<1>7. CASE /\ BeginSymmetricSession(l)
           /\ net' = IF kps'[l].current = None THEN net ELSE Sent(l[2], Data(kps'[l].current))
  <2>1. PICK k : SessionMade(l, k)
    BY <1>7, SessionFacts
  <2>2. PICK kp : kp = Rotated(kps[l], k)
    BY Zenon
  <2>3. Slots(kp) \subseteq Made(l)' /\ kps'[l] = kp
    BY <2>1, <2>2, RotatedSlots, Zenon DEF SessionMade
  <2>4. CASE kp.current = None
    <3>1. net' = net
      BY <1>7, <2>3, <2>4
    <3> QED BY <1>1, <1>2, <2>1, <3>1, SessionAgrees, Zenon
  <2>5. CASE kp.current # None
    <3>1. PICK m : m = Data(kp.current)
      BY Zenon
    <3>2. net' = Sent(l[2], m)
      BY <1>7, <2>3, <2>5, <3>1
    <3>3. m.type = "data" /\ m.key = kp.current.key
          /\ m.fromInitiator = kp.current.isInitiator
      BY <3>1, DataFields, Zenon
    <3>4. kp.current \in Made(l)'
      BY <2>3, <2>5 DEF Slots
    <3>5. \A x \in Nodes : net'[x] = IF x = l[2] THEN net[x] \cup {m} ELSE net[x]
      BY <1>4, <3>2, NetSent, Zenon
    <3>6. \A x \in Nodes : \A y \in net'[x] :
             \/ y \in net[x]
             \/ y.type = "data" /\ \E o \in Made(l)' :
                   o.key = y.key /\ o.isInitiator = y.fromInitiator
      <4> SUFFICES ASSUME NEW x \in Nodes, NEW y \in net'[x], y \notin net[x]
                   PROVE  y.type = "data" /\ \E o \in Made(l)' :
                             o.key = y.key /\ o.isInitiator = y.fromInitiator
        BY Zenon
      <4>1. y = m
        BY <3>5, Zenon
      <4> QED BY <3>3, <3>4, <4>1
    <3> QED BY <1>1, <1>2, <2>1, <3>6, SessionAgrees, Zenon
  <2> QED BY <2>4, <2>5
<1> QED BY <1>3, <1>5, <1>6, <1>7, Zenon DEF FinishResponse, FinishSession

LEMMA SendAgrees ==
    ASSUME IInv, AInv, NEW l \in Links, SendStagedPackets(l)
    PROVE  AInv'
<1>1. /\ kps[l].current # None /\ net' = Sent(l[2], Data(kps[l].current))
      /\ UNCHANGED <<load, hs, kps, worker, fresh, derived>>
  BY DEF SendStagedPackets
<1>2. l[2] \in Nodes
  BY DEF Links
<1>3. PICK k, m : k = kps[l].current /\ m = Data(k)
  BY Zenon
<1>4. m.type = "data" /\ m.key = k.key /\ m.fromInitiator = k.isInitiator
  BY <1>3, DataFields, Zenon
<1>5. k \in Made(l)
  BY <1>1, <1>3 DEF AInv, SlotsMade, Slots
<1>6. net' = Sent(l[2], m)
  BY <1>1, <1>3, Zenon
<1>7. \A x \in Nodes : net'[x] = IF x = l[2] THEN net[x] \cup {m} ELSE net[x]
  BY <1>2, <1>6, NetSent, Zenon
<1>8. \A x \in Links : Made(x)' = Made(x)
  BY <1>1, MadeSame
<1>9. Roles'
  BY <1>1, <1>8, RolesFrame DEF AInv
<1>10. Claims' \subseteq Claims
  <2>1. \A x \in Nodes : \A y \in net'[x] : y.type = "response" => y \in net[x]
    BY <1>4, <1>7, Zenon
  <2> QED BY <1>1, <1>8, <2>1, ClaimsFrame
<1>11. ClaimsFresh' /\ ClaimsAgree'
  BY <1>1, <1>10, ClaimsStay
<1>12. DataMade'
  <2>1. \A x \in Nodes : \A y \in net'[x] : y.type = "data" =>
           \/ y \in net[x]
           \/ \E q \in Links : \E o \in Made(q)' :
                 o.key = y.key /\ o.isInitiator = y.fromInitiator
    <3> SUFFICES ASSUME NEW x \in Nodes, NEW y \in net'[x], y \notin net[x]
                 PROVE  \E q \in Links : \E o \in Made(q)' :
                           o.key = y.key /\ o.isInitiator = y.fromInitiator
      BY Zenon
    <3>1. y = m
      BY <1>7, Zenon
    <3> QED BY <1>4, <1>5, <1>8, <3>1
  <2> QED BY <1>8, <2>1, DataFrame DEF AInv
<1> QED BY <1>1, <1>9, <1>11, <1>12, SlotsSame DEF AInv

\* A step that changes the keypair slots of l alone.
LEMMA SlotAgrees ==
    ASSUME IInv, AInv, UNCHANGED <<hs, worker, fresh, net, derived>>, NEW l \in Links,
           \A x \in Links : x # l => kps'[x] = kps[x],
           Slots(kps'[l]) \subseteq Slots(kps[l]), kps'[l].next = None,
           \/ kps'[l].current = None
           \/ \E o \in Made(Opposite(l)) : o.key = kps'[l].current.key /\ o.isInitiator
    PROVE  AInv'
<1>1. \A x \in Links : Made(x)' = Made(x)
  BY MadeSame
<1>2. Roles'
  BY <1>1, RolesFrame DEF AInv
<1>3. Claims' \subseteq Claims
  BY <1>1, ClaimsFrame
<1>4. ClaimsFresh' /\ ClaimsAgree'
  BY <1>3, ClaimsStay
<1>5. Slots(kps'[l]) \subseteq Made(l)
  BY DEF AInv, SlotsMade
<1>6. Opposite(l) \in Links
  BY DEF Links, Opposite
<1>7. SlotsMade' /\ ConfirmedBeforeUse'
  <2>1. \A x \in Links : \/ kps'[x] = kps[x]
                         \/ /\ Slots(kps'[x]) \subseteq Made(x)'
                            /\ kps'[x].next # None => ~ kps'[x].next.isInitiator
    BY <1>1, <1>5
  <2>2. \A x \in Links : \/ kps'[x].current \in {kps[x].current, None}
                         \/ \E o \in Made(Opposite(x))' :
                               o.key = kps'[x].current.key /\ o.isInitiator
    BY <1>1, <1>6
  <2> QED BY <1>1, <2>1, <2>2, SlotsFrame DEF AInv
<1> QED BY <1>2, <1>4, <1>7, DataSame DEF AInv

\* The packet that promotes next was sent by the other end of the link.
LEMMA DataAgrees ==
    ASSUME IInv, AInv, NEW n \in Nodes, NEW m \in net[n], ReceiveData(n, m)
    PROVE  AInv'
<1>1. /\ m.type = "data" /\ m.receiver \in DOMAIN table[n]
      /\ UNCHANGED <<hs, worker, fresh, net, derived>>
  BY DEF ReceiveData
<1>2. PICK entry : entry = table[n][m.receiver]
  BY Zenon
<1>3. entry.peer \in Nodes \ {n}
  BY <1>1, <1>2, Types DEF TablesOK, IsTable
<1>4. PICK l \in Links : l[1] = n /\ l = <<n, entry.peer>>
  <2>1. <<n, entry.peer>> \in Links
    BY <1>3 DEF Links
  <2> QED BY <2>1
<1>5. PICK k : k = kps[l].next
  BY Zenon
<1>6. /\ k # None /\ k.key = m.key /\ k.isInitiator # m.fromInitiator
      /\ kps' = [kps EXCEPT ![l] = [current |-> kps[l].next, previous |-> kps[l].current,
                                    next |-> None]]
  BY <1>2, <1>4, <1>5, Zenon DEF ReceiveData, ReceivedWithKeypair
<1>7. k \in Made(l) /\ ~ k.isInitiator
  BY <1>5, <1>6 DEF AInv, SlotsMade, Slots
<1>8. m.fromInitiator = TRUE
  <2>1. m \in Packet(n)
    BY Types DEF NetOK
  <2>2. m.fromInitiator \in BOOLEAN
    BY <1>1, <2>1 DEF Packet, Initiation, Response
  <2>3. k \in Keypair
    BY <1>5, <1>6, Types DEF KeypairSlots
  <2>4. k.isInitiator \in BOOLEAN
    BY <2>3 DEF Keypair
  <2>5. k.isInitiator = FALSE
    BY <1>7, <2>4
  <2> QED BY <1>6, <2>2, <2>5, Zenon
<1>9. PICK q \in Links : \E o \in Made(q) : o.key = m.key /\ o.isInitiator = m.fromInitiator
  BY <1>1 DEF AInv, DataMade
<1>10. PICK o \in Made(q) : o.key = m.key /\ o.isInitiator = m.fromInitiator
  BY <1>9
<1>11. o.isInitiator
  BY <1>8, <1>10, Zenon
<1>12. q = Opposite(l)
  <2>1. KeypairEnds(l, k) /\ KeypairEnds(q, o)
    BY <1>7, <1>10 DEF AInv, Roles
  <2>2. Ends(m.key, l[2], l[1]) /\ Ends(m.key, q[1], q[2])
    BY <1>6, <1>7, <1>10, <1>11, <2>1 DEF KeypairEnds
  <2>3. q[1] = l[2] /\ q[2] = l[1]
    BY <2>2 DEF Ends
  <2>4. q = <<q[1], q[2]>>
    BY DEF Links
  <2> QED BY <2>3, <2>4, Zenon DEF Opposite
<1>13. DOMAIN kps = Links
  BY Types
<1>14. /\ kps'[l].current = k /\ kps'[l].next = None /\ kps'[l].previous = kps[l].current
       /\ \A x \in Links : x # l => kps'[x] = kps[x]
  BY <1>5, <1>6, <1>13
<1>15. Slots(kps'[l]) \subseteq Slots(kps[l])
  BY <1>5, <1>14 DEF Slots
<1>16. \E y \in Made(Opposite(l)) : y.key = kps'[l].current.key /\ y.isInitiator
  BY <1>6, <1>10, <1>11, <1>12, <1>14, Zenon
<1> QED BY <1>1, <1>14, <1>15, <1>16, SlotAgrees

LEMMA ForgetAgrees ==
    ASSUME IInv, AInv, NEW l \in Links,
           ZeroKeypairs(l) \/ ZeroHandshake(l) \/ ExpireCurrentKeypairs(l)
    PROVE  AInv'
<1>1. CASE ZeroKeypairs(l)
  <2>1. /\ kps' = [kps EXCEPT ![l] = [current |-> None, previous |-> None, next |-> None]]
        /\ UNCHANGED <<hs, worker, fresh, net, derived>>
    BY <1>1 DEF ZeroKeypairs
  <2>2. /\ kps'[l].current = None /\ kps'[l].previous = None /\ kps'[l].next = None
        /\ \A x \in Links : x # l => kps'[x] = kps[x]
    BY <2>1, Types
  <2>3. Slots(kps'[l]) \subseteq Slots(kps[l])
    BY <2>2 DEF Slots
  <2> QED BY <2>1, <2>2, <2>3, SlotAgrees
<1>2. CASE ZeroHandshake(l) \/ ExpireCurrentKeypairs(l)
  <2>1. ClearHandshake(l) /\ UNCHANGED <<kps, worker, fresh, net, derived>>
    BY <1>2 DEF ZeroHandshake, ExpireCurrentKeypairs
  <2>2. hs'[l].state = "Zeroed" /\ \A x \in Links : x # l => hs'[x] = hs[x]
    BY <2>1, ClearFacts
  <2>3. HandshakeEnds(l)' /\ ~ CanDerive(l)'
    BY <2>2 DEF HandshakeEnds, CanDerive
  <2>4. \A x \in Links : Made(x)' = Made(x)
    BY <2>1, MadeSame
  <2>5. Roles'
    BY <2>1, <2>2, <2>3, <2>4, RolesFrame DEF AInv
  <2>6. Claims' \subseteq Claims
    BY <2>1, <2>2, <2>3, <2>4, ClaimsFrame
  <2>7. ClaimsFresh' /\ ClaimsAgree'
    BY <2>1, <2>6, ClaimsStay
  <2> QED BY <2>1, <2>5, <2>7, SlotsSame, DataSame DEF AInv
<1> QED BY <1>1, <1>2

LEMMA InitAgrees == Init => AInv
<1> SUFFICES ASSUME Init PROVE AInv
  OBVIOUS
<1>1. \A l \in Links : /\ hs[l].state = "Zeroed" /\ Made(l) = {}
                       /\ kps[l].current = None /\ kps[l].previous = None
                       /\ kps[l].next = None
  <2>1. \A l \in Links : hs[l].state = "Zeroed"
    BY DEF Init
  <2>2. \A l \in Links : kps[l].current = None /\ kps[l].previous = None /\ kps[l].next = None
    BY DEF Init
  <2>3. \A l \in Links : derived[l] = <<>>
    BY DEF Init
  <2>4. \A l \in Links : Made(l) = {}
    BY <2>3 DEF Made
  <2> QED BY <2>1, <2>2, <2>4
<1>2. \A n \in Nodes, w \in Workers : worker[n][w].pc = "idle"
  BY DEF Init, Idle
<1>3. \A n \in Nodes : net[n] = {}
  BY Zenon DEF Init
<1>4. Roles
  <2>1. \A l \in Links : HandshakeEnds(l)
    BY <1>1 DEF HandshakeEnds
  <2>2. \A n \in Nodes, w \in Workers : WorkerEnds(n, w)
    BY <1>2, Zenon DEF WorkerEnds
  <2> QED BY <1>1, <2>1, <2>2 DEF Roles
<1>5. Claims = {}
  <2>1. NetClaims = {}
    BY <1>3 DEF NetClaims
  <2>2. WorkerClaims = {}
    BY <1>2, Zenon DEF WorkerClaims, HoldsResponse
  <2>3. HandshakeClaims = {}
    BY <1>1 DEF HandshakeClaims, CanDerive
  <2>4. MadeClaims = {}
    BY <1>1 DEF MadeClaims
  <2> QED BY <2>1, <2>2, <2>3, <2>4 DEF Claims
<1>6. ClaimsFresh /\ ClaimsAgree
  BY <1>5 DEF ClaimsFresh, ClaimsAgree
<1>7. SlotsMade /\ ConfirmedBeforeUse
  BY <1>1 DEF SlotsMade, Slots, ConfirmedBeforeUse
<1>8. DataMade
  BY <1>3 DEF DataMade
<1> QED BY <1>4, <1>6, <1>7, <1>8 DEF AInv

LEMMA StepAgrees == IInv /\ AInv /\ [Next]_vars => AInv'
<1> SUFFICES ASSUME IInv, AInv, [Next]_vars PROVE AInv'
  OBVIOUS
<1>1. ASSUME NEW l \in Links, CreateMessageInitiation(l) PROVE AInv'
  BY <1>1, InitiationAgrees
<1>2. ASSUME NEW l \in Links, SendStagedPackets(l) PROVE AInv'
  BY <1>2, SendAgrees
<1>3. ASSUME NEW l \in Links, ZeroKeypairs(l) \/ ZeroHandshake(l) \/ ExpireCurrentKeypairs(l)
      PROVE  AInv'
  BY <1>3, ForgetAgrees
<1>4. ASSUME NEW n \in Nodes, NEW w \in Workers, ConsumeInitiationUpdate(n, w) PROVE AInv'
  BY <1>4, InitiationUpdateAgrees
<1>5. ASSUME NEW n \in Nodes, NEW w \in Workers, CreateMessageResponse(n, w) PROVE AInv'
  <2>1. PICK l \in Links : ResponseMade(n, w, l) \/ ResponseFailed(n, w, l)
    BY <1>5, ResponseFacts
  <2>2. CASE ResponseMade(n, w, l)
    BY <2>2, ResponseAgrees
  <2>3. CASE ResponseFailed(n, w, l)
    <3>1. WorkerStops(n, w) /\ UNCHANGED <<hs, kps, fresh, net, derived>>
      BY <2>3, Zenon DEF ResponseFailed
    <3> QED BY <3>1, StopAgrees
  <2> QED BY <2>1, <2>2, <2>3
<1>6. ASSUME NEW n \in Nodes, NEW w \in Workers, ConsumeResponseUpdate(n, w) PROVE AInv'
  BY <1>6, ResponseUpdateAgrees
<1>7. ASSUME NEW n \in Nodes, NEW w \in Workers, FinishResponse(n, w) \/ FinishSession(n, w)
      PROVE  AInv'
  BY <1>7, FinishAgrees
<1>8. ASSUME NEW n \in Nodes, NEW w \in Workers, NEW m \in net[n], Receive(n, w, m) PROVE AInv'
  BY <1>8, CheckAgrees
<1>9. ASSUME NEW n \in Nodes, NEW m \in net[n], ReceiveData(n, m) PROVE AInv'
  BY <1>9, DataAgrees
<1>10. CASE UNCHANGED vars
  <2>1. UNCHANGED <<hs, kps, worker, fresh, net, derived>>
    BY <1>10 DEF vars
  <2>2. \A x \in Links : Made(x)' = Made(x)
    BY <2>1, MadeSame
  <2>3. Roles'
    BY <2>1, <2>2, RolesFrame DEF AInv
  <2>4. Claims' \subseteq Claims
    BY <2>1, <2>2, ClaimsFrame, Zenon
  <2>5. ClaimsFresh' /\ ClaimsAgree'
    BY <2>1, <2>4, ClaimsStay
  <2> QED BY <2>1, <2>3, <2>5, SlotsSame, DataSame DEF AInv
<1> QED BY <1>1, <1>2, <1>3, <1>4, <1>5, <1>6, <1>7, <1>8, <1>9, <1>10, Zenon
        DEF Next, Step, WorkerStep

\* Roles and agreement are what the two ends of a session share.
LEMMA AgreementMirrors == AInv => SessionMirror
<1> SUFFICES ASSUME AInv, NEW l \in Links, NEW k \in Made(l), NEW o \in Made(Opposite(l)),
                    k.key = o.key
             PROVE  /\ k.isInitiator # o.isInitiator
                    /\ k.isInitiator => k.remoteIndex = o.localIndex
  BY DEF SessionMirror
<1>1. Opposite(l) \in Links /\ Opposite(l)[1] = l[2] /\ Opposite(l)[2] = l[1] /\ l[1] # l[2]
  BY DEF Links, Opposite
<1>2. KeypairEnds(l, k) /\ KeypairEnds(Opposite(l), o)
  BY <1>1 DEF AInv, Roles
<1>3. k.isInitiator # o.isInitiator
  BY <1>1, <1>2 DEF KeypairEnds, Ends
<1>4. ASSUME k.isInitiator PROVE k.remoteIndex = o.localIndex
  <2>1. ~ o.isInitiator
    BY <1>1, <1>2, <1>4 DEF KeypairEnds, Ends
  <2>2. Addressed(k) = k.remoteIndex /\ Addressed(o) = o.localIndex
    BY <1>4, <2>1 DEF Addressed
  <2>3. <<k.key, Addressed(k)>> \in Claims /\ <<o.key, Addressed(o)>> \in Claims
    BY <1>1 DEF Claims, MadeClaims
  <2>4. Addressed(k) = Addressed(o)
    BY <2>3 DEF AInv, ClaimsAgree
  <2> QED BY <2>2, <2>4
<1> QED BY <1>3, <1>4

LEMMA AgreementInvariant == Spec => [](IInv /\ AInv)
<1>1. Init => IInv /\ AInv
  BY InitInvariant, InitAgrees
<1>2. (IInv /\ AInv) /\ [Next]_vars => (IInv /\ AInv)'
  BY StepInvariant, StepAgrees
<1> QED BY <1>1, <1>2, PTL DEF Spec

\* Two ends that derived the same key hold opposite roles, and the initiator
\* addresses the index the responder allocated for it (BeginSymmetricSession,
\* whatever the workers, the timers and the network did in between).
THEOREM SessionsMirror == Spec => []SessionMirror
<1>1. IInv /\ AInv => SessionMirror
  BY AgreementMirrors
<1> QED BY <1>1, AgreementInvariant, PTL

\* A responder sends under a key only when the initiator has it
\* (ReceivedWithKeypair is what makes next current).
THEOREM KeysConfirmed == Spec => []ConfirmedBeforeUse
<1>1. IInv /\ AInv => ConfirmedBeforeUse
  BY DEF AInv
<1> QED BY <1>1, AgreementInvariant, PTL
=============================================================================
