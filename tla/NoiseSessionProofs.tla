------------------------- MODULE NoiseSessionProofs -------------------------
(***************************************************************************)
(* The index table of package device is exact for every number of nodes,   *)
(* handshake workers and indices, whatever the network does.               *)
(***************************************************************************)
EXTENDS NoiseSession, TLAPS

-----------------------------------------------------------------------------
(* One table, one step on it *)

IsIndices(n, h) == h \in [Nodes \ {n} -> AnyIndex]

IsKeypairs(n, ks) == ks \in [Nodes \ {n} -> SUBSET Keypair]

\* Deleting the index of a handshake that is given up.
LEMMA DeleteHandshakeIndex ==
    ASSUME NEW n \in Nodes, NEW p \in Nodes \ {n}, NEW t, NEW h, NEW ks,
           IsTable(n, t), IsIndices(n, h), IsKeypairs(n, ks),
           NodeExact(n, t, h, ks)
    PROVE  /\ IsTable(n, Delete(t, h[p]))
           /\ NodeExact(n, Delete(t, h[p]), [h EXCEPT ![p] = NoIndex], ks)
<1> DEFINE t1 == Delete(t, h[p])
           h1 == [h EXCEPT ![p] = NoIndex]
<1>1. DOMAIN t1 = DOMAIN t \ {h[p]} /\ \A j \in DOMAIN t1 : t1[j] = t[j]
  BY DEF Delete
<1>2. IsTable(n, t1)
  BY DEF Delete, IsTable
<1>3. \A q \in Nodes \ {n} : h1[q] = IF q = p THEN NoIndex ELSE h[q]
  BY DEF IsIndices
<1>4. \A j \in DOMAIN t : t[j].peer \in Nodes \ {n}
  BY DEF IsTable
<1>5. h[p] # NoIndex => Leads(t, h[p], p, None)
  BY DEF NodeExact
<1> HIDE DEF t1, h1
<1>6. ASSUME NEW i \in DOMAIN t1
      PROVE  IF t1[i].keypair = None
             THEN h1[t1[i].peer] = i
             ELSE t1[i].keypair \in ks[t1[i].peer] /\ t1[i].keypair.localIndex = i
  BY <1>1, <1>3, <1>4 DEF NodeExact
<1>7. ASSUME NEW q \in Nodes \ {n}, h1[q] # NoIndex
      PROVE  Leads(t1, h1[q], q, None)
  BY <1>1, <1>3, <1>5, <1>7 DEF NodeExact, Leads
<1>8. ASSUME NEW q \in Nodes \ {n}, NEW k \in ks[q], k.localIndex # NoIndex
      PROVE  Leads(t1, k.localIndex, q, k)
  <2>1. Leads(t, k.localIndex, q, k) /\ k # None
    BY <1>8, SessionAssumption DEF NodeExact, IsKeypairs
  <2>2. k.localIndex # h[p]
    BY <1>5, <1>8, <2>1 DEF Leads
  <2> QED BY <1>1, <2>1, <2>2 DEF Leads
<1> QED BY <1>2, <1>6, <1>7, <1>8 DEF NodeExact, t1, h1

\* Entering a new handshake under a free index.
LEMMA AddHandshakeIndex ==
    ASSUME NEW n \in Nodes, NEW p \in Nodes \ {n}, NEW t, NEW h, NEW ks,
           IsTable(n, t), IsIndices(n, h), IsKeypairs(n, ks),
           NodeExact(n, t, h, ks), h[p] = NoIndex, NEW i \in FreeIndices(t)
    PROVE  /\ IsTable(n, Put(t, i, [peer |-> p, keypair |-> None]))
           /\ NodeExact(n, Put(t, i, [peer |-> p, keypair |-> None]),
                        [h EXCEPT ![p] = i], ks)
<1> DEFINE t1 == Put(t, i, [peer |-> p, keypair |-> None])
           h1 == [h EXCEPT ![p] = i]
<1>1. /\ i \in Indices /\ i \notin DOMAIN t
      /\ \A j \in DOMAIN t : t[j].peer \in Nodes \ {n}
  BY DEF FreeIndices, IsTable
<1>2. /\ DOMAIN t1 = DOMAIN t \cup {i}
      /\ t1[i].peer = p /\ t1[i].keypair = None
      /\ \A j \in DOMAIN t : t1[j] = t[j]
  BY <1>1 DEF Put
<1>3. IsTable(n, t1)
  BY <1>1 DEF Put, IsTable
<1>4. \A q \in Nodes \ {n} : h1[q] = IF q = p THEN i ELSE h[q]
  BY DEF IsIndices
<1> HIDE DEF t1, h1
<1>5. ASSUME NEW j \in DOMAIN t1
      PROVE  IF t1[j].keypair = None
             THEN h1[t1[j].peer] = j
             ELSE t1[j].keypair \in ks[t1[j].peer] /\ t1[j].keypair.localIndex = j
  <2>1. CASE j = i
    BY <1>2, <1>4, <2>1
  <2>2. CASE j # i
    <3>1. j \in DOMAIN t /\ t1[j] = t[j] /\ j # NoIndex
      BY <1>2, <2>2, SessionAssumption DEF IsTable
    <3> QED BY <1>1, <1>4, <3>1 DEF NodeExact
  <2> QED BY <2>1, <2>2
<1>6. ASSUME NEW q \in Nodes \ {n}, h1[q] # NoIndex
      PROVE  Leads(t1, h1[q], q, None)
  BY <1>2, <1>4, <1>6 DEF NodeExact, Leads
<1>7. ASSUME NEW q \in Nodes \ {n}, NEW k \in ks[q], k.localIndex # NoIndex
      PROVE  Leads(t1, k.localIndex, q, k)
  BY <1>2, <1>7 DEF NodeExact, Leads
<1> QED BY <1>3, <1>5, <1>6, <1>7 DEF NodeExact, t1, h1

\* The entry of a handshake becomes the entry of the keypair it produced.
LEMMA SwapIndex ==
    ASSUME NEW n \in Nodes, NEW p \in Nodes \ {n}, NEW t, NEW h, NEW ks,
           IsTable(n, t), IsIndices(n, h), IsKeypairs(n, ks),
           NodeExact(n, t, h, ks), NEW k \in Keypair, k.localIndex = h[p]
    PROVE  /\ IsTable(n, SwapIndexForKeypair(t, h[p], k))
           /\ NodeExact(n, SwapIndexForKeypair(t, h[p], k),
                        [h EXCEPT ![p] = NoIndex], [ks EXCEPT ![p] = @ \cup {k}])
<1> DEFINE t1 == SwapIndexForKeypair(t, h[p], k)
           h1 == [h EXCEPT ![p] = NoIndex]
           ks1 == [ks EXCEPT ![p] = @ \cup {k}]
<1>1. k # None /\ NoIndex \notin DOMAIN t
  BY SessionAssumption DEF IsTable
<1>2. h[p] # NoIndex => Leads(t, h[p], p, None)
  BY DEF NodeExact
<1>3. h[p] \in DOMAIN t <=> h[p] # NoIndex
  BY <1>1, <1>2 DEF Leads
<1>4. /\ DOMAIN t1 = DOMAIN t
      /\ h[p] # NoIndex => t1[h[p]].peer = p /\ t1[h[p]].keypair = k
      /\ \A j \in DOMAIN t : j # h[p] => t1[j] = t[j]
  BY <1>2, <1>3 DEF SwapIndexForKeypair, Put, Leads
<1>5. IsTable(n, t1)
  BY <1>3 DEF SwapIndexForKeypair, Put, IsTable
<1>6. \A q \in Nodes \ {n} : /\ h1[q] = IF q = p THEN NoIndex ELSE h[q]
                             /\ ks1[q] = IF q = p THEN ks[q] \cup {k} ELSE ks[q]
  BY DEF IsIndices, IsKeypairs
<1>7. \A j \in DOMAIN t : t[j].peer \in Nodes \ {n}
  BY DEF IsTable
<1> HIDE DEF t1, h1, ks1
<1>8. ASSUME NEW i \in DOMAIN t1
      PROVE  IF t1[i].keypair = None
             THEN h1[t1[i].peer] = i
             ELSE t1[i].keypair \in ks1[t1[i].peer] /\ t1[i].keypair.localIndex = i
  <2>1. CASE i = h[p]
    <3>1. t1[i].peer = p /\ t1[i].keypair = k
      BY <1>3, <1>4, <2>1
    <3>2. k \in ks1[p]
      BY <1>6, Zenon
    <3> QED BY <1>1, <2>1, <3>1, <3>2
  <2>2. CASE i # h[p]
    <3>1. t1[i] = t[i] /\ i \in DOMAIN t /\ t[i].peer \in Nodes \ {n}
      BY <1>4, <1>7, <2>2
    <3>2. IF t[i].keypair = None
          THEN h[t[i].peer] = i
          ELSE t[i].keypair \in ks[t[i].peer] /\ t[i].keypair.localIndex = i
      BY <3>1 DEF NodeExact
    <3>3. CASE t[i].keypair = None
      BY <1>6, <2>2, <3>1, <3>2, <3>3, Zenon
    <3>4. CASE t[i].keypair # None
      BY <1>6, <3>1, <3>2, <3>4, Zenon
    <3> QED BY <3>3, <3>4
  <2> QED BY <2>1, <2>2
<1>9. ASSUME NEW q \in Nodes \ {n}, h1[q] # NoIndex
      PROVE  Leads(t1, h1[q], q, None)
  <2>1. q # p /\ h1[q] = h[q] /\ Leads(t, h[q], q, None)
    BY <1>6, <1>9, Zenon DEF NodeExact
  <2>2. h[q] # h[p]
    BY <1>2, <1>9, <2>1 DEF Leads
  <2> QED BY <1>4, <2>1, <2>2 DEF Leads
<1>10. ASSUME NEW q \in Nodes \ {n}, NEW x \in ks1[q], x.localIndex # NoIndex
       PROVE  Leads(t1, x.localIndex, q, x)
  <2>1. CASE x \in ks[q]
    <3>1. Leads(t, x.localIndex, q, x) /\ x # None
      BY <1>10, <2>1, SessionAssumption DEF NodeExact, IsKeypairs
    <3>2. x.localIndex # h[p]
      BY <1>2, <1>10, <3>1 DEF Leads
    <3> QED BY <1>4, <3>1, <3>2 DEF Leads
  <2>2. CASE x \notin ks[q]
    <3>1. x = k /\ q = p
      BY <1>6, <1>10, <2>2, Zenon
    <3> QED BY <1>3, <1>4, <1>10, <3>1 DEF Leads
  <2> QED BY <2>1, <2>2
<1> QED BY <1>5, <1>8, <1>9, <1>10 DEF NodeExact, t1, h1, ks1

\* Deleting the keypairs that leave the slots of a peer.
LEMMA DropKeypairs ==
    ASSUME NEW n \in Nodes, NEW p \in Nodes \ {n}, NEW t, NEW h, NEW ks,
           IsTable(n, t), IsIndices(n, h), IsKeypairs(n, ks),
           NodeExact(n, t, h, ks),
           NEW gone, gone \ {None} \subseteq ks[p],
           NEW kept \in SUBSET ks[p],
           \A k \in ks[p] : k.localIndex # NoIndex => (k \in kept <=> k \notin gone)
    PROVE  /\ IsTable(n, DeleteKeypairs(t, gone))
           /\ NodeExact(n, DeleteKeypairs(t, gone), h, [ks EXCEPT ![p] = kept])
<1> DEFINE t1 == DeleteKeypairs(t, gone)
           freed == {k.localIndex : k \in gone \ {None}}
           ks1 == [ks EXCEPT ![p] = kept]
<1>1. DOMAIN t1 = DOMAIN t \ freed /\ \A j \in DOMAIN t1 : t1[j] = t[j]
  BY DEF DeleteKeypairs
<1>2. IsTable(n, t1)
  BY DEF DeleteKeypairs, IsTable
<1>3. \A q \in Nodes \ {n} : ks1[q] = IF q = p THEN kept ELSE ks[q]
  BY DEF IsKeypairs
<1>4. \A g \in gone \ {None} : 
         g.localIndex # NoIndex => Leads(t, g.localIndex, p, g)
  BY DEF NodeExact
<1>5. NoIndex \notin DOMAIN t
  BY SessionAssumption DEF IsTable
<1> HIDE DEF t1, ks1
<1>6. ASSUME NEW i \in DOMAIN t1
      PROVE  IF t1[i].keypair = None
             THEN h[t1[i].peer] = i
             ELSE t1[i].keypair \in ks1[t1[i].peer] /\ t1[i].keypair.localIndex = i
  <2>1. i \in DOMAIN t /\ t1[i] = t[i] /\ i \notin freed /\ t[i].peer \in Nodes \ {n}
    BY <1>1 DEF IsTable
  <2>2. CASE t[i].keypair = None
    BY <2>1, <2>2 DEF NodeExact
  <2>3. CASE t[i].keypair # None
    <3>1. t[i].keypair \in ks[t[i].peer] /\ t[i].keypair.localIndex = i
      BY <2>1, <2>3 DEF NodeExact
    <3>2. t[i].keypair \notin gone
      BY <2>1, <2>3, <3>1
    <3>3. t[i].keypair \in ks1[t[i].peer]
      BY <1>3, <1>5, <2>1, <3>1, <3>2
    <3> QED BY <2>1, <2>3, <3>1, <3>3
  <2> QED BY <2>2, <2>3
<1>7. ASSUME NEW q \in Nodes \ {n}, h[q] # NoIndex
      PROVE  Leads(t1, h[q], q, None)
  <2>1. Leads(t, h[q], q, None)
    BY <1>7 DEF NodeExact
  <2>2. h[q] \notin freed
    <3>1. ASSUME NEW g \in gone \ {None}, g.localIndex = h[q] PROVE FALSE
      BY <1>4, <1>7, <2>1, <3>1 DEF Leads
    <3> QED BY <3>1
  <2> QED BY <1>1, <2>1, <2>2 DEF Leads
<1>8. ASSUME NEW q \in Nodes \ {n}, NEW k \in ks1[q], k.localIndex # NoIndex
      PROVE  Leads(t1, k.localIndex, q, k)
  <2>1. k \in ks[q]
    BY <1>3, <1>8
  <2>2. Leads(t, k.localIndex, q, k)
    BY <1>8, <2>1 DEF NodeExact
  <2>3. k.localIndex \notin freed
    <3>1. ASSUME NEW g \in gone \ {None}, g.localIndex = k.localIndex PROVE FALSE
      <4>1. g = k /\ q = p
        BY <1>4, <1>8, <2>2, <3>1 DEF Leads
      <4> QED BY <1>3, <1>8, <2>1, <3>1, <4>1
    <3> QED BY <3>1
  <2> QED BY <1>1, <2>2, <2>3 DEF Leads
<1> QED BY <1>2, <1>6, <1>7, <1>8 DEF NodeExact, t1, ks1

-----------------------------------------------------------------------------
(* One step of the system *)

IInv == TypeOK /\ IndexTableExact

\* The handshake indices and keypairs of node n after a step on <<n, p>>.
NewIndices(n, p) == [HandshakeIndices(n) EXCEPT ![p] = hs'[<<n, p>>].localIndex]
NewKeypairs(n, p) == [PeerKeypairs(n) EXCEPT ![p] = Slots(kps'[<<n, p>>])]

OnlyLink(n, p) ==
    /\ \A m \in Nodes : m # n => table'[m] = table[m]
    /\ \A l \in Links : l # <<n, p>> =>
          hs'[l].localIndex = hs[l].localIndex /\ kps'[l] = kps[l]

\* A step on link <<n, p>> keeps the tables exact when it keeps node n's.
LEMMA OneNode ==
    ASSUME IInv, NEW n \in Nodes, NEW p \in Nodes \ {n},
           OnlyLink(n, p), SlotsDistinct(kps'[<<n, p>>]),
           NodeExact(n, table'[n], NewIndices(n, p), NewKeypairs(n, p))
    PROVE  IndexTableExact'
<1>1. ASSUME NEW m \in Nodes, NEW q \in Nodes \ {m} PROVE <<m, q>> \in Links
  BY DEF Links
<1>2. HandshakeIndices(n)' = NewIndices(n, p)
  BY <1>1, Zenon DEF HandshakeIndices, NewIndices, OnlyLink
<1>3. PeerKeypairs(n)' = NewKeypairs(n, p)
  BY <1>1, Zenon DEF PeerKeypairs, NewKeypairs, OnlyLink
<1>4. ASSUME NEW m \in Nodes, m # n
      PROVE  /\ HandshakeIndices(m)' = HandshakeIndices(m)
             /\ PeerKeypairs(m)' = PeerKeypairs(m)
             /\ table'[m] = table[m]
  BY <1>1, <1>4 DEF HandshakeIndices, PeerKeypairs, OnlyLink
<1>5. ASSUME NEW m \in Nodes
      PROVE  NodeExact(m, table'[m], HandshakeIndices(m)', PeerKeypairs(m)')
  <2>1. CASE m = n
    <3>1. NodeExact(n, table'[n], HandshakeIndices(n)', PeerKeypairs(n)')
      BY <1>2, <1>3, Zenon
    <3> QED BY <2>1, <3>1, Zenon
  <2>2. CASE m # n
    <3>1. NodeExact(m, table[m], HandshakeIndices(m), PeerKeypairs(m))
      BY DEF IInv, IndexTableExact
    <3> QED BY <1>4, <2>2, <3>1, Zenon
  <2> QED BY <2>1, <2>2
<1>6. \A l \in Links : SlotsDistinct(kps[l])'
  BY DEF IInv, IndexTableExact, SlotsDistinct, Indexed, OnlyLink
<1>7. \A m \in Nodes : NodeExact(m, table[m], HandshakeIndices(m), PeerKeypairs(m))'
  BY <1>5, Zenon DEF NodeExact, Leads
<1> QED BY <1>6, <1>7 DEF IndexTableExact

\* What the invariant says of one node.
LEMMA NodeFacts ==
    ASSUME IInv, NEW n \in Nodes, NEW p \in Nodes \ {n}
    PROVE  /\ <<n, p>> \in Links
           /\ IsTable(n, table[n])
           /\ IsIndices(n, HandshakeIndices(n))
           /\ IsKeypairs(n, PeerKeypairs(n))
           /\ NodeExact(n, table[n], HandshakeIndices(n), PeerKeypairs(n))
           /\ HandshakeIndices(n)[p] = hs[<<n, p>>].localIndex
           /\ PeerKeypairs(n)[p] = Slots(kps[<<n, p>>])
           /\ SlotsDistinct(kps[<<n, p>>])
<1>1. \A q \in Nodes \ {n} : <<n, q>> \in Links
  BY DEF Links
<1>2. \A q \in Nodes \ {n} : /\ hs[<<n, q>>].localIndex \in AnyIndex
                             /\ Slots(kps[<<n, q>>]) \subseteq Keypair
  <2> SUFFICES ASSUME NEW q \in Nodes \ {n}
               PROVE  /\ hs[<<n, q>>].localIndex \in AnyIndex
                      /\ Slots(kps[<<n, q>>]) \subseteq Keypair
    BY Zenon
  <2>1. <<n, q>> \in Links
    BY <1>1
  <2>2. hs[<<n, q>>].localIndex \in AnyIndex
    BY <2>1 DEF IInv, TypeOK
  <2>3. kps[<<n, q>>] \in [current : Keypair \cup {None},
                           previous : Keypair \cup {None},
                           next : Keypair \cup {None}]
    BY <2>1, Zenon DEF IInv, TypeOK
  <2> QED BY <2>2, <2>3 DEF Slots
<1>3. IsTable(n, table[n])
  BY DEF IInv, TypeOK
<1>4. /\ NodeExact(n, table[n], HandshakeIndices(n), PeerKeypairs(n))
      /\ SlotsDistinct(kps[<<n, p>>])
  BY <1>1 DEF IInv, IndexTableExact
<1>5. IsIndices(n, HandshakeIndices(n)) /\ IsKeypairs(n, PeerKeypairs(n))
  BY <1>2 DEF HandshakeIndices, PeerKeypairs, IsIndices, IsKeypairs
<1>6. /\ HandshakeIndices(n)[p] = hs[<<n, p>>].localIndex
      /\ PeerKeypairs(n)[p] = Slots(kps[<<n, p>>])
  BY DEF HandshakeIndices, PeerKeypairs
<1> QED BY <1>1, <1>3, <1>4, <1>5, <1>6, Zenon

\* A link is a node and another one.
LEMMA LinkEnds ==
    ASSUME NEW l \in Links
    PROVE  /\ l[1] \in Nodes /\ l[2] \in Nodes \ {l[1]}
           /\ l = <<l[1], l[2]>>
  BY DEF Links

\* A handshake takes a new index.
LEMMA Reindex ==
    ASSUME IInv, NEW n \in Nodes, NEW p \in Nodes \ {n},
           NEW i \in FreeIndices(Delete(table[n], hs[<<n, p>>].localIndex)),
           table' = [table EXCEPT ![n] =
                        Reindexed(@, hs[<<n, p>>].localIndex, i, p)],
           DOMAIN hs' = Links, kps' = kps,
           \A l \in Links : l # <<n, p>> => hs'[l] = hs[l],
           hs'[<<n, p>>].localIndex = i
    PROVE  /\ IndexTableExact'
           /\ DOMAIN table' = Nodes
           /\ \A m \in Nodes : IsTable(m, table'[m])
<1> DEFINE old == hs[<<n, p>>].localIndex
           h == HandshakeIndices(n)
           h0 == [h EXCEPT ![p] = NoIndex]
           ks == PeerKeypairs(n)
           t0 == Delete(table[n], old)
           t1 == Put(t0, i, [peer |-> p, keypair |-> None])
<1>1. /\ <<n, p>> \in Links /\ IsTable(n, table[n]) /\ IsIndices(n, h)
      /\ IsKeypairs(n, ks) /\ NodeExact(n, table[n], h, ks) /\ h[p] = old
      /\ ks[p] = Slots(kps[<<n, p>>]) /\ SlotsDistinct(kps[<<n, p>>])
  BY NodeFacts, Zenon
<1>2. DOMAIN table = Nodes /\ \A m \in Nodes : IsTable(m, table[m])
  BY Zenon DEF IInv, TypeOK
<1>4. table' = [table EXCEPT ![n] = t1]
  BY <1>2, Zenon DEF Reindexed
<1> HIDE DEF h, ks, old
<1>5. IsTable(n, t0) /\ NodeExact(n, t0, h0, ks)
  BY <1>1, DeleteHandshakeIndex, Zenon
<1>6. /\ IsIndices(n, h0) /\ h0[p] = NoIndex
      /\ [h0 EXCEPT ![p] = i] = [h EXCEPT ![p] = i]
      /\ [ks EXCEPT ![p] = Slots(kps[<<n, p>>])] = ks
  BY <1>1, Zenon DEF IsIndices, IsKeypairs, AnyIndex
<1>7. i \in FreeIndices(t0)
  BY Zenon DEF old
<1> HIDE DEF h0, t0
<1>8. IsTable(n, t1) /\ NodeExact(n, t1, [h0 EXCEPT ![p] = i], ks)
  BY <1>1, <1>5, <1>6, <1>7, AddHandshakeIndex, Zenon
<1> HIDE DEF t1
<1>9. table'[n] = t1 /\ NewIndices(n, p) = [h EXCEPT ![p] = i]
      /\ NewKeypairs(n, p) = [ks EXCEPT ![p] = Slots(kps[<<n, p>>])]
  BY <1>2, <1>4, Zenon DEF NewIndices, NewKeypairs, h, ks
<1>10. NodeExact(n, table'[n], NewIndices(n, p), NewKeypairs(n, p))
  BY <1>6, <1>8, <1>9, Zenon
<1>11. OnlyLink(n, p) /\ SlotsDistinct(kps'[<<n, p>>])
  BY <1>1, <1>2, <1>4, Zenon DEF OnlyLink
<1>12. IndexTableExact'
  BY <1>10, <1>11, OneNode, Zenon
<1> QED BY <1>2, <1>4, <1>8, <1>12, Zenon

\* A handshake is given up: ClearHandshake.
LEMMA Cleared ==
    ASSUME IInv, NEW n \in Nodes, NEW p \in Nodes \ {n},
           ClearHandshake(<<n, p>>), kps' = kps
    PROVE  /\ IndexTableExact'
           /\ DOMAIN table' = Nodes
           /\ \A m \in Nodes : IsTable(m, table'[m])
<1> DEFINE h == HandshakeIndices(n)
           ks == PeerKeypairs(n)
           t1 == Delete(table[n], hs[<<n, p>>].localIndex)
<1>1. /\ <<n, p>> \in Links /\ IsTable(n, table[n]) /\ IsIndices(n, h)
      /\ IsKeypairs(n, ks) /\ NodeExact(n, table[n], h, ks)
      /\ h[p] = hs[<<n, p>>].localIndex
      /\ ks[p] = Slots(kps[<<n, p>>]) /\ SlotsDistinct(kps[<<n, p>>])
  BY NodeFacts, Zenon
<1>2. DOMAIN table = Nodes /\ \A m \in Nodes : IsTable(m, table[m])
  BY Zenon DEF IInv, TypeOK
<1>3. table' = [table EXCEPT ![n] = t1]
  BY <1>2 DEF ClearHandshake
<1>4. /\ \A l \in Links : l # <<n, p>> => hs'[l] = hs[l]
      /\ hs'[<<n, p>>].localIndex = NoIndex
  BY <1>1 DEF ClearHandshake, ZeroedHandshake, IInv, TypeOK
<1> HIDE DEF h, ks
<1>5. IsTable(n, t1) /\ NodeExact(n, t1, [h EXCEPT ![p] = NoIndex], ks)
  BY <1>1, DeleteHandshakeIndex, Zenon
<1> HIDE DEF t1
<1>6. /\ table'[n] = t1 /\ NewIndices(n, p) = [h EXCEPT ![p] = NoIndex]
      /\ NewKeypairs(n, p) = ks
  BY <1>1, <1>2, <1>3, <1>4, Zenon DEF NewIndices, NewKeypairs, h, ks, IsKeypairs
<1>7. NodeExact(n, table'[n], NewIndices(n, p), NewKeypairs(n, p))
  BY <1>5, <1>6, Zenon
<1>8. OnlyLink(n, p) /\ SlotsDistinct(kps'[<<n, p>>])
  BY <1>1, <1>2, <1>3, <1>4, Zenon DEF OnlyLink
<1>9. IndexTableExact'
  BY <1>7, <1>8, OneNode
<1> QED BY <1>2, <1>3, <1>5, <1>9

\* The slots of a peer lose the keypairs in gone and nothing else.
LEMMA SlotsDropped ==
    ASSUME IInv, NEW n \in Nodes, NEW p \in Nodes \ {n}, NEW gone, NEW kp,
           table' = [table EXCEPT ![n] = DeleteKeypairs(@, gone)],
           kps' = [kps EXCEPT ![<<n, p>>] = kp], hs' = hs,
           gone \ {None} \subseteq Slots(kps[<<n, p>>]),
           Slots(kp) \subseteq Slots(kps[<<n, p>>]),
           \A k \in Slots(kps[<<n, p>>]) :
              k.localIndex # NoIndex => (k \in Slots(kp) <=> k \notin gone),
           SlotsDistinct(kp)
    PROVE  /\ IndexTableExact'
           /\ DOMAIN table' = Nodes
           /\ \A m \in Nodes : IsTable(m, table'[m])
<1> DEFINE h == HandshakeIndices(n)
           ks == PeerKeypairs(n)
           t1 == DeleteKeypairs(table[n], gone)
<1>1. /\ <<n, p>> \in Links /\ IsTable(n, table[n]) /\ IsIndices(n, h)
      /\ IsKeypairs(n, ks) /\ NodeExact(n, table[n], h, ks)
      /\ h[p] = hs[<<n, p>>].localIndex
      /\ ks[p] = Slots(kps[<<n, p>>])
  BY NodeFacts, Zenon
<1>2. DOMAIN table = Nodes /\ \A m \in Nodes : IsTable(m, table[m])
  BY Zenon DEF IInv, TypeOK
<1>3. table' = [table EXCEPT ![n] = t1]
  BY <1>2
<1>4. /\ \A l \in Links : l # <<n, p>> => kps'[l] = kps[l]
      /\ kps'[<<n, p>>] = kp
  BY <1>1, Zenon DEF IInv, TypeOK
<1> HIDE DEF h, ks
<1>5. IsTable(n, t1) /\ NodeExact(n, t1, h, [ks EXCEPT ![p] = Slots(kp)])
  <2>1. /\ gone \ {None} \subseteq ks[p] /\ Slots(kp) \in SUBSET ks[p]
        /\ \A k \in ks[p] : k.localIndex # NoIndex =>
              (k \in Slots(kp) <=> k \notin gone)
    BY <1>1, Zenon
  <2> QED BY <1>1, <2>1, DropKeypairs, Zenon
<1> HIDE DEF t1
<1>6. /\ table'[n] = t1 /\ NewIndices(n, p) = h
      /\ NewKeypairs(n, p) = [ks EXCEPT ![p] = Slots(kp)]
  BY <1>1, <1>2, <1>3, <1>4, Zenon DEF NewIndices, NewKeypairs, h, ks, IsIndices
<1>7. NodeExact(n, table'[n], NewIndices(n, p), NewKeypairs(n, p))
  BY <1>5, <1>6, Zenon
<1>8. OnlyLink(n, p) /\ SlotsDistinct(kps'[<<n, p>>])
  BY <1>1, <1>2, <1>3, <1>4, Zenon DEF OnlyLink
<1>9. IndexTableExact'
  BY <1>7, <1>8, OneNode
<1> QED BY <1>2, <1>3, <1>5, <1>9

\* Rotation keeps what it does not delete, and keeps it in one slot.
LEMMA Rotation ==
    ASSUME NEW kp, NEW k \in Keypair, SlotsDistinct(kp),
           Indexed(k) => k \notin Slots(kp)
    PROVE  /\ SlotsDistinct(Rotated(kp, k))
           /\ Displaced(kp, k) \ {None} \subseteq Slots(kp) \cup {k}
           /\ Slots(Rotated(kp, k)) \subseteq Slots(kp) \cup {k}
           /\ \A x \in Slots(kp) \cup {k} : x.localIndex # NoIndex =>
                 (x \in Slots(Rotated(kp, k)) <=> x \notin Displaced(kp, k))
<1>1. k # None
  BY SessionAssumption
<1>2. CASE k.isInitiator
  BY <1>1, <1>2 DEF SlotsDistinct, Indexed, Slots, Rotated, Displaced
<1>3. CASE ~ k.isInitiator
  BY <1>1, <1>3, Zenon DEF SlotsDistinct, Indexed, Slots, Rotated, Displaced
<1> QED BY <1>2, <1>3, Zenon

\* BeginSymmetricSession: the handshake's entry becomes the new keypair's,
\* and the keypairs it displaces leave the table.
LEMMA SessionBegun ==
    ASSUME IInv, NEW n \in Nodes, NEW p \in Nodes \ {n},
           BeginSymmetricSession(<<n, p>>)
    PROVE  /\ IndexTableExact'
           /\ DOMAIN table' = Nodes
           /\ \A m \in Nodes : IsTable(m, table'[m])
<1> DEFINE l == <<n, p>>
           k == NewKeypair(l)
           kp == kps[l]
           h == HandshakeIndices(n)
           ks == PeerKeypairs(n)
           h1 == [h EXCEPT ![p] = NoIndex]
           ks1 == [ks EXCEPT ![p] = @ \cup {k}]
           t1 == SwapIndexForKeypair(table[n], hs[l].localIndex, k)
           t2 == DeleteKeypairs(t1, Displaced(kp, k))
<1>1. /\ l \in Links /\ IsTable(n, table[n]) /\ IsIndices(n, h)
      /\ IsKeypairs(n, ks) /\ NodeExact(n, table[n], h, ks)
      /\ h[p] = hs[l].localIndex
      /\ ks[p] = Slots(kp) /\ SlotsDistinct(kp)
  BY NodeFacts, Zenon
<1>2. DOMAIN table = Nodes /\ \A m \in Nodes : IsTable(m, table[m])
  BY Zenon DEF IInv, TypeOK
<1>3. k \in Keypair /\ k.localIndex = hs[l].localIndex
  <2>1. /\ hs[l].chain \in Transcript /\ hs[l].localIndex \in AnyIndex
        /\ hs[l].remoteIndex \in AnyIndex
        /\ (hs[l].state = "ResponseConsumed") \in BOOLEAN
    BY <1>1, Zenon DEF IInv, TypeOK
  <2> QED BY <2>1, Zenon DEF NewKeypair, Keypair
<1>4. /\ table' = [table EXCEPT ![n] = t2]
      /\ kps' = [kps EXCEPT ![l] = Rotated(kp, k)]
      /\ hs' = [hs EXCEPT ![l] = ZeroedHandshake(hs[l])]
  BY <1>1, <1>2, Zenon DEF BeginSymmetricSession
<1>5. /\ \A x \in Links : x # l => hs'[x] = hs[x] /\ kps'[x] = kps[x]
      /\ hs'[l].localIndex = NoIndex /\ kps'[l] = Rotated(kp, k)
  BY <1>1, <1>4 DEF ZeroedHandshake, IInv, TypeOK
<1> HIDE DEF h, ks, k, kp, l
<1>6. IsTable(n, t1) /\ NodeExact(n, t1, h1, ks1)
  BY <1>1, <1>3, SwapIndex, Zenon
<1>7. Indexed(k) => k \notin Slots(kp)
  <2> SUFFICES ASSUME Indexed(k), k \in Slots(kp) PROVE FALSE
    OBVIOUS
  <2>1. k # None /\ k.localIndex # NoIndex
    BY DEF Indexed
  <2>2. Leads(table[n], k.localIndex, p, None)
    BY <1>1, <1>3, <2>1, Zenon DEF NodeExact
  <2>3. Leads(table[n], k.localIndex, p, k)
    BY <1>1, <2>1, Zenon DEF NodeExact
  <2> QED BY <2>1, <2>2, <2>3, Zenon DEF Leads
<1>8. /\ SlotsDistinct(Rotated(kp, k))
      /\ Displaced(kp, k) \ {None} \subseteq Slots(kp) \cup {k}
      /\ Slots(Rotated(kp, k)) \subseteq Slots(kp) \cup {k}
      /\ \A x \in Slots(kp) \cup {k} : x.localIndex # NoIndex =>
            (x \in Slots(Rotated(kp, k)) <=> x \notin Displaced(kp, k))
  BY <1>1, <1>3, <1>7, Rotation, Zenon
<1>9. /\ IsIndices(n, h1) /\ IsKeypairs(n, ks1) /\ ks1[p] = Slots(kp) \cup {k}
      /\ [ks1 EXCEPT ![p] = Slots(Rotated(kp, k))]
            = [ks EXCEPT ![p] = Slots(Rotated(kp, k))]
  BY <1>1, <1>3, Zenon DEF IsIndices, IsKeypairs, AnyIndex
<1> HIDE DEF t1, h1, ks1
<1>10. /\ IsTable(n, t2)
       /\ NodeExact(n, t2, h1, [ks1 EXCEPT ![p] = Slots(Rotated(kp, k))])
  <2>1. /\ Displaced(kp, k) \ {None} \subseteq ks1[p]
        /\ Slots(Rotated(kp, k)) \in SUBSET ks1[p]
        /\ \A x \in ks1[p] : x.localIndex # NoIndex =>
              (x \in Slots(Rotated(kp, k)) <=> x \notin Displaced(kp, k))
    BY <1>8, <1>9, Zenon
  <2> QED BY <1>6, <1>9, <2>1, DropKeypairs, Zenon
<1> HIDE DEF t2
<1>11. /\ table'[n] = t2 /\ NewIndices(n, p) = h1
       /\ NewKeypairs(n, p) = [ks EXCEPT ![p] = Slots(Rotated(kp, k))]
  BY <1>2, <1>4, <1>5, Zenon DEF NewIndices, NewKeypairs, h, ks, h1, l
<1>12. NodeExact(n, table'[n], NewIndices(n, p), NewKeypairs(n, p))
  BY <1>9, <1>10, <1>11, Zenon
<1>13. OnlyLink(n, p) /\ SlotsDistinct(kps'[<<n, p>>])
  BY <1>1, <1>2, <1>4, <1>5, <1>8, Zenon DEF OnlyLink, l
<1>14. IndexTableExact'
  BY <1>12, <1>13, OneNode, Zenon
<1> QED BY <1>2, <1>4, <1>10, <1>14, Zenon

-----------------------------------------------------------------------------
(* Types *)

WorkersOK(wk) == DOMAIN wk = Nodes /\ \A n \in Nodes : wk[n] \in [Workers -> WorkerState(n)]

NetOK(nt) == DOMAIN nt = Nodes /\ \A n \in Nodes : nt[n] \subseteq Packet(n)

TablesOK(tb) == DOMAIN tb = Nodes /\ \A n \in Nodes : IsTable(n, tb[n])

Handshake == [state : {"Zeroed", "InitiationCreated", "InitiationConsumed",
                       "ResponseCreated", "ResponseConsumed"},
              chain : Transcript, localIndex : AnyIndex,
              remoteIndex : AnyIndex, lastTimestamp : Nat]

KeypairSlots == [current : Keypair \cup {None}, previous : Keypair \cup {None},
                 next : Keypair \cup {None}]

\* The type invariant, one variable at a time.
LEMMA TypeParts ==
    /\ TypeOK <=> /\ hs \in [Links -> Handshake] /\ kps \in [Links -> KeypairSlots]
                  /\ TablesOK(table) /\ WorkersOK(worker)
                  /\ flush \in [Links -> BOOLEAN] /\ fresh \in [Nodes -> Nat]
                  /\ NetOK(net) /\ derived \in [Links -> Seq(Keypair)]
    /\ TypeOK' <=> /\ hs' \in [Links -> Handshake] /\ kps' \in [Links -> KeypairSlots]
                   /\ TablesOK(table') /\ WorkersOK(worker')
                   /\ flush' \in [Links -> BOOLEAN] /\ fresh' \in [Nodes -> Nat]
                   /\ NetOK(net') /\ derived' \in [Links -> Seq(Keypair)]
  BY Zenon DEF TypeOK, Handshake, KeypairSlots, TablesOK, WorkersOK, NetOK

\* A worker moves on.
LEMMA WorkerMoves ==
    ASSUME WorkersOK(worker), NEW n \in Nodes, NEW w \in Workers,
           NEW st \in WorkerState(n), worker' = SetWorker(n, w, st)
    PROVE  WorkersOK(worker')
<1>1. worker[n] \in [Workers -> WorkerState(n)]
  BY DEF WorkersOK
<1>2. [worker[n] EXCEPT ![w] = st] \in [Workers -> WorkerState(n)]
  BY <1>1
<1>3. worker' = [worker EXCEPT ![n] = [worker[n] EXCEPT ![w] = st]]
  BY DEF SetWorker
<1> HIDE DEF SetWorker
<1> QED BY <1>2, <1>3 DEF WorkersOK

\* A packet is sent.
LEMMA PacketSent ==
    ASSUME NetOK(net), NEW p \in Nodes, NEW m \in Packet(p), net' = Sent(p, m)
    PROVE  NetOK(net')
  BY DEF NetOK, Sent

\* Three names are a transcript, and one more can be mixed in.
LEMMA Transcripts ==
    /\ <<>> \in Transcript
    /\ \A n, p \in Nodes, e \in Nat : <<n, p, e>> \in Transcript
    /\ \A c \in Transcript, r \in Nat : Append(c, r) \in Transcript
  BY DEF Transcript

\* A zeroed handshake is a handshake.
LEMMA ZeroedType ==
    ASSUME NEW h \in Handshake
    PROVE  ZeroedHandshake(h) \in Handshake
  BY Transcripts, Zenon DEF ZeroedHandshake, Handshake, AnyIndex

\* An idle worker has the type of a worker.
LEMMA IdleType ==
    ASSUME NEW n
    PROVE  Idle \in WorkerState(n)
  BY DEF Idle, WorkerState

\* CreateMessageInitiation keeps the invariant.
LEMMA InitiationStep ==
    ASSUME IInv, NEW l \in Links, CreateMessageInitiation(l)
    PROVE  IInv'
<1> DEFINE n == l[1]
           p == l[2]
           e == fresh[n] + 1
<1>1. n \in Nodes /\ p \in Nodes \ {n} /\ l = <<n, p>>
  BY LinkEnds
<1>2. TypeOK
  BY DEF IInv
<1>3. /\ hs \in [Links -> Handshake] /\ fresh \in [Nodes -> Nat] /\ NetOK(net)
  BY <1>2, TypeParts
<1>4. PICK i \in FreeIndices(Delete(table[n], hs[l].localIndex)) :
              /\ hs' = [hs EXCEPT ![l].chain = <<n, p, e>>,
                                  ![l].localIndex = i,
                                  ![l].state = "InitiationCreated"]
              /\ table' = [table EXCEPT ![n] =
                              Reindexed(@, hs[l].localIndex, i, p)]
              /\ net' = Sent(p, [type |-> "initiation", from |-> n,
                                 sender |-> i, e |-> e])
  BY Zenon DEF CreateMessageInitiation
<1>5. e \in Nat /\ fresh' = [fresh EXCEPT ![n] = e]
      /\ UNCHANGED <<kps, worker, flush, derived>>
  BY <1>1, <1>3 DEF CreateMessageInitiation
<1>6. i \in Indices
  BY DEF FreeIndices
<1> HIDE DEF n, p, e
<1>7. /\ hs' \in [Links -> Handshake]
      /\ DOMAIN hs' = Links
      /\ \A x \in Links : x # l => hs'[x] = hs[x]
      /\ hs'[l].localIndex = i
  <2>1. <<n, p, e>> \in Transcript
    BY <1>1, <1>5, Transcripts, Zenon
  <2> DEFINE new == [hs[l] EXCEPT !.chain = <<n, p, e>>, !.localIndex = i,
                                  !.state = "InitiationCreated"]
  <2>2. new \in Handshake /\ new.localIndex = i
    <3>1. hs[l] \in Handshake
      BY <1>3
    <3> QED BY <1>6, <2>1, <3>1, Zenon DEF Handshake, AnyIndex
  <2>3. hs' = [hs EXCEPT ![l] = new]
    BY <1>4, Zenon
  <2> HIDE DEF new
  <2> QED BY <1>3, <2>2, <2>3
<1>8. IndexTableExact' /\ TablesOK(table')
  <2>1. \A x \in Links : x # <<n, p>> => hs'[x] = hs[x]
    BY <1>1, <1>7
  <2>2. /\ hs'[<<n, p>>].localIndex = i /\ kps' = kps
        /\ i \in FreeIndices(Delete(table[n], hs[<<n, p>>].localIndex))
        /\ table' = [table EXCEPT ![n] =
                        Reindexed(@, hs[<<n, p>>].localIndex, i, p)]
    BY <1>1, <1>4, <1>5, <1>7, Zenon
  <2> QED BY <1>1, <1>7, <2>1, <2>2, Reindex, Zenon DEF TablesOK
<1>9. NetOK(net')
  <2>1. [type |-> "initiation", from |-> n, sender |-> i, e |-> e] \in Packet(p)
    BY <1>1, <1>5, <1>6 DEF Packet, Initiation
  <2> QED BY <1>1, <1>3, <1>4, <2>1, PacketSent
<1>10. TypeOK'
  BY <1>1, <1>2, <1>3, <1>5, <1>7, <1>8, <1>9, TypeParts
<1> QED BY <1>8, <1>10 DEF IInv

\* A step that changes neither an index of a handshake nor a slot nor a table.
LEMMA SameIndices ==
    ASSUME IInv, UNCHANGED <<kps, table>>, DOMAIN hs' = Links,
           \A l \in Links : hs'[l].localIndex = hs[l].localIndex
    PROVE  IndexTableExact'
<1>1. \A n \in Nodes : HandshakeIndices(n)' = HandshakeIndices(n)
                       /\ PeerKeypairs(n)' = PeerKeypairs(n)
  BY DEF HandshakeIndices, PeerKeypairs, Links
<1>2. \A n \in Nodes : NodeExact(n, table'[n], HandshakeIndices(n)', PeerKeypairs(n)')
  BY <1>1 DEF IInv, IndexTableExact
<1>3. \A n \in Nodes : NodeExact(n, table[n], HandshakeIndices(n), PeerKeypairs(n))'
  BY <1>2, Zenon DEF NodeExact, Leads
<1>4. \A l \in Links : SlotsDistinct(kps[l])'
  BY DEF IInv, IndexTableExact, SlotsDistinct, Indexed
<1> QED BY <1>3, <1>4 DEF IndexTableExact

\* The two checks change only the worker.
LEMMA CheckStep ==
    ASSUME IInv, NEW n \in Nodes, NEW w \in Workers, NEW m \in net[n],
           Receive(n, w, m)
    PROVE  IInv'
<1>1. TypeOK /\ UNCHANGED <<hs, kps, table, flush, fresh, net, derived>>
  BY Zenon DEF Receive, ConsumeInitiationCheck, ConsumeResponseCheck, IInv
<1>2. NetOK(net) /\ TablesOK(table) /\ WorkersOK(worker)
  BY <1>1, TypeParts
<1>3. m \in Packet(n)
  BY <1>2 DEF NetOK
<1>4. ASSUME ConsumeInitiationCheck(n, w, m) PROVE WorkersOK(worker')
  <2>1. m.type = "initiation"
    BY <1>4, Zenon DEF ConsumeInitiationCheck
  <2>2. m \in Initiation(n)
    BY <1>3, <2>1 DEF Packet, Response, Initiation
  <2>3. [pc |-> "initiation checked", peer |-> m.from, msg |-> m] \in WorkerState(n)
    BY <2>2, Zenon DEF Initiation, WorkerState
  <2> QED BY <1>2, <1>4, <2>3, WorkerMoves, Zenon DEF ConsumeInitiationCheck
<1>5. ASSUME ConsumeResponseCheck(n, w, m) PROVE WorkersOK(worker')
  <2>1. m.type = "response" /\ m.receiver \in DOMAIN table[n]
    BY <1>5, Zenon DEF ConsumeResponseCheck
  <2>2. m \in Response
    BY <1>3, <2>1 DEF Packet, Response, Initiation
  <2>3. table[n][m.receiver].peer \in Nodes \ {n}
    BY <1>2, <2>1 DEF TablesOK, IsTable
  <2>4. [pc |-> "response checked", peer |-> table[n][m.receiver].peer, msg |-> m]
           \in WorkerState(n)
    BY <2>2, <2>3, Zenon DEF WorkerState
  <2> QED BY <1>2, <1>5, <2>4, WorkerMoves, Zenon DEF ConsumeResponseCheck
<1>6. WorkersOK(worker')
  BY <1>4, <1>5 DEF Receive
<1>7. TypeOK'
  BY <1>1, <1>6, TypeParts
<1>8. IndexTableExact'
  <2>1. DOMAIN hs' = Links
    BY <1>1 DEF TypeOK
  <2> QED BY <1>1, <2>1, SameIndices
<1> QED BY <1>7, <1>8 DEF IInv

\* What a worker holds while it is busy.
LEMMA BusyWorker ==
    ASSUME TypeOK, NEW n \in Nodes, NEW w \in Workers
    PROVE  /\ worker[n][w].pc # "idle" => worker[n][w].peer \in Nodes \ {n}
           /\ worker[n][w].pc = "initiation checked" =>
                 worker[n][w].msg \in Initiation(n)
           /\ worker[n][w].pc \in {"response created", "response checked"} =>
                 worker[n][w].msg \in Response
<1>1. worker[n][w] \in WorkerState(n)
  BY DEF TypeOK
<1> QED BY <1>1, Zenon DEF WorkerState

\* The locked halves of ConsumeMessageInitiation and ConsumeMessageResponse.
LEMMA UpdateStep ==
    ASSUME IInv, NEW n \in Nodes, NEW w \in Workers,
           ConsumeInitiationUpdate(n, w) \/ ConsumeResponseUpdate(n, w)
    PROVE  IInv'
<1> DEFINE p == worker[n][w].peer
           l == <<n, p>>
           m == worker[n][w].msg
<1>1. TypeOK
  BY DEF IInv
<1>2. hs \in [Links -> Handshake] /\ WorkersOK(worker)
  BY <1>1, TypeParts
<1>3. UNCHANGED <<kps, table, flush, fresh, net, derived>>
  BY Zenon DEF ConsumeInitiationUpdate, ConsumeResponseUpdate
<1>4. ASSUME ConsumeInitiationUpdate(n, w)
      PROVE  /\ WorkersOK(worker')
             /\ \E new \in Handshake : /\ new.localIndex = hs[l].localIndex
                                       /\ hs' = [hs EXCEPT ![l] = new]
             /\ l \in Links
  <2>1. p \in Nodes \ {n} /\ m \in Initiation(n)
    BY <1>1, <1>4, BusyWorker, Zenon DEF ConsumeInitiationUpdate
  <2>2. l \in Links
    BY <2>1 DEF Links
  <2>3. hs[l] \in Handshake
    BY <1>2, <2>2
  <2> DEFINE new == [hs[l] EXCEPT !.chain = <<p, n, m.e>>,
                        !.remoteIndex = m.sender,
                        !.lastTimestamp = IF m.e > @ THEN m.e ELSE @,
                        !.state = "InitiationConsumed"]
  <2>4. hs' = [hs EXCEPT ![l] = new]
    BY <1>4, Zenon DEF ConsumeInitiationUpdate
  <2>5. m.e \in Nat /\ m.sender \in AnyIndex /\ <<p, n, m.e>> \in Transcript
    BY <2>1, Transcripts DEF Initiation, AnyIndex
  <2>6. [pc |-> "initiation consumed", peer |-> p] \in WorkerState(n)
    BY <2>1, Zenon DEF WorkerState
  <2>7. WorkersOK(worker')
    BY <1>2, <1>4, <2>6, WorkerMoves, Zenon DEF ConsumeInitiationUpdate
  <2> HIDE DEF p, m, l
  <2>8. new \in Handshake /\ new.localIndex = hs[l].localIndex
    BY <2>3, <2>5, Zenon DEF Handshake
  <2> QED BY <2>2, <2>4, <2>7, <2>8, Zenon
<1>5. ASSUME ConsumeResponseUpdate(n, w)
      PROVE  /\ WorkersOK(worker')
             /\ \E new \in Handshake : /\ new.localIndex = hs[l].localIndex
                                       /\ hs' = [hs EXCEPT ![l] = new]
             /\ l \in Links
  <2>1. p \in Nodes \ {n} /\ m \in Response
    BY <1>1, <1>5, BusyWorker, Zenon DEF ConsumeResponseUpdate
  <2>2. l \in Links
    BY <2>1 DEF Links
  <2>3. hs[l] \in Handshake
    BY <1>2, <2>2
  <2> DEFINE new == [hs[l] EXCEPT !.chain = m.key, !.remoteIndex = m.sender,
                                  !.state = "ResponseConsumed"]
  <2>4. hs' = [hs EXCEPT ![l] = new]
    BY <1>5, Zenon DEF ConsumeResponseUpdate
  <2>5. m.key \in Transcript /\ m.sender \in AnyIndex
    BY <2>1 DEF Response, AnyIndex
  <2>6. [pc |-> "response consumed", peer |-> p] \in WorkerState(n)
    BY <2>1, Zenon DEF WorkerState
  <2>7. WorkersOK(worker')
    BY <1>2, <1>5, <2>6, WorkerMoves, Zenon DEF ConsumeResponseUpdate
  <2> HIDE DEF p, m, l
  <2>8. new \in Handshake /\ new.localIndex = hs[l].localIndex
    BY <2>3, <2>5, Zenon DEF Handshake
  <2> QED BY <2>2, <2>4, <2>7, <2>8, Zenon
<1> HIDE DEF l
<1>6. PICK new \in Handshake : /\ new.localIndex = hs[l].localIndex
                               /\ hs' = [hs EXCEPT ![l] = new]
  BY <1>4, <1>5
<1>7. /\ hs' \in [Links -> Handshake]
      /\ \A x \in Links : hs'[x].localIndex = hs[x].localIndex
  BY <1>2, <1>4, <1>5, <1>6
<1>8. TypeOK'
  BY <1>1, <1>3, <1>4, <1>5, <1>7, TypeParts
<1>9. IndexTableExact'
  BY <1>3, <1>7, SameIndices
<1> QED BY <1>8, <1>9 DEF IInv

\* CreateMessageResponse keeps the invariant.
LEMMA ResponseStep ==
    ASSUME IInv, NEW n \in Nodes, NEW w \in Workers, CreateMessageResponse(n, w)
    PROVE  IInv'
<1> DEFINE p == worker[n][w].peer
           l == <<n, p>>
           r == fresh[n] + 1
           key == Append(hs[l].chain, r)
<1>1. TypeOK
  BY DEF IInv
<1>2. /\ hs \in [Links -> Handshake] /\ WorkersOK(worker)
      /\ fresh \in [Nodes -> Nat]
  BY <1>1, TypeParts
<1>3. p \in Nodes \ {n} /\ UNCHANGED <<kps, flush, net, derived>>
  BY <1>1, BusyWorker, Zenon DEF CreateMessageResponse
<1>4. l \in Links
  BY <1>3 DEF Links
<1>5. CASE hs[l].state # "InitiationConsumed"
  <2>1. worker' = SetWorker(n, w, Idle) /\ UNCHANGED <<hs, table, fresh>>
    BY <1>5, Zenon DEF CreateMessageResponse
  <2>2. WorkersOK(worker')
    BY <1>2, <2>1, IdleType, WorkerMoves
  <2>3. TypeOK'
    BY <1>1, <1>3, <2>1, <2>2, TypeParts
  <2>4. IndexTableExact'
    BY <1>2, <1>3, <2>1, SameIndices
  <2> QED BY <2>3, <2>4 DEF IInv
<1>6. CASE hs[l].state = "InitiationConsumed"
  <2>1. PICK i \in FreeIndices(Delete(table[n], hs[l].localIndex)) :
          /\ hs' = [hs EXCEPT ![l].chain = key, ![l].localIndex = i,
                              ![l].state = "ResponseCreated"]
          /\ table' = [table EXCEPT ![n] = Reindexed(@, hs[l].localIndex, i, p)]
          /\ worker' = SetWorker(n, w,
                [pc |-> "response created", peer |-> p,
                 msg |-> [type |-> "response", sender |-> i,
                          receiver |-> hs[l].remoteIndex, key |-> key]])
    BY <1>6, Zenon DEF CreateMessageResponse
  <2>2. fresh' = [fresh EXCEPT ![n] = r]
    BY <1>6, Zenon DEF CreateMessageResponse
  <2> DEFINE new == [hs[l] EXCEPT !.chain = key, !.localIndex = i,
                                  !.state = "ResponseCreated"]
             msg == [type |-> "response", sender |-> i,
                     receiver |-> hs[l].remoteIndex, key |-> key]
             st == [pc |-> "response created", peer |-> p, msg |-> msg]
  <2>3. hs' = [hs EXCEPT ![l] = new] /\ worker' = SetWorker(n, w, st)
    BY <2>1, Zenon
  <2>4. i \in Indices /\ i \in AnyIndex
    BY DEF FreeIndices, AnyIndex
  <2>5. hs[l] \in Handshake /\ r \in Nat
    <3>1. fresh[n] \in Nat
      BY <1>2
    <3>2. hs[l] \in Handshake
      BY <1>2, <1>4, Zenon
    <3> QED BY <3>1, <3>2
  <2>6. hs[l].chain \in Transcript /\ hs[l].remoteIndex \in AnyIndex
    BY <2>5 DEF Handshake
  <2>7. key \in Transcript
    BY <2>5, <2>6, Transcripts
  <2> HIDE DEF key, r, l, p
  <2>8. new \in Handshake /\ new.localIndex = i
    BY <2>4, <2>5, <2>7, Zenon DEF Handshake
  <2>9. msg \in Response
    BY <2>4, <2>6, <2>7 DEF Response
  <2> HIDE DEF new, msg
  <2>10. st \in WorkerState(n)
    BY <1>3, <2>9, Zenon DEF WorkerState
  <2> HIDE DEF st
  <2>11. WorkersOK(worker')
    BY <1>2, <2>3, <2>10, WorkerMoves
  <2>12. /\ hs' \in [Links -> Handshake] /\ DOMAIN hs' = Links
         /\ \A x \in Links : x # l => hs'[x] = hs[x]
         /\ hs'[l].localIndex = i /\ fresh' \in [Nodes -> Nat] /\ kps' = kps
    BY <1>2, <1>3, <1>4, <2>2, <2>3, <2>5, <2>8
  <2>13. IndexTableExact' /\ TablesOK(table')
    <3>1. hs'[<<n, p>>].localIndex = i
          /\ \A x \in Links : x # <<n, p>> => hs'[x] = hs[x]
      BY <2>12, Zenon DEF l
    <3>2. /\ i \in FreeIndices(Delete(table[n], hs[<<n, p>>].localIndex))
          /\ table' = [table EXCEPT ![n] =
                          Reindexed(@, hs[<<n, p>>].localIndex, i, p)]
      BY <2>1, Zenon DEF l
    <3> QED BY <1>3, <2>12, <3>1, <3>2, Reindex, Zenon DEF TablesOK
  <2>14. TypeOK'
    BY <1>1, <1>3, <2>11, <2>12, <2>13, TypeParts
  <2> QED BY <2>13, <2>14 DEF IInv
<1> QED BY <1>5, <1>6

\* The types after BeginSymmetricSession.
LEMMA SessionTypes ==
    ASSUME TypeOK, NEW l \in Links, BeginSymmetricSession(l)
    PROVE  /\ hs' \in [Links -> Handshake] /\ kps' \in [Links -> KeypairSlots]
           /\ derived' \in [Links -> Seq(Keypair)]
<1> DEFINE k == NewKeypair(l)
<1>1. /\ hs \in [Links -> Handshake] /\ kps \in [Links -> KeypairSlots]
      /\ derived \in [Links -> Seq(Keypair)]
  BY TypeParts
<1>2. k \in Keypair
  <2>1. /\ hs[l].chain \in Transcript /\ hs[l].localIndex \in AnyIndex
        /\ hs[l].remoteIndex \in AnyIndex
        /\ (hs[l].state = "ResponseConsumed") \in BOOLEAN
    BY <1>1 DEF Handshake
  <2> QED BY <2>1 DEF NewKeypair, Keypair
<1>3. /\ hs' = [hs EXCEPT ![l] = ZeroedHandshake(hs[l])]
      /\ kps' = [kps EXCEPT ![l] = Rotated(kps[l], k)]
      /\ derived' = [derived EXCEPT ![l] = Append(derived[l], k)]
  BY DEF BeginSymmetricSession
<1> HIDE DEF k
<1>4. ZeroedHandshake(hs[l]) \in Handshake
  BY <1>1, ZeroedType
<1>5. Rotated(kps[l], k) \in KeypairSlots
  BY <1>1, <1>2 DEF Rotated, KeypairSlots
<1>6. Append(derived[l], k) \in Seq(Keypair)
  BY <1>1, <1>2
<1> QED BY <1>1, <1>3, <1>4, <1>5, <1>6

\* A data packet has the type of a packet.
LEMMA DataType ==
    ASSUME NEW k \in Keypair, NEW n \in Nodes
    PROVE  Data(k) \in Packet(n)
  BY DEF Data, Packet, Keypair

\* FinishResponse and FinishSession keep the invariant.
LEMMA FinishStep ==
    ASSUME IInv, NEW n \in Nodes, NEW w \in Workers,
           FinishResponse(n, w) \/ FinishSession(n, w)
    PROVE  IInv'
<1> DEFINE p == worker[n][w].peer
           l == <<n, p>>
<1>1. TypeOK
  BY DEF IInv
<1>2. WorkersOK(worker) /\ NetOK(net)
  BY <1>1, TypeParts
<1>3. /\ worker' = SetWorker(n, w, Idle) /\ UNCHANGED <<flush, fresh>>
      /\ worker[n][w].pc \in {"response created", "response consumed"}
  BY Zenon DEF FinishResponse, FinishSession
<1>4. p \in Nodes \ {n}
  BY <1>1, <1>3, BusyWorker, Zenon
<1>5. l \in Links
  BY <1>4 DEF Links
<1>6. WorkersOK(worker')
  BY <1>2, <1>3, IdleType, WorkerMoves, Zenon
<1>7. CASE UNCHANGED <<hs, kps, table, net, derived>>
  <2>1. TypeOK'
    BY <1>1, <1>3, <1>6, <1>7, TypeParts, Zenon
  <2>2. DOMAIN hs' = Links
    BY <1>1, <1>7, Zenon DEF TypeOK
  <2>3. IndexTableExact'
    BY <1>7, <2>2, SameIndices
  <2> QED BY <2>1, <2>3 DEF IInv
<1>8. CASE BeginSymmetricSession(l) /\ NetOK(net')
  <2>1. IndexTableExact' /\ TablesOK(table')
    BY <1>4, <1>8, SessionBegun, Zenon DEF TablesOK
  <2>2. /\ hs' \in [Links -> Handshake] /\ kps' \in [Links -> KeypairSlots]
        /\ derived' \in [Links -> Seq(Keypair)]
    BY <1>1, <1>5, <1>8, SessionTypes
  <2>3. TypeOK'
    BY <1>1, <1>3, <1>6, <1>8, <2>1, <2>2, TypeParts, Zenon
  <2> QED BY <2>1, <2>3 DEF IInv
<1>9. CASE BeginSymmetricSession(l) /\ FinishResponse(n, w)
  <2>1. \/ net' = Sent(p, worker[n][w].msg)
        \/ net' = net
    BY <1>9, Zenon DEF FinishResponse
  <2>2. worker[n][w].msg \in Packet(p)
    BY <1>1, <1>9, BusyWorker, Zenon DEF FinishResponse, Packet
  <2>3. NetOK(net')
    BY <1>2, <1>4, <2>1, <2>2, PacketSent
  <2> QED BY <1>8, <1>9, <2>3
<1>10. CASE BeginSymmetricSession(l) /\ FinishSession(n, w)
  <2>1. \/ kps'[l].current # None /\ net' = Sent(p, Data(kps'[l].current))
        \/ net' = net
    BY <1>10, Zenon DEF FinishSession
  <2>2. kps' \in [Links -> KeypairSlots]
    BY <1>1, <1>5, <1>10, SessionTypes
  <2>3. kps'[l].current \in Keypair \cup {None}
    BY <1>5, <2>2 DEF KeypairSlots
  <2>4. kps'[l].current # None => Data(kps'[l].current) \in Packet(p)
    BY <1>4, <2>3, DataType
  <2>5. NetOK(net')
    BY <1>2, <1>4, <2>1, <2>4, PacketSent
  <2> QED BY <1>8, <1>10, <2>5
<1> QED BY <1>7, <1>9, <1>10, Zenon DEF FinishResponse, FinishSession

\* Sending data keeps the invariant.
LEMMA SendStep ==
    ASSUME IInv, NEW l \in Links, SendStagedPackets(l)
    PROVE  IInv'
<1>1. TypeOK /\ l[2] \in Nodes
  BY LinkEnds DEF IInv
<1>2. kps \in [Links -> KeypairSlots] /\ NetOK(net) /\ hs \in [Links -> Handshake]
  BY <1>1, TypeParts
<1>3. /\ kps[l].current # None /\ net' = Sent(l[2], Data(kps[l].current))
      /\ UNCHANGED <<hs, kps, table, worker, flush, fresh, derived>>
  BY DEF SendStagedPackets
<1>4. kps[l].current \in Keypair
  BY <1>2, <1>3 DEF KeypairSlots
<1>5. NetOK(net')
  <2>1. Data(kps[l].current) \in Packet(l[2])
    BY <1>1, <1>4, DataType
  <2> QED BY <1>1, <1>2, <1>3, <2>1, PacketSent
<1>6. TypeOK'
  BY <1>1, <1>3, <1>5, TypeParts
<1>7. IndexTableExact'
  BY <1>2, <1>3, SameIndices
<1> QED BY <1>6, <1>7 DEF IInv

\* A step on the slots of one link: the invariant from its parts.
LEMMA SlotStep ==
    ASSUME IInv, NEW l \in Links, NEW kp \in KeypairSlots,
           kps' = [kps EXCEPT ![l] = kp],
           IndexTableExact', TablesOK(table'), flush' \in [Links -> BOOLEAN],
           UNCHANGED <<hs, worker, fresh, net, derived>>
    PROVE  IInv'
<1>1. TypeOK
  BY DEF IInv
<1>2. kps' \in [Links -> KeypairSlots]
  <2>1. kps \in [Links -> KeypairSlots]
    BY <1>1, TypeParts
  <2> QED BY <2>1
<1>3. TypeOK'
  BY <1>1, <1>2, TypeParts
<1> QED BY <1>3 DEF IInv

\* The promotion of the next keypair keeps the invariant.
LEMMA DataStep ==
    ASSUME IInv, NEW n \in Nodes, NEW m \in net[n], ReceiveData(n, m)
    PROVE  IInv'
<1> DEFINE p == table[n][m.receiver].peer
           l == <<n, p>>
           gone == {kps[l].previous}
           kp == [current |-> kps[l].next, previous |-> kps[l].current,
                  next |-> None]
<1>1. TypeOK
  BY DEF IInv
<1>2. kps \in [Links -> KeypairSlots] /\ flush \in [Links -> BOOLEAN]
  BY <1>1, TypeParts
<1>3. /\ ReceivedWithKeypair(l) /\ m.receiver \in DOMAIN table[n]
      /\ kps[l].next # None
      /\ UNCHANGED <<hs, worker, flush, fresh, net, derived>>
  BY DEF ReceiveData
<1>4. p \in Nodes \ {n}
  BY <1>1, <1>3, Zenon DEF TypeOK, IsTable
<1>5. l \in Links /\ SlotsDistinct(kps[l])
  BY <1>4, Zenon DEF Links, IInv, IndexTableExact
<1>6. kps[l] \in KeypairSlots
  BY <1>2, <1>5
<1>7. /\ kps' = [kps EXCEPT ![l] = kp]
      /\ table' = [table EXCEPT ![n] = DeleteKeypairs(@, gone)]
  BY <1>3, Zenon DEF ReceivedWithKeypair
<1>8. kp \in KeypairSlots
  BY <1>6, Zenon DEF KeypairSlots
<1>9. /\ gone \ {None} \subseteq Slots(kps[l])
      /\ Slots(kp) \subseteq Slots(kps[l])
      /\ \A k \in Slots(kps[l]) :
            k.localIndex # NoIndex => (k \in Slots(kp) <=> k \notin gone)
      /\ SlotsDistinct(kp)
  BY <1>5, Zenon DEF Slots, SlotsDistinct, Indexed
<1> HIDE DEF kp, gone
<1>10. IndexTableExact' /\ TablesOK(table')
  BY <1>3, <1>4, <1>7, <1>9, SlotsDropped, Zenon DEF TablesOK
<1> HIDE DEF l
<1> QED BY <1>2, <1>3, <1>5, <1>7, <1>8, <1>10, SlotStep, Zenon

\* Both halves of ZeroAndFlushAll and ExpireCurrentKeypairs keep it.
LEMMA ForgetStep ==
    ASSUME IInv, NEW l \in Links,
           ZeroKeypairs(l) \/ ZeroHandshake(l) \/ ExpireCurrentKeypairs(l)
    PROVE  IInv'
<1> DEFINE n == l[1]
           p == l[2]
<1>1. n \in Nodes /\ p \in Nodes \ {n} /\ l = <<n, p>>
  BY LinkEnds
<1>2. TypeOK
  BY DEF IInv
<1>3. /\ hs \in [Links -> Handshake] /\ flush \in [Links -> BOOLEAN]
      /\ kps \in [Links -> KeypairSlots]
  BY <1>2, TypeParts
<1> HIDE DEF n, p
<1>4. CASE ZeroKeypairs(l)
  <2> DEFINE gone == {kps[l].previous, kps[l].current, kps[l].next}
             kp == [current |-> None, previous |-> None, next |-> None]
  <2>1. /\ kps' = [kps EXCEPT ![l] = kp]
        /\ table' = [table EXCEPT ![n] = DeleteKeypairs(@, gone)]
        /\ UNCHANGED <<hs, worker, fresh, net, derived>>
        /\ flush' \in [Links -> BOOLEAN]
    BY <1>3, <1>4, Zenon DEF ZeroKeypairs, n
  <2>2. kp \in KeypairSlots
    BY DEF KeypairSlots
  <2>3. /\ gone \ {None} \subseteq Slots(kps[l])
        /\ Slots(kp) \subseteq Slots(kps[l])
        /\ \A k \in Slots(kps[l]) :
              k.localIndex # NoIndex => (k \in Slots(kp) <=> k \notin gone)
        /\ SlotsDistinct(kp)
    BY Zenon DEF Slots, SlotsDistinct, Indexed
  <2> HIDE DEF kp, gone
  <2>4. IndexTableExact' /\ TablesOK(table')
    BY <1>1, <2>1, <2>3, SlotsDropped, Zenon DEF TablesOK
  <2> QED BY <2>1, <2>2, <2>4, SlotStep, Zenon
<1>5. CASE ZeroHandshake(l) \/ ExpireCurrentKeypairs(l)
  <2>1. /\ ClearHandshake(l) /\ flush' \in [Links -> BOOLEAN]
        /\ UNCHANGED <<kps, worker, fresh, net, derived>>
    BY <1>3, <1>5, Zenon DEF ZeroHandshake, ExpireCurrentKeypairs
  <2>2. IndexTableExact' /\ TablesOK(table')
    BY <1>1, <2>1, Cleared DEF TablesOK
  <2>3. hs' \in [Links -> Handshake]
    <3>1. hs' = [hs EXCEPT ![l] = ZeroedHandshake(hs[l])]
      BY <2>1 DEF ClearHandshake
    <3>2. ZeroedHandshake(hs[l]) \in Handshake
      BY <1>3, ZeroedType
    <3> QED BY <1>3, <3>1, <3>2
  <2>4. TypeOK'
    BY <1>2, <2>1, <2>2, <2>3, TypeParts
  <2> QED BY <2>2, <2>4 DEF IInv
<1> QED BY <1>4, <1>5

-----------------------------------------------------------------------------
\* The initial state: every slot, index and table is empty.
LEMMA InitInvariant == Init => IInv
<1> SUFFICES ASSUME Init PROVE IInv
  OBVIOUS
<1>1. hs \in [Links -> Handshake]
  BY Transcripts DEF Init, Handshake, AnyIndex
<1>2. kps \in [Links -> KeypairSlots]
  BY DEF Init, KeypairSlots
<1>3. TablesOK(table)
  BY Zenon DEF Init, TablesOK, IsTable
<1>4. WorkersOK(worker)
  BY IdleType DEF Init, WorkersOK
<1>5. NetOK(net) /\ flush \in [Links -> BOOLEAN] /\ fresh \in [Nodes -> Nat]
      /\ derived \in [Links -> Seq(Keypair)]
  BY DEF Init, NetOK
<1>6. TypeOK
  BY <1>1, <1>2, <1>3, <1>4, <1>5, TypeParts
<1>7. IndexTableExact
  <2>1. ASSUME NEW n \in Nodes
        PROVE  NodeExact(n, table[n], HandshakeIndices(n), PeerKeypairs(n))
    <3>1. \A q \in Nodes \ {n} : <<n, q>> \in Links
      BY DEF Links
    <3>2. \A q \in Nodes \ {n} : /\ HandshakeIndices(n)[q] = NoIndex
                                 /\ PeerKeypairs(n)[q] = {}
      BY <3>1, Zenon DEF Init, HandshakeIndices, PeerKeypairs, Slots
    <3>3. DOMAIN table[n] = {}
      BY DEF Init
    <3> QED BY <3>2, <3>3, Zenon DEF NodeExact
  <2>2. \A l \in Links : SlotsDistinct(kps[l])
    BY DEF Init, SlotsDistinct, Indexed
  <2> QED BY <2>1, <2>2 DEF IndexTableExact
<1> QED BY <1>6, <1>7 DEF IInv

\* Every step of every routine, and stuttering, keeps the invariant.
LEMMA StepInvariant == IInv /\ [Next]_vars => IInv'
<1> SUFFICES ASSUME IInv, [Next]_vars PROVE IInv'
  OBVIOUS
<1>1. ASSUME NEW l \in Links, CreateMessageInitiation(l) PROVE IInv'
  BY <1>1, InitiationStep
<1>2. ASSUME NEW l \in Links, SendStagedPackets(l) PROVE IInv'
  BY <1>2, SendStep
<1>3. ASSUME NEW l \in Links,
             ZeroKeypairs(l) \/ ZeroHandshake(l) \/ ExpireCurrentKeypairs(l)
      PROVE  IInv'
  BY <1>3, ForgetStep
<1>4. ASSUME NEW n \in Nodes, NEW w \in Workers, WorkerStep(n, w) PROVE IInv'
  BY <1>4, UpdateStep, ResponseStep, FinishStep DEF WorkerStep
<1>5. ASSUME NEW n \in Nodes, NEW w \in Workers, NEW m \in net[n],
             Receive(n, w, m)
      PROVE  IInv'
  BY <1>5, CheckStep
<1>6. ASSUME NEW n \in Nodes, NEW m \in net[n], ReceiveData(n, m) PROVE IInv'
  BY <1>6, DataStep
<1>7. ASSUME UNCHANGED vars PROVE IInv'
  <2>1. UNCHANGED <<hs, kps, table, worker, flush, fresh, net, derived>>
    BY <1>7 DEF vars
  <2>2. TypeOK' /\ DOMAIN hs' = Links
    BY <2>1, Zenon DEF IInv, TypeOK
  <2>3. IndexTableExact'
    BY <2>1, <2>2, SameIndices
  <2> QED BY <2>2, <2>3 DEF IInv
<1> QED BY <1>1, <1>2, <1>3, <1>4, <1>5, <1>6, <1>7, Zenon DEF Next, Step

\* The handshake, keypair and index table state is well typed, for every set
\* of nodes, indices and workers.
THEOREM TypeCorrect == Spec => []TypeOK
<1>1. IInv => TypeOK
  BY DEF IInv
<1> QED BY <1>1, InitInvariant, StepInvariant, PTL DEF Spec

\* The index table holds exactly the handshakes and keypairs that peers hold,
\* for every number of nodes and of concurrent handshake workers, under loss,
\* duplication and reordering, with ZeroAndFlushAll and ExpireCurrentKeypairs
\* striking at any point.
THEOREM TableExact == Spec => []IndexTableExact
<1>1. IInv => IndexTableExact
  BY DEF IInv
<1> QED BY <1>1, InitInvariant, StepInvariant, PTL DEF Spec
=============================================================================
