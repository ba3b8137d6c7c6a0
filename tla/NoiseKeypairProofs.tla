------------------------ MODULE NoiseKeypairProofs ------------------------
(***************************************************************************)
(* The keypairs a handshake makes, for every number of handshake workers:  *)
(* an initiation makes one keypair at either end, and a key that an        *)
(* initiator derives is one that the responder has, on every link on which *)
(* no two workers met; and no race makes a responder use a key twice.      *)
(*                                                                         *)
(* A worker that has met no other owns the handshake between its steps, so *)
(* that what ConsumeMessageInitiation and ConsumeMessageResponse have      *)
(* checked still holds when they update it.                                *)
(***************************************************************************)
EXTENDS NoiseAgreementProofs

\* A handshake is between two messages only while its worker is.
OwnedLink(l) ==
    /\ hs[l].state = "InitiationConsumed" => \E w \in Workers :
          worker[l[1]][w].pc = "initiation consumed" /\ worker[l[1]][w].peer = l[2]
    /\ hs[l].state = "ResponseCreated" => \E w \in Workers :
          /\ worker[l[1]][w].pc = "response created" /\ worker[l[1]][w].peer = l[2]
          /\ worker[l[1]][w].msg.key = hs[l].chain
    /\ hs[l].state = "ResponseConsumed" => \E w \in Workers :
          worker[l[1]][w].pc = "response consumed" /\ worker[l[1]][w].peer = l[2]

\* The initiations that l made a keypair for, in either role.
UsedUp(l, initiating) == {k.key[3] : k \in {x \in Made(l) : x.isInitiator = initiating}}

\* An initiation that is being answered is later than all that were.
AnsweredLink(l) ==
    /\ \A e \in UsedUp(l, FALSE) : e \in Nat /\ e <= hs[l].lastTimestamp
    /\ hs[l].state \in {"InitiationConsumed", "ResponseCreated"} =>
          /\ hs[l].chain[3] \in Nat /\ hs[l].chain[3] <= hs[l].lastTimestamp
          /\ hs[l].chain[3] \notin UsedUp(l, FALSE)
    /\ \A w \in Workers :
          worker[l[1]][w].pc = "initiation checked" /\ worker[l[1]][w].peer = l[2] =>
             worker[l[1]][w].msg.e > hs[l].lastTimestamp

\* An initiation that may still be answered is one that was made, and has no
\* keypair.
Pending(l, e) == e \in Nat /\ e <= fresh[l[1]] /\ e \notin UsedUp(l, TRUE)

InitiatedLink(l) ==
    /\ \A e \in UsedUp(l, TRUE) : e \in Nat /\ e <= fresh[l[1]]
    /\ hs[l].state \in {"InitiationCreated", "ResponseConsumed"} => Pending(l, hs[l].chain[3])
    /\ \A w \in Workers :
          worker[l[1]][w].pc = "response checked" /\ worker[l[1]][w].peer = l[2] =>
             Pending(l, worker[l[1]][w].msg.key[3])

\* The responder has a keypair for the key.
Backed(l, key) == \E o \in Made(Opposite(l)) : o.key = key /\ ~ o.isInitiator

BackedLink(l) ==
    /\ \A m \in net[l[1]] : m.type = "response" /\ m.key[2] = l[2] => Backed(l, m.key)
    /\ hs[l].state = "ResponseConsumed" => Backed(l, hs[l].chain)
    /\ \A k \in Made(l) : k.isInitiator => Backed(l, k.key)
    /\ \A w \in Workers :
          worker[l[1]][w].pc = "response checked" /\ worker[l[1]][w].peer = l[2] =>
             Backed(l, worker[l[1]][w].msg.key)

\* No two keypairs of a link come from the same initiation.
Differ(k, o) == \E x \in 1..3 : k.key[x] # o.key[x]

OneEach(l) == \A i, j \in DOMAIN derived[l] : i # j => Differ(derived[l][i], derived[l][j])

LinkInv(l) == OwnedLink(l) /\ AnsweredLink(l) /\ InitiatedLink(l) /\ OneEach(l)

\* What holds of a link, or of the keys it has from the other end, until two
\* workers meet.
RaceInv == /\ \A l \in Links : l \notin raced => ~ Races(l) /\ LinkInv(l)
           /\ \A l \in Links : Opposite(l) \notin raced => BackedLink(l)

\* No two keypairs that a responder made have the same key, race or no race.
OwnKey(k, o) == k.isInitiator \/ o.isInitiator \/ k.key # o.key

OwnKeys(l) ==
    /\ hs[l].state = "ResponseCreated" =>
          \A k \in Made(l) : k.isInitiator \/ k.key # hs[l].chain
    /\ \A i, j \in DOMAIN derived[l] : i # j => OwnKey(derived[l][i], derived[l][j])

KeyInv == \A l \in Links : OwnKeys(l)

\* A step takes note of the workers that meet.
Noted == raced \subseteq raced' /\ \A l \in Links : Races(l)' => l \in raced'

-----------------------------------------------------------------------------
(* What a step must show of the parts it changes *)

LEMMA Unraced ==
    ASSUME RaceInv, Noted, NEW l \in Links, l \notin raced'
    PROVE  ~ Races(l) /\ ~ Races(l)' /\ LinkInv(l)
  BY Zenon DEF RaceInv, Noted

LEMMA Backing ==
    ASSUME RaceInv, Noted, NEW l \in Links, Opposite(l) \notin raced'
    PROVE  BackedLink(l)
  BY Zenon DEF RaceInv, Noted

LEMMA Kept ==
    ASSUME Noted, \A l \in Links : l \notin raced' => LinkInv(l)',
           \A l \in Links : Opposite(l) \notin raced' => BackedLink(l)'
    PROVE  RaceInv'
  BY Zenon DEF RaceInv, Noted, Opposite

LEMMA OwnedFrame ==
    ASSUME NEW x \in Links, OwnedLink(x), hs'[x] = hs[x],
           \A y \in Workers : Works(x, y) => worker'[x[1]][y] = worker[x[1]][y]
    PROVE  OwnedLink(x)'
<1>1. ASSUME hs'[x].state = "InitiationConsumed"
      PROVE  \E w \in Workers :
         /\ worker'[x[1]][w].pc = "initiation consumed" /\ worker'[x[1]][w].peer = x[2]
  <2>1. PICK w \in Workers :
           /\ worker[x[1]][w].pc = "initiation consumed" /\ worker[x[1]][w].peer = x[2]
    BY <1>1, Zenon DEF OwnedLink
  <2>2. worker'[x[1]][w] = worker[x[1]][w]
    BY <2>1, Zenon DEF Works
  <2> QED BY <2>1, <2>2, Zenon
<1>2. ASSUME hs'[x].state = "ResponseCreated"
      PROVE  \E w \in Workers :
         /\ worker'[x[1]][w].pc = "response created" /\ worker'[x[1]][w].peer = x[2]
         /\ worker'[x[1]][w].msg.key = hs'[x].chain
  <2>1. PICK w \in Workers :
           /\ worker[x[1]][w].pc = "response created" /\ worker[x[1]][w].peer = x[2]
           /\ worker[x[1]][w].msg.key = hs[x].chain
    BY <1>2, Zenon DEF OwnedLink
  <2>2. worker'[x[1]][w] = worker[x[1]][w]
    BY <2>1, Zenon DEF Works
  <2> QED BY <2>1, <2>2, Zenon
<1>3. ASSUME hs'[x].state = "ResponseConsumed"
      PROVE  \E w \in Workers :
         /\ worker'[x[1]][w].pc = "response consumed" /\ worker'[x[1]][w].peer = x[2]
  <2>1. PICK w \in Workers :
           /\ worker[x[1]][w].pc = "response consumed" /\ worker[x[1]][w].peer = x[2]
    BY <1>3, Zenon DEF OwnedLink
  <2>2. worker'[x[1]][w] = worker[x[1]][w]
    BY <2>1, Zenon DEF Works
  <2> QED BY <2>1, <2>2, Zenon
<1> QED BY <1>1, <1>2, <1>3, Zenon DEF OwnedLink

LEMMA AnsweredFrame ==
    ASSUME NEW x \in Links, AnsweredLink(x), Made(x)' = Made(x),
           hs'[x].lastTimestamp = hs[x].lastTimestamp,
           \/ hs'[x] = hs[x]
           \/ hs'[x].state \notin {"InitiationConsumed", "ResponseCreated"},
           \A y \in Workers : \/ worker'[x[1]][y] = worker[x[1]][y]
                              \/ worker'[x[1]][y].pc # "initiation checked"
                              \/ worker'[x[1]][y].peer # x[2]
    PROVE  AnsweredLink(x)'
<1>1. UsedUp(x, FALSE)' = UsedUp(x, FALSE)
  BY Zenon DEF UsedUp
<1> QED BY <1>1, Zenon DEF AnsweredLink

LEMMA NotLater == \A e, f, g \in Nat : e <= f /\ f <= g => e <= g
  OBVIOUS

LEMMA InitiatedFrame ==
    ASSUME NEW x \in Links, InitiatedLink(x), Made(x)' = Made(x),
           fresh[x[1]] \in Nat, fresh'[x[1]] \in Nat, fresh[x[1]] <= fresh'[x[1]],
           \/ hs'[x] = hs[x]
           \/ hs'[x].state \notin {"InitiationCreated", "ResponseConsumed"},
           \A y \in Workers : \/ worker'[x[1]][y] = worker[x[1]][y]
                              \/ worker'[x[1]][y].pc # "response checked"
                              \/ worker'[x[1]][y].peer # x[2]
    PROVE  InitiatedLink(x)'
<1>1. UsedUp(x, TRUE)' = UsedUp(x, TRUE)
  BY Zenon DEF UsedUp
<1>2. PICK f \in Nat, g \in Nat : f = fresh[x[1]] /\ g = fresh'[x[1]] /\ f <= g
  BY Zenon
<1>3. \A e \in Nat : e <= f => e <= g
  BY <1>2, NotLater, Zenon
<1>4. \A e : Pending(x, e) => Pending(x, e)'
  BY <1>1, <1>2, <1>3, Zenon DEF Pending
<1>5. \A e \in UsedUp(x, TRUE)' : e \in Nat /\ e <= fresh'[x[1]]
  BY <1>1, <1>2, <1>3, Zenon DEF InitiatedLink
<1>6. hs'[x].state \in {"InitiationCreated", "ResponseConsumed"} =>
         Pending(x, hs[x].chain[3])'
  BY <1>4, Zenon DEF InitiatedLink
<1>7. \A y \in Workers :
          worker'[x[1]][y].pc = "response checked" /\ worker'[x[1]][y].peer = x[2] =>
             Pending(x, worker[x[1]][y].msg.key[3])'
  BY <1>4, Zenon DEF InitiatedLink
<1> QED BY <1>5, <1>6, <1>7, Zenon DEF InitiatedLink, Pending

LEMMA BackedStays ==
    ASSUME NEW x \in Links, NEW key, Backed(x, key),
           \A l \in Links : Made(l) \subseteq Made(l)'
    PROVE  Backed(x, key)'
<1>1. Opposite(x) \in Links
  BY DEF Links, Opposite
<1> QED BY <1>1 DEF Backed, Opposite

LEMMA BackedFrame ==
    ASSUME NEW x \in Links, BackedLink(x), \A l \in Links : Made(l) \subseteq Made(l)',
           \A k \in Made(x)' : k \in Made(x) \/ ~ k.isInitiator \/ Backed(x, k.key)',
           \A m \in net'[x[1]] : \/ m \in net[x[1]]
                                 \/ m.type # "response" \/ m.key[2] # x[2]
                                 \/ Backed(x, m.key)',
           \/ hs'[x] = hs[x]
           \/ hs'[x].state # "ResponseConsumed"
           \/ Backed(x, hs[x].chain)',
           \A y \in Workers : \/ worker'[x[1]][y] = worker[x[1]][y]
                              \/ worker'[x[1]][y].pc # "response checked"
                              \/ worker'[x[1]][y].peer # x[2]
                              \/ Backed(x, worker[x[1]][y].msg.key)'
    PROVE  BackedLink(x)'
<1>1. \A key : Backed(x, key) => Backed(x, key)'
  BY BackedStays, Zenon
<1>2. \A m \in net'[x[1]] : m.type = "response" /\ m.key[2] = x[2] => Backed(x, m.key)'
  BY <1>1, Zenon DEF BackedLink
<1>3. hs'[x].state = "ResponseConsumed" => Backed(x, hs[x].chain)'
  BY <1>1, Zenon DEF BackedLink
<1>4. \A k \in Made(x)' : k.isInitiator => Backed(x, k.key)'
  BY <1>1, Zenon DEF BackedLink
<1>5. \A y \in Workers :
         worker'[x[1]][y].pc = "response checked" /\ worker'[x[1]][y].peer = x[2] =>
            Backed(x, worker[x[1]][y].msg.key)'
  BY <1>1, Zenon DEF BackedLink
<1> QED BY <1>2, <1>3, <1>4, <1>5, Zenon DEF BackedLink, Backed, Opposite

\* Links and workers that a step leaves alone.
LEMMA OneEachFrame ==
    ASSUME NEW x \in Links, OneEach(x), derived'[x] = derived[x]
    PROVE  OneEach(x)'
  BY DEF OneEach, Differ

\* A worker that works on a link owns the handshake in progress there.
LEMMA OwnerIs ==
    ASSUME NEW x \in Links, ~ Races(x), OwnedLink(x), NEW w \in Workers, Works(x, w)
    PROVE  LET st == worker[x[1]][w]
           IN  /\ hs[x].state = "InitiationConsumed" => st.pc = "initiation consumed"
               /\ hs[x].state = "ResponseCreated" =>
                     st.pc = "response created" /\ st.msg.key = hs[x].chain
               /\ hs[x].state = "ResponseConsumed" => st.pc = "response consumed"
<1>1. \A y \in Workers : Works(x, y) => y = w
  BY Zenon DEF Races
<1>2. \A y \in Workers : worker[x[1]][y].pc # "idle" /\ worker[x[1]][y].peer = x[2] => y = w
  BY <1>1, Zenon DEF Works
<1> QED BY <1>2, Zenon DEF OwnedLink

-----------------------------------------------------------------------------
(* The steps keep RaceInv *)

\* No worker on the link moves, comes or goes.
Untouched(x) == \A y \in Workers : \/ worker'[x[1]][y] = worker[x[1]][y]
                                   \/ ~ Works(x, y) /\ ~ Works(x, y)'

\* Worker w of n moves, on link l.
MovesOn(n, w, l) ==
    /\ l[1] = n
    /\ \A x \in Nodes, y \in Workers : x # n \/ y # w => worker'[x][y] = worker[x][y]
    /\ worker[n][w].pc = "idle" \/ worker[n][w].peer = l[2]
    /\ worker'[n][w].pc = "idle" \/ worker'[n][w].peer = l[2]

LEMMA OthersUntouched ==
    ASSUME NEW n \in Nodes, NEW w \in Workers, NEW l \in Links, MovesOn(n, w, l),
           NEW x \in Links, x # l
    PROVE  Untouched(x)
<1>1. x[1] \in Nodes /\ (x[1] = n => x[2] # l[2])
  BY DEF Links, MovesOn
<1> SUFFICES ASSUME NEW y \in Workers, x[1] = n, y = w
             PROVE  ~ Works(x, y) /\ ~ Works(x, y)'
  BY <1>1, Zenon DEF Untouched, MovesOn
<1> QED BY <1>1, Zenon DEF Works, MovesOn

\* A link other than the one a step works on.
LEMMA OtherLink ==
    ASSUME IInv, NEW x \in Links, LinkInv(x), hs'[x] = hs[x], Untouched(x),
           fresh' \in [Nodes -> Nat], \A y \in Nodes : fresh[y] <= fresh'[y],
           Made(x)' = Made(x), derived'[x] = derived[x]
    PROVE  LinkInv(x)'
<1>1. OwnedLink(x) /\ AnsweredLink(x) /\ InitiatedLink(x) /\ OneEach(x)
  BY DEF LinkInv
<1>2. x[1] \in Nodes /\ fresh \in [Nodes -> Nat]
  BY Types DEF Links
<1>3. \A y \in Workers : \/ worker'[x[1]][y] = worker[x[1]][y]
                         \/ /\ worker'[x[1]][y].pc # "initiation checked"
                            /\ worker'[x[1]][y].pc # "response checked"
                         \/ worker'[x[1]][y].peer # x[2]
  BY Zenon DEF Untouched, Works
<1>4. OwnedLink(x)'
  BY <1>1, OwnedFrame, Zenon DEF Untouched
<1>5. AnsweredLink(x)'
  BY <1>1, <1>3, AnsweredFrame, Zenon
<1>6. InitiatedLink(x)'
  BY <1>1, <1>2, <1>3, InitiatedFrame, Zenon
<1>7. OneEach(x)'
  BY <1>1, OneEachFrame
<1> QED BY <1>4, <1>5, <1>6, <1>7 DEF LinkInv

LEMMA OtherBacked ==
    ASSUME NEW x \in Links, BackedLink(x), hs'[x] = hs[x], Untouched(x),
           \A y \in Links : Made(y) \subseteq Made(y)', Made(x)' = Made(x),
           \A m \in net'[x[1]] : \/ m \in net[x[1]]
                                 \/ m.type # "response" \/ m.key[2] # x[2]
                                 \/ Backed(x, m.key)'
    PROVE  BackedLink(x)'
<1>1. \A y \in Workers : \/ worker'[x[1]][y] = worker[x[1]][y]
                         \/ worker'[x[1]][y].pc # "response checked"
                         \/ worker'[x[1]][y].peer # x[2]
  BY Zenon DEF Untouched, Works
<1> QED BY <1>1, BackedFrame, Zenon

LEMMA InitiationKeeps ==
    ASSUME IInv, AInv, RaceInv, Noted, NEW l \in Links, CreateMessageInitiation(l)
    PROVE  RaceInv'
<1>1. l[1] \in Nodes /\ l[2] \in Nodes /\ fresh \in [Nodes -> Nat]
  BY Types DEF Links
<1>2. /\ hs'[l].state = "InitiationCreated"
      /\ hs'[l].chain = <<l[1], l[2], fresh[l[1]] + 1>>
      /\ hs'[l].lastTimestamp = hs[l].lastTimestamp
      /\ \A x \in Links : x # l => hs'[x] = hs[x]
      /\ fresh' = [fresh EXCEPT ![l[1]] = fresh[l[1]] + 1]
      /\ UNCHANGED <<load, kps, worker, derived>>
  BY InitiationFacts
<1>3. PICK m : net' = Sent(l[2], m) /\ m.type = "initiation"
  <2>1. PICK i : net' = Sent(l[2], [type |-> "initiation", from |-> l[1],
                                    sender |-> i, e |-> fresh[l[1]] + 1])
    BY InitiationFacts, Zenon
  <2>2. [type |-> "initiation", from |-> l[1], sender |-> i, e |-> fresh[l[1]] + 1].type
           = "initiation"
    OBVIOUS
  <2> QED BY <2>1, <2>2, Zenon
<1>4. \A x \in Nodes : \A y \in net'[x] : y \in net[x] \/ y.type # "response"
  <2>1. \A x \in Nodes : net'[x] = IF x = l[2] THEN net[x] \cup {m} ELSE net[x]
    <3>1. l[2] \in Nodes /\ net' = Sent(l[2], m)
      BY <1>1, <1>3, Zenon
    <3> QED BY <3>1, NetSent, Zenon
  <2> QED BY <1>3, <2>1, Zenon
<1>5. \A x \in Links : Made(x)' = Made(x)
  BY <1>2, MadeSame
<1>6. /\ fresh' \in [Nodes -> Nat] /\ fresh'[l[1]] = fresh[l[1]] + 1
      /\ \A x \in Nodes : fresh[x] <= fresh'[x]
  BY <1>1, <1>2, Later
<1>7. hs'[l].chain[3] = fresh[l[1]] + 1
  BY <1>2
<1>8. \A x \in Links : Untouched(x) /\ x[1] \in Nodes
  BY <1>2 DEF Untouched, Links
<1>9. ASSUME NEW x \in Links, x # l, x \notin raced' PROVE LinkInv(x)'
  <2>1. hs'[x] = hs[x] /\ derived'[x] = derived[x] /\ LinkInv(x)
    BY <1>2, <1>9, Unraced
  <2> QED BY <1>5, <1>6, <1>8, <2>1, OtherLink
<1>10. ASSUME l \notin raced' PROVE LinkInv(l)'
  <2>1. AnsweredLink(l) /\ InitiatedLink(l) /\ OneEach(l)
    BY <1>10, Unraced DEF LinkInv
  <2>2. OwnedLink(l)'
    BY <1>2 DEF OwnedLink
  <2>3. AnsweredLink(l)'
    BY <1>2, <1>5, <2>1, AnsweredFrame
  <2>4. InitiatedLink(l)'
    <3>1. UsedUp(l, TRUE)' = UsedUp(l, TRUE)
      BY <1>5 DEF UsedUp
    <3>2. PICK f \in Nat, g \in Nat : f = fresh[l[1]] /\ g = fresh'[l[1]] /\ g = f + 1
      BY <1>1, <1>6
    <3>3. \A e \in UsedUp(l, TRUE) : e \in Nat /\ e <= f
      BY <2>1, <3>2, Zenon DEF InitiatedLink
    <3>4. \A e \in Nat : e <= f => e <= g /\ e # g
      <4>1. \A a, b, e \in Nat : b = a + 1 /\ e <= a => e <= b /\ e # b
        OBVIOUS
      <4> QED BY <3>2, <4>1, Zenon
    <3>5. \A e \in UsedUp(l, TRUE)' : e \in Nat /\ e <= fresh'[l[1]]
      BY <3>1, <3>2, <3>3, <3>4, Zenon
    <3>6. \A e : Pending(l, e) => Pending(l, e)'
      BY <3>1, <3>2, <3>4, Zenon DEF Pending
    <3>7. g <= g
      OBVIOUS
    <3>8. hs'[l].chain[3] = g
      BY <1>6, <1>7, <3>2, Zenon
    <3>9. Pending(l, hs[l].chain[3])'
      BY <3>1, <3>2, <3>3, <3>4, <3>7, <3>8, Zenon DEF Pending
    <3>10. \A w \in Workers :
              worker'[l[1]][w].pc = "response checked" /\ worker'[l[1]][w].peer = l[2] =>
                 Pending(l, worker[l[1]][w].msg.key[3])'
      BY <1>2, <2>1, <3>6, Zenon DEF InitiatedLink
    <3> QED BY <3>5, <3>9, <3>10, Zenon DEF InitiatedLink, Pending
  <2>5. OneEach(l)'
    BY <1>2, <2>1, OneEachFrame
  <2> QED BY <2>2, <2>3, <2>4, <2>5 DEF LinkInv
<1>11. ASSUME NEW x \in Links, Opposite(x) \notin raced' PROVE BackedLink(x)'
  <2>1. BackedLink(x)
    BY <1>11, Backing
  <2>2. \A y \in net'[x[1]] : y \in net[x[1]] \/ y.type # "response"
    BY <1>4, <1>8
  <2>3. hs'[x] = hs[x] \/ hs'[x].state # "ResponseConsumed"
    BY <1>2
  <2>4. \A y \in Workers : worker'[x[1]][y] = worker[x[1]][y]
    BY <1>2
  <2> QED BY <1>5, <2>1, <2>2, <2>3, <2>4, BackedFrame, Zenon
<1> QED BY <1>9, <1>10, <1>11, Kept

\* A step of worker w of n on link l that makes no keypair and sends nothing.
LEMMA WorkerKeeps ==
    ASSUME IInv, RaceInv, Noted, NEW n \in Nodes, NEW w \in Workers, NEW l \in Links,
           MovesOn(n, w, l), OtherLinksStay(l), UNCHANGED <<net, derived>>,
           fresh' \in [Nodes -> Nat], \A y \in Nodes : fresh[y] <= fresh'[y],
           l \notin raced' => OwnedLink(l)' /\ AnsweredLink(l)' /\ InitiatedLink(l)',
           Opposite(l) \notin raced' => BackedLink(l)'
    PROVE  RaceInv'
<1>1. \A x \in Links : Made(x)' = Made(x)
  BY MadeSame
<1>2. ASSUME NEW x \in Links, x \notin raced', x # l PROVE LinkInv(x)'
  <2>1. LinkInv(x) /\ Untouched(x) /\ hs'[x] = hs[x]
    BY <1>2, Unraced, OthersUntouched DEF OtherLinksStay
  <2> QED BY <1>1, <2>1, OtherLink
<1>3. ASSUME l \notin raced' PROVE LinkInv(l)'
  <2>1. OneEach(l)'
    BY <1>3, Unraced, OneEachFrame DEF LinkInv
  <2> QED BY <1>3, <2>1 DEF LinkInv
<1>4. ASSUME NEW x \in Links, Opposite(x) \notin raced', x # l PROVE BackedLink(x)'
  <2>1. BackedLink(x) /\ Untouched(x) /\ hs'[x] = hs[x]
    BY <1>4, Backing, OthersUntouched DEF OtherLinksStay
  <2> QED BY <1>1, <2>1, OtherBacked, Zenon
<1> QED BY <1>2, <1>3, <1>4, Kept, Zenon

LEMMA CheckKeeps ==
    ASSUME IInv, AInv, RaceInv, Noted, NEW n \in Nodes, NEW w \in Workers,
           NEW m \in net[n], Receive(n, w, m)
    PROVE  RaceInv'
<1>1. ASSUME NEW l \in Links, InitiationChecked(n, w, m, l) PROVE RaceInv'
  <2>1. /\ l[1] = n /\ worker[n][w].pc = "idle" /\ m.e > hs[l].lastTimestamp
        /\ worker'[n][w].pc = "initiation checked" /\ worker'[n][w].peer = l[2]
        /\ worker'[n][w].msg = m
        /\ \A x \in Nodes, y \in Workers : x # n \/ y # w => worker'[x][y] = worker[x][y]
        /\ UNCHANGED <<hs, kps, fresh, net, derived>>
    BY <1>1, Zenon DEF InitiationChecked, WorkerAt
  <2>2. \A x \in Links : Made(x)' = Made(x)
    BY <2>1, MadeSame, Zenon
  <2>3. \A y \in Workers : y # w => worker'[n][y] = worker[n][y]
    BY <2>1, Zenon
  <2>4. \A y \in Workers : worker'[n][y] = worker[n][y] \/ worker'[n][y].pc # "response checked"
    BY <2>1, <2>3, Zenon
  <2>5. fresh \in [Nodes -> Nat] /\ \A x \in Nodes : fresh[x] <= fresh'[x]
    BY <2>1, ClockStays, Zenon
  <2>6. ASSUME l \notin raced' PROVE OwnedLink(l)' /\ AnsweredLink(l)' /\ InitiatedLink(l)'
    <3>1. OwnedLink(l) /\ AnsweredLink(l) /\ InitiatedLink(l)
      BY <2>6, Unraced DEF LinkInv
    <3>2. \A y \in Workers : Works(l, y) => worker'[l[1]][y] = worker[l[1]][y]
      BY <2>1, <2>3, Zenon DEF Works
    <3>3. OwnedLink(l)'
      BY <2>1, <3>1, <3>2, OwnedFrame, Zenon
    <3>4. AnsweredLink(l)'
      <4>1. UsedUp(l, FALSE)' = UsedUp(l, FALSE)
        BY <2>2 DEF UsedUp
      <4>2. \A y \in Workers :
               worker'[l[1]][y].pc = "initiation checked" /\ worker'[l[1]][y].peer = l[2] =>
                  worker'[l[1]][y].msg.e > hs'[l].lastTimestamp
        BY <2>1, <2>3, <3>1, Zenon DEF AnsweredLink
      <4> QED BY <2>1, <3>1, <4>1, <4>2, Zenon DEF AnsweredLink
    <3>5. InitiatedLink(l)'
      BY <2>1, <2>2, <2>4, <2>5, <3>1, InitiatedFrame, Zenon
    <3> QED BY <3>3, <3>4, <3>5
  <2>7. ASSUME Opposite(l) \notin raced' PROVE BackedLink(l)'
    <3>1. BackedLink(l)
      BY <2>7, Backing
    <3> QED BY <2>1, <2>2, <2>4, <3>1, BackedFrame, Zenon
  <2>8. MovesOn(n, w, l) /\ OtherLinksStay(l)
    BY <2>1, Zenon DEF MovesOn, OtherLinksStay
  <2> QED BY <2>1, <2>5, <2>6, <2>7, <2>8, WorkerKeeps, Zenon
<1>2. ASSUME NEW l \in Links, ResponseChecked(n, w, m, l) PROVE RaceInv'
  <2>1. /\ l[1] = n /\ m.type = "response" /\ m.key[2] = l[2] /\ worker[n][w].pc = "idle"
        /\ hs[l].state = "InitiationCreated" /\ m.key[3] = hs[l].chain[3]
        /\ worker'[n][w].pc = "response checked" /\ worker'[n][w].peer = l[2]
        /\ worker'[n][w].msg = m
        /\ \A x \in Nodes, y \in Workers : x # n \/ y # w => worker'[x][y] = worker[x][y]
        /\ UNCHANGED <<hs, kps, fresh, net, derived>>
    BY <1>2, Zenon DEF ResponseChecked, WorkerAt, Ends
  <2>2. \A x \in Links : Made(x)' = Made(x)
    BY <2>1, MadeSame, Zenon
  <2>3. \A y \in Workers : y # w => worker'[n][y] = worker[n][y]
    BY <2>1, Zenon
  <2>4. fresh \in [Nodes -> Nat] /\ \A x \in Nodes : fresh[x] <= fresh'[x]
    BY <2>1, ClockStays, Zenon
  <2>5. ASSUME l \notin raced' PROVE OwnedLink(l)' /\ AnsweredLink(l)' /\ InitiatedLink(l)'
    <3>1. AnsweredLink(l) /\ InitiatedLink(l)
      BY <2>5, Unraced DEF LinkInv
    <3>2. OwnedLink(l)'
      BY <2>1, Zenon DEF OwnedLink
    <3>3. AnsweredLink(l)'
      BY <2>1, <2>2, <2>3, <3>1, AnsweredFrame, Zenon
    <3>4. UsedUp(l, TRUE)' = UsedUp(l, TRUE)
      BY <2>2 DEF UsedUp
    <3>5. \A e : Pending(l, e)' = Pending(l, e)
      BY <2>1, <3>4, Zenon DEF Pending
    <3>6. Pending(l, m.key[3])
      BY <2>1, <3>1, Zenon DEF InitiatedLink
    <3>7. \A y \in Workers :
             worker'[l[1]][y].pc = "response checked" /\ worker'[l[1]][y].peer = l[2] =>
                Pending(l, worker[l[1]][y].msg.key[3])'
      <4> SUFFICES ASSUME NEW y \in Workers, worker'[l[1]][y].pc = "response checked",
                          worker'[l[1]][y].peer = l[2]
                   PROVE  Pending(l, worker[l[1]][y].msg.key[3])'
        BY Zenon
      <4>1. CASE y = w
        BY <2>1, <3>5, <3>6, <4>1, Zenon
      <4>2. CASE y # w
        <5>1. worker'[l[1]][y] = worker[l[1]][y]
          BY <2>1, <2>3, <4>2, Zenon
        <5> QED BY <3>1, <3>5, <5>1, Zenon DEF InitiatedLink
      <4> QED BY <4>1, <4>2, Zenon
    <3>8. hs'[l].state \in {"InitiationCreated", "ResponseConsumed"} =>
             Pending(l, hs[l].chain[3])'
      BY <2>1, <3>1, <3>5, Zenon DEF InitiatedLink
    <3>9. InitiatedLink(l)'
      BY <2>1, <3>1, <3>4, <3>7, <3>8, Zenon DEF InitiatedLink, Pending
    <3> QED BY <3>2, <3>3, <3>9
  <2>6. ASSUME Opposite(l) \notin raced' PROVE BackedLink(l)'
    <3>1. BackedLink(l)
      BY <2>6, Backing
    <3>2. Backed(l, m.key)'
      <4>1. Backed(l, m.key)
        BY <2>1, <3>1, Zenon DEF BackedLink
      <4> QED BY <2>2, <4>1, BackedStays
    <3>3. \A y \in Workers : worker'[n][y] = worker[n][y] \/ Backed(l, worker[n][y].msg.key)'
      BY <2>1, <2>3, <3>2, Zenon
    <3> QED BY <2>1, <2>2, <3>1, <3>3, BackedFrame, Zenon
  <2>7. MovesOn(n, w, l) /\ OtherLinksStay(l)
    BY <2>1, Zenon DEF MovesOn, OtherLinksStay
  <2> QED BY <2>1, <2>4, <2>5, <2>6, <2>7, WorkerKeeps, Zenon
<1>3. \E l \in Links : InitiationChecked(n, w, m, l) \/ ResponseChecked(n, w, m, l)
  BY InitiationCheckFacts, ResponseCheckFacts DEF Receive, AInv
<1> QED BY <1>1, <1>2, <1>3

\* Where no two workers meet, the one that moves is alone on its link.
LEMMA AloneOn ==
    ASSUME NEW n \in Nodes, NEW w \in Workers, NEW l \in Links, MovesOn(n, w, l),
           ~ Races(l), worker[n][w].pc # "idle"
    PROVE  \A y \in Workers : y # w => worker'[n][y].pc = "idle" \/ worker'[n][y].peer # l[2]
<1>1. l[1] = n /\ Works(l, w)
  BY Zenon DEF MovesOn, Works
<1>2. \A y \in Workers : y # w => ~ Works(l, y) /\ worker'[n][y] = worker[n][y]
  BY <1>1, Zenon DEF Races, MovesOn
<1> QED BY <1>1, <1>2, Zenon DEF Works

LEMMA InitiationUpdateKeeps ==
    ASSUME IInv, AInv, RaceInv, Noted, NEW n \in Nodes, NEW w \in Workers,
           ConsumeInitiationUpdate(n, w)
    PROVE  RaceInv'
<1>1. PICK l \in Links : \E m : InitiationUpdated(n, w, m, l)
  BY InitiationUpdateFacts
<1>2. PICK m : InitiationUpdated(n, w, m, l)
  BY <1>1
<1>3. /\ l[1] = n /\ worker[n][w].pc = "initiation checked" /\ worker[n][w].peer = l[2]
      /\ worker[n][w].msg = m /\ m.e \in Nat
      /\ hs'[l].state = "InitiationConsumed" /\ hs'[l].chain[3] = m.e
      /\ hs'[l].lastTimestamp = IF m.e > hs[l].lastTimestamp THEN m.e
                                ELSE hs[l].lastTimestamp
      /\ OtherLinksStay(l)
      /\ worker'[n][w].pc = "initiation consumed" /\ worker'[n][w].peer = l[2]
      /\ \A x \in Nodes, y \in Workers : x # n \/ y # w => worker'[x][y] = worker[x][y]
      /\ UNCHANGED <<fresh, net, derived>>
  BY <1>2, Zenon DEF InitiationUpdated, WorkerAt
<1>4. MovesOn(n, w, l)
  BY <1>3, Zenon DEF MovesOn
<1>5. \A x \in Links : Made(x)' = Made(x)
  BY <1>3, MadeSame, Zenon
<1>6. \A y \in Workers : worker'[n][y] = worker[n][y] \/ worker'[n][y].pc # "response checked"
  BY <1>3, Zenon
<1>7. fresh \in [Nodes -> Nat] /\ \A x \in Nodes : fresh[x] <= fresh'[x]
  BY <1>3, ClockStays, Zenon
<1>8. ASSUME l \notin raced' PROVE OwnedLink(l)' /\ AnsweredLink(l)' /\ InitiatedLink(l)'
  <2>1. AnsweredLink(l) /\ InitiatedLink(l) /\ ~ Races(l)
    BY <1>8, Unraced DEF LinkInv
  <2>2. \A y \in Workers : worker'[n][y].pc # "initiation checked" \/ worker'[n][y].peer # l[2]
    BY <1>3, <1>4, <2>1, AloneOn, Zenon
  <2>3. OwnedLink(l)'
    BY <1>3, Zenon DEF OwnedLink
  <2>4. AnsweredLink(l)'
    <3>1. UsedUp(l, FALSE)' = UsedUp(l, FALSE)
      BY <1>5 DEF UsedUp
    <3>2. PICK t \in Nat, e \in Nat : t = hs[l].lastTimestamp /\ e = m.e
      BY <1>3, Types, Zenon DEF Handshake
    <3>3. e > t
      BY <1>3, <2>1, <3>2, Zenon DEF AnsweredLink
    <3>4. hs'[l].lastTimestamp = e /\ hs'[l].chain[3] = e
      BY <1>3, <3>2, <3>3, Zenon
    <3>5. \A d \in UsedUp(l, FALSE) : d \in Nat /\ d <= t
      BY <2>1, <3>2, Zenon DEF AnsweredLink
    <3>6. \A d \in Nat : d <= t => d <= e /\ d # e
      <4>1. \A a, b, d \in Nat : b > a /\ d <= a => d <= b /\ d # b
        OBVIOUS
      <4> QED BY <3>3, <4>1, Zenon
    <3>7. e <= e
      OBVIOUS
    <3> QED BY <1>3, <2>2, <3>1, <3>4, <3>5, <3>6, <3>7, Zenon DEF AnsweredLink
  <2>5. InitiatedLink(l)'
    BY <1>3, <1>5, <1>6, <1>7, <2>1, InitiatedFrame, Zenon
  <2> QED BY <2>3, <2>4, <2>5
<1>9. ASSUME Opposite(l) \notin raced' PROVE BackedLink(l)'
  <2>1. BackedLink(l)
    BY <1>9, Backing
  <2> QED BY <1>3, <1>5, <1>6, <2>1, BackedFrame, Zenon
<1> QED BY <1>3, <1>4, <1>7, <1>8, <1>9, WorkerKeeps, Zenon

\* A worker that stops owned no handshake, unless it met another.
LEMMA StopKeeps ==
    ASSUME IInv, RaceInv, Noted, NEW n \in Nodes, NEW w \in Workers, NEW l \in Links,
           l[1] = n, worker[n][w].pc # "idle", worker[n][w].peer = l[2],
           l \notin raced' => hs[l].state \notin {"InitiationConsumed", "ResponseCreated",
                                                 "ResponseConsumed"},
           WorkerStops(n, w), UNCHANGED <<hs, fresh, net, derived>>
    PROVE  RaceInv'
<1>1. /\ worker'[n][w].pc = "idle"
      /\ \A x \in Nodes, y \in Workers : x # n \/ y # w => worker'[x][y] = worker[x][y]
  BY DEF WorkerStops, Idle
<1>2. MovesOn(n, w, l) /\ OtherLinksStay(l)
  BY <1>1, Zenon DEF MovesOn, OtherLinksStay
<1>3. \A x \in Links : Made(x)' = Made(x)
  BY MadeSame
<1>4. \A y \in Workers :
         \/ worker'[n][y] = worker[n][y]
         \/ worker'[n][y].pc \notin {"initiation checked", "response checked"}
  BY <1>1, Zenon
<1>5. fresh \in [Nodes -> Nat] /\ \A x \in Nodes : fresh[x] <= fresh'[x]
  BY ClockStays
<1>6. ASSUME l \notin raced' PROVE OwnedLink(l)' /\ AnsweredLink(l)' /\ InitiatedLink(l)'
  <2>1. AnsweredLink(l) /\ InitiatedLink(l)
    BY <1>6, Unraced DEF LinkInv
  <2>2. OwnedLink(l)'
    BY <1>6, Zenon DEF OwnedLink
  <2>3. AnsweredLink(l)'
    BY <1>3, <1>4, <2>1, AnsweredFrame, Zenon
  <2>4. InitiatedLink(l)'
    BY <1>3, <1>4, <1>5, <2>1, InitiatedFrame, Zenon
  <2> QED BY <2>2, <2>3, <2>4
<1>7. ASSUME Opposite(l) \notin raced' PROVE BackedLink(l)'
  <2>1. BackedLink(l)
    BY <1>7, Backing
  <2> QED BY <1>3, <1>4, <2>1, BackedFrame, Zenon
<1> QED BY <1>2, <1>5, <1>6, <1>7, WorkerKeeps, Zenon

LEMMA ResponseKeeps ==
    ASSUME IInv, AInv, RaceInv, Noted, NEW n \in Nodes, NEW w \in Workers,
           CreateMessageResponse(n, w)
    PROVE  RaceInv'
<1>1. ASSUME NEW l \in Links, ResponseFailed(n, w, l) PROVE RaceInv'
  <2>1. /\ l[1] = n /\ worker[n][w].pc = "initiation consumed" /\ worker[n][w].peer = l[2]
        /\ hs[l].state # "InitiationConsumed" /\ WorkerStops(n, w)
        /\ UNCHANGED <<hs, fresh, net, derived>>
    BY <1>1, Zenon DEF ResponseFailed
  <2>2. ASSUME l \notin raced'
        PROVE  hs[l].state \notin {"InitiationConsumed", "ResponseCreated", "ResponseConsumed"}
    <3>1. ~ Races(l) /\ OwnedLink(l)
      BY <2>2, Unraced DEF LinkInv
    <3>2. Works(l, w)
      BY <2>1, Zenon DEF Works
    <3> QED BY <2>1, <3>1, <3>2, OwnerIs, Zenon
  <2> QED BY <2>1, <2>2, StopKeeps, Zenon
<1>2. ASSUME NEW l \in Links, ResponseMade(n, w, l) PROVE RaceInv'
  <2>1. /\ l[1] = n /\ worker[n][w].pc = "initiation consumed" /\ worker[n][w].peer = l[2]
        /\ hs[l].state = "InitiationConsumed" /\ hs'[l].state = "ResponseCreated"
        /\ hs'[l].lastTimestamp = hs[l].lastTimestamp /\ OtherLinksStay(l)
        /\ worker'[n][w].pc = "response created" /\ worker'[n][w].peer = l[2]
        /\ worker'[n][w].msg.key = hs'[l].chain
        /\ \A x \in Nodes, y \in Workers : x # n \/ y # w => worker'[x][y] = worker[x][y]
        /\ fresh' = [fresh EXCEPT ![n] = fresh[n] + 1]
        /\ UNCHANGED <<net, derived>>
    BY <1>2, Zenon DEF ResponseMade, WorkerAt
  <2>2. hs'[l].chain[3] = hs[l].chain[3]
    <3>1. PICK c \in Transcript : c = hs[l].chain /\ Len(c) = 3
      BY <2>1, Types, Zenon DEF AInv, Roles, HandshakeEnds, Handshake
    <3>2. PICK x : x = fresh[n] + 1
      BY Zenon
    <3>3. Len(c) = 3 => Append(c, x)[3] = c[3]
      BY Extended
    <3> QED BY <1>2, <3>1, <3>2, <3>3, Zenon DEF ResponseMade
  <2>3. MovesOn(n, w, l)
    BY <2>1, Zenon DEF MovesOn
  <2>4. \A x \in Links : Made(x)' = Made(x)
    BY <2>1, MadeSame, Zenon
  <2>5. \A y \in Workers :
           \/ worker'[n][y] = worker[n][y]
           \/ worker'[n][y].pc \notin {"initiation checked", "response checked"}
    BY <2>1, Zenon
  <2>6. /\ fresh \in [Nodes -> Nat] /\ fresh' \in [Nodes -> Nat]
        /\ \A x \in Nodes : fresh[x] <= fresh'[x]
    BY <2>1, Later, Types, Zenon
  <2>7. ASSUME l \notin raced' PROVE OwnedLink(l)' /\ AnsweredLink(l)' /\ InitiatedLink(l)'
    <3>1. AnsweredLink(l) /\ InitiatedLink(l)
      BY <2>7, Unraced DEF LinkInv
    <3>2. OwnedLink(l)'
      BY <2>1, Zenon DEF OwnedLink
    <3>3. AnsweredLink(l)'
      <4>1. UsedUp(l, FALSE)' = UsedUp(l, FALSE)
        BY <2>4 DEF UsedUp
      <4> QED BY <2>1, <2>2, <2>5, <3>1, <4>1, Zenon DEF AnsweredLink
    <3>4. InitiatedLink(l)'
      BY <2>1, <2>4, <2>5, <2>6, <3>1, InitiatedFrame, Zenon
    <3> QED BY <3>2, <3>3, <3>4
  <2>8. ASSUME Opposite(l) \notin raced' PROVE BackedLink(l)'
    <3>1. BackedLink(l)
      BY <2>8, Backing
    <3> QED BY <2>1, <2>4, <2>5, <3>1, BackedFrame, Zenon
  <2> QED BY <2>1, <2>3, <2>6, <2>7, <2>8, WorkerKeeps, Zenon
<1> QED BY <1>1, <1>2, ResponseFacts

LEMMA ResponseUpdateKeeps ==
    ASSUME IInv, AInv, RaceInv, Noted, NEW n \in Nodes, NEW w \in Workers,
           ConsumeResponseUpdate(n, w)
    PROVE  RaceInv'
<1>1. PICK l \in Links : \E m : ResponseUpdated(n, w, m, l)
  BY ResponseUpdateFacts
<1>2. PICK m : ResponseUpdated(n, w, m, l)
  BY <1>1
<1>3. /\ l[1] = n /\ worker[n][w].pc = "response checked" /\ worker[n][w].peer = l[2]
      /\ worker[n][w].msg = m
      /\ hs'[l].state = "ResponseConsumed" /\ hs'[l].chain = m.key
      /\ hs'[l].lastTimestamp = hs[l].lastTimestamp /\ OtherLinksStay(l)
      /\ worker'[n][w].pc = "response consumed" /\ worker'[n][w].peer = l[2]
      /\ \A x \in Nodes, y \in Workers : x # n \/ y # w => worker'[x][y] = worker[x][y]
      /\ UNCHANGED <<fresh, net, derived>>
  BY <1>2, Zenon DEF ResponseUpdated, WorkerAt
<1>4. MovesOn(n, w, l)
  BY <1>3, Zenon DEF MovesOn
<1>5. \A x \in Links : Made(x)' = Made(x)
  BY <1>3, MadeSame, Zenon
<1>6. \A y \in Workers :
         \/ worker'[n][y] = worker[n][y]
         \/ worker'[n][y].pc \notin {"initiation checked", "response checked"}
  BY <1>3, Zenon
<1>7. fresh \in [Nodes -> Nat] /\ \A x \in Nodes : fresh[x] <= fresh'[x]
  BY <1>3, ClockStays, Zenon
<1>8. ASSUME l \notin raced' PROVE OwnedLink(l)' /\ AnsweredLink(l)' /\ InitiatedLink(l)'
  <2>1. AnsweredLink(l) /\ InitiatedLink(l)
    BY <1>8, Unraced DEF LinkInv
  <2>2. OwnedLink(l)'
    BY <1>3, Zenon DEF OwnedLink
  <2>3. AnsweredLink(l)'
    BY <1>3, <1>5, <1>6, <2>1, AnsweredFrame, Zenon
  <2>4. UsedUp(l, TRUE)' = UsedUp(l, TRUE)
    BY <1>5 DEF UsedUp
  <2>5. \A e : Pending(l, e)' = Pending(l, e)
    BY <1>3, <2>4, Zenon DEF Pending
  <2>6. Pending(l, m.key[3])
    BY <1>3, <2>1, Zenon DEF InitiatedLink
  <2>7. Pending(l, hs[l].chain[3])'
    BY <1>3, <2>5, <2>6, Zenon
  <2>8. \A y \in Workers :
           worker'[l[1]][y].pc = "response checked" /\ worker'[l[1]][y].peer = l[2] =>
              Pending(l, worker[l[1]][y].msg.key[3])'
    BY <1>3, <1>6, <2>1, <2>5, Zenon DEF InitiatedLink
  <2>9. InitiatedLink(l)'
    BY <1>3, <2>1, <2>4, <2>7, <2>8, Zenon DEF InitiatedLink, Pending
  <2> QED BY <2>2, <2>3, <2>9
<1>9. ASSUME Opposite(l) \notin raced' PROVE BackedLink(l)'
  <2>1. BackedLink(l)
    BY <1>9, Backing
  <2>2. Backed(l, m.key)
    BY <1>3, <2>1, Zenon DEF BackedLink
  <2>3. Backed(l, hs[l].chain)'
    <3>1. Backed(l, m.key)'
      BY <1>5, <2>2, BackedStays
    <3> QED BY <1>3, <3>1, Zenon DEF Backed
  <2> QED BY <1>3, <1>5, <1>6, <2>1, <2>3, BackedFrame, Zenon
<1> QED BY <1>3, <1>4, <1>7, <1>8, <1>9, WorkerKeeps, Zenon

\* A keypair that is made is new: no keypair of the link shares its initiation.
LEMMA SessionIsNew ==
    ASSUME IInv, AInv, NEW l \in Links, NEW k, AnsweredLink(l), InitiatedLink(l), SessionMade(l, k)
    PROVE  /\ KeypairEnds(l, k)
           /\ k.isInitiator => hs[l].state = "ResponseConsumed" /\ Pending(l, k.key[3])
           /\ ~ k.isInitiator => /\ hs[l].state = "ResponseCreated" /\ k.key[3] \in Nat
                                 /\ k.key[3] <= hs[l].lastTimestamp
           /\ \A o \in Made(l) : Differ(o, k)
<1>1. /\ hs[l].state \in {"ResponseConsumed", "ResponseCreated"} /\ k.key = hs[l].chain
      /\ k \in Keypair
  BY DEF SessionMade, CanDerive
<1>2. k.isInitiator <=> hs[l].state = "ResponseConsumed"
  BY Zenon DEF SessionMade
<1>3. KeypairEnds(l, k)
  <2>1. HandshakeEnds(l)
    BY Zenon DEF AInv, Roles
  <2>2. CASE hs[l].state = "ResponseConsumed"
    BY <1>1, <1>2, <2>1, <2>2, Zenon DEF HandshakeEnds, KeypairEnds
  <2>3. CASE hs[l].state = "ResponseCreated"
    BY <1>1, <1>2, <2>1, <2>3 DEF HandshakeEnds, KeypairEnds
  <2> QED BY <1>1, <2>2, <2>3
<1>4. k.isInitiator => hs[l].state = "ResponseConsumed" /\ Pending(l, k.key[3])
  BY <1>1, <1>2, Zenon DEF InitiatedLink
<1>5. ~ k.isInitiator => /\ hs[l].state = "ResponseCreated" /\ k.key[3] \in Nat
                         /\ k.key[3] <= hs[l].lastTimestamp /\ k.key[3] \notin UsedUp(l, FALSE)
  BY <1>1, <1>2, Zenon DEF AnsweredLink
<1>6. ASSUME NEW o \in Made(l) PROVE Differ(o, k)
  <2>1. KeypairEnds(l, o) /\ l[1] # l[2]
    <3>1. KeypairEnds(l, o)
      BY Zenon DEF AInv, Roles
    <3>2. l[1] # l[2]
      BY DEF Links
    <3> QED BY <3>1, <3>2
  <2>2. o.isInitiator \in BOOLEAN /\ k.isInitiator \in BOOLEAN
    <3>1. o \in Keypair
      BY Types DEF Made
    <3> QED BY <1>1, <3>1 DEF Keypair
  <2>3. 1 \in 1..3 /\ 3 \in 1..3
    OBVIOUS
  <2>4. CASE o.isInitiator # k.isInitiator
    <3>1. o.key[1] # k.key[1]
      BY <1>3, <2>1, <2>2, <2>4 DEF KeypairEnds, Ends
    <3> QED BY <2>3, <3>1 DEF Differ
  <2>5. CASE k.isInitiator /\ o.isInitiator
    <3>1. o.key[3] \in UsedUp(l, TRUE)
      BY <2>2, <2>5 DEF UsedUp
    <3>2. o.key[3] # k.key[3]
      BY <1>4, <2>5, <3>1, Zenon DEF Pending
    <3> QED BY <2>3, <3>2 DEF Differ
  <2>6. CASE ~ k.isInitiator /\ ~ o.isInitiator
    <3>1. o.key[3] \in UsedUp(l, FALSE)
      BY <2>2, <2>6 DEF UsedUp
    <3>2. o.key[3] # k.key[3]
      BY <1>5, <2>6, <3>1, Zenon
    <3> QED BY <2>3, <3>2 DEF Differ
  <2> QED BY <2>2, <2>4, <2>5, <2>6, Zenon
<1> QED BY <1>3, <1>4, <1>5, <1>6, Zenon

\* A relation between any two members of a sequence, and the one that is added.
LEMMA PairsMore ==
    ASSUME NEW d \in Seq(Keypair), NEW k \in Keypair, NEW R,
           \A i, j \in DOMAIN d : i # j => <<d[i], d[j]>> \in R,
           \A j \in DOMAIN d : <<d[j], k>> \in R /\ <<k, d[j]>> \in R
    PROVE  \A i, j \in DOMAIN Append(d, k) : i # j => <<Append(d, k)[i], Append(d, k)[j]>> \in R
<1>1. PICK e : e = Append(d, k)
  BY Zenon
<1>2. /\ DOMAIN e = 1..Len(d) + 1 /\ DOMAIN d = 1..Len(d) /\ Len(d) \in Nat
      /\ \A j \in 1..Len(d) : e[j] = d[j]
      /\ e[Len(d) + 1] = k
  BY <1>1
<1>3. \A i, j \in DOMAIN e : i # j => <<e[i], e[j]>> \in R
  <2> SUFFICES ASSUME NEW i \in DOMAIN e, NEW j \in DOMAIN e, i # j
               PROVE  <<e[i], e[j]>> \in R
    BY Zenon
  <2>1. (i \in DOMAIN d \/ i = Len(d) + 1) /\ (j \in DOMAIN d \/ j = Len(d) + 1)
    BY <1>2
  <2>2. \A q \in DOMAIN d : e[q] = d[q]
    BY <1>2
  <2>3. CASE i \in DOMAIN d /\ j \in DOMAIN d
    BY <2>2, <2>3, Zenon
  <2>4. CASE i \in DOMAIN d /\ j = Len(d) + 1
    BY <1>2, <2>2, <2>4, Zenon
  <2>5. CASE j \in DOMAIN d /\ i = Len(d) + 1
    BY <1>2, <2>2, <2>5, Zenon
  <2> QED BY <2>1, <2>3, <2>4, <2>5, Zenon
<1> QED BY <1>1, <1>3, Zenon

LEMMA OneMore ==
    ASSUME IInv, NEW l \in Links, NEW k \in Keypair, OneEach(l),
           derived'[l] = Append(derived[l], k),
           \A o \in Made(l) : Differ(o, k)
    PROVE  OneEach(l)'
<1> DEFINE R == {p \in Keypair \X Keypair : Differ(p[1], p[2])}
<1>1. PICK d \in Seq(Keypair) : d = derived[l]
  BY Types
<1>2. \A a, b \in Keypair : <<a, b>> \in R <=> Differ(a, b)
  OBVIOUS
<1>3. \A a, b : Differ(a, b) => Differ(b, a)
  BY DEF Differ
<1>4. \A j \in DOMAIN d : d[j] \in Keypair /\ d[j] \in Made(l)
  BY <1>1 DEF Made
<1>5. \A i, j \in DOMAIN d : i # j => Differ(d[i], d[j])
  BY <1>1 DEF OneEach
<1> HIDE DEF R
<1>6. \A i, j \in DOMAIN d : i # j => <<d[i], d[j]>> \in R
  BY <1>2, <1>4, <1>5, Zenon
<1>7. \A j \in DOMAIN d : <<d[j], k>> \in R /\ <<k, d[j]>> \in R
  BY <1>2, <1>3, <1>4, Zenon
<1>8. PICK e : e = Append(d, k)
  BY Zenon
<1>9. \A i, j \in DOMAIN e : i # j => <<e[i], e[j]>> \in R
  BY <1>6, <1>7, <1>8, PairsMore, Zenon
<1>10. e \in Seq(Keypair)
  BY <1>8
<1>11. \A i \in DOMAIN e : e[i] \in Keypair
  BY <1>10
<1>12. \A i, j \in DOMAIN e : i # j => Differ(e[i], e[j])
  BY <1>2, <1>9, <1>11, Zenon
<1>13. derived'[l] = e
  BY <1>1, <1>8, Zenon
<1> QED BY <1>12, <1>13, Zenon DEF OneEach

LEMMA SessionKeeps ==
    ASSUME IInv, AInv, RaceInv, Noted, NEW n \in Nodes, NEW w \in Workers, NEW l \in Links,
           NEW k, l[1] = n, worker[n][w].pc # "idle", worker[n][w].peer = l[2],
           WorkerStops(n, w), SessionMade(l, k), UNCHANGED fresh,
           \A x \in Nodes : \A m \in net'[x] :
              \/ m \in net[x]
              \/ m.type # "response"
              \/ /\ x = l[2] /\ m.key[2] = l[1]
                 /\ l \notin raced' => m.key = k.key /\ ~ k.isInitiator
    PROVE  RaceInv'
<1>1. /\ worker'[n][w].pc = "idle"
      /\ \A x \in Nodes, y \in Workers : x # n \/ y # w => worker'[x][y] = worker[x][y]
  BY DEF WorkerStops, Idle
<1>2. MovesOn(n, w, l)
  BY <1>1, Zenon DEF MovesOn
<1>3. /\ hs'[l].state = "Zeroed" /\ hs'[l].lastTimestamp = hs[l].lastTimestamp
      /\ OtherLinksStay(l) /\ k \in Keypair /\ k.key = hs[l].chain
      /\ derived'[l] = Append(derived[l], k)
      /\ \A x \in Links : x # l => derived'[x] = derived[x]
      /\ Made(l)' = Made(l) \cup {k} /\ \A x \in Links : x # l => Made(x)' = Made(x)
  BY DEF SessionMade
<1>4. k.isInitiator => hs[l].state = "ResponseConsumed"
  BY Zenon DEF SessionMade
<1>5. /\ l[1] \in Nodes /\ l[2] \in Nodes /\ l[1] # l[2]
      /\ \A x \in Links : x[1] \in Nodes /\ x = <<x[1], x[2]>>
  BY DEF Links
<1>6. fresh \in [Nodes -> Nat] /\ fresh' \in [Nodes -> Nat]
      /\ \A x \in Nodes : fresh[x] <= fresh'[x]
  BY ClockStays
<1>7. \A x \in Links : Made(x) \subseteq Made(x)'
  BY <1>3
<1>8. ASSUME NEW x \in Links, x # l, x \notin raced' PROVE LinkInv(x)'
  <2>1. LinkInv(x) /\ Untouched(x) /\ hs'[x] = hs[x]
    BY <1>2, <1>3, <1>8, Unraced, OthersUntouched DEF OtherLinksStay
  <2>2. Made(x)' = Made(x) /\ derived'[x] = derived[x]
    BY <1>3, <1>8, Zenon
  <2> QED BY <1>6, <2>1, <2>2, OtherLink
<1>9. ASSUME l \notin raced' PROVE LinkInv(l)'
  <2>1. AnsweredLink(l) /\ InitiatedLink(l) /\ OneEach(l) /\ ~ Races(l)
    BY <1>9, Unraced DEF LinkInv
  <2>2. \A y \in Workers : worker'[n][y].pc = "idle" \/ worker'[n][y].peer # l[2]
    BY <1>1, <1>2, <2>1, AloneOn, Zenon
  <2>3. /\ k.isInitiator => Pending(l, k.key[3])
        /\ ~ k.isInitiator => k.key[3] \in Nat /\ k.key[3] <= hs[l].lastTimestamp
        /\ \A o \in Made(l) : Differ(o, k)
    BY <2>1, SessionIsNew
  <2>4. OwnedLink(l)'
    BY <1>3 DEF OwnedLink
  <2>5. AnsweredLink(l)'
    <3>1. \A e \in UsedUp(l, FALSE)' : e \in UsedUp(l, FALSE) \/ (~ k.isInitiator /\ e = k.key[3])
      BY <1>3 DEF UsedUp
    <3>2. \A e \in UsedUp(l, FALSE)' : e \in Nat /\ e <= hs'[l].lastTimestamp
      BY <1>3, <2>1, <2>3, <3>1, Zenon DEF AnsweredLink
    <3> QED BY <1>3, <2>2, <3>2, Zenon DEF AnsweredLink
  <2>6. InitiatedLink(l)'
    <3>1. \A e \in UsedUp(l, TRUE)' : e \in UsedUp(l, TRUE) \/ (k.isInitiator /\ e = k.key[3])
      BY <1>3 DEF UsedUp
    <3>2. \A e \in UsedUp(l, TRUE)' : e \in Nat /\ e <= fresh'[l[1]]
      BY <2>1, <2>3, <3>1, Zenon DEF InitiatedLink, Pending
    <3> QED BY <1>3, <2>2, <3>2, Zenon DEF InitiatedLink
  <2>7. OneEach(l)'
    BY <1>3, <2>1, <2>3, OneMore
  <2> QED BY <2>4, <2>5, <2>6, <2>7 DEF LinkInv
<1>10. ASSUME NEW x \in Links, x # l, Opposite(x) \notin raced' PROVE BackedLink(x)'
  <2>1. BackedLink(x) /\ Untouched(x) /\ hs'[x] = hs[x]
    BY <1>2, <1>3, <1>10, Backing, OthersUntouched DEF OtherLinksStay
  <2>2. ASSUME NEW m \in net'[x[1]], m \notin net[x[1]], m.type = "response", m.key[2] = x[2]
        PROVE  Backed(x, m.key)'
    <3>1. x[1] = l[2] /\ x[2] = l[1] /\ (l \notin raced' => m.key = k.key /\ ~ k.isInitiator)
      BY <1>5, <2>2, Zenon
    <3>2. Opposite(x) = l
      BY <1>5, <3>1 DEF Opposite
    <3>3. m.key = k.key /\ ~ k.isInitiator
      BY <1>10, <3>1, <3>2, Zenon
    <3>4. k \in Made(Opposite(x))'
      BY <1>3, <3>2 DEF Opposite
    <3> QED BY <3>3, <3>4 DEF Backed
  <2> QED BY <1>3, <1>7, <1>10, <2>1, <2>2, OtherBacked, Zenon
<1>11. ASSUME Opposite(l) \notin raced' PROVE BackedLink(l)'
  <2>1. BackedLink(l)
    BY <1>11, Backing
  <2>2. k.isInitiator => Backed(l, k.key)'
    <3>1. k.isInitiator => Backed(l, k.key)
      BY <1>3, <1>4, <2>1, Zenon DEF BackedLink
    <3> QED BY <1>7, <3>1, BackedStays
  <2>3. \A o \in Made(l)' : o \in Made(l) \/ ~ o.isInitiator \/ Backed(l, o.key)'
    BY <1>3, <2>2
  <2>4. \A m \in net'[l[1]] : m \in net[l[1]] \/ m.type # "response"
    BY <1>5
  <2>5. \A y \in Workers : worker'[n][y] = worker[n][y] \/ worker'[n][y].pc # "response checked"
    BY <1>1, Zenon
  <2> QED BY <1>3, <1>7, <2>1, <2>3, <2>4, <2>5, BackedFrame, Zenon
<1> QED BY <1>8, <1>9, <1>10, <1>11, Kept, Zenon

LEMMA FinishKeeps ==
    ASSUME IInv, AInv, RaceInv, Noted, NEW n \in Nodes, NEW w \in Workers,
           FinishResponse(n, w) \/ FinishSession(n, w)
    PROVE  RaceInv'
<1>1. /\ worker[n][w].pc \in {"response created", "response consumed"}
      /\ worker' = SetWorker(n, w, Idle) /\ UNCHANGED fresh
  BY Zenon DEF FinishResponse, FinishSession
<1>2. WorkerStops(n, w)
  BY <1>1, WorkerIsDone, Zenon
<1>3. PICK l \in Links : l[1] = n /\ l[2] = worker[n][w].peer
                         /\ l = <<n, worker[n][w].peer>>
  BY <1>1, WorkerLink, Zenon
<1>4. l[2] \in Nodes /\ worker[n][w].pc # "idle"
  BY <1>1, Zenon DEF Links
<1>5. ASSUME l \notin raced'
      PROVE  /\ hs[l].state = "InitiationConsumed" => worker[n][w].pc = "initiation consumed"
             /\ hs[l].state = "ResponseCreated" => /\ worker[n][w].pc = "response created"
                                                   /\ worker[n][w].msg.key = hs[l].chain
             /\ hs[l].state = "ResponseConsumed" => worker[n][w].pc = "response consumed"
  <2>1. ~ Races(l) /\ OwnedLink(l)
    BY <1>5, Unraced DEF LinkInv
  <2>2. Works(l, w)
    BY <1>3, <1>4, Zenon DEF Works
  <2> QED BY <1>3, <2>1, <2>2, OwnerIs, Zenon
<1>6. CASE ~ CanDerive(l) /\ UNCHANGED <<hs, kps, table, net, derived>>
  <2>1. l \notin raced' => hs[l].state \notin {"InitiationConsumed", "ResponseCreated",
                                               "ResponseConsumed"}
    BY <1>1, <1>5, <1>6, Zenon DEF CanDerive
  <2> QED BY <1>1, <1>2, <1>3, <1>4, <1>6, <2>1, StopKeeps, Zenon
<1>7. CASE /\ worker[n][w].pc = "response created" /\ BeginSymmetricSession(l)
           /\ net' = Sent(l[2], worker[n][w].msg)
  <2>1. PICK k : SessionMade(l, k)
    BY <1>7, SessionFacts, Zenon
  <2>2. PICK m : m = worker[n][w].msg
    BY Zenon
  <2>3. /\ hs[l].state \in {"ResponseConsumed", "ResponseCreated"} /\ k.key = hs[l].chain
        /\ k.isInitiator <=> hs[l].state = "ResponseConsumed"
    BY <2>1, Zenon DEF SessionMade, CanDerive
  <2>4. /\ l \notin raced' => m.key = k.key /\ ~ k.isInitiator
        /\ m.key[2] = l[1]
    <3>1. l \notin raced' => m.key = k.key /\ ~ k.isInitiator
      BY <1>5, <1>7, <2>2, <2>3, Zenon
    <3>2. m.key[2] = l[1]
      BY <1>3, <1>7, <2>2, Zenon DEF AInv, Roles, WorkerEnds, Ends
    <3> QED BY <3>1, <3>2
  <2>5. \A x \in Nodes : net'[x] = IF x = l[2] THEN net[x] \cup {m} ELSE net[x]
    <3>1. net' = Sent(l[2], m)
      BY <1>7, <2>2, Zenon
    <3> QED BY <1>4, <3>1, NetSent, Zenon
  <2>6. \A x \in Nodes : \A y \in net'[x] :
           \/ y \in net[x]
           \/ y.type # "response"
           \/ /\ x = l[2] /\ y.key[2] = l[1]
              /\ l \notin raced' => y.key = k.key /\ ~ k.isInitiator
    <3> SUFFICES ASSUME NEW x \in Nodes, NEW y \in net'[x], y \notin net[x]
                 PROVE  x = l[2] /\ y = m
      BY <2>4, Zenon
    <3> QED BY <2>5, Zenon
  <2>7. l[1] = n /\ worker[n][w].pc # "idle" /\ worker[n][w].peer = l[2] /\ UNCHANGED fresh
    BY <1>1, <1>3, <1>4, Zenon
  <2> QED BY <1>2, <2>1, <2>6, <2>7, SessionKeeps
<1>8. CASE /\ BeginSymmetricSession(l)
           /\ net' = IF kps'[l].current = None THEN net ELSE Sent(l[2], Data(kps'[l].current))
  <2>1. PICK k : SessionMade(l, k)
    BY <1>8, SessionFacts
  <2>2. PICK m : m = Data(kps'[l].current)
    BY Zenon
  <2>3. m.type = "data"
    BY <2>2 DEF Data
  <2>4. \A x \in Nodes : \A y \in net'[x] : y \in net[x] \/ y.type # "response"
    <3>1. CASE kps'[l].current = None
      BY <1>8, <3>1
    <3>2. CASE kps'[l].current # None
      <4>1. net' = Sent(l[2], m)
        BY <1>8, <2>2, <3>2
      <4>2. \A x \in Nodes : net'[x] = IF x = l[2] THEN net[x] \cup {m} ELSE net[x]
        BY <1>4, <4>1, NetSent, Zenon
      <4> QED BY <2>3, <4>2, Zenon
    <3> QED BY <3>1, <3>2
  <2> QED BY <1>1, <1>2, <1>3, <1>4, <2>1, <2>4, SessionKeeps, Zenon
<1> QED BY <1>3, <1>6, <1>7, <1>8, Zenon DEF FinishResponse, FinishSession

\* A step that makes no keypair, moves no worker and sends no handshake message.
LEMMA QuietKeeps ==
    ASSUME IInv, RaceInv, Noted, NEW l \in Links, UNCHANGED <<worker, fresh, derived>>,
           OtherLinksStay(l),
           hs'[l] = hs[l] \/ /\ hs'[l].state = "Zeroed"
                             /\ hs'[l].lastTimestamp = hs[l].lastTimestamp,
           \A x \in Nodes : \A m \in net'[x] : m \in net[x] \/ m.type # "response"
    PROVE  RaceInv'
<1>1. \A x \in Links : Made(x)' = Made(x)
  BY MadeSame
<1>2. fresh \in [Nodes -> Nat] /\ \A x \in Nodes : fresh[x] <= fresh'[x]
  BY ClockStays
<1>3. \A x \in Links : /\ x[1] \in Nodes
                       /\ \/ hs'[x] = hs[x]
                          \/ /\ hs'[x].state = "Zeroed"
                             /\ hs'[x].lastTimestamp = hs[x].lastTimestamp
  BY DEF Links, OtherLinksStay
<1>4. ASSUME NEW x \in Links, x \notin raced' PROVE LinkInv(x)'
  <2>1. OwnedLink(x) /\ AnsweredLink(x) /\ InitiatedLink(x) /\ OneEach(x)
    BY <1>4, Unraced DEF LinkInv
  <2>2. OwnedLink(x)'
    BY <1>3, <2>1, Zenon DEF OwnedLink
  <2>3. AnsweredLink(x)'
    BY <1>1, <1>3, <2>1, AnsweredFrame
  <2>4. InitiatedLink(x)'
    BY <1>1, <1>2, <1>3, <2>1, InitiatedFrame
  <2>5. OneEach(x)'
    BY <2>1, OneEachFrame
  <2> QED BY <2>2, <2>3, <2>4, <2>5 DEF LinkInv
<1>5. ASSUME NEW x \in Links, Opposite(x) \notin raced' PROVE BackedLink(x)'
  <2>1. BackedLink(x)
    BY <1>5, Backing
  <2> QED BY <1>1, <1>3, <2>1, BackedFrame
<1> QED BY <1>4, <1>5, Kept, Zenon

LEMMA SendKeeps ==
    ASSUME IInv, RaceInv, Noted, NEW l \in Links, SendStagedPackets(l)
    PROVE  RaceInv'
<1>1. /\ net' = Sent(l[2], Data(kps[l].current))
      /\ UNCHANGED <<hs, worker, fresh, derived>>
  BY DEF SendStagedPackets
<1>2. l[2] \in Nodes
  BY DEF Links
<1>3. PICK m : m = Data(kps[l].current)
  BY Zenon
<1>4. m.type = "data"
  BY <1>3 DEF Data
<1>5. net' = Sent(l[2], m)
  BY <1>1, <1>3, Zenon
<1>6. \A x \in Nodes : net'[x] = IF x = l[2] THEN net[x] \cup {m} ELSE net[x]
  BY <1>2, <1>5, NetSent, Zenon
<1>7. \A x \in Nodes : \A y \in net'[x] : y \in net[x] \/ y.type # "response"
  BY <1>4, <1>6, Zenon
<1> QED BY <1>1, <1>7, QuietKeeps DEF OtherLinksStay

LEMMA ForgetKeeps ==
    ASSUME IInv, RaceInv, Noted, NEW l \in Links,
           ZeroKeypairs(l) \/ ZeroHandshake(l) \/ ExpireCurrentKeypairs(l)
    PROVE  RaceInv'
<1>1. CASE ZeroKeypairs(l)
  <2>1. UNCHANGED <<hs, worker, fresh, net, derived>>
    BY <1>1 DEF ZeroKeypairs
  <2> QED BY <2>1, QuietKeeps DEF OtherLinksStay
<1>2. CASE ZeroHandshake(l) \/ ExpireCurrentKeypairs(l)
  <2>1. ClearHandshake(l) /\ UNCHANGED <<kps, worker, fresh, net, derived>>
    BY <1>2 DEF ZeroHandshake, ExpireCurrentKeypairs
  <2>2. /\ hs'[l].state = "Zeroed" /\ hs'[l].lastTimestamp = hs[l].lastTimestamp
        /\ OtherLinksStay(l)
    BY <2>1, ClearFacts DEF OtherLinksStay
  <2> QED BY <2>1, <2>2, QuietKeeps
<1> QED BY <1>1, <1>2

LEMMA SameKeeps ==
    ASSUME IInv, RaceInv, Noted, UNCHANGED <<hs, worker, fresh, net, derived>>
    PROVE  RaceInv'
<1>1. CASE Links = {}
  BY <1>1 DEF RaceInv
<1>2. CASE Links # {}
  <2>1. PICK l \in Links : TRUE
    BY <1>2
  <2> QED BY <2>1, QuietKeeps DEF OtherLinksStay
<1> QED BY <1>1, <1>2

-----------------------------------------------------------------------------
(* The steps keep KeyInv *)

LEMMA KeysKept ==
    ASSUME KeyInv, UNCHANGED derived,
           \A l \in Links : hs'[l] = hs[l] \/ hs'[l].state # "ResponseCreated"
    PROVE  KeyInv'
<1> SUFFICES ASSUME NEW l \in Links PROVE OwnKeys(l)'
  BY DEF KeyInv
<1>1. OwnKeys(l) /\ Made(l)' = Made(l)
  BY MadeSame DEF KeyInv
<1>2. \A i, j \in DOMAIN derived'[l] : i # j => OwnKey(derived'[l][i], derived'[l][j])
  BY <1>1, Zenon DEF OwnKeys
<1>3. hs'[l].state = "ResponseCreated" => \A k \in Made(l)' : k.isInitiator \/ k.key # hs'[l].chain
  BY <1>1, Zenon DEF OwnKeys
<1> QED BY <1>2, <1>3, Zenon DEF OwnKeys, OwnKey

\* The ephemeral of a response is in no key yet.
LEMMA ResponseKeys ==
    ASSUME IInv, AInv, KeyInv, NEW n \in Nodes, NEW w \in Workers, NEW l \in Links,
           ResponseMade(n, w, l)
    PROVE  KeyInv'
<1>1. /\ l[1] = n /\ hs[l].state = "InitiationConsumed"
      /\ hs'[l].chain = Append(hs[l].chain, fresh[n] + 1)
      /\ OtherLinksStay(l) /\ UNCHANGED derived
  BY Zenon DEF ResponseMade
<1>2. \A x \in Links : OwnKeys(x) /\ Made(x)' = Made(x)
  BY <1>1, MadeSame DEF KeyInv
<1>3. \A x \in Links : \A i, j \in DOMAIN derived'[x] :
         i # j => OwnKey(derived'[x][i], derived'[x][j])
  BY <1>1, <1>2, Zenon DEF OwnKeys
<1>4. PICK f \in Nat, r \in Nat : f = fresh[n] /\ r = fresh[n] + 1 /\ r = f + 1
  BY Types
<1>5. hs'[l].chain[4] = r
  <2>1. PICK c \in Transcript : c = hs[l].chain /\ Len(c) = 3
    BY <1>1, Types, Zenon DEF AInv, Roles, HandshakeEnds, Handshake
  <2>2. Append(c, r)[4] = r
    BY <2>1, Extended, Zenon
  <2> QED BY <1>1, <1>4, <2>1, <2>2, Zenon
<1>6. ASSUME NEW k \in Made(l), ~ k.isInitiator PROVE k.key # hs'[l].chain
  <2>1. k.key[2] = n
    BY <1>1, <1>6, Zenon DEF AInv, Roles, KeypairEnds, Ends
  <2>2. <<k.key, Addressed(k)>> \in Claims
    BY DEF Claims, MadeClaims
  <2>3. k.key[4] \in Nat /\ k.key[4] <= fresh[k.key[2]]
    BY <2>2 DEF AInv, ClaimsFresh
  <2>4. k.key[4] \in Nat /\ k.key[4] <= f
    BY <1>4, <2>1, <2>3, Zenon
  <2>5. k.key[4] # r
    BY <1>4, <2>4
  <2> QED BY <1>5, <2>5, Zenon
<1>7. ASSUME NEW x \in Links PROVE OwnKeys(x)'
  <2>1. \A k \in Made(x)' :
           hs'[x].state = "ResponseCreated" => k.isInitiator \/ k.key # hs'[x].chain
    <3>1. CASE x = l
      BY <1>2, <1>6, <3>1, Zenon
    <3>2. CASE x # l
      <4>1. hs'[x] = hs[x]
        BY <1>1, <3>2, Zenon DEF OtherLinksStay
      <4> QED BY <1>2, <4>1, Zenon DEF OwnKeys
    <3> QED BY <3>1, <3>2, Zenon
  <2> QED BY <1>3, <2>1, Zenon DEF OwnKeys, OwnKey
<1> QED BY <1>7 DEF KeyInv

LEMMA SessionKeys ==
    ASSUME IInv, KeyInv, NEW l \in Links, NEW k, SessionMade(l, k)
    PROVE  KeyInv'
<1> DEFINE R == {p \in Keypair \X Keypair : OwnKey(p[1], p[2])}
<1>1. /\ hs[l].state \in {"ResponseConsumed", "ResponseCreated"}
      /\ k.key = hs[l].chain /\ k \in Keypair
      /\ k.isInitiator <=> hs[l].state = "ResponseConsumed"
      /\ hs'[l].state = "Zeroed" /\ OtherLinksStay(l)
      /\ derived'[l] = Append(derived[l], k)
      /\ \A x \in Links : x # l => derived'[x] = derived[x] /\ Made(x)' = Made(x)
  BY Zenon DEF SessionMade, CanDerive
<1>2. \A o \in Made(l) : OwnKey(o, k) /\ OwnKey(k, o)
  <2>1. hs[l].state = "ResponseCreated" => \A o \in Made(l) : o.isInitiator \/ o.key # k.key
    BY <1>1, Zenon DEF KeyInv, OwnKeys
  <2> QED BY <1>1, <2>1, Zenon DEF OwnKey
<1>3. PICK d \in Seq(Keypair) : d = derived[l]
  BY Types
<1>4. \A a, b \in Keypair : <<a, b>> \in R <=> OwnKey(a, b)
  OBVIOUS
<1>5. \A j \in DOMAIN d : d[j] \in Keypair /\ d[j] \in Made(l)
  BY <1>3 DEF Made
<1>6. \A i, j \in DOMAIN d : i # j => OwnKey(d[i], d[j])
  BY <1>3, Zenon DEF KeyInv, OwnKeys
<1> HIDE DEF R
<1>7. \A i, j \in DOMAIN d : i # j => <<d[i], d[j]>> \in R
  BY <1>4, <1>5, <1>6, Zenon
<1>8. \A j \in DOMAIN d : <<d[j], k>> \in R /\ <<k, d[j]>> \in R
  BY <1>1, <1>2, <1>4, <1>5, Zenon
<1>9. PICK e : e = Append(d, k)
  BY Zenon
<1>10. \A i, j \in DOMAIN e : i # j => <<e[i], e[j]>> \in R
  <2>1. k \in Keypair
    BY <1>1, Zenon
  <2> QED BY <1>7, <1>8, <1>9, <2>1, PairsMore, Zenon
<1>11. e \in Seq(Keypair)
  BY <1>1, <1>9
<1>12. \A i \in DOMAIN e : e[i] \in Keypair
  BY <1>11
<1>13. \A i, j \in DOMAIN e : i # j => OwnKey(e[i], e[j])
  BY <1>4, <1>10, <1>12, Zenon
<1>14. derived'[l] = e
  BY <1>1, <1>3, <1>9, Zenon
<1>15. OwnKeys(l)'
  BY <1>1, <1>13, <1>14, Zenon DEF OwnKeys, OwnKey
<1>16. ASSUME NEW x \in Links, x # l PROVE OwnKeys(x)'
  <2>1. OwnKeys(x) /\ hs'[x] = hs[x] /\ derived'[x] = derived[x] /\ Made(x)' = Made(x)
    BY <1>1, <1>16, Zenon DEF KeyInv, OtherLinksStay
  <2> QED BY <2>1, Zenon DEF OwnKeys, OwnKey
<1> QED BY <1>15, <1>16, Zenon DEF KeyInv

LEMMA FinishKeys ==
    ASSUME IInv, KeyInv, NEW n \in Nodes, NEW w \in Workers,
           FinishResponse(n, w) \/ FinishSession(n, w)
    PROVE  KeyInv'
<1>1. PICK l \in Links : l = <<n, worker[n][w].peer>>
  <2>1. worker[n][w].pc # "idle"
    BY Zenon DEF FinishResponse, FinishSession
  <2> QED BY <2>1, WorkerLink, Zenon
<1>2. CASE BeginSymmetricSession(l)
  <2>1. PICK k : SessionMade(l, k)
    BY <1>2, SessionFacts, Zenon
  <2> QED BY <2>1, SessionKeys, Zenon
<1>3. CASE UNCHANGED <<hs, derived>>
  BY <1>3, KeysKept, Zenon
<1> QED BY <1>1, <1>2, <1>3, Zenon DEF FinishResponse, FinishSession

LEMMA StepKeys == IInv /\ AInv /\ KeyInv /\ [Next]_vars => KeyInv'
<1> SUFFICES ASSUME IInv, AInv, KeyInv, [Next]_vars PROVE KeyInv'
  OBVIOUS
<1>1. ASSUME NEW l \in Links, CreateMessageInitiation(l) PROVE KeyInv'
  <2>1. /\ hs'[l].state = "InitiationCreated" /\ \A x \in Links : x # l => hs'[x] = hs[x]
        /\ UNCHANGED derived
    BY <1>1, InitiationFacts
  <2>2. \A x \in Links : hs'[x] = hs[x] \/ hs'[x].state # "ResponseCreated"
    BY <2>1
  <2> QED BY <2>1, <2>2, KeysKept
<1>2. ASSUME NEW l \in Links, SendStagedPackets(l) \/ ZeroKeypairs(l) PROVE KeyInv'
  <2>1. UNCHANGED <<hs, derived>>
    BY <1>2 DEF SendStagedPackets, ZeroKeypairs
  <2> QED BY <2>1, KeysKept, Zenon
<1>3. ASSUME NEW l \in Links, ZeroHandshake(l) \/ ExpireCurrentKeypairs(l) PROVE KeyInv'
  <2>1. ClearHandshake(l) /\ UNCHANGED derived
    BY <1>3 DEF ZeroHandshake, ExpireCurrentKeypairs
  <2>2. \A x \in Links : hs'[x] = hs[x] \/ hs'[x].state # "ResponseCreated"
    BY <2>1, ClearFacts
  <2> QED BY <2>1, <2>2, KeysKept
<1>4. ASSUME NEW n \in Nodes, NEW w \in Workers, ConsumeInitiationUpdate(n, w) PROVE KeyInv'
  <2>1. PICK l \in Links : \E m : InitiationUpdated(n, w, m, l)
    BY <1>4, InitiationUpdateFacts
  <2>2. hs'[l].state = "InitiationConsumed" /\ OtherLinksStay(l) /\ UNCHANGED derived
    BY <2>1, Zenon DEF InitiationUpdated
  <2>3. \A x \in Links : hs'[x] = hs[x] \/ hs'[x].state # "ResponseCreated"
    BY <2>2 DEF OtherLinksStay
  <2> QED BY <2>2, <2>3, KeysKept
<1>5. ASSUME NEW n \in Nodes, NEW w \in Workers, CreateMessageResponse(n, w) PROVE KeyInv'
  <2>1. PICK l \in Links : ResponseMade(n, w, l) \/ ResponseFailed(n, w, l)
    BY <1>5, ResponseFacts
  <2>2. CASE ResponseMade(n, w, l)
    BY <2>2, ResponseKeys
  <2>3. CASE ResponseFailed(n, w, l)
    <3>1. UNCHANGED <<hs, derived>>
      BY <2>3, Zenon DEF ResponseFailed
    <3> QED BY <3>1, KeysKept, Zenon
  <2> QED BY <2>1, <2>2, <2>3
<1>6. ASSUME NEW n \in Nodes, NEW w \in Workers, ConsumeResponseUpdate(n, w) PROVE KeyInv'
  <2>1. PICK l \in Links : \E m : ResponseUpdated(n, w, m, l)
    BY <1>6, ResponseUpdateFacts
  <2>2. hs'[l].state = "ResponseConsumed" /\ OtherLinksStay(l) /\ UNCHANGED derived
    BY <2>1, Zenon DEF ResponseUpdated
  <2>3. \A x \in Links : hs'[x] = hs[x] \/ hs'[x].state # "ResponseCreated"
    BY <2>2 DEF OtherLinksStay
  <2> QED BY <2>2, <2>3, KeysKept
<1>7. ASSUME NEW n \in Nodes, NEW w \in Workers, FinishResponse(n, w) \/ FinishSession(n, w)
      PROVE  KeyInv'
  BY <1>7, FinishKeys
<1>8. ASSUME NEW n \in Nodes, NEW w \in Workers, NEW m \in net[n], Receive(n, w, m)
      PROVE  KeyInv'
  <2>1. UNCHANGED <<hs, derived>>
    BY <1>8, Zenon DEF Receive, ConsumeInitiationCheck, ConsumeResponseCheck
  <2> QED BY <2>1, KeysKept, Zenon
<1>9. ASSUME NEW n \in Nodes, NEW m \in net[n], ReceiveData(n, m) PROVE KeyInv'
  <2>1. UNCHANGED <<hs, derived>>
    BY <1>9 DEF ReceiveData
  <2> QED BY <2>1, KeysKept, Zenon
<1>10. CASE UNCHANGED vars
  <2>1. UNCHANGED <<hs, derived>>
    BY <1>10 DEF vars
  <2> QED BY <2>1, KeysKept, Zenon
<1> QED BY <1>1, <1>2, <1>3, <1>4, <1>5, <1>6, <1>7, <1>8, <1>9, <1>10, Zenon
        DEF Next, Step, WorkerStep

-----------------------------------------------------------------------------
LEMMA InitKept == Init => RaceInv /\ KeyInv
<1> SUFFICES ASSUME Init PROVE RaceInv /\ KeyInv
  OBVIOUS
<1>1. \A n \in Nodes, w \in Workers : worker[n][w].pc = "idle"
  BY DEF Init, Idle
<1>2. \A l \in Links : hs[l].state = "Zeroed" /\ Made(l) = {} /\ DOMAIN derived[l] = {}
  BY DEF Init, Made
<1>3. \A n \in Nodes : net[n] = {}
  BY Zenon DEF Init
<1>4. ASSUME NEW l \in Links PROVE ~ Races(l) /\ LinkInv(l) /\ BackedLink(l) /\ OwnKeys(l)
  <2>1. l[1] \in Nodes
    BY DEF Links
  <2>2. UsedUp(l, TRUE) = {} /\ UsedUp(l, FALSE) = {}
    BY <1>2 DEF UsedUp
  <2>3. OwnedLink(l) /\ OneEach(l) /\ OwnKeys(l)
    BY <1>2, Zenon DEF OwnedLink, OneEach, OwnKeys
  <2>4. AnsweredLink(l)
    BY <1>1, <1>2, <2>1, <2>2, Zenon DEF AnsweredLink
  <2>5. InitiatedLink(l)
    BY <1>1, <1>2, <2>1, <2>2, Zenon DEF InitiatedLink
  <2>6. BackedLink(l)
    BY <1>1, <1>2, <1>3, <2>1, Zenon DEF BackedLink
  <2>7. ~ Races(l)
    BY <1>1, <2>1, Zenon DEF Races, Works
  <2> QED BY <2>3, <2>4, <2>5, <2>6, <2>7 DEF LinkInv
<1> QED BY <1>4, Zenon DEF RaceInv, KeyInv

LEMMA StepKept == IInv /\ AInv /\ RaceInv /\ [Next]_vars => RaceInv'
<1> SUFFICES ASSUME IInv, AInv, RaceInv, [Next]_vars PROVE RaceInv'
  OBVIOUS
<1>0. Noted
  <2>1. CASE Next
    BY <2>1, Zenon DEF Next, Noted
  <2>2. CASE UNCHANGED vars
    <3>1. raced' = raced /\ worker' = worker
      BY <2>2 DEF vars
    <3>2. \A l \in Links : Races(l)' = Races(l)
      BY <3>1, Zenon DEF Races, Works
    <3> QED BY <3>1, <3>2, Zenon DEF Noted, RaceInv
  <2> QED BY <2>1, <2>2
<1>1. ASSUME NEW l \in Links, CreateMessageInitiation(l) PROVE RaceInv'
  BY <1>0, <1>1, InitiationKeeps
<1>2. ASSUME NEW l \in Links, SendStagedPackets(l) PROVE RaceInv'
  BY <1>0, <1>2, SendKeeps
<1>3. ASSUME NEW l \in Links, ZeroKeypairs(l) \/ ZeroHandshake(l) \/ ExpireCurrentKeypairs(l)
      PROVE  RaceInv'
  BY <1>0, <1>3, ForgetKeeps
<1>4. ASSUME NEW n \in Nodes, NEW w \in Workers, ConsumeInitiationUpdate(n, w) PROVE RaceInv'
  BY <1>0, <1>4, InitiationUpdateKeeps
<1>5. ASSUME NEW n \in Nodes, NEW w \in Workers, CreateMessageResponse(n, w) PROVE RaceInv'
  BY <1>0, <1>5, ResponseKeeps
<1>6. ASSUME NEW n \in Nodes, NEW w \in Workers, ConsumeResponseUpdate(n, w) PROVE RaceInv'
  BY <1>0, <1>6, ResponseUpdateKeeps
<1>7. ASSUME NEW n \in Nodes, NEW w \in Workers, FinishResponse(n, w) \/ FinishSession(n, w)
      PROVE  RaceInv'
  BY <1>0, <1>7, FinishKeeps
<1>8. ASSUME NEW n \in Nodes, NEW w \in Workers, NEW m \in net[n], Receive(n, w, m)
      PROVE  RaceInv'
  BY <1>0, <1>8, CheckKeeps
<1>9. ASSUME NEW n \in Nodes, NEW m \in net[n], ReceiveData(n, m) PROVE RaceInv'
  <2>1. UNCHANGED <<hs, worker, fresh, net, derived>>
    BY <1>9 DEF ReceiveData
  <2> QED BY <1>0, <2>1, SameKeeps
<1>10. CASE UNCHANGED vars
  <2>1. UNCHANGED <<hs, worker, fresh, net, derived>>
    BY <1>10 DEF vars
  <2> QED BY <1>0, <2>1, SameKeeps
<1> QED BY <1>1, <1>2, <1>3, <1>4, <1>5, <1>6, <1>7, <1>8, <1>9, <1>10, Zenon
        DEF Next, Step, WorkerStep

LEMMA InvariantsMakeOne == RaceInv /\ KeyInv => OneKeypairPerHandshake
<1> SUFFICES ASSUME RaceInv, KeyInv, NEW l \in Links
             PROVE  /\ l \notin raced => \A i, j \in DOMAIN derived[l] :
                          SubSeq(derived[l][i].key, 1, 3) = SubSeq(derived[l][j].key, 1, 3)
                             => i = j
                    /\ Opposite(l) \notin raced => \A k \in Made(l) : k.isInitiator =>
                          \E o \in Made(Opposite(l)) : o.key = k.key /\ ~ o.isInitiator
                    /\ \A i, j \in DOMAIN derived[l] :
                          /\ ~ derived[l][i].isInitiator /\ ~ derived[l][j].isInitiator
                          /\ derived[l][i].key = derived[l][j].key
                          => i = j
  BY Zenon DEF OneKeypairPerHandshake
<1>1. (l \notin raced => OneEach(l)) /\ (Opposite(l) \notin raced => BackedLink(l))
  BY Zenon DEF RaceInv, LinkInv
<1>2. \A c, d : SubSeq(c, 1, 3) = SubSeq(d, 1, 3) => \A x \in 1..3 : c[x] = d[x]
  <2> SUFFICES ASSUME NEW c, NEW d, SubSeq(c, 1, 3) = SubSeq(d, 1, 3), NEW x \in 1..3
               PROVE  c[x] = d[x]
    OBVIOUS
  <2>1. \A s : SubSeq(s, 1, 3)[x] = s[x]
    OBVIOUS
  <2>2. SubSeq(c, 1, 3)[x] = SubSeq(d, 1, 3)[x]
    BY Zenon
  <2> QED BY <2>1, <2>2, Zenon
<1>3. \A k, o : SubSeq(k.key, 1, 3) = SubSeq(o.key, 1, 3) => ~ Differ(k, o)
  <2> SUFFICES ASSUME NEW k, NEW o, SubSeq(k.key, 1, 3) = SubSeq(o.key, 1, 3),
                      NEW x \in 1..3
               PROVE  k.key[x] = o.key[x]
    BY DEF Differ
  <2>1. \A y \in 1..3 : k.key[y] = o.key[y]
    BY <1>2, Zenon
  <2> QED BY <2>1, Zenon
<1>4. ASSUME l \notin raced, NEW i \in DOMAIN derived[l], NEW j \in DOMAIN derived[l],
             SubSeq(derived[l][i].key, 1, 3) = SubSeq(derived[l][j].key, 1, 3)
      PROVE  i = j
  BY <1>1, <1>3, <1>4, Zenon DEF OneEach
<1>5. Opposite(l) \notin raced => \A k \in Made(l) : k.isInitiator =>
         \E o \in Made(Opposite(l)) : o.key = k.key /\ ~ o.isInitiator
  BY <1>1, Zenon DEF BackedLink, Backed
<1>6. \A i, j \in DOMAIN derived[l] :
         /\ ~ derived[l][i].isInitiator /\ ~ derived[l][j].isInitiator
         /\ derived[l][i].key = derived[l][j].key
         => i = j
  BY Zenon DEF KeyInv, OwnKeys, OwnKey
<1> QED BY <1>4, <1>5, <1>6, Zenon

\* For every number of handshake workers: an initiation makes at most one
\* keypair at either end of a link whose handshake no two workers worked on at
\* once (ConsumeMessageInitiation checks the timestamp before it updates it);
\* who consumes a response of such a responder derives a key that it has
\* (SendHandshakeResponse sends nothing when BeginSymmetricSession fails); and
\* a responder uses no key twice, whichever workers race.
THEOREM OneKeypairEach == Spec => []OneKeypairPerHandshake
<1>1. Init => IInv /\ AInv /\ RaceInv /\ KeyInv
  BY InitInvariant, InitAgrees, InitKept
<1>2. (IInv /\ AInv /\ RaceInv /\ KeyInv) /\ [Next]_vars => (IInv /\ AInv /\ RaceInv /\ KeyInv)'
  BY StepInvariant, StepAgrees, StepKept, StepKeys
<1>3. IInv /\ AInv /\ RaceInv /\ KeyInv => OneKeypairPerHandshake
  BY InvariantsMakeOne
<1> QED BY <1>1, <1>2, <1>3, PTL DEF Spec
=============================================================================
