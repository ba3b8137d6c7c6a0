------------------------- MODULE PeerEndpointProofs -------------------------
(***************************************************************************)
(* The endpoints of a peer, for any number of senders, any configuration   *)
(* of the device, any URLs and any bounds.                                 *)
(*                                                                         *)
(* The inductive invariant has a part for the fields, one for the lock and *)
(* one for each goroutine: where it may be, what is left of its call, and  *)
(* what a sender's past says of outages.                                   *)
(***************************************************************************)
EXTENDS PeerEndpoint, TLAPS

\* The addresses of the two families are looked up and installed separately.
Dual == setting.IsSuperNode \/ setting.DualStack

Endpoint == Families \cup {Nil}

Memory == [endpoint : Endpoint, ep : [Families -> Endpoint],
           tcp : Endpoint, tcpEp : [Families -> Endpoint]]

\* A channel that does not work has had an outage, and so has a family that is
\* marked failed; with dual stack a slot has an address of its own family.
Fields ==
  /\ setting \in Settings
  /\ up \subseteq Channels /\ fell \subseteq Channels /\ Channels \subseteq up \cup fell
  /\ mem \in Memory
  /\ activeAF \in Endpoint
  /\ failed \in [Families -> BOOLEAN]
  /\ udpFailed \in BOOLEAN /\ recovering \in BOOLEAN
  /\ Dual => \A f \in Families : mem.ep[f] \in {f, Nil} /\ (failed[f] => f \in fell)

Places == {"idle", "lock", "locking", "send", "sent", "refused", "active"}

Locks ==
  /\ pc \in [Actors -> Places]
  /\ readers = {s \in Senders : pc[s] # "idle"}
  /\ writer \in Actors \cup {Nil}
  /\ \A a \in Actors : pc[a] = "locking" <=> writer = a

\* What may be left of SendBuffer's order.
DualRests ==
  { <<"v6", "v4", "tcp">>, <<"v4", "v6", "tcp">>, <<"v4", "tcp">>, <<"v6", "tcp">>, <<"tcp">>, <<>> }
SingleRests == { <<"udp", "udptcp">>, <<"udptcp">>, <<>> }

InRest(c, rest) == \E i \in DOMAIN rest : rest[i] = c

\* With dual stack a sender leaves only families behind that had an outage.
DualSender(s) ==
  /\ todo[s] \in DualRests
  /\ Dual /\ \A f \in Families : mem.ep[f] # Nil
  /\ \A f \in Families : InRest(f, todo[s]) \/ f \in fell
  /\ pc[s] = "refused" /\ Head(todo[s]) \in Families => Head(todo[s]) \in fell

SenderOK(s) ==
  /\ pc[s] # "active"
  /\ pc[s] # "idle" => (via[s] = "dual" /\ DualSender(s)) \/ (via[s] = "single" /\ todo[s] \in SingleRests)
  /\ pc[s] \notin {"idle", "send"} => todo[s] # <<>>
  /\ via[s] = "tcp" \/ (via[s] = "dual" /\ pc[s] = "idle") => Families \subseteq fell

Sections == {c \in [op : {"ep", "tcp", "active", "legacy"}, slot : Families, family : Families] :
               Dual => c.slot = c.family}

SetterOK ==
  /\ todo[Setter] \in Seq(Sections)
  /\ pc[Setter] \in {"idle", "lock", "locking", "active"}
  /\ pc[Setter] # "idle" =>
       todo[Setter] # <<>> /\ (pc[Setter] = "active" <=> Head(todo[Setter]).op = "active")

ReceiverOK ==
  /\ pc[Receiver] \in {"idle", "lock", "locking"}
  /\ pc[Receiver] # "idle" => Head(todo[Receiver]) \in Families

RecoveryOK == pc[Recovery] \in {"idle", "lock", "locking"}

IInv ==
  /\ Fields /\ Locks
  /\ DOMAIN todo = Actors /\ DOMAIN via = Senders
  /\ (\A s \in Senders : SenderOK(s)) /\ SetterOK /\ ReceiverOK /\ RecoveryOK

LEMMA ActorFacts ==
  /\ Setter \notin Senders /\ Receiver \notin Senders /\ Recovery \notin Senders
  /\ {Setter, Receiver, Recovery} \subseteq Actors /\ Senders \subseteq Actors
  /\ Setter # Receiver /\ Setter # Recovery /\ Receiver # Recovery
  /\ Nil \notin Actors
BY EndpointAssumption DEF Actors, Setter, Receiver, Recovery, Nil

-----------------------------------------------------------------------------
(* The lock *)

\* A goroutine that does not wait for the write lock goes on.
LEMMA LockKept ==
  ASSUME Locks, NEW a \in Actors, NEW where \in Places \ {"locking"}, pc[a] # "locking",
         pc' = [pc EXCEPT ![a] = where], writer' = writer,
         readers' = IF a \notin Senders THEN readers
                    ELSE IF where = "idle" THEN readers \ {a} ELSE readers \cup {a}
  PROVE  Locks'
<1>1. pc' \in [Actors -> Places] /\ pc'[a] = where /\ \A b \in Actors : b # a => pc'[b] = pc[b]
  BY DEF Locks
<1>2. \A s \in Senders : s \in Actors
  BY ActorFacts
<1>3. readers' = {s \in Senders : pc'[s] # "idle"}
  <2>1. CASE a \in Senders
    BY <1>1, <1>2, <2>1 DEF Locks
  <2>2. CASE a \notin Senders
    BY <1>1, <1>2, <2>2 DEF Locks
  <2> QED
    BY <2>1, <2>2
<1>4. \A b \in Actors : pc'[b] = "locking" <=> writer' = b
  BY <1>1 DEF Locks
<1> QED
  BY <1>1, <1>3, <1>4 DEF Locks

\* A writer leaves its critical section.
LEMMA LockReleased ==
  ASSUME Locks, NEW a \in Actors \ Senders, NEW where \in Places \ {"locking"}, pc[a] = "locking",
         pc' = [pc EXCEPT ![a] = where], writer' = Nil, readers' = readers
  PROVE  Locks'
<1>1. pc' \in [Actors -> Places] /\ pc'[a] = where /\ \A b \in Actors : b # a => pc'[b] = pc[b]
  BY DEF Locks
<1>2. (\A s \in Senders : s \in Actors) /\ Nil \notin Actors
  BY ActorFacts
<1>3. readers' = {s \in Senders : pc'[s] # "idle"}
  BY <1>1, <1>2 DEF Locks
<1>4. \A b \in Actors : pc'[b] = "locking" <=> writer' = b
  BY <1>1, <1>2 DEF Locks
<1> QED
  BY <1>1, <1>3, <1>4 DEF Locks

\* No sender ever has the write lock: it is one of the readers.
LEMMA SenderNeverLocked ==
  ASSUME Locks, NEW s \in Senders PROVE ~Locked(s)
BY DEF Locks, Locked

-----------------------------------------------------------------------------
(* The goroutines that a step leaves alone *)

\* Outages add up, slots stay filled: what a sender relies on is not undone.
LEMMA OtherSender ==
  ASSUME NEW s \in Senders, SenderOK(s),
         pc'[s] = pc[s], todo'[s] = todo[s], via'[s] = via[s],
         setting' = setting, fell \subseteq fell',
         \A f \in Families : mem.ep[f] # Nil => mem'.ep[f] # Nil
  PROVE  SenderOK(s)'
<1>1. Dual' = Dual
  BY DEF Dual
<1>2. DualSender(s) => DualSender(s)'
  BY <1>1 DEF DualSender, InRest
<1>3. Families \subseteq fell => Families \subseteq fell'
  OBVIOUS
<1> QED
  BY <1>2, <1>3 DEF SenderOK

LEMMA OtherSetter ==
  ASSUME SetterOK, pc'[Setter] = pc[Setter], todo'[Setter] = todo[Setter], setting' = setting
  PROVE  SetterOK'
<1>1. Sections' = Sections
  BY DEF Sections, Dual
<1> QED
  BY <1>1 DEF SetterOK

\* A step of the network, or of the timer alone.
LEMMA NobodyMoves ==
  ASSUME IInv, Fields', UNCHANGED <<setting, mem, pc, todo, via, readers, writer>>, fell \subseteq fell'
  PROVE  IInv'
<1>1. \A s \in Senders : SenderOK(s)'
  BY OtherSender DEF IInv
<1>2. SetterOK'
  BY OtherSetter DEF IInv
<1>3. Locks'
  BY DEF IInv, Locks
<1> QED
  BY <1>1, <1>2, <1>3 DEF IInv, ReceiverOK, RecoveryOK

\* A step of one sender that changes no endpoint.
LEMMA SenderMoves ==
  ASSUME IInv, NEW s \in Senders, NEW where, NEW rest,
         Fields', Locks', SenderOK(s)',
         pc' = [pc EXCEPT ![s] = where], todo' = [todo EXCEPT ![s] = rest],
         DOMAIN via' = Senders, \A u \in Senders : u # s => via'[u] = via[u],
         UNCHANGED <<setting, mem, fell>>
  PROVE  IInv'
<1>1. \A a \in Actors : a # s => pc'[a] = pc[a] /\ todo'[a] = todo[a]
  BY DEF IInv, Locks
<1>2. ASSUME NEW u \in Senders PROVE SenderOK(u)'
  <2>1. CASE u = s
    BY <2>1
  <2>2. CASE u # s
    BY <1>1, <2>2, OtherSender, ActorFacts DEF IInv
  <2> QED
    BY <2>1, <2>2
<1>3. SetterOK'
  BY <1>1, OtherSetter, ActorFacts DEF IInv
<1>4. ReceiverOK' /\ RecoveryOK'
  BY <1>1, ActorFacts DEF IInv, ReceiverOK, RecoveryOK
<1> QED
  BY <1>2, <1>3, <1>4 DEF IInv

\* A step of one of the other goroutines.
LEMMA OthersMove ==
  ASSUME IInv, NEW a \in {Setter, Receiver, Recovery}, NEW where, NEW rest,
         Fields', Locks', SetterOK', ReceiverOK', RecoveryOK',
         pc' = [pc EXCEPT ![a] = where], todo' = [todo EXCEPT ![a] = rest],
         UNCHANGED <<setting, fell, via>>,
         \A f \in Families : mem.ep[f] # Nil => mem'.ep[f] # Nil
  PROVE  IInv'
<1>1. \A s \in Senders : pc'[s] = pc[s] /\ todo'[s] = todo[s]
  BY ActorFacts DEF IInv, Locks
<1>2. \A s \in Senders : SenderOK(s)'
  BY <1>1, OtherSender DEF IInv
<1> QED
  BY <1>2 DEF IInv

-----------------------------------------------------------------------------
(* The steps *)

LEMMA InitStep == Init => IInv
<1> SUFFICES ASSUME Init PROVE IInv
  OBVIOUS
<1> USE DEF Init
<1>1. up \subseteq Channels /\ fell \subseteq Channels /\ Channels \subseteq up \cup fell
  OBVIOUS
<1>2. mem \in Memory /\ \A f \in Families : mem.ep[f] = Nil
  BY DEF NoEndpoint, Memory, Endpoint
<1>3. failed \in [Families -> BOOLEAN] /\ \A f \in Families : ~failed[f]
  OBVIOUS
<1>4. udpFailed \in BOOLEAN /\ recovering \in BOOLEAN
  BY Zenon
<1>5. Fields
  BY <1>1, <1>2, <1>3, <1>4 DEF Fields, Endpoint
<1>6. \A a \in Actors : pc[a] = "idle" /\ todo[a] = <<>>
  OBVIOUS
<1>7. Locks
  BY <1>6, ActorFacts DEF Locks, Places
<1>8. \A s \in Senders : SenderOK(s)
  <2> SUFFICES ASSUME NEW s \in Senders PROVE SenderOK(s)
    OBVIOUS
  <2>1. pc[s] = "idle" /\ via[s] = "nil"
    BY <1>6, ActorFacts DEF Nil
  <2> QED
    BY <2>1 DEF SenderOK
<1>9. SetterOK /\ ReceiverOK /\ RecoveryOK
  BY <1>6, ActorFacts DEF SetterOK, ReceiverOK, RecoveryOK
<1> QED
  BY <1>5, <1>7, <1>8, <1>9 DEF IInv

LEMMA NetworkStep ==
  ASSUME IInv, NEW c \in Channels, GoDown(c) \/ ComeBack(c)
  PROVE  IInv'
<1>1. /\ UNCHANGED <<setting, mem, activeAF, failed, udpFailed, recovering, pc, todo, via, readers, writer>>
      /\ fell \subseteq fell'
  BY DEF GoDown, ComeBack, atomics
<1>2. up' \subseteq Channels /\ fell' \subseteq Channels /\ Channels \subseteq up' \cup fell'
  BY DEF IInv, Fields, GoDown, ComeBack
<1>3. Fields'
  BY <1>1, <1>2 DEF IInv, Fields, Dual
<1> QED
  BY <1>1, <1>3, NobodyMoves

LEMMA SameFields ==
  ASSUME Fields, UNCHANGED <<setting, up, fell, mem, activeAF, failed, udpFailed, recovering>>
  PROVE  Fields'
BY DEF Fields, Dual

LEMMA AnnounceStep ==
  ASSUME IInv, NEW a \in Actors, Announce(a)
  PROVE  IInv'
<1>1. /\ pc[a] = "lock" /\ writer = Nil /\ writer' = a
      /\ pc' = [pc EXCEPT ![a] = "locking"]
      /\ UNCHANGED <<setting, up, fell, mem, activeAF, failed, udpFailed, recovering, readers, todo, via>>
  BY DEF Announce, atomics
<1>2. pc' \in [Actors -> Places] /\ pc'[a] = "locking" /\ \A b \in Actors : b # a => pc'[b] = pc[b]
  BY <1>1 DEF IInv, Locks, Places
<1>3. Fields'
  BY <1>1, SameFields DEF IInv
<1>4. Locks'
  <2>1. readers' = {s \in Senders : pc'[s] # "idle"}
    BY <1>1, <1>2, ActorFacts DEF IInv, Locks
  <2>2. \A b \in Actors : pc'[b] = "locking" <=> writer' = b
    BY <1>1, <1>2, ActorFacts DEF IInv, Locks
  <2> QED
    BY <1>1, <1>2, <2>1, <2>2 DEF Locks
<1>5. ASSUME NEW s \in Senders PROVE SenderOK(s)'
  <2>1. s \in Actors /\ SenderOK(s)
    BY ActorFacts DEF IInv
  <2>2. CASE s # a
    BY <1>1, <1>2, <2>1, <2>2, OtherSender
  <2>3. CASE s = a
    <3>1. pc'[s] = "locking" /\ pc[s] = "lock" /\ todo'[s] = todo[s] /\ via'[s] = via[s]
      BY <1>1, <1>2, <2>3
    <3>2. DualSender(s) => DualSender(s)'
      BY <1>1, <3>1 DEF DualSender, Dual
    <3> QED
      BY <2>1, <3>1, <3>2, <1>1 DEF SenderOK
  <2> QED
    BY <2>2, <2>3
<1>6. SetterOK'
  <2>1. Sections' = Sections
    BY <1>1 DEF Sections, Dual
  <2> QED
    BY <1>1, <1>2, <2>1, ActorFacts DEF IInv, SetterOK
<1>7. ReceiverOK' /\ RecoveryOK'
  BY <1>1, <1>2, ActorFacts DEF IInv, ReceiverOK, RecoveryOK
<1> QED
  BY <1>1, <1>3, <1>4, <1>5, <1>6, <1>7 DEF IInv

\* What is left after the first channel of a sender's order.
LEMMA DualTail ==
  ASSUME NEW r \in DualRests, r # <<>>
  PROVE  /\ Tail(r) \in DualRests /\ Head(r) \in {"v4", "v6", "tcp"}
         /\ \A f \in Families : InRest(f, r) => f = Head(r) \/ InRest(f, Tail(r))
         /\ Head(r) = "tcp" => \A f \in Families : ~InRest(f, r)
<1>1. CASE r = <<"v6", "v4", "tcp">>
  <2>1. Tail(r) = <<"v4", "tcp">> /\ Head(r) = "v6"
    BY <1>1
  <2> QED
    BY <1>1, <2>1 DEF DualRests, InRest, Families
<1>2. CASE r = <<"v4", "v6", "tcp">>
  <2>1. Tail(r) = <<"v6", "tcp">> /\ Head(r) = "v4"
    BY <1>2
  <2> QED
    BY <1>2, <2>1 DEF DualRests, InRest, Families
<1>3. CASE r = <<"v4", "tcp">>
  <2>1. Tail(r) = <<"tcp">> /\ Head(r) = "v4"
    BY <1>3
  <2> QED
    BY <1>3, <2>1 DEF DualRests, InRest, Families
<1>4. CASE r = <<"v6", "tcp">>
  <2>1. Tail(r) = <<"tcp">> /\ Head(r) = "v6"
    BY <1>4
  <2> QED
    BY <1>4, <2>1 DEF DualRests, InRest, Families
<1>5. CASE r = <<"tcp">>
  <2>1. Tail(r) = <<>> /\ Head(r) = "tcp"
    BY <1>5
  <2> QED
    BY <1>5, <2>1 DEF DualRests, InRest, Families
<1> QED
  BY <1>1, <1>2, <1>3, <1>4, <1>5 DEF DualRests

LEMMA SingleTail ==
  ASSUME NEW r \in SingleRests, r # <<>>
  PROVE  Tail(r) \in SingleRests /\ Head(r) \in {"udp", "udptcp"}
<1>1. CASE r = <<"udp", "udptcp">>
  <2>1. Tail(r) = <<"udptcp">> /\ Head(r) = "udp"
    BY <1>1
  <2> QED
    BY <2>1 DEF SingleRests
<1>2. CASE r = <<"udptcp">>
  <2>1. Tail(r) = <<>> /\ Head(r) = "udptcp"
    BY <1>2
  <2> QED
    BY <2>1 DEF SingleRests
<1> QED
  BY <1>1, <1>2 DEF SingleRests

\* A sender inside SendBuffer.
LEMMA SenderFacts ==
  ASSUME IInv, NEW s \in Senders, pc[s] # "idle"
  PROVE  /\ s \in Actors /\ s \in readers /\ SenderOK(s)
         /\ (via[s] = "dual" /\ DualSender(s)) \/ (via[s] = "single" /\ todo[s] \in SingleRests)
         /\ pc[s] # "send" => todo[s] # <<>>
BY ActorFacts DEF IInv, SenderOK, Locks

LEMMA SendBufferStep ==
  ASSUME IInv, NEW s \in Senders, SendBuffer(s)
  PROVE  IInv'
<1> DEFINE af == IF DualStack /\ activeAF = Nil THEN "v6" ELSE activeAF
<1>1. /\ pc[s] = "idle" /\ readers' = readers \cup {s} /\ activeAF' = af
      /\ pc' = [pc EXCEPT ![s] = "send"] /\ todo' = [todo EXCEPT ![s] = Order(af)]
      /\ via' = [via EXCEPT ![s] = IF DualStack THEN "dual" ELSE "single"]
      /\ UNCHANGED <<setting, up, mem, failed, udpFailed, recovering, writer, fell>>
  BY DEF SendBuffer, Goto
<1>2. s \in Actors /\ pc \in [Actors -> Places] /\ DOMAIN todo = Actors /\ DOMAIN via = Senders
  BY ActorFacts DEF IInv, Locks
<1>3. af \in Endpoint
  BY DEF IInv, Fields, Endpoint, Families
<1>4. Fields'
  BY <1>1, <1>3 DEF IInv, Fields, Dual
<1>5. Locks'
  BY <1>1, <1>2, LockKept, Zenon DEF IInv, Places
<1>6. pc'[s] = "send" /\ todo'[s] = Order(af) /\ via'[s] = IF DualStack THEN "dual" ELSE "single"
  BY <1>1, <1>2
<1> HIDE DEF af
<1>7. SenderOK(s)'
  <2>1. CASE DualStack
    <3>1. Order(af) = <<"v6", "v4", "tcp">> \/ Order(af) = <<"v4", "v6", "tcp">>
      BY <2>1 DEF Order
    <3>2. todo'[s] \in DualRests
      BY <1>6, <3>1 DEF DualRests
    <3>3. \A f \in Families : InRest(f, todo'[s])
      BY <1>6, <3>1 DEF InRest, Families
    <3>4. Dual' /\ \A f \in Families : mem'.ep[f] # Nil
      BY <1>1, <2>1 DEF DualStack, Dual
    <3>5. DualSender(s)'
      BY <1>6, <3>2, <3>3, <3>4 DEF DualSender, InRest
    <3> QED
      BY <1>6, <2>1, <3>5 DEF SenderOK
  <2>2. CASE ~DualStack
    <3>1. Order(af) = <<"udp", "udptcp">>
      BY <2>2 DEF Order
    <3> QED
      BY <1>6, <2>2, <3>1 DEF SenderOK, SingleRests
  <2> QED
    BY <2>1, <2>2
<1>8. DOMAIN via' = Senders /\ \A u \in Senders : u # s => via'[u] = via[u]
  BY <1>1, <1>2
<1> QED
  BY <1>1, <1>4, <1>5, <1>7, <1>8, SenderMoves, Zenon

LEMMA FamilyChannel ==
  ASSUME NEW f \in Families
  PROVE  (Usable(f) <=> mem.ep[f] # Nil /\ ~failed[f]) /\ Carrier(f) = mem.ep[f]
<1>1. f \notin {"udp", "tcp", "udptcp"}
  BY DEF Families
<1>2. Carrier(f) = mem.ep[f]
  BY <1>1 DEF Carrier
<1>3. Usable(f) <=> mem.ep[f] # Nil /\ ~failed[f]
  BY <1>1, Zenon DEF Usable
<1> QED
  BY <1>2, <1>3

\* PassOver, Attempt and GiveUp.
LEMMA TryStep ==
  ASSUME IInv, NEW s \in Senders, PassOver(s) \/ Attempt(s) \/ GiveUp(s)
  PROVE  IInv'
<1>1. /\ pc[s] = "send"
      /\ UNCHANGED <<setting, up, mem, activeAF, failed, udpFailed, recovering, writer, fell, via>>
  BY DEF PassOver, Attempt, GiveUp, atomics
<1>2. /\ s \in Actors /\ s \in readers /\ SenderOK(s)
      /\ (via[s] = "dual" /\ DualSender(s)) \/ (via[s] = "single" /\ todo[s] \in SingleRests)
  BY <1>1, SenderFacts
<1>3. Fields' /\ Dual' = Dual
  BY <1>1, SameFields DEF IInv, Dual
<1>4. pc \in [Actors -> Places] /\ DOMAIN todo = Actors /\ DOMAIN via' = Senders
  BY <1>1 DEF IInv, Locks
<1>5. CASE PassOver(s)
  <2>1. /\ pc' = [pc EXCEPT ![s] = "send"] /\ todo' = [todo EXCEPT ![s] = Tail(todo[s])]
        /\ readers' = readers /\ todo[s] # <<>> /\ ~Usable(Head(todo[s]))
    BY <1>5 DEF PassOver, Goto
  <2>2. pc'[s] = "send" /\ todo'[s] = Tail(todo[s])
    BY <1>2, <1>4, <2>1
  <2>3. Locks'
    BY <1>1, <1>2, <2>1, LockKept, Zenon DEF IInv, Places
  <2>4. SenderOK(s)'
    <3>1. CASE via[s] = "dual" /\ DualSender(s)
      <4>1. todo[s] \in DualRests /\ Dual /\ \A f \in Families : mem.ep[f] # Nil
        BY <3>1 DEF DualSender
      <4>2. Head(todo[s]) \in Families => Head(todo[s]) \in fell
        BY <2>1, <4>1, FamilyChannel DEF IInv, Fields
      <4>3. \A f \in Families : InRest(f, Tail(todo[s])) \/ f \in fell
        BY <2>1, <3>1, <4>1, <4>2, DualTail DEF DualSender
      <4>4. DualSender(s)'
        BY <1>1, <1>3, <2>1, <2>2, <4>1, <4>3, DualTail, Zenon DEF DualSender, InRest
      <4> QED
        BY <1>1, <2>2, <3>1, <4>4 DEF SenderOK
    <3>2. CASE via[s] = "single" /\ todo[s] \in SingleRests
      BY <1>1, <2>1, <2>2, <3>2, SingleTail DEF SenderOK
    <3> QED
      BY <1>2, <3>1, <3>2
  <2> QED
    BY <1>1, <1>3, <1>4, <2>1, <2>3, <2>4, SenderMoves, Zenon
<1>6. CASE Attempt(s)
  <2> DEFINE c == Head(todo[s])
             where == IF Carrier(c) \in up THEN "sent" ELSE "refused"
  <2>1. /\ pc' = [pc EXCEPT ![s] = where] /\ todo' = [todo EXCEPT ![s] = todo[s]]
        /\ readers' = readers /\ todo[s] # <<>>
    BY <1>6 DEF Attempt, Goto
  <2>2. pc'[s] = where /\ todo'[s] = todo[s]
    BY <1>2, <1>4, <2>1
  <2>3. Locks'
    <3>1. where \in Places \ {"locking"} /\ where # "idle"
      BY DEF Places
    <3> HIDE DEF where
    <3> QED
      BY <1>1, <1>2, <2>1, <3>1, LockKept, Zenon DEF IInv
  <2>4. SenderOK(s)'
    <3>1. CASE via[s] = "dual" /\ DualSender(s)
      <4>1. ASSUME where = "refused", c \in Families PROVE c \in fell
        <5>1. Carrier(c) = mem.ep[c] /\ Carrier(c) \notin up
          BY <4>1, FamilyChannel, Zenon
        <5>2. mem.ep[c] = c
          BY <3>1, <4>1 DEF IInv, Fields, DualSender
        <5> QED
          BY <4>1, <5>1, <5>2, Zenon DEF IInv, Fields, Channels
      <4>2. DualSender(s)'
        <5> HIDE DEF where
        <5> QED
          BY <1>1, <1>3, <2>2, <3>1, <4>1 DEF DualSender
      <4> QED
        BY <1>1, <2>1, <2>2, <3>1, <4>2 DEF SenderOK
    <3>2. CASE via[s] = "single" /\ todo[s] \in SingleRests
      BY <1>1, <2>1, <2>2, <3>2 DEF SenderOK
    <3> QED
      BY <1>2, <3>1, <3>2
  <2> QED
    BY <1>1, <1>3, <1>4, <2>1, <2>3, <2>4, SenderMoves, Zenon
<1>7. CASE GiveUp(s)
  <2>1. /\ pc' = [pc EXCEPT ![s] = "idle"] /\ todo' = [todo EXCEPT ![s] = <<>>]
        /\ readers' = readers \ {s} /\ todo[s] = <<>>
    BY <1>7 DEF GiveUp, Goto, Unlock
  <2>2. pc'[s] = "idle"
    BY <1>2, <1>4, <2>1
  <2>3. Locks'
    BY <1>1, <1>2, <2>1, LockKept, Zenon DEF IInv, Places
  <2>4. SenderOK(s)'
    <3>1. DualSender(s) => Families \subseteq fell
      BY <2>1 DEF DualSender, InRest
    <3> QED
      BY <1>1, <1>2, <2>2, <3>1 DEF SenderOK
  <2> QED
    BY <1>1, <1>3, <1>4, <2>1, <2>3, <2>4, SenderMoves, Zenon
<1> QED
  BY <1>5, <1>6, <1>7

LEMMA SentStep ==
  ASSUME IInv, NEW s \in Senders, Sent(s)
  PROVE  IInv'
<1> DEFINE c == Head(todo[s])
<1>1. /\ pc[s] = "sent"
      /\ failed' = IF c \in Families THEN [failed EXCEPT ![c] = FALSE] ELSE failed
      /\ via' = [via EXCEPT ![s] = c] /\ readers' = readers \ {s}
      /\ pc' = [pc EXCEPT ![s] = "idle"] /\ todo' = [todo EXCEPT ![s] = <<>>]
      /\ UNCHANGED <<setting, up, mem, activeAF, writer, fell>>
  BY DEF Sent, Goto, Unlock
<1>2. udpFailed' \in BOOLEAN /\ recovering' \in BOOLEAN
  BY DEF Sent
<1>3. /\ s \in Actors /\ s \in readers /\ todo[s] # <<>>
      /\ (via[s] = "dual" /\ DualSender(s)) \/ (via[s] = "single" /\ todo[s] \in SingleRests)
  BY <1>1, SenderFacts
<1>4. pc \in [Actors -> Places] /\ DOMAIN via = Senders
  BY DEF IInv, Locks
<1>5. failed' \in [Families -> BOOLEAN] /\ \A f \in Families : failed'[f] => failed[f]
  BY <1>1 DEF IInv, Fields
<1>6. Fields'
  BY <1>1, <1>2, <1>5, Zenon DEF IInv, Fields, Dual
<1>7. Locks'
  BY <1>1, <1>3, LockKept, Zenon DEF IInv, Places
<1>8. pc'[s] = "idle" /\ via'[s] = c
  BY <1>1, <1>3, <1>4
<1>9. c # "dual" /\ (c = "tcp" => Families \subseteq fell)
  <2>1. CASE via[s] = "dual" /\ DualSender(s)
    BY <1>3, <2>1, DualTail, Zenon DEF DualSender
  <2>2. CASE via[s] = "single" /\ todo[s] \in SingleRests
    BY <1>3, <2>2, SingleTail
  <2> QED
    BY <1>3, <2>1, <2>2, Zenon
<1> HIDE DEF c
<1>10. SenderOK(s)'
  BY <1>1, <1>8, <1>9 DEF SenderOK
<1>11. DOMAIN via' = Senders /\ \A u \in Senders : u # s => via'[u] = via[u]
  BY <1>1, <1>4
<1> QED
  BY <1>1, <1>6, <1>7, <1>10, <1>11, SenderMoves, Zenon

LEMMA RefusedStep ==
  ASSUME IInv, NEW s \in Senders, Refused(s)
  PROVE  IInv'
<1> DEFINE c == Head(todo[s])
<1>1. /\ pc[s] = "refused"
      /\ failed' = IF c \in Families THEN [failed EXCEPT ![c] = TRUE] ELSE failed
      /\ UNCHANGED <<setting, up, mem, recovering, readers, writer, fell, via>>
  BY DEF Refused
<1>2. udpFailed' \in BOOLEAN
  BY DEF Refused
<1>3. \/ activeAF' = "v4" /\ pc' = [pc EXCEPT ![s] = "lock"] /\ todo' = [todo EXCEPT ![s] = todo[s]]
      \/ activeAF' = activeAF /\ pc' = [pc EXCEPT ![s] = "send"] /\ todo' = [todo EXCEPT ![s] = Tail(todo[s])]
  BY DEF Refused, Goto
<1>4. /\ s \in Actors /\ s \in readers /\ todo[s] # <<>> /\ SenderOK(s)
      /\ (via[s] = "dual" /\ DualSender(s)) \/ (via[s] = "single" /\ todo[s] \in SingleRests)
  BY <1>1, SenderFacts, Zenon
<1>5. pc \in [Actors -> Places] /\ DOMAIN via' = Senders /\ DOMAIN todo = Actors
  BY <1>1 DEF IInv, Locks
<1>6. c \in Families => c \in fell
  <2>1. CASE via[s] = "dual" /\ DualSender(s)
    BY <1>1, <2>1 DEF DualSender
  <2>2. CASE via[s] = "single" /\ todo[s] \in SingleRests
    <3>1. c \in {"udp", "udptcp"}
      BY <1>4, <2>2, SingleTail
    <3> QED
      BY <3>1 DEF Families
  <2> QED
    BY <1>4, <2>1, <2>2
<1>7. Fields'
  <2>1. failed' \in [Families -> BOOLEAN]
    BY <1>1 DEF IInv, Fields
  <2>2. \A f \in Families : failed'[f] => failed[f] \/ f = c
    BY <1>1 DEF IInv, Fields
  <2>3. activeAF' \in Endpoint
    BY <1>3 DEF IInv, Fields, Endpoint, Families
  <2> HIDE DEF c
  <2> QED
    BY <1>1, <1>2, <1>6, <2>1, <2>2, <2>3 DEF IInv, Fields, Dual
<1>8. CASE pc' = [pc EXCEPT ![s] = "lock"] /\ todo' = [todo EXCEPT ![s] = todo[s]]
  <2>1. pc'[s] = "lock" /\ todo'[s] = todo[s]
    BY <1>4, <1>5, <1>8
  <2>2. Locks'
    BY <1>1, <1>4, <1>8, LockKept, Zenon DEF IInv, Places
  <2>3. DualSender(s) => DualSender(s)'
    BY <1>1, <2>1 DEF DualSender, Dual
  <2>4. SenderOK(s)'
    BY <1>1, <1>4, <2>1, <2>3 DEF SenderOK
  <2> QED
    BY <1>1, <1>5, <1>7, <1>8, <2>2, <2>4, SenderMoves, Zenon
<1>9. CASE pc' = [pc EXCEPT ![s] = "send"] /\ todo' = [todo EXCEPT ![s] = Tail(todo[s])]
  <2>1. pc'[s] = "send" /\ todo'[s] = Tail(todo[s])
    BY <1>4, <1>5, <1>9
  <2>2. Locks'
    BY <1>1, <1>4, <1>9, LockKept, Zenon DEF IInv, Places
  <2>3. SenderOK(s)'
    <3>1. CASE via[s] = "dual" /\ DualSender(s)
      <4>1. todo[s] \in DualRests /\ Dual /\ \A f \in Families : mem.ep[f] # Nil
        BY <3>1 DEF DualSender
      <4>2. \A f \in Families : InRest(f, Tail(todo[s])) \/ f \in fell
        BY <1>4, <1>6, <3>1, <4>1, DualTail DEF DualSender
      <4>3. Dual'
        BY <1>1, <4>1 DEF Dual
      <4>4. DualSender(s)'
        BY <1>1, <1>4, <2>1, <4>1, <4>2, <4>3, DualTail DEF DualSender, InRest
      <4> QED
        BY <1>1, <2>1, <3>1, <4>4 DEF SenderOK
    <3>2. CASE via[s] = "single" /\ todo[s] \in SingleRests
      BY <1>1, <1>4, <2>1, <3>2, SingleTail DEF SenderOK
    <3> QED
      BY <1>4, <3>1, <3>2
  <2> QED
    BY <1>1, <1>5, <1>7, <1>9, <2>2, <2>3, SenderMoves, Zenon
<1> QED
  BY <1>3, <1>8, <1>9

\* SetEndpointFromConnURL prepares well-formed sections.
LEMMA ProgramType ==
  ASSUME setting \in Settings, NEW found \in SUBSET Families, NEW usable
  PROVE  Program(found, usable) \in Seq(Sections)
<1> DEFINE dual == setting.IsSuperNode \/ setting.DualStack
           primary == IF dual THEN PrimaryAF(found) ELSE "v4"
           slot(f) == IF f \in found \cap usable THEN Install(IF dual THEN f ELSE "v4", f) ELSE <<>>
<1>1. PrimaryAF(found) \in Families
  BY DEF PrimaryAF, Families
<1>2. ASSUME NEW g \in Families, NEW f \in Families, Dual => g = f
      PROVE  Install(g, f) \in Seq(Sections)
  <2>1. Section("ep", g, f) \in Sections /\ Section("tcp", g, f) \in Sections
    BY <1>2 DEF Section, Sections
  <2>2. <<Section("ep", g, f)>> \in Seq(Sections)
        /\ (IF setting.FakeTCP THEN <<Section("tcp", g, f)>> ELSE <<>>) \in Seq(Sections)
    BY <2>1
  <2> QED
    BY <2>2 DEF Install
<1>3. slot("v4") \in Seq(Sections) /\ slot("v6") \in Seq(Sections)
  <2>1. "v4" \in Families /\ "v6" \in Families
    BY DEF Families
  <2>2. ASSUME NEW f \in Families PROVE slot(f) \in Seq(Sections)
    <3>1. (IF dual THEN f ELSE "v4") \in Families /\ (Dual => (IF dual THEN f ELSE "v4") = f)
      BY <2>1 DEF Dual
    <3>2. Install(IF dual THEN f ELSE "v4", f) \in Seq(Sections)
      BY <1>2, <3>1
    <3> QED
      BY <3>2
  <2> QED
    BY <2>1, <2>2
<1>4. primary \in Families
  BY <1>1 DEF Families
<1>5. Section("active", primary, primary) \in Sections /\ Section("legacy", primary, primary) \in Sections
  BY <1>4 DEF Section, Sections
<1>6. <<Section("active", primary, primary), Section("legacy", primary, primary)>> \in Seq(Sections)
  BY <1>5
<1>7. Program(found, usable) = slot("v4") \o slot("v6")
        \o <<Section("active", primary, primary), Section("legacy", primary, primary)>>
  BY DEF Program
<1> HIDE DEF slot, primary
<1> QED
  BY <1>3, <1>6, <1>7

Where(rest) == IF rest = <<>> THEN "idle" ELSE IF Head(rest).op = "active" THEN "active" ELSE "lock"

\* The setter goes on with the sections it has left.
LEMMA ResumeFacts ==
  ASSUME IInv, NEW rest \in Seq(Sections), Resume(rest), setting' = setting
  PROVE  /\ pc' = [pc EXCEPT ![Setter] = Where(rest)] /\ todo' = [todo EXCEPT ![Setter] = rest]
         /\ Where(rest) \in Places \ {"locking"}
         /\ SetterOK' /\ ReceiverOK' /\ RecoveryOK'
<1>1. pc' = [pc EXCEPT ![Setter] = Where(rest)] /\ todo' = [todo EXCEPT ![Setter] = rest]
  BY DEF Resume, Goto, Where
<1>2. pc \in [Actors -> Places] /\ DOMAIN todo = Actors
  BY DEF IInv, Locks
<1>3. Where(rest) \in Places \ {"locking"}
  BY DEF Where, Places
<1>4. pc'[Setter] = Where(rest) /\ todo'[Setter] = rest
  BY <1>1, <1>2, ActorFacts
<1>5. pc'[Receiver] = pc[Receiver] /\ todo'[Receiver] = todo[Receiver] /\ pc'[Recovery] = pc[Recovery]
  BY <1>1, <1>2, ActorFacts
<1>6. Sections' = Sections
  BY DEF Sections, Dual
<1>7. SetterOK'
  BY <1>4, <1>6 DEF SetterOK, Where
<1>8. ReceiverOK' /\ RecoveryOK'
  BY <1>5 DEF IInv, ReceiverOK, RecoveryOK
<1> QED
  BY <1>1, <1>3, <1>7, <1>8

LEMMA SetEndpointStep ==
  ASSUME IInv, NEW url \in URLs, SetEndpointFromConnURL(url)
  PROVE  IInv'
<1>1. PICK found \in Lookup(url.resolved) : Resume(Program(found, url.usable))
  BY DEF SetEndpointFromConnURL
<1>2. /\ pc[Setter] = "idle"
      /\ UNCHANGED <<setting, up, mem, activeAF, failed, udpFailed, recovering, readers, writer, fell, via>>
  BY DEF SetEndpointFromConnURL, atomics
<1>3. found \in SUBSET Families
  <2>1. url.resolved \in SUBSET Families
    BY EndpointAssumption
  <2> QED
    BY <2>1 DEF Lookup
<1> DEFINE rest == Program(found, url.usable)
<1>4. rest \in Seq(Sections)
  BY <1>3, ProgramType DEF IInv, Fields
<1> HIDE DEF rest
<1>5. Resume(rest)
  BY <1>1 DEF rest
<1>6. /\ pc' = [pc EXCEPT ![Setter] = Where(rest)] /\ todo' = [todo EXCEPT ![Setter] = rest]
      /\ Where(rest) \in Places \ {"locking"}
      /\ SetterOK' /\ ReceiverOK' /\ RecoveryOK'
  BY <1>2, <1>4, <1>5, ResumeFacts
<1>7. Locks'
  BY <1>2, <1>6, ActorFacts, LockKept, Zenon DEF IInv
<1>8. Fields'
  BY <1>2, SameFields DEF IInv
<1> QED
  BY <1>2, <1>6, <1>7, <1>8, OthersMove, Zenon

LEMMA StoreActiveStep ==
  ASSUME IInv, StoreActive
  PROVE  IInv'
<1>1. /\ pc[Setter] = "active"
      /\ UNCHANGED <<setting, up, mem, failed, udpFailed, recovering, readers, writer, fell, via>>
  BY DEF StoreActive
<1>2. todo[Setter] \in Seq(Sections) /\ todo[Setter] # <<>>
  BY <1>1 DEF IInv, SetterOK
<1>3. Head(todo[Setter]) \in Sections /\ Tail(todo[Setter]) \in Seq(Sections)
  BY <1>2
<1>4. \E rest \in Seq(Sections) : Resume(rest)
  <2>1. <<>> \in Seq(Sections)
    OBVIOUS
  <2> QED
    BY <1>3, <2>1, Zenon DEF StoreActive
<1>5. activeAF' \in Endpoint
  <2>1. Head(todo[Setter]).slot \in Endpoint
    BY <1>3 DEF Sections, Endpoint
  <2>2. activeAF' = activeAF \/ activeAF' = Head(todo[Setter]).slot
    BY DEF StoreActive
  <2> QED
    BY <2>1, <2>2 DEF IInv, Fields
<1>6. PICK rest \in Seq(Sections) : Resume(rest)
  BY <1>4
<1>7. /\ pc' = [pc EXCEPT ![Setter] = Where(rest)] /\ todo' = [todo EXCEPT ![Setter] = rest]
      /\ Where(rest) \in Places \ {"locking"}
      /\ SetterOK' /\ ReceiverOK' /\ RecoveryOK'
  BY <1>1, <1>6, ResumeFacts
<1>8. Locks'
  BY <1>1, <1>7, ActorFacts, LockKept, Zenon DEF IInv
<1>9. Fields'
  BY <1>1, <1>5 DEF IInv, Fields, Dual
<1> QED
  BY <1>1, <1>7, <1>8, <1>9, OthersMove, Zenon

\* What a critical section may do to the fields.
LEMMA PointAtType ==
  ASSUME mem \in Memory, NEW f \in Families
  PROVE  PointAt(f) \in Memory /\ PointAt(f).ep = mem.ep
BY Zenon DEF PointAt, Memory

LEMMA RunSectionStep ==
  ASSUME IInv, RunSection
  PROVE  IInv'
<1> DEFINE c == Head(todo[Setter])
<1>1. /\ pc[Setter] = "locking" /\ writer' = Nil /\ Resume(Tail(todo[Setter]))
      /\ UNCHANGED <<setting, up, udpFailed, recovering, readers, fell, via>>
  BY DEF RunSection, Locked
<1>2. todo[Setter] \in Seq(Sections) /\ todo[Setter] # <<>> /\ c.op # "active"
  BY <1>1 DEF IInv, SetterOK
<1>3. c \in Sections /\ Tail(todo[Setter]) \in Seq(Sections)
  BY <1>2
<1>4. c.op \in {"ep", "tcp", "legacy"} /\ c.slot \in Families /\ c.family \in Families
      /\ (Dual => c.slot = c.family)
  BY <1>2, <1>3 DEF Sections
<1>5. mem \in Memory /\ failed \in [Families -> BOOLEAN] /\ activeAF \in Endpoint
  BY DEF IInv, Fields
<1>6. /\ mem' \in Memory /\ failed' \in [Families -> BOOLEAN] /\ activeAF' \in Endpoint
      /\ \A f \in Families : failed'[f] => failed[f]
      /\ \A f \in Families : mem'.ep[f] = mem.ep[f] \/ (mem'.ep[f] = c.family /\ f = c.slot)
  <2>1. CASE c.op = "ep"
    <3>1. /\ mem' = [mem EXCEPT !.ep[c.slot] = c.family]
          /\ failed' = [failed EXCEPT ![c.slot] = FALSE] /\ activeAF' = activeAF
      BY <2>1, Zenon DEF RunSection
    <3> HIDE DEF c
    <3>2. mem' \in Memory
      BY <1>4, <1>5, <3>1 DEF Memory, Endpoint
    <3>3. \A f \in Families : mem'.ep[f] = mem.ep[f] \/ (mem'.ep[f] = c.family /\ f = c.slot)
      BY <1>4, <1>5, <3>1 DEF Memory
    <3>4. failed' \in [Families -> BOOLEAN] /\ \A f \in Families : failed'[f] => failed[f]
      BY <1>4, <1>5, <3>1
    <3> QED
      BY <1>5, <3>1, <3>2, <3>3, <3>4
  <2>2. CASE c.op = "tcp"
    <3>1. mem' = [mem EXCEPT !.tcpEp[c.slot] = c.family] /\ failed' = failed /\ activeAF' = activeAF
      BY <2>2, Zenon DEF RunSection
    <3> HIDE DEF c
    <3>2. mem' \in Memory /\ mem'.ep = mem.ep
      BY <1>4, <1>5, <3>1 DEF Memory, Endpoint
    <3> QED
      BY <1>5, <3>1, <3>2
  <2>3. CASE c.op = "legacy"
    <3>1. /\ mem' = PointAt(LegacyAF(c.slot)) /\ failed' = failed
          /\ activeAF' = IF c.slot = "v4" /\ mem.ep["v4"] = Nil THEN "v6" ELSE activeAF
      BY <2>3, Zenon DEF RunSection
    <3> HIDE DEF c
    <3>2. LegacyAF(c.slot) \in Families
      <4>1. \E f \in Families : f # c.slot
        BY DEF Families
      <4> QED
        BY <1>4, <4>1 DEF LegacyAF
    <3>3. mem' \in Memory /\ mem'.ep = mem.ep
      BY <1>5, <3>1, <3>2, PointAtType
    <3>4. activeAF' \in Endpoint
      BY <1>5, <3>1 DEF Endpoint, Families
    <3> QED
      BY <1>5, <3>1, <3>3, <3>4
  <2> QED
    BY <1>4, <2>1, <2>2, <2>3
<1> HIDE DEF c
<1>7. Fields'
  BY <1>1, <1>4, <1>6, Zenon DEF IInv, Fields, Dual
<1>8. /\ pc' = [pc EXCEPT ![Setter] = Where(Tail(todo[Setter]))]
      /\ todo' = [todo EXCEPT ![Setter] = Tail(todo[Setter])]
      /\ Where(Tail(todo[Setter])) \in Places \ {"locking"}
      /\ SetterOK' /\ ReceiverOK' /\ RecoveryOK'
  BY <1>1, <1>3, ResumeFacts, Zenon
<1>9. Locks'
  BY <1>1, <1>8, ActorFacts, LockReleased, Zenon DEF IInv
<1>10. \A f \in Families : mem.ep[f] # Nil => mem'.ep[f] # Nil
  BY <1>4, <1>6 DEF Families, Nil
<1> QED
  BY <1>1, <1>7, <1>8, <1>9, <1>10, OthersMove, Zenon

\* SetEndpointFromPacket, before and after it has the lock.
LEMMA ReceiverStep ==
  ASSUME IInv, Roam \/ \E f \in Families : SetEndpointFromPacket(f)
  PROVE  IInv'
<1>0. pc \in [Actors -> Places] /\ DOMAIN todo = Actors
  BY DEF IInv, Locks
<1>1. CASE Roam
  <2>1. /\ pc[Receiver] = "locking" /\ mem' = [mem EXCEPT !.endpoint = Head(todo[Receiver])]
        /\ writer' = Nil /\ pc' = [pc EXCEPT ![Receiver] = "idle"] /\ todo' = [todo EXCEPT ![Receiver] = <<>>]
        /\ UNCHANGED <<setting, up, activeAF, failed, udpFailed, recovering, readers, fell, via>>
    BY <1>1 DEF Roam, Locked, Goto, atomics
  <2>2. Head(todo[Receiver]) \in Endpoint
    BY <2>1 DEF IInv, ReceiverOK, Endpoint
  <2>3. mem' \in Memory /\ mem'.ep = mem.ep
    BY <2>1, <2>2 DEF IInv, Fields, Memory
  <2>4. Fields'
    BY <2>1, <2>3 DEF IInv, Fields, Dual
  <2>5. Locks'
    BY <2>1, ActorFacts, LockReleased, Zenon DEF IInv, Places
  <2>6. pc'[Receiver] = "idle" /\ pc'[Setter] = pc[Setter] /\ todo'[Setter] = todo[Setter] /\ pc'[Recovery] = pc[Recovery]
    BY <1>0, <2>1, ActorFacts
  <2>7. SetterOK'
    BY <2>1, <2>6, OtherSetter DEF IInv
  <2>8. ReceiverOK' /\ RecoveryOK'
    BY <2>6 DEF IInv, ReceiverOK, RecoveryOK
  <2> QED
    BY <2>1, <2>3, <2>4, <2>5, <2>7, <2>8, OthersMove, Zenon
<1>2. ASSUME NEW f \in Families, SetEndpointFromPacket(f) PROVE IInv'
  <2>1. /\ pc[Receiver] = "idle"
        /\ pc' = [pc EXCEPT ![Receiver] = "lock"] /\ todo' = [todo EXCEPT ![Receiver] = <<f>>]
        /\ UNCHANGED <<setting, up, mem, activeAF, failed, udpFailed, recovering, readers, writer, fell, via>>
    BY <1>2, Zenon DEF SetEndpointFromPacket, Goto, atomics
  <2>2. Fields'
    BY <2>1, SameFields DEF IInv
  <2>3. Locks'
    BY <2>1, ActorFacts, LockKept, Zenon DEF IInv, Places
  <2>4. /\ pc'[Receiver] = "lock" /\ todo'[Receiver] = <<f>>
        /\ pc'[Setter] = pc[Setter] /\ todo'[Setter] = todo[Setter] /\ pc'[Recovery] = pc[Recovery]
    BY <1>0, <2>1, ActorFacts
  <2>5. SetterOK'
    BY <2>1, <2>4, OtherSetter DEF IInv
  <2>6. ReceiverOK' /\ RecoveryOK'
    BY <2>4 DEF IInv, ReceiverOK, RecoveryOK
  <2> QED
    BY <2>1, <2>2, <2>3, <2>5, <2>6, OthersMove, Zenon
<1> QED
  BY <1>1, <1>2

\* RoutineIPv6Recovery: the failback, the timer and the critical section.
LEMMA RecoveryStep ==
  ASSUME IInv, Failback \/ Timer \/ Repoint(Recovery)
  PROVE  IInv'
<1>0. pc \in [Actors -> Places] /\ DOMAIN todo = Actors
  BY Zenon DEF IInv, Locks
<1>1. CASE Timer
  <2>1. UNCHANGED <<setting, up, mem, activeAF, failed, udpFailed, readers, writer, pc, todo, fell, via>>
    BY <1>1 DEF Timer
  <2>2. recovering' \in BOOLEAN
    BY <1>1 DEF Timer
  <2>3. Fields'
    BY <2>1, <2>2 DEF IInv, Fields, Dual
  <2> QED
    BY <2>1, <2>3, NobodyMoves
<1>2. ASSUME NEW where \in {"lock", "idle"}, pc' = [pc EXCEPT ![Recovery] = where],
             todo' = [todo EXCEPT ![Recovery] = <<>>], setting' = setting
      PROVE  SetterOK' /\ ReceiverOK' /\ RecoveryOK'
  <2>1. /\ pc'[Recovery] = where /\ pc'[Setter] = pc[Setter] /\ todo'[Setter] = todo[Setter]
        /\ pc'[Receiver] = pc[Receiver] /\ todo'[Receiver] = todo[Receiver]
    BY <1>0, <1>2, ActorFacts
  <2>2. SetterOK'
    BY <1>2, <2>1, OtherSetter DEF IInv
  <2> QED
    BY <2>1, <2>2 DEF IInv, ReceiverOK, RecoveryOK
<1>3. CASE Failback
  <2>1. /\ pc[Recovery] = "idle" /\ activeAF' = "v6"
        /\ pc' = [pc EXCEPT ![Recovery] = "lock"] /\ todo' = [todo EXCEPT ![Recovery] = <<>>]
        /\ UNCHANGED <<setting, up, mem, failed, udpFailed, recovering, readers, writer, fell, via>>
    BY <1>3 DEF Failback, Goto
  <2>2. Fields'
    BY <2>1 DEF IInv, Fields, Dual, Endpoint, Families
  <2>3. Locks'
    BY <2>1, ActorFacts, LockKept, Zenon DEF IInv, Places
  <2> QED
    BY <1>2, <2>1, <2>2, <2>3, OthersMove, Zenon
<1>4. CASE Repoint(Recovery)
  <2>1. /\ pc[Recovery] = "locking" /\ mem' = PointAt("v6") /\ writer' = Nil
        /\ pc' = [pc EXCEPT ![Recovery] = "idle"] /\ todo' = [todo EXCEPT ![Recovery] = <<>>]
        /\ UNCHANGED <<setting, up, activeAF, failed, udpFailed, readers, fell, via>>
    BY <1>4 DEF Repoint, Locked, Goto
  <2>2. recovering' \in BOOLEAN
    BY <1>4 DEF Repoint
  <2>3. mem' \in Memory /\ mem'.ep = mem.ep
    BY <2>1, PointAtType DEF IInv, Fields, Families
  <2>4. Fields'
    BY <2>1, <2>2, <2>3 DEF IInv, Fields, Dual
  <2>5. Locks'
    BY <2>1, ActorFacts, LockReleased, Zenon DEF IInv, Places
  <2> QED
    BY <1>2, <2>1, <2>3, <2>4, <2>5, OthersMove, Zenon
<1> QED
  BY <1>1, <1>3, <1>4

LEMMA NextStep == IInv /\ [Next]_vars => IInv'
<1> SUFFICES ASSUME IInv, [Next]_vars PROVE IInv'
  OBVIOUS
<1>1. CASE UNCHANGED vars
  <2>1. /\ UNCHANGED <<setting, mem, pc, todo, via, readers, writer>> /\ fell \subseteq fell'
        /\ UNCHANGED <<setting, up, fell, mem, activeAF, failed, udpFailed, recovering>>
    BY <1>1 DEF vars
  <2> QED
    BY <2>1, SameFields, NobodyMoves DEF IInv
<1>2. ASSUME NEW c \in Channels, GoDown(c) \/ ComeBack(c) PROVE IInv'
  BY <1>2, NetworkStep
<1>3. ASSUME NEW a \in Actors, Announce(a) PROVE IInv'
  BY <1>3, AnnounceStep
<1>4. ASSUME NEW s \in Senders, SendBuffer(s) \/ SenderStep(s) PROVE IInv'
  BY <1>4, SendBufferStep, TryStep, SentStep, RefusedStep DEF SenderStep
<1>5. ASSUME NEW url \in URLs, SetEndpointFromConnURL(url) PROVE IInv'
  BY <1>5, SetEndpointStep
<1>6. CASE StoreActive \/ RunSection
  BY <1>6, StoreActiveStep, RunSectionStep
<1>7. CASE Roam \/ \E f \in Families : SetEndpointFromPacket(f)
  BY <1>7, ReceiverStep
<1>8. CASE Failback \/ Timer
  BY <1>8, RecoveryStep
<1>9. ASSUME NEW a \in Senders \cup {Recovery}, Repoint(a) PROVE IInv'
  <2>1. CASE a \in Senders
    BY <1>9, <2>1, SenderNeverLocked DEF Repoint, IInv
  <2>2. CASE a = Recovery
    BY <1>9, <2>2, RecoveryStep
  <2> QED
    BY <2>1, <2>2, Zenon
<1> QED
  BY <1>1, <1>2, <1>3, <1>4, <1>5, <1>6, <1>7, <1>8, <1>9 DEF Next

-----------------------------------------------------------------------------
(* The theorems *)

\* The fields, the lock and every goroutine inside SendBuffer, SetEndpointFromConnURL,
\* SetEndpointFromPacket and RoutineIPv6Recovery agree with each other at every step.
THEOREM EndpointInvariant == Spec => []IInv
BY InitStep, NextStep, PTL DEF Spec

\* Every field keeps its type, the readers of the lock are exactly the senders
\* inside SendBuffer, and at most one goroutine waits with Lock() announced.
THEOREM TypeCorrect == Spec => []TypeOK
<1>1. IInv => TypeOK
  BY DEF IInv, Fields, Locks, TypeOK, Memory, Endpoint
<1> QED
  BY <1>1, EndpointInvariant, PTL

\* With both families known, SendBuffer leaves a packet to FakeTCP, or gives it
\* up, only after each family of UDP has had an outage.
THEOREM UDPBeforeFakeTCP == Spec => []UDPFirst
<1>1. IInv => UDPFirst
  BY DEF IInv, SenderOK, UDPFirst
<1> QED
  BY <1>1, EndpointInvariant, PTL

\* The goroutines that use the peer's lock are never all waiting for it, except
\* behind a sender that waits in tryIPv6Send for its own read lock.
THEOREM LockIsLive == Spec => []NeverStuck
<1>1. IInv => NeverStuck
  <2> DEFINE Runs(a) == \/ pc[a] \in {"send", "sent", "refused", "active"}
                        \/ pc[a] = "lock" /\ writer = Nil
                        \/ Locked(a)
             WaitsForItself(s) == s \in readers /\ pc[s] \in {"lock", "locking"}
  <2> SUFFICES ASSUME IInv, NEW a \in Actors, pc[a] # "idle",
                      \A s \in Senders : ~WaitsForItself(s)
               PROVE  \E b \in Actors : Runs(b)
    BY DEF NeverStuck
  <2>1. pc[a] \in Places
    BY DEF IInv, Locks
  <2>2. CASE \E s \in Senders : pc[s] # "idle"
    <3>1. PICK s \in Senders : pc[s] # "idle"
      BY <2>2
    <3>2. s \in Actors /\ s \in readers /\ pc[s] \in Places
      BY <3>1, ActorFacts DEF IInv, Locks
    <3>3. pc[s] \in {"send", "sent", "refused", "active"}
      BY <3>1, <3>2 DEF Places
    <3> QED
      BY <3>2, <3>3
  <2>3. CASE \A s \in Senders : pc[s] = "idle"
    <3>1. readers = {}
      BY <2>3 DEF IInv, Locks
    <3>2. CASE writer = Nil
      <4>1. pc[a] # "locking"
        BY <3>2, ActorFacts DEF IInv, Locks
      <4> QED
        BY <2>1, <3>2, <4>1 DEF Places
    <3>3. CASE writer # Nil
      <4>1. writer \in Actors /\ pc[writer] = "locking"
        BY <3>3 DEF IInv, Locks
      <4> QED
        BY <3>1, <4>1 DEF Locked
    <3> QED
      BY <3>2, <3>3
  <2> QED
    BY <2>2, <2>3
<1> QED
  BY <1>1, EndpointInvariant, PTL

\* A sender inside tryIPv6Send that waits for the write lock.
AsksForLock(s) == pc[s] \in {"lock", "locking"}

StaysWaiting == \A s \in Senders : AsksForLock(s) => AsksForLock(s)'

\* A sender whose IPv6 send was refused, and that asks for the write lock to
\* switch the peer to IPv4 while it has the read lock, never gets out of
\* tryIPv6Send: no step of any goroutine lets it go on.
THEOREM FailoverNeverReturns == Spec => [][StaysWaiting]_vars
<1>1. ASSUME IInv, Next, NEW s \in Senders, AsksForLock(s) PROVE AsksForLock(s)'
  <2>1. s \in Actors /\ pc \in [Actors -> Places] /\ ~Locked(s)
    BY <1>1, ActorFacts, SenderNeverLocked DEF IInv, Locks
  <2>2. ASSUME NEW c \in Channels, GoDown(c) \/ ComeBack(c) PROVE AsksForLock(s)'
    BY <1>1, <2>2 DEF AsksForLock, GoDown, ComeBack
  <2>3. ASSUME NEW a \in Actors, Announce(a) PROVE AsksForLock(s)'
    BY <1>1, <2>1, <2>3 DEF AsksForLock, Announce
  <2>4. ASSUME NEW u \in Senders, SendBuffer(u) \/ SenderStep(u) PROVE AsksForLock(s)'
    <3>1. u # s /\ \E where : pc' = [pc EXCEPT ![u] = where]
      BY <1>1, <2>4 DEF AsksForLock, SendBuffer, SenderStep, PassOver, Attempt, Sent, Refused, GiveUp, Goto
    <3> QED
      BY <1>1, <2>1, <3>1 DEF AsksForLock
  <2>5. ASSUME NEW a \in {Setter, Receiver, Recovery}, NEW where, NEW rest, Goto(a, where, rest)
        PROVE  AsksForLock(s)'
    BY <1>1, <2>1, <2>5, ActorFacts DEF AsksForLock, Goto
  <2>6. ASSUME NEW url \in URLs, SetEndpointFromConnURL(url) PROVE AsksForLock(s)'
    BY <2>5, <2>6 DEF SetEndpointFromConnURL, Resume
  <2>7. CASE StoreActive \/ RunSection
    BY <2>5, <2>7, Zenon DEF StoreActive, RunSection, Resume
  <2>8. CASE Roam \/ Failback \/ \E f \in Families : SetEndpointFromPacket(f)
    BY <2>5, <2>8, Zenon DEF Roam, Failback, SetEndpointFromPacket
  <2>9. CASE Timer
    BY <1>1, <2>9 DEF AsksForLock, Timer
  <2>10. ASSUME NEW a \in Senders \cup {Recovery}, Repoint(a) PROVE AsksForLock(s)'
    <3>1. a \notin Senders
      BY <1>1, <2>10, SenderNeverLocked DEF Repoint, IInv
    <3> QED
      BY <2>5, <2>10, <3>1 DEF Repoint
  <2> QED
    BY <1>1, <2>2, <2>3, <2>4, <2>6, <2>7, <2>8, <2>9, <2>10 DEF Next
<1>2. IInv /\ [Next]_vars => [StaysWaiting]_vars
  BY <1>1 DEF StaysWaiting
<1> QED
  BY <1>2, EndpointInvariant, PTL DEF Spec
=============================================================================
