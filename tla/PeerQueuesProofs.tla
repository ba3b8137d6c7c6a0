--------------------------- MODULE PeerQueuesProofs ---------------------------
(***************************************************************************)
(* Proofs about PeerQueues, for any number of keys, packets and calls.     *)
(*                                                                         *)
(* NInv is the inductive invariant of the keys and their nonces: an        *)
(* element in flight has a nonce below the counter of its key, and the     *)
(* counter is beyond RejectAfterMessages by no more than the threads that  *)
(* have overdrawn it and not yet set it back, so it never wraps around.    *)
(* LInv is that of Start and Stop: what the timers and the receiver do is  *)
(* done while the peer runs or Stop waits for them.                        *)
(***************************************************************************)
EXTENDS PeerQueues, TLAPS

-----------------------------------------------------------------------------
(* The invariants *)

Elem == [id : Nat, key : Nat, nonce : Nat]

\* A thread inside the loop of SendStagedPackets that uses a key, and every other place.
Busy == {"take", "over", "check", "queue"}
Resting == {"idle", "gone", "top", "again", "heard", "frame", "lookup"}
State == [pc : Resting \cup Busy, key : Nat \cup {Nil}, elem : Elem \cup {Nil}]

\* An element that was given a nonce of its own.
Numbered(e) ==
  /\ e \in Elem /\ e.id <= scenario.packets /\ e.key \in DOMAIN sendNonce
  /\ e.nonce < sendNonce[e.key] /\ e.nonce < RejectAfterMessages

\* The number of threads that have overdrawn key k.
Over1(t, k) == IF thread[t].pc = "over" /\ thread[t].key = k THEN 1 ELSE 0
Overs(k) == Over1("packet", k) + Over1("timer", k) + Over1("worker", k) + Over1("receiver", k)

ThreadInv(t) ==
  /\ thread[t].pc \in Busy => t \in Senders /\ thread[t].key \in DOMAIN sendNonce
  /\ thread[t].pc = "over" => thread[t].elem \in Elem /\ thread[t].elem.id <= scenario.packets
  /\ thread[t].pc \in {"check", "queue"} => Numbered(thread[t].elem)

StagedInv == staged \in Seq(0..scenario.packets) /\ Len(staged) <= QueueStagedSize

KeysInv ==
  /\ sendNonce \in Seq(Nat)
  /\ current \in KeyOrNil /\ offered \in KeyOrNil

ThreadsInv ==
  /\ thread \in [Threads -> State]
  /\ \A t \in Threads : ThreadInv(t)

QueuesInv ==
  /\ \A e \in crypting : Numbered(e)
  /\ outbound \in Seq(Elem \cup {Nil})
  /\ \A i \in 1..Len(outbound) : outbound[i] = Nil \/ Numbered(outbound[i])

CountersInv ==
  \A k \in DOMAIN sendNonce : sendNonce[k] <= RejectAfterMessages + Overs(k)

CountInv ==
  /\ scenario \in Scenarios
  /\ count \in [packets : Nat, data : Nat, offers : Nat, expiries : Nat]
  /\ count.packets <= scenario.packets

NInv == CountInv /\ StagedInv /\ KeysInv /\ ThreadsInv /\ QueuesInv /\ CountersInv

PlainInv ==
  /\ dev \in {"down", "up", "closed"} /\ isRunning \in BOOLEAN
  /\ age \in 0..2 /\ attempts \in 0..MaxTimerHandshakes + 1
  /\ refs \subseteq {"device", "tun", "worker", "peer"}

\* Stop is between isRunning.Swap(false) and the return of its waits.
Stopping(c) == caller[c].pc \in {"timers", "nil", "wait"}
Callers == {"main", "api"}
Lives == isRunning \/ \E c \in Callers : Stopping(c)

CallOps == {"none", "up", "down", "closed", "remove"}
CallPcs ==
  {"idle", "start", "rlock", "lock", "stop", "timers", "nil", "wait", "stopped", "removeAll", "ends"}
CallState == [op : CallOps, pc : CallPcs]

CallersInv ==
  /\ caller \in [Callers -> CallState]
  /\ ~ (Holds("main") /\ Holds("api"))
  /\ \A c \in Callers : Stopping(c) => ~ isRunning

TimerInv ==
  \/ At("timer", "idle") /\ "sendKeepalive" \notin pending
  \/ isRunning
  \/ \E c \in Callers : caller[c].pc = "timers"

RefsInv ==
  /\ Lives => "peer" \in refs
  /\ ~ At("receiver", "gone") => Lives
  /\ ~ At("worker", "gone") => "worker" \in refs

LInv == CallersInv /\ TimerInv /\ RefsInv

-----------------------------------------------------------------------------
(* Facts about single variables *)

LEMMA Constants ==
    ASSUME QueueAssumption
    PROVE  /\ QueueStagedSize \in Nat /\ QueueStagedSize > 0
           /\ RejectAfterMessages \in Nat /\ MaxTimerHandshakes \in Nat /\ Word \in Nat
           /\ RejectAfterMessages + 4 < Word
  BY DEF QueueAssumption

LEMMA PacketsNat ==
    ASSUME QueueAssumption, scenario \in Scenarios
    PROVE  scenario.packets \in Nat
  BY DEF QueueAssumption

LEMMA HeadTail ==
    ASSUME NEW S, NEW q \in Seq(S), q # <<>>
    PROVE  Head(q) \in S /\ Tail(q) \in Seq(S) /\ Len(Tail(q)) = Len(q) - 1
  OBVIOUS

LEMMA ItemOf ==
    ASSUME NEW S, NEW q \in Seq(S), NEW i \in DOMAIN q
    PROVE  q[i] \in S
  OBVIOUS

LEMMA SeqOf ==
    ASSUME NEW S, NEW n \in Nat, NEW f \in [1..n -> S]
    PROVE  f \in Seq(S)
  OBVIOUS

\* The threads and the places named in the model.
LEMMA ThreadNames ==
    /\ "packet" \in Threads /\ "timer" \in Threads /\ "worker" \in Threads
    /\ "receiver" \in Threads /\ "sender" \in Threads
  BY DEF Threads, Senders

LEMMA RestingNames ==
    /\ "idle" \in Resting /\ "gone" \in Resting /\ "top" \in Resting /\ "again" \in Resting
    /\ "heard" \in Resting /\ "frame" \in Resting /\ "lookup" \in Resting
  BY DEF Resting

\* Goto leaves the thread without a key and without an element.
LEMMA Goes ==
    ASSUME ThreadsInv, NEW t \in Threads, NEW pc \in Resting, Goto(t, pc)
    PROVE  /\ thread' \in [Threads -> State]
           /\ thread'[t].pc = pc
           /\ \A u \in Threads : u # t => thread'[u] = thread[u]
<1>1. [Idle EXCEPT !.pc = pc] \in State /\ [Idle EXCEPT !.pc = pc].pc = pc
  BY DEF Idle, State
<1> DEFINE s == [Idle EXCEPT !.pc = pc]
<1>2. thread' = [thread EXCEPT ![t] = s]
  BY DEF Goto
<1> HIDE DEF s
<1> QED BY <1>1, <1>2 DEF ThreadsInv, s

\* The counters go up, or to RejectAfterMessages or beyond.
Advances ==
  /\ DOMAIN sendNonce \subseteq DOMAIN sendNonce'
  /\ \A k \in DOMAIN sendNonce :
        sendNonce'[k] >= sendNonce[k] \/ sendNonce'[k] >= RejectAfterMessages

\* An element keeps its nonce for itself while the counters advance.
LEMMA NumberedStays ==
    ASSUME QueueAssumption, KeysInv, KeysInv', Advances, scenario' = scenario
    PROVE  \A e : Numbered(e) => Numbered(e)'
<1> SUFFICES ASSUME NEW e, Numbered(e)
             PROVE  Numbered(e)'
  OBVIOUS
<1>1. e \in Elem /\ e.id <= scenario.packets /\ e.key \in DOMAIN sendNonce
      /\ e.nonce < sendNonce[e.key] /\ e.nonce < RejectAfterMessages
  BY DEF Numbered
<1>2. PICK k \in DOMAIN sendNonce : k = e.key
  BY <1>1
<1>3. sendNonce[k] \in Nat /\ sendNonce'[k] \in Nat /\ k \in DOMAIN sendNonce'
  <2>1. k \in DOMAIN sendNonce'
    BY Zenon DEF Advances
  <2>2. sendNonce \in Seq(Nat) /\ sendNonce' \in Seq(Nat)
    BY DEF KeysInv
  <2> QED BY <2>1, <2>2, ItemOf, Zenon
<1>4. e.nonce \in Nat
  BY <1>1 DEF Elem
<1>5. e.nonce < sendNonce'[k]
  BY <1>1, <1>2, <1>3, <1>4, Constants DEF Advances
<1> QED BY <1>1, <1>2, <1>3, <1>5 DEF Numbered

LEMMA AtMostFour ==
    ASSUME NEW k
    PROVE  Overs(k) \in 0..4
  BY DEF Overs, Over1

LEMMA OversNat == \A k : Overs(k) \in Nat
<1> SUFFICES ASSUME NEW k PROVE Overs(k) \in Nat
  OBVIOUS
<1> QED BY AtMostFour

-----------------------------------------------------------------------------
(* Steps outside the loop of SendStagedPackets *)

\* No thread enters, leaves or moves inside the loop.
ThreadsQuiet ==
  /\ thread' \in [Threads -> State]
  /\ \A t \in Threads :
        thread'[t] = thread[t] \/ (thread[t].pc \notin Busy /\ thread'[t].pc \notin Busy)

\* Keys are at most added.
KeyAdded == sendNonce' = Append(sendNonce, 0)
NoncesQuiet == sendNonce' = sendNonce \/ KeyAdded

Quiet == scenario' = scenario /\ NoncesQuiet /\ ThreadsQuiet

LEMMA KeysAdded ==
    ASSUME QueueAssumption, KeysInv, NoncesQuiet
    PROVE  /\ Advances
           /\ sendNonce' \in Seq(Nat)
           /\ \A k \in DOMAIN sendNonce : sendNonce'[k] = sendNonce[k]
           /\ \A k \in DOMAIN sendNonce' : k \in DOMAIN sendNonce \/ sendNonce'[k] = 0
<1>1. sendNonce \in Seq(Nat)
  BY DEF KeysInv
<1>2. \A k \in DOMAIN sendNonce : sendNonce[k] \in Nat
  BY <1>1
<1>3. CASE sendNonce' = sendNonce
  BY <1>1, <1>2, <1>3 DEF Advances
<1>4. CASE KeyAdded
  <2>1. /\ sendNonce' \in Seq(Nat)
        /\ DOMAIN sendNonce = 1..Len(sendNonce)
        /\ DOMAIN sendNonce' = 1..Len(sendNonce) + 1
        /\ \A k \in 1..Len(sendNonce) : sendNonce'[k] = sendNonce[k]
        /\ sendNonce'[Len(sendNonce) + 1] = 0
    BY <1>1, <1>4 DEF KeyAdded
  <2>2. Len(sendNonce) \in Nat
    BY <1>1
  <2>3. \A k \in 1..Len(sendNonce) : sendNonce'[k] >= sendNonce[k]
    BY <1>2, <2>1
  <2>4. DOMAIN sendNonce \subseteq DOMAIN sendNonce'
    BY <2>1, <2>2
  <2>5. Advances
    BY <2>1, <2>3, <2>4, Zenon DEF Advances
  <2>6. \A k \in 1..Len(sendNonce) + 1 : k \in 1..Len(sendNonce) \/ k = Len(sendNonce) + 1
    BY <2>2
  <2> QED BY <2>1, <2>5, <2>6, Zenon
<1> QED BY <1>3, <1>4 DEF NoncesQuiet

LEMMA QuietThreads ==
    ASSUME QueueAssumption, ThreadsInv, KeysInv, KeysInv', CountersInv, Quiet
    PROVE  Advances /\ ThreadsInv' /\ CountersInv'
<1>1. /\ Advances
      /\ \A k \in DOMAIN sendNonce : sendNonce'[k] = sendNonce[k]
      /\ \A k \in DOMAIN sendNonce' : k \in DOMAIN sendNonce \/ sendNonce'[k] = 0
  BY KeysAdded DEF Quiet
<1>2. \A e : Numbered(e) => Numbered(e)'
  BY <1>1, NumberedStays DEF Quiet
<1>3. ASSUME NEW t \in Threads
      PROVE  ThreadInv(t)'
  <2>1. ThreadInv(t)
    BY DEF ThreadsInv
  <2>2. CASE thread'[t] = thread[t]
    <3>1. DOMAIN sendNonce \subseteq DOMAIN sendNonce' /\ scenario' = scenario
      BY <1>1 DEF Advances, Quiet
    <3> QED BY <1>2, <2>1, <2>2, <3>1 DEF ThreadInv
  <2>3. CASE thread'[t].pc \notin Busy
    BY <2>3 DEF ThreadInv, Busy
  <2> QED BY <2>2, <2>3 DEF Quiet, ThreadsQuiet
<1>4. \A k : Overs(k)' = Overs(k)
  <2>1. ASSUME NEW t \in Threads
        PROVE  \A k : Over1(t, k)' = Over1(t, k)
    BY DEF Over1, Quiet, ThreadsQuiet, Busy
  <2> QED BY <2>1, ThreadNames DEF Overs
<1>5. ASSUME NEW k \in DOMAIN sendNonce'
      PROVE  sendNonce'[k] <= RejectAfterMessages + Overs(k)'
  <2>1. Overs(k) \in Nat
    BY OversNat, Zenon
  <2>2. CASE k \in DOMAIN sendNonce
    BY <1>1, <1>4, <2>2 DEF CountersInv
  <2>3. CASE sendNonce'[k] = 0
    BY <1>4, <2>1, <2>3, Constants
  <2> QED BY <1>1, <2>2, <2>3
<1>6. ThreadsInv'
  BY <1>3 DEF ThreadsInv, Quiet, ThreadsQuiet
<1>7. CountersInv'
  BY <1>5 DEF CountersInv
<1> QED BY <1>1, <1>6, <1>7

\* What waits in the queues behind the loop keeps its nonce.
LEMMA QueuesStay ==
    ASSUME QueueAssumption, QueuesInv, KeysInv, KeysInv', Advances, scenario' = scenario,
           crypting' \subseteq crypting,
           outbound' \in Seq(Elem \cup {Nil}),
           \A i \in 1..Len(outbound') :
              outbound'[i] = Nil \/ \E j \in 1..Len(outbound) : outbound'[i] = outbound[j]
    PROVE  QueuesInv'
<1>1. \A e : Numbered(e) => Numbered(e)'
  BY NumberedStays
<1>2. \A e \in crypting' : Numbered(e)'
  BY <1>1 DEF QueuesInv
<1>3. (\A i \in 1..Len(outbound) : outbound[i] = Nil \/ Numbered(outbound[i]))'
  <2> SUFFICES ASSUME NEW i \in 1..Len(outbound')
               PROVE  (outbound[i] = Nil \/ Numbered(outbound[i]))'
    OBVIOUS
  <2>1. CASE outbound'[i] = Nil
    BY <2>1
  <2>2. CASE \E j \in 1..Len(outbound) : outbound'[i] = outbound[j]
    <3>1. PICK j \in 1..Len(outbound) : outbound'[i] = outbound[j]
      BY <2>2
    <3>2. PICK e : e = outbound[j]
      OBVIOUS
    <3>3. e = Nil \/ Numbered(e)
      BY <3>2 DEF QueuesInv
    <3>4. e = Nil \/ Numbered(e)'
      BY <1>1, <3>3
    <3> QED BY <3>1, <3>2, <3>4 DEF Numbered
  <2> QED BY <2>1, <2>2
<1> QED BY <1>2, <1>3 DEF QueuesInv

StagedStep ==
  \/ staged' = staged \/ staged' = <<>>
  \/ staged = <<>> /\ staged' = <<0>>
  \/ \E id \in 0..scenario.packets : staged' = StagePacket(id)

KeysStep ==
  \A k \in {current', offered'} :
     k \in {current, offered, Nil} \/ (KeyAdded /\ k = NewKey)

QueuesStep ==
  /\ crypting' \subseteq crypting
  /\ \/ outbound' = outbound \/ outbound' = <<>> \/ outbound' = Signal(outbound)
     \/ outbound # <<>> /\ outbound' = Tail(outbound)

CountStep ==
  count' = count \/ \E field \in {"packets", "data", "offers", "expiries"} : Count(field)

QuietStep == Quiet /\ StagedStep /\ KeysStep /\ QueuesStep /\ CountStep

LEMMA Moves ==
    ASSUME ThreadsInv, NEW t \in Threads, NEW from \in Resting, NEW pc \in Resting,
           At(t, from), Goto(t, pc)
    PROVE  ThreadsQuiet
<1>1. /\ pc # "take" /\ pc # "over" /\ pc # "check" /\ pc # "queue"
      /\ from # "take" /\ from # "over" /\ from # "check" /\ from # "queue"
  BY DEF Resting
<1>2. /\ thread' \in [Threads -> State] /\ thread'[t].pc = pc
      /\ \A u \in Threads : u # t => thread'[u] = thread[u]
  BY <1>1, Goes
<1> QED BY <1>1, <1>2 DEF ThreadsQuiet, At, Busy

LEMMA Stays ==
    ASSUME ThreadsInv, thread' = thread
    PROVE  ThreadsQuiet
  BY DEF ThreadsQuiet, ThreadsInv

LEMMA StagedPacket ==
    ASSUME QueueAssumption, CountInv, StagedInv, NEW id \in 0..scenario.packets,
           staged' = StagePacket(id), scenario' = scenario
    PROVE  StagedInv'
<1> DEFINE S == 0..scenario.packets
<1>1. staged \in Seq(S) /\ Len(staged) <= QueueStagedSize /\ id \in S
  BY DEF StagedInv
<1> HIDE DEF S
<1>2. CASE Len(staged) < QueueStagedSize
  <2>1. staged' = Append(staged, id)
    BY <1>2 DEF StagePacket
  <2>2. staged' \in Seq(S) /\ Len(staged') = Len(staged) + 1
    BY <1>1, <2>1
  <2> QED BY <1>1, <1>2, <2>2, Constants DEF StagedInv, S
<1>3. CASE ~ (Len(staged) < QueueStagedSize)
  <2>1. staged' = Append(Tail(staged), id)
    BY <1>3 DEF StagePacket
  <2>2. Len(staged) = QueueStagedSize /\ staged # <<>>
    BY <1>1, <1>3, Constants
  <2>3. Tail(staged) \in Seq(S) /\ Len(Tail(staged)) = Len(staged) - 1
    BY <1>1, <2>2
  <2>4. PICK rest \in Seq(S) : rest = Tail(staged) /\ Len(rest) = Len(staged) - 1
    BY <2>3, Zenon
  <2>5. staged' \in Seq(S) /\ Len(staged') = Len(rest) + 1
    BY <1>1, <2>1, <2>4
  <2> QED BY <2>2, <2>4, <2>5, Constants DEF StagedInv, S
<1> QED BY <1>2, <1>3

LEMMA StagedKept ==
    ASSUME QueueAssumption, CountInv, StagedInv, StagedStep, scenario' = scenario
    PROVE  StagedInv'
<1>1. scenario.packets \in Nat
  BY PacketsNat DEF CountInv
<1>2. CASE staged' = staged
  BY <1>2 DEF StagedInv
<1>3. CASE staged' = <<>>
  BY <1>1, <1>3, Constants DEF StagedInv
<1>4. CASE staged' = <<0>>
  <2>1. staged' \in Seq(0..scenario.packets) /\ Len(staged') = 1
    BY <1>1, <1>4
  <2> QED BY <2>1, Constants DEF StagedInv
<1>5. CASE \E id \in 0..scenario.packets : staged' = StagePacket(id)
  BY <1>5, StagedPacket
<1> QED BY <1>2, <1>3, <1>4, <1>5 DEF StagedStep

Counts == [packets : Nat, data : Nat, offers : Nat, expiries : Nat]

LEMMA Counted ==
    ASSUME NEW c \in Counts
    PROVE  /\ [c EXCEPT !.packets = c.packets + 1] \in Counts
           /\ [c EXCEPT !.packets = c.packets + 1].packets = c.packets + 1
           /\ [c EXCEPT !.data = c.data + 1] \in Counts
           /\ [c EXCEPT !.data = c.data + 1].packets = c.packets
           /\ [c EXCEPT !.offers = c.offers + 1] \in Counts
           /\ [c EXCEPT !.offers = c.offers + 1].packets = c.packets
           /\ [c EXCEPT !.expiries = c.expiries + 1] \in Counts
           /\ [c EXCEPT !.expiries = c.expiries + 1].packets = c.packets
<1>1. [c EXCEPT !.packets = c.packets + 1] \in Counts
  BY DEF Counts
<1>2. [c EXCEPT !.packets = c.packets + 1].packets = c.packets + 1
  BY DEF Counts
<1>3. /\ [c EXCEPT !.data = c.data + 1] \in Counts
      /\ [c EXCEPT !.data = c.data + 1].packets = c.packets
  BY DEF Counts
<1>4. /\ [c EXCEPT !.offers = c.offers + 1] \in Counts
      /\ [c EXCEPT !.offers = c.offers + 1].packets = c.packets
  BY DEF Counts
<1>5. /\ [c EXCEPT !.expiries = c.expiries + 1] \in Counts
      /\ [c EXCEPT !.expiries = c.expiries + 1].packets = c.packets
  BY DEF Counts
<1> QED BY <1>1, <1>2, <1>3, <1>4, <1>5, Zenon

LEMMA CountKept ==
    ASSUME QueueAssumption, CountInv, CountStep, scenario' = scenario
    PROVE  CountInv'
<1>1. count \in Counts /\ scenario \in Scenarios
  BY DEF CountInv, Counts
<1>2. scenario.packets \in Nat /\ count.packets \in Nat /\ count.packets <= scenario.packets
  BY PacketsNat DEF CountInv
<1>3. ASSUME NEW field \in {"packets", "data", "offers", "expiries"}, Count(field)
      PROVE  count' \in Counts /\ count'.packets <= scenario.packets
  <2>1. count[field] < scenario[field] /\ count' = [count EXCEPT ![field] = count[field] + 1]
    BY <1>3 DEF Count
  <2>2. CASE field = "packets"
    <3>1. count' = [count EXCEPT !.packets = count.packets + 1] /\ count.packets < scenario.packets
      BY <2>1, <2>2, Zenon
    <3>2. count' \in Counts /\ count'.packets = count.packets + 1
      BY <1>1, <3>1, Counted, Zenon
    <3> QED BY <1>2, <3>1, <3>2
  <2>3. CASE field = "data"
    <3>1. count' = [count EXCEPT !.data = count.data + 1]
      BY <2>1, <2>3, Zenon
    <3> QED BY <1>1, <1>2, <3>1, Counted, Zenon
  <2>4. CASE field = "offers"
    <3>1. count' = [count EXCEPT !.offers = count.offers + 1]
      BY <2>1, <2>4, Zenon
    <3> QED BY <1>1, <1>2, <3>1, Counted, Zenon
  <2>5. CASE field = "expiries"
    <3>1. count' = [count EXCEPT !.expiries = count.expiries + 1]
      BY <2>1, <2>5, Zenon
    <3> QED BY <1>1, <1>2, <3>1, Counted, Zenon
  <2> QED BY <2>2, <2>3, <2>4, <2>5, Zenon
<1>4. count' \in Counts /\ count'.packets <= scenario.packets
  BY <1>1, <1>2, <1>3, Zenon DEF CountStep
<1> QED BY <1>1, <1>4, Zenon DEF CountInv, Counts

LEMMA KeysKept ==
    ASSUME QueueAssumption, KeysInv, NoncesQuiet, KeysStep
    PROVE  KeysInv'
<1>1. Advances /\ sendNonce' \in Seq(Nat)
  BY KeysAdded
<1>2. KeyAdded => NewKey \in DOMAIN sendNonce'
  BY DEF KeyAdded, NewKey, KeysInv
<1>3. \A k \in {current, offered, Nil} : k \in (DOMAIN sendNonce') \cup {Nil}
  BY <1>1 DEF Advances, KeysInv, KeyOrNil
<1>4. \A k \in {current', offered'} : k \in (DOMAIN sendNonce') \cup {Nil}
  BY <1>2, <1>3 DEF KeysStep
<1> QED BY <1>1, <1>4 DEF KeysInv, KeyOrNil

LEMMA QueuesKept ==
    ASSUME QueueAssumption, QueuesInv, KeysInv, KeysInv', Advances, scenario' = scenario,
           QueuesStep
    PROVE  QueuesInv'
<1> DEFINE S == Elem \cup {Nil}
<1>1. outbound \in Seq(S) /\ Nil \in S
  BY DEF QueuesInv
<1> HIDE DEF S
<1>2. /\ outbound' \in Seq(S)
      /\ \A i \in 1..Len(outbound') :
            outbound'[i] = Nil \/ \E j \in 1..Len(outbound) : outbound'[i] = outbound[j]
  <2>1. CASE outbound' = outbound
    BY <1>1, <2>1
  <2>2. CASE outbound' = <<>>
    BY <2>2
  <2>3. CASE outbound' = Signal(outbound)
    BY <1>1, <2>3 DEF Signal
  <2>4. CASE outbound # <<>> /\ outbound' = Tail(outbound)
    <3>1. /\ outbound' \in Seq(S) /\ Len(outbound) \in Nat
          /\ Len(outbound') = Len(outbound) - 1
          /\ \A i \in 1..Len(outbound) - 1 : outbound'[i] = outbound[i + 1]
      BY <1>1, <2>4
    <3>2. \A i \in 1..Len(outbound') : i + 1 \in 1..Len(outbound)
      BY <3>1
    <3> QED BY <3>1, <3>2, Zenon
  <2> QED BY <2>1, <2>2, <2>3, <2>4 DEF QueuesStep
<1>3. crypting' \subseteq crypting
  BY DEF QueuesStep
<1> QED BY <1>2, <1>3, QueuesStay DEF S

LEMMA QuietKeeps ==
    ASSUME QueueAssumption, NInv, QuietStep
    PROVE  Advances /\ NInv'
<1>1. CountInv' /\ StagedInv' /\ KeysInv'
  BY CountKept, StagedKept, KeysKept DEF NInv, QuietStep, Quiet
<1>2. Advances /\ ThreadsInv' /\ CountersInv'
  BY <1>1, QuietThreads DEF NInv, QuietStep
<1>3. QueuesInv'
  BY <1>1, <1>2, QueuesKept DEF NInv, QuietStep, Quiet
<1> QED BY <1>1, <1>2, <1>3 DEF NInv

LEMMA SendsQuietly ==
    ASSUME QueueAssumption, NInv, RoutineSendPacket
    PROVE  QuietStep
<1>1. ThreadsInv /\ CountInv
  BY DEF NInv
<1>2. At("packet", "idle") /\ Goto("packet", "top") /\ scenario' = scenario
  BY DEF RoutineSendPacket
<1>3. Quiet
  <2>1. ThreadsQuiet
    BY <1>1, <1>2, Moves, ThreadNames, RestingNames, Zenon
  <2> QED BY <1>2, <2>1 DEF Quiet, NoncesQuiet, RoutineSendPacket, keys
<1>4. KeysStep /\ QueuesStep
  BY DEF KeysStep, QueuesStep, RoutineSendPacket, keys, queues
<1>5. CASE RoutineSendPacket
  <2>1. Count("packets") /\ staged' = StagePacket(count'.packets)
    BY <1>5 DEF RoutineSendPacket
  <2>2. CountStep
    BY <2>1 DEF CountStep
  <2>3. count'.packets \in 0..scenario.packets
    <3>1. CountInv'
      BY <1>1, <1>2, <2>2, CountKept
    <3> QED BY <1>2, <3>1, PacketsNat DEF CountInv
  <2> QED BY <1>3, <1>4, <2>1, <2>2, <2>3 DEF QuietStep, StagedStep
<1> QED BY <1>5

LEMMA SealsQuietly ==
    ASSUME NInv, RoutineEncryption \/ RoutineSequentialSender
    PROVE  QuietStep
<1>1. ThreadsInv
  BY DEF NInv
<1>2. CASE RoutineEncryption
  <2>1. ThreadsQuiet
    BY <1>1, <1>2, Stays DEF RoutineEncryption
  <2> QED BY <1>2, <2>1 DEF RoutineEncryption, QuietStep, Quiet, NoncesQuiet, StagedStep,
             KeysStep, QueuesStep, CountStep, keys
<1>3. CASE RoutineSequentialSender
  <2>1. ThreadsQuiet
    <3>1. At("sender", "idle") /\ (Goto("sender", "gone") \/ thread' = thread)
      BY <1>3 DEF RoutineSequentialSender
    <3> QED BY <1>1, <3>1, Stays, Moves, ThreadNames, RestingNames, Zenon
  <2>2. /\ outbound # <<>> /\ outbound' = Tail(outbound)
        /\ UNCHANGED <<scenario, staged, crypting, keys, count>>
    BY <1>3 DEF RoutineSequentialSender
  <2> QED BY <2>1, <2>2 DEF QuietStep, Quiet, NoncesQuiet, StagedStep,
             KeysStep, QueuesStep, CountStep, keys
<1> QED BY <1>2, <1>3

LEMMA NetworkQuietly ==
    ASSUME NInv, Lose \/ RekeyTimeout \/ RoutineReceiveIncoming \/ Age
    PROVE  QuietStep
<1>1. /\ thread' = thread /\ scenario' = scenario
      /\ UNCHANGED <<staged, outbound, crypting, current, offered, sendNonce>>
  BY DEF Lose, RekeyTimeout, RoutineReceiveIncoming, Age, queues, keys
<1>2. ThreadsQuiet
  BY <1>1, Stays DEF NInv
<1>3. CountStep
  BY DEF CountStep, Lose, RekeyTimeout, RoutineReceiveIncoming, Age
<1> QED BY <1>1, <1>2, <1>3
        DEF QuietStep, Quiet, NoncesQuiet, StagedStep, KeysStep, QueuesStep

LEMMA ShakesQuietly ==
    ASSUME NInv, ConsumeMessageResponse \/ ConsumeMessageInitiation \/ RoutineHandshake
    PROVE  QuietStep
<1>1. ThreadsInv
  BY DEF NInv
<1>2. CASE ConsumeMessageResponse
  <2>1. ThreadsQuiet
    <3>1. At("worker", "idle") /\ Goto("worker", "top")
      BY <1>2 DEF ConsumeMessageResponse
    <3> QED BY <1>1, <3>1, Moves, ThreadNames, RestingNames, Zenon
  <2>2. /\ KeyAdded /\ current' = NewKey /\ offered' = Nil
        /\ UNCHANGED <<scenario, outbound, crypting, count>>
    BY <1>2 DEF ConsumeMessageResponse, KeyAdded
  <2>3. StagedStep
    BY <1>2 DEF ConsumeMessageResponse, SendKeepalive, StagedStep
  <2> QED BY <2>1, <2>2, <2>3 DEF QuietStep, Quiet, NoncesQuiet, KeysStep, QueuesStep, CountStep
<1>3. CASE ConsumeMessageInitiation
  <2>1. ThreadsQuiet
    <3>1. At("worker", "idle") /\ Goto("worker", "heard")
      BY <1>3 DEF ConsumeMessageInitiation
    <3> QED BY <1>1, <3>1, Moves, ThreadNames, RestingNames, Zenon
  <2>2. /\ Count("offers")
        /\ UNCHANGED <<scenario, staged, outbound, crypting, current, offered, sendNonce>>
    BY <1>3 DEF ConsumeMessageInitiation, queues, keys
  <2> QED BY <2>1, <2>2
          DEF QuietStep, Quiet, NoncesQuiet, StagedStep, KeysStep, QueuesStep, CountStep
<1>4. CASE SendHandshakeResponse
  <2>1. ThreadsQuiet
    <3>1. At("worker", "heard") /\ Goto("worker", "idle")
      BY <1>4 DEF SendHandshakeResponse
    <3> QED BY <1>1, <3>1, Moves, ThreadNames, RestingNames, Zenon
  <2>2. /\ (KeyAdded /\ offered' = NewKey) \/ UNCHANGED <<sendNonce, offered>>
        /\ UNCHANGED <<scenario, staged, outbound, crypting, current, count>>
    BY <1>4 DEF SendHandshakeResponse, KeyAdded, queues
  <2> QED BY <2>1, <2>2
          DEF QuietStep, Quiet, NoncesQuiet, StagedStep, KeysStep, QueuesStep, CountStep
<1>5. CASE RoutineHandshakeEnds
  <2>1. ThreadsQuiet
    <3>1. At("worker", "idle") /\ Goto("worker", "gone")
      BY <1>5 DEF RoutineHandshakeEnds
    <3> QED BY <1>1, <3>1, Moves, ThreadNames, RestingNames, Zenon
  <2>2. UNCHANGED <<scenario, staged, outbound, crypting, current, offered, sendNonce, count>>
    BY <1>5 DEF RoutineHandshakeEnds, queues, keys
  <2> QED BY <2>1, <2>2
          DEF QuietStep, Quiet, NoncesQuiet, StagedStep, KeysStep, QueuesStep, CountStep
<1> QED BY <1>2, <1>3, <1>4, <1>5 DEF RoutineHandshake

LEMMA ReceivesQuietly ==
    ASSUME NInv, RoutineSequentialReceiver
    PROVE  QuietStep
<1>1. ThreadsInv
  BY DEF NInv
<1>2. CASE ReceivedWithKeypair
  <2>1. ThreadsQuiet
    <3>1. /\ At("receiver", "idle")
          /\ Goto("receiver", "gone") \/ Goto("receiver", "frame") \/ Goto("receiver", "top")
      BY <1>2 DEF ReceivedWithKeypair
    <3> QED BY <1>1, <3>1, Moves, ThreadNames, RestingNames, Zenon
  <2>2. /\ current' \in {current, offered} /\ offered' \in {offered, Nil}
        /\ UNCHANGED <<scenario, staged, outbound, crypting, sendNonce, count>>
    BY <1>2 DEF ReceivedWithKeypair, keys
  <2> QED BY <2>1, <2>2
          DEF QuietStep, Quiet, NoncesQuiet, StagedStep, KeysStep, QueuesStep, CountStep
<1>3. CASE Frame
  <2>1. ThreadsQuiet
    <3>1. /\ At("receiver", "frame")
          /\ Goto("receiver", "lookup") \/ Goto("receiver", "idle")
      BY <1>3 DEF Frame
    <3> QED BY <1>1, <3>1, Moves, ThreadNames, RestingNames, Zenon
  <2>2. UNCHANGED <<scenario, queues, keys, count>>
    BY <1>3 DEF Frame
  <2> QED BY <2>1, <2>2 DEF QuietStep, Quiet, NoncesQuiet, StagedStep, KeysStep, QueuesStep,
             CountStep, queues, keys
<1>4. CASE Lookup
  <2>1. ThreadsQuiet
    <3>1. At("receiver", "lookup") /\ Goto("receiver", "idle")
      BY <1>4 DEF Lookup
    <3> QED BY <1>1, <3>1, Moves, ThreadNames, RestingNames, Zenon
  <2>2. UNCHANGED <<scenario, queues, keys, count>>
    BY <1>4 DEF Lookup
  <2> QED BY <2>1, <2>2 DEF QuietStep, Quiet, NoncesQuiet, StagedStep, KeysStep, QueuesStep,
             CountStep, queues, keys
<1> QED BY <1>2, <1>3, <1>4 DEF RoutineSequentialReceiver

LEMMA TimersQuietly ==
    ASSUME NInv, Timers
    PROVE  QuietStep
<1>1. ThreadsInv
  BY DEF NInv
<1>2. ThreadsQuiet
  <2>1. CASE expiredSendKeepalive
    <3>1. At("timer", "idle") /\ Goto("timer", "top")
      BY <2>1 DEF expiredSendKeepalive
    <3> QED BY <1>1, <3>1, Moves, ThreadNames, RestingNames, Zenon
  <2>2. CASE AnotherKeepalive
    <3>1. At("timer", "again") /\ Goto("timer", "idle")
      BY <2>2 DEF AnotherKeepalive
    <3> QED BY <1>1, <3>1, Moves, ThreadNames, RestingNames, Zenon
  <2>3. CASE expiredRetransmitHandshake \/ expiredNewHandshake \/ expiredZeroKeyMaterial
    BY <1>1, <2>3, Stays, Zenon
       DEF expiredRetransmitHandshake, expiredNewHandshake, expiredZeroKeyMaterial
  <2> QED BY <2>1, <2>2, <2>3 DEF Timers
<1>3. /\ UNCHANGED <<scenario, outbound, crypting, sendNonce>>
      /\ current' \in {current, Nil} /\ offered' \in {offered, Nil}
  BY Zenon DEF Timers, expiredRetransmitHandshake, expiredSendKeepalive, AnotherKeepalive,
         expiredNewHandshake, expiredZeroKeyMaterial, ZeroAndFlushAll, keys, queues
<1>4. StagedStep
  BY Zenon DEF Timers, expiredRetransmitHandshake, expiredSendKeepalive, AnotherKeepalive,
         expiredNewHandshake, expiredZeroKeyMaterial, ZeroAndFlushAll, FlushStagedPackets,
         SendKeepalive, StagedStep, queues
<1>5. CountStep
  BY Zenon DEF Timers, expiredRetransmitHandshake, expiredSendKeepalive, AnotherKeepalive,
         expiredNewHandshake, expiredZeroKeyMaterial, CountStep
<1> QED BY <1>2, <1>3, <1>4, <1>5 DEF QuietStep, Quiet, NoncesQuiet, KeysStep, QueuesStep

LEMMA CallsQuietly ==
    ASSUME NInv,
           Call \/ RemovePeer \/ RoutineReadFromTUN
           \/ \E want \in {"up", "down", "closed"} : changeState(want)
    PROVE  QuietStep
<1>1. ThreadsInv
  BY DEF NInv
<1>2. CASE Start
  <2>1. ThreadsQuiet
    <3>1. CASE ~ inMap
      BY <1>1, <1>2, <3>1, Stays DEF Start
    <3>2. CASE inMap
      <4>1. /\ At("sender", "gone") /\ At("receiver", "gone")
            /\ thread' = [thread EXCEPT !["sender"] = Idle, !["receiver"] = Idle]
        BY <1>2, <3>2 DEF Start
      <4>2. Idle \in State /\ Idle.pc = "idle"
        BY DEF Idle, State, Resting
      <4>3. /\ thread' \in [Threads -> State]
            /\ thread'["sender"] = Idle /\ thread'["receiver"] = Idle
            /\ \A t \in Threads : t # "sender" /\ t # "receiver" => thread'[t] = thread[t]
        BY <1>1, <4>1, <4>2, ThreadNames DEF ThreadsInv
      <4> QED BY <4>1, <4>2, <4>3 DEF ThreadsQuiet, At, Busy
    <3> QED BY <3>1, <3>2
  <2>2. /\ UNCHANGED <<scenario, staged, crypting, current, offered, sendNonce, count>>
        /\ outbound' \in {outbound, <<>>}
    BY <1>2 DEF Start, keys
  <2> QED BY <2>1, <2>2
          DEF QuietStep, Quiet, NoncesQuiet, StagedStep, KeysStep, QueuesStep, CountStep
<1>3. ASSUME NEW c \in {"main", "api"}, StopSteps(c)
      PROVE  QuietStep
  <2>1. UNCHANGED <<scenario, thread, count, sendNonce>>
    BY <1>3 DEF StopSteps, Stop, ZeroAndFlushAll, keys
  <2>2. ThreadsQuiet
    BY <1>1, <2>1, Stays
  <2>3. /\ current' \in {current, Nil} /\ offered' \in {offered, Nil}
        /\ staged' \in {staged, <<>>} /\ crypting' = crypting
        /\ outbound' = outbound \/ outbound' = Signal(outbound)
    BY <1>3 DEF StopSteps, Stop, ZeroAndFlushAll, FlushStagedPackets, keys, queues
  <2> QED BY <2>1, <2>2, <2>3
          DEF QuietStep, Quiet, NoncesQuiet, StagedStep, KeysStep, QueuesStep, CountStep
<1>4. ASSUME UNCHANGED <<scenario, queues, keys, thread, count>>
      PROVE  QuietStep
  <2>1. ThreadsQuiet
    BY <1>1, <1>4, Stays
  <2> QED BY <1>4, <2>1 DEF QuietStep, Quiet, NoncesQuiet, StagedStep, KeysStep, QueuesStep,
             CountStep, keys, queues
<1>5. CASE RemovePeer \/ RoutineReadFromTUN \/ downLocked \/ RemovePeerLocks
           \/ RemoveAllPeers \/ Closed
  BY <1>4, <1>5 DEF RemovePeer, RoutineReadFromTUN, downLocked, RemovePeerLocks,
                    RemoveAllPeers, Closed
<1>6. ASSUME NEW c \in {"main", "api"}, Stopped(c)
      PROVE  QuietStep
  BY <1>4, <1>6 DEF Stopped
<1>7. ASSUME NEW want \in {"up", "down", "closed"}, changeState(want)
      PROVE  QuietStep
  BY <1>4, <1>7 DEF changeState
<1> QED BY <1>2, <1>3, <1>5, <1>6, <1>7 DEF Call

-----------------------------------------------------------------------------
(* Steps inside the loop of SendStagedPackets *)

\* Thread t goes to state s.
MovesTo(t, s) == s \in State /\ thread' = [thread EXCEPT ![t] = s]

LEMMA Moved ==
    ASSUME ThreadsInv, NEW t \in Threads, NEW s, MovesTo(t, s)
    PROVE  /\ thread' \in [Threads -> State] /\ thread'[t] = s
           /\ \A u \in Threads : u # t => thread'[u] = thread[u]
  BY DEF ThreadsInv, MovesTo

LEMMA OthersStay ==
    ASSUME QueueAssumption, ThreadsInv, KeysInv, KeysInv', Advances, scenario' = scenario,
           NEW t \in Threads, NEW s, MovesTo(t, s), ThreadInv(t)'
    PROVE  ThreadsInv'
<1>1. /\ thread' \in [Threads -> State]
      /\ \A u \in Threads : u # t => thread'[u] = thread[u]
  BY Moved
<1>2. \A e : Numbered(e) => Numbered(e)'
  BY NumberedStays
<1>3. DOMAIN sendNonce \subseteq DOMAIN sendNonce'
  BY DEF Advances
<1>4. ASSUME NEW u \in Threads, u # t
      PROVE  ThreadInv(u)'
  <2>1. ThreadInv(u) /\ thread'[u] = thread[u]
    BY <1>1, <1>4 DEF ThreadsInv
  <2> QED BY <1>2, <1>3, <2>1 DEF ThreadInv
<1> QED BY <1>1, <1>4 DEF ThreadsInv

LEMMA OversSame ==
    ASSUME ThreadsInv, NEW t \in Senders, NEW s, MovesTo(t, s),
           thread[t].pc # "over", s.pc # "over"
    PROVE  \A k : Overs(k)' = Overs(k)
<1>1. t \in Threads /\ Senders \subseteq Threads
  BY DEF Threads
<1>2. thread'[t] = s /\ \A u \in Threads : u # t => thread'[u] = thread[u]
  BY <1>1, Moved
<1>3. \A u \in Threads : \A k : Over1(u, k)' = Over1(u, k)
  BY <1>2 DEF Over1
<1> QED BY <1>3, ThreadNames DEF Overs

LEMMA CountersSame ==
    ASSUME CountersInv, UNCHANGED sendNonce, \A k : Overs(k)' = Overs(k)
    PROVE  CountersInv'
  BY DEF CountersInv

\* What every step of the loop leaves alone.
LEMMA RestStays ==
    ASSUME QueueAssumption, NInv, Advances, scenario' = scenario, count' = count,
           UNCHANGED <<current, offered>>, sendNonce' \in Seq(Nat)
    PROVE  CountInv' /\ KeysInv'
<1>1. CountInv'
  BY DEF NInv, CountInv
<1>2. KeysInv'
  BY DEF NInv, KeysInv, KeyOrNil, Advances
<1> QED BY <1>1, <1>2

LEMMA NoncesStay ==
    ASSUME NInv, UNCHANGED sendNonce
    PROVE  Advances /\ sendNonce' \in Seq(Nat)
<1>1. sendNonce \in Seq(Nat)
  BY DEF NInv, KeysInv
<1>2. \A k \in DOMAIN sendNonce : sendNonce[k] \in Nat
  BY <1>1
<1> QED BY <1>1, <1>2 DEF Advances

\* A step of thread t that takes no nonce and gives none back.
LEMMA PlainStep ==
    ASSUME QueueAssumption, NInv, NEW t \in Senders, NEW s, MovesTo(t, s),
           thread[t].pc # "over", s.pc # "over",
           UNCHANGED <<scenario, count, current, offered, sendNonce, staged>>,
           ThreadInv(t)', QueuesInv'
    PROVE  Advances /\ NInv'
<1>1. Advances /\ CountInv' /\ KeysInv'
  BY NoncesStay, RestStays
<1>2. ThreadsInv'
  BY <1>1, OthersStay DEF NInv, Threads
<1>3. CountersInv'
  BY OversSame, CountersSame DEF NInv
<1>4. StagedInv'
  BY DEF NInv, StagedInv
<1> QED BY <1>1, <1>2, <1>3, <1>4 DEF NInv

LEMMA QueuesAlone ==
    ASSUME QueueAssumption, NInv, UNCHANGED <<scenario, count, keys, outbound, crypting>>
    PROVE  QueuesInv'
<1>1. Advances /\ KeysInv'
  BY NoncesStay, RestStays DEF keys
<1> QED BY <1>1, QueuesKept DEF NInv, QueuesStep

LEMMA TopSteps ==
    ASSUME QueueAssumption, NInv, NEW t \in Senders, Top(t)
    PROVE  Advances /\ NInv'
<1>1. t \in Threads /\ ThreadsInv /\ At(t, "top")
  BY DEF Threads, NInv, Top
<1>2. UNCHANGED <<scenario, queues, keys, count>>
  BY DEF Top
<1>3. CASE Goto(t, Return(t))
  <2>1. Return(t) \in Resting
    BY DEF Return, Resting, Senders
  <2>2. ThreadsQuiet
    BY <1>1, <1>3, <2>1, Moves, RestingNames, Zenon
  <2>3. QuietStep
    BY <1>2, <2>2 DEF QuietStep, Quiet, NoncesQuiet, StagedStep, KeysStep, QueuesStep,
             CountStep, keys, queues
  <2> QED BY <2>3, QuietKeeps
<1>4. CASE /\ Usable(current)
           /\ thread' = [thread EXCEPT ![t] = [pc |-> "take", key |-> current, elem |-> Nil]]
  <2> DEFINE s == [pc |-> "take", key |-> current, elem |-> Nil]
  <2>1. current \in DOMAIN sendNonce /\ current \in Nat
    BY <1>4 DEF Usable, NInv, KeysInv, KeyOrNil
  <2>2. s \in State /\ s.pc = "take" /\ s.key = current
    BY <2>1 DEF State, Busy
  <2>3. MovesTo(t, s)
    BY <1>4, <2>2 DEF MovesTo
  <2> HIDE DEF s
  <2>4. thread'[t] = s
    BY <1>1, <2>3, Moved
  <2>5. ThreadInv(t)'
    BY <1>2, <2>1, <2>2, <2>4 DEF ThreadInv, Busy, keys
  <2>6. QueuesInv'
    BY <1>2, QueuesAlone DEF queues
  <2> QED BY <1>1, <1>2, <2>2, <2>3, <2>5, <2>6, PlainStep DEF At, keys, queues
<1> QED BY <1>3, <1>4, Zenon DEF Top

\* The loop ends: nothing is staged any more.
LEMMA LeaveSteps ==
    ASSUME QueueAssumption, NInv, NEW t \in Senders, At(t, "take"), Goto(t, Return(t)),
           UNCHANGED <<scenario, count, keys, queues>>
    PROVE  Advances /\ NInv'
<1>1. t \in Threads
  BY DEF Threads
<1> DEFINE s == [Idle EXCEPT !.pc = Return(t)]
<1>2. Return(t) \in Resting
  BY DEF Return, Resting, Senders
<1>3. s \in State /\ s.pc = Return(t)
  BY <1>2 DEF Idle, State
<1>4. MovesTo(t, s)
  BY <1>3 DEF MovesTo, Goto
<1> HIDE DEF s
<1>5. thread'[t].pc \in Resting
  BY <1>1, <1>2, <1>3, <1>4, Moved DEF NInv
<1>6. ThreadInv(t)'
  BY <1>5 DEF ThreadInv, Busy, Resting
<1>7. QueuesInv'
  BY QueuesAlone DEF queues
<1> QED BY <1>2, <1>3, <1>4, <1>6, <1>7, PlainStep DEF At, Resting, keys, queues

LEMMA CheckSteps ==
    ASSUME QueueAssumption, NInv, NEW t \in Senders, Check(t) \/ Queue(t)
    PROVE  Advances /\ NInv'
<1>1. t \in Threads /\ ThreadsInv
  BY DEF Threads, NInv
<1>2. thread[t] \in State /\ ThreadInv(t) /\ thread[t].pc \in {"check", "queue"}
  BY <1>1 DEF ThreadsInv, Check, Queue, At
<1>3. thread[t].key \in DOMAIN sendNonce /\ Numbered(thread[t].elem)
  BY <1>2 DEF ThreadInv, Busy
<1>4. UNCHANGED <<scenario, count, keys, staged>>
  BY DEF Check, Queue, queues
<1>5. \A e : Numbered(e)' <=> Numbered(e)
  BY <1>4 DEF Numbered, keys
<1>6. CASE Check(t) /\ isRunning
  <2> DEFINE s == [thread[t] EXCEPT !.pc = "queue"]
  <2>1. s \in State /\ s.pc = "queue" /\ s.key = thread[t].key /\ s.elem = thread[t].elem
    BY <1>2 DEF State, Busy
  <2>2. MovesTo(t, s)
    BY <1>6, <2>1 DEF MovesTo, Check
  <2> HIDE DEF s
  <2>3. thread'[t] = s
    BY <1>1, <2>2, Moved
  <2>4. ThreadInv(t)'
    BY <1>3, <1>4, <1>5, <2>1, <2>3, Zenon DEF ThreadInv, Busy, keys
  <2>5. QueuesInv'
    BY <1>4, <1>6, QueuesAlone DEF Check, queues
  <2> QED BY <1>2, <1>4, <2>1, <2>2, <2>4, <2>5, PlainStep, Zenon DEF keys
<1>7. CASE Queue(t) \/ (Check(t) /\ ~ isRunning)
  <2> DEFINE s == [thread[t] EXCEPT !.pc = "take", !.elem = Nil]
  <2>1. s \in State /\ s.pc = "take" /\ s.key = thread[t].key
    BY <1>2, Zenon DEF State, Busy
  <2>2. MovesTo(t, s)
    BY <1>7, <2>1, Zenon DEF MovesTo, Check, Queue
  <2> HIDE DEF s
  <2>3. thread'[t] = s
    BY <1>1, <2>2, Moved
  <2>4. ThreadInv(t)'
    BY <1>3, <1>4, <2>1, <2>3 DEF ThreadInv, Busy, keys
  <2>5. QueuesInv'
    <3>1. CASE Check(t)
      BY <1>4, <3>1, QueuesAlone DEF Check, queues
    <3>2. CASE Queue(t)
      <4>1. PICK e \in Elem : e = thread[t].elem /\ Numbered(e)
        BY <1>3 DEF Numbered
      <4>2. outbound' = Append(outbound, e) /\ crypting' = crypting \cup {e}
        BY <3>2, <4>1 DEF Queue
      <4>3. \A x \in crypting' : Numbered(x)'
        BY <1>5, <4>1, <4>2 DEF NInv, QueuesInv
      <4> DEFINE S == Elem \cup {Nil}
      <4>4. outbound \in Seq(S) /\ e \in S
        BY DEF NInv, QueuesInv
      <4>5. \A i \in 1..Len(outbound) : outbound[i] = Nil \/ Numbered(outbound[i])
        BY DEF NInv, QueuesInv
      <4> HIDE DEF S
      <4>6. /\ outbound' \in Seq(S) /\ Len(outbound') = Len(outbound) + 1
            /\ \A i \in 1..Len(outbound) : outbound'[i] = outbound[i]
            /\ outbound'[Len(outbound) + 1] = e /\ Len(outbound) \in Nat
        BY <4>2, <4>4
      <4>7. ASSUME NEW i \in 1..Len(outbound')
            PROVE  \E x : outbound'[i] = x /\ (x = Nil \/ Numbered(x))
        <5>1. CASE i = Len(outbound) + 1
          BY <4>1, <4>6, <5>1
        <5>2. CASE i \in 1..Len(outbound)
          BY <4>5, <4>6, <5>2
        <5>3. i = Len(outbound) + 1 \/ i \in 1..Len(outbound)
          BY <4>6
        <5> QED BY <5>1, <5>2, <5>3
      <4>8. (\A i \in 1..Len(outbound) : outbound[i] = Nil \/ Numbered(outbound[i]))'
        <5> SUFFICES ASSUME NEW i \in 1..Len(outbound')
                     PROVE  (outbound[i] = Nil \/ Numbered(outbound[i]))'
          OBVIOUS
        <5>1. PICK x : outbound'[i] = x /\ (x = Nil \/ Numbered(x))
          BY <4>7
        <5>2. x = Nil \/ Numbered(x)'
          BY <1>5, <5>1
        <5> QED BY <5>1, <5>2 DEF Numbered
      <4> QED BY <4>3, <4>6, <4>8 DEF QueuesInv, S
    <3> QED BY <1>7, <3>1, <3>2
  <2> QED BY <1>2, <1>4, <2>1, <2>2, <2>4, <2>5, PlainStep, Zenon DEF keys
<1> QED BY <1>6, <1>7

LEMMA CounterSet ==
    ASSUME NEW f \in Seq(Nat), NEW k \in DOMAIN f, NEW v \in Nat
    PROVE  /\ [f EXCEPT ![k] = v] \in Seq(Nat)
           /\ DOMAIN [f EXCEPT ![k] = v] = DOMAIN f
           /\ [f EXCEPT ![k] = v][k] = v
           /\ \A x \in DOMAIN f : x # k => [f EXCEPT ![k] = v][x] = f[x]
  OBVIOUS

\* The threads that have overdrawn a key are those before and at most t.
LEMMA OversTaken ==
    ASSUME ThreadsInv, NEW t \in Senders, NEW s, MovesTo(t, s),
           thread[t].pc # "over", s.pc = "over", NEW k, s.key = k
    PROVE  /\ Overs(k)' = Overs(k) + 1
           /\ \A x : x # k => Overs(x)' = Overs(x)
<1>1. t \in Threads /\ Senders \subseteq Threads
  BY DEF Threads
<1>2. thread'[t] = s /\ \A u \in Threads : u # t => thread'[u] = thread[u]
  BY <1>1, Moved
<1>3. Over1(t, k) = 0 /\ Over1(t, k)' = 1
  BY <1>2 DEF Over1
<1>4. \A u \in Senders : \A x : u # t \/ x # k => Over1(u, x)' = Over1(u, x)
  BY <1>1, <1>2 DEF Over1
<1>5. \A u, x : Over1(u, x) \in Nat
  BY DEF Over1
<1>6. Overs(k)' = Overs(k) + 1
  BY <1>3, <1>4, <1>5 DEF Overs, Senders
<1>7. \A x : x # k => Overs(x)' = Overs(x)
  BY <1>4 DEF Overs, Senders
<1> QED BY <1>6, <1>7

\* The counter does not wrap around.
LEMMA CounterBound ==
    ASSUME QueueAssumption, ThreadsInv, KeysInv, CountersInv, NEW t \in Senders,
           thread[t].pc # "over", NEW k \in DOMAIN sendNonce
    PROVE  sendNonce[k] + 1 <= RejectAfterMessages + 4 /\ (sendNonce[k] + 1) % Word = sendNonce[k] + 1
<1>1. Over1(t, k) = 0 /\ \A u : Over1(u, k) \in 0..1
  BY DEF Over1
<1>2. PICK c \in 0..3 : c = Overs(k)
  <2> DEFINE a == Over1("packet", k)
             b == Over1("timer", k)
             d == Over1("worker", k)
             e == Over1("receiver", k)
  <2>1. a \in 0..1 /\ b \in 0..1 /\ d \in 0..1 /\ e \in 0..1
    BY <1>1, Zenon
  <2>2. a = 0 \/ b = 0 \/ d = 0 \/ e = 0
    BY <1>1, Zenon DEF Senders
  <2>3. Overs(k) = a + b + d + e
    BY Zenon DEF Overs
  <2> HIDE DEF a, b, d, e
  <2> QED BY <2>1, <2>2, <2>3
<1>3. PICK n \in Nat : n = sendNonce[k] /\ n <= RejectAfterMessages + c
  <2>1. sendNonce[k] \in Nat
    BY DEF KeysInv
  <2>2. sendNonce[k] <= RejectAfterMessages + c
    BY <1>2, Zenon DEF CountersInv
  <2> QED BY <2>1, <2>2, Zenon
<1>4. n + 1 <= RejectAfterMessages + 4 /\ n + 1 < Word
  BY <1>2, <1>3, Constants
<1>5. \A a \in Nat : a < Word => a % Word = a
  BY Constants
<1> QED BY <1>3, <1>4, <1>5

LEMMA Limits ==
    ASSUME QueueAssumption, NEW n \in Nat
    PROVE  /\ n < n + 1
           /\ n >= RejectAfterMessages \/ (~ (n >= RejectAfterMessages) /\ n < RejectAfterMessages)
  BY Constants

LEMMA TakeSteps ==
    ASSUME QueueAssumption, NInv, NEW t \in Senders, Take(t)
    PROVE  Advances /\ NInv'
<1>1. t \in Threads /\ ThreadsInv /\ KeysInv /\ CountersInv /\ At(t, "take") /\ StagedInv
  BY DEF Threads, NInv, Take
<1>2. UNCHANGED <<scenario, count, outbound, crypting, current, offered>>
  BY DEF Take
<1>3. CASE staged = <<>>
  BY <1>1, <1>3, LeaveSteps DEF Take, keys, queues
<1>4. CASE staged # <<>>
  <2>1. PICK k \in DOMAIN sendNonce : k = thread[t].key
    BY <1>1 DEF ThreadsInv, ThreadInv, Busy, At
  <2>2. PICK n \in Nat : n = sendNonce[k]
    BY <1>1 DEF KeysInv
  <2>3. k \in Nat
    BY <1>1 DEF KeysInv
  <2>4. PICK i \in 0..scenario.packets : i = Head(staged)
    <3>1. staged \in Seq(0..scenario.packets)
      BY <1>1 DEF StagedInv
    <3> QED BY <1>4, <3>1, HeadTail, Zenon
  <2>5. i \in Nat /\ scenario.packets \in Nat /\ i <= scenario.packets
    <3>1. scenario.packets \in Nat
      BY PacketsNat, Zenon DEF NInv, CountInv
    <3> QED BY <3>1
  <2>6. PICK e : e = [id |-> i, key |-> k, nonce |-> n]
    BY Zenon
  <2>7. e \in Elem /\ e.id = i /\ e.key = k /\ e.nonce = n
    BY <2>3, <2>5, <2>6 DEF Elem
  <2>8. PICK s : s = [pc |-> IF Exhausted(n) THEN "over" ELSE "check", key |-> k, elem |-> e]
    BY Zenon
  <2>9. /\ s \in State /\ s.key = k /\ s.elem = e
        /\ s.pc = IF n >= RejectAfterMessages THEN "over" ELSE "check"
    BY <2>3, <2>7, <2>8 DEF State, Exhausted, Busy
  <2>10. staged' = Tail(staged) /\ sendNonce' = [sendNonce EXCEPT ![k] = (n + 1) % Word]
    BY <1>4, <2>1, <2>2, Zenon DEF Take
  <2>11. MovesTo(t, s)
    <3>1. thread' = [thread EXCEPT ![t] = s]
      BY <1>4, <2>1, <2>2, <2>4, <2>6, <2>8, Zenon DEF Take
    <3> QED BY <2>9, <3>1 DEF MovesTo
  <2>12. n + 1 <= RejectAfterMessages + 4 /\ (n + 1) % Word = n + 1
    BY <1>1, <2>2, CounterBound DEF At
  <2>13. /\ sendNonce' \in Seq(Nat) /\ DOMAIN sendNonce' = DOMAIN sendNonce
         /\ sendNonce'[k] = n + 1
         /\ \A x \in DOMAIN sendNonce : x # k => sendNonce'[x] = sendNonce[x]
    <3>1. sendNonce \in Seq(Nat) /\ n + 1 \in Nat
      BY <1>1 DEF KeysInv
    <3>2. sendNonce' = [sendNonce EXCEPT ![k] = n + 1]
      BY <2>10, <2>12, Zenon
    <3> QED BY <3>1, <3>2, CounterSet, Zenon
  <2>14. Advances
    <3>1. \A x \in DOMAIN sendNonce : sendNonce[x] \in Nat
      BY <1>1 DEF KeysInv
    <3>2. ASSUME NEW x \in DOMAIN sendNonce
          PROVE  sendNonce'[x] >= sendNonce[x]
      <4>1. CASE x = k
        BY <2>2, <2>13, <4>1
      <4>2. CASE x # k
        BY <2>13, <3>1, <4>2
      <4> QED BY <4>1, <4>2
    <3> QED BY <2>13, <3>2 DEF Advances
  <2>15. CountInv' /\ KeysInv'
    BY <1>2, <2>13, <2>14, RestStays
  <2>16. StagedInv'
    <3>1. Tail(staged) \in Seq(0..scenario.packets) /\ Len(Tail(staged)) = Len(staged) - 1
      <4>1. staged \in Seq(0..scenario.packets)
        BY <1>1 DEF StagedInv
      <4> QED BY <1>4, <4>1, HeadTail, Zenon
    <3>2. Len(staged) \in Nat /\ Len(staged) <= QueueStagedSize
      BY <1>1 DEF StagedInv
    <3>3. Len(Tail(staged)) <= QueueStagedSize
      BY <3>1, <3>2, Constants
    <3> QED BY <1>2, <2>10, <3>1, <3>3 DEF StagedInv
  <2>17. QueuesInv'
    BY <1>2, <2>14, <2>15, QueuesKept DEF NInv, QueuesStep
  <2>18. ThreadInv(t)'
    <3>1. thread'[t] = s
      BY <1>1, <2>11, Moved
    <3>2. n < RejectAfterMessages => Numbered(e)'
      <4>1. e.key \in DOMAIN sendNonce' /\ e.id <= scenario'.packets
        BY <1>2, <2>5, <2>7, <2>13
      <4>2. e.nonce < sendNonce'[e.key]
        <5>1. n < n + 1
          BY Limits, Zenon
        <5> QED BY <2>7, <2>13, <5>1, Zenon
      <4> QED BY <2>7, <4>1, <4>2, Zenon DEF Numbered
    <3>3. s.pc = "over" \/ (s.pc = "check" /\ n < RejectAfterMessages)
      <4>1. n >= RejectAfterMessages \/ (~ (n >= RejectAfterMessages) /\ n < RejectAfterMessages)
        BY Limits, Zenon
      <4> QED BY <2>9, <4>1, Zenon
    <3>4. (s.pc = "over" => e \in Elem /\ e.id <= scenario'.packets) /\ s.key \in DOMAIN sendNonce'
      BY <1>2, <2>5, <2>7, <2>9, <2>13, Zenon
    <3> QED BY <2>9, <3>1, <3>2, <3>3, <3>4 DEF ThreadInv
  <2>19. ThreadsInv'
    BY <1>1, <1>2, <2>11, <2>14, <2>15, <2>18, OthersStay, Zenon
  <2>20. CountersInv'
    <3>1. ASSUME NEW x \in DOMAIN sendNonce', x # k, Overs(x)' = Overs(x)
          PROVE  sendNonce'[x] <= RejectAfterMessages + Overs(x)'
      BY <1>1, <2>13, <3>1, Zenon DEF CountersInv
    <3>2. CASE n >= RejectAfterMessages
      <4>1. /\ Overs(k)' = Overs(k) + 1
            /\ \A x : x # k => Overs(x)' = Overs(x)
        <5>1. s.pc = "over" /\ thread[t].pc # "over"
          BY <1>1, <2>9, <3>2 DEF At
        <5> QED BY <1>1, <2>9, <2>11, <5>1, OversTaken, Zenon
      <4>2. Overs(k) \in Nat
        BY OversNat, Zenon
      <4>3. sendNonce'[k] <= RejectAfterMessages + Overs(k)'
        <5>1. n <= RejectAfterMessages + Overs(k)
          BY <1>1, <2>2, Zenon DEF CountersInv
        <5>2. PICK o \in Nat : o = Overs(k)
          BY <4>2, Zenon
        <5>3. n + 1 <= RejectAfterMessages + (o + 1)
          BY <5>1, <5>2, Constants
        <5> QED BY <2>13, <4>1, <5>2, <5>3, Zenon
      <4> QED BY <3>1, <4>1, <4>3, Zenon DEF CountersInv
    <3>3. CASE n < RejectAfterMessages
      <4>1. \A x : Overs(x)' = Overs(x)
        <5>1. s.pc # "over" /\ thread[t].pc # "over"
          BY <1>1, <2>9, <3>3, Constants DEF At
        <5> QED BY <1>1, <2>11, <5>1, OversSame, Zenon
      <4>2. Overs(k) \in Nat
        BY OversNat, Zenon
      <4>3. sendNonce'[k] <= RejectAfterMessages + Overs(k)'
        <5>1. n + 1 <= RejectAfterMessages + Overs(k)
          BY <3>3, <4>2, Constants
        <5> QED BY <2>13, <4>1, <5>1, Zenon
      <4> QED BY <3>1, <4>1, <4>3 DEF CountersInv
    <3>4. n >= RejectAfterMessages \/ n < RejectAfterMessages
      BY Limits, Zenon
    <3> QED BY <3>2, <3>3, <3>4
  <2> QED BY <2>14, <2>15, <2>16, <2>17, <2>19, <2>20 DEF NInv
<1> QED BY <1>3, <1>4

LEMMA OverSteps ==
    ASSUME QueueAssumption, NInv, NEW t \in Senders, Over(t)
    PROVE  Advances /\ NInv'
<1>1. t \in Threads /\ ThreadsInv /\ KeysInv /\ CountersInv /\ At(t, "over") /\ Senders \subseteq Threads
  BY DEF Threads, NInv, Over
<1>2. UNCHANGED <<scenario, count, outbound, crypting, current, offered>>
  BY DEF Over
<1>3. PICK k \in DOMAIN sendNonce : k = thread[t].key
  BY <1>1 DEF ThreadsInv, ThreadInv, Busy, At
<1>4. sendNonce' = [sendNonce EXCEPT ![k] = RejectAfterMessages]
  BY <1>3 DEF Over, Spent
<1>5. /\ sendNonce' \in Seq(Nat) /\ DOMAIN sendNonce' = DOMAIN sendNonce
      /\ sendNonce'[k] = RejectAfterMessages
      /\ \A x \in DOMAIN sendNonce : x # k => sendNonce'[x] = sendNonce[x]
  BY <1>1, <1>4, CounterSet, Constants DEF KeysInv
<1>6. Advances
  <2>1. \A x \in DOMAIN sendNonce : sendNonce[x] \in Nat
    BY <1>1 DEF KeysInv
  <2>2. \A x \in DOMAIN sendNonce : x # k => sendNonce'[x] >= sendNonce[x]
    <3>1. \A m \in Nat : m >= m
      OBVIOUS
    <3> QED BY <1>5, <2>1, <3>1, Zenon
  <2>3. sendNonce'[k] >= RejectAfterMessages
    BY <1>5, Constants
  <2> QED BY <1>5, <2>2, <2>3 DEF Advances
<1>7. CountInv' /\ KeysInv'
  BY <1>2, <1>5, <1>6, RestStays
<1>8. StagedInv'
  <2>1. thread[t].elem.id \in 0..scenario.packets
    <3>1. PICK e \in Elem : e = thread[t].elem /\ e.id <= scenario.packets
      BY <1>1, Zenon DEF ThreadsInv, ThreadInv, At
    <3>2. e.id \in Nat /\ scenario.packets \in Nat
      BY <3>1, PacketsNat DEF Elem, NInv, CountInv
    <3> QED BY <3>1, <3>2
  <2> QED BY <1>2, <2>1, StagedPacket DEF Over, NInv
<1>9. QueuesInv'
  BY <1>2, <1>6, <1>7, QueuesKept DEF NInv, QueuesStep
<1> DEFINE s == [Idle EXCEPT !.pc = "top"]
<1>10. s \in State /\ s.pc = "top"
  BY DEF Idle, State, Resting
<1>11. MovesTo(t, s)
  BY <1>10 DEF MovesTo, Goto, Over
<1> HIDE DEF s
<1>12. thread'[t] = s /\ \A u \in Threads : u # t => thread'[u] = thread[u]
  BY <1>1, <1>11, Moved
<1>13. ThreadInv(t)'
  BY <1>10, <1>12 DEF ThreadInv, Busy
<1>14. ThreadsInv'
  BY <1>1, <1>2, <1>6, <1>7, <1>11, <1>13, OthersStay, Zenon
<1>15. CountersInv'
  <2>1. \A x : x # k => Overs(x)' = Overs(x)
    <3>1. \A u \in Threads : \A x : x # k => Over1(u, x)' = Over1(u, x)
      BY <1>1, <1>3, <1>10, <1>12 DEF Over1, At
    <3> QED BY <3>1, ThreadNames DEF Overs
  <2>2. Overs(k)' \in Nat
    BY DEF Overs, Over1
  <2>3. sendNonce'[k] <= RejectAfterMessages + Overs(k)'
    BY <1>5, <2>2, Constants
  <2> QED BY <1>1, <1>5, <2>1, <2>3 DEF CountersInv
<1> QED BY <1>6, <1>7, <1>8, <1>9, <1>14, <1>15 DEF NInv

LEMMA ExpireSteps ==
    ASSUME QueueAssumption, NInv, ExpireCurrentKeypairs
    PROVE  Advances /\ NInv'
<1>1. ThreadsInv /\ KeysInv /\ CountersInv /\ CountInv
  BY DEF NInv
<1>2. UNCHANGED <<scenario, queues, current, offered, thread>> /\ Count("expiries")
  BY DEF ExpireCurrentKeypairs
<1>3. sendNonce' = [k \in DOMAIN sendNonce |->
                      IF k \in {current, offered} THEN RejectAfterMessages ELSE sendNonce[k]]
  BY DEF ExpireCurrentKeypairs
<1>4. /\ sendNonce' \in Seq(Nat) /\ DOMAIN sendNonce' = DOMAIN sendNonce
      /\ \A k \in DOMAIN sendNonce : sendNonce[k] \in Nat
      /\ \A k \in DOMAIN sendNonce : sendNonce'[k] \in {RejectAfterMessages, sendNonce[k]}
  <2>1. DOMAIN sendNonce = 1..Len(sendNonce) /\ Len(sendNonce) \in Nat
    BY <1>1 DEF KeysInv
  <2>2. \A k \in DOMAIN sendNonce : sendNonce[k] \in Nat
    BY <1>1 DEF KeysInv
  <2>3. sendNonce' \in [1..Len(sendNonce) -> Nat]
    BY <1>3, <2>1, <2>2, Constants
  <2>4. sendNonce' \in Seq(Nat)
    BY <2>1, <2>3
  <2> QED BY <1>3, <2>2, <2>4
<1>5. Advances
  <2>1. \A m \in Nat : m >= m
    OBVIOUS
  <2>2. RejectAfterMessages \in Nat
    BY Constants
  <2> QED BY <1>4, <2>1, <2>2, Zenon DEF Advances
<1>6. CountInv'
  BY <1>1, <1>2, CountKept DEF CountStep
<1>7. KeysInv'
  BY <1>1, <1>2, <1>4 DEF KeysInv, KeyOrNil
<1>8. StagedInv'
  BY <1>2 DEF NInv, StagedInv, queues
<1>9. QueuesInv'
  BY <1>2, <1>5, <1>7, QueuesKept DEF NInv, QueuesStep, queues
<1>10. ThreadsInv'
  <2>1. \A e : Numbered(e) => Numbered(e)'
    BY <1>1, <1>2, <1>5, <1>7, NumberedStays
  <2>2. ASSUME NEW t \in Threads
        PROVE  ThreadInv(t)'
    BY <1>1, <1>2, <1>4, <2>1 DEF ThreadsInv, ThreadInv
  <2> QED BY <1>1, <1>2, <2>2 DEF ThreadsInv
<1>11. CountersInv'
  <2>1. \A k : Overs(k)' = Overs(k)
    BY <1>2 DEF Overs, Over1
  <2>2. \A k : Overs(k) \in Nat
    BY OversNat, Zenon
  <2>3. ASSUME NEW k \in DOMAIN sendNonce
        PROVE  sendNonce'[k] <= RejectAfterMessages + Overs(k)
    <3>1. sendNonce[k] <= RejectAfterMessages + Overs(k)
      BY <1>1 DEF CountersInv
    <3>2. RejectAfterMessages <= RejectAfterMessages + Overs(k)
      BY <2>2, Constants
    <3> QED BY <1>4, <3>1, <3>2, Zenon
  <2> QED BY <1>4, <2>1, <2>3 DEF CountersInv
<1> QED BY <1>5, <1>6, <1>7, <1>8, <1>9, <1>10, <1>11 DEF NInv

LEMMA NonceInit ==
    ASSUME QueueAssumption, Init
    PROVE  NInv
<1>1. scenario \in Scenarios /\ scenario.packets \in Nat
  BY PacketsNat DEF Init
<1>2. CountInv
  <2>1. count = [packets |-> 0, data |-> 0, offers |-> 0, expiries |-> 0]
    BY Zenon DEF Init
  <2> QED BY <1>1, <2>1 DEF CountInv
<1>3. StagedInv
  <2>1. staged = <<>>
    BY Zenon DEF Init
  <2> QED BY <1>1, <2>1, Constants DEF StagedInv
<1>4. sendNonce = <<>> /\ DOMAIN sendNonce = {}
  BY DEF Init
<1>5. KeysInv
  BY <1>4 DEF Init, KeysInv, KeyOrNil
<1>6. Idle \in State /\ Gone \in State /\ Idle.pc = "idle" /\ Gone.pc = "gone"
  BY DEF Idle, Gone, State, Resting
<1>7. thread \in [Threads -> State] /\ \A t \in Threads : thread[t].pc \notin Busy
  BY <1>6 DEF Init, Busy
<1>8. ThreadsInv
  BY <1>7 DEF ThreadsInv, ThreadInv, Busy
<1>9. QueuesInv
  BY DEF Init, QueuesInv
<1>10. CountersInv
  BY <1>4 DEF CountersInv
<1> QED BY <1>2, <1>3, <1>5, <1>8, <1>9, <1>10 DEF NInv

LEMMA NonceStep ==
    ASSUME QueueAssumption, NInv, [Next]_vars
    PROVE  Advances /\ NInv'
<1>1. CASE RoutineSendPacket
  BY <1>1, SendsQuietly, QuietKeeps
<1>2. ASSUME NEW t \in Senders, SendStagedPackets(t)
      PROVE  Advances /\ NInv'
  BY <1>2, TopSteps, TakeSteps, OverSteps, CheckSteps DEF SendStagedPackets
<1>3. CASE RoutineEncryption \/ RoutineSequentialSender
  BY <1>3, SealsQuietly, QuietKeeps
<1>4. CASE Lose \/ RekeyTimeout \/ RoutineReceiveIncoming \/ Age
  BY <1>4, NetworkQuietly, QuietKeeps
<1>5. CASE ConsumeMessageResponse \/ ConsumeMessageInitiation \/ RoutineHandshake
  BY <1>5, ShakesQuietly, QuietKeeps
<1>6. CASE RoutineSequentialReceiver
  BY <1>6, ReceivesQuietly, QuietKeeps
<1>7. CASE Timers
  BY <1>7, TimersQuietly, QuietKeeps
<1>8. CASE ExpireCurrentKeypairs
  BY <1>8, ExpireSteps
<1>9. CASE Call \/ RemovePeer \/ RoutineReadFromTUN
           \/ \E want \in {"up", "down", "closed"} : changeState(want)
  BY <1>9, CallsQuietly, QuietKeeps
<1>10. CASE UNCHANGED vars
  <2>1. ThreadsQuiet
    BY <1>10, Stays DEF NInv, vars
  <2>2. QuietStep
    BY <1>10, <2>1 DEF vars, QuietStep, Quiet, NoncesQuiet, StagedStep, KeysStep, QueuesStep,
       CountStep, keys, queues
  <2> QED BY <2>2, QuietKeeps
<1> QED BY <1>1, <1>2, <1>3, <1>4, <1>5, <1>6, <1>7, <1>8, <1>9, <1>10, Zenon DEF Next

LEMMA NonceInvariant == Spec => []NInv
<1>1. Init => NInv
  BY NonceInit, QueueAssumption
<1>2. NInv /\ [Next]_vars => NInv'
  BY NonceStep, QueueAssumption
<1> QED BY <1>1, <1>2, PTL DEF Spec

\* SendStagedPackets gives every packet of a key a nonce of its own, for any
\* number of keys, packets, expiries and restarts: what a thread holds, what
\* waits to be sealed and what waits to be sent has a nonce below the counter of
\* its key and below RejectAfterMessages.
THEOREM NoncesUsedOnce == Spec => []NonceOnce
<1>1. ASSUME NInv PROVE NonceOnce
  <2> SUFFICES ASSUME NEW e \in InFlight
               PROVE  e.nonce < sendNonce[e.key] /\ e.nonce < RejectAfterMessages
    BY DEF NonceOnce
  <2>1. CASE e \in Held
    BY <1>1, <2>1 DEF Held, NInv, ThreadsInv, ThreadInv, Numbered
  <2>2. CASE e \in crypting
    BY <1>1, <2>2 DEF NInv, QueuesInv, Numbered
  <2>3. CASE e \in Range(outbound) /\ e # Nil
    <3>1. PICK i \in DOMAIN outbound : e = outbound[i]
      BY <2>3 DEF Range
    <3>2. i \in 1..Len(outbound)
      BY <1>1, <3>1 DEF NInv, QueuesInv
    <3> QED BY <1>1, <2>3, <3>1, <3>2 DEF NInv, QueuesInv, Numbered
  <2> QED BY <2>1, <2>2, <2>3 DEF InFlight
<1> QED BY <1>1, NonceInvariant, PTL

\* A key is never taken back, and its counter only goes up, except that it falls
\* back to RejectAfterMessages or above, where no nonce is used: with
\* NoncesUsedOnce no nonce is given out twice in the life of a key
\* (nextNonce of SendStagedPackets, and the stores of RejectAfterMessages there
\* and in ExpireCurrentKeypairs).
THEOREM NoncesNeverReturn == Spec => [][Advances]_vars
<1>1. NInv /\ [Next]_vars => [Advances]_vars
  BY NonceStep, QueueAssumption
<1> QED BY <1>1, NonceInvariant, PTL DEF Spec

-----------------------------------------------------------------------------
(* Start, Stop and the references to the encryption queue *)

\* No timer starts to send and no routine begins.
ThreadsLive ==
  /\ At("timer", "idle") => At("timer", "idle")' \/ "sendKeepalive" \in pending
  /\ At("receiver", "gone") => At("receiver", "gone")'
  /\ At("worker", "gone") => At("worker", "gone")'

\* A step of a thread, between two calls.
Calm ==
  /\ UNCHANGED <<dev, isRunning, caller, refs>>
  /\ age' \in 0..2 /\ attempts' \in 0..MaxTimerHandshakes + 1
  /\ "sendKeepalive" \in pending' => "sendKeepalive" \in pending \/ isRunning
  /\ ThreadsLive

LEMMA OnlyMoves ==
    ASSUME NEW t \in Threads, \A u \in Threads : u # t => thread'[u] = thread[u],
           ~ At(t, "gone"), t # "timer" \/ ~ At(t, "idle") \/ "sendKeepalive" \in pending
    PROVE  ThreadsLive
<1>1. At("timer", "idle") => At("timer", "idle")' \/ "sendKeepalive" \in pending
  BY ThreadNames, Zenon DEF At
<1>2. At("receiver", "gone") => At("receiver", "gone")'
  BY ThreadNames, Zenon DEF At
<1>3. At("worker", "gone") => At("worker", "gone")'
  BY ThreadNames, Zenon DEF At
<1> QED BY <1>1, <1>2, <1>3 DEF ThreadsLive

LEMMA GotoLive ==
    ASSUME ThreadsInv, NEW t \in Threads, NEW pc \in Resting, Goto(t, pc), ~ At(t, "gone"),
           t # "timer" \/ ~ At(t, "idle") \/ "sendKeepalive" \in pending
    PROVE  ThreadsLive
<1>1. \A u \in Threads : u # t => thread'[u] = thread[u]
  BY Goes
<1> QED BY <1>1, OnlyMoves, Zenon

LEMMA StayLive ==
    ASSUME thread' = thread
    PROVE  ThreadsLive
  BY DEF ThreadsLive, At

\* mod starts nothing on a peer that does not run.
LEMMA HooksIdle ==
    ASSUME ~ isRunning, NEW p
    PROVE  /\ timersDataSent(p) \subseteq p /\ timersDataReceived(p) \subseteq p
           /\ timersAnyAuthenticatedPacketSent(p) \subseteq p
           /\ timersAnyAuthenticatedPacketReceived(p) \subseteq p
           /\ timersHandshakeInitiated(p) \subseteq p /\ timersHandshakeComplete(p) \subseteq p
           /\ timersSessionDerived(p) \subseteq p /\ Initiated(p) \subseteq p
<1>1. ASSUME NEW x PROVE Mod(x) = {}
  BY DEF Mod, timersActive
<1>2. \A x : Mod(x) = {}
  BY <1>1
<1> QED BY <1>2 DEF timersDataSent, timersDataReceived, timersAnyAuthenticatedPacketSent,
           timersAnyAuthenticatedPacketReceived, timersHandshakeInitiated,
           timersHandshakeComplete, timersSessionDerived, Initiated

\* Calm steps keep what LInv says.
LEMMA CalmKeeps ==
    ASSUME PlainInv, LInv, Calm
    PROVE  PlainInv' /\ LInv'
<1>1. PlainInv'
  BY DEF PlainInv, Calm
<1>2. CallersInv'
  BY DEF LInv, CallersInv, Calm, Holds, Stopping
<1>3. TimerInv'
  BY DEF LInv, TimerInv, Calm, ThreadsLive
<1>4. Lives' = Lives
  BY DEF Lives, Stopping, Calm
<1>5. RefsInv'
  BY <1>4 DEF LInv, RefsInv, Calm, ThreadsLive
<1> QED BY <1>1, <1>2, <1>3, <1>5 DEF LInv

LEMMA CalmStep ==
    ASSUME QueueAssumption, PlainInv, UNCHANGED life, age' \in {age, 0}, attempts' \in {attempts, 0},
           ~ isRunning => pending' \subseteq pending, ThreadsLive
    PROVE  Calm
<1>1. age' \in 0..2 /\ attempts' \in 0..MaxTimerHandshakes + 1
  BY Constants DEF PlainInv
<1>2. UNCHANGED <<dev, isRunning, caller, refs>>
  BY DEF life
<1> QED BY <1>1, <1>2, Zenon DEF Calm

LEMMA LoopCalm ==
    ASSUME QueueAssumption, NInv, PlainInv, NEW t \in Senders, SendStagedPackets(t)
    PROVE  Calm
<1>1. t \in Threads /\ ThreadsInv
  BY DEF Threads, NInv
<1>2. ThreadsLive
  <2>1. ~ At(t, "gone") /\ ~ At(t, "idle")
    BY Zenon DEF SendStagedPackets, Top, Take, Over, Check, Queue, At
  <2>2. \A u \in Threads : u # t => thread'[u] = thread[u]
    BY <1>1, Zenon DEF ThreadsInv, SendStagedPackets, Top, Take, Over, Check, Queue, Goto
  <2> QED BY <1>1, <2>1, <2>2, OnlyMoves, Zenon
<1>3. UNCHANGED life /\ age' = age
  BY Zenon DEF SendStagedPackets, Top, Take, Over, Check, Queue, keys
<1>4. attempts' \in {attempts, 0} /\ (pending' = pending \/ pending' = Initiated(pending))
  BY DEF SendStagedPackets, Top, Take, Over, Check, Queue, shake, SendHandshakeInitiation
<1>5. ~ isRunning => pending' \subseteq pending
  BY <1>4, HooksIdle
<1> QED BY <1>2, <1>3, <1>4, <1>5, CalmStep

LEMMA RoutinesCalm ==
    ASSUME QueueAssumption, NInv, PlainInv,
           RoutineSendPacket \/ RoutineEncryption \/ RoutineSequentialSender
    PROVE  Calm
<1>1. ThreadsInv
  BY DEF NInv
<1>2. CASE RoutineSendPacket
  <2>1. /\ At("packet", "idle") /\ Goto("packet", "top")
        /\ UNCHANGED <<life, age, attempts, pending>>
    BY <1>2 DEF RoutineSendPacket, keys, shake
  <2>2. ThreadsLive
    <3>1. ~ At("packet", "gone") /\ "packet" # "timer"
      BY <2>1 DEF At
    <3> QED BY <1>1, <2>1, <3>1, GotoLive, ThreadNames, RestingNames, Zenon
  <2> QED BY <2>1, <2>2, CalmStep
<1>3. CASE RoutineEncryption
  <2>1. UNCHANGED <<life, age, attempts, pending, thread>>
    BY <1>3 DEF RoutineEncryption, keys, shake
  <2> QED BY <2>1, StayLive, CalmStep
<1>4. CASE RoutineSequentialSender
  <2>1. /\ UNCHANGED <<life, age>> /\ At("sender", "idle")
        /\ thread' = thread \/ Goto("sender", "gone")
    BY <1>4 DEF RoutineSequentialSender, keys
  <2>2. ThreadsLive
    <3>1. ~ At("sender", "gone") /\ "sender" # "timer"
      BY <2>1 DEF At
    <3> QED BY <1>1, <2>1, <3>1, GotoLive, StayLive, ThreadNames, RestingNames, Zenon
  <2>3. attempts' \in {attempts, 0}
    BY <1>4 DEF RoutineSequentialSender, shake, SendHandshakeInitiation
  <2>4. ASSUME ~ isRunning
        PROVE  pending' \subseteq pending
    BY <1>4, <2>4 DEF RoutineSequentialSender, shake
  <2> QED BY <2>1, <2>2, <2>3, <2>4, CalmStep
<1> QED BY <1>2, <1>3, <1>4

LEMMA NetworkCalm ==
    ASSUME QueueAssumption, NInv, PlainInv,
           Lose \/ RekeyTimeout \/ RoutineReceiveIncoming \/ Age \/ ExpireCurrentKeypairs
    PROVE  Calm
<1>1. UNCHANGED <<life, attempts, pending, thread>>
  BY DEF Lose, RekeyTimeout, RoutineReceiveIncoming, Age, ExpireCurrentKeypairs, shake
<1>2. age' \in 0..2
  <2>1. age' = age \/ (age < 2 /\ age' = age + 1)
    BY DEF Lose, RekeyTimeout, RoutineReceiveIncoming, Age, ExpireCurrentKeypairs, keys
  <2>2. age \in 0..2
    BY DEF PlainInv
  <2> QED BY <2>1, <2>2
<1>3. ThreadsLive
  BY <1>1, StayLive
<1> QED BY <1>1, <1>2, <1>3 DEF Calm, life, PlainInv

LEMMA ShakesCalm ==
    ASSUME QueueAssumption, NInv, PlainInv,
           ConsumeMessageResponse \/ ConsumeMessageInitiation \/ SendHandshakeResponse
    PROVE  Calm
<1>1. ThreadsInv
  BY DEF NInv
<1>2. UNCHANGED life /\ age' \in {age, 0} /\ attempts' \in {attempts, 0}
  BY DEF ConsumeMessageResponse, ConsumeMessageInitiation, SendHandshakeResponse, keys
<1>3. ThreadsLive
  <2>1. /\ At("worker", "idle") \/ At("worker", "heard")
        /\ Goto("worker", "top") \/ Goto("worker", "heard") \/ Goto("worker", "idle")
    BY DEF ConsumeMessageResponse, ConsumeMessageInitiation, SendHandshakeResponse
  <2>2. ~ At("worker", "gone") /\ "worker" # "timer"
    BY <2>1 DEF At
  <2> QED BY <1>1, <2>1, <2>2, GotoLive, ThreadNames, RestingNames, Zenon
<1>4. ASSUME ~ isRunning
      PROVE  pending' \subseteq pending
  <2> DEFINE p == timersAnyAuthenticatedPacketReceived(pending)
             q == timersSessionDerived(p)
             r == timersSessionDerived(pending)
  <2>1. \/ pending' = timersHandshakeComplete(q) \/ pending' = p
        \/ pending' = timersAnyAuthenticatedPacketSent(r) \/ pending' = pending
    BY Zenon DEF ConsumeMessageResponse, ConsumeMessageInitiation, SendHandshakeResponse
  <2>2. p \subseteq pending /\ q \subseteq p /\ r \subseteq pending
    BY <1>4, HooksIdle
  <2> HIDE DEF p, q, r
  <2>3. timersHandshakeComplete(q) \subseteq q /\ timersAnyAuthenticatedPacketSent(r) \subseteq r
    BY <1>4, HooksIdle
  <2> QED BY <2>1, <2>2, <2>3
<1> QED BY <1>2, <1>3, <1>4, CalmStep

LEMMA ReceivesCalm ==
    ASSUME QueueAssumption, NInv, PlainInv, RoutineSequentialReceiver
    PROVE  Calm
<1>1. ThreadsInv
  BY DEF NInv
<1>2. UNCHANGED life /\ age' \in {age, 0} /\ attempts' \in {attempts, 0}
  BY DEF RoutineSequentialReceiver, ReceivedWithKeypair, Frame, Lookup, keys, shake,
         SendHandshakeInitiation
<1>3. ThreadsLive
  <2>1. /\ At("receiver", "idle") \/ At("receiver", "frame") \/ At("receiver", "lookup")
        /\ \/ Goto("receiver", "gone") \/ Goto("receiver", "frame") \/ Goto("receiver", "top")
           \/ Goto("receiver", "lookup") \/ Goto("receiver", "idle")
    BY Zenon DEF RoutineSequentialReceiver, ReceivedWithKeypair, Frame, Lookup
  <2>2. ~ At("receiver", "gone") /\ "receiver" # "timer"
    BY <2>1 DEF At
  <2> QED BY <1>1, <2>1, <2>2, GotoLive, ThreadNames, RestingNames, Zenon
<1>4. CASE ReceivedWithKeypair \/ Lookup
  <2>1. pending' = pending \/ pending' = timersHandshakeComplete(pending)
    BY <1>4 DEF ReceivedWithKeypair, Lookup, shake
  <2>2. ~ isRunning => pending' \subseteq pending
    BY <2>1, HooksIdle
  <2> QED BY <1>2, <1>3, <2>2, CalmStep
<1>5. CASE Frame
  <2> DEFINE more == pending \cup {"sentLastMinuteHandshake"}
  <2>1. PICK p \in {pending, Initiated(more)} :
           pending' = timersDataReceived(timersAnyAuthenticatedPacketReceived(p))
    BY <1>5, Zenon DEF Frame
  <2>2. ASSUME ~ isRunning
        PROVE  pending' \subseteq more
    <3>1. Initiated(more) \subseteq more
      BY <2>2, HooksIdle
    <3>2. p \subseteq more
      BY <3>1, Zenon
    <3> DEFINE q == timersAnyAuthenticatedPacketReceived(p)
    <3>3. q \subseteq p
      BY <2>2, HooksIdle
    <3> HIDE DEF q, more
    <3>4. timersDataReceived(q) \subseteq q
      BY <2>2, HooksIdle
    <3> QED BY <2>1, <3>2, <3>3, <3>4 DEF q
  <2>3. "sendKeepalive" \in pending' => "sendKeepalive" \in pending \/ isRunning
    BY <2>2
  <2>4. age' \in 0..2 /\ attempts' \in 0..MaxTimerHandshakes + 1
    BY <1>2, Constants DEF PlainInv
  <2> QED BY <1>2, <1>3, <2>3, <2>4 DEF Calm, life
<1> QED BY <1>4, <1>5 DEF RoutineSequentialReceiver

LEMMA TimersCalm ==
    ASSUME QueueAssumption, NInv, PlainInv, Timers
    PROVE  Calm
<1>1. ThreadsInv
  BY DEF NInv
<1>2. UNCHANGED <<life, age>>
  BY Zenon DEF Timers, expiredRetransmitHandshake, expiredSendKeepalive, AnotherKeepalive,
         expiredNewHandshake, expiredZeroKeyMaterial, ZeroAndFlushAll, keys
<1>3. CASE expiredRetransmitHandshake
  <2> DEFINE p == pending \ {"retransmitHandshake"}
  <2>1. /\ thread' = thread
        /\ attempts' = attempts \/ (~ (attempts > MaxTimerHandshakes) /\ attempts' = attempts + 1)
        /\ \/ pending' = Initiated(p)
           \/ pending' = (p \ Del("sendKeepalive")) \cup Mod("zeroKeyMaterial")
    BY <1>3, Zenon DEF expiredRetransmitHandshake, SendHandshakeInitiation
  <2>2. attempts' \in 0..MaxTimerHandshakes + 1
    BY <2>1, Constants DEF PlainInv
  <2>3. ASSUME ~ isRunning
        PROVE  pending' \subseteq pending
    <3>1. Mod("zeroKeyMaterial") = {}
      BY <2>3 DEF Mod, timersActive
    <3>2. Initiated(p) \subseteq p
      BY <2>3, HooksIdle
    <3> QED BY <2>1, <3>1, <3>2, Zenon
  <2>4. ThreadsLive
    BY <2>1, StayLive
  <2>5. UNCHANGED <<dev, isRunning, caller, refs>> /\ age' \in 0..2
    BY <1>2 DEF life, PlainInv
  <2> QED BY <2>2, <2>3, <2>4, <2>5, Zenon DEF Calm
<1>4. CASE expiredSendKeepalive
  <2>1. /\ At("timer", "idle") /\ "sendKeepalive" \in pending /\ Goto("timer", "top")
        /\ pending' \subseteq pending /\ attempts' = attempts
    BY <1>4 DEF expiredSendKeepalive
  <2>2. ThreadsLive
    <3>1. ~ At("timer", "gone")
      BY <2>1 DEF At
    <3> QED BY <1>1, <2>1, <3>1, GotoLive, ThreadNames, RestingNames, Zenon
  <2> QED BY <1>2, <2>1, <2>2, CalmStep
<1>5. CASE AnotherKeepalive
  <2>1. /\ At("timer", "again") /\ Goto("timer", "idle") /\ attempts' = attempts
        /\ pending' \subseteq pending \cup Mod("sendKeepalive")
    BY <1>5 DEF AnotherKeepalive
  <2>2. ~ isRunning => pending' \subseteq pending
    BY <2>1 DEF Mod, timersActive
  <2>3. ThreadsLive
    <3>1. ~ At("timer", "gone") /\ ~ At("timer", "idle")
      BY <2>1 DEF At
    <3> QED BY <1>1, <2>1, <3>1, GotoLive, ThreadNames, RestingNames, Zenon
  <2> QED BY <1>2, <2>1, <2>2, <2>3, CalmStep
<1>6. CASE expiredNewHandshake \/ expiredZeroKeyMaterial
  <2> DEFINE p == pending \ {"newHandshake"}
  <2>1. /\ thread' = thread /\ attempts' \in {attempts, 0}
        /\ pending' = Initiated(p) \/ pending' \subseteq pending
    BY <1>6 DEF expiredNewHandshake, expiredZeroKeyMaterial, SendHandshakeInitiation,
                ZeroAndFlushAll
  <2>2. ~ isRunning => pending' \subseteq pending
    <3>1. ~ isRunning => Initiated(p) \subseteq p
      BY HooksIdle
    <3> QED BY <2>1, <3>1, Zenon
  <2> QED BY <1>2, <2>1, <2>2, StayLive, CalmStep
<1> QED BY <1>3, <1>4, <1>5, <1>6 DEF Timers

\* The other calls stay where they are.
CallMoves(c, pc) ==
  /\ caller' \in [Callers -> CallState] /\ caller'[c].pc = pc
  /\ \A d \in Callers : d # c => caller'[d] = caller[d]

LEMMA CallSet ==
    ASSUME CallersInv, NEW c \in Callers, NEW v \in CallState, caller' = [caller EXCEPT ![c] = v]
    PROVE  CallMoves(c, v.pc)
  BY DEF CallersInv, CallMoves

LEMMA CallNames ==
    /\ NoCall \in CallState /\ NoCall.pc = "idle"
    /\ "main" \in Callers /\ "api" \in Callers /\ "main" # "api"
    /\ \A c \in Callers : c = "main" \/ c = "api"
  BY DEF NoCall, CallState, CallOps, CallPcs, Callers

LEMMA StepSet ==
    ASSUME CallersInv, NEW c \in Callers, NEW pc \in CallPcs, Step(c, pc)
    PROVE  CallMoves(c, pc)
<1>1. caller[c] \in CallState
  BY DEF CallersInv
<1>2. PICK v : v = [caller[c] EXCEPT !.pc = pc]
  BY Zenon
<1>3. v \in CallState /\ v.pc = pc
  BY <1>1, <1>2 DEF CallState
<1>4. caller' = [caller EXCEPT ![c] = v]
  BY <1>2 DEF Step
<1> QED BY <1>3, <1>4, CallSet, Zenon

\* A call goes on, outside of Stop.
LEMMA CallKeeps ==
    ASSUME LInv, NEW c \in Callers, NEW pc, CallMoves(c, pc),
           ~ Stopping(c), pc \notin {"timers", "nil", "wait"},
           pc \in {"stop", "stopped"} => Holds(c) \/ \A d \in Callers : d # c => ~ Holds(d),
           UNCHANGED <<isRunning, pending, thread>>,
           "peer" \in refs => "peer" \in refs', "worker" \in refs => "worker" \in refs'
    PROVE  LInv'
<1>1. \A d \in Callers : Stopping(d)' <=> Stopping(d)
  BY DEF CallMoves, Stopping
<1>2. CallersInv'
  <2>1. \A d \in Callers : d # c => (Holds(d)' <=> Holds(d))
    BY DEF CallMoves, Holds
  <2>2. Holds(c)' => Holds(c) \/ \A d \in Callers : d # c => ~ Holds(d)
    BY DEF CallMoves, Holds
  <2>3. ~ (Holds("main") /\ Holds("api"))
    BY DEF LInv, CallersInv
  <2>4. ~ (Holds("main")' /\ Holds("api")')
    BY <2>1, <2>2, <2>3, CallNames, Zenon
  <2>5. \A d \in Callers : Stopping(d)' => ~ isRunning'
    BY <1>1 DEF LInv, CallersInv
  <2> QED BY <2>4, <2>5 DEF CallersInv, CallMoves
<1>3. TimerInv'
  <2>1. \A d \in Callers : caller[d].pc = "timers" => caller'[d].pc = "timers"
    BY DEF CallMoves, Stopping
  <2> QED BY <2>1 DEF LInv, TimerInv, At
<1>4. RefsInv'
  <2>1. Lives' <=> Lives
    BY <1>1 DEF Lives
  <2> QED BY <2>1 DEF LInv, RefsInv, At
<1> QED BY <1>2, <1>3, <1>4 DEF LInv

LEMMA PlainCalls ==
    ASSUME QueueAssumption, PlainInv,
           Call \/ RemovePeer \/ RoutineReadFromTUN \/ RoutineHandshakeEnds
           \/ \E want \in {"up", "down", "closed"} : changeState(want)
    PROVE  PlainInv'
<1>1. dev' \in {"down", "up", "closed"} /\ isRunning' \in BOOLEAN
  BY Zenon DEF PlainInv, Call, Start, downLocked, RemovePeerLocks, RemoveAllPeers, Closed, StopSteps,
         Stop, Stopped, RemovePeer, RoutineReadFromTUN, RoutineHandshakeEnds, changeState
<1>2. age' = age /\ attempts' \in {attempts, 0}
  BY Zenon DEF Call, Start, downLocked, RemovePeerLocks, RemoveAllPeers, Closed, StopSteps,
         Stop, Stopped, RemovePeer, RoutineReadFromTUN, RoutineHandshakeEnds, changeState,
         ZeroAndFlushAll, keys, shake
<1>3. refs' \subseteq refs \cup {"peer"}
  BY DEF Call, Start, downLocked, RemovePeerLocks, RemoveAllPeers, Closed, StopSteps,
         Stop, Stopped, RemovePeer, RoutineReadFromTUN, RoutineHandshakeEnds, changeState
<1> QED BY <1>1, <1>2, <1>3, Constants DEF PlainInv

\* A reference other than the peer's is given up.
LEMMA RefsKeep ==
    ASSUME LInv, UNCHANGED <<isRunning, caller, pending>>, ThreadsLive,
           "peer" \in refs => "peer" \in refs',
           "worker" \in refs => "worker" \in refs' \/ At("worker", "gone")'
    PROVE  LInv'
<1>1. CallersInv'
  BY DEF LInv, CallersInv, Holds, Stopping
<1>2. TimerInv'
  BY DEF LInv, TimerInv, ThreadsLive
<1>3. Lives' <=> Lives
  BY DEF Lives, Stopping
<1>4. RefsInv'
  BY <1>3 DEF LInv, RefsInv, ThreadsLive
<1> QED BY <1>1, <1>2, <1>4 DEF LInv

LEMMA EndsKeep ==
    ASSUME NInv, LInv, RoutineReadFromTUN \/ RoutineHandshakeEnds
    PROVE  LInv'
<1>1. UNCHANGED <<isRunning, caller, pending>> /\ ("peer" \in refs => "peer" \in refs')
  BY DEF RoutineReadFromTUN, RoutineHandshakeEnds, shake
<1>2. CASE RoutineReadFromTUN
  <2>1. thread' = thread /\ ("worker" \in refs => "worker" \in refs')
    BY <1>2 DEF RoutineReadFromTUN
  <2> QED BY <1>1, <2>1, StayLive, RefsKeep
<1>3. CASE RoutineHandshakeEnds
  <2>1. ThreadsInv /\ At("worker", "idle") /\ Goto("worker", "gone")
    BY <1>3 DEF NInv, RoutineHandshakeEnds
  <2>2. ~ At("worker", "gone") /\ "worker" # "timer"
    BY <2>1 DEF At
  <2>3. ThreadsLive
    BY <2>1, <2>2, GotoLive, ThreadNames, RestingNames, Zenon
  <2>4. At("worker", "gone")'
    BY <2>1, Goes, ThreadNames, RestingNames, Zenon DEF At
  <2> QED BY <1>1, <2>3, <2>4, RefsKeep
<1> QED BY <1>2, <1>3

LEMMA CallsKeep ==
    ASSUME LInv, \/ downLocked \/ RemovePeer \/ RemovePeerLocks \/ RemoveAllPeers \/ Closed
                 \/ \E c \in Callers : Stopped(c)
                 \/ \E want \in {"up", "down", "closed"} : changeState(want)
    PROVE  LInv'
<1>1. CallersInv
  BY DEF LInv
<1>2. /\ UNCHANGED <<isRunning, pending, thread>>
      /\ "peer" \in refs => "peer" \in refs'
      /\ "worker" \in refs => "worker" \in refs'
  BY DEF downLocked, RemovePeer, RemovePeerLocks, RemoveAllPeers, Closed, Stopped, changeState,
         shake
<1>3. CASE downLocked
  <2>1. PICK pc \in {"stop", "stopped"} : Step("main", pc)
    BY <1>3 DEF downLocked
  <2>2. ~ Stopping("main") /\ ~ Holds("api")
    BY <1>3 DEF downLocked, Stopping, CanRLock
  <2>3. pc \in CallPcs
    BY DEF CallPcs
  <2>4. CallMoves("main", pc)
    BY <1>1, <2>1, <2>3, StepSet, CallNames, Zenon
  <2>5. \A d \in Callers : d # "main" => ~ Holds(d)
    BY <2>2, CallNames, Zenon
  <2> QED BY <1>2, <2>2, <2>4, <2>5, CallKeeps, CallNames
<1>4. CASE RemovePeerLocks
  <2>1. PICK pc \in {"stop", "stopped"} : Step("api", pc)
    BY <1>4 DEF RemovePeerLocks
  <2>2. ~ Stopping("api") /\ ~ Holds("main")
    BY <1>4 DEF RemovePeerLocks, Stopping, CanLock
  <2>3. pc \in CallPcs
    BY DEF CallPcs
  <2>4. CallMoves("api", pc)
    BY <1>1, <2>1, <2>3, StepSet, CallNames, Zenon
  <2>5. \A d \in Callers : d # "api" => ~ Holds(d)
    BY <2>2, CallNames, Zenon
  <2> QED BY <1>2, <2>2, <2>4, <2>5, CallKeeps, CallNames
<1>5. ASSUME NEW c \in Callers, NEW v \in CallState, caller' = [caller EXCEPT ![c] = v],
             ~ Stopping(c), v.pc \notin {"stop", "timers", "nil", "wait", "stopped"}
      PROVE  LInv'
  <2>1. CallMoves(c, v.pc)
    BY <1>1, <1>5, CallSet, Zenon
  <2> QED BY <1>2, <1>5, <2>1, CallKeeps
<1>6. CASE RemovePeer
  <2>1. PICK v : v = [op |-> "remove", pc |-> "lock"]
    BY Zenon
  <2>2. v \in CallState /\ v.pc = "lock"
    BY <2>1 DEF CallState, CallOps, CallPcs
  <2>3. caller' = [caller EXCEPT !["api"] = v] /\ ~ Stopping("api")
    BY <1>6, <2>1, CallNames DEF RemovePeer, Stopping
  <2> QED BY <1>5, <2>2, <2>3, CallNames, Zenon
<1>7. CASE RemoveAllPeers
  <2>1. Step("main", "ends") /\ ~ Stopping("main")
    BY <1>7 DEF RemoveAllPeers, Stopping
  <2>2. "ends" \in CallPcs
    BY DEF CallPcs
  <2>3. CallMoves("main", "ends")
    BY <1>1, <2>1, <2>2, StepSet, CallNames, Zenon
  <2> QED BY <1>2, <2>1, <2>3, CallKeeps, CallNames
<1>8. CASE Closed
  <2>1. caller' = [caller EXCEPT !["main"] = NoCall] /\ ~ Stopping("main")
    BY <1>8 DEF Closed, Stopping
  <2> QED BY <1>5, <2>1, CallNames, Zenon
<1>9. ASSUME NEW c \in Callers, Stopped(c)
      PROVE  LInv'
  <2>1. caller[c] \in CallState /\ ~ Stopping(c)
    BY <1>1, <1>9 DEF CallersInv, Stopped, Stopping
  <2>2. PICK v : v = IF caller[c].op = "closed" THEN [caller[c] EXCEPT !.pc = "removeAll"] ELSE NoCall
    BY Zenon
  <2>3. v \in CallState /\ v.pc \in {"removeAll", "idle"}
    BY <2>1, <2>2, CallNames DEF CallState, CallPcs
  <2>4. caller' = [caller EXCEPT ![c] = v]
    BY <1>9, <2>2 DEF Stopped
  <2> QED BY <1>5, <2>1, <2>3, <2>4, Zenon
<1>10. ASSUME NEW want \in {"up", "down", "closed"}, changeState(want)
       PROVE  LInv'
  <2>1. ~ Stopping("main")
    BY <1>10, CallNames DEF changeState, Stopping
  <2>2. CASE caller' = caller
    <3>1. UNCHANGED <<isRunning, pending, thread, refs>>
      BY <1>10 DEF changeState, shake
    <3> QED BY <2>2, <3>1, StayLive, RefsKeep
  <2>3. CASE caller' # caller
    <3>1. PICK op \in {"up", "down", "closed"}, pc \in {"start", "rlock"} :
             caller' = [caller EXCEPT !["main"] = [op |-> op, pc |-> pc]]
      BY <1>10, <2>3 DEF changeState
    <3>2. PICK v : v = [op |-> op, pc |-> pc]
      BY Zenon
    <3>3. v \in CallState /\ v.pc = pc
      BY <3>2 DEF CallState, CallOps, CallPcs
    <3> QED BY <1>5, <2>1, <3>1, <3>2, <3>3, CallNames, Zenon
  <2> QED BY <2>2, <2>3
<1> QED BY <1>3, <1>4, <1>6, <1>7, <1>8, <1>9, <1>10

LEMMA StartKeeps ==
    ASSUME NInv, LInv, Start
    PROVE  LInv'
<1>1. CallersInv /\ ThreadsInv
  BY DEF LInv, NInv
<1>2. CallMoves("main", "idle") /\ ~ Stopping("main") /\ ~ Holds("api")
  <2>1. caller' = [caller EXCEPT !["main"] = NoCall] /\ ~ Stopping("main") /\ ~ Holds("api")
    BY DEF Start, Stopping, CanRLock
  <2> QED BY <1>1, <2>1, CallSet, CallNames, Zenon
<1>3. CASE ~ inMap
  <2>1. UNCHANGED <<isRunning, pending, thread, refs>>
    BY <1>3 DEF Start
  <2> QED BY <1>2, <2>1, CallKeeps, CallNames
<1>4. CASE inMap
  <2>1. isRunning' = TRUE /\ refs' = refs \cup {"peer"}
    BY <1>4 DEF Start
  <2>2. thread'["worker"] = thread["worker"]
    BY <1>1, <1>4, ThreadNames DEF Start, ThreadsInv
  <2>3. \A d \in Callers : ~ Stopping(d)'
    BY <1>2, CallNames DEF CallMoves, Stopping, Holds
  <2>4. ~ Holds("main")'
    BY <1>2 DEF CallMoves, Holds
  <2>5. CallersInv'
    BY <1>2, <2>3, <2>4 DEF CallersInv, CallMoves
  <2>6. TimerInv'
    BY <2>1 DEF TimerInv
  <2>7. RefsInv'
    BY <2>1, <2>2 DEF RefsInv, Lives, LInv, At
  <2> QED BY <2>5, <2>6, <2>7 DEF LInv
<1> QED BY <1>3, <1>4

LEMMA StopKeeps ==
    ASSUME LInv, NEW c \in Callers, StopSteps(c)
    PROVE  LInv'
<1>1. CallersInv /\ thread' = thread
  BY DEF LInv, StopSteps
<1>2. /\ {"stop", "timers", "nil", "wait", "stopped"} \subseteq CallPcs
      /\ \A pc \in CallPcs : Step(c, pc) => CallMoves(c, pc)
  BY <1>1, StepSet DEF CallPcs
<1>3. \A d \in Callers : d # c => ~ Holds(d)
  <2>1. Holds(c)
    BY DEF StopSteps, Stop, Holds
  <2> QED BY <1>1, <2>1, CallNames DEF CallersInv
<1>4. ASSUME NEW pc, CallMoves(c, pc), ~ isRunning'
      PROVE  /\ CallersInv'
             /\ Lives' <=> pc \in {"timers", "nil", "wait"}
  <2>1. \A d \in Callers : d # c => ~ Holds(d)' /\ ~ Stopping(d)'
    BY <1>3, <1>4 DEF CallMoves, Holds, Stopping
  <2>2. ~ (Holds("main")' /\ Holds("api")')
    BY <2>1, CallNames, Zenon
  <2>3. CallersInv'
    BY <1>4, <2>2 DEF CallersInv, CallMoves
  <2>4. Stopping(c)' <=> pc \in {"timers", "nil", "wait"}
    BY <1>4 DEF CallMoves, Stopping
  <2> QED BY <1>4, <2>1, <2>3, <2>4 DEF Lives
<1>5. CASE caller[c].pc = "stop"
  <2>1. PICK pc \in CallPcs : Step(c, pc) /\ pc = IF isRunning THEN "timers" ELSE "stopped"
    BY <1>2, <1>5 DEF StopSteps, Stop
  <2>2. ~ isRunning' /\ UNCHANGED <<pending, refs>>
    BY <1>5, Zenon DEF StopSteps, Stop, shake
  <2>3. CallMoves(c, pc)
    BY <1>2, <2>1
  <2>4. CallersInv' /\ (Lives' <=> isRunning)
    BY <1>4, <2>1, <2>2, <2>3
  <2>5. ~ \E d \in Callers : caller[d].pc = "timers"
    BY <1>3, <1>5 DEF Holds
  <2>6. TimerInv'
    BY <1>1, <2>1, <2>2, <2>3, <2>5, Zenon DEF LInv, TimerInv, CallMoves, At
  <2>7. Lives <=> isRunning
    BY <1>3, <1>5 DEF Lives, Stopping, Holds
  <2>8. RefsInv'
    BY <1>1, <2>2, <2>4, <2>7, Zenon DEF LInv, RefsInv, At
  <2> QED BY <2>4, <2>6, <2>8 DEF LInv
<1>6. CASE caller[c].pc \in {"timers", "nil"}
  <2>1. PICK pc \in {"nil", "wait"} : Step(c, pc) /\ UNCHANGED <<isRunning, refs>>
    BY <1>6, Zenon DEF StopSteps, Stop
  <2>2. CallMoves(c, pc)
    BY <1>2, <2>1
  <2>3. ~ isRunning
    BY <1>6 DEF LInv, CallersInv, Stopping
  <2>4. Lives /\ Lives' /\ CallersInv'
    BY <1>4, <1>6, <2>1, <2>2, <2>3, Zenon DEF Lives, Stopping
  <2>5. At("timer", "idle") /\ "sendKeepalive" \notin pending'
    <3>1. CASE caller[c].pc = "timers"
      BY <3>1, Zenon DEF StopSteps, Stop, TimersStopped
    <3>2. CASE caller[c].pc = "nil"
      <4>1. pending' = pending
        BY <3>2 DEF StopSteps, Stop, shake
      <4>2. ~ \E d \in Callers : caller[d].pc = "timers"
        BY <1>3, <3>2 DEF Holds
      <4> QED BY <2>3, <4>1, <4>2 DEF LInv, TimerInv
    <3> QED BY <1>6, <3>1, <3>2
  <2>6. TimerInv'
    BY <1>1, <2>5 DEF TimerInv, At
  <2>7. RefsInv'
    BY <1>1, <2>1, <2>4 DEF LInv, RefsInv, At
  <2> QED BY <2>4, <2>6, <2>7 DEF LInv
<1>7. CASE caller[c].pc = "wait"
  <2>1. /\ Step(c, "stopped") /\ UNCHANGED <<isRunning, pending>>
        /\ refs' = refs \ {"peer"} /\ At("receiver", "gone")
    BY <1>7, Zenon DEF StopSteps, Stop
  <2>2. CallMoves(c, "stopped")
    BY <1>2, <2>1
  <2>3. ~ isRunning
    BY <1>7 DEF LInv, CallersInv, Stopping
  <2>4. CallersInv' /\ ~ Lives'
    BY <1>4, <2>1, <2>2, <2>3
  <2>5. ~ \E d \in Callers : caller[d].pc = "timers"
    BY <1>3, <1>7 DEF Holds
  <2>6. TimerInv'
    BY <1>1, <2>1, <2>3, <2>5, Zenon DEF LInv, TimerInv, At
  <2>7. RefsInv'
    BY <1>1, <2>1, <2>4 DEF LInv, RefsInv, At
  <2> QED BY <2>4, <2>6, <2>7 DEF LInv
<1> QED BY <1>5, <1>6, <1>7, Zenon DEF StopSteps, Stop

LEMMA LifeInit ==
    ASSUME QueueAssumption, Init
    PROVE  PlainInv /\ LInv
<1>1. PlainInv
  <2>1. dev = "down" /\ isRunning = FALSE /\ age = 0 /\ attempts = 0
    BY Zenon DEF Init
  <2>2. refs = {"device", "tun", "worker"}
    BY Zenon DEF Init
  <2>3. refs \subseteq {"device", "tun", "worker", "peer"}
    BY <2>2, Zenon
  <2>4. isRunning \in BOOLEAN
    BY <2>1, Zenon
  <2> QED BY <2>1, <2>3, <2>4, Constants DEF PlainInv
<1>2. \A c \in Callers : caller[c] = NoCall
  BY DEF Init, Callers
<1>3. \A c \in Callers : ~ Stopping(c) /\ ~ Holds(c)
  BY <1>2, CallNames DEF Stopping, Holds
<1>4. CallersInv
  <2>1. caller \in [Callers -> CallState]
    BY CallNames DEF Init, Callers
  <2> QED BY <1>3, <2>1, CallNames DEF CallersInv
<1>5. At("timer", "idle") /\ At("receiver", "gone")
  BY ThreadNames DEF Init, At, Idle, Gone
<1>6. TimerInv
  BY <1>5 DEF Init, TimerInv
<1>7. RefsInv
  BY <1>3, <1>5 DEF Init, RefsInv, Lives
<1> QED BY <1>1, <1>4, <1>6, <1>7 DEF LInv

LEMMA LifeStep ==
    ASSUME QueueAssumption, NInv, PlainInv, LInv, [Next]_vars
    PROVE  PlainInv' /\ LInv'
<1>1. CASE Calm
  BY <1>1, CalmKeeps
<1>2. ASSUME NEW t \in Senders, SendStagedPackets(t)
      PROVE  Calm
  BY <1>2, LoopCalm
<1>3. CASE RoutineSendPacket \/ RoutineEncryption \/ RoutineSequentialSender
  BY <1>1, <1>3, RoutinesCalm
<1>4. CASE Lose \/ RekeyTimeout \/ RoutineReceiveIncoming \/ Age \/ ExpireCurrentKeypairs
  BY <1>1, <1>4, NetworkCalm
<1>5. CASE ConsumeMessageResponse \/ ConsumeMessageInitiation \/ SendHandshakeResponse
  BY <1>1, <1>5, ShakesCalm
<1>6. CASE RoutineSequentialReceiver
  BY <1>1, <1>6, ReceivesCalm
<1>7. CASE Timers
  BY <1>1, <1>7, TimersCalm
<1>8. CASE RoutineReadFromTUN \/ RoutineHandshakeEnds
  BY <1>8, EndsKeep, PlainCalls, Zenon
<1>9. CASE RemovePeer \/ \E want \in {"up", "down", "closed"} : changeState(want)
  BY <1>9, CallsKeep, PlainCalls, Zenon
<1>10. CASE Call
  <2>1. PlainInv'
    BY <1>10, PlainCalls, Zenon
  <2>2. LInv'
    <3>1. CASE Start
      BY <3>1, StartKeeps
    <3>2. CASE downLocked \/ RemovePeerLocks \/ RemoveAllPeers \/ Closed
      BY <3>2, CallsKeep, Zenon
    <3>3. ASSUME NEW c \in Callers, StopSteps(c) \/ Stopped(c)
          PROVE  LInv'
      BY <3>3, StopKeeps, CallsKeep, Zenon
    <3> QED BY <1>10, <3>1, <3>2, <3>3, Zenon DEF Call, Callers
  <2> QED BY <2>1, <2>2
<1>11. CASE UNCHANGED vars
  <2>1. Calm
    <3>1. ThreadsLive
      BY <1>11, StayLive DEF vars
    <3> QED BY <1>11, <3>1, Zenon DEF vars, Calm, life, shake, keys, PlainInv
  <2> QED BY <1>1, <2>1
<1> QED BY <1>1, <1>2, <1>3, <1>4, <1>5, <1>6, <1>7, <1>8, <1>9, <1>10, <1>11, Zenon
        DEF Next, RoutineHandshake

LEMMA LifeInvariant == Spec => [](NInv /\ PlainInv /\ LInv)
<1>1. Init => PlainInv /\ LInv
  BY LifeInit, QueueAssumption
<1>2. NInv /\ PlainInv /\ LInv /\ [Next]_vars => PlainInv' /\ LInv'
  BY LifeStep, QueueAssumption
<1> QED BY <1>1, <1>2, NonceInvariant, PTL DEF Spec

\* The timers, the handshake worker and the sequential receiver find the
\* encryption queue open when they hand an element to it, however Up, Down,
\* RemovePeer and Close interleave with them: Peer.Stop waits for the timers and
\* for the receiver before it gives up the reference of the peer, and the worker
\* gives up its own as it ends.
THEOREM WritersFindQueueOpen == Spec => []WritersHoldRefs
<1>1. ASSUME NInv, LInv PROVE WritersHoldRefs
  <2> SUFFICES ASSUME NEW t \in Senders \ {"packet"}, thread[t].pc \in {"check", "queue"}
               PROVE  Open
    BY DEF WritersHoldRefs
  <2>1. t = "timer" \/ t = "worker" \/ t = "receiver"
    BY DEF Senders
  <2>2. ~ At(t, "idle") /\ ~ At(t, "gone")
    BY DEF At
  <2>3. CASE t = "worker"
    BY <1>1, <2>2, <2>3 DEF LInv, RefsInv, Open
  <2>4. CASE t = "receiver"
    BY <1>1, <2>2, <2>4 DEF LInv, RefsInv, Open
  <2>5. CASE t = "timer"
    <3>1. Lives
      BY <1>1, <2>2, <2>5 DEF LInv, TimerInv, Lives, Stopping
    <3> QED BY <1>1, <3>1 DEF LInv, RefsInv, Open
  <2> QED BY <2>1, <2>3, <2>4, <2>5
<1> QED BY <1>1, LifeInvariant, PTL

\* The type of the state, for any number of packets and keys: the staged packets
\* stay within QueueStagedSize, every element in a queue has a key of the peer
\* and a nonce within the limit, and the counter of a key passes
\* RejectAfterMessages by no more than the four threads that may overdraw it.
THEOREM TypeCorrect == Spec => []TypeOK
<1>1. ASSUME NInv, PlainInv PROVE TypeOK
  <2>1. CountInv /\ StagedInv /\ KeysInv /\ QueuesInv /\ CountersInv /\ scenario.packets \in Nat
    BY <1>1, PacketsNat, QueueAssumption DEF NInv, CountInv
  <2>2. ASSUME NEW e, Numbered(e)
        PROVE  e \in Elements
    <3>1. /\ e \in Elem /\ e.id <= scenario.packets /\ e.key \in DOMAIN sendNonce
          /\ e.nonce < RejectAfterMessages
      BY <2>2 DEF Numbered
    <3>2. e.id \in 0..scenario.packets /\ e.nonce \in 0..RejectAfterMessages + 3
      BY <2>1, <3>1, Constants, QueueAssumption DEF Elem
    <3> QED BY <3>1, <3>2 DEF Elem, Elements
  <2>3. crypting \subseteq Elements
    BY <2>1, <2>2 DEF QueuesInv
  <2>4. Range(outbound) \subseteq Elements \cup {Nil}
    <3> SUFFICES ASSUME NEW e \in Range(outbound) PROVE e \in Elements \cup {Nil}
      OBVIOUS
    <3>1. PICK i \in DOMAIN outbound : e = outbound[i]
      BY DEF Range
    <3>2. i \in 1..Len(outbound)
      BY <2>1, <3>1 DEF QueuesInv
    <3> QED BY <2>1, <2>2, <3>1, <3>2 DEF QueuesInv
  <2>5. sendNonce \in Seq(0..RejectAfterMessages + 4)
    <3>1. sendNonce \in [1..Len(sendNonce) -> Nat] /\ Len(sendNonce) \in Nat
      BY <2>1 DEF KeysInv
    <3>2. ASSUME NEW k \in 1..Len(sendNonce)
          PROVE  sendNonce[k] \in 0..RejectAfterMessages + 4
      <4>1. sendNonce[k] \in Nat /\ sendNonce[k] <= RejectAfterMessages + Overs(k)
        BY <2>1, <3>1 DEF CountersInv
      <4>2. Overs(k) \in 0..4
        BY AtMostFour, Zenon
      <4> QED BY <4>1, <4>2, Constants, QueueAssumption
    <3>3. sendNonce \in [1..Len(sendNonce) -> 0..RejectAfterMessages + 4]
      BY <3>1, <3>2
    <3> QED BY <3>1, <3>3, SeqOf, Zenon
  <2> QED BY <1>1, <2>1, <2>3, <2>4, <2>5 DEF TypeOK, PlainInv, StagedInv, KeysInv
<1> QED BY <1>1, LifeInvariant, PTL
=============================================================================
