---------------------------- MODULE PeerQueues -------------------------------
(***************************************************************************)
(* One peer of a device: the packets staged for it, the keys and nonces    *)
(* they are sealed with, the queues between its routines, its timers, and  *)
(* how Up, Down, RemovePeer and Close start and stop all this.             *)
(*                                                                         *)
(* Four threads call SendStagedPackets: RoutineSendPacket, a timer, a      *)
(* handshake worker and the sequential receiver.  Handshakes are seen from *)
(* this side only: an initiation may be lost or answered, and the other    *)
(* side may initiate.  Time passes at will.                                *)
(***************************************************************************)
EXTENDS Integers, Sequences, Functions

CONSTANTS
  QueueStagedSize,      \* staged packets before the oldest is dropped
  RekeyAfterMessages,   \* nonces of a key before a new one is asked for
  RejectAfterMessages,  \* nonces of a key
  Word,                 \* 2^64: the nonce counter is a uint64
  MaxTimerHandshakes,   \* retries before giving up
  Scenarios,            \* [packets, data, offers, expiries, timers, main, remove,
                        \* lossy]: bounds on
                        \* packets, received packets, handshakes of the other side and
                        \* expiries, the timers that matter, the calls of Up, Down and
                        \* Close in order, whether the peer is removed, and whether
                        \* initiations get lost
  Nil                   \* no keypair, no element, and the sentinel in a queue

Senders == {"packet", "timer", "worker", "receiver"}
Threads == Senders \cup {"sender"}

ASSUME QueueAssumption ==
  /\ QueueStagedSize \in Nat \ {0}
  /\ {RekeyAfterMessages, RejectAfterMessages, MaxTimerHandshakes} \subseteq Nat
  /\ Word \in Nat /\ RejectAfterMessages + 4 < Word  \* (1<<64) - (1<<13) - 1
  /\ Scenarios \subseteq
       [packets : Nat, data : Nat, offers : Nat, expiries : Nat, timers : SUBSET STRING,
        main : Seq({"up", "down", "closed"}), remove : BOOLEAN, lossy : BOOLEAN]

VARIABLES
  scenario,  \* fixed
  dev,       \* device.state: down, up or closed
  isRunning, \* of the peer
  thread,    \* where each thread is, with the key and the element it holds
  staged,    \* queue.staged: the numbers of packets, 0 for a keepalive
  outbound,  \* queue.outbound: elements [id, key, nonce] and the sentinel
  inbound,   \* queue.inbound: data and the sentinel
  crypting,  \* device.queue.encryption: elements still to be sealed
  current,   \* keypairs.current
  offered,   \* keypairs.next
  sendNonce, \* of every key derived so far; a key is its place here
  age,       \* of the current keypair: 1 after RekeyAfterTime, 2 after RejectAfterTime
  mine,      \* the keys this side initiated
  asked,     \* handshake.state: none, our initiation is sent or lost, or theirs is heard
  last,      \* the message of lastSentHandshake: asked a session, led to one, or failed
  recent,    \* lastSentHandshake is not older than RekeyTimeout
  attempts,  \* timers.handshakeAttempts
  pending,   \* the timers pending and the flags of peer.timers that are set
  caller,    \* Up, Down and Close ("main") and RemovePeer ("api"): the call and its place
  calls,     \* the calls still to be made
  inMap,     \* the peer is in device.peers
  refs,      \* who has a reference to device.queue.encryption
  count      \* [packets, data, offers, expiries] so far

queues == <<staged, outbound, inbound, crypting>>
keys == <<current, offered, sendNonce, age, mine>>
shake == <<asked, last, recent, attempts, pending>>
life == <<dev, isRunning, caller, calls, inMap, refs>>
vars == <<scenario, queues, keys, shake, life, thread, count>>

Idle == [pc |-> "idle", key |-> Nil, elem |-> Nil]
Gone == [Idle EXCEPT !.pc = "gone"]
NoCall == [op |-> "none", pc |-> "idle"]

Init ==
  /\ scenario \in Scenarios
  /\ dev = "down" /\ isRunning = FALSE
  /\ thread = [t \in Threads |-> IF t \in {"receiver", "sender"} THEN Gone ELSE Idle]
  /\ staged = <<>> /\ outbound = <<>> /\ inbound = <<>> /\ crypting = {}
  /\ current = Nil /\ offered = Nil /\ age = 0 /\ mine = {}
  /\ sendNonce = <<>>
  /\ asked = "no" /\ last = "none" /\ recent = FALSE /\ attempts = 0 /\ pending = {}
  /\ caller = [c \in {"main", "api"} |-> NoCall]
  /\ calls = scenario.main /\ inMap = TRUE
  /\ refs = {"device", "tun", "worker"}
  /\ count = [packets |-> 0, data |-> 0, offers |-> 0, expiries |-> 0]

Count(field) ==
  /\ count[field] < scenario[field]
  /\ count' = [count EXCEPT ![field] = @ + 1]

Goto(t, pc) == thread' = [thread EXCEPT ![t] = [Idle EXCEPT !.pc = pc]]
At(t, pc) == thread[t].pc = pc

\* An outboundQueue is closed when the last reference is gone.
Open == refs # {}

isUp == dev = "up"
timersActive == isRunning /\ isUp

\* The hooks of timers.go: p with the timers they start and stop.
Mod(x) == IF timersActive THEN {x} \cap scenario.timers ELSE {}
Del(x) == IF timersActive THEN {x} ELSE {}

timersDataSent(p) == p \cup Mod("newHandshake")
timersDataReceived(p) ==
  p \cup (IF "sendKeepalive" \in p THEN Mod("needAnotherKeepalive") ELSE Mod("sendKeepalive"))
timersAnyAuthenticatedPacketSent(p) == p \ Del("sendKeepalive")
timersAnyAuthenticatedPacketReceived(p) == p \ Del("newHandshake")
timersHandshakeInitiated(p) == p \cup Mod("retransmitHandshake")
timersHandshakeComplete(p) == p \ (Del("retransmitHandshake") \cup {"sentLastMinuteHandshake"})


timersSessionDerived(p) == p \cup Mod("zeroKeyMaterial")
timersStart(p) == p \ {"needAnotherKeepalive", "sentLastMinuteHandshake"}

(***************************************************************************)
(* The staged packets.                                                     *)
(***************************************************************************)

\* Mutant: nothing makes room.
MutStagePacket(id) == Append(staged, id)

\* StagePacket: the oldest packet makes room.
StagePacket(id) == Append(IF Len(staged) < QueueStagedSize THEN staged ELSE Tail(staged), id)

FlushStagedPackets == staged' = <<>>

\* RoutineSendPacket: a packet for this peer, of the tap or of this node (pings).
RoutineSendPacket ==
  /\ At("packet", "idle") /\ isRunning
  /\ Count("packets")
  /\ staged' = StagePacket(count'.packets)
  /\ Goto("packet", "top")
  /\ UNCHANGED <<scenario, outbound, inbound, crypting, keys, shake, life>>

\* SendKeepalive up to SendStagedPackets.
SendKeepalive == staged' = IF staged = <<>> /\ isRunning THEN <<0>> ELSE staged

\* SendHandshakeInitiation(isRetry), with n attempts before it; Initiated(p) are
\* the timers after it.
SendHandshakeInitiation(isRetry, n) ==
  /\ attempts' = IF isRetry THEN n ELSE 0
  /\ IF recent THEN UNCHANGED <<asked, last, recent>>
     ELSE asked' = "sent" /\ last' = "asked" /\ recent' = TRUE

Initiated(p) == IF recent THEN p
  ELSE timersHandshakeInitiated(timersAnyAuthenticatedPacketSent(p))

(***************************************************************************)
(* SendStagedPackets.                                                      *)
(***************************************************************************)

Usable(k) == k # Nil /\ sendNonce[k] < RejectAfterMessages /\ age < 2

\* Where the caller of SendStagedPackets goes on.
Return(t) == CASE t = "timer" -> "again" [] t = "receiver" -> "frame" [] OTHER -> "idle"

Top(t) ==
  /\ At(t, "top")
  /\ IF staged = <<>> \/ ~isUp
     THEN Goto(t, Return(t)) /\ UNCHANGED shake
     ELSE IF Usable(current)
     THEN /\ thread' = [thread EXCEPT ![t] = [pc |-> "take", key |-> current, elem |-> Nil]]
          /\ UNCHANGED shake
     ELSE Goto(t, Return(t)) /\ SendHandshakeInitiation(FALSE, 0) /\ pending' = Initiated(pending)
  /\ UNCHANGED <<scenario, queues, keys, life, count>>

\* Mutant: one nonce too many.
MutExhausted(n) == n > RejectAfterMessages

Exhausted(n) == n >= RejectAfterMessages

\* The nonce is what the counter was before it is increased.
Take(t) ==
  LET k == thread[t].key
      n == sendNonce[k]
  IN /\ At(t, "take")
     /\ IF staged = <<>>
        THEN Goto(t, Return(t)) /\ UNCHANGED <<staged, sendNonce>>
        ELSE /\ staged' = Tail(staged)
             /\ sendNonce' = [sendNonce EXCEPT ![k] = (n + 1) % Word]
             /\ thread' = [thread EXCEPT ![t] =
                  [pc |-> IF Exhausted(n) THEN "over" ELSE "check", key |-> k,
                   elem |-> [id |-> Head(staged), key |-> k, nonce |-> n]]]
     /\ UNCHANGED <<scenario, outbound, inbound, crypting, current, offered, age, mine, shake, life,
          count>>

Spent(k) == [sendNonce EXCEPT ![k] = RejectAfterMessages]

\* No nonce left: the packet is staged again.
Over(t) ==
  /\ At(t, "over")
  /\ sendNonce' = Spent(thread[t].key)
  /\ staged' = StagePacket(thread[t].elem.id)
  /\ Goto(t, "top")
  /\ UNCHANGED <<scenario, outbound, inbound, crypting, current, offered, age, mine, shake, life, count>>

\* Into the queue of the sequential sender and into that of the workers.  A
\* send on a closed channel ends the process.
Check(t) ==
  /\ At(t, "check")
  /\ thread' = IF isRunning THEN [thread EXCEPT ![t].pc = "queue"]
               ELSE [thread EXCEPT ![t].pc = "take", ![t].elem = Nil]
  /\ UNCHANGED <<scenario, queues, keys, shake, life, count>>

Queue(t) ==
  /\ At(t, "queue") /\ Open
  /\ outbound' = Append(outbound, thread[t].elem)
  /\ crypting' = crypting \cup {thread[t].elem}
  /\ thread' = [thread EXCEPT ![t].pc = "take", ![t].elem = Nil]
  /\ UNCHANGED <<scenario, staged, inbound, keys, shake, life, count>>

(***************************************************************************)
(* The routines behind the queues.                                         *)
(***************************************************************************)

RoutineEncryption ==
  \E e \in crypting :
    /\ crypting' = crypting \ {e}
    /\ UNCHANGED <<scenario, staged, outbound, inbound, keys, shake, life, thread, count>>

\* keepKeyFreshSending: the current keypair is about to be used up.
Stale == current # Nil /\ (sendNonce[current] > RekeyAfterMessages \/ (current \in mine /\ age > 0))

\* The sentinel ends the sequential sender; an element is locked until a worker
\* has sealed it.
RoutineSequentialSender ==
  LET e == Head(outbound)
      sent == timersAnyAuthenticatedPacketSent(pending)
      p == IF e.id = 0 THEN sent ELSE timersDataSent(sent)
  IN /\ At("sender", "idle") /\ outbound # <<>> /\ e \notin crypting
     /\ outbound' = Tail(outbound)
     /\ IF e = Nil THEN Goto("sender", "gone") ELSE UNCHANGED thread
     /\ IF e = Nil \/ ~isRunning THEN UNCHANGED shake
        ELSE IF Stale THEN SendHandshakeInitiation(FALSE, 0) /\ pending' = Initiated(p)
        ELSE pending' = p /\ UNCHANGED <<asked, last, recent, attempts>>
     /\ UNCHANGED <<scenario, staged, inbound, crypting, keys, life, count>>

(***************************************************************************)
(* Handshakes, and what is received.                                       *)
(***************************************************************************)

NewKey == Len(sendNonce) + 1

\* A handshake message is lost, or RekeyTimeout passes since the last one.
Lose ==
  /\ scenario.lossy /\ asked = "sent" /\ asked' = "lost"
  /\ UNCHANGED <<scenario, queues, keys, last, recent, attempts, pending, life, thread, count>>

RekeyTimeout ==
  /\ recent /\ recent' = FALSE
  /\ UNCHANGED <<scenario, queues, keys, asked, last, attempts, pending, life, thread, count>>

\* The response to our initiation: BeginSymmetricSession, the timers, and a
\* packet or a keepalive to confirm the key.
ConsumeMessageResponse ==
  /\ At("worker", "idle") /\ asked = "sent"
  /\ sendNonce' = Append(sendNonce, 0)
  /\ current' = NewKey /\ age' = 0 /\ mine' = mine \cup {NewKey}
  /\ offered' = Nil /\ asked' = "no" /\ last' = "session"
  /\ pending' = timersHandshakeComplete(timersSessionDerived(timersAnyAuthenticatedPacketReceived(pending)))
  /\ attempts' = 0
  /\ SendKeepalive
  /\ Goto("worker", "top")
  /\ UNCHANGED <<scenario, outbound, inbound, crypting, recent, life, count>>

\* An initiation of the other side; whether the peer runs is not asked, and our
\* own initiation is forgotten.
ConsumeMessageInitiation ==
  /\ At("worker", "idle") /\ isUp /\ inMap
  /\ Count("offers")
  /\ asked' = "heard"
  /\ pending' = timersAnyAuthenticatedPacketReceived(pending)
  /\ Goto("worker", "heard")
  /\ UNCHANGED <<scenario, queues, keys, last, recent, attempts, life>>

\* The answer: its key waits in keypairs.next.  It fails when the handshake was
\* cleared, or our initiation has taken its place, meanwhile.
SendHandshakeResponse ==
  /\ At("worker", "heard")
  /\ Goto("worker", "idle")
  /\ recent' = TRUE
  /\ IF asked = "heard"
     THEN /\ sendNonce' = Append(sendNonce, 0)
          /\ offered' = NewKey
          /\ asked' = "no" /\ last' = "session"
          /\ pending' = timersAnyAuthenticatedPacketSent(timersSessionDerived(pending))
     ELSE last' = "failed" /\ UNCHANGED <<sendNonce, offered, asked, pending>>
  /\ UNCHANGED <<scenario, queues, current, age, mine, attempts, life, count>>

\* A packet under a key of ours that is not expired.
RoutineReceiveIncoming ==
  /\ isUp /\ isRunning /\ (offered # Nil \/ (current # Nil /\ age < 2))
  /\ Count("data")
  /\ inbound' = Append(inbound, "data")
  /\ UNCHANGED <<scenario, staged, outbound, crypting, keys, shake, life, thread>>

\* The sequential receiver: the sentinel ends it, and the first packet under
\* keypairs.next makes this the current key.
ReceivedWithKeypair ==
  /\ At("receiver", "idle") /\ inbound # <<>>
  /\ inbound' = Tail(inbound)
  /\ \/ /\ Goto("receiver", IF Head(inbound) = Nil THEN "gone" ELSE "frame")
        /\ UNCHANGED <<keys, shake>>
     \/ /\ Head(inbound) # Nil /\ offered # Nil
        /\ current' = offered /\ offered' = Nil /\ age' = 0
        /\ attempts' = 0
        /\ pending' = timersHandshakeComplete(pending)
        /\ Goto("receiver", "top")
        /\ UNCHANGED <<sendNonce, mine, asked, last, recent>>
  /\ UNCHANGED <<scenario, staged, outbound, crypting, life, count>>

\* keepKeyFreshReceiving may act on a key that is older than RekeyAfterTime.
keepKeyFreshReceiving == "sentLastMinuteHandshake" \notin pending /\ current \in mine /\ age > 0

\* keepKeyFreshReceiving, the timers, and a frame to be forwarded or not.
Frame ==
  /\ At("receiver", "frame")
  /\ \E late, forward \in BOOLEAN :
       /\ late => keepKeyFreshReceiving
       /\ IF late THEN SendHandshakeInitiation(FALSE, 0) ELSE UNCHANGED <<attempts, asked, last, recent>>
       /\ LET p == IF late THEN Initiated(pending \cup {"sentLastMinuteHandshake"}) ELSE pending
          IN pending' = timersDataReceived(timersAnyAuthenticatedPacketReceived(p))
       /\ Goto("receiver", IF forward THEN "lookup" ELSE "idle")
  /\ UNCHANGED <<scenario, queues, keys, life, count>>

(***************************************************************************)
(* The timers and the expiry of keys.                                      *)
(***************************************************************************)

\* The timer was set for more than RekeyTimeout after our last initiation.
expiredRetransmitHandshake ==
  LET p == pending \ {"retransmitHandshake"}
  IN /\ At("timer", "idle") /\ "retransmitHandshake" \in pending /\ (recent => last # "asked")
     /\ IF attempts > MaxTimerHandshakes
        THEN /\ pending' = (p \ Del("sendKeepalive")) \cup Mod("zeroKeyMaterial")
             /\ FlushStagedPackets
             /\ UNCHANGED <<asked, last, recent, attempts>>
        ELSE /\ SendHandshakeInitiation(TRUE, attempts + 1)
             /\ pending' = Initiated(p)
             /\ UNCHANGED staged
     /\ UNCHANGED <<scenario, outbound, inbound, crypting, keys, life, thread, count>>

expiredSendKeepalive ==
  /\ At("timer", "idle") /\ "sendKeepalive" \in pending
  /\ pending' = pending \ {"sendKeepalive"}
  /\ SendKeepalive
  /\ Goto("timer", "top")
  /\ UNCHANGED <<scenario, outbound, inbound, crypting, keys, asked, last, recent, attempts, life, count>>

AnotherKeepalive ==
  /\ At("timer", "again")
  /\ pending' = IF "needAnotherKeepalive" \notin pending THEN pending
       ELSE (pending \ {"needAnotherKeepalive"}) \cup Mod("sendKeepalive")
  /\ Goto("timer", "idle")
  /\ UNCHANGED <<scenario, queues, keys, asked, last, recent, attempts, life, count>>

expiredNewHandshake ==
  /\ At("timer", "idle") /\ "newHandshake" \in pending
  /\ SendHandshakeInitiation(FALSE, 0)
  /\ pending' = Initiated(pending \ {"newHandshake"})
  /\ UNCHANGED <<scenario, queues, keys, life, thread, count>>

ZeroAndFlushAll ==
  /\ current' = Nil /\ offered' = Nil /\ asked' = "no" /\ FlushStagedPackets
  /\ UNCHANGED <<sendNonce, age, mine, last, recent, attempts>>

\* The timer was set for 3 * RejectAfterTime after the last session.
expiredZeroKeyMaterial ==
  /\ At("timer", "idle") /\ "zeroKeyMaterial" \in pending /\ (recent => last # "session")
  /\ pending' = pending \ {"zeroKeyMaterial"}
  /\ ZeroAndFlushAll
  /\ UNCHANGED <<scenario, outbound, inbound, crypting, life, thread, count>>

\* The private key was replaced, or the machine slept.
ExpireCurrentKeypairs ==
  /\ Count("expiries")
  /\ asked' = "no" /\ last' = "none" /\ recent' = FALSE
  /\ sendNonce' = [k \in DOMAIN sendNonce |-> IF k \in {current, offered} THEN RejectAfterMessages ELSE sendNonce[k]]
  /\ UNCHANGED <<scenario, queues, current, offered, age, mine, attempts, pending, life, thread>>

Age ==
  /\ current # Nil /\ age < 2
  /\ Count("expiries")
  /\ age' = age + 1
  /\ UNCHANGED <<scenario, queues, current, offered, sendNonce, mine, shake, life, thread>>

(***************************************************************************)
(* Up, Down, Close and RemovePeer.  device.peers is a lock of readers and  *)
(* writers: a writer that waits keeps new readers out.                     *)
(***************************************************************************)

Holds(c) == caller[c].pc \in {"stop", "timers", "nil", "wait", "stopped"}
WriterWaits == caller["api"].pc = "lock" \/ caller["main"].pc = "removeAll"
CanRLock == ~WriterWaits /\ ~Holds("api")
CanLock == ~Holds("main") /\ ~Holds("api")

Step(c, pc) == caller' = [caller EXCEPT ![c].pc = pc]

\* changeState and Close up to the loop over the peers.  The other side of
\* state.Lock is the previous call of the same thread.  BindUpdate may fail.
changeState(want) ==
  /\ caller["main"] = NoCall /\ calls # <<>> /\ Head(calls) = want
  /\ calls' = Tail(calls)
  /\ \/ /\ dev = want \/ dev = "closed"
        /\ UNCHANGED <<dev, caller>>
     \/ /\ dev \notin {want, "closed"}
        /\ dev' = want
        /\ caller' = [caller EXCEPT !["main"] = [op |-> want, pc |-> IF want = "up" THEN "start" ELSE "rlock"]]
     \/ /\ dev = "down" /\ want = "up"
        /\ caller' = [caller EXCEPT !["main"] = [op |-> "down", pc |-> "rlock"]]
        /\ UNCHANGED dev
  /\ UNCHANGED <<scenario, queues, keys, shake, isRunning, inMap, refs, thread, count>>

\* Peer.Start: leftovers are flushed once they are sealed.
Start ==
  /\ caller["main"].pc = "start" /\ CanRLock
  /\ caller' = [caller EXCEPT !["main"] = NoCall]
  /\ IF ~inMap THEN UNCHANGED <<isRunning, last, recent, attempts, pending, refs, inbound, outbound, thread>>
     ELSE /\ At("sender", "gone") /\ At("receiver", "gone")
          /\ Range(outbound) \cap crypting = {}
          /\ inbound' = <<>> /\ outbound' = <<>>
          /\ last' = "none" /\ recent' = FALSE /\ attempts' = 0
          /\ pending' = timersStart(pending)
          /\ refs' = refs \cup {"peer"}
          /\ thread' = [thread EXCEPT !["sender"] = Idle, !["receiver"] = Idle]
          /\ isRunning' = TRUE
  /\ UNCHANGED <<scenario, staged, crypting, keys, asked, dev, calls, inMap, count>>

\* downLocked takes the lock for reading, RemovePeer for writing.
downLocked ==
  /\ caller["main"].pc = "rlock" /\ CanRLock
  /\ Step("main", IF inMap THEN "stop" ELSE "stopped")
  /\ UNCHANGED <<scenario, queues, keys, shake, dev, isRunning, calls, inMap, refs, thread, count>>

RemovePeer ==
  /\ caller["api"] = NoCall /\ scenario.remove /\ inMap
  /\ caller' = [caller EXCEPT !["api"] = [op |-> "remove", pc |-> "lock"]]
  /\ UNCHANGED <<scenario, queues, keys, shake, dev, isRunning, calls, inMap, refs, thread, count>>

RemovePeerLocks ==
  /\ caller["api"].pc = "lock" /\ CanLock
  /\ Step("api", IF inMap THEN "stop" ELSE "stopped")
  /\ UNCHANGED <<scenario, queues, keys, shake, dev, isRunning, calls, inMap, refs, thread, count>>

\* Mutant: a timer that runs is not waited for.
MutTimersStopped == TRUE

\* DelSync of every timer.
TimersStopped == At("timer", "idle")

\* Mutant: the receiver is told nothing.
MutSignal(queue) == IF queue = inbound THEN queue ELSE Append(queue, Nil)

\* The sentinel that ends a sequential routine.
Signal(queue) == Append(queue, Nil)

\* Peer.Stop.
Stop(c) ==
  \/ /\ caller[c].pc = "stop"
     /\ isRunning' = FALSE
     /\ Step(c, IF isRunning THEN "timers" ELSE "stopped")
     /\ UNCHANGED <<queues, keys, shake, refs>>
  \/ /\ caller[c].pc = "timers" /\ TimersStopped
     /\ pending' = pending \cap {"needAnotherKeepalive", "sentLastMinuteHandshake"}
     /\ Step(c, "nil")
     /\ UNCHANGED <<queues, keys, asked, last, recent, attempts, isRunning, refs>>
  \/ /\ caller[c].pc = "nil"
     /\ inbound' = Signal(inbound) /\ outbound' = Signal(outbound)
     /\ Step(c, "wait")
     /\ UNCHANGED <<staged, crypting, keys, shake, isRunning, refs>>
  \/ /\ caller[c].pc = "wait" /\ At("sender", "gone") /\ At("receiver", "gone")
     /\ refs' = refs \ {"peer"}
     /\ ZeroAndFlushAll
     /\ Step(c, "stopped")
     /\ UNCHANGED <<outbound, inbound, crypting, pending, isRunning>>

StopSteps(c) ==
  Stop(c) /\ UNCHANGED <<scenario, dev, calls, inMap, thread, count>>

\* After Stop: RemovePeer forgets the peer, Close goes on to RemoveAllPeers.
Stopped(c) ==
  /\ caller[c].pc = "stopped"
  /\ inMap' = (inMap /\ c = "main")
  /\ caller' = [caller EXCEPT ![c] = IF @.op = "closed" THEN [@ EXCEPT !.pc = "removeAll"] ELSE NoCall]
  /\ UNCHANGED <<scenario, queues, keys, shake, dev, isRunning, calls, refs, thread, count>>

\* The peer is stopped by now.  The device gives up its reference.
RemoveAllPeers ==
  /\ caller["main"].pc = "removeAll" /\ CanLock
  /\ inMap' = FALSE
  /\ refs' = refs \ {"device"}
  /\ Step("main", "ends")
  /\ UNCHANGED <<scenario, queues, keys, shake, dev, isRunning, calls, thread, count>>

\* The reader of the closed tap ends, and so does the handshake worker once
\* its queue is closed.
RoutineReadFromTUN ==
  /\ dev = "closed" /\ "tun" \in refs
  /\ refs' = refs \ {"tun"}
  /\ UNCHANGED <<scenario, queues, keys, shake, dev, isRunning, caller, calls, inMap, thread, count>>

RoutineHandshakeEnds ==
  /\ "device" \notin refs /\ At("worker", "idle")
  /\ refs' = refs \ {"worker"}
  /\ Goto("worker", "gone")
  /\ UNCHANGED <<scenario, queues, keys, shake, dev, isRunning, caller, calls, inMap, count>>

Closed ==
  /\ caller["main"].pc = "ends" /\ "tun" \notin refs
  /\ caller' = [caller EXCEPT !["main"] = NoCall]
  /\ UNCHANGED <<scenario, queues, keys, shake, dev, isRunning, calls, inMap, refs, thread, count>>

\* The frame is forwarded to a peer looked up in device.peers.
Lookup ==
  /\ At("receiver", "lookup") /\ CanRLock
  /\ Goto("receiver", "idle")
  /\ UNCHANGED <<scenario, queues, keys, shake, life, count>>

SendStagedPackets(t) == Top(t) \/ Take(t) \/ Over(t) \/ Check(t) \/ Queue(t)

RoutineHandshake == SendHandshakeResponse \/ RoutineHandshakeEnds
RoutineSequentialReceiver == ReceivedWithKeypair \/ Frame \/ Lookup
Timers ==
  expiredRetransmitHandshake \/ expiredSendKeepalive \/ AnotherKeepalive \/ expiredNewHandshake
  \/ expiredZeroKeyMaterial
Call ==
  \/ Start \/ downLocked \/ RemovePeerLocks \/ RemoveAllPeers \/ Closed
  \/ \E c \in {"main", "api"} : StopSteps(c) \/ Stopped(c)

Next ==
  \/ RoutineSendPacket
  \/ \E t \in Senders : SendStagedPackets(t)
  \/ RoutineEncryption \/ RoutineSequentialSender
  \/ Lose \/ RekeyTimeout
  \/ ConsumeMessageResponse \/ ConsumeMessageInitiation \/ RoutineHandshake
  \/ RoutineReceiveIncoming \/ RoutineSequentialReceiver
  \/ Timers \/ ExpireCurrentKeypairs \/ Age
  \/ \E want \in {"up", "down", "closed"} : changeState(want)
  \/ RemovePeer \/ Call \/ RoutineReadFromTUN

Spec == Init /\ [][Next]_vars

\* Every goroutine that can go on does, calls that were made go on, and time
\* passes: the timers Drains needs fire.  Nothing is asked of the other side.
Fairness ==
  /\ \A t \in Senders : WF_vars(SendStagedPackets(t))
  /\ WF_vars(RoutineEncryption) /\ WF_vars(RoutineSequentialSender)
  /\ WF_vars(RoutineHandshake) /\ WF_vars(RoutineSequentialReceiver)
  /\ WF_vars(AnotherKeepalive) /\ WF_vars(Call) /\ WF_vars(RoutineReadFromTUN)
  /\ WF_vars(RekeyTimeout)
  /\ WF_vars(expiredRetransmitHandshake) /\ WF_vars(expiredZeroKeyMaterial)

FairSpec == Spec /\ Fairness

(***************************************************************************)
(* Properties.                                                             *)
(***************************************************************************)

Elements == [id : 0..scenario.packets, key : DOMAIN sendNonce, nonce : 0..RejectAfterMessages + 3]
KeyOrNil == DOMAIN sendNonce \cup {Nil}

\* The type of the state.
TypeOK ==
  /\ dev \in {"down", "up", "closed"} /\ isRunning \in BOOLEAN
  /\ staged \in Seq(0..scenario.packets) /\ Len(staged) <= QueueStagedSize
  /\ Range(outbound) \subseteq Elements \cup {Nil}
  /\ crypting \subseteq Elements
  /\ {current, offered} \subseteq KeyOrNil
  /\ age \in 0..2 /\ attempts \in 0..MaxTimerHandshakes + 1
  /\ sendNonce \in Seq(0..RejectAfterMessages + 4)
  /\ refs \subseteq {"device", "tun", "worker", "peer"}

Held == {thread[t].elem : t \in {u \in Threads : thread[u].pc \in {"check", "queue"}}}
InFlight == Held \cup crypting \cup {e \in Range(outbound) : e # Nil}

\* SendStagedPackets gives every packet of a key a nonce of its own: four
\* threads, the store of RejectAfterMessages and ExpireCurrentKeypairs race on
\* the counter, and it stays above every nonce in use and the limit is kept.
NonceOnce ==
  \A e \in InFlight : e.nonce < sendNonce[e.key] /\ e.nonce < RejectAfterMessages

\* Whoever is about to write to the encryption queue keeps it open: the timers
\* are waited for by Stop, the receiver too, and the handshake worker has a
\* reference.  (RoutineSendPacket has none.)
WritersHoldRefs ==
  \A t \in Senders \ {"packet"} : thread[t].pc \in {"check", "queue"} => Open

\* RemovePeer has device.peers.Lock, or waits for it while Down has the lock for
\* reading, and the receiver that Stop waits for needs the lock for a lookup.
RemovalBlocks ==
  /\ At("receiver", "lookup")
  /\ Holds("api") \/ (caller["api"].pc = "lock" /\ Holds("main"))

\* Up, Down, Close and RemovePeer return: Stop does not wait for ever for
\* routines that wait for an element to be sealed, for a timer, or for a lock.
\* The one exception here is RemovalBlocks, a peer that is removed while a frame
\* of it is forwarded; SendBuffer and BindUpdate, whose own ways to block are
\* the matter of PeerEndpoint and FakeTCP, return in this module.
Returns == \A c \in {"main", "api"} : caller[c] # NoCall ~> (caller[c] = NoCall \/ RemovalBlocks)

Waits(i) ==
  \/ i \in Range(staged)
  \/ \E t \in Threads : thread[t].pc \in {"over", "check"} /\ thread[t].elem.id = i

=============================================================================
