---------------------------- MODULE PeerEndpoint ----------------------------
(***************************************************************************)
(* How one peer of a device is reached: the endpoints of device/peer.go    *)
(* and the goroutines that use and change them.                            *)
(*                                                                         *)
(*   senders    run SendBuffer under the peer's read lock and try UDP over *)
(*              IPv6, UDP over IPv4 and FakeTCP in an order that depends   *)
(*              on the active address family and on what failed before;    *)
(*   setter     runs SetEndpointFromConnURL (RoutineTryReceivedEndpoint or *)
(*              RoutineResetEndpoint), one critical section after another; *)
(*   receiver   runs SetEndpointFromPacket on an authenticated packet;     *)
(*   recovery   runs RoutineIPv6Recovery, the delayed failback to IPv6.    *)
(*                                                                         *)
(* An address is represented by its family, v4 or v6: what tells two       *)
(* addresses apart here is which outage they suffer from.  `mem' holds the *)
(* fields the RWMutex protects, the other fields are atomics.  A critical  *)
(* section under the write lock only assigns, so it is one step, taken     *)
(* once the writer that announced itself has seen the readers leave.       *)
(***************************************************************************)
EXTENDS Naturals, Sequences, FiniteSets

CONSTANTS
  Settings,     \* the configurations of the device to look at
  URLs,         \* peers' URLs: the families one resolves to, and those not private
  Senders,      \* goroutines that may be inside SendBuffer
  MaxOutages,   \* bound: channels that go down
  MaxSends,     \* bound: packets sent while it counts
  MaxSets,      \* bound: calls of SetEndpointFromConnURL
  MaxRoams      \* bound: packets that arrive

Nil == "nil"
Families == {"v4", "v6"}
Channels == Families \cup {"tcp"}
Setter == "setter"
Receiver == "receiver"
Recovery == "recovery"
Actors == Senders \cup {Setter, Receiver, Recovery}

ASSUME EndpointAssumption ==
  /\ Senders \cap {Setter, Receiver, Recovery, Nil} = {}
  /\ Settings \subseteq [IsSuperNode : BOOLEAN, DualStack : BOOLEAN, FakeTCP : BOOLEAN,
                         AfPrefer : Families \cup {Nil}]
  /\ URLs \subseteq [resolved : SUBSET Families, usable : SUBSET Families]

VARIABLES
  setting,    \* [IsSuperNode, DualStack, FakeTCP : BOOLEAN, AfPrefer : Families or Nil], fixed
  up,         \* the channels that work now
  mem,        \* the endpoint fields
  activeAF,   \* Peer.activeAF, Nil when not stored yet
  failed,     \* Peer.ipv4Failed and Peer.ipv6Failed
  udpFailed,  \* Peer.udpFailed
  recovering, \* Peer.ipv6RecoveryStartTime is set
  readers,    \* senders that hold the read lock
  writer,     \* the actor whose Lock() waits for the readers, or Nil
  pc,         \* where an actor is
  todo,       \* what is left of an actor's call: channels to try, or sections to run
  fell,       \* history: the channels that were ever down
  via,        \* history: the path of a sender's last packet, then what carried it
  budget      \* what is left of the bounds

vars == <<setting, up, mem, activeAF, failed, udpFailed, recovering, readers,
          writer, pc, todo, fell, via, budget>>

atomics == <<activeAF, failed, udpFailed, recovering>>

(***************************************************************************)
(* State.                                                                  *)
(***************************************************************************)

\* The fields protected by the peer's RWMutex: the endpoint in use, the
\* endpoint of each family, and the same for FakeTCP.
NoEndpoint == [endpoint |-> Nil, ep |-> [f \in Families |-> Nil],
               tcp |-> Nil, tcpEp |-> [f \in Families |-> Nil]]

Init ==
  /\ setting \in Settings
  /\ up = Channels /\ fell = {}
  /\ mem = NoEndpoint
  /\ activeAF = Nil
  /\ failed = [f \in Families |-> FALSE]
  /\ udpFailed = FALSE
  /\ recovering = FALSE
  /\ readers = {} /\ writer = Nil
  /\ pc = [a \in Actors |-> "idle"]
  /\ todo = [a \in Actors |-> <<>>]
  /\ via = [s \in Senders |-> Nil]
  /\ budget = [outages |-> MaxOutages, sends |-> MaxSends, sets |-> MaxSets, roams |-> MaxRoams]

Spend(what) ==
  /\ budget[what] > 0
  /\ budget' = [budget EXCEPT ![what] = @ - 1]

Goto(a, where, rest) ==
  /\ pc' = [pc EXCEPT ![a] = where]
  /\ todo' = [todo EXCEPT ![a] = rest]

(***************************************************************************)
(* The network: a channel goes down or comes back.                         *)
(***************************************************************************)
GoDown(c) ==
  /\ c \in up
  /\ Spend("outages")
  /\ up' = up \ {c} /\ fell' = fell \cup {c}
  /\ UNCHANGED <<setting, mem, atomics, readers, writer, pc, todo, via>>

ComeBack(c) ==
  /\ c \notin up
  /\ up' = up \cup {c}
  /\ UNCHANGED <<setting, mem, atomics, readers, writer, pc, todo, fell, via, budget>>

(***************************************************************************)
(* sync.RWMutex.  Lock() first excludes other writers, from then on keeps  *)
(* new readers out, and waits for the readers inside to leave.             *)
(***************************************************************************)
Announce(a) ==
  /\ pc[a] = "lock" /\ writer = Nil
  /\ writer' = a
  /\ pc' = [pc EXCEPT ![a] = "locking"]
  /\ UNCHANGED <<setting, up, mem, atomics, readers, todo, fell, via, budget>>

Locked(a) == pc[a] = "locking" /\ writer = a /\ readers = {}

(***************************************************************************)
(* SendBuffer.                                                             *)
(***************************************************************************)

\* Dual-stack failover is for edges that know the peer under both families.
DualStack ==
  /\ ~setting.IsSuperNode /\ setting.DualStack
  /\ \A f \in Families : mem.ep[f] # Nil

\* The order in which the channels are tried.  "udp" is the single-endpoint
\* path, which uses `endpoint' whatever its family, "udptcp" its fallback.
Order(af) ==
  CASE ~DualStack -> <<"udp", "udptcp">>
    [] DualStack /\ af = "v6" -> <<"v6", "v4", "tcp">>
    [] OTHER -> <<"v4", "v6", "tcp">>

\* The read lock is taken and the active family read once.  With no endpoint
\* at all SendBuffer returns an error and nothing changes.
SendBuffer(s) ==
  LET af == IF DualStack /\ activeAF = Nil THEN "v6" ELSE activeAF
  IN /\ pc[s] = "idle" /\ writer = Nil
     /\ mem # NoEndpoint
     /\ Spend("sends")
     /\ readers' = readers \cup {s}
     /\ activeAF' = af
     /\ Goto(s, "send", Order(af))
     /\ via' = [via EXCEPT ![s] = IF DualStack THEN "dual" ELSE "single"]
     /\ UNCHANGED <<setting, up, mem, failed, udpFailed, recovering, writer, fell>>

\* The FakeTCP endpoint tryFakeTCPSend picks: the active family's, else any.
FakeTCPEndpoint ==
  CASE activeAF \in Families /\ mem.tcpEp[activeAF] # Nil -> mem.tcpEp[activeAF]
    [] mem.tcpEp["v4"] # Nil -> mem.tcpEp["v4"]
    [] OTHER -> mem.tcpEp["v6"]

\* Whether a channel is tried or passed over.
Usable(c) ==
  CASE c \in Families -> mem.ep[c] # Nil /\ ~failed[c]
    [] c = "udp" -> mem.endpoint # Nil /\ ~udpFailed
    [] c = "tcp" -> setting.FakeTCP /\ activeAF # Nil /\ FakeTCPEndpoint # Nil
    [] c = "udptcp" -> setting.FakeTCP /\ mem.tcp # Nil

\* The network channel that a packet of this attempt travels over.
Carrier(c) ==
  CASE c \in Families -> mem.ep[c]
    [] c = "udp" -> mem.endpoint
    [] OTHER -> "tcp"

Unlock(s) == readers' = readers \ {s}

PassOver(s) ==
  /\ pc[s] = "send" /\ todo[s] # <<>>
  /\ ~Usable(Head(todo[s]))
  /\ Goto(s, "send", Tail(todo[s]))
  /\ UNCHANGED <<setting, up, mem, atomics, readers, writer, fell, via, budget>>

\* bind.Send: the outcome is recorded in the flags by a later step.
Attempt(s) ==
  /\ pc[s] = "send" /\ todo[s] # <<>>
  /\ Usable(Head(todo[s]))
  /\ Goto(s, IF Carrier(Head(todo[s])) \in up THEN "sent" ELSE "refused", todo[s])
  /\ UNCHANGED <<setting, up, mem, atomics, readers, writer, fell, via, budget>>

\* Mutant: the read lock is kept when the packet has left.
MutSent(s) ==
  LET c == Head(todo[s])
  IN /\ pc[s] = "sent"
     /\ failed' = IF c \in Families THEN [failed EXCEPT ![c] = FALSE] ELSE failed
     /\ udpFailed' = (udpFailed /\ c # "udp")
     /\ recovering' = (recovering /\ c # "v6")
     /\ via' = [via EXCEPT ![s] = c]
     /\ Goto(s, "idle", <<>>)
     /\ UNCHANGED <<setting, up, mem, activeAF, readers, writer, fell, budget>>

\* The packet left: the channel is marked healthy and SendBuffer returns.
Sent(s) ==
  LET c == Head(todo[s])
  IN /\ pc[s] = "sent"
     /\ failed' = IF c \in Families THEN [failed EXCEPT ![c] = FALSE] ELSE failed
     /\ udpFailed' = (udpFailed /\ c # "udp")
     /\ recovering' = (recovering /\ c # "v6")
     /\ via' = [via EXCEPT ![s] = c]
     /\ Unlock(s)
     /\ Goto(s, "idle", <<>>)
     /\ UNCHANGED <<setting, up, mem, activeAF, writer, fell, budget>>

\* Mutant: a failure of either family marks both.
MutRefused(s) ==
  LET c == Head(todo[s])
  IN /\ pc[s] = "refused"
     /\ failed' = IF c \in Families THEN [f \in Families |-> TRUE] ELSE failed
     /\ udpFailed' = (udpFailed \/ c = "udp")
     /\ IF c = "v6" /\ mem.ep["v4"] # Nil
        THEN activeAF' = "v4" /\ Goto(s, "lock", todo[s])
        ELSE activeAF' = activeAF /\ Goto(s, "send", Tail(todo[s]))
     /\ UNCHANGED <<setting, up, mem, recovering, readers, writer, fell, via, budget>>

\* The send failed: the channel is marked failed.  A failure of IPv6 makes
\* IPv4 the active family and goes on to change `endpoint' under the write
\* lock, which tryIPv6Send asks for while SendBuffer holds the read lock.
Refused(s) ==
  LET c == Head(todo[s])
  IN /\ pc[s] = "refused"
     /\ failed' = IF c \in Families THEN [failed EXCEPT ![c] = TRUE] ELSE failed
     /\ udpFailed' = (udpFailed \/ c = "udp")
     /\ IF c = "v6" /\ mem.ep["v4"] # Nil
        THEN activeAF' = "v4" /\ Goto(s, "lock", todo[s])
        ELSE activeAF' = activeAF /\ Goto(s, "send", Tail(todo[s]))
     /\ UNCHANGED <<setting, up, mem, recovering, readers, writer, fell, via, budget>>

\* No channel is left: SendBuffer returns an error.
GiveUp(s) ==
  /\ pc[s] = "send" /\ todo[s] = <<>>
  /\ Unlock(s)
  /\ Goto(s, "idle", <<>>)
  /\ UNCHANGED <<setting, up, mem, atomics, writer, fell, via, budget>>

(***************************************************************************)
(* SetEndpointFromConnURL.  The sections are run in order; "ep" and "tcp"  *)
(* install the addresses of one slot, "active" stores the family and       *)
(* "legacy" points `endpoint' at it.                                       *)
(***************************************************************************)

\* The family LookupIPDualStack names primary.
PrimaryAF(resolved) ==
  CASE setting.AfPrefer = "v4" -> "v4"
    [] setting.AfPrefer = Nil /\ "v6" \notin resolved -> "v4"
    [] OTHER -> "v6"

Section(op, slot, family) == [op |-> op, slot |-> slot, family |-> family]

Install(slot, family) ==
  <<Section("ep", slot, family)>>
    \o IF setting.FakeTCP THEN <<Section("tcp", slot, family)>> ELSE <<>>

\* The addresses that a URL may give: one per family it resolves to with dual
\* stack, else one, of the preferred family when it has one.
Lookup(resolved) ==
  CASE setting.IsSuperNode \/ setting.DualStack -> {resolved}
    [] setting.AfPrefer \in resolved -> {{setting.AfPrefer}}
    [] OTHER -> {{f} : f \in resolved}

\* Without dual stack the address goes to the IPv4 slot, whatever its family.
Program(found, usable) ==
  LET dual == setting.IsSuperNode \/ setting.DualStack
      primary == IF dual THEN PrimaryAF(found) ELSE "v4"
      slot(f) == IF f \in found \cap usable THEN Install(IF dual THEN f ELSE "v4", f) ELSE <<>>
  IN slot("v4") \o slot("v6")
       \o <<Section("active", primary, primary), Section("legacy", primary, primary)>>

\* Where the setter goes with these sections left.
Resume(rest) ==
  Goto(Setter, IF rest = <<>> THEN "idle" ELSE IF Head(rest).op = "active" THEN "active" ELSE "lock", rest)

\* A URL that resolves to nothing changes nothing; private addresses are skipped.
SetEndpointFromConnURL(url) ==
  /\ pc[Setter] = "idle"
  /\ Spend("sets")
  /\ \E found \in Lookup(url.resolved) : Resume(Program(found, url.usable))
  /\ UNCHANGED <<setting, up, mem, atomics, readers, writer, fell, via>>

\* Before it stores the family the setter checks that some endpoint is set,
\* by an earlier call if not by this one, and returns an error otherwise.
StoreActive ==
  /\ pc[Setter] = "active"
  /\ IF \A f \in Families : mem.ep[f] = Nil
     THEN activeAF' = activeAF /\ Resume(<<>>)
     ELSE activeAF' = Head(todo[Setter]).slot /\ Resume(Tail(todo[Setter]))
  /\ UNCHANGED <<setting, up, mem, failed, udpFailed, recovering, readers, writer, fell, via, budget>>

\* `endpoint' and `faketcpEndpoint' follow the endpoint of one family.
PointAt(f) == [mem EXCEPT !.endpoint = mem.ep[f], !.tcp = mem.tcpEp[f]]

\* The family `endpoint' follows after a call whose primary family is af.
LegacyAF(af) == IF mem.ep[af] # Nil THEN af ELSE CHOOSE f \in Families : f # af

RunSection ==
  LET c == Head(todo[Setter])
  IN /\ Locked(Setter)
     /\ CASE c.op = "ep" ->
               /\ mem' = [mem EXCEPT !.ep[c.slot] = c.family]
               /\ failed' = [failed EXCEPT ![c.slot] = FALSE]
               /\ activeAF' = activeAF
          [] c.op = "tcp" ->
               /\ mem' = [mem EXCEPT !.tcpEp[c.slot] = c.family]
               /\ UNCHANGED <<failed, activeAF>>
          [] c.op = "legacy" ->
               /\ mem' = PointAt(LegacyAF(c.slot))
               /\ activeAF' = IF c.slot = "v4" /\ mem.ep["v4"] = Nil THEN "v6" ELSE activeAF
               /\ failed' = failed
     /\ writer' = Nil
     /\ Resume(Tail(todo[Setter]))
     /\ UNCHANGED <<setting, up, udpFailed, recovering, readers, fell, via, budget>>

(***************************************************************************)
(* SetEndpointFromPacket: an authenticated packet moves `endpoint', and    *)
(* only `endpoint', to the address it came from.                           *)
(***************************************************************************)
SetEndpointFromPacket(f) ==
  /\ pc[Receiver] = "idle"
  /\ Spend("roams")
  /\ Goto(Receiver, "lock", <<f>>)
  /\ UNCHANGED <<setting, up, mem, atomics, readers, writer, fell, via>>

Roam ==
  /\ Locked(Receiver)
  /\ mem' = [mem EXCEPT !.endpoint = Head(todo[Receiver])]
  /\ writer' = Nil
  /\ Goto(Receiver, "idle", <<>>)
  /\ UNCHANGED <<setting, up, atomics, readers, fell, via, budget>>

(***************************************************************************)
(* RoutineIPv6Recovery, one tick.  With IPv6 active it only sends a probe  *)
(* over IPv4, which changes nothing here.  The delay is abstracted: a tick *)
(* that finds the timer running may find it elapsed or not.                *)
(***************************************************************************)
Failback ==
  /\ pc[Recovery] = "idle"
  /\ DualStack
  /\ activeAF = "v4" /\ ~failed["v6"] /\ recovering
  /\ activeAF' = "v6"
  /\ Goto(Recovery, "lock", <<>>)
  /\ UNCHANGED <<setting, up, mem, failed, udpFailed, recovering, readers, writer, fell, via, budget>>

\* The timer is started while IPv6 is not marked failed, and cleared otherwise.
Timer ==
  /\ pc[Recovery] = "idle"
  /\ DualStack
  /\ activeAF = "v4" /\ recovering = failed["v6"]
  /\ recovering' = ~failed["v6"]
  /\ UNCHANGED <<setting, up, mem, activeAF, failed, udpFailed, readers, writer, pc, todo, fell, via, budget>>

(***************************************************************************)
(* The critical section that ends a failback, and the one tryIPv6Send means *)
(* to end a failover with before the next channel is tried: `endpoint'     *)
(* follows the family that became active.  For a sender Locked never holds, *)
(* since it is one of the readers its own Lock() waits for.                *)
(***************************************************************************)
Repoint(a) ==
  /\ Locked(a)
  /\ mem' = PointAt(IF a = Recovery THEN "v6" ELSE "v4")
  /\ writer' = Nil
  /\ recovering' = (recovering /\ a # Recovery)
  /\ IF a = Recovery THEN Goto(a, "idle", <<>>) ELSE Goto(a, "send", Tail(todo[a]))
  /\ UNCHANGED <<setting, up, activeAF, failed, udpFailed, readers, fell, via, budget>>

SenderStep(s) ==
  PassOver(s) \/ Attempt(s) \/ Sent(s) \/ Refused(s) \/ GiveUp(s)

Next ==
  \/ \E c \in Channels : GoDown(c) \/ ComeBack(c)
  \/ \E a \in Actors : Announce(a)
  \/ \E s \in Senders : SendBuffer(s) \/ SenderStep(s)
  \/ \E url \in URLs : SetEndpointFromConnURL(url)
  \/ StoreActive \/ RunSection
  \/ \E f \in Families : SetEndpointFromPacket(f)
  \/ Roam
  \/ Failback \/ Timer
  \/ \E a \in Senders \cup {Recovery} : Repoint(a)

Spec == Init /\ [][Next]_vars

(***************************************************************************)
(* Properties.                                                             *)
(***************************************************************************)

TypeOK ==
  /\ setting \in Settings
  /\ up \subseteq Channels /\ fell \subseteq Channels
  /\ mem \in [endpoint : Families \cup {Nil}, ep : [Families -> Families \cup {Nil}],
              tcp : Families \cup {Nil}, tcpEp : [Families -> Families \cup {Nil}]]
  /\ activeAF \in Families \cup {Nil}
  /\ failed \in [Families -> BOOLEAN]
  /\ udpFailed \in BOOLEAN /\ recovering \in BOOLEAN
  /\ readers = {s \in Senders : pc[s] # "idle"}
  /\ writer \in Actors \cup {Nil}
  /\ \A a \in Actors : pc[a] = "locking" <=> writer = a

\* With both families known, a packet is left to FakeTCP, or given up, only
\* after each family of UDP has had an outage: the flags that tryIPv6Send and
\* tryIPv4Send share between all senders never rule out a family that has
\* worked all along.
UDPFirst ==
  \A s \in Senders :
    via[s] = "tcp" \/ (via[s] = "dual" /\ pc[s] = "idle") => Families \subseteq fell

\* No interleaving of readers and writers leaves everyone waiting for the lock:
\* among the goroutines inside a call, one can always take its next step, with
\* one exception, the sender that finds IPv6 broken and asks for the write lock
\* to switch the peer to IPv4 while it has the read lock itself.
NeverStuck ==
  LET Runs(a) == \/ pc[a] \in {"send", "sent", "refused", "active"}
                 \/ pc[a] = "lock" /\ writer = Nil
                 \/ Locked(a)
      WaitsForItself(s) == s \in readers /\ pc[s] \in {"lock", "locking"}
  IN (\E a \in Actors : pc[a] # "idle")
       => (\E a \in Actors : Runs(a)) \/ (\E s \in Senders : WaitsForItself(s))
=============================================================================
