----------------------------- MODULE Ratelimiter -----------------------------
(***************************************************************************)
(* ratelimiter/ratelimiter.go: the token buckets that limit, for each      *)
(* source address, the handshake messages a device under load looks at.    *)
(* The handshake workers call Allow; a goroutine removes idle entries.     *)
(*                                                                         *)
(* Tokens are units of time, as in the code.  The tables of IPv4 and IPv6  *)
(* addresses are one table here, since nothing tells them apart but the    *)
(* size of the key.  Entries are kept for ever in a heap: a worker that    *)
(* has looked up an entry keeps its pointer when the table drops it.       *)
(***************************************************************************)
EXTENDS Integers, Sequences

CONSTANTS
  Workers,             \* handshake workers
  IPs,
  packetCost,
  maxTokens,
  garbageCollectTime,  \* time.Second, which is also the period of the ticker
  MaxTime,             \* bound on the clock
  MaxCalls             \* bound on the calls of Allow

ASSUME RatelimiterAssumption ==
  /\ packetCost \in Nat /\ maxTokens \in Nat /\ garbageCollectTime \in Nat /\ MaxTime \in Nat /\ MaxCalls \in Nat
  /\ 0 < packetCost /\ packetCost < maxTokens /\ maxTokens <= garbageCollectTime
  /\ IPs # {}

VARIABLES
  now,
  table,     \* of each address, the entry in the heap, 0 if there is none
  entries,   \* the heap: [ip, lastTime, tokens]
  worker,    \* [pc, ip, entry, time]: a call of Allow
  gc,        \* where the garbage collection goroutine is
  ticker,    \* when its ticker fires next, 0 if it is stopped
  closed,    \* stopReset is closed
  calls,     \* how often Allow was called
  excess,    \* of each address, see Decide
  quiet      \* how long Allow has not decided for the address, as far as it matters

limiter == <<table, entries, worker, gc, ticker, closed, calls>>
history == <<excess, quiet>>
vars == <<now, limiter, history>>

Idle == [pc |-> "idle", ip |-> CHOOSE ip \in IPs : TRUE, entry |-> 0, time |-> 0]

\* Ratelimiter.Init.
Init ==
  /\ now = 0
  /\ table = [ip \in IPs |-> 0] /\ entries = <<>>
  /\ worker = [w \in Workers |-> Idle]
  /\ gc = "select" /\ ticker = 0 /\ closed = FALSE /\ calls = 0
  /\ excess = [ip \in IPs |-> 0] /\ quiet = [ip \in IPs |-> packetCost + 1]

\* rate.mu is held while a worker waits to wake the garbage collection.
MuFree == \A w \in Workers : worker[w].pc # "send"

Goto(w, pc, ip, entry, time) ==
  worker' = [worker EXCEPT ![w] = [pc |-> pc, ip |-> ip, entry |-> entry, time |-> time]]

Return(w) == worker' = [worker EXCEPT ![w] = Idle]

NonNegative(x) == IF x < 0 THEN 0 ELSE x

\* Allow decides for an address, and grants so many tokens.  excess is the
\* largest, over the stretches of time that end now, of the tokens granted
\* less the time that has passed and less what late workers gave away (given).
Decide(ip, tokens, given) ==
  /\ excess' = [excess EXCEPT ![ip] = NonNegative(@ + tokens - given)]
  /\ quiet' = [quiet EXCEPT ![ip] = 0]

(***************************************************************************)
(* Allow.                                                                  *)
(***************************************************************************)

\* The lookup.
Allow(w, ip) ==
  /\ worker[w].pc = "idle" /\ MuFree
  /\ calls < MaxCalls /\ calls' = calls + 1
  /\ Goto(w, IF table[ip] = 0 THEN "make" ELSE "take", ip, table[ip], now)
  /\ UNCHANGED <<now, table, entries, gc, ticker, closed, history>>

\* The entry made for the address is the only one of the table.
First(ip) == \A other \in IPs \ {ip} : table[other] = 0

\* No entry was found: one is made, of the time of the lookup, and takes the
\* place of one that was made since.  The packet is allowed.  A worker gives away
\* the bucket it replaces, and its packet if the clock went on since its lookup,
\* whether overtaken or not: the new bucket is of that time, and so fills for it
\* once more.  If the table was empty, or has only been given this address, the
\* garbage collection is woken with the lock held.  Waking it once Close was
\* called is a panic.
Make(w) ==
  LET ip == worker[w].ip
      t == worker[w].time
  IN /\ worker[w].pc = "make" /\ MuFree
     /\ entries' = Append(entries, [ip |-> ip, lastTime |-> t, tokens |-> maxTokens - packetCost])
     /\ table' = [table EXCEPT ![ip] = Len(entries) + 1]
     /\ Decide(ip, packetCost, (IF table[ip] # 0 THEN maxTokens ELSE 0) + (IF t < now THEN packetCost ELSE 0))
     /\ IF First(ip) THEN Goto(w, IF closed THEN "panic" ELSE "send", ip, Len(entries) + 1, t) ELSE Return(w)
     /\ UNCHANGED <<now, gc, ticker, closed, calls>>

\* Mutant: the bucket overflows.
MutFilled(e) == e.tokens + (now - e.lastTime)

\* The tokens of an entry by now.
Filled(e) ==
  LET t == e.tokens + (now - e.lastTime) IN IF t > maxTokens THEN maxTokens ELSE t

\* Mutant: the cost is compared with zero.
MutEnough(tokens) == tokens >= 0

Enough(tokens) == tokens > packetCost

\* An entry was found: it is filled, and pays for the packet if it can.
Take(w) ==
  LET ip == worker[w].ip
      i == worker[w].entry
      t == Filled(entries[i])
      cost == IF Enough(t) THEN packetCost ELSE 0
  IN /\ worker[w].pc = "take"
     /\ entries' = [entries EXCEPT ![i] = [ip |-> ip, lastTime |-> now, tokens |-> t - cost]]
     /\ Decide(ip, cost, IF table[ip] = i THEN 0 ELSE cost)
     /\ Return(w)
     /\ UNCHANGED <<now, table, gc, ticker, closed, calls>>

(***************************************************************************)
(* The garbage collection.                                                 *)
(***************************************************************************)

\* It is woken and starts the ticker; the call of Allow returns.
Wake(w) ==
  /\ worker[w].pc = "send" /\ gc = "select"
  /\ ticker' = now + garbageCollectTime
  /\ Return(w)
  /\ UNCHANGED <<now, table, entries, gc, closed, calls, history>>

TickerFires ==
  /\ gc = "select" /\ ticker # 0 /\ now >= ticker
  /\ gc' = "cleanup"
  /\ ticker' = now + garbageCollectTime
  /\ UNCHANGED <<now, table, entries, worker, closed, calls, history>>

Collected(ip) == table[ip] # 0 /\ now - entries[table[ip]].lastTime > garbageCollectTime

\* Mutant: the goroutine ends when the table is empty.
MutCleanup ==
  /\ gc = "cleanup" /\ MuFree
  /\ table' = [ip \in IPs |-> IF Collected(ip) THEN 0 ELSE table[ip]]
  /\ ticker' = IF \A ip \in IPs : table'[ip] = 0 THEN 0 ELSE ticker
  /\ gc' = IF ticker' = 0 THEN "done" ELSE "select"
  /\ UNCHANGED <<now, entries, worker, closed, calls, history>>

\* cleanup; the ticker is stopped when the table is empty.
cleanup ==
  /\ gc = "cleanup" /\ MuFree
  /\ table' = [ip \in IPs |-> IF Collected(ip) THEN 0 ELSE table[ip]]
  /\ ticker' = IF \A ip \in IPs : table'[ip] = 0 THEN 0 ELSE ticker
  /\ gc' = "select"
  /\ UNCHANGED <<now, entries, worker, closed, calls, history>>

\* Close, and the end of the garbage collection.
Close ==
  /\ ~closed /\ MuFree
  /\ closed' = TRUE
  /\ UNCHANGED <<now, table, entries, worker, gc, ticker, calls, history>>

Stopped ==
  /\ closed /\ gc = "select"
  /\ gc' = "done" /\ ticker' = 0
  /\ UNCHANGED <<now, table, entries, worker, closed, calls, history>>

Tick ==
  /\ now < MaxTime
  /\ now' = now + 1
  /\ excess' = [ip \in IPs |-> NonNegative(excess[ip] - 1)]
  /\ quiet' = [ip \in IPs |-> IF quiet[ip] > packetCost THEN quiet[ip] ELSE quiet[ip] + 1]
  /\ UNCHANGED limiter

Panicked == \E w \in Workers : worker[w].pc = "panic"

Next ==
  /\ ~Panicked
  /\ \/ \E w \in Workers : Make(w) \/ Take(w) \/ Wake(w) \/ \E ip \in IPs : Allow(w, ip)
     \/ TickerFires \/ cleanup \/ Close \/ Stopped \/ Tick

Spec == Init /\ [][Next]_vars

\* Workers that call Allow go on, and so does the garbage collection.
FairSpec ==
  /\ Spec
  /\ \A w \in Workers : WF_vars(~Panicked /\ (Make(w) \/ Take(w))) /\ WF_vars(~Panicked /\ Wake(w))
  /\ WF_vars(~Panicked /\ cleanup)

(***************************************************************************)
(* Properties.                                                             *)
(***************************************************************************)

Entry == [ip : IPs, lastTime : 0..MaxTime, tokens : 0..maxTokens]

Call == [pc : {"idle", "make", "take", "send", "panic"}, ip : IPs, entry : Nat, time : 0..MaxTime]

TypeOK ==
  /\ now \in 0..MaxTime
  /\ entries \in Seq(Entry)
  /\ \A i \in DOMAIN entries : entries[i].lastTime <= now
  /\ table \in [IPs -> 0..Len(entries)]
  /\ \A ip \in IPs : table[ip] # 0 => entries[table[ip]].ip = ip
  /\ worker \in [Workers -> Call]
  /\ \A w \in Workers :
       /\ worker[w].time <= now
       /\ worker[w].pc = "take" => worker[w].entry \in DOMAIN entries /\ entries[worker[w].entry].ip = worker[w].ip
  /\ gc \in {"select", "cleanup", "done"} /\ ticker \in Nat /\ closed \in BOOLEAN /\ calls \in 0..MaxCalls
  /\ excess \in [IPs -> Nat] /\ quiet \in [IPs -> 0..packetCost + 1]

\* In any stretch of time an address is allowed packets for the tokens of the
\* time that has passed and for one full bucket, through deleted and new
\* entries, except for what workers give away after their lookup: a bucket that
\* another worker made and theirs replaces, a packet on an entry that is not the
\* current one any more, and the packet a bucket is made for when the clock went
\* on since the lookup, even if nobody else did anything.
RateBounded == \A ip \in IPs : excess[ip] <= maxTokens

\* A worker holds rate.mu and waits for the garbage collection, which waits
\* for rate.mu.
Hung(w) == worker[w].pc = "send" /\ gc = "cleanup"

\* While the table is empty the garbage collection is at rest: a worker that
\* gives it its first entry, with the lock held, always finds it waiting.
EmptyAtRest == (\A ip \in IPs : table[ip] = 0) => ticker = 0 /\ gc # "cleanup"

\* A packet that comes later than packetCost after the previous one of its
\* address is not refused, even on an entry the table has dropped.
SlowNotRefused ==
  \A w \in Workers :
    worker[w].pc = "take" /\ ~Enough(Filled(entries[worker[w].entry])) => quiet[worker[w].ip] <= packetCost

\* Allow returns, unless Close was called or a worker that made an entry found
\* that another had made one since its lookup: it then wakes a garbage
\* collection that runs already, and both wait for ever.  No other call hangs
\* (EmptyAtRest), and packets that come slowly are allowed.
Served ==
  /\ \A w \in Workers : worker[w].pc # "idle" ~> (worker[w].pc = "idle" \/ closed \/ \E u \in Workers : Hung(u))
  /\ []EmptyAtRest
  /\ []SlowNotRefused
=============================================================================
