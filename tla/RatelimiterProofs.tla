-------------------------- MODULE RatelimiterProofs --------------------------
(***************************************************************************)
(* The rate limiter, for every number of workers, addresses and calls and  *)
(* all costs, bucket sizes and collection times that satisfy               *)
(* RatelimiterAssumption.                                                  *)
(*                                                                         *)
(* What an address has in its bucket and what it was granted beyond its    *)
(* rate never exceed one bucket together (Budget): the garbage collection  *)
(* drops only buckets that are full by then.                               *)
(***************************************************************************)
EXTENDS Ratelimiter, SequenceTheorems, TLAPS

\* What the address could spend now; without an entry it gets a new bucket.
Left(ip) == IF table[ip] = 0 THEN maxTokens ELSE Filled(entries[table[ip]])

Budget == \A ip \in IPs : excess[ip] + Left(ip) <= maxTokens

\* No entry was used after the last decision for its address.
Aged == \A i \in DOMAIN entries : quiet[entries[i].ip] <= now - entries[i].lastTime

\* A worker that waits to wake the garbage collection has made an entry.
Sending == \A w \in Workers : worker[w].pc = "send" => table[worker[w].ip] # 0

Inv == TypeOK /\ Budget /\ Aged /\ Sending /\ EmptyAtRest

LEMMA IdleType == Idle \in Call /\ Idle.pc = "idle" /\ Idle.time = 0
<1>1. (CHOOSE ip \in IPs : TRUE) \in IPs
  BY RatelimiterAssumption
<1> QED
  BY <1>1, RatelimiterAssumption DEF Idle, Call

LEMMA EntryFields ==
  ASSUME NEW e \in Entry
  PROVE  e.ip \in IPs /\ e.lastTime \in Nat /\ e.tokens \in Nat
BY RatelimiterAssumption DEF Entry

\* An entry always has between none and a full bucket of tokens.
LEMMA FilledBounds ==
  ASSUME TypeOK, NEW i \in DOMAIN entries
  PROVE  /\ entries[i] \in Entry /\ entries[i].lastTime <= now
         /\ Filled(entries[i]) \in 0..maxTokens
         /\ Filled(entries[i]) = maxTokens \/ Filled(entries[i]) = entries[i].tokens + (now - entries[i].lastTime)
<1>1. entries[i] \in Entry
  BY DEF TypeOK
<1>2. entries[i].lastTime <= now /\ now \in Nat /\ entries[i].lastTime \in Nat
  BY <1>1, RatelimiterAssumption DEF TypeOK, Entry
<1>3. maxTokens \in Nat /\ entries[i].tokens \in 0..maxTokens
  BY <1>1, RatelimiterAssumption DEF Entry
<1> QED
  BY <1>1, <1>2, <1>3 DEF Filled

LEMMA InvInit == Init => Inv
<1> SUFFICES ASSUME Init PROVE Inv
  OBVIOUS
<1> USE RatelimiterAssumption DEF Init
<1>1. entries \in Seq(Entry) /\ Len(entries) = 0 /\ DOMAIN entries = {}
  OBVIOUS
<1>2. worker \in [Workers -> Call] /\ \A w \in Workers : worker[w].pc = "idle" /\ worker[w].time = 0
  BY IdleType
<1>a. now \in 0..MaxTime /\ table \in [IPs -> 0..Len(entries)] /\ \A ip \in IPs : table[ip] = 0
  BY <1>1
<1>b. gc \in {"select", "cleanup", "done"} /\ ticker \in Nat /\ calls \in 0..MaxCalls
  OBVIOUS
<1>e. closed \in BOOLEAN
  BY Zenon
<1>c. excess \in [IPs -> Nat] /\ quiet \in [IPs -> 0..packetCost + 1]
  OBVIOUS
<1>d. \A w \in Workers : worker[w].time <= now /\ worker[w].pc # "take"
  <2> SUFFICES ASSUME NEW w \in Workers PROVE worker[w].time <= now /\ worker[w].pc # "take"
    BY Zenon
  <2>1. worker[w].time = 0 /\ worker[w].pc = "idle"
    BY <1>2
  <2> HIDE DEF Init
  <2>2. now = 0
    BY DEF Init
  <2> QED
    BY <2>1, <2>2
<1>3. TypeOK
  BY <1>1, <1>2, <1>a, <1>b, <1>c, <1>d, <1>e DEF TypeOK
<1>4. Budget
  BY DEF Budget, Left
<1>5. Aged /\ Sending /\ EmptyAtRest
  BY <1>1, <1>2 DEF Aged, Sending, EmptyAtRest
<1> QED
  BY <1>3, <1>4, <1>5 DEF Inv

(***************************************************************************)
(* What the parts of an action do to one variable.                         *)
(***************************************************************************)

\* Only the worker that acts changes its state.
LEMMA WorkerStep ==
  ASSUME TypeOK, NEW w \in Workers, NEW c \in Call, worker' = [worker EXCEPT ![w] = c]
  PROVE  /\ worker' \in [Workers -> Call]
         /\ worker'[w] = c
         /\ \A u \in Workers \ {w} : worker'[u] = worker[u]
  BY DEF TypeOK

LEMMA DecideStep ==
  ASSUME TypeOK, NEW ip \in IPs, NEW tokens \in Nat, NEW given \in Nat, Decide(ip, tokens, given)
  PROVE  /\ excess' \in [IPs -> Nat] /\ quiet' \in [IPs -> 0..packetCost + 1]
         /\ excess'[ip] = IF excess[ip] + tokens - given < 0 THEN 0 ELSE excess[ip] + tokens - given
         /\ quiet'[ip] = 0
         /\ \A other \in IPs \ {ip} : excess'[other] = excess[other] /\ quiet'[other] = quiet[other]
<1>1. excess \in [IPs -> Nat] /\ quiet \in [IPs -> 0..packetCost + 1]
  BY DEF TypeOK
<1>2. NonNegative(excess[ip] + tokens - given) \in Nat
  BY <1>1 DEF NonNegative
<1> QED
  BY <1>1, <1>2, RatelimiterAssumption DEF Decide, NonNegative

\* Left only depends on the entry the table has for the address.
LEMMA SameLeft ==
  ASSUME NEW ip \in IPs, now' = now, table'[ip] = table[ip],
         table[ip] # 0 => entries'[table[ip]] = entries[table[ip]]
  PROVE  Left(ip)' = Left(ip)
  BY DEF Left, Filled

LEMMA LeftType ==
  ASSUME TypeOK, NEW ip \in IPs
  PROVE  Left(ip) \in 0..maxTokens
<1>1. table[ip] # 0 => table[ip] \in DOMAIN entries
  BY LenProperties DEF TypeOK
<1> QED
  BY <1>1, FilledBounds, RatelimiterAssumption DEF Left

\* Steps that touch no bucket and no history keep Budget and Aged.
LEMMA BucketsKept ==
  ASSUME Budget, Aged, UNCHANGED <<now, table, entries, history>>
  PROVE  Budget' /\ Aged'
<1>1. \A ip \in IPs : Left(ip)' = Left(ip)
  BY DEF Left, Filled
<1> QED
  BY <1>1 DEF Budget, Aged, history

\* What a worker finds.
LEMMA AllowStep ==
  ASSUME Inv, NEW w \in Workers, NEW ip \in IPs, Allow(w, ip)
  PROVE  Inv'
<1> USE RatelimiterAssumption DEF Inv
<1> DEFINE c == [pc |-> IF table[ip] = 0 THEN "make" ELSE "take", ip |-> ip, entry |-> table[ip], time |-> now]
<1>1. entries \in Seq(Entry) /\ DOMAIN entries = 1..Len(entries) /\ Len(entries) \in Nat
  BY LenProperties DEF TypeOK
<1>2. table[ip] \in 0..Len(entries) /\ now \in 0..MaxTime
  BY DEF TypeOK
<1>3. c \in Call /\ c.pc # "send" /\ c.time = now /\ c.ip = ip
  BY <1>1, <1>2 DEF Call
<1>4. c.pc = "take" => c.entry \in DOMAIN entries /\ entries[c.entry].ip = c.ip
  BY <1>1, <1>2 DEF TypeOK
<1>5. worker' = [worker EXCEPT ![w] = c]
  BY DEF Allow, Goto
<1> HIDE DEF c
<1>6. /\ worker' \in [Workers -> Call] /\ worker'[w] = c
      /\ \A u \in Workers \ {w} : worker'[u] = worker[u]
  BY <1>3, <1>5, WorkerStep, Zenon
<1>7. UNCHANGED <<now, table, entries, gc, ticker, closed, history>> /\ calls' \in 0..MaxCalls
  BY DEF Allow, TypeOK
<1>8. \A u \in Workers : /\ worker'[u].time <= now
                         /\ worker'[u].pc = "take" => worker'[u].entry \in DOMAIN entries /\ entries[worker'[u].entry].ip = worker'[u].ip
  <2> TAKE u \in Workers
  <2>1. CASE u = w
    BY <2>1, <1>2, <1>3, <1>4, <1>6
  <2>2. CASE u # w
    <3>1. worker'[u] = worker[u]
      BY <2>2, <1>6
    <3> QED
      BY <3>1 DEF TypeOK
  <2> QED
    BY <2>1, <2>2
<1>9. TypeOK'
  BY <1>6, <1>7, <1>8 DEF TypeOK, history
<1>10. Budget' /\ Aged'
  BY <1>7, BucketsKept
<1>11. Sending'
  BY <1>3, <1>6, <1>7 DEF Sending
<1>12. EmptyAtRest'
  BY <1>7 DEF EmptyAtRest
<1> QED
  BY <1>9, <1>10, <1>11, <1>12

\* A worker moves on, and what entries are for does not change.
LEMMA WorkersKept ==
  ASSUME TypeOK, NEW w \in Workers, NEW c \in Call, worker' = [worker EXCEPT ![w] = c],
         c.time <= now, c.pc # "take", now' = now,
         \A i \in DOMAIN entries : i \in DOMAIN entries' /\ entries'[i].ip = entries[i].ip
  PROVE  /\ worker' \in [Workers -> Call]
         /\ worker'[w] = c
         /\ \A u \in Workers \ {w} : worker'[u] = worker[u]
         /\ \A u \in Workers :
              /\ worker'[u].time <= now'
              /\ worker'[u].pc = "take" => worker'[u].entry \in DOMAIN entries' /\ entries'[worker'[u].entry].ip = worker'[u].ip
<1>1. /\ worker' \in [Workers -> Call] /\ worker'[w] = c
      /\ \A u \in Workers \ {w} : worker'[u] = worker[u]
  BY WorkerStep, Zenon
<1>2. ASSUME NEW u \in Workers
      PROVE  /\ worker'[u].time <= now'
             /\ worker'[u].pc = "take" => worker'[u].entry \in DOMAIN entries' /\ entries'[worker'[u].entry].ip = worker'[u].ip
  <2>1. CASE u = w
    BY <2>1, <1>1
  <2>2. CASE u # w
    <3>1. worker'[u] = worker[u]
      BY <2>2, <1>1
    <3> QED
      BY <3>1, Zenon DEF TypeOK
  <2> QED
    BY <2>1, <2>2
<1> QED
  BY <1>1, <1>2

\* The bucket of an address pays for what it is granted; an entry that is not
\* the current one pays with what is given away.
LEMMA TakeStep ==
  ASSUME Inv, NEW w \in Workers, Take(w)
  PROVE  Inv'
<1> USE RatelimiterAssumption DEF Inv
<1> DEFINE ip == worker[w].ip
           i == worker[w].entry
           t == Filled(entries[i])
           cost == IF Enough(t) THEN packetCost ELSE 0
           e == [ip |-> ip, lastTime |-> now, tokens |-> t - cost]
           given == IF table[ip] = i THEN 0 ELSE cost
<1>1. entries \in Seq(Entry) /\ DOMAIN entries = 1..Len(entries) /\ Len(entries) \in Nat /\ now \in 0..MaxTime
  BY LenProperties DEF TypeOK
<1>2. ip \in IPs /\ i \in DOMAIN entries /\ entries[i].ip = ip
  BY DEF Take, TypeOK, Call
<1>3. t \in 0..maxTokens
  BY <1>2, FilledBounds
<1>4. cost \in Nat /\ cost <= t /\ given \in Nat
  BY <1>3 DEF Enough
<1>5. e \in Entry /\ e.ip = ip /\ e.lastTime = now /\ e.tokens = t - cost
  BY <1>1, <1>2, <1>3, <1>4 DEF Entry
<1>6. /\ entries' = [entries EXCEPT ![i] = e] /\ Decide(ip, cost, given)
      /\ worker' = [worker EXCEPT ![w] = Idle] /\ UNCHANGED <<now, table, gc, ticker, closed, calls>>
  BY DEF Take, Return
<1> HIDE DEF e
<1>7. entries' \in Seq(Entry) /\ Len(entries') = Len(entries) /\ DOMAIN entries' = 1..Len(entries)
      /\ \A j \in 1..Len(entries) : entries'[j] = IF j = i THEN e ELSE entries[j]
  BY <1>1, <1>2, <1>5, <1>6, ExceptSeq
<1> HIDE DEF t, given, ip, i, cost
<1>8. /\ excess' \in [IPs -> Nat] /\ quiet' \in [IPs -> 0..packetCost + 1]
      /\ excess'[ip] = (IF excess[ip] + cost - given < 0 THEN 0 ELSE excess[ip] + cost - given) /\ quiet'[ip] = 0
      /\ \A other \in IPs \ {ip} : excess'[other] = excess[other] /\ quiet'[other] = quiet[other]
  BY <1>2, <1>4, <1>6, DecideStep
<1>9. \A j \in DOMAIN entries : j \in DOMAIN entries' /\ entries'[j].ip = entries[j].ip
  BY <1>1, <1>2, <1>5, <1>7
<1>10. /\ worker' \in [Workers -> Call] /\ worker'[w] = Idle /\ \A u \in Workers \ {w} : worker'[u] = worker[u]
       /\ \A u \in Workers :
            /\ worker'[u].time <= now'
            /\ worker'[u].pc = "take" => worker'[u].entry \in DOMAIN entries' /\ entries'[worker'[u].entry].ip = worker'[u].ip
  <2>1. Idle.time <= now /\ Idle.pc # "take"
    BY <1>1, IdleType
  <2> QED
    BY <2>1, <1>6, <1>9, IdleType, WorkersKept, Zenon
<1>11. \A j \in DOMAIN entries' : entries'[j].lastTime <= now
  <2> SUFFICES ASSUME NEW j \in 1..Len(entries) PROVE entries'[j].lastTime <= now
    BY <1>7
  <2>1. CASE j = i
    BY <2>1, <1>1, <1>5, <1>7
  <2>2. CASE j # i
    BY <2>2, <1>1, <1>7, Zenon DEF TypeOK
  <2> QED
    BY <2>1, <2>2
<1>12. table \in [IPs -> 0..Len(entries')] /\ \A a \in IPs : table[a] # 0 => entries'[table[a]].ip = a
  <2>1. table \in [IPs -> 0..Len(entries)] /\ \A a \in IPs : table[a] # 0 => entries[table[a]].ip = a
    BY Zenon DEF TypeOK
  <2>2. table \in [IPs -> 0..Len(entries')]
    BY <2>1, <1>7, Zenon
  <2>3. ASSUME NEW a \in IPs, table[a] # 0 PROVE entries'[table[a]].ip = a
    <3>1. table[a] \in 0..Len(entries)
      BY <2>1, Zenon
    <3>2. table[a] \in DOMAIN entries
      BY <3>1, <2>3, <1>1
    <3> QED
      BY <3>2, <1>9, <2>1, <2>3, Zenon
  <2> QED
    BY <2>2, <2>3, Zenon
<1>13. TypeOK'
  BY <1>6, <1>7, <1>8, <1>10, <1>11, <1>12, Zenon DEF TypeOK
<1>14. Budget'
  <2> SUFFICES ASSUME NEW a \in IPs PROVE excess'[a] + Left(a)' <= maxTokens
    BY DEF Budget
  <2>1. excess[a] \in Nat /\ excess[a] + Left(a) <= maxTokens /\ Left(a) \in 0..maxTokens
    BY LeftType, Zenon DEF Budget, TypeOK
  <2>2. CASE a = ip /\ table[a] = i
    <3>1. i # 0
      BY <1>1, <1>2
    <3>2. Left(a) = t
      BY <3>1, <2>2 DEF Left, t
    <3>3. entries'[table'[a]] = e
      BY <2>2, <1>1, <1>2, <1>6, <1>7
    <3>4. Left(a)' = IF e.tokens + (now - e.lastTime) > maxTokens THEN maxTokens ELSE e.tokens + (now - e.lastTime)
      BY <3>1, <3>3, <2>2, <1>6 DEF Left, Filled
    <3>5. e.tokens + (now - e.lastTime) = t - cost /\ t - cost <= maxTokens
      BY <1>1, <1>3, <1>4, <1>5
    <3>6. given = 0
      BY <2>2 DEF given
    <3> QED
      BY <3>2, <3>4, <3>5, <3>6, <2>1, <2>2, <1>3, <1>4, <1>8
  <2>3. CASE a = ip /\ table[a] # i
    <3>1. given = cost
      BY <2>3 DEF given
    <3>2. excess'[a] = excess[a]
      BY <3>1, <2>1, <2>3, <1>4, <1>8
    <3>3. table[a] # 0 => entries'[table[a]] = entries[table[a]]
      BY <2>3, <1>1, <1>7 DEF TypeOK
    <3> QED
      BY <3>2, <3>3, <2>1, <1>6, SameLeft
  <2>4. CASE a # ip
    <3>1. table[a] # 0 => table[a] \in 1..Len(entries) /\ table[a] # i
      BY <2>4, <1>1, <1>2 DEF TypeOK
    <3>2. table[a] # 0 => entries'[table[a]] = entries[table[a]]
      BY <3>1, <1>7
    <3> QED
      BY <3>2, <2>1, <2>4, <1>6, <1>8, SameLeft
  <2> QED
    BY <2>2, <2>3, <2>4
<1>15. Aged'
  <2> SUFFICES ASSUME NEW j \in 1..Len(entries) PROVE quiet'[entries'[j].ip] <= now - entries'[j].lastTime
    BY <1>6, <1>7 DEF Aged
  <2>1. entries'[j].ip \in IPs /\ entries'[j].lastTime \in Nat /\ entries'[j].lastTime <= now
    <3>1. entries'[j] \in Entry
      BY <1>7, ElementOfSeq
    <3> QED
      BY <3>1, <1>7, <1>11 DEF Entry
  <2>2. CASE entries'[j].ip = ip
    BY <2>1, <2>2, <1>1, <1>8
  <2>3. CASE entries'[j].ip # ip
    <3>1. entries'[j] = entries[j]
      BY <2>3, <1>5, <1>7
    <3>2. quiet[entries[j].ip] <= now - entries[j].lastTime
      BY <1>1 DEF Aged
    <3> QED
      BY <3>1, <3>2, <2>1, <2>3, <1>8
  <2> QED
    BY <2>2, <2>3
<1>16. Sending'
  BY <1>6, <1>10, IdleType DEF Sending
<1>17. EmptyAtRest'
  BY <1>6 DEF EmptyAtRest
<1> QED
  BY <1>13, <1>14, <1>15, <1>16, <1>17

\* A new entry holds what a full bucket has left after the packet.  Without an
\* entry before it the address has not exceeded its rate at all; and what a
\* late or replacing entry adds is given away.
LEMMA MakeStep ==
  ASSUME Inv, NEW w \in Workers, Make(w)
  PROVE  Inv'
<1> USE RatelimiterAssumption DEF Inv
<1> DEFINE ip == worker[w].ip
           t == worker[w].time
           n == Len(entries) + 1
           e == [ip |-> ip, lastTime |-> t, tokens |-> maxTokens - packetCost]
           given == (IF table[ip] # 0 THEN maxTokens ELSE 0) + (IF t < now THEN packetCost ELSE 0)
           c == IF First(ip) THEN [pc |-> IF closed THEN "panic" ELSE "send", ip |-> ip, entry |-> n, time |-> t] ELSE Idle
<1>1. entries \in Seq(Entry) /\ DOMAIN entries = 1..Len(entries) /\ Len(entries) \in Nat /\ now \in 0..MaxTime
  BY LenProperties DEF TypeOK
<1>2. ip \in IPs /\ t \in 0..MaxTime /\ t <= now
  BY DEF Make, TypeOK, Call
<1>3. e \in Entry /\ e.ip = ip /\ e.lastTime = t /\ e.tokens = maxTokens - packetCost
  BY <1>2 DEF Entry
<1>4. given \in Nat
  OBVIOUS
<1>5. c \in Call /\ c.time <= now /\ c.pc # "take" /\ (c.pc = "send" => c.ip = ip)
  <2>1. CASE First(ip)
    BY <2>1, <1>1, <1>2 DEF Call
  <2>2. CASE ~First(ip)
    BY <2>2, <1>1, IdleType
  <2> QED
    BY <2>1, <2>2, Zenon
<1>6. /\ entries' = Append(entries, e) /\ table' = [table EXCEPT ![ip] = n] /\ Decide(ip, packetCost, given)
      /\ UNCHANGED <<now, gc, ticker, closed, calls>>
  BY Zenon DEF Make
<1>7. worker' = [worker EXCEPT ![w] = c]
  BY DEF Make, Goto, Return
<1> HIDE DEF e, c, given, t
<1>8. /\ entries' \in Seq(Entry) /\ Len(entries') = n /\ DOMAIN entries' = 1..n
      /\ entries'[n] = e /\ \A j \in 1..Len(entries) : entries'[j] = entries[j]
  BY <1>1, <1>3, <1>6, AppendProperties, LenProperties
<1> HIDE DEF ip
<1>9. /\ table' \in [IPs -> 0..n] /\ table'[ip] = n /\ \A a \in IPs \ {ip} : table'[a] = table[a]
  <2>1. n \in 0..n /\ \A m \in 0..Len(entries) : m \in 0..n
    BY <1>1
  <2>2. table \in [IPs -> 0..n]
    <3> HIDE DEF n
    <3> QED
      BY <2>1 DEF TypeOK
  <2> HIDE DEF n
  <2> QED
    BY <2>1, <2>2, <1>2, <1>6
<1>10. n \in Nat /\ n # 0 /\ n \notin 1..Len(entries)
  BY <1>1
<1> HIDE DEF n
<1>11. /\ excess' \in [IPs -> Nat] /\ quiet' \in [IPs -> 0..packetCost + 1]
       /\ excess'[ip] = (IF excess[ip] + packetCost - given < 0 THEN 0 ELSE excess[ip] + packetCost - given) /\ quiet'[ip] = 0
       /\ \A other \in IPs \ {ip} : excess'[other] = excess[other] /\ quiet'[other] = quiet[other]
  BY <1>2, <1>4, <1>6, DecideStep
<1>12. \A j \in 1..n : j = n \/ j \in 1..Len(entries)
  BY <1>1 DEF n
<1>13. \A j \in DOMAIN entries : j \in DOMAIN entries' /\ entries'[j].ip = entries[j].ip
  BY <1>1, <1>8 DEF n
<1>14. /\ worker' \in [Workers -> Call] /\ worker'[w] = c /\ \A u \in Workers \ {w} : worker'[u] = worker[u]
       /\ \A u \in Workers :
            /\ worker'[u].time <= now'
            /\ worker'[u].pc = "take" => worker'[u].entry \in DOMAIN entries' /\ entries'[worker'[u].entry].ip = worker'[u].ip
  BY <1>5, <1>6, <1>7, <1>13, WorkersKept, Zenon
<1>15. \A j \in DOMAIN entries' : entries'[j].lastTime <= now
  BY <1>1, <1>2, <1>3, <1>8, <1>12, Zenon DEF TypeOK
<1>16. \A a \in IPs : table'[a] # 0 => entries'[table'[a]].ip = a
  <2> SUFFICES ASSUME NEW a \in IPs, table'[a] # 0 PROVE entries'[table'[a]].ip = a
    OBVIOUS
  <2>1. CASE a = ip
    BY <2>1, <1>3, <1>8, <1>9
  <2>2. CASE a # ip
    <3>1. table'[a] = table[a] /\ table[a] \in 1..Len(entries)
      BY <2>2, <1>1, <1>9 DEF TypeOK
    <3> QED
      BY <3>1, <1>8, Zenon DEF TypeOK
  <2> QED
    BY <2>1, <2>2
<1>17. TypeOK'
  BY <1>6, <1>8, <1>9, <1>11, <1>14, <1>15, <1>16, Zenon DEF TypeOK
<1>18. Budget'
  <2> SUFFICES ASSUME NEW a \in IPs PROVE excess'[a] + Left(a)' <= maxTokens
    BY DEF Budget
  <2>1. excess[a] \in Nat /\ excess[a] + Left(a) <= maxTokens /\ Left(a) \in 0..maxTokens
    BY LeftType, Zenon DEF Budget, TypeOK
  <2>2. CASE a = ip
    <3>1. Left(a)' = IF e.tokens + (now - e.lastTime) > maxTokens THEN maxTokens ELSE e.tokens + (now - e.lastTime)
      BY <2>2, <1>6, <1>8, <1>9, <1>10, Zenon DEF Left, Filled
    <3>2. Left(a)' \in 0..maxTokens /\ (t = now => Left(a)' = maxTokens - packetCost)
      BY <3>1, <1>1, <1>2, <1>3
    <3>3. table[a] = 0 => excess[a] = 0
      BY <2>1 DEF Left
    <3>4. t < now => excess'[a] = 0
      <4>1. t < now => given >= packetCost /\ (table[a] # 0 => given >= maxTokens + packetCost)
        BY <2>2 DEF given
      <4> QED
        BY <4>1, <3>3, <2>1, <2>2, <1>4, <1>11
    <3>5. t = now => excess'[a] <= packetCost
      <4>1. table[a] # 0 => given >= maxTokens
        BY <2>2 DEF given
      <4> QED
        BY <4>1, <3>3, <2>1, <2>2, <1>4, <1>11
    <3>6. excess'[a] \in Nat
      BY <1>11
    <3> QED
      BY <3>2, <3>4, <3>5, <3>6, <1>1, <1>2
  <2>3. CASE a # ip
    <3>1. table[a] # 0 => table[a] \in 1..Len(entries)
      BY <1>1 DEF TypeOK
    <3>2. table[a] # 0 => entries'[table[a]] = entries[table[a]]
      BY <3>1, <1>8
    <3>3. Left(a)' = Left(a)
      BY <3>2, <2>3, <1>6, <1>9, SameLeft, Zenon
    <3> QED
      BY <3>3, <2>1, <2>3, <1>11
  <2> QED
    BY <2>2, <2>3
<1>19. Aged'
  <2> SUFFICES ASSUME NEW j \in 1..n PROVE quiet'[entries'[j].ip] <= now - entries'[j].lastTime
    BY <1>6, <1>8 DEF Aged
  <2>1. entries'[j].ip \in IPs /\ entries'[j].lastTime \in Nat /\ entries'[j].lastTime <= now
    <3>1. entries'[j] \in Entry
      BY <1>8, ElementOfSeq
    <3> QED
      BY <3>1, <1>8, <1>15 DEF Entry
  <2>2. CASE entries'[j].ip = ip
    BY <2>1, <2>2, <1>1, <1>11
  <2>3. CASE entries'[j].ip # ip
    <3>1. j \in 1..Len(entries) /\ entries'[j] = entries[j]
      BY <2>3, <1>3, <1>8, <1>12
    <3>2. quiet[entries[j].ip] <= now - entries[j].lastTime
      BY <3>1, <1>1 DEF Aged
    <3> QED
      BY <3>1, <3>2, <2>1, <2>3, <1>11
  <2> QED
    BY <2>2, <2>3
<1>20. Sending'
  <2> SUFFICES ASSUME NEW u \in Workers, worker'[u].pc = "send" PROVE table'[worker'[u].ip] # 0
    BY DEF Sending
  <2>1. CASE u = w
    BY <2>1, <1>5, <1>9, <1>10, <1>14
  <2>2. CASE u # w
    <3>1. worker'[u] = worker[u] /\ worker[u].ip \in IPs /\ table[worker[u].ip] # 0
      BY <2>2, <1>14, Zenon DEF Sending, TypeOK, Call
    <3> QED
      BY <3>1, <1>9, <1>10
  <2> QED
    BY <2>1, <2>2
<1>21. EmptyAtRest'
  BY <1>2, <1>9, <1>10 DEF EmptyAtRest
<1> QED
  BY <1>17, <1>18, <1>19, <1>20, <1>21

(***************************************************************************)
(* The garbage collection, and time.                                       *)
(***************************************************************************)

LEMMA WakeStep ==
  ASSUME Inv, NEW w \in Workers, Wake(w)
  PROVE  Inv'
<1> USE RatelimiterAssumption DEF Inv
<1>1. worker' = [worker EXCEPT ![w] = Idle] /\ UNCHANGED <<now, table, entries, gc, closed, calls, history>>
  BY DEF Wake, Return
<1>2. now \in Nat /\ ticker' \in Nat
  BY DEF Wake, TypeOK
<1>3. /\ worker' \in [Workers -> Call] /\ worker'[w] = Idle /\ \A u \in Workers \ {w} : worker'[u] = worker[u]
      /\ \A u \in Workers :
           /\ worker'[u].time <= now'
           /\ worker'[u].pc = "take" => worker'[u].entry \in DOMAIN entries' /\ entries'[worker'[u].entry].ip = worker'[u].ip
  <2>1. Idle.time <= now /\ Idle.pc # "take"
    BY <1>2, IdleType
  <2> QED
    BY <2>1, <1>1, IdleType, WorkersKept, Zenon
<1>4. TypeOK'
  BY <1>1, <1>2, <1>3 DEF TypeOK, history
<1>5. Budget' /\ Aged'
  BY <1>1, BucketsKept
<1>6. Sending'
  BY <1>1, <1>3, IdleType DEF Sending
<1>7. EmptyAtRest'
  <2>1. worker[w].ip \in IPs /\ table[worker[w].ip] # 0
    BY DEF Wake, Sending, TypeOK, Call
  <2> QED
    BY <2>1, <1>1 DEF EmptyAtRest
<1> QED
  BY <1>4, <1>5, <1>6, <1>7

\* The ticker, Close and the end of the garbage collection touch no bucket.
LEMMA SignalStep ==
  ASSUME Inv, TickerFires \/ Close \/ Stopped
  PROVE  Inv'
<1> USE RatelimiterAssumption DEF Inv
<1>1. UNCHANGED <<now, table, entries, worker, calls, history>>
  BY DEF TickerFires, Close, Stopped
<1>2. ticker' \in Nat /\ gc' \in {"select", "cleanup", "done"}
  BY DEF TickerFires, Close, Stopped, TypeOK
<1>3. closed' \in BOOLEAN
  BY Zenon DEF TickerFires, Close, Stopped, TypeOK
<1>4. TypeOK'
  BY <1>1, <1>2, <1>3 DEF TypeOK, history
<1>5. Budget' /\ Aged'
  BY <1>1, BucketsKept
<1>6. Sending' /\ EmptyAtRest'
  BY <1>1 DEF Sending, EmptyAtRest, TickerFires, Close, Stopped
<1> QED
  BY <1>4, <1>5, <1>6

\* A bucket that is dropped is full, as nothing was taken from it for at least
\* the time it takes to fill.
LEMMA CleanupStep ==
  ASSUME Inv, cleanup
  PROVE  Inv'
<1> USE RatelimiterAssumption DEF Inv
<1>1. UNCHANGED <<now, entries, worker, closed, calls, history>> /\ gc' = "select"
  BY DEF cleanup
<1>2. \A ip \in IPs : table'[ip] = IF Collected(ip) THEN 0 ELSE table[ip]
  BY DEF cleanup
<1>3. table' \in [IPs -> 0..Len(entries)]
  BY LenProperties DEF cleanup, TypeOK
<1>4. ticker' \in Nat
  BY DEF cleanup, TypeOK
<1>5. TypeOK'
  BY <1>1, <1>2, <1>3, <1>4, Zenon DEF TypeOK, history
<1>6. Budget'
  <2> SUFFICES ASSUME NEW ip \in IPs PROVE excess'[ip] + Left(ip)' <= maxTokens
    BY DEF Budget
  <2>1. excess'[ip] = excess[ip] /\ excess[ip] \in Nat /\ excess[ip] + Left(ip) <= maxTokens
    BY <1>1 DEF Budget, TypeOK, history
  <2>2. CASE Collected(ip)
    <3>1. table[ip] # 0 /\ table[ip] \in DOMAIN entries /\ now - entries[table[ip]].lastTime > garbageCollectTime
      BY <2>2, LenProperties DEF Collected, TypeOK
    <3>2. entries[table[ip]] \in Entry
      BY <3>1, FilledBounds
    <3>3. entries[table[ip]].lastTime \in Nat /\ entries[table[ip]].tokens \in Nat
      BY <3>2, EntryFields
    <3>a. now \in Nat
      BY DEF TypeOK
    <3>4. Left(ip) = maxTokens
      BY <3>1, <3>3, <3>a DEF Left, Filled
    <3>5. Left(ip)' = maxTokens
      BY <2>2, <1>2 DEF Left
    <3> QED
      BY <3>4, <3>5, <2>1
  <2>3. CASE ~Collected(ip)
    <3>1. Left(ip)' = Left(ip)
      BY <2>3, <1>1, <1>2, SameLeft
    <3> QED
      BY <3>1, <2>1
  <2> QED
    BY <2>2, <2>3
<1>7. Aged'
  BY <1>1 DEF Aged, history
<1>8. Sending'
  BY <1>1 DEF Sending, cleanup, MuFree
<1>9. EmptyAtRest'
  BY <1>1 DEF EmptyAtRest, cleanup
<1> QED
  BY <1>5, <1>6, <1>7, <1>8, <1>9

\* A bucket fills by no more than the time that passes.
LEMMA TickStep ==
  ASSUME Inv, Tick
  PROVE  Inv'
<1> USE RatelimiterAssumption DEF Inv
<1>1. now \in 0..MaxTime /\ now' = now + 1 /\ now' \in 0..MaxTime /\ UNCHANGED limiter
  BY DEF Tick, TypeOK
<1>2. UNCHANGED <<table, entries, worker, gc, ticker, closed, calls>>
  BY <1>1 DEF limiter
<1>3. excess \in [IPs -> Nat] /\ quiet \in [IPs -> 0..packetCost + 1]
  BY DEF TypeOK
<1>4. /\ excess' = [ip \in IPs |-> IF excess[ip] - 1 < 0 THEN 0 ELSE excess[ip] - 1]
      /\ quiet' = [ip \in IPs |-> IF quiet[ip] > packetCost THEN quiet[ip] ELSE quiet[ip] + 1]
  BY DEF Tick, NonNegative
<1>5. excess' \in [IPs -> Nat] /\ quiet' \in [IPs -> 0..packetCost + 1]
  BY <1>3, <1>4
<1>6. \A i \in DOMAIN entries : entries[i].lastTime \in Nat /\ entries[i].lastTime <= now /\ entries[i].ip \in IPs
  BY FilledBounds DEF Entry
<1>7. \A w \in Workers : worker[w].time \in Nat /\ worker[w].time <= now
  <2> SUFFICES ASSUME NEW w \in Workers PROVE worker[w].time \in Nat /\ worker[w].time <= now
    BY Zenon
  <2>1. worker[w] \in Call /\ worker[w].time <= now
    BY DEF TypeOK
  <2> QED
    BY <2>1 DEF Call
<1>8. /\ \A i \in DOMAIN entries : entries[i].lastTime <= now'
      /\ \A w \in Workers : worker[w].time <= now'
  BY <1>1, <1>6, <1>7
<1>9. TypeOK'
  BY <1>1, <1>2, <1>5, <1>8 DEF TypeOK
<1>10. Budget'
  <2> SUFFICES ASSUME NEW ip \in IPs PROVE excess'[ip] + Left(ip)' <= maxTokens
    BY DEF Budget
  <2>1. excess[ip] \in Nat /\ excess[ip] + Left(ip) <= maxTokens /\ Left(ip) \in 0..maxTokens
    BY <1>3, LeftType DEF Budget
  <2>2. excess'[ip] = IF excess[ip] - 1 < 0 THEN 0 ELSE excess[ip] - 1
    BY <1>4
  <2>3. Left(ip)' <= maxTokens /\ Left(ip)' <= Left(ip) + 1 /\ Left(ip)' \in Int
    <3>1. CASE table[ip] = 0
      BY <3>1, <1>2 DEF Left
    <3>2. CASE table[ip] # 0
      <4>1. table[ip] \in DOMAIN entries
        BY <3>2, LenProperties DEF TypeOK
      <4>2. entries[table[ip]] \in Entry
        BY <4>1, FilledBounds
      <4>3. entries[table[ip]].lastTime \in Nat /\ entries[table[ip]].tokens \in Nat
        BY <4>2 DEF Entry
      <4>4. Left(ip) = IF entries[table[ip]].tokens + (now - entries[table[ip]].lastTime) > maxTokens THEN maxTokens
                       ELSE entries[table[ip]].tokens + (now - entries[table[ip]].lastTime)
        BY <3>2 DEF Left, Filled
      <4>5. Left(ip)' = IF entries[table[ip]].tokens + (now' - entries[table[ip]].lastTime) > maxTokens THEN maxTokens
                        ELSE entries[table[ip]].tokens + (now' - entries[table[ip]].lastTime)
        BY <3>2, <1>2 DEF Left, Filled
      <4> QED
        BY <4>3, <4>4, <4>5, <1>1
    <3> QED
      BY <3>1, <3>2
  <2> QED
    BY <2>1, <2>2, <2>3
<1>11. Aged'
  <2> SUFFICES ASSUME NEW i \in DOMAIN entries PROVE quiet'[entries[i].ip] <= now' - entries[i].lastTime
    BY <1>2 DEF Aged
  <2>1. quiet[entries[i].ip] <= now - entries[i].lastTime /\ quiet[entries[i].ip] \in Nat
    BY <1>3, <1>6 DEF Aged
  <2>2. quiet'[entries[i].ip] <= quiet[entries[i].ip] + 1 /\ quiet'[entries[i].ip] \in Nat
    BY <2>1, <1>4, <1>5, <1>6
  <2> QED
    BY <2>1, <2>2, <1>1, <1>6
<1>12. Sending' /\ EmptyAtRest'
  BY <1>2 DEF Sending, EmptyAtRest
<1> QED
  BY <1>9, <1>10, <1>11, <1>12

LEMMA InvNext == Inv /\ [Next]_vars => Inv'
<1> SUFFICES ASSUME Inv, [Next]_vars PROVE Inv'
  OBVIOUS
<1>1. ASSUME NEW w \in Workers, NEW ip \in IPs, Allow(w, ip) PROVE Inv'
  BY <1>1, AllowStep
<1>2. ASSUME NEW w \in Workers, Make(w) PROVE Inv'
  BY <1>2, MakeStep
<1>3. ASSUME NEW w \in Workers, Take(w) PROVE Inv'
  BY <1>3, TakeStep
<1>4. ASSUME NEW w \in Workers, Wake(w) PROVE Inv'
  BY <1>4, WakeStep
<1>5. CASE TickerFires \/ Close \/ Stopped
  BY <1>5, SignalStep
<1>6. CASE cleanup
  BY <1>6, CleanupStep
<1>7. CASE Tick
  BY <1>7, TickStep
<1>8. CASE UNCHANGED vars
  <2>1. UNCHANGED <<now, table, entries, worker, gc, ticker, closed, calls, history, excess, quiet>>
    BY <1>8 DEF vars, limiter, history
  <2>2. TypeOK'
    BY <2>1 DEF Inv, TypeOK
  <2>3. Budget' /\ Aged'
    BY <2>1, BucketsKept DEF Inv
  <2> QED
    BY <2>1, <2>2, <2>3 DEF Inv, Sending, EmptyAtRest
<1> QED
  BY <1>1, <1>2, <1>3, <1>4, <1>5, <1>6, <1>7, <1>8 DEF Next

\* The inductive invariant: bucket and excess together are one bucket, no
\* entry is younger than the last decision for its address, and an empty table
\* has no garbage collection under way.
THEOREM LimiterInvariant == Spec => []Inv
  BY InvInit, InvNext, PTL DEF Spec

\* The limiter keeps its type, for every number of workers and addresses.
THEOREM TypeCorrect == Spec => []TypeOK
<1>1. Inv => TypeOK
  BY DEF Inv
<1> QED
  BY <1>1, LimiterInvariant, PTL

\* However the workers that call Allow, the garbage collection and the clock
\* interleave, no address is granted more than one bucket beyond its rate,
\* except for what overtaken workers give away.
THEOREM RateIsBounded == Spec => []RateBounded
<1>1. Inv => RateBounded
  <2> SUFFICES ASSUME Inv, NEW ip \in IPs PROVE excess[ip] <= maxTokens
    BY DEF RateBounded
  <2>1. excess[ip] \in Nat /\ excess[ip] + Left(ip) <= maxTokens /\ Left(ip) \in 0..maxTokens
    BY LeftType DEF Inv, Budget, TypeOK
  <2> QED
    BY <2>1, RatelimiterAssumption
<1> QED
  BY <1>1, LimiterInvariant, PTL

\* The safety half of Served: the garbage collection is at rest while the
\* table is empty, and Allow refuses no packet that comes slowly.
THEOREM ServedSafely == Spec => [](EmptyAtRest /\ SlowNotRefused)
<1>1. Inv => EmptyAtRest /\ SlowNotRefused
  <2> SUFFICES ASSUME Inv PROVE SlowNotRefused
    BY DEF Inv
  <2> SUFFICES ASSUME NEW w \in Workers, worker[w].pc = "take", ~Enough(Filled(entries[worker[w].entry]))
               PROVE  quiet[worker[w].ip] <= packetCost
    BY DEF SlowNotRefused
  <2> DEFINE i == worker[w].entry
             e == entries[i]
             f == Filled(e)
             q == quiet[worker[w].ip]
  <2>1. i \in DOMAIN entries /\ e.ip = worker[w].ip /\ TypeOK
    BY DEF Inv, TypeOK
  <2>2. e \in Entry /\ (f = maxTokens \/ f = e.tokens + (now - e.lastTime))
    BY <2>1, FilledBounds
  <2>3. q <= now - e.lastTime
    BY <2>1 DEF Inv, Aged
  <2>4. ~(f > packetCost)
    BY DEF Enough
  <2>5. now \in Nat /\ quiet \in [IPs -> 0..packetCost + 1]
    BY <2>1 DEF TypeOK
  <2> HIDE DEF e, f
  <2>6. e.ip \in IPs /\ e.lastTime \in Nat /\ e.tokens \in Nat
    BY <2>2, EntryFields
  <2>7. q \in Nat
    BY <2>1, <2>5, <2>6, RatelimiterAssumption
  <2> HIDE DEF q, i
  <2>8. now - e.lastTime <= packetCost
    BY <2>2, <2>4, <2>5, <2>6, RatelimiterAssumption
  <2>9. q <= packetCost
    BY <2>3, <2>5, <2>6, <2>7, <2>8, RatelimiterAssumption
  <2> QED
    BY <2>9 DEF q
<1> QED
  BY <1>1, LimiterInvariant, PTL
=============================================================================
