----------------------------- MODULE RouteGraph -----------------------------
(***************************************************************************)
(* IG of package path as a shared object: latency reports, expiry, the     *)
(* recalculation policy and the next-hop table, with the goroutines that   *)
(* use it.  On a supernode (IsSuperMode) these are the event handler, the  *)
(* HTTP handlers and super_peerdel_notify, which also publish the table;   *)
(* on a P2P edge they are the receivers and RoutineRecalculateNhTable.     *)
(*                                                                         *)
(* A worker is one of these goroutines inside a call.  A step is what it   *)
(* does under one hold of edgelock, or one assignment of a field that has  *)
(* no lock.  Times are in one unit; a record that timed out is not valid.  *)
(***************************************************************************)
EXTENDS PathGraph

CONSTANTS Settings,       \* the settings a graph may be made with, and what may
                          \* happen to it: the lists of pongs a message may carry
                          \* (Reports) and a bound on such messages (MaxReports),
                          \* the peers the manage API deletes (Removable), the
                          \* workers that receive reports (Callers), the links
                          \* that may expire (Expiring), and whether
                          \* RecalculateCoolDown is more than 0 (CoolDown)
          Broadcast,      \* the vertex that stands for all in ManualLatency
          NextHopTables,  \* the next-hop tables a configuration may set
          Workers,
          Timer           \* the worker that handles the timer: the event handler of a
                          \* supernode, or RoutineRecalculateNhTable

Table == [Vertices -> [Vertices -> Vertices \cup {None}]]

Pong == [src : Vertices, dst : Vertices, timediff : Int, additionalCost : Nat]

ASSUME RouteAssumption ==
    /\ NextHopTables \subseteq Table /\ Timer \in Workers
    /\ \A s \in Settings :
         /\ ~ s.IsSuperMode => s.JitterToleranceMultiplier % 100 = 0
         /\ \A r \in s.Reports : r # <<>> /\ \A i \in DOMAIN r : r[i] \in Pong
         /\ s.Removable \subseteq Vertices /\ s.Callers \subseteq Workers
         /\ s.MaxReports \in Nat /\ s.CoolDown \in BOOLEAN
         /\ s.Expiring \subseteq Vertices \X Vertices

VARIABLES setting,    \* gsetting, IsSuperMode and StaticMode; they never change
          vert,       \* g.Vert
          sources,    \* the keys of g.edges
          records,    \* records[u][v]: g.edges[u][v], or None
          nhTable,    \* g.nhTable
          cooling,    \* recalculateTime + RecalculateCoolDown lies ahead
          worker,     \* worker[w]: the call it is in
          published,  \* http_NhTableStr, or None
          reports,    \* messages with pongs so far
          late,       \* history: what a race of two calls has left behind, an old
                      \* table in use ("table") or published ("published")
          quiet       \* history: "full" after a check of all links, "cool"
                      \* after one within the cooldown, "no" since an event

shared == <<setting, late, vert, sources, records, nhTable, cooling, published, reports, quiet>>
vars == <<shared, worker>>

Idle == [pc |-> "idle"]

NoTable == [u \in Vertices |-> [v \in Vertices |-> None]]

IsSuperMode == setting.IsSuperMode
StaticMode == setting.StaticMode
JitterTolerance == setting.JitterTolerance
JitterToleranceMultiplier == setting.JitterToleranceMultiplier
ManualLatency == setting.ManualLatency

Init == /\ setting \in Settings
        /\ vert = {} /\ sources = {}
        /\ records = NoTable
        /\ nhTable \in IF StaticMode THEN NextHopTables ELSE {NoTable}
        /\ cooling = FALSE
        /\ worker = [w \in Workers |-> Idle]
        /\ published = None
        /\ reports = 0
        /\ late = {}
        /\ quiet = "no"

-----------------------------------------------------------------------------
(* When is a new latency different? *)

Abs(x) == IF x < 0 THEN -x ELSE x

\* Weight needs a record that has not expired.
Live == [u \in Vertices |-> [v \in Vertices |->
            IF records[u][v] # None /\ records[u][v].valid
            THEN records[u][v] ELSE None]]

OldWeight(u, v) ==
    IF u = v THEN 0
    ELSE IF records[u][v] = None \/ records[u][v].ping_old >= Infinity THEN Infinity
    ELSE records[u][v].ping_old

\* GetWeightType: the smallest n^r * t that is not below x, with r an integer.
GetWeightType(x) ==
    IF JitterTolerance > 0 /\ JitterToleranceMultiplier > 100
    THEN LET t == JitterTolerance
             r == JitterToleranceMultiplier \div 100
         IN  t * (CHOOSE n \in 0 .. x : /\ t * n ^ r >= x
                                        /\ \A m \in 0 .. n - 1 : t * m ^ r < x) ^ r
    ELSE x

Differ(oldval, newval) ==
    IF ~ IsSuperMode THEN GetWeightType(oldval) # GetWeightType(newval)
    ELSE IF JitterTolerance > 0 /\ JitterToleranceMultiplier >= 100
    THEN 100 * Abs(newval - oldval) >
            100 * JitterTolerance
              + (IF oldval > newval THEN oldval ELSE newval)
                  * (JitterToleranceMultiplier - 100)
    ELSE oldval = newval

\* Mutant: reaching or losing a neighbour has to wait for the cooldown too.
MutShouldUpdate(oldval, newval, withCooldown) ==
    /\ ~ (withCooldown /\ cooling)
    /\ \/ (oldval >= Infinity) # (newval >= Infinity)
       \/ Differ(Abs(oldval), Abs(newval))

ShouldUpdate(oldval, newval, withCooldown) ==
    \/ (oldval >= Infinity) # (newval >= Infinity)
    \/ ~ (withCooldown /\ cooling) /\ Differ(Abs(oldval), Abs(newval))

\* Mutant: the check compares the remembered latency with itself.
MutCheckAnyShouldUpdate ==
    \E u, v \in vert : u # v /\ ShouldUpdate(OldWeight(u, v), OldWeight(u, v), TRUE)

CheckAnyShouldUpdate ==
    \E u, v \in vert : u # v /\ ShouldUpdate(OldWeight(u, v),
                                             Weight(Live, u, v, FALSE), TRUE)

-----------------------------------------------------------------------------
(* Latency reports *)

\* The most specific manual latency replaces the measured one.
Manual(u, v, newval) ==
    LET keys == <<<<u, v>>, <<u, Broadcast>>, <<Broadcast, v>>, <<Broadcast, Broadcast>>>>
        set == {i \in 1 .. 4 : keys[i] \in DOMAIN ManualLatency}
    IN  IF set = {} THEN newval
        ELSE ManualLatency[keys[CHOOSE i \in set : \A j \in set : i <= j]]

Goto(w, state) == worker' = [worker EXCEPT ![w] = state]

\* RecalculateNhTable begins; publishing: it is called by GetNHTable.
Recalculating(checkchange, publishing) ==
    [pc |-> "recalculate",
     call |-> [checkchange |-> checkchange, publishing |-> publishing, again |-> FALSE]]

\* Mutant: the source of a pong is no vertex.
MutEnter(w, pongs, should) ==
    /\ vert' = vert \cup {pongs[1].dst}
    /\ sources' = sources \cup {pongs[1].src}
    /\ cooling' = (cooling /\ pongs[1].src \in sources)
    /\ Goto(w, [pc |-> "entered", pongs |-> pongs, should |-> should])

\* The head of the loop in UpdateLatencyMulti, up to the release of edgelock.
Enter(w, pongs, should) ==
    LET u == pongs[1].src
    IN  /\ vert' = vert \cup {u, pongs[1].dst}
        /\ sources' = sources \cup {u}
        /\ cooling' = (cooling /\ u \in sources)
        /\ Goto(w, [pc |-> "entered", pongs |-> pongs, should |-> should])

UpdateLatencyMulti(w, pongs) ==
    /\ w \in setting.Callers /\ worker[w] = Idle
    /\ reports < setting.MaxReports
    /\ reports' = reports + 1
    /\ Enter(w, pongs, FALSE)
    /\ UNCHANGED <<setting, late, records, nhTable, published, quiet>>

\* Mutant: the latency of the last report counts as the last calculation's.
MutWritten(old, newval, cost) ==
    [ping |-> newval, additionalCost |-> cost, ping_old |-> newval, valid |-> TRUE]

\* The record after a report; ping_old stays that of the last calculation.
Written(old, newval, cost) ==
    [ping |-> newval, additionalCost |-> cost,
     ping_old |-> IF old = None THEN Infinity ELSE old.ping_old, valid |-> TRUE]

\* The rest of the loop body and the head of the next one.  When RemoveVirt
\* has removed the source meanwhile, the write to a nil map ends the program.
\* OldWeight is read before edgelock is taken again; what it decides is only
\* whether to recalculate now, and every check decides that anew.
SetLatency(w) ==
    /\ worker[w].pc = "entered"
    /\ LET pong == Head(worker[w].pongs)
           u == pong.src
           v == pong.dst
           newval == Manual(u, v, pong.timediff)
           should == worker[w].should \/ ShouldUpdate(OldWeight(u, v), newval, FALSE)
           more == Tail(worker[w].pongs)
       IN  /\ u \in sources
           /\ records' = [records EXCEPT ![u][v] =
                 Written(@, newval, pong.additionalCost)]
           /\ \/ more # <<>> /\ Enter(w, more, should)
              \/ /\ more = <<>>
                 /\ Goto(w, IF should THEN Recalculating(IsSuperMode, FALSE) ELSE Idle)
                 /\ UNCHANGED <<vert, sources, cooling>>
    /\ quiet' = "no"
    /\ UNCHANGED <<setting, late, nhTable, published, reports>>

-----------------------------------------------------------------------------
(* Recalculation *)

\* The end of RecalculateNhTable.  A changed table is fetched with
\* GetNHTable(TRUE), which calculates once more before it is published.
After(w, changed) ==
    IF changed THEN Recalculating(FALSE, TRUE)
    ELSE IF worker[w].call.publishing THEN [pc |-> "publish"]
    ELSE Idle

\* Mutant: all vertices have to be on a negative cycle.
MutNegativeCycle(t) == \A v \in Vertices : t.dist[v][v] < 0

NegativeCycle(t) == \E v \in Vertices : t.dist[v][v] < 0

\* The timer: RoutineTimeoutCheck, or RoutineRecalculateNhTable on an edge.
TimeoutCheck(w) ==
    /\ w = Timer /\ worker[w] = Idle
    /\ Goto(w, Recalculating(IsSuperMode, FALSE))
    /\ UNCHANGED shared

\* In static mode g.changed, set by SetNHTable, is never reset.
RecalculateStatic(w) ==
    /\ StaticMode /\ worker[w].pc = "recalculate"
    /\ Goto(w, After(w, worker[w].call.checkchange))
    /\ quiet' = "full"
    /\ UNCHANGED <<setting, late, vert, sources, records, nhTable, cooling, published, reports>>

\* Workers inside FloydWarshall or about to assign what it returned.
Calculating == {w \in Workers : worker[w].pc \in
                  {"vertices", "links", "weighed", "pinged", "pivots", "compared"}}

\* The check reads one link after the other.  One that sees no difference has
\* seen all that happened before it began, and so counts for quiet, unless a
\* calculation that has read the links earlier is still to assign its table.
CheckNhTable(w) ==
    /\ ~ StaticMode /\ worker[w].pc = "recalculate"
    /\ IF CheckAnyShouldUpdate
       THEN Goto(w, [pc |-> "vertices", call |-> worker[w].call])
       ELSE Goto(w, After(w, FALSE))
    /\ quiet' = IF Calculating # {} THEN quiet ELSE IF cooling THEN "cool" ELSE "full"
    /\ UNCHANGED <<setting, late, vert, sources, records, nhTable, cooling, published, reports>>

\* FloydWarshall begins with the vertices, and no links yet.
StartTables(w) ==
    /\ worker[w].pc = "vertices"
    /\ Goto(w, [pc |-> "links", call |-> worker[w].call, vert |-> vert, rows |-> vert,
                todo |-> {}, at |-> <<>>, ping |-> 0, links |-> NoTable])
    /\ UNCHANGED shared

\* The head of the outer loop: Neighbors of the next vertex, in any order.
Neighbors(w) ==
    /\ worker[w].pc = "links" /\ worker[w].todo = {}
    /\ \E u \in worker[w].rows :
         Goto(w, [worker[w] EXCEPT !.rows = @ \ {u},
                    !.todo = {l \in {u} \X Vertices : records[u][l[2]] # None}])
    /\ UNCHANGED shared

\* The body of the inner loop takes edgelock three times.  First the latency
\* with its additional cost is read, which is what the tables are made of.
EnterWeight(w) ==
    /\ worker[w].pc = "links"
    /\ \E l \in worker[w].todo :
         Goto(w, [worker[w] EXCEPT !.pc = "weighed", !.at = l, !.todo = @ \ {l},
                                   !.links[l[1]][l[2]] = Live[l[1]][l[2]]])
    /\ UNCHANGED shared

\* Then the latency alone,
ReadPing(w) ==
    /\ worker[w].pc = "weighed"
    /\ Goto(w, [worker[w] EXCEPT !.pc = "pinged",
                                 !.ping = Weight(Live, worker[w].at[1], worker[w].at[2], FALSE)])
    /\ UNCHANGED shared

\* and SetOldWeight remembers it.
SetOldWeight(w) ==
    /\ worker[w].pc = "pinged"
    /\ LET u == worker[w].at[1]
           v == worker[w].at[2]
       IN  records' = IF records[u][v] = None THEN records
                      ELSE [records EXCEPT ![u][v].ping_old = worker[w].ping]
    /\ Goto(w, [worker[w] EXCEPT !.pc = "links", !.at = <<>>, !.ping = 0])
    /\ UNCHANGED <<setting, late, vert, sources, nhTable, cooling, published, reports, quiet>>

\* The tables the pivots may make of the links g, in any order: what happens
\* between two pivots does not concern the tables, which are local.
Relaxations(g, among) ==
    LET after[done \in SUBSET among] ==
          IF done = {} THEN {Direct(g)}
          ELSE UNION {{Relaxed(t, k) : t \in after[done \ {k}]} : k \in done}
    IN  after[among]

\* All links are read, and the pivots are chosen from the vertices.  From here on
\* the table is compared with the one in use (seen).
Pivots(w) ==
    /\ worker[w].pc = "links" /\ worker[w].rows = {} /\ worker[w].todo = {}
    /\ \E t \in Relaxations(worker[w].links, worker[w].vert) :
          Goto(w, [pc |-> "pivots", call |-> worker[w].call, links |-> worker[w].links,
                   neg |-> NegativeCycle(t), next |-> t.next, seen |-> {nhTable}])
    /\ UNCHANGED shared

\* RemoveAllNegativeValue, which changes latencies and never whether a link is
\* alive, and the second attempt.
RemoveNegative(w) ==
    /\ worker[w].pc = "pivots" /\ ~ worker[w].call.again /\ worker[w].neg
    /\ records' = [u \in Vertices |-> [v \in Vertices |->
                      IF Weight(Live, u, v, TRUE) < 0
                      THEN [records[u][v] EXCEPT !.ping = 0] ELSE records[u][v]]]
    /\ Goto(w, [pc |-> "vertices", call |-> [worker[w].call EXCEPT !.again = TRUE]])
    /\ UNCHANGED <<setting, late, vert, sources, nhTable, cooling, published, reports, quiet>>

\* Only the routes of the new table are compared: one that is gone is no change.
Changed(next, old) == \E u, v \in Vertices : next[u][v] \notin {None, old[u][v]}

\* A negative cycle once more leaves no routes.
NewTable(w) == IF worker[w].neg THEN NoTable ELSE worker[w].next

\* The loop that looks for a change reads g.nhTable for each route anew, and no
\* lock keeps others from assigning it meanwhile: each route is compared with
\* that of some table in use since the loop began.
Comparisons(w) ==
    IF ~ worker[w].call.checkchange THEN {FALSE}
    ELSE {changed \in BOOLEAN :
            IF changed THEN \E old \in worker[w].seen : Changed(NewTable(w), old)
            ELSE \A u, v \in Vertices :
                   NewTable(w)[u][v] \in {None} \cup {old[u][v] : old \in worker[w].seen}}

CompareTable(w) ==
    /\ worker[w].pc = "pivots" /\ (worker[w].call.again \/ ~ worker[w].neg)
    /\ \E changed \in Comparisons(w) :
         Goto(w, [pc |-> "compared", call |-> worker[w].call, links |-> worker[w].links,
                  table |-> NewTable(w), changed |-> changed])
    /\ UNCHANGED shared

\* A table is old when it is assigned if it was made of other latencies than
\* those remembered for the links, which is what later checks compare with: the
\* links were reported anew and another call has remembered that, or the latency
\* changed between the two reads of this call.
Overtaken(w) == \E u, v \in Vertices : Weight(worker[w].links, u, v, FALSE) # OldWeight(u, v)

\* Its routes are not going to be published if this call did not find them
\* changed but they are: it compared them with a table that is not in use any
\* more, or, called by RemoveVirt, did not compare them at all.
Unnoticed(w) == ~ worker[w].call.publishing /\ ~ worker[w].changed /\ Changed(worker[w].table, nhTable)

\* The assignment, and others that are comparing see the table.  The time of the
\* calculation is stored next; it only puts off later ones.
Assign(w) ==
    /\ worker[w].pc = "compared"
    /\ nhTable' = worker[w].table
    /\ worker' = [x \in Workers |->
         IF x = w THEN After(w, worker[w].changed)
         ELSE IF worker[x].pc = "pivots" THEN [worker[x] EXCEPT !.seen = @ \cup {nhTable'}]
         ELSE worker[x]]
    /\ cooling' = setting.CoolDown
    /\ late' = (late \ {"table"}) \cup (IF Overtaken(w) THEN {"table"} ELSE {})
                                  \cup (IF Unnoticed(w) THEN {"published"} ELSE {})
    /\ UNCHANGED <<setting, vert, sources, records, published, reports, quiet>>

\* GetNHTable returns, and http_NhTableStr is stored with its hash.
GetNHTable(w) ==
    /\ worker[w].pc = "publish"
    /\ Goto(w, [pc |-> "marshalled", table |-> nhTable])
    /\ UNCHANGED shared

StoreNhTableStr(w) ==
    /\ worker[w].pc = "marshalled"
    /\ published' = worker[w].table
    /\ Goto(w, Idle)
    /\ late' = IF Changed(nhTable, worker[w].table) THEN late \cup {"published"}
               ELSE late \ {"published"}
    /\ UNCHANGED <<setting, vert, sources, records, nhTable, cooling, reports, quiet>>

-----------------------------------------------------------------------------
(* Configuration and time *)

\* RemoveVirt, the end of super_peerdel_notify.
RemoveVirt(w, v) ==
    /\ w \in setting.Callers /\ worker[w] = Idle
    /\ v \in setting.Removable \cap vert
    /\ vert' = vert \ {v}
    /\ sources' = sources \ {v}
    /\ records' = [x \in Vertices |-> [y \in Vertices |->
                      IF v \in {x, y} THEN None ELSE records[x][y]]]
    /\ Goto(w, Recalculating(FALSE, FALSE))
    /\ quiet' = "no"
    /\ UNCHANGED <<setting, late, nhTable, cooling, published, reports>>

\* manage_peeradd brings the table along in static mode.
SetNHTable(nh) ==
    /\ StaticMode /\ nh # nhTable
    /\ nhTable' = nh
    /\ quiet' = "no"
    /\ UNCHANGED <<setting, late, vert, sources, records, cooling, worker, published, reports>>

\* No pong renewed the record until validUntil.
Expire(u, v) ==
    /\ Live[u][v] # None
    /\ records' = [records EXCEPT ![u][v].valid = FALSE]
    /\ quiet' = "no"
    /\ UNCHANGED <<setting, late, vert, sources, nhTable, cooling, worker, published, reports>>

CoolDownEnds ==
    /\ cooling
    /\ cooling' = FALSE
    /\ UNCHANGED <<setting, late, vert, sources, records, nhTable, worker, published, reports,
                   quiet>>

\* A worker goes on with the call it is in.
WorkerStep(w) ==
    \/ SetLatency(w) \/ RecalculateStatic(w) \/ CheckNhTable(w)
    \/ StartTables(w) \/ Neighbors(w) \/ EnterWeight(w) \/ ReadPing(w) \/ SetOldWeight(w) \/ Pivots(w)
    \/ RemoveNegative(w) \/ CompareTable(w) \/ Assign(w)
    \/ GetNHTable(w) \/ StoreNhTableStr(w)

Next ==
    \/ TimeoutCheck(Timer)
    \/ \E w \in Workers : \/ WorkerStep(w)
                          \/ \E pongs \in setting.Reports : UpdateLatencyMulti(w, pongs)
                          \/ \E v \in Vertices : RemoveVirt(w, v)
    \/ \E nh \in NextHopTables : SetNHTable(nh)
    \/ \E l \in setting.Expiring : Expire(l[1], l[2])
    \/ CoolDownEnds

\* A call that has begun goes on; the timer loop of TimeoutCheck never ends.
Fairness == /\ \A w \in Workers : WF_vars(WorkerStep(w))
            /\ WF_vars(TimeoutCheck(Timer))
            /\ WF_vars(CoolDownEnds)

Spec == Init /\ [][Next]_vars /\ Fairness

-----------------------------------------------------------------------------
Record == [ping : Int, additionalCost : Nat, ping_old : Int, valid : BOOLEAN]

Links == [Vertices -> [Vertices -> Record \cup {None}]]

\* Type invariant of the shared graph and of the calls in progress.
TypeOK ==
    /\ vert \subseteq Vertices /\ sources \subseteq vert
    /\ records \in Links
    /\ nhTable \in Table
    /\ cooling \in BOOLEAN
    /\ \A w \in Workers : worker[w].pc \in {"idle", "entered", "recalculate", "vertices",
          "links", "weighed", "pinged", "pivots", "compared", "publish", "marshalled"}
    /\ published \in Table \cup {None}
    /\ reports \in 0 .. setting.MaxReports
    /\ quiet \in {"no", "cool", "full"}

AllIdle == \A w \in Workers : worker[w] = Idle

\* Once a check is through, whether or not within the cooldown, every next
\* hop is a neighbour that has been heard of in time: losing a neighbour
\* changes the routes at once (ShouldUpdate looks at Infinity first).  This is
\* not so when a peer is deleted: RemoveVirt asks for a new table, but none of
\* the links that are left has changed, and the routes over the peer stay.
\* And every route of the supernode's table is published, so that what the edges
\* download leads where the supernode's own table leads; in static mode the
\* whole table is, once the timer has fired after manage_peeradd brought it.
\* Races leave exceptions (late): a table that was made of other latencies than
\* those remembered when it was assigned (Overtaken), a changed table whose
\* change went unnoticed (Unnoticed), and a string stored after that of a newer
\* table.  Each lasts until the next table is assigned or stored.
LiveRoutes ==
    AllIdle =>
      IF StaticMode THEN IsSuperMode /\ quiet = "full" => published = nhTable
      ELSE \A u, v \in Vertices : nhTable[u][v] # None =>
             /\ setting.Removable = {} /\ quiet # "no" /\ "table" \notin late =>
                  Weight(Live, u, nhTable[u][v], TRUE) < Infinity
             /\ IsSuperMode /\ "published" \notin late =>
                  published # None /\ published[u][v] = nhTable[u][v]

\* Following the routes hop by hop arrives, in the table in use and in the one
\* published, at every moment: no interleaving of reports, expiries, removed
\* peers and torn reads lets a table with a loop be assigned.
RoutesArrive ==
    \A nh \in {nhTable, published} \ {None} : \A u, v \in Vertices :
       nh[u][v] # None => LET p == Path(nh, u, v) IN p[Len(p)] = v
=============================================================================
