--------------------------- MODULE FloydWarshall ----------------------------
(***************************************************************************)
(* IG.FloydWarshall of package path: next hops from one-way latencies.     *)
(*                                                                         *)
(* A latency is the difference of two clocks, so it may be negative.  The  *)
(* loops run over Go maps: the pivots k come in any order, one Relax(k)    *)
(* each.  Within one pivot the order of i and j is immaterial: row k and   *)
(* column k do not change while dist[k][k] is 0, and when it is negative   *)
(* only the sign of the diagonal is read again.                            *)
(***************************************************************************)
EXTENDS PathGraph

CONSTANTS Graphs,  \* the edges a calculation may start from
          Offsets  \* the clock offsets considered

ASSUME GraphAssumption ==
    /\ Graphs \subseteq [Vertices -> [Vertices -> Latency \cup {None}]]
    /\ Offsets \subseteq Int

VARIABLES edges,      \* edges[u][v]: the latency record of u -> v, or None
          dist,       \* dist[u][v], with the additional costs
          dist_noAC,  \* the same route without them
          next,       \* next[u][v]: next hop of u towards v, or None
          pending,    \* the pivots still to come
          again       \* the second attempt, after a negative cycle

vars == <<edges, dist, dist_noAC, next, pending, again>>

SetTables(t) == /\ dist' = t.dist
                /\ dist_noAC' = t.dist_noAC
                /\ next' = t.next

Init == /\ edges \in Graphs
        /\ dist = Direct(edges).dist
        /\ dist_noAC = Direct(edges).dist_noAC
        /\ next = Direct(edges).next
        /\ pending = Vertices
        /\ again = FALSE

Relax(k) ==
    /\ k \in pending
    /\ SetTables(Relaxed([dist |-> dist, dist_noAC |-> dist_noAC,
                          next |-> next], k))
    /\ pending' = pending \ {k}
    /\ UNCHANGED <<edges, again>>

NegativeCycle == \E v \in Vertices : dist[v][v] < 0

\* The recursive call of FloydWarshall on the corrected graph.  The third
\* outcome, "negative cycle detected again", is shown never to happen
\* (NegativeOnce).
Again ==
    /\ pending = {} /\ ~ again /\ NegativeCycle
    /\ edges' = RemoveAllNegativeValue(edges)
    /\ SetTables(Direct(edges'))
    /\ pending' = Vertices
    /\ again' = TRUE

Next == (\E k \in Vertices : Relax(k)) \/ Again

Spec == Init /\ [][Next]_vars

-----------------------------------------------------------------------------
\* Type invariant of one calculation.
TypeOK == /\ edges \in [Vertices -> [Vertices -> Latency \cup {None}]]
          /\ dist \in [Vertices -> [Vertices -> Int]]
          /\ dist_noAC \in [Vertices -> [Vertices -> Int]]
          /\ next \in [Vertices -> [Vertices -> Vertices \cup {None}]]
          /\ pending \subseteq Vertices
          /\ again \in BOOLEAN

\* The tables are what FloydWarshall returns.
Done == pending = {} /\ ~ NegativeCycle

\* Under clock offsets c, every link takes a positive time.
SkewedBy(c) ==
    \A u, v \in Vertices : u # v /\ Linked(edges, u, v) =>
       Weight(edges, u, v, TRUE) + c[u] - c[v] > 0

Skewed == \E c \in [Vertices -> Offsets] : SkewedBy(c)

\* However far the clocks are apart, they alone never make a negative cycle:
\* dist[i][i] < 0 means that measurements contradict each other.
ClocksMakeNoCycle == Skewed => ~ NegativeCycle

\* After RemoveAllNegativeValue the second attempt always succeeds: routes
\* are never dropped with "negative cycle detected again".
NegativeOnce == again => ~ NegativeCycle

\* The next hop is a neighbour, and along the next hops towards j the
\* remaining time, measured with true clocks, decreases at every hop: packets
\* cannot run in a circle, not even while the calculation goes on.
Descends ==
    \A c \in [Vertices -> Offsets] : SkewedBy(c) =>
       \A i, j \in Vertices : i # j /\ next[i][j] # None =>
          LET x == next[i][j]
          IN  /\ Linked(edges, i, x)
              /\ dist[x][j] + c[x] < dist[i][j] + c[i]

\* A pivot that is done shortens no route any more, however the routes
\* improved since; with all of them done the distances are the shortest.
Settled ==
    Skewed =>
       \A k \in Vertices \ pending, i, j \in Vertices :
          dist[i][k] < Infinity /\ dist[k][j] < Infinity =>
             dist[i][j] <= dist[i][k] + dist[k][j]
=============================================================================
