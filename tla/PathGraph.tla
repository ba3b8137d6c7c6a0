----------------------------- MODULE PathGraph ------------------------------
(***************************************************************************)
(* The latency graph of package path and the tables FloydWarshall makes of *)
(* it, as pure operators: FloydWarshall steps through one calculation, and *)
(* RouteGraph uses whole calculations.                                     *)
(***************************************************************************)
EXTENDS Integers, Sequences, FiniteSets

CONSTANTS Vertices,
          Infinity,  \* mtypes.Infinity: this much or more is unreachable
          None       \* no entry in a map

Latency == [ping : Int, additionalCost : Nat]

ASSUME PathAssumption ==
    /\ Infinity \in Nat \ {0}
    /\ None \notin Latency \cup Vertices

\* IG.Weight of a record that has not expired.
Weight(g, u, v, withAC) ==
    IF u = v THEN 0
    ELSE IF g[u][v] = None THEN Infinity
    ELSE LET w == g[u][v].ping + (IF withAC THEN g[u][v].additionalCost ELSE 0)
         IN  IF w >= Infinity THEN Infinity ELSE w

\* A neighbour that FloydWarshall enters in the tables.
Linked(g, u, v) == g[u][v] # None /\ Weight(g, u, v, TRUE) < Infinity

\* The distances before the first pivot.
DirectDist(g, withAC) ==
    [u \in Vertices |-> [v \in Vertices |->
        IF u = v THEN 0
        ELSE IF Linked(g, u, v) THEN Weight(g, u, v, withAC)
        ELSE Infinity]]

DirectNext(g) ==
    [u \in Vertices |-> [v \in Vertices |-> IF Linked(g, u, v) THEN v ELSE None]]

\* Mutant: the additional costs are left out of the distances.
MutDirect(g) == [dist |-> DirectDist(g, FALSE),
                 dist_noAC |-> DirectDist(g, FALSE),
                 next |-> DirectNext(g)]

\* Mutant: the distance to a vertex without a link is left unset.
MutUnsetDirect(g) ==
    [MutDirect(g) EXCEPT !.dist = [u \in Vertices |-> [v \in Vertices |->
        IF u = v THEN 0
        ELSE IF Linked(g, u, v) THEN Weight(g, u, v, TRUE) ELSE None]]]

\* The three tables before the first pivot.
Direct(g) == [dist |-> DirectDist(g, TRUE),
              dist_noAC |-> DirectDist(g, FALSE),
              next |-> DirectNext(g)]

\* Mutant: only a vertex that was out of reach gets a route.
MutImprovesUnreachable(d, k, i, j) ==
    /\ d[i][k] < Infinity
    /\ d[k][j] < Infinity
    /\ d[i][j] = Infinity

\* Pivot k shortens the route from i to j.
Improves(d, k, i, j) ==
    /\ d[i][k] < Infinity
    /\ d[k][j] < Infinity
    /\ d[i][j] > d[i][k] + d[k][j]

\* Table t with detour(i, j) where pivot k, by the distances d, improves.
Replaced(t, d, k, detour(_, _)) ==
    [i \in Vertices |-> [j \in Vertices |->
        IF Improves(d, k, i, j) THEN detour(i, j) ELSE t[i][j]]]

\* Mutant: the next hop becomes the destination, which need not be a neighbour.
MutRelaxed(t, k) ==
    LET sum(i, j) == t.dist[i][k] + t.dist[k][j]
        sum_noAC(i, j) == t.dist_noAC[i][k] + t.dist_noAC[k][j]
        last(i, j) == j
    IN  [dist |-> Replaced(t.dist, t.dist, k, sum),
         dist_noAC |-> Replaced(t.dist_noAC, t.dist, k, sum_noAC),
         next |-> Replaced(t.next, t.dist, k, last)]

\* The tables after pivot k.
Relaxed(t, k) ==
    LET sum(i, j) == t.dist[i][k] + t.dist[k][j]
        sum_noAC(i, j) == t.dist_noAC[i][k] + t.dist_noAC[k][j]
        first(i, j) == t.next[i][k]
    IN  [dist |-> Replaced(t.dist, t.dist, k, sum),
         dist_noAC |-> Replaced(t.dist_noAC, t.dist, k, sum_noAC),
         next |-> Replaced(t.next, t.dist, k, first)]

RemoveAllNegativeValue(g) ==
    [u \in Vertices |-> [v \in Vertices |->
        IF Weight(g, u, v, TRUE) < 0
        THEN [g[u][v] EXCEPT !.ping = 0] ELSE g[u][v]]]

\* IG.Path: the vertices from u on along the next hops of nh, cut off where
\* the footprint of the code would detect a cycle.
Path(nh, u, v) ==
    LET walk[n \in Nat] ==
          IF n = 0 THEN <<u>>
          ELSE LET p == walk[n - 1]
                   x == p[Len(p)]
               IN  IF x = v \/ nh[x][v] = None THEN p
                   ELSE Append(p, nh[x][v])
    IN  walk[Cardinality(Vertices)]
=============================================================================
