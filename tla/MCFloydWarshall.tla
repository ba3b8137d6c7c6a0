-------------------------- MODULE MCFloydWarshall ---------------------------
(***************************************************************************)
(* All graphs on three vertices with small latencies and costs, and the    *)
(* result compared with the shortest walks.                                *)
(***************************************************************************)
EXTENDS FloydWarshall, ShortestWalks, TLC

CONSTANTS A, B, C

Pings == {-2, 1, 3}

\* The additional cost of a link is that of the node it leads to.
AllGraphs ==
    {[u \in Vertices |-> [v \in Vertices |->
         IF u = v \/ p[u, v] = None THEN None
         ELSE [ping |-> p[u, v], additionalCost |-> IF v = costly THEN 3 ELSE 0]]] :
        p \in [{e \in Vertices \X Vertices : e[1] # e[2]} -> Pings \cup {None}],
        costly \in {C, None}}

SmallOffsets == {0, 3}

Symmetry == Permutations({A, B})

\* The distances returned are those of the shortest walks.
RoutesAreShortest ==
    Done => \A u, v \in Vertices : dist[u][v] = Shortest(edges, u, v)
=============================================================================
