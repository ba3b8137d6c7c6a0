--------------------------- MODULE ShortestWalks ----------------------------
(***************************************************************************)
(* Reference definitions: the walks between two vertices, their lengths    *)
(* and the shortest length, enumerated instead of found by pivots.         *)
(***************************************************************************)
EXTENDS PathGraph

\* A constant, so that it is calculated once.
AllWalks ==
    [ends \in Vertices \X Vertices |->
        {p \in UNION {[1 .. n -> Vertices] : n \in 1 .. Cardinality(Vertices)} :
            p[1] = ends[1] /\ p[Len(p)] = ends[2]}]

Walks(u, v) == AllWalks[u, v]

Length(g, p, withAC) ==
    LET sum[n \in 1 .. Len(p)] ==
          IF n = 1 THEN 0
          ELSE sum[n - 1] + Weight(g, p[n - 1], p[n], withAC)
    IN  sum[Len(p)]

\* The length of the shortest walk over links that exist, or Infinity.
Shortest(g, u, v) ==
    LET lengths == {Length(g, p, TRUE) : p \in
                      {q \in Walks(u, v) : \A n \in 2 .. Len(q) :
                          Weight(g, q[n - 1], q[n], TRUE) < Infinity}}
    IN  IF lengths = {} THEN Infinity
        ELSE CHOOSE m \in lengths : \A o \in lengths : m <= o
=============================================================================
