------------------------ MODULE FloydWarshallProofs -------------------------
(***************************************************************************)
(* Next-hop calculation for every number of vertices, every latency and    *)
(* every clock offset, with the pivots in any order.                       *)
(***************************************************************************)
EXTENDS FloydWarshall, TLAPS

Table(S) == [Vertices -> [Vertices -> S]]

IsGraph(g) == g \in [Vertices -> [Vertices -> Latency \cup {None}]]

\* Distances are bounded below by the true times, up to the clock offsets.
Lower(c) ==
    \A i, j \in Vertices : dist[i][j] < Infinity => dist[i][j] + c[i] - c[j] >= 0

\* No vertex is away from itself.
Diagonal == \A v \in Vertices : dist[v][v] <= 0

Bounded == /\ TypeOK
           /\ Diagonal
           /\ \A c \in [Vertices -> Offsets] : SkewedBy(c) => Lower(c)
           /\ again => \A i, j \in Vertices : dist[i][j] >= 0

\* Table d holds the direct distances of graph g.
DirectlyFar(g, d) ==
    \A i, j \in Vertices : /\ i = j => d[i][j] = 0
                           /\ i # j /\ Linked(g, i, j) => d[i][j] = Weight(g, i, j, TRUE)
                           /\ i # j /\ ~ Linked(g, i, j) => d[i][j] = Infinity

DirectlyNext(g, nt) ==
    \A i, j \in Vertices : /\ Linked(g, i, j) => nt[i][j] = j
                           /\ ~ Linked(g, i, j) => nt[i][j] = None

\* Infinity and the clock offsets are integers.
LEMMA Numbers ==
    /\ Infinity \in Int
    /\ \A c \in [Vertices -> Offsets], v \in Vertices : c[v] \in Int
<1>1. Infinity \in Int
  BY PathAssumption
<1>2. Offsets \subseteq Int
  BY GraphAssumption
<1> QED BY <1>1, <1>2, Zenon

\* What one pivot does to one route.
LEMMA RelaxFacts ==
    ASSUME TypeOK, NEW k \in Vertices, Relax(k)
    PROVE  /\ dist' \in Table(Int)
           /\ \A i, j \in Vertices :
                 /\ Improves(dist, k, i, j) =>
                       /\ dist'[i][j] = dist[i][k] + dist[k][j]
                       /\ next'[i][j] = next[i][k]
                 /\ ~ Improves(dist, k, i, j) =>
                       dist'[i][j] = dist[i][j] /\ next'[i][j] = next[i][j]
                 /\ dist'[i][j] <= dist[i][j]
                 /\ dist[i][k] < Infinity /\ dist[k][j] < Infinity =>
                       dist'[i][j] <= dist[i][k] + dist[k][j]
<1>1. /\ dist' = [i \in Vertices |-> [j \in Vertices |->
                     IF Improves(dist, k, i, j)
                     THEN dist[i][k] + dist[k][j] ELSE dist[i][j]]]
      /\ next' = [i \in Vertices |-> [j \in Vertices |->
                     IF Improves(dist, k, i, j)
                     THEN next[i][k] ELSE next[i][j]]]
  BY DEF Relax, SetTables, Relaxed, Replaced
<1>2. \A i, j \in Vertices : dist[i][j] \in Int
  BY DEF TypeOK
<1>3. dist' \in Table(Int)
  BY <1>1, <1>2 DEF Table
<1>4. ASSUME NEW i \in Vertices, NEW j \in Vertices
      PROVE  /\ Improves(dist, k, i, j) <=>
                   /\ dist[i][k] < Infinity /\ dist[k][j] < Infinity
                   /\ dist[i][j] > dist[i][k] + dist[k][j]
             /\ Improves(dist, k, i, j) =>
                   /\ dist'[i][j] = dist[i][k] + dist[k][j]
                   /\ next'[i][j] = next[i][k]
             /\ ~ Improves(dist, k, i, j) =>
                   dist'[i][j] = dist[i][j] /\ next'[i][j] = next[i][j]
  BY <1>1 DEF Improves
<1>5. ASSUME NEW i \in Vertices, NEW j \in Vertices
      PROVE  /\ dist'[i][j] <= dist[i][j]
             /\ dist[i][k] < Infinity /\ dist[k][j] < Infinity =>
                   dist'[i][j] <= dist[i][k] + dist[k][j]
  BY <1>2, <1>4
<1> QED BY <1>3, <1>4, <1>5

\* The tables of the direct links, for a graph g.
LEMMA DirectFacts ==
    ASSUME NEW g, IsGraph(g)
    PROVE  /\ Direct(g).dist \in Table(Int)
           /\ Direct(g).dist_noAC \in Table(Int)
           /\ Direct(g).next \in Table(Vertices \cup {None})
           /\ \A i, j \in Vertices : Weight(g, i, j, TRUE) \in Int
           /\ DirectlyFar(g, Direct(g).dist)
           /\ DirectlyNext(g, Direct(g).next)
<1>1. \A i, j \in Vertices : /\ Weight(g, i, j, TRUE) \in Int
                             /\ Weight(g, i, j, FALSE) \in Int
  BY PathAssumption DEF Weight, Latency, IsGraph
<1>2. /\ Direct(g).dist = DirectDist(g, TRUE)
      /\ Direct(g).dist_noAC = DirectDist(g, FALSE)
      /\ Direct(g).next = DirectNext(g)
  BY DEF Direct
<1>3. Infinity \in Int
  BY PathAssumption
<1>4. Direct(g).dist \in Table(Int) /\ Direct(g).dist_noAC \in Table(Int)
  <2>1. ASSUME NEW b \in BOOLEAN PROVE DirectDist(g, b) \in Table(Int)
    <3>1. \A i, j \in Vertices : Weight(g, i, j, b) \in Int
      BY <1>1, Zenon
    <3> HIDE DEF Weight, Linked
    <3> QED BY <1>3, <3>1 DEF Table, DirectDist
  <2> QED BY <1>2, <2>1, Zenon
<1>5. Direct(g).next \in Table(Vertices \cup {None})
  BY <1>2 DEF Table, DirectNext
<1>6. DirectlyFar(g, DirectDist(g, TRUE)) /\ DirectlyNext(g, DirectNext(g))
  BY Zenon DEF DirectDist, DirectNext, DirectlyFar, DirectlyNext
<1> QED BY <1>1, <1>2, <1>4, <1>5, <1>6, Zenon

\* Starting from a graph: the parts of Bounded that its tables satisfy.
LEMMA DirectBounded ==
    ASSUME NEW g, IsGraph(g)
    PROVE  /\ \A v \in Vertices : Direct(g).dist[v][v] <= 0
           /\ \A c \in [Vertices -> Offsets] :
                 (\A u, v \in Vertices : u # v /\ Linked(g, u, v) =>
                      Weight(g, u, v, TRUE) + c[u] - c[v] > 0)
                 => \A i, j \in Vertices : Direct(g).dist[i][j] < Infinity =>
                       Direct(g).dist[i][j] + c[i] - c[j] >= 0
<1> DEFINE d == Direct(g).dist
           w(u, v) == Weight(g, u, v, TRUE)
<1>1. /\ \A i, j \in Vertices : w(i, j) \in Int
      /\ \A i \in Vertices : d[i][i] = 0
      /\ \A i, j \in Vertices : i # j /\ Linked(g, i, j) => d[i][j] = w(i, j)
      /\ \A i, j \in Vertices : i # j /\ ~ Linked(g, i, j) => d[i][j] = Infinity
  BY DirectFacts, Zenon DEF DirectlyFar
<1>2. ASSUME NEW c \in [Vertices -> Offsets],
             \A u, v \in Vertices : u # v /\ Linked(g, u, v) =>
                w(u, v) + c[u] - c[v] > 0,
             NEW i \in Vertices, NEW j \in Vertices, d[i][j] < Infinity
      PROVE  d[i][j] + c[i] - c[j] >= 0
  <2> HIDE DEF d, w
  <2>1. c[i] \in Int /\ c[j] \in Int /\ Infinity \in Int
    BY Numbers
  <2>2. CASE i = j
    <3>1. d[i][j] = 0
      BY <1>1, <2>2
    <3>2. c[i] = c[j]
      BY <2>2
    <3> QED BY <2>1, <3>1, <3>2
  <2>3. CASE i # j
    <3>1. Linked(g, i, j)
      <4>1. d[i][j] # Infinity
        BY <1>2, <2>1
      <4> QED BY <1>1, <2>3, <4>1
    <3>2. d[i][j] = w(i, j) /\ w(i, j) \in Int /\ w(i, j) + c[i] - c[j] > 0
      BY <1>1, <1>2, <2>3, <3>1
    <3> QED BY <2>1, <3>2
  <2> QED BY <2>2, <2>3
<1>3. \A v \in Vertices : d[v][v] <= 0
  BY <1>1
<1> HIDE DEF d
<1>4. \A c \in [Vertices -> Offsets] :
         (\A u, v \in Vertices : u # v /\ Linked(g, u, v) => w(u, v) + c[u] - c[v] > 0)
         => \A i, j \in Vertices : d[i][j] < Infinity => d[i][j] + c[i] - c[j] >= 0
  BY <1>2, Zenon
<1> QED BY <1>3, <1>4, Zenon DEF d

\* The initial tables are within the bounds.
LEMMA InitBounded == Init => Bounded
<1> SUFFICES ASSUME Init PROVE Bounded
  OBVIOUS
<1>1. IsGraph(edges)
  BY GraphAssumption DEF Init, IsGraph
<1>2. TypeOK
  BY <1>1, DirectFacts, Zenon DEF Init, TypeOK, Table, IsGraph
<1>3. dist = Direct(edges).dist /\ ~ again
  BY DEF Init
<1>4. Diagonal /\ \A c \in [Vertices -> Offsets] : SkewedBy(c) => Lower(c)
  BY <1>1, <1>3, DirectBounded, Zenon DEF Diagonal, SkewedBy, Lower
<1> QED BY <1>2, <1>3, <1>4 DEF Bounded

\* One pivot keeps the bounds.
LEMMA RelaxBounded ==
    ASSUME Bounded, NEW k \in Vertices, Relax(k)
    PROVE  Bounded'
<1>1. TypeOK /\ UNCHANGED <<edges, again>> /\ pending' \subseteq Vertices
  BY DEF Bounded, Relax, TypeOK
<1>2. /\ dist' \in Table(Int)
      /\ \A i, j \in Vertices :
            /\ Improves(dist, k, i, j) =>
                  /\ dist'[i][j] = dist[i][k] + dist[k][j]
                  /\ next'[i][j] = next[i][k]
            /\ ~ Improves(dist, k, i, j) =>
                  dist'[i][j] = dist[i][j] /\ next'[i][j] = next[i][j]
            /\ dist'[i][j] <= dist[i][j]
  BY <1>1, RelaxFacts
<1>3. \A i, j \in Vertices : dist[i][j] \in Int /\ dist'[i][j] \in Int
  BY <1>1, <1>2 DEF TypeOK, Table
<1>4. TypeOK'
  <2>1. /\ next' \in Table(Vertices \cup {None})
        /\ dist_noAC' \in Table(Int)
    BY <1>1 DEF Relax, SetTables, Relaxed, Replaced, Table, TypeOK
  <2> QED BY <1>1, <1>2, <2>1 DEF TypeOK, Table
<1>5. Diagonal'
  BY <1>2, <1>3 DEF Bounded, Diagonal
<1>6. ASSUME NEW c \in [Vertices -> Offsets], SkewedBy(c)' PROVE Lower(c)'
  <2>1. SkewedBy(c) /\ Lower(c)
    BY <1>1, <1>6, Zenon DEF SkewedBy, Bounded
  <2>2. \A v \in Vertices : c[v] \in Int
    BY Numbers
  <2>3. ASSUME NEW i \in Vertices, NEW j \in Vertices, dist'[i][j] < Infinity
        PROVE  dist'[i][j] + c[i] - c[j] >= 0
    <3>1. CASE Improves(dist, k, i, j)
      <4>1. dist[i][k] < Infinity /\ dist[k][j] < Infinity
        BY <3>1 DEF Improves
      <4>2. dist[i][k] + c[i] - c[k] >= 0 /\ dist[k][j] + c[k] - c[j] >= 0
        BY <2>1, <4>1 DEF Lower
      <4> QED BY <1>2, <1>3, <2>2, <3>1, <4>2
    <3>2. CASE ~ Improves(dist, k, i, j)
      BY <1>2, <2>1, <2>3, <3>2 DEF Lower
    <3> QED BY <3>1, <3>2
  <2> QED BY <2>3 DEF Lower
<1>7. again' => \A i, j \in Vertices : dist'[i][j] >= 0
  BY <1>1, <1>2, <1>3 DEF Bounded
<1> QED BY <1>4, <1>5, <1>6, <1>7 DEF Bounded

\* RemoveAllNegativeValue leaves a graph without negative weights.
LEMMA Corrected ==
    ASSUME NEW g, IsGraph(g)
    PROVE  /\ IsGraph(RemoveAllNegativeValue(g))
           /\ \A u, v \in Vertices :
                 Weight(RemoveAllNegativeValue(g), u, v, TRUE) >= 0
<1> DEFINE h == RemoveAllNegativeValue(g)
<1>1. ASSUME NEW u \in Vertices, NEW v \in Vertices
      PROVE  /\ h[u][v] \in Latency \cup {None}
             /\ Weight(h, u, v, TRUE) >= 0
  <2>1. g[u][v] \in Latency \cup {None}
    BY DEF IsGraph
  <2>2. h[u][v] = IF Weight(g, u, v, TRUE) < 0
                  THEN [g[u][v] EXCEPT !.ping = 0] ELSE g[u][v]
    BY DEF RemoveAllNegativeValue
  <2>3. Infinity \in Int /\ Infinity > 0
    BY PathAssumption
  <2> HIDE DEF h
  <2>4. CASE Weight(g, u, v, TRUE) < 0
    <3>1. u # v /\ g[u][v] \in Latency
      BY <2>1, <2>3, <2>4 DEF Weight
    <3>2. /\ h[u][v] \in Latency /\ h[u][v].ping = 0
          /\ h[u][v].additionalCost >= 0 /\ h[u][v].additionalCost \in Int
      BY <2>2, <2>4, <3>1 DEF Latency
    <3> QED BY <2>3, <3>1, <3>2 DEF Weight
  <2>5. CASE ~ (Weight(g, u, v, TRUE) < 0)
    <3>1. h[u][v] = g[u][v]
      BY <2>2, <2>5
    <3>2. Weight(g, u, v, TRUE) \in Int
      BY DirectFacts, Zenon
    <3>3. Weight(h, u, v, TRUE) = Weight(g, u, v, TRUE)
      BY <3>1 DEF Weight
    <3> DEFINE w == Weight(g, u, v, TRUE)
    <3>4. w >= 0
      <4>1. w \in Int /\ ~ (w < 0)
        BY <2>5, <3>2, Zenon
      <4> HIDE DEF w
      <4> QED BY <4>1
    <3>5. Weight(h, u, v, TRUE) = w
      BY <3>3, Zenon
    <3> HIDE DEF w
    <3> QED BY <2>1, <3>1, <3>4, <3>5, Zenon
  <2> QED BY <2>4, <2>5, Zenon
<1>2. IsGraph(h)
  BY <1>1, Zenon DEF IsGraph, RemoveAllNegativeValue
<1> QED BY <1>1, <1>2, Zenon

\* The second attempt starts within the bounds.
LEMMA AgainBounded ==
    ASSUME Bounded, Again
    PROVE  Bounded'
<1> DEFINE h == RemoveAllNegativeValue(edges)
<1>1. IsGraph(edges)
  BY DEF Bounded, TypeOK, IsGraph
<1>2. /\ edges' = h /\ dist' = Direct(h).dist /\ dist_noAC' = Direct(h).dist_noAC
      /\ next' = Direct(h).next /\ pending' = Vertices /\ again' = TRUE
  BY DEF Again, SetTables
<1>3. IsGraph(h) /\ \A u, v \in Vertices : Weight(h, u, v, TRUE) >= 0
  BY <1>1, Corrected, Zenon
<1> HIDE DEF h
<1>4. /\ Direct(h).dist \in Table(Int) /\ Direct(h).dist_noAC \in Table(Int)
      /\ Direct(h).next \in Table(Vertices \cup {None})
      /\ DirectlyFar(h, Direct(h).dist)
  BY <1>3, DirectFacts, Zenon
<1>5. TypeOK'
  BY <1>2, <1>3, <1>4 DEF TypeOK, Table, IsGraph
<1>6. Diagonal' /\ \A c \in [Vertices -> Offsets] : SkewedBy(c)' => Lower(c)'
  BY <1>2, <1>3, DirectBounded, Zenon DEF Diagonal, SkewedBy, Lower
<1>7. \A i, j \in Vertices : dist'[i][j] >= 0
  <2>1. Infinity \in Int /\ Infinity > 0
    BY PathAssumption
  <2> DEFINE w(u, v) == Weight(h, u, v, TRUE)
  <2>2. /\ \A i, j \in Vertices :
              /\ i = j => dist'[i][j] = 0
              /\ i # j /\ Linked(h, i, j) => dist'[i][j] = w(i, j)
              /\ i # j /\ ~ Linked(h, i, j) => dist'[i][j] = Infinity
        /\ \A u, v \in Vertices : w(u, v) >= 0
    BY <1>2, <1>3, <1>4, Zenon DEF DirectlyFar
  <2> HIDE DEF w
  <2>3. ASSUME NEW i \in Vertices, NEW j \in Vertices PROVE dist'[i][j] >= 0
    <3>1. dist'[i][j] \in {0, w(i, j), Infinity}
      BY <2>2
    <3> QED BY <2>1, <2>2, <3>1
  <2> QED BY <2>3
<1> QED BY <1>2, <1>5, <1>6, <1>7 DEF Bounded

\* Every step keeps the bounds.
LEMMA StepBounded == Bounded /\ [Next]_vars => Bounded'
<1> SUFFICES ASSUME Bounded, [Next]_vars PROVE Bounded'
  OBVIOUS
<1>1. ASSUME NEW k \in Vertices, Relax(k) PROVE Bounded'
  BY <1>1, RelaxBounded
<1>2. ASSUME Again PROVE Bounded'
  BY <1>2, AgainBounded
<1>3. ASSUME UNCHANGED vars PROVE Bounded'
  BY <1>3, Zenon DEF vars, Bounded, TypeOK, Diagonal, SkewedBy, Lower
<1> QED BY <1>1, <1>2, <1>3 DEF Next

\* What the bounds say of the diagonal.
LEMMA BoundedNoCycle ==
    Bounded => /\ ClocksMakeNoCycle
               /\ NegativeOnce
               /\ Skewed => \A v \in Vertices : dist[v][v] = 0
<1> SUFFICES ASSUME Bounded
             PROVE  /\ ClocksMakeNoCycle
                    /\ NegativeOnce
                    /\ Skewed => \A v \in Vertices : dist[v][v] = 0
  OBVIOUS
<1>1. \A v \in Vertices : dist[v][v] \in Int /\ dist[v][v] <= 0
  BY DEF Bounded, TypeOK, Diagonal
<1>2. NegativeOnce
  BY <1>1 DEF Bounded, NegativeOnce, NegativeCycle
<1>3. ASSUME Skewed PROVE \A v \in Vertices : dist[v][v] = 0
  <2>1. PICK c \in [Vertices -> Offsets] : SkewedBy(c)
    BY <1>3 DEF Skewed
  <2>2. Lower(c)
    BY <2>1 DEF Bounded
  <2>3. \A v \in Vertices : c[v] \in Int
    BY Numbers
  <2>4. Infinity \in Int /\ Infinity > 0
    BY PathAssumption
  <2>5. ASSUME NEW v \in Vertices PROVE dist[v][v] = 0
    <3>1. dist[v][v] + c[v] - c[v] >= 0
      BY <1>1, <2>2, <2>4 DEF Lower
    <3> DEFINE cv == c[v]
               dv == dist[v][v]
    <3>2. cv \in Int /\ dv \in Int /\ dv <= 0 /\ dv + cv - cv >= 0
      BY <1>1, <2>3, <3>1
    <3> HIDE DEF cv, dv
    <3>3. dv = 0
      BY <3>2
    <3> QED BY <3>3 DEF dv
  <2> QED BY <2>5
<1>4. ClocksMakeNoCycle
  BY <1>1, <1>3 DEF ClocksMakeNoCycle, NegativeCycle
<1> QED BY <1>2, <1>3, <1>4

\* Clock offsets alone never trigger the negative-cycle handling.
THEOREM ClocksHarmless == Spec => []ClocksMakeNoCycle
  BY InitBounded, StepBounded, BoundedNoCycle, PTL DEF Spec

\* The negative-cycle fallback needs at most one retry.
THEOREM OneRetry == Spec => []NegativeOnce
  BY InitBounded, StepBounded, BoundedNoCycle, PTL DEF Spec

-----------------------------------------------------------------------------
\* Two reachable distances never add up to "unreachable".  mtypes.Infinity is
\* 99999 seconds: latencies and clock offsets far below it guarantee this.
InRange == \A i, j, k \in Vertices :
              dist[i][k] < Infinity /\ dist[k][j] < Infinity =>
                 dist[i][k] + dist[k][j] < Infinity

\* The route from i to j begins with a link and goes on with a route that is
\* in the table and no longer than what is left.
Continues(i, j) ==
    /\ dist[i][j] < Infinity => next[i][j] # None
    /\ next[i][j] # None =>
          /\ next[i][j] # i
          /\ Linked(edges, i, next[i][j])
          /\ dist[next[i][j]][j] < Infinity
          /\ Weight(edges, i, next[i][j], TRUE) + dist[next[i][j]][j] <= dist[i][j]

Routes == Skewed => \A i, j \in Vertices : i # j => Continues(i, j)

\* The direct links are routes.
LEMMA DirectRoutes ==
    ASSUME TypeOK, dist = Direct(edges).dist, next = Direct(edges).next
    PROVE  \A i, j \in Vertices : i # j => Continues(i, j)
<1>1. IsGraph(edges)
  BY DEF TypeOK, IsGraph
<1> DEFINE w(u, v) == Weight(edges, u, v, TRUE)
<1>2. /\ \A i, j \in Vertices : w(i, j) \in Int
      /\ \A i \in Vertices : dist[i][i] = 0
      /\ \A i, j \in Vertices : i # j /\ Linked(edges, i, j) => dist[i][j] = w(i, j)
      /\ \A i, j \in Vertices : i # j /\ ~ Linked(edges, i, j) => dist[i][j] = Infinity
      /\ \A i, j \in Vertices : Linked(edges, i, j) => next[i][j] = j
      /\ \A i, j \in Vertices : ~ Linked(edges, i, j) => next[i][j] = None
  <2>1. /\ \A i, j \in Vertices : w(i, j) \in Int
        /\ DirectlyFar(edges, dist)
        /\ DirectlyNext(edges, next)
    BY <1>1, DirectFacts, Zenon
  <2> QED BY <2>1, Zenon DEF DirectlyFar, DirectlyNext
<1>3. Infinity \in Int /\ Infinity > 0 /\ None \notin Vertices
  BY PathAssumption
<1> SUFFICES ASSUME NEW i \in Vertices, NEW j \in Vertices, i # j
             PROVE  Continues(i, j)
  OBVIOUS
<1>4. CASE Linked(edges, i, j)
  <2>1. next[i][j] = j /\ dist[i][j] = w(i, j) /\ dist[j][j] = 0
    BY <1>2, <1>4, Zenon
  <2> HIDE DEF w
  <2>2. dist[j][j] < Infinity /\ w(i, j) + dist[j][j] <= dist[i][j]
    BY <1>2, <1>3, <2>1
  <2> QED BY <1>3, <1>4, <2>1, <2>2, Zenon DEF Continues, w
<1>5. CASE ~ Linked(edges, i, j)
  <2>1. next[i][j] = None /\ ~ (dist[i][j] < Infinity)
    BY <1>2, <1>3, <1>5
  <2> QED BY <2>1 DEF Continues
<1> QED BY <1>4, <1>5

\* Under skewed clocks a pivot leaves its own row and column alone.
LEMMA RelaxSkewed ==
    ASSUME Bounded, Skewed, NEW k \in Vertices, Relax(k)
    PROVE  /\ \A i \in Vertices : dist[i][i] = 0 /\ dist'[i][i] = 0
           /\ \A i, j \in Vertices : i = k \/ j = k => ~ Improves(dist, k, i, j)
<1>1. Skewed'
  BY Zenon DEF Relax, Skewed, SkewedBy
<1>2. Bounded'
  BY RelaxBounded
<1>3. \A i \in Vertices : dist[i][i] = 0
  BY BoundedNoCycle
<1>4. \A i \in Vertices : dist'[i][i] = 0
  <2>1. (Bounded => /\ ClocksMakeNoCycle
                    /\ NegativeOnce
                    /\ Skewed => \A v \in Vertices : dist[v][v] = 0)'
    BY BoundedNoCycle, PTL
  <2> QED BY <1>1, <1>2, <2>1
<1>5. \A i, j \in Vertices : dist[i][j] \in Int
  BY DEF Bounded, TypeOK
<1>6. \A i, j \in Vertices : i = k \/ j = k => ~ Improves(dist, k, i, j)
  BY <1>3, <1>5 DEF Improves
<1> QED BY <1>3, <1>4, <1>6

\* One pivot keeps the routes.
LEMMA RelaxRoutes ==
    ASSUME Bounded, InRange, Routes, NEW k \in Vertices, Relax(k)
    PROVE  Routes'
<1> SUFFICES ASSUME Skewed', NEW i \in Vertices, NEW j \in Vertices, i # j
             PROVE  Continues(i, j)'
  BY DEF Routes
<1> DEFINE w(u, v) == Weight(edges, u, v, TRUE)
<1>1. Skewed /\ edges' = edges /\ TypeOK
  BY Zenon DEF Relax, Skewed, SkewedBy, Bounded
<1>2. /\ \A u, v \in Vertices : dist'[u][v] <= dist[u][v]
      /\ \A u, v \in Vertices : dist[u][k] < Infinity /\ dist[k][v] < Infinity =>
            dist'[u][v] <= dist[u][k] + dist[k][v]
      /\ \A u, v \in Vertices : Improves(dist, k, u, v) =>
            dist'[u][v] = dist[u][k] + dist[k][v] /\ next'[u][v] = next[u][k]
      /\ \A u, v \in Vertices : ~ Improves(dist, k, u, v) =>
            dist'[u][v] = dist[u][v] /\ next'[u][v] = next[u][v]
      /\ dist' \in Table(Int)
  BY <1>1, RelaxFacts
<1>3. /\ \A u, v \in Vertices : dist[u][v] \in Int /\ dist'[u][v] \in Int
      /\ \A u, v \in Vertices : next[u][v] \in Vertices \cup {None}
      /\ \A u, v \in Vertices : w(u, v) \in Int
      /\ Infinity \in Int
  <2>1. IsGraph(edges)
    BY <1>1 DEF TypeOK, IsGraph
  <2>2. \A u, v \in Vertices : w(u, v) \in Int
    BY <2>1, DirectFacts, Zenon
  <2> HIDE DEF w
  <2> QED BY <1>1, <1>2, <2>2, Numbers DEF TypeOK, Table
<1>4. \A u, v \in Vertices : u # v => Continues(u, v)
  BY <1>1 DEF Routes
<1>5. CASE Improves(dist, k, i, j)
  <2> DEFINE x == next[i][k]
  <2>1. i # k /\ dist[i][k] < Infinity /\ dist[k][j] < Infinity
    BY <1>1, <1>5, RelaxSkewed DEF Improves
  <2>2. /\ x # None /\ x # i /\ Linked(edges, i, x) /\ dist[x][k] < Infinity
        /\ w(i, x) + dist[x][k] <= dist[i][k]
    BY <1>4, <2>1, Zenon DEF Continues
  <2>3. x \in Vertices
    BY <1>3, <2>2, Zenon
  <2> HIDE DEF w, x
  <2>4. dist[x][k] + dist[k][j] < Infinity /\ dist'[x][j] <= dist[x][k] + dist[k][j]
    BY <1>2, <2>1, <2>2, <2>3, Zenon DEF InRange
  <2>5. dist'[i][j] = dist[i][k] + dist[k][j] /\ next'[i][j] = x
    BY <1>2, <1>5, Zenon DEF x
  <2>6. dist'[x][j] < Infinity /\ w(i, x) + dist'[x][j] <= dist'[i][j]
    BY <1>3, <2>2, <2>3, <2>4, <2>5
  <2>7. Weight(edges', i, x, TRUE) = w(i, x) /\ Linked(edges', i, x)
    BY <1>1, <2>2 DEF w
  <2> QED BY <2>2, <2>5, <2>6, <2>7, Zenon DEF Continues
<1>6. CASE ~ Improves(dist, k, i, j)
  <2> DEFINE x == next[i][j]
  <2>1. dist'[i][j] = dist[i][j] /\ next'[i][j] = x
    BY <1>2, <1>6, Zenon
  <2>2. CASE x = None
    <3>1. ~ (dist'[i][j] < Infinity)
      BY <1>4, <2>1, <2>2, Zenon DEF Continues
    <3> QED BY <2>1, <2>2, <3>1, Zenon DEF Continues
  <2>3. CASE x # None
    <3>1. /\ x # i /\ Linked(edges, i, x) /\ dist[x][j] < Infinity
          /\ w(i, x) + dist[x][j] <= dist[i][j]
      BY <1>4, <2>3, Zenon DEF Continues
    <3>2. x \in Vertices
      BY <1>3, <2>3, Zenon
    <3> HIDE DEF w, x
    <3>3. dist'[x][j] < Infinity /\ w(i, x) + dist'[x][j] <= dist'[i][j]
      BY <1>2, <1>3, <2>1, <3>1, <3>2
    <3> QED BY <1>1, <2>1, <2>3, <3>1, <3>3, Zenon DEF Continues, w
  <2> QED BY <2>2, <2>3
<1> QED BY <1>5, <1>6

\* One pivot settles itself and unsettles none that came before.
LEMMA RelaxSettled ==
    ASSUME Bounded, InRange, Settled, NEW m \in Vertices, Relax(m)
    PROVE  Settled'
<1>1. /\ edges' = edges /\ TypeOK /\ pending' = pending \ {m}
      /\ Skewed' => Skewed
  BY Zenon DEF Relax, Skewed, SkewedBy, Bounded
<1> SUFFICES ASSUME Skewed',
                    NEW k \in Vertices \ pending',
                    NEW i \in Vertices, NEW j \in Vertices,
                    dist'[i][k] < Infinity, dist'[k][j] < Infinity
             PROVE  dist'[i][j] <= dist'[i][k] + dist'[k][j]
  BY Zenon DEF Settled
<1>2. /\ dist' \in Table(Int)
      /\ \A u, v \in Vertices : dist'[u][v] <= dist[u][v]
      /\ \A u, v \in Vertices : dist[u][m] < Infinity /\ dist[m][v] < Infinity =>
            dist'[u][v] <= dist[u][m] + dist[m][v]
      /\ \A u, v \in Vertices : \/ dist'[u][v] = dist[u][v]
                                \/ /\ dist[u][m] < Infinity /\ dist[m][v] < Infinity
                                   /\ dist'[u][v] = dist[u][m] + dist[m][v]
  BY <1>1, RelaxFacts DEF Improves
<1>3. /\ \A u, v \in Vertices : dist[u][v] \in Int /\ dist'[u][v] \in Int
      /\ Infinity \in Int
  BY <1>1, <1>2, Numbers DEF TypeOK, Table
<1>4. CASE k = m
  <2>1. ~ Improves(dist, m, i, m) /\ ~ Improves(dist, m, m, j)
    BY <1>1, RelaxSkewed, Zenon
  <2>2. dist'[i][m] = dist[i][m] /\ dist'[m][j] = dist[m][j]
    BY <1>1, <2>1, RelaxFacts
  <2> QED BY <1>2, <1>3, <1>4, <2>2, Zenon
<1>5. CASE k # m
  <2>1. \A u, v \in Vertices : dist[u][k] < Infinity /\ dist[k][v] < Infinity =>
           dist[u][v] <= dist[u][k] + dist[k][v] /\ dist[u][k] + dist[k][v] < Infinity
    BY <1>1, <1>5, Zenon DEF Settled, InRange
  <2>2. CASE dist'[i][k] = dist[i][k] /\ dist'[k][j] = dist[k][j]
    BY <1>2, <1>3, <2>1, <2>2
  <2>3. CASE /\ dist[i][m] < Infinity /\ dist[m][k] < Infinity
             /\ dist'[i][k] = dist[i][m] + dist[m][k]
             /\ dist'[k][j] = dist[k][j]
    <3>1. /\ dist[m][j] <= dist[m][k] + dist[k][j]
          /\ dist[m][k] + dist[k][j] < Infinity
      BY <2>1, <2>3, Zenon
    <3>2. dist[m][j] < Infinity
      BY <1>3, <3>1
    <3>3. dist'[i][j] <= dist[i][m] + dist[m][j]
      BY <1>2, <2>3, <3>2, Zenon
    <3> QED BY <1>3, <2>3, <3>1, <3>3
  <2>4. CASE /\ dist[k][m] < Infinity /\ dist[m][j] < Infinity
             /\ dist'[k][j] = dist[k][m] + dist[m][j]
             /\ dist'[i][k] = dist[i][k]
    <3>1. /\ dist[i][m] <= dist[i][k] + dist[k][m]
          /\ dist[i][k] + dist[k][m] < Infinity
      BY <2>1, <2>4, Zenon
    <3>2. dist[i][m] < Infinity
      BY <1>3, <3>1
    <3>3. dist'[i][j] <= dist[i][m] + dist[m][j]
      BY <1>2, <2>4, <3>2, Zenon
    <3> QED BY <1>3, <2>4, <3>1, <3>3
  <2>5. CASE /\ dist[i][m] < Infinity /\ dist[m][k] < Infinity
             /\ dist'[i][k] = dist[i][m] + dist[m][k]
             /\ dist[k][m] < Infinity /\ dist[m][j] < Infinity
             /\ dist'[k][j] = dist[k][m] + dist[m][j]
    <3>1. PICK c \in [Vertices -> Offsets] : SkewedBy(c)
      BY <1>1, Zenon DEF Skewed
    <3>2. dist[m][k] + c[m] - c[k] >= 0 /\ dist[k][m] + c[k] - c[m] >= 0
      BY <2>5, <3>1, Zenon DEF Bounded, Lower
    <3>3. c[m] \in Int /\ c[k] \in Int
      BY Numbers
    <3>4. dist[m][k] + dist[k][m] >= 0
      BY <1>3, <3>2, <3>3
    <3>5. dist'[i][j] <= dist[i][m] + dist[m][j]
      BY <1>2, <2>5, Zenon
    <3> QED BY <1>3, <2>5, <3>4, <3>5
  <2> QED BY <1>2, <2>2, <2>3, <2>4, <2>5, Zenon
<1> QED BY <1>4, <1>5, Zenon

\* Inductive invariant of the routes.
RInv == Bounded /\ Routes /\ Settled

LEMMA InitRInv == Init => RInv
<1> SUFFICES ASSUME Init PROVE RInv
  OBVIOUS
<1>1. Bounded
  BY InitBounded
<1>2. TypeOK /\ dist = Direct(edges).dist /\ next = Direct(edges).next
  BY <1>1 DEF Bounded, Init
<1>3. Routes
  BY <1>2, DirectRoutes DEF Routes
<1>4. Settled
  BY DEF Init, Settled
<1> QED BY <1>1, <1>3, <1>4 DEF RInv

LEMMA StepRInv == RInv /\ InRange /\ [Next]_vars => RInv'
<1> SUFFICES ASSUME RInv, InRange, [Next]_vars PROVE RInv'
  OBVIOUS
<1>1. Bounded /\ Routes /\ Settled /\ Bounded'
  BY StepBounded DEF RInv
<1>2. ASSUME NEW k \in Vertices, Relax(k) PROVE RInv'
  BY <1>1, <1>2, RelaxRoutes, RelaxSettled DEF RInv
<1>3. ASSUME Again PROVE RInv'
  <2>1. TypeOK' /\ dist' = Direct(edges').dist /\ next' = Direct(edges').next
    BY <1>1, <1>3, Zenon DEF Bounded, Again, SetTables
  <2>2. (TypeOK /\ dist = Direct(edges).dist /\ next = Direct(edges).next
           => \A i, j \in Vertices : i # j => Continues(i, j))'
    BY DirectRoutes, PTL
  <2>3. Routes'
    BY <2>1, <2>2 DEF Routes
  <2>4. Settled'
    BY <1>3 DEF Again, Settled
  <2> QED BY <1>1, <2>3, <2>4 DEF RInv
<1>4. ASSUME UNCHANGED vars PROVE RInv'
  BY <1>1, <1>4, Zenon DEF vars, RInv, Routes, Continues, Settled, Skewed, SkewedBy
<1> QED BY <1>2, <1>3, <1>4 DEF Next

LEMMA RInvDescends == RInv => Descends
<1> SUFFICES ASSUME RInv,
                    NEW c \in [Vertices -> Offsets], SkewedBy(c),
                    NEW i \in Vertices, NEW j \in Vertices, i # j,
                    next[i][j] # None
             PROVE  /\ Linked(edges, i, next[i][j])
                    /\ dist[next[i][j]][j] + c[next[i][j]] < dist[i][j] + c[i]
  BY Zenon DEF Descends
<1> DEFINE x == next[i][j]
           w == Weight(edges, i, x, TRUE)
<1>1. Bounded /\ TypeOK /\ Continues(i, j)
  BY DEF RInv, Bounded, Routes, Skewed
<1>2. /\ x # i /\ x \in Vertices /\ Linked(edges, i, x)
      /\ w + dist[x][j] <= dist[i][j]
  <2>1. next[i][j] \in Vertices
    BY <1>1 DEF TypeOK
  <2> QED BY <1>1, <2>1, Zenon DEF Continues
<1>3. w + c[i] - c[x] > 0
  BY <1>2, Zenon DEF SkewedBy
<1>4. w \in Int
  <2>1. IsGraph(edges)
    BY <1>1 DEF TypeOK, IsGraph
  <2>2. \A u, v \in Vertices : Weight(edges, u, v, TRUE) \in Int
    BY <2>1, DirectFacts, Zenon
  <2> QED BY <1>2, <2>2, Zenon
<1>5. dist[x][j] \in Int /\ dist[i][j] \in Int
  BY <1>1, <1>2 DEF TypeOK
<1>6. c[x] \in Int /\ c[i] \in Int
  BY <1>2, Numbers
<1> HIDE DEF w, x
<1>7. dist[x][j] + c[x] < dist[i][j] + c[i]
  BY <1>2, <1>3, <1>4, <1>5, <1>6
<1> QED BY <1>2, <1>7, Zenon DEF x

\* Packets that follow the next hops cannot run in a circle, at any moment of
\* any calculation, as long as the distances stay clear of mtypes.Infinity.
THEOREM NoLoops == Spec /\ []InRange => []Descends
  BY InitRInv, StepRInv, RInvDescends, PTL DEF Spec

\* A finished pivot is never needed again, so one pass over the vertices, in
\* whatever order the Go map yields them, gives the shortest distances.
THEOREM PivotsSettle == Spec /\ []InRange => []Settled
<1>1. RInv => Settled
  BY DEF RInv
<1> QED BY <1>1, InitRInv, StepRInv, PTL DEF Spec

\* The tables keep their types.
THEOREM TypeCorrect == Spec => []TypeOK
<1>1. Bounded => TypeOK
  BY DEF Bounded
<1> QED BY <1>1, InitBounded, StepBounded, PTL DEF Spec
=============================================================================
