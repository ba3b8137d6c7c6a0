--------------------------- MODULE MCForwarding -----------------------------
(***************************************************************************)
(* Forwarding on four nodes, with tables calculated from links.            *)
(***************************************************************************)
EXTENDS Forwarding

CONSTANTS nA, nB, nC, nD

\* The table for latencies given per ordered pair.
Graph(w) == [u \in Vertices |-> [v \in Vertices |->
  IF <<u, v>> \in DOMAIN w THEN [ping |-> w[<<u, v>>], additionalCost |-> 0] ELSE None]]

\* The value x; the comparison makes TLC calculate it here, once.
The(x) == CHOOSE t \in {x} : t = x

TableOf(w) ==
  LET A == The(Relaxed(Direct(Graph(w)), nA))
      B == The(Relaxed(A, nB))
      C == The(Relaxed(B, nC))
      D == The(Relaxed(C, nD))
  IN D.next

Both(links) == links \cup {<<l[2], l[1]>> : l \in links}
Even(links) == [l \in Both(links) |-> 1]

\* A chain, a star, and all links.
Chain == Even({<<nA, nB>>, <<nB, nC>>, <<nC, nD>>})
Star == Even({<<nB, nA>>, <<nB, nC>>, <<nB, nD>>})
Mesh == Even({<<nA, nB>>, <<nA, nC>>, <<nA, nD>>, <<nB, nC>>, <<nB, nD>>, <<nC, nD>>})

\* Two ways of nA and nB to nD, each over the other.
OverB == [l \in Both({<<nA, nB>>, <<nB, nC>>, <<nA, nD>>, <<nB, nD>>}) |-> IF l \in {<<nA, nD>>, <<nD, nA>>} THEN 5 ELSE 1]
OverA == [l \in Both({<<nA, nB>>, <<nB, nC>>, <<nA, nD>>, <<nB, nD>>}) |-> IF l \in {<<nB, nD>>, <<nD, nB>>} THEN 5 ELSE 1]

Peers(links) == [u \in Vertices |-> {v \in Vertices : <<u, v>> \in links}]

\* Hosts h1 at nA and h2 at nD send while the table changes.
Changing(old, new, quiet, known, frames) ==
  [old |-> TableOf(old), new |-> TableOf(new), disableRelay |-> quiet,
   peers |-> Peers(DOMAIN old \cup DOMAIN new), at |-> [h1 |-> nA, h2 |-> nD],
   known |-> known, spread |-> {}, frames |-> frames]

\* Control messages only.
Spreading(links, from, quiet) ==
  [old |-> TableOf(links), new |-> TableOf(links), disableRelay |-> quiet,
   peers |-> Peers(DOMAIN links), at |-> [h \in {} |-> nA], known |-> {},
   spread |-> from, frames |-> 1]

\* Unicast between hosts that know each other, broadcasts under a growing mesh,
\* a node on the way that does not relay, a message that is spread, and learning.
One == {Changing(OverB, OverA, {}, {"h1", "h2"}, 1)}
Two == {Changing(Chain, Mesh, {}, {}, 1)}
Three == {Changing(Chain, Mesh, {nC}, {}, 1)}
Four == {Spreading(Mesh, {nA}, {nD})}
Five == {Changing(Star, Star, {}, {}, 2)}

AllScenarios == One \cup Two \cup Three \cup Four \cup Five
=============================================================================
