--------------------------- MODULE MCNoiseSession ---------------------------
(***************************************************************************)
(* Two nodes, a and b.  Three indices are enough for a handshake and two   *)
(* keypairs at once and make a freed index come back soon, the case in     *)
(* which a late packet meets a receiver it was not meant for.              *)
(***************************************************************************)
EXTENDS NoiseSession, TLC

CONSTANTS a, b, w, x

\* a initiates twice while b initiates once: handshakes cross and rekey, and a
\* may forget its keys.
Crossing == [forgetful |-> {a}, fresh |-> (a :> 2) @@ (b :> 1), workers |-> {w}]

\* Only a initiates, twice; each node has two handshake workers.
TwoWorkers == [forgetful |-> {}, fresh |-> (a :> 2) @@ (b :> 0), workers |-> {w, x}]

BothLoads == {Crossing, TwoWorkers}

IndexWorkerSymmetry == Permutations(Indices) \cup Permutations(Workers)
=============================================================================
