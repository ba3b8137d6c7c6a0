--------------------------- MODULE MCReplayFilter ---------------------------
(***************************************************************************)
(* A ring of 3 blocks of 2 bits and counters up to twice the window, *)
(* so that the ring is moved by less than, exactly and more than its size. *)
(***************************************************************************)
EXTENDS ReplayFilter

MCCounters == 0 .. 11
=============================================================================
