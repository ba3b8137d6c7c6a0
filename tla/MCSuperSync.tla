---------------------------- MODULE MCSuperSync -----------------------------
(***************************************************************************)
(* Scenarios for SuperSync: one kind of state at a time, since the kinds    *)
(* share nothing but the messages that carry their hashes.                 *)
(***************************************************************************)
EXTENDS SuperSync

CONSTANTS e1, e2

Scenario(kind, receivers, changes, restarts) ==
  [kinds |-> {kind}, members |-> {e1}, addable |-> IF kind = "peer" THEN {e2} ELSE {},
   deletable |-> IF kind = "peer" THEN {e2} ELSE {}, watched |-> {e1},
   dampings |-> IF kind = "param" THEN {0, 4} ELSE {0},
   receivers |-> receivers, lossy |-> receivers # Receivers, posts |-> receivers # Receivers,
   changes |-> changes, restarts |-> restarts]

\* One connection to a supernode that has only one address, over a network that
\* loses messages; and two connections.
AllScenarios ==
  { Scenario("nh", {"v4"}, 2, 1),
    Scenario("peer", {"v4"}, 2, 0), Scenario("peer", {"v4"}, 1, 1),
    Scenario("param", {"v4"}, 2, 0), Scenario("param", {"v4"}, 1, 1) }
  \cup { Scenario("nh", Receivers, 2, 0), Scenario("peer", Receivers, 1, 0),
         Scenario("param", Receivers, 1, 0) }
=============================================================================
