--------------------------- MODULE MCPeerEndpoint ---------------------------
(***************************************************************************)
(* Configurations of the device for PeerEndpoint.                          *)
(***************************************************************************)
EXTENDS PeerEndpoint

Setting(super, dual, tcp, prefer) ==
  [IsSuperNode |-> super, DualStack |-> dual, FakeTCP |-> tcp, AfPrefer |-> prefer]

\* Edges with and without dual stack and a supernode, each with FakeTCP.
AllSettings ==
  { Setting(FALSE, TRUE, TRUE, Nil), Setting(FALSE, TRUE, TRUE, "v4"),
    Setting(FALSE, FALSE, TRUE, "v6"), Setting(TRUE, TRUE, TRUE, "v6") }

\* A host with both families, and one whose IPv6 address is private.
HostURLs ==
  { [resolved |-> Families, usable |-> Families], [resolved |-> Families, usable |-> {"v4"}] }
=============================================================================
