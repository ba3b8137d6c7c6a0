---------------------------- MODULE MCPeerQueues ------------------------------
(***************************************************************************)
(* PeerQueues with one staged packet at most, keys of two nonces and one   *)
(* retry of a handshake.  Each scenario lets a few things happen together. *)
(***************************************************************************)
EXTENDS PeerQueues

Base ==
  [packets |-> 1, data |-> 0, offers |-> 0, expiries |-> 0,
   timers |-> {"retransmitHandshake", "zeroKeyMaterial"}, main |-> <<"up">>,
   remove |-> FALSE, lossy |-> FALSE]

\* Handshakes of both sides cross while packets are staged.
Crossing == [Base EXCEPT !.data = 1, !.offers = 1]

\* A key expires, runs out of nonces or is zeroed while packets are numbered.
Expiry == [Base EXCEPT !.packets = 2, !.expiries = 1]

\* Initiations get lost and are sent again.
Retry == [Base EXCEPT !.offers = 1, !.timers = @ \cup {"newHandshake"}, !.lossy = TRUE]

\* The device goes down and up again under traffic.
Restart == [Base EXCEPT !.data = 1, !.main = <<"up", "down", "up">>]

\* The device is closed while packets are sent, or while a keepalive is due.
Closing == [Base EXCEPT !.data = 1, !.main = <<"up", "closed">>]
Keeping ==
  [Base EXCEPT !.packets = 0, !.data = 1, !.offers = 1, !.main = <<"up", "closed">>,
   !.timers = {"sendKeepalive", "needAnotherKeepalive"}]

\* The peer is removed while nothing is received, and while frames are.
Removal == [Base EXCEPT !.main = <<"up", "down">>, !.remove = TRUE]
BusyRemoval == [Base EXCEPT !.data = 1, !.remove = TRUE]

All == {Crossing, Expiry, Retry, Restart, Closing, Keeping, Removal, BusyRemoval}
=============================================================================
