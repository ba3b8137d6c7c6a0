------------------------------ MODULE MCFakeTCP ------------------------------
(* Two nodes: one sends, both send, and a bind that is closed first. *)
EXTENDS FakeTCP, TLC

CONSTANTS nA, nB, s1, s2

MCNodes == {nA, nB}
MCSenders == {s1, s2}

Scenario(b, calls1, calls2, faults, close, update) ==
  [from |-> (s1 :> nA @@ s2 :> b), to |-> (s1 :> nB @@ s2 :> IF b = nA THEN nB ELSE nA),
   calls |-> (s1 :> calls1 @@ s2 :> calls2), faults |-> faults, close |-> close, update |-> update]

MCScenarios ==
  {Scenario(nA, 2, 0, 2, {}, {}),        \* one caller of Send, two faults
   Scenario(nA, 2, 1, 0, {}, {}),        \* two calls may connect at once
   Scenario(nB, 1, 1, 0, {nB}, {}),      \* both nodes connect, one closes
   Scenario(nB, 1, 1, 0, {}, {nA, nB})}  \* the way Device.BindUpdate opens the bind
=============================================================================
