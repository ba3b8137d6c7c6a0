--------------------------- MODULE MCRouteGraph -----------------------------
(***************************************************************************)
(* RouteGraph with three vertices: a direct link A -> B and a detour over  *)
(* C, latencies around the jitter tolerance.                               *)
(***************************************************************************)
EXTENDS RouteGraph, ShortestWalks

CONSTANTS A, B, C, http,
          Slack  \* the largest change that counts as jitter

pong(u, v, t) == [src |-> u, dst |-> v, timediff |-> t,
                  additionalCost |-> IF v = C THEN 1 ELSE 0]

\* Node B posts the latencies of its two neighbours, node C that of A.
Posts == {<<pong(A, B, t), pong(C, B, 1)>> : t \in {2, 3, 30}} \cup {<<pong(A, C, 1)>>}

\* A clock stepped between two reports: A -> B -> A in less than no time.
NegativePosts == {<<pong(A, B, t)>> : t \in {-9, 1}}
                 \cup {<<pong(B, A, 0), pong(A, C, 1)>>, <<pong(C, B, -9)>>}

NoManual == [p \in {} |-> 0]

\* Everything towards C takes 2, but A -> C takes 5.
ManualToC == [p \in {<<Broadcast, C>>, <<A, C>>} |-> IF p[1] = A THEN 5 ELSE 2]

SuperMode == [IsSuperMode |-> TRUE, StaticMode |-> FALSE, JitterTolerance |-> 1,
              JitterToleranceMultiplier |-> 100, ManualLatency |-> NoManual,
              Reports |-> Posts, MaxReports |-> 3, Removable |-> {},
              Callers |-> {Timer}, Expiring |-> {<<A, B>>}, CoolDown |-> TRUE]

P2PMode == [SuperMode EXCEPT !.IsSuperMode = FALSE]

\* Negative cycles and a peer that is deleted.
Disturbed == [SuperMode EXCEPT !.Reports = NegativePosts, !.MaxReports = 2,
                               !.Removable = {C}, !.Expiring = {<<A, C>>, <<C, B>>}]

\* The event handler and an HTTP handler calculate and publish at the same time,
\* while the only link comes, goes and comes back.
Racing == [SuperMode EXCEPT !.Reports = {<<pong(A, B, 2)>>}, !.MaxReports = 2,
                            !.Callers = {Timer, http}, !.CoolDown = FALSE]

\* The three modes of the graph; on the edge with latency classes 1, 4, 9...
AllModes == {SuperMode, [SuperMode EXCEPT !.StaticMode = TRUE, !.MaxReports = 2],
             [P2PMode EXCEPT !.JitterToleranceMultiplier = 200,
                             !.ManualLatency = ManualToC, !.MaxReports = 2,
                             !.Expiring = {<<A, B>>, <<A, C>>}], Disturbed, Racing}

\* A configured chain A -> C -> B and a direct route.
Configured == {[NoTable EXCEPT ![A][B] = x, ![A][C] = C, ![C][B] = B] : x \in {B, C}}

\* Following the table from u to v costs at most the jitter more than the best
\* route, and a vertex out of reach has no route.
NearBestRoute(u, v) ==
    LET best == Shortest(Live, u, v)
        p == Path(nhTable, u, v)
    IN  IF best >= Infinity THEN nhTable[u][v] = None
        ELSE /\ p[Len(p)] = v
             /\ Length(Live, p, TRUE) <= best + 2 * (Cardinality(Vertices) - 1) * Slack

NearBestTable == \A u, v \in Vertices : u # v => NearBestRoute(u, v)

\* No peer is deleted, after which stale routes stay, and no latency is
\* negative, which a calculation replaces by zero.
Undisturbed == ~ StaticMode /\ setting.Removable = {}

\* After a check outside the cooldown the table is within the jitter of the
\* best routes: no sequence of small changes, reports that were not worth a
\* recalculation, expiries or cooldowns lets it drift away.  The additional cost
\* of a node stays the same meanwhile: the check does not look at it.  What does
\* lead the table away for longer is a race (Overtaken): a calculation is the
\* last to assign though another one has remembered newer latencies, or a link
\* is reported, or expires, between the read of the weight that is entered and
\* the read of the one that is remembered.
NearBest == Undisturbed /\ AllIdle /\ quiet = "full" /\ "table" \notin late => NearBestTable

\* When the reports end, the periodic check brings the table there for good,
\* unless such a race came last: its links count as known, and no check finds
\* a difference any more.
Converges == <>[](~ Undisturbed \/ "table" \in late \/ NearBestTable)

=============================================================================
