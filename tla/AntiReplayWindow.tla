-------------------------- MODULE AntiReplayWindow --------------------------
(***************************************************************************)
(* What the anti-replay filter of a keypair promises, without its ring of  *)
(* bit blocks: the filter remembers every counter it accepted since the    *)
(* last Reset and the highest of them, and accepts a counter exactly when  *)
(* it is below the limit, not older than the window, and new.              *)
(***************************************************************************)
EXTENDS Integers

CONSTANTS Counters,   \* the counters a packet may carry
          Limit,      \* RejectAfterMessages
          WindowSize  \* how far behind the highest counter one may be

VARIABLES high,  \* the highest counter accepted so far, 0 at first
          seen,  \* the counters accepted since the last Reset
          out    \* the last call: its counter and its answer

absVars == <<high, seen, out>>

Fresh(c) == /\ c < Limit
            /\ c \notin seen
            /\ high - c <= WindowSize

AbsInit == /\ high = 0
           /\ seen = {}
           /\ out = [counter |-> 0, ok |-> FALSE]

Accept(c) == /\ Fresh(c)
             /\ seen' = seen \cup {c}
             /\ high' = IF c > high THEN c ELSE high
             /\ out' = [counter |-> c, ok |-> TRUE]

Reject(c) == /\ ~ Fresh(c)
             /\ out' = [counter |-> c, ok |-> FALSE]
             /\ UNCHANGED <<high, seen>>

AbsReset == /\ high' = 0
            /\ seen' = {}
            /\ UNCHANGED out

AbsNext == AbsReset \/ \E c \in Counters : Accept(c) \/ Reject(c)

AbsSpec == AbsInit /\ [][AbsNext]_absVars
=============================================================================
