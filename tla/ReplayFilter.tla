---------------------------- MODULE ReplayFilter ----------------------------
(***************************************************************************)
(* replay.Filter: the RFC 6479 sliding window of a keypair.  A ring of     *)
(* RingBlocks blocks, each a bit set over BlockBits positions, and the     *)
(* highest counter accepted.  One action per exported method; the four     *)
(* ways out of ValidateCounter are the four disjuncts of the action.       *)
(*                                                                         *)
(* The filter is used by one goroutine (the sequential receiver of the     *)
(* peer), so a call is one step.  uint64 never wraps here: only counters   *)
(* below Limit = RejectAfterMessages = 2^64 - 2^13 - 1 reach arithmetic.   *)
(***************************************************************************)
EXTENDS Integers

CONSTANTS BlockBits,   \* blockBits (64)
          RingBlocks,  \* ringBlocks (128)
          Limit,       \* the limit argument of ValidateCounter
          Counters     \* the counters packets carry

ASSUME FilterAssumption == /\ BlockBits \in Nat \ {0}
                           /\ RingBlocks \in Nat \ {0}
                           /\ Limit \in Nat
                           /\ Counters \subseteq Nat

VARIABLES last,  \* Filter.last
          ring,  \* Filter.ring, a block as the set of its bits that are 1
          seen,  \* history: the counters accepted since the last Reset
          out    \* the last call of ValidateCounter and what it returned

vars == <<last, ring, seen, out>>

windowSize == (RingBlocks - 1) * BlockBits

Block(c) == c \div BlockBits

Slots == 0 .. RingBlocks - 1

Bits == 0 .. BlockBits - 1

Init == /\ last = 0
        /\ ring = [s \in Slots |-> {}]
        /\ seen = {}
        /\ out = [counter |-> 0, ok |-> FALSE]

-----------------------------------------------------------------------------
\* Mutant: the mask lets one bit too many through.
MutBit(c) == c % (BlockBits + 1)

Bit(c) == c % BlockBits

\* Mutant: Reset forgets to clear the block that last = 0 leaves in use.
MutReset == /\ last' = 0
            /\ ring' = ring
            /\ seen' = {}
            /\ UNCHANGED out

\* Reset clears only the block that counter 0 falls in; the others are
\* cleared when the window moves onto them.
Reset == /\ last' = 0
         /\ ring' = [ring EXCEPT ![0] = {}]
         /\ seen' = {}
         /\ UNCHANGED out

\* Mutant: the cap stops one block short of the whole ring.
MutClearedBlocks(c) ==
    LET current == Block(last)
        ahead   == Block(c) - current
        diff    == IF ahead > RingBlocks THEN RingBlocks - 1 ELSE ahead
    IN  {i % RingBlocks : i \in current + 1 .. current + diff}

\* The ring slots zeroed when the window moves forward to counter c: the
\* blocks after the current one, at most a whole ring of them.
ClearedBlocks(c) ==
    LET current == Block(last)
        ahead   == Block(c) - current
        diff    == IF ahead > RingBlocks THEN RingBlocks ELSE ahead
    IN  {i % RingBlocks : i \in current + 1 .. current + diff}

MovedRing(c) ==
    IF c > last
    THEN [s \in Slots |-> IF s \in ClearedBlocks(c) THEN {} ELSE ring[s]]
    ELSE ring

BehindWindow(c) == last - c > windowSize

\* ValidateCounter: over the limit, behind the window, or test and set the
\* counter's bit in the ring once the window has moved.
ValidateCounter(c) ==
    LET slot == Block(c) % RingBlocks
        bit  == Bit(c)
        old  == MovedRing(c)[slot]
    IN  \/ /\ c >= Limit
           /\ out' = [counter |-> c, ok |-> FALSE]
           /\ UNCHANGED <<last, ring, seen>>
        \/ /\ c < Limit
           /\ c <= last
           /\ BehindWindow(c)
           /\ out' = [counter |-> c, ok |-> FALSE]
           /\ UNCHANGED <<last, ring, seen>>
        \/ /\ c < Limit
           /\ c > last \/ ~ BehindWindow(c)
           /\ last' = IF c > last THEN c ELSE last
           /\ ring' = [MovedRing(c) EXCEPT ![slot] = old \cup {bit}]
           /\ out' = [counter |-> c, ok |-> bit \notin old]
           /\ seen' = IF bit \notin old THEN seen \cup {c} ELSE seen

Next == Reset \/ \E c \in Counters : ValidateCounter(c)

Spec == Init /\ [][Next]_vars

-----------------------------------------------------------------------------
\* Type invariant of replay.Filter: a counter and a ring of bit sets.
TypeOK == /\ last \in Nat
          /\ ring \in [Slots -> SUBSET Bits]
          /\ seen \subseteq Nat
          /\ out \in [counter : Nat, ok : BOOLEAN]

\* The blocks the ring currently stands for: the block of last and the
\* RingBlocks - 1 blocks before it.
LiveBlocks == {b \in 0 .. Block(last) : Block(last) - b < RingBlocks}

\* The ring tells the truth about every live block: a bit is set exactly for
\* the counters ValidateCounter accepted since Reset, whatever a block held
\* before the window (or a Reset) moved past it.  Stale bits in a reused slot
\* would silently drop good packets, missing ones would replay old packets.
RingFaithful ==
    /\ \A c \in seen : c <= last
    /\ \A b \in LiveBlocks, i \in Bits :
          i \in ring[b % RingBlocks] <=> b * BlockBits + i \in seen

Window == INSTANCE AntiReplayWindow WITH high <- last, WindowSize <- windowSize

\* ValidateCounter and Reset implement the abstract window: no counter is
\* accepted twice, and every new counter inside the window is accepted.
ImplementsWindow == Window!AbsSpec
=============================================================================
