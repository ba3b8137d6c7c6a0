------------------------- MODULE ReplayFilterProofs -------------------------
(***************************************************************************)
(* Proofs about replay.Filter for every block size, ring size, limit and   *)
(* set of counters.                                                        *)
(***************************************************************************)
EXTENDS ReplayFilter, TLAPS

-----------------------------------------------------------------------------
(* Arithmetic: what \div and % do, the only place multiplication is needed *)

\* Quotient and remainder: the coordinates of a counter in the ring.
LEMMA DivMod ==
    ASSUME NEW a \in Nat, NEW n \in Nat \ {0}
    PROVE  /\ a \div n \in Nat
           /\ a % n \in 0 .. n - 1
           /\ a = (a \div n) * n + (a % n)
  BY SMT

\* The decomposition of a number into quotient and remainder is unique.
LEMMA DivUnique ==
    ASSUME NEW a \in Nat, NEW n \in Nat \ {0}, NEW q \in Nat,
           NEW r \in 0 .. n - 1, a = q * n + r
    PROVE  a \div n = q /\ a % n = r
  BY SMT

\* A later counter is not in an earlier block.
LEMMA DivMonotonic ==
    ASSUME NEW a \in Nat, NEW b \in Nat, NEW n \in Nat \ {0}, a <= b
    PROVE  a \div n <= b \div n
  BY SMT

\* Two blocks less than a ring apart never share a slot.
LEMMA ModDistinct ==
    ASSUME NEW a \in Nat, NEW b \in Nat, NEW n \in Nat \ {0},
           a < b, b - a < n
    PROVE  a % n # b % n
<1> DEFINE p == a \div n
           q == b \div n
<1>1. /\ p \in Nat /\ q \in Nat
      /\ a = p * n + (a % n) /\ b = q * n + (b % n)
      /\ a % n \in Nat /\ b % n \in Nat
  BY DivMod
<1> HIDE DEF p, q
<1>2. SUFFICES ASSUME a % n = b % n PROVE FALSE
  OBVIOUS
<1>3. b - a = (q - p) * n
  BY <1>1, <1>2, SMT
<1>4. CASE q <= p
  <2>1. (q - p) * n <= 0
    BY <1>1, <1>4, SMT
  <2> QED BY <2>1, <1>3
<1>5. CASE q >= p + 1
  <2>1. (q - p) * n >= n
    BY <1>1, <1>5, SMT
  <2> QED BY <2>1, <1>3
<1> QED BY <1>1, <1>4, <1>5

\* A run of n consecutive blocks covers every slot.
LEMMA ModCovers ==
    ASSUME NEW a \in Nat, NEW n \in Nat \ {0}, NEW s \in 0 .. n - 1
    PROVE  \E i \in a + 1 .. a + n : i % n = s
<1> DEFINE p == a \div n
           r == a % n
<1>1. p \in Nat /\ r \in 0 .. n - 1 /\ a = p * n + r
  BY DivMod, Zenon
<1> HIDE DEF p, r
<1>2. p * n \in Nat /\ (p + 1) * n = p * n + n
  BY <1>1, SMT
<1>3. CASE s > r
  <2>1. p * n + s \in a + 1 .. a + n
    BY <1>1, <1>2, <1>3
  <2>2. (p * n + s) % n = s
    BY <1>1, <1>2, DivUnique
  <2> QED BY <2>1, <2>2
<1>4. CASE s <= r
  <2>1. (p + 1) * n + s \in a + 1 .. a + n
    BY <1>1, <1>2, <1>4
  <2>2. ((p + 1) * n + s) % n = s
    BY <1>1, <1>2, DivUnique
  <2> QED BY <2>1, <2>2
<1> QED BY <1>1, <1>3, <1>4

-----------------------------------------------------------------------------
(* The ring *)

\* The highest counter after ValidateCounter has moved the window to c.
Top(c) == IF c > last THEN c ELSE last

Live(t) == {b \in 0 .. Block(t) : Block(t) - b < RingBlocks}

IInv == TypeOK /\ RingFaithful

\* A counter is its block and its bit, and nothing else has both.
LEMMA Coordinates ==
    ASSUME NEW c \in Nat
    PROVE  /\ Block(c) \in Nat /\ c % BlockBits \in Bits
           /\ Block(c) * BlockBits + (c % BlockBits) = c
           /\ Block(c) % RingBlocks \in Slots
           /\ \A b \in Nat, i \in Bits :
                 b * BlockBits + i = c <=> b = Block(c) /\ i = c % BlockBits
<1>1. /\ Block(c) \in Nat /\ c % BlockBits \in Bits
      /\ Block(c) * BlockBits + (c % BlockBits) = c
  BY FilterAssumption, DivMod, Zenon DEF Block, Bits
<1>2. Block(c) % RingBlocks \in Slots
  BY <1>1, FilterAssumption, DivMod, Zenon DEF Slots
<1>3. ASSUME NEW b \in Nat, NEW i \in Bits, b * BlockBits + i = c
      PROVE  b = Block(c) /\ i = c % BlockBits
  BY <1>3, FilterAssumption, DivUnique DEF Block, Bits
<1> QED BY <1>1, <1>2, <1>3

\* A counter that is not behind the window lies in a live block.
LEMMA InWindowIsLive ==
    ASSUME TypeOK, NEW c \in Nat, c > last \/ ~ BehindWindow(c)
    PROVE  Block(c) \in Live(Top(c))
<1>1. CASE c > last
  <2>1. Top(c) = c /\ Block(c) \in Nat
    BY <1>1, Coordinates DEF Top
  <2> QED BY <2>1, FilterAssumption DEF Live
<1>2. CASE c <= last
  <2>1. last \in Nat /\ last - c <= (RingBlocks - 1) * BlockBits
    BY <1>2, FilterAssumption DEF TypeOK, BehindWindow, windowSize
  <2> DEFINE p == Block(c)
             q == Block(last)
             r == RingBlocks
             n == BlockBits
             i == c % BlockBits
             j == last % BlockBits
  <2>2. /\ p \in Nat /\ q \in Nat /\ r \in Nat \ {0} /\ n \in Nat \ {0}
        /\ i \in 0 .. n - 1 /\ j \in 0 .. n - 1
        /\ c = p * n + i /\ last = q * n + j /\ p <= q
        /\ last - c <= (r - 1) * n
    BY <2>1, <1>2, Coordinates, FilterAssumption, DivMonotonic, Zenon DEF Bits, Block
  <2> HIDE DEF p, q, r, n, i, j
  <2>3. ASSUME q - p >= r PROVE FALSE
    <3>1. (q - p) * n >= r * n
      BY <2>2, <2>3, SMT
    <3>2. last - c = (q - p) * n + (j - i)
      BY <2>2, SMT
    <3>3. r * n = (r - 1) * n + n
      BY <2>2, SMT
    <3>4. (q - p) * n \in Int /\ r * n \in Int /\ (r - 1) * n \in Int
      BY <2>2, SMT
    <3> QED BY <3>1, <3>2, <3>3, <3>4, <2>2
  <2>4. p \in 0 .. q /\ q - p < r
    BY <2>2, <2>3
  <2> QED BY <2>4, <1>2, <2>1 DEF Live, Top, p, q, r
<1> QED BY <1>1, <1>2 DEF TypeOK

\* After the move and before the bit is set, the ring is already faithful
\* for the blocks that are live under the new top.
LEMMA MovedRingFaithful ==
    ASSUME IInv, NEW c \in Nat, c > last \/ ~ BehindWindow(c),
           NEW b \in Live(Top(c)), NEW i \in Bits
    PROVE  i \in MovedRing(c)[b % RingBlocks] <=> b * BlockBits + i \in seen
<1> USE FilterAssumption DEF IInv
<1>1. CASE c <= last
  <2>1. Top(c) = last /\ MovedRing(c) = ring
    BY <1>1 DEF Top, MovedRing, TypeOK
  <2> QED BY <2>1 DEF Live, RingFaithful, LiveBlocks
<1>2. CASE c > last
  <2> DEFINE cur == Block(last)
             idx == Block(c)
  <2>1. /\ cur \in Nat /\ idx \in Nat /\ cur <= idx /\ last \in Nat
        /\ b \in Nat /\ b <= idx /\ idx - b < RingBlocks
    <3>1. last \in Nat /\ Top(c) = c
      BY <1>2 DEF TypeOK, Top
    <3>2. cur \in Nat /\ idx \in Nat
      BY <3>1, Coordinates, Zenon
    <3>3. cur <= idx
      BY <3>1, <1>2, DivMonotonic DEF Block
    <3>4. b \in 0 .. idx /\ idx - b < RingBlocks
      BY <3>1 DEF Live
    <3> QED BY <3>1, <3>2, <3>3, <3>4
  <2>2. b % RingBlocks \in Slots
    BY <2>1, DivMod DEF Slots
  <2>3. MovedRing(c)[b % RingBlocks]
          = IF b % RingBlocks \in ClearedBlocks(c) THEN {} ELSE ring[b % RingBlocks]
    BY <1>2, <2>2 DEF MovedRing
  <2>4. CASE b <= cur
    <3>1. b \in LiveBlocks
      BY <2>1, <2>4 DEF LiveBlocks
    <3>2. b % RingBlocks \notin ClearedBlocks(c)
      <4>1. ASSUME NEW k \in cur + 1 .. idx
            PROVE  k % RingBlocks # b % RingBlocks
        <5>1. k \in Nat /\ b < k /\ k - b < RingBlocks
          BY <2>1, <2>4
        <5> QED BY <5>1, <2>1, ModDistinct
      <4>2. PICK d : d = IF idx - cur > RingBlocks THEN RingBlocks ELSE idx - cur
        BY Zenon
      <4>3. ClearedBlocks(c) = {k % RingBlocks : k \in cur + 1 .. cur + d}
        BY <4>2, Zenon DEF ClearedBlocks
      <4>4. \A k \in cur + 1 .. cur + d : k \in cur + 1 .. idx
        <5>1. d \in Nat /\ cur + d <= idx
          BY <2>1, <4>2
        <5> QED BY <2>1, <5>1
      <4> QED BY <4>1, <4>3, <4>4, Zenon
    <3> QED BY <2>3, <3>1, <3>2 DEF RingFaithful
  <2>5. CASE b > cur
    <3>1. b % RingBlocks \in ClearedBlocks(c)
      <4>1. CASE idx - cur <= RingBlocks
        <5>1. b \in cur + 1 .. cur + (idx - cur)
          BY <2>1, <2>5
        <5> QED BY <5>1, <4>1, <2>1 DEF ClearedBlocks
      <4>2. CASE idx - cur > RingBlocks
        <5>1. \E k \in cur + 1 .. cur + RingBlocks : k % RingBlocks = b % RingBlocks
          <6>1. b % RingBlocks \in 0 .. RingBlocks - 1
            BY <2>2 DEF Slots
          <6>2. \A a \in Nat : \A s \in 0 .. RingBlocks - 1 :
                   \E k \in a + 1 .. a + RingBlocks : k % RingBlocks = s
            BY ModCovers, Zenon
          <6>3. \A s \in 0 .. RingBlocks - 1 :
                   \E k \in cur + 1 .. cur + RingBlocks : k % RingBlocks = s
            BY <2>1, <6>2, Zenon
          <6> QED BY <6>1, <6>3, Zenon
        <5> QED BY <5>1, <4>2 DEF ClearedBlocks
      <4> QED BY <4>1, <4>2, <2>1
    <3>2. b * BlockBits + i \notin seen
      <4>1. SUFFICES ASSUME b * BlockBits + i \in seen PROVE FALSE
        OBVIOUS
      <4>2. b * BlockBits + i \in Nat /\ b * BlockBits + i <= last
        BY <4>1, Zenon DEF TypeOK, RingFaithful
      <4>3. Block(b * BlockBits + i) = b
        BY <4>2, <2>1, Coordinates, Zenon
      <4>4. b <= cur
        BY <4>2, <4>3, <2>1, DivMonotonic DEF Block
      <4> QED BY <4>4, <2>5, <2>1
    <3> QED BY <2>3, <3>1, <3>2
  <2> QED BY <2>4, <2>5, <2>1
<1> QED BY <1>1, <1>2 DEF TypeOK

\* What a call answers: TRUE exactly for a counter not accepted before.
LEMMA AnswerIsFreshness ==
    ASSUME IInv, NEW c \in Nat, c > last \/ ~ BehindWindow(c)
    PROVE  c % BlockBits \in MovedRing(c)[Block(c) % RingBlocks] <=> c \in seen
  BY Coordinates, InWindowIsLive, MovedRingFaithful DEF IInv

-----------------------------------------------------------------------------
(* The invariant *)

\* Setting the counter's bit keeps the ring faithful to the accepted set.
LEMMA TestAndSet ==
    ASSUME IInv, NEW c \in Counters, c < Limit, c > last \/ ~ BehindWindow(c),
           ValidateCounter(c)
    PROVE  IInv'
<1> USE FilterAssumption
<1> DEFINE slot == Block(c) % RingBlocks
           bit == c % BlockBits
           old == MovedRing(c)[slot]
<1>1. c \in Nat /\ last \in Nat
  BY DEF IInv, TypeOK
<1>2. /\ last' = Top(c)
      /\ ring' = [MovedRing(c) EXCEPT ![slot] = old \cup {bit}]
      /\ out' = [counter |-> c, ok |-> bit \notin old]
      /\ seen' = IF bit \notin old THEN seen \cup {c} ELSE seen
  BY <1>1 DEF ValidateCounter, Bit, Top
<1>3. /\ Block(c) \in Nat /\ bit \in Bits /\ slot \in Slots
      /\ \A b \in Nat, i \in Bits :
            b * BlockBits + i = c <=> b = Block(c) /\ i = bit
  BY <1>1, Coordinates, Zenon
<1>4. MovedRing(c) \in [Slots -> SUBSET Bits]
  BY DEF IInv, TypeOK, MovedRing
<1>5. bit \in old <=> c \in seen
  BY <1>1, AnswerIsFreshness
<1>6. seen' = seen \cup {c}
  BY <1>2, <1>5
<1>7. Top(c) \in Nat /\ c <= Top(c) /\ last <= Top(c)
  BY <1>1 DEF Top
<1>8. Block(c) \in Live(Top(c))
  BY <1>1, InWindowIsLive DEF IInv
<1>9. \A b \in Live(Top(c)), i \in Bits :
         i \in MovedRing(c)[b % RingBlocks] <=> b * BlockBits + i \in seen
  BY <1>1, MovedRingFaithful
<1>10. \A b \in Live(Top(c)) : b % RingBlocks = slot => b = Block(c)
  <2>1. SUFFICES ASSUME NEW b \in Live(Top(c)), b # Block(c)
                 PROVE  b % RingBlocks # Block(c) % RingBlocks
    OBVIOUS
  <2>2. /\ b \in Nat /\ Block(c) \in Nat
        /\ b - Block(c) < RingBlocks /\ Block(c) - b < RingBlocks
    <3>1. Block(Top(c)) \in Nat
      BY <1>7, Coordinates
    <3> QED BY <1>8, <3>1 DEF Live
  <2>3. CASE b < Block(c)
    BY <2>2, <2>3, ModDistinct
  <2>4. CASE Block(c) < b
    BY <2>2, <2>4, ModDistinct
  <2> QED BY <2>1, <2>2, <2>3, <2>4
<1>11. \A b \in Live(Top(c)) : b \in Nat /\ b % RingBlocks \in Slots
  <2>1. SUFFICES ASSUME NEW b \in Live(Top(c))
                 PROVE  b \in Nat /\ b % RingBlocks \in 0 .. RingBlocks - 1
    BY DEF Slots
  <2>2. b \in Nat
    BY DEF Live
  <2> QED BY <2>2, DivMod
<1>12. TypeOK'
  <2>1. ring' \in [Slots -> SUBSET Bits]
    <3>1. old \cup {bit} \in SUBSET Bits
      BY <1>3, <1>4
    <3> HIDE DEF slot, bit, old
    <3> QED BY <1>2, <1>3, <1>4, <3>1
  <2>2. seen' \subseteq Nat
    BY <1>1, <1>6 DEF IInv, TypeOK
  <2>3. out' \in [counter : Nat, ok : BOOLEAN]
    BY <1>1, <1>2
  <2> QED BY <1>2, <1>7, <2>1, <2>2, <2>3 DEF TypeOK
<1>13. RingFaithful'
  <2>1. ASSUME NEW x \in seen' PROVE x <= last'
    BY <1>1, <1>2, <1>6, <1>7 DEF IInv, TypeOK, RingFaithful
  <2>2. LiveBlocks' = Live(Top(c))
    BY <1>2 DEF LiveBlocks, Live, Block
  <2>3. ASSUME NEW b \in Live(Top(c)), NEW i \in Bits
        PROVE  i \in ring'[b % RingBlocks] <=> b * BlockBits + i \in seen'
    <3>1. CASE b = Block(c)
      <4>1. ring'[b % RingBlocks] = old \cup {bit}
        <5> HIDE DEF bit, old
        <5> QED BY <1>2, <1>3, <1>4, <3>1
      <4>2. i \in old <=> b * BlockBits + i \in seen
        BY <1>9, <3>1
      <4>3. i = bit <=> b * BlockBits + i = c
        BY <1>3, <3>1
      <4> HIDE DEF old, bit, slot
      <4> QED BY <1>6, <4>1, <4>2, <4>3
    <3>2. CASE b # Block(c)
      <4>1. ring'[b % RingBlocks] = MovedRing(c)[b % RingBlocks]
        BY <1>2, <1>3, <1>4, <1>10, <1>11, <3>2
      <4>2. b * BlockBits + i # c
        BY <1>3, <1>11, <3>2
      <4> QED BY <1>6, <1>9, <4>1, <4>2
    <3> QED BY <3>1, <3>2
  <2> QED BY <2>1, <2>2, <2>3 DEF RingFaithful
<1> QED BY <1>12, <1>13 DEF IInv

\* Reset, which clears only slot 0, leaves a faithful ring for last = 0.
LEMMA ResetInv ==
    ASSUME IInv, Reset
    PROVE  IInv'
<1> USE FilterAssumption
<1>1. 0 \in Slots /\ Bits \subseteq Nat
  BY DEF Slots, Bits
<1>2. last' = 0 /\ ring' = [ring EXCEPT ![0] = {}] /\ seen' = {} /\ out' = out
  BY DEF Reset
<1>3. TypeOK'
  BY <1>1, <1>2 DEF IInv, TypeOK
<1>4. Block(0) = 0 /\ 0 % RingBlocks = 0
  <2>1. /\ 0 = 0 * BlockBits + 0 /\ 0 \in 0 .. BlockBits - 1
        /\ 0 = 0 * RingBlocks + 0 /\ 0 \in 0 .. RingBlocks - 1
    OBVIOUS
  <2> QED BY <2>1, DivUnique DEF Block
<1>5. LiveBlocks' = {0}
  BY <1>2, <1>4 DEF LiveBlocks, Block
<1>6. ring'[0] = {}
  BY <1>1, <1>2 DEF IInv, TypeOK
<1>7. RingFaithful'
  BY <1>2, <1>4, <1>5, <1>6 DEF RingFaithful
<1> QED BY <1>3, <1>7 DEF IInv

\* The zero value of Filter is a faithful, empty ring.
LEMMA InitInv == Init => IInv
<1> USE FilterAssumption
<1>1. ASSUME Init PROVE TypeOK
  BY <1>1 DEF Init, TypeOK
<1>2. ASSUME Init PROVE RingFaithful
  <2>1. \A b \in LiveBlocks : b % RingBlocks \in Slots
    <3>1. SUFFICES ASSUME NEW b \in LiveBlocks
                   PROVE  b % RingBlocks \in 0 .. RingBlocks - 1
      BY DEF Slots
    <3>2. b \in Nat
      BY DEF LiveBlocks
    <3> QED BY <3>2, DivMod
  <2> QED BY <1>2, <2>1 DEF Init, RingFaithful
<1> QED BY <1>1, <1>2 DEF IInv

\* A refused counter leaves the filter as it was.
LEMMA RejectInv ==
    ASSUME IInv, NEW c \in Counters,
           c >= Limit \/ ~ (c > last \/ ~ BehindWindow(c)), ValidateCounter(c)
    PROVE  /\ IInv'
           /\ UNCHANGED <<last, ring, seen>>
           /\ out' = [counter |-> c, ok |-> FALSE]
<1>1. c \in Nat /\ last \in Nat /\ Limit \in Nat
  BY FilterAssumption DEF IInv, TypeOK
<1>2. UNCHANGED <<last, ring, seen>> /\ out' = [counter |-> c, ok |-> FALSE]
  BY <1>1 DEF ValidateCounter, Bit
<1>3. TypeOK'
  BY <1>1, <1>2 DEF IInv, TypeOK
<1>4. RingFaithful'
  BY <1>2 DEF IInv, RingFaithful, LiveBlocks, Block
<1> QED BY <1>2, <1>3, <1>4 DEF IInv

\* Every call of Reset and ValidateCounter keeps the ring faithful.
LEMMA NextInv == IInv /\ [Next]_vars => IInv'
<1> SUFFICES ASSUME IInv, [Next]_vars PROVE IInv'
  OBVIOUS
<1>1. CASE Reset
  BY <1>1, ResetInv
<1>2. ASSUME NEW c \in Counters, ValidateCounter(c) PROVE IInv'
  <2>1. c \in Nat /\ Limit \in Nat
    BY FilterAssumption
  <2>2. CASE c < Limit /\ (c > last \/ ~ BehindWindow(c))
    BY <1>2, <2>2, TestAndSet
  <2>3. CASE c >= Limit \/ ~ (c > last \/ ~ BehindWindow(c))
    BY <1>2, <2>3, RejectInv
  <2> QED BY <2>1, <2>2, <2>3
<1>3. CASE UNCHANGED vars
  BY <1>3 DEF vars, IInv, TypeOK, RingFaithful, LiveBlocks, Block
<1> QED BY <1>1, <1>2, <1>3 DEF Next

\* In every reachable state the filter has its type and the ring of
\* replay.Filter records exactly the accepted counters of its live blocks.
THEOREM FilterInvariant == Spec => []RingFaithful
<1>1. IInv => RingFaithful
  BY DEF IInv
<1> QED BY <1>1, InitInv, NextInv, PTL DEF Spec

\* The type invariant of replay.Filter.
THEOREM FilterType == Spec => []TypeOK
<1>1. IInv => TypeOK
  BY DEF IInv
<1> QED BY <1>1, InitInv, NextInv, PTL DEF Spec

\* replay.Filter implements the abstract window: ValidateCounter accepts a
\* counter exactly when it is below the limit, at most windowSize behind the
\* highest, and was not accepted since Reset.
THEOREM FilterImplementsWindow == Spec => ImplementsWindow
<1> USE FilterAssumption
<1>1. Init => Window!AbsInit
  BY DEF Init, Window!AbsInit
<1>2. ASSUME IInv, [Next]_vars PROVE [Window!AbsNext]_(Window!absVars)
  <2>1. CASE Reset
    BY <2>1 DEF Reset, Window!AbsNext, Window!AbsReset
  <2>2. ASSUME NEW c \in Counters, ValidateCounter(c)
        PROVE  Window!Accept(c) \/ Window!Reject(c)
    <3>1. /\ c \in Nat /\ last \in Nat /\ Limit \in Nat /\ windowSize \in Int
          /\ windowSize >= 0
      <4>1. (RingBlocks - 1) * BlockBits \in Nat
        BY SMT
      <4> QED BY <1>2, <4>1 DEF IInv, TypeOK, windowSize
    <3>2. CASE c < Limit /\ (c > last \/ ~ BehindWindow(c))
      <4> DEFINE bit == c % BlockBits
                 old == MovedRing(c)[Block(c) % RingBlocks]
      <4>1. /\ last' = IF c > last THEN c ELSE last
            /\ out' = [counter |-> c, ok |-> bit \notin old]
            /\ seen' = IF bit \notin old THEN seen \cup {c} ELSE seen
        BY <2>2, <3>1, <3>2 DEF ValidateCounter, Bit
      <4>2. bit \in old <=> c \in seen
        BY <1>2, <3>1, <3>2, AnswerIsFreshness
      <4>3. last - c <= windowSize
        BY <3>1, <3>2 DEF BehindWindow
      <4>4. CASE c \notin seen
        BY <4>1, <4>2, <4>3, <4>4, <3>2, Zenon DEF Window!Accept, Window!Fresh
      <4>5. CASE c \in seen
        <5>1. c <= last
          BY <1>2, <4>5, Zenon DEF IInv, RingFaithful
        <5> HIDE DEF bit, old
        <5>2. last' = last
          BY <3>1, <4>1, <5>1
        <5>3. (bit \notin old) = FALSE
          BY <4>2, <4>5
        <5>4. seen' = seen /\ out' = [counter |-> c, ok |-> FALSE]
          BY <4>1, <5>3, Zenon
        <5> QED BY <4>5, <5>2, <5>4 DEF Window!Reject, Window!Fresh
      <4> QED BY <4>4, <4>5
    <3>3. CASE c >= Limit \/ ~ (c > last \/ ~ BehindWindow(c))
      <4>1. UNCHANGED <<last, seen>> /\ out' = [counter |-> c, ok |-> FALSE]
        BY <1>2, <2>2, <3>3, RejectInv
      <4>2. ~ Window!Fresh(c)
        BY <3>1, <3>3 DEF Window!Fresh, BehindWindow
      <4> QED BY <4>1, <4>2 DEF Window!Reject
    <3> QED BY <3>1, <3>2, <3>3
  <2>3. CASE UNCHANGED vars
    BY <2>3 DEF vars, Window!absVars
  <2> QED BY <1>2, <2>1, <2>2, <2>3 DEF Next, Window!AbsNext
<1> QED BY <1>1, <1>2, InitInv, NextInv, PTL
        DEF Spec, ImplementsWindow, Window!AbsSpec
=============================================================================
