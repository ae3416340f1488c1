-------------------------- MODULE ReassemblyProofs --------------------------
(***************************************************************************)
(* Proofs about Reassembly, for every code (K, N), every size of the ring, *)
(* and frames that are lost, repeated or late in any way:                  *)
(*  - what is handed on was heard in this session or is recovered from     *)
(*    this session's fragments (Genuine);                                  *)
(*  - nothing that is there of a block is withheld when the block leaves   *)
(*    the ring (NothingWithheld);                                          *)
(*  - packets are handed on in order and once (InOrder).                   *)
(*                                                                         *)
(* The invariant speaks of the unfinished blocks by their place behind the *)
(* front (At), so that only the lemmas on the ring have to do with its     *)
(* wrapping around: a step drops the front block, opens one behind the     *)
(* others, or adds a fragment to one.                                      *)
(***************************************************************************)
EXTENDS Reassembly, FiniteSetTheorems, WellFoundedInduction, TLAPS

Places == 0..(alloc - 1)
At(i) == ring[SlotAt(i)]
HeardOf(b) == {f \in Fragment : <<b, f>> \in heard}

\* The blocks in the ring lie in the order of their numbers, up to the last known one.
Ordered ==
    /\ \A i, j \in Places : i < j => At(i).block < At(j).block
    /\ alloc > 0 => At(alloc - 1).block = last

\* A block in the ring holds what was heard of it; only the front block has handed
\* something on, from its beginning; one that is complete is about to leave.
Incomplete(m, b, t) ==
    \/ Cardinality(m) < K
    \/ Cardinality(m) = K /\ t # Idle /\ t[1] = b /\ t[2] \in m

BlockOK(i) ==
    /\ At(i).block \in Block /\ At(i).block <= last
    /\ At(i).map = HeardOf(At(i).block)
    /\ i > 0 => At(i).next = 0
    /\ \A f \in Packet :
          /\ out[<<At(i).block, f>>] = IF f < At(i).next THEN 1 ELSE 0
          /\ f < At(i).next => f \in At(i).map
    /\ Incomplete(At(i).map, At(i).block, todo)

\* A block that is not in the ring has handed on all that there is of it, before those
\* that are.
PastOK(b) ==
    \A f \in Packet :
        /\ out[<<b, f>>] = IF <<b, f>> \in heard \/ Decodable(b) THEN 1 ELSE 0
        /\ out[<<b, f>>] > 0 => \A i \in Places : b < At(i).block

IInv ==
    /\ TypeOK
    /\ Ordered
    /\ \A i \in Places : BlockOK(i)
    /\ \A m \in heard : m[1] <= last
    /\ \A b \in Block : ~InRing(b) => PastOK(b)

-----------------------------------------------------------------------------
(* Numbers and sets *)

\* A set of numbers that is not empty has a least one.
LEMMA NatWellOrdered ==
    ASSUME NEW S \in SUBSET Nat, S # {}
    PROVE  \E m \in S : \A x \in S : m <= x
<1>1. IsWellFoundedOn({x \in Nat \X Nat : x[1] < x[2]}, Nat)
  BY NatLessThanWellFounded DEF OpToRel
<1>2. PICK m \in S : \A y \in S : ~(<<y, m>> \in {x \in Nat \X Nat : x[1] < x[2]})
  BY <1>1, WFMin
<1>3. ASSUME NEW y \in S PROVE m <= y
  <2>1. m \in Nat /\ y \in Nat
    OBVIOUS
  <2>2. <<y, m>> \in Nat \X Nat /\ ~(<<y, m>>[1] < <<y, m>>[2])
    BY <1>2, <2>1
  <2>3. QED
    BY <2>1, <2>2
<1>4. QED
  BY <1>3

\* A set of packets without a gap from a on is an interval: what Run adds to next.
LEMMA NoGap ==
    ASSUME NEW a \in 0..K, NEW R \in SUBSET Packet,
           \A f \in R : a <= f /\ (\A g \in a..f : g \in R)
    PROVE  /\ R = a..(a + Cardinality(R) - 1)
           /\ Cardinality(R) \in Nat /\ a + Cardinality(R) \in 0..K
<1> USE FecAssumption DEF Packet
<1> DEFINE T == (a..K) \ R
<1>1. T \in SUBSET Nat /\ T # {}
  <2>1. K \in T
    OBVIOUS
  <2>2. QED
    BY <2>1
<1> HIDE DEF T
<1>2. PICK m \in T : \A x \in T : m <= x
  BY <1>1, NatWellOrdered
<1>3. m \in a..K /\ m \notin R
  BY DEF T
<1>4. R = a..(m - 1)
  <2>1. ASSUME NEW f \in R PROVE f \in a..(m - 1)
    <3>1. a <= f /\ f \in Nat /\ (m \in a..f => m \in R)
      OBVIOUS
    <3>2. QED
      BY <1>3, <3>1
  <2>2. ASSUME NEW f \in a..(m - 1) PROVE f \in R
    BY <1>2, <1>3 DEF T
  <2>3. QED
    BY <2>1, <2>2
<1>5. Cardinality(R) = m - a
  <2>1. a \in Int /\ m \in Int /\ m - 1 \in Int /\ a <= m
    BY <1>3
  <2>2. Cardinality(a..(m - 1)) = IF a > m - 1 THEN 0 ELSE (m - 1) - a + 1
    BY <2>1, FS_Interval
  <2>3. QED
    BY <1>4, <2>1, <2>2
<1>6. QED
  BY <1>3, <1>4, <1>5

\* The fragments of a block are finitely many.
LEMMA FragmentsFinite ==
    ASSUME NEW m \in SUBSET Fragment
    PROVE  IsFiniteSet(m) /\ Cardinality(m) \in Nat
<1>1. IsFiniteSet(Fragment)
  BY FecAssumption, FS_Interval DEF Fragment
<1>2. IsFiniteSet(m)
  BY <1>1, FS_Subset
<1>3. QED
  BY <1>2, FS_CardinalityType

\* The remainder of a number that is less than twice the divisor
LEMMA Remainder ==
    ASSUME NEW n \in Nat \ {0}, NEW a \in 0..(2 * n - 1)
    PROVE  a % n = IF a < n THEN a ELSE a - n
  OBVIOUS

-----------------------------------------------------------------------------
(* The ring *)

\* The place of a slot, without a remainder
LEMMA Wrap ==
    ASSUME NEW f \in Slot, NEW i \in 0..Ring
    PROVE  (f + i) % Ring = IF f + i < Ring THEN f + i ELSE f + i - Ring
<1> DEFINE a == f + i
<1>1. Ring \in Nat \ {0} /\ a \in 0..(2 * Ring - 1)
  BY FecAssumption DEF Slot
<1> HIDE DEF a
<1>2. a % Ring = IF a < Ring THEN a ELSE a - Ring
  BY <1>1, Remainder
<1>3. a = f + i
  BY DEF a
<1>4. QED
  BY <1>2, <1>3, FecAssumption DEF Slot

\* The slot of a place, without a remainder
LEMMA SlotAtIs ==
    ASSUME TypeOK, NEW i \in 0..Ring
    PROVE  SlotAt(i) = (IF front + i < Ring THEN front + i ELSE front + i - Ring)
           /\ SlotAt(i) \in Slot
<1>1. SlotAt(i) = IF front + i < Ring THEN front + i ELSE front + i - Ring
  BY Wrap DEF SlotAt, TypeOK
<1>2. QED
  BY <1>1, FecAssumption DEF TypeOK, Slot

\* Different places are different slots.
LEMMA SlotsDiffer ==
    ASSUME TypeOK, NEW i \in 0..(Ring - 1), NEW j \in 0..(Ring - 1), i # j
    PROVE  SlotAt(i) # SlotAt(j)
<1> USE FecAssumption
<1>1. i \in 0..Ring /\ j \in 0..Ring /\ front \in 0..(Ring - 1)
  BY DEF TypeOK, Slot
<1>2. /\ SlotAt(i) = IF front + i < Ring THEN front + i ELSE front + i - Ring
      /\ SlotAt(j) = IF front + j < Ring THEN front + j ELSE front + j - Ring
  BY <1>1, SlotAtIs
<1>3. QED
  BY <1>1, <1>2

\* The places are slots of the ring, and the first one is the front.
LEMMA PlacesAre ==
    ASSUME TypeOK
    PROVE  /\ \A i \in Places : i \in 0..(Ring - 1) /\ SlotAt(i) \in Slot
           /\ SlotAt(0) = front
           /\ \A i \in Places : At(i) \in [block : Int, next : 0..K, map : SUBSET Fragment]
<1>1. \A i \in Places : i \in 0..(Ring - 1) /\ SlotAt(i) \in Slot
  BY SlotAtIs, FecAssumption DEF TypeOK, Places
<1>2. SlotAt(0) = front
  BY SlotAtIs, FecAssumption DEF TypeOK, Slot
<1>3. QED
  BY <1>1, <1>2 DEF At, TypeOK

\* When the front moves on, every place moves by one; the old front comes last.
LEMMA FrontMoves ==
    ASSUME TypeOK, front' = (front + 1) % Ring
    PROVE  /\ front' \in Slot
           /\ \A i \in 0..(Ring - 2) : SlotAt(i)' = SlotAt(i + 1)
           /\ SlotAt(Ring - 1)' = front
<1> USE FecAssumption
<1>1. front \in 0..(Ring - 1) /\ 1 \in 0..Ring
  BY DEF TypeOK, Slot
<1>2. front' = IF front + 1 < Ring THEN front + 1 ELSE 0
  <2>1. (front + 1) % Ring = IF front + 1 < Ring THEN front + 1 ELSE front + 1 - Ring
    BY <1>1, Wrap DEF Slot
  <2>2. QED
    BY <1>1, <2>1
<1>3. front' \in Slot
  BY <1>1, <1>2 DEF Slot
<1>4. \A i \in 0..Ring :
         SlotAt(i)' = IF front' + i < Ring THEN front' + i ELSE front' + i - Ring
  BY <1>3, Wrap DEF SlotAt
<1>5. \A i \in 0..(Ring - 2) : SlotAt(i)' = SlotAt(i + 1)
  <2>1. \A i \in 0..(Ring - 2) : i \in 0..Ring /\ i + 1 \in 0..Ring
    OBVIOUS
  <2>2. QED
    BY <1>1, <1>2, <1>4, <2>1, SlotAtIs
<1>6. SlotAt(Ring - 1)' = front
  <2>1. Ring - 1 \in 0..Ring
    OBVIOUS
  <2>2. QED
    BY <1>1, <1>2, <1>4, <2>1
<1>7. QED
  BY <1>3, <1>5, <1>6

\* A block that is in the ring has one place there.
LEMMA SlotOfIs ==
    ASSUME IInv, NEW b, InRing(b)
    PROVE  \E k \in Places : At(k).block = b /\ SlotOf(b) = SlotAt(k)
                            /\ (\A i \in Places : At(i).block = b => i = k)
<1>1. PICK k \in Places : At(k).block = b
  BY DEF InRing, Places, At
<1>2. SlotOf(b) \in {SlotAt(i) : i \in Places} /\ ring[SlotOf(b)].block = b
  BY <1>1 DEF SlotOf, Places, At
<1>3. PICK j \in Places : SlotOf(b) = SlotAt(j)
  BY <1>2
<1>4. At(j).block = b
  BY <1>2, <1>3 DEF At
<1>5. \A i \in Places : At(i).block = b => i = j
  <2>1. \A i, l \in Places : i \in Int /\ (i < l => At(i).block < At(l).block)
    BY FecAssumption DEF IInv, Ordered, Places, TypeOK
  <2>2. \A i \in Places : At(i).block \in Int
    BY PlacesAre DEF IInv
  <2>3. ASSUME NEW i \in Places, At(i).block = b
        PROVE  i = j
    <3>1. ~(i < j) /\ ~(j < i)
      BY <1>4, <2>1, <2>2, <2>3
    <3>2. QED
      BY <2>1, <3>1
  <2>4. QED
    BY <2>3
<1>6. QED
  BY <1>3, <1>4, <1>5

-----------------------------------------------------------------------------
(* What was heard and handed on *)

\* What makes a block decodable was heard, so that it is not later than the last one.
LEMMA DecodableIsKnown ==
    ASSUME IInv, NEW b \in Block, Decodable(b)
    PROVE  b <= last
<1>1. CASE HeardOf(b) = {}
  <2>1. Decodable(b) <=> Cardinality(HeardOf(b)) >= K
    BY DEF Decodable, HeardOf
  <2>2. QED
    BY <1>1, <2>1, FS_EmptySet, FecAssumption
<1>2. CASE HeardOf(b) # {}
  BY <1>2 DEF HeardOf, IInv
<1>3. QED
  BY <1>1, <1>2

\* The counts stay counts.
LEMMA OutIs ==
    ASSUME IInv, NEW b, NEW P, HandOn(b, P)
    PROVE  out' \in [Block \X Packet -> Nat]
  BY DEF IInv, TypeOK, HandOn

-----------------------------------------------------------------------------
(* The steps of the receiver *)

\* The front block leaves, having handed on all that there is of it (d = 1), or not; a
\* block nb opens behind the others (a = 1), or not.
Shifts(d, a, nb) ==
    /\ alloc' = alloc - d + a
    /\ \A i \in 0..(alloc - d - 1) : At(i)' = At(i + d)
    /\ a = 1 => nb > last /\ last' = nb /\ (\A i : i = alloc - d => At(i)' = Empty(nb))
    /\ a = 0 => last' = last
    /\ UNCHANGED heard
    /\ \A b \in Block, f \in Packet :
          out'[<<b, f>>] = IF d = 1 /\ b = At(0).block
                           THEN IF <<b, f>> \in heard \/ Decodable(b) THEN 1 ELSE 0
                           ELSE out[<<b, f>>]

\* What leaves in front and comes in behind keeps the invariant.
LEMMA ShiftStep ==
    ASSUME IInv, TypeOK', NEW d \in {0, 1}, NEW a \in {0, 1}, NEW nb \in Block,
           d <= alloc, Shifts(d, a, nb),
           \A i \in 0..(alloc - d - 1) :
               Incomplete(At(i + d).map, At(i + d).block, todo')
    PROVE  IInv'
<1> USE FecAssumption
<1> DEFINE n == alloc - d
<1>1. /\ alloc \in Nat /\ n \in Nat /\ alloc' = n + a /\ last \in Int /\ alloc' \in Nat
      /\ n \in Int /\ alloc = n + d
  BY DEF IInv, TypeOK, Shifts, Block, NoBlock
<1>2. Places = 0..(alloc - 1) /\ Places' = 0..(n + a - 1)
  BY <1>1 DEF Places
<1>3. \A i \in 0..(n - 1) : i \in Places' /\ i + d \in Places /\ At(i)' = At(i + d)
  BY <1>1, <1>2 DEF Shifts
<1>4. \A i \in Places' : i \in 0..(n - 1) \/ (a = 1 /\ i = n /\ At(i)' = Empty(nb) /\ nb > last)
  BY <1>1, <1>2 DEF Shifts
<1>5. \A i \in Places : BlockOK(i) /\ At(i).block \in Block /\ At(i).block <= last
  BY DEF IInv, BlockOK
<1>6. \A i, j \in Places : i < j => At(i).block < At(j).block
  BY DEF IInv, Ordered
<1>7. last <= last' /\ last' \in Int
  BY <1>1 DEF Shifts, Block
<1>8. UNCHANGED heard /\ (\A b : HeardOf(b)' = HeardOf(b)) /\ (\A b : Decodable(b)' = Decodable(b))
  BY DEF Shifts, HeardOf, Decodable
<1>9. Ordered'
  <2>1. ASSUME NEW i \in Places', NEW j \in Places', i < j
        PROVE  At(i)'.block < At(j)'.block
    <3>1. i \in 0..(n - 1)
      BY <1>1, <1>4, <1>2, <2>1
    <3>2. CASE j \in 0..(n - 1)
      BY <1>1, <1>3, <1>6, <2>1, <3>1, <3>2
    <3>3. CASE j \notin 0..(n - 1)
      <4>1. At(j)'.block = nb /\ nb > last
        BY <1>4, <3>3 DEF Empty
      <4>2. At(i)'.block \in Block /\ At(i)'.block <= last
        BY <1>3, <1>5, <3>1
      <4>3. QED
        BY <1>1, <4>1, <4>2 DEF Block
    <3>4. QED
      BY <3>2, <3>3
  <2>2. ASSUME NEW i, i = alloc' - 1, alloc' > 0
        PROVE  At(i)'.block = last'
    <3>1. CASE a = 1
      <4>1. At(i)' = Empty(nb) /\ last' = nb
        BY <1>1, <2>2, <3>1 DEF Shifts
      <4>2. QED
        BY <4>1 DEF Empty
    <3>2. CASE a = 0
      <4>1. i \in 0..(n - 1) /\ i + d = alloc - 1 /\ last' = last /\ alloc > 0
        BY <1>1, <2>2, <3>2 DEF Shifts
      <4>2. At(i)' = At(alloc - 1)
        BY <1>3, <4>1
      <4>3. QED
        BY <4>1, <4>2 DEF IInv, Ordered
    <3>3. QED
      BY <3>1, <3>2
  <2>3. (alloc > 0 => At(alloc - 1).block = last)'
    BY <2>2
  <2>4. QED
    BY <2>1, <2>3 DEF Ordered
<1>10. ASSUME NEW b \in Block, ~InRing(b)
       PROVE  PastOK(b)
  BY <1>10 DEF IInv
<1>11. \A b : InRing(b) <=> \E i \in Places : At(i).block = b
  BY DEF InRing, Places, At
<1>12. \A b : InRing(b)' <=> \E i \in Places' : At(i)'.block = b
  BY DEF InRing, Places, At
<1>13. ASSUME NEW i \in Places'
       PROVE  BlockOK(i)'
  <2>1. CASE i \in 0..(n - 1)
    <3> DEFINE k == i + d
    <3>1. k \in Places /\ At(i)' = At(k) /\ BlockOK(k) /\ (i > 0 => k > 0)
      BY <1>1, <1>3, <1>5, <2>1
    <3>2. d = 1 => At(k).block # At(0).block
      <4>1. d = 1 => 0 \in Places /\ k \in Places /\ 0 < k
        BY <1>1, <1>2, <2>1, <3>1
      <4>2. d = 1 => At(0).block < At(k).block
        BY <1>6, <4>1
      <4>3. QED
        BY <1>5, <3>1, <4>1, <4>2 DEF Block
    <3>3. \A f \in Packet : out'[<<At(k).block, f>>] = out[<<At(k).block, f>>]
      BY <3>1, <3>2, <1>5 DEF Shifts
    <3>4. Incomplete(At(k).map, At(k).block, todo')
      BY <2>1
    <3>5. At(k).block <= last'
      BY <1>1, <1>5, <1>7, <3>1 DEF Block
    <3> HIDE DEF k
    <3>6. QED
      BY <1>8, <3>1, <3>3, <3>4, <3>5 DEF BlockOK
  <2>2. CASE i \notin 0..(n - 1)
    <3>1. a = 1 /\ i = n /\ At(i)' = [block |-> nb, next |-> 0, map |-> {}] /\ nb > last /\ last' = nb
      BY <1>4, <2>2 DEF Empty, Shifts
    <3>2. ~InRing(nb) /\ (\A j \in Places : At(j).block # nb)
      BY <1>1, <1>5, <1>11, <3>1 DEF Block
    <3>3. HeardOf(nb) = {}
      BY <3>1, <1>1 DEF HeardOf, IInv, TypeOK, Block
    <3>4. ~Decodable(nb)
      BY <1>1, <3>1, DecodableIsKnown DEF Block
    <3>5. \A f \in Packet : <<nb, f>> \notin heard
      BY <1>1, <3>1 DEF IInv, Block
    <3>6. \A f \in Packet : out'[<<nb, f>>] = 0
      <4>1. d = 1 => 0 \in Places
        BY <1>1, <1>2
      <4>2. QED
        BY <1>10, <3>2, <3>4, <3>5, <4>1 DEF Shifts, PastOK
    <3>7. Incomplete({}, nb, todo')
      BY FS_EmptySet DEF Incomplete
    <3>8. nb <= nb
      BY DEF Block
    <3>9. \A f \in Packet : ~(f < 0)
      BY DEF Packet
    <3>10. QED
      BY <1>8, <3>1, <3>3, <3>6, <3>7, <3>8, <3>9 DEF BlockOK
  <2>3. QED
    BY <2>1, <2>2
<1>14. \A m \in heard' : m[1] <= last'
  BY <1>1, <1>7, <1>8 DEF IInv, TypeOK, Block
<1>15. ASSUME NEW b \in Block, ~InRing(b)'
       PROVE  PastOK(b)'
  <2>1. CASE d = 1 /\ b = At(0).block
    <3>1. \A f \in Packet : out'[<<b, f>>] = IF <<b, f>> \in heard \/ Decodable(b) THEN 1 ELSE 0
      BY <2>1 DEF Shifts
    <3>2. ASSUME NEW i \in Places'
          PROVE  b < At(i)'.block
      <4>1. 0 \in Places
        BY <1>1, <1>2, <2>1
      <4>2. CASE i \in 0..(n - 1)
        BY <1>1, <1>3, <1>6, <2>1, <4>1, <4>2
      <4>3. CASE i \notin 0..(n - 1)
        <5>1. At(i)'.block = nb /\ nb > last /\ b <= last
          BY <1>4, <1>5, <2>1, <4>1, <4>3 DEF Empty
        <5>2. QED
          BY <1>1, <5>1 DEF Block
      <4>4. QED
        BY <4>2, <4>3
    <3>3. QED
      BY <1>8, <3>1, <3>2 DEF PastOK
  <2>2. CASE ~(d = 1 /\ b = At(0).block)
    <3>1. ~InRing(b)
      <4>1. ASSUME NEW i \in Places, At(i).block = b
            PROVE  FALSE
        <5>1. CASE i - d \in 0..(n - 1)
          <6>1. At(i - d)' = At(i) /\ i - d \in Places'
            <7>1. i - d + d = i
              BY <1>1, <1>2
            <7>2. QED
              BY <1>3, <5>1, <7>1
          <6>2. QED
            BY <1>12, <1>15, <4>1, <6>1
        <5>2. CASE i - d \notin 0..(n - 1)
          <6>1. d = 1 /\ i = 0
            BY <1>1, <1>2, <5>2
          <6>2. QED
            BY <2>2, <4>1, <6>1
        <5>3. QED
          BY <5>1, <5>2
      <4>2. QED
        BY <1>11, <4>1
    <3>2. PastOK(b)
      BY <1>10, <3>1
    <3>3. \A f \in Packet : out'[<<b, f>>] = out[<<b, f>>]
      BY <2>2 DEF Shifts
    <3>4. ASSUME NEW f \in Packet, out[<<b, f>>] > 0, NEW i \in Places'
          PROVE  b < At(i)'.block
      <4>1. CASE i \in 0..(n - 1)
        BY <1>3, <3>2, <3>4, <4>1 DEF PastOK
      <4>2. CASE i \notin 0..(n - 1)
        <5>1. At(i)'.block = nb /\ nb > last
          BY <1>4, <4>2 DEF Empty
        <5>2. <<b, f>> \in heard \/ Decodable(b)
          BY <3>2, <3>4 DEF PastOK
        <5>3. b <= last
          BY <5>2, DecodableIsKnown DEF IInv
        <5>4. QED
          BY <1>1, <5>1, <5>3 DEF Block
      <4>3. QED
        BY <4>1, <4>2
    <3>5. QED
      BY <1>8, <3>2, <3>3, <3>4 DEF PastOK
  <2>3. QED
    BY <2>1, <2>2
<1>16. QED
  BY <1>9, <1>13, <1>14, <1>15 DEF IInv

\* Which block the loop opens next
LEMMA NextBlockIs ==
    ASSUME TypeOK, todo # Idle, todo[1] > last
    PROVE  NextBlock \in Block /\ NextBlock > last
<1>1. todo[1] \in Block /\ last \in Block \union {-1} /\ Ring \in Nat \ {0} /\ MaxBlocks \in Nat
  BY FecAssumption DEF TypeOK, NoBlock
<1>2. CASE last = NoBlock
  BY <1>1, <1>2 DEF NextBlock, Block, NoBlock
<1>3. CASE last # NoBlock /\ last < todo[1] - Ring
  BY <1>1, <1>3 DEF NextBlock, Block, NoBlock
<1>4. CASE last # NoBlock /\ ~(last < todo[1] - Ring)
  BY <1>1, <1>4 DEF NextBlock, Block, NoBlock
<1>5. QED
  BY <1>2, <1>3, <1>4

\* A block that was just opened is one of the ring.
LEMMA EmptyIs ==
    ASSUME NEW b \in Block
    PROVE  Empty(b) \in [block : Int, next : 0..K, map : SUBSET Fragment]
  BY FecAssumption DEF Empty, Block

\* A block is opened in a free slot.
LEMMA PushFreeStep ==
    ASSUME IInv, PushFree
    PROVE  IInv'
<1> USE FecAssumption
<1>1. /\ todo # Idle /\ todo[1] > last /\ alloc < Ring /\ alloc' = alloc + 1
      /\ ring' = [ring EXCEPT ![SlotAt(alloc)] = Empty(NextBlock)] /\ last' = NextBlock
      /\ UNCHANGED <<txVars, session, retired, front, todo, heard, out>>
  BY DEF PushFree
<1>2. TypeOK /\ alloc \in 0..Ring /\ alloc \in 0..(Ring - 1)
  BY <1>1 DEF IInv, TypeOK
<1>3. NextBlock \in Block /\ NextBlock > last
  BY <1>1, <1>2, NextBlockIs
<1>4. SlotAt(alloc) \in Slot
  BY <1>2, SlotAtIs
<1>5. TypeOK'
  <2>1. Empty(NextBlock) \in [block : Int, next : 0..K, map : SUBSET Fragment]
    BY <1>3, EmptyIs
  <2>2. ring' \in [Slot -> [block : Int, next : 0..K, map : SUBSET Fragment]]
    BY <1>1, <1>2, <1>4, <2>1 DEF TypeOK
  <2>3. alloc' \in 0..Ring
    BY <1>1, <1>2
  <2>4. last' \in Block \union {NoBlock}
    BY <1>1, <1>3
  <2>5. QED
    BY <1>1, <1>2, <2>2, <2>3, <2>4 DEF TypeOK, txVars
<1>6. \A i : SlotAt(i)' = SlotAt(i)
  BY <1>1 DEF SlotAt
<1>7. \A i \in 0..(alloc - 1) : At(i)' = At(i)
  <2>1. \A i \in 0..(alloc - 1) : SlotAt(i) # SlotAt(alloc)
    BY <1>2, SlotsDiffer
  <2>2. QED
    BY <1>1, <1>2, <1>6, <2>1 DEF At, TypeOK
<1>8. \A i : i = alloc => At(i)' = Empty(NextBlock)
  BY <1>1, <1>2, <1>4, <1>6 DEF At, TypeOK
<1>9. Shifts(0, 1, NextBlock)
  BY <1>1, <1>2, <1>3, <1>7, <1>8 DEF Shifts
<1>10. \A i \in 0..(alloc - 1) : Incomplete(At(i).map, At(i).block, todo')
  BY <1>1 DEF IInv, BlockOK, Places
<1>11. \A i \in 0..(alloc - 0 - 1) : Incomplete(At(i + 0).map, At(i + 0).block, todo')
  BY <1>2, <1>10
<1>12. QED
  BY <1>2, <1>3, <1>5, <1>9, <1>11, ShiftStep

\* The front block leaves without being complete: Rest is what there is of it.
LEMMA RestIsAll ==
    ASSUME IInv, alloc > 0, Cardinality(ring[front].map) < K, HandOn(ring[front].block, Rest)
    PROVE  \A b \in Block, f \in Packet :
               out'[<<b, f>>] = IF b = At(0).block
                                THEN IF <<b, f>> \in heard \/ Decodable(b) THEN 1 ELSE 0
                                ELSE out[<<b, f>>]
<1> USE FecAssumption
<1>1. TypeOK /\ 0 \in Places /\ At(0) = ring[front]
  BY PlacesAre DEF IInv, At, Places, TypeOK
<1>2. BlockOK(0) /\ At(0) \in [block : Int, next : 0..K, map : SUBSET Fragment]
  BY <1>1, PlacesAre DEF IInv
<1>3. Rest = {f \in At(0).map : At(0).next <= f /\ f < K}
  BY <1>1 DEF Rest
<1>4. \A c \in Block, f \in Packet :
         out'[<<c, f>>] = IF c = At(0).block /\ f \in Rest THEN out[<<c, f>>] + 1 ELSE out[<<c, f>>]
  <2>1. HandOn(At(0).block, Rest)
    BY <1>1
  <2> DEFINE b == At(0).block
  <2>2. out' = [p \in Block \X Packet |->
                  IF p[1] = b /\ p[2] \in Rest THEN out[p] + 1 ELSE out[p]]
    BY <1>1, <2>1 DEF HandOn, TypeOK
  <2> HIDE DEF b
  <2>3. \A c \in Block, f \in Packet :
           out'[<<c, f>>] = IF c = b /\ f \in Rest THEN out[<<c, f>>] + 1 ELSE out[<<c, f>>]
    BY <2>2
  <2>4. QED
    BY <2>3 DEF b
<1>5. ~Decodable(At(0).block)
  <2>1. Decodable(At(0).block) <=> Cardinality(HeardOf(At(0).block)) >= K
    BY DEF Decodable, HeardOf
  <2>2. Cardinality(At(0).map) \in Nat
    BY <1>2, FragmentsFinite
  <2>3. QED
    BY <1>1, <1>2, <2>1, <2>2 DEF BlockOK
<1>6. ASSUME NEW f \in Packet
      PROVE  out'[<<At(0).block, f>>] = IF <<At(0).block, f>> \in heard THEN 1 ELSE 0
  <2>1. f \in Nat /\ f < K /\ f \in Fragment /\ At(0).next \in Nat
    BY <1>2 DEF Packet, Fragment
  <2>2. f \in At(0).map <=> <<At(0).block, f>> \in heard
    BY <1>2, <2>1 DEF BlockOK, HeardOf
  <2>3. /\ out[<<At(0).block, f>>] = IF f < At(0).next THEN 1 ELSE 0
        /\ f < At(0).next => f \in At(0).map
        /\ At(0).block \in Block
    BY <1>2 DEF BlockOK
  <2>4. f \in Rest <=> f \in At(0).map /\ ~(f < At(0).next)
    BY <1>3, <2>1
  <2>5. QED
    BY <1>4, <2>2, <2>3, <2>4
<1>7. QED
  BY <1>4, <1>5, <1>6

\* A block is opened in the slot of the front block, which leaves.
LEMMA PushOverStep ==
    ASSUME IInv, PushOver
    PROVE  IInv'
<1> USE FecAssumption
<1>1. /\ todo # Idle /\ todo[1] > last /\ alloc = Ring /\ HandOn(ring[front].block, Rest)
      /\ ring' = [ring EXCEPT ![front] = Empty(NextBlock)] /\ last' = NextBlock
      /\ front' = (front + 1) % Ring
      /\ UNCHANGED <<txVars, session, retired, alloc, todo, heard>>
  BY DEF PushOver
<1>2. TypeOK /\ front \in Slot /\ alloc > 0 /\ 0 \in Places /\ At(0) = ring[front]
  BY <1>1, PlacesAre DEF IInv, TypeOK, Places, At
<1>3. NextBlock \in Block /\ NextBlock > last
  BY <1>1, <1>2, NextBlockIs
<1>4. TypeOK'
  BY <1>1, <1>2, <1>3, EmptyIs, FrontMoves, OutIs DEF TypeOK, txVars
<1>5. \A i \in Places : At(i).block # todo[1]
  BY <1>1, <1>2 DEF IInv, BlockOK, TypeOK, Block, NoBlock
<1>6. \A i \in Places : Cardinality(At(i).map) < K
  BY <1>5 DEF IInv, BlockOK, Incomplete
<1>7. \A b \in Block, f \in Packet :
         out'[<<b, f>>] = IF b = At(0).block
                          THEN IF <<b, f>> \in heard \/ Decodable(b) THEN 1 ELSE 0
                          ELSE out[<<b, f>>]
  BY <1>1, <1>2, <1>6, RestIsAll
<1>8. \A i \in 0..(Ring - 2) : At(i)' = At(i + 1)
  <2>1. \A i \in 0..(Ring - 2) : i + 1 \in 0..(Ring - 1) /\ i + 1 # 0 /\ 0 \in 0..(Ring - 1)
    OBVIOUS
  <2>2. \A i \in 0..(Ring - 2) : SlotAt(i + 1) # front /\ SlotAt(i + 1) \in Slot
    BY <1>2, <2>1, SlotsDiffer, PlacesAre, SlotAtIs
  <2>3. \A i \in 0..(Ring - 2) : SlotAt(i)' = SlotAt(i + 1)
    BY <1>1, <1>2, FrontMoves
  <2>4. QED
    BY <1>1, <1>2, <2>2, <2>3 DEF At, TypeOK
<1>9. \A i : i = Ring - 1 => At(i)' = Empty(NextBlock)
  <2>1. \A i : i = Ring - 1 => SlotAt(i)' = front
    BY <1>1, <1>2, FrontMoves
  <2>2. QED
    BY <1>1, <1>2, <2>1 DEF At, TypeOK
<1>10. Shifts(1, 1, NextBlock)
  BY <1>1, <1>3, <1>7, <1>8, <1>9 DEF Shifts
<1>11. \A i \in 0..(alloc - 1 - 1) : Incomplete(At(i + 1).map, At(i + 1).block, todo')
  BY <1>1, <1>6 DEF Incomplete, Places
<1>12. 1 <= alloc
  BY <1>1
<1>13. QED
  BY <1>3, <1>4, <1>10, <1>11, <1>12, ShiftStep

\* The front block leaves, and no other comes.
LEMMA LeaveStep ==
    ASSUME IInv, alloc > 0, front' = (front + 1) % Ring, alloc' = alloc - 1,
           todo' \in {todo, Idle},
           UNCHANGED <<txVars, session, retired, ring, last, heard>>,
           out' \in [Block \X Packet -> Nat],
           \A b \in Block, f \in Packet :
               out'[<<b, f>>] = IF b = At(0).block
                                THEN IF <<b, f>> \in heard \/ Decodable(b) THEN 1 ELSE 0
                                ELSE out[<<b, f>>],
           \A i \in 0..(alloc - 2) : Incomplete(At(i + 1).map, At(i + 1).block, todo')
    PROVE  IInv'
<1> USE FecAssumption
<1>1. TypeOK /\ alloc \in 1..Ring /\ \E b \in Block : TRUE
  BY PlacesAre DEF IInv, TypeOK, BlockOK, Places
<1>2. TypeOK'
  BY <1>1, FrontMoves DEF TypeOK, txVars
<1>3. PICK nb \in Block : TRUE
  BY <1>1
<1>4. \A i \in 0..(alloc - 2) : At(i)' = At(i + 1)
  BY <1>1, FrontMoves DEF At
<1>5. Shifts(1, 0, nb)
  BY <1>1, <1>4 DEF Shifts
<1>6. \A i \in 0..(alloc - 1 - 1) : Incomplete(At(i + 1).map, At(i + 1).block, todo')
  BY <1>1
<1>7. 1 <= alloc
  BY <1>1
<1>8. QED
  BY <1>2, <1>3, <1>5, <1>6, <1>7, ShiftStep

\* A block leaves before a complete one.
LEMMA PassOlderStep ==
    ASSUME IInv, PassOlder
    PROVE  IInv'
<1> USE FecAssumption
<1>1. /\ InRing(todo[1]) /\ SlotOf(todo[1]) # front /\ HandOn(ring[front].block, Rest)
      /\ front' = (front + 1) % Ring /\ alloc' = alloc - 1 /\ todo' = todo
      /\ UNCHANGED <<txVars, session, retired, ring, last, heard>>
  BY DEF PassOlder
<1>2. PICK k \in Places : /\ SlotOf(todo[1]) = SlotAt(k)
                          /\ \A i \in Places : At(i).block = todo[1] => i = k
  BY <1>1, SlotOfIs
<1>3. TypeOK /\ alloc > 0 /\ alloc \in Nat /\ 0 \in Places /\ At(0) = ring[front] /\ k # 0
  BY <1>1, <1>2, PlacesAre DEF IInv, TypeOK, Places, At
<1>4. Cardinality(ring[front].map) < K
  BY <1>2, <1>3 DEF IInv, BlockOK, Incomplete
<1>5. \A i \in 0..(alloc - 2) : Incomplete(At(i + 1).map, At(i + 1).block, todo')
  <2>1. \A i \in 0..(alloc - 2) : i + 1 \in Places
    BY <1>3 DEF Places
  <2>2. QED
    BY <1>1, <2>1 DEF IInv, BlockOK
<1>6. QED
  BY <1>1, <1>3, <1>4, <1>5, RestIsAll, OutIs, LeaveStep

\* The complete block leaves with all its packets.
LEMMA FinishStep ==
    ASSUME IInv, Finish
    PROVE  IInv'
<1> USE FecAssumption
<1> DEFINE P == {f \in Packet : ring[front].next <= f}
<1>1. /\ todo # Idle /\ InRing(todo[1]) /\ SlotOf(todo[1]) = front /\ Complete(front)
      /\ HandOn(todo[1], P)
      /\ front' = (front + 1) % Ring /\ alloc' = alloc - 1 /\ todo' = Idle
      /\ UNCHANGED <<txVars, session, retired, ring, last, heard>>
  BY DEF Finish
<1>2. PICK k \in Places : /\ At(k).block = todo[1] /\ SlotOf(todo[1]) = SlotAt(k)
                          /\ \A i \in Places : At(i).block = todo[1] => i = k
  BY <1>1, SlotOfIs
<1>3. TypeOK /\ alloc > 0 /\ alloc \in Nat /\ 0 \in Places /\ At(0) = ring[front]
  BY <1>2, PlacesAre DEF IInv, TypeOK, Places, At
<1>4. k = 0
  BY <1>1, <1>2, <1>3, PlacesAre, SlotsDiffer
<1>5. BlockOK(0) /\ At(0) \in [block : Int, next : 0..K, map : SUBSET Fragment]
  BY <1>3, PlacesAre DEF IInv
<1>6. Decodable(At(0).block)
  <2>1. Decodable(At(0).block) <=> Cardinality(HeardOf(At(0).block)) >= K
    BY DEF Decodable, HeardOf
  <2>2. QED
    BY <1>1, <1>3, <1>5, <2>1 DEF BlockOK, Complete
<1>7. \A b \in Block, f \in Packet :
         out'[<<b, f>>] = IF b = At(0).block
                          THEN IF <<b, f>> \in heard \/ Decodable(b) THEN 1 ELSE 0
                          ELSE out[<<b, f>>]
  <2>1. \A c \in Block, f \in Packet :
           out'[<<c, f>>] = IF c = At(0).block /\ f \in P THEN out[<<c, f>>] + 1 ELSE out[<<c, f>>]
    <3>1. HandOn(At(0).block, P)
      BY <1>1, <1>2, <1>4
    <3> DEFINE b == At(0).block
    <3> HIDE DEF P
    <3>2. out' = [p \in Block \X Packet |->
                    IF p[1] = b /\ p[2] \in P THEN out[p] + 1 ELSE out[p]]
      BY <1>3, <3>1 DEF HandOn, TypeOK
    <3> HIDE DEF b
    <3>3. \A c \in Block, f \in Packet :
             out'[<<c, f>>] = IF c = b /\ f \in P THEN out[<<c, f>>] + 1 ELSE out[<<c, f>>]
      BY <3>2
    <3>4. QED
      BY <3>3 DEF b
  <2>2. \A f \in Packet : f \in P <=> ~(f < At(0).next)
    BY <1>3, <1>5 DEF Packet
  <2>3. \A f \in Packet : out[<<At(0).block, f>>] = IF f < At(0).next THEN 1 ELSE 0
    BY <1>5 DEF BlockOK
  <2> HIDE DEF P
  <2>4. At(0).block \in Block
    BY <1>5 DEF BlockOK
  <2>5. \A f \in Packet : out'[<<At(0).block, f>>] = 1
    BY <2>1, <2>2, <2>3, <2>4
  <2>6. \A b \in Block, f \in Packet : b # At(0).block => out'[<<b, f>>] = out[<<b, f>>]
    BY <2>1
  <2>7. QED
    BY <1>6, <2>5, <2>6
<1>8. \A i \in 0..(alloc - 2) : Incomplete(At(i + 1).map, At(i + 1).block, todo')
  <2>1. \A i \in 0..(alloc - 2) : i + 1 \in Places /\ i + 1 # 0
    BY <1>3 DEF Places
  <2>2. \A i \in Places : i # 0 => Cardinality(At(i).map) < K
    BY <1>2, <1>4 DEF IInv, BlockOK, Incomplete
  <2>3. QED
    BY <2>1, <2>2 DEF Incomplete
<1>9. QED
  BY <1>1, <1>3, <1>7, <1>8, OutIs, LeaveStep

\* What the front block hands on when a fragment comes is an interval from next on.
LEMMA RunIs ==
    ASSUME NEW s, NEW map, ring[s].next \in 0..K
    PROVE  LET R == Run(s, map) IN
           /\ R \in SUBSET Packet /\ R = ring[s].next..(ring[s].next + Cardinality(R) - 1)
           /\ \A g \in R : g \in map
           /\ Cardinality(R) \in Nat /\ ring[s].next + Cardinality(R) \in 0..K
<1> USE FecAssumption DEF Packet
<1> DEFINE R == Run(s, map)
           a == ring[s].next
<1>1. R \in SUBSET Packet /\ \A f \in R : a <= f /\ (\A g \in a..f : g \in map)
  BY DEF Run
<1>2. a \in 0..K
  OBVIOUS
<1>3. \A f \in R : \A g \in a..f : g \in R
  <2>1. ASSUME NEW f \in R, NEW g \in a..f
        PROVE  g \in R
    <3>1. f \in Packet /\ g \in Packet /\ a <= g
      BY <1>1, <1>2, <2>1
    <3>2. \A h \in a..g : h \in a..f
      BY <1>2, <3>1, <2>1
    <3>3. \A h \in a..g : h \in map
      BY <1>1, <3>2, <2>1
    <3>4. QED
      BY <3>1, <3>3 DEF Run
  <2>2. QED
    BY <2>1
<1>4. \A f \in R : f \in map
  <2>1. \A f \in R : f \in a..f
    BY <1>1, <1>2
  <2>2. QED
    BY <1>1, <2>1
<1> HIDE DEF R, a
<1>5. R = a..(a + Cardinality(R) - 1) /\ Cardinality(R) \in Nat /\ a + Cardinality(R) \in 0..K
  BY <1>1, <1>2, <1>3, NoGap
<1>6. QED
  BY <1>1, <1>4, <1>5 DEF R, a

\* A fragment is kept, and the front block hands on what has become contiguous.
LEMMA KeepStep ==
    ASSUME IInv, Keep
    PROVE  IInv'
<1> USE FecAssumption
<1>1. PICK k \in Places :
         /\ At(k).block = todo[1] /\ SlotOf(todo[1]) = SlotAt(k)
         /\ \A i \in Places : At(i).block = todo[1] => i = k
  BY SlotOfIs DEF Keep
<1> DEFINE b == At(k).block
           f == todo[2]
           m == At(k).map \union {f}
           a == At(k).next
           run == IF SlotAt(k) = front THEN Run(SlotAt(k), m) ELSE {}
<1>2. /\ todo # Idle /\ f \notin At(k).map
      /\ ring' = [ring EXCEPT ![SlotAt(k)].map = m, ![SlotAt(k)].next = @ + Cardinality(run)]
      /\ out' = [p \in DOMAIN out |-> IF p[1] = b /\ p[2] \in run THEN out[p] + 1 ELSE out[p]]
      /\ heard' = heard \union {todo}
      /\ todo' = IF Cardinality(m) = K THEN todo ELSE Idle
      /\ UNCHANGED <<txVars, session, retired, front, alloc, last>>
  BY <1>1 DEF Keep, HandOn, At
<1>3. /\ TypeOK /\ k \in 0..(Ring - 1) /\ SlotAt(k) \in Slot /\ SlotAt(0) = front
      /\ At(k) \in [block : Int, next : 0..K, map : SUBSET Fragment]
      /\ BlockOK(k) /\ 0 \in 0..(Ring - 1)
  BY <1>1, PlacesAre DEF IInv
<1>4. todo = <<b, f>> /\ b \in Block /\ f \in Fragment /\ a \in 0..K
  BY <1>1, <1>2, <1>3 DEF TypeOK
<1>5. /\ run \in SUBSET Packet /\ run = a..(a + Cardinality(run) - 1)
      /\ \A g \in run : g \in m
      /\ Cardinality(run) \in Nat /\ a + Cardinality(run) \in 0..K
      /\ k > 0 => Cardinality(run) = 0 /\ a = 0
  <2>1. CASE k = 0
    BY <1>3, <1>4, <2>1, RunIs DEF At
  <2>2. CASE k # 0
    <3>1. SlotAt(k) # front
      BY <1>3, <2>2, SlotsDiffer
    <3>2. run = {} /\ Cardinality(run) = 0
      BY <3>1, FS_EmptySet
    <3>3. k > 0 /\ a = 0
      BY <1>3, <2>2 DEF BlockOK
    <3> HIDE DEF run, m, a
    <3>4. QED
      BY <1>4, <3>2, <3>3
  <2>3. QED
    BY <2>1, <2>2
<1> DEFINE new == [block |-> b, next |-> a + Cardinality(run), map |-> m]
<1>6. m \in SUBSET Fragment
  BY <1>3, <1>4
<1> HIDE DEF run
<1>7. ring' = [ring EXCEPT ![SlotAt(k)] = new]
  <2>1. ring \in [Slot -> [block : Int, next : 0..K, map : SUBSET Fragment]]
    BY <1>3 DEF TypeOK
  <2>2. ring[SlotAt(k)] = [block |-> b, next |-> a, map |-> At(k).map]
    BY <1>3, <2>1 DEF At
  <2> DEFINE s == SlotAt(k)
             n == Cardinality(run)
  <2>3. ring' = [[ring EXCEPT ![s].map = m] EXCEPT ![s].next = @ + n]
    BY <1>2
  <2> DEFINE r1 == [ring EXCEPT ![s].map = m]
             rec == [block |-> b, next |-> a, map |-> m]
  <2> HIDE DEF s, n, m, a, b
  <2>4. s \in Slot /\ ring[s] = [block |-> b, next |-> a, map |-> At(k).map]
    BY <1>3, <2>2 DEF s
  <2>5. r1 = [ring EXCEPT ![s] = rec]
    <3>1. [ring[s] EXCEPT !.map = m] = rec
      BY <2>4
    <3>2. r1 = [ring EXCEPT ![s] = [ring[s] EXCEPT !.map = m]]
      OBVIOUS
    <3> HIDE DEF r1, rec
    <3>3. QED
      BY <3>1, <3>2
  <2> HIDE DEF rec
  <2>6. DOMAIN ring = Slot /\ DOMAIN r1 = Slot /\ r1[s] = rec /\ \A x \in Slot \ {s} : r1[x] = ring[x]
    BY <2>1, <2>4, <2>5
  <2>7. ring' = [r1 EXCEPT ![s].next = @ + n]
    BY <2>3
  <2> HIDE DEF r1
  <2>8. ring' = [r1 EXCEPT ![s] = new]
    <3>1. [rec EXCEPT !.next = rec.next + n] = new
      BY DEF rec, n
    <3>2. ring' = [r1 EXCEPT ![s] = [r1[s] EXCEPT !.next = r1[s].next + n]]
      BY <2>7
    <3> HIDE DEF new
    <3>3. QED
      BY <2>6, <3>1, <3>2
  <2>9. ring' = [ring EXCEPT ![s] = new]
    <3> HIDE DEF new
    <3>1. QED
      BY <2>4, <2>6, <2>8
  <2>10. QED
    BY <2>9 DEF s
<1>8. new \in [block : Int, next : 0..K, map : SUBSET Fragment]
  BY <1>3, <1>5, <1>6
<1>9. At(k)' = new /\ \A i \in Places : i # k => At(i)' = At(i)
  <2>1. \A i : SlotAt(i)' = SlotAt(i)
    BY <1>2 DEF SlotAt
  <2>2. \A i \in Places : i # k => SlotAt(i) # SlotAt(k)
    BY <1>1, <1>3, PlacesAre, SlotsDiffer
  <2> HIDE DEF new
  <2>3. QED
    BY <1>3, <1>7, <2>1, <2>2 DEF At, TypeOK
<1>10. \A i \in Places : At(i)'.block = At(i).block
  BY <1>9
<1>11. \A c \in Block, g \in Packet :
          out'[<<c, g>>] = IF c = b /\ g \in run THEN out[<<c, g>>] + 1 ELSE out[<<c, g>>]
  <2> HIDE DEF b
  <2>1. QED
    BY <1>2, <1>3 DEF TypeOK
<1>12. Places' = Places /\ last' = last
  BY <1>2 DEF Places
<1>13. \A c : HeardOf(c)' = IF c = b THEN HeardOf(c) \union {f} ELSE HeardOf(c)
  <2> HIDE DEF b, f
  <2>1. QED
    BY <1>2, <1>4 DEF HeardOf
<1>14. \A c : c # b => (Decodable(c)' <=> Decodable(c))
  <2>1. \A c : Decodable(c) <=> Cardinality(HeardOf(c)) >= K
    BY DEF Decodable, HeardOf
  <2>2. \A c : Decodable(c)' <=> Cardinality(HeardOf(c)') >= K
    BY DEF Decodable, HeardOf
  <2>3. QED
    BY <1>13, <2>1, <2>2
<1>15. TypeOK'
  <2>1. ring' \in [Slot -> [block : Int, next : 0..K, map : SUBSET Fragment]]
    <3> HIDE DEF new
    <3>1. QED
      BY <1>3, <1>7, <1>8 DEF TypeOK
  <2>2. out' \in [Block \X Packet -> Nat]
    BY <1>2, <1>3 DEF TypeOK
  <2>3. heard' \subseteq Block \X Fragment
    BY <1>2, <1>3, <1>4 DEF TypeOK
  <2>4. todo' \in (Block \X Fragment) \union {Idle}
    BY <1>2, <1>4
  <2>5. QED
    BY <1>2, <1>3, <2>1, <2>2, <2>3, <2>4 DEF TypeOK, txVars
<1>16. Ordered'
  <2>1. \A i, j \in Places' : i < j => At(i)'.block < At(j)'.block
    BY <1>10, <1>12 DEF IInv, Ordered
  <2>2. alloc \in Nat /\ alloc' = alloc
    BY <1>2, <1>3 DEF TypeOK
  <2>3. \A i : i = alloc' - 1 /\ alloc' > 0 => At(i)'.block = last'
    BY <1>10, <1>12, <2>2 DEF IInv, Ordered, Places
  <2>4. QED
    BY <2>1, <2>3 DEF Ordered
<1>17. Cardinality(At(k).map) < K
  BY <1>2, <1>3 DEF BlockOK, Incomplete
<1>18. BlockOK(k)'
  <2>1. /\ At(k)'.block = b /\ At(k)'.next = a + Cardinality(run) /\ At(k)'.map = m
    BY <1>9
  <2>2. b \in Block /\ b <= last'
    BY <1>3, <1>12 DEF BlockOK
  <2>3. \A c : c = b => HeardOf(c)' = m
    BY <1>3, <1>13 DEF BlockOK
  <2>4. k > 0 => a + Cardinality(run) = 0
    BY <1>5
  <2>5. ASSUME NEW g \in Packet
        PROVE  /\ out'[<<b, g>>] = IF g < a + Cardinality(run) THEN 1 ELSE 0
               /\ g < a + Cardinality(run) => g \in m
    <3>1. /\ out[<<b, g>>] = IF g < a THEN 1 ELSE 0
          /\ g < a => g \in At(k).map
      BY <1>3 DEF BlockOK
    <3>2. g \in run <=> a <= g /\ g < a + Cardinality(run)
      BY <1>4, <1>5 DEF Packet
    <3>3. out'[<<b, g>>] = IF g \in run THEN out[<<b, g>>] + 1 ELSE out[<<b, g>>]
      BY <1>4, <1>11
    <3>4. g \in Nat /\ a \in Nat /\ Cardinality(run) \in Nat
      BY <1>4, <1>5 DEF Packet
    <3>5. g \in run => g \in m
      BY <1>5
    <3>6. g \in At(k).map => g \in m
      OBVIOUS
    <3> HIDE DEF a, b, m
    <3>7. QED
      BY <3>1, <3>2, <3>3, <3>4, <3>5, <3>6
  <2>6. Incomplete(m, b, todo')
    <3>1. IsFiniteSet(At(k).map) /\ Cardinality(At(k).map) \in Nat
      BY <1>3, FragmentsFinite
    <3>2. Cardinality(m) = Cardinality(At(k).map) + 1
      BY <1>2, <3>1, FS_AddElement
    <3>3. Cardinality(m) < K \/ (Cardinality(m) = K /\ todo' = todo)
      BY <1>2, <1>17, <3>1, <3>2
    <3>4. todo # Idle /\ todo[1] = b /\ todo[2] \in m
      BY <1>1, <1>2
    <3> HIDE DEF m, b
    <3>5. QED
      BY <3>3, <3>4 DEF Incomplete
  <2> HIDE DEF a, b, m
  <2>7. QED
    BY <2>1, <2>2, <2>3, <2>4, <2>5, <2>6 DEF BlockOK
<1>19. ASSUME NEW i \in Places, i # k
       PROVE  BlockOK(i)'
  <2>1. At(i)' = At(i) /\ BlockOK(i) /\ At(i).block # b
    BY <1>1, <1>9, <1>19 DEF IInv
  <2>2. \A g \in Packet : out'[<<At(i).block, g>>] = out[<<At(i).block, g>>]
    BY <1>11, <2>1 DEF BlockOK
  <2>3. \A c : c = At(i).block => HeardOf(c)' = HeardOf(c)
    BY <1>13, <2>1
  <2>4. Incomplete(At(i).map, At(i).block, todo')
    BY <1>4, <2>1 DEF BlockOK, Incomplete
  <2>5. QED
    BY <1>12, <2>1, <2>2, <2>3, <2>4 DEF BlockOK
<1>20. \A x \in heard' : x[1] <= last'
  BY <1>2, <1>3, <1>4, <1>12 DEF IInv, BlockOK
<1>21. ASSUME NEW c \in Block, ~InRing(c)'
       PROVE  PastOK(c)'
  <2>1. InRing(c) <=> \E i \in Places : At(i).block = c
    BY DEF InRing, Places, At
  <2>2. InRing(c)' <=> \E i \in Places' : At(i)'.block = c
    BY DEF InRing, Places, At
  <2>3. ~InRing(c) /\ c # b
    BY <1>1, <1>10, <1>12, <1>21, <2>1, <2>2
  <2>4. PastOK(c)
    BY <2>3 DEF IInv
  <2>5. \A g \in Packet : out'[<<c, g>>] = out[<<c, g>>]
    BY <1>11, <2>3
  <2>6. \A g \in Packet : <<c, g>> \in heard' <=> <<c, g>> \in heard
    <3> HIDE DEF b, f
    <3>1. QED
      BY <1>2, <1>4, <2>3
  <2>7. Decodable(c)' <=> Decodable(c)
    BY <1>14, <2>3
  <2>8. QED
    BY <1>10, <1>12, <2>4, <2>5, <2>6, <2>7 DEF PastOK
<1>22. \A i \in Places' : BlockOK(i)'
  BY <1>12, <1>18, <1>19
<1>23. QED
  BY <1>15, <1>16, <1>20, <1>21, <1>22 DEF IInv

\* A step that leaves the ring and the history alone
LEMMA QuietStep ==
    ASSUME IInv, TypeOK', UNCHANGED <<ring, front, alloc, last, heard, out>>,
           \A i \in Places : Incomplete(At(i).map, At(i).block, todo')
    PROVE  IInv'
<1>1. /\ Places' = Places /\ \A i : At(i)' = At(i)
      /\ \A b : (HeardOf(b)' = HeardOf(b)) /\ (Decodable(b)' <=> Decodable(b))
                /\ (InRing(b)' <=> InRing(b))
  BY DEF Places, At, SlotAt, HeardOf, Decodable, InRing
<1>2. Ordered'
  BY <1>1 DEF IInv, Ordered, Places, At, SlotAt
<1>3. ASSUME NEW i \in Places'
      PROVE  BlockOK(i)'
  <2>1. BlockOK(i) /\ Incomplete(At(i).map, At(i).block, todo')
    BY <1>1, <1>3 DEF IInv
  <2>2. \A b : b = At(i).block => HeardOf(b)' = HeardOf(b)
    BY <1>1
  <2>3. QED
    BY <1>1, <2>1, <2>2 DEF BlockOK
<1>4. ASSUME NEW b \in Block, ~InRing(b)'
      PROVE  PastOK(b)'
  <2>1. PastOK(b)
    BY <1>1, <1>4 DEF IInv
  <2>2. QED
    BY <1>1, <2>1 DEF PastOK
<1>5. QED
  BY <1>2, <1>3, <1>4 DEF IInv

\* A receiver with an empty ring, that has heard nothing
LEMMA FreshIs ==
    ASSUME TypeOK, alloc = 0, heard = {}, out = NothingOut
    PROVE  IInv
<1> USE FecAssumption
<1>1. Places = {}
  BY DEF Places
<1>2. ~(alloc > 0)
  OBVIOUS
<1>3. \A b : ~Decodable(b)
  BY FS_EmptySet DEF Decodable
<1>4. \A b \in Block, f \in Packet : out[<<b, f>>] = 0
  BY DEF NothingOut
<1>5. Ordered
  BY <1>1, <1>2 DEF Ordered
<1>6. QED
  BY <1>1, <1>3, <1>4, <1>5 DEF IInv, PastOK

\* The same after a step, for a receiver that begins a session anew
LEMMA FreshNext ==
    ASSUME TypeOK', alloc' = 0, heard' = {}, out' = NothingOut
    PROVE  IInv'
<1> USE FecAssumption
<1>1. Places' = {}
  BY DEF Places
<1>2. ~(alloc' > 0)
  OBVIOUS
<1>3. \A b : ~Decodable(b)'
  BY FS_EmptySet DEF Decodable
<1>4. \A b \in Block, f \in Packet : out'[<<b, f>>] = 0
  BY DEF NothingOut
<1>5. Ordered'
  BY <1>1, <1>2 DEF Ordered
<1>6. QED
  BY <1>1, <1>3, <1>4, <1>5 DEF IInv, PastOK

\* A frame is heard, of the current session or of a new one.
LEMMA HearStep ==
    ASSUME IInv, NEW s, NEW b, NEW f, Hear(s, b, f)
    PROVE  IInv'
<1> USE FecAssumption
<1>1. /\ TypeOK /\ todo = Idle /\ <<s, b, f>> \in air /\ todo' = <<b, f>> /\ session' = s
      /\ UNCHANGED txVars
  BY DEF IInv, Hear
<1>2. s \in Session /\ <<b, f>> \in Block \X Fragment
  BY <1>1 DEF TypeOK
<1>3. CASE session \in {NoSession, s}
  <2>1. UNCHANGED <<retired, ring, front, alloc, last, heard, out>>
    BY <1>3 DEF Hear
  <2>2. TypeOK'
    BY <1>1, <1>2, <2>1 DEF TypeOK, txVars
  <2>3. \A i \in Places : Incomplete(At(i).map, At(i).block, todo')
    BY <1>1 DEF IInv, BlockOK, Incomplete
  <2>4. QED
    BY <2>1, <2>2, <2>3, QuietStep
<1>4. CASE session \notin {NoSession, s}
  <2>1. /\ retired' = retired \union {session} /\ ring' = [i \in Slot |-> Empty(0)]
        /\ front' = 0 /\ alloc' = 0 /\ last' = NoBlock /\ heard' = {} /\ out' = NothingOut
    BY <1>4 DEF Hear
  <2>2. Empty(0) \in [block : Int, next : 0..K, map : SUBSET Fragment]
    BY DEF Empty
  <2>3. ring' \in [Slot -> [block : Int, next : 0..K, map : SUBSET Fragment]]
    BY <2>1, <2>2
  <2>4. /\ retired' \subseteq Session /\ front' \in Slot /\ alloc' \in 0..Ring
        /\ last' \in Block \union {NoBlock} /\ heard' \subseteq Block \X Fragment
    BY <1>1, <1>4, <2>1 DEF TypeOK, Slot
  <2>5. out' \in [Block \X Packet -> Nat]
    BY <2>1 DEF NothingOut
  <2>6. TypeOK'
    BY <1>1, <1>2, <2>3, <2>4, <2>5 DEF TypeOK, txVars
  <2>7. QED
    BY <2>1, <2>6, FreshNext
<1>5. QED
  BY <1>3, <1>4

\* A fragment of a block that has left is dropped.
LEMMA DropLateStep ==
    ASSUME IInv, DropLate
    PROVE  IInv'
<1>1. /\ ~InRing(todo[1]) /\ todo' = Idle
      /\ UNCHANGED <<txVars, session, retired, ring, front, alloc, last, heard, out>>
  BY DEF DropLate
<1>2. \A i \in Places : At(i).block # todo[1]
  BY <1>1 DEF InRing, Places, At
<1>3. \A i \in Places : Incomplete(At(i).map, At(i).block, todo')
  BY <1>2 DEF IInv, BlockOK, Incomplete
<1>4. TypeOK'
  BY <1>1 DEF IInv, TypeOK, txVars
<1>5. QED
  BY <1>1, <1>3, <1>4, QuietStep

\* A fragment that is there already is dropped.
LEMMA DropTwiceStep ==
    ASSUME IInv, DropTwice
    PROVE  IInv'
<1>1. /\ InRing(todo[1]) /\ ~Complete(SlotOf(todo[1])) /\ todo' = Idle
      /\ UNCHANGED <<txVars, session, retired, ring, front, alloc, last, heard, out>>
  BY DEF DropTwice
<1>2. PICK k \in Places : /\ SlotOf(todo[1]) = SlotAt(k)
                          /\ \A i \in Places : At(i).block = todo[1] => i = k
  BY <1>1, SlotOfIs
<1>3. Cardinality(At(k).map) # K
  BY <1>1, <1>2 DEF Complete, At
<1>4. \A i \in Places : Incomplete(At(i).map, At(i).block, todo')
  BY <1>2, <1>3 DEF IInv, BlockOK, Incomplete
<1>5. TypeOK'
  BY <1>1 DEF IInv, TypeOK, txVars
<1>6. QED
  BY <1>1, <1>4, <1>5, QuietStep

\* The receiver does not see the sender.
LEMMA SenderStep ==
    ASSUME IInv, SendPacket \/ RestartSender
    PROVE  IInv'
<1> USE FecAssumption
<1>1. TypeOK /\ UNCHANGED rxVars
  BY DEF IInv, SendPacket, RestartSender
<1>2. txSession' \in Session /\ txBlock' \in 0..MaxBlocks /\ txFragment' \in Packet
  BY DEF IInv, TypeOK, SendPacket, RestartSender, Session, Packet
<1>3. air' \subseteq Session \X Block \X Fragment
  <2>1. CASE SendPacket
    <3>1. txBlock \in Block /\ txSession \in Session /\ txFragment \in Fragment
      BY <1>1, <2>1 DEF SendPacket, TypeOK, Block, Packet, Fragment
    <3>2. \A g \in txFragment..(N - 1) : g \in Fragment
      BY <3>1 DEF Fragment
    <3>3. QED
      BY <1>1, <2>1, <3>1, <3>2 DEF SendPacket, TypeOK
  <2>2. CASE RestartSender
    BY <1>1, <2>2 DEF RestartSender, TypeOK
  <2>3. QED
    BY <2>1, <2>2
<1>4. TypeOK'
  BY <1>1, <1>2, <1>3 DEF TypeOK, rxVars
<1>5. \A i \in Places : Incomplete(At(i).map, At(i).block, todo')
  BY <1>1 DEF IInv, BlockOK, rxVars
<1>6. QED
  BY <1>1, <1>4, <1>5, QuietStep DEF rxVars

-----------------------------------------------------------------------------
(* The invariant *)

\* The invariant holds before the first frame.
LEMMA InitIInv ==
    ASSUME Init
    PROVE  IInv
<1> USE FecAssumption
<1>1. Empty(0) \in [block : Int, next : 0..K, map : SUBSET Fragment]
  BY DEF Empty
<1>2. ring \in [Slot -> [block : Int, next : 0..K, map : SUBSET Fragment]]
  BY <1>1 DEF Init
<1>3. out \in [Block \X Packet -> Nat]
  BY DEF Init, NothingOut
<1>4. /\ txSession \in Session /\ txBlock \in 0..MaxBlocks /\ txFragment \in Packet
      /\ front \in Slot /\ alloc \in 0..Ring
  BY DEF Init, Session, Packet, Slot
<1>5. TypeOK
  BY <1>2, <1>3, <1>4 DEF Init, TypeOK
<1>6. QED
  BY <1>5, FreshIs DEF Init

\* Every step keeps the invariant.
LEMMA NextIInv ==
    ASSUME IInv, [Next]_vars
    PROVE  IInv'
<1>1. CASE SendPacket \/ RestartSender
  BY <1>1, SenderStep
<1>2. CASE \E m \in air : Hear(m[1], m[2], m[3])
  <2>1. PICK m \in air : Hear(m[1], m[2], m[3])
    BY <1>2
  <2>2. QED
    BY <2>1, HearStep
<1>3. CASE DropLate
  BY <1>3, DropLateStep
<1>4. CASE PushFree
  BY <1>4, PushFreeStep
<1>5. CASE PushOver
  BY <1>5, PushOverStep
<1>6. CASE Keep
  BY <1>6, KeepStep
<1>7. CASE DropTwice
  BY <1>7, DropTwiceStep
<1>8. CASE PassOlder
  BY <1>8, PassOlderStep
<1>9. CASE Finish
  BY <1>9, FinishStep
<1>10. CASE UNCHANGED vars
  <2>1. UNCHANGED txVars /\ UNCHANGED rxVars
    BY <1>10 DEF vars
  <2>2. TypeOK'
    BY <2>1 DEF IInv, TypeOK, txVars, rxVars
  <2>3. \A i \in Places : Incomplete(At(i).map, At(i).block, todo')
    BY <2>1 DEF IInv, BlockOK, rxVars
  <2>4. QED
    BY <2>1, <2>2, <2>3, QuietStep DEF rxVars
<1>11. QED
  BY <1>1, <1>2, <1>3, <1>4, <1>5, <1>6, <1>7, <1>8, <1>9, <1>10 DEF Next

\* The invariant holds in every reachable state.
LEMMA Inductive == Spec => []IInv
<1>1. Init => IInv
  BY InitIInv
<1>2. IInv /\ [Next]_vars => IInv'
  BY NextIInv
<1>3. QED
  BY <1>1, <1>2, PTL DEF Spec

-----------------------------------------------------------------------------
(* What it is for *)

\* The types of the sender and of the receiver: in particular the front of the ring
\* and the number of its blocks stay within RX_RING_SIZE (rx_ring_push).
THEOREM ReassemblyTypes == Spec => []TypeOK
<1>1. IInv => TypeOK
  BY DEF IInv
<1>2. QED
  BY <1>1, Inductive, PTL

\* The unfinished blocks lie in the ring in the order of their numbers, up to the
\* last known one, and none of them stays that could be completed (rx_ring_push,
\* process_packet).
THEOREM RingIsSound == Spec => []RingSound
<1>1. IInv => RingSound
  <2>1. SUFFICES ASSUME IInv PROVE RingSound
    OBVIOUS
  <2>2. todo = Idle => \A i \in Places : Cardinality(At(i).map) < K
    BY <2>1 DEF IInv, BlockOK, Incomplete
  <2>3. \A i \in Places : Cardinality(At(i).map) \in Nat
    BY <2>1, PlacesAre, FragmentsFinite DEF IInv
  <2>4. todo = Idle => \A i \in Places : Cardinality(At(i).map) # K
    BY <2>2, <2>3, FecAssumption
  <2>5. QED
    BY <2>1, <2>4 DEF IInv, Ordered, RingSound, Complete, Places, At
<1>2. QED
  BY <1>1, Inductive, PTL

\* What is handed on is a packet that was heard in this session or that K of its
\* fragments give, whatever sessions came before (accept_data_session, apply_fec).
THEOREM HandsOnGenuine == Spec => []Genuine
<1>1. IInv => Genuine
  <2>1. SUFFICES ASSUME IInv, NEW b \in Block, NEW f \in Packet, out[<<b, f>>] > 0
                 PROVE  <<b, f>> \in heard \/ Decodable(b)
    BY DEF IInv, TypeOK, Genuine
  <2>2. CASE InRing(b)
    <3>1. PICK i \in Places : At(i).block = b
      BY <2>2 DEF InRing, Places, At
    <3>2. f \in HeardOf(b)
      BY <2>1, <3>1 DEF IInv, BlockOK
    <3>3. QED
      BY <3>2 DEF HeardOf
  <2>3. CASE ~InRing(b)
    BY <2>1, <2>3 DEF IInv, PastOK
  <2>4. QED
    BY <2>2, <2>3
<1>2. QED
  BY <1>1, Inductive, PTL

\* A block leaves the ring only after all that was heard of it, or can be recovered,
\* has been handed on (rx_ring_push, process_packet).
THEOREM NothingIsWithheld == Spec => []NothingWithheld
<1>1. IInv => NothingWithheld
  <2>1. SUFFICES ASSUME IInv, NEW b \in Block, NEW f \in Packet, ~InRing(b),
                        <<b, f>> \in heard \/ Decodable(b)
                 PROVE  out[<<b, f>>] > 0
    BY DEF IInv, TypeOK, NothingWithheld
  <2>2. out[<<b, f>>] = 1
    BY <2>1 DEF IInv, PastOK
  <2>3. QED
    BY <2>2
<1>2. QED
  BY <1>1, Inductive, PTL

\* What the front block has not handed on comes after everything handed on so far.
LEMMA FrontInOrder ==
    ASSUME IInv, 0 \in Places,
           NEW p \in Block \X Packet, p[1] = At(0).block, At(0).next <= p[2],
           NEW q \in Block \X Packet, out[q] > 0
    PROVE  Before(q, p)
<1>1. PICK b \in Block, f \in Packet : p = <<b, f>>
  OBVIOUS
<1>2. PICK c \in Block, g \in Packet : q = <<c, g>>
  OBVIOUS
<1>3. BlockOK(0) /\ b = At(0).block /\ At(0).next <= f /\ out[<<c, g>>] > 0
  BY <1>1, <1>2 DEF IInv
<1>4. At(0).next \in Nat /\ b \in Int /\ c \in Int /\ f \in Int /\ g \in Int
  BY FecAssumption, PlacesAre DEF IInv, Block, Packet
<1>5. CASE c = b
  <2>1. g < At(0).next
    BY <1>3, <1>5 DEF BlockOK
  <2>2. QED
    BY <1>1, <1>2, <1>3, <1>4, <1>5, <2>1 DEF Before
<1>6. CASE c # b /\ InRing(c)
  <2>1. PICK i \in Places : At(i).block = c
    BY <1>6 DEF InRing, Places, At
  <2>2. i # 0 /\ i \in Nat
    BY <1>3, <1>6, <2>1, PlacesAre, FecAssumption DEF IInv
  <2>3. BlockOK(i) /\ At(i).next = 0
    BY <2>2 DEF IInv, BlockOK
  <2>4. out[<<c, g>>] = 0
    BY <1>4, <2>1, <2>3 DEF BlockOK, Packet
  <2>5. QED
    BY <1>3, <2>4
<1>7. CASE c # b /\ ~InRing(c)
  <2>1. c < At(0).block
    BY <1>3, <1>7 DEF IInv, PastOK
  <2>2. QED
    BY <1>1, <1>2, <1>3, <2>1 DEF Before
<1>8. QED
  BY <1>5, <1>6, <1>7

\* What a call of send_packet hands on
LEMMA HandedOn ==
    ASSUME TypeOK, NEW b, NEW P, NEW p \in Block \X Packet,
           out' = [q \in DOMAIN out |-> IF q[1] = b /\ q[2] \in P THEN out[q] + 1 ELSE out[q]],
           out'[p] > out[p]
    PROVE  p[1] = b /\ p[2] \in P
<1>1. DOMAIN out = Block \X Packet /\ out[p] \in Nat
  BY DEF TypeOK
<1>2. out'[p] = IF p[1] = b /\ p[2] \in P THEN out[p] + 1 ELSE out[p]
  BY <1>1
<1>3. QED
  BY <1>1, <1>2

\* Only the front block hands something on, and nothing that it has handed on before.
LEMMA FromTheFront ==
    ASSUME IInv, [Next]_vars, session' = session,
           NEW p \in Block \X Packet, out'[p] > out[p]
    PROVE  0 \in Places /\ p[1] = At(0).block /\ At(0).next <= p[2]
<1> USE FecAssumption
<1>1. /\ TypeOK /\ out[p] \in Nat /\ SlotAt(0) = front
      /\ \A i \in Places : /\ i \in 0..(Ring - 1) /\ 0 \in Places
                           /\ At(i) \in [block : Int, next : 0..K, map : SUBSET Fragment]
  BY PlacesAre DEF IInv, TypeOK, Places
<1>2. At(0) = ring[front]
  BY <1>1 DEF At
<1>3. ~(UNCHANGED out)
  BY <1>1
<1>4. CASE PushOver
  <2>1. p[1] = At(0).block /\ p[2] \in Rest
    <3> DEFINE b == At(0).block
    <3>1. out' = [q \in DOMAIN out |->
                    IF q[1] = b /\ q[2] \in Rest THEN out[q] + 1 ELSE out[q]]
      BY <1>2, <1>4 DEF PushOver, HandOn
    <3> HIDE DEF b
    <3>2. p[1] = b /\ p[2] \in Rest
      BY <1>1, <3>1, HandedOn
    <3>3. QED
      BY <3>2 DEF b
  <2>2. 0 \in Places
    BY <1>1, <1>4 DEF PushOver, Places
  <2>3. QED
    BY <1>2, <2>1, <2>2 DEF Rest
<1>5. CASE PassOlder
  <2>1. p[1] = At(0).block /\ p[2] \in Rest
    <3> DEFINE b == At(0).block
    <3>1. out' = [q \in DOMAIN out |->
                    IF q[1] = b /\ q[2] \in Rest THEN out[q] + 1 ELSE out[q]]
      BY <1>2, <1>5 DEF PassOlder, HandOn
    <3> HIDE DEF b
    <3>2. p[1] = b /\ p[2] \in Rest
      BY <1>1, <3>1, HandedOn
    <3>3. QED
      BY <3>2 DEF b
  <2>2. 0 \in Places
    BY <1>1, <1>5 DEF PassOlder, InRing, Places
  <2>3. QED
    BY <1>2, <2>1, <2>2 DEF Rest
<1>6. CASE Keep
  <2>1. PICK k \in Places : At(k).block = todo[1] /\ SlotOf(todo[1]) = SlotAt(k)
    BY <1>6, SlotOfIs DEF Keep
  <2> DEFINE run == IF SlotAt(k) = front
                    THEN Run(SlotAt(k), At(k).map \union {todo[2]}) ELSE {}
  <2>2. out' = [q \in DOMAIN out |->
                  IF q[1] = todo[1] /\ q[2] \in run THEN out[q] + 1 ELSE out[q]]
    BY <1>6, <2>1 DEF Keep, HandOn, At
  <2>3. p[1] = todo[1] /\ p[2] \in run
    <3> HIDE DEF run
    <3>1. QED
      BY <1>1, <2>2, HandedOn
  <2>4. SlotAt(k) = front /\ k = 0
    BY <1>1, <2>3, SlotsDiffer
  <2>5. QED
    BY <1>1, <2>1, <2>3, <2>4 DEF Run, At
<1>7. CASE Finish
  <2>1. PICK k \in Places : At(k).block = todo[1] /\ SlotOf(todo[1]) = SlotAt(k)
    BY <1>7, SlotOfIs DEF Finish
  <2>2. k = 0
    BY <1>1, <1>7, <2>1, SlotsDiffer DEF Finish
  <2>3. p[1] = todo[1] /\ p[2] \in {f \in Packet : ring[front].next <= f}
    <3> DEFINE P == {f \in Packet : ring[front].next <= f}
    <3>1. out' = [q \in DOMAIN out |->
                    IF q[1] = todo[1] /\ q[2] \in P THEN out[q] + 1 ELSE out[q]]
      BY <1>7 DEF Finish, HandOn
    <3> HIDE DEF P
    <3>2. p[1] = todo[1] /\ p[2] \in P
      BY <1>1, <3>1, HandedOn
    <3>3. QED
      BY <3>2 DEF P
  <2>4. QED
    BY <1>2, <2>1, <2>2, <2>3
<1>8. CASE \E m \in air : Hear(m[1], m[2], m[3])
  <2>1. PICK m \in air : Hear(m[1], m[2], m[3])
    BY <1>8
  <2>2. UNCHANGED out
    BY <2>1 DEF Hear
  <2>3. QED
    BY <1>3, <2>2
<1>9. CASE ~(PushOver \/ PassOlder \/ Keep \/ Finish \/ \E m \in air : Hear(m[1], m[2], m[3]))
  <2>1. UNCHANGED out
    BY <1>9 DEF Next, SendPacket, RestartSender, DropLate, PushFree, DropTwice, vars, rxVars
  <2>2. QED
    BY <1>3, <2>1
<1>10. QED
  BY <1>4, <1>5, <1>6, <1>7, <1>8, <1>9

\* Within a session packets are handed on in the order in which they were sent, and
\* none of them twice (process_packet, rx_ring_push, send_packet of the receiver).
THEOREM HandsOnInOrder == Spec => InOrder
<1> DEFINE Ordering == session' = session =>
               \A p \in DOMAIN out : out'[p] > out[p] =>
                   \A q \in DOMAIN out : out[q] > 0 => Before(q, p)
<1>1. IInv /\ [Next]_vars => Ordering
  <2>1. SUFFICES ASSUME IInv, [Next]_vars, session' = session,
                        NEW p \in Block \X Packet, out'[p] > out[p],
                        NEW q \in Block \X Packet, out[q] > 0
                 PROVE  Before(q, p)
    BY DEF IInv, TypeOK
  <2>2. 0 \in Places /\ p[1] = At(0).block /\ At(0).next <= p[2]
    BY <2>1, FromTheFront
  <2>3. QED
    BY <2>1, <2>2, FrontInOrder
<1>2. QED
  BY <1>1, Inductive, PTL DEF Spec, InOrder
=============================================================================
