---------------------------- MODULE UplinkProofs ----------------------------
(***************************************************************************)
(* Proofs about the uplink: the scheduler, how fair it is, and the air     *)
(* between the server loop and the clients, for every set of known         *)
(* clients, every grant duration and guard interval.                       *)
(*                                                                         *)
(* The scheduler.  The inductive invariant is TypeOK together with         *)
(* QueueSound: the cursor is in range, and no node has two seats, before   *)
(* and after every step of the server loop.  Bypass adds, of               *)
(* TokenFairness, what one node may still overtake another by.             *)
(*                                                                         *)
(* The air, if the guard interval is at least as long as a GRANT can be    *)
(* under way.  A feedback window lets two clients be authorised at once at *)
(* most, while a normal slot is still running; without feedback windows    *)
(* two clients are never authorised at the same time; and when the guard   *)
(* interval also covers the FEC flush delay, a client never transmits into *)
(* the window of another one.                                              *)
(***************************************************************************)
EXTENDS UplinkAir, TokenFairness, SequenceTheorems, TLAPS

QueueInv == TypeOK /\ QueueSound

-----------------------------------------------------------------------------
\* Erasing the entry at a 0-based index in range yields a sequence one shorter
\* whose entries before the index keep their place and the later ones move up.
LEMMA EraseAtProperties ==
    ASSUME NEW S, NEW s \in Seq(S), NEW index \in Nat, index < Len(s)
    PROVE  /\ EraseAt(s, index) \in Seq(S)
           /\ Len(EraseAt(s, index)) = Len(s) - 1
           /\ \A i \in 1..(Len(s) - 1) :
                EraseAt(s, index)[i] = IF i <= index THEN s[i] ELSE s[i + 1]
<1> DEFINE n == Len(s) - 1
<1>1. n \in Nat /\ Len(s) \in Nat
  BY LenProperties
<1>2. \A i \in 1..n : s[i] \in S /\ s[i + 1] \in S
  BY <1>1, ElementOfSeq
<1>3. EraseAt(s, index) \in [1..n -> S]
  BY <1>1, <1>2 DEF EraseAt
<1>4. EraseAt(s, index) \in Seq(S)
  BY <1>1, <1>3, SeqDef
<1>5. Len(EraseAt(s, index)) = n
  BY <1>1, <1>3, <1>4, LenProperties
<1>6. QED
  BY <1>4, <1>5 DEF EraseAt

\* The remainder of a cursor by the queue length addresses an entry.
LEMMA ModInRange ==
    ASSUME NEW x \in Nat, NEW n \in Nat, n > 0
    PROVE  x % n \in Nat /\ x % n < n /\ (x < n => x % n = x)
  OBVIOUS

\* remove_active_node_at leaves the cursor on an entry of the shorter queue, or
\* at 0 when the queue has become empty.
LEMMA CursorAfterEraseInRange ==
    ASSUME NEW cursor \in Nat, NEW index \in Nat, NEW size \in Nat,
           cursor <= size, index <= size
    PROVE  /\ CursorAfterErase(cursor, index, size) \in Nat
           /\ size > 0 => CursorAfterErase(cursor, index, size) < size
           /\ size = 0 => CursorAfterErase(cursor, index, size) = 0
  BY ModInRange DEF CursorAfterErase

\* The saturating counters stay below their limit.
LEMMA SatAddInRange ==
    ASSUME NEW limit \in Nat, NEW x \in 0..limit, NEW y \in Nat
    PROVE  SatAdd(x, y, limit) \in 0..limit
  BY DEF SatAdd

\* The removal threshold is a number of milliseconds.
LEMMA ThresholdNat == SilenceThresholdMs \in Nat /\ SilentGrantRemovalThreshold \in Nat
  BY TimingAssumption DEF SilenceThresholdMs, SilentGrantRemovalThreshold

\* A scheduler starts with an empty, well formed queue.
LEMMA QueueInvInit == Init => QueueInv
<1> SUFFICES ASSUME Init PROVE QueueInv
  OBVIOUS
<1>1. silenceMs \in [KnownNodes -> 0..SilenceThresholdMs]
  BY ThresholdNat DEF Init
<1>2. silentGrants \in [KnownNodes -> 0..SilentGrantRemovalThreshold]
  BY ThresholdNat DEF Init
<1>3. activeNodeIds \in Seq(KnownNodes) /\ Len(activeNodeIds) = 0
  BY EmptySeq DEF Init
<1>4. QED
  BY <1>1, <1>2, <1>3 DEF Init, QueueInv, TypeOK, QueueSound, CursorInRange,
     NoDuplicateSeat

\* A READY frame appends a node that has no seat, or only refreshes it.
LEMMA DeclareReadyInv ==
    ASSUME NEW n \in KnownNodes, QueueInv, DeclareReady(n)
    PROVE  QueueInv'
<1> USE DEF QueueInv, DeclareReady
<1>1. silenceMs' \in [KnownNodes -> 0..SilenceThresholdMs]
  BY ThresholdNat DEF TypeOK, RecordNodeActivity
<1>2. silentGrants' \in [KnownNodes -> 0..SilentGrantRemovalThreshold]
  BY ThresholdNat DEF TypeOK, RecordNodeActivity
<1>3. CASE n \in Active
  BY <1>1, <1>2, <1>3 DEF TypeOK, QueueSound, CursorInRange, NoDuplicateSeat
<1>4. CASE n \notin Active
  <2> DEFINE len == Len(activeNodeIds)
  <2>1. activeNodeIds' = Append(activeNodeIds, n)
    BY <1>4
  <2>2. len \in Nat /\ activeNodeIds' \in Seq(KnownNodes) /\ Len(activeNodeIds') = len + 1
    BY <2>1, LenProperties, AppendProperties DEF TypeOK
  <2>3. \A i \in 1..len : activeNodeIds'[i] = activeNodeIds[i] /\ activeNodeIds[i] # n
    BY <2>1, <1>4, LenProperties, AppendProperties DEF TypeOK, Active
  <2>4. activeNodeIds'[len + 1] = n
    BY <2>1, AppendProperties DEF TypeOK
  <2>5. NoDuplicateSeat'
    BY <2>2, <2>3, <2>4 DEF QueueSound, NoDuplicateSeat
  <2>6. CursorInRange'
    BY <2>2, EmptySeq DEF QueueSound, CursorInRange, TypeOK
  <2>7. TypeOK'
    BY <1>1, <1>2, <2>2 DEF TypeOK
  <2>8. QED
    BY <2>5, <2>6, <2>7 DEF QueueSound
<1>5. QED
  BY <1>3, <1>4

\* A grant moves the cursor round the queue and leaves the queue alone.
LEMMA NextGrantInv ==
    ASSUME QueueInv, NextGrant
    PROVE  QueueInv'
<1> USE DEF QueueInv, NextGrant
<1>1. Len(activeNodeIds) \in Nat /\ Len(activeNodeIds) > 0
  BY EmptySeq, LenProperties DEF TypeOK
<1>2. CursorNode \in KnownNodes
  BY <1>1, ElementOfSeq DEF TypeOK, QueueSound, CursorInRange, CursorNode
<1>3. silentGrants[CursorNode] \in 0..SilentGrantRemovalThreshold
  BY <1>2 DEF TypeOK
<1>4. SatAdd(silentGrants[CursorNode], 1, SilentGrantRemovalThreshold)
        \in 0..SilentGrantRemovalThreshold
  BY <1>3, ThresholdNat, SatAddInRange
<1>5. silentGrants' \in [KnownNodes -> 0..SilentGrantRemovalThreshold]
  BY <1>2, <1>4, ThresholdNat DEF TypeOK
<1>6. nextIndex' \in Nat /\ nextIndex' < Len(activeNodeIds)
  BY <1>1, ModInRange DEF TypeOK
<1>7. grantIn' \in Nat /\ protectedNode' \in KnownNodes /\ walkIndex' = 0
  BY <1>2, TimingAssumption
<1>8. QED
  BY <1>5, <1>6, <1>7 DEF TypeOK, QueueSound, CursorInRange, NoDuplicateSeat

\* One step of the removal walk keeps the queue well formed.
LEMMA CollectSilentNodeInv ==
    ASSUME QueueInv, CollectSilentNode
    PROVE  QueueInv'
<1> USE DEF QueueInv, CollectSilentNode
<1> DEFINE n == activeNodeIds[walkIndex + 1]
           size == Len(activeNodeIds) - 1
<1>1. size \in Nat /\ walkIndex \in Nat /\ walkIndex <= size /\ nextIndex \in Nat
  BY LenProperties DEF TypeOK
<1>2. nextIndex <= size
  BY <1>1, EmptySeq DEF QueueSound, CursorInRange, TypeOK
<1>3. CASE n # protectedNode /\ IsSilent(n)
  <2>1. /\ activeNodeIds' = EraseAt(activeNodeIds, walkIndex)
        /\ nextIndex' = CursorAfterErase(nextIndex, walkIndex, size)
        /\ UNCHANGED walkIndex
    BY <1>3
  <2>2. /\ activeNodeIds' \in Seq(KnownNodes)
        /\ Len(activeNodeIds') = size
        /\ \A i \in 1..size : activeNodeIds'[i] = IF i <= walkIndex
                                                  THEN activeNodeIds[i]
                                                  ELSE activeNodeIds[i + 1]
    BY <2>1, <1>1, EraseAtProperties DEF TypeOK
  <2>3. /\ nextIndex' \in Nat
        /\ size > 0 => nextIndex' < size
        /\ size = 0 => nextIndex' = 0
    BY <2>1, <1>1, <1>2, CursorAfterEraseInRange
  <2>4. CursorInRange'
    BY <2>2, <2>3, <1>1, EmptySeq DEF CursorInRange
  <2>5. NoDuplicateSeat'
    BY <2>2, <1>1 DEF QueueSound, NoDuplicateSeat
  <2>6. TypeOK'
    BY <2>1, <2>2, <2>3 DEF TypeOK
  <2>7. QED
    BY <2>4, <2>5, <2>6 DEF QueueSound
<1>4. CASE ~(n # protectedNode /\ IsSilent(n))
  <2>1. walkIndex' = walkIndex + 1 /\ UNCHANGED <<activeNodeIds, nextIndex>>
    BY <1>4
  <2>2. QED
    BY <2>1, <1>1 DEF TypeOK, QueueSound, CursorInRange, NoDuplicateSeat
<1>5. QED
  BY <1>3, <1>4

\* The passing of time changes the counters only, within their bounds.
LEMMA TickInv ==
    ASSUME QueueInv, Tick
    PROVE  QueueInv'
<1> USE DEF QueueInv, Tick
<1>1. \A n \in KnownNodes :
        SatAdd(silenceMs[n], 1, SilenceThresholdMs) \in 0..SilenceThresholdMs
  BY ThresholdNat, SatAddInRange DEF TypeOK
<1>2. silenceMs' \in [KnownNodes -> 0..SilenceThresholdMs]
  BY <1>1
<1>3. grantIn' \in Nat
  BY DEF TypeOK
<1>4. QED
  BY <1>2, <1>3 DEF TypeOK, QueueSound, CursorInRange, NoDuplicateSeat

\* Every step of the server loop keeps the queue well formed.
LEMMA QueueInvNext == QueueInv /\ [Next]_schedVars => QueueInv'
<1> SUFFICES ASSUME QueueInv, [Next]_schedVars PROVE QueueInv'
  OBVIOUS
<1>1. ASSUME NEW n \in KnownNodes, DeclareReady(n) PROVE QueueInv'
  BY <1>1, DeclareReadyInv
<1>2. ASSUME NEW n \in KnownNodes, ObserveUplinkData(n) PROVE QueueInv'
  <2>1. /\ silenceMs' \in [KnownNodes -> 0..SilenceThresholdMs]
        /\ silentGrants' \in [KnownNodes -> 0..SilentGrantRemovalThreshold]
    BY <1>2, ThresholdNat DEF QueueInv, TypeOK, ObserveUplinkData, RecordNodeActivity
  <2>2. QED
    BY <1>2, <2>1 DEF ObserveUplinkData, QueueInv, TypeOK, QueueSound,
       CursorInRange, NoDuplicateSeat
<1>3. CASE NextGrant
  BY <1>3, NextGrantInv
<1>4. CASE IdlePoll
  BY <1>4, TimingAssumption DEF IdlePoll, QueueInv, TypeOK, QueueSound,
     CursorInRange, NoDuplicateSeat
<1>5. CASE CollectSilentNode
  BY <1>5, CollectSilentNodeInv
<1>6. CASE CollectDone
  BY <1>6 DEF CollectDone, QueueInv, TypeOK, QueueSound, CursorInRange,
     NoDuplicateSeat
<1>7. CASE Tick
  BY <1>7, TickInv
<1>8. CASE UNCHANGED schedVars
  BY <1>8 DEF schedVars, QueueInv, TypeOK, QueueSound, CursorInRange, NoDuplicateSeat
<1>9. QED
  BY <1>1, <1>2, <1>3, <1>4, <1>5, <1>6, <1>7, <1>8 DEF Next

\* Every reachable state of the scheduler has the types of TypeOK.
THEOREM TypeCorrect == Spec => []TypeOK
<1>1. QueueInv => TypeOK
  BY DEF QueueInv
<1>2. QED
  BY <1>1, QueueInvInit, QueueInvNext, PTL DEF Spec

\* The server never indexes active_node_ids out of range and never gives a node
\* two seats, whatever the READY frames, data, removals and timing.
THEOREM QueueIsSound == Spec => []QueueSound
<1>1. QueueInv => QueueSound
  BY DEF QueueInv
<1>2. QED
  BY <1>1, QueueInvInit, QueueInvNext, PTL DEF Spec

-----------------------------------------------------------------------------
\* Erasing a silent node leaves the turn with the node that had it, or erases
\* the node that had it.
LEMMA EraseKeepsTurn ==
    ASSUME QueueInv, CollectSilentNode, activeNodeIds # <<>>
    PROVE  \/ activeNodeIds' # <<>> /\ CursorNode' = CursorNode
           \/ CursorNode \notin Active'
<1> DEFINE n == activeNodeIds[walkIndex + 1]
           size == Len(activeNodeIds) - 1
<1>1. /\ size \in Nat /\ walkIndex \in Nat /\ walkIndex <= size
      /\ walkIndex < Len(activeNodeIds)
      /\ nextIndex \in Nat /\ nextIndex <= size
  BY LenProperties, EmptySeq
     DEF QueueInv, TypeOK, QueueSound, CursorInRange, CollectSilentNode
<1>2. CASE n # protectedNode /\ IsSilent(n)
  <2>1. /\ activeNodeIds' = EraseAt(activeNodeIds, walkIndex)
        /\ nextIndex' = CursorAfterErase(nextIndex, walkIndex, size)
    BY <1>2 DEF CollectSilentNode
  <2>2. /\ activeNodeIds' \in Seq(KnownNodes)
        /\ Len(activeNodeIds') = size
        /\ \A i \in 1..size : activeNodeIds'[i] = IF i <= walkIndex
                                                  THEN activeNodeIds[i]
                                                  ELSE activeNodeIds[i + 1]
    BY <2>1, <1>1, EraseAtProperties DEF QueueInv, TypeOK
  <2>3. CASE nextIndex = walkIndex
    <3>1. \A i \in 1..size : activeNodeIds'[i] # CursorNode
      BY <2>2, <2>3, <1>1 DEF QueueInv, QueueSound, NoDuplicateSeat, CursorNode
    <3>2. QED
      BY <3>1, <2>2 DEF Active
  <2>4. CASE walkIndex < nextIndex
    <3> HIDE DEF size
    <3>1. nextIndex' = nextIndex - 1 /\ size > 0
      BY <2>1, <2>4, <1>1 DEF CursorAfterErase
    <3>2. CursorNode' = CursorNode /\ activeNodeIds' # <<>>
      BY <3>1, <2>2, <2>4, <1>1, EmptySeq DEF CursorNode
    <3>3. QED
      BY <3>2
  <2>5. CASE nextIndex < walkIndex
    <3> HIDE DEF size
    <3>1. nextIndex' = nextIndex /\ size > 0
      BY <2>1, <2>5, <1>1, ModInRange DEF CursorAfterErase
    <3>2. CursorNode' = CursorNode /\ activeNodeIds' # <<>>
      BY <3>1, <2>2, <2>5, <1>1, EmptySeq DEF CursorNode
    <3>3. QED
      BY <3>2
  <2>6. QED
    BY <2>3, <2>4, <2>5, <1>1
<1>3. CASE ~(n # protectedNode /\ IsSilent(n))
  BY <1>3 DEF CollectSilentNode, CursorNode
<1>4. QED
  BY <1>2, <1>3

\* The removal of silent nodes never costs another node its turn.
THEOREM TurnIsKept == Spec => TurnKept
<1>1. QueueInv /\ [Next]_schedVars =>
        [ CollectSilentNode /\ activeNodeIds # <<>> =>
            \/ activeNodeIds' # <<>> /\ CursorNode' = CursorNode
            \/ CursorNode \notin Active' ]_schedVars
  BY EraseKeepsTurn
<1>2. QED
  BY <1>1, QueueInvInit, QueueInvNext, PTL DEF Spec, TurnKept

-----------------------------------------------------------------------------
(***************************************************************************)
(* The bypass bound of TokenFairness.  BoundedBypass is not inductive: how *)
(* often Overtaker may still be granted depends on where it and Waiter sit *)
(* relative to the cursor, and on how near Overtaker is to its removal.    *)
(* Bypass states it for a queue s, a cursor c, Overtaker's silent grants g *)
(* and the count k.                                                        *)
(***************************************************************************)

\* Node n holds the seat with the 0-based index p in queue s.
Seat(s, n, p) == p \in 0..(Len(s) - 1) /\ s[p + 1] = n

\* No node has two seats in s.
OneSeatEach(s) == \A i, j \in 1..Len(s) : s[i] = s[j] => i = j

\* While the cursor is past Waiter, Overtaker may be granted twice: after its
\* second silent grant it can be removed, and a new READY appends it in front of
\* the cursor again.  But that READY clears its silent grants, so that it cannot
\* be removed once more before the cursor has come round.
Bypass(s, c, g, k) ==
    /\ k \in 0..2
    /\ \A p \in Nat : Seat(s, Waiter, p) /\ p < c =>
         /\ (\A q \in Nat : ~Seat(s, Overtaker, q)) => k <= 1
         /\ \A q \in Nat : Seat(s, Overtaker, q) =>
              /\ q < p => k = 0
              /\ p < q /\ c <= q => k = 0 \/ (k = 1 /\ g = 0)
              /\ p < q /\ q < c => k <= 1 \/ g <= 1
    /\ \A p, q \in Nat :
         Seat(s, Waiter, p) /\ Seat(s, Overtaker, q) /\ c <= q /\ q < p => k = 0

BypassInv == Bypass(activeNodeIds, nextIndex, silentGrants[Overtaker], overtaken)

FairInv == QueueInv /\ BypassInv

\* Two different nodes are measured.
MeasuredPair == {Waiter, Overtaker} \subseteq KnownNodes /\ Waiter # Overtaker

\* A new count allows everything.
LEMMA BypassZero == \A s, c, g : Bypass(s, c, g, 0)
  BY DEF Bypass

\* Fewer silent grants allow no more.
LEMMA BypassFewer ==
    ASSUME NEW s, NEW c, NEW k, NEW g \in Nat, NEW h \in Nat, h <= g, Bypass(s, c, g, k)
    PROVE  Bypass(s, c, h, k)
<1>1. g = 0 => h = 0
  OBVIOUS
<1>2. g <= 1 => h <= 1
  OBVIOUS
<1>3. QED
  BY <1>1, <1>2 DEF Bypass

\* A node appended by READY sits behind every other one, at or after the cursor.
LEMMA BypassAppend ==
    ASSUME NEW s \in Seq(KnownNodes), NEW c \in Nat, c < Len(s) \/ c = 0,
           NEW n \in KnownNodes, n # Waiter,
           \A q \in Nat : ~Seat(s, n, q),
           NEW g, NEW h, n = Overtaker => h = 0, n # Overtaker => h = g,
           NEW k, Bypass(s, c, g, k)
    PROVE  Bypass(Append(s, n), c, h, k)
<1> DEFINE t == Append(s, n)
           len == Len(s)
<1>1. len \in Nat /\ Len(t) = len + 1
  BY LenProperties, AppendProperties
<1>2. \A i \in 1..len : t[i] = s[i]
  BY AppendProperties
<1>3. t[len + 1] = n
  BY AppendProperties
<1>4. \A m, p : Seat(t, m, p) <=> Seat(s, m, p) \/ (p = len /\ m = n)
  <2> SUFFICES ASSUME NEW m, NEW p
               PROVE  Seat(t, m, p) <=> Seat(s, m, p) \/ (p = len /\ m = n)
    OBVIOUS
  <2> HIDE DEF t, len
  <2>1. CASE p \in 0..(len - 1)
    BY <2>1, <1>1, <1>2 DEF Seat, len
  <2>2. CASE p = len
    BY <2>2, <1>1, <1>3 DEF Seat, len
  <2>3. CASE p \notin 0..len
    BY <2>3, <1>1 DEF Seat, len
  <2>4. QED
    BY <2>1, <2>2, <2>3, <1>1
<1>5. \A m, p : Seat(s, m, p) => p \in Nat /\ p < len
  BY <1>1 DEF Seat
<1> HIDE DEF t, len
<1>6. \A p : Seat(t, Waiter, p) <=> Seat(s, Waiter, p)
  BY <1>4
<1>7. CASE n # Overtaker
  <2>1. \A p : Seat(t, Overtaker, p) <=> Seat(s, Overtaker, p)
    BY <1>4, <1>7
  <2>2. Bypass(t, c, h, k)
    BY <2>1, <1>6, <1>7 DEF Bypass
  <2>3. QED
    BY <2>2 DEF t
<1>8. CASE n = Overtaker
  <2>1. \A q : Seat(t, Overtaker, q) <=> q = len
    BY <1>4, <1>5, <1>8
  <2>2. h = 0 /\ c <= len
    BY <1>8, <1>1 DEF len
  <2>3. k \in 0..2
    BY DEF Bypass
  <2>4. ASSUME NEW p \in Nat, Seat(t, Waiter, p), p < c
        PROVE  k <= 1 /\ p < len
    BY <2>4, <1>5, <1>6, <1>8 DEF Bypass
  <2>5. Bypass(t, c, h, k)
    BY <2>1, <2>2, <2>3, <2>4, <1>1, <1>5, <1>6 DEF Bypass
  <2>6. QED
    BY <2>5 DEF t
<1>9. QED
  BY <1>7, <1>8

\* The removal of a silent node.  Overtaker is removed with two silent grants,
\* hence not after it has been granted twice past Waiter.
LEMMA BypassErase ==
    ASSUME NEW s \in Seq(KnownNodes), OneSeatEach(s),
           NEW c \in Nat, c < Len(s), NEW i \in Nat, i < Len(s),
           s[i + 1] # Waiter, NEW g \in Nat, s[i + 1] = Overtaker => g >= 2,
           NEW k, Bypass(s, c, g, k)
    PROVE  Bypass(EraseAt(s, i), CursorAfterErase(c, i, Len(s) - 1), g, k)
<1> DEFINE t == EraseAt(s, i)
           size == Len(s) - 1
           d == CursorAfterErase(c, i, size)
           old(p) == IF p < i THEN p ELSE p + 1
<1>1. size \in Nat /\ c <= size /\ i <= size
  BY LenProperties
<1>2. /\ Len(t) = size
      /\ \A j \in 1..size : t[j] = IF j <= i THEN s[j] ELSE s[j + 1]
  BY <1>1, EraseAtProperties
<1>3. d \in Nat /\ (d = 0 \/ d = IF i < c THEN c - 1 ELSE c)
  BY <1>1, ModInRange DEF CursorAfterErase
<1>4. size > 0 => d = IF i < c THEN c - 1 ELSE IF c = size THEN 0 ELSE c
  <2> HIDE DEF size
  <2>1. CASE i < c \/ c = size
    BY <2>1, <1>1 DEF CursorAfterErase
  <2>2. CASE c < size /\ ~(i < c)
    <3>1. size > 0 => c % size = c
      BY <2>2, <1>1, ModInRange
    <3>2. QED
      BY <3>1, <2>2, <1>1 DEF CursorAfterErase
  <2>3. QED
    BY <2>1, <2>2, <1>1
<1>5. \A m : \A p \in Nat : Seat(t, m, p) <=> p < size /\ Seat(s, m, old(p))
  <2> SUFFICES ASSUME NEW m, NEW p \in Nat
               PROVE  Seat(t, m, p) <=> p < size /\ Seat(s, m, old(p))
    OBVIOUS
  <2> HIDE DEF t, size
  <2>0. Len(s) = size + 1
    BY LenProperties DEF size
  <2>1. CASE p < size
    <3>1. t[p + 1] = s[old(p) + 1] /\ old(p) \in 0..size
      BY <2>1, <1>1, <1>2
    <3>2. QED
      BY <3>1, <2>1, <2>0, <1>1, <1>2 DEF Seat
  <2>2. CASE p >= size
    BY <2>2, <1>1, <1>2 DEF Seat
  <2>3. QED
    BY <2>1, <2>2, <1>1
<1>6. \A m : m # s[i + 1] => \A q \in Nat : Seat(s, m, q) =>
        \E p \in Nat : Seat(t, m, p) /\ old(p) = q
  <2> SUFFICES ASSUME NEW m, m # s[i + 1], NEW q \in Nat, Seat(s, m, q)
               PROVE  \E p \in Nat : Seat(t, m, p) /\ old(p) = q
    OBVIOUS
  <2>1. q # i /\ q <= size
    BY <1>1 DEF Seat
  <2> HIDE DEF t, size
  <2>2. CASE q < i
    BY <2>1, <2>2, <1>1, <1>5
  <2>3. CASE q > i
    <3>1. q - 1 \in Nat /\ old(q - 1) = q /\ q - 1 < size
      BY <2>1, <2>3, <1>1
    <3>2. QED
      BY <3>1, <1>5
  <2>4. QED
    BY <2>1, <2>2, <2>3
<1>7. \A m : \A p, q \in Nat : Seat(s, m, p) /\ Seat(s, m, q) => p = q
  BY <1>1 DEF Seat, OneSeatEach
<1>8. k \in 0..2
  BY DEF Bypass
<1>9. s[i + 1] = Overtaker => \A q \in Nat : ~Seat(t, Overtaker, q)
  <2> SUFFICES ASSUME s[i + 1] = Overtaker, NEW q \in Nat, Seat(t, Overtaker, q)
               PROVE  FALSE
    OBVIOUS
  <2>1. Seat(s, Overtaker, old(q)) /\ old(q) \in Nat /\ old(q) # i
    BY <1>5
  <2>2. Seat(s, Overtaker, i)
    BY <1>1 DEF Seat
  <2>3. QED
    BY <2>1, <2>2, <1>7
<1>10. \A p \in Nat : /\ old(p) \in Nat /\ old(p) # i
                      /\ p < d => old(p) < c
                      /\ p < size /\ d <= p /\ d # 0 => c <= old(p)
  <2> SUFFICES ASSUME NEW p \in Nat
               PROVE  /\ old(p) \in Nat /\ old(p) # i
                      /\ p < d => old(p) < c
                      /\ p < size /\ d <= p /\ d # 0 => c <= old(p)
    OBVIOUS
  <2> HIDE DEF size, d
  <2>1. QED
    BY <1>1, <1>3, <1>4
<1>11. \A p, q \in Nat : p < q <=> old(p) < old(q)
  OBVIOUS
<1> HIDE DEF t, size, d, old
<1>12. ASSUME NEW p \in Nat, Seat(t, Waiter, p), p < d
       PROVE  /\ (\A q \in Nat : ~Seat(t, Overtaker, q)) => k <= 1
              /\ \A q \in Nat : Seat(t, Overtaker, q) =>
                   /\ q < p => k = 0
                   /\ p < q /\ d <= q => k = 0 \/ (k = 1 /\ g = 0)
                   /\ p < q /\ q < d => k <= 1 \/ g <= 1
  <2>1. Seat(s, Waiter, old(p)) /\ old(p) \in Nat /\ old(p) < c /\ d # 0
    BY <1>12, <1>5, <1>10, <1>3
  <2>2. ASSUME NEW q \in Nat, Seat(t, Overtaker, q)
        PROVE  /\ q < p => k = 0
               /\ p < q /\ d <= q => k = 0 \/ (k = 1 /\ g = 0)
               /\ p < q /\ q < d => k <= 1 \/ g <= 1
    <3>1. Seat(s, Overtaker, old(q)) /\ old(q) \in Nat /\ q < size
      BY <2>2, <1>5, <1>10
    <3>2. /\ old(q) < old(p) => k = 0
          /\ old(p) < old(q) /\ c <= old(q) => k = 0 \/ (k = 1 /\ g = 0)
          /\ old(p) < old(q) /\ old(q) < c => k <= 1 \/ g <= 1
      BY <2>1, <3>1 DEF Bypass
    <3>3. QED
      BY <2>1, <3>1, <3>2, <1>10, <1>11
  <2>3. ASSUME \A q \in Nat : ~Seat(t, Overtaker, q) PROVE k <= 1
    <3>1. CASE \A q \in Nat : ~Seat(s, Overtaker, q)
      BY <3>1, <2>1 DEF Bypass
    <3>2. CASE \E q \in Nat : Seat(s, Overtaker, q)
      <4>1. PICK q \in Nat : Seat(s, Overtaker, q)
        BY <3>2
      <4>2. s[i + 1] = Overtaker
        BY <4>1, <2>3, <1>6
      <4>3. g >= 2 /\ Waiter # Overtaker
        BY <4>2
      <4>4. q # old(p)
        BY <4>1, <4>3, <2>1 DEF Seat
      <4>5. /\ q < old(p) => k = 0
            /\ old(p) < q /\ c <= q => k = 0 \/ (k = 1 /\ g = 0)
            /\ old(p) < q /\ q < c => k <= 1 \/ g <= 1
        BY <2>1, <4>1 DEF Bypass
      <4>6. QED
        BY <4>3, <4>4, <4>5, <2>1, <1>8
    <3>3. QED
      BY <3>1, <3>2
  <2>4. QED
    BY <2>2, <2>3
<1>13. ASSUME NEW p \in Nat, NEW q \in Nat,
              Seat(t, Waiter, p), Seat(t, Overtaker, q), d <= q, q < p
       PROVE  k = 0
  <2>1. /\ Seat(s, Waiter, old(p)) /\ Seat(s, Overtaker, old(q)) /\ old(q) < old(p)
        /\ old(p) \in Nat /\ old(q) \in Nat /\ p < size /\ q < size
    BY <1>13, <1>5, <1>10, <1>11
  <2>2. CASE old(p) < c
    BY <2>1, <2>2 DEF Bypass
  <2>3. CASE c <= old(q)
    BY <2>1, <2>3 DEF Bypass
  <2>4. CASE c <= old(p) /\ old(q) < c
    <3>1. d = 0 /\ size > 0
      BY <2>1, <2>4, <1>13, <1>10, <1>1, <1>3
    <3>2. c = size \/ (i < c /\ c = 1) \/ c = 0
      BY <3>1, <1>4, <1>1
    <3>3. c = size => old(p) = c
      <4>1. old(p) <= size
        BY <2>1, <1>1 DEF old
      <4>2. QED
        BY <4>1, <2>4, <2>1
    <3>4. CASE c = size
      <4>1. i # size
        BY <3>3, <3>4, <1>10
      <4>2. QED
        BY <4>1, <3>1, <3>4, <1>1, <1>4, <1>13, <2>1, <2>4, <1>10 DEF old
    <3>5. CASE i < c /\ c = 1
      BY <3>5, <2>4, <2>1, <1>1, <1>10
    <3>6. QED
      BY <3>2, <3>4, <3>5, <2>4, <2>1
  <2>5. QED
    BY <2>2, <2>3, <2>4, <2>1
<1>14. Bypass(t, d, g, k)
  BY <1>8, <1>12, <1>13 DEF Bypass
<1>15. QED
  BY <1>14 DEF t, d, size

\* A grant to the node under the cursor.  Granted twice past Waiter, Overtaker
\* has at most one silent grant.
LEMMA BypassGrant ==
    ASSUME NEW s \in Seq(KnownNodes), OneSeatEach(s),
           NEW c \in Nat, c < Len(s), s[c + 1] # Waiter,
           NEW d \in Nat, (d = 0 /\ c = Len(s) - 1) \/ (d = c + 1 /\ c < Len(s) - 1),
           NEW g \in Nat, NEW h \in Nat, h <= g + 1,
           s[c + 1] # Overtaker => h = g,
           NEW k, NEW l \in Nat, l = IF s[c + 1] = Overtaker THEN k + 1 ELSE k,
           \E p \in Nat : Seat(s, Waiter, p),
           Bypass(s, c, g, k)
    PROVE  Bypass(s, d, h, l)
<1>1. Len(s) \in Nat /\ Seat(s, s[c + 1], c)
  BY LenProperties DEF Seat
<1>2. \A m : \A p, q \in Nat : Seat(s, m, p) /\ Seat(s, m, q) => p = q
  BY <1>1 DEF Seat, OneSeatEach
<1>3. \A m : \A p \in Nat : Seat(s, m, p) => p < Len(s)
  BY <1>1 DEF Seat
<1>4. k \in 0..2
  BY DEF Bypass
<1>5. \A p \in Nat : Seat(s, Waiter, p) => p # c
  BY DEF Seat
<1>6. CASE s[c + 1] # Overtaker
  <2>1. h = g /\ l = k
    BY <1>6
  <2>2. \A q \in Nat : Seat(s, Overtaker, q) => q # c
    BY <1>6 DEF Seat
  <2>3. ASSUME NEW p \in Nat, Seat(s, Waiter, p), p < d
        PROVE  p < c /\ d = c + 1
    BY <2>3, <1>5
  <2>4. \A p \in Nat : Seat(s, Waiter, p) /\ p < d =>
          /\ (\A q \in Nat : ~Seat(s, Overtaker, q)) => k <= 1
          /\ \A q \in Nat : Seat(s, Overtaker, q) =>
               /\ q < p => k = 0
               /\ p < q /\ d <= q => k = 0 \/ (k = 1 /\ g = 0)
               /\ p < q /\ q < d => k <= 1 \/ g <= 1
    <3> SUFFICES ASSUME NEW p \in Nat, Seat(s, Waiter, p), p < d
                 PROVE  /\ (\A q \in Nat : ~Seat(s, Overtaker, q)) => k <= 1
                        /\ \A q \in Nat : Seat(s, Overtaker, q) =>
                             /\ q < p => k = 0
                             /\ p < q /\ d <= q => k = 0 \/ (k = 1 /\ g = 0)
                             /\ p < q /\ q < d => k <= 1 \/ g <= 1
      OBVIOUS
    <3>1. p < c /\ d = c + 1
      BY <2>3
    <3>2. (\A q \in Nat : ~Seat(s, Overtaker, q)) => k <= 1
      BY <3>1 DEF Bypass
    <3>3. ASSUME NEW q \in Nat, Seat(s, Overtaker, q)
          PROVE  /\ q < p => k = 0
                 /\ p < q /\ d <= q => k = 0 \/ (k = 1 /\ g = 0)
                 /\ p < q /\ q < d => k <= 1 \/ g <= 1
      <4>1. q # c
        BY <3>3, <2>2
      <4>2. /\ q < p => k = 0
            /\ p < q /\ c <= q => k = 0 \/ (k = 1 /\ g = 0)
            /\ p < q /\ q < c => k <= 1 \/ g <= 1
        BY <3>1, <3>3 DEF Bypass
      <4>3. QED
        BY <4>1, <4>2, <3>1
    <3>4. QED
      BY <3>2, <3>3
  <2>5. ASSUME NEW p \in Nat, NEW q \in Nat,
               Seat(s, Waiter, p), Seat(s, Overtaker, q), d <= q, q < p
        PROVE  k = 0
    <3>1. p # c /\ q # c /\ p < Len(s)
      BY <2>5, <1>3, <1>5, <2>2
    <3>2. CASE d = c + 1
      BY <3>1, <3>2, <2>5 DEF Bypass
    <3>3. CASE d = 0 /\ c = Len(s) - 1
      <4>1. p < c
        BY <3>1, <3>3, <1>1
      <4>2. QED
        BY <4>1, <2>5 DEF Bypass
    <3>4. QED
      BY <3>2, <3>3
  <2>6. QED
    BY <2>1, <2>4, <2>5, <1>4 DEF Bypass
<1>7. CASE s[c + 1] = Overtaker
  <2>1. Seat(s, Overtaker, c) /\ l = k + 1
    BY <1>1, <1>7
  <2>2. PICK w \in Nat : Seat(s, Waiter, w)
    OBVIOUS
  <2>3. w < c => k = 0 \/ (k = 1 /\ g = 0)
    BY <2>1, <2>2 DEF Bypass
  <2>4. c < w => k = 0
    BY <2>1, <2>2 DEF Bypass
  <2>5. w # c
    BY <2>2, <1>5
  <2>6. l \in 0..2 /\ (l <= 1 \/ h <= 1)
    BY <2>1, <2>3, <2>4, <2>5, <1>4
  <2>7. \A q \in Nat : Seat(s, Overtaker, q) => q = c
    BY <2>1, <1>2
  <2>8. \A p \in Nat : Seat(s, Waiter, p) => p < Len(s) /\ p # c
    BY <1>3, <1>5
  <2>9. \A p \in Nat : Seat(s, Waiter, p) /\ p < d => p < c /\ c < d
    BY <2>8
  <2>10. \A p \in Nat : Seat(s, Waiter, p) /\ d <= c => ~(c < p)
    BY <2>8, <1>1
  <2>11. QED
    BY <2>1, <2>6, <2>7, <2>9, <2>10 DEF Bypass
<1>8. QED
  BY <1>6, <1>7

\* A step without a grant counts nothing.
LEMMA NoGrantNoCount ==
    ASSUME MeasuredPair, FairInv, CountOvertaking, Waiter \in Active, Waiter \in Active',
           protectedNode # NoNode \/ protectedNode' = NoNode
    PROVE  overtaken' = overtaken
  BY NodesAssumption DEF CountOvertaking, MeasuredPair

\* The silent grants of Overtaker are a number.
LEMMA SilentGrantsNat ==
    ASSUME MeasuredPair, QueueInv
    PROVE  silentGrants[Overtaker] \in 0..2
  BY DEF MeasuredPair, QueueInv, TypeOK, SilentGrantRemovalThreshold

\* The facts of the queue that the lemmas about it assume.
LEMMA QueueFacts ==
    ASSUME QueueInv
    PROVE  /\ activeNodeIds \in Seq(KnownNodes)
           /\ OneSeatEach(activeNodeIds)
           /\ nextIndex \in Nat
           /\ Len(activeNodeIds) \in Nat
           /\ nextIndex < Len(activeNodeIds) \/ nextIndex = 0
           /\ activeNodeIds # <<>> => nextIndex < Len(activeNodeIds)
           /\ \A n : n \in Active <=> \E p \in Nat : Seat(activeNodeIds, n, p)
<1>1. /\ activeNodeIds \in Seq(KnownNodes)
      /\ OneSeatEach(activeNodeIds)
      /\ nextIndex \in Nat
      /\ Len(activeNodeIds) \in Nat
      /\ nextIndex < Len(activeNodeIds) \/ nextIndex = 0
      /\ activeNodeIds # <<>> => nextIndex < Len(activeNodeIds)
  BY LenProperties DEF QueueInv, TypeOK, QueueSound, CursorInRange,
     NoDuplicateSeat, OneSeatEach
<1>2. ASSUME NEW n, n \in Active PROVE \E p \in Nat : Seat(activeNodeIds, n, p)
  <2>1. PICK j \in 1..Len(activeNodeIds) : activeNodeIds[j] = n
    BY <1>2 DEF Active
  <2>2. j - 1 \in Nat /\ Seat(activeNodeIds, n, j - 1)
    BY <2>1, <1>1 DEF Seat
  <2>3. QED
    BY <2>2
<1>3. ASSUME NEW n, NEW p \in Nat, Seat(activeNodeIds, n, p) PROVE n \in Active
  BY <1>3, <1>1 DEF Active, Seat
<1>4. QED
  BY <1>1, <1>2, <1>3

\* Every step of the server loop keeps the bypass bound.
LEMMA BypassNext ==
    ASSUME MeasuredPair, FairInv, [FNext]_<<schedVars, overtaken>>
    PROVE  BypassInv'
<1> DEFINE s == activeNodeIds
           c == nextIndex
           g == silentGrants[Overtaker]
<1>1. QueueInv /\ Bypass(s, c, g, overtaken) /\ overtaken \in 0..2
  BY DEF FairInv, BypassInv, Bypass
<1>2. g \in 0..2
  BY <1>1, SilentGrantsNat
<1>3. CASE UNCHANGED <<schedVars, overtaken>>
  BY <1>1, <1>3 DEF schedVars, BypassInv
<1>4. CASE FNext /\ (Waiter \notin Active' \/ Waiter \notin Active)
  <2>1. overtaken' = 0
    BY <1>4 DEF FNext, CountOvertaking
  <2>2. QED
    BY <2>1, BypassZero DEF BypassInv
<1>5. CASE FNext /\ Waiter \in Active' /\ Waiter \in Active
  <2>1. CountOvertaking /\ Next
    BY <1>5 DEF FNext
  <2>2. \E p \in Nat : Seat(s, Waiter, p)
    BY <1>1, <1>5, QueueFacts
  <2>3. ASSUME NEW n \in KnownNodes, DeclareReady(n) PROVE BypassInv'
    <3>1. overtaken' = overtaken
      BY <2>1, <2>3, <1>5, NoGrantNoCount DEF DeclareReady, LoopIdle
    <3>2. silentGrants' = [silentGrants EXCEPT ![n] = 0] /\ nextIndex' = nextIndex
      BY <2>3 DEF DeclareReady, RecordNodeActivity
    <3>3. silentGrants'[Overtaker] = IF n = Overtaker THEN 0 ELSE g
      BY <3>2, <1>1 DEF QueueInv, TypeOK, MeasuredPair
    <3>4. CASE n \in Active
      <4>1. activeNodeIds' = activeNodeIds
        BY <2>3, <3>4 DEF DeclareReady
      <4>2. silentGrants'[Overtaker] \in Nat /\ silentGrants'[Overtaker] <= g
        BY <3>3, <1>2
      <4>3. Bypass(s, c, silentGrants'[Overtaker], overtaken)
        BY <4>2, <1>1, <1>2, BypassFewer
      <4>4. QED
        BY <4>1, <4>3, <3>1, <3>2 DEF BypassInv
    <3>5. CASE n \notin Active
      <4>1. activeNodeIds' = Append(activeNodeIds, n)
        BY <2>3, <3>5 DEF DeclareReady
      <4>2. n # Waiter /\ \A q \in Nat : ~Seat(s, n, q)
        BY <3>5, <1>1, <1>5, QueueFacts
      <4>3. /\ n = Overtaker => silentGrants'[Overtaker] = 0
            /\ n # Overtaker => silentGrants'[Overtaker] = g
        BY <3>3
      <4>4. s \in Seq(KnownNodes) /\ c \in Nat /\ (c < Len(s) \/ c = 0)
        BY <1>1, QueueFacts
      <4> HIDE DEF s, c, g
      <4>5. Bypass(Append(s, n), c, silentGrants'[Overtaker], overtaken)
        BY <4>2, <4>3, <4>4, <1>1, BypassAppend
      <4>6. QED
        BY <4>1, <4>5, <3>1, <3>2 DEF BypassInv, s, c
    <3>6. QED
      BY <3>4, <3>5
  <2>4. ASSUME NEW n \in KnownNodes, ObserveUplinkData(n) PROVE BypassInv'
    <3>1. overtaken' = overtaken
      BY <2>1, <2>4, <1>5, NoGrantNoCount DEF ObserveUplinkData, LoopIdle
    <3>2. /\ silentGrants' = [silentGrants EXCEPT ![n] = 0]
          /\ nextIndex' = nextIndex /\ activeNodeIds' = activeNodeIds
      BY <2>4 DEF ObserveUplinkData, RecordNodeActivity
    <3>3. silentGrants'[Overtaker] = IF n = Overtaker THEN 0 ELSE g
      BY <3>2, <1>1 DEF QueueInv, TypeOK, MeasuredPair
    <3>4. silentGrants'[Overtaker] \in Nat /\ silentGrants'[Overtaker] <= g
      BY <3>3, <1>2
    <3>5. Bypass(s, c, silentGrants'[Overtaker], overtaken)
      BY <3>4, <1>1, <1>2, BypassFewer
    <3>6. QED
      BY <3>5, <3>1, <3>2 DEF BypassInv
  <2>5. CASE NextGrant
    <3>1. /\ nextIndex' = (c + 1) % Len(s) /\ activeNodeIds' = s
          /\ protectedNode = NoNode /\ protectedNode' = s[c + 1] /\ s # <<>>
      BY <2>5 DEF NextGrant, LoopIdle, CursorNode
    <3>2. /\ s \in Seq(KnownNodes) /\ OneSeatEach(s) /\ c \in Nat /\ c < Len(s)
          /\ Len(s) \in Nat
      BY <3>1, <1>1, QueueFacts
    <3>3. s[c + 1] \in KnownNodes
      BY <3>2, ElementOfSeq
    <3>4. CASE s[c + 1] = Waiter
      <4>1. overtaken' = 0
        BY <2>1, <3>1, <3>4, <1>5 DEF CountOvertaking
      <4>2. QED
        BY <4>1, BypassZero DEF BypassInv
    <3>5. CASE s[c + 1] # Waiter
      <4>1. overtaken' = IF s[c + 1] = Overtaker THEN SatAdd(overtaken, 1, MaxOvertaken)
                                                ELSE overtaken
        BY <2>1, <3>1, <3>5, <1>5 DEF CountOvertaking
      <4>2. SatAdd(overtaken, 1, MaxOvertaken) = overtaken + 1
        BY <1>1 DEF SatAdd, MaxOvertaken
      <4>3. overtaken' = (IF s[c + 1] = Overtaker THEN overtaken + 1 ELSE overtaken)
             /\ overtaken' \in Nat
        BY <4>1, <4>2, <1>1
      <4>4. silentGrants' = [silentGrants EXCEPT ![s[c + 1]] =
                               IF silenceMs[s[c + 1]] = 0 THEN 0
                               ELSE SatAdd(@, 1, SilentGrantRemovalThreshold)]
        BY <2>5 DEF NextGrant, CursorNode
      <4>5. /\ silentGrants'[Overtaker] \in Nat /\ silentGrants'[Overtaker] <= g + 1
            /\ s[c + 1] # Overtaker => silentGrants'[Overtaker] = g
        <5>1. CASE s[c + 1] # Overtaker
          <6>1. silentGrants'[Overtaker] = g
            BY <4>4, <5>1, <1>1 DEF QueueInv, TypeOK, MeasuredPair
          <6>2. QED
            BY <6>1, <5>1, <1>2
        <5>2. CASE s[c + 1] = Overtaker
          <6>1. silentGrants'[Overtaker] =
                  IF silenceMs[Overtaker] = 0 THEN 0
                  ELSE SatAdd(g, 1, SilentGrantRemovalThreshold)
            BY <4>4, <5>2, <1>1 DEF QueueInv, TypeOK, MeasuredPair
          <6>2. SatAdd(g, 1, SilentGrantRemovalThreshold) \in 0..(g + 1)
            BY <1>2 DEF SatAdd, SilentGrantRemovalThreshold
          <6>3. QED
            BY <6>1, <6>2, <5>2, <1>2
        <5>3. QED
          BY <5>1, <5>2
      <4>6. /\ nextIndex' \in Nat
            /\ \/ nextIndex' = 0 /\ c = Len(s) - 1
               \/ nextIndex' = c + 1 /\ c < Len(s) - 1
        <5>1. CASE c < Len(s) - 1
          BY <5>1, <3>1, <3>2, ModInRange
        <5>2. CASE c = Len(s) - 1
          BY <5>2, <3>1, <3>2
        <5>3. QED
          BY <5>1, <5>2, <3>2
      <4> HIDE DEF s, c, g
      <4>7. Bypass(s, nextIndex', silentGrants'[Overtaker], overtaken')
        <5>1. ASSUME NEW d \in Nat, NEW h \in Nat, NEW l \in Nat,
                     (d = 0 /\ c = Len(s) - 1) \/ (d = c + 1 /\ c < Len(s) - 1),
                     h <= g + 1, s[c + 1] # Overtaker => h = g,
                     l = IF s[c + 1] = Overtaker THEN overtaken + 1 ELSE overtaken
              PROVE  Bypass(s, d, h, l)
          <6>1. c \in Nat /\ c < Len(s) /\ s[c + 1] # Waiter /\ g \in Nat
            BY <3>2, <3>5, <1>2
          <6>2. QED
            BY <5>1, <6>1, <3>2, <2>2, <1>1, BypassGrant
        <5>2. QED
          BY <5>1, <4>3, <4>5, <4>6
      <4>8. QED
        BY <4>7, <3>1 DEF BypassInv
    <3>6. QED
      BY <3>4, <3>5
  <2>6. CASE IdlePoll
    <3>1. overtaken' = overtaken
      BY <2>1, <2>6, <1>5, NoGrantNoCount DEF IdlePoll, LoopIdle
    <3>2. QED
      BY <2>6, <3>1, <1>1 DEF IdlePoll, BypassInv
  <2>7. CASE CollectSilentNode
    <3>1. overtaken' = overtaken
      BY <2>1, <2>7, <1>5, NoGrantNoCount DEF CollectSilentNode, LoopIdle
    <3> DEFINE i == walkIndex
    <3>2. /\ s \in Seq(KnownNodes) /\ OneSeatEach(s) /\ c \in Nat /\ Len(s) \in Nat
          /\ i \in Nat /\ i < Len(s) /\ silentGrants' = silentGrants
      BY <1>1, <2>7, QueueFacts DEF CollectSilentNode, QueueInv, TypeOK
    <3>3. CASE s[i + 1] # protectedNode /\ IsSilent(s[i + 1])
      <4>1. /\ activeNodeIds' = EraseAt(s, i)
            /\ nextIndex' = CursorAfterErase(c, i, Len(s) - 1)
        BY <2>7, <3>3 DEF CollectSilentNode
      <4>2. s[i + 1] = Overtaker => g >= 2
        BY <3>3 DEF IsSilent, SilentGrantRemovalThreshold
      <4>3. c < Len(s)
        BY <3>2, <1>1, QueueFacts
      <4>4. s[i + 1] # Waiter
        <5>1. /\ Len(EraseAt(s, i)) = Len(s) - 1
              /\ \A j \in 1..(Len(s) - 1) :
                   EraseAt(s, i)[j] = IF j <= i THEN s[j] ELSE s[j + 1]
          BY <3>2, EraseAtProperties
        <5>2. PICK j \in 1..Len(activeNodeIds') : activeNodeIds'[j] = Waiter
          BY <1>5 DEF Active
        <5>3. \E m \in 1..Len(s) : m # i + 1 /\ s[m] = Waiter
          BY <5>1, <5>2, <4>1, <3>2
        <5>4. QED
          BY <5>3, <3>2 DEF OneSeatEach
      <4> HIDE DEF s, c, g, i
      <4>5. Bypass(EraseAt(s, i), CursorAfterErase(c, i, Len(s) - 1), g, overtaken)
        BY <4>2, <4>3, <4>4, <3>2, <1>1, <1>2, BypassErase
      <4>6. QED
        BY <4>1, <4>5, <3>1, <3>2 DEF BypassInv, g
    <3>4. CASE ~(s[i + 1] # protectedNode /\ IsSilent(s[i + 1]))
      <4>1. UNCHANGED <<activeNodeIds, nextIndex>>
        BY <2>7, <3>4 DEF CollectSilentNode
      <4>2. QED
        BY <4>1, <3>1, <3>2, <1>1 DEF BypassInv
    <3>5. QED
      BY <3>3, <3>4
  <2>8. CASE CollectDone
    <3>1. overtaken' = overtaken
      BY <2>1, <2>8, <1>5, NoGrantNoCount DEF CollectDone, LoopIdle
    <3>2. QED
      BY <2>8, <3>1, <1>1 DEF CollectDone, BypassInv
  <2>9. CASE Tick
    <3>1. overtaken' = overtaken
      BY <2>1, <2>9, <1>5, NoGrantNoCount DEF Tick, LoopIdle
    <3>2. QED
      BY <2>9, <3>1, <1>1 DEF Tick, BypassInv
  <2>10. QED
    BY <2>1, <2>3, <2>4, <2>5, <2>6, <2>7, <2>8, <2>9 DEF Next
<1>6. QED
  BY <1>3, <1>4, <1>5

\* While a node waits in the active queue no other node is granted the air more
\* than twice, for any number of nodes and whatever is removed and re-enters.
THEOREM NobodyIsBypassed ==
    ASSUME MeasuredPair
    PROVE  FSpec => []BoundedBypass
<1>1. FInit => FairInv
  BY QueueInvInit, BypassZero DEF FInit, FairInv, BypassInv
<1>2. FairInv /\ [FNext]_<<schedVars, overtaken>> => FairInv'
  <2> SUFFICES ASSUME FairInv, [FNext]_<<schedVars, overtaken>> PROVE FairInv'
    OBVIOUS
  <2>1. [Next]_schedVars
    BY DEF FNext, schedVars
  <2>2. QED
    BY <2>1, QueueInvNext, BypassNext DEF FairInv
<1>3. FairInv => BoundedBypass
  BY DEF FairInv, BypassInv, Bypass, BoundedBypass
<1>4. QED
  BY <1>1, <1>2, <1>3, PTL DEF FSpec

-----------------------------------------------------------------------------
(***************************************************************************)
(* The air.  What UplinkAir promises is not inductive: whether the next    *)
(* grant is safe depends on what is still on the air.  Slots says that the *)
(* normal slot and the feedback slot have one client each, and that a      *)
(* slot, which the server times from sending, contains the window, which   *)
(* the client times from receiving, with GuardMs - MaxDelayMs to spare.    *)
(***************************************************************************)

\* A GRANT on the air belongs to the running normal slot, of n, or to the running
\* feedback slot, of f.
FrameInSlot(m, n, f) ==
    IF m.kind = "normal"
    THEN m.node = n /\ m.age + grantIn >= DurationMs + GuardMs
    ELSE m.node = f /\ feedbackActive /\ m.age + feedbackIn >= FeedbackMs + GuardMs

\* A client's window ends GuardMs - MaxDelayMs before the slot it belongs to.
InNormalSlot(c) == windowMs[c] + GuardMs - MaxDelayMs <= grantIn
InFeedbackSlot(c) == feedbackActive /\ windowMs[c] + GuardMs - MaxDelayMs <= feedbackIn

Slots(n, f) ==
    /\ \A m \in grantAir : FrameInSlot(m, n, f)
    /\ \A c \in KnownNodes : Authorized(c) =>
          (c = n /\ InNormalSlot(c)) \/ (c = f /\ InFeedbackSlot(c))

Types == AirTypeOK /\ QueueInv

IInv ==
    /\ Types
    /\ feedbackActive => FeedbackEnabled
    /\ \E n, f \in KnownNodes \cup {NoNode} : Slots(n, f)

\* The assumptions of the theorems: a GRANT is never longer under way than the guard
\* interval lasts; feedback windows are off.
DelayWithinGuard == MaxDelayMs <= GuardMs
NoFeedback == FeedbackPeriodMs = 0

-----------------------------------------------------------------------------
\* The composition starts with an idle air.
LEMMA IInvInit == AirInit => IInv
<1> SUFFICES ASSUME AirInit PROVE IInv
  OBVIOUS
<1>1. QueueInv
  BY QueueInvInit DEF AirInit, ServerInit
<1>2. FeedbackTypeOK
  <2>1. Len(FeedbackOrder) \in Nat
    BY FeedbackAssumption, LenProperties
  <2>2. feedbackIn \in Nat
    BY FeedbackAssumption DEF AirInit, ServerInit
  <2>3. feedbackActive \in BOOLEAN
    BY DEF AirInit, ServerInit
  <2>4. feedbackIndex \in 0..Len(FeedbackOrder)
    BY <2>1 DEF AirInit, ServerInit
  <2>5. QED
    BY <2>2, <2>3, <2>4 DEF FeedbackTypeOK
<1>3. AirTypeOK
  BY <1>1, <1>2, AirAssumption DEF AirTypeOK, QueueInv, AirInit, NoFlush
<1>4. Slots(NoNode, NoNode)
  BY DEF AirInit, Slots, Authorized
<1>5. ~feedbackActive
  BY DEF AirInit, ServerInit
<1>6. QED
  BY <1>1, <1>3, <1>4, <1>5 DEF IInv, Types

\* Every step of the composition is a step of the scheduler or leaves it alone.
LEMMA StepOfScheduler == AirNext => [Next]_schedVars
<1> SUFFICES ASSUME AirNext PROVE [Next]_schedVars
  OBVIOUS
<1>1. CASE ServerStep
  BY <1>1 DEF ServerStep, DeliverReady, DeliverData, SendNormalGrant,
     SendFeedbackGrant, ServerQuiet, HearReady, HearData, NormalGrant, PollIdle,
     CollectSilent, OpenFeedbackWindow, CloseFeedbackWindow, FeedbackGrant, Next
<1>2. CASE \E c \in KnownNodes : ClientNext(c)
  BY <1>2 DEF ClientNext, ReadTun, SendData, SendReady, FlushBlock, serverVars
<1>3. CASE EnvironmentNext
  BY <1>3 DEF EnvironmentNext, DeliverGrant, LoseGrant, LoseUplink, TickAir,
     ServerTick, serverVars, Next
<1>4. QED
  BY <1>1, <1>2, <1>3 DEF AirNext

-----------------------------------------------------------------------------
\* A step that opens no window and puts no GRANT on the air keeps the slots, if it
\* brings no slot nearer to its end.
LEMMA SlotsStay ==
    ASSUME IInv, Types', grantAir' \subseteq grantAir, windowMs' = windowMs,
           grantIn' >= grantIn, feedbackIn' >= feedbackIn,
           feedbackActive => feedbackActive', feedbackActive' => FeedbackEnabled
    PROVE  IInv'
<1>1. PICK n \in KnownNodes \cup {NoNode}, f \in KnownNodes \cup {NoNode} : Slots(n, f)
  BY DEF IInv
<1>2. /\ grantIn \in Nat /\ grantIn' \in Nat /\ feedbackIn \in Nat /\ feedbackIn' \in Nat
      /\ GuardMs \in Nat /\ DurationMs \in Nat /\ MaxDelayMs \in Nat /\ FeedbackMs \in Nat
  BY TimingAssumption, AirAssumption, FeedbackAssumption
     DEF IInv, Types, QueueInv, TypeOK, AirTypeOK, FeedbackTypeOK
<1>3. ASSUME NEW m \in grantAir'
      PROVE  FrameInSlot(m, n, f)'
  <2>1. FrameInSlot(m, n, f) /\ m.age \in Nat
    BY <1>1, <1>3, AirAssumption DEF Slots, IInv, Types, AirTypeOK, GrantFrame
  <2>2. QED
    BY <1>2, <2>1 DEF FrameInSlot
<1>4. ASSUME NEW c \in KnownNodes, Authorized(c)'
      PROVE  (c = n /\ InNormalSlot(c)') \/ (c = f /\ InFeedbackSlot(c)')
  <2>1. /\ (c = n /\ InNormalSlot(c)) \/ (c = f /\ InFeedbackSlot(c))
        /\ windowMs[c] \in Nat
    BY <1>1, <1>4 DEF Slots, IInv, Types, AirTypeOK, Authorized
  <2>2. QED
    BY <1>2, <2>1 DEF InNormalSlot, InFeedbackSlot
<1>5. Slots(n, f)'
  BY <1>3, <1>4 DEF Slots
<1>6. QED
  BY <1>5 DEF IInv

\* What a client does on its own grants nobody anything.
LEMMA ClientStep ==
    ASSUME NEW c \in KnownNodes, IInv, QueueInv', ClientNext(c)
    PROVE  IInv'
<1> USE DEF IInv, Types
<1>1. UNCHANGED <<activeNodeIds, nextIndex, silenceMs, silentGrants, grantIn,
                  protectedNode, walkIndex, feedbackActive, feedbackIndex,
                  feedbackIn, windowMs, grantAir>>
  BY DEF ClientNext, ReadTun, SendData, SendReady, FlushBlock, serverVars,
     schedVars, feedbackVars, airVars
<1>3. TypeOK' /\ FeedbackTypeOK'
  BY <1>1 DEF AirTypeOK, TypeOK, FeedbackTypeOK
<1>4. pending' \in [KnownNodes -> 0..MaxPending]
  BY AirAssumption DEF ClientNext, ReadTun, SendData, SendReady, FlushBlock, AirTypeOK
<1>5. readyInFlight' \in [KnownNodes -> BOOLEAN]
  BY DEF ClientNext, ReadTun, SendData, SendReady, FlushBlock, AirTypeOK
<1>6. redeclareIn' \in [KnownNodes -> 0..RedeclareMs]
  BY AirAssumption DEF ClientNext, ReadTun, SendData, SendReady, FlushBlock, AirTypeOK
<1>7. flushIn' \in [KnownNodes -> 0..NoFlush]
  BY AirAssumption DEF ClientNext, ReadTun, SendData, SendReady, FlushBlock,
     AirTypeOK, NoFlush
<1>8. uplinkAir' \subseteq UplinkFrame
  BY DEF ClientNext, ReadTun, SendData, SendReady, FlushBlock, AirTypeOK,
     UplinkFrame, airVars
<1>9. AirTypeOK'
  BY <1>1, <1>3, <1>4, <1>5, <1>6, <1>7, <1>8 DEF AirTypeOK
<1>10. grantIn' >= grantIn /\ feedbackIn' >= feedbackIn
  BY <1>1 DEF AirTypeOK, TypeOK, FeedbackTypeOK
<1>11. QED
  BY <1>1, <1>9, <1>10, SlotsStay

\* What the server hears, and what it does when no slot is due, leaves the slots.
LEMMA HearStep ==
    ASSUME IInv, QueueInv',
           \/ \E c \in KnownNodes : DeliverReady(c) \/ DeliverData(c)
           \/ PollIdle /\ UNCHANGED <<clientVars, airVars>>
           \/ CollectSilent /\ UNCHANGED <<clientVars, airVars>>
    PROVE  IInv'
<1> USE DEF IInv, Types
<1>1. /\ UNCHANGED <<clientVars, feedbackVars, grantAir>> /\ grantIn' >= grantIn
      /\ uplinkAir' \subseteq uplinkAir
  <2>1. CASE \E c \in KnownNodes : DeliverReady(c) \/ DeliverData(c)
    <3>1. UNCHANGED <<clientVars, feedbackVars, grantAir, grantIn>> /\ uplinkAir' \subseteq uplinkAir
      BY <2>1 DEF DeliverReady, DeliverData, HearReady, HearData, DeclareReady,
         ObserveUplinkData
    <3>2. QED
      BY <3>1 DEF AirTypeOK, TypeOK
  <2>2. CASE (PollIdle \/ CollectSilent) /\ UNCHANGED <<clientVars, airVars>>
    BY <2>2, TimingAssumption DEF PollIdle, IdlePoll, CollectSilent,
       CollectSilentNode, CollectDone, AirTypeOK, TypeOK, airVars
  <2>3. QED
    BY <2>1, <2>2
<1>2. AirTypeOK'
  BY <1>1 DEF AirTypeOK, QueueInv, FeedbackTypeOK, clientVars, feedbackVars
<1>3. feedbackIn' >= feedbackIn
  BY <1>1 DEF AirTypeOK, FeedbackTypeOK, feedbackVars
<1>4. QED
  BY <1>1, <1>2, <1>3, SlotsStay DEF clientVars, feedbackVars

\* A normal slot is over with the windows and the GRANTs that belong to it.
LEMMA NormalSlotOver ==
    ASSUME IInv, DelayWithinGuard, grantIn = 0
    PROVE  /\ \A m \in grantAir : m.kind # "normal"
           /\ \A c \in KnownNodes : Authorized(c) => ~InNormalSlot(c)
<1>1. \A m \in grantAir : m.age \in Nat /\ m.age <= MaxDelayMs
  BY AirAssumption DEF IInv, Types, AirTypeOK, GrantFrame
<1>2. \A c \in KnownNodes : windowMs[c] \in Nat
  BY DEF IInv, Types, AirTypeOK
<1>3. QED
  BY <1>1, <1>2, TimingAssumption, AirAssumption
     DEF IInv, Slots, FrameInSlot, InNormalSlot, DelayWithinGuard, Authorized

\* The same of a feedback slot
LEMMA FeedbackSlotOver ==
    ASSUME IInv, DelayWithinGuard, ~feedbackActive \/ feedbackIn = 0
    PROVE  /\ \A m \in grantAir : m.kind = "normal"
           /\ \A c \in KnownNodes : Authorized(c) => ~InFeedbackSlot(c)
<1>1. \A m \in grantAir : m.age \in Nat /\ m.age <= MaxDelayMs
  BY AirAssumption DEF IInv, Types, AirTypeOK, GrantFrame
<1>2. \A c \in KnownNodes : windowMs[c] \in Nat
  BY DEF IInv, Types, AirTypeOK
<1>3. feedbackActive => FeedbackMs \in Nat \ {0}
  BY FeedbackAssumption DEF IInv, FeedbackEnabled
<1>4. QED
  BY <1>1, <1>2, <1>3, TimingAssumption, AirAssumption
     DEF IInv, Slots, FrameInSlot, InFeedbackSlot, DelayWithinGuard, Authorized

\* A feedback window is opened or closed between two feedback slots.
LEMMA FeedbackWindowStep ==
    ASSUME IInv, DelayWithinGuard, QueueInv', OpenFeedbackWindow \/ CloseFeedbackWindow,
           UNCHANGED <<clientVars, airVars>>
    PROVE  IInv'
<1> USE DEF IInv, Types
<1>1. Len(FeedbackOrder) \in Nat /\ FeedbackPeriodMs \in Nat
  BY FeedbackAssumption, LenProperties
<1>2. FeedbackTypeOK'
  <2>1. feedbackActive' \in BOOLEAN
    BY DEF OpenFeedbackWindow, CloseFeedbackWindow
  <2>2. feedbackIndex' \in 0..Len(FeedbackOrder)
    BY <1>1 DEF OpenFeedbackWindow, CloseFeedbackWindow, AirTypeOK, FeedbackTypeOK
  <2>3. feedbackIn' \in Nat
    BY <1>1 DEF OpenFeedbackWindow, CloseFeedbackWindow, AirTypeOK, FeedbackTypeOK
  <2>4. QED
    BY <2>1, <2>2, <2>3 DEF FeedbackTypeOK
<1>3. AirTypeOK'
  BY <1>2 DEF AirTypeOK, QueueInv, clientVars, airVars
<1>4. CASE OpenFeedbackWindow
  <2>1. grantIn' >= grantIn /\ feedbackIn' >= feedbackIn /\ ~feedbackActive /\ FeedbackEnabled
    BY <1>4 DEF OpenFeedbackWindow, schedVars, AirTypeOK, TypeOK, FeedbackTypeOK
  <2>2. QED
    BY <1>3, <2>1, SlotsStay DEF clientVars, airVars
<1>5. CASE CloseFeedbackWindow
  <2>1. /\ feedbackIn = 0 /\ ~feedbackActive'
        /\ UNCHANGED <<grantIn, grantAir, windowMs>>
    BY <1>5 DEF CloseFeedbackWindow, schedVars, clientVars, airVars
  <2>2. /\ \A m \in grantAir : m.kind = "normal"
        /\ \A c \in KnownNodes : Authorized(c) => ~InFeedbackSlot(c)
    BY <2>1, FeedbackSlotOver
  <2>3. PICK n \in KnownNodes \cup {NoNode}, f \in KnownNodes \cup {NoNode} : Slots(n, f)
    OBVIOUS
  <2>4. Slots(n, f)'
    BY <2>1, <2>2, <2>3 DEF Slots, FrameInSlot, InNormalSlot, Authorized
  <2>5. QED
    BY <1>3, <2>1, <2>4
<1>6. QED
  BY <1>4, <1>5

\* A normal grant starts a new normal slot, with one GRANT on the air.
LEMMA GrantStep ==
    ASSUME IInv, DelayWithinGuard, QueueInv', SendNormalGrant
    PROVE  IInv'
<1> USE DEF IInv, Types
<1>1. /\ grantIn = 0 /\ grantIn' = DurationMs + GuardMs /\ ~feedbackActive
      /\ UNCHANGED <<clientVars, feedbackVars, uplinkAir>>
  BY DEF SendNormalGrant, NormalGrant, NextGrant
<1>2. PICK x : x = CursorNode
  OBVIOUS
<1>3. x \in KnownNodes
  BY <1>2, ElementOfSeq, LenProperties, EmptySeq DEF SendNormalGrant, NormalGrant,
     NextGrant, QueueInv, TypeOK, QueueSound, CursorInRange, CursorNode
<1> DEFINE m == [node |-> x, kind |-> "normal", age |-> 0]
<1>4. PICK n \in KnownNodes \cup {NoNode}, f \in KnownNodes \cup {NoNode} : Slots(n, f)
  OBVIOUS
<1>5. grantAir = {} /\ \A c \in KnownNodes : ~Authorized(c)
  BY <1>1, <1>4, NormalSlotOver, FeedbackSlotOver DEF Slots
<1>6. grantAir' = {m}
  BY <1>2, <1>5 DEF SendNormalGrant, PutGrant
<1>7. m \in GrantFrame
  BY <1>3, AirAssumption DEF GrantFrame
<1>8. AirTypeOK'
  BY <1>1, <1>6, <1>7 DEF AirTypeOK, QueueInv, FeedbackTypeOK, clientVars, feedbackVars
<1>9. FrameInSlot(m, x, f)'
  BY <1>1, TimingAssumption DEF FrameInSlot
<1>10. Slots(x, f)'
  BY <1>1, <1>5, <1>6, <1>9 DEF Slots, Authorized, clientVars
<1>11. QED
  BY <1>1, <1>3, <1>8, <1>10 DEF feedbackVars

\* A feedback grant starts a new feedback slot; a normal slot may still be running.
LEMMA FeedbackGrantStep ==
    ASSUME IInv, DelayWithinGuard, QueueInv', SendFeedbackGrant
    PROVE  IInv'
<1> USE DEF IInv, Types
<1>1. /\ feedbackActive /\ feedbackIn = 0 /\ feedbackIn' = FeedbackMs + GuardMs
      /\ feedbackActive' = feedbackActive /\ feedbackIndex' = feedbackIndex + 1
      /\ feedbackIndex < Len(FeedbackOrder)
      /\ UNCHANGED <<clientVars, schedVars, uplinkAir>>
  BY DEF SendFeedbackGrant, FeedbackGrant
<1>2. Len(FeedbackOrder) \in Nat /\ feedbackIndex \in Nat
  BY FeedbackAssumption, LenProperties DEF AirTypeOK, FeedbackTypeOK
<1>3. PICK x : x = FeedbackNode
  OBVIOUS
<1>4. x \in KnownNodes
  BY <1>1, <1>2, <1>3, FeedbackAssumption, ElementOfSeq DEF FeedbackNode
<1> DEFINE m == [node |-> x, kind |-> "feedback", age |-> 0]
<1>5. PICK n \in KnownNodes \cup {NoNode}, f \in KnownNodes \cup {NoNode} : Slots(n, f)
  OBVIOUS
<1>6. /\ \A y \in grantAir : y.kind = "normal"
      /\ \A c \in KnownNodes : Authorized(c) => ~InFeedbackSlot(c)
  BY <1>1, FeedbackSlotOver
<1>7. grantAir' = grantAir \cup {m}
  BY <1>3 DEF SendFeedbackGrant, PutGrant
<1>8. m \in GrantFrame
  BY <1>4, AirAssumption DEF GrantFrame
<1>9. FeedbackTypeOK'
  <2>1. feedbackIn' \in Nat
    BY <1>1, TimingAssumption, FeedbackAssumption
  <2>2. feedbackIndex' \in 0..Len(FeedbackOrder)
    BY <1>1, <1>2
  <2>3. QED
    BY <1>1, <2>1, <2>2 DEF AirTypeOK, FeedbackTypeOK
<1>10. AirTypeOK'
  BY <1>1, <1>7, <1>8, <1>9 DEF AirTypeOK, QueueInv, clientVars
<1>11. FrameInSlot(m, n, x)'
  BY <1>1, TimingAssumption, FeedbackAssumption DEF FrameInSlot
<1>12. \A y \in grantAir : FrameInSlot(y, n, x)'
  BY <1>1, <1>5, <1>6 DEF Slots, FrameInSlot, schedVars
<1>13. \A c \in KnownNodes : Authorized(c)' => c = n /\ InNormalSlot(c)'
  BY <1>1, <1>5, <1>6 DEF Slots, Authorized, InNormalSlot, schedVars, clientVars
<1>14. Slots(n, x)'
  BY <1>7, <1>11, <1>12, <1>13 DEF Slots
<1>15. QED
  BY <1>1, <1>4, <1>5, <1>10, <1>14

\* A GRANT that arrives opens a window that fits into its slot.
LEMMA DeliverGrantStep ==
    ASSUME NEW m \in grantAir, IInv, DelayWithinGuard, QueueInv', DeliverGrant(m)
    PROVE  IInv'
<1> USE DEF IInv, Types
<1>1. m \in GrantFrame /\ m.node \in KnownNodes /\ m.age \in 0..MaxDelayMs
      /\ m.kind \in {"normal", "feedback"}
  BY DEF AirTypeOK, GrantFrame
<1>2. PICK n \in KnownNodes \cup {NoNode}, f \in KnownNodes \cup {NoNode} : Slots(n, f)
  OBVIOUS
<1>3. FrameInSlot(m, n, f)
  BY <1>2 DEF Slots
<1>4. /\ windowMs' = [windowMs EXCEPT ![m.node] = GrantMs(m.kind)]
      /\ grantAir' \subseteq grantAir
      /\ UNCHANGED <<serverVars, pending, readyInFlight, redeclareIn, flushIn, uplinkAir>>
  BY DEF DeliverGrant
<1>5. /\ grantIn \in Nat /\ grantIn' = grantIn /\ feedbackIn \in Nat
      /\ feedbackIn' = feedbackIn /\ feedbackActive' = feedbackActive
  BY <1>4 DEF serverVars, schedVars, feedbackVars, AirTypeOK, TypeOK, FeedbackTypeOK
<1>6. GrantMs(m.kind) \in Nat
  BY TimingAssumption, FeedbackAssumption DEF GrantMs
<1>7. AirTypeOK'
  <2>1. windowMs' \in [KnownNodes -> Nat]
    BY <1>4, <1>6 DEF AirTypeOK
  <2>2. QED
    BY <1>4, <2>1 DEF AirTypeOK, QueueInv, FeedbackTypeOK, serverVars, feedbackVars
<1>8. \A x \in grantAir' : FrameInSlot(x, n, f)'
  BY <1>2, <1>4, <1>5 DEF Slots, FrameInSlot
<1>9. ASSUME NEW c \in KnownNodes, Authorized(c)'
      PROVE  (c = n /\ InNormalSlot(c)') \/ (c = f /\ InFeedbackSlot(c)')
  <2>1. CASE c # m.node
    <3>1. windowMs'[c] = windowMs[c]
      BY <1>4, <2>1 DEF AirTypeOK
    <3>2. QED
      BY <1>2, <1>5, <1>9, <3>1 DEF Slots, Authorized, InNormalSlot, InFeedbackSlot
  <2>2. CASE c = m.node
    <3>1. windowMs'[c] = GrantMs(m.kind)
      BY <1>4, <2>2 DEF AirTypeOK
    <3>2. m.kind = "normal" => c = n /\ InNormalSlot(c)'
      BY <1>1, <1>3, <1>5, <2>2, <3>1, TimingAssumption, AirAssumption
         DEF FrameInSlot, InNormalSlot, GrantMs
    <3>3. m.kind = "feedback" => c = f /\ InFeedbackSlot(c)'
      BY <1>1, <1>3, <1>5, <2>2, <3>1, TimingAssumption, AirAssumption, FeedbackAssumption
         DEF FrameInSlot, InFeedbackSlot, GrantMs
    <3>4. QED
      BY <1>1, <3>2, <3>3
  <2>3. QED
    BY <2>1, <2>2
<1>10. Slots(n, f)'
  BY <1>8, <1>9 DEF Slots
<1>11. QED
  BY <1>5, <1>7, <1>10

\* A frame that is lost opens no window.
LEMMA LossStep ==
    ASSUME IInv, QueueInv',
           \/ \E m \in grantAir : LoseGrant(m)
           \/ \E f \in uplinkAir : LoseUplink(f)
    PROVE  IInv'
<1> USE DEF IInv, Types
<1>1. /\ grantAir' \subseteq grantAir /\ uplinkAir' \subseteq uplinkAir
      /\ UNCHANGED <<serverVars, clientVars>>
  BY DEF LoseGrant, LoseUplink
<1>2. AirTypeOK'
  BY <1>1 DEF AirTypeOK, QueueInv, FeedbackTypeOK, serverVars, feedbackVars, clientVars
<1>3. /\ grantIn' >= grantIn /\ feedbackIn' >= feedbackIn
      /\ windowMs' = windowMs /\ feedbackActive' = feedbackActive
  BY <1>1 DEF serverVars, schedVars, feedbackVars, clientVars, AirTypeOK, TypeOK, FeedbackTypeOK
<1>4. QED
  BY <1>1, <1>2, <1>3, SlotsStay

\* Time runs alike for the slots, the windows and the frames.
LEMMA TimeStep ==
    ASSUME IInv, DelayWithinGuard, QueueInv', TickAir
    PROVE  IInv'
<1> USE DEF IInv, Types
<1>1. /\ grantIn \in Nat /\ grantIn' \in Nat
      /\ grantIn' = IF grantIn = 0 THEN 0 ELSE grantIn - 1
      /\ feedbackIn \in Nat /\ feedbackIn' \in Nat
      /\ feedbackIn' = IF feedbackIn = 0 THEN 0 ELSE feedbackIn - 1
  <2>1. grantIn \in Nat /\ feedbackIn \in Nat
    BY DEF AirTypeOK, TypeOK, FeedbackTypeOK
  <2>2. grantIn' = IF grantIn = 0 THEN 0 ELSE grantIn - 1
    BY DEF TickAir, ServerTick, Tick
  <2>3. feedbackIn' = IF feedbackIn = 0 THEN 0 ELSE feedbackIn - 1
    BY DEF TickAir, ServerTick, Down
  <2>4. grantIn' \in Nat /\ feedbackIn' \in Nat
    BY <2>1, <2>2, <2>3
  <2>5. QED
    BY <2>1, <2>2, <2>3, <2>4
<1>2. grantAir' = {[m EXCEPT !.age = @ + 1] : m \in grantAir}
  BY DEF TickAir
<1>3. \A m \in grantAir : /\ m \in GrantFrame /\ m.age \in Nat /\ m.age < MaxDelayMs
                          /\ [m EXCEPT !.age = @ + 1] \in GrantFrame
                          /\ [m EXCEPT !.age = @ + 1].age = m.age + 1
                          /\ [m EXCEPT !.age = @ + 1].node = m.node
                          /\ [m EXCEPT !.age = @ + 1].kind = m.kind
  BY AirAssumption DEF TickAir, AirTypeOK, GrantFrame
<1>4. /\ UNCHANGED <<feedbackActive, feedbackIndex, pending, readyInFlight, uplinkAir>>
      /\ windowMs' = [c \in KnownNodes |-> Down(windowMs[c])]
      /\ redeclareIn' = [c \in KnownNodes |-> Down(redeclareIn[c])]
      /\ flushIn' = [c \in KnownNodes |-> IF flushIn[c] = NoFlush
                                          THEN NoFlush ELSE Down(flushIn[c])]
  BY DEF TickAir, ServerTick
<1>5. windowMs' \in [KnownNodes -> Nat]
  BY <1>4 DEF AirTypeOK, Down
<1>6. redeclareIn' \in [KnownNodes -> 0..RedeclareMs]
  BY <1>4, AirAssumption DEF AirTypeOK, Down
<1>7. flushIn' \in [KnownNodes -> 0..NoFlush]
  BY <1>4, AirAssumption DEF AirTypeOK, NoFlush, Down
<1>8. AirTypeOK'
  BY <1>1, <1>2, <1>3, <1>4, <1>5, <1>6, <1>7 DEF AirTypeOK, QueueInv, FeedbackTypeOK
<1>9. PICK n \in KnownNodes \cup {NoNode}, f \in KnownNodes \cup {NoNode} : Slots(n, f)
  OBVIOUS
<1>10. ASSUME NEW m \in grantAir
       PROVE  FrameInSlot([m EXCEPT !.age = @ + 1], n, f)'
  <2>1. FrameInSlot(m, n, f)
    BY <1>9 DEF Slots
  <2> DEFINE x == [m EXCEPT !.age = @ + 1]
  <2>2. x.age = m.age + 1 /\ x.node = m.node /\ x.kind = m.kind /\ m.age \in Nat
    BY <1>3
  <2>3. /\ DurationMs + GuardMs \in Nat /\ FeedbackMs + GuardMs \in Nat
        /\ feedbackActive' = feedbackActive
    BY <1>4, TimingAssumption, FeedbackAssumption
  <2> HIDE DEF x
  <2>4. m.kind = "normal" => x.age + grantIn' >= DurationMs + GuardMs /\ x.node = n
    BY <1>1, <2>1, <2>2, <2>3 DEF FrameInSlot
  <2>5. m.kind # "normal" => /\ x.age + feedbackIn' >= FeedbackMs + GuardMs
                             /\ feedbackActive' /\ x.node = f
    BY <1>1, <2>1, <2>2, <2>3 DEF FrameInSlot
  <2>6. FrameInSlot(x, n, f)'
    BY <2>2, <2>4, <2>5 DEF FrameInSlot
  <2>7. QED
    BY <2>6 DEF x
<1>11. ASSUME NEW c \in KnownNodes, Authorized(c)'
       PROVE  (c = n /\ InNormalSlot(c)') \/ (c = f /\ InFeedbackSlot(c)')
  <2>1. windowMs[c] \in Nat /\ windowMs[c] > 0 /\ windowMs'[c] = windowMs[c] - 1
    BY <1>4, <1>11 DEF Down, AirTypeOK, Authorized
  <2>2. (c = n /\ InNormalSlot(c)) \/ (c = f /\ InFeedbackSlot(c))
    BY <1>9, <2>1 DEF Slots, Authorized
  <2>3. QED
    BY <1>1, <1>4, <2>1, <2>2, TimingAssumption, AirAssumption
       DEF DelayWithinGuard, InNormalSlot, InFeedbackSlot
<1>12. Slots(n, f)'
  BY <1>2, <1>10, <1>11 DEF Slots
<1>13. QED
  BY <1>4, <1>8, <1>12

\* Every step of the composition keeps the slots.
LEMMA IInvNext ==
    ASSUME DelayWithinGuard
    PROVE  IInv /\ [AirNext]_vars => IInv'
<1> SUFFICES ASSUME IInv, [AirNext]_vars PROVE IInv'
  OBVIOUS
<1>1. CASE UNCHANGED vars
  <2>1. QueueInv'
    BY <1>1, QueueInvNext DEF vars, serverVars, IInv, Types
  <2>2. AirTypeOK'
    BY <1>1, <2>1 DEF vars, serverVars, feedbackVars, clientVars, airVars, IInv,
       Types, AirTypeOK, QueueInv, FeedbackTypeOK
  <2>3. /\ grantIn' >= grantIn /\ feedbackIn' >= feedbackIn
        /\ windowMs' = windowMs /\ feedbackActive' = feedbackActive /\ grantAir' = grantAir
    BY <1>1 DEF vars, serverVars, schedVars, feedbackVars, clientVars, airVars, IInv, Types,
       AirTypeOK, TypeOK, FeedbackTypeOK
  <2>4. QED
    BY <2>1, <2>2, <2>3, SlotsStay DEF IInv, Types
<1>2. CASE AirNext
  <2>1. QueueInv'
    BY <1>2, StepOfScheduler, QueueInvNext DEF IInv, Types
  <2>2. CASE \E c \in KnownNodes : ClientNext(c)
    BY <2>1, <2>2, ClientStep
  <2>3. CASE ServerStep
    BY <2>1, <2>3, HearStep, FeedbackWindowStep, GrantStep, FeedbackGrantStep
       DEF ServerStep, ServerQuiet
  <2>4. CASE EnvironmentNext
    BY <2>1, <2>4, DeliverGrantStep, LossStep, TimeStep DEF EnvironmentNext
  <2>5. QED
    BY <1>2, <2>2, <2>3, <2>4 DEF AirNext
<1>3. QED
  BY <1>1, <1>2

\* A feedback window may be opened over a running normal slot: then two clients can
\* be authorised at once, and never more (open_feedback_window,
\* maybe_send_feedback_grant).
THEOREM AtMostTwoOverlap ==
    ASSUME DelayWithinGuard
    PROVE  AirSpec => []OverlapBounded
<1>1. IInv => OverlapBounded
  <2> SUFFICES ASSUME IInv, NEW c \in KnownNodes, NEW d \in KnownNodes,
                      Authorized(c), Authorized(d), c # d
               PROVE  /\ feedbackActive /\ grantIn > 0
                      /\ \A e \in KnownNodes : Authorized(e) => e \in {c, d}
    BY DEF OverlapBounded
  <2>1. PICK n \in KnownNodes \cup {NoNode}, f \in KnownNodes \cup {NoNode} : Slots(n, f)
    BY DEF IInv
  <2>2. \A e \in KnownNodes : Authorized(e) =>
            (e = n /\ InNormalSlot(e)) \/ (e = f /\ feedbackActive)
    BY <2>1 DEF Slots, InFeedbackSlot
  <2>3. feedbackActive /\ \E e \in {c, d} : e = n /\ InNormalSlot(e) /\ Authorized(e)
    BY <2>2
  <2>4. \A e \in KnownNodes : Authorized(e) => windowMs[e] \in Nat /\ windowMs[e] > 0
    BY DEF IInv, Types, AirTypeOK, Authorized
  <2>5. grantIn > 0
    <3>1. grantIn \in Nat
      BY DEF IInv, Types, AirTypeOK, TypeOK
    <3>2. PICK e \in {c, d} : InNormalSlot(e) /\ Authorized(e)
      BY <2>3
    <3>3. windowMs[e] \in Nat /\ windowMs[e] > 0
      BY <2>4, <3>2
    <3>4. QED
      BY <3>1, <3>2, <3>3, TimingAssumption, AirAssumption DEF InNormalSlot, DelayWithinGuard
  <2>6. QED
    BY <2>2, <2>3, <2>5
<1>2. IInv /\ [AirNext]_vars => IInv'
  BY IInvNext
<1>3. QED
  BY <1>1, <1>2, IInvInit, PTL DEF AirSpec

-----------------------------------------------------------------------------
(* Without feedback windows *)

\* A client that holds, or is about to receive, the right to send
Busy(c) == Authorized(c) \/ \E m \in grantAir : m.node = c

\* The normal slot is all there is, and belongs to one client.
SlotInv ==
    /\ \A c, d \in KnownNodes : Busy(c) /\ Busy(d) => c = d
    /\ \A c \in KnownNodes : Authorized(c) => InNormalSlot(c)
    /\ ~feedbackActive

\* That is what is left of the invariant.
LEMMA OneSlot ==
    ASSUME IInv, ~feedbackActive
    PROVE  SlotInv
<1>1. PICK n \in KnownNodes \cup {NoNode}, f \in KnownNodes \cup {NoNode} : Slots(n, f)
  BY DEF IInv
<1>2. \A c \in KnownNodes : Busy(c) => c = n
  BY <1>1 DEF Slots, FrameInSlot, InFeedbackSlot, Busy
<1>3. QED
  BY <1>1, <1>2 DEF Slots, InFeedbackSlot, SlotInv

\* A window that is never due is never opened.
LEMMA StaysClosed ==
    ASSUME NoFeedback, ~feedbackActive, [AirNext]_vars
    PROVE  ~feedbackActive'
<1>1. CASE UNCHANGED vars
  BY <1>1 DEF vars, serverVars, feedbackVars
<1>2. CASE ServerStep
  <2>1. ~OpenFeedbackWindow /\ ~CloseFeedbackWindow /\ ~SendFeedbackGrant
    BY FeedbackAssumption DEF OpenFeedbackWindow, CloseFeedbackWindow, SendFeedbackGrant,
       FeedbackGrant, FeedbackEnabled, NoFeedback
  <2>2. UNCHANGED feedbackVars
    BY <1>2, <2>1 DEF ServerStep, DeliverReady, DeliverData, SendNormalGrant, ServerQuiet,
       HearReady, HearData, NormalGrant, PollIdle, CollectSilent
  <2>3. QED
    BY <2>2 DEF feedbackVars
<1>3. CASE \E c \in KnownNodes : ClientNext(c)
  BY <1>3 DEF ClientNext, ReadTun, SendData, SendReady, FlushBlock, serverVars, feedbackVars
<1>4. CASE EnvironmentNext
  BY <1>4 DEF EnvironmentNext, DeliverGrant, LoseGrant, LoseUplink, TickAir,
     ServerTick, serverVars, feedbackVars
<1>5. QED
  BY <1>1, <1>2, <1>3, <1>4 DEF AirNext

\* Without feedback windows, and with a guard interval at least as long as a
\* GRANT is under way, no two clients are ever authorised at the same time.
THEOREM AirIsExclusive ==
    ASSUME NoFeedback, DelayWithinGuard
    PROVE  AirSpec => []MutualExclusion
<1>1. IInv /\ ~feedbackActive => MutualExclusion
  BY OneSlot DEF SlotInv, Busy, MutualExclusion
<1>2. IInv /\ ~feedbackActive /\ [AirNext]_vars => IInv' /\ ~feedbackActive'
  BY IInvNext, StaysClosed
<1>3. AirInit => ~feedbackActive
  BY DEF AirInit, ServerInit
<1>4. QED
  BY <1>1, <1>2, <1>3, IInvInit, PTL DEF AirSpec

-----------------------------------------------------------------------------
\* The flush of an open FEC block that a client still owes falls into the slot
\* in which its packets were sent, and nobody else is busy until then.
FlushCovered ==
    \A c \in KnownNodes :
        pending[c] = 0 /\ flushIn[c] # NoFlush =>
            flushIn[c] < grantIn /\ \A d \in KnownNodes : Busy(d) => d = c

\* The guard interval covers the way of a GRANT and the flush delay together.
FlushWithinGuard == MaxDelayMs + FecFlushIdleMs <= GuardMs

\* At the start no block is open.
LEMMA FlushCoveredInit == AirInit => FlushCovered
  BY DEF AirInit, FlushCovered

\* A client that sends its last packet has at least its flush delay left in
\* the slot.
LEMMA ClientFlushStep ==
    ASSUME NEW c \in KnownNodes, Types, SlotInv, FlushCovered, FlushWithinGuard, ClientNext(c)
    PROVE  FlushCovered'
<1> USE DEF Types
<1>1. grantIn' = grantIn /\ grantIn \in Nat
      /\ windowMs' = windowMs /\ grantAir' = grantAir
  BY DEF ClientNext, ReadTun, SendData, SendReady, FlushBlock, serverVars,
     schedVars, airVars, AirTypeOK, TypeOK
<1>2. \A d \in KnownNodes : Busy(d)' <=> Busy(d)
  BY <1>1 DEF Busy, Authorized
<1>3. CASE ReadTun(c)
  <2>1. \A d \in KnownNodes : pending'[d] = 0 => pending[d] = 0
    BY <1>3 DEF ReadTun, AirTypeOK
  <2>2. flushIn' = flushIn
    BY <1>3 DEF ReadTun
  <2>3. QED
    BY <1>1, <1>2, <2>1, <2>2 DEF FlushCovered
<1>4. CASE SendData(c)
  <2>1. \A d \in KnownNodes : Busy(d) => d = c
    BY <1>4 DEF SendData, SlotInv, Busy
  <2>2. windowMs[c] \in Nat /\ windowMs[c] > 0
        /\ windowMs[c] + GuardMs - MaxDelayMs <= grantIn
    BY <1>4 DEF SendData, SlotInv, InNormalSlot, Authorized, AirTypeOK
  <2>3. FecFlushIdleMs < grantIn
    BY <1>1, <2>2, TimingAssumption, AirAssumption DEF FlushWithinGuard
  <2>4. flushIn'[c] = FecFlushIdleMs \/ flushIn'[c] = NoFlush
    BY <1>4 DEF SendData, AirTypeOK
  <2>5. \A d \in KnownNodes : d # c => pending'[d] = pending[d] /\ flushIn'[d] = flushIn[d]
    BY <1>4 DEF SendData, AirTypeOK
  <2>6. QED
    BY <1>1, <1>2, <2>1, <2>3, <2>4, <2>5 DEF FlushCovered
<1>5. CASE SendReady(c)
  BY <1>1, <1>2, <1>5 DEF SendReady, FlushCovered
<1>6. CASE FlushBlock(c)
  <2>1. pending' = pending /\ flushIn' = [flushIn EXCEPT ![c] = NoFlush]
    BY <1>6 DEF FlushBlock
  <2>2. QED
    BY <1>1, <1>2, <2>1 DEF FlushCovered, AirTypeOK
<1>7. QED
  BY <1>3, <1>4, <1>5, <1>6 DEF ClientNext

\* The server waits for a flush that is owed: it starts no slot before.
LEMMA ServerFlushStep ==
    ASSUME Types, SlotInv, FlushCovered, NoFeedback, ServerStep
    PROVE  FlushCovered'
<1> USE DEF Types
<1>1. grantIn \in Nat
  BY DEF QueueInv, TypeOK
<1>2. pending' = pending /\ flushIn' = flushIn /\ windowMs' = windowMs
  BY DEF ServerStep, DeliverReady, DeliverData, SendNormalGrant,
     SendFeedbackGrant, ServerQuiet, clientVars
<1>3. CASE SendNormalGrant
  <2>1. grantIn = 0
    BY <1>3 DEF SendNormalGrant, NormalGrant, NextGrant
  <2>2. \A c \in KnownNodes : flushIn[c] \in Nat
    BY AirAssumption DEF AirTypeOK, NoFlush
  <2>3. \A c \in KnownNodes : ~(pending[c] = 0 /\ flushIn[c] # NoFlush)
    <3> SUFFICES ASSUME NEW c \in KnownNodes, pending[c] = 0, flushIn[c] # NoFlush
                 PROVE  FALSE
      OBVIOUS
    <3>1. flushIn[c] < 0
      BY <2>1 DEF FlushCovered
    <3>2. QED
      BY <2>2, <3>1
  <2>4. QED
    BY <1>2, <2>3 DEF FlushCovered
<1>4. CASE SendFeedbackGrant
  BY <1>4 DEF SendFeedbackGrant, FeedbackGrant, SlotInv
<1>5. CASE \E c \in KnownNodes : DeliverReady(c) \/ DeliverData(c)
  <2>1. grantIn' = grantIn /\ grantAir' = grantAir
    BY <1>5 DEF DeliverReady, DeliverData, HearReady, HearData, DeclareReady,
       ObserveUplinkData
  <2>2. QED
    BY <1>2, <2>1 DEF FlushCovered, Busy, Authorized
<1>6. CASE ServerQuiet
  <2>1. ~OpenFeedbackWindow /\ ~CloseFeedbackWindow
    BY DEF OpenFeedbackWindow, CloseFeedbackWindow, FeedbackEnabled, NoFeedback, SlotInv
  <2>2. (PollIdle \/ CollectSilent) /\ grantAir' = grantAir
    BY <1>6, <2>1 DEF ServerQuiet, airVars
  <2>3. grantIn' \in Nat /\ grantIn' >= grantIn
    BY <1>1, <2>2, TimingAssumption DEF PollIdle, IdlePoll, CollectSilent,
       CollectSilentNode, CollectDone
  <2>4. \A c \in KnownNodes : flushIn[c] \in Nat
    BY AirAssumption DEF AirTypeOK, NoFlush
  <2>5. \A c \in KnownNodes : Busy(c)' <=> Busy(c)
    BY <1>2, <2>2 DEF Busy, Authorized
  <2>6. QED
    BY <1>1, <1>2, <2>3, <2>4, <2>5 DEF FlushCovered
<1>7. QED
  BY <1>3, <1>4, <1>5, <1>6 DEF ServerStep

\* On the air a GRANT makes nobody busy who was not, and time brings the flush
\* and the end of the slot nearer alike.
LEMMA EnvironmentFlushStep ==
    ASSUME Types, SlotInv, FlushCovered, EnvironmentNext
    PROVE  FlushCovered'
<1> USE DEF Types
<1>1. grantIn \in Nat /\ \A c \in KnownNodes : flushIn[c] \in Nat
  BY AirAssumption DEF QueueInv, TypeOK, AirTypeOK, NoFlush
<1>2. CASE \E m \in grantAir : DeliverGrant(m)
  <2>1. PICK m \in grantAir : DeliverGrant(m)
    BY <1>2
  <2>2. m.node \in KnownNodes
    BY DEF AirTypeOK, GrantFrame
  <2>3. /\ \A c \in KnownNodes : c # m.node => windowMs'[c] = windowMs[c]
        /\ grantAir' \subseteq grantAir
        /\ UNCHANGED <<pending, flushIn, grantIn>>
    BY <2>1, <2>2 DEF DeliverGrant, AirTypeOK, serverVars, schedVars
  <2>4. \A c \in KnownNodes : Busy(c)' => Busy(c)
    BY <2>3 DEF Busy, Authorized
  <2>5. QED
    BY <2>3, <2>4 DEF FlushCovered
<1>3. CASE \/ \E m \in grantAir : LoseGrant(m)
           \/ \E f \in uplinkAir : LoseUplink(f)
  <2>1. /\ grantAir' \subseteq grantAir
        /\ UNCHANGED <<pending, flushIn, grantIn, windowMs>>
    BY <1>3 DEF LoseGrant, LoseUplink, serverVars, schedVars, clientVars
  <2>2. QED
    BY <2>1 DEF FlushCovered, Busy, Authorized
<1>4. CASE TickAir
  <2>1. grantIn' = IF grantIn = 0 THEN 0 ELSE grantIn - 1
    BY <1>4 DEF TickAir, ServerTick, Tick
  <2>2. \A c \in KnownNodes : Busy(c)' => Busy(c)
    <3>1. \A c \in KnownNodes : Authorized(c)' => Authorized(c)
      BY <1>4 DEF TickAir, Authorized, Down, AirTypeOK
    <3>2. \A m \in grantAir : [m EXCEPT !.age = @ + 1].node = m.node
      BY DEF AirTypeOK, GrantFrame
    <3>3. grantAir' = {[m EXCEPT !.age = @ + 1] : m \in grantAir}
      BY <1>4 DEF TickAir
    <3>4. QED
      BY <3>1, <3>2, <3>3 DEF Busy
  <2> SUFFICES ASSUME NEW c \in KnownNodes, pending[c] = 0, flushIn'[c] # NoFlush
               PROVE  flushIn'[c] < grantIn' /\ \A d \in KnownNodes : Busy(d)' => d = c
    BY <1>4 DEF TickAir, FlushCovered
  <2>3. /\ flushIn[c] # NoFlush /\ flushIn[c] # 0
        /\ flushIn'[c] = IF flushIn[c] = 0 THEN 0 ELSE flushIn[c] - 1
    BY <1>4 DEF TickAir, Down
  <2>4. flushIn[c] < grantIn /\ \A d \in KnownNodes : Busy(d) => d = c
    BY <2>3 DEF FlushCovered
  <2>5. flushIn'[c] < grantIn'
    BY <1>1, <2>1, <2>3, <2>4
  <2>6. QED
    BY <2>2, <2>4, <2>5
<1>5. QED
  BY <1>2, <1>3, <1>4 DEF EnvironmentNext

\* When the guard interval also covers the flush delay, no client transmits,
\* not even the rest of an FEC block, into the window of another client.
THEOREM AirHasNoCollision ==
    ASSUME NoFeedback, DelayWithinGuard, FlushWithinGuard
    PROVE  AirSpec => NoCollision
<1> DEFINE Inv == IInv /\ ~feedbackActive /\ FlushCovered
<1>1. Inv /\ [AirNext]_vars => Inv'
  <2> SUFFICES ASSUME Inv, [AirNext]_vars PROVE Inv'
    OBVIOUS
  <2>1. IInv' /\ ~feedbackActive' /\ Types /\ SlotInv
    BY IInvNext, StaysClosed, OneSlot DEF IInv
  <2>2. CASE UNCHANGED vars
    BY <2>1, <2>2 DEF vars, serverVars, schedVars, clientVars, airVars,
       FlushCovered, Busy, Authorized
  <2>3. CASE AirNext
    BY <2>1, <2>3, ClientFlushStep, ServerFlushStep, EnvironmentFlushStep DEF AirNext
  <2>4. QED
    BY <2>2, <2>3
<1>2. Inv /\ [AirNext]_vars =>
        [\A c, d \in KnownNodes : DataOnAir(c) /\ Authorized(d) => c = d]_vars
  <2> SUFFICES ASSUME Inv, NEW c \in KnownNodes, NEW d \in KnownNodes,
                      DataOnAir(c), Authorized(d)
               PROVE  c = d
    OBVIOUS
  <2>1. SlotInv
    BY OneSlot
  <2>2. CASE SendData(c)
    BY <2>1, <2>2 DEF SendData, SlotInv, Busy
  <2>3. CASE FlushBlock(c)
    BY <2>3, AirAssumption DEF FlushBlock, FlushCovered, Busy, NoFlush
  <2>4. QED
    BY <2>2, <2>3 DEF DataOnAir
<1>3. AirInit => Inv
  BY IInvInit, FlushCoveredInit DEF AirInit, ServerInit
<1>4. QED
  BY <1>1, <1>2, <1>3, PTL DEF AirSpec, NoCollision

=============================================================================
