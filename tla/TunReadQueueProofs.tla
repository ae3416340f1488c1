------------------------- MODULE TunReadQueueProofs -------------------------
(***************************************************************************)
(* Proofs about TunReadQueue, for every number of slots and every pair of  *)
(* thresholds: reading is only enabled while a slot is free, and the ring  *)
(* implements BoundedFifo.  The inductive invariant adds to TypeOK that    *)
(* the slots from head on hold packets and that a full ring pauses         *)
(* reading.                                                                *)
(***************************************************************************)
EXTENDS TunReadQueue, SequenceTheorems, TLAPS

\* The slots of the queued packets hold packets.
SlotsFilled == \A i \in 0..(count - 1) : slots[(head + i) % Limit] \in Packets

QueueInv == TypeOK /\ SlotsFilled /\ RoomWhileReading

-----------------------------------------------------------------------------
\* x % L as an operator of its own, so that the provers see facts about it and
\* not its arithmetic.
Mod(x, L) == x % L

\* An index that runs at most once beyond the end of the ring wraps once.
LEMMA Wrap ==
    ASSUME NEW L \in Nat \ {0}, NEW x \in 0..(2 * L - 1)
    PROVE  Mod(x, L) = IF x < L THEN x ELSE x - L
<1>1. CASE x < L
  BY <1>1 DEF Mod
<1>2. CASE x >= L
  <2>1. x = L * 1 + (x - L) /\ x - L \in 0..(L - 1)
    BY <1>2
  <2>2. QED
    BY <2>1 DEF Mod
<1>3. QED
  BY <1>1, <1>2

\* The ring's indices are where a reader expects them: distinct offsets from
\* head are distinct slots.
LEMMA RingIndex ==
    ASSUME NEW L \in Nat \ {0}, NEW h \in 0..(L - 1), NEW i \in 0..(L - 1)
    PROVE  /\ (h + i) % L \in 0..(L - 1)
           /\ \A j \in 0..(L - 1) : (h + i) % L = (h + j) % L => i = j
           /\ (h + 1) % L \in 0..(L - 1)
           /\ h % L = h
<1>1. ASSUME NEW g \in 0..(L - 1), NEW j \in 0..(L - 1)
      PROVE  /\ Mod(g + j, L) = IF g + j < L THEN g + j ELSE g + j - L
             /\ Mod(g + j, L) \in 0..(L - 1)
  <2>1. g + j \in 0..(2 * L - 1)
    OBVIOUS
  <2>2. Mod(g + j, L) = IF g + j < L THEN g + j ELSE g + j - L
    BY <2>1, Wrap
  <2>3. QED
    BY <2>2
<1>2. ASSUME NEW j \in 0..(L - 1), Mod(h + i, L) = Mod(h + j, L)
      PROVE  i = j
  BY <1>1, <1>2
<1>3. /\ Mod(h + 1, L) = IF h + 1 < L THEN h + 1 ELSE h + 1 - L
      /\ Mod(h + 1, L) \in 0..(L - 1)
  <2>1. h + 1 \in 0..(2 * L - 1)
    OBVIOUS
  <2>2. Mod(h + 1, L) = IF h + 1 < L THEN h + 1 ELSE h + 1 - L
    BY <2>1, Wrap
  <2>3. QED
    BY <2>2
<1>4. Mod(h, L) = h
  <2>1. h \in 0..(2 * L - 1)
    OBVIOUS
  <2>2. QED
    BY <2>1, Wrap
<1>5. QED
  <2>1. (h + i) % L \in 0..(L - 1)
    BY <1>1 DEF Mod
  <2>2. \A j \in 0..(L - 1) : (h + i) % L = (h + j) % L => i = j
    BY <1>2 DEF Mod
  <2>3. (h + 1) % L \in 0..(L - 1) /\ h % L = h
    BY <1>3, <1>4 DEF Mod
  <2>4. QED
    BY <2>1, <2>2, <2>3

\* Moving head forward by one slot shifts the offsets by one.
LEMMA RingShift ==
    ASSUME NEW L \in Nat \ {0}, NEW h \in 0..(L - 1), NEW i \in 0..(L - 1), i + 1 < L
    PROVE  (((h + 1) % L) + i) % L = (h + (i + 1)) % L
<1> DEFINE g == Mod(h + 1, L)
           k == i + 1
<1>1. g = IF h + 1 < L THEN h + 1 ELSE h + 1 - L
  <2>1. h + 1 \in 0..(2 * L - 1)
    OBVIOUS
  <2>2. QED
    BY <2>1, Wrap
<1>2. Mod(h + k, L) = IF h + k < L THEN h + k ELSE h + k - L
  <2>1. h + k \in 0..(2 * L - 1)
    OBVIOUS
  <2>2. QED
    BY <2>1, Wrap
<1>3. g \in 0..(L - 1)
  BY <1>1
<1>4. ASSUME NEW x \in 0..(L - 1)
      PROVE  Mod(x + i, L) = IF x + i < L THEN x + i ELSE x + i - L
  <2>1. x + i \in 0..(2 * L - 1)
    OBVIOUS
  <2>2. QED
    BY <2>1, Wrap
<1>5. Mod(g + i, L) = Mod(h + k, L)
  <2> HIDE DEF g
  <2>1. Mod(g + i, L) = IF g + i < L THEN g + i ELSE g + i - L
    BY <1>3, <1>4
  <2>2. QED
    BY <2>1, <1>1, <1>2, <1>3
<1>6. QED
  BY <1>5 DEF Mod

\* The ring is empty, and reading enabled, at the start.
LEMMA QueueInvInit == Init => QueueInv
<1> SUFFICES ASSUME Init PROVE QueueInv
  OBVIOUS
<1>1. TypeOK
  <2>1. slots \in [SlotIndex -> Packets \cup {Nothing}] /\ head \in SlotIndex
    BY QueueAssumption DEF Init, SlotIndex
  <2>2. count \in 0..Limit /\ queuedBytes \in Int /\ reason \in Reasons
    BY QueueAssumption DEF Init, Reasons
  <2>3. latched \in BOOLEAN /\ paused \in BOOLEAN
    BY DEF Init
  <2>4. QED
    BY <2>1, <2>2, <2>3 DEF TypeOK
<1>2. SlotsFilled /\ RoomWhileReading
  BY QueueAssumption DEF Init, SlotsFilled, RoomWhileReading
<1>3. QED
  BY <1>1, <1>2 DEF QueueInv

\* After push and pop the latch, the reason and the pause flag have their types,
\* and a full ring pauses reading.
LEMMA PauseAfterUpdate ==
    ASSUME TypeOK, UpdatePause, queuedBytes' \in Int, count' \in 0..Limit
    PROVE  /\ latched' \in BOOLEAN /\ paused' \in BOOLEAN /\ reason' \in Reasons
           /\ RoomWhileReading'
<1>1. latched' \in BOOLEAN
  <2>1. latched' = IF latched THEN queuedBytes' > ResumeBytes
                              ELSE queuedBytes' >= PauseBytes
    BY DEF UpdatePause, LatchAfter
  <2>2. (queuedBytes' > ResumeBytes) \in BOOLEAN /\ (queuedBytes' >= PauseBytes) \in BOOLEAN
    BY QueueAssumption
  <2>3. QED
    BY <2>1, <2>2, Zenon
<1>2. reason' \in Reasons /\ (count' = Limit => reason' # "none")
  BY DEF UpdatePause, ReasonFor, Reasons
<1>3. paused' \in BOOLEAN /\ (count' = Limit => paused' = TRUE)
  BY <1>2 DEF UpdatePause
<1>4. RoomWhileReading'
  BY <1>3, QueueAssumption DEF RoomWhileReading
<1>5. QED
  BY <1>1, <1>2, <1>3, <1>4

\* What push writes, and that it overwrites no queued packet.
LEMMA PushSlot ==
    ASSUME QueueInv, count < Limit
    PROVE  /\ TailSlot \in SlotIndex
           /\ \A i \in 0..(count - 1) :
                (head + i) % Limit \in SlotIndex /\ (head + i) % Limit # TailSlot
<1>1. /\ Limit \in Nat \ {0} /\ head \in 0..(Limit - 1) /\ count \in 0..(Limit - 1)
  BY QueueAssumption DEF QueueInv, TypeOK, SlotIndex
<1>2. TailSlot \in SlotIndex
  BY <1>1, RingIndex DEF TailSlot, SlotIndex
<1>3. ASSUME NEW i \in 0..(count - 1)
      PROVE  (head + i) % Limit \in SlotIndex /\ (head + i) % Limit # TailSlot
  <2>1. i \in 0..(Limit - 1) /\ i # count
    BY <1>1
  <2>2. (head + i) % Limit \in 0..(Limit - 1)
    BY <1>1, <2>1, RingIndex
  <2>3. (head + i) % Limit # (head + count) % Limit
    BY <1>1, <2>1, RingIndex
  <2>4. QED
    BY <2>2, <2>3 DEF TailSlot, SlotIndex
<1>4. QED
  BY <1>2, <1>3

\* What pop clears: the slot at head, and no slot of the packets behind it,
\* which are found again from the new head.
LEMMA PopSlot ==
    ASSUME QueueInv, count > 0
    PROVE  /\ head \in SlotIndex /\ slots[head] \in Packets
           /\ (head + 1) % Limit \in SlotIndex
           /\ \A i \in 0..(count - 2) :
                /\ (((head + 1) % Limit) + i) % Limit = (head + (i + 1)) % Limit
                /\ (head + (i + 1)) % Limit \in SlotIndex
                /\ (head + (i + 1)) % Limit # head
<1>1. /\ Limit \in Nat \ {0} /\ head \in 0..(Limit - 1)
      /\ count \in 1..Limit /\ 0 \in 0..(Limit - 1)
  BY QueueAssumption DEF QueueInv, TypeOK, SlotIndex
<1>2. head % Limit = head /\ (head + 1) % Limit \in 0..(Limit - 1)
  BY <1>1, RingIndex
<1>3. (head + 0) % Limit = head
  BY <1>1, <1>2
<1>4. slots[head] \in Packets
  <2>1. 0 \in 0..(count - 1)
    BY <1>1
  <2>2. slots[(head + 0) % Limit] \in Packets
    BY <2>1 DEF QueueInv, SlotsFilled
  <2>3. QED
    BY <2>2, <1>3
<1>5. ASSUME NEW i \in 0..(count - 2)
      PROVE  /\ (((head + 1) % Limit) + i) % Limit = (head + (i + 1)) % Limit
             /\ (head + (i + 1)) % Limit \in SlotIndex
             /\ (head + (i + 1)) % Limit # head
  <2>1. i \in 0..(Limit - 1) /\ i + 1 \in 0..(Limit - 1) /\ i + 1 # 0 /\ i + 1 < Limit
    BY <1>1
  <2>2. (((head + 1) % Limit) + i) % Limit = (head + (i + 1)) % Limit
    BY <1>1, <2>1, RingShift
  <2>3. (head + (i + 1)) % Limit \in 0..(Limit - 1)
    BY <1>1, <2>1, RingIndex
  <2>4. (head + (i + 1)) % Limit # (head + 0) % Limit
    BY <1>1, <2>1, RingIndex
  <2>5. QED
    BY <2>2, <2>3, <2>4, <1>3 DEF SlotIndex
<1>6. QED
  BY <1>1, <1>2, <1>4, <1>5 DEF SlotIndex

\* push preserves the invariant.
LEMMA ReadTunInv ==
    ASSUME QueueInv, NEW p \in Packets, ReadTun(p)
    PROVE  QueueInv'
<1>1. /\ Limit \in Nat \ {0} /\ head \in SlotIndex /\ count \in 0..(Limit - 1)
      /\ p.size \in Nat /\ queuedBytes \in Int
      /\ slots \in [SlotIndex -> Packets \cup {Nothing}]
  <2>1. Limit \in Nat \ {0} /\ count \in 0..(Limit - 1)
    BY QueueAssumption DEF QueueInv, TypeOK, ReadTun
  <2>2. p.size \in Nat
    BY QueueAssumption DEF Packets
  <2>3. QED
    BY <2>1, <2>2 DEF QueueInv, TypeOK
<1>2. /\ TailSlot \in SlotIndex
      /\ \A i \in 0..(count - 1) :
           (head + i) % Limit \in SlotIndex /\ (head + i) % Limit # TailSlot
  BY PushSlot DEF ReadTun
<1>3. /\ slots' = [slots EXCEPT ![TailSlot] = p] /\ head' = head
      /\ count' = count + 1 /\ queuedBytes' = queuedBytes + p.size
  BY DEF ReadTun
<1>4. count' \in 0..Limit /\ queuedBytes' \in Int
  BY <1>1, <1>3
<1>5. /\ latched' \in BOOLEAN /\ paused' \in BOOLEAN /\ reason' \in Reasons
      /\ RoomWhileReading'
  BY <1>4, PauseAfterUpdate DEF QueueInv, ReadTun
<1>6. slots' \in [SlotIndex -> Packets \cup {Nothing}] /\ head' \in SlotIndex
  BY <1>1, <1>2, <1>3
<1>7. TypeOK'
  BY <1>4, <1>5, <1>6 DEF TypeOK
<1>8. SlotsFilled'
  <2> SUFFICES ASSUME NEW i \in 0..(count' - 1)
               PROVE  slots'[(head' + i) % Limit] \in Packets
    BY DEF SlotsFilled
  <2>1. CASE i = count
    BY <2>1, <1>1, <1>2, <1>3 DEF TailSlot
  <2>2. CASE i # count
    <3>1. i \in 0..(count - 1)
      BY <2>2, <1>1, <1>3
    <3>2. slots[(head + i) % Limit] \in Packets
      BY <3>1 DEF QueueInv, SlotsFilled
    <3>3. slots'[(head + i) % Limit] = slots[(head + i) % Limit]
      BY <3>1, <1>1, <1>2, <1>3
    <3>4. QED
      BY <3>2, <3>3, <1>3
  <2>3. QED
    BY <2>1, <2>2
<1>9. QED
  BY <1>5, <1>7, <1>8 DEF QueueInv

\* pop preserves the invariant.
LEMMA SendFrontInv ==
    ASSUME QueueInv, SendFront
    PROVE  QueueInv'
<1>1. /\ Limit \in Nat \ {0} /\ count \in 1..Limit /\ queuedBytes \in Int
      /\ slots \in [SlotIndex -> Packets \cup {Nothing}]
  BY QueueAssumption DEF QueueInv, TypeOK, SendFront
<1>2. /\ head \in SlotIndex /\ slots[head] \in Packets
      /\ (head + 1) % Limit \in SlotIndex
      /\ \A i \in 0..(count - 2) :
           /\ (((head + 1) % Limit) + i) % Limit = (head + (i + 1)) % Limit
           /\ (head + (i + 1)) % Limit \in SlotIndex
           /\ (head + (i + 1)) % Limit # head
  BY PopSlot DEF SendFront
<1>3. /\ slots' = [slots EXCEPT ![head] = Nothing] /\ head' = (head + 1) % Limit
      /\ count' = count - 1 /\ queuedBytes' = queuedBytes - slots[head].size
  BY DEF SendFront
<1>4. slots[head].size \in Nat
  BY <1>2, QueueAssumption DEF Packets
<1>5. count' \in 0..Limit /\ queuedBytes' \in Int
  BY <1>1, <1>3, <1>4
<1>6. /\ latched' \in BOOLEAN /\ paused' \in BOOLEAN /\ reason' \in Reasons
      /\ RoomWhileReading'
  BY <1>5, PauseAfterUpdate DEF QueueInv, SendFront
<1>7. slots' \in [SlotIndex -> Packets \cup {Nothing}] /\ head' \in SlotIndex
  BY <1>1, <1>2, <1>3
<1>8. TypeOK'
  BY <1>5, <1>6, <1>7 DEF TypeOK
<1>9. SlotsFilled'
  <2> SUFFICES ASSUME NEW i \in 0..(count' - 1)
               PROVE  slots'[(head' + i) % Limit] \in Packets
    BY DEF SlotsFilled
  <2>1. i \in 0..(count - 2) /\ i + 1 \in 0..(count - 1)
    BY <1>1, <1>3
  <2>2. slots[(head + (i + 1)) % Limit] \in Packets
    BY <2>1 DEF QueueInv, SlotsFilled
  <2>3. slots'[(head + (i + 1)) % Limit] = slots[(head + (i + 1)) % Limit]
    BY <2>1, <1>1, <1>2, <1>3
  <2>4. QED
    BY <2>1, <2>2, <2>3, <1>2, <1>3
<1>10. QED
  BY <1>6, <1>8, <1>9 DEF QueueInv

\* The invariant is inductive.
LEMMA QueueInvNext == QueueInv /\ [Next]_vars => QueueInv'
<1> SUFFICES ASSUME QueueInv, [Next]_vars PROVE QueueInv'
  OBVIOUS
<1>1. CASE SendFront
  BY <1>1, SendFrontInv
<1>2. CASE \E p \in Packets : ReadTun(p)
  BY <1>2, ReadTunInv
<1>3. CASE UNCHANGED vars
  BY <1>3 DEF vars, QueueInv, TypeOK, SlotsFilled, RoomWhileReading
<1>4. QED
  BY <1>1, <1>2, <1>3 DEF Next

\* Reading from the TUN device never finds the ring full, for any number of
\* slots and any thresholds.
THEOREM ReadingHasRoom == Spec => []RoomWhileReading
<1>1. QueueInv => RoomWhileReading
  BY DEF QueueInv
<1>2. QED
  BY <1>1, QueueInvInit, QueueInvNext, PTL DEF Spec

-----------------------------------------------------------------------------
\* The packets in the ring, read from head on, are a sequence of count packets.
BacklogIsSeq ==
    /\ Backlog \in Seq(Packets) /\ Len(Backlog) = count /\ count \in Nat
    /\ \A i \in 1..count : Backlog[i] = slots[(head + i - 1) % Limit]

\* In every state of the ring the backlog is such a sequence.
LEMMA BacklogSeq == QueueInv => BacklogIsSeq
<1> SUFFICES ASSUME QueueInv PROVE BacklogIsSeq
  OBVIOUS
<1>1. count \in Nat /\ head \in Int
  BY QueueAssumption DEF QueueInv, TypeOK, SlotIndex
<1>2. ASSUME NEW i \in 1..count PROVE slots[(head + i - 1) % Limit] \in Packets
  <2>1. i - 1 \in 0..(count - 1) /\ head + i - 1 = head + (i - 1)
    BY <1>1
  <2>2. slots[(head + (i - 1)) % Limit] \in Packets
    BY <2>1 DEF QueueInv, SlotsFilled
  <2>3. QED
    BY <2>1, <2>2
<1>3. Backlog \in [1..count -> Packets]
  BY <1>2 DEF Backlog
<1>4. Backlog \in Seq(Packets)
  BY <1>1, <1>3, SeqDef
<1>5. Len(Backlog) = count
  BY <1>1, <1>3, <1>4, LenProperties
<1>6. \A i \in 1..count : Backlog[i] = slots[(head + i - 1) % Limit]
  BY DEF Backlog
<1>7. QED
  BY <1>1, <1>4, <1>5, <1>6 DEF BacklogIsSeq

\* push appends to the backlog.
LEMMA ReadTunPuts ==
    ASSUME QueueInv, QueueInv', NEW p \in Packets, ReadTun(p)
    PROVE  Fifo!Put(p)
<1>1. /\ Backlog \in Seq(Packets) /\ Len(Backlog) = count /\ count \in Nat
      /\ \A i \in 1..count : Backlog[i] = slots[(head + i - 1) % Limit]
  BY BacklogSeq DEF BacklogIsSeq
<1>2. /\ Backlog' \in Seq(Packets) /\ Len(Backlog') = count + 1
      /\ \A i \in 1..(count + 1) : Backlog'[i] = slots'[(head + i - 1) % Limit]
  <2>1. BacklogIsSeq'
    BY BacklogSeq, PTL
  <2>2. QED
    BY <2>1 DEF BacklogIsSeq, ReadTun
<1>3. /\ TailSlot \in SlotIndex
      /\ \A i \in 0..(count - 1) :
           (head + i) % Limit \in SlotIndex /\ (head + i) % Limit # TailSlot
  BY PushSlot DEF ReadTun
<1>4. /\ slots' = [slots EXCEPT ![TailSlot] = p]
      /\ slots \in [SlotIndex -> Packets \cup {Nothing}] /\ head \in Int
  BY DEF ReadTun, QueueInv, TypeOK, SlotIndex
<1>5. ASSUME NEW i \in 1..(count + 1) PROVE Backlog'[i] = Append(Backlog, p)[i]
  <2>1. CASE i = count + 1
    <3>1. head + i - 1 = head + count
      BY <2>1, <1>1, <1>4
    <3>2. Backlog'[i] = p
      BY <3>1, <1>2, <1>3, <1>4 DEF TailSlot
    <3>3. QED
      BY <3>2, <2>1, <1>1
  <2>2. CASE i # count + 1
    <3>1. i \in 1..count /\ i - 1 \in 0..(count - 1) /\ head + i - 1 = head + (i - 1)
      BY <2>2, <1>1, <1>4
    <3>2. slots'[(head + (i - 1)) % Limit] = slots[(head + (i - 1)) % Limit]
      BY <3>1, <1>3, <1>4
    <3>3. Backlog'[i] = Backlog[i]
      BY <3>1, <3>2, <1>1, <1>2
    <3>4. QED
      BY <3>1, <3>3, <1>1
  <2>3. QED
    BY <2>1, <2>2
<1>6. Append(Backlog, p) \in Seq(Packets) /\ Len(Append(Backlog, p)) = count + 1
  BY <1>1
<1>7. Backlog' = Append(Backlog, p)
  BY <1>2, <1>5, <1>6, SeqEqual
<1>8. Len(Backlog) < Limit
  BY <1>1 DEF ReadTun
<1>9. QED
  BY <1>7, <1>8 DEF Fifo!Put

\* pop removes the head of the backlog.
LEMMA SendFrontGets ==
    ASSUME QueueInv, QueueInv', SendFront
    PROVE  Fifo!Get
<1>1. /\ Backlog \in Seq(Packets) /\ Len(Backlog) = count /\ count \in Nat \ {0}
      /\ \A i \in 1..count : Backlog[i] = slots[(head + i - 1) % Limit]
  BY BacklogSeq DEF BacklogIsSeq, SendFront
<1>2. /\ Backlog' \in Seq(Packets) /\ Len(Backlog') = count - 1
      /\ \A i \in 1..(count - 1) : Backlog'[i] = slots'[(head' + i - 1) % Limit]
  <2>1. BacklogIsSeq'
    BY BacklogSeq, PTL
  <2>2. QED
    BY <2>1 DEF BacklogIsSeq, SendFront
<1>3. /\ head \in SlotIndex /\ (head + 1) % Limit \in SlotIndex
      /\ \A i \in 0..(count - 2) :
           /\ (((head + 1) % Limit) + i) % Limit = (head + (i + 1)) % Limit
           /\ (head + (i + 1)) % Limit \in SlotIndex
           /\ (head + (i + 1)) % Limit # head
  BY PopSlot DEF SendFront
<1>4. /\ slots' = [slots EXCEPT ![head] = Nothing] /\ head' = (head + 1) % Limit
      /\ slots \in [SlotIndex -> Packets \cup {Nothing}]
      /\ head \in Int /\ head' \in Int
  BY <1>3 DEF SendFront, QueueInv, TypeOK, SlotIndex
<1>5. ASSUME NEW i \in 1..(count - 1) PROVE Backlog'[i] = Tail(Backlog)[i]
  <2>1. /\ i - 1 \in 0..(count - 2) /\ (i - 1) + 1 = i
        /\ head' + i - 1 = head' + (i - 1) /\ head + (i + 1) - 1 = head + i
        /\ i + 1 \in 1..count
    BY <1>1, <1>4
  <2>2. Backlog'[i] = slots'[(head' + (i - 1)) % Limit]
    BY <2>1, <1>2
  <2>3. (head' + (i - 1)) % Limit = (head + i) % Limit
    BY <2>1, <1>3, <1>4
  <2>4. slots'[(head + i) % Limit] = slots[(head + i) % Limit]
    BY <2>1, <1>3, <1>4
  <2>5. Backlog[i + 1] = slots[(head + i) % Limit]
    BY <2>1, <1>1
  <2>6. Backlog'[i] = Backlog[i + 1]
    BY <2>2, <2>3, <2>4, <2>5
  <2>7. QED
    BY <2>6, <1>1
<1>6. /\ Backlog # <<>>
      /\ Tail(Backlog) \in Seq(Packets) /\ Len(Tail(Backlog)) = count - 1
  BY <1>1
<1>7. Backlog' = Tail(Backlog)
  BY <1>2, <1>5, <1>6, SeqEqual
<1>8. QED
  BY <1>6, <1>7 DEF Fifo!Get

\* The ring buffer implements the bounded FIFO queue.
THEOREM ImplementsFifo == Spec => IsFifo
<1>1. Init => Fifo!Init
  <2> SUFFICES ASSUME Init PROVE Backlog = <<>>
    BY DEF Fifo!Init
  <2>1. Backlog \in Seq(Packets) /\ Len(Backlog) = 0
    BY QueueInvInit, BacklogSeq DEF BacklogIsSeq, Init
  <2>2. QED
    BY <2>1, EmptySeq
<1>2. QueueInv /\ QueueInv' /\ [Next]_vars => [Fifo!Next]_Backlog
  <2> SUFFICES ASSUME QueueInv, QueueInv', [Next]_vars
               PROVE  [Fifo!Next]_Backlog
    OBVIOUS
  <2>1. CASE SendFront
    BY <2>1, SendFrontGets DEF Fifo!Next
  <2>2. CASE \E p \in Packets : ReadTun(p)
    BY <2>2, ReadTunPuts DEF Fifo!Next
  <2>3. CASE UNCHANGED vars
    BY <2>3 DEF vars, Backlog
  <2>4. QED
    BY <2>1, <2>2, <2>3 DEF Next
<1>3. QED
  BY <1>1, <1>2, QueueInvInit, QueueInvNext, PTL DEF Spec, IsFifo, Fifo!Spec

=============================================================================
