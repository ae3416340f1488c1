----------------------------- MODULE Reassembly -----------------------------
(***************************************************************************)
(* The data path of one sender: the transmitter that cuts its packets into *)
(* FEC blocks (src/tx.cpp, Transmitter::send_packet) and the receiver that *)
(* puts them together again (src/rx.cpp, Aggregator), for one source node; *)
(* the receiver keeps the states of different sources apart.               *)
(*                                                                         *)
(* A block is K packets and N - K parity fragments; any K of the N give    *)
(* all packets.  The air loses, repeats and reorders: a frame once sent    *)
(* can be heard at any later time, any number of times, or never.  A       *)
(* sender that restarts opens a session of its own and numbers its blocks  *)
(* from 0 again.                                                           *)
(*                                                                         *)
(* The receiver holds unfinished blocks in a ring of slots.  It handles    *)
(* one frame at a time; a step is one turn of one of its loops, so that    *)
(* what a step hands on are packets of one block, in increasing order.     *)
(* Packets that only fill up a block are treated like all others.          *)
(***************************************************************************)
EXTENDS Integers, FiniteSets

CONSTANTS
    K, N,         \* fec_k, fec_n
    Ring,         \* RX_RING_SIZE
    MaxBlocks,    \* bound: blocks of a session
    MaxSession    \* bound: runs of the sender

ASSUME FecAssumption ==
    /\ K \in Nat \ {0} /\ N \in Nat /\ K <= N
    /\ Ring \in Nat \ {0}
    /\ MaxBlocks \in Nat /\ MaxSession \in Nat \ {0}

Fragment == 0..(N - 1)
Packet == 0..(K - 1)         \* the fragments that are packets themselves
Block == 0..(MaxBlocks - 1)
Slot == 0..(Ring - 1)
Session == 1..MaxSession

NoSession == 0               \* has_session = false
NoBlock == -1                \* last_known_block before the first block
Idle == <<>>

VARIABLES
    txSession, txBlock, txFragment,   \* data_session_id, block_idx, fragment_idx
    air,       \* frames sent: session, block, fragment
    session,   \* session_id
    retired,   \* retired_sessions
    ring,      \* rx_ring: block_idx, fragment_to_send_idx, fragment_map
    front,     \* rx_ring_front
    alloc,     \* rx_ring_alloc
    last,      \* last_known_block
    todo,      \* block and fragment of the frame that is being handled
    heard,     \* history: fragments kept in this session
    out        \* history: how often a packet of this session was handed on

txVars == <<txSession, txBlock, txFragment, air>>
rxVars == <<session, retired, ring, front, alloc, last, todo, heard, out>>
vars == <<txVars, rxVars>>

Empty(b) == [block |-> b, next |-> 0, map |-> {}]

NothingOut == [p \in Block \X Packet |-> 0]

Init ==
    /\ txSession = 1 /\ txBlock = 0 /\ txFragment = 0
    /\ air = {}
    /\ session = NoSession /\ retired = {}
    /\ ring = [i \in Slot |-> Empty(0)]
    /\ front = 0 /\ alloc = 0 /\ last = NoBlock
    /\ todo = Idle
    /\ heard = {} /\ out = NothingOut

-----------------------------------------------------------------------------
(* ---- the sender ---- *)

\* send_packet: the last packet of a block brings the parity fragments with it.
SendPacket ==
    /\ todo = Idle /\ txBlock < MaxBlocks
    /\ IF txFragment + 1 < K
       THEN /\ air' = air \union {<<txSession, txBlock, txFragment>>}
            /\ txFragment' = txFragment + 1
            /\ UNCHANGED txBlock
       ELSE /\ air' = air \union {<<txSession, txBlock, f>> : f \in txFragment..(N - 1)}
            /\ txBlock' = txBlock + 1 /\ txFragment' = 0
    /\ UNCHANGED <<txSession, rxVars>>

\* The process is started again, and generate_session_id gives it a new session.
RestartSender ==
    /\ todo = Idle /\ txSession < MaxSession
    /\ txSession' = txSession + 1 /\ txBlock' = 0 /\ txFragment' = 0
    /\ UNCHANGED <<air, rxVars>>

(* ---- the receiver ---- *)

SlotAt(i) == (front + i) % Ring                    \* the i-th unfinished block
InRing(b) == \E i \in 0..(alloc - 1) : ring[SlotAt(i)].block = b
SlotOf(b) == CHOOSE s \in {SlotAt(i) : i \in 0..(alloc - 1)} : ring[s].block = b

\* send_packet, for some packets of the block b
HandOn(b, P) ==
    out' = [p \in DOMAIN out |-> IF p[1] = b /\ p[2] \in P THEN out[p] + 1 ELSE out[p]]

\* Mutation of Hear: a new session finds the ring as the old one has left it.
HearUnreset(s, b, f) ==
    /\ todo = Idle
    /\ <<s, b, f>> \in air
    /\ s = session \/ s \notin retired
    /\ todo' = <<b, f>>
    /\ session' = s
    /\ IF session \in {NoSession, s}
       THEN UNCHANGED <<retired, heard, out>>
       ELSE retired' = retired \union {session} /\ heard' = {} /\ out' = NothingOut
    /\ UNCHANGED <<txVars, ring, front, alloc, last>>

\* A frame is heard: accept_data_session.  Another session that is not retired
\* retires this one and resets the reassembly.
Hear(s, b, f) ==
    /\ todo = Idle
    /\ <<s, b, f>> \in air
    /\ s = session \/ s \notin retired
    /\ todo' = <<b, f>>
    /\ session' = s
    /\ IF session \in {NoSession, s}
       THEN UNCHANGED <<retired, ring, front, alloc, last, heard, out>>
       ELSE /\ retired' = retired \union {session}
            /\ ring' = [i \in Slot |-> Empty(0)]
            /\ front' = 0 /\ alloc' = 0 /\ last' = NoBlock
            /\ heard' = {} /\ out' = NothingOut
    /\ UNCHANGED txVars

\* get_block_ring_idx: a block that has left the ring is not opened again.
DropLate ==
    /\ todo # Idle /\ todo[1] <= last /\ ~InRing(todo[1])
    /\ todo' = Idle
    /\ UNCHANGED <<txVars, session, retired, ring, front, alloc, last, heard, out>>

\* The block that the loop opens next, on its way to that of the frame
NextBlock ==
    CASE last = NoBlock -> todo[1]
      [] last # NoBlock /\ last < todo[1] - Ring -> todo[1] - Ring + 1
      [] OTHER -> last + 1

\* What is there of the front block and has not been handed on
Rest == {f \in ring[front].map : ring[front].next <= f /\ f < K}

\* rx_ring_push: a free slot behind the others
PushFree ==
    /\ todo # Idle /\ todo[1] > last /\ alloc < Ring
    /\ ring' = [ring EXCEPT ![SlotAt(alloc)] = Empty(NextBlock)]
    /\ alloc' = alloc + 1
    /\ last' = NextBlock
    /\ UNCHANGED <<txVars, session, retired, front, todo, heard, out>>

\* Mutation of PushOver: what the front block holds is given up with it.
PushOverSilent ==
    /\ todo # Idle /\ todo[1] > last /\ alloc = Ring
    /\ ring' = [ring EXCEPT ![front] = Empty(NextBlock)]
    /\ front' = (front + 1) % Ring
    /\ last' = NextBlock
    /\ UNCHANGED <<txVars, session, retired, alloc, todo, heard, out>>

\* ... or none, and the front block makes room: what is there of it is handed on.
PushOver ==
    /\ todo # Idle /\ todo[1] > last /\ alloc = Ring
    /\ HandOn(ring[front].block, Rest)
    /\ ring' = [ring EXCEPT ![front] = Empty(NextBlock)]
    /\ front' = (front + 1) % Ring
    /\ last' = NextBlock
    /\ UNCHANGED <<txVars, session, retired, alloc, todo, heard>>

Complete(s) == Cardinality(ring[s].map) = K

\* The fragments after next that follow each other without a gap
Run(s, map) == {f \in Packet : ring[s].next <= f /\ \A g \in ring[s].next..f : g \in map}

\* The fragment is kept.  The front block hands on what has become contiguous.
Keep ==
    /\ todo # Idle /\ InRing(todo[1])
    /\ LET s == SlotOf(todo[1])
           f == todo[2]
           map == ring[s].map \union {f}
           run == IF s = front THEN Run(s, map) ELSE {}
       IN /\ f \notin ring[s].map
          /\ ring' = [ring EXCEPT ![s].map = map, ![s].next = @ + Cardinality(run)]
          /\ HandOn(todo[1], run)
          /\ heard' = heard \union {todo}
          /\ todo' = IF Cardinality(map) = K THEN todo ELSE Idle
    /\ UNCHANGED <<txVars, session, retired, front, alloc, last>>

\* A fragment that is there already
DropTwice ==
    /\ todo # Idle /\ InRing(todo[1])
    /\ todo[2] \in ring[SlotOf(todo[1])].map /\ ~Complete(SlotOf(todo[1]))
    /\ todo' = Idle
    /\ UNCHANGED <<txVars, session, retired, ring, front, alloc, last, heard, out>>

\* K fragments of a block are there: older blocks leave as they are ...
PassOlder ==
    /\ todo # Idle /\ InRing(todo[1])
    /\ Complete(SlotOf(todo[1])) /\ SlotOf(todo[1]) # front
    /\ HandOn(ring[front].block, Rest)
    /\ front' = (front + 1) % Ring /\ alloc' = alloc - 1
    /\ UNCHANGED <<txVars, session, retired, ring, last, todo, heard>>

\* Mutation of Finish: the packets that were handed on already go again.
FinishAgain ==
    /\ todo # Idle /\ InRing(todo[1])
    /\ Complete(front) /\ SlotOf(todo[1]) = front
    /\ HandOn(todo[1], Packet)
    /\ front' = (front + 1) % Ring /\ alloc' = alloc - 1
    /\ todo' = Idle
    /\ UNCHANGED <<txVars, session, retired, ring, last, heard>>

\* ... and the block itself leaves in full, with what apply_fec has recovered.
Finish ==
    /\ todo # Idle /\ InRing(todo[1])
    /\ Complete(front) /\ SlotOf(todo[1]) = front
    /\ HandOn(todo[1], {f \in Packet : ring[front].next <= f})
    /\ front' = (front + 1) % Ring /\ alloc' = alloc - 1
    /\ todo' = Idle
    /\ UNCHANGED <<txVars, session, retired, ring, last, heard>>

Next ==
    \/ SendPacket \/ RestartSender
    \/ \E m \in air : Hear(m[1], m[2], m[3])
    \/ DropLate \/ PushFree \/ PushOver \/ Keep \/ DropTwice \/ PassOlder \/ Finish

Spec == Init /\ [][Next]_vars

-----------------------------------------------------------------------------
TypeOK ==
    /\ txSession \in Session /\ txBlock \in 0..MaxBlocks /\ txFragment \in Packet
    /\ air \subseteq Session \X Block \X Fragment
    /\ session \in Session \union {NoSession} /\ retired \subseteq Session
    /\ ring \in [Slot -> [block : Int, next : 0..K, map : SUBSET Fragment]]
    /\ front \in Slot /\ alloc \in 0..Ring
    /\ last \in Block \union {NoBlock}
    /\ todo \in (Block \X Fragment) \union {Idle}
    /\ heard \subseteq Block \X Fragment
    /\ out \in [Block \X Packet -> Nat]

\* RingSound: the unfinished blocks lie in the ring in the order of their numbers, up
\* to the last known one, and none of them stays that could be completed.
RingSound ==
    /\ \A i, j \in 0..(alloc - 1) : i < j => ring[SlotAt(i)].block < ring[SlotAt(j)].block
    /\ alloc > 0 => ring[SlotAt(alloc - 1)].block = last
    /\ todo = Idle => \A i \in 0..(alloc - 1) : ~Complete(SlotAt(i))

Decodable(b) == Cardinality({f \in Fragment : <<b, f>> \in heard}) >= K

\* Genuine: what is handed on is a packet that has been heard in this session, or
\* that K fragments of its block give, and a restarted sender's blocks are never
\* completed with fragments of its last run (accept_data_session, apply_fec).
Genuine == \A p \in DOMAIN out : out[p] > 0 => p \in heard \/ Decodable(p[1])

\* NothingWithheld: a block leaves the ring only after everything that was heard of
\* it, or that can be recovered, has been handed on (rx_ring_push, process_packet).
NothingWithheld == todo = Idle =>
    \A p \in DOMAIN out :
        p[1] <= last /\ ~InRing(p[1]) /\ (p \in heard \/ Decodable(p[1])) => out[p] > 0

\* InOrder: within a session packets are handed on in the order in which they were
\* sent, and never twice, however frames are repeated and overtake each other.
Before(p, q) == p[1] < q[1] \/ (p[1] = q[1] /\ p[2] < q[2])
InOrder == [][session' = session =>
    \A p \in DOMAIN out : out'[p] > out[p] =>
        \A q \in DOMAIN out : out[q] > 0 => Before(q, p)]_vars
=============================================================================
