---------------------------- MODULE TunReadQueue ----------------------------
(***************************************************************************)
(* The packet queue between a TUN device and the radio, and the back-      *)
(* pressure it puts on the device (src/v6_uplink_queue.hpp,                *)
(* FixedCapacityTunReadQueue), as the client loop and the server loop use  *)
(* it (src/v6_uplink.cpp).                                                 *)
(*                                                                         *)
(* The loop polls the TUN device only while reading is enabled and then    *)
(* reads one packet, which it pushes; it sends the packet in front and     *)
(* pops it.  A failing push or pop ends the program.  Reading pauses when  *)
(* the ring is full, or when the queued bytes reach a threshold; in the    *)
(* second case it resumes only below another threshold.                    *)
(*                                                                         *)
(* Both loops leave the packet in the ring while they send it, and only    *)
(* one thread is involved: push and pop are atomic.  The counters that     *)
(* only feed the summary file are left out.                                *)
(***************************************************************************)
EXTENDS Integers, Sequences, SequencesExt

CONSTANTS
    Names,        \* what tells packets apart
    Sizes,        \* packet sizes in bytes
    Limit,        \* queued_packets_limit: number of slots
    PauseBytes,   \* pause_threshold_bytes
    ResumeBytes,  \* resume_threshold_bytes
    Nothing       \* a slot whose size has been cleared

Packets == [name : Names, size : Sizes]

\* parse_args: the limit is positive and pause is not below resume.  A read
\* that returns no byte is not queued.
ASSUME QueueAssumption ==
    /\ Limit \in Nat \ {0}
    /\ PauseBytes \in Nat /\ ResumeBytes \in Nat
    /\ ResumeBytes <= PauseBytes
    /\ Sizes \subseteq Nat \ {0}
    /\ Nothing \notin Packets

VARIABLES
    slots,        \* slots_
    head,         \* head_
    count,        \* count_
    queuedBytes,  \* queued_bytes_
    latched,      \* bytes_pause_latched_
    paused,       \* tun_read_paused_
    reason        \* current_pause_reason_

vars == <<slots, head, count, queuedBytes, latched, paused, reason>>

Reasons == {"none", "queued_bytes_threshold", "queued_packets_limit"}

SlotIndex == 0..(Limit - 1)

Init ==
    /\ slots = [i \in SlotIndex |-> Nothing]
    /\ head = 0
    /\ count = 0
    /\ queuedBytes = 0
    /\ latched = FALSE
    /\ paused = FALSE
    /\ reason = "none"

\* refresh_bytes_pause_latch: set at PauseBytes, cleared at ResumeBytes.
LatchAfter(old, bytes) ==
    IF old THEN bytes > ResumeBytes ELSE bytes >= PauseBytes

\* Mutation of ReasonFor: a full ring is no reason.
ReasonForBytesOnly(isFull, isLatched) ==
    IF isLatched THEN "queued_bytes_threshold" ELSE "none"

\* The reason update_pause_state finds; a full ring comes first.
ReasonFor(isFull, isLatched) ==
    IF isFull THEN "queued_packets_limit"
    ELSE IF isLatched THEN "queued_bytes_threshold"
    ELSE "none"

\* refresh_bytes_pause_latch, then update_pause_state, after count_ and
\* queued_bytes_ have changed.
UpdatePause ==
    /\ latched' = LatchAfter(latched, queuedBytes')
    /\ reason' = ReasonFor(count' = Limit, latched')
    /\ paused' = (reason' # "none")

\* Mutation of TailSlot: the slot behind the last queued one is skipped.
TailSlotPast == (head + count + 1) % Limit

\* push: the slot behind the last queued packet.
TailSlot == (head + count) % Limit

\* The loop reads packet p from the TUN device and pushes it.
ReadTun(p) ==
    /\ ~paused
    /\ count < Limit
    /\ slots' = [slots EXCEPT ![TailSlot] = p]
    /\ count' = count + 1
    /\ queuedBytes' = queuedBytes + p.size
    /\ UpdatePause
    /\ UNCHANGED head

\* Mutation of SendFront: queued_bytes_ is not reduced.
SendFrontUncounted ==
    /\ count > 0
    /\ slots' = [slots EXCEPT ![head] = Nothing]
    /\ head' = (head + 1) % Limit
    /\ count' = count - 1
    /\ UNCHANGED queuedBytes
    /\ UpdatePause

\* The loop has sent the packet in front and pops it.
SendFront ==
    /\ count > 0
    /\ queuedBytes' = queuedBytes - slots[head].size
    /\ slots' = [slots EXCEPT ![head] = Nothing]
    /\ head' = (head + 1) % Limit
    /\ count' = count - 1
    /\ UpdatePause

Next == SendFront \/ \E p \in Packets : ReadTun(p)

Spec == Init /\ [][Next]_vars

\* The front packet is sent sooner or later: the client is granted the air
\* again and again (PendingServed of UplinkAir), the server needs no grant.
FairSpec == Spec /\ WF_vars(SendFront)

-----------------------------------------------------------------------------
TypeOK ==
    /\ slots \in [SlotIndex -> Packets \cup {Nothing}]
    /\ head \in SlotIndex
    /\ count \in 0..Limit
    /\ queuedBytes \in Int
    /\ latched \in BOOLEAN
    /\ paused \in BOOLEAN
    /\ reason \in Reasons

\* The queued packets, oldest first.
Backlog == [i \in 1..count |-> slots[(head + i - 1) % Limit]]

Fifo == INSTANCE BoundedFifo WITH fifo <- Backlog

\* The ring with its wrapping indices is a bounded FIFO queue: no packet is
\* lost, duplicated, overwritten or overtaken.
IsFifo == Fifo!Spec

\* TUN reads never hit a full ring ("enqueue failed" ends the program): as long
\* as reading is enabled there is a free slot.
RoomWhileReading == ~paused => count < Limit

\* Reading resumes after every pause.
ReadingResumes == paused ~> ~paused

=============================================================================
