--------------------------- MODULE TokenScheduler ---------------------------
(***************************************************************************)
(* The uplink token scheduler of the wireless link layer                   *)
(* (src/token_scheduler.cpp) as the server loop drives it                  *)
(* (src/v6_uplink.cpp, run_server).                                        *)
(*                                                                         *)
(* A client that has uplink data declares READY and is appended to the     *)
(* active queue.  Whenever the previous slot and its guard interval are    *)
(* over the server grants the air to the node under the cursor, advances   *)
(* the cursor, and then walks the queue once, dropping the nodes that      *)
(* stayed silent for long enough; the node just granted is protected.      *)
(*                                                                         *)
(* Time.  The code stores absolute milliseconds (last_activity_ms,         *)
(* next_grant_at_ms) and only ever compares them with the current time, so *)
(* the model stores the distances: silenceMs is now - last_activity_ms and *)
(* grantIn is next_grant_at_ms - now.  silenceMs and silentGrants are      *)
(* compared with nothing above their removal thresholds and saturate       *)
(* there; the state space is finite without an artificial bound on time.   *)
(***************************************************************************)
EXTENDS Integers, Sequences

CONSTANTS
    KnownNodes,   \* config.known_clients: the only nodes that may be scheduled
    NoNode,       \* protected_node_id = 0: no removal walk is under way
    DurationMs,   \* grant_duration_ms
    GuardMs,      \* guard_interval_ms
    IdleMs        \* kIdleSleepMs: retry interval while the queue is empty

ASSUME NodesAssumption  == NoNode \notin KnownNodes
ASSUME TimingAssumption == /\ DurationMs \in Nat \ {0}
                           /\ GuardMs \in Nat
                           /\ IdleMs \in Nat \ {0}

VARIABLES
    activeNodeIds,  \* active_node_ids, in grant order
    nextIndex,      \* next_index: 0-based cursor into activeNodeIds
    silenceMs,      \* per node: now - last_activity_ms, saturating
    silentGrants,   \* per node: consecutive_silent_grants, saturating
    grantIn,        \* ms until the server loop may grant again
    protectedNode,  \* the node just granted while the removal walk runs
    walkIndex       \* index of the removal walk (0-based)

schedVars == <<activeNodeIds, nextIndex, silenceMs, silentGrants, grantIn,
               protectedNode, walkIndex>>

\* kSilentGrantRemovalThreshold
SilentGrantRemovalThreshold == 2

\* silence_threshold_ms of collect_silent_node_removals
SilenceThresholdMs == (DurationMs + GuardMs) * SilentGrantRemovalThreshold

Active == {activeNodeIds[i] : i \in 1..Len(activeNodeIds)}

\* The node the cursor addresses: active_node_ids[next_index].
CursorNode == activeNodeIds[nextIndex + 1]

\* x + y, not counting past limit.
SatAdd(x, y, limit) == IF x + y >= limit THEN limit ELSE x + y

-----------------------------------------------------------------------------
Init ==
    /\ activeNodeIds = <<>>
    /\ nextIndex = 0
    /\ silenceMs = [n \in KnownNodes |-> 0]
    /\ silentGrants = [n \in KnownNodes |-> 0]
    /\ grantIn = 0
    /\ protectedNode = NoNode
    /\ walkIndex = 0

\* The server loop is one thread: no handler runs inside the removal walk.
LoopIdle == protectedNode = NoNode

\* record_node_activity
RecordNodeActivity(n) ==
    /\ silenceMs' = [silenceMs EXCEPT ![n] = 0]
    /\ silentGrants' = [silentGrants EXCEPT ![n] = 0]

\* A READY frame of node n: declare_ready_with_result.  A node already in the
\* queue keeps its place and is only refreshed.  (Unknown nodes are rejected
\* without a state change, so they are not enumerated.)
DeclareReady(n) ==
    /\ LoopIdle
    /\ RecordNodeActivity(n)
    /\ activeNodeIds' = IF n \in Active THEN activeNodeIds
                                        ELSE Append(activeNodeIds, n)
    /\ UNCHANGED <<nextIndex, grantIn, protectedNode, walkIndex>>

\* Uplink data of node n reached the server: observe_uplink_data.
ObserveUplinkData(n) ==
    /\ LoopIdle
    /\ RecordNodeActivity(n)
    /\ UNCHANGED <<activeNodeIds, nextIndex, grantIn, protectedNode, walkIndex>>

\* Mutation of NextGrant: the cursor is not advanced.
NextGrantStuck ==
    /\ LoopIdle
    /\ grantIn = 0
    /\ activeNodeIds # <<>>
    /\ silentGrants' =
         [silentGrants EXCEPT ![CursorNode] =
            IF silenceMs[CursorNode] = 0
            THEN 0
            ELSE SatAdd(@, 1, SilentGrantRemovalThreshold)]
    /\ grantIn' = DurationMs + GuardMs
    /\ protectedNode' = CursorNode
    /\ walkIndex' = 0
    /\ UNCHANGED <<activeNodeIds, nextIndex, silenceMs>>

\* Mutation of NextGrant: the guard interval is not added.
NextGrantUnguarded ==
    /\ LoopIdle
    /\ grantIn = 0
    /\ activeNodeIds # <<>>
    /\ nextIndex' = (nextIndex + 1) % Len(activeNodeIds)
    /\ grantIn' = DurationMs
    /\ protectedNode' = CursorNode
    /\ walkIndex' = 0
    /\ UNCHANGED <<activeNodeIds, silenceMs, silentGrants>>

\* next_grant: the node under the cursor gets the slot.  The grant counts as
\* silent when some time has passed since the node was last heard.
NextGrant ==
    /\ LoopIdle
    /\ grantIn = 0
    /\ activeNodeIds # <<>>
    /\ silentGrants' =
         [silentGrants EXCEPT ![CursorNode] =
            IF silenceMs[CursorNode] = 0
            THEN 0
            ELSE SatAdd(@, 1, SilentGrantRemovalThreshold)]
    /\ nextIndex' = (nextIndex + 1) % Len(activeNodeIds)
    /\ grantIn' = DurationMs + GuardMs
    /\ protectedNode' = CursorNode
    /\ walkIndex' = 0
    /\ UNCHANGED <<activeNodeIds, silenceMs>>

\* next_grant with an empty queue: the loop looks again after kIdleSleepMs.
IdlePoll ==
    /\ LoopIdle
    /\ grantIn = 0
    /\ activeNodeIds = <<>>
    /\ grantIn' = IdleMs
    /\ UNCHANGED <<activeNodeIds, nextIndex, silenceMs, silentGrants,
                   protectedNode, walkIndex>>

\* Mutation of IsSilent: only elapsed time counts, so a node is dropped for the
\* time it spent waiting for its turn.
IsSilentByTime(n) == silenceMs[n] >= SilenceThresholdMs

\* Mutation of IsSilent: the counter would have to pass its threshold.
IsSilentStrict(n) ==
    /\ silenceMs[n] >= SilenceThresholdMs
    /\ silentGrants[n] > SilentGrantRemovalThreshold

\* The removal test of collect_silent_node_removals.
IsSilent(n) ==
    /\ silenceMs[n] >= SilenceThresholdMs
    /\ silentGrants[n] >= SilentGrantRemovalThreshold

\* remove_active_node_at(index), the erase.
EraseAt(s, index) ==
    [i \in 1..(Len(s) - 1) |-> IF i <= index THEN s[i] ELSE s[i + 1]]

\* Mutation of CursorAfterErase: the cursor is not moved back when an earlier
\* entry is erased.
CursorAfterEraseUnshifted(cursor, index, size) ==
    IF size = 0 THEN 0 ELSE cursor % size

\* Mutation of CursorAfterErase: no wrap when the last entry is erased.
CursorAfterEraseUnwrapped(cursor, index, size) ==
    IF index < cursor THEN cursor - 1 ELSE cursor

\* remove_active_node_at(index), the cursor: it stays on its node, or moves on
\* to the successor of an erased node.  size is the size after the erase.
CursorAfterErase(cursor, index, size) ==
    IF size = 0 THEN 0
    ELSE IF index < cursor THEN cursor - 1
    ELSE IF index = cursor /\ cursor = size THEN 0
    ELSE cursor % size

\* One round of the loop in collect_silent_node_removals.
CollectSilentNode ==
    /\ ~LoopIdle
    /\ walkIndex < Len(activeNodeIds)
    /\ LET n == activeNodeIds[walkIndex + 1]
       IN  IF n # protectedNode /\ IsSilent(n)
           THEN /\ activeNodeIds' = EraseAt(activeNodeIds, walkIndex)
                /\ nextIndex' = CursorAfterErase(nextIndex, walkIndex,
                                                 Len(activeNodeIds) - 1)
                /\ UNCHANGED walkIndex
           ELSE /\ walkIndex' = walkIndex + 1
                /\ UNCHANGED <<activeNodeIds, nextIndex>>
    /\ UNCHANGED <<silenceMs, silentGrants, grantIn, protectedNode>>

\* The removal walk is over and the server loop goes round.
CollectDone ==
    /\ ~LoopIdle
    /\ walkIndex = Len(activeNodeIds)
    /\ protectedNode' = NoNode
    /\ walkIndex' = 0
    /\ UNCHANGED <<activeNodeIds, nextIndex, silenceMs, silentGrants, grantIn>>

\* One millisecond passes.  The walk reads the clock once (now_ms), so no time
\* passes inside it.
Tick ==
    /\ LoopIdle
    /\ silenceMs' = [n \in KnownNodes |->
                       SatAdd(silenceMs[n], 1, SilenceThresholdMs)]
    /\ grantIn' = IF grantIn = 0 THEN 0 ELSE grantIn - 1
    /\ UNCHANGED <<activeNodeIds, nextIndex, silentGrants, protectedNode,
                   walkIndex>>

Next ==
    \/ \E n \in KnownNodes : DeclareReady(n) \/ ObserveUplinkData(n)
    \/ NextGrant
    \/ IdlePoll
    \/ CollectSilentNode
    \/ CollectDone
    \/ Tick

Spec == Init /\ [][Next]_schedVars

-----------------------------------------------------------------------------
TypeOK ==
    /\ activeNodeIds \in Seq(KnownNodes)
    /\ nextIndex \in Nat
    /\ silenceMs \in [KnownNodes -> 0..SilenceThresholdMs]
    /\ silentGrants \in [KnownNodes -> 0..SilentGrantRemovalThreshold]
    /\ grantIn \in Nat
    /\ protectedNode \in KnownNodes \cup {NoNode}
    /\ walkIndex \in Nat

\* next_grant indexes active_node_ids[next_index] without a bounds check: after
\* every READY, grant and removal, in any order, the cursor addresses an entry.
CursorInRange == nextIndex < Len(activeNodeIds) \/ (activeNodeIds = <<>> /\ nextIndex = 0)

\* However READY, data and removals interleave, a node holds one seat at most.
NoDuplicateSeat ==
    \A i, j \in 1..Len(activeNodeIds) :
        activeNodeIds[i] = activeNodeIds[j] => i = j

\* The queue is well formed: the cursor is in range and no node has two seats.
QueueSound == CursorInRange /\ NoDuplicateSeat

\* Removing silent nodes costs no other node its turn: while the removal walk
\* runs, the node whose turn is next stays next, unless it is removed itself.
TurnKept ==
    [][ CollectSilentNode /\ activeNodeIds # <<>> =>
          \/ activeNodeIds' # <<>> /\ CursorNode' = CursorNode
          \/ CursorNode \notin Active' ]_schedVars

\* From some time on nothing of node n reaches the server any more.
FallsSilent(n) == <>[][~DeclareReady(n) /\ ~ObserveUplinkData(n)]_schedVars

\* Silent nodes cannot keep the air busy among themselves: of any two nodes
\* that are not heard any more one loses its seat for good.
SilentSeatsShrink ==
    \A m, n \in KnownNodes :
        m # n /\ FallsSilent(m) /\ FallsSilent(n)
          => <>[](~({m, n} \subseteq Active))

=============================================================================
