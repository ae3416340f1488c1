----------------------------- MODULE UplinkAir -----------------------------
(***************************************************************************)
(* The uplink of the link layer: the server loop (src/v6_uplink.cpp,       *)
(* run_server) around the token scheduler, the client loops (run_client)   *)
(* and the radio between them.                                             *)
(*                                                                         *)
(* A client may put data on the air only while it holds a GRANT.  It       *)
(* counts the GRANT's duration from the moment it receives it, so the      *)
(* guard interval of the server has to absorb the time a GRANT spends on   *)
(* its way.  A client without a GRANT declares READY and declares again    *)
(* when no grant came.  The server interrupts the normal rotation with     *)
(* feedback windows, in which every known client is granted a short slot.  *)
(*                                                                         *)
(* The air loses, delays and reorders frames.  A GRANT that is overtaken   *)
(* by a later one to the same client is dropped when it arrives (its       *)
(* sequence number is stale); that filter is the subject of GrantSession.  *)
(***************************************************************************)
EXTENDS ServerLoop

CONSTANTS
    MaxDelayMs,        \* how long a GRANT may be under way
    RedeclareMs,       \* kReadyRedeclareTimeoutMs
    FecFlushIdleMs,    \* kFecFlushIdleMs
    FecEnabled,        \* plaintext_fec_k > 1: packets are sent in FEC blocks
    MaxPending         \* packets in a client's uplink queue (bound of the model)

ASSUME AirAssumption ==
    /\ MaxDelayMs \in Nat /\ RedeclareMs \in Nat /\ FecFlushIdleMs \in Nat
    /\ FecEnabled \in BOOLEAN
    /\ MaxPending \in Nat \ {0}

VARIABLES
    pending,         \* per client: packets in uplink_queue
    windowMs,        \* per client: expires_at_ms - now, 0 when not authorised
    readyInFlight,   \* per client: ready_state.declaration_in_flight
    redeclareIn,     \* per client: ms until READY may be declared again
    flushIn,         \* per client: ms until its open FEC block is flushed
    grantAir,        \* GRANT frames on the air
    uplinkAir        \* READY and data frames on the air

clientVars == <<pending, windowMs, readyInFlight, redeclareIn, flushIn>>
airVars == <<grantAir, uplinkAir>>
vars == <<serverVars, clientVars, airVars>>

\* flushIn of a client without an open FEC block.
NoFlush == FecFlushIdleMs + 1

GrantMs(kind) == IF kind = "normal" THEN DurationMs ELSE FeedbackMs

GrantFrame == [node : KnownNodes, kind : {"normal", "feedback"}, age : 0..MaxDelayMs]
UplinkFrame == [node : KnownNodes, type : {"READY", "DATA"}]

Authorized(c) == windowMs[c] > 0   \* TokenAuthorizationState::is_authorized

-----------------------------------------------------------------------------
AirInit ==
    /\ ServerInit
    /\ pending = [c \in KnownNodes |-> 0]
    /\ windowMs = [c \in KnownNodes |-> 0]
    /\ readyInFlight = [c \in KnownNodes |-> FALSE]
    /\ redeclareIn = [c \in KnownNodes |-> 0]
    /\ flushIn = [c \in KnownNodes |-> NoFlush]
    /\ grantAir = {}
    /\ uplinkAir = {}

(* ---- clients ---------------------------------------------------------- *)

\* A packet is read from the client's TUN device into uplink_queue.
ReadTun(c) ==
    /\ pending[c] < MaxPending
    /\ pending' = [pending EXCEPT ![c] = @ + 1]
    /\ UNCHANGED <<serverVars, airVars, windowMs, readyInFlight,
                   redeclareIn, flushIn>>

\* Mutation of SendData: the authorisation is not asked for.
SendDataUnasked(c) ==
    /\ pending[c] > 0
    /\ pending' = [pending EXCEPT ![c] = @ - 1]
    /\ readyInFlight' = [readyInFlight EXCEPT ![c] = FALSE]
    /\ uplinkAir' = uplinkAir \cup {[node |-> c, type |-> "DATA"]}
    /\ UNCHANGED <<serverVars, windowMs, redeclareIn, grantAir, flushIn>>

\* An authorised client sends one packet.  It may leave an FEC block open, to
\* be flushed FecFlushIdleMs later; when it completed the block the deadline
\* stays too, but flushing then emits nothing.
SendData(c) ==
    /\ pending[c] > 0
    /\ Authorized(c)
    /\ pending' = [pending EXCEPT ![c] = @ - 1]
    /\ readyInFlight' = [readyInFlight EXCEPT ![c] = FALSE]   \* apply_grant_seen
    /\ \E open \in {FALSE, FecEnabled} :
         flushIn' = [flushIn EXCEPT ![c] = IF open THEN FecFlushIdleMs ELSE NoFlush]
    /\ uplinkAir' = uplinkAir \cup {[node |-> c, type |-> "DATA"]}
    /\ UNCHANGED <<serverVars, windowMs, redeclareIn, grantAir>>

\* Mutation of SendReady: a declaration is never repeated.
SendReadyOnce(c) ==
    /\ pending[c] > 0
    /\ ~Authorized(c)
    /\ ~readyInFlight[c]
    /\ readyInFlight' = [readyInFlight EXCEPT ![c] = TRUE]
    /\ redeclareIn' = [redeclareIn EXCEPT ![c] = RedeclareMs]
    /\ uplinkAir' = uplinkAir \cup {[node |-> c, type |-> "READY"]}
    /\ UNCHANGED <<serverVars, pending, windowMs, flushIn, grantAir>>

\* maybe_send_ready: a client that is denied declares READY, once, and again
\* when kReadyRedeclareTimeoutMs have passed without an authorised send.
SendReady(c) ==
    /\ pending[c] > 0
    /\ ~Authorized(c)
    /\ readyInFlight[c] => redeclareIn[c] = 0
    /\ readyInFlight' = [readyInFlight EXCEPT ![c] = TRUE]
    /\ redeclareIn' = [redeclareIn EXCEPT ![c] = RedeclareMs]
    /\ uplinkAir' = uplinkAir \cup {[node |-> c, type |-> "READY"]}
    /\ UNCHANGED <<serverVars, pending, windowMs, flushIn, grantAir>>

\* flush_data_block_if_due: an idle client closes its FEC block and transmits
\* what is left of it.  The code does not look at the authorisation here.
FlushBlock(c) ==
    /\ pending[c] = 0
    /\ flushIn[c] = 0
    /\ flushIn' = [flushIn EXCEPT ![c] = NoFlush]
    /\ uplinkAir' = uplinkAir \cup {[node |-> c, type |-> "DATA"]}
    /\ UNCHANGED <<serverVars, pending, windowMs, readyInFlight,
                   redeclareIn, grantAir>>

\* m was sent before x to the same client: it has the smaller sequence number.
SentBefore(m, x) ==
    /\ m.node = x.node
    /\ m.age > x.age \/ (m.age = x.age /\ m.kind = "normal" /\ x.kind = "feedback")

\* A GRANT arrives.  The client counts the whole duration from now, replacing
\* what it had; earlier GRANTs that are still under way will be refused.
DeliverGrant(m) ==
    /\ m \in grantAir
    /\ windowMs' = [windowMs EXCEPT ![m.node] = GrantMs(m.kind)]
    /\ grantAir' = {x \in grantAir : x # m /\ ~SentBefore(x, m)}
    /\ UNCHANGED <<serverVars, pending, readyInFlight, redeclareIn,
                   flushIn, uplinkAir>>

(* ---- server ----------------------------------------------------------- *)

DeliverReady(c) ==
    /\ [node |-> c, type |-> "READY"] \in uplinkAir
    /\ HearReady(c)
    /\ uplinkAir' = uplinkAir \ {[node |-> c, type |-> "READY"]}
    /\ UNCHANGED <<clientVars, grantAir>>

DeliverData(c) ==
    /\ [node |-> c, type |-> "DATA"] \in uplinkAir
    /\ HearData(c)
    /\ uplinkAir' = uplinkAir \ {[node |-> c, type |-> "DATA"]}
    /\ UNCHANGED <<clientVars, grantAir>>

\* AirTransmitter::send_grant
PutGrant(c, kind) ==
    grantAir' = grantAir \cup {[node |-> c, kind |-> kind, age |-> 0]}

SendNormalGrant ==
    /\ NormalGrant
    /\ PutGrant(CursorNode, "normal")
    /\ UNCHANGED <<clientVars, uplinkAir>>

SendFeedbackGrant ==
    /\ FeedbackGrant
    /\ PutGrant(FeedbackNode, "feedback")
    /\ UNCHANGED <<clientVars, uplinkAir>>

\* The steps of the server loop that put nothing on the air.
ServerQuiet ==
    /\ PollIdle \/ CollectSilent \/ OpenFeedbackWindow \/ CloseFeedbackWindow
    /\ UNCHANGED <<clientVars, airVars>>

(* ---- air and time ------------------------------------------------------ *)

LoseGrant(m) ==
    /\ m \in grantAir
    /\ grantAir' = grantAir \ {m}
    /\ UNCHANGED <<serverVars, clientVars, uplinkAir>>

LoseUplink(f) ==
    /\ f \in uplinkAir
    /\ uplinkAir' = uplinkAir \ {f}
    /\ UNCHANGED <<serverVars, clientVars, grantAir>>

\* One millisecond passes for everybody.  It does not pass while a GRANT is as
\* old as a GRANT can get (it arrives or is lost first), or while an idle
\* client's flush is due (poll wakes the client at the deadline).
TickAir ==
    /\ ServerTick
    /\ \A m \in grantAir : m.age < MaxDelayMs
    /\ \A c \in KnownNodes : ~(pending[c] = 0 /\ flushIn[c] = 0)
    /\ windowMs' = [c \in KnownNodes |-> Down(windowMs[c])]
    /\ redeclareIn' = [c \in KnownNodes |-> Down(redeclareIn[c])]
    /\ flushIn' = [c \in KnownNodes |-> IF flushIn[c] = NoFlush
                                        THEN NoFlush ELSE Down(flushIn[c])]
    /\ grantAir' = {[m EXCEPT !.age = @ + 1] : m \in grantAir}
    /\ UNCHANGED <<pending, readyInFlight, uplinkAir>>

ClientNext(c) ==
    \/ ReadTun(c)
    \/ SendData(c)
    \/ SendReady(c)
    \/ FlushBlock(c)

ServerStep ==
    \/ \E c \in KnownNodes : DeliverReady(c) \/ DeliverData(c)
    \/ SendNormalGrant
    \/ SendFeedbackGrant
    \/ ServerQuiet

EnvironmentNext ==
    \/ \E m \in grantAir : DeliverGrant(m) \/ LoseGrant(m)
    \/ \E f \in uplinkAir : LoseUplink(f)
    \/ TickAir

\* The removal walk takes no time and touches the active queue only, so that
\* nothing else needs to be interleaved with it.
AirNext ==
    \/ ServerStep
    \/ LoopIdle /\ \E c \in KnownNodes : ClientNext(c)
    \/ LoopIdle /\ EnvironmentNext

AirSpec == AirInit /\ [][AirNext]_vars

\* The loops and the clock do not stop, and a frame that is sent again and
\* again gets through: the air never loses every READY, or every GRANT, of a
\* client for ever.
AirFairness ==
    /\ WF_vars(TickAir)
    /\ SF_vars(SendNormalGrant)
    /\ WF_vars(SendFeedbackGrant)
    /\ WF_vars(ServerQuiet)
    /\ \A c \in KnownNodes :
         /\ WF_vars(SendReady(c))
         /\ WF_vars(FlushBlock(c))
         /\ SF_vars(DeliverReady(c))
         /\ SF_vars(\E m \in grantAir : m.node = c /\ DeliverGrant(m))

FairAirSpec == AirSpec /\ AirFairness

-----------------------------------------------------------------------------
AirTypeOK ==
    /\ TypeOK /\ FeedbackTypeOK
    /\ pending \in [KnownNodes -> 0..MaxPending]
    /\ windowMs \in [KnownNodes -> Nat]
    /\ readyInFlight \in [KnownNodes -> BOOLEAN]
    /\ redeclareIn \in [KnownNodes -> 0..RedeclareMs]
    /\ flushIn \in [KnownNodes -> 0..NoFlush]
    /\ grantAir \subseteq GrantFrame
    /\ uplinkAir \subseteq UplinkFrame

\* The guard interval keeps neighbours apart: although each client counts its
\* window from the moment the GRANT reaches it, no two clients are authorised
\* at the same time.
MutualExclusion ==
    \A c, d \in KnownNodes : Authorized(c) /\ Authorized(d) => c = d

DataOnAir(c) == SendData(c) \/ FlushBlock(c)

\* Whatever a client transmits, the late flush of an FEC block included, it
\* transmits while no other client is authorised to.
NoCollision ==
    [][\A c, d \in KnownNodes : DataOnAir(c) /\ Authorized(d) => c = d]_vars

\* A client with data is eventually authorised to send, although READY frames
\* and GRANTs get lost and its seat may be taken away meanwhile.
PendingServed ==
    \A c \in KnownNodes : pending[c] > 0 ~> Authorized(c)

\* The window of a feedback slot can overlap a normal window only while the
\* slot of that normal grant is still running, and never another feedback
\* slot: no more than two clients are authorised at once.
OverlapBounded ==
    \A c, d \in KnownNodes : Authorized(c) /\ Authorized(d) /\ c # d =>
        /\ feedbackActive /\ grantIn > 0
        /\ \A e \in KnownNodes : Authorized(e) => e \in {c, d}

=============================================================================
