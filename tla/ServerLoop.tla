----------------------------- MODULE ServerLoop -----------------------------
(***************************************************************************)
(* The server side of the uplink (src/v6_uplink.cpp, run_server): the      *)
(* token scheduler and the periodic feedback windows that interrupt its    *)
(* rotation.  In a feedback window every known client is granted one short *)
(* slot, in the configured order; normal grants wait until it is closed.   *)
(***************************************************************************)
EXTENDS TokenScheduler

CONSTANTS
    FeedbackOrder,     \* config.known_clients, the order of the feedback slots
    FeedbackPeriodMs,  \* feedback_window_period_ms; 0 disables the windows
    FeedbackMs         \* feedback_window_duration_ms

FeedbackEnabled == FeedbackPeriodMs > 0 /\ FeedbackMs > 0

\* parse_args: both or neither are given, the slot is shorter than the period,
\* and every known client has a target.
ASSUME FeedbackAssumption ==
    /\ FeedbackPeriodMs \in Nat /\ FeedbackMs \in Nat
    /\ FeedbackPeriodMs > 0 <=> FeedbackMs > 0
    /\ FeedbackPeriodMs > 0 => FeedbackMs < FeedbackPeriodMs
    /\ FeedbackOrder \in Seq(KnownNodes)
    /\ {FeedbackOrder[i] : i \in 1..Len(FeedbackOrder)} = KnownNodes

VARIABLES
    feedbackActive,  \* feedback_state.active
    feedbackIndex,   \* feedback_state.next_client_index
    feedbackIn       \* ms until next_grant_at_ms (active) or next_open_at_ms

feedbackVars == <<feedbackActive, feedbackIndex, feedbackIn>>
serverVars == <<schedVars, feedbackVars>>

FeedbackNode == FeedbackOrder[feedbackIndex + 1]

\* Counts down to 0.
Down(x) == IF x = 0 THEN 0 ELSE x - 1

-----------------------------------------------------------------------------
ServerInit ==
    /\ Init
    /\ feedbackActive = FALSE
    /\ feedbackIndex = 0
    /\ feedbackIn = FeedbackPeriodMs

\* A frame of node n reaches the server: ServerReadyListener, or
\* maybe_record_feedback_uplink_hit (the hit counters of the feedback slots are
\* left out).
HearReady(n) == DeclareReady(n) /\ UNCHANGED feedbackVars
HearData(n) == ObserveUplinkData(n) /\ UNCHANGED feedbackVars

\* The server loop grants the next active node; not while a feedback window is
\* open ("continue").
NormalGrant == ~feedbackActive /\ NextGrant /\ UNCHANGED feedbackVars

\* The queue is empty: look again later.
PollIdle == ~feedbackActive /\ IdlePoll /\ UNCHANGED feedbackVars

\* The removal walk that follows a grant.
CollectSilent == (CollectSilentNode \/ CollectDone) /\ UNCHANGED feedbackVars

\* Mutation of OpenFeedbackWindow: next_client_index is not reset.
OpenFeedbackWindowUnreset ==
    /\ LoopIdle
    /\ FeedbackEnabled
    /\ ~feedbackActive
    /\ feedbackIn = 0
    /\ feedbackActive' = TRUE
    /\ UNCHANGED <<schedVars, feedbackIndex, feedbackIn>>

\* open_feedback_window.  A normal grant that is still running is not waited for.
OpenFeedbackWindow ==
    /\ LoopIdle
    /\ FeedbackEnabled
    /\ ~feedbackActive
    /\ feedbackIn = 0
    /\ feedbackActive' = TRUE
    /\ feedbackIndex' = 0
    /\ UNCHANGED <<schedVars, feedbackIn>>

\* Mutation of FeedbackGrant: no guard interval between feedback slots.
FeedbackGrantUnguarded ==
    /\ LoopIdle
    /\ feedbackActive
    /\ feedbackIn = 0
    /\ feedbackIndex < Len(FeedbackOrder)
    /\ feedbackIndex' = feedbackIndex + 1
    /\ feedbackIn' = FeedbackMs
    /\ UNCHANGED <<schedVars, feedbackActive>>

\* maybe_send_feedback_grant: the next known client gets a short slot, whether
\* it is active or not.
FeedbackGrant ==
    /\ LoopIdle
    /\ feedbackActive
    /\ feedbackIn = 0
    /\ feedbackIndex < Len(FeedbackOrder)
    /\ feedbackIndex' = feedbackIndex + 1
    /\ feedbackIn' = FeedbackMs + GuardMs
    /\ UNCHANGED <<schedVars, feedbackActive>>

\* Mutation of CloseFeedbackWindow: next_client_index starts over and the
\* window stays open.
CloseFeedbackWindowRepeat ==
    /\ LoopIdle
    /\ feedbackActive
    /\ feedbackIn = 0
    /\ feedbackIndex = Len(FeedbackOrder)
    /\ feedbackIndex' = 0
    /\ UNCHANGED <<schedVars, feedbackActive, feedbackIn>>

\* close_feedback_window, after the guard interval of the last slot.
CloseFeedbackWindow ==
    /\ LoopIdle
    /\ feedbackActive
    /\ feedbackIn = 0
    /\ feedbackIndex = Len(FeedbackOrder)
    /\ feedbackActive' = FALSE
    /\ feedbackIn' = FeedbackPeriodMs
    /\ UNCHANGED <<schedVars, feedbackIndex>>

\* One millisecond passes.
ServerTick ==
    /\ Tick
    /\ feedbackIn' = Down(feedbackIn)
    /\ UNCHANGED <<feedbackActive, feedbackIndex>>

ServerNext ==
    \/ \E n \in KnownNodes : HearReady(n) \/ HearData(n)
    \/ NormalGrant
    \/ PollIdle
    \/ CollectSilent
    \/ OpenFeedbackWindow
    \/ FeedbackGrant
    \/ CloseFeedbackWindow
    \/ ServerTick

\* The loop and the clock do not stop, and every round of the loop asks whether
\* a feedback window, a feedback slot or a normal grant is due: what is due
\* again and again is done, even if the removal walk or a feedback window keeps
\* interrupting it.
ServerFairness ==
    /\ WF_serverVars(ServerTick)
    /\ SF_serverVars(NormalGrant)
    /\ SF_serverVars(OpenFeedbackWindow)
    /\ WF_serverVars(CollectSilent)
    /\ WF_serverVars(FeedbackGrant)
    /\ WF_serverVars(CloseFeedbackWindow)

ServerSpec == ServerInit /\ [][ServerNext]_serverVars
FairServerSpec == ServerSpec /\ ServerFairness

-----------------------------------------------------------------------------
FeedbackTypeOK ==
    /\ feedbackActive \in BOOLEAN
    /\ feedbackIndex \in 0..Len(FeedbackOrder)
    /\ feedbackIn \in Nat

\* Feedback windows do not starve the rotation: an active node is granted a
\* normal slot, or gives up its seat.
RotationGoesOn ==
    \A n \in KnownNodes : n \in Active ~> (protectedNode = n \/ n \notin Active)

\* The rotation does not starve the feedback windows either: each known client
\* gets a feedback slot again and again.
FeedbackGoesOn ==
    \A i \in 1..Len(FeedbackOrder) : []<>(feedbackActive /\ feedbackIndex = i)

=============================================================================
