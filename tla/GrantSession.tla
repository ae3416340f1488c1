---------------------------- MODULE GrantSession ----------------------------
(***************************************************************************)
(* Which GRANT frames a client obeys (src/control_envelope.cpp,            *)
(* filter_grant, then src/token_authorization.cpp, apply_event).           *)
(*                                                                         *)
(* A GRANT carries the session of the server process that sent it and a    *)
(* sequence number that counts from 0 in each session.  The client checks  *)
(* both twice: the receive path filters the frame, and the authorisation   *)
(* state, which keeps its own record, checks it again before the client    *)
(* may send.  The air loses, duplicates and reorders frames, and the       *)
(* server and the client may restart at any time.                          *)
(*                                                                         *)
(* The model follows one client; frames for other clients are dropped      *)
(* without a change of state.  Session numbers are random in the code; all *)
(* that matters is that every server process has a new one.                *)
(***************************************************************************)
EXTENDS Naturals, Sequences

CONSTANTS
    MaxSession,      \* number of server processes (bound of the model)
    MaxSequence      \* largest sequence number (bound of the model)

ASSUME SessionAssumption == /\ MaxSession \in Nat \ {0}
                            /\ MaxSequence \in Nat

Sessions == 1..MaxSession
Sequences == 0..MaxSequence
Frame == [session : Sessions, sequence : Sequences]
NoSession == 0

VARIABLES
    serverSession,  \* session_id of the running server process
    nextSequence,   \* TokenScheduler::sequence
    air,            \* GRANT frames that may still arrive, any number of times
    filter,         \* GrantFilterState
    auth,           \* TokenAuthorizationState
    applied,        \* history: the frames that authorised this client process,
                    \* in the order in which they did
    lateHeard       \* history: it accepted a frame of a server process that
                    \* had ended

vars == <<serverSession, nextSequence, air, filter, auth, applied, lateHeard>>

\* What both records keep.  session = NoSession stands for has_session = false;
\* passed is 0 while has_last_sequence is false and last_sequence + 1 after.
Memory == [session : Sessions \cup {NoSession}, retired : SUBSET Sessions,
           passed : 0..(MaxSequence + 1)]

Blank == [session |-> NoSession, retired |-> {}, passed |-> 0]

\* Mutation of Fresh: the last number is taken for a new one (< for <=).
FreshAgain(mem, f) ==
    /\ f.session \notin mem.retired
    /\ f.session = mem.session => f.sequence + 1 >= mem.passed

\* The frame is of the current session and newer than all before, or it starts
\* a session that has not been retired.  (The current session is never in
\* retired_sessions, so the order of the tests in the code does not matter.)
Fresh(mem, f) ==
    /\ f.session \notin mem.retired
    /\ f.session = mem.session => f.sequence >= mem.passed

\* Mutation of Remember: the new session is retired instead of the old one.
RememberSwapped(mem, f) ==
    [session |-> f.session,
     retired |-> IF mem.session \in {NoSession, f.session}
                 THEN mem.retired ELSE mem.retired \cup {f.session},
     passed  |-> f.sequence + 1]

\* What is remembered of an accepted frame; a new session retires the old one.
Remember(mem, f) ==
    [session |-> f.session,
     retired |-> IF mem.session \in {NoSession, f.session}
                 THEN mem.retired ELSE mem.retired \cup {mem.session},
     passed  |-> f.sequence + 1]

-----------------------------------------------------------------------------
Init ==
    /\ serverSession = 1
    /\ nextSequence = 0
    /\ air = {}
    /\ filter = Blank
    /\ auth = Blank
    /\ applied = <<>>
    /\ lateHeard = FALSE

\* send_grant with allocate_sequence.
SendGrant ==
    /\ nextSequence <= MaxSequence
    /\ air' = air \cup {[session |-> serverSession, sequence |-> nextSequence]}
    /\ nextSequence' = nextSequence + 1
    /\ UNCHANGED <<serverSession, filter, auth, applied, lateHeard>>

\* The server process ends and a new one starts: a new session_id, and the
\* sequence numbers start anew.  Its frames may outlive it.
RestartServer ==
    /\ serverSession < MaxSession
    /\ serverSession' = serverSession + 1
    /\ nextSequence' = 0
    /\ UNCHANGED <<air, filter, auth, applied, lateHeard>>

\* The client process restarts and has forgotten everything.
RestartClient ==
    /\ filter' = Blank
    /\ auth' = Blank
    /\ applied' = <<>>
    /\ lateHeard' = FALSE
    /\ UNCHANGED <<serverSession, nextSequence, air>>

\* filter_grant: what it refuses leaves no trace.
Filter(f) == Fresh(filter, f) /\ filter' = Remember(filter, f)

\* apply_event.  The clock is read again here; a frame whose duration has run
\* out since it was parsed is refused first.
Apply(f) ==
    IF Fresh(auth, f)
    THEN auth' = Remember(auth, f) /\ applied' = Append(applied, f)
    ELSE UNCHANGED <<auth, applied>>

Expired == UNCHANGED <<auth, applied>>

\* Mutation of ReceiveGrant: the frame reaches apply_event unfiltered.
ReceiveGrantUnfiltered(f) ==
    /\ f \in air
    /\ Fresh(filter, f)
    /\ UNCHANGED filter
    /\ Apply(f) \/ Expired
    /\ lateHeard' = (lateHeard \/ f.session # serverSession)
    /\ UNCHANGED <<serverSession, nextSequence, air>>

\* A copy of a frame reaches the client: the WFB_PACKET_CONTROL branch of
\* Aggregator::process_packet, with ClientGrantListener behind the filter.
ReceiveGrant(f) ==
    /\ f \in air
    /\ Filter(f)
    /\ Apply(f) \/ Expired
    /\ lateHeard' = (lateHeard \/ f.session # serverSession)
    /\ UNCHANGED <<serverSession, nextSequence, air>>

\* The last copy of a frame is lost.
LoseFrame(f) ==
    /\ f \in air
    /\ air' = air \ {f}
    /\ UNCHANGED <<serverSession, nextSequence, filter, auth, applied, lateHeard>>

Next ==
    \/ SendGrant
    \/ RestartServer
    \/ RestartClient
    \/ \E f \in air : ReceiveGrant(f) \/ LoseFrame(f)

Spec == Init /\ [][Next]_vars

-----------------------------------------------------------------------------
TypeOK ==
    /\ serverSession \in Sessions
    /\ nextSequence \in 0..(MaxSequence + 1)
    /\ air \subseteq Frame
    /\ filter \in Memory
    /\ auth \in Memory
    /\ applied \in Seq(Frame)
    /\ lateHeard \in BOOLEAN

\* However frames are duplicated and reordered, a frame authorises a client
\* process at most once: of two frames of one session the later one to
\* authorise has the larger number, and between them the client has obeyed no
\* other session, so it never goes back to one it has left.
NoReplay ==
    \A i, j \in DOMAIN applied :
      i < j /\ applied[i].session = applied[j].session =>
        /\ applied[i].sequence < applied[j].sequence
        /\ \A k \in i..j : applied[k].session = applied[j].session

\* What has authorised the client is not fresh any more.
AppliedIsStale == \A i \in DOMAIN applied : ~Fresh(auth, applied[i])

\* The second check never refuses what the first has passed, although the two
\* records drift apart when a frame expires between them: whatever the filter
\* would accept, apply_event would accept.
ChecksAgree == \A f \in Frame : Fresh(filter, f) => Fresh(auth, f)

\* A client can always be granted again by the running server: it retires the
\* server's session only if it has accepted a frame of an ended server process,
\* and however often both sides restart.
LiveSessionHeard ==
    ~lateHeard => serverSession \notin filter.retired \cup auth.retired

=============================================================================
