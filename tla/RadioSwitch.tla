----------------------------- MODULE RadioSwitch -----------------------------
(***************************************************************************)
(* The radio switch of the control plane (wfb_ng/fl/control.py): the       *)
(* server's reconfigure_radio moves a set of clients and itself to another *)
(* channel, in the phases PREPARE, COMMIT, FINALIZED and CONFIRMED; each   *)
(* client covers its own change of channel by a lease (LeaseWatchdog) and  *)
(* goes back to the benchmark channel when the lease runs out; a client    *)
(* that has lost the server hunts for it over the channels.                *)
(*                                                                         *)
(* A configuration is its channel: power and modulation travel with it.    *)
(* A handler runs under its side's lock and is one action.  Broadcasts and *)
(* acknowledgements are the set of those ever sent: one that is lost is    *)
(* never looked at, a repeated or late one is looked at again or later.    *)
(* PREPARE and COMMIT are sent once and name no channel: a client that is  *)
(* on the channel has them in its queue, for one look.  The clock is not   *)
(* modelled, so that a lease may run out at any moment it is armed.        *)
(***************************************************************************)
EXTENDS Naturals, FiniteSets

CONSTANTS
    Node,         \* the clients
    Channels,     \* the allowed channels
    Bench,        \* DEFAULT_BENCHMARK_CHANNEL
    MaxSwitches,  \* bound: calls of reconfigure_radio
    MaxFaults     \* bound: failures of an adapter, over both sides

ASSUME RadioAssumption ==
    /\ Bench \in Channels
    /\ IsFiniteSet(Node)
    /\ MaxSwitches \in Nat /\ MaxFaults \in Nat

None == 0                      \* no session; session i is the i-th switch
Sessions == 1..MaxSwitches

VARIABLES
    pc,        \* where reconfigure_radio is
    session,   \* sessions opened; the last one is active unless pc is "idle"
    plan,      \* channel and targets of every session
    acked,     \* targets that have acknowledged the current phase
    result,    \* status of the last call
    air,       \* the channel the server's adapter is on
    config,    \* active_radio_config
    radioErr,  \* radio_error
    sent,      \* broadcasts that name a channel
    acks,      \* acknowledgements of the clients
    cl,        \* the clients
    faults     \* failures of an adapter so far

server == <<pc, session, plan, acked, result, air, config, radioErr, sent>>
vars == <<server, acks, cl, faults>>

(* A client.  saved: _pre_switch_config is set.  lease: "lapsed" is past the
   deadline with the watchdog's thread not yet awake.  calls: watchdog threads
   on their way into on_expired.  timers: delayed_switch threads.  probe: the
   channel a hunting heartbeat was sent on; heard: its reply is there.         *)
NewClient(c) ==
    [chan |-> c, mode |-> "IDLE", queue |-> {}, pend |-> None, patch |-> FALSE,
     saved |-> FALSE, applied |-> FALSE, proposal |-> None, receipt |-> None,
     lease |-> "off", calls |-> 0, timers |-> {}, probe |-> {}, heard |-> FALSE]

-----------------------------------------------------------------------------
Init ==
    /\ pc = "idle" /\ session = None
    /\ plan = [s \in Sessions |-> [chan |-> Bench, nodes |-> {}]]
    /\ acked = {} /\ result = "none"
    /\ config \in Channels /\ air = config
    /\ radioErr = FALSE
    /\ sent = {} /\ acks = {}
    /\ cl = [n \in Node |-> NewClient(config)]
    /\ faults = 0

(* ---- the server ---- *)

Message(kind, c) == [kind |-> kind, session |-> session, chan |-> c]

\* broadcast_downlink of a message without a channel: all who are there queue it.
Queue(kind, s) ==
    cl' = [n \in Node |-> IF cl[n].chan = air
                          THEN [cl[n] EXCEPT !.queue = @ \union {<<kind, s>>}]
                          ELSE cl[n]]

\* reconfigure_radio up to the broadcast of CONFIG_RADIO_PREPARE
OpenSwitch(T, c) ==
    /\ pc = "idle" /\ session < MaxSwitches /\ ~radioErr
    /\ T # {}
    /\ session' = session + 1
    /\ plan' = [plan EXCEPT ![session + 1] = [chan |-> c, nodes |-> T]]
    /\ pc' = "prepare" /\ acked' = {}
    /\ Queue("PREPARE", session + 1)
    /\ UNCHANGED <<result, air, config, radioErr, sent, acks, faults>>

\* The phase whose acknowledgements handle_datagram takes
Expected == CASE pc = "prepare" -> "PREPARE_ACK"
              [] pc \in {"apply", "ping"} -> "COMMIT_SUCCESS"
              [] pc = "finalize" -> "FINALIZED_ACK"
              [] pc = "confirm" -> "CONFIRMED_ACK"
              [] OTHER -> "none"

\* Mutation of HandleAck: the session of an acknowledgement is not looked at.
HandleAckAnySession(m) ==
    /\ pc # "idle"
    /\ m.kind = Expected
    /\ m.node \in plan[session].nodes
    /\ m.chan = air
    /\ acked' = acked \union {m.node}
    /\ UNCHANGED <<pc, session, plan, result, air, config, radioErr, sent, acks, cl, faults>>

\* handle_datagram.  The air is on the target channel in the phases after the
\* first, so that the comparison with it is also that of the channel field.
HandleAck(m) ==
    /\ pc # "idle"
    /\ m.session = session /\ m.kind = Expected
    /\ m.node \in plan[session].nodes
    /\ m.chan = air
    /\ acked' = acked \union {m.node}
    /\ UNCHANGED <<pc, session, plan, result, air, config, radioErr, sent, acks, cl, faults>>

AllAcked == acked = plan[session].nodes

\* All are prepared: CONFIG_RADIO_COMMIT is broadcast.
StartCommit ==
    /\ pc = "prepare" /\ AllAcked
    /\ pc' = "apply" /\ acked' = {}
    /\ Queue("COMMIT", session)
    /\ UNCHANGED <<session, plan, result, air, config, radioErr, sent, acks, faults>>

\* After the delay the server itself moves, and pings on the new channel.
Apply ==
    /\ pc = "apply"
    /\ pc' = "ping"
    /\ air' = plan[session].chan /\ config' = plan[session].chan
    /\ sent' = sent \union {Message("PING", air')}
    /\ UNCHANGED <<session, plan, acked, result, radioErr, acks, cl, faults>>

\* The adapter or on_radio_applied raises, before or after the channel has changed.
ApplyFails ==
    /\ pc = "apply" /\ faults < MaxFaults
    /\ pc' = "broken" /\ faults' = faults + 1
    /\ air' \in {air, plan[session].chan}
    /\ UNCHANGED <<session, plan, acked, result, config, radioErr, sent, acks, cl>>

\* All have reported from the new channel: RADIO_SWITCH_FINALIZED.
StartFinal ==
    /\ pc = "ping" /\ AllAcked
    /\ pc' = "finalize" /\ acked' = {}
    /\ sent' = sent \union {Message("FINALIZED", air)}
    /\ UNCHANGED <<session, plan, result, air, config, radioErr, acks, cl, faults>>

\* committed = True, then RADIO_SWITCH_CONFIRMED
StartConfirm ==
    /\ pc = "finalize" /\ AllAcked
    /\ pc' = "confirm" /\ acked' = {}
    /\ sent' = sent \union {Message("CONFIRMED", air)}
    /\ UNCHANGED <<session, plan, result, air, config, radioErr, acks, cl, faults>>

Succeed ==
    /\ pc = "confirm" /\ AllAcked
    /\ pc' = "idle" /\ acked' = {} /\ result' = "finalized"
    /\ UNCHANGED <<session, plan, air, config, radioErr, sent, acks, cl, faults>>

\* A barrier times out, or a broadcast raises.  Once committed, the new
\* configuration stays and the error is latched.
FailCommitted ==
    /\ pc = "confirm"
    /\ pc' = "idle" /\ acked' = {} /\ result' = "radio_error" /\ radioErr' = TRUE
    /\ UNCHANGED <<session, plan, air, config, sent, acks, cl, faults>>

Reversible == pc \in {"prepare", "apply", "broken", "ping", "finalize"}

\* Before that everything goes back to the benchmark channel, and CONFIG_RADIO_ABORT
\* is broadcast: on the channel of the PREPARE if nothing was committed yet, and
\* on the benchmark.
Aborts(to) ==
    (IF pc = "prepare" THEN {Message("ABORT", air)} ELSE {})
        \union (IF to = Bench THEN {Message("ABORT", Bench)} ELSE {})

\* Mutation of RollBack: the configuration is not put back.
RollBackUncached ==
    /\ Reversible
    /\ air' = Bench
    /\ sent' = sent \union Aborts(Bench)
    /\ pc' = "idle" /\ acked' = {} /\ result' = "rolled_back"
    /\ UNCHANGED <<session, plan, config, radioErr, acks, cl, faults>>

RollBack ==
    /\ Reversible
    /\ air' = Bench /\ config' = Bench
    /\ sent' = sent \union Aborts(Bench)
    /\ pc' = "idle" /\ acked' = {} /\ result' = "rolled_back"
    /\ UNCHANGED <<session, plan, radioErr, acks, cl, faults>>

\* A restore fails: where the adapter is, is not known any more.
RollBackFails ==
    /\ Reversible /\ faults < MaxFaults
    /\ faults' = faults + 1
    /\ air' \in {air, Bench}
    /\ sent' = sent \union Aborts(air')
    /\ pc' = "idle" /\ acked' = {} /\ result' = "radio_error" /\ radioErr' = TRUE
    /\ UNCHANGED <<session, plan, config, acks, cl>>

Server ==
    \/ \E T \in SUBSET Node, c \in Channels : OpenSwitch(T, c)
    \/ \E m \in acks : HandleAck(m)
    \/ StartCommit \/ Apply \/ ApplyFails \/ StartFinal \/ StartConfirm
    \/ Succeed \/ FailCommitted \/ RollBack \/ RollBackFails

(* ---- a client: the server's messages ---- *)

Acknowledge(n, kind, s) ==
    acks' = acks \union {[kind |-> kind, session |-> s, node |-> n, chan |-> cl[n].chan]}

\* _handle_radio_prepare: a session under way is not superseded.
Prepare(n, s) ==
    /\ <<"PREPARE", s>> \in cl[n].queue
    /\ LET c == [cl[n] EXCEPT !.queue = @ \ {<<"PREPARE", s>>}]
       IN IF n \in plan[s].nodes /\ ~c.saved
          THEN /\ cl' = [cl EXCEPT ![n] = [c EXCEPT !.pend = s, !.patch = TRUE,
                                              !.proposal = None, !.receipt = None]]
               /\ Acknowledge(n, "PREPARE_ACK", s)
          ELSE cl' = [cl EXCEPT ![n] = c] /\ UNCHANGED acks
    /\ UNCHANGED <<server, faults>>

\* _handle_radio_commit: the configuration is saved, the lease armed, and the
\* change of channel left to a thread of its own.
Commit(n, s) ==
    /\ <<"COMMIT", s>> \in cl[n].queue
    /\ LET c == [cl[n] EXCEPT !.queue = @ \ {<<"COMMIT", s>>}]
       IN cl' = [cl EXCEPT ![n] =
              IF c.pend = s /\ ~c.saved
              THEN [c EXCEPT !.saved = TRUE, !.applied = FALSE, !.lease = "armed",
                             !.timers = @ \union {s}]
              ELSE c]
    /\ UNCHANGED <<server, acks, faults>>

\* delayed_switch, after its sleep
Switch(n, s) ==
    /\ s \in cl[n].timers
    /\ LET c == [cl[n] EXCEPT !.timers = @ \ {s}]
       IN cl' = [cl EXCEPT ![n] =
              IF c.pend = s /\ c.lease = "armed"
              THEN [c EXCEPT !.chan = plan[s].chan, !.applied = TRUE]
              ELSE c]
    /\ UNCHANGED <<server, acks, faults>>

\* The adapter or the daemon's callback raises: the lease is left to heal it.
SwitchFails(n, s) ==
    /\ s \in cl[n].timers /\ cl[n].pend = s /\ cl[n].lease = "armed"
    /\ faults < MaxFaults /\ faults' = faults + 1
    /\ \E to \in {cl[n].chan, plan[s].chan} :
        cl' = [cl EXCEPT ![n].timers = @ \ {s}, ![n].patch = FALSE, ![n].chan = to]
    /\ UNCHANGED <<server, acks>>

\* A message of the client's own session and channel, on a lease it can renew
OnLease(n, kind) ==
    /\ cl[n].pend # None /\ cl[n].patch /\ cl[n].applied /\ cl[n].lease = "armed"
    /\ [kind |-> kind, session |-> cl[n].pend, chan |-> cl[n].chan] \in sent

\* _handle_new_channel_ping
Ping(n) ==
    /\ OnLease(n, "PING")
    /\ Acknowledge(n, "COMMIT_SUCCESS", cl[n].pend)
    /\ UNCHANGED <<server, cl, faults>>

\* _handle_radio_switch_finalized
Finalized(n) ==
    /\ OnLease(n, "FINALIZED")
    /\ cl' = [cl EXCEPT ![n].proposal = cl[n].pend]
    /\ Acknowledge(n, "FINALIZED_ACK", cl[n].pend)
    /\ UNCHANGED <<server, faults>>

Cleared(c) == [c EXCEPT !.pend = None, !.patch = FALSE, !.saved = FALSE,
                        !.applied = FALSE, !.proposal = None]

\* _handle_radio_switch_confirmed, disarm_if_alive included.  The repeated
\* acknowledgement of a repeated message changes nothing here.
Confirmed(n) ==
    /\ cl[n].pend # None /\ cl[n].proposal = cl[n].pend /\ cl[n].lease = "armed"
    /\ [kind |-> "CONFIRMED", session |-> cl[n].pend, chan |-> cl[n].chan] \in sent
    /\ cl' = [cl EXCEPT ![n] = [Cleared(cl[n]) EXCEPT
                  !.receipt = cl[n].pend, !.lease = "off", !.mode = "IDLE"]]
    /\ Acknowledge(n, "CONFIRMED_ACK", cl[n].pend)
    /\ UNCHANGED <<server, faults>>

\* _rollback_switch, and the same with a restore that raises on the way
Restored(c) == [Cleared(c) EXCEPT !.chan = Bench, !.mode = "HUNTING"]
PartRestored(c, to) == [c EXCEPT !.applied = FALSE, !.proposal = None, !.chan = to]

\* after sets what follows a restore that has succeeded.
Rollback(n, c, after) ==
    \/ /\ cl' = [cl EXCEPT ![n] = [Restored(c) EXCEPT !.lease = after]]
       /\ UNCHANGED faults
    \/ /\ faults < MaxFaults /\ faults' = faults + 1
       /\ \E to \in {c.chan, Bench} : cl' = [cl EXCEPT ![n] = PartRestored(c, to)]

\* LeaseWatchdog.disarm
Disarmed(lease) == IF lease = "expired" THEN "expired" ELSE "off"

\* Mutation of Abort: the lease is disarmed before the restore.
AbortDisarmFirst(n) ==
    /\ cl[n].pend # None
    /\ [kind |-> "ABORT", session |-> cl[n].pend, chan |-> cl[n].chan] \in sent
    /\ Rollback(n, [cl[n] EXCEPT !.lease = Disarmed(@)], Disarmed(cl[n].lease))
    /\ UNCHANGED <<server, acks>>

\* _handle_radio_abort: the lease is disarmed only after the restore.
Abort(n) ==
    /\ cl[n].pend # None
    /\ [kind |-> "ABORT", session |-> cl[n].pend, chan |-> cl[n].chan] \in sent
    /\ Rollback(n, cl[n], Disarmed(cl[n].lease))
    /\ UNCHANGED <<server, acks>>

(* ---- a client: its own threads ---- *)

\* The deadline passes ...
Lapse(n) ==
    /\ cl[n].lease = "armed"
    /\ cl' = [cl EXCEPT ![n].lease = "lapsed"]
    /\ UNCHANGED <<server, acks, faults>>

\* ... and LeaseWatchdog._run sees it.
Expire(n) ==
    /\ cl[n].lease = "lapsed"
    /\ cl' = [cl EXCEPT ![n].lease = "expired", ![n].calls = @ + 1]
    /\ UNCHANGED <<server, acks, faults>>

\* _on_lease_watchdog_expired, when it gets the lock
Expired(n) ==
    /\ cl[n].calls > 0
    /\ LET c == [cl[n] EXCEPT !.calls = @ - 1]
       IN IF c.lease = "expired" /\ c.pend # None
          THEN Rollback(n, c, "expired")
          ELSE cl' = [cl EXCEPT ![n] = c] /\ UNCHANGED faults
    /\ UNCHANGED <<server, acks>>

\* Mutation of Supervise: the restore is repeated on a lease that runs.
SuperviseArmed(n) ==
    /\ cl[n].saved /\ cl[n].lease = "armed"
    /\ Rollback(n, cl[n], "expired")
    /\ UNCHANGED <<server, acks>>

\* _supervisory_loop repeats a restore that has failed.
Supervise(n) ==
    /\ cl[n].saved /\ cl[n].lease = "expired"
    /\ Rollback(n, cl[n], "expired")
    /\ UNCHANGED <<server, acks>>

\* hunt_once: a heartbeat on the next channel of the ladder
Tune(n, c) ==
    /\ cl[n].mode = "HUNTING" /\ cl[n].probe = {} /\ ~cl[n].saved
    /\ cl' = [cl EXCEPT ![n].chan = c, ![n].probe = {c}]
    /\ UNCHANGED <<server, acks, faults>>

\* The server has answered it ...
Hear(n) ==
    /\ cl[n].probe = {air} /\ cl[n].chan = air /\ ~cl[n].heard
    /\ cl' = [cl EXCEPT ![n].heard = TRUE]
    /\ UNCHANGED <<server, acks, faults>>

\* ... and hunt_once takes the lock again: what happened in between counts only
\* if it has left a switch under way.
Lock(n) ==
    /\ cl[n].heard
    /\ cl' = [cl EXCEPT ![n].probe = {}, ![n].heard = FALSE,
                        ![n].mode = IF cl[n].saved THEN @ ELSE "IDLE"]
    /\ UNCHANGED <<server, acks, faults>>

\* No answer in time
GiveUp(n) ==
    /\ cl[n].probe # {} /\ ~cl[n].heard
    /\ cl' = [cl EXCEPT ![n].probe = {}]
    /\ UNCHANGED <<server, acks, faults>>

\* send_heartbeat_once, at IDLE_MISSED_ACK_THRESHOLD
LoseServer(n) ==
    /\ cl[n].mode = "IDLE" /\ ~cl[n].saved
    /\ cl' = [cl EXCEPT ![n].mode = "HUNTING"]
    /\ UNCHANGED <<server, acks, faults>>

Client(n) ==
    \/ \E s \in Sessions :
        Prepare(n, s) \/ Commit(n, s) \/ Switch(n, s) \/ SwitchFails(n, s)
    \/ Ping(n) \/ Finalized(n) \/ Confirmed(n) \/ Abort(n)
    \/ Lapse(n) \/ Expire(n) \/ Expired(n) \/ Supervise(n)
    \/ \E c \in Channels : Tune(n, c)
    \/ Hear(n) \/ Lock(n) \/ GiveUp(n) \/ LoseServer(n)

Next == Server \/ \E n \in Node : Client(n)

(* Every wait of the server and every lease ends; the threads run; a client that
   keeps looking is heard some time.                                           *)
Fairness ==
    /\ WF_vars(StartCommit \/ Apply \/ ApplyFails \/ StartFinal \/ StartConfirm
               \/ Succeed \/ FailCommitted \/ RollBack \/ RollBackFails)
    /\ \A n \in Node :
        /\ WF_vars(Lapse(n)) /\ WF_vars(Expire(n)) /\ WF_vars(Supervise(n))
        /\ \A c \in Channels : SF_vars(Tune(n, c))
        /\ SF_vars(Hear(n)) /\ WF_vars(Lock(n)) /\ WF_vars(GiveUp(n))
        /\ WF_vars(cl[n].chan # air /\ LoseServer(n))

Spec == Init /\ [][Next]_vars /\ Fairness

-----------------------------------------------------------------------------
Acks(kind, s) == {m.node : m \in {x \in acks : x.kind = kind /\ x.session = s}}

TypeOK ==
    /\ pc \in {"idle", "prepare", "apply", "broken", "ping", "finalize", "confirm"}
    /\ session \in 0..MaxSwitches
    /\ plan \in [Sessions -> [chan : Channels, nodes : SUBSET Node]]
    /\ acked \subseteq Node
    /\ result \in {"none", "finalized", "rolled_back", "radio_error"}
    /\ air \in Channels /\ config \in Channels /\ radioErr \in BOOLEAN
    /\ faults \in 0..MaxFaults
    /\ \A n \in Node :
        /\ cl[n].chan \in Channels /\ cl[n].mode \in {"IDLE", "HUNTING"}
        /\ cl[n].lease \in {"off", "armed", "lapsed", "expired"}
        /\ cl[n].pend \in 0..MaxSwitches /\ cl[n].receipt \in 0..MaxSwitches

\* Agreement: a client keeps the new channel only after every target has agreed to
\* it on a live lease, a call that reports success has moved every target, and one
\* that reports a rollback has left no client on the new channel for good
\* (reconfigure_radio, _handle_radio_switch_confirmed).
KeptByAll == \A n \in Node : cl[n].receipt # None =>
    plan[cl[n].receipt].nodes \subseteq Acks("FINALIZED_ACK", cl[n].receipt)
SuccessIsAll == pc = "idle" /\ result = "finalized" =>
    plan[session].nodes \subseteq Acks("CONFIRMED_ACK", session)
RollbackIsAll == pc = "idle" /\ result = "rolled_back" =>
    \A n \in Node : cl[n].receipt # session
Agreement == KeptByAll /\ SuccessIsAll /\ RollbackIsAll

\* SwitchGuarded: from the commit to the end of its switch a client has a lease
\* that runs or has run out, whatever fails on the way, and while it reports the
\* switch as applied it is on the new channel (_handle_radio_commit,
\* _handle_radio_abort, _rollback_switch, hunt_once).
LeaseCovers == \A n \in Node :
    cl[n].saved => cl[n].pend # None /\ cl[n].lease # "off"
AppliedIsThere == \A n \in Node :
    cl[n].applied => cl[n].saved /\ cl[n].chan = plan[cl[n].pend].chan
SwitchGuarded == LeaseCovers /\ AppliedIsThere

\* ConfigIsReal: between two switches the configuration the server works with is
\* the one its adapter has, unless it says that it does not know
\* (reconfigure_radio, update_radio_config).
ConfigIsReal == pc = "idle" /\ ~radioErr => config = air

\* Reunites: whatever a switch leaves behind, a client is again and again on the
\* server's channel with the server heard (lease, rollback, hunting).
Reunites == \A n \in Node : []<>(cl[n].mode = "IDLE" /\ cl[n].chan = air)
=============================================================================
