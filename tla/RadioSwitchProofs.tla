-------------------------- MODULE RadioSwitchProofs --------------------------
(***************************************************************************)
(* Proofs about RadioSwitch: for any number of clients, channels, switches *)
(* and failing adapters, whatever is lost, repeated or late,               *)
(*  - a client keeps the new channel only if all targets have agreed to    *)
(*    it, and what a call of reconfigure_radio reports is true of all      *)
(*    targets (Agreement);                                                 *)
(*  - a client on its way to the new channel is covered by a lease         *)
(*    (SwitchGuarded);                                                     *)
(*  - the server knows its channel or says that it does not                *)
(*    (ConfigIsReal).                                                      *)
(*                                                                         *)
(* Agreement is a matter of what is on the air for ever: a CONFIRMED is    *)
(* sent only after all have agreed, and never for a session that is taken  *)
(* back.  Every client's part of the invariant is ClientOK.                *)
(***************************************************************************)
EXTENDS RadioSwitch, TLAPS

Leases == {"off", "armed", "lapsed", "expired"}
AckKinds == {"PREPARE_ACK", "COMMIT_SUCCESS", "FINALIZED_ACK", "CONFIRMED_ACK"}
SentKinds == {"PING", "FINALIZED", "CONFIRMED", "ABORT"}

ClientType ==
    [chan : Channels, mode : {"IDLE", "HUNTING"},
     queue : SUBSET ({"PREPARE", "COMMIT"} \X Sessions),
     pend : 0..MaxSwitches, patch : BOOLEAN, saved : BOOLEAN, applied : BOOLEAN,
     proposal : 0..MaxSwitches, receipt : 0..MaxSwitches, lease : Leases,
     calls : Nat, timers : SUBSET Sessions, probe : SUBSET Channels,
     heard : BOOLEAN]

Types ==
    /\ TypeOK
    /\ cl \in [Node -> ClientType]
    /\ sent \subseteq [kind : SentKinds, session : Sessions, chan : Channels]
    /\ acks \subseteq [kind : AckKinds, session : Sessions, node : Node, chan : Channels]

\* Sessions whose CONFIRMED is on the air
ConfirmedSessions == {m.session : m \in {x \in sent : x.kind = "CONFIRMED"}}

\* A client: LeaseCovers and AppliedIsThere, and that a lease that runs is that of a
\* switch under way; it has kept a channel only on a CONFIRMED.
ClientOK(c) ==
    /\ c.saved => c.pend # None /\ c.lease # "off"
    /\ c.lease \in {"armed", "lapsed"} => c.saved
    /\ c.applied => c.saved /\ c.chan = plan[c.pend].chan
    /\ c.pend <= session /\ c.receipt <= session
    /\ \A q \in c.queue : q[2] <= session
    /\ c.receipt # None => c.receipt \in ConfirmedSessions

\* A session is confirmed when all have agreed, and is not taken back then.
Decided ==
    /\ \A m \in sent : m.session <= session
    /\ \A s \in ConfirmedSessions :
           /\ plan[s].nodes \subseteq Acks("FINALIZED_ACK", s)
           /\ s = session => pc = "confirm" \/ (pc = "idle" /\ result # "rolled_back")

\* What the server counts it has heard in this phase of this session.
Counted ==
    /\ pc # "idle" \/ result # "none" => session # None
    /\ pc # "broken" => acked \subseteq Acks(Expected, session)
    /\ SuccessIsAll

Known ==
    /\ pc # "idle" => ~radioErr
    /\ pc # "broken" /\ ~radioErr => config = air

IInv ==
    /\ Types
    /\ Decided /\ Counted /\ Known
    /\ \A n \in Node : ClientOK(cl[n])

-----------------------------------------------------------------------------
\* Before the first switch nothing is planned, applied or confirmed.
LEMMA IInvInit == Init => IInv
<1> SUFFICES ASSUME Init PROVE IInv
  OBVIOUS
<1> USE RadioAssumption DEF Init, NewClient, None, Sessions
<1>1. cl \in [Node -> ClientType]
  BY DEF ClientType, Leases
<1>2. TypeOK
  <2>1. \A n \in Node : cl[n] \in ClientType
    BY <1>1
  <2>2. plan \in [Sessions -> [chan : Channels, nodes : SUBSET Node]]
    OBVIOUS
  <2>3. faults \in 0..MaxFaults /\ session \in 0..MaxSwitches
    OBVIOUS
  <2>4. radioErr \in BOOLEAN
    OBVIOUS
  <2>5. QED
    BY <2>1, <2>2, <2>3, <2>4 DEF TypeOK, ClientType, Leases
<1>3. Decided /\ Known
  BY DEF Decided, ConfirmedSessions, Known
<1>4. Counted
  BY DEF Counted, SuccessIsAll
<1>5. \A n \in Node : ClientOK(cl[n])
  BY DEF ClientOK
<1>6. QED
  BY <1>1, <1>2, <1>3, <1>4, <1>5 DEF IInv, Types

\* Acknowledgements stay on the air.
LEMMA AcksGrow ==
    ASSUME acks \subseteq acks', NEW kind, NEW s
    PROVE  Acks(kind, s) \subseteq Acks(kind, s)'
  BY DEF Acks

\* An answer of a client (_send_radio_ack) adds one message of its kind.
LEMMA AcknowledgeIs ==
    ASSUME Types, NEW n \in Node, NEW kind \in AckKinds, NEW s \in Sessions,
           Acknowledge(n, kind, s)
    PROVE  /\ acks \subseteq acks'
           /\ acks' \subseteq [kind : AckKinds, session : Sessions, node : Node,
                              chan : Channels]
<1>1. cl[n].chan \in Channels
  BY DEF Types, ClientType
<1>2. QED
  BY <1>1 DEF Types, Acknowledge

-----------------------------------------------------------------------------
(* The clients *)

\* One client does something of its own.
ClientMoves(n) ==
    /\ cl' \in [Node -> ClientType]
    /\ \A m \in Node : m # n => cl'[m] = cl[m]
    /\ UNCHANGED server
    /\ faults' \in 0..MaxFaults
    /\ acks \subseteq acks'
    /\ acks' \subseteq [kind : AckKinds, session : Sessions, node : Node, chan : Channels]

\* A step of one client keeps the invariant if the client itself stays right: the
\* server and the other clients do not see it.
LEMMA ClientMoveKeeps ==
    ASSUME IInv, NEW n \in Node, ClientMoves(n), ClientOK(cl'[n])
    PROVE  IInv'
<1>1. UNCHANGED <<pc, session, plan, acked, result, air, config, radioErr, sent>>
  BY DEF ClientMoves, server
<1>2. \A kind, s : Acks(kind, s) \subseteq Acks(kind, s)'
  BY AcksGrow DEF ClientMoves
<1>3. Types'
  <2>1. \A m \in Node : cl'[m] \in ClientType
    BY DEF ClientMoves
  <2>2. TypeOK'
    BY <1>1, <2>1 DEF IInv, Types, TypeOK, ClientMoves, ClientType, Leases
  <2>3. QED
    BY <1>1, <2>2 DEF IInv, Types, ClientMoves
<1>4. ConfirmedSessions' = ConfirmedSessions
  BY <1>1 DEF ConfirmedSessions
<1>5. Decided'
  BY <1>1, <1>2, <1>4 DEF IInv, Decided
<1>6. Counted'
  <2>1. Expected' = Expected
    BY <1>1 DEF Expected
  <2>2. pc # "broken" => acked \subseteq Acks(Expected, session)'
    BY <1>1, <1>2, <2>1 DEF IInv, Counted
  <2>3. SuccessIsAll'
    BY <1>1, <1>2 DEF IInv, Counted, SuccessIsAll
  <2>4. QED
    BY <1>1, <2>2, <2>3 DEF IInv, Counted
<1>7. Known'
  BY <1>1 DEF IInv, Known
<1>8. ASSUME NEW m \in Node
      PROVE  ClientOK(cl[m])'
  BY <1>1, <1>4 DEF IInv, ClientMoves, ClientOK
<1>9. QED
  BY <1>3, <1>5, <1>6, <1>7, <1>8 DEF IInv

\* A restore that succeeds or fails leaves a client that is covered.
LEMMA RollbackIs ==
    ASSUME IInv, NEW n \in Node, NEW c \in ClientType, ClientOK(c),
           NEW after \in {"off", "expired"}, Rollback(n, c, after)
    PROVE  /\ cl' \in [Node -> ClientType]
           /\ \A m \in Node : m # n => cl'[m] = cl[m]
           /\ faults' \in 0..MaxFaults
           /\ ClientOK(cl'[n])
<1> USE RadioAssumption DEF IInv, Types, TypeOK
<1>1. CASE /\ cl' = [cl EXCEPT ![n] = [Restored(c) EXCEPT !.lease = after]]
           /\ UNCHANGED faults
  <2>1. [Restored(c) EXCEPT !.lease = after] \in ClientType
    <3>1. Bench \in Channels /\ None \in 0..MaxSwitches /\ after \in Leases
      BY DEF None, Leases
    <3>2. Cleared(c) \in ClientType
      BY <3>1 DEF Cleared, ClientType
    <3>3. QED
      BY <3>1, <3>2 DEF Restored, ClientType
  <2>2. ClientOK([Restored(c) EXCEPT !.lease = after])
    BY DEF Restored, Cleared, ClientType, ClientOK, Decided, None
  <2>3. QED
    BY <1>1, <2>1, <2>2
<1>2. ASSUME faults < MaxFaults, faults' = faults + 1, NEW to \in {c.chan, Bench},
             cl' = [cl EXCEPT ![n] = PartRestored(c, to)]
      PROVE  /\ cl' \in [Node -> ClientType]
             /\ \A m \in Node : m # n => cl'[m] = cl[m]
             /\ faults' \in 0..MaxFaults
             /\ ClientOK(cl'[n])
  <2>1. PartRestored(c, to) \in ClientType
    <3>1. to \in Channels /\ None \in 0..MaxSwitches
      BY DEF ClientType, None
    <3>2. QED
      BY <3>1 DEF PartRestored, ClientType
  <2>2. ClientOK(PartRestored(c, to))
    BY DEF PartRestored, ClientType, ClientOK
  <2>3. QED
    BY <1>2, <2>1, <2>2
<1>3. QED
  BY <1>1, <1>2 DEF Rollback

\* Every handler of RadioControlClient leaves its client right.
LEMMA ClientStep ==
    ASSUME IInv, NEW n \in Node, Client(n)
    PROVE  IInv'
<1> USE RadioAssumption DEF None, Sessions
<1>0. cl[n] \in ClientType /\ ClientOK(cl[n]) /\ cl \in [Node -> ClientType]
  BY DEF IInv, Types
<1>t. /\ acks \subseteq [kind : AckKinds, session : Sessions, node : Node, chan : Channels]
      /\ faults \in 0..MaxFaults /\ session \in 0..MaxSwitches
      /\ plan \in [Sessions -> [chan : Channels, nodes : SUBSET Node]]
  BY DEF IInv, Types, TypeOK
<1>1. ASSUME NEW s \in Sessions, Prepare(n, s)
      PROVE  IInv'
  <2> DEFINE c == [cl[n] EXCEPT !.queue = @ \ {<<"PREPARE", s>>}]
             d == [c EXCEPT !.pend = s, !.patch = TRUE, !.proposal = None, !.receipt = None]
  <2>1. c \in ClientType /\ d \in ClientType
    <3>1. s \in 0..MaxSwitches /\ None \in 0..MaxSwitches
      OBVIOUS
    <3>2. c \in ClientType
      BY <1>0 DEF ClientType
    <3>3. d \in ClientType
      BY <3>1, <3>2 DEF ClientType
    <3>4. QED
      BY <3>2, <3>3
  <2>2. s <= session
    BY <1>0, <1>1 DEF Prepare, ClientOK
  <2>3. ClientOK(c) /\ (~cl[n].saved => ClientOK(d))
    BY <1>0, <1>t, <2>2 DEF ClientOK, ClientType
  <2>4. \/ /\ ~cl[n].saved
           /\ cl' = [cl EXCEPT ![n] = d]
           /\ Acknowledge(n, "PREPARE_ACK", s)
        \/ cl' = [cl EXCEPT ![n] = c] /\ UNCHANGED acks
    BY <1>0, <1>1 DEF Prepare, ClientType
  <2>5. acks \subseteq acks' /\ acks' \subseteq [kind : AckKinds, session : Sessions,
                                              node : Node, chan : Channels]
    BY <1>t, <2>4, AcknowledgeIs DEF AckKinds, IInv
  <2>6. ClientMoves(n) /\ ClientOK(cl'[n])
    BY <1>0, <1>t, <1>1, <2>1, <2>3, <2>4, <2>5 DEF Prepare, ClientMoves
  <2>7. QED
    BY <2>6, ClientMoveKeeps
<1>2. ASSUME NEW s \in Sessions, Commit(n, s)
      PROVE  IInv'
  <2> DEFINE c == [cl[n] EXCEPT !.queue = @ \ {<<"COMMIT", s>>}]
             d == [c EXCEPT !.saved = TRUE, !.applied = FALSE, !.lease = "armed",
                            !.timers = @ \union {s}]
  <2>1. c \in ClientType /\ d \in ClientType
    BY <1>0 DEF ClientType, Leases
  <2>2. ClientOK(c) /\ (cl[n].pend = s => ClientOK(d))
    BY <1>0, <1>t DEF ClientOK, ClientType
  <2>3. \/ cl[n].pend = s /\ cl' = [cl EXCEPT ![n] = d]
        \/ cl' = [cl EXCEPT ![n] = c]
    BY <1>0, <1>2 DEF Commit, ClientType
  <2>4. ClientMoves(n) /\ ClientOK(cl'[n])
    BY <1>0, <1>t, <1>2, <2>1, <2>2, <2>3 DEF Commit, ClientMoves
  <2>5. QED
    BY <2>4, ClientMoveKeeps
<1>3. ASSUME NEW s \in Sessions, Switch(n, s)
      PROVE  IInv'
  <2> DEFINE c == [cl[n] EXCEPT !.timers = @ \ {s}]
             d == [c EXCEPT !.chan = plan[s].chan, !.applied = TRUE]
  <2>1. c \in ClientType /\ d \in ClientType
    BY <1>0, <1>t DEF ClientType
  <2>2. ClientOK(c) /\ (cl[n].pend = s /\ cl[n].lease = "armed" => ClientOK(d))
    BY <1>0, <1>t DEF ClientOK, ClientType
  <2>3. \/ cl[n].pend = s /\ cl[n].lease = "armed" /\ cl' = [cl EXCEPT ![n] = d]
        \/ cl' = [cl EXCEPT ![n] = c]
    BY <1>0, <1>3 DEF Switch, ClientType
  <2>4. ClientMoves(n) /\ ClientOK(cl'[n])
    BY <1>0, <1>t, <1>3, <2>1, <2>2, <2>3 DEF Switch, ClientMoves
  <2>5. QED
    BY <2>4, ClientMoveKeeps
<1>4. ASSUME NEW s \in Sessions, SwitchFails(n, s)
      PROVE  IInv'
  <2>1. PICK to \in {cl[n].chan, plan[s].chan} :
            cl' = [cl EXCEPT ![n].timers = @ \ {s}, ![n].patch = FALSE, ![n].chan = to]
    BY <1>4 DEF SwitchFails
  <2> DEFINE c == [cl[n] EXCEPT !.timers = @ \ {s}, !.patch = FALSE, !.chan = to]
  <2>2. c \in ClientType
    BY <1>0, <1>t DEF ClientType
  <2>3. ClientOK(c)
    BY <1>0, <1>t, <1>4 DEF SwitchFails, ClientOK, ClientType
  <2>4. cl' = [cl EXCEPT ![n] = c]
    BY <1>0, <2>1
  <2>5. faults' \in 0..MaxFaults
    BY <1>t, <1>4 DEF SwitchFails
  <2>6. ClientMoves(n) /\ ClientOK(cl'[n])
    BY <1>0, <1>t, <1>4, <2>2, <2>3, <2>4, <2>5 DEF SwitchFails, ClientMoves
  <2>7. QED
    BY <2>6, ClientMoveKeeps
<1>5. CASE Ping(n)
  <2>1. cl[n].pend \in Sessions
    BY <1>0, <1>5 DEF Ping, OnLease, ClientType
  <2>2. acks \subseteq acks' /\ acks' \subseteq [kind : AckKinds, session : Sessions,
                                              node : Node, chan : Channels]
    BY <1>5, <2>1, AcknowledgeIs DEF Ping, AckKinds, IInv
  <2>3. ClientMoves(n) /\ ClientOK(cl'[n])
    BY <1>0, <1>t, <1>5, <2>2 DEF Ping, ClientMoves
  <2>4. QED
    BY <2>3, ClientMoveKeeps
<1>6. CASE Finalized(n)
  <2> DEFINE c == [cl[n] EXCEPT !.proposal = cl[n].pend]
  <2>1. cl[n].pend \in Sessions
    BY <1>0, <1>6 DEF Finalized, OnLease, ClientType
  <2>2. acks \subseteq acks' /\ acks' \subseteq [kind : AckKinds, session : Sessions,
                                              node : Node, chan : Channels]
    BY <1>6, <2>1, AcknowledgeIs DEF Finalized, AckKinds, IInv
  <2>3. c \in ClientType /\ ClientOK(c)
    BY <1>0 DEF ClientType, ClientOK
  <2>4. cl' = [cl EXCEPT ![n] = c]
    BY <1>0, <1>6 DEF Finalized
  <2>5. ClientMoves(n) /\ ClientOK(cl'[n])
    BY <1>0, <1>t, <1>6, <2>2, <2>3, <2>4 DEF Finalized, ClientMoves
  <2>6. QED
    BY <2>5, ClientMoveKeeps
<1>7. CASE Confirmed(n)
  <2> DEFINE c == [Cleared(cl[n]) EXCEPT !.receipt = cl[n].pend, !.lease = "off",
                                         !.mode = "IDLE"]
  <2>1. cl[n].pend \in Sessions
    BY <1>0, <1>7 DEF Confirmed, ClientType
  <2>2. acks \subseteq acks' /\ acks' \subseteq [kind : AckKinds, session : Sessions,
                                              node : Node, chan : Channels]
    BY <1>7, <2>1, AcknowledgeIs DEF Confirmed, AckKinds, IInv
  <2>3. cl[n].pend \in ConfirmedSessions
    BY <1>7 DEF Confirmed, ConfirmedSessions
  <2>4. c \in ClientType
    <3>1. None \in 0..MaxSwitches /\ cl[n].pend \in 0..MaxSwitches
      BY <2>1
    <3>2. Cleared(cl[n]) \in ClientType
      BY <1>0, <3>1 DEF ClientType, Cleared
    <3>3. QED
      BY <3>1, <3>2 DEF ClientType, Leases
  <2>5. ClientOK(c)
    BY <1>0, <1>t, <2>3 DEF ClientType, ClientOK, Cleared
  <2>6. cl' = [cl EXCEPT ![n] = c]
    BY <1>7 DEF Confirmed
  <2>7. ClientMoves(n) /\ ClientOK(cl'[n])
    BY <1>0, <1>t, <1>7, <2>2, <2>4, <2>5, <2>6 DEF Confirmed, ClientMoves
  <2>8. QED
    BY <2>7, ClientMoveKeeps
<1>8. CASE Abort(n)
  <2>1. Rollback(n, cl[n], Disarmed(cl[n].lease)) /\ UNCHANGED <<server, acks>>
    BY <1>8 DEF Abort
  <2>2. Disarmed(cl[n].lease) \in {"off", "expired"}
    BY DEF Disarmed
  <2>3. ClientMoves(n) /\ ClientOK(cl'[n])
    BY <1>0, <1>t, <2>1, <2>2, RollbackIs DEF ClientMoves
  <2>4. QED
    BY <2>3, ClientMoveKeeps
<1>9. CASE Lapse(n)
  <2> DEFINE c == [cl[n] EXCEPT !.lease = "lapsed"]
  <2>1. c \in ClientType /\ ClientOK(c) /\ cl' = [cl EXCEPT ![n] = c]
    BY <1>0, <1>9 DEF Lapse, ClientType, ClientOK, Leases
  <2>2. ClientMoves(n) /\ ClientOK(cl'[n])
    BY <1>0, <1>t, <1>9, <2>1 DEF Lapse, ClientMoves
  <2>3. QED
    BY <2>2, ClientMoveKeeps
<1>10. CASE Expire(n)
  <2> DEFINE c == [cl[n] EXCEPT !.lease = "expired", !.calls = @ + 1]
  <2>1. c \in ClientType
    <3>1. cl[n].calls + 1 \in Nat
      BY <1>0 DEF ClientType
    <3>2. QED
      BY <1>0, <3>1 DEF ClientType, Leases
  <2>2. ClientOK(c)
    BY <1>0 DEF ClientType, ClientOK
  <2>3. cl' = [cl EXCEPT ![n] = c]
    BY <1>0, <1>10 DEF Expire
  <2>4. ClientMoves(n) /\ ClientOK(cl'[n])
    BY <1>0, <1>t, <1>10, <2>1, <2>2, <2>3 DEF Expire, ClientMoves
  <2>5. QED
    BY <2>4, ClientMoveKeeps
<1>11. CASE Expired(n)
  <2> DEFINE c == [cl[n] EXCEPT !.calls = @ - 1]
  <2>1. c \in ClientType
    BY <1>0, <1>11 DEF Expired, ClientType
  <2>2. ClientOK(c)
    BY <1>0 DEF ClientType, ClientOK
  <2>3. \/ Rollback(n, c, "expired")
        \/ cl' = [cl EXCEPT ![n] = c] /\ UNCHANGED faults
    BY <1>11 DEF Expired
  <2>4. ClientMoves(n) /\ ClientOK(cl'[n])
    BY <1>0, <1>t, <1>11, <2>1, <2>2, <2>3, RollbackIs DEF Expired, ClientMoves
  <2>5. QED
    BY <2>4, ClientMoveKeeps
<1>12. CASE Supervise(n)
  <2>1. Rollback(n, cl[n], "expired") /\ UNCHANGED <<server, acks>>
    BY <1>12 DEF Supervise
  <2>2. ClientMoves(n) /\ ClientOK(cl'[n])
    BY <1>0, <1>t, <2>1, RollbackIs DEF ClientMoves
  <2>3. QED
    BY <2>2, ClientMoveKeeps
<1>13. ASSUME NEW to \in Channels, Tune(n, to)
       PROVE  IInv'
  <2> DEFINE c == [cl[n] EXCEPT !.chan = to, !.probe = {to}]
  <2>1. c \in ClientType
    BY <1>0 DEF ClientType
  <2>2. ClientOK(c)
    BY <1>0, <1>13 DEF Tune, ClientType, ClientOK
  <2>3. cl' = [cl EXCEPT ![n] = c]
    BY <1>0, <1>13 DEF Tune
  <2>4. ClientMoves(n) /\ ClientOK(cl'[n])
    BY <1>0, <1>t, <1>13, <2>1, <2>2, <2>3 DEF Tune, ClientMoves
  <2>5. QED
    BY <2>4, ClientMoveKeeps
<1>14. CASE Hear(n) \/ Lock(n) \/ GiveUp(n) \/ LoseServer(n)
  <2> DEFINE same(c) == /\ c \in ClientType
                        /\ c.saved = cl[n].saved /\ c.applied = cl[n].applied
                        /\ c.pend = cl[n].pend /\ c.receipt = cl[n].receipt
                        /\ c.lease = cl[n].lease /\ c.chan = cl[n].chan
                        /\ c.queue = cl[n].queue
  <2>1. same(cl'[n])
    <3>1. CASE Hear(n)
      BY <1>0, <3>1 DEF Hear, ClientType
    <3>2. CASE Lock(n)
      BY <1>0, <3>2 DEF Lock, ClientType
    <3>3. CASE GiveUp(n) \/ LoseServer(n)
      BY <1>0, <3>3 DEF GiveUp, LoseServer, ClientType
    <3>4. QED
      BY <1>14, <3>1, <3>2, <3>3
  <2>2. ClientOK(cl'[n])
    BY <1>0, <2>1 DEF ClientOK
  <2>3. ClientMoves(n)
    BY <1>0, <1>t, <1>14, <2>1 DEF Hear, Lock, GiveUp, LoseServer, ClientMoves
  <2>4. QED
    BY <2>2, <2>3, ClientMoveKeeps
<1>15. QED
  BY <1>1, <1>2, <1>3, <1>4, <1>5, <1>6, <1>7, <1>8, <1>9, <1>10, <1>11, <1>12,
     <1>13, <1>14 DEF Client

-----------------------------------------------------------------------------
(* The server *)

\* Nothing the server does disturbs a client's part of the invariant, as long as the
\* plans of its sessions stay and nothing is taken off the air.
LEMMA ClientsStay ==
    ASSUME IInv, session \in Nat, session' \in Nat, session <= session',
           \A s \in Sessions : s <= session => plan'[s] = plan[s],
           sent \subseteq sent',
           NEW n \in Node, cl'[n] = cl[n]
    PROVE  ClientOK(cl[n])'
<1>1. ConfirmedSessions \subseteq ConfirmedSessions'
  BY DEF ConfirmedSessions
<1>2. cl[n] \in ClientType /\ ClientOK(cl[n])
  BY DEF IInv, Types
<1>3. cl[n].pend # None => cl[n].pend \in Sessions
  BY <1>2, RadioAssumption DEF ClientType, None, Sessions
<1>4. cl[n].applied => cl[n].saved /\ cl[n].chan = plan'[cl[n].pend].chan
  BY <1>2, <1>3 DEF ClientOK
<1>5. /\ cl[n].pend \in Nat /\ cl[n].receipt \in Nat
      /\ \A q \in cl[n].queue : q[2] \in Nat
  BY <1>2, RadioAssumption DEF ClientType, Sessions
<1>6. /\ cl[n].pend <= session' /\ cl[n].receipt <= session'
      /\ \A q \in cl[n].queue : q[2] <= session'
  BY <1>2, <1>5 DEF ClientOK
<1>7. QED
  BY <1>1, <1>2, <1>4, <1>6 DEF ClientOK

\* A message without a channel is queued by those who are there.
LEMMA QueueIs ==
    ASSUME cl \in [Node -> ClientType], NEW kind \in {"PREPARE", "COMMIT"},
           NEW s \in Sessions, Queue(kind, s)
    PROVE  /\ cl' \in [Node -> ClientType]
           /\ \A n \in Node :
                 cl'[n] \in {cl[n], [cl[n] EXCEPT !.queue = @ \union {<<kind, s>>}]}
<1> DEFINE q(n) == [cl[n] EXCEPT !.queue = @ \union {<<kind, s>>}]
<1>1. \A n \in Node : q(n) \in ClientType
  BY DEF ClientType
<1>2. cl' = [n \in Node |-> IF cl[n].chan = air THEN q(n) ELSE cl[n]]
  BY DEF Queue
<1>3. QED
  BY <1>1, <1>2

\* What is queued belongs to a session that is open.
LEMMA QueuedStays ==
    ASSUME NEW n \in Node, cl[n] \in ClientType, ClientOK(cl[n]),
           NEW kind \in {"PREPARE", "COMMIT"}, NEW s \in Sessions, s <= session
    PROVE  ClientOK([cl[n] EXCEPT !.queue = @ \union {<<kind, s>>}])
  BY DEF ClientOK, ClientType

\* A new session begins: no answer and no plan of it exists yet.
LEMMA OpenSwitchStep ==
    ASSUME IInv, NEW T \in SUBSET Node, NEW c \in Channels, OpenSwitch(T, c)
    PROVE  IInv'
<1> USE RadioAssumption DEF None, Sessions
<1>1. /\ session \in 0..MaxSwitches /\ session + 1 \in Sessions
      /\ session' = session + 1 /\ session' \in Nat /\ session \in Nat
  BY DEF OpenSwitch, IInv, Types, TypeOK
<1>2. /\ plan' \in [Sessions -> [chan : Channels, nodes : SUBSET Node]]
      /\ \A s \in Sessions : s <= session => plan'[s] = plan[s]
  BY <1>1 DEF OpenSwitch, IInv, Types, TypeOK
<1>3. Queue("PREPARE", session') /\ cl \in [Node -> ClientType]
  BY <1>1 DEF OpenSwitch, IInv, Types
<1>4. /\ cl' \in [Node -> ClientType]
      /\ \A n \in Node : cl'[n] \in
            {cl[n], [cl[n] EXCEPT !.queue = @ \union {<<"PREPARE", session'>>}]}
  BY <1>1, <1>3, QueueIs
<1>5. UNCHANGED <<result, air, config, radioErr, sent, acks, faults>>
  BY DEF OpenSwitch
<1>6. pc' = "prepare" /\ acked' = {} /\ pc = "idle" /\ ~radioErr
  BY DEF OpenSwitch
<1>7. Types'
  <2>1. \A n \in Node : cl'[n] \in ClientType
    BY <1>4
  <2>2. TypeOK'
    BY <1>1, <1>2, <1>5, <1>6, <2>1 DEF IInv, Types, TypeOK, ClientType, Leases
  <2>3. QED
    BY <1>4, <1>5, <2>2 DEF IInv, Types
<1>8. ConfirmedSessions' = ConfirmedSessions /\ \A kind, s : Acks(kind, s)' = Acks(kind, s)
  BY <1>5 DEF ConfirmedSessions, Acks
<1>9. Decided'
  <2>1. \A m \in sent : m.session \in Sessions /\ m.session <= session
    BY DEF IInv, Types, Decided
  <2>2. \A s \in ConfirmedSessions : s \in Sessions /\ s <= session
    BY <2>1 DEF ConfirmedSessions
  <2>3. QED
    BY <1>1, <1>2, <1>5, <1>8, <2>1, <2>2 DEF IInv, Decided
<1>10. Counted' /\ Known'
  BY <1>1, <1>5, <1>6 DEF IInv, Counted, Known, SuccessIsAll
<1>11. ASSUME NEW n \in Node
       PROVE  ClientOK(cl[n])'
  <2>1. cl[n] \in ClientType /\ ClientOK(cl[n])
    BY DEF IInv, Types
  <2>2. CASE cl'[n] = cl[n]
    BY <1>1, <1>2, <1>5, <2>2, ClientsStay
  <2>3. CASE cl'[n] = [cl[n] EXCEPT !.queue = @ \union {<<"PREPARE", session'>>}]
    BY <1>1, <1>2, <1>8, <2>1, <2>3 DEF ClientOK, ClientType
  <2>4. QED
    BY <1>4, <2>2, <2>3
<1>12. QED
  BY <1>7, <1>9, <1>10, <1>11 DEF IInv

\* The steps inside a call keep the session and its plan.
InCall ==
    /\ UNCHANGED <<session, plan, acks>>
    /\ sent \subseteq sent'
    /\ sent' \subseteq [kind : SentKinds, session : Sessions, chan : Channels]
    /\ \A m \in sent' : m.session <= session

\* What the server sends within a call carries the session of that call.
LEMMA MessageIs ==
    ASSUME IInv, session # None, NEW kind \in SentKinds, NEW c \in Channels
    PROVE  /\ Message(kind, c) \in [kind : SentKinds, session : Sessions, chan : Channels]
           /\ Message(kind, c).session = session /\ Message(kind, c).kind = kind
  BY RadioAssumption DEF Message, IInv, Types, TypeOK, None, Sessions

\* What a step within reconfigure_radio has to keep, the plans left as they are.
LEMMA InCallStep ==
    ASSUME IInv, InCall, TypeOK', cl' \in [Node -> ClientType],
           Counted', Known',
           \A s \in ConfirmedSessions' :
               /\ plan[s].nodes \subseteq Acks("FINALIZED_ACK", s)
               /\ s = session => pc' = "confirm" \/ (pc' = "idle" /\ result' # "rolled_back"),
           \A n \in Node : ClientOK(cl'[n])
    PROVE  IInv'
<1>1. UNCHANGED <<session, plan, acks>>
  BY DEF InCall
<1>2. Types'
  BY <1>1 DEF IInv, Types, InCall
<1>3. \A kind, s : Acks(kind, s)' = Acks(kind, s)
  BY <1>1 DEF Acks
<1>4. Decided'
  BY <1>1, <1>3 DEF Decided, InCall
<1>5. ConfirmedSessions \subseteq ConfirmedSessions'
  BY DEF ConfirmedSessions, InCall
<1>6. \A n \in Node : ClientOK(cl[n])'
  BY <1>1, <1>5 DEF ClientOK
<1>7. QED
  BY <1>2, <1>4, <1>6 DEF IInv

\* Before the commitment no CONFIRMED of this session is on the air.
LEMMA NotYetConfirmed ==
    ASSUME IInv, pc \notin {"idle", "confirm"}
    PROVE  session \notin ConfirmedSessions
  BY DEF IInv, Decided

\* An answer is counted for the phase it belongs to.
LEMMA HandleAckStep ==
    ASSUME IInv, NEW m \in acks, HandleAck(m)
    PROVE  IInv'
<1>1. UNCHANGED <<pc, session, plan, result, air, config, radioErr, sent, acks, cl, faults>>
  BY DEF HandleAck
<1>2. acked' = acked \union {m.node} /\ m.node \in Acks(Expected, session) /\ m.node \in Node
  BY DEF HandleAck, Acks, IInv, Types
<1>3. TypeOK'
  BY <1>1, <1>2 DEF IInv, Types, TypeOK
<1>4. Expected' = Expected /\ \A kind, s : Acks(kind, s)' = Acks(kind, s)
  BY <1>1 DEF Expected, Acks
<1>5. Counted'
  BY <1>1, <1>2, <1>4 DEF IInv, Counted, SuccessIsAll
<1>6. Known'
  BY <1>1 DEF IInv, Known
<1>7. InCall
  BY <1>1 DEF InCall, IInv, Types, Decided
<1>8. ConfirmedSessions' = ConfirmedSessions
  BY <1>1 DEF ConfirmedSessions
<1>9. QED
  BY <1>1, <1>3, <1>5, <1>6, <1>7, <1>8, InCallStep DEF IInv, Types, Decided

\* All targets have prepared; the commit goes out.
LEMMA StartCommitStep ==
    ASSUME IInv, StartCommit
    PROVE  IInv'
<1>1. /\ UNCHANGED <<session, plan, result, air, config, radioErr, sent, acks, faults>>
      /\ pc = "prepare" /\ pc' = "apply" /\ acked' = {}
  BY DEF StartCommit
<1>2. session \in Sessions /\ session <= session
  BY <1>1, RadioAssumption DEF IInv, Types, TypeOK, Counted, None, Sessions
<1>3. /\ cl' \in [Node -> ClientType]
      /\ \A n \in Node : cl'[n] \in
            {cl[n], [cl[n] EXCEPT !.queue = @ \union {<<"COMMIT", session>>}]}
  BY <1>2, QueueIs DEF StartCommit, IInv, Types
<1>4. TypeOK'
  <2>1. \A n \in Node : cl'[n] \in ClientType
    BY <1>3
  <2>2. QED
    BY <1>1, <2>1 DEF IInv, Types, TypeOK, ClientType, Leases
<1>5. Counted' /\ Known'
  BY <1>1 DEF IInv, Counted, Known, SuccessIsAll
<1>6. InCall
  BY <1>1 DEF InCall, IInv, Types, Decided
<1>7. \A n \in Node : ClientOK(cl'[n])
  BY <1>2, <1>3, QueuedStays DEF IInv, Types
<1>8. ConfirmedSessions' = ConfirmedSessions /\ session \notin ConfirmedSessions
  BY <1>1, NotYetConfirmed DEF ConfirmedSessions
<1>9. QED
  BY <1>3, <1>4, <1>5, <1>6, <1>7, <1>8, InCallStep DEF IInv, Decided

\* The steps of a call that leave the clients alone and put on the air only what is
\* listed: the other parts of the invariant are all there is to show.
LEMMA AirStep ==
    ASSUME IInv, session # None, UNCHANGED <<session, plan, acks, cl>>, TypeOK',
           NEW K \in SUBSET (SentKinds \X Channels),
           sent' = sent \union {Message(k[1], k[2]) : k \in K},
           Counted', Known',
           session \in ConfirmedSessions \/ (\E k \in K : k[1] = "CONFIRMED") =>
               /\ plan[session].nodes \subseteq Acks("FINALIZED_ACK", session)
               /\ pc' = "confirm" \/ (pc' = "idle" /\ result' # "rolled_back")
    PROVE  IInv'
<1>1. \A k \in K :
         /\ Message(k[1], k[2]) \in [kind : SentKinds, session : Sessions, chan : Channels]
         /\ Message(k[1], k[2]).session = session /\ Message(k[1], k[2]).kind = k[1]
  <2>1. \A k \in K : k[1] \in SentKinds /\ k[2] \in Channels
    OBVIOUS
  <2>2. QED
    BY <2>1, MessageIs
<1>2. session <= session
  BY RadioAssumption DEF IInv, Types, TypeOK
<1>3. InCall
  BY <1>1, <1>2 DEF InCall, IInv, Types, Decided
<1>4. \A s \in ConfirmedSessions' :
         s \in ConfirmedSessions \/ (s = session /\ \E k \in K : k[1] = "CONFIRMED")
  BY <1>1 DEF ConfirmedSessions
<1>5. \A s \in ConfirmedSessions' :
         /\ plan[s].nodes \subseteq Acks("FINALIZED_ACK", s)
         /\ s = session => pc' = "confirm" \/ (pc' = "idle" /\ result' # "rolled_back")
  BY <1>4 DEF IInv, Decided
<1>6. QED
  BY <1>3, <1>5, InCallStep DEF IInv, Types

\* The server moves its own adapter after the commit.
LEMMA ApplyStep ==
    ASSUME IInv, Apply
    PROVE  IInv'
<1> DEFINE K == {<<"PING", air'>>}
<1>1. /\ UNCHANGED <<session, plan, acked, result, radioErr, acks, cl, faults>>
      /\ pc = "apply" /\ pc' = "ping"
      /\ air' = plan[session].chan /\ config' = air'
      /\ sent' = sent \union {Message("PING", air')}
  BY DEF Apply
<1>2. session # None /\ air' \in Channels
  BY <1>1, RadioAssumption DEF IInv, Types, TypeOK, Counted, None, Sessions
<1>3. K \in SUBSET (SentKinds \X Channels)
      /\ sent' = sent \union {Message(k[1], k[2]) : k \in K}
  BY <1>1, <1>2 DEF SentKinds
<1>4. TypeOK'
  BY <1>1, <1>2 DEF IInv, Types, TypeOK
<1>5. Counted' /\ Known'
  BY <1>1 DEF IInv, Counted, Known, SuccessIsAll, Expected, Acks
<1>6. session \notin ConfirmedSessions /\ ~\E k \in K : k[1] = "CONFIRMED"
  BY <1>1, NotYetConfirmed
<1> HIDE DEF K
<1>7. QED
  BY <1>1, <1>2, <1>3, <1>4, <1>5, <1>6, AirStep

\* The adapter of the server does not come up on the new channel.
LEMMA ApplyFailsStep ==
    ASSUME IInv, ApplyFails
    PROVE  IInv'
<1>1. /\ UNCHANGED <<session, plan, acked, result, config, radioErr, sent, acks, cl>>
      /\ pc = "apply" /\ pc' = "broken" /\ air' \in {air, plan[session].chan}
      /\ faults < MaxFaults /\ faults' = faults + 1
  BY DEF ApplyFails
<1>2. session # None /\ air' \in Channels /\ faults' \in 0..MaxFaults
  BY <1>1, RadioAssumption DEF IInv, Types, TypeOK, Counted, None, Sessions
<1>3. sent' = sent \union {Message(k[1], k[2]) : k \in {}}
  BY <1>1
<1>4. TypeOK'
  BY <1>1, <1>2 DEF IInv, Types, TypeOK
<1>5. Counted' /\ Known'
  BY <1>1 DEF IInv, Counted, Known, SuccessIsAll
<1>6. QED
  BY <1>1, <1>2, <1>3, <1>4, <1>5, NotYetConfirmed, AirStep

\* All targets have applied the switch; they are asked to make it final.
LEMMA StartFinalStep ==
    ASSUME IInv, StartFinal
    PROVE  IInv'
<1> DEFINE K == {<<"FINALIZED", air>>}
<1>1. /\ UNCHANGED <<session, plan, result, air, config, radioErr, acks, cl, faults>>
      /\ pc = "ping" /\ pc' = "finalize" /\ acked' = {}
      /\ sent' = sent \union {Message("FINALIZED", air)}
  BY DEF StartFinal
<1>2. session # None /\ air \in Channels
  BY <1>1 DEF IInv, Types, TypeOK, Counted
<1>3. K \in SUBSET (SentKinds \X Channels)
      /\ sent' = sent \union {Message(k[1], k[2]) : k \in K}
  BY <1>1, <1>2 DEF SentKinds
<1>4. TypeOK'
  BY <1>1 DEF IInv, Types, TypeOK
<1>5. Counted' /\ Known'
  BY <1>1 DEF IInv, Counted, Known, SuccessIsAll
<1>6. session \notin ConfirmedSessions /\ ~\E k \in K : k[1] = "CONFIRMED"
  BY <1>1, NotYetConfirmed
<1> HIDE DEF K
<1>7. QED
  BY <1>1, <1>2, <1>3, <1>4, <1>5, <1>6, AirStep

\* The commitment: all have agreed.
LEMMA StartConfirmStep ==
    ASSUME IInv, StartConfirm
    PROVE  IInv'
<1> DEFINE K == {<<"CONFIRMED", air>>}
<1>1. /\ UNCHANGED <<session, plan, result, air, config, radioErr, acks, cl, faults>>
      /\ pc = "finalize" /\ pc' = "confirm" /\ acked' = {} /\ acked = plan[session].nodes
      /\ sent' = sent \union {Message("CONFIRMED", air)}
  BY DEF StartConfirm, AllAcked
<1>2. session # None /\ air \in Channels
  BY <1>1 DEF IInv, Types, TypeOK, Counted
<1>3. K \in SUBSET (SentKinds \X Channels)
      /\ sent' = sent \union {Message(k[1], k[2]) : k \in K}
  BY <1>1, <1>2 DEF SentKinds
<1>4. TypeOK'
  BY <1>1 DEF IInv, Types, TypeOK
<1>5. Counted' /\ Known'
  BY <1>1 DEF IInv, Counted, Known, SuccessIsAll
<1>6. plan[session].nodes \subseteq Acks("FINALIZED_ACK", session)
  BY <1>1 DEF IInv, Counted, Expected
<1>7. QED
  BY <1>1, <1>2, <1>3, <1>4, <1>5, <1>6, AirStep

\* The end of a call that is committed, for good or with its error latched
LEMMA EndCommittedStep ==
    ASSUME IInv, Succeed \/ FailCommitted
    PROVE  IInv'
<1>1. /\ UNCHANGED <<session, plan, air, config, sent, acks, cl, faults>>
      /\ pc = "confirm" /\ pc' = "idle" /\ acked' = {}
      /\ \/ result' = "finalized" /\ acked = plan[session].nodes /\ radioErr' = radioErr
         \/ result' = "radio_error" /\ radioErr' = TRUE
  BY DEF Succeed, FailCommitted, AllAcked
<1>2. session # None
  BY <1>1 DEF IInv, Counted
<1>3. sent' = sent \union {Message(k[1], k[2]) : k \in {}}
  BY <1>1
<1>4. TypeOK'
  <2>1. radioErr' \in BOOLEAN
    BY <1>1 DEF IInv, Types, TypeOK
  <2>2. QED
    BY <1>1, <2>1 DEF IInv, Types, TypeOK
<1>5. Counted'
  <2>1. acked \subseteq Acks("CONFIRMED_ACK", session)
    BY <1>1 DEF IInv, Counted, Expected
  <2>2. SuccessIsAll'
    BY <1>1, <2>1 DEF SuccessIsAll, Acks
  <2>3. QED
    BY <1>1, <1>2, <2>2 DEF Counted
<1>6. Known'
  BY <1>1 DEF IInv, Known
<1>7. session \in ConfirmedSessions => plan[session].nodes \subseteq Acks("FINALIZED_ACK", session)
  BY DEF IInv, Decided
<1>8. QED
  BY <1>1, <1>2, <1>3, <1>4, <1>5, <1>6, <1>7, AirStep

\* What goes on the air when a call is taken back
LEMMA AbortsAre ==
    ASSUME IInv, NEW to \in Channels
    PROVE  \E K \in SUBSET (SentKinds \X Channels) :
               /\ Aborts(to) = {Message(k[1], k[2]) : k \in K}
               /\ \A k \in K : k[1] # "CONFIRMED"
<1> DEFINE A == IF pc = "prepare" THEN {<<"ABORT", air>>} ELSE {}
           B == IF to = Bench THEN {<<"ABORT", Bench>>} ELSE {}
<1>1. air \in Channels /\ Bench \in Channels
  BY RadioAssumption DEF IInv, Types, TypeOK
<1>2. /\ A \union B \in SUBSET (SentKinds \X Channels)
      /\ \A k \in A \union B : k[1] # "CONFIRMED"
  BY <1>1 DEF SentKinds
<1>3. /\ {Message(k[1], k[2]) : k \in A} = IF pc = "prepare" THEN {Message("ABORT", air)} ELSE {}
      /\ {Message(k[1], k[2]) : k \in B} = IF to = Bench THEN {Message("ABORT", Bench)} ELSE {}
  <2>1. /\ {Message(k[1], k[2]) : k \in {<<"ABORT", air>>}} = {Message("ABORT", air)}
        /\ {Message(k[1], k[2]) : k \in {<<"ABORT", Bench>>}} = {Message("ABORT", Bench)}
        /\ {Message(k[1], k[2]) : k \in {}} = {}
    OBVIOUS
  <2>2. {Message(k[1], k[2]) : k \in A} = IF pc = "prepare" THEN {Message("ABORT", air)} ELSE {}
    BY <2>1
  <2>3. {Message(k[1], k[2]) : k \in B} = IF to = Bench THEN {Message("ABORT", Bench)} ELSE {}
    BY <2>1
  <2>4. QED
    BY <2>2, <2>3
<1> HIDE DEF A, B
<1>4. {Message(k[1], k[2]) : k \in A \union B}
        = {Message(k[1], k[2]) : k \in A} \union {Message(k[1], k[2]) : k \in B}
  OBVIOUS
<1>5. Aborts(to) = {Message(k[1], k[2]) : k \in A \union B}
  BY <1>3, <1>4 DEF Aborts
<1>6. QED
  BY <1>2, <1>5

\* The call gives up, and the server goes back to where it was, or fails to.
LEMMA RollBackStep ==
    ASSUME IInv, RollBack \/ RollBackFails
    PROVE  IInv'
<1>1. /\ UNCHANGED <<session, plan, acks, cl>>
      /\ pc \notin {"idle", "confirm"} /\ pc' = "idle" /\ acked' = {}
      /\ sent' = sent \union Aborts(air')
  BY DEF RollBack, RollBackFails, Reversible
<1>2. \/ /\ air' = Bench /\ config' = Bench /\ result' = "rolled_back"
         /\ radioErr' = radioErr /\ faults' = faults
      \/ /\ air' \in {air, Bench} /\ config' = config /\ result' = "radio_error"
         /\ radioErr' = TRUE /\ faults < MaxFaults /\ faults' = faults + 1
  BY DEF RollBack, RollBackFails
<1>3. session # None
  BY <1>1 DEF IInv, Counted
<1>4. /\ air' \in Channels /\ config' \in Channels /\ radioErr' \in BOOLEAN
      /\ result' \in {"rolled_back", "radio_error"} /\ faults' \in 0..MaxFaults
  <2>1. /\ air \in Channels /\ config \in Channels /\ Bench \in Channels
        /\ faults \in 0..MaxFaults /\ MaxFaults \in Nat /\ radioErr \in BOOLEAN
    BY RadioAssumption DEF IInv, Types, TypeOK
  <2>2. radioErr' \in BOOLEAN
    BY <1>2, <2>1
  <2>3. QED
    BY <1>2, <2>1, <2>2
<1>5. TypeOK'
  BY <1>1, <1>4 DEF IInv, Types, TypeOK
<1>6. PICK K \in SUBSET (SentKinds \X Channels) :
          /\ sent' = sent \union {Message(k[1], k[2]) : k \in K}
          /\ \A k \in K : k[1] # "CONFIRMED"
  BY <1>1, <1>4, AbortsAre
<1>7. Counted'
  BY <1>1, <1>3, <1>4 DEF Counted, SuccessIsAll
<1>8. Known'
  BY <1>1, <1>2 DEF Known
<1>9. QED
  BY <1>1, <1>3, <1>5, <1>6, <1>7, <1>8, NotYetConfirmed, AirStep

\* Nothing changes.
LEMMA StutterStep ==
    ASSUME IInv, UNCHANGED vars
    PROVE  IInv'
  BY DEF vars, server, IInv, Types, TypeOK, Decided, Counted, Known, SuccessIsAll,
         Expected, Acks, ConfirmedSessions, ClientOK

\* Every step of the server and of the clients keeps the invariant.
LEMMA IInvStep ==
    ASSUME IInv, [Next]_vars
    PROVE  IInv'
<1>1. ASSUME NEW n \in Node, Client(n)
      PROVE  IInv'
  BY <1>1, ClientStep
<1>2. CASE Server
  BY <1>2, OpenSwitchStep, HandleAckStep, StartCommitStep, ApplyStep, ApplyFailsStep,
     StartFinalStep, StartConfirmStep, EndCommittedStep, RollBackStep DEF Server
<1>3. CASE UNCHANGED vars
  BY <1>3, StutterStep
<1>4. QED
  BY <1>1, <1>2, <1>3 DEF Next

\* The invariant holds in every reachable state.
LEMMA Inductive == Spec => []IInv
<1>1. Init => IInv
  BY IInvInit
<1>2. IInv /\ [Next]_vars => IInv'
  BY IInvStep
<1>3. QED
  BY <1>1, <1>2, PTL DEF Spec

-----------------------------------------------------------------------------
(* The theorems *)

\* Every variable keeps its type (the state of RadioControlServer and of every
\* RadioControlClient).
THEOREM SwitchTypes == Spec => []TypeOK
<1>1. IInv => TypeOK
  BY DEF IInv, Types
<1>2. QED
  BY <1>1, Inductive, PTL

\* A client keeps the new channel only after every target has agreed to it; a call
\* that reports success has moved every target, and one that reports a rollback has
\* left no client there for good (reconfigure_radio, _handle_radio_switch_confirmed).
THEOREM AllOrNone == Spec => []Agreement
<1>1. IInv => KeptByAll
  BY DEF IInv, ClientOK, Decided, KeptByAll
<1>2. IInv => SuccessIsAll
  BY DEF IInv, Counted
<1>3. IInv => RollbackIsAll
  BY DEF IInv, ClientOK, Decided, Counted, RollbackIsAll
<1>4. QED
  BY <1>1, <1>2, <1>3, Inductive, PTL DEF Agreement

\* From the commit to the end of its switch a client is covered by its lease, and it is
\* on the new channel while it reports the switch as applied (_handle_radio_commit,
\* _handle_radio_abort, _rollback_switch, hunt_once).
THEOREM LeaseIsHeld == Spec => []SwitchGuarded
<1>1. IInv => SwitchGuarded
  BY DEF IInv, ClientOK, SwitchGuarded, LeaseCovers, AppliedIsThere
<1>2. QED
  BY <1>1, Inductive, PTL

\* Between two switches the configuration the server works with is the one its adapter
\* has, unless it says that it does not know (reconfigure_radio, update_radio_config).
THEOREM ServerKnowsChannel == Spec => []ConfigIsReal
<1>1. IInv => ConfigIsReal
  BY DEF IInv, Known, ConfigIsReal
<1>2. QED
  BY <1>1, Inductive, PTL
=============================================================================
