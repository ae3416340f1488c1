---------------------------- MODULE JobLifecycle ----------------------------
(***************************************************************************)
(* The server daemon together with one client daemon                       *)
(* (wfb_ng/fl/client_daemon.py) and the broadcasts between them.           *)
(*                                                                         *)
(* The client has three threads that matter: the one that receives         *)
(* broadcasts, with the daemon's lock for a whole handler; the run loop,   *)
(* which takes the lock for single calls only; and the heartbeat, which    *)
(* hunts for a server it has lost.  On TASK_ANNOUNCE the idle link gives   *)
(* way to the process of the task, and the handler, still with the lock,   *)
(* repeats TASK_READY until an acknowledgement comes or 8 seconds are      *)
(* over.  Broadcasts come in order, if they come.                          *)
(*                                                                         *)
(* Left out: a TUN device that cannot be released, a radio switch at the   *)
(* client (RadioSwitch), messages that are malformed, stop.                *)
(***************************************************************************)
EXTENDS ServerDaemon

VARIABLES
    iface,     \* current_interface is there
    proc,      \* the job of the sandbox's process, running or not yet reaped
    alive,     \* that process runs
    cur,       \* _current_job_id
    mode,      \* state of the control plane, "off" without one
    idle,      \* the idle link runs
    waiting,   \* the job whose handler waits for the acknowledgement, with the lock
    loop,      \* where the run loop is
    begun      \* history: jobs whose process has been started

clientVars == <<iface, proc, alive, cur, mode, idle, waiting, loop, begun>>
vars == <<serverVars, wire, clientVars>>

Init ==
    /\ ServerInit
    /\ iface = TRUE /\ proc = None /\ alive = FALSE /\ cur = None
    /\ mode = "IDLE" /\ idle = TRUE
    /\ waiting = None /\ loop = "ensure" /\ begun = {}

Free == waiting = None       \* the client's lock is free

(* ---- broadcasts ---- *)

Lose ==
    /\ wire # <<>>
    /\ wire' = Tail(wire)
    /\ UNCHANGED <<serverVars, clientVars>>

\* DaemonState.IDLE
Accepting == proc = None /\ mode \in {"IDLE", "PREPARING", "RUNNING"}

\* JobSandbox.start: the process runs and has said that it is ready.
StartTask(j) ==
    /\ proc' = j /\ alive' = TRUE
    /\ begun' = begun \union {j}

\* _stop_idle_link
StopIdle == idle' = FALSE

\* trigger_job up to notify_task_ready, which keeps the lock
TriggerJob(j) ==
    \/ StopIdle /\ StartTask(j) /\ cur' = j /\ waiting' = j
    \/ /\ idle' \in BOOLEAN           \* the process fails, and the idle link is back or not
       /\ cur' = None
       /\ UNCHANGED <<proc, alive, waiting, begun>>

\* _handle_task_announce
Announce ==
    /\ Free /\ wire # <<>> /\ Head(wire).type = "TASK_ANNOUNCE" /\ Accepting
    /\ wire' = Tail(wire)
    /\ mode' = "PREPARING"
    /\ TriggerJob(Head(wire).job)
    /\ UNCHANGED <<serverVars, iface, loop>>

\* Mutation of Expected: whose report it is is not looked at.
ExpectedAny(j) == starting # None

\* handle_datagram: a TASK_READY that is waited for
Expected(j) == starting = j

\* The server hears TASK_READY, and acknowledges it whether it is expected or not;
\* the acknowledgement may be lost.
HearReady ==
    /\ waiting # None /\ stop \in {"no", "begun"}
    /\ ready' = (ready \/ Expected(waiting))
    /\ \/ waiting' = None /\ mode' = "RUNNING"
       \/ UNCHANGED <<waiting, mode>>
    /\ UNCHANGED <<engineVars, starting, thread, roles, link, fin, op, stop, stopJob, wire,
                   disturbances, iface, proc, alive, cur, idle, loop, begun>>

\* A process that has exited is finalized by whoever looks.
Reap ==
    IF proc # None /\ ~alive THEN proc' = None ELSE UNCHANGED proc

\* _ensure_idle_transport, under the lock, after Reap.  The link may fail to start.
EnsureIdle ==
    IF iface /\ ~alive THEN idle' \in {TRUE, idle} ELSE UNCHANGED idle

\* notify_task_ready raises after 8 seconds.
ReadyTimesOut ==
    /\ waiting # None
    /\ waiting' = None /\ cur' = None
    /\ Reap /\ EnsureIdle
    /\ UNCHANGED <<serverVars, wire, iface, alive, mode, loop, begun>>

\* JobSandbox.abort
EndTask == proc' = None /\ alive' = FALSE

\* Mutation of IsOwn: the job of the message is not looked at.
IsOwnAny(m) == TRUE

\* Compared with _current_job_id
IsOwn(m) == m.job = cur

\* _handle_job_terminal
Terminal ==
    /\ Free /\ wire # <<>> /\ Head(wire).type # "TASK_ANNOUNCE"
    /\ mode # "off" /\ IsOwn(Head(wire))
    /\ wire' = Tail(wire)
    /\ EndTask
    /\ \/ idle' = iface /\ cur' = None /\ mode' = "IDLE"
       \/ ~idle /\ UNCHANGED <<idle, cur, mode>>        \* the idle link does not start
    /\ UNCHANGED <<serverVars, iface, waiting, loop, begun>>

\* Everything else is ignored.
Ignore ==
    /\ Free /\ wire # <<>>
    /\ mode = "off" \/ ~(IF Head(wire).type = "TASK_ANNOUNCE" THEN Accepting ELSE IsOwn(Head(wire)))
    /\ wire' = Tail(wire)
    /\ UNCHANGED <<serverVars, clientVars>>

(* ---- the task and the heartbeat ---- *)

TaskExits ==
    /\ alive /\ alive' = FALSE
    /\ UNCHANGED <<serverVars, wire, iface, proc, cur, mode, idle, waiting, loop, begun>>

\* hunt_once and send_heartbeat_once
Hunt ==
    /\ Free
    /\ \/ mode = "HUNTING" /\ mode' = "IDLE"
       \/ mode = "IDLE" /\ mode' = "HUNTING"
    /\ UNCHANGED <<serverVars, wire, iface, proc, alive, cur, idle, waiting, loop, begun>>

IdleLinkDies ==
    /\ idle /\ idle' = FALSE
    /\ UNCHANGED <<serverVars, wire, iface, proc, alive, cur, mode, waiting, loop, begun>>

(* ---- the run loop ---- *)

\* poll_hardware_once finds the adapter, under the lock.
FindAdapter == (iface \/ Free) /\ iface' = TRUE

\* The run loop: is there an adapter, and does the sandbox run?
LoopLook ==
    /\ loop = "ensure"
    /\ FindAdapter /\ Reap
    /\ loop' = IF alive THEN "check" ELSE "startLink"
    /\ UNCHANGED <<serverVars, wire, alive, cur, mode, idle, waiting, begun>>

\* Mutation of LoopStartLink: the sandbox is not looked at again.
LoopStartLinkBlind ==
    /\ Free /\ loop \in {"startLink", "again"}
    /\ idle' = iface
    /\ loop' = IF loop = "again" THEN "ensure" ELSE "check"
    /\ UNCHANGED <<serverVars, wire, iface, proc, alive, cur, mode, waiting, begun>>

\* start_idle_link looks again, now with the lock.  It is called before and after the
\* control plane is seen to; what fails the second time ends the daemon.
LoopStartLink ==
    /\ Free /\ loop \in {"startLink", "again"}
    /\ Reap /\ EnsureIdle
    /\ IF loop = "again" THEN (idle' \/ alive) /\ loop' = "ensure"
       ELSE loop' = IF idle' \/ alive THEN "check" ELSE "ensure"
    /\ UNCHANGED <<serverVars, wire, iface, alive, cur, mode, waiting, begun>>

LoopStartControl ==
    /\ Free /\ loop = "check" /\ mode = "off"
    /\ mode' = "HUNTING"
    /\ UNCHANGED <<serverVars, wire, iface, proc, alive, cur, idle, waiting, loop, begun>>

\* sandbox.poll, and: is the control plane behind?
LoopCheck ==
    /\ loop = "check" /\ mode # "off"
    /\ Reap
    /\ loop' = CASE alive -> "ensure"
                 [] ~alive /\ mode \in {"RUNNING", "PREPARING"} -> "report"
                 [] OTHER -> "again"
    /\ UNCHANGED <<serverVars, wire, iface, alive, cur, mode, idle, waiting, begun>>

\* notify_state_change(IDLE), which has to wait for the lock
LoopReport ==
    /\ Free /\ loop = "report"
    /\ mode' = "IDLE"
    /\ loop' = "again"
    /\ UNCHANGED <<serverVars, wire, iface, proc, alive, cur, idle, waiting, begun>>

\* _on_interface_lost: the sandbox is aborted without the lock ...
LoopUnplugged ==
    /\ loop = "ensure" /\ iface
    /\ Disturb
    /\ EndTask
    /\ loop' = "lost"
    /\ UNCHANGED <<daemonVars, wire, iface, cur, mode, idle, waiting, begun>>

\* ... and the rest has to wait for it.
LoopLost ==
    /\ Free /\ loop = "lost"
    /\ mode' = "off" /\ StopIdle /\ iface' = FALSE
    /\ loop' = "ensure"
    /\ UNCHANGED <<serverVars, wire, proc, alive, cur, waiting, begun>>

RunLoop ==
    \/ LoopLook \/ LoopStartLink \/ LoopStartControl \/ LoopCheck \/ LoopReport
    \/ LoopUnplugged \/ LoopLost

ClientStep ==
    \/ Lose \/ Announce \/ HearReady \/ ReadyTimesOut \/ Terminal \/ Ignore
    \/ TaskExits \/ Hunt \/ IdleLinkDies \/ RunLoop

Next == (ServerStep /\ UNCHANGED clientVars) \/ ClientStep

Spec == Init /\ [][Next]_vars

(* ---- properties ---- *)

\* The task and the idle link use the same adapter and the same TUN device: they never
\* run together, although the run loop decides to start the link without the lock
\* under which TASK_ANNOUNCE starts the task (client_daemon.py:1375, :968).
OneLink == ~(idle /\ alive)

\* Rounds begin only when the task of this very job has been started: a TASK_READY
\* that belongs to an earlier job does not count (control.py:792).
RunsWithTask ==
    [][\A j \in Jobs : thread[j] = "none" /\ thread'[j] = "running" => j \in begun]_vars

\* A broadcast that comes late does not end the task of another job
\* (client_daemon.py:1166).
OwnTerminal ==
    [][alive /\ ~alive' /\ wire' # wire => Head(wire).job = proc]_vars

=============================================================================
