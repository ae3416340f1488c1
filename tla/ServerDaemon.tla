---------------------------- MODULE ServerDaemon ----------------------------
(***************************************************************************)
(* The server daemon (wfb_ng/fl/server_daemon.py): which of a job, a radio *)
(* switch and a spectrum survey has the engine, and how a job ends.        *)
(* Requests come from HTTP threads, the end of a job from the thread of    *)
(* its coordinator or from an abort, and stop from the main thread.  They  *)
(* share one lock; a critical section is one action.  start_job keeps the  *)
(* lock while it waits for TASK_READY; _finalize_job and stop let go of it *)
(* for everything slow.                                                    *)
(*                                                                         *)
(* Jobs are started in the order of their numbers.  A coordinator is the   *)
(* thread that JobThread describes and Coordinator implements: running,    *)
(* told to abort, about to report an outcome, or over.  Left out:          *)
(* preflight checks and a role that does not start (nothing changes),      *)
(* progress and web events.                                                *)
(***************************************************************************)
EXTENDS Naturals, FiniteSets, Sequences

CONSTANTS
    MaxJobs,        \* bound: calls of start_job that pass their checks
    MaxDisturbances \* bound: radio switches, surveys, stops and lost adapters

ASSUME BoundsAssumption == MaxJobs \in Nat /\ MaxDisturbances \in Nat

Jobs == 1..MaxJobs
None == 0

VARIABLES
    engine,     \* server_state
    active,     \* active_job
    recent,     \* _recent_job: job, execution_result and recovery_state
    starting,   \* the job whose start_job waits for TASK_READY, with the lock
    ready,      \* _task_ready_event
    thread,     \* the coordinator thread of every job
    roles,      \* jobs whose ServerRole is open
    link,       \* _link_process: "none", "up", or "dead": held, but it has ended
    fin,        \* _finalize_job of every job: where it is, and its outcome
    op,         \* the radio switch or survey under way
    stop,       \* where stop is
    stopJob,    \* the job stop found active
    wire,       \* broadcasts on their way to the client
    disturbances

engineVars == <<engine, active, recent>>
jobVars == <<starting, ready, thread, roles>>
daemonVars == <<engineVars, jobVars, link, fin, op, stop, stopJob>>
serverVars == <<daemonVars, disturbances>>

NoRecent == [job |-> None, result |-> "none", recovery |-> "none"]

Result == [completed |-> "succeeded", failed |-> "failed", aborted |-> "aborted"]

ServerInit ==
    /\ engine = "IDLE" /\ active = None /\ recent = NoRecent
    /\ starting = None /\ ready = FALSE
    /\ thread = [j \in Jobs |-> "none"]
    /\ roles = {} /\ link = "up"
    /\ fin = [j \in Jobs |-> [pc |-> "none", outcome |-> "none", err |-> FALSE]]
    /\ op = "none" /\ stop = "no" /\ stopJob = None
    /\ wire = <<>> /\ disturbances = 0

Unlocked == starting = None
Stopping == stop # "no"             \* _stop_event

Disturb == disturbances < MaxDisturbances /\ disturbances' = disturbances + 1

(* ---- start_job ---- *)

\* All of start_job up to the wait for TASK_READY
StartJob(j) ==
    /\ Unlocked
    /\ engine = "IDLE" /\ active = None
    /\ j = Cardinality({i \in Jobs : thread[i] # "none" \/ fin[i].pc # "none"}) + 1
    /\ engine' = "RUNNING" /\ active' = j /\ recent' = NoRecent
    /\ roles' = roles \union {j}
    /\ starting' = j /\ ready' = FALSE
    /\ wire' = Append(wire, [type |-> "TASK_ANNOUNCE", job |-> j])
    /\ UNCHANGED <<thread, link, fin, op, stop, stopJob, disturbances>>

\* All targets have reported: the coordinator starts.
StartCoordinator ==
    /\ starting # None /\ ready
    /\ thread' = [thread EXCEPT ![starting] = "running"]
    /\ starting' = None /\ ready' = FALSE
    /\ UNCHANGED <<engineVars, roles, link, fin, op, stop, stopJob, wire, disturbances>>

\* client_startup_timeout: the whole of _finalize_job under the lock
StartTimesOut ==
    /\ starting # None
    /\ \E r \in {"ready", "blocked"} :
           recent' = [job |-> starting, result |-> "aborted", recovery |-> r]
    /\ \/ engine' = "IDLE" /\ link' = "up"
          /\ wire' = Append(wire, [type |-> "JOB_ABORT", job |-> starting])
       \/ engine' = "STOPPED" /\ link' \in {"none", "up"}  \* the link, or the broadcast, fails
          /\ recent'.recovery = "blocked" /\ UNCHANGED wire
    /\ active' = None
    /\ \/ roles' = roles \ {starting}
       \/ recent'.recovery = "blocked" /\ UNCHANGED roles   \* the role does not close
    /\ starting' = None /\ ready' = FALSE
    /\ fin' = [fin EXCEPT ![starting] = [pc |-> "done", outcome |-> "aborted", err |-> FALSE]]
    /\ UNCHANGED <<thread, op, stop, stopJob, disturbances>>

(* ---- the coordinator's thread ---- *)

\* The computation ends with an outcome to report.
CoordinatorEnds(j, outcome) ==
    /\ thread[j] \in {"running", "aborting"}
    /\ thread' = [thread EXCEPT ![j] = outcome]
    /\ UNCHANGED <<engineVars, starting, ready, roles, link, fin, op, stop, stopJob, wire, disturbances>>

\* An aborted one usually has nothing to report.
CoordinatorGivesUp(j) ==
    /\ thread[j] = "aborting"
    /\ thread' = [thread EXCEPT ![j] = "over"]
    /\ UNCHANGED <<engineVars, starting, ready, roles, link, fin, op, stop, stopJob, wire, disturbances>>

\* FLCoordinator.abort
Aborted(j) == IF thread[j] = "running" THEN [thread EXCEPT ![j] = "aborting"] ELSE thread

(* ---- _finalize_job ---- *)

\* Mutation of IsActive: any report counts while some job is active.
IsActiveAny(j) == engine # "STOPPED" /\ active # None

\* A report that is late finds its job inactive, and is ignored.
IsActive(j) == engine # "STOPPED" /\ active = j

Goto(j, pc) == fin' = [fin EXCEPT ![j].pc = pc]

Done(j) == fin' = [fin EXCEPT ![j] = [@ EXCEPT !.pc = "done", !.err = FALSE]]

\* The first critical section
Accept(j, outcome) ==
    /\ recent' = [job |-> active, result |-> Result[outcome], recovery |-> "recovering"]
    /\ engine' = IF outcome = "aborted" THEN "ABORTING" ELSE engine
    /\ fin' = [fin EXCEPT ![j] = [pc |-> IF outcome = "aborted" THEN "abort" ELSE "close",
                                  outcome |-> outcome, err |-> FALSE]]
    /\ active' = None

\* _on_job_completed, _on_job_failed
Report(j) ==
    /\ Unlocked
    /\ thread[j] \in {"completed", "failed"}
    /\ IF IsActive(j) THEN Accept(j, thread[j]) ELSE UNCHANGED <<engineVars, fin>>
    /\ thread' = [thread EXCEPT ![j] = "over"]
    /\ UNCHANGED <<starting, ready, roles, link, op, stop, stopJob, wire, disturbances>>

\* abort_job, _abort_console_job
AbortJob(j) ==
    /\ Unlocked /\ IsActive(j)
    /\ Accept(j, "aborted")
    /\ UNCHANGED <<jobVars, link, op, stop, stopJob, wire, disturbances>>

\* coord.abort and coord.wait(3.0), which comes back with or without the thread at its
\* end
AbortCoordinator(j) ==
    /\ fin[j].pc = "abort"
    /\ thread' = Aborted(j)
    /\ Goto(j, "close")
    /\ UNCHANGED <<engineVars, starting, ready, roles, link, op, stop, stopJob, wire, disturbances>>

CloseRole(j) ==
    /\ fin[j].pc = "close"
    /\ \/ roles' = roles \ {j} /\ Goto(j, "check")
       \/ fin' = [fin EXCEPT ![j].pc = "check", ![j].err = TRUE] /\ UNCHANGED roles
    /\ UNCHANGED <<engineVars, starting, ready, thread, link, op, stop, stopJob, wire, disturbances>>

\* should_reset
CheckStop(j) ==
    /\ Unlocked /\ fin[j].pc = "check"
    /\ Goto(j, IF Stopping \/ engine = "STOPPED" THEN "tell" ELSE "stopLink")
    /\ UNCHANGED <<engineVars, jobVars, link, op, stop, stopJob, wire, disturbances>>

StopLink(j) ==
    /\ fin[j].pc = "stopLink"
    /\ link' = "none"
    /\ Goto(j, "startLink")
    /\ UNCHANGED <<engineVars, jobVars, op, stop, stopJob, wire, disturbances>>

StartLink(j) ==
    /\ fin[j].pc = "startLink"
    /\ link' = "up"
    /\ Goto(j, "tell")
    /\ UNCHANGED <<engineVars, jobVars, op, stop, stopJob, wire, disturbances>>

Blocked(j) == recent' = [recent EXCEPT !.recovery = "blocked"]

\* The link does not come up: fail closed, and tell nobody.
StartLinkFails(j) ==
    /\ Unlocked /\ fin[j].pc = "startLink"
    /\ engine' = "STOPPED" /\ Blocked(j)
    /\ link' = "none"
    /\ Done(j)
    /\ UNCHANGED <<active, jobVars, op, stop, stopJob, wire, disturbances>>

\* The broadcast of the terminal message
Tell(j) ==
    /\ fin[j].pc = "tell" /\ stop \in {"no", "begun"}
    /\ wire' = Append(wire, [type |-> IF fin[j].outcome = "completed"
                                      THEN "JOB_COMPLETED" ELSE "JOB_ABORT", job |-> j])
    /\ Goto(j, "last")
    /\ UNCHANGED <<engineVars, jobVars, link, op, stop, stopJob, disturbances>>

\* It raises, which it does once stop has closed the socket.
TellFails(j) ==
    /\ Unlocked /\ fin[j].pc = "tell"
    /\ engine' = "STOPPED" /\ Blocked(j)
    /\ Done(j)
    /\ UNCHANGED <<active, jobVars, link, op, stop, stopJob, wire, disturbances>>

\* Mutation of Recovered: stop is not looked at.
RecoveredBlind(j) ==
    /\ Unlocked /\ fin[j].pc = "last"
    /\ engine' = "IDLE"
    /\ recent' = [recent EXCEPT !.recovery = IF fin[j].err THEN "blocked" ELSE "ready"]
    /\ Done(j)
    /\ UNCHANGED <<active, jobVars, link, op, stop, stopJob, wire, disturbances>>

\* The last critical section
Recovered(j) ==
    /\ Unlocked /\ fin[j].pc = "last"
    /\ engine' = IF Stopping THEN engine ELSE "IDLE"
    /\ recent' = [recent EXCEPT !.recovery =
                      IF fin[j].err \/ Stopping THEN "blocked" ELSE "ready"]
    /\ Done(j)
    /\ UNCHANGED <<active, jobVars, link, op, stop, stopJob, wire, disturbances>>

Finalizing(j) == fin[j].pc \notin {"none", "done"}

Finalize(j) ==
    \/ AbortCoordinator(j) \/ CloseRole(j) \/ CheckStop(j)
    \/ StopLink(j) \/ StartLink(j) \/ StartLinkFails(j)
    \/ Tell(j) \/ TellFails(j) \/ Recovered(j)

(* ---- radio switch and survey ---- *)

\* _reserve_radio_reconfiguration and run_spectrum_survey
Reserve(what) ==
    /\ Unlocked
    /\ engine = "IDLE"
    /\ engine' = IF what = "switch" THEN "SWITCHING_RADIO" ELSE "SURVEYING"
    /\ op' = what
    /\ Disturb
    /\ UNCHANGED <<active, recent, jobVars, link, fin, stop, stopJob, wire>>

\* _apply_radio_runtime, called by the switch, and again to undo it: under the lock
\* the link is restarted, if the new parameters differ from those it was started with.
ApplyRadio ==
    /\ Unlocked /\ op \in {"switch", "applied", "failed"} /\ engine # "STOPPED"
    /\ link' \in {"none", "up", link}
    /\ op' = IF link' = "none" THEN "failed" ELSE "applied"
    /\ UNCHANGED <<engineVars, jobVars, fin, stop, stopJob, wire, disturbances>>

\* _execute_radio_reconfiguration: the switch may end well, and in a radio error,
\* at any point.
SwitchEnds ==
    /\ Unlocked /\ op \in {"switch", "applied", "failed"}
    /\ engine' \in IF engine = "STOPPED" THEN {engine}
                   ELSE {"RADIO_ERROR"} \union (IF op = "failed" THEN {} ELSE {"IDLE"})
    /\ op' = "none"
    /\ UNCHANGED <<active, recent, jobVars, link, fin, stop, stopJob, wire, disturbances>>

SurveyEnds ==
    /\ Unlocked /\ op = "survey"
    /\ engine' = IF engine = "SURVEYING" THEN "IDLE" ELSE engine
    /\ op' = "none"
    /\ UNCHANGED <<active, recent, jobVars, link, fin, stop, stopJob, wire, disturbances>>

(* ---- stop ---- *)

StopBegins ==
    /\ Unlocked /\ ~Stopping
    /\ stop' = "begun" /\ stopJob' = active
    /\ engine' = "STOPPED" /\ active' = None
    /\ recent' = IF active # None
                 THEN [job |-> active, result |-> "aborted", recovery |-> "blocked"]
                 ELSE IF recent.recovery = "recovering"
                      THEN [recent EXCEPT !.recovery = "blocked"] ELSE recent
    /\ Disturb
    /\ UNCHANGED <<jobVars, link, fin, op, wire>>

\* control_plane.stop: the broadcast socket is closed.
StopControlPlane ==
    /\ stop = "begun" /\ stop' = "deaf"
    /\ UNCHANGED <<engineVars, jobVars, link, fin, op, stopJob, wire, disturbances>>

StopRole ==
    /\ stop = "deaf" /\ stop' = "link"
    /\ IF stopJob = None THEN UNCHANGED <<thread, roles>>
       ELSE thread' = Aborted(stopJob) /\ roles' = roles \ {stopJob}
    /\ stopJob' = None
    /\ UNCHANGED <<engineVars, starting, ready, link, fin, op, wire, disturbances>>

StopLast ==
    /\ stop = "link" /\ stop' = "done"
    /\ link' = "none"
    /\ UNCHANGED <<engineVars, jobVars, fin, op, stopJob, wire, disturbances>>

Stop == StopBegins \/ StopControlPlane \/ StopRole \/ StopLast

\* The link process ends of itself.  get_status shows it, and nothing else looks: only
\* the end of a job or a switch starts it anew.
LinkDies ==
    /\ link = "up" /\ link' = "dead"
    /\ UNCHANGED <<engineVars, jobVars, fin, op, stop, stopJob, wire, disturbances>>

ServerStep ==
    \/ \E j \in Jobs :
        \/ StartJob(j) \/ Report(j) \/ AbortJob(j) \/ Finalize(j)
        \/ CoordinatorGivesUp(j)
        \/ \E outcome \in {"completed", "failed"} : CoordinatorEnds(j, outcome)
    \/ StartCoordinator \/ StartTimesOut
    \/ \E what \in {"switch", "survey"} : Reserve(what)
    \/ ApplyRadio \/ SwitchEnds \/ SurveyEnds
    \/ Stop
    \/ LinkDies

(* ---- properties ---- *)

\* A server that takes requests has let go of everything: no job, switch or survey has
\* the engine, no end of a job is still under way, no coordinator computes that has not
\* been told to abort, and the link to the clients has been started again since the
\* daemon last stopped it, although it may have ended of itself since (start_job and
\* _reserve look at server_state and active_job only, server_daemon.py:882, :805, :852).
IdleIsFree ==
    engine = "IDLE" =>
        /\ active = None /\ starting = None /\ op = "none" /\ link # "none"
        /\ \A j \in Jobs : ~Finalizing(j) /\ thread[j] # "running"

\* What is recorded and what the clients are told of a job is how that job ended, and
\* not what the coordinator of another job reports late (server_daemon.py:1111).
OutcomeIsOwn ==
    /\ recent.job # None /\ ~Stopping =>
           /\ fin[recent.job].outcome # "none"
           /\ recent.result = Result[fin[recent.job].outcome]
    /\ \A m \in {wire[i] : i \in DOMAIN wire} :
           m.type # "TASK_ANNOUNCE" =>
               (m.type = "JOB_COMPLETED" <=> fin[m.job].outcome = "completed")

\* A daemon that was stopped, or that failed to reset its link or to tell its clients,
\* never takes a job again, whatever was under way at that moment.
StoppedStays == [][engine = "STOPPED" => engine' = "STOPPED"]_<<serverVars, wire>>

=============================================================================
