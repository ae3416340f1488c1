----------------------------- MODULE Coordinator -----------------------------
(***************************************************************************)
(* The job loop of the federated-learning server: FLCoordinator            *)
(* (wfb_ng/fl/coordinator.py).  Its own thread publishes the model, waits  *)
(* for updates and aggregates them, round after round; another thread may  *)
(* abort the job.  The thread takes the coordinator's lock for single      *)
(* assignments, with one exception; abort() holds it from its first look   *)
(* to the summary, and each thing it does there is a step, since the       *)
(* thread's tests of the stop event, its calls of the Runtime and that one *)
(* assignment go on meanwhile.                                             *)
(*                                                                         *)
(* The Runtime is what its calls return, at the moment of their last look  *)
(* at the abort: publish_model and wait_for_updates raise once the job is  *)
(* aborted there, and may fail by themselves.  A wait that succeeds has    *)
(* the nodes the mode asks for.  In "async" mode every update it returns   *)
(* is of the current round, so that none is ever too stale.  Left out: a   *)
(* summary that cannot be written, and the events.                         *)
(***************************************************************************)
EXTENDS Naturals

CONSTANT RoundsTotal  \* job.rounds

ASSUME RoundsAssumption == RoundsTotal \in Nat \ {0}

Modes == {"sync", "async"}  \* semi_async takes the path of sync

States == {"IDLE", "RUNNING", "PUBLISHING", "WAITING_UPDATES", "AGGREGATING",
           "SUCCEEDED", "FAILED", "ABORTED"}
Final == {"SUCCEEDED", "FAILED", "ABORTED"}

VARIABLES
    mode,      \* job.mode
    state,     \* self.state
    stop,      \* _stop_event
    told,      \* the Runtime has been told of the abort
    aborting,  \* how far a thread is in abort(), which holds the lock all through;
               \* "out": the lock is free
    summary,   \* status of the summary file, or "none"
    rounds,    \* rounds recorded in rounds_summary
    missing,   \* history: the initial model was not there
    pc         \* where the coordinator's thread is

abortVars == <<stop, told, aborting>>
vars == <<mode, state, abortVars, summary, rounds, missing, pc>>

-----------------------------------------------------------------------------
Init ==
    /\ mode \in Modes
    /\ state = "IDLE"
    /\ stop = FALSE /\ told = FALSE /\ aborting = "out"
    /\ summary = "none" /\ rounds = 0 /\ missing = FALSE
    /\ pc = "start"

(* ---- abort ------------------------------------------------------------- *)

\* Mutation of AbortEnters: also after the job has ended.
AbortEntersAnyTime ==
    /\ aborting = "out" /\ ~stop
    /\ aborting' = "entered"
    /\ UNCHANGED <<mode, state, stop, told, summary, rounds, missing, pc>>

\* abort takes the lock and keeps it; a job that has ended is left alone.
AbortEnters ==
    /\ aborting = "out"
    /\ state \notin Final
    /\ aborting' = "entered"
    /\ UNCHANGED <<mode, state, stop, told, summary, rounds, missing, pc>>

\* Mutation of AbortSignals: the event is not set.
AbortSignalsNot ==
    /\ aborting = "entered"
    /\ aborting' = "signalled"
    /\ UNCHANGED <<mode, state, stop, told, summary, rounds, missing, pc>>

\* self._stop_event.set()
AbortSignals ==
    /\ aborting = "entered"
    /\ stop' = TRUE /\ aborting' = "signalled"
    /\ UNCHANGED <<mode, state, told, summary, rounds, missing, pc>>

\* self.state = ABORTED
AbortMarks ==
    /\ aborting = "signalled"
    /\ state' = "ABORTED" /\ aborting' = "marked"
    /\ UNCHANGED <<mode, stop, told, summary, rounds, missing, pc>>

\* runtime.abort: the Runtime's calls raise from now on.
AbortTells ==
    /\ aborting = "marked"
    /\ told' = TRUE /\ aborting' = "told"
    /\ UNCHANGED <<mode, state, stop, summary, rounds, missing, pc>>

\* _finalize_summary; the lock is released.
AbortLeaves ==
    /\ aborting = "told"
    /\ summary' = "aborted" /\ aborting' = "out"
    /\ UNCHANGED <<mode, state, stop, told, rounds, missing, pc>>

\* What abort does once it has the lock
AbortGoesOn == AbortSignals \/ AbortMarks \/ AbortTells \/ AbortLeaves

(* ---- the coordinator's thread ------------------------------------------ *)

Locked == aborting # "out"

\* run: a job aborted before it starts does nothing.
Start ==
    /\ pc = "start" /\ ~Locked
    /\ IF state = "ABORTED"
       THEN pc' = "returned" /\ UNCHANGED state
       ELSE pc' = "check" /\ state' = "RUNNING"
    /\ UNCHANGED <<mode, abortVars, summary, rounds, missing>>

\* The initial model is looked for.  Without it the job has failed.  This is the
\* one assignment without the lock: it may fall anywhere in an abort.
FindModel ==
    /\ pc = "check"
    /\ \/ pc' = "top" /\ UNCHANGED <<state, missing>>
       \/ pc' = "saveFailure" /\ state' = "FAILED" /\ missing' = TRUE
    /\ UNCHANGED <<mode, abortVars, summary, rounds>>

\* Top of the loop over the rounds
NextRound ==
    /\ pc = "top"
    /\ pc' = IF rounds = RoundsTotal \/ stop THEN "succeed" ELSE "toPublish"
    /\ UNCHANGED <<mode, state, abortVars, summary, rounds, missing>>

\* with self._lock: self.state = s.  What the state was is not looked at.
SetState(at, s, then) ==
    /\ pc = at /\ ~Locked
    /\ state' = s
    /\ pc' = then
    /\ UNCHANGED <<mode, abortVars, summary, rounds, missing>>

\* runtime.publish_model
Published ==
    /\ pc = "publish" /\ ~told
    /\ pc' = "published"
    /\ UNCHANGED <<mode, state, abortVars, summary, rounds, missing>>

\* runtime.wait_for_updates
UpdatesArrive ==
    /\ pc = "wait" /\ ~told
    /\ pc' = IF mode = "sync" THEN "collected" ELSE "toAggregate"
    /\ UNCHANGED <<mode, state, abortVars, summary, rounds, missing>>

\* Mutation of Raise: the Runtime is not told of the abort.
RaiseUntold ==
    /\ pc \in {"publish", "wait", "aggregate"} /\ ~told
    /\ pc' = "caught"
    /\ UNCHANGED <<mode, state, abortVars, summary, rounds, missing>>

\* publish_model, wait_for_updates or the aggregation raises.
Raise ==
    /\ pc \in {"publish", "wait", "aggregate"}
    /\ pc' = "caught"
    /\ UNCHANGED <<mode, state, abortVars, summary, rounds, missing>>

\* if self._stop_event.is_set(): return
CheckStop(at, then) ==
    /\ pc = at
    /\ pc' = IF stop THEN "succeed" ELSE then
    /\ UNCHANGED <<mode, state, abortVars, summary, rounds, missing>>

\* _run_async: the loop around wait_for_updates is not entered after an abort,
\* and the step is recorded without an update.
SkipWait ==
    /\ pc = "wait" /\ mode = "async" /\ stop
    /\ rounds' = rounds + 1
    /\ pc' = "top"
    /\ UNCHANGED <<mode, state, abortVars, summary, missing>>

\* The updates are aggregated and the round is recorded.
Aggregate ==
    /\ pc = "aggregate"
    /\ rounds' = rounds + 1
    /\ pc' = "top"
    /\ UNCHANGED <<mode, state, abortVars, summary, missing>>

\* run, after the loop, or in the handler of an exception: the outcome is decided
\* under the lock ...
Decide(at, s, then) ==
    /\ pc = at /\ ~Locked
    /\ IF state = "ABORTED"
       THEN pc' = "returned" /\ UNCHANGED state
       ELSE pc' = then /\ state' = s
    /\ UNCHANGED <<mode, abortVars, summary, rounds, missing>>

\* ... and written to the summary under the lock again.
SaveSummary(at, status, then) ==
    /\ pc = at /\ ~Locked
    /\ summary' = status
    /\ pc' = then
    /\ UNCHANGED <<mode, state, abortVars, rounds, missing>>

\* _run_wrapper: on_failed when run has raised, on_completed when it has returned
\* and the state says so, and no report otherwise.
Report ==
    /\ \/ pc = "raised" /\ pc' = "failed"
       \/ /\ pc = "returned" /\ ~Locked
          /\ pc' = IF state = "SUCCEEDED" THEN "completed" ELSE "over"
    /\ UNCHANGED <<mode, state, abortVars, summary, rounds, missing>>

Run ==
    \/ Start \/ FindModel \/ NextRound
    \/ SetState("toPublish", "PUBLISHING", "publish")
    \/ Published
    \/ CheckStop("published", "toWait")
    \/ SetState("toWait", "WAITING_UPDATES", "wait")
    \/ UpdatesArrive \/ SkipWait
    \/ CheckStop("collected", "toAggregate")
    \/ SetState("toAggregate", "AGGREGATING", "aggregate")
    \/ Aggregate \/ Raise
    \/ Decide("succeed", "SUCCEEDED", "saveSuccess")
    \/ Decide("caught", "FAILED", "saveFailure")
    \/ SaveSummary("saveSuccess", "succeeded", "returned")
    \/ SaveSummary("saveFailure", "failed", "raised")
    \/ Report

\* The job has ended: what has been reported
Outcomes == {"completed", "failed", "over"}

Done == pc \in Outcomes /\ UNCHANGED vars

Next == Run \/ AbortEnters \/ AbortGoesOn \/ Done

\* Both threads run on; the Runtime may keep the coordinator's until it is told of
\* an abort.
Spec == Init /\ [][Next]_vars /\ WF_vars(told /\ Run) /\ WF_vars(AbortGoesOn)

-----------------------------------------------------------------------------
TypeOK ==
    /\ mode \in Modes
    /\ state \in States
    /\ stop \in BOOLEAN /\ told \in BOOLEAN
    /\ aborting \in {"out", "entered", "signalled", "marked", "told"}
    /\ summary \in {"none", "aborted", "failed", "succeeded"}
    /\ rounds \in 0..RoundsTotal
    /\ missing \in BOOLEAN
    /\ pc \in {"start", "check", "top", "toPublish", "publish", "published", "toWait",
               "wait", "collected", "toAggregate", "aggregate", "succeed", "caught",
               "saveSuccess", "saveFailure", "returned", "raised"} \cup Outcomes

\* The state and the status in the summary that belong to an outcome
StateOf == [completed |-> "SUCCEEDED", failed |-> "FAILED", over |-> "ABORTED"]
StatusOf == [completed |-> "succeeded", failed |-> "failed", over |-> "aborted"]

\* SummaryAgrees: whatever the interleaving of abort() with the run, the summary on
\* the disk ends with the status of the outcome that is reported, and the coordinator
\* shows the same; except that abort() may write ABORTED over the unlocked FAILED of
\* a job without a model (run, abort, _finalize_summary, _run_wrapper).
SummaryAgrees ==
    pc \in Outcomes =>
        /\ summary = StatusOf[pc]
        /\ state = StateOf[pc] \/ (missing /\ pc = "failed" /\ state = "ABORTED")

\* AbortIsRecorded: a job that has accepted an abort ends ABORTED, in its state and
\* in its summary, as the test of abort() has it (abort, run).  It is false (README,
\* section 4).
AbortIsRecorded == pc \in Outcomes /\ stop => state = "ABORTED" /\ summary = "aborted"

\* What the daemon sees of the thread: the outcome it will report, once decided
Thread ==
    IF pc \in {"saveFailure", "raised", "failed"} THEN "failed"
    ELSE IF pc \in {"saveSuccess", "completed"} \/ (pc = "returned" /\ state = "SUCCEEDED")
         THEN "completed"
    ELSE IF pc \in {"returned", "over"} THEN "over"
    ELSE IF stop THEN "aborting" ELSE "running"

Job == INSTANCE JobThread WITH thread <- Thread

\* KeepsToJobThread: with all its phases, and an abort between any two of them, the
\* coordinator is the thread that the daemon takes it for: it decides for one outcome,
\* or for none if it was told to abort, and a late abort() does not take the decision
\* back (start, run, _run_wrapper, abort).
KeepsToJobThread == Job!Spec

\* AbortEnds: an aborted job's thread comes to its end (run).
AbortEnds == stop ~> pc \in Outcomes

=============================================================================
