---------------------------- MODULE ServerRuntime ----------------------------
(***************************************************************************)
(* A federated-learning round on the server: ServerRuntime                 *)
(* (wfb_ng/fl/runtime.py) with the uploads and the downlink operation of   *)
(* its Transport (wfb_ng/fl/transport.py, ServerTransport).                *)
(*                                                                         *)
(* One application thread calls publish_model and wait_for_updates. The    *)
(* HTTP handler threads commit the clients' updates or report failed ones, *)
(* the monitor thread of the downlink operation waits for the UFTP         *)
(* process, and other threads may abort the job or close the Transport. A  *)
(* step of the model is what one thread does under the condition's lock,   *)
(* or one access to the disk. The process may be killed anywhere and be    *)
(* started again: only the round directories survive. Recovery rewrites    *)
(* the states of a process in one step, before the Runtime exists for      *)
(* anyone else.                                                            *)
(*                                                                         *)
(* Left out: the contents of models and updates and their digests, the     *)
(* diagnostics of a cancelled downlink, and writes to the state file that  *)
(* fail.                                                                   *)
(***************************************************************************)
EXTENDS Naturals, FiniteSets

CONSTANTS
    Participants,  \* participant_node_ids
    MinUpdates,    \* min_updates of wait_for_updates
    MaxRounds      \* rounds in a behaviour (bound of the model)

ASSUME RuntimeAssumption ==
    /\ IsFiniteSet(Participants)
    /\ MinUpdates \in 1..Cardinality(Participants)
    /\ MaxRounds \in Nat \ {0}

Rounds == 1..MaxRounds
NoRound == 0

\* Contents of round-state.json; "none": no directory, "empty": a directory
\* without the file.
DiskStates == {"none", "empty", "publishing_model", "waiting_for_updates",
               "succeeded", "failed"}
Terminal == {"succeeded", "failed"}

VARIABLES
    \* on disk
    disk,            \* per round: DiskStates
    committed,       \* per round: committed_update_node_ids
    updates,         \* per round: nodes whose update.manifest.json is in place
    pointer,         \* current-round.json
    \* ServerRuntime
    roundId,         \* _round_id
    state,           \* _state
    failure,         \* round of _failure, or NoRound
    consumed,        \* _round_result_consumed
    completed,       \* _downlink_completed
    operation,       \* _downlink_operation is set
    aborted,         \* "no"; "set": _fatal_error; "seen": abort() is through
    \* threads in _cancel_downlink
    cancelActive,    \* _downlink_cancel_active
    cancelFinished,  \* _downlink_cancel_finished
    cancellers,      \* set of [who, round, at]
    overtaken,       \* history: a thread of an earlier round has finished a
                     \* cancellation since the current round was opened
    \* the application thread
    pc,              \* where it is
    listed,          \* nodes whose updates it has found in place
    outcome,         \* how its last call ended
    \* Transport
    context,         \* round of the admission context
    uploads,         \* accepted uploads under way: <<round, node>>
    used,            \* _used_uploads
    launched,        \* round of its downlink operation
    downlink,        \* that operation and its UFTP process
    delivered,       \* history: rounds whose model has reached every participant
    closed,          \* it has been closed: not ready any more
    cut              \* history: rounds whose running downlink was ended by that

diskVars == <<disk, committed, updates, pointer>>
roundVars == <<roundId, state, failure, consumed, completed, operation>>
cancelVars == <<cancelActive, cancelFinished, cancellers, overtaken>>
callVars == <<pc, listed, outcome>>
uploadVars == <<context, uploads, used>>
downlinkVars == <<launched, downlink, delivered, closed, cut>>
vars == <<diskVars, roundVars, aborted, cancelVars, callVars, uploadVars,
          downlinkVars>>

-----------------------------------------------------------------------------
Init ==
    /\ disk = [r \in Rounds |-> "none"]
    /\ committed = [r \in Rounds |-> {}]
    /\ updates = [r \in Rounds |-> {}]
    /\ pointer = NoRound
    /\ roundId = NoRound /\ state = "none" /\ failure = NoRound
    /\ consumed = FALSE /\ completed = FALSE /\ operation = FALSE
    /\ aborted = "no"
    /\ cancelActive = FALSE /\ cancelFinished = FALSE /\ cancellers = {}
    /\ overtaken = FALSE
    /\ pc = "idle" /\ listed = {} /\ outcome = "none"
    /\ context = NoRound /\ uploads = {} /\ used = {}
    /\ launched = NoRound /\ downlink = "none" /\ delivered = {}
    /\ closed = FALSE /\ cut = {}

\* _write_state
WriteState(s) ==
    /\ state' = s
    /\ disk' = [disk EXCEPT ![roundId] = s]

\* _fail_round
FailRound ==
    IF failure = NoRound /\ state # "succeeded"
    THEN failure' = roundId /\ WriteState("failed")
    ELSE UNCHANGED <<failure, state, disk>>

\* The call ends with an error that consumes the round's result.
Raise(how) ==
    /\ pc' = "idle" /\ outcome' = how
    /\ consumed' = TRUE

(* ---- publish_model ----------------------------------------------------- *)

\* Mutation of Publish: an active round is not looked for.
PublishUnchecked ==
    /\ pc = "idle" /\ aborted = "no" /\ ~closed
    /\ \E r \in Rounds :
         /\ disk[r] = "none"
         /\ \A q \in Rounds : q < r => disk[q] # "none"
         /\ disk' = [disk EXCEPT ![r] = "empty"]
    /\ pc' = "made"
    /\ UNCHANGED <<committed, updates, pointer, roundVars, aborted, cancelVars,
                   listed, outcome, uploadVars, downlinkVars>>

\* publish_model: the call is refused while a round is active or its result has
\* not been consumed.  Then the directory of the next round is made.
Publish ==
    /\ pc = "idle" /\ aborted = "no" /\ ~closed
    /\ roundId = NoRound \/ (state \in Terminal /\ consumed)
    /\ \E r \in Rounds :
         /\ disk[r] = "none"
         /\ \A q \in Rounds : q < r => disk[q] # "none"
         /\ disk' = [disk EXCEPT ![r] = "empty"]
    /\ pc' = "made"
    /\ UNCHANGED <<committed, updates, pointer, roundVars, aborted, cancelVars,
                   listed, outcome, uploadVars, downlinkVars>>

\* _publish_model, first critical section: the new round is the current one.
OpenRound ==
    /\ pc = "made"
    /\ \E r \in Rounds :
         /\ disk[r] = "empty"
         /\ roundId' = r
         /\ state' = "publishing_model"
         /\ disk' = [disk EXCEPT ![r] = "publishing_model"]
    /\ failure' = NoRound /\ consumed' = FALSE /\ completed' = FALSE
    /\ cancelActive' = FALSE /\ cancelFinished' = FALSE /\ overtaken' = FALSE
    /\ pc' = "opened"
    /\ UNCHANGED <<committed, updates, pointer, operation, aborted, cancellers,
                   listed, outcome, uploadVars, downlinkVars>>

\* write_current_round; the model is archived and its manifest written.
PointAtRound ==
    /\ pc = "opened"
    /\ pointer' = roundId
    /\ pc' = "archived"
    /\ UNCHANGED <<disk, committed, updates, roundVars, aborted, cancelVars,
                   listed, outcome, uploadVars, downlinkVars>>

\* The model cannot be archived, or UFTP not be started.
PublishFails ==
    /\ pc \in {"archived", "installed"}
    /\ FailRound /\ Raise("error")
    /\ UNCHANGED <<committed, updates, pointer, roundId, completed, operation,
                   aborted, cancelVars, listed, uploadVars, downlinkVars>>

\* transport.install_round
InstallRound ==
    /\ pc = "archived"
    /\ context' = roundId
    /\ pc' = "installed"
    /\ UNCHANGED <<diskVars, roundVars, aborted, cancelVars, listed, outcome,
                   uploads, used, downlinkVars>>

\* transport.start_downlink
StartDownlink ==
    /\ pc = "installed"
    /\ downlink \in {"none", "ended", "error"}
    /\ launched' = roundId /\ downlink' = "active"
    /\ pc' = "started"
    /\ UNCHANGED <<diskVars, roundVars, aborted, cancelVars, listed, outcome,
                   uploadVars, delivered, closed, cut>>

\* A thread is about to enter _cancel_downlink for the stored operation.
Cancelling(who) ==
    cancellers' = cancellers \cup {[who |-> who, round |-> roundId, at |-> "wanted"]}

\* Mutation of RecordOperation: a failure since the start is not looked for.
RecordOperationBlind ==
    /\ pc = "started"
    /\ operation' = TRUE
    /\ pc' = "downlink"
    /\ UNCHANGED <<diskVars, roundId, state, failure, consumed, completed,
                   aborted, cancelVars, listed, outcome, uploadVars, downlinkVars>>

\* The handle is stored, for others to cancel.  If the round has failed in the
\* meantime the publisher cancels the operation itself.
RecordOperation ==
    /\ pc = "started"
    /\ operation' = TRUE
    /\ IF failure # NoRound
       THEN Cancelling("publisher")
       ELSE UNCHANGED cancellers
    /\ pc' = "downlink"
    /\ UNCHANGED <<diskVars, roundId, state, failure, consumed, completed,
                   aborted, cancelActive, cancelFinished, overtaken, listed, outcome,
                   uploadVars, downlinkVars>>

\* wait_downlink returns, after the publisher's own cancellation; when it has
\* raised no error, a cancellation under way is waited for.
DownlinkOver ==
    /\ pc = "downlink"
    /\ \A c \in cancellers : c.who # "publisher"
    /\ downlink = "error" \/ (downlink = "ended" /\ ~cancelActive)
    /\ operation' = FALSE
    /\ pc' = "over"
    /\ UNCHANGED <<diskVars, roundId, state, failure, consumed, completed,
                   aborted, cancelVars, listed, outcome, uploadVars, downlinkVars>>

\* The operation has ended with an error: the round fails.
DownlinkError ==
    /\ pc = "over"
    /\ downlink = "error"
    /\ FailRound /\ Raise("error")
    /\ UNCHANGED <<committed, updates, pointer, roundId, completed, operation,
                   aborted, cancelVars, listed, uploadVars, downlinkVars>>

\* Mutation of EnterWaiting: the end of the downlink counts as its success.
EnterWaitingUnchecked ==
    /\ pc = "over"
    /\ downlink = "ended"
    /\ completed' = TRUE
    /\ WriteState("waiting_for_updates")
    /\ pc' = "published"
    /\ UNCHANGED <<committed, updates, pointer, roundId, failure, operation,
                   consumed, outcome, aborted, cancelVars, listed, uploadVars,
                   downlinkVars>>

\* It has ended without (a cancelled one ends without, too).  Unless the job has
\* been aborted or the round has failed, the barrier is passed.
EnterWaiting ==
    /\ pc = "over"
    /\ downlink = "ended"
    /\ IF aborted # "no" \/ failure # NoRound
       THEN Raise("error") /\ UNCHANGED <<completed, state, disk>>
       ELSE /\ completed' = TRUE
            /\ WriteState("waiting_for_updates")
            /\ pc' = "published"
            /\ UNCHANGED <<consumed, outcome>>
    /\ UNCHANGED <<committed, updates, pointer, roundId, failure, operation,
                   aborted, cancelVars, listed, uploadVars, downlinkVars>>

\* _complete_round_if_ready at the end of publish_model: it wants an update of
\* every participant.  The files are looked at without the lock.
LookAfterPublish ==
    /\ pc = "published"
    /\ listed' = updates[roundId]
    /\ IF listed' = Participants
       THEN pc' = "confirm" /\ UNCHANGED outcome
       ELSE pc' = "idle" /\ outcome' = "published"
    /\ UNCHANGED <<diskVars, roundVars, aborted, cancelVars, uploadVars, downlinkVars>>

(* ---- wait_for_updates -------------------------------------------------- *)

\* wait_for_updates.  A round that has succeeded already is read back from a
\* file that is never written (_rebuild_terminal_updates).
WaitForUpdates ==
    /\ pc = "idle" /\ aborted = "no" /\ ~closed
    /\ roundId # NoRound
    /\ IF state = "succeeded"
       THEN Raise("removed")
       ELSE pc' = "waiting" /\ UNCHANGED <<outcome, consumed>>
    /\ UNCHANGED <<diskVars, roundId, state, failure, completed, operation,
                   aborted, cancelVars, listed, uploadVars, downlinkVars>>

\* Mutation of CheckWait: the loop does not look for a failure.
CheckWaitBlind ==
    /\ pc = "waiting"
    /\ pc' = "look"
    /\ UNCHANGED <<diskVars, roundVars, aborted, cancelVars, listed, outcome,
                   uploadVars, downlinkVars>>

\* Top of the loop of _wait_for_complete_updates, under the lock.
CheckWait ==
    /\ pc = "waiting"
    /\ IF aborted # "no" \/ failure # NoRound
       THEN Raise("error")
       ELSE pc' = "look" /\ UNCHANGED <<outcome, consumed>>
    /\ UNCHANGED <<diskVars, roundId, state, failure, completed, operation,
                   aborted, cancelVars, listed, uploadVars, downlinkVars>>

\* Mutation of LookForUpdates: off by one in the quota.
LookForUpdatesShort ==
    /\ pc = "look"
    /\ listed' = IF completed THEN updates[roundId] ELSE {}
    /\ pc' = IF Cardinality(listed') + 1 >= MinUpdates THEN "verify" ELSE "slept"
    /\ UNCHANGED <<diskVars, roundVars, aborted, cancelVars, outcome,
                   uploadVars, downlinkVars>>

\* _complete_round_if_ready, the files, without the lock.
LookForUpdates ==
    /\ pc = "look"
    /\ listed' = IF completed THEN updates[roundId] ELSE {}
    /\ pc' = IF Cardinality(listed') >= MinUpdates THEN "verify" ELSE "slept"
    /\ UNCHANGED <<diskVars, roundVars, aborted, cancelVars, outcome,
                   uploadVars, downlinkVars>>

\* transport.wait_for_update has returned, notified or not.
Sleep ==
    /\ pc = "slept"
    /\ pc' = "waiting"
    /\ UNCHANGED <<diskVars, roundVars, aborted, cancelVars, listed, outcome,
                   uploadVars, downlinkVars>>

\* The deadline of the call has passed: round_timeout.
TimeOut ==
    /\ pc = "slept"
    /\ FailRound /\ Raise("error")
    /\ UNCHANGED <<committed, updates, pointer, roundId, completed, operation,
                   aborted, cancelVars, listed, uploadVars, downlinkVars>>

\* Mutation of CompleteRound: a failure reported during the look is overwritten.
CompleteRoundBlind ==
    /\ pc \in {"confirm", "verify"}
    /\ WriteState("succeeded")
    /\ committed' = [committed EXCEPT ![roundId] = listed]
    /\ outcome' = IF pc = "verify" THEN "updates" ELSE "published"
    /\ consumed' = (consumed \/ pc = "verify")
    /\ pc' = "idle"
    /\ UNCHANGED <<updates, pointer, roundId, failure, completed, operation,
                   aborted, cancelVars, listed, uploadVars, downlinkVars>>

\* _complete_round_if_ready, the lock again: the updates found make the round
\* succeed unless it has failed since.  An error here ends wait_for_updates with
\* the result consumed, publish_model without.
CompleteRound ==
    /\ pc \in {"confirm", "verify"}
    /\ IF failure # NoRound
       THEN outcome' = "error" /\ UNCHANGED <<committed, state, disk>>
       ELSE /\ WriteState("succeeded")
            /\ committed' = [committed EXCEPT ![roundId] = listed]
            /\ outcome' = IF pc = "verify" THEN "updates" ELSE "published"
    /\ consumed' = (consumed \/ pc = "verify")
    /\ pc' = "idle"
    /\ UNCHANGED <<updates, pointer, roundId, failure, completed, operation,
                   aborted, cancelVars, listed, uploadVars, downlinkVars>>

\* The same function: a file it has found does not pass the validation.
RejectUpdates ==
    /\ pc \in {"confirm", "verify"}
    /\ FailRound
    /\ outcome' = "error"
    /\ consumed' = (consumed \/ pc = "verify")
    /\ pc' = "idle"
    /\ UNCHANGED <<committed, updates, pointer, roundId, completed, operation,
                   aborted, cancelVars, listed, uploadVars, downlinkVars>>

(* ---- uploads (HTTP handler threads) ------------------------------------ *)

\* _reserve_upload: a node gets one attempt per round, once the round is
\* installed and (the client having to know the round) its downlink launched.
ReserveUpload(n) ==
    /\ context # NoRound /\ launched = context
    /\ n \notin updates[context]
    /\ <<context, n>> \notin used
    /\ uploads' = uploads \cup {<<context, n>>}
    /\ used' = used \cup {<<context, n>>}
    /\ UNCHANGED <<diskVars, roundVars, aborted, cancelVars, callVars, context,
                   downlinkVars>>

\* _receive_update: data file and manifest are in place.
CommitUpdate(r, n) ==
    /\ <<r, n>> \in uploads
    /\ uploads' = uploads \ {<<r, n>>}
    /\ updates' = [updates EXCEPT ![r] = @ \cup {n}]
    /\ UNCHANGED <<disk, committed, pointer, roundVars, aborted, cancelVars,
                   callVars, context, used, downlinkVars>>

\* Mutation of ReportFailure: also from the upload of an earlier round.
ReportFailureOfAnyRound(r) ==
    IF roundId # NoRound /\ state \notin Terminal /\ failure = NoRound
    THEN /\ failure' = r
         /\ WriteState("failed")
         /\ IF operation THEN Cancelling("reporter") ELSE UNCHANGED cancellers
    ELSE UNCHANGED <<failure, state, disk, cancellers>>

\* report_update_failure: heard for the current round only, before it has ended
\* and once.  The running downlink is cancelled.
ReportFailure(r) ==
    IF r = roundId /\ state \notin Terminal /\ failure = NoRound
    THEN /\ failure' = r
         /\ WriteState("failed")
         /\ IF operation THEN Cancelling("reporter") ELSE UNCHANGED cancellers
    ELSE UNCHANGED <<failure, state, disk, cancellers>>

\* _reject_accepted_upload, _fail_accepted_upload
FailUpload(r, n) ==
    /\ <<r, n>> \in uploads
    /\ uploads' = uploads \ {<<r, n>>}
    /\ ReportFailure(r)
    /\ UNCHANGED <<committed, updates, pointer, roundId, consumed, completed,
                   operation, aborted, cancelActive, cancelFinished, overtaken,
                   callVars, context, used, downlinkVars>>

(* ---- cancelling the downlink ------------------------------------------- *)

\* abort: the job's error is set under the lock ...
Abort ==
    /\ aborted = "no"
    /\ aborted' = "set"
    /\ UNCHANGED <<diskVars, roundVars, cancelVars, callVars, uploadVars, downlinkVars>>

\* ... and the operation, if one is stored, is looked up after it.
AbortLooks ==
    /\ aborted = "set"
    /\ aborted' = "seen"
    /\ IF operation THEN Cancelling("abort") ELSE UNCHANGED cancellers
    /\ UNCHANGED <<diskVars, roundVars, cancelActive, cancelFinished, overtaken,
                   callVars, uploadVars, downlinkVars>>

\* _cancel_downlink up to the call of the transport: one thread at a time, and
\* nothing to do once a cancellation has finished.
EnterCancel(c) ==
    /\ c.at = "wanted" /\ ~cancelActive
    /\ IF cancelFinished
       THEN cancellers' = cancellers \ {c} /\ UNCHANGED cancelActive
       ELSE /\ cancellers' = (cancellers \ {c}) \cup {[c EXCEPT !.at = "begun"]}
            /\ cancelActive' = TRUE
    /\ UNCHANGED <<diskVars, roundVars, aborted, cancelFinished, overtaken, callVars,
                   uploadVars, downlinkVars>>

\* transport.cancel_downlink terminates the process if it still runs.
TerminateUftp(c) ==
    /\ c.at = "begun" /\ c.round = launched
    /\ downlink = "active"
    /\ downlink' = "cancelling"
    /\ UNCHANGED <<diskVars, roundVars, aborted, cancelVars, callVars, uploadVars,
                   launched, delivered, closed, cut>>

\* It returns when the operation is complete, or refuses a handle that is no
\* longer the current one.  Either way the cancellation is finished, also for a
\* round that has been opened since: the flags are those of the Runtime.
LeaveCancel(c) ==
    /\ c.at = "begun"
    /\ c.round # launched \/ downlink \in {"ended", "error"}
    /\ cancellers' = cancellers \ {c}
    /\ cancelActive' = FALSE /\ cancelFinished' = TRUE
    /\ overtaken' = (overtaken \/ c.round # roundId)
    /\ UNCHANGED <<diskVars, roundVars, aborted, callVars, uploadVars, downlinkVars>>

\* transport.close, by the role's main thread at a signal, a link that has ended or
\* the end of the algorithm: a downlink that still runs is cancelled without the
\* Runtime, which is not told.  New calls are refused; uploads may go on until the
\* HTTP server is down.
CloseTransport ==
    /\ ~closed
    /\ closed' = TRUE
    /\ IF downlink = "active"
       THEN downlink' = "cancelling" /\ cut' = cut \cup {launched}
       ELSE UNCHANGED <<downlink, cut>>
    /\ UNCHANGED <<diskVars, roundVars, aborted, cancelVars, callVars, uploadVars,
                   launched, delivered>>

(* ---- the downlink operation -------------------------------------------- *)

\* The UFTP process exits of itself, with a status that reports every
\* participant served or not.
UftpExits ==
    /\ downlink = "active"
    /\ downlink' = "exited"
    /\ delivered' \in {delivered, delivered \cup {launched}}
    /\ UNCHANGED <<diskVars, roundVars, aborted, cancelVars, callVars, uploadVars,
                   launched, closed, cut>>

\* The terminated process is gone: _monitor_downlink completes the operation
\* without an error.
UftpTerminated ==
    /\ downlink = "cancelling"
    /\ downlink' = "ended"
    /\ UNCHANGED <<diskVars, roundVars, aborted, cancelVars, callVars, uploadVars,
                   launched, delivered, closed, cut>>

\* _monitor_downlink after an exit of itself.
MonitorDownlink ==
    /\ downlink = "exited"
    /\ downlink' = IF launched \in delivered THEN "ended" ELSE "error"
    /\ UNCHANGED <<diskVars, roundVars, aborted, cancelVars, callVars, uploadVars,
                   launched, delivered, closed, cut>>

(* ---- crash and restart ------------------------------------------------- *)

Unfinished == {r \in Rounds : disk[r] \in {"publishing_model", "waiting_for_updates"}}

\* recover_round_states: the round the new process takes for the current one.
Recovered ==
    IF pointer # NoRound THEN pointer
    ELSE IF Cardinality(Unfinished) = 1 THEN CHOOSE r \in Unfinished : TRUE
    ELSE NoRound

\* The process is killed and started again.  Unfinished rounds are marked failed
\* and the current one becomes a result to be consumed (_restore_terminal_state).
\* A directory without a state file makes the Runtime refuse to start.
Restart ==
    /\ IF \E r \in Rounds : disk[r] = "empty"
       THEN /\ pc' = "dead"
            /\ UNCHANGED disk
            /\ roundId' = NoRound
       ELSE /\ pc' = "idle"
            /\ disk' = [r \in Rounds |-> IF r \in Unfinished THEN "failed" ELSE disk[r]]
            /\ roundId' = Recovered
    /\ state' = IF roundId' = NoRound THEN "none" ELSE disk'[roundId']
    /\ failure' = IF state' = "failed" THEN roundId' ELSE NoRound
    /\ completed' = (state' = "succeeded")
    /\ consumed' = FALSE /\ operation' = FALSE
    /\ aborted' = "no"
    /\ cancelActive' = FALSE /\ cancelFinished' = FALSE /\ cancellers' = {}
    /\ overtaken' = FALSE
    /\ listed' = {} /\ outcome' = "none"
    /\ context' = NoRound /\ uploads' = {} /\ used' = {}
    /\ launched' = NoRound /\ downlink' = "none" /\ closed' = FALSE
    /\ UNCHANGED <<committed, updates, pointer, delivered, cut>>

-----------------------------------------------------------------------------
\* Steps of the application thread inside a call
CallStep ==
    \/ OpenRound \/ PointAtRound \/ InstallRound \/ StartDownlink
    \/ RecordOperation \/ DownlinkOver \/ DownlinkError \/ EnterWaiting
    \/ LookAfterPublish \/ CheckWait \/ LookForUpdates \/ Sleep \/ CompleteRound

CancelStep ==
    \/ \E c \in cancellers : EnterCancel(c) \/ TerminateUftp(c) \/ LeaveCancel(c)
    \/ UftpTerminated \/ MonitorDownlink

UploadStep ==
    \/ \E n \in Participants : ReserveUpload(n)
    \/ \E u \in uploads : CommitUpdate(u[1], u[2]) \/ FailUpload(u[1], u[2])

Next ==
    \/ Publish \/ WaitForUpdates
    \/ CallStep
    \/ PublishFails \/ TimeOut \/ RejectUpdates
    \/ CancelStep
    \/ UploadStep
    \/ Abort \/ AbortLooks
    \/ CloseTransport
    \/ UftpExits
    \/ Restart

Spec == Init /\ [][Next]_vars

\* Threads run on; the UFTP process need not end of itself.
FairSpec ==
    /\ Spec
    /\ WF_vars(CallStep)
    /\ WF_vars(CancelStep)

-----------------------------------------------------------------------------
TypeOK ==
    /\ disk \in [Rounds -> DiskStates]
    /\ committed \in [Rounds -> SUBSET Participants]
    /\ updates \in [Rounds -> SUBSET Participants]
    /\ pointer \in Rounds \cup {NoRound}
    /\ roundId \in Rounds \cup {NoRound}
    /\ state \in DiskStates \ {"empty"}
    /\ failure \in Rounds \cup {NoRound}
    /\ consumed \in BOOLEAN /\ completed \in BOOLEAN /\ operation \in BOOLEAN
    /\ aborted \in {"no", "set", "seen"}
    /\ cancelActive \in BOOLEAN /\ cancelFinished \in BOOLEAN
    /\ overtaken \in BOOLEAN
    /\ cancellers \subseteq [who : {"publisher", "reporter", "abort"},
                             round : Rounds, at : {"wanted", "begun"}]
    /\ pc \in {"idle", "made", "opened", "archived", "installed", "started",
               "downlink", "over", "published", "confirm", "waiting", "look",
               "slept", "verify", "dead"}
    /\ listed \subseteq Participants
    /\ outcome \in {"none", "published", "updates", "removed", "error"}
    /\ context \in Rounds \cup {NoRound}
    /\ uploads \subseteq Rounds \X Participants
    /\ used \subseteq Rounds \X Participants
    /\ launched \in Rounds \cup {NoRound}
    /\ downlink \in {"none", "active", "cancelling", "exited", "ended", "error"}
    /\ delivered \subseteq Rounds
    /\ closed \in BOOLEAN
    /\ cut \subseteq Rounds

\* TerminalFinal: what a round ended with stays, whatever uploads, reports,
\* later rounds or restarts come after it (report_update_failure and _fail_round
\* against _complete_round_if_ready, recover_round_states).
TerminalFinal ==
    [][\A r \in Rounds : disk[r] \in Terminal =>
          disk'[r] = disk[r] /\ committed'[r] = committed[r]]_vars

\* OneActiveRound: the disk never shows two unfinished rounds, also after crashes,
\* so that recovery can tell which one was current (publish_model,
\* recover_round_states).
OneActiveRound ==
    \A q, r \in Rounds : disk[q] \notin Terminal \cup {"none"}
                         /\ disk[r] \notin Terminal \cup {"none"} => q = r

\* SuccessMeansQuota: a succeeded round names at least min_updates nodes, and the
\* update of each is on the disk (_complete_round_if_ready).
SuccessMeansQuota ==
    \A r \in Rounds : disk[r] = "succeeded" =>
        committed[r] \subseteq updates[r] /\ Cardinality(committed[r]) >= MinUpdates

\* DownlinkBarrier: no round waits for updates, or succeeds on early ones, before
\* its model has reached every participant, whether its downlink ends, fails, is
\* cancelled or is lost with the process; only a close of the Transport while the
\* downlink runs lets an undelivered round pass (publish_model, _monitor_downlink).
DownlinkBarrier ==
    \A r \in Rounds :
      disk[r] \in {"waiting_for_updates", "succeeded"} => r \in delivered \cup cut

\* AllDelivered: the same without the exception, as the Runtime's contract has it.
\* It is false (README, section 4).
AllDelivered ==
    \A r \in Rounds : disk[r] \in {"waiting_for_updates", "succeeded"} => r \in delivered

\* FailureIsOwn: the error a call raises is one of the current round, never of an
\* earlier round whose upload fails late (report_update_failure).
FailureIsOwn == failure # NoRound => failure = roundId

\* FailureCancels: while the downlink of a round that has failed still runs, some
\* thread is on its way to cancel it, as the contract between the layers has it
\* (report_update_failure, _publish_model).  Alone it is false (README, section 4).
FailureCancels ==
    pc = "downlink" /\ failure # NoRound /\ downlink = "active"
        => \E c \in cancellers : c.round = roundId

\* CancelReaches: nothing but a thread of an earlier round that has finished its
\* cancellation in this one can break that, wherever the failure falls in the start
\* of the downlink and whatever abort() and the other cancellations do
\* (_cancel_downlink).
CancelReaches == FailureCancels \/ overtaken

\* FailureStopsPublish: a publish_model whose round fails while the model is on
\* its way returns, even if UFTP would go on for ever and several threads cancel at
\* once, unless the round has been overtaken so (_cancel_downlink).
FailureStopsPublish ==
    pc = "downlink" /\ failure # NoRound ~> pc # "downlink" \/ overtaken

\* WaitEnds: wait_for_updates returns once the round has failed, the job is
\* aborted or the quota is there, with no time-out and whatever notifications are
\* lost (_wait_for_complete_updates).
WaitEnds ==
    pc = "waiting" /\ (failure # NoRound \/ aborted # "no"
                       \/ Cardinality(updates[roundId]) >= MinUpdates)
        ~> pc \notin {"waiting", "look", "slept", "verify"}
=============================================================================
