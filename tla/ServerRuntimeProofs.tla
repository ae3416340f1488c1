------------------------- MODULE ServerRuntimeProofs -------------------------
(***************************************************************************)
(* Proofs about ServerRuntime: for any participants, any quota and any     *)
(* number of rounds, crashes and restarts, what the disk says of a round   *)
(* is true, final and about one round at a time; and a downlink whose      *)
(* round has failed is on its way to be cancelled, unless a thread of an   *)
(* earlier round has declared its cancellation finished.                   *)
(*                                                                         *)
(* None of the invariants is inductive.  What the disk shows is decided    *)
(* by what the application thread has seen before, so the invariant        *)
(* says for every place of that thread which states the round can be in    *)
(* there, although uploads, aborts and restarts come at any moment.        *)
(***************************************************************************)
EXTENDS ServerRuntime, FiniteSetTheorems, TLAPS

OnItsWay == {"publishing_model", "waiting_for_updates"}

\* What is on the disk is what the Runtime believes; only the directory of
\* the round to be opened is ahead of it.
DiskAgrees ==
    /\ roundId # NoRound => disk[roundId] = state /\ state # "none"
    /\ roundId = NoRound => state = "none"
    /\ pointer # NoRound => disk[pointer] \notin {"none", "empty"}
    /\ \A r \in Rounds : disk[r] \in OnItsWay => r = roundId
    /\ pc \notin {"made", "dead"} => \A r \in Rounds : disk[r] # "empty"
    /\ \A q, r \in Rounds : disk[q] = "empty" /\ disk[r] = "empty" => q = r
    /\ pc \in {"made", "dead"} => roundId = NoRound \/ state \in Terminal

\* The failure is the round's, and its state says so.
FailureAgrees ==
    /\ failure # NoRound => failure = roundId /\ state = "failed"
    /\ state = "failed" => failure = roundId

\* Where the application thread is, and how far its round has come
CallAgrees ==
    /\ pc \notin {"idle", "made", "dead"} => roundId # NoRound
    /\ pc \in {"opened", "archived", "installed", "started", "downlink", "over"}
           => state \in {"publishing_model", "failed"}
    /\ pc \in {"published", "confirm"} =>
           completed /\ state \in {"waiting_for_updates", "failed"}
    /\ pc \in {"waiting", "look", "slept", "verify"} => state # "succeeded"
    /\ pc \in {"confirm", "verify"} =>
           /\ completed
           /\ listed \subseteq updates[roundId]
           /\ Cardinality(listed) >= MinUpdates
    /\ operation <=> pc = "downlink"

Stopped == failure # NoRound \/ aborted # "no"

\* The downlink operation of the current round ends undelivered only after the
\* round has been stopped, or the Transport closed.
DownlinkAgrees ==
    /\ pc \in {"started", "downlink", "over"} => launched = roundId
    /\ pc = "over" => downlink \in {"ended", "error"}
    /\ launched # NoRound => disk[launched] \notin {"none", "empty"}
    /\ downlink # "none" => launched # NoRound
    /\ \A c \in cancellers : /\ disk[c.round] \notin {"none", "empty"}
                             /\ c.round = roundId => Stopped
    /\ launched = roundId /\ launched \notin delivered
           /\ downlink \in {"cancelling", "ended"} => Stopped \/ launched \in cut
    /\ completed => roundId \in delivered \cup cut

IInv ==
    /\ TypeOK
    /\ DiskAgrees /\ FailureAgrees /\ CallAgrees /\ DownlinkAgrees
    /\ SuccessMeansQuota /\ DownlinkBarrier

\* As long as no thread of an earlier round has finished a cancellation in this
\* one: nobody can cancel a downlink that has no handle yet, and a cancellation
\* has not finished before the downlink is over.
CancelAgrees ==
    overtaken \/ /\ pc \in {"opened", "archived", "installed", "started"} =>
                       ~cancelFinished /\ \A c \in cancellers : c.round # roundId
                 /\ pc = "downlink" /\ cancelFinished =>
                       downlink \in {"ended", "error"}
                 /\ FailureCancels

-----------------------------------------------------------------------------
\* What _write_state leaves on the disk
LEMMA WriteStateIs ==
    ASSUME TypeOK, roundId # NoRound, NEW s \in DiskStates \ {"empty", "none"},
           WriteState(s)
    PROVE  /\ state' = s
           /\ disk' \in [Rounds -> DiskStates]
           /\ disk'[roundId] = s
           /\ \A r \in Rounds : r # roundId => disk'[r] = disk[r]
  BY DEF TypeOK, WriteState

\* _fail_round marks the current round, unless it has ended before.
LEMMA FailRoundIs ==
    ASSUME TypeOK, roundId # NoRound, FailRound
    PROVE  /\ disk' \in [Rounds -> DiskStates]
           /\ \A r \in Rounds : r # roundId => disk'[r] = disk[r]
           /\ \/ /\ failure = NoRound /\ state # "succeeded"
                 /\ failure' = roundId /\ state' = "failed" /\ disk'[roundId] = "failed"
              \/ /\ failure # NoRound \/ state = "succeeded"
                 /\ UNCHANGED <<failure, state, disk>>
<1>1. CASE failure = NoRound /\ state # "succeeded"
  BY <1>1, WriteStateIs DEF FailRound, DiskStates
<1>2. CASE ~(failure = NoRound /\ state # "succeeded")
  BY <1>2 DEF FailRound, TypeOK
<1>3. QED
  BY <1>1, <1>2

\* report_update_failure marks the current round while it is on its way.
LEMMA ReportFailureIs ==
    ASSUME TypeOK, NEW r \in Rounds, ReportFailure(r)
    PROVE  /\ disk' \in [Rounds -> DiskStates]
           /\ \A q \in Rounds : q # roundId => disk'[q] = disk[q]
           /\ \/ /\ r = roundId /\ failure = NoRound /\ state \notin Terminal
                 /\ failure' = roundId /\ state' = "failed" /\ disk'[roundId] = "failed"
                 /\ IF operation THEN Cancelling("reporter") ELSE UNCHANGED cancellers
              \/ UNCHANGED <<failure, state, disk, cancellers>>
<1>1. CASE r = roundId /\ state \notin Terminal /\ failure = NoRound
  <2>1. roundId # NoRound
    BY <1>1, RuntimeAssumption DEF Rounds, NoRound
  <2>2. WriteState("failed")
    BY <1>1 DEF ReportFailure
  <2>3. QED
    BY <1>1, <2>1, <2>2, WriteStateIs DEF ReportFailure, DiskStates
<1>2. CASE ~(r = roundId /\ state \notin Terminal /\ failure = NoRound)
  BY <1>2 DEF ReportFailure, TypeOK
<1>3. QED
  BY <1>1, <1>2

\* A thread on its way into _cancel_downlink names a round.
LEMMA CancellingIs ==
    ASSUME TypeOK, roundId # NoRound,
           NEW who \in {"publisher", "reporter", "abort"}, Cancelling(who)
    PROVE  /\ cancellers' \subseteq [who : {"publisher", "reporter", "abort"},
                                     round : Rounds, at : {"wanted", "begun"}]
           /\ \A c \in cancellers' : c \in cancellers \/ c.round = roundId
           /\ \E c \in cancellers' : c.round = roundId
           /\ cancellers \subseteq cancellers'
<1> DEFINE new == [who |-> who, round |-> roundId, at |-> "wanted"]
<1>1. roundId \in Rounds
  BY DEF TypeOK
<1>2. cancellers' = cancellers \cup {new}
  BY DEF Cancelling
<1>3. /\ new \in [who : {"publisher", "reporter", "abort"}, round : Rounds,
                  at : {"wanted", "begun"}]
      /\ new.round = roundId
  BY <1>1
<1>4. QED
  BY <1>2, <1>3 DEF TypeOK

\* What recover_round_states takes for the current round has ended by then.
LEMMA RecoveredIs ==
    ASSUME TypeOK
    PROVE  /\ Recovered \in Rounds \cup {NoRound}
           /\ Recovered # NoRound => Recovered = pointer \/ Recovered \in Unfinished
<1>1. CASE pointer # NoRound
  BY <1>1 DEF Recovered, TypeOK
<1>2. CASE pointer = NoRound /\ Cardinality(Unfinished) = 1
  <2>1. Unfinished # {}
    BY <1>2, FS_EmptySet
  <2>2. (CHOOSE r \in Unfinished : TRUE) \in Unfinished
    BY <2>1
  <2>3. Recovered = CHOOSE r \in Unfinished : TRUE
    BY <1>2 DEF Recovered
  <2>4. QED
    BY <2>2, <2>3 DEF Unfinished
<1>3. CASE pointer = NoRound /\ Cardinality(Unfinished) # 1
  BY <1>3 DEF Recovered
<1>4. QED
  BY <1>1, <1>2, <1>3

-----------------------------------------------------------------------------
(* Type correctness *)

\* A Runtime that was just made has the types of TypeOK.
LEMMA TypeInit == Init => TypeOK
  BY RuntimeAssumption DEF Init, TypeOK, Rounds, NoRound, DiskStates

\* Every step of every thread keeps the types.
LEMMA TypeStep ==
    ASSUME IInv, [Next]_vars
    PROVE  TypeOK'
<1> USE RuntimeAssumption DEF IInv, Rounds, NoRound, DiskStates
<1>1. CASE Publish
  BY <1>1 DEF Publish, TypeOK, roundVars, cancelVars, uploadVars, downlinkVars
<1>2. CASE OpenRound
  <2>1. PICK r \in Rounds : /\ roundId' = r
                            /\ disk' = [disk EXCEPT ![r] = "publishing_model"]
    BY <1>2 DEF OpenRound
  <2>2. roundId' \in Rounds /\ disk' \in [Rounds -> DiskStates]
    BY <2>1 DEF TypeOK
  <2>3. /\ consumed' \in BOOLEAN /\ completed' \in BOOLEAN
        /\ cancelActive' \in BOOLEAN /\ cancelFinished' \in BOOLEAN
        /\ overtaken' \in BOOLEAN
    BY <1>2 DEF OpenRound
  <2>4. QED
    BY <1>2, <2>2, <2>3 DEF OpenRound, TypeOK, uploadVars, downlinkVars
<1>3. CASE PointAtRound \/ InstallRound \/ StartDownlink
  <2>1. CASE PointAtRound
    BY <1>3, <2>1 DEF PointAtRound, TypeOK, roundVars, cancelVars, uploadVars,
       downlinkVars
  <2>2. CASE InstallRound
    BY <1>3, <2>2 DEF InstallRound, TypeOK, diskVars, roundVars, cancelVars,
       downlinkVars
  <2>3. CASE StartDownlink
    BY <1>3, <2>3 DEF StartDownlink, TypeOK, diskVars, roundVars, cancelVars,
       uploadVars
  <2>4. QED
    BY <1>3, <2>1, <2>2, <2>3
<1>4. CASE PublishFails \/ DownlinkError \/ TimeOut \/ RejectUpdates
  <2>1. roundId # NoRound /\ FailRound
    BY <1>4 DEF PublishFails, DownlinkError, TimeOut, RejectUpdates, CallAgrees
  <2>2. /\ disk' \in [Rounds -> DiskStates] /\ failure' \in Rounds \cup {NoRound}
        /\ state' \in DiskStates \ {"empty"}
    BY <2>1, FailRoundIs DEF TypeOK
  <2>3. consumed' \in BOOLEAN /\ pc' = "idle" /\ outcome' = "error"
    BY <1>4 DEF PublishFails, DownlinkError, TimeOut, RejectUpdates, Raise
  <2>4. UNCHANGED <<committed, updates, pointer, roundId, completed, operation,
                    aborted, cancelVars, listed, uploadVars, downlinkVars>>
    BY <1>4 DEF PublishFails, DownlinkError, TimeOut, RejectUpdates
  <2>5. QED
    BY <2>2, <2>3, <2>4 DEF TypeOK, cancelVars, uploadVars, downlinkVars
<1>5. CASE RecordOperation
  <2>1. roundId # NoRound
    BY <1>5 DEF RecordOperation, CallAgrees
  <2>2. cancellers' \subseteq [who : {"publisher", "reporter", "abort"},
                              round : Rounds, at : {"wanted", "begun"}]
    BY <1>5, <2>1, CancellingIs DEF RecordOperation, TypeOK
  <2>3. QED
    BY <1>5, <2>2 DEF RecordOperation, TypeOK, diskVars, uploadVars, downlinkVars
<1>6. CASE DownlinkOver
  <2>1. operation' \in BOOLEAN
    BY <1>6 DEF DownlinkOver
  <2>2. QED
    BY <1>6, <2>1 DEF DownlinkOver, TypeOK, diskVars, cancelVars, uploadVars,
       downlinkVars
<1>7. CASE EnterWaiting
  <2>1. roundId # NoRound
    BY <1>7 DEF EnterWaiting, CallAgrees
  <2>2. disk' \in [Rounds -> DiskStates] /\ state' \in DiskStates \ {"empty"}
    BY <1>7, <2>1, WriteStateIs DEF EnterWaiting, TypeOK
  <2>3. pc' \in {"idle", "published"} /\ outcome' \in {outcome, "error"}
    BY <1>7 DEF EnterWaiting, Raise
  <2>4. consumed' \in BOOLEAN /\ completed' \in BOOLEAN
    BY <1>7 DEF EnterWaiting, Raise, TypeOK
  <2>5. UNCHANGED <<committed, updates, pointer, roundId, failure, operation,
                    aborted, cancelVars, listed, uploadVars, downlinkVars>>
    BY <1>7 DEF EnterWaiting
  <2>6. QED
    BY <2>2, <2>3, <2>4, <2>5 DEF TypeOK, cancelVars, uploadVars, downlinkVars
<1>8. CASE LookAfterPublish \/ LookForUpdates
  <2>1. roundId \in Rounds
    BY <1>8 DEF LookAfterPublish, LookForUpdates, CallAgrees, TypeOK
  <2>2. listed' \subseteq Participants
    BY <1>8, <2>1 DEF LookAfterPublish, LookForUpdates, TypeOK
  <2>3. /\ pc' \in {"confirm", "idle", "verify", "slept"}
        /\ outcome' \in {outcome, "published"}
    BY <1>8 DEF LookAfterPublish, LookForUpdates
  <2>4. UNCHANGED <<diskVars, roundVars, aborted, cancelVars, uploadVars, downlinkVars>>
    BY <1>8 DEF LookAfterPublish, LookForUpdates
  <2>5. QED
    BY <2>2, <2>3, <2>4 DEF TypeOK, diskVars, roundVars, cancelVars, uploadVars,
       downlinkVars
<1>9. CASE WaitForUpdates \/ CheckWait \/ Sleep
  <2>1. /\ pc' \in {"idle", "waiting", "look"} /\ consumed' \in BOOLEAN
        /\ outcome' \in {outcome, "removed", "error"}
    BY <1>9 DEF WaitForUpdates, CheckWait, Sleep, Raise, TypeOK, roundVars
  <2>2. UNCHANGED <<diskVars, roundId, state, failure, completed, operation,
                    aborted, cancelVars, listed, uploadVars, downlinkVars>>
    BY <1>9 DEF WaitForUpdates, CheckWait, Sleep, roundVars
  <2>3. QED
    BY <2>1, <2>2 DEF TypeOK, diskVars, cancelVars, uploadVars, downlinkVars
<1>10. CASE CompleteRound
  <2>1. roundId # NoRound
    BY <1>10 DEF CompleteRound, CallAgrees
  <2>2. disk' \in [Rounds -> DiskStates] /\ state' \in DiskStates \ {"empty"}
    BY <1>10, <2>1, WriteStateIs DEF CompleteRound, TypeOK
  <2>3. QED
    BY <1>10, <2>2 DEF CompleteRound, TypeOK, cancelVars, uploadVars, downlinkVars
<1>11. ASSUME NEW n \in Participants, ReserveUpload(n)
       PROVE  TypeOK'
  BY <1>11 DEF ReserveUpload, TypeOK, diskVars, roundVars, cancelVars, callVars,
     downlinkVars
<1>12. ASSUME NEW u \in uploads, CommitUpdate(u[1], u[2])
       PROVE  TypeOK'
  BY <1>12 DEF CommitUpdate, TypeOK, roundVars, cancelVars, callVars, downlinkVars
<1>13. ASSUME NEW u \in uploads, FailUpload(u[1], u[2])
       PROVE  TypeOK'
  <2>1. u[1] \in Rounds /\ ReportFailure(u[1]) /\ uploads' \subseteq uploads
    BY <1>13 DEF FailUpload, TypeOK
  <2>2. /\ disk' \in [Rounds -> DiskStates] /\ failure' \in Rounds \cup {NoRound}
        /\ state' \in DiskStates \ {"empty"}
    BY <2>1, ReportFailureIs DEF TypeOK
  <2>3. cancellers' \subseteq [who : {"publisher", "reporter", "abort"},
                              round : Rounds, at : {"wanted", "begun"}]
    BY <2>1, ReportFailureIs, CancellingIs DEF TypeOK
  <2>4. QED
    BY <1>13, <2>1, <2>2, <2>3 DEF FailUpload, TypeOK, callVars, downlinkVars
<1>14. CASE Abort \/ AbortLooks
  <2>1. cancellers' \subseteq [who : {"publisher", "reporter", "abort"},
                              round : Rounds, at : {"wanted", "begun"}]
    BY <1>14, CancellingIs DEF Abort, AbortLooks, TypeOK, CallAgrees, cancelVars
  <2>2. aborted' \in {"set", "seen"}
    BY <1>14 DEF Abort, AbortLooks
  <2>3. UNCHANGED <<diskVars, roundVars, cancelActive, cancelFinished, overtaken,
                    callVars, uploadVars, downlinkVars>>
    BY <1>14 DEF Abort, AbortLooks, cancelVars
  <2>4. QED
    BY <2>1, <2>2, <2>3 DEF TypeOK, diskVars, roundVars, callVars, uploadVars,
       downlinkVars
<1>15. ASSUME NEW c \in cancellers, EnterCancel(c)
       PROVE  TypeOK'
  <2> DEFINE begun == [c EXCEPT !.at = "begun"]
  <2>1. begun \in [who : {"publisher", "reporter", "abort"}, round : Rounds,
                   at : {"wanted", "begun"}]
    BY DEF TypeOK
  <2>2. cancelActive' \in BOOLEAN
    BY <1>15 DEF EnterCancel, TypeOK
  <2>3. cancellers' \subseteq [who : {"publisher", "reporter", "abort"},
                              round : Rounds, at : {"wanted", "begun"}]
    <3>1. cancellers' \subseteq cancellers \cup {begun}
      BY <1>15 DEF EnterCancel
    <3>2. QED
      BY <2>1, <3>1 DEF TypeOK
  <2>4. QED
    BY <1>15, <2>2, <2>3 DEF EnterCancel, TypeOK, diskVars, roundVars, callVars,
       uploadVars, downlinkVars
<1>16. ASSUME NEW c \in cancellers, TerminateUftp(c) \/ LeaveCancel(c)
       PROVE  TypeOK'
  <2>1. CASE TerminateUftp(c)
    BY <2>1 DEF TerminateUftp, TypeOK, diskVars, roundVars, cancelVars, callVars,
       uploadVars
  <2>2. CASE LeaveCancel(c)
    <3>1. /\ cancelActive' \in BOOLEAN /\ cancelFinished' \in BOOLEAN
          /\ overtaken' \in BOOLEAN
      BY <2>2 DEF LeaveCancel, TypeOK
    <3>2. QED
      BY <2>2, <3>1 DEF LeaveCancel, TypeOK, diskVars, roundVars, callVars,
         uploadVars, downlinkVars
  <2>3. QED
    BY <1>16, <2>1, <2>2
<1>17. CASE UftpTerminated \/ MonitorDownlink
  <2>1. downlink' \in {"ended", "error"}
    BY <1>17 DEF UftpTerminated, MonitorDownlink
  <2>2. UNCHANGED <<diskVars, roundVars, aborted, cancelVars, callVars, uploadVars,
                    launched, delivered, closed, cut>>
    BY <1>17 DEF UftpTerminated, MonitorDownlink
  <2>3. QED
    BY <2>1, <2>2 DEF TypeOK, diskVars, roundVars, cancelVars, callVars, uploadVars
<1>18. CASE UftpExits
  <2>1. launched \in Rounds
    BY <1>18 DEF UftpExits, DownlinkAgrees, TypeOK
  <2>2. delivered' \subseteq Rounds
    BY <1>18, <2>1 DEF UftpExits, TypeOK
  <2>3. QED
    BY <1>18, <2>2 DEF UftpExits, TypeOK, diskVars, roundVars, cancelVars, callVars,
       uploadVars
<1>19. CASE Restart
  <2>1. disk' \in [Rounds -> DiskStates] /\ roundId' \in Rounds \cup {NoRound}
    BY <1>19, RecoveredIs DEF Restart, TypeOK
  <2>2. state' \in DiskStates \ {"empty"}
    <3>1. CASE roundId' = NoRound
      BY <1>19, <3>1 DEF Restart
    <3>2. CASE roundId' # NoRound
      <4>1. \A r \in Rounds : disk[r] # "empty"
        BY <1>19, <3>2 DEF Restart
      <4>2. disk' = [r \in Rounds |-> IF r \in Unfinished THEN "failed" ELSE disk[r]]
        BY <1>19, <4>1 DEF Restart
      <4>3. state' = disk'[roundId'] /\ roundId' \in Rounds
        BY <1>19, <2>1, <3>2 DEF Restart
      <4>4. QED
        BY <4>1, <4>2, <4>3 DEF TypeOK
    <3>3. QED
      BY <3>1, <3>2
  <2>3. failure' \in Rounds \cup {NoRound} /\ pc' \in {"idle", "dead"}
    BY <1>19, <2>1 DEF Restart
  <2>4. QED
    BY <1>19, <2>1, <2>2, <2>3 DEF Restart, TypeOK
<1>20. CASE CloseTransport
  <2>1. downlink = "active" => launched \in Rounds
    BY DEF DownlinkAgrees, TypeOK
  <2>2. closed' \in BOOLEAN /\ downlink' \in {downlink, "cancelling"} /\ cut' \subseteq Rounds
    BY <1>20, <2>1 DEF CloseTransport, TypeOK
  <2>3. QED
    BY <1>20, <2>2 DEF CloseTransport, TypeOK, diskVars, roundVars, cancelVars,
       callVars, uploadVars
<1>21. CASE UNCHANGED vars
  BY <1>21 DEF TypeOK, vars, diskVars, roundVars, cancelVars, callVars, uploadVars,
     downlinkVars
<1>22. QED
  BY <1>1, <1>2, <1>3, <1>4, <1>5, <1>6, <1>7, <1>8, <1>9, <1>10, <1>11, <1>12,
     <1>13, <1>14, <1>15, <1>16, <1>17, <1>18, <1>19, <1>20, <1>21
     DEF Next, CallStep, CancelStep, UploadStep

-----------------------------------------------------------------------------
(* The state of the round *)

Failing == PublishFails \/ DownlinkError \/ TimeOut \/ RejectUpdates

\* What all other steps leave alone
Quiet ==
    /\ UNCHANGED <<disk, committed, pointer, roundId, state, failure, completed>>
    /\ pc' = pc \/ (pc \notin {"made", "dead"} /\ pc' \notin {"made", "dead"})
    /\ \A r \in Rounds : updates[r] \subseteq updates'[r]
    /\ delivered \subseteq delivered' /\ cut \subseteq cut'

\* What the handler of a failed call leaves behind (_fail_round).
LEMMA FailingIs ==
    ASSUME IInv, Failing
    PROVE  /\ FailRound /\ roundId # NoRound
           /\ pc \notin {"idle", "made", "dead", "downlink"} /\ pc' = "idle"
           /\ UNCHANGED <<committed, updates, pointer, roundId, completed, operation,
                          aborted, cancelVars, listed, uploadVars, downlinkVars>>
  BY DEF IInv, CallAgrees, Failing, PublishFails, DownlinkError, TimeOut,
     RejectUpdates, Raise

\* The steps that change the state of a round
LEMMA Movers ==
    ASSUME IInv, [Next]_vars
    PROVE  \/ Publish \/ OpenRound \/ PointAtRound \/ Failing \/ EnterWaiting
           \/ CompleteRound \/ (\E u \in uploads : FailUpload(u[1], u[2])) \/ Restart
           \/ Quiet
<1> USE DEF Quiet
<1>1. CASE InstallRound \/ StartDownlink \/ RecordOperation \/ DownlinkOver
  BY <1>1 DEF InstallRound, StartDownlink, RecordOperation, DownlinkOver, diskVars,
     roundVars, downlinkVars
<1>2. CASE LookAfterPublish \/ WaitForUpdates \/ CheckWait \/ LookForUpdates \/ Sleep
  BY <1>2 DEF LookAfterPublish, WaitForUpdates, CheckWait, LookForUpdates, Sleep,
     Raise, diskVars, roundVars, downlinkVars
<1>3. CASE \E n \in Participants : ReserveUpload(n)
  BY <1>3 DEF ReserveUpload, diskVars, roundVars, callVars, downlinkVars
<1>4. ASSUME NEW u \in uploads, CommitUpdate(u[1], u[2])
      PROVE  Quiet
  BY <1>4 DEF CommitUpdate, roundVars, callVars, downlinkVars, IInv, TypeOK
<1>5. CASE Abort \/ AbortLooks
  BY <1>5 DEF Abort, AbortLooks, diskVars, roundVars, callVars, downlinkVars
<1>6. ASSUME NEW c \in cancellers, EnterCancel(c) \/ TerminateUftp(c) \/ LeaveCancel(c)
      PROVE  Quiet
  BY <1>6 DEF EnterCancel, TerminateUftp, LeaveCancel, diskVars, roundVars, callVars,
     downlinkVars
<1>7. CASE UftpTerminated \/ MonitorDownlink \/ UftpExits \/ CloseTransport
  BY <1>7 DEF UftpTerminated, MonitorDownlink, UftpExits, CloseTransport, diskVars,
     roundVars, callVars
<1>8. CASE UNCHANGED vars
  BY <1>8 DEF vars, diskVars, roundVars, callVars, downlinkVars
<1>9. QED
  BY <1>1, <1>2, <1>3, <1>4, <1>5, <1>6, <1>7, <1>8
     DEF Next, CallStep, CancelStep, UploadStep, Failing

\* A restarted Runtime either refuses a half-written round, or has failed every round
\* that was on its way.
LEMMA RestartIs ==
    ASSUME IInv, Restart
    PROVE  \/ /\ pc' = "dead" /\ disk' = disk /\ roundId' = NoRound
              /\ \E r \in Rounds : disk[r] = "empty"
           \/ /\ pc' = "idle"
              /\ \A r \in Rounds : disk[r] # "empty"
              /\ disk' = [r \in Rounds |-> IF disk[r] \in OnItsWay THEN "failed"
                                          ELSE disk[r]]
              /\ roundId' # NoRound => roundId' \in Rounds /\ disk'[roundId'] \in Terminal
<1>1. CASE \E r \in Rounds : disk[r] = "empty"
  BY <1>1 DEF Restart
<1>2. CASE \A r \in Rounds : disk[r] # "empty"
  <2>1. /\ pc' = "idle" /\ roundId' = Recovered
        /\ disk' = [r \in Rounds |-> IF disk[r] \in OnItsWay THEN "failed" ELSE disk[r]]
    BY <1>2 DEF Restart, Unfinished, OnItsWay
  <2>2. Recovered # NoRound => Recovered \in Rounds /\ disk[Recovered] \notin {"none", "empty"}
    BY <1>2, RecoveredIs DEF IInv, DiskAgrees, Unfinished
  <2>3. Recovered # NoRound => disk'[Recovered] \in Terminal
    BY <2>1, <2>2 DEF IInv, TypeOK, DiskStates, OnItsWay, Terminal
  <2>4. QED
    BY <1>2, <2>1, <2>2, <2>3
<1>3. QED
  BY <1>1, <1>2

\* The round on the disk and the one in memory stay in agreement.
LEMMA DiskStep ==
    ASSUME IInv, [Next]_vars
    PROVE  DiskAgrees'
<1> USE RuntimeAssumption DEF IInv, Rounds, NoRound, Terminal, OnItsWay
<1>1. CASE Publish
  BY <1>1 DEF Publish, DiskAgrees, TypeOK, roundVars
<1>2. CASE OpenRound
  BY <1>2 DEF OpenRound, DiskAgrees, TypeOK
<1>3. CASE PointAtRound
  BY <1>3 DEF PointAtRound, DiskAgrees, CallAgrees, TypeOK, roundVars
<1>4. CASE Failing
  BY <1>4, FailingIs, FailRoundIs DEF DiskAgrees, TypeOK
<1>5. CASE EnterWaiting
  <2>1. roundId # NoRound /\ pc \notin {"made", "dead"} /\ pc' \notin {"made", "dead"}
    BY <1>5 DEF EnterWaiting, CallAgrees, Raise
  <2>2. UNCHANGED <<pointer, roundId>>
    BY <1>5 DEF EnterWaiting
  <2>3. UNCHANGED <<state, disk>> \/ WriteState("waiting_for_updates")
    BY <1>5 DEF EnterWaiting
  <2>4. CASE UNCHANGED <<state, disk>>
    BY <2>1, <2>2, <2>4 DEF DiskAgrees
  <2>5. CASE WriteState("waiting_for_updates")
    <3>1. /\ state' = "waiting_for_updates" /\ disk'[roundId] = "waiting_for_updates"
          /\ \A q \in Rounds : q # roundId => disk'[q] = disk[q]
      BY <2>1, <2>5, WriteStateIs DEF DiskStates
    <3>2. QED
      BY <2>1, <2>2, <3>1 DEF DiskAgrees, TypeOK
  <2>6. QED
    BY <2>3, <2>4, <2>5
<1>6. CASE CompleteRound
  <2>1. roundId # NoRound /\ pc \notin {"made", "dead"} /\ pc' \notin {"made", "dead"}
    BY <1>6 DEF CompleteRound, CallAgrees
  <2>2. UNCHANGED <<pointer, roundId>>
    BY <1>6 DEF CompleteRound
  <2>3. UNCHANGED <<state, disk>> \/ WriteState("succeeded")
    BY <1>6 DEF CompleteRound
  <2>4. CASE UNCHANGED <<state, disk>>
    BY <2>1, <2>2, <2>4 DEF DiskAgrees
  <2>5. CASE WriteState("succeeded")
    <3>1. /\ state' = "succeeded" /\ disk'[roundId] = "succeeded"
          /\ \A q \in Rounds : q # roundId => disk'[q] = disk[q]
      BY <2>1, <2>5, WriteStateIs DEF DiskStates
    <3>2. QED
      BY <2>1, <2>2, <3>1 DEF DiskAgrees, TypeOK
  <2>6. QED
    BY <2>3, <2>4, <2>5
<1>7. ASSUME NEW u \in uploads, FailUpload(u[1], u[2])
      PROVE  DiskAgrees'
  <2>1. /\ u[1] \in Rounds /\ ReportFailure(u[1])
        /\ UNCHANGED <<pointer, roundId, pc>>
    BY <1>7 DEF FailUpload, TypeOK, callVars
  <2>2. QED
    BY <2>1, ReportFailureIs DEF DiskAgrees, TypeOK
<1>8. CASE Restart
  <2>1. UNCHANGED pointer /\ state' = IF roundId' = NoRound THEN "none" ELSE disk'[roundId']
    BY <1>8 DEF Restart
  <2>2. QED
    BY <1>8, <2>1, RestartIs DEF DiskAgrees, TypeOK
<1>9. CASE Quiet
  BY <1>9 DEF Quiet, DiskAgrees
<1>10. QED
  BY <1>1, <1>2, <1>3, <1>4, <1>5, <1>6, <1>7, <1>8, <1>9, Movers

\* A recorded failure stays one of the current round.
LEMMA FailureStep ==
    ASSUME IInv, [Next]_vars
    PROVE  FailureAgrees'
<1> USE RuntimeAssumption DEF IInv, Rounds, NoRound, Terminal, OnItsWay
<1>1. CASE Publish \/ PointAtRound
  BY <1>1 DEF Publish, PointAtRound, FailureAgrees, roundVars
<1>2. CASE OpenRound
  BY <1>2 DEF OpenRound, FailureAgrees
<1>3. CASE Failing
  BY <1>3, FailingIs, FailRoundIs DEF FailureAgrees
<1>4. CASE EnterWaiting \/ CompleteRound
  BY <1>4 DEF EnterWaiting, CompleteRound, WriteState, FailureAgrees
<1>5. ASSUME NEW u \in uploads, FailUpload(u[1], u[2])
      PROVE  FailureAgrees'
  BY <1>5 DEF FailUpload, ReportFailure, WriteState, FailureAgrees
<1>6. CASE Restart
  BY <1>6 DEF Restart, FailureAgrees
<1>7. CASE Quiet
  BY <1>7 DEF Quiet, FailureAgrees
<1>8. QED
  BY <1>1, <1>2, <1>3, <1>4, <1>5, <1>6, <1>7, Movers

-----------------------------------------------------------------------------
(* The application thread *)

\* What the steps of other threads leave of it
OtherThread ==
    /\ UNCHANGED <<pc, listed, completed, operation, roundId>>
    /\ state' = state \/ (state \notin Terminal /\ state' = "failed")
    /\ \A r \in Rounds : updates[r] \subseteq updates'[r]

\* The steps of the application thread, apart from those that fail the round
ThreadStep ==
    \/ Publish \/ OpenRound \/ PointAtRound \/ InstallRound \/ StartDownlink
    \/ RecordOperation \/ DownlinkOver \/ EnterWaiting \/ LookAfterPublish
    \/ WaitForUpdates \/ CheckWait \/ LookForUpdates \/ Sleep \/ CompleteRound

\* A step is one of the calling thread, a failure, a restart, or one of the others.
LEMMA Threads ==
    ASSUME IInv, [Next]_vars
    PROVE  ThreadStep \/ Failing \/ Restart \/ OtherThread
<1> USE DEF OtherThread
<1>1. CASE \E n \in Participants : ReserveUpload(n)
  BY <1>1 DEF ReserveUpload, diskVars, roundVars, callVars
<1>2. ASSUME NEW u \in uploads, CommitUpdate(u[1], u[2])
      PROVE  OtherThread
  BY <1>2 DEF CommitUpdate, roundVars, callVars, IInv, TypeOK
<1>3. ASSUME NEW u \in uploads, FailUpload(u[1], u[2])
      PROVE  OtherThread
  BY <1>3, ReportFailureIs DEF FailUpload, callVars, IInv, TypeOK
<1>4. CASE Abort \/ AbortLooks
  BY <1>4 DEF Abort, AbortLooks, diskVars, roundVars, callVars
<1>5. ASSUME NEW c \in cancellers, EnterCancel(c) \/ TerminateUftp(c) \/ LeaveCancel(c)
      PROVE  OtherThread
  BY <1>5 DEF EnterCancel, TerminateUftp, LeaveCancel, diskVars, roundVars, callVars
<1>6. CASE UftpTerminated \/ MonitorDownlink \/ UftpExits \/ CloseTransport
  BY <1>6 DEF UftpTerminated, MonitorDownlink, UftpExits, CloseTransport, diskVars,
     roundVars, callVars
<1>7. CASE UNCHANGED vars
  BY <1>7 DEF vars, diskVars, roundVars, callVars
<1>8. QED
  BY <1>1, <1>2, <1>3, <1>4, <1>5, <1>6, <1>7
     DEF Next, CallStep, CancelStep, UploadStep, ThreadStep, Failing

\* Where the call is and what state its round has stay in agreement.
LEMMA CallStepKeeps ==
    ASSUME IInv, [Next]_vars
    PROVE  CallAgrees'
<1> USE RuntimeAssumption DEF IInv, NoRound, Terminal
<1>1. CASE Publish \/ Sleep
  BY <1>1 DEF Publish, Sleep, CallAgrees, roundVars
<1>2. CASE OpenRound
  BY <1>2 DEF OpenRound, CallAgrees, Rounds
<1>3. CASE PointAtRound \/ InstallRound \/ StartDownlink
  BY <1>3 DEF PointAtRound, InstallRound, StartDownlink, CallAgrees, roundVars
<1>4. CASE RecordOperation \/ DownlinkOver
  BY <1>4 DEF RecordOperation, DownlinkOver, CallAgrees
<1>5. CASE EnterWaiting
  BY <1>5 DEF EnterWaiting, Raise, WriteState, CallAgrees
<1>6. CASE LookAfterPublish
  <2>1. roundId \in Rounds
    BY <1>6 DEF LookAfterPublish, CallAgrees, TypeOK
  <2>2. Cardinality(Participants) \in Nat /\ Cardinality(Participants) >= MinUpdates
    BY FS_CardinalityType
  <2>3. QED
    BY <1>6, <2>1, <2>2 DEF LookAfterPublish, CallAgrees, roundVars, diskVars
<1>7. CASE WaitForUpdates \/ CheckWait
  BY <1>7 DEF WaitForUpdates, CheckWait, Raise, CallAgrees
<1>8. CASE LookForUpdates
  <2>1. Cardinality({}) = 0
    BY FS_EmptySet
  <2>2. completed \in BOOLEAN
    BY DEF TypeOK
  <2>3. ~completed => pc' = "slept"
    BY <1>8, <2>1 DEF LookForUpdates
  <2>4. completed => listed' = updates[roundId]
    BY <1>8 DEF LookForUpdates
  <2>5. pc' = "verify" => Cardinality(listed') >= MinUpdates
    BY <1>8 DEF LookForUpdates
  <2>6. pc' \in {"verify", "slept"} /\ UNCHANGED <<state, roundId, completed, operation, updates>>
    BY <1>8 DEF LookForUpdates, roundVars, diskVars
  <2>7. QED
    BY <1>8, <2>2, <2>3, <2>4, <2>5, <2>6 DEF LookForUpdates, CallAgrees
<1>9. CASE CompleteRound
  BY <1>9 DEF CompleteRound, CallAgrees
<1>10. CASE Failing
  BY <1>10, FailingIs DEF CallAgrees
<1>11. CASE Restart
  BY <1>11 DEF Restart, CallAgrees
<1>12. CASE OtherThread
  <2>1. roundId # NoRound => updates[roundId] \subseteq updates'[roundId]
    BY <1>12 DEF OtherThread, TypeOK
  <2>2. QED
    BY <1>12, <2>1 DEF OtherThread, CallAgrees
<1>13. QED
  BY <1>1, <1>2, <1>3, <1>4, <1>5, <1>6, <1>7, <1>8, <1>9, <1>10, <1>11, <1>12,
     Threads DEF ThreadStep

-----------------------------------------------------------------------------
(* The downlink *)

\* What is known of the round's downlink stays true.
LEMMA DownlinkStep ==
    ASSUME IInv, [Next]_vars
    PROVE  DownlinkAgrees'
<1> USE RuntimeAssumption DEF IInv, NoRound, Rounds, Terminal, Stopped
<1>1. CASE Publish
  BY <1>1 DEF Publish, DownlinkAgrees, TypeOK, roundVars, cancelVars, downlinkVars
<1>2. CASE OpenRound
  BY <1>2 DEF OpenRound, DownlinkAgrees, TypeOK, DiskAgrees, CallAgrees, downlinkVars
<1>3. CASE PointAtRound \/ InstallRound
  BY <1>3 DEF PointAtRound, InstallRound, DownlinkAgrees, diskVars, roundVars, cancelVars,
     downlinkVars
<1>4. CASE StartDownlink
  BY <1>4 DEF StartDownlink, DownlinkAgrees, DiskAgrees, CallAgrees, TypeOK, diskVars, roundVars,
     cancelVars
<1>5. CASE RecordOperation
  BY <1>5, CancellingIs DEF RecordOperation, DownlinkAgrees, CallAgrees, DiskAgrees, TypeOK, diskVars,
     downlinkVars
<1>6. CASE DownlinkOver
  BY <1>6 DEF DownlinkOver, DownlinkAgrees, diskVars, cancelVars, downlinkVars
<1>7. CASE EnterWaiting
  BY <1>7, WriteStateIs DEF EnterWaiting, Raise, DownlinkAgrees, DiskAgrees, CallAgrees, TypeOK, DiskStates,
     cancelVars, downlinkVars
<1>8. CASE LookAfterPublish \/ WaitForUpdates \/ CheckWait \/ LookForUpdates \/ Sleep
  BY <1>8 DEF LookAfterPublish, WaitForUpdates, CheckWait, LookForUpdates, Sleep,
     Raise, DownlinkAgrees, diskVars, roundVars, cancelVars, downlinkVars
<1>9. CASE CompleteRound
  BY <1>9, WriteStateIs DEF CompleteRound, DownlinkAgrees, DiskAgrees, CallAgrees, TypeOK, DiskStates,
     cancelVars, downlinkVars
<1>10. CASE Failing
  <2>1. /\ roundId # NoRound /\ FailRound /\ pc' = "idle"
        /\ UNCHANGED <<roundId, completed, aborted, cancellers, launched, downlink,
                       delivered, cut>>
    BY <1>10, FailingIs DEF cancelVars, downlinkVars
  <2>2. failure # NoRound => failure' # NoRound
    BY <2>1, FailRoundIs
  <2>3. \A r \in Rounds : disk[r] \notin {"none", "empty"} => disk'[r] \notin {"none", "empty"}
    BY <2>1, FailRoundIs
  <2>4. QED
    BY <2>1, <2>2, <2>3 DEF DownlinkAgrees, TypeOK
<1>11. CASE \E n \in Participants : ReserveUpload(n)
  BY <1>11 DEF ReserveUpload, DownlinkAgrees, diskVars, roundVars, cancelVars, callVars,
     downlinkVars
<1>12. ASSUME NEW u \in uploads, CommitUpdate(u[1], u[2])
       PROVE  DownlinkAgrees'
  BY <1>12 DEF CommitUpdate, DownlinkAgrees, roundVars, cancelVars, callVars,
     downlinkVars
<1>13. ASSUME NEW u \in uploads, FailUpload(u[1], u[2])
       PROVE  DownlinkAgrees'
  <2>1. u[1] \in Rounds /\ ReportFailure(u[1])
    BY <1>13 DEF FailUpload, TypeOK
  <2>2. UNCHANGED <<roundId, completed, aborted, pc, launched, downlink, delivered, cut>>
    BY <1>13 DEF FailUpload, callVars, downlinkVars
  <2>3. QED
    BY <2>1, <2>2, ReportFailureIs, CancellingIs DEF DownlinkAgrees, DiskAgrees, TypeOK
<1>14. CASE Abort \/ AbortLooks
  BY <1>14, CancellingIs DEF Abort, AbortLooks, DownlinkAgrees, DiskAgrees, CallAgrees, TypeOK, diskVars,
     roundVars, cancelVars, callVars, downlinkVars
<1>15. ASSUME NEW c \in cancellers, EnterCancel(c)
       PROVE  DownlinkAgrees'
  <2>1. \A d \in cancellers' : \E e \in cancellers : d.round = e.round
    <3> DEFINE begun == [c EXCEPT !.at = "begun"]
    <3>1. begun.round = c.round
      BY DEF TypeOK
    <3>2. cancellers' \subseteq cancellers \cup {begun}
      BY <1>15 DEF EnterCancel
    <3>3. QED
      BY <3>1, <3>2
  <2>2. UNCHANGED <<disk, roundId, failure, completed, aborted, pc, launched, downlink,
                    delivered, cut>>
    BY <1>15 DEF EnterCancel, diskVars, roundVars, callVars, downlinkVars
  <2>3. QED
    BY <2>1, <2>2 DEF DownlinkAgrees
<1>16. ASSUME NEW c \in cancellers, TerminateUftp(c) \/ LeaveCancel(c)
       PROVE  DownlinkAgrees'
  BY <1>16 DEF TerminateUftp, LeaveCancel, DownlinkAgrees, TypeOK, diskVars, roundVars,
     cancelVars, callVars, downlinkVars
<1>17. CASE UftpTerminated \/ MonitorDownlink \/ UftpExits \/ CloseTransport
  BY <1>17 DEF UftpTerminated, MonitorDownlink, UftpExits, CloseTransport,
     DownlinkAgrees, diskVars, roundVars, cancelVars, callVars
<1>18. CASE Restart
  BY <1>18, RestartIs DEF Restart, DownlinkAgrees, DownlinkBarrier, TypeOK
<1>19. CASE UNCHANGED vars
  BY <1>19 DEF vars, DownlinkAgrees, diskVars, roundVars, cancelVars, callVars,
     downlinkVars
<1>20. QED
  BY <1>1, <1>2, <1>3, <1>4, <1>5, <1>6, <1>7, <1>8, <1>9, <1>10, <1>11, <1>12,
     <1>13, <1>14, <1>15, <1>16, <1>17, <1>18, <1>19
     DEF Next, CallStep, CancelStep, UploadStep, Failing

-----------------------------------------------------------------------------
(* What the disk says *)

\* A wait succeeds only with the quota there.
LEMMA QuotaStep ==
    ASSUME IInv, [Next]_vars
    PROVE  SuccessMeansQuota'
<1> USE DEF IInv, SuccessMeansQuota
<1>1. CASE Publish \/ PointAtRound
  BY <1>1 DEF Publish, PointAtRound, TypeOK
<1>2. CASE OpenRound
  BY <1>2 DEF OpenRound, TypeOK
<1>3. CASE Failing
  BY <1>3, FailingIs, FailRoundIs DEF TypeOK
<1>4. CASE EnterWaiting
  BY <1>4, WriteStateIs DEF EnterWaiting, CallAgrees, TypeOK, DiskStates
<1>5. CASE CompleteRound
  BY <1>5, WriteStateIs DEF CompleteRound, CallAgrees, TypeOK, DiskStates
<1>6. ASSUME NEW u \in uploads, FailUpload(u[1], u[2])
      PROVE  SuccessMeansQuota'
  BY <1>6, ReportFailureIs DEF FailUpload, TypeOK
<1>7. CASE Restart
  BY <1>7, RestartIs DEF Restart, TypeOK
<1>8. CASE Quiet
  BY <1>8 DEF Quiet
<1>9. QED
  BY <1>1, <1>2, <1>3, <1>4, <1>5, <1>6, <1>7, <1>8, Movers

\* A round waits for updates only with its model delivered, or its downlink cut off.
LEMMA BarrierStep ==
    ASSUME IInv, [Next]_vars
    PROVE  DownlinkBarrier'
<1> USE DEF IInv, DownlinkBarrier
<1>1. CASE Publish \/ PointAtRound
  BY <1>1 DEF Publish, PointAtRound, TypeOK, downlinkVars
<1>2. CASE OpenRound
  BY <1>2 DEF OpenRound, TypeOK, downlinkVars
<1>3. CASE Failing
  BY <1>3, FailingIs, FailRoundIs DEF TypeOK, downlinkVars
<1>4. CASE EnterWaiting
  <2>1. aborted = "no" /\ failure = NoRound => roundId \in delivered \cup cut
    BY <1>4 DEF EnterWaiting, DownlinkAgrees, Stopped
  <2>2. QED
    BY <1>4, <2>1, WriteStateIs DEF EnterWaiting, CallAgrees, TypeOK, DiskStates, downlinkVars
<1>5. CASE CompleteRound
  BY <1>5, WriteStateIs DEF CompleteRound, CallAgrees, DownlinkAgrees, TypeOK, DiskStates, downlinkVars
<1>6. ASSUME NEW u \in uploads, FailUpload(u[1], u[2])
      PROVE  DownlinkBarrier'
  BY <1>6, ReportFailureIs DEF FailUpload, TypeOK, downlinkVars
<1>7. CASE Restart
  BY <1>7, RestartIs DEF Restart, TypeOK
<1>8. CASE Quiet
  BY <1>8 DEF Quiet
<1>9. QED
  BY <1>1, <1>2, <1>3, <1>4, <1>5, <1>6, <1>7, <1>8, Movers

-----------------------------------------------------------------------------
(* The theorems *)

\* The invariant holds for a Runtime that was just made.
LEMMA IInvInit == Init => IInv
<1> SUFFICES ASSUME Init PROVE IInv
  OBVIOUS
<1>1. TypeOK
  BY TypeInit
<1>2. DiskAgrees /\ FailureAgrees
  BY DEF Init, DiskAgrees, FailureAgrees, OnItsWay, NoRound
<1>3. CallAgrees /\ DownlinkAgrees
  BY DEF Init, CallAgrees, DownlinkAgrees, NoRound
<1>4. SuccessMeansQuota /\ DownlinkBarrier
  BY DEF Init, SuccessMeansQuota, DownlinkBarrier
<1>5. QED
  BY <1>1, <1>2, <1>3, <1>4 DEF IInv

\* Every step keeps the invariant.
LEMMA IInvStep == IInv /\ [Next]_vars => IInv'
  BY TypeStep, DiskStep, FailureStep, CallStepKeeps, DownlinkStep, QuotaStep,
     BarrierStep DEF IInv

\* The invariant holds in every reachable state.
LEMMA InvariantHolds == Spec => []IInv
  BY IInvInit, IInvStep, PTL DEF Spec

\* Whatever threads and crashes do, the variables keep their types.
THEOREM RuntimeTypes == Spec => []TypeOK
<1>1. IInv => TypeOK
  BY DEF IInv
<1>2. QED
  BY <1>1, InvariantHolds, PTL

\* For any number of rounds and any crashes between them: recovery can tell which
\* round was current (recover_round_states).
THEOREM OneRoundIsActive == Spec => []OneActiveRound
<1>1. IInv => OneActiveRound
  <2> SUFFICES ASSUME IInv, NEW q \in Rounds, NEW r \in Rounds,
                      disk[q] \notin Terminal \cup {"none"},
                      disk[r] \notin Terminal \cup {"none"}
               PROVE  q = r
    BY DEF OneActiveRound
  <2>1. disk[q] \in OnItsWay \cup {"empty"} /\ disk[r] \in OnItsWay \cup {"empty"}
    BY DEF IInv, TypeOK, DiskStates, Terminal, OnItsWay
  <2>2. disk[q] = "empty" => disk[r] = "empty"
    BY <2>1 DEF IInv, DiskAgrees, OnItsWay, Terminal, Rounds, NoRound
  <2>3. disk[r] = "empty" => disk[q] = "empty"
    BY <2>1 DEF IInv, DiskAgrees, OnItsWay, Terminal, Rounds, NoRound
  <2>4. QED
    BY <2>1, <2>2, <2>3 DEF IInv, DiskAgrees
<1>2. QED
  BY <1>1, InvariantHolds, PTL

\* For any quota: a round that has succeeded has its updates on the disk, whatever
\* is uploaded or reported while they are looked at (_complete_round_if_ready).
THEOREM SuccessHasQuota == Spec => []SuccessMeansQuota
<1>1. IInv => SuccessMeansQuota
  BY DEF IInv
<1>2. QED
  BY <1>1, InvariantHolds, PTL

\* A round passes the barrier only with its model delivered to all, although a
\* cancelled downlink ends without an error too, unless the Transport was closed
\* while the model was on its way (_publish_model, ServerTransport.close).
THEOREM BarrierHolds == Spec => []DownlinkBarrier
<1>1. IInv => DownlinkBarrier
  BY DEF IInv
<1>2. QED
  BY <1>1, InvariantHolds, PTL

\* A late upload of an earlier round does not fail the current one
\* (report_update_failure).
THEOREM FailureIsOfThisRound == Spec => []FailureIsOwn
<1>1. IInv => FailureIsOwn
  BY DEF IInv, FailureAgrees, FailureIsOwn
<1>2. QED
  BY <1>1, InvariantHolds, PTL

\* What a round has ended with is never written over, neither by late uploads and
\* reports nor by recovery (recover_round_states, _fail_round).
THEOREM EndedStaysEnded == Spec => TerminalFinal
<1> DEFINE Final == \A r \in Rounds : disk[r] \in Terminal =>
                        disk'[r] = disk[r] /\ committed'[r] = committed[r]
<1>1. ASSUME IInv, [Next]_vars
      PROVE  Final
  <2> USE <1>1 DEF IInv, Terminal
  <2>1. CASE Publish \/ PointAtRound
    BY <2>1 DEF Publish, PointAtRound, TypeOK
  <2>2. CASE OpenRound
    BY <2>2 DEF OpenRound, TypeOK
  <2>3. CASE Failing
    BY <2>3, FailingIs, FailRoundIs DEF DiskAgrees, FailureAgrees
  <2>4. CASE EnterWaiting
    BY <2>4, WriteStateIs DEF EnterWaiting, CallAgrees, DiskAgrees, FailureAgrees,
       DiskStates, NoRound
  <2>5. CASE CompleteRound
    <3>1. roundId # NoRound /\ disk[roundId] = state /\ state # "succeeded"
      BY <2>5 DEF CompleteRound, CallAgrees, DiskAgrees
    <3>2. state = "failed" => failure # NoRound
      BY <3>1 DEF FailureAgrees
    <3>3. QED
      BY <2>5, <3>1, <3>2, WriteStateIs DEF CompleteRound, TypeOK, DiskStates
  <2>6. ASSUME NEW u \in uploads, FailUpload(u[1], u[2])
        PROVE  Final
    <3>1. u[1] \in Rounds /\ ReportFailure(u[1]) /\ UNCHANGED committed
      BY <2>6 DEF FailUpload, TypeOK
    <3>2. \/ UNCHANGED disk
          \/ state \notin Terminal /\ \A q \in Rounds : q # roundId => disk'[q] = disk[q]
      BY <3>1, ReportFailureIs
    <3>3. \A r \in Rounds : r = roundId => disk[r] = state
      BY RuntimeAssumption DEF DiskAgrees, Rounds, NoRound
    <3>4. QED
      BY <3>1, <3>2, <3>3
  <2>7. CASE Restart
    BY <2>7, RestartIs DEF Restart, OnItsWay
  <2>8. CASE Quiet
    BY <2>8 DEF Quiet
  <2>9. QED
    BY <2>1, <2>2, <2>3, <2>4, <2>5, <2>6, <2>7, <2>8, <1>1, Movers
<1>2. QED
  BY <1>1, InvariantHolds, PTL DEF Spec, TerminalFinal

-----------------------------------------------------------------------------
(* Cancellation *)

\* At the start there is nothing to cancel.
LEMMA CancelInit == Init => CancelAgrees
  BY DEF Init, CancelAgrees, FailureCancels

\* A failed round in its downlink keeps a thread that is to cancel it, until one of
\* an earlier round gets in between.
LEMMA CancelKeeps ==
    ASSUME IInv, CancelAgrees, [Next]_vars
    PROVE  CancelAgrees'
<1> USE DEF IInv, CancelAgrees, FailureCancels
<1>1. CASE Publish \/ EnterWaiting \/ Failing
  <2>1. /\ pc' \in {"made", "published", "idle"}
        /\ UNCHANGED <<cancellers, roundId>>
    BY <1>1, FailingIs DEF Publish, EnterWaiting, Raise, roundVars, cancelVars
  <2>2. QED
    BY <2>1
<1>2. CASE OpenRound
  <2>1. /\ pc' = "opened" /\ ~cancelFinished' /\ UNCHANGED cancellers
        /\ roundId' \in Rounds /\ disk[roundId'] = "empty"
    BY <1>2 DEF OpenRound
  <2>2. \A c \in cancellers' : c.round # roundId'
    BY <2>1 DEF DownlinkAgrees
  <2>3. QED
    BY <2>1, <2>2
<1>3. CASE PointAtRound \/ InstallRound \/ StartDownlink
  BY <1>3 DEF PointAtRound, InstallRound, StartDownlink, roundVars, cancelVars
<1>4. CASE RecordOperation
  BY <1>4, CancellingIs DEF RecordOperation, CallAgrees
<1>5. CASE DownlinkOver
  BY <1>5 DEF DownlinkOver, cancelVars
<1>6. CASE LookAfterPublish \/ WaitForUpdates \/ CheckWait \/ LookForUpdates \/ Sleep
           \/ CompleteRound
  <2>1. /\ pc' \in {"confirm", "idle", "waiting", "look", "verify", "slept"}
        /\ UNCHANGED <<cancellers, roundId>>
    BY <1>6 DEF LookAfterPublish, WaitForUpdates, CheckWait, LookForUpdates, Sleep,
       CompleteRound, Raise, roundVars, cancelVars
  <2>2. QED
    BY <2>1
<1>7. ASSUME NEW n \in Participants, ReserveUpload(n)
      PROVE  CancelAgrees'
  BY <1>7 DEF ReserveUpload, roundVars, cancelVars, callVars, downlinkVars
<1>8. ASSUME NEW u \in uploads, CommitUpdate(u[1], u[2])
      PROVE  CancelAgrees'
  BY <1>8 DEF CommitUpdate, roundVars, cancelVars, callVars, downlinkVars
<1>9. ASSUME NEW u \in uploads, FailUpload(u[1], u[2])
      PROVE  CancelAgrees'
  <2>1. u[1] \in Rounds /\ ReportFailure(u[1])
    BY <1>9 DEF FailUpload, TypeOK
  <2>2. UNCHANGED <<roundId, operation, cancelFinished, overtaken, pc, launched, downlink>>
    BY <1>9 DEF FailUpload, callVars, downlinkVars
  <2>3. CASE UNCHANGED <<failure, state, disk, cancellers>>
    BY <2>2, <2>3
  <2>4. CASE u[1] = roundId /\ operation /\ Cancelling("reporter")
    BY <2>2, <2>4, CancellingIs, RuntimeAssumption DEF CallAgrees, TypeOK
  <2>5. CASE u[1] = roundId /\ ~operation /\ UNCHANGED cancellers
    BY <2>2, <2>5 DEF CallAgrees
  <2>6. QED
    BY <2>1, <2>3, <2>4, <2>5, ReportFailureIs
<1>10. CASE Abort \/ AbortLooks
  <2>1. UNCHANGED <<roundId, failure, operation, cancelFinished, overtaken, pc,
                    launched, downlink>>
    BY <1>10 DEF Abort, AbortLooks, roundVars, cancelVars, callVars, downlinkVars
  <2>2. CASE UNCHANGED cancellers
    BY <2>1, <2>2
  <2>3. CASE operation /\ Cancelling("abort")
    BY <2>1, <2>3, CancellingIs DEF CallAgrees
  <2>4. QED
    BY <1>10, <2>2, <2>3 DEF Abort, AbortLooks, cancelVars
<1>11. ASSUME NEW c \in cancellers, EnterCancel(c)
       PROVE  CancelAgrees'
  <2> DEFINE begun == [c EXCEPT !.at = "begun"]
  <2>1. begun.round = c.round
    BY DEF TypeOK
  <2>2. UNCHANGED <<roundId, failure, cancelFinished, overtaken, pc, launched, downlink>>
    BY <1>11 DEF EnterCancel, roundVars, callVars, downlinkVars
  <2>3. CASE cancelFinished
    BY <1>11, <2>2, <2>3 DEF EnterCancel
  <2>4. CASE ~cancelFinished
    <3>1. cancellers' = (cancellers \ {c}) \cup {begun}
      BY <1>11, <2>4 DEF EnterCancel
    <3>2. QED
      BY <2>1, <2>2, <3>1
  <2>5. QED
    BY <2>3, <2>4
<1>12. ASSUME NEW c \in cancellers, TerminateUftp(c)
       PROVE  CancelAgrees'
  BY <1>12 DEF TerminateUftp, roundVars, cancelVars, callVars
<1>13. ASSUME NEW c \in cancellers, LeaveCancel(c)
       PROVE  CancelAgrees'
  <2>1. /\ cancellers' = cancellers \ {c}
        /\ c.round # roundId => overtaken'
        /\ overtaken => overtaken'
        /\ c.round # launched \/ downlink \in {"ended", "error"}
        /\ UNCHANGED <<roundId, failure, pc, launched, downlink>>
    BY <1>13 DEF LeaveCancel, roundVars, callVars, downlinkVars
  <2>2. pc = "downlink" => launched = roundId
    BY DEF DownlinkAgrees
  <2>3. QED
    BY <2>1, <2>2
<1>14. CASE UftpTerminated \/ MonitorDownlink \/ UftpExits
  BY <1>14 DEF UftpTerminated, MonitorDownlink, UftpExits, roundVars, cancelVars, callVars
<1>15. CASE CloseTransport
  BY <1>15 DEF CloseTransport, roundVars, cancelVars, callVars
<1>16. CASE Restart
  BY <1>16 DEF Restart
<1>17. CASE UNCHANGED vars
  BY <1>17 DEF vars, roundVars, cancelVars, callVars, downlinkVars
<1>18. QED
  BY <1>1, <1>2, <1>3, <1>4, <1>5, <1>6, <1>7, <1>8, <1>9, <1>10, <1>11, <1>12,
     <1>13, <1>14, <1>15, <1>16, <1>17
     DEF Next, CallStep, CancelStep, UploadStep, Failing

\* A failure that is reported while the downlink is being started, recorded or
\* waited for is never lost: someone goes to cancel it, unless a thread that was to
\* cancel an earlier round comes through in this one (report_update_failure,
\* _publish_model, _cancel_downlink).
THEOREM CancelIsOnItsWay == Spec => []CancelReaches
<1>1. Init => IInv /\ CancelAgrees
  BY IInvInit, CancelInit
<1>2. (IInv /\ CancelAgrees) /\ [Next]_vars => (IInv /\ CancelAgrees)'
  BY IInvStep, CancelKeeps
<1>3. IInv /\ CancelAgrees => CancelReaches
  BY DEF CancelAgrees, CancelReaches
<1>4. QED
  BY <1>1, <1>2, <1>3, PTL DEF Spec
=============================================================================
