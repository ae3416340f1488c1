-------------------------- MODULE CoordinatorProofs --------------------------
(***************************************************************************)
(* Proofs about Coordinator, for any number of rounds and an abort that    *)
(* overlaps the run in any way: abort() is refused once the outcome is     *)
(* decided, and while it holds the lock the thread cannot decide, but for  *)
(* the failure of a job without a model.  So the summary agrees with what  *)
(* is reported, and the daemon sees one outcome at most.                   *)
(***************************************************************************)
EXTENDS Coordinator, TLAPS

\* The thread has failed, or has decided for any outcome.
Failing == {"saveFailure", "raised", "failed"}
Decided == {"saveSuccess", "returned", "completed", "over"} \cup Failing

\* SummaryAgrees with the way to it.  The first two conjuncts tie ABORTED to the
\* stop event and, once the lock is free, to the summary; the third keeps abort()
\* and the decision apart; the others follow the decision to the report.
CoordInv ==
    /\ state = "ABORTED" \/ aborting \in {"signalled", "marked", "told"} => stop
    /\ state = "ABORTED" /\ ~Locked /\ pc \notin Failing => summary = "aborted"
    /\ Locked /\ pc \in Decided => pc = "saveFailure" /\ missing
    /\ pc \in {"saveSuccess", "completed"} => state = "SUCCEEDED"
    /\ pc = "returned" => state = "ABORTED" \/ (state = "SUCCEEDED" /\ summary = "succeeded")
    /\ pc = "over" => state = "ABORTED"
    /\ pc \in Failing => state = "FAILED" \/ (missing /\ state = "ABORTED")
    /\ pc = "raised" => summary = "failed"
    /\ SummaryAgrees

\* A job starts with nothing decided.
LEMMA CoordInvInit == Init => CoordInv
  BY DEF Init, CoordInv, SummaryAgrees, Outcomes, Decided, Failing

\* abort() is refused once the outcome is decided.
LEMMA CoordEnters ==
    ASSUME CoordInv, AbortEnters
    PROVE  /\ CoordInv'
           /\ pc \notin Decided
<1>1. pc \notin Decided
  BY DEF AbortEnters, Final, CoordInv, SummaryAgrees, StateOf, Outcomes, Decided, Failing
<1>2. QED
  BY <1>1 DEF AbortEnters, CoordInv, SummaryAgrees, Outcomes, Decided, Failing, Locked

\* What abort() does with the lock: the thread is decided only if its job has no model.
LEMMA CoordGoesOn ==
    ASSUME CoordInv, AbortGoesOn
    PROVE  /\ CoordInv'
           /\ pc \in Decided => pc = "saveFailure"
<1> USE DEF CoordInv, SummaryAgrees, Outcomes, Decided, Failing, Locked
<1>1. Locked
  BY DEF AbortGoesOn, AbortSignals, AbortMarks, AbortTells, AbortLeaves
<1>2. pc \in Decided => pc = "saveFailure" /\ missing
  BY <1>1
<1>3. CASE AbortSignals
  BY <1>2, <1>3 DEF AbortSignals
<1>4. CASE AbortMarks
  BY <1>2, <1>4 DEF AbortMarks
<1>5. CASE AbortTells
  BY <1>2, <1>5 DEF AbortTells
<1>6. CASE AbortLeaves
  BY <1>2, <1>6 DEF AbortLeaves
<1>7. QED
  BY <1>2, <1>3, <1>4, <1>5, <1>6 DEF AbortGoesOn

\* The steps of the coordinator's thread.
LEMMA CoordRun ==
    ASSUME CoordInv, Run
    PROVE  CoordInv'
<1> USE DEF CoordInv, SummaryAgrees, Outcomes, Decided, Failing, Locked, abortVars
<1>1. CASE Start
  BY <1>1 DEF Start
<1>2. CASE FindModel
  BY <1>2 DEF FindModel
<1>3. CASE NextRound
  BY <1>3 DEF NextRound
<1>4. ASSUME NEW at, NEW s, NEW then, SetState(at, s, then),
             at \notin Decided, then \notin Decided, s \notin {"ABORTED"}
      PROVE  CoordInv'
  BY <1>4 DEF SetState
<1>5. CASE Published \/ UpdatesArrive \/ SkipWait
  BY <1>5 DEF Published, UpdatesArrive, SkipWait
<1>6. ASSUME NEW at, NEW then, CheckStop(at, then), at \notin Decided, then \notin Decided
      PROVE  CoordInv'
  BY <1>6 DEF CheckStop
<1>7. CASE Aggregate \/ Raise
  BY <1>7 DEF Aggregate, Raise
<1>8. CASE Decide("succeed", "SUCCEEDED", "saveSuccess")
  BY <1>8 DEF Decide
<1>9. CASE Decide("caught", "FAILED", "saveFailure")
  BY <1>9 DEF Decide
<1>10. CASE SaveSummary("saveSuccess", "succeeded", "returned")
  BY <1>10 DEF SaveSummary
<1>11. CASE SaveSummary("saveFailure", "failed", "raised")
  BY <1>11 DEF SaveSummary
<1>12. CASE Report
  BY <1>12 DEF Report, StatusOf, StateOf
<1>13. QED
  BY <1>1, <1>2, <1>3, <1>4, <1>5, <1>6, <1>7, <1>8, <1>9, <1>10, <1>11, <1>12 DEF Run

\* Every step of the job, an abort included, keeps the invariant.
LEMMA CoordNext ==
    ASSUME CoordInv, [Next]_vars
    PROVE  CoordInv'
<1>1. CASE AbortEnters
  BY <1>1, CoordEnters
<1>2. CASE AbortGoesOn
  BY <1>2, CoordGoesOn
<1>3. CASE Run
  BY <1>3, CoordRun
<1>4. CASE UNCHANGED vars
  BY <1>4 DEF vars, abortVars, CoordInv, SummaryAgrees, Locked
<1>5. CASE Done
  BY <1>5, <1>4 DEF Done
<1>6. QED
  BY <1>1, <1>2, <1>3, <1>4, <1>5 DEF Next

\* The invariant holds in every run of a job.
LEMMA CoordInductive == Spec => []CoordInv
<1>1. CoordInv /\ [Next]_vars => CoordInv'
  BY CoordNext
<1>2. QED
  BY <1>1, CoordInvInit, PTL DEF Spec

\* However abort() overlaps the run, and for any number of rounds, the summary of a
\* job that is over has the status of the outcome reported, and the coordinator shows
\* that outcome too, unless abort() has marked a job that had no model (run, abort,
\* _finalize_summary).
THEOREM SummaryIsRight == Spec => []SummaryAgrees
<1>1. CoordInv => SummaryAgrees
  BY DEF CoordInv
<1>2. QED
  BY <1>1, CoordInductive, PTL

-----------------------------------------------------------------------------
(* The daemon's view of the thread *)

\* Before the decision the thread is seen running, or aborting once it was told so;
\* then as the outcome it has decided for.
LEMMA SeenBefore ==
    /\ pc \notin Decided => Thread = IF stop THEN "aborting" ELSE "running"
    /\ pc \in Failing => Thread = "failed"
    /\ pc \in {"saveSuccess", "completed"} => Thread = "completed"
    /\ pc = "returned" => Thread = IF state = "SUCCEEDED" THEN "completed" ELSE "over"
    /\ pc = "over" => Thread = "over"
  BY DEF Thread, Decided, Failing

\* As SeenBefore, of the state after a step
LEMMA SeenAfter ==
    /\ pc' \notin Decided => Thread' = IF stop' THEN "aborting" ELSE "running"
    /\ pc' \in Failing => Thread' = "failed"
    /\ pc' \in {"saveSuccess", "completed"} => Thread' = "completed"
    /\ pc' = "returned" => Thread' = IF state' = "SUCCEEDED" THEN "completed" ELSE "over"
    /\ pc' = "over" => Thread' = "over"
  BY DEF Thread, Decided, Failing

\* abort() tells a running thread to abort, and changes nothing for any other.
LEMMA AbortIsSeen ==
    ASSUME CoordInv, AbortEnters \/ AbortGoesOn
    PROVE  Job!Abort \/ Thread' = Thread
<1>1. pc' = pc /\ (stop => stop')
  BY DEF AbortEnters, AbortGoesOn, AbortSignals, AbortMarks, AbortTells, AbortLeaves
<1>2. pc \in Decided => pc = "saveFailure"
  BY CoordEnters, CoordGoesOn
<1>3. CASE pc = "saveFailure"
  BY <1>1, <1>3, SeenBefore, SeenAfter DEF Failing
<1>4. CASE pc \notin Decided
  <2>1. Thread = IF stop THEN "aborting" ELSE "running"
    BY <1>4, SeenBefore
  <2>2. Thread' = IF stop' THEN "aborting" ELSE "running"
    BY <1>1, <1>4, SeenAfter
  <2>3. QED
    BY <1>1, <2>1, <2>2 DEF Job!Abort
<1>5. QED
  BY <1>2, <1>3, <1>4

\* A step of the thread is not seen unless it decides the outcome.
LEMMA RunIsSeen ==
    ASSUME CoordInv, Run
    PROVE  Job!Ends \/ Job!GivesUp \/ Thread' = Thread
<1>1. ASSUME pc \notin Decided, pc' \notin Decided, stop' = stop
      PROVE  Thread' = Thread
  BY <1>1, SeenBefore, SeenAfter
<1>2. ASSUME pc \notin Decided, pc' \in {"saveSuccess", "saveFailure"}
      PROVE  Job!Ends
  <2>1. Thread' \in {"completed", "failed"}
    BY <1>2, SeenAfter DEF Failing
  <2>2. Thread \in {"running", "aborting"}
    BY <1>2, SeenBefore
  <2>3. QED
    BY <2>1, <2>2 DEF Job!Ends
<1>3. ASSUME pc \notin Decided, pc' = "returned", state = "ABORTED", state' = state
      PROVE  Job!GivesUp
  <2>1. Thread' = "over"
    BY <1>3, SeenAfter
  <2>2. stop
    BY <1>3 DEF CoordInv
  <2>3. Thread = "aborting"
    BY <1>3, <2>2, SeenBefore
  <2>4. QED
    BY <2>1, <2>3 DEF Job!GivesUp
<1> USE DEF Decided, Failing, abortVars
<1>4. CASE Start
  BY <1>1, <1>3, <1>4 DEF Start
<1>5. CASE FindModel
  BY <1>1, <1>2, <1>5 DEF FindModel
<1>6. CASE NextRound
  BY <1>1, <1>6 DEF NextRound
<1>7. ASSUME NEW at, NEW s, NEW then, SetState(at, s, then),
             at \notin Decided, then \notin Decided
      PROVE  Thread' = Thread
  BY <1>1, <1>7 DEF SetState
<1>8. CASE Published \/ UpdatesArrive \/ SkipWait
  BY <1>1, <1>8 DEF Published, UpdatesArrive, SkipWait
<1>9. ASSUME NEW at, NEW then, CheckStop(at, then), at \notin Decided, then \notin Decided
      PROVE  Thread' = Thread
  BY <1>1, <1>9 DEF CheckStop
<1>10. CASE Aggregate \/ Raise
  BY <1>1, <1>10 DEF Aggregate, Raise
<1>11. ASSUME NEW at, NEW s, NEW then, Decide(at, s, then),
              at \notin Decided, then \in {"saveSuccess", "saveFailure"}
       PROVE  Job!Ends \/ Job!GivesUp
  BY <1>2, <1>3, <1>11 DEF Decide
<1>12. CASE SaveSummary("saveSuccess", "succeeded", "returned")
  <2>1. state' = state /\ state = "SUCCEEDED"
    BY <1>12 DEF SaveSummary, CoordInv
  <2>2. QED
    BY <1>12, <2>1, SeenBefore, SeenAfter DEF SaveSummary
<1>13. CASE SaveSummary("saveFailure", "failed", "raised")
  BY <1>13, SeenBefore, SeenAfter DEF SaveSummary
<1>14. CASE Report
  BY <1>14, SeenBefore, SeenAfter DEF Report
<1>15. QED
  BY <1>4, <1>5, <1>6, <1>7, <1>8, <1>9, <1>10, <1>11, <1>12, <1>13, <1>14 DEF Run

\* With all its phases, and an abort that overlaps any of them, the coordinator is the
\* thread that the daemon takes it for (start, _run_wrapper, abort).
THEOREM IsJobThread == Spec => KeepsToJobThread
<1>1. Init => Job!Init
  BY DEF Init, Job!Init, Thread
<1>2. CoordInv /\ [Next]_vars => [Job!Next]_Thread
  <2> SUFFICES ASSUME CoordInv, [Next]_vars PROVE Job!Next \/ Thread' = Thread
    BY DEF Job!Next
  <2>1. CASE AbortEnters \/ AbortGoesOn
    BY <2>1, AbortIsSeen DEF Job!Next
  <2>2. CASE Run
    BY <2>2, RunIsSeen DEF Job!Next
  <2>3. CASE UNCHANGED vars
    BY <2>3 DEF vars, abortVars, Thread
  <2>4. CASE Done
    BY <2>3, <2>4 DEF Done
  <2>5. QED
    BY <2>1, <2>2, <2>3, <2>4 DEF Next
<1>3. QED
  BY <1>1, <1>2, CoordInductive, PTL DEF Spec, KeepsToJobThread, Job!Spec

-----------------------------------------------------------------------------
\* A round that is under way is one that the job still has.
RoundsInv ==
    /\ TypeOK
    /\ pc \in {"toPublish", "publish", "published", "toWait", "wait", "collected",
               "toAggregate", "aggregate"} => rounds < RoundsTotal

\* Every step of the job keeps the types.
LEMMA RoundsNext ==
    ASSUME RoundsInv, [Next]_vars
    PROVE  RoundsInv'
<1> USE RoundsAssumption DEF RoundsInv, TypeOK, States, Outcomes, abortVars
<1>1. CASE AbortEnters \/ AbortGoesOn
  <2>1. CASE AbortSignals
    <3>1. stop' \in BOOLEAN
      BY <2>1 DEF AbortSignals
    <3>2. QED
      BY <2>1, <3>1 DEF AbortSignals
  <2>2. CASE AbortTells
    <3>1. told' \in BOOLEAN
      BY <2>2 DEF AbortTells
    <3>2. QED
      BY <2>2, <3>1 DEF AbortTells
  <2>3. CASE AbortEnters \/ AbortMarks \/ AbortLeaves
    BY <2>3 DEF AbortEnters, AbortMarks, AbortLeaves
  <2>4. QED
    BY <1>1, <2>1, <2>2, <2>3 DEF AbortGoesOn
<1>2. CASE Start
  BY <1>2 DEF Start
<1>3. CASE FindModel \/ Published \/ UpdatesArrive \/ Raise
  <2>1. CASE FindModel
    <3>1. missing' \in BOOLEAN
      BY <2>1 DEF FindModel
    <3>2. QED
      BY <2>1, <3>1 DEF FindModel
  <2>2. CASE Published \/ UpdatesArrive \/ Raise
    BY <2>2 DEF Published, UpdatesArrive, Raise
  <2>3. QED
    BY <1>3, <2>1, <2>2
<1>4. CASE NextRound
  BY <1>4 DEF NextRound
<1>5. CASE SetState("toPublish", "PUBLISHING", "publish")
  BY <1>5 DEF SetState
<1>6. CASE SetState("toWait", "WAITING_UPDATES", "wait")
  BY <1>6 DEF SetState
<1>7. CASE SetState("toAggregate", "AGGREGATING", "aggregate")
  BY <1>7 DEF SetState
<1>8. CASE CheckStop("published", "toWait") \/ CheckStop("collected", "toAggregate")
  BY <1>8 DEF CheckStop
<1>9. CASE SkipWait \/ Aggregate
  BY <1>9 DEF SkipWait, Aggregate
<1>10. CASE Decide("succeed", "SUCCEEDED", "saveSuccess")
              \/ Decide("caught", "FAILED", "saveFailure")
  BY <1>10 DEF Decide
<1>11. CASE SaveSummary("saveSuccess", "succeeded", "returned")
              \/ SaveSummary("saveFailure", "failed", "raised") \/ Report
  BY <1>11 DEF SaveSummary, Report
<1>12. CASE Done \/ UNCHANGED vars
  BY <1>12 DEF Done, vars
<1>13. QED
  BY <1>1, <1>2, <1>3, <1>4, <1>5, <1>6, <1>7, <1>8, <1>9, <1>10, <1>11, <1>12
     DEF Next, Run

\* The state of a job keeps its types, and never more rounds are recorded than the
\* job has, in either kind of loop.
THEOREM CoordinatorTypes == Spec => []TypeOK
<1>1. Init => RoundsInv
  <2> SUFFICES ASSUME Init PROVE RoundsInv
    OBVIOUS
  <2>1. stop \in BOOLEAN /\ told \in BOOLEAN /\ missing \in BOOLEAN
    BY DEF Init
  <2>2. rounds \in 0..RoundsTotal
    BY RoundsAssumption DEF Init
  <2>3. QED
    BY <2>1, <2>2 DEF Init, RoundsInv, TypeOK, States
<1>2. RoundsInv /\ [Next]_vars => RoundsInv'
  BY RoundsNext
<1>3. RoundsInv => TypeOK
  BY DEF RoundsInv
<1>4. QED
  BY <1>1, <1>2, <1>3, PTL DEF Spec

=============================================================================
