------------------------- MODULE JobLifecycleProofs -------------------------
(***************************************************************************)
(* Proofs about ServerDaemon and JobLifecycle, for any number of jobs and  *)
(* of disturbances:                                                        *)
(*  - a server that takes requests has let go of everything (IdleIsFree);  *)
(*  - what is recorded and told of a job is that job's own outcome         *)
(*    (OutcomeIsOwn);                                                      *)
(*  - a server that is stopped stays stopped (StoppedStays);               *)
(*  - at the client the task and the idle link exclude each other          *)
(*    (OneLink), rounds begin only with the task (RunsWithTask), and only  *)
(*    its own terminal message ends it (OwnTerminal).                      *)
(*                                                                         *)
(* The engine's state stands for the owner of the engine: EngineOK and     *)
(* JobsOK say which state goes with what, and that at most one job is      *)
(* about to end at any time.                                               *)
(***************************************************************************)
EXTENDS JobLifecycle, FiniteSetTheorems, TLAPS

EngineStates == {"IDLE", "RUNNING", "ABORTING", "SWITCHING_RADIO", "SURVEYING",
                 "RADIO_ERROR", "STOPPED"}
ThreadStates == {"none", "running", "aborting", "completed", "failed", "over"}
FinPlaces == {"none", "abort", "close", "check", "stopLink", "startLink", "tell",
              "last", "done"}
Outcomes == {"none", "completed", "failed", "aborted"}
RecentType == [job : 0..MaxJobs, result : {"none", "succeeded", "failed", "aborted"},
               recovery : {"none", "recovering", "ready", "blocked"}]
MessageType == [type : {"TASK_ANNOUNCE", "JOB_COMPLETED", "JOB_ABORT"}, job : Jobs]
Links == {"none", "up", "dead"}
FinType == [pc : FinPlaces, outcome : Outcomes, err : BOOLEAN]

DaemonTypes ==
    /\ engine \in EngineStates /\ active \in 0..MaxJobs /\ recent \in RecentType
    /\ starting \in 0..MaxJobs /\ ready \in BOOLEAN
    /\ thread \in [Jobs -> ThreadStates]
    /\ roles \subseteq Jobs /\ link \in Links
    /\ fin \in [Jobs -> FinType]
    /\ op \in {"none", "switch", "applied", "failed", "survey"}
    /\ stop \in {"no", "begun", "deaf", "link", "done"}
    /\ stopJob \in 0..MaxJobs
    /\ wire \in Seq(MessageType)
    /\ disturbances \in 0..MaxDisturbances

ClientTypes ==
    /\ iface \in BOOLEAN /\ alive \in BOOLEAN /\ idle \in BOOLEAN
    /\ proc \in 0..MaxJobs /\ cur \in 0..MaxJobs /\ waiting \in 0..MaxJobs
    /\ mode \in {"off", "IDLE", "HUNTING", "PREPARING", "RUNNING"}
    /\ loop \in {"ensure", "startLink", "check", "report", "again", "lost"}
    /\ begun \subseteq Jobs

\* Jobs that have been started: the next one is fresh.
Used == {i \in Jobs : thread[i] # "none" \/ fin[i].pc # "none"}

Numbered == \E k \in 0..MaxJobs :
    Used = 1..k /\ (starting # None => starting = k + 1)

\* Which state of the engine goes with what
EngineOK ==
    /\ Stopping => engine = "STOPPED"
    /\ stopJob # None => Stopping
    /\ engine = "IDLE" => active = None /\ op = "none" /\ link # "none"
    /\ op # "none" =>
           engine \in {IF op = "survey" THEN "SURVEYING" ELSE "SWITCHING_RADIO", "STOPPED"}
    /\ op \in {"switch", "applied", "survey"} /\ engine # "STOPPED" => link # "none"

ActiveOK ==
    /\ active # None =>
           /\ engine = "RUNNING" /\ fin[active].pc = "none" /\ recent.job = None
           /\ starting = active \/ thread[active] # "none"
    /\ starting # None => active = starting /\ thread[starting] = "none"

\* A job that is about to end has the engine for itself, until the daemon stops; a
\* coordinator that computes belongs to a job that is active or being aborted.
JobsOK ==
    /\ \A i \in Jobs : Finalizing(i) =>
           /\ active = None
           /\ engine \in {"RUNNING", "ABORTING"} \/ (engine = "STOPPED" /\ Stopping)
           /\ \A k \in Jobs : Finalizing(k) => k = i
           /\ fin[i].pc \in {"tell", "last"} /\ ~Stopping => link # "none"
    /\ \A i \in Jobs : thread[i] = "running" =>
           active = i \/ fin[i].pc = "abort" \/ stopJob = i

Messages == {wire[i] : i \in DOMAIN wire}

\* What is told of a job is told once its outcome is decided.
Told == \A m \in Messages : m.type # "TASK_ANNOUNCE" =>
    /\ fin[m.job].pc \in {"last", "done"}
    /\ m.type = "JOB_COMPLETED" <=> fin[m.job].outcome = "completed"

Recorded == recent.job # None /\ ~Stopping =>
    /\ fin[recent.job].outcome # "none"
    /\ recent.result = Result[fin[recent.job].outcome]

\* The client: who has begun, and what excludes what
ClientInv ==
    /\ ready => starting # None /\ starting \in begun
    /\ waiting # None => waiting \in begun
    /\ alive => proc # None /\ ~idle /\ cur \in {proc, None}

DaemonInv ==
    /\ DaemonTypes /\ Numbered /\ EngineOK /\ ActiveOK /\ JobsOK /\ Told /\ Recorded

IInv == DaemonInv /\ ClientTypes /\ ClientInv

-----------------------------------------------------------------------------
\* A daemon that was just started has no job, no thread and no message on the wire.
LEMMA DaemonInvInit == ServerInit => DaemonInv
<1> SUFFICES ASSUME ServerInit PROVE DaemonInv
  OBVIOUS
<1> USE BoundsAssumption DEF ServerInit, None, Jobs
<1>1. /\ \A i \in Jobs : thread[i] = "none" /\ fin[i].pc = "none"
      /\ \A i \in Jobs : ~Finalizing(i)
  BY DEF Finalizing
<1>2. DaemonTypes
  <2>1. wire \in Seq(MessageType)
    OBVIOUS
  <2>2. fin \in [Jobs -> FinType]
    BY DEF FinType, FinPlaces, Outcomes
  <2>3. recent \in RecentType
    BY DEF RecentType, NoRecent
  <2>4. ready \in BOOLEAN /\ link \in Links
    BY DEF Links
  <2>5. thread \in [Jobs -> ThreadStates]
    BY DEF ThreadStates
  <2>6. /\ active \in 0..MaxJobs /\ starting \in 0..MaxJobs /\ stopJob \in 0..MaxJobs
        /\ disturbances \in 0..MaxDisturbances /\ roles \subseteq Jobs
    OBVIOUS
  <2>7. QED
    BY <2>1, <2>2, <2>3, <2>4, <2>5, <2>6 DEF DaemonTypes, EngineStates
<1>3. Numbered
  <2>1. Used = 1..0
    BY <1>1 DEF Used
  <2>2. 0 \in 0..MaxJobs /\ starting = 0
    OBVIOUS
  <2>3. QED
    BY <2>1, <2>2 DEF Numbered
<1>4. EngineOK /\ ActiveOK
  BY DEF EngineOK, ActiveOK, Stopping
<1>5. JobsOK
  BY <1>1 DEF JobsOK
<1>6. Told /\ Recorded
  BY DEF Told, Recorded, Messages, NoRecent
<1>7. QED
  BY <1>2, <1>3, <1>4, <1>5, <1>6 DEF DaemonInv

\* A message more on the wire, and one less
LEMMA AppendIs ==
    ASSUME wire \in Seq(MessageType), NEW m \in MessageType, wire' = Append(wire, m)
    PROVE  wire' \in Seq(MessageType) /\ Messages' \subseteq Messages \union {m}
  BY DEF Messages

\* What is on the wire are messages.
LEMMA MessagesAre ==
    ASSUME wire \in Seq(MessageType)
    PROVE  Messages \subseteq MessageType
  BY DEF Messages

\* Taking the first message off the wire adds none.
LEMMA TailIs ==
    ASSUME wire \in Seq(MessageType), wire # <<>>, wire' = Tail(wire)
    PROVE  /\ wire' \in Seq(MessageType) /\ Messages' \subseteq Messages
           /\ Head(wire) \in MessageType
  BY DEF Messages

\* The number of the next job is that of a job nobody knows yet.
LEMMA NextJob ==
    ASSUME DaemonInv, starting = None, NEW j \in Jobs,
           j = Cardinality(Used) + 1
    PROVE  Used = 1..(j - 1) /\ j \notin Used
<1> USE BoundsAssumption DEF Jobs
<1>1. PICK k \in 0..MaxJobs : Used = 1..k
  BY DEF DaemonInv, Numbered
<1>2. Cardinality(1..k) = k
  BY <1>1, FS_Interval
<1>3. QED
  BY <1>1, <1>2

\* A job is accepted: it takes the engine, and its number is new.
LEMMA StartJobStep ==
    ASSUME DaemonInv, NEW j \in Jobs, StartJob(j)
    PROVE  DaemonInv'
<1> USE BoundsAssumption DEF Jobs, None
<1> DEFINE m == [type |-> "TASK_ANNOUNCE", job |-> j]
<1>1. /\ starting = None /\ engine = "IDLE" /\ active = None
      /\ engine' = "RUNNING" /\ active' = j /\ recent' = NoRecent
      /\ starting' = j /\ ready' = FALSE /\ roles' = roles \union {j}
      /\ wire' = Append(wire, m)
      /\ UNCHANGED <<thread, link, fin, op, stop, stopJob, disturbances>>
  BY DEF StartJob, Unlocked
<1>2. Used = 1..(j - 1) /\ j \notin Used
  <2>1. j = Cardinality(Used) + 1
    BY DEF StartJob, Used
  <2>2. QED
    BY <1>1, <2>1, NextJob
<1>3. thread[j] = "none" /\ fin[j].pc = "none"
  BY <1>2 DEF Used
<1>4. wire' \in Seq(MessageType) /\ Messages' \subseteq Messages \union {m}
  BY <1>1, AppendIs DEF DaemonInv, DaemonTypes, MessageType
<1>5. DaemonTypes'
  <2>1. recent' \in RecentType
    BY <1>1 DEF NoRecent, RecentType
  <2>2. ready' \in BOOLEAN
    BY <1>1
  <2>3. QED
    BY <1>1, <1>4, <2>1, <2>2 DEF DaemonInv, DaemonTypes, EngineStates
<1>6. Numbered'
  BY <1>1, <1>2 DEF Numbered, Used
<1>7. EngineOK' /\ ActiveOK'
  BY <1>1, <1>3 DEF DaemonInv, EngineOK, ActiveOK, Stopping, NoRecent
<1>8. JobsOK'
  BY <1>1 DEF DaemonInv, JobsOK, Finalizing, EngineOK, Stopping
<1>9. Told' /\ Recorded'
  BY <1>1, <1>4 DEF DaemonInv, Told, Recorded, NoRecent
<1>10. QED
  BY <1>5, <1>6, <1>7, <1>8, <1>9 DEF DaemonInv

\* All clients are ready, and the thread of the job begins.
LEMMA StartCoordinatorStep ==
    ASSUME DaemonInv, StartCoordinator
    PROVE  DaemonInv'
<1> USE BoundsAssumption DEF Jobs, None
<1>1. /\ starting # None /\ starting' = None /\ ready' = FALSE
      /\ thread' = [thread EXCEPT ![starting] = "running"]
      /\ UNCHANGED <<engine, active, recent, roles, link, fin, op, stop, stopJob, wire,
                     disturbances>>
  BY DEF StartCoordinator, engineVars
<1>2. starting \in Jobs /\ active = starting /\ thread \in [Jobs -> ThreadStates]
  BY <1>1 DEF DaemonInv, DaemonTypes, ActiveOK
<1>3. DaemonTypes'
  <2>1. thread' \in [Jobs -> ThreadStates] /\ ready' \in BOOLEAN
    BY <1>1, <1>2 DEF ThreadStates
  <2>2. QED
    BY <1>1, <2>1 DEF DaemonInv, DaemonTypes
<1>4. Numbered'
  <2>1. PICK k \in 0..MaxJobs : Used = 1..k /\ starting = k + 1
    BY <1>1 DEF DaemonInv, Numbered
  <2>2. Used' = Used \union {starting}
    BY <1>1, <1>2 DEF Used
  <2>3. Used' = 1..(k + 1) /\ k + 1 \in 0..MaxJobs
    BY <1>2, <2>1, <2>2
  <2>4. QED
    BY <1>1, <2>3 DEF Numbered
<1>5. EngineOK' /\ ActiveOK'
  BY <1>1, <1>2 DEF DaemonInv, EngineOK, ActiveOK, Stopping
<1>6. JobsOK'
  BY <1>1, <1>2 DEF DaemonInv, JobsOK, Finalizing, Stopping
<1>7. Told' /\ Recorded'
  BY <1>1 DEF DaemonInv, Told, Recorded, Messages, Stopping
<1>8. QED
  BY <1>3, <1>4, <1>5, <1>6, <1>7 DEF DaemonInv

\* Not all clients became ready in time: the job fails before its thread begins.
LEMMA StartTimesOutStep ==
    ASSUME DaemonInv, StartTimesOut
    PROVE  DaemonInv'
<1> USE BoundsAssumption DEF Jobs, None
<1> DEFINE f == [pc |-> "done", outcome |-> "aborted", err |-> FALSE]
           m == [type |-> "JOB_ABORT", job |-> starting]
<1>1. /\ starting # None /\ starting' = None /\ ready' = FALSE /\ active' = None
      /\ fin' = [fin EXCEPT ![starting] = f]
      /\ roles' \in {roles, roles \ {starting}}
      /\ UNCHANGED <<thread, op, stop, stopJob, disturbances>>
  BY DEF StartTimesOut
<1>2. /\ \/ engine' = "IDLE" /\ link' = "up" /\ wire' = Append(wire, m)
         \/ engine' = "STOPPED" /\ link' \in Links /\ wire' = wire
      /\ \E r \in {"ready", "blocked"} :
             recent' = [job |-> starting, result |-> "aborted", recovery |-> r]
  BY DEF StartTimesOut, Links
<1>3. /\ starting \in Jobs /\ active = starting /\ engine = "RUNNING"
      /\ thread[starting] = "none" /\ fin[starting].pc = "none" /\ fin \in [Jobs -> FinType]
  BY <1>1 DEF DaemonInv, DaemonTypes, ActiveOK
<1>4. /\ wire' \in Seq(MessageType)
      /\ Messages' = Messages \/ (engine' = "IDLE" /\ Messages' \subseteq Messages \union {m})
  <2>1. m \in MessageType /\ wire \in Seq(MessageType)
    BY <1>3 DEF MessageType, DaemonInv, DaemonTypes
  <2>2. QED
    BY <1>2, <2>1, AppendIs DEF Messages
<1>5. f \in FinType /\ fin' \in [Jobs -> FinType]
  <2>1. f \in FinType
    BY DEF FinType, FinPlaces, Outcomes
  <2>2. QED
    BY <1>1, <1>3, <2>1
<1>6. DaemonTypes'
  <2>1. recent' \in RecentType
    BY <1>2, <1>3 DEF RecentType
  <2>2. link' \in Links /\ ready' \in BOOLEAN
    BY <1>1, <1>2 DEF Links
  <2>3. QED
    BY <1>1, <1>2, <1>4, <1>5, <2>1, <2>2 DEF DaemonInv, DaemonTypes, EngineStates
<1>7. Numbered'
  <2>1. PICK k \in 0..MaxJobs : Used = 1..k /\ starting = k + 1
    BY <1>1 DEF DaemonInv, Numbered
  <2>2. Used' = Used \union {starting}
    BY <1>1, <1>3 DEF Used
  <2>3. Used' = 1..(k + 1) /\ k + 1 \in 0..MaxJobs
    BY <1>3, <2>1, <2>2
  <2>4. QED
    BY <1>1, <2>3 DEF Numbered
<1>8. EngineOK' /\ ActiveOK'
  BY <1>1, <1>2, <1>3 DEF DaemonInv, EngineOK, ActiveOK, Stopping
<1>9. JobsOK'
  BY <1>1, <1>3 DEF DaemonInv, JobsOK, Finalizing, Stopping
<1>10. Told'
  <2>1. \A x \in Messages : x.job \in Jobs
    BY MessagesAre DEF DaemonInv, DaemonTypes, MessageType
  <2>2. \A x \in Messages : x.type # "TASK_ANNOUNCE" => x.job # starting
    BY <1>3 DEF DaemonInv, Told
  <2>3. QED
    BY <1>1, <1>3, <1>4, <2>1, <2>2 DEF DaemonInv, Told
<1>11. Recorded'
  BY <1>1, <1>2, <1>3 DEF Recorded, Result
<1>12. QED
  BY <1>6, <1>7, <1>8, <1>9, <1>10, <1>11 DEF DaemonInv

-----------------------------------------------------------------------------
(* Coordinators, and the ends of jobs *)

\* A coordinator's thread goes on, or is told to abort.
ThreadsMove ==
    /\ thread' \in [Jobs -> ThreadStates]
    /\ \A i \in Jobs :
          /\ thread'[i] = "none" <=> thread[i] = "none"
          /\ thread'[i] = "running" => thread[i] = "running"

\* An abort tells at most one running thread to end.
LEMMA AbortedMoves ==
    ASSUME DaemonTypes, NEW j, thread' = Aborted(j)
    PROVE  ThreadsMove /\ (j \in Jobs => thread'[j] # "running")
  BY DEF DaemonTypes, Aborted, ThreadsMove, ThreadStates

\* A step that only moves threads of jobs on keeps the invariant.
LEMMA ThreadStep ==
    ASSUME DaemonInv, ThreadsMove,
           UNCHANGED <<engineVars, starting, ready, roles, link, fin, op, stop, stopJob,
                       wire, disturbances>>
    PROVE  DaemonInv'
<1>1. UNCHANGED <<engine, active, recent, starting, ready, roles, link, fin, op, stop,
                  stopJob, wire, disturbances>>
  BY DEF engineVars
<1>2. DaemonTypes'
  BY <1>1 DEF DaemonInv, DaemonTypes, ThreadsMove
<1>3. Used' = Used
  BY <1>1 DEF Used, ThreadsMove
<1>4. Numbered'
  BY <1>1, <1>3 DEF DaemonInv, Numbered
<1>5. EngineOK'
  BY <1>1 DEF DaemonInv, EngineOK, Stopping
<1>6. ActiveOK'
  BY <1>1 DEF DaemonInv, DaemonTypes, ActiveOK, ThreadsMove, Jobs, None
<1>7. JobsOK'
  BY <1>1 DEF DaemonInv, JobsOK, Finalizing, ThreadsMove, Stopping
<1>8. Told' /\ Recorded'
  BY <1>1 DEF DaemonInv, Told, Recorded, Messages, Stopping
<1>9. QED
  BY <1>2, <1>4, <1>5, <1>6, <1>7, <1>8 DEF DaemonInv

\* The first critical section of _finalize_job, for the job that is active
LEMMA AcceptStep ==
    ASSUME DaemonInv, NEW j \in Jobs, NEW outcome \in {"completed", "failed", "aborted"},
           starting = None, IsActive(j), Accept(j, outcome), ThreadsMove,
           outcome # "aborted" => thread'[j] # "running",
           UNCHANGED <<starting, ready, roles, link, op, stop, stopJob, wire, disturbances>>
    PROVE  DaemonInv'
<1> USE DEF Jobs, None
<1> DEFINE f == [pc |-> IF outcome = "aborted" THEN "abort" ELSE "close",
                 outcome |-> outcome, err |-> FALSE]
<1>1. /\ active = j /\ active # None /\ active' = None /\ engine = "RUNNING"
      /\ recent' = [job |-> j, result |-> Result[outcome], recovery |-> "recovering"]
      /\ engine' \in {"RUNNING", "ABORTING"} /\ fin' = [fin EXCEPT ![j] = f]
      /\ fin[j].pc = "none" /\ thread[j] # "none"
  BY DEF IsActive, Accept, DaemonInv, ActiveOK
<1>2. f \in FinType /\ fin \in [Jobs -> FinType]
  <2>1. f.err \in BOOLEAN /\ f.pc \in FinPlaces /\ f.outcome \in Outcomes
    BY DEF FinPlaces, Outcomes
  <2>2. QED
    BY <2>1 DEF FinType, DaemonInv, DaemonTypes
<1>3. DaemonTypes'
  <2>1. recent' \in RecentType
    BY <1>1 DEF RecentType, Result
  <2>2. fin' \in [Jobs -> FinType]
    BY <1>1, <1>2
  <2>3. QED
    BY <1>1, <2>1, <2>2 DEF DaemonInv, DaemonTypes, ThreadsMove, EngineStates
<1>4. Numbered'
  <2>1. Used' = Used
    BY <1>1, <1>2 DEF Used, ThreadsMove
  <2>2. QED
    BY <2>1 DEF DaemonInv, Numbered
<1>5. EngineOK' /\ ActiveOK'
  BY <1>1 DEF DaemonInv, EngineOK, ActiveOK, Stopping
<1>6. \A i \in Jobs : ~Finalizing(i)
  BY <1>1 DEF DaemonInv, JobsOK
<1>7. JobsOK'
  <2>1. \A i \in Jobs : Finalizing(i)' => i = j
    BY <1>1, <1>6 DEF Finalizing
  <2>2. fin'[j].pc \in {"abort", "close"}
    BY <1>1, <1>2
  <2>3. ASSUME NEW i \in Jobs, thread'[i] = "running"
        PROVE  fin'[i].pc = "abort" \/ stopJob' = i
    <3>1. CASE i = j
      BY <1>1, <1>2, <2>3, <3>1
    <3>2. CASE i # j
      BY <1>1, <1>6, <2>3, <3>2 DEF DaemonInv, JobsOK, ThreadsMove, Finalizing
    <3>3. QED
      BY <3>1, <3>2
  <2>4. QED
    BY <1>1, <2>1, <2>2, <2>3 DEF JobsOK
<1>8. Told'
  <2>1. \A x \in Messages : x.type # "TASK_ANNOUNCE" => x.job \in Jobs /\ x.job # j
    BY <1>1, MessagesAre DEF DaemonInv, DaemonTypes, MessageType, Told
  <2>2. QED
    BY <1>1, <2>1 DEF DaemonInv, Told, Messages
<1>9. Recorded'
  BY <1>1, <1>2 DEF Recorded
<1>10. QED
  BY <1>3, <1>4, <1>5, <1>7, <1>8, <1>9 DEF DaemonInv

\* The handler of the job's events tells the clients how it ended.
LEMMA ReportStep ==
    ASSUME DaemonInv, NEW j \in Jobs, Report(j)
    PROVE  DaemonInv'
<1>1. /\ starting = None /\ thread[j] \in {"completed", "failed"}
      /\ thread' = [thread EXCEPT ![j] = "over"]
      /\ UNCHANGED <<starting, ready, roles, link, op, stop, stopJob, wire, disturbances>>
  BY DEF Report, Unlocked
<1>2. ThreadsMove /\ thread'[j] # "running"
  BY <1>1 DEF ThreadsMove, DaemonInv, DaemonTypes, ThreadStates
<1>3. CASE IsActive(j) /\ Accept(j, thread[j])
  BY <1>1, <1>2, <1>3, AcceptStep
<1>4. CASE UNCHANGED <<engineVars, fin>>
  BY <1>1, <1>2, <1>4, ThreadStep
<1>5. QED
  BY <1>3, <1>4 DEF Report

\* abort_job begins to finalise the active job.
LEMMA AbortJobStep ==
    ASSUME DaemonInv, NEW j \in Jobs, AbortJob(j)
    PROVE  DaemonInv'
<1>1. UNCHANGED <<starting, ready, thread, roles, link, op, stop, stopJob, wire, disturbances>>
  BY DEF AbortJob, jobVars
<1>2. ThreadsMove
  BY <1>1 DEF ThreadsMove, DaemonInv, DaemonTypes
<1>3. QED
  BY <1>1, <1>2, AcceptStep DEF AbortJob, Unlocked

\* The thread of a job comes to its end, or gives up.
LEMMA CoordinatorStep ==
    ASSUME DaemonInv, NEW j \in Jobs,
           \/ CoordinatorGivesUp(j)
           \/ \E outcome \in {"completed", "failed"} : CoordinatorEnds(j, outcome)
    PROVE  DaemonInv'
<1>1. ThreadsMove
  BY DEF CoordinatorGivesUp, CoordinatorEnds, ThreadsMove, DaemonInv, DaemonTypes, ThreadStates
<1>2. QED
  BY <1>1, ThreadStep DEF CoordinatorGivesUp, CoordinatorEnds

\* The steps of _finalize_job after that: f is where the end of job j has come to.
FinMoves(j, f) ==
    /\ f \in FinType /\ f.outcome = fin[j].outcome /\ f.pc # "none"
    /\ fin' = [fin EXCEPT ![j] = f]
    /\ UNCHANGED <<active, starting, ready, op, stop, stopJob, disturbances>>
    /\ recent' \in RecentType /\ recent'.job = recent.job /\ recent'.result = recent.result
    /\ roles' \subseteq Jobs /\ link' \in Links
    /\ ThreadsMove /\ (fin[j].pc = "abort" => thread'[j] # "running")
    /\ wire' \in Seq(MessageType)
    /\ \A x \in Messages' : x \in Messages \/
          (x.job = j /\ f.pc = "last" /\ (x.type = "JOB_COMPLETED" <=> f.outcome = "completed"))
    /\ fin[j].pc = "last" => f.pc = "done"
    /\ \/ engine' = engine
       \/ engine' = "STOPPED" /\ f.pc = "done"
       \/ engine' = "IDLE" /\ f.pc = "done" /\ ~Stopping /\ link' # "none"
    /\ f.pc \in {"tell", "last"} /\ ~Stopping => link' # "none"

\* A finalisation that goes on by itself keeps the invariant.
LEMMA FinStep ==
    ASSUME DaemonInv, NEW j \in Jobs, Finalizing(j), NEW f, FinMoves(j, f)
    PROVE  DaemonInv'
<1> USE DEF Jobs, None
<1>1. /\ active = None /\ starting = None /\ fin \in [Jobs -> FinType]
      /\ engine \in {"RUNNING", "ABORTING"} \/ (engine = "STOPPED" /\ Stopping)
      /\ \A k \in Jobs : Finalizing(k) => k = j
      /\ fin[j].pc \notin {"none", "done"} /\ (op = "none" \/ engine = "STOPPED")
  BY DEF DaemonInv, DaemonTypes, JobsOK, ActiveOK, EngineOK, Finalizing
<1>2. fin' = [fin EXCEPT ![j] = f] /\ f \in FinType /\ f.pc # "none"
      /\ UNCHANGED <<active, starting, ready, op, stop, stopJob, disturbances>>
  BY DEF FinMoves
<1>3. DaemonTypes'
  BY <1>1, <1>2 DEF DaemonInv, DaemonTypes, FinMoves, ThreadsMove, EngineStates
<1>4. Numbered'
  <2>1. Used' = Used
    BY <1>1, <1>2 DEF Used, FinMoves, ThreadsMove, Finalizing
  <2>2. QED
    BY <1>2, <2>1 DEF DaemonInv, Numbered
<1>5. EngineOK'
  BY <1>1, <1>2 DEF DaemonInv, EngineOK, FinMoves, Stopping
<1>6. ActiveOK'
  BY <1>1, <1>2 DEF ActiveOK
<1>7. JobsOK'
  <2>1. \A i \in Jobs : Finalizing(i)' => i = j /\ f.pc # "done"
    BY <1>1, <1>2 DEF Finalizing
  <2>2. f.pc # "done" => engine' = engine
    BY DEF FinMoves
  <2>3. ASSUME NEW i \in Jobs, thread'[i] = "running"
        PROVE  fin'[i].pc = "abort" \/ stopJob' = i
    BY <1>1, <1>2, <2>3 DEF DaemonInv, JobsOK, FinMoves, ThreadsMove
  <2>4. QED
    BY <1>1, <1>2, <2>1, <2>2, <2>3 DEF JobsOK, FinMoves, Stopping
<1>8. Told'
  <2>1. \A x \in Messages : x.type # "TASK_ANNOUNCE" => x.job \in Jobs
    BY MessagesAre DEF DaemonInv, DaemonTypes, MessageType
  <2>2. ASSUME NEW x \in Messages', x.type # "TASK_ANNOUNCE"
        PROVE  /\ fin'[x.job].pc \in {"last", "done"}
               /\ x.type = "JOB_COMPLETED" <=> fin'[x.job].outcome = "completed"
    <3>1. CASE x \in Messages /\ x.job # j
      BY <1>2, <2>1, <2>2, <3>1 DEF DaemonInv, Told
    <3>2. CASE x \in Messages /\ x.job = j
      BY <1>1, <1>2, <2>1, <2>2, <3>2 DEF DaemonInv, Told, FinMoves
    <3>3. CASE x \notin Messages
      BY <1>1, <1>2, <2>2, <3>3 DEF FinMoves
    <3>4. QED
      BY <3>1, <3>2, <3>3
  <2>3. QED
    BY <2>2 DEF Told
<1>9. Recorded'
  <2>1. recent.job \in 0..MaxJobs
    BY DEF DaemonInv, DaemonTypes, RecentType
  <2>2. \A i \in Jobs : fin'[i].outcome = fin[i].outcome
    BY <1>1, <1>2 DEF FinMoves
  <2>3. QED
    BY <1>2, <2>1, <2>2 DEF DaemonInv, Recorded, FinMoves, Stopping
<1>10. QED
  BY <1>3, <1>4, <1>5, <1>6, <1>7, <1>8, <1>9 DEF DaemonInv

\* A job is finalised: the engine is let go by the job that holds it only.
LEMMA FinalizeStep ==
    ASSUME DaemonInv, NEW j \in Jobs, Finalize(j)
    PROVE  DaemonInv'
<1> DEFINE at(p) == [fin[j] EXCEPT !.pc = p]
           failing(p) == [fin[j] EXCEPT !.pc = p, !.err = TRUE]
           over == [fin[j] EXCEPT !.pc = "done", !.err = FALSE]
<1>1. /\ fin \in [Jobs -> FinType] /\ fin[j] \in FinType /\ recent \in RecentType
      /\ thread \in [Jobs -> ThreadStates] /\ roles \subseteq Jobs /\ link \in Links
      /\ wire \in Seq(MessageType)
  BY DEF DaemonInv, DaemonTypes
<1>2. /\ \A p \in FinPlaces : at(p) \in FinType /\ failing(p) \in FinType
      /\ over \in FinType
      /\ \A p \in FinPlaces :
            /\ at(p).pc = p /\ at(p).outcome = fin[j].outcome
            /\ failing(p).pc = p /\ failing(p).outcome = fin[j].outcome
      /\ over.pc = "done" /\ over.outcome = fin[j].outcome
  BY <1>1 DEF FinType, FinPlaces
<1>3. \A p : Goto(j, p) => fin' = [fin EXCEPT ![j] = at(p)]
  BY <1>1 DEF Goto
<1>4. Done(j) => fin' = [fin EXCEPT ![j] = over]
  BY <1>1 DEF Done
<1>5. \A p \in {"close", "check", "tell", "stopLink", "startLink", "last"} : p \in FinPlaces
  BY DEF FinPlaces
<1>6. (thread' = thread => ThreadsMove) /\ (wire' = wire => Messages' = Messages)
  BY <1>1 DEF ThreadsMove, Messages
<1>7. \A r \in {"ready", "blocked"} :
         /\ [recent EXCEPT !.recovery = r] \in RecentType
         /\ [recent EXCEPT !.recovery = r].job = recent.job
         /\ [recent EXCEPT !.recovery = r].result = recent.result
  BY <1>1 DEF RecentType
<1> HIDE DEF at, failing, over
<1>8. CASE AbortCoordinator(j)
  <2>1. Finalizing(j) /\ fin' = [fin EXCEPT ![j] = at("close")]
    BY <1>3, <1>8 DEF AbortCoordinator, Finalizing
  <2>2. ThreadsMove /\ thread'[j] # "running"
    BY <1>8, AbortedMoves DEF AbortCoordinator, DaemonInv
  <2>3. FinMoves(j, at("close"))
    BY <1>1, <1>2, <1>5, <1>6, <1>8, <2>1, <2>2 DEF AbortCoordinator, FinMoves, engineVars
  <2>4. QED
    BY <2>1, <2>3, FinStep
<1>9. CASE CloseRole(j)
  <2>1. PICK f \in {at("check"), failing("check")} : fin' = [fin EXCEPT ![j] = f]
    <3>1. [fin EXCEPT ![j].pc = "check", ![j].err = TRUE]
            = [fin EXCEPT ![j] = failing("check")]
      BY <1>1 DEF failing
    <3>2. QED
      BY <1>3, <1>9, <3>1 DEF CloseRole
  <2>2. Finalizing(j) /\ fin[j].pc = "close"
    BY <1>9 DEF CloseRole, Finalizing
  <2>3. f \in FinType /\ f.pc = "check" /\ f.outcome = fin[j].outcome
    BY <1>2, <1>5, <2>1
  <2>4. FinMoves(j, f)
    BY <1>1, <1>6, <1>9, <2>1, <2>2, <2>3 DEF CloseRole, FinMoves, engineVars
  <2>5. QED
    BY <2>2, <2>4, FinStep
<1>10. CASE CheckStop(j)
  <2>1. Finalizing(j) /\ fin[j].pc = "check"
    BY <1>10 DEF CheckStop, Finalizing
  <2>2. PICK p \in {"tell", "stopLink"} :
            fin' = [fin EXCEPT ![j] = at(p)] /\ (p = "tell" => Stopping \/ engine = "STOPPED")
    BY <1>3, <1>10 DEF CheckStop
  <2>3. engine = "STOPPED" => Stopping
    BY <2>1 DEF DaemonInv, JobsOK
  <2>4. FinMoves(j, at(p))
    BY <1>1, <1>2, <1>5, <1>6, <1>10, <2>1, <2>2, <2>3
       DEF CheckStop, FinMoves, engineVars, jobVars
  <2>5. QED
    BY <2>1, <2>4, FinStep
<1>11. CASE StopLink(j)
  <2>1. /\ Finalizing(j) /\ fin[j].pc = "stopLink" /\ fin' = [fin EXCEPT ![j] = at("startLink")]
        /\ link' \in Links
    BY <1>3, <1>11 DEF StopLink, Links, Finalizing
  <2>2. FinMoves(j, at("startLink"))
    BY <1>1, <1>2, <1>5, <1>6, <1>11, <2>1 DEF StopLink, FinMoves, engineVars, jobVars
  <2>3. QED
    BY <2>1, <2>2, FinStep
<1>12. CASE StartLink(j)
  <2>1. /\ Finalizing(j) /\ fin[j].pc = "startLink" /\ fin' = [fin EXCEPT ![j] = at("tell")]
        /\ link' \in Links /\ link' # "none"
    BY <1>3, <1>12 DEF StartLink, Links, Finalizing
  <2>2. FinMoves(j, at("tell"))
    BY <1>1, <1>2, <1>5, <1>6, <1>12, <2>1 DEF StartLink, FinMoves, engineVars, jobVars
  <2>3. QED
    BY <2>1, <2>2, FinStep
<1>13. CASE StartLinkFails(j)
  <2>1. /\ Finalizing(j) /\ fin[j].pc = "startLink" /\ fin' = [fin EXCEPT ![j] = over]
        /\ link' \in Links
    BY <1>4, <1>13 DEF StartLinkFails, Links, Finalizing
  <2>2. FinMoves(j, over)
    BY <1>1, <1>2, <1>6, <1>7, <1>13, <2>1 DEF StartLinkFails, Blocked, FinMoves, jobVars
  <2>3. QED
    BY <2>1, <2>2, FinStep
<1>14. CASE Tell(j)
  <2> DEFINE m == [type |-> IF fin[j].outcome = "completed" THEN "JOB_COMPLETED" ELSE "JOB_ABORT",
                   job |-> j]
  <2>1. Finalizing(j) /\ fin[j].pc = "tell" /\ fin' = [fin EXCEPT ![j] = at("last")]
    BY <1>3, <1>14 DEF Tell, Finalizing
  <2>2. m \in MessageType /\ m.job = j
        /\ (m.type = "JOB_COMPLETED" <=> fin[j].outcome = "completed")
    BY DEF MessageType
  <2>3. wire' = Append(wire, m)
    BY <1>14 DEF Tell
  <2> HIDE DEF m
  <2>4. wire' \in Seq(MessageType) /\ Messages' \subseteq Messages \union {m}
    BY <1>1, <2>2, <2>3, AppendIs
  <2>5. ~Stopping => link # "none"
    BY <2>1 DEF DaemonInv, JobsOK
  <2>6. FinMoves(j, at("last"))
    BY <1>1, <1>2, <1>5, <1>6, <1>14, <2>1, <2>2, <2>4, <2>5
       DEF Tell, FinMoves, engineVars, jobVars
  <2>7. QED
    BY <2>1, <2>6, FinStep
<1>15. CASE TellFails(j)
  <2>1. Finalizing(j) /\ fin[j].pc = "tell" /\ fin' = [fin EXCEPT ![j] = over]
    BY <1>4, <1>15 DEF TellFails, Finalizing
  <2>2. FinMoves(j, over)
    BY <1>1, <1>2, <1>6, <1>7, <1>15, <2>1 DEF TellFails, Blocked, FinMoves, jobVars
  <2>3. QED
    BY <2>1, <2>2, FinStep
<1>16. CASE Recovered(j)
  <2>1. Finalizing(j) /\ fin[j].pc = "last" /\ fin' = [fin EXCEPT ![j] = over]
    BY <1>4, <1>16 DEF Recovered, Finalizing
  <2>2. ~Stopping => link # "none"
    BY <2>1 DEF DaemonInv, JobsOK
  <2>3. \E r \in {"ready", "blocked"} : recent' = [recent EXCEPT !.recovery = r]
    BY <1>16 DEF Recovered
  <2>4. FinMoves(j, over)
    BY <1>1, <1>2, <1>6, <1>7, <1>16, <2>1, <2>2, <2>3 DEF Recovered, FinMoves, jobVars
  <2>5. QED
    BY <2>1, <2>4, FinStep
<1>17. QED
  BY <1>8, <1>9, <1>10, <1>11, <1>12, <1>13, <1>14, <1>15, <1>16 DEF Finalize

-----------------------------------------------------------------------------
(* Radio switch, survey and stop *)

\* What a step of the radio operations and of stop has to keep.
LEMMA OpStep ==
    ASSUME DaemonInv,
           UNCHANGED <<active, recent, starting, ready, thread, roles, fin, stop, stopJob, wire>>,
           \/ engine \in {"IDLE", "SWITCHING_RADIO", "SURVEYING"}
           \/ engine' = engine /\ (link' = link \/ link' # "none"),
           ~Stopping \/ engine' = engine,
           engine' \in EngineStates \ {"RUNNING"} \/ engine' = engine,
           link' \in Links, op' \in {"none", "switch", "applied", "failed", "survey"},
           disturbances' \in 0..MaxDisturbances,
           engine' = "IDLE" => op' = "none" /\ link' # "none",
           op' # "none" => engine' \in
               {IF op' = "survey" THEN "SURVEYING" ELSE "SWITCHING_RADIO", "STOPPED"},
           op' \in {"switch", "applied", "survey"} /\ engine' # "STOPPED" => link' # "none"
    PROVE  DaemonInv'
<1>1. active # None => engine = "RUNNING"
  BY DEF DaemonInv, ActiveOK
<1>2. DaemonTypes'
  BY DEF DaemonInv, DaemonTypes
<1>3. Numbered'
  BY DEF DaemonInv, Numbered, Used
<1>4. EngineOK'
  BY <1>1 DEF DaemonInv, EngineOK, Stopping
<1>5. ActiveOK'
  BY <1>1 DEF DaemonInv, ActiveOK
<1>6. JobsOK'
  BY DEF DaemonInv, JobsOK, Finalizing, Stopping
<1>7. Told' /\ Recorded'
  BY DEF DaemonInv, Told, Recorded, Messages, Stopping
<1>8. QED
  BY <1>2, <1>3, <1>4, <1>5, <1>6, <1>7 DEF DaemonInv

\* The bound on disturbances of the model is kept.
LEMMA DisturbIs ==
    ASSUME disturbances \in 0..MaxDisturbances, Disturb
    PROVE  disturbances' \in 0..MaxDisturbances
  BY BoundsAssumption DEF Disturb

\* A switch or a survey takes the idle engine.
LEMMA ReserveStep ==
    ASSUME DaemonInv, NEW what \in {"switch", "survey"}, Reserve(what)
    PROVE  DaemonInv'
<1>1. disturbances' \in 0..MaxDisturbances
  BY DisturbIs DEF Reserve, DaemonInv, DaemonTypes
<1>2. link # "none" /\ ~Stopping /\ link' = link /\ link \in Links
  BY DEF Reserve, DaemonInv, DaemonTypes, EngineOK
<1>3. QED
  BY <1>1, <1>2, OpStep DEF Reserve, jobVars, EngineStates

\* The radio is applied while the engine is taken.
LEMMA ApplyRadioStep ==
    ASSUME DaemonInv, ApplyRadio
    PROVE  DaemonInv'
<1>1. engine = "SWITCHING_RADIO"
  BY DEF ApplyRadio, DaemonInv, EngineOK
<1>2. disturbances' \in 0..MaxDisturbances /\ engine' = engine
  BY DEF ApplyRadio, DaemonInv, DaemonTypes, engineVars
<1>3. /\ op' = "failed" \/ (op' = "applied" /\ link' # "none")
      /\ link' \in Links
  BY DEF ApplyRadio, Links, DaemonInv, DaemonTypes
<1>4. QED
  BY <1>1, <1>2, <1>3, OpStep DEF ApplyRadio, jobVars, engineVars

\* A switch lets go of the engine it has taken.
LEMMA SwitchEndsStep ==
    ASSUME DaemonInv, SwitchEnds
    PROVE  DaemonInv'
<1>1. /\ op' = "none" /\ disturbances' \in 0..MaxDisturbances /\ link' = link
      /\ link \in Links
  BY DEF SwitchEnds, DaemonInv, DaemonTypes
<1>2. CASE engine = "STOPPED"
  BY <1>1, <1>2, OpStep DEF SwitchEnds, jobVars
<1>3. CASE engine # "STOPPED"
  <2>1. /\ engine = "SWITCHING_RADIO" /\ ~Stopping
        /\ engine' = "RADIO_ERROR" \/ (engine' = "IDLE" /\ link # "none")
    BY <1>3 DEF SwitchEnds, DaemonInv, EngineOK
  <2>2. QED
    BY <1>1, <2>1, OpStep DEF SwitchEnds, jobVars, EngineStates
<1>4. QED
  BY <1>2, <1>3

\* A survey lets go of the engine it has taken.
LEMMA SurveyEndsStep ==
    ASSUME DaemonInv, SurveyEnds
    PROVE  DaemonInv'
<1>1. /\ op' = "none" /\ disturbances' \in 0..MaxDisturbances /\ link' = link
      /\ link \in Links
  BY DEF SurveyEnds, DaemonInv, DaemonTypes
<1>2. /\ engine \in {"SURVEYING", "STOPPED"}
      /\ engine = "SURVEYING" => link # "none" /\ ~Stopping /\ engine' = "IDLE"
      /\ engine = "STOPPED" => engine' = engine
  BY DEF SurveyEnds, DaemonInv, EngineOK
<1>3. QED
  BY <1>1, <1>2, OpStep DEF SurveyEnds, jobVars, EngineStates

\* The link process ends while the daemon still holds it.
LEMMA LinkDiesStep ==
    ASSUME DaemonInv, LinkDies
    PROVE  DaemonInv'
<1>1. /\ link' \in Links /\ link # "none" /\ link' # "none"
      /\ UNCHANGED <<engine, active, recent, starting, ready, thread, roles, fin, op,
                     stop, stopJob, wire, disturbances>>
  BY DEF LinkDies, Links, engineVars, jobVars
<1>2. /\ disturbances \in 0..MaxDisturbances
      /\ op \in {"none", "switch", "applied", "failed", "survey"}
      /\ engine = "IDLE" => op = "none"
      /\ op # "none" =>
             engine \in {IF op = "survey" THEN "SURVEYING" ELSE "SWITCHING_RADIO", "STOPPED"}
  BY DEF DaemonInv, DaemonTypes, EngineOK
<1>3. QED
  BY <1>1, <1>2, OpStep

\* stop() is called in whatever the daemon is doing.
LEMMA StopBeginsStep ==
    ASSUME DaemonInv, StopBegins
    PROVE  DaemonInv'
<1> USE DEF None
<1>1. /\ starting = None /\ ~Stopping /\ stop' = "begun" /\ stopJob' = active
      /\ engine' = "STOPPED" /\ active' = None
      /\ UNCHANGED <<starting, ready, thread, roles, link, fin, op, wire>>
  BY DEF StopBegins, jobVars, Unlocked
<1>2. recent' \in RecentType
  BY DEF StopBegins, DaemonInv, DaemonTypes, RecentType
<1>3. DaemonTypes'
  <2>1. disturbances' \in 0..MaxDisturbances
    BY DisturbIs DEF StopBegins, DaemonInv, DaemonTypes
  <2>2. active' \in 0..MaxJobs
    BY <1>1, BoundsAssumption
  <2>3. QED
    BY <1>1, <1>2, <2>1, <2>2 DEF DaemonInv, DaemonTypes, EngineStates
<1>4. Numbered'
  BY <1>1 DEF DaemonInv, Numbered, Used
<1>5. EngineOK' /\ ActiveOK'
  BY <1>1 DEF DaemonInv, EngineOK, ActiveOK, Stopping
<1>6. JobsOK'
  BY <1>1 DEF DaemonInv, JobsOK, EngineOK, Finalizing, Stopping
<1>7. Told' /\ Recorded'
  BY <1>1 DEF DaemonInv, Told, Recorded, Messages, Stopping
<1>8. QED
  BY <1>3, <1>4, <1>5, <1>6, <1>7 DEF DaemonInv

\* stop() goes on to the control plane, the role and the end.
LEMMA StopStep ==
    ASSUME DaemonInv, StopControlPlane \/ StopRole \/ StopLast
    PROVE  DaemonInv'
<1> USE DEF None
<1>1. /\ Stopping /\ stop' \in {"deaf", "link", "done"} /\ engine = "STOPPED"
      /\ UNCHANGED <<engine, active, recent, starting, ready, fin, op, wire, disturbances>>
  BY DEF StopControlPlane, StopRole, StopLast, engineVars, jobVars, DaemonInv, EngineOK, Stopping
<1>2. /\ roles' \subseteq Jobs /\ link' \in Links /\ stopJob' \in 0..MaxJobs
      /\ stopJob' # None => stopJob' = stopJob
      /\ ThreadsMove
      /\ \A i \in Jobs : thread'[i] = "running" /\ stopJob = i => stopJob' = i
  <2>1. DaemonTypes /\ (thread' = thread => ThreadsMove) /\ 0 \in 0..MaxJobs
    BY BoundsAssumption DEF DaemonInv, DaemonTypes, ThreadsMove
  <2>2. CASE StopControlPlane \/ StopLast
    <3>1. link' \in Links
      BY <2>1, <2>2 DEF Links, StopControlPlane, StopLast, DaemonTypes
    <3>2. QED
      BY <2>1, <2>2, <3>1 DEF StopControlPlane, StopLast, DaemonTypes, jobVars
  <2>3. CASE StopRole
    BY <2>1, <2>3, AbortedMoves DEF StopRole, DaemonTypes, Jobs
  <2>4. QED
    BY <2>2, <2>3
<1>3. DaemonTypes'
  BY <1>1, <1>2 DEF DaemonInv, DaemonTypes, ThreadsMove
<1>4. Numbered'
  <2>1. Used' = Used
    BY <1>1, <1>2 DEF Used, ThreadsMove
  <2>2. QED
    BY <1>1, <2>1 DEF DaemonInv, Numbered
<1>5. EngineOK' /\ ActiveOK'
  BY <1>1 DEF DaemonInv, EngineOK, ActiveOK, Stopping
<1>6. JobsOK'
  BY <1>1, <1>2 DEF DaemonInv, JobsOK, Finalizing, Stopping, ThreadsMove
<1>7. Told' /\ Recorded'
  BY <1>1 DEF DaemonInv, Told, Recorded, Messages, Stopping
<1>8. QED
  BY <1>3, <1>4, <1>5, <1>6, <1>7 DEF DaemonInv

\* Every step of the server's daemon keeps its invariant.
LEMMA ServerKeeps ==
    ASSUME DaemonInv, ServerStep
    PROVE  DaemonInv'
  BY StartJobStep, ReportStep, AbortJobStep, FinalizeStep, CoordinatorStep,
     StartCoordinatorStep, StartTimesOutStep, ReserveStep, ApplyRadioStep, SwitchEndsStep,
     SurveyEndsStep, StopBeginsStep, StopStep, LinkDiesStep DEF ServerStep, Stop

-----------------------------------------------------------------------------
(* The client *)

\* Both daemons begin with the invariant.
LEMMA IInvInit == Init => IInv
<1> SUFFICES ASSUME Init PROVE IInv
  OBVIOUS
<1>1. DaemonInv
  BY DaemonInvInit DEF Init
<1>2. ClientTypes
  <2>1. iface \in BOOLEAN /\ alive \in BOOLEAN /\ idle \in BOOLEAN
    BY DEF Init
  <2>2. QED
    BY <2>1, BoundsAssumption DEF Init, ClientTypes, None
<1>3. ClientInv
  BY DEF Init, ServerInit, ClientInv
<1>4. QED
  BY <1>1, <1>2, <1>3 DEF IInv

\* Whenever the job that waits for TASK_READY changes, the event is cleared.
LEMMA ReadyIsReset ==
    ASSUME ServerStep
    PROVE  UNCHANGED <<starting, ready>> \/ ~ready'
<1>1. ASSUME NEW j \in Jobs,
             Report(j) \/ AbortJob(j) \/ Finalize(j) \/ CoordinatorGivesUp(j)
                 \/ \E outcome \in {"completed", "failed"} : CoordinatorEnds(j, outcome)
      PROVE  UNCHANGED <<starting, ready>>
  BY <1>1 DEF Report, AbortJob, Finalize, AbortCoordinator, CloseRole, CheckStop, StopLink,
     StartLink, StartLinkFails, Tell, TellFails, Recovered, CoordinatorGivesUp,
     CoordinatorEnds, jobVars
<1>2. ASSUME NEW j \in Jobs, StartJob(j)
      PROVE  ~ready'
  BY <1>2 DEF StartJob
<1>3. StartCoordinator \/ StartTimesOut => ~ready'
  BY DEF StartCoordinator, StartTimesOut
<1>4. \/ \E what \in {"switch", "survey"} : Reserve(what)
      \/ ApplyRadio \/ SwitchEnds \/ SurveyEnds \/ Stop \/ LinkDies
      => UNCHANGED <<starting, ready>>
  BY DEF LinkDies, Reserve, ApplyRadio, SwitchEnds, SurveyEnds, Stop, StopBegins,
     StopControlPlane, StopRole, StopLast, jobVars
<1>5. QED
  BY <1>1, <1>2, <1>3, <1>4 DEF ServerStep

\* A step of the server leaves what the client knows true.
LEMMA ServerSide ==
    ASSUME IInv, ServerStep, UNCHANGED clientVars
    PROVE  IInv'
<1>1. DaemonInv'
  BY ServerKeeps DEF IInv
<1>2. ClientTypes'
  BY DEF IInv, ClientTypes, clientVars
<1>3. ClientInv'
  BY ReadyIsReset DEF IInv, ClientInv, clientVars
<1>4. QED
  BY <1>1, <1>2, <1>3 DEF IInv

\* What the client does to the server's variables
Heard ==
    /\ UNCHANGED <<engine, active, recent, starting, thread, roles, link, fin, op, stop, stopJob>>
    /\ ready' \in BOOLEAN
    /\ wire' = wire \/ (wire # <<>> /\ wire' = Tail(wire))
    /\ disturbances' \in 0..MaxDisturbances

\* The server's invariant bears the client's readiness and its taking messages off.
LEMMA HeardKeeps ==
    ASSUME DaemonInv, Heard
    PROVE  DaemonInv'
<1>1. wire' \in Seq(MessageType) /\ Messages' \subseteq Messages
  BY TailIs DEF Heard, DaemonInv, DaemonTypes, Messages
<1>2. DaemonTypes'
  BY <1>1 DEF Heard, DaemonInv, DaemonTypes
<1>3. Numbered'
  BY DEF Heard, DaemonInv, Numbered, Used
<1>4. EngineOK' /\ ActiveOK'
  BY DEF Heard, DaemonInv, EngineOK, ActiveOK, Stopping
<1>5. JobsOK'
  BY DEF Heard, DaemonInv, JobsOK, Finalizing, Stopping
<1>6. Told' /\ Recorded'
  BY <1>1 DEF Heard, DaemonInv, Told, Recorded, Stopping
<1>7. QED
  BY <1>2, <1>3, <1>4, <1>5, <1>6 DEF DaemonInv

\* Every step of the client is of that kind.
LEMMA HeardIs ==
    ASSUME IInv, ClientStep
    PROVE  Heard
<1>1. /\ ready \in BOOLEAN /\ disturbances \in 0..MaxDisturbances
      /\ UNCHANGED serverVars => UNCHANGED <<engine, active, recent, starting, ready, thread,
                                   roles, link, fin, op, stop, stopJob, disturbances>>
  BY DEF IInv, DaemonInv, DaemonTypes, serverVars, daemonVars, engineVars, jobVars
<1>2. UNCHANGED serverVars /\ (wire' = wire \/ (wire # <<>> /\ wire' = Tail(wire))) => Heard
  BY <1>1 DEF Heard
<1>3. CASE Lose \/ Announce \/ Terminal \/ Ignore
  BY <1>2, <1>3 DEF Lose, Announce, Terminal, Ignore
<1>4. CASE ReadyTimesOut \/ TaskExits \/ Hunt \/ IdleLinkDies
  BY <1>2, <1>4 DEF ReadyTimesOut, TaskExits, Hunt, IdleLinkDies
<1>5. CASE HearReady
  <2>1. ready' \in BOOLEAN
    BY <1>1, <1>5 DEF HearReady, Expected
  <2>2. QED
    BY <1>1, <1>5, <2>1 DEF HearReady, Heard, engineVars
<1>6. CASE LoopUnplugged
  <2>1. disturbances' \in 0..MaxDisturbances
    BY <1>1, <1>6, DisturbIs DEF LoopUnplugged
  <2>2. QED
    BY <1>1, <1>6, <2>1 DEF LoopUnplugged, Heard, daemonVars, engineVars, jobVars
<1>7. CASE LoopLook \/ LoopStartLink \/ LoopStartControl \/ LoopCheck \/ LoopReport \/ LoopLost
  BY <1>2, <1>7 DEF LoopLook, LoopStartLink, LoopStartControl, LoopCheck, LoopReport, LoopLost
<1>8. QED
  BY <1>3, <1>4, <1>5, <1>6, <1>7 DEF ClientStep, RunLoop

\* What of the client's own state matters: whether the task and the idle link run.
Sound ==
    /\ ClientTypes'
    /\ begun \subseteq begun'
    /\ waiting' # None => waiting' = waiting \/ waiting' \in begun'
    /\ alive' => proc' # None /\ ~idle' /\ cur' \in {proc', None}
    /\ ready' => ready \/ (starting # None /\ starting = waiting)

\* A step of the client that leaves it right keeps the invariant.
LEMMA SoundKeeps ==
    ASSUME IInv, Heard, Sound
    PROVE  IInv'
<1>1. DaemonInv'
  BY HeardKeeps DEF IInv
<1>2. ClientInv'
  BY DEF IInv, ClientInv, Heard, Sound
<1>3. QED
  BY <1>1, <1>2 DEF IInv, Sound

\* A process that has exited is not one that runs; a link starts only without a task.
LEMMA ReapIs ==
    ASSUME ClientTypes, Reap
    PROVE  proc' \in 0..MaxJobs /\ (alive => proc' = proc)
  BY BoundsAssumption DEF ClientTypes, Reap, None

\* _ensure_idle_link touches the link of the idle role only.
LEMMA EnsureIdleIs ==
    ASSUME ClientTypes, EnsureIdle
    PROVE  idle' \in BOOLEAN /\ (alive => idle' = idle)
<1>1. idle' \in {TRUE, idle} /\ (alive => idle' = idle)
  BY DEF EnsureIdle
<1>2. QED
  BY <1>1 DEF ClientTypes

\* A message is handled, lost or ignored, and the client stays right.
LEMMA ReceiveStep ==
    ASSUME IInv, Lose \/ Announce \/ HearReady \/ ReadyTimesOut \/ Terminal \/ Ignore
    PROVE  Sound
<1> USE BoundsAssumption DEF None, Jobs
<1>1. ClientTypes /\ ClientInv /\ ready \in BOOLEAN /\ 0 \in 0..MaxJobs
  BY DEF IInv, DaemonInv, DaemonTypes
<1>2. wire # <<>> => Head(wire).job \in 1..MaxJobs
  <2>1. wire \in Seq(MessageType)
    BY DEF IInv, DaemonInv, DaemonTypes
  <2>2. wire # <<>> => Head(wire) \in MessageType
    BY <2>1
  <2>3. QED
    BY <2>2 DEF MessageType
<1>3. CASE Lose \/ Ignore
  <2>1. UNCHANGED <<iface, proc, alive, cur, mode, idle, waiting, loop, begun, ready>>
    BY <1>3 DEF Lose, Ignore, clientVars, serverVars, daemonVars, jobVars
  <2>2. ClientTypes'
    BY <1>1, <2>1 DEF ClientTypes
  <2>3. QED
    BY <1>1, <2>1, <2>2 DEF Sound, ClientInv
<1>4. CASE Announce
  <2> DEFINE j == Head(wire).job
  <2>1. /\ j \in 1..MaxJobs /\ proc = None /\ mode' = "PREPARING" /\ TriggerJob(j)
        /\ UNCHANGED <<iface, loop, ready>>
    BY <1>2, <1>4 DEF Announce, Accepting, serverVars, daemonVars, jobVars
  <2> HIDE DEF j
  <2>2. CASE StopIdle /\ StartTask(j) /\ cur' = j /\ waiting' = j
    <3>1. idle' = FALSE /\ alive' = TRUE /\ proc' = j /\ begun' = begun \union {j}
      BY <2>2 DEF StopIdle, StartTask
    <3>2. idle' \in BOOLEAN /\ alive' \in BOOLEAN
      BY <3>1
    <3>3. ClientTypes'
      BY <1>1, <2>1, <2>2, <3>1, <3>2 DEF ClientTypes
    <3>4. QED
      BY <1>1, <2>1, <2>2, <3>1, <3>3 DEF Sound
  <2>3. CASE /\ idle' \in BOOLEAN /\ cur' = None
             /\ UNCHANGED <<proc, alive, waiting, begun>>
    <3>1. ClientTypes'
      BY <1>1, <2>1, <2>3 DEF ClientTypes
    <3>2. QED
      BY <1>1, <2>1, <2>3, <3>1 DEF Sound, ClientInv
  <2>4. QED
    BY <2>1, <2>2, <2>3 DEF TriggerJob
<1>5. CASE HearReady
  <2>1. UNCHANGED <<iface, proc, alive, cur, idle, loop, begun>>
    BY <1>5 DEF HearReady
  <2>2. /\ waiting' \in {None, waiting} /\ mode' \in {"RUNNING", mode}
        /\ ready' => ready \/ (starting # None /\ starting = waiting)
    BY <1>5 DEF HearReady, Expected
  <2>3. ClientTypes'
    BY <1>1, <2>1, <2>2 DEF ClientTypes
  <2>4. QED
    BY <1>1, <2>1, <2>2, <2>3 DEF Sound, ClientInv
<1>6. CASE ReadyTimesOut
  <2>1. /\ UNCHANGED <<iface, alive, mode, loop, begun, ready>>
        /\ waiting' = None /\ cur' = None /\ Reap /\ EnsureIdle
    BY <1>6 DEF ReadyTimesOut, serverVars, daemonVars, jobVars
  <2>2. /\ proc' \in 0..MaxJobs /\ idle' \in BOOLEAN
        /\ alive => proc' = proc /\ idle' = idle
    BY <1>1, <2>1, ReapIs, EnsureIdleIs
  <2>3. ClientTypes'
    BY <1>1, <2>1, <2>2 DEF ClientTypes
  <2>4. QED
    BY <1>1, <2>1, <2>2, <2>3 DEF Sound, ClientInv
<1>7. CASE Terminal
  <2>1. /\ UNCHANGED <<iface, waiting, loop, begun, ready>> /\ proc' = None /\ alive' = FALSE
        /\ (idle' = iface /\ cur' = None /\ mode' = "IDLE") \/ UNCHANGED <<idle, cur, mode>>
    BY <1>7 DEF Terminal, EndTask, serverVars, daemonVars, jobVars
  <2>2. alive' \in BOOLEAN /\ idle' \in BOOLEAN
    BY <1>1, <2>1 DEF ClientTypes
  <2>3. ClientTypes'
    BY <1>1, <2>1, <2>2 DEF ClientTypes
  <2>4. QED
    BY <1>1, <2>1, <2>3 DEF Sound, ClientInv
<1>8. QED
  BY <1>3, <1>4, <1>5, <1>6, <1>7

\* The task of the client or its idle link comes to its end.
LEMMA TaskStep ==
    ASSUME IInv, TaskExits \/ Hunt \/ IdleLinkDies
    PROVE  Sound
<1>1. ClientTypes /\ ClientInv
  BY DEF IInv
<1>2. /\ UNCHANGED <<iface, proc, cur, waiting, loop, begun, ready>>
      /\ alive' \in BOOLEAN /\ (alive' => alive)
      /\ idle' \in BOOLEAN /\ (idle' => idle)
      /\ mode' \in {"IDLE", "HUNTING", mode}
  <2>1. CASE TaskExits
    BY <1>1, <2>1 DEF TaskExits, ClientTypes, serverVars, daemonVars, jobVars
  <2>2. CASE Hunt
    BY <1>1, <2>2 DEF Hunt, ClientTypes, serverVars, daemonVars, jobVars
  <2>3. CASE IdleLinkDies
    BY <1>1, <2>3 DEF IdleLinkDies, ClientTypes, serverVars, daemonVars, jobVars
  <2>4. QED
    BY <2>1, <2>2, <2>3
<1>3. ClientTypes'
  BY <1>1, <1>2 DEF ClientTypes
<1>4. QED
  BY <1>1, <1>2, <1>3 DEF Sound, ClientInv

\* One turn of the client's run loop.
LEMMA RunLoopStep ==
    ASSUME IInv, RunLoop
    PROVE  Sound
<1> USE BoundsAssumption DEF None
<1>1. ClientTypes /\ ClientInv
  BY DEF IInv
<1>2. /\ UNCHANGED <<cur, waiting, begun, ready>>
      /\ iface' \in BOOLEAN /\ alive' \in BOOLEAN /\ idle' \in BOOLEAN
      /\ proc' \in 0..MaxJobs
      /\ mode' \in {"off", "IDLE", "HUNTING", mode}
      /\ loop' \in {"ensure", "startLink", "check", "report", "again", "lost"}
      /\ alive' => alive /\ proc' = proc /\ (idle' => idle)
  <2>1. CASE LoopLook
    <3>1. iface' \in BOOLEAN
      BY <2>1 DEF LoopLook, FindAdapter
    <3>2. loop' \in {"check", "startLink"}
      BY <2>1 DEF LoopLook
    <3>3. Reap /\ UNCHANGED <<alive, cur, mode, idle, waiting, begun, ready>>
      BY <2>1 DEF LoopLook, serverVars, daemonVars, jobVars
    <3>4. QED
      BY <1>1, <3>1, <3>2, <3>3, ReapIs DEF ClientTypes
  <2>2. CASE LoopStartLink
    <3>1. /\ Reap /\ EnsureIdle /\ loop' \in {"ensure", "check"}
          /\ UNCHANGED <<iface, alive, cur, mode, waiting, begun, ready>>
      BY <2>2 DEF LoopStartLink, serverVars, daemonVars, jobVars
    <3>2. /\ proc' \in 0..MaxJobs /\ idle' \in BOOLEAN
          /\ alive => proc' = proc /\ idle' = idle
      BY <1>1, <3>1, ReapIs, EnsureIdleIs
    <3>3. QED
      BY <1>1, <3>1, <3>2 DEF ClientTypes
  <2>3. CASE LoopCheck
    <3>1. Reap /\ UNCHANGED <<iface, alive, cur, mode, idle, waiting, begun, ready>>
      BY <2>3 DEF LoopCheck, serverVars, daemonVars, jobVars
    <3>2. loop' \in {"ensure", "report", "again"}
      BY <2>3 DEF LoopCheck
    <3>3. QED
      BY <1>1, <3>1, <3>2, ReapIs DEF ClientTypes
  <2>4. CASE LoopStartControl \/ LoopReport
    BY <1>1, <2>4 DEF LoopStartControl, LoopReport, ClientTypes, serverVars, daemonVars, jobVars
  <2>5. CASE LoopUnplugged
    <3>1. alive' = FALSE /\ proc' = None /\ loop' = "lost"
          /\ UNCHANGED <<iface, cur, mode, idle, waiting, begun, ready>>
      BY <2>5 DEF LoopUnplugged, EndTask, daemonVars, jobVars
    <3>2. alive' \in BOOLEAN
      BY <3>1
    <3>3. QED
      BY <1>1, <3>1, <3>2 DEF ClientTypes
  <2>6. CASE LoopLost
    <3>1. idle' = FALSE /\ iface' = FALSE /\ mode' = "off" /\ loop' = "ensure"
          /\ UNCHANGED <<proc, alive, cur, waiting, begun, ready>>
      BY <2>6 DEF LoopLost, StopIdle, serverVars, daemonVars, jobVars
    <3>2. idle' \in BOOLEAN /\ iface' \in BOOLEAN
      BY <3>1
    <3>3. QED
      BY <1>1, <3>1, <3>2 DEF ClientTypes
  <2>7. QED
    BY <2>1, <2>2, <2>3, <2>4, <2>5, <2>6 DEF RunLoop
<1>3. ClientTypes'
  BY <1>1, <1>2 DEF ClientTypes
<1>4. QED
  BY <1>1, <1>2, <1>3 DEF Sound, ClientInv

\* Every step of the two daemons keeps the invariant.
LEMMA IInvStep ==
    ASSUME IInv, [Next]_vars
    PROVE  IInv'
<1>1. CASE ServerStep /\ UNCHANGED clientVars
  BY <1>1, ServerSide
<1>2. CASE ClientStep
  <2>1. Sound
    BY <1>2, ReceiveStep, TaskStep, RunLoopStep DEF ClientStep
  <2>2. QED
    BY <1>2, <2>1, HeardIs, SoundKeeps
<1>3. CASE UNCHANGED vars
  <2>1. /\ UNCHANGED <<engine, active, recent, starting, ready, thread, roles, link, fin, op,
                       stop, stopJob, wire, disturbances>>
        /\ UNCHANGED <<iface, proc, alive, cur, mode, idle, waiting, loop, begun>>
    BY <1>3 DEF vars, serverVars, daemonVars, engineVars, jobVars, clientVars
  <2>2. Heard
    BY <2>1 DEF Heard, IInv, DaemonInv, DaemonTypes
  <2>3. Sound
    BY <2>1 DEF Sound, IInv, ClientInv, ClientTypes
  <2>4. QED
    BY <2>2, <2>3, SoundKeeps
<1>4. QED
  BY <1>1, <1>2, <1>3 DEF Next

\* The invariant holds in every reachable state.
LEMMA Inductive == Spec => []IInv
<1>1. Init => IInv
  BY IInvInit
<1>2. IInv /\ [Next]_vars => IInv'
  BY IInvStep
<1>3. QED
  BY <1>1, <1>2, PTL DEF Spec

-----------------------------------------------------------------------------
(* The theorems *)

\* A server that takes requests has let go of everything: no job, switch or survey has
\* the engine, nothing is about to end, no coordinator computes untold, and the link has
\* been started since it was last stopped (start_job, _reserve_radio_reconfiguration,
\* run_spectrum_survey, _finalize_job).
THEOREM IdleHasLetGo == Spec => []IdleIsFree
<1>1. IInv => IdleIsFree
  <2> SUFFICES ASSUME IInv, engine = "IDLE"
               PROVE  /\ active = None /\ starting = None /\ op = "none" /\ link # "none"
                      /\ \A j \in Jobs : ~Finalizing(j) /\ thread[j] # "running"
    BY DEF IdleIsFree
  <2>1. active = None /\ starting = None /\ op = "none" /\ link # "none" /\ stopJob = None
    BY DEF IInv, DaemonInv, EngineOK, ActiveOK
  <2>2. \A j \in Jobs : ~Finalizing(j)
    BY DEF IInv, DaemonInv, JobsOK
  <2>3. \A j \in Jobs : thread[j] # "running"
    BY <2>1, <2>2 DEF IInv, DaemonInv, JobsOK, Finalizing, Jobs, None
  <2>4. QED
    BY <2>1, <2>2, <2>3
<1>2. QED
  BY <1>1, Inductive, PTL

\* What is recorded and told of a job is how that job ended (_finalize_job, which a late
\* report of another job's coordinator reaches too).
THEOREM OutcomeStays == Spec => []OutcomeIsOwn
<1>1. IInv => OutcomeIsOwn
  BY DEF IInv, DaemonInv, Told, Recorded, OutcomeIsOwn, Messages
<1>2. QED
  BY <1>1, Inductive, PTL

\* The task and the idle link never run together (start_idle_link, _handle_task_announce).
THEOREM LinkExcludesTask == Spec => []OneLink
<1>1. IInv => OneLink
  BY DEF IInv, ClientInv, OneLink
<1>2. QED
  BY <1>1, Inductive, PTL

\* No step leads out of STOPPED.
LEMMA StoppedIsFinal ==
    ASSUME IInv, [Next]_vars, engine = "STOPPED"
    PROVE  engine' = "STOPPED"
<1>1. /\ active = None /\ starting = None /\ DaemonInv
      /\ \A j \in Jobs : Finalizing(j) => Stopping
  BY DEF IInv, DaemonInv, ActiveOK, JobsOK
<1>2. CASE ServerStep
  <2>1. ASSUME NEW j \in Jobs,
               StartJob(j) \/ Report(j) \/ AbortJob(j) \/ CoordinatorGivesUp(j)
                   \/ \E outcome \in {"completed", "failed"} : CoordinatorEnds(j, outcome)
        PROVE  engine' = "STOPPED"
    BY <2>1 DEF StartJob, Report, AbortJob, IsActive, CoordinatorGivesUp, CoordinatorEnds,
       engineVars
  <2>2. ASSUME NEW j \in Jobs, Finalize(j)
        PROVE  engine' = "STOPPED"
    BY <1>1, <2>2 DEF Finalize, AbortCoordinator, CloseRole, CheckStop, StopLink, StartLink,
       StartLinkFails, Tell, TellFails, Recovered, Finalizing, engineVars
  <2>3. StartCoordinator \/ StartTimesOut => FALSE
    BY <1>1 DEF StartCoordinator, StartTimesOut
  <2>4. \/ \E what \in {"switch", "survey"} : Reserve(what)
        \/ ApplyRadio \/ SwitchEnds \/ SurveyEnds \/ Stop \/ LinkDies
        => engine' = "STOPPED"
    BY DEF LinkDies, Reserve, ApplyRadio, SwitchEnds, SurveyEnds, Stop, StopBegins,
       StopControlPlane, StopRole, StopLast, engineVars
  <2>5. QED
    BY <1>2, <2>1, <2>2, <2>3, <2>4 DEF ServerStep
<1>3. CASE ClientStep
  BY <1>3, HeardIs DEF Heard
<1>4. CASE UNCHANGED vars
  BY <1>4 DEF vars, serverVars, daemonVars, engineVars
<1>5. QED
  BY <1>2, <1>3, <1>4 DEF Next

\* A daemon that was stopped, or that failed to reset its link or to tell its clients,
\* never takes a job again (stop, _finalize_job, start_job).
THEOREM StoppedForGood == Spec => StoppedStays
<1>1. IInv /\ [Next]_vars => [engine = "STOPPED" => engine' = "STOPPED"]_<<serverVars, wire>>
  BY StoppedIsFinal
<1>2. QED
  BY <1>1, Inductive, PTL DEF Spec, StoppedStays

\* A coordinator's thread starts in StartCoordinator only.
LEMMA ThreadStarts ==
    ASSUME IInv, [Next]_vars, NEW j \in Jobs, thread[j] = "none", thread'[j] = "running"
    PROVE  ready /\ starting = j
<1>1. thread \in [Jobs -> ThreadStates]
  BY DEF IInv, DaemonInv, DaemonTypes
<1>2. ASSUME NEW i \in Jobs,
             StartJob(i) \/ Report(i) \/ AbortJob(i) \/ Finalize(i) \/ CoordinatorGivesUp(i)
                 \/ \E outcome \in {"completed", "failed"} : CoordinatorEnds(i, outcome)
      PROVE  FALSE
  BY <1>1, <1>2 DEF StartJob, Report, AbortJob, Finalize, AbortCoordinator, CloseRole,
     CheckStop, StopLink, StartLink, StartLinkFails, Tell, TellFails, Recovered, Aborted,
     CoordinatorGivesUp, CoordinatorEnds, jobVars
<1>3. \/ \E what \in {"switch", "survey"} : Reserve(what)
      \/ StartTimesOut \/ ApplyRadio \/ SwitchEnds \/ SurveyEnds \/ Stop \/ LinkDies
      => FALSE
  BY <1>1 DEF LinkDies, Reserve, StartTimesOut, ApplyRadio, SwitchEnds, SurveyEnds, Stop,
     StopBegins,
     StopControlPlane, StopRole, StopLast, Aborted, jobVars
<1>4. StartCoordinator => ready /\ starting = j
  BY <1>1 DEF StartCoordinator
<1>5. CASE ServerStep
  BY <1>2, <1>3, <1>4, <1>5 DEF ServerStep
<1>6. CASE ClientStep
  BY <1>6, HeardIs DEF Heard
<1>7. CASE UNCHANGED vars
  BY <1>7 DEF vars, serverVars, daemonVars, jobVars
<1>8. QED
  BY <1>5, <1>6, <1>7 DEF Next

\* Rounds begin only when the task of this very job has been started (handle_datagram,
\* start_job).
THEOREM RoundsNeedTask == Spec => RunsWithTask
<1>1. IInv /\ [Next]_vars =>
        [\A j \in Jobs : thread[j] = "none" /\ thread'[j] = "running" => j \in begun]_vars
  <2>1. ASSUME IInv, [Next]_vars, NEW j \in Jobs, thread[j] = "none", thread'[j] = "running"
        PROVE  j \in begun
    BY <2>1, ThreadStarts DEF IInv, ClientInv
  <2>2. QED
    BY <2>1
<1>2. QED
  BY <1>1, Inductive, PTL DEF Spec, RunsWithTask

\* Of the steps that take a message off the wire only a terminal message of the job whose
\* process runs ends that process.
LEMMA TerminalEnds ==
    ASSUME IInv, [Next]_vars, alive, ~alive', wire' # wire
    PROVE  Head(wire).job = proc
<1>1. CASE Terminal
  <2>1. wire # <<>> /\ Head(wire).job = cur
    BY <1>1 DEF Terminal, IsOwn
  <2>2. Head(wire).job # None
    <3>1. wire \in Seq(MessageType)
      BY DEF IInv, DaemonInv, DaemonTypes
    <3>2. Head(wire) \in MessageType
      BY <2>1, <3>1
    <3>3. QED
      BY <3>2 DEF MessageType, Jobs, None
  <2>3. QED
    BY <2>1, <2>2 DEF IInv, ClientInv
<1>2. UNCHANGED clientVars => alive' = alive
  BY DEF clientVars
<1>3. CASE Announce
  <2>1. (StopIdle /\ StartTask(Head(wire).job)) \/ UNCHANGED alive
    BY <1>3 DEF Announce, TriggerJob
  <2>2. QED
    BY <2>1 DEF StartTask
<1>4. CASE ClientStep /\ ~Terminal /\ ~Announce
  BY <1>2, <1>4 DEF ClientStep, Lose, HearReady, ReadyTimesOut, Ignore, TaskExits, Hunt,
     IdleLinkDies, RunLoop, LoopLook, LoopStartLink, LoopStartControl, LoopCheck,
     LoopReport, LoopUnplugged, LoopLost
<1>5. QED
  BY <1>1, <1>2, <1>3, <1>4 DEF Next, vars

\* A broadcast that comes late does not end the task of another job
\* (_handle_job_terminal).
THEOREM TerminalIsOwn == Spec => OwnTerminal
<1>1. IInv /\ [Next]_vars => [alive /\ ~alive' /\ wire' # wire => Head(wire).job = proc]_vars
  BY TerminalEnds
<1>2. QED
  BY <1>1, Inductive, PTL DEF Spec, OwnTerminal

=============================================================================
