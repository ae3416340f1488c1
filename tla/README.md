# Formal models of the wireless federated-learning stack

TLA+ models of the fork of WFB-NG that carries federated-learning rounds over a
shared radio channel. Each module is translated from the source next to which
it is kept; paths below are relative to the repository (`src/...` is the C++
directory, `wfb_ng/...` the Python package). TLC checks the models on small
instances, TLAPS proves what is stated in the `*Proofs` modules for all values
of the constants. `PROJECT.json` maps every definition to its source lines.

## 1. The system

Five layers, from the top: the algorithm, the Runtime (rounds as directories of
files), the Transport (UFTP multicast down, HTTP up), the link layer (TUN
devices, GRANTs and READY frames, FEC blocks) and the radio. One server and up
to a handful of clients share one channel; the server decides who may send.

| Component | State | Operations | Hard part |
|---|---|---|---|
| Token scheduler, `src/token_scheduler.cpp` | active queue, cursor, per-node silence and silent grants | declare_ready, observe_uplink_data, next_grant, collect_silent_node_removals | erasing under a cursor that indexes without a check; fairness |
| Server uplink loop, `src/v6_uplink.cpp` run_server | next grant time, feedback window | normal grant, feedback window open / grant / close | two schedules on one channel |
| Client uplink loop, run_client | queue, authorisation window, READY declaration, FEC deadline | read TUN, send, READY, flush | windows counted from when a GRANT is heard; lost frames; late flush |
| GRANT filter and authorization, `src/control_envelope.cpp`, `src/token_authorization.cpp` | session, retired sessions, last sequence, twice | filter_grant, apply_event | duplicates, reordering, restarts, two records |
| TUN read queue, `src/v6_uplink_queue.hpp` | ring, byte count, pause latch | push, pop_front | capacity, hysteresis, wrap-around |
| ServerRuntime, `wfb_ng/fl/runtime.py` | round state in memory and on disk, failure, flags of a cancellation | publish_model, wait_for_updates, abort, report_update_failure, recovery | five kinds of threads, crashes between files |
| ServerTransport, `wfb_ng/fl/transport.py` | accepted uploads, downlink operation | upload, start / wait / cancel downlink | late results of an earlier round |
| FLCoordinator, `wfb_ng/fl/coordinator.py` | phase, stop event, summary | run, abort | abort against unguarded assignments |
| ClientRuntime and client Transport | current round, archived files | wait_for_model, submit_update | crash between archive and state |
| Radio switch, leases, registry, `wfb_ng/fl/control.py` | phase of the switch, lease of every client, saved configuration, hunting | PREPARE, COMMIT, ping, FINALIZED, CONFIRMED, roll-back, abort, hunt | two generals over a channel that is being changed |
| Reassembly `src/rx.cpp`, transmitter `src/tx.cpp` | ring of unfinished FEC blocks, session, block and fragment numbers | fragment in, packet out, override, restart | reuse of the ring, order, sessions that number alike |
| Server daemon, `wfb_ng/fl/server_daemon.py` | engine state, active and recent job, link process | start, report, abort, finalise, switch, survey, stop | one lock that is let go of in the middle of an end |
| Client daemon, `wfb_ng/fl/client_daemon.py` | adapter, task process, idle link, current job | announce, ready, terminal, run loop | a run loop that decides without the lock |
| Role service, `service.py`, `role.py` | link, route, transport, runtime of one task | start, poll, close | order of closing |
| Split-process scheduler and token IPC | the scheduler behind datagrams | bridge, gate | stale datagrams |
| Console, model library, evidence, radio survey, upstream services, tools, vendored and generated code | | | see section 8 |

Interactions: clients and server talk through frames only (READY, GRANT, data);
inside a process the receive path calls the token listener, and one poll loop
calls everything else. In the Runtime the application thread, HTTP handler
threads, the downlink monitor and an aborting thread share one condition and
its lock, and the directories on disk are the interface across a restart. The
Coordinator drives the Runtime through its calls and shares a stop event with
the thread that aborts. The server daemon owns the Coordinator's thread and the
link process, and talks to the client daemons by broadcasts that may be lost
and datagrams that are acknowledged; the radio switch moves both sides, and
the channel on which they talk, at once.

What makes a component correct: the scheduler serves everybody who waits and
forgets who has left; at most one client is authorised and what is sent falls
into no other client's window; a GRANT authorises once; the queue loses and
reorders nothing and never blocks its source for ever; a round ends once, for a
reason of its own, and success means that the model was delivered and enough
updates are stored; a job ends with the outcome it shows, and an engine that
takes requests has let go of everything; packets leave the reassembly once and
in order; nobody keeps a channel that was not agreed upon, and a client always
finds the server again. The `hazards` of
`PROJECT.json` list, at their lines, what can break this.

## 2. Modules

| Module | Models | Extends / uses |
|---|---|---|
| `TokenScheduler` | the scheduler class, driven as run_server does | |
| `TokenFairness` | a history variable on it: how often one node overtakes another | `TokenScheduler` |
| `ServerLoop` | the scheduler plus feedback windows | `TokenScheduler` |
| `UplinkAir` | server loop, clients, and the air between them | `ServerLoop` |
| `GrantSession` | which GRANTs one client obeys, with restarts | |
| `TunReadQueue` | the ring and its backpressure | implements `BoundedFifo` |
| `BoundedFifo` | abstract specification: a bounded FIFO queue | |
| `ServerRuntime` | rounds on the server with uploads, downlink, abort, crash | |
| `Coordinator` | the job loop against abort() | implements `JobThread` |
| `JobThread` | abstract specification: the thread of a job as the server daemon takes it | |
| `Reassembly` | FEC blocks of one sender and their reassembly, with restarts | |
| `RadioSwitch` | the radio switch: server, clients, leases, hunting | |
| `ServerDaemon` | who has the server's engine, and how a job ends | |
| `JobLifecycle` | the server daemon, a client daemon and the broadcasts between them | `ServerDaemon` |
| `UplinkProofs` | theorems about the scheduler, its fairness, and the air | `UplinkAir`, `TokenFairness` |
| `GrantSessionProofs`, `TunReadQueueProofs`, `ReassemblyProofs`, `ServerRuntimeProofs`, `CoordinatorProofs`, `RadioSwitchProofs`, `JobLifecycleProofs` | theorems about these components | the component |
| `MC_TokenFairness`, `MC_ServerLoop`, `MC_UplinkAir` | instances for TLC (order of the clients, symmetry) | |

How state and actions correspond to the code:

* **Time.** The C++ code stores absolute milliseconds and compares them with
  now. The models store distances (`silenceMs`, `grantIn`, `feedbackIn`,
  `windowMs`, ...), which a tick changes by one. Distances that are only
  compared with a threshold stop there, so that no bound on time is needed.
* **TokenScheduler.** `DeclareReady`, `ObserveUplinkData`, `NextGrant` are the
  methods. The removal walk is one step per loop iteration
  (`CollectSilentNode`), because the cursor is repaired inside it; the loop is
  single-threaded, so `LoopIdle` keeps other handlers and time out of the walk.
* **ServerLoop.** `OpenFeedbackWindow`, `FeedbackGrant`,
  `CloseFeedbackWindow`; `NormalGrant` and `PollIdle` need the window closed
  (the loop's `continue`).
* **UplinkAir.** A GRANT carries its age, at most `MaxDelayMs`. The client's
  window starts when it is delivered. An FEC block may be left open by any
  packet (`flushIn`), and is flushed when the queue is empty and the deadline
  has come, whether or not the client is authorised, as in the code. Frames are
  kept in sets: two identical frames under way are one, and losing one loses
  both, which the later repetition of the frame makes up for. READY and data
  frames stay under way for any time.
* **GrantSession.** `filter` and `auth` are the two records; a frame may be
  delivered any number of times, until its last copy is lost. A GRANT that has
  expired between the two clock readings passes the filter and is not applied.
  Server process and session coincide. `applied`, the sequence of the frames that
  have authorised the client process, and `lateHeard` are history.
* **TunReadQueue.** The code's members one by one; a read happens only while
  reading is enabled, because poll asks for the device only then.
* **ServerRuntime.** Every critical section of the condition and every disk
  access is a step of its own; `pc` is the application thread, `cancellers` are
  the threads in `_cancel_downlink`, each with the round it came from: one may
  sleep for as long as it likes and wake in the next round. `CloseTransport` is
  what `ServerTransport.close` does to the downlink and to later calls; the HTTP
  server goes on until it is shut down. `Restart` kills all threads and applies
  `recover_round_states` to the disk. History: `delivered`; `cut`, the rounds
  whose running downlink was ended by a close; `overtaken`, that a thread of an
  earlier round has finished its cancellation in the current one.
* **Coordinator.** One step per test, assignment or call, on both sides:
  `abort()` takes the lock (`AbortEnters`), sets the event, marks the state, tells
  the Runtime and writes the summary (`AbortSignals` ... `AbortLeaves`), and what
  the thread does meanwhile is what needs no lock, the assignment of FAILED at
  `coordinator.py:397` included (`FindModel`). `missing` is history: the job had
  no model. `JobThread` is what is
  left of it in `ServerDaemon`, whose `thread[j]` also says whether the thread has
  been started and whether its outcome has been reported. The Runtime is what
  its calls return: they may raise at any time and must not succeed after the
  abort they have seen.
* **Reassembly.** `air` holds every frame ever sent, and `Hear` may take any of
  them at any time: that is loss, repetition and reordering at once. One frame
  is handled at a time; each turn of a loop of `process_packet`,
  `get_block_ring_idx` or `rx_ring_push` is a step, between `Hear` and the step
  that leaves `todo` idle. `last` is advanced with every pushed block, where the
  code sets it once before the loop; nothing reads it in between.
* **RadioSwitch.** A configuration is its channel. Broadcasts that name a channel
  and acknowledgements are kept in the set of those ever sent; PREPARE and
  COMMIT, which name none, wait in the queue of each client that was on the
  channel, for one look. There is no clock: a barrier may time out whenever it
  waits, and a lease may lapse whenever it is armed. The expiry is two steps
  (the deadline, the watchdog's thread) and a third when the thread gets the
  lock. A second acknowledgement of the same message changes nothing and is
  left out, as is a PREPARE that is answered "not ready", which for the server
  is one that is not answered. A server that crashes looks to the clients like
  one that fails without an ABORT.
* **ServerDaemon.** A critical section is a step. `start_job` keeps the lock
  while it waits for TASK_READY (`starting`), and nothing else that needs the
  lock can happen. `fin[j]` is where the `_finalize_job` of job j is. The abort
  of a coordinator and `wait(3.0)` are one step, after which its thread may be
  at its end or not. `link` is `_link_process`: "none", "up", or "dead" when it is
  held but the process has ended, which `LinkDies` lets happen at any time and any
  number of times. Jobs are numbered in the order of their starts.
* **JobLifecycle.** While `waiting`, the client's lock is held by the handler
  that repeats TASK_READY. The run loop is a program counter, and its steps
  without the lock are enabled all the time. A link that does not start at the
  second place where the run loop starts it ends the daemon; what follows is
  not modelled. One client is the target of every job.

## 3. Runs

| Run | Question | Bounds and why they suffice |
|---|---|---|
| `scheduler` | `QueueSound`, `TurnKept`, `BoundedBypass` | 4 nodes: the smallest number in which a node can be granted, removed, re-enter and be granted again before the one that waits. Slot 1 ms, no guard: only sums of the two matter. The two nodes that are not measured are symmetric. |
| `server_loop` | `RotationGoesOn`, `FeedbackGoesOn`, `SilentSeatsShrink` | 2 nodes, slots of 2 + 1 ms, feedback period 3 ms: windows come due while a slot runs and again right after closing. In the mutant of `SilentSeatsShrink` a seat needs more silent grants than the counter, which saturates at 2, can show; in the code it would need a third. |
| `air` | `MutualExclusion`, `NoCollision` | 2 clients, delay up to 1 ms, guard 2 ms = delay + flush delay, the boundary of what is proved. One packet per queue: windows do not depend on how many follow. |
| `air_live` | `PendingServed` | 2 clients, no delay, no guard: the loss of frames and the removal of seats is what matters here. |
| `air_feedback` | `OverlapBounded` | 2 clients, period 2 ms, slot 1 ms, guard 1 ms, delay 1 ms: windows interrupt normal slots in every phase. That three never overlap says nothing with two clients; `AtMostTwoOverlap` proves it for any number. |
| `session` | `NoReplay`, `ChecksAgree`, `LiveSessionHeard` | 3 sessions (old, retired, running), 2 sequence numbers each. |
| `tun_queue` | `IsFifo`, `RoomWhileReading`, `ReadingResumes` | 4 slots, sizes 1 and 3, thresholds 5 and 2: packets that jump over a threshold, a ring that is full before and after the byte threshold. |
| `reassembly` | `InOrder`, `NothingWithheld`, `Genuine` | Blocks of 2 packets and 1 parity fragment, a ring of 2, 4 blocks: a frame can be further ahead than the ring is long, and a block can be thrown out, passed over, or completed by parity. 2 runs of the sender. |
| `runtime` | all safety and liveness of rounds: `OneActiveRound`, `SuccessMeansQuota`, `DownlinkBarrier`, `FailureIsOwn`, `CancelReaches`, `TerminalFinal`, `FailureStopsPublish`, `WaitEnds` | 2 participants, quota 1, 2 rounds: an earlier round whose threads and uploads reach into the next one, and a quota that is not everybody. |
| `coordinator` | `SummaryAgrees`, `KeepsToJobThread`, `AbortEnds` | 6 rounds, both kinds of loop; abort() may be called again, and gets through once the loop has written over ABORTED. |
| `radio` | `Agreement`, `SwitchGuarded`, `ConfigIsReal`, `Reunites` | 1 client, 2 channels, 2 switches, 1 fault of an adapter on either side. Lease, roll-back and hunting concern each client alone; the second switch meets what the first has left, late messages included. `KeptByAll`, a part of `Agreement`, is proved for any number of clients; with one it says nothing. The safety properties also hold for 2 clients with 1 switch (2.0 million states). |
| `jobs` | `IdleIsFree`, `OutcomeIsOwn`, `OneLink`, `StoppedStays`, `RunsWithTask`, `OwnTerminal` | 2 jobs, so that reports and messages of the first meet the second; 1 disturbance, which is a switch, a survey, a stop or the loss of the adapter. The server's link process may end at any time besides. |

`SendReady`'s redeclaration interval is 0 in `air_live` and `air_feedback`: a
client may then repeat READY at any time, which includes every longer interval.

**Deadlock** is checked in every run. In `ServerRuntime` the process can always be
killed and restarted, so that a lost wake-up shows in `WaitEnds` instead. In `Coordinator` the finished thread is
the explicit stuttering step `Done`. In `Reassembly` a frame can always be
heard again.

**Fairness.** `ServerLoop`: the clock goes on, and the loop, which asks for each
of its duties in every round, does what is due again and again (strong fairness
for a normal grant and the opening of a window, since the walk or a window can
interrupt them; weak for the rest). `UplinkAir`: the same, the clients' poll
loops go on, and a frame that is sent again and again is not lost every time.
`TunReadQueue`: the front packet is sent sooner or later, which for the client
is `PendingServed` and needs no GRANT on the server. `ServerRuntime`: threads go
on, while the UFTP process need not end, no client need upload, no time-out is
assumed, and nobody need abort. `Coordinator`: the thread that is in `abort()` goes
on, and once the Runtime has been told, the coordinator's thread does, because
`runtime.abort` makes the calls it may be in return. There is one place where it
does not: an abort between `start_downlink` and the store of its handle (section
4) leaves `publish_model` waiting for UFTP, so that `AbortEnds` then rests on
UFTP ending by itself or on the role's close. `RadioSwitch`:
every wait of the server and every lease ends, the threads run, a client whose
server is gone notices it, and one that tries the server's channel again and
again is heard some time (strong fairness, for the hunt visits the channels in
turn). `Reassembly` and `JobLifecycle` state no fairness: their properties say
what must not happen.

## 4. Where code and documents disagree

What the models showed on the way. The properties that are checked hold with
these behaviours in the models; none of them is assumed away. For three of them the
model also defines what a document or a test says (`AllDelivered`,
`FailureCancels`, `AbortIsRecorded`), next to the property that is true; TLC
violates it when it takes the place of that property in the cfg.

In the Runtime and the job loop:

* `_cancel_downlink` keeps one pair of flags for all rounds. A thread that
  cancels the downlink of a round that has ended may set
  `_downlink_cancel_finished` (`runtime.py:631`) after the next round has reset
  it; a failure of that round then cancels nothing, and `publish_model` waits until
  UFTP ends. `docs/design/系统分层与跨层契约.md:145` has the Runtime request the
  cancellation; that is `FailureCancels`, which TLC violates.
  `CancelReaches` says that there is no other way to lose a cancellation.
* `ServerTransport.close` (`transport.py:335-343`), called by the role's main
  thread at a signal, at the loss of the link or when the algorithm has ended,
  cancels a running downlink and tells the Runtime nothing. A cancelled operation
  ends without an error, so `publish_model` writes `waiting_for_updates` for a round
  that was not delivered. `docs/design/FL-Runtime轮次与文件契约.md:77` counts it as
  published only once it has been delivered to all; that is `AllDelivered`, which TLC violates.
  `DownlinkBarrier` says that only such a close does it.
* A round that succeeds inside `publish_model` cannot be delivered
  (`outcome = "removed"` is reachable): `_rebuild_terminal_updates`
  (`runtime.py:511`) reads `state.json`, and the state is in `round-state.json`
  (`runtime.py:692`). The contract of the Runtime, section on
  `wait_for_updates`, promises the result of such a round at once.
* The job loop assigns its phase without looking at an ABORTED set since its
  last check; a job that was aborted may end FAILED or SUCCEEDED. The failure of a
  job without a model (`coordinator.py:397`) takes no lock either and can fall
  inside `abort()`, between its look at the state and its assignment: such a job
  shows ABORTED, while its summary says "failed" and `on_failed` is called.
  `wfb_ng/tests/test_fl_coordinator.py:362` says that an abort is recorded as
  ABORTED in state and summary; that is `AbortIsRecorded`, which TLC violates.
  `SummaryAgrees` and `KeepsToJobThread` say what remains true.
* A crash between the directory of a round and its first state file makes the
  next start fail (`pc = "dead"`).
* An abort between `start_downlink` and the store of its handle cancels
  nothing, and `publish_model` waits until UFTP ends.

In the link layer:

* `collect_silent_node_removals` protects the node just granted, so the last
  silent node of the queue keeps its seat for ever (`SilentSeatsShrink` is what
  remains true). A report under `docs/reports` says that every silent seat is
  released.
* `open_feedback_window` does not wait for a running normal slot, so two
  clients may be authorised at once; `OverlapBounded` says how far this goes.
  `CONTEXT.md` describes the guard interval as what keeps windows apart.
* The flush of an FEC block does not ask for the authorisation and can come
  after the GRANT has expired; the design document calls a GRANT a hard
  deadline. `NoCollision` shows that the guard interval absorbs it if it is
  long enough.
* A block that becomes the front of the reassembly ring does not hand on what it
  already has; its packets stay until the next frame of that block, or a later
  block that can be completed, arrives. `send_packet` also counts no loss right
  after packet 0, because `seq > 0` stands for "something was sent".
* A frame of an earlier run of a sender that is heard for the first time when
  the next run is already known retires the running session, for GRANTs and for
  data alike; `LiveSessionHeard` says that nothing else does.

In the daemons:

* `coord.wait(3.0)` (`server_daemon.py:1145`) comes back with or without the
  thread at its end, and nobody looks. A job can be "ready" while its
  coordinator still computes. `docs/design/系统分层与跨层契约.md:114` forbids to
  report recovery after a join of a fixed number of seconds.
  `IdleIsFree` says what is true: such a coordinator has been told to abort.
* `should_reset` (`server_daemon.py:1162`) is looked at under the lock, and the
  link is restarted without it. A stop in between ends before the start, and
  the link process outlives the daemon.
* Nothing watches the link process of an idle server: `get_status`
  (`server_daemon.py:733-737`) shows that it has ended, and only the end of a job,
  or a switch to other parameters, starts it again. `IdleIsFree` therefore says that
  the daemon has started the link since it last stopped it, not that it runs; a
  job can be accepted over a dead one.
* `start_job` that fails in the broadcast of TASK_ANNOUNCE leaves the engine
  RUNNING with a job that nobody ends; the model leaves this step out.
* A role that does not close leaves the recovery "blocked", but the engine
  IDLE, so that it takes the next job; line 74 of the same document wants new
  jobs to be refused until the role has ended.
* If every acknowledgement of TASK_READY is lost, the client forgets the number
  of the job and leaves its process running (`client_daemon.py:1149`); the
  JOB_ABORT that follows is taken for that of another job.
* The run loop reports IDLE once it gets the lock, and does not look again: a
  client may report IDLE while a task that was announced in between runs.
* An adapter that is lost while TASK_ANNOUNCE waits for the lock can leave a
  task running without one, since the sandbox is aborted before the lock is
  taken.

## 5. What is proved

Every safety invariant that a run checks is a theorem here, for any number of
nodes, clients, sessions, jobs, rounds or slots and any durations, and so are all
action properties that the runs check and the refinements of `BoundedFifo` and
`JobThread`. The theorems rest on the named ASSUMEs of the modules and on the hypotheses listed
here. For each component the inductive invariant was checked with TLC on the
instance of its run before it was proved.

* **UplinkProofs**, the scheduler: `TypeCorrect`, `QueueIsSound`, `TurnIsKept`,
  `NobodyIsBypassed`. `QueueInv` is the type invariant with `QueueSound`: the
  cursor is below the length of the queue, or zero when it is empty, and all
  seats differ. The lemmas describe the erase (which keeps the order and the
  distinctness of the rest) and the cursor after it. `TurnKept` is an action
  property that follows from the same invariant. For `BoundedBypass`, of two
  different nodes (hypothesis `MeasuredPair`), `Bypass` says how often the one
  can have been granted, by where the two sit relative to the cursor. The bound
  is two because of the silent grants: a node is removed with two of them and
  appended again with none, so that it cannot leave and re-enter twice before the
  cursor comes round.
* **UplinkProofs**, the air: `AtMostTwoOverlap` (`OverlapBounded`), `AirIsExclusive`
  (`MutualExclusion`), `AirHasNoCollision`. All assume
  `DelayWithinGuard`, that a GRANT is under way no longer than the guard interval
  lasts. `AirIsExclusive` and `AirHasNoCollision` also assume `NoFeedback`, and the
  latter that the guard covers delay and FEC flush together; with feedback
  windows both are false, see section 4. What is safe for the next grant depends
  on what is still on the air. `Slots` therefore names the client of the normal
  slot and that of the feedback slot: every GRANT under way belongs to its slot,
  and every window ends `GuardMs - MaxDelayMs` before its slot does. For the late
  flush `FlushCovered` adds that it is due before the slot ends.
* **GrantSessionProofs**: `ChecksAlwaysAgree`, `AppliedStaysStale`,
  `GrantsAreNotReplayed`, `LiveSessionStaysHeard`. The two records are related
  by `AuthBehind`: what is behind the filter has retired no more, and in the
  same session has passed no more, than the filter. `AppliedPassed` says that
  what was applied is retired or passed, and `InOrderOnce` that of two frames of a
  session the later one has the larger number, with no other session between
  them. `SessionsInOrder` adds that without a
  late frame no record has gone past the running server.
* **TunReadQueueProofs**: `ReadingHasRoom` and `ImplementsFifo`, the refinement
  of `BoundedFifo` under the mapping `Backlog`, the ring read from `head`.
* **ReassemblyProofs**: `ReassemblyTypes`, `RingIsSound`, `HandsOnGenuine`,
  `NothingIsWithheld`, `HandsOnInOrder`. The invariant speaks of the unfinished
  blocks by their distance from the front. `Ordered`: their numbers increase, up to
  the last known one. `BlockOK`: a block holds exactly what was heard of it, has
  handed on a prefix if it is the front and nothing otherwise, and has fewer than
  K fragments unless it is just being completed. `PastOK`: a block that is not in
  the ring has handed on once each packet that was heard or can be recovered, and
  all that did so are older than those in the ring. Only the lemmas on the ring
  (drop the front, open one behind) have to do with its wrapping indices.
* **ServerRuntimeProofs**: `RuntimeTypes`, `OneRoundIsActive`,
  `SuccessHasQuota`, `BarrierHolds`, `FailureIsOfThisRound`, `EndedStaysEnded`,
  `CancelIsOnItsWay`. What the disk shows was decided by what the application
  thread saw earlier. `DiskAgrees` relates the disk to the memory of the Runtime
  (only the directory of the round to be opened is ahead), `CallAgrees` says for
  each place of the thread which states the round can be in, and `DownlinkAgrees`
  that a downlink which ends undelivered had been stopped, by a cancellation or a
  close. `CancelIsOnItsWay` (`CancelReaches`) adds `CancelAgrees`: unless the round is
  `overtaken`, no thread of its own cancels before the handle is stored, a finished
  cancellation means an ended downlink, and a failed round in its downlink keeps a
  thread that is to cancel it.
* **RadioSwitchProofs**: `SwitchTypes`, `AllOrNone` (`Agreement`), `LeaseIsHeld`
  (`SwitchGuarded`), `ServerKnowsChannel` (`ConfigIsReal`). Messages are never
  taken off the air, so the argument is about what is there for ever: a CONFIRMED
  exists only for a session for which all targets have sent FINALIZED_ACK, and
  its session is not taken back (`Decided`); the server counts only
  acknowledgements of the phase and session it is in (`Counted`). `ClientOK` is
  the part of one client, and `ClientMoveKeeps` lets each of its steps be looked
  at without the others.
* **JobLifecycleProofs**: `IdleHasLetGo` (`IdleIsFree`), `OutcomeStays`
  (`OutcomeIsOwn`), `LinkExcludesTask` (`OneLink`), `StoppedForGood`
  (`StoppedStays`), `RoundsNeedTask` (`RunsWithTask`), `TerminalIsOwn`
  (`OwnTerminal`). The state of the engine stands for its owner: `EngineOK`,
  `ActiveOK` and `JobsOK` say which state goes with an active job, a job that is
  about to end (one at most) or an operation; `Told` and `Recorded` that a
  message or a record exists only of a decided outcome. Of the link they say that it
  is held whenever the engine is idle; nothing is assumed of its process.
* **CoordinatorProofs**: `CoordinatorTypes`, `SummaryIsRight` (`SummaryAgrees`),
  and `IsJobThread` (`KeepsToJobThread`), the refinement of `JobThread` under the
  mapping `Thread`: an outcome is visible once it is decided, and `JobThread` never
  replaces it. `CoordInv` says that ABORTED never stands
  without the stop event, nor, once the lock is free, without its summary, that
  the thread cannot decide while `abort()` holds the lock, except that a job without
  a model fails (`missing`), and that nothing but an outcome of the thread
  stands between the decision and the summary; `RoundsInv`, for the types, that a
  round under way is one the job still has.

The theorems that state no property of a run
(`TypeCorrect`, `AppliedStaysStale`, `RuntimeTypes`, `CoordinatorTypes`,
`SwitchTypes`, `ReassemblyTypes`, `RingIsSound`) state types and strengthenings.

Only model-checked: liveness (`RotationGoesOn`, `FeedbackGoesOn`,
`SilentSeatsShrink`, `PendingServed`, `ReadingResumes`, `AbortEnds`, `Reunites`
and that of `ServerRuntime`), which needs fairness and ENABLED, both out of the
prover's reach. Induction over data is not needed: the models
have no recursive definition, and what a packet run of `Reassembly` is follows from
`NoGap`.

## 6. What the models leave out

* Unknown nodes and frames for other nodes: rejected without a change of state.
* Forwarding of downlink packets, counters and summary files in the link loops.
* 32- and 64-bit limits of sequence numbers and times.
* Contents of models, updates, manifests and digests: a file is in place or it
  is not, and its validation succeeds or fails.
* Writes to the state file that fail; HTTP parsing; chunk time-outs.
* Aggregation arithmetic. In the asynchronous mode the model aggregates an
  update once per step.
* Reassembly: the encrypted mode with its session packets, 48-bit block and
  32-bit packet numbers, statistics.
* RadioSwitch: power and modulation, CONFIG_RADIO_ALIGN, the registry's view of a
  node's readiness, the callbacks of a client's daemon (a callback that raises
  is a failure of the adapter), a client that stops. A callback that raises
  inside `hunt_once` ends the supervisory thread in the code; the model lets it
  go on.
* Daemons: preflight checks, the readiness of nodes, HTTP requests and the
  console, progress events (a coordinator that is told to abort and is still
  computing may write its progress into that of the next job), a TUN device that
  cannot be released, malformed messages, a stop of the client, evidence.
* In `ServerRuntime` a restart kills all UFTP processes, as the deployment
  document requires of the manager.

## 7. Plan

Done: the link layer's uplink and its data path, the server's round and job, the
radio switch, the daemons, and the proofs of their safety. Next, in this order:

1. A further refinement between components: that a client that obeys GRANTs as
   `GrantSession` says takes each at most once, as `UplinkAir` assumes.
2. `ClientRuntime`: wait_for_model and submit_update with crashes, composed with
   the upload actions of the server's transport.
3. The split-process scheduler with its datagrams; the node registry; the role
   service.

The project is kept at a dozen runs and some forty properties, so that all of it
can be checked again after every change of the code: a new component takes the
place of a run that says less.

## 8. Not modelled

`ClientRuntime`, the split-process scheduler, the registry and the role service,
until steps 2 and 3 above are done. For good: the radio configuration tables and
the frame-counting survey (sequential), artifacts, model library and evidence
(file copying), the console and its pages (presentation), the algorithm
fixtures (arithmetic), the inherited Twisted services, KCP and C tools (off this
path), `mavlink.py` (generated; 25 000 of the 42 000 lines of Python), `zfex.c`,
`ikcp.c`, `radiotap.c` (vendored).
