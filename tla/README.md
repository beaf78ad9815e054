# TLA+ verification of the VLAI L1 runtime

TLA+ models of the coordination logic of this repository, the TLC configurations
that check them on small instances, and TLAPS proofs of what holds for every
instance: every safety property of the passing runs. The runtime moves two pairs
of arms over CAN and records what they do, so the logic that matters is the one
that decides who owns the robot, when motors may be enabled, that they are
disabled again on every way out, and that the dataset holds what happened. That
logic is spread over a Python supervisor, a privileged Python launch per side, a
C++ sidecar per side, file locks, signals, pipes and sockets. Unit tests take
one path through it at a time; the models take all of them.

Paths below are relative to the repository root; `lifecycle.py` is
`src/vlai_l1_runtime/teleoperation/lifecycle.py`, `managed.py` is
`src/vlai_l1_runtime/collection/managed.py`, `main.cpp` and
`runtime_safety.cpp` are in `native/xair_sidecar/`.

## 1. Inventory

Each entry: state, operations, interactions, what is hard, what makes it correct.

**Command session** (`session.py`, `contracts.py`). A reference state machine
for exclusive policy command: disconnected, read-only, command; a lease name,
two timers, the last accepted sequence number and instant, the last feedback
used, the acquisition instant. Operations: connect, disconnect, acquire,
heartbeat, accept, release, check_timeouts, each with the caller's clock
reading. No production transport uses it yet (`docs/ARCHITECTURE.md`); it is
exported as the contract one will have to keep. Hard: long sequences of calls
with reused lease names, replayed commands and clocks that go back; every
refusal drops the whole tenure. Correct: one owner; accepted commands contiguous
and newer than the acquisition; no timer kept alive by the other's traffic; the
first command of a tenure holds the measured pose.

**x_air side lifecycle** (`lifecycle.py`). One privileged process per side: take
the lifecycle lock (shared, or exclusive for an isolated side), scan `/proc` for
competing sidecars, remove an orphaned control socket, configure two CAN links,
probe every motor without motion, wait at the startup gate when managed, start
the sidecar, monitor it, stop it, disable the motors, take the links down. It
talks to the sidecar by SIGINT/SIGKILL and by reading its output, to the kernel
by `ip` and raw CAN, to other launches only by lock, process table and links.
Hard: check-then-act between scan and start, partial failure at every command,
crash of either process, signals that arrive where nobody looks. Correct:
controllers supervised; one controller per side; an isolated session alone;
exit zero only from a stopped robot; enabled motors always accounted for.

**Managed bimanual runtimes** (`managed.py:76-320, 640-725`). The unprivileged
parent of both launches: spawn, pump output, release both gates after both
preflights, wait for fresh state, watch, stop both groups under one deadline,
kill, verify. Hard: either side fails at any point, START goes out one side
after the other, the parent's kill races with the launch's cleanup, the parent
dies. Correct: neither sidecar starts unless both probes passed; a fallen side
stops the other; "stopped" is only said of a stopped robot.

**Native teleoperation sidecar** (`main.cpp`). Control socket, SDK handle, a
one-element state slot filled from the SDK's thread, a publisher thread sending
datagrams, a run loop (faults, joint safety, staleness, one control request,
CAN health), and AdjustPosition. Hard: the slot overwrites, the callback skips
when it misses the lock, AdjustPosition resets the monitor under running
callbacks, an exception beside a joinable thread aborts with motors enabled.

**Joint safety monitor and CAN health** (`runtime_safety.cpp`). Per joint a
following-error timer and a warned flag; bounds and errors checked in joint
order with an early return. Correct: timers only from observed samples; one
warning per excursion; bounds fatal.

**Automatic follower** (`automatic_core.hpp`, `automatic_main.cpp`,
`teleoperation/automatic.py`, `paired_protocol.py`, `automatic_review.py`). A
supervisor and one native process that owns the motors, joined by a pipe and by
signals: hold, one sweep, or unloaded, loaded and unloaded sweeps with operator
acknowledgements between them (ready files turned into SIGUSR2), which count
only in the two waiting phases and start a settling dwell. A report is written
at the end and reviewed later from files alone. Hard: the supervisor knows a
phase only from what it has read; either process dies anywhere, the native one
while it holds the inherited lock; the end of the pipe is not the end of the
process. Correct: no motor enabled without the lock; no sweep before its
acknowledgement; a report that is true of the robot.

**Feedback capture** (`teleoperation/feedback_capture.py`, `can_probe.py`,
`parameter_probe.py`, `feedback*.py`, `motor_feedback.cpp`,
`passive_feedback_log.cpp`, `feedback_log_buffer.cpp`). Four parts. The capture
holds the lifecycle lock, brings one endpoint after the other UP, probes its
motors in rounds, asks for parameters, and takes the links down again. Raw
telemetry: an accumulator that completes a batch with one frame of every motor,
a datagram channel, and a session that judges packets and latches the first
thing wrong. The passive log: a ring of received frames with full or latest
retention, a latched fault and a watchdog per motor. The replay of a capture
from its files. Hard: answers later than their window; a signal in the middle of
the cleanup; a restarted sender whose old datagrams still arrive; silence of one
motor behind the traffic of the others; files cut short. Correct: links DOWN or
reported; evidence paired with its own round; usable evidence is recent; the log is
chronological without gaps; a replay passes only on what was captured.

**Bimanual state receiver** (`teleoperation/xair.py`). Datagrams of two senders
into one bounded queue, pairing by sequence and skew, closest-pair selection,
the AdjustPosition client. Hard: independent loss, a queue nobody drains while
the operator is being waited for, packets from before AdjustPosition. Correct:
no packet in two pairs; skew bounded; nothing older than a reset paired with
something newer.

**Cameras** (`cameras.py`, `camera_bridge.py`, `camera_ipc.py`,
`camera_preview.py`, `camera_service.py`). A reader thread per device holding
the newest frame, a set that re-captures lagging roles until all agree, a Unix
server and client, a preview with a health document, and a controller that keeps
one detached owner through a marker file (pid, start ticks). Hard: two
controllers, a crash between spawn and marker, pid reuse, an owner replaced
under a connected client, a re-capture loop that may never agree. Correct: at
most one owner, which can always be reached and stopped, frame sets that only advance, every
capture answered or refused in time.

**Collection data path** (`collection/schema.py`, `live.py`, `ft.py`,
`scale.py`, `hkvl_serial.py`, `orchestration.py`, `interaction.py`, the episode
loop of `managed.py`). One thread walks through nested contexts (sources,
runtimes, episode), polls the operator's lines once a sample, assembles each
frame around a camera instant from the closest robot state, force sample and
scale reading, and validates ages and skews. Hard: the order of decision, reset
and commit; input typed ahead or closed; a side lost in the middle; sensors that
fall silent; a byte stream that begins anywhere or is damaged. Correct: frames
whose parts agree; nothing published that was not decided; the session ends.

**Dataset transaction** (`collection/dataset.py`, `migration.py`, `v21.py`,
`integrity.py`). A hidden sibling snapshot, finalised, inspected and exchanged
for the target, whose implementation is a library outside the repository; the
migration builds another dataset through a sibling of its own while sessions may
append to its source. Hard: a kill at every step of the exchange; what is left
for the next session; a source that grows under its reader. Correct: no
published episode is ever lost; a migrated dataset is whole or absent.

**Temporary recording** (`temporary_recording.py`). Two camera workers, a start
gate, events, heartbeats, a manifest that starts "incomplete". Correct: complete
only with both recordings and both motor streams.

**Configuration, command line, panel** and **offline studies**: parsing,
validation, presentation, and floating-point analysis of recorded files. They
keep no concurrent or persistent state of their own. The exception is
`trajectory.py`, whose rehearsal is an automaton over sampled feedback.

## 2. Plan

The order was by importance: who commands, who owns a side, that both sides
start and stop together, then the data on its way into the dataset, then the
programs beside collection. All of it is written:

| Layer | Modules | Run |
|---|---|---|
| command | `CommandSession` implements `CommandLease` | `sessions` |
| one side | `XAirLifecycle` | `lifecycle`, `lifecycle_*` |
| both sides | `ManagedRuntimes`, which extends `XAirLifecycle` and takes the place of its arbitrary gate | `managed_runtimes`, `managed_unsent` |
| the session | `CollectionSession`, which extends `EpisodeTransaction` | `sessions` |
| streams of a frame | `StateReceiver` implements `PairStream`; `CameraStream`; `SampleAssembly` | `streams` |
| native watchers | `JointSafety`, `MotorTelemetry`, `PassiveFeedbackLog` | `native`, `joint_bounds` |
| beside collection | `CameraService`, `TemporaryRecording`, `AutomaticFollower`, `FeedbackCapture`, `TrajectoryRehearsal`, `DatasetMigration`, `CaptureReplay`, `SerialFraming` | `services`, `camera_owner`, `capture_signal` |

What is left, in this order:

1. The settling gate and the guard of the automatic follower with their numbers.
2. The scale's line decoder, the counters of CAN health.

## 3. The modules and the code

| Module | Code | Correspondence |
|---|---|---|
| `CommandLease` | none (abstract) | owner, commands issued, newest evidence |
| `CommandSession` | `session.py`, `contracts.py` | one action per method, one variable per field; `held` is history |
| `XAirLifecycle` | `run_xair_side` and its helpers; process life of `main.cpp` | `pc[l]` is the place in `run_xair_side`, `sidecar[l]` the native process; one action per command or check |
| `ManagedRuntimes` | `ManagedXAirRuntimes`, `_release_bimanual_startup` | `ppc` is the parent's place, `turn` its loop index; reuses the launch and sidecar actions |
| `EpisodeTransaction` | `dataset.py`; the library's exchange of directories | `staging` is the hidden sibling, one action per rename or removal |
| `CollectionSession` | the episode loop of `managed.py`, `interaction.py`, `orchestration.py`, contexts of `live.py` | `step` is the thread's place, `opened` how deep it is in its contexts |
| `PairStream` | none (abstract) | the last state handed over |
| `StateReceiver` | the publisher of `main.cpp`, the receiver and `adjust_position` of `xair.py`, `managed.py:238` | `queue` is the kernel's, `received` and `emitted` the assembler's, `call` the place of the collecting thread |
| `CameraStream` | `cameras.py`, `camera_bridge.py`, `camera_ipc.py`, health of `camera_preview.py` | one reader per role, `Handler` the server thread, `ClientTurn` the caller |
| `SampleAssembly` | `live.py`, `schema.py`, `ft.py`, `scale.py` | `stage` is the place in one sample; a thread and a deque per sensor |
| `SerialFraming` | `FrameDecoder` of `hkvl_serial.py` | one action per branch of the loop in `feed` |
| `JointSafety` | `StateSlot`, `JointSafetyMonitor::observe`, `run` | `loop` is the place in the run loop; the SDK callback is an action enabled everywhere |
| `MotorTelemetry` | `motor_feedback.cpp`, `feedback_wire.py`, `feedback.py` | the accumulator, the datagrams under way, the session's fields |
| `PassiveFeedbackLog` | `passive_feedback_log.cpp`, `feedback_log_buffer.cpp` | `ring`, `oldest`, `evicted` as in the code; `ingested` is history |
| `CameraService` | `camera_service.py`; the owner's life in `camera_bridge.py` and `camera_preview.py` | `at[c]` is the place of a call, `phase[p]` what runs under a process id |
| `TemporaryRecording` | `temporary_recording.py` | one process per camera, `recorder` the place in `run_recording` |
| `AutomaticFollower` | `automatic.py`, `automatic_main.cpp`, `PairedSweep` of `automatic_core.hpp`, `automatic_review.py`, `paired_protocol.py` | `place` is the supervisor's, `child` the native process's |
| `FeedbackCapture` | `feedback_capture.py`, `can_probe.py`, `parameter_probe.py` | `doing` is the place, `turn` the endpoint |
| `TrajectoryRehearsal` | `trajectory.py` | the sweep as an operator of time, the rehearsal as an automaton |
| `DatasetMigration` | `trim_leading_stillness_dataset` of `migration.py` | `stage` is the place; sessions beside it are actions |
| `CaptureReplay` | `redecode_capture` of `feedback_decode.py` | `replayed` is the place, one action per saved line |
| `*Proofs` | none | the theorems of section 6 |
| `MC*` | none | instances for TLC |

`MCSessions`, `MCStreams`, `MCServices` and `MCNative` each hold several programs
that share no state: a variable (`kind`, `stream`, `service`, `native`) says which
of them a behaviour is of, and the others stand still. Their state spaces add up
and do not multiply. In the same way `MCXAirLifecycle` lets `cast` choose which
two of three launches take part.

*CommandSession.* The callers' clock is data, so every call takes any reading,
including a negative one for all values `_require_time` refuses. A vector of
joint positions is its metadata plus, for a command, whether it holds the
measured pose. Calls that raise without changing anything are stutters.

*XAirLifecycle.* Every command that touches hardware may succeed or fail, and a
failing link command may have taken effect half way. A raise goes to the finally
block (`ToFinally`), which first stops a child if there is one. Locks, links,
motors and sockets outlive processes; a crash releases the lock only. The
control socket is bound before the SDK handle exists and removed before it is
destroyed, as in `main.cpp`. `OneAtATime` states the operator's discipline not
to start a side whose launch is still there. Motors that were commanded off are
"off"; a disable command that fails leaves them. `GateInput` is an arbitrary
parent writing START or closing the pipe; `ManagedRuntimes` leaves it out of its
next-state relation and puts the real parent in its place.

*ManagedRuntimes.* `SignalGroup` is the first loop of `_stop_all`: it closes the
gate and delivers SIGINT to the process group, which kills a launch that has not
installed its handlers. `KillGroup` is the expired deadline, possible at any
point of the launch's own cleanup. A START that could not be written, because its
launch died between the last look at it and the write, stays in the pipe's buffer
(`unsent`), and closing the pipe in that loop then raises out of `_stop_all`
(`CloseRaises`): neither this launch nor the ones after it are signalled, nobody
is waited for, and the parent ends with the exception (`ParentEnds`), which
closes its pipes. When the parent dies the pipes it read break: a launch raises at its next print (its `StartupFault`), and the relay thread of
a launch ends at its next line, so its sidecar's later lines kill the sidecar
(`UnheardRunning`, `UnheardLine`). The warning before the kill in
`_stop_sidecar` raises inside the finally block and skips the rest of it
(`UnheardWarning`): after the parent's death a launch may therefore exit with a
live sidecar. No document promises otherwise, and the properties are stated for
a parent that was not killed.

*EpisodeTransaction and CollectionSession.* A dataset is the number of its
episodes. Publishing sets the dataset aside under a second name, moves the
sibling to its place and removes the old one; a kill between any two of these
leaves siblings, which a session refuses (`LeftoverRaises`) and which somebody
resolves by hand between two sessions (`InspectLeftovers`). The
operator is an action that types any line at any time, or closes the input; the
thread sees it where it polls. An error unwinds the contexts in reverse, one
action each, and each may fail. `first` is history: the episodes kept when the
session began. `buffer` counts the frames recorded and `added` those of the
episode that the sibling adds, whatever the guards before the save let through. What the devices do is one outcome per step here; their detail
is in the modules of the streams.

*StateReceiver.* A packet is its side and its instant. The kernel's queue
refuses the newest datagram while full, the sidecar skips a send that would
block, and the collecting thread reads only inside its calls, so the queue ages
while the operator is waited for. AdjustPosition restarts the control loops
under running callbacks; `asked` is the instant of the request on each side.

*CameraStream.* A frame is its role's sequence number and its instant. The
server answers a request that names the last set it gave with a newer set, with
"unchanged" or with an error; an owner may be stopped and replaced by one of a
new epoch between two captures or under a connected client, and the camera check
owns readers of its own.

*SampleAssembly.* Robot states and camera frames are only newer than before;
the threads of the two serial sensors run when they like within an instant. The
assumption on the limits is what the loader checks, no skew above its age
(`configuration.py:178-187`); that on the deques (`maxlen` 1024 and 128) says that
they reach back over the sample age. A scale age of 0.6 with a skew of 0.5 beside
a sample age of 0.25 (`configs/collection/default.toml`) satisfies it, and the run
has a scale skew as large as the scale age.

*SerialFraming.* Bytes are members of a small set and the checksum is a set of
frames. `received` is the whole stream, which the code keeps in the capture's
file, and against which the property reads the decoder's counts: the places of
the frames in the stream, from the first to the last, must give the samples.

*JointSafety.* A joint of a sample is `close`, `apart` or `outside`. `Update`
overwrites the slot at any moment, so samples may be lost before they are
judged; an update that misses the slot's lock is one not taken. `Verdict` is the
early-return scan of `observe`: the first joint that ends the pass decides, and
joints after it keep their timers. `missed`, `missedSince`, `recovered` and
`apartSince` are history variables and restrict nothing.

*MotorTelemetry, PassiveFeedbackLog, CaptureReplay.* Payload values are left
out; a frame is its motor, its number or instant, and whether it is sound. The
channel loses, delays, repeats, reorders and garbles. The ring keeps the code's
indices, so that eviction at exactly full capacity is what is checked. A replay
starts from any file: lines missing, doubled, swapped or undecodable.

*CameraService.* A process id is used again (`ReusePid`) with other start ticks,
at any time after its process is gone, unless the call that started that process
still runs and has not asked for its exit status. Calls may be killed anywhere
(`Killed`) and may overlap; `overlapped` and `abandoned` are history. A signal
lets an owner exit, which it may do at any time anyway, and a hanging one
outlasts every deadline. `_stop_marked` looks at the process and then signals its
number (`LooksBeforeSignal`, `Interrupts`, `Terminates`): in between, the process
may be gone and the number another's. The model has that moment, nothing in the
code excludes it, and therefore no property speaks of it.

*TemporaryRecording, AutomaticFollower.* Deadlines and hardware faults are steps
that may be taken at any time, since each of them leads to a refusal whose
timing is not a matter of the properties. A camera worker may be killed anywhere
(`WorkerKilled`), also after its "done", which the recorder cannot tell from an
exit; what it had put and not sent is lost with it. A file the operator places
may be complete or malformed and may come at any time. The child keeps the lock's
descriptor after its supervisor is killed, as in `automatic.py`.

*FeedbackCapture.* A motor answers a refresh or a query once or twice and when it
likes, so an answer, or a second one, may fall into a later window. `late` is
history: the motors with an answer under way when a round began. For such a
motor the raw frame says nothing of its round: if its true answer is then missing,
the late one is taken for it, alone in its window as the code demands
(`docs/FORCE_ESTIMATION.md:508-515` promises pairing by exactly one answer, not
by an answer's round, which no frame carries). A signal raises where the code
stands. `cut` marks one, first or second, in the moment between the end of the
try and the loop that shuts signals out (`feedback_capture.py:270`): it leaves the
function by the first lines of the finally, with the link UP. `LinksReturned`
excludes that moment by name, and disagreement 6 is about it. `raising` and
`saved` tell what the caller learns: an exception, and a report that may fail to
be written.

*TrajectoryRehearsal, DatasetMigration.* Positions are integers relative to the
reference, the quintic is evaluated at the model's instants. An episode of the
source is its length and the first frame that moves; the trimmer and the
directory exchange are external and modelled from their use.

## 4. Runs

| Run | Instance | What it shows |
|---|---|---|
| `sessions` | command: 2 leases, instants -1..5, sequences 0..2, timeouts 3 and 2; collection: 2 sessions of 4 sources, 2 episodes, lines typed ahead | evidence postdates the lease and a tenure begins by holding the pose (`TenureStartsAfresh`); commands in order and neither timer refreshed by the other's traffic (`AcceptedInOrder`); refinement of `CommandLease`; no episode lost, only decided ones with frames published, results true, a session ends clean, and ends when its input closes or a side is lost |
| `lifecycle` | 2 launches of the left side in sequence, the second managed, 2 crashes; or shared left and isolated right, 1 crash; 2 links each | `IsolatedAlone`; supervision, one owner, accounted motors, exit zero only from a stopped robot and no link pulled under a controller (`CleanExit`); a launch asked to stop exits |
| `managed_runtimes` | both sides, 1 link each, 1 crash of anything | paired preflight; a stop is said only of a stopped robot, and leaves no launch; one side's fall stops the other and stopping ends with a verdict, unless a START could not be written |
| `native` | 2 joints; 2 motors over a faulty channel; a ring of 2 frames | timers behind samples, one warning per excursion, how long warnings can hide a bound violation, usable evidence is current, the log is unbroken and its watchdog sound |
| `streams` | 2 sides, 2 roles, 2 sensors | nothing from before AdjustPosition after it; states refine `PairStream`; both sides of a written state fresh; frame sets advance; a steady sensor never costs a frame; every call ends |
| `services` | 8 programs, see Bounds | what each program beside collection promises, one to three invariants each |
| `lifecycle_startup_failure` | violation | see disagreement 1 |
| `lifecycle_orphan` | violation | see disagreement 2 |
| `joint_bounds` | violation | see disagreement 3 |
| `camera_owner` | violation | see disagreement 4 |
| `managed_unsent` | violation | see disagreement 5 |
| `capture_signal` | violation | see disagreement 6 |

The invariants of `services`: camera service `OwnerStaysMarked`,
`OwnerReachable`; recorder `CompleteIsWhole`; automatic follower
`EnabledUnderLock`, `ReportTruthful`, `SweepsAcknowledged`; capture
`LinksReturned`, `EvidencePaired`; rehearsal `RunsTracked`; migration
`MigratedWhole`; replay `ReplayFaithful`; force sensor `FramingExact`.

**Bounds.** Every bound is a constant of its module.

- *Command and lifecycle*: `MaxCrashes` and the sets of instants and sequences.
  Two crashes with two successive launches give the pattern of a restart: a
  launch dies, its sidecar is still there or dies too, the next launch meets the
  remains. One crash is enough for the managed run and for the isolated pair,
  whose other failures are unbounded. Two links give a first and a second one in
  every loop; the managed run uses one, since its subject is the pair of sides.
  Six instants exceed both timeouts of the session, so each can expire with the
  other fresh; three sequence numbers allow a duplicate, a gap and a replay.
- *Native*: 2 joints, timeouts 2, `MaxClock` 8: one joint can warn, recover and
  warn again while the other is outside. Telemetry: limits of 1 and a startup
  timeout of 2 under `MaxInstant` 3, `MaxSessions` 2, `MaxOnWire` 2: a batch can
  be stale, torn, late or of the sender before. Log: `Capacity` 2, `Burst` 2,
  `SocketLimit` 2, `MaxComing` 4, `MaxLogTime` 6 against `LogTimeout` 2: the
  ring wraps, the socket overflows, a silent motor times out behind a busy one.
  Motors are symmetric: the two modules tell none from another, and the run
  checks safety only.
- *Collection*: `MaxEpisodes` 2, `MaxFrames` 1, `MaxTyped` 2, `MaxSessions` 2: a
  first episode (no dataset yet) and one after it, an answer typed ahead of its
  question, a session that meets what a killed one left. The policy asks for
  Reset before collection and after a save.
- *Streams*: `QueueLimit` 2, `MaxSkew` 1, `MaxAge` 1, `Resume` 2, `MaxTick` 3:
  the queue fills with old packets and a newer side pairs with an older one.
  Cameras: `PairSkew` 1, `FrameAge` 2, `Patience` 2, `MaxWait` 1, `MaxInstant`
  4, `MaxEpoch` 2: a frame ages out, a capture times out, an owner is replaced.
  Assembly: deques of 3, ages and skews 1 or 2, a scale skew of 2, `MaxNow` 4: a deque evicts.
- *Services*: `MaxBegun` 3 calls of two callers over 2 process ids, each used
  again once (`MaxTicks` 2); a recorder of two cameras with `MinFrames` =
  `MaxFrames` = 2 and `MaxPackets` 1; the follower in hold and paired mode,
  `MaxKills` 1; a capture of 2 endpoints with 2 motors, `Rounds` 2, `Registers`
  2, `MaxSignals` 2; a sweep of amplitude 2 through its four legs
  (`LastInstant` 10) with tolerances of 1, persistence 2 and state timeout 1; a
  source of at most 3 episodes of at most 2 frames; captures of at most 3 lines
  in 2 rounds; a stream of at most 10 bytes over an alphabet of 3, in reads of
  at most 3, with frames of 5 bytes and the sum modulo 3 as checksum, so that
  two frames, a damaged frame with a sound one inside it, and a header cut by a
  read all occur.

**Deadlock.** Disabled where the system stops: launches exit, parents finish, a
session ends, clocks reach their bound. `sessions` has the check off for the
collection session.

**Fairness.** `XAirLifecycle` assumes weak fairness of each launch's own steps
and nothing else: `run_xair_side` waits only with timeouts, and its SIGKILL is
not refused. Hardware failures, crashes, the operator and the sidecar's own
progress are not assumed. The gate is a loop that polls its stop request, so a
stop ends it too. `ManagedRuntimes` assumes weak fairness of the parent's stop
loop, of its look at the runtimes and of its release: the readiness and
operator loops poll, and during an episode the end of a stream raises within
the sample timeout. Nothing is assumed of the launches: a hanging one is killed.
`CollectionSession` assumes that its thread goes on: every wait of its has an
answer, a failure or a timeout. The operator, the devices and the sidecars are
not assumed to do anything. `StateReceiver` assumes the clock and the collecting
thread, `CameraStream` the clock, the server's handler and the client; no
sidecar and no camera promises a thing. `native` and `services` check safety
only.

Every property has a mutant: a plausible bug in one of the mapped definitions
(kept beside it as `<definition>_<bug>`) under which the same run finds the
property violated.

## 5. Disagreements between code and documents

1. **Links left UP after a startup failure** (`lifecycle.py:242`). Cleanup runs
   only when `links_open`, set after both links were configured; a failure on
   the second exits with the first UP. `README.md:183-186` promises DOWN after a
   startup failure. Run `lifecycle_startup_failure`.
2. **Isolation ends with the Python parent** (`lifecycle.py:629`). The lock is
   close-on-exec, so a sidecar orphaned by SIGKILL of its launch keeps driving
   without it. `docs/SAFETY.md:320-321` says another side cannot start
   concurrently. Run `lifecycle_orphan`.
3. **A warning hides a bound violation** (`runtime_safety.cpp:188`). `observe`
   returns at the first joint whose warning is due, so later joints are not
   checked on that sample. `docs/SAFETY.md:376-378` calls any bound violation
   immediately fatal. Run `joint_bounds`; `OutsideSoonFatal` says how far it can
   go: samples in a row as many as there are joints are hidden only over a span
   longer than the timeout, since each joint warns once in a timeout.
4. **Two camera owners** (`camera_service.py:73`). A start reads the marker long
   before it writes its own, and nothing excludes another start in between. Both
   spawn an owner, the later marker replaces the earlier one, and the process
   that holds the cameras may be the one without a marker, which stop refuses.
   `docs/SAFETY.md:356` calls the marked service the only physical owner. Run
   `camera_owner`; `OwnerStaysMarked` shows that calls one after the other keep
   every owner marked, whatever is killed in between.
5. **A stop that stops nothing** (`managed.py:275`). A launch that dies between
   the release's last look at it and its START (`managed.py:673-687`) leaves the
   line in the buffer of its pipe. The exception of the release leads to
   `_stop_all`, whose first loop closes that pipe; the close writes the buffer
   again and raises `BrokenPipeError` out of the loop. The launch and the ones
   after it are not signalled, and none is waited for, killed or verified.
   `docs/SAFETY.md:347-348` says that managed shutdown checks the exit status and
   verifies the links. Run `managed_unsent`. `StoppedIsStopped` says what is left
   of it: when `_stop_all` is left that way no controller lives that was not asked
   to stop, since only launches before the unwritten START could have one.
6. **A second signal can leave a link UP** (`feedback_capture.py:270`). The
   handlers raise until the loop at the top of the cleanup has shut signals out.
   A second signal in that moment, while the exception of the first is on its
   way, leaves the cleanup before it began: the interface stays UP and no report
   names it. The comment at line 269 says "Keep cleanup deterministic on a second
   signal". Run `capture_signal`; `LinksReturned` holds at every other moment.

One more behaviour is kept out of the instances by `OneAtATime`: shared locks
coexist and the scan precedes the start by the whole preflight
(`lifecycle.py:203`), so two launches of one side begun at once both pass it.
With `OneAtATime = FALSE` `SoleOwner` fails for the two launches of one side: the second
sidecar gets the control socket when the first removes it, before the first has
destroyed its SDK handle.

## 6. Proofs

All proofs are checked by TLAPS to the last leaf. They rest on the named
assumptions of the modules, which TLC evaluates on every run of them:

| Assumption | Says | Justified by |
|---|---|---|
| `SessionAssumption` | instants are integers, sequences naturals, timeouts positive | the checks of `contracts.py` |
| `LifecycleAssumption`, `OrderAssumption` | sides and modes are what they are, at least one link; every launch managed and in the parent's order | `lifecycle.py`, `managed.py` |
| `JointAssumption` | at least one joint, a positive timeout | the monitor's constructor |
| `TelemetryAssumption` | the limits the constructors check | `feedback.py`, `motor_feedback.cpp` |
| `LogAssumption` | finitely many motors, room for a frame of each, a positive timeout | the checks in `passive_feedback_log.cpp` |
| `TransactionAssumption`, `CollectionAssumption` | positive bounds, a sequence of sources, a policy | the configuration |
| `ReceiverAssumption`, `CameraAssumption` | finitely many sides or roles, natural limits | `xair.py`, `cameras.py` |
| `AssemblyAssumption` | deques longer than the age, no skew above its age | `configuration.py:178-187`; `maxlen` 1024 and 128 at the sensors' rates |
| `RecordingAssumption` | no fewer frames possible than required | the configuration |
| `ServiceAssumption`, `FollowerAssumption` | finite sets of calls and ids, known modes | the callers |
| `CaptureAssumption` | an endpoint, a motor, a round | `feedback_capture.py` refuses less |
| `ReplayAssumption`, `MigrationAssumption` | bounds are naturals | none needed |
| `SweepAssumption` | what `SweepSpec` and `WristSweep` check | `trajectory.py` |
| `FramingAssumption` | a header of two bytes that differ, a frame longer than it | `hkvl_serial.py` |

The bounds that keep TLC's state spaces finite are constants like the others:
the theorems hold for every value of them. The library's induction theorems take
an operator as a parameter and cannot be instantiated; `LeastOf` of
`SequenceLemmas` says instead that every set of naturals has a least element,
which is proved from the well-foundedness of the order, and inductions over
lengths and counts are arguments about a least counterexample.

*CommandSessionProofs.* `SessionInv` is inductive: `NoResidue` tells which
fields are integers rather than `None`, the timers bound each other
(`NeitherTimerRefreshesTheOther`), an accepted command moves the clock
(`OneCommandPerInstant`), and the accepted command's checks give the rest. From
it: `TypeCorrect`, `LeaseSafety` (with the rest of `SessionInv`,
`TenureStartsAfresh`), `CommandsAcceptedInOrder` (`AcceptedInOrder`, of
which `OneTimer` is that no call refreshes both timers) and
`SessionImplementsLease`: every step is a grant, an issue, a revocation or a
stutter of `CommandLease`.

*XAirLifecycleProofs.* For any number of launches, sides and modes as they come,
any number of links, any number of crashes. Isolation is not inductive: at the
start of the isolated sidecar nothing looks at the other side again. The
strengthening says why none is needed. `LockHeld`: the lock each launch holds
follows from where it is. `LockExclusive`: an exclusive lock excludes others.
`ChildPhase`: children exist only in the phases that supervise them, or after a
crash. `AloneSinceScan`: from the scan of an isolated launch until its end, the
other side's links are DOWN and nobody else has a controller. A step of another
launch cannot break it, for that launch does not hold the lock, and only holders
move links or start controllers. Each action is proved once to obey four
small facts about a step of one launch (`Frame`, `LockMove`, `ScanMove`,
`ChildOk`), and the invariant follows from those facts alone. From it:
`LifecycleTypes`, `ChildrenSupervised`, `IsolationHolds`.

Its second part is how a launch leaves the robot. `Answered` is the
inductive form of `EnergisedAccounted`: a launch answers for a link from the time
its links are open until it has disabled the motors behind that link. Each action
is proved once to touch only what it may (`Touches`) and to give up no motor that
it leaves enabled (`Owes`); no other launch need be looked at, so
`MotorsAccounted` holds for overlapping launches too. The other two results
assume `OneAtATime` and say so. Of two launches of one side at most one is active
and no controller is left after the later one's scan (`Apart`), so what a cleanup
has taken down stays down until its launch is gone (`TakenDown`). From these:
`OneController` (`SoleOwner`) and `ExitsClean` (`CleanExit`).

*ManagedRuntimesProofs.* `PairedPreflight` looks at all launches at once, and
each launch knows only its own probe. `PairedInv` says by what the rest is
known: an open gate, a launch past its gate and a controller that exists each
imply that every side has been probed (`ByTheGate`), and so does the parent's
arrival at its release. Only the parent opens a gate, so every other action
leaves these facts alone. Theorem `PreflightsPaired`.
For the end of the session `StopInv` takes the same account of each launch
(`LaunchAccount`: its links and motors as above, and a side left stopped by
status zero) through every step of a launch and of the parent, and says how far
the loops of `_stop_all` have come (`StopProgress`): who is over, and, while no
failure was noted, who left with status zero. A parent that was killed promises
nothing, so the invariant is about a living one. Where a START could not be
written there is no verdict; `ReleaseInv` says that only launches before that one
had a way to a controller, and that the loop has signalled those by the time it
raises. Theorem `StopVerified`
(`StoppedIsStopped`), for at least one launch and no two launches of one side.

*NativeProofs.* The monitor: `JointInv` adds to types and timers that it never
judged anything newer than the slot (`SlotAhead`) and that a joint not seen
within its limit since its warning is still marked as warned (`WarnedSince`):
this is what makes `OneWarningPerExcursion` follow. Theorems `TimersHold` and
`WarnsOnce`. For `OutsideSoonFatal` the proof names the joints that a run of
unseen samples has spent: each such sample warned of another joint, none of them
is warned of again within a timeout, so there are at most as many as joints
within one (`OutsideBounded`).

The telemetry: `TelemetryInv` adds to the types of sender and session that the
session's clock is never ahead of the host's and that a session with a usable
packet remembers when it came (`Remembered`). Of the datagrams under way it says
only that they are packets, so nothing is asked of the sender or the channel.
Theorem `UsableEvidence`.

The log: `LogInv` places every row of the ring at its index of what was
ingested, from the oldest on and around the end of the buffer, says that the
kernel's queue goes on where the ingested frames end, and which frame each
`last_` is of. Theorem `LogIsUnbroken`.

*CollectionSessionProofs.* The transaction alone keeps `DatasetInv`: a complete
sibling is one episode ahead of what it will replace (`SiblingAhead`), and what
was set aside is behind what took its place (`BackupBehind`); therefore no step
of the exchange, and no kill between two, loses an episode. `Decided` says that
the thread is in the commit only with the decision to save and with frames, and
after Reset where the policy asks for it; `Counted` relates the results reported to the
episodes kept; `SourcesHeld` gives the depth of the contexts at every place.
Theorems `EpisodesKept`, `OnlyDecidedPublished`, `ResultsCount`,
`SessionLeavesNothing`.

*StreamsProofs.* The robot state: what the receiver holds was sent (`Past`), and
it either remembers the last state it handed over or holds only what is newer
(`Unseen`): this is why `reset_pairing` may forget the last state without
handing out an older one. `Restarting` says what each place of AdjustPosition
knows of the queue. Theorems `ReceiverImplementsStream`, `RestartSeparates` and,
for the states that a frame accepts, `AcceptedStateFresh`.

The cameras: `StreamInv` orders everything that carries a frame. Nothing in a
snapshot, in a response or remembered by a client is newer than what the role's
reader has read, a request is of the set last accepted (`PlacesMatch`,
`ReadInOrder`), and the check takes from a reader only what it has not delivered
(`CheckInOrder`). A re-capture of lagging roles keeps this, so the order does not
depend on how often it is repeated. Theorem `FrameSetsInOrder`.

The assembly: `AssemblyInv` says of the deque of a steady sensor that it holds
the sample of each of the last instants. With deques that reach back over the sample age
the one that the state needs is among them. Theorem `SteadySensorsServe`.

The recording: a worker's announcement must stay so while it is in the queue and
after it was heard (`SayingIsSo`): a "done" is of a worker that had verified its
file, and it stays one of those that had (`Verified`) when it exits or is killed.
Theorem `RecordingWhole`.

*ServicesProofs.* The camera service: while calls do not overlap the one call
works on the marker as it is (`MarkerCurrent`), and whatever runs is the marked
process or one that was lost by a killed call; so a call that is about to remove
the socket has seen the only owner gone, and the next owner has a path of its own.
Theorems `OwnersMarked` and `OwnersReachable`.

The follower: the supervisor knows the child only by lines. A line is of what was
so when it was written and can only become truer (`LinesTrue`), requests bound how
far a sweep can be (`SweepAgrees`), and the verdict rests on both
(`VerdictAgrees`). Theorems `FollowerEnabledUnderLock`, `FollowerReportTruthful`
and `FollowerSweepsAcknowledged`.

The capture: links that are UP are owned, at most that of the endpoint at hand,
and the try ends with none owned or by an exception (`LinksOwned`). From a motor
with nothing under way when a round begins, all that comes in the round is of it,
in both sockets, however often it answers (`OwnAnswers`). Theorems
`CaptureLinksReturned` and `CaptureEvidencePaired`.

The replay: what was judged is a beginning of the saved lines in which every side
has the rounds from one to its count, later and later (`JudgedInOrder`). At the
end counts equal to those of the report make it the whole. Theorem
`ReplayIsFaithful`.

The rehearsal: the quintic stays between the ends of its leg because what it
lacks is (t - k)^3 (t^2 + 3kt + 6k^2), which is not negative (`RiseBounds`), so
every point is within the bounds (`AtBounds`). The judgement: `errorSince` is no
later than the first of the samples in a row in which a joint was outside, as far
back as any suffix of them goes (`Timed`); from this no such row spans the
persistence (`NeverLasting`), and dropping old samples keeps both
(`SuffixTracked`). Theorem `RehearsalTracked`.

The migration: the source's episodes lie one behind the other (`Laid`), so an
index of the plan is in one episode only (`OneStretch`) and the reader returns
that episode's frame (`FrameIsOf`); what a session appends meanwhile is behind
what was read. Staged episodes are trimmed ones, the buffer is the beginning of
the next (`Written`). Theorem `MigrationWhole`.

The force sensor: the buffer is the end of the stream, an accepted frame is whole
and dealt with, and every byte dealt with is in an accepted frame, begins a
damaged one, or begins no header, not even one that the next read completes
(`Settled`). The last is what the kept half of a header is for; with it a later
read changes nothing that was decided (`FeedKeeps`). Theorem `FramingIsExact`,
for any bytes, frame size, checksum and division into reads.

Only model-checked: the liveness properties (`StopLeadsToExit`,
`OneFallsAllStop`, `SessionEnds`, `CallsEnd`), which the prover cannot treat
under fairness.

## 7. Not modelled

- CAN payloads, DLCs, error counters and queue statistics: a health check
  succeeds or fails. The same holds of scheduling checks.
- `sudo`, option parsing, `/proc` parsing, formatting and logging, except where
  printing changes control (broken pipes).
- The x_air SDK: external. Its constructor enables motors when both links are
  UP, its destructor disables those it can reach. In `xair.py`, the rendering of
  vendor assets and the check of the vendored SDK.
- `embodied_ops` (directory exchange, trimmer) and LeRobot: external, modelled
  from how they are used. The export to v2.1 is one call of a library.
- `configuration.py`, `cli.py`, the panel, the console and the hardware check:
  parsing, validation and presentation.
- The offline studies and the numbers of the automatic follower's policies,
  guards and settling gate: floating-point data that TLC does not reach. Where a
  guard decides, it is a step that may fail.
- The preview's HTTP responses, beyond the health the service asks for; the
  images themselves.
- `ScaleLineDecoder` of `scale.py`: a scale reading arrives or does not. The
  decoder clears a buffer of more than 96 bytes, after which the tail of an
  over-long line is read as a line of its own.
