------------------------- MODULE TemporaryRecording -------------------------
(***************************************************************************)
(* The standalone recorder (temporary_recording.py): one process per camera *)
(* that writes a video and reads it back, and the recorder, which waits for *)
(* every stream, opens the gate, watches the streams, stops the workers and *)
(* says in metadata.json whether the recording is complete.  Workers speak  *)
(* through one queue of events, and may fail or be killed anywhere, or hang *)
(* (take no further step); deadlines are steps that may be taken at any     *)
(* time, since every one of them ends in a refusal.  The queue is always    *)
(* emptied as a whole, so it is the set of the events in it.  Frames are    *)
(* counted to MaxFrames.                                                    *)
(***************************************************************************)
EXTENDS Integers

CONSTANTS
  Cameras,      \* the two wrist cameras, and the names of the motor sides
  CamerasOnly,  \* --check-cameras: no receiver
  MinFrames,    \* count < 2 fails the verification
  MaxFrames,    \* bound on the frames a worker reads
  MaxPackets    \* bound on the packets of a side that are written

ASSUME RecordingAssumption ==
  /\ CamerasOnly \in BOOLEAN /\ MinFrames \in Nat /\ MaxPackets \in Nat \ {0}
  /\ MaxFrames \in Nat /\ MaxFrames >= MinFrames

VARIABLES
  worker,     \* what each worker process does
  written,    \* the frames it has written to the video
  events,     \* in the queue: <<camera, kind>>
  gate,       \* recording
  halt,       \* the stop event
  recorder,   \* where run_recording is
  announced,  \* ready
  reports,    \* report["cameras"]
  packets,    \* last_packets: the sides that were heard
  rows,       \* report["motor_samples"]
  faulty,     \* errors # []
  interrupted,
  status      \* of the manifest

workerVars == <<worker, written, events>>
reportVars == <<announced, reports, packets, rows, faulty, interrupted>>
recordingVars == <<workerVars, gate, halt, recorder, reportVars, status>>

Verified == {"exited", "cut"}                   \* after its done event
Exited == {"absent", "failed", "killed"} \cup Verified
Watching == {"receive", "drain", "check", "decide"}

RecordingInit ==
  /\ worker = [c \in Cameras |-> "absent"] /\ written = [c \in Cameras |-> 0]
  /\ events = {} /\ gate = FALSE /\ halt = FALSE
  /\ recorder = "launch"
  /\ announced = {} /\ reports = {} /\ packets = {}
  /\ rows = [c \in Cameras |-> 0]
  /\ faulty = FALSE /\ interrupted = FALSE /\ status = "incomplete"
-----------------------------------------------------------------------------
(* The worker.                                                               *)
Work(c, from, to) ==
  /\ worker[c] = from /\ worker' = [worker EXCEPT ![c] = to]
  /\ UNCHANGED <<gate, halt, recorder, reportVars, status>>

Put(c, kind) == events' = events \cup {<<c, kind>>}

OpensCamera(c) == Work(c, "opening", "reading") /\ UNCHANGED <<written, events>>

(* The gate opens only once both cameras said so.                            *)
ReadsFirst(c) ==
  /\ Work(c, "reading", "ready")
  /\ Put(c, "ready") /\ UNCHANGED written

(* The frame that is read while stop is set is still written.                *)
WritesFrame(c) ==
  /\ gate /\ written[c] < MaxFrames
  /\ Work(c, "ready", "ready")
  /\ written' = [written EXCEPT ![c] = @ + 1]
  /\ UNCHANGED events

StopsReading(c) ==
  /\ halt /\ \E at \in {"reading", "ready"} : Work(c, at, "verifying")
  /\ UNCHANGED <<written, events>>

(* Mutant: a recording without frames passes its verification.               *)
Verifies_Empty(c) == Work(c, "verifying", "verified") /\ Put(c, "done") /\ UNCHANGED written

(* The file is decoded again; the event is put only if no frame is missing.   *)
Verifies(c) ==
  /\ written[c] >= MinFrames
  /\ Work(c, "verifying", "verified") /\ Put(c, "done") /\ UNCHANGED written

WorkerRaises(c) ==
  /\ \E at \in {"opening", "reading", "ready", "verifying"} : Work(c, at, "failing")
  /\ Put(c, "error") /\ UNCHANGED written

(* An event put by a worker is in the pipe before its process exits.         *)
WorkerExits(c) ==
  /\ Work(c, "verified", "exited") \/ Work(c, "failing", "failed")
  /\ UNCHANGED <<written, events>>

(* Killed from outside, anywhere: after done as well, which the recorder does *)
(* not tell from an exit.  What it put and had not sent yet is lost with it. *)
WorkerKilled(c) ==
  /\ worker[c] \notin Exited
  /\ Work(c, worker[c], IF worker[c] = "verified" THEN "cut" ELSE "killed")
  /\ \E lost \in SUBSET {e \in events : e[1] = c} : events' = events \ lost
  /\ UNCHANGED written

Worker(c) ==
  \/ OpensCamera(c) \/ ReadsFirst(c) \/ WritesFrame(c) \/ StopsReading(c)
  \/ Verifies(c) \/ WorkerRaises(c) \/ WorkerExits(c) \/ WorkerKilled(c)
-----------------------------------------------------------------------------
(* The recorder.                                                             *)
Goes(from, to) == recorder = from /\ recorder' = to

LaunchWorkers ==
  /\ Goes("launch", "receive")
  /\ worker' = [c \in Cameras |-> "opening"]
  /\ UNCHANGED <<written, events, gate, halt, reportVars, status>>

(* Anything raised in the try, and the end of its loop, lead to the finally. *)
EndsWith(error) ==
  /\ recorder' = "join" /\ halt' = TRUE /\ faulty' = (faulty \/ error)
  /\ UNCHANGED <<gate, announced, reports, packets, rows, interrupted, status>>

(* The receiver, a CSV or the start of a process fails.                      *)
LaunchFails ==
  /\ recorder = "launch"
  /\ \E some \in SUBSET Cameras :
       /\ some # Cameras
       /\ worker' = [c \in Cameras |-> IF c \in some THEN "opening" ELSE "absent"]
  /\ EndsWith(TRUE) /\ UNCHANGED <<written, events>>

(* The signal handler: seen at the top of the loop.                          *)
Interrupted ==
  /\ recorder \in {"launch"} \cup Watching /\ ~interrupted /\ interrupted' = TRUE
  /\ UNCHANGED <<workerVars, gate, halt, recorder, announced, reports, packets, rows,
                 faulty, status>>

InterruptEnds == recorder = "receive" /\ interrupted /\ EndsWith(FALSE) /\ UNCHANGED workerVars

ReceivePacket ==
  /\ ~interrupted /\ Goes("receive", "drain")
  /\ \/ UNCHANGED <<packets, rows>>
     \/ /\ ~CamerasOnly
        /\ \E s \in Cameras :
             /\ rows[s] < MaxPackets
             /\ packets' = packets \cup {s}
             /\ rows' = IF gate THEN [rows EXCEPT ![s] = @ + 1] ELSE rows
  /\ UNCHANGED <<workerVars, gate, halt, announced, reports, faulty, interrupted, status>>

(* validate_packet: an old packet, one of the future or one out of order.    *)
PacketRefused ==
  /\ recorder = "receive" /\ ~interrupted /\ ~CamerasOnly
  /\ EndsWith(TRUE) /\ UNCHANGED workerVars

Heard(kind) == {c \in Cameras : <<c, kind>> \in events}

(* drain_events: all that is in the queue.                                   *)
DrainEvents ==
  /\ events' = {}
  /\ announced' = announced \cup Heard("ready")
  /\ reports' = reports \cup Heard("done")
  /\ faulty' = (faulty \/ Heard("error") # {})

DrainQueue ==
  /\ Goes("drain", "check") /\ DrainEvents
  /\ UNCHANGED <<worker, written, gate, halt, packets, rows, interrupted, status>>

(* An error, or a worker that exited without one.                            *)
CheckWorkers ==
  /\ recorder = "check"
  /\ IF faulty \/ \E c \in Cameras : worker[c] \in Exited
       THEN EndsWith(TRUE)
       ELSE recorder' = "decide" /\ UNCHANGED <<gate, halt, reportVars, status>>
  /\ UNCHANGED workerVars

(* Started once both cameras are ready and both sides were heard lately.     *)
Start ==
  /\ ~gate /\ announced = Cameras /\ (CamerasOnly \/ packets = Cameras)
  /\ gate' = TRUE /\ Goes("decide", "receive")
  /\ UNCHANGED <<workerVars, halt, reportVars, status>>

GoesOn ==
  /\ Goes("decide", "receive")
  /\ UNCHANGED <<workerVars, gate, halt, reportVars, status>>

(* The startup timed out; or the motors, or a camera's heartbeat, are stale. *)
StreamLate == recorder = "decide" /\ EndsWith(TRUE) /\ UNCHANGED workerVars

DurationOver == recorder = "decide" /\ gate /\ EndsWith(FALSE) /\ UNCHANGED workerVars
-----------------------------------------------------------------------------
(* The finally: workers are waited for while the queue is drained, then the  *)
(* last ones are terminated or killed, each an error.  How a worker that has *)
(* exited did so is not looked at any more.                                  *)
JoinDrains ==
  /\ recorder = "join" /\ events # {} /\ DrainEvents
  /\ UNCHANGED <<worker, written, gate, halt, recorder, packets, rows, interrupted, status>>

AllExited == \A c \in Cameras : worker[c] \in Exited

Joined ==
  /\ AllExited /\ Goes("join", "conclude")
  /\ UNCHANGED <<workerVars, gate, halt, reportVars, status>>

JoinTimesOut ==
  /\ ~AllExited /\ Goes("join", "conclude")
  /\ worker' = [c \in Cameras |-> IF worker[c] \in Exited THEN worker[c] ELSE "killed"]
  /\ faulty' = TRUE
  /\ UNCHANGED <<written, events, gate, halt, announced, reports, packets, rows,
                 interrupted, status>>

(* What the manifest misses once all is said: a camera's report, the frame   *)
(* rate or the motors of a side.                                             *)
Lacking == reports' # Cameras \/ (~CamerasOnly /\ \E s \in Cameras : rows[s] = 0)

Conclude ==
  /\ Goes("conclude", "over") /\ DrainEvents
  /\ \E slow \in BOOLEAN :
       status' = IF faulty' \/ Lacking \/ slow THEN "failed" ELSE "complete"
  /\ UNCHANGED <<worker, written, gate, halt, packets, rows, interrupted>>
-----------------------------------------------------------------------------
Recorder ==
  \/ LaunchWorkers \/ LaunchFails \/ InterruptEnds \/ ReceivePacket \/ PacketRefused
  \/ DrainQueue \/ CheckWorkers \/ Start \/ GoesOn \/ StreamLate \/ DurationOver
  \/ JoinDrains \/ Joined \/ JoinTimesOut \/ Conclude

RecordingNext == Recorder \/ Interrupted \/ \E c \in Cameras : Worker(c)

RecordingSpec == RecordingInit /\ [][RecordingNext]_recordingVars
-----------------------------------------------------------------------------
(* A manifest says complete only of a whole recording: every worker found    *)
(* every frame it wrote, of at least two, in the video it read back and had  *)
(* only to exit (killed or not, then), none failed, hung or was killed       *)
(* before, and motors of both sides were written; and whatever it says, no   *)
(* worker is left on a camera.                                               *)
CompleteIsWhole ==
  recorder = "over" =>
    /\ AllExited
    /\ status = "complete" =>
         /\ \A c \in Cameras : worker[c] \in Verified /\ written[c] >= MinFrames
         /\ CamerasOnly \/ \A s \in Cameras : rows[s] > 0
=============================================================================
