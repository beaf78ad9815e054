--------------------------- MODULE SampleAssembly ---------------------------
(***************************************************************************)
(* How one frame of the dataset is put together (collection/live.py): the  *)
(* cameras give its time, the robot state closest to it is chosen, then    *)
(* the force/torque sample closest to the state (ft.py) and the last scale *)
(* reading before it (scale.py); the assembler refuses a frame whose parts *)
(* are old, apart, or not newer than those of the frame before             *)
(* (schema.py).  The two serial sensors are read by threads of their own   *)
(* into bounded deques, and may fall silent or fail.  Which camera frames  *)
(* and robot states arrive is the business of CameraStream and             *)
(* StateReceiver: here each is newer than the one before, no more.         *)
(***************************************************************************)
EXTENDS Integers, Sequences, SequencesExt

CONSTANTS
  FtKept,      \* deque(maxlen=1024) of force/torque samples
  ScaleKept,   \* deque(maxlen=128) of scale readings
  SampleAge,   \* max_sample_age_s, also the timeout of closest()
  FtSkew,      \* max_ft_skew_s
  ScaleAge,    \* max_scale_age_s
  ScaleSkew,   \* max_scale_skew_s
  CameraSkew,  \* max_robot_camera_skew_s
  MaxNow       \* bound on the clock

(* The loader refuses a skew beyond its age (configuration.py:175-187).  An  *)
(* instant is the longest time between two samples of a steady sensor: the   *)
(* deques reach back over the age of a state, and the last weight before a   *)
(* state may be an instant older than it.                                    *)
ASSUME AssemblyAssumption ==
  /\ SampleAge \in Nat \ {0} /\ FtSkew \in 0 .. SampleAge /\ CameraSkew \in 0 .. SampleAge
  /\ ScaleAge \in Nat \ {0} /\ ScaleSkew \in 1 .. ScaleAge /\ MaxNow \in Nat
  /\ FtKept \in Nat /\ ScaleKept \in Nat
  /\ FtKept > SampleAge + 1 /\ ScaleKept > SampleAge + 1

VARIABLES
  now,        \* the monotonic clock
  samples,    \* the deque of each sensor
  count,      \* the sequence of its last sample
  sensor,     \* its thread: "reading" or "failed"
  steady,     \* whether it has delivered a sample in every instant so far
  stage,      \* what the collecting thread does
  expiry,     \* its deadline
  camera,     \* target_monotonic_ns of the frame it assembles
  state,      \* the instant of its robot state
  picked,     \* the sample chosen of each sensor
  last        \* what the assembler remembers of the frame before

sensorVars == <<samples, count, sensor, steady>>
frameVars == <<camera, state, picked>>
assemblyVars == <<now, sensorVars, stage, expiry, frameVars, last>>

Sensors == {"ft", "scale"}
NoSample == [at |-> -1, seq |-> 0]
KeptOf == [s \in Sensors |-> IF s = "ft" THEN FtKept ELSE ScaleKept]
Apart(a, b) == IF a < b THEN b - a ELSE a - b

AssemblyInit ==
  /\ now = 0
  /\ samples = [s \in Sensors |-> <<>>] /\ count = [s \in Sensors |-> 0]
  /\ sensor = [s \in Sensors |-> "reading"] /\ steady = [s \in Sensors |-> TRUE]
  /\ stage = "ft_first" /\ expiry = SampleAge + 1
  /\ camera = -1 /\ state = -1 /\ picked = [s \in Sensors |-> NoSample]
  /\ last = [camera |-> -1, state |-> -1, ft |-> 0, scale |-> 0]
-----------------------------------------------------------------------------
Newest(s) == IF samples[s] = <<>> THEN NoSample ELSE Last(samples[s])

(* _read_loop: what is read at once has one host time.                       *)
Arrives(s) ==
  /\ sensor[s] = "reading" /\ Newest(s).at < now
  /\ count' = [count EXCEPT ![s] = @ + 1]
  /\ LET longer == Append(samples[s], [at |-> now, seq |-> count[s] + 1])
     IN samples' = [samples EXCEPT ![s] =
                      IF Len(longer) > KeptOf[s] THEN Tail(longer) ELSE longer]
  /\ UNCHANGED <<now, sensor, steady, stage, expiry, frameVars, last>>

SensorFails(s) ==
  /\ sensor[s] = "reading"
  /\ sensor' = [sensor EXCEPT ![s] = "failed"] /\ steady' = [steady EXCEPT ![s] = FALSE]
  /\ UNCHANGED <<now, samples, count, stage, expiry, frameVars, last>>

Passes ==
  /\ now < MaxNow
  /\ now' = now + 1
  /\ steady' = [s \in Sensors |-> steady[s] /\ Newest(s).at = now]
  /\ UNCHANGED <<samples, count, sensor, stage, expiry, frameVars, last>>
-----------------------------------------------------------------------------
Refused(why) ==
  /\ stage' = why /\ expiry' = 0
  /\ camera' = -1 /\ picked' = [s \in Sensors |-> NoSample]
  /\ UNCHANGED <<now, sensorVars, state, last>>

(* wait_first of each sensor: two samples, the last one fresh.               *)
First(s, age, following) ==
  /\ sensor[s] = "reading" /\ Len(samples[s]) >= 2 /\ now - Newest(s).at <= age
  /\ stage' = following /\ expiry' = IF following = "idle" THEN 0 ELSE now + SampleAge + 1
  /\ UNCHANGED <<now, sensorVars, frameVars, last>>

FtFirst == stage = "ft_first" /\ First("ft", SampleAge, "scale_first")
ScaleFirst == stage = "scale_first" /\ First("scale", ScaleAge, "idle")

FirstFails ==
  \E s \in Sensors :
    /\ stage = IF s = "ft" THEN "ft_first" ELSE "scale_first"
    /\ sensor[s] = "failed" \/ now >= expiry
    /\ Refused("not_started")

(* capture() and receive_closest().                                          *)
TakeFrames ==
  /\ stage = "idle" /\ now < MaxNow
  /\ \E frames \in last.camera + 1 .. now, robot \in last.state + 1 .. now :
       camera' = frames /\ state' = robot
  /\ stage' = "closest" /\ expiry' = now + SampleAge
  /\ UNCHANGED <<now, sensorVars, picked, last>>

(* Mutant: closest() does not wait for a sample from after the state.        *)
Decided_AtOnce == samples["ft"] # <<>>

Decided == Newest("ft").at >= state \/ (now >= expiry /\ samples["ft"] # <<>>)

(* min() keeps the first of two that are as close.                           *)
Closest ==
  CHOOSE x \in ToSet(samples["ft"]) : \A y \in ToSet(samples["ft"]) :
    \/ Apart(x.at, state) < Apart(y.at, state)
    \/ Apart(x.at, state) = Apart(y.at, state) /\ x.seq <= y.seq

PickClosest ==
  /\ stage = "closest" /\ sensor["ft"] = "reading" /\ Decided
  /\ picked' = [picked EXCEPT !["ft"] = Closest] /\ stage' = "latest"
  /\ UNCHANGED <<now, sensorVars, expiry, camera, state, last>>

Before == SelectLastInSeq(samples["scale"], LAMBDA x : x.at <= state)

PickLatest ==
  /\ stage = "latest" /\ sensor["scale"] = "reading" /\ Before # 0
  /\ picked' = [picked EXCEPT !["scale"] = samples["scale"][Before]] /\ stage' = "validate"
  /\ UNCHANGED <<now, sensorVars, expiry, camera, state, last>>

SensorRaises ==
  \/ stage = "closest" /\ sensor["ft"] = "failed" /\ Refused("ft")
  \/ stage = "latest" /\ (sensor["scale"] = "failed" \/ Before = 0) /\ Refused("scale")

(* SampleAssembler.validate, in its order.                                   *)
StateFresh == now - state <= SampleAge
FtCoherent ==
  /\ now - picked["ft"].at <= SampleAge /\ Apart(picked["ft"].at, state) <= FtSkew
  /\ picked["ft"].seq > last.ft
ScaleCoherent ==
  /\ picked["scale"].at <= state
  /\ now - picked["scale"].at <= ScaleAge /\ state - picked["scale"].at <= ScaleSkew
  /\ picked["scale"].seq >= last.scale
CamerasCoherent == now - camera <= SampleAge /\ Apart(camera, state) <= CameraSkew

AcceptFrame ==
  /\ stage = "validate"
  /\ StateFresh /\ FtCoherent /\ ScaleCoherent /\ CamerasCoherent
  /\ last' = [camera |-> camera, state |-> state,
              ft |-> picked["ft"].seq, scale |-> picked["scale"].seq]
  /\ stage' = "idle" /\ expiry' = 0
  /\ camera' = -1 /\ state' = -1 /\ picked' = [s \in Sensors |-> NoSample]
  /\ UNCHANGED <<now, sensorVars>>

RefuseFrame ==
  /\ stage = "validate"
  /\ \/ ~StateFresh /\ Refused("state")
     \/ StateFresh /\ ~FtCoherent /\ Refused("ft")
     \/ StateFresh /\ FtCoherent /\ ~ScaleCoherent /\ Refused("scale")
     \/ StateFresh /\ FtCoherent /\ ScaleCoherent /\ ~CamerasCoherent /\ Refused("cameras")
-----------------------------------------------------------------------------
AssemblyNext ==
  \/ \E s \in Sensors : Arrives(s) \/ SensorFails(s)
  \/ Passes \/ FtFirst \/ ScaleFirst \/ FirstFails \/ TakeFrames
  \/ PickClosest \/ PickLatest \/ SensorRaises \/ AcceptFrame \/ RefuseFrame

AssemblySpec == AssemblyInit /\ [][AssemblyNext]_assemblyVars
-----------------------------------------------------------------------------
(* A sensor that delivers without a gap never makes the assembler refuse a   *)
(* frame whose robot state is fresh: however late its thread and the         *)
(* collecting one run within an instant, the sample chosen is fresh, close   *)
(* to the state, not in the scale's case after it, and not older than the    *)
(* one before.  The scale's may be an instant older than the state, so the   *)
(* state must be that much younger than a weight may be.                     *)
SteadySensorsAccepted ==
  now - state <= SampleAge =>
    /\ stage = "ft" => ~steady["ft"]
    /\ stage = "scale" /\ now - state < ScaleAge => ~steady["scale"]
=============================================================================
