--------------------------- MODULE StateReceiver ---------------------------
(***************************************************************************)
(* The robot state on its way into a sample.  Every sidecar sends the state*)
(* of its side as a datagram (main.cpp, DatagramPublisher) into one kernel *)
(* queue, which refuses the newest datagrams while it is full; the         *)
(* collection reads it only while it samples or waits for fresh state      *)
(* (xair.py, XAirStateReceiver), pairs the sides (XAirBimanualAssembler,   *)
(* or XAirSingleSideAssembler for one side), checks the age of what it     *)
(* chose (SampleAssembler.validate) and empties the queue after            *)
(* AdjustPosition has restarted the control loops (managed.py).            *)
(* Positions are left out: a packet is its side and its instant, which     *)
(* grows with its source_sequence.                                         *)
(***************************************************************************)
EXTENDS Integers, Sequences, FiniteSets

CONSTANTS
  Sides,       \* the selected sides
  QueueLimit,  \* datagrams the kernel keeps for the socket
  MaxSkew,     \* teleoperation.max_side_skew_s
  MaxAge,      \* max_sample_age_s, also the timeout of receive_closest
  Resume,      \* teleoperation.startup_timeout_s, the wait for fresh state
  MaxTick      \* bound on the clock

ASSUME ReceiverAssumption ==
  /\ Sides # {} /\ IsFiniteSet(Sides)
  /\ QueueLimit \in Nat \ {0} /\ MaxSkew \in Nat /\ MaxAge \in Nat
  /\ Resume \in Nat /\ MaxTick \in Nat

VARIABLES
  tick,      \* the monotonic clock
  loop,      \* the control loop of each sidecar
  sent,      \* the instant of the last packet it sent
  asked,     \* the instant AdjustPosition was last asked of it
  queue,     \* the datagrams in the socket
  received,  \* _latest of the assembler
  emitted,   \* _last_emitted
  call,      \* what the collecting thread does with the receiver
  target,    \* target_monotonic_ns: the midpoint of the camera frames
  until,     \* the deadline of the receive
  chosen,    \* closest
  pair       \* the last state the assembler emitted

sidecarVars == <<loop, sent, asked>>
assemblerVars == <<queue, received, emitted, pair>>
callVars == <<call, target, until, chosen>>
receiverVars == <<tick, sidecarVars, assemblerVars, callVars>>

Never == [s \in Sides |-> -1]
Ticks == -1 .. MaxTick
Latest(p) == CHOOSE t \in {p[s] : s \in Sides} : \A s \in Sides : p[s] <= t
(* A deadline beyond the bound on the clock passes at the bound.             *)
Deadline(wait) == IF tick + wait < MaxTick THEN tick + wait ELSE MaxTick
Distance(a, b) == IF a < b THEN b - a ELSE a - b

ReceiverInit ==
  /\ tick = 0
  /\ loop = [s \in Sides |-> "running"] /\ sent = Never /\ asked = Never
  /\ queue = <<>> /\ received = Never /\ emitted = Never /\ pair = Never
  /\ call = "idle" /\ target = 0 /\ until = 0 /\ chosen = Never
-----------------------------------------------------------------------------
(* One period of the publisher after a callback filled the slot: a full     *)
(* queue answers EAGAIN, and the packet is lost.                            *)
Publish(s) ==
  /\ loop[s] # "dead" /\ sent[s] < tick
  /\ sent' = [sent EXCEPT ![s] = tick]
  /\ queue' = IF Len(queue) < QueueLimit
              THEN Append(queue, [side |-> s, at |-> tick]) ELSE queue
  /\ UNCHANGED <<tick, loop, asked, received, emitted, pair, callVars>>

Die(s) ==
  /\ loop[s] # "dead"
  /\ loop' = [loop EXCEPT ![s] = "dead"]
  /\ UNCHANGED <<tick, sent, asked, assemblerVars, callVars>>

PassTick ==
  /\ tick < MaxTick
  /\ tick' = tick + 1
  /\ UNCHANGED <<sidecarVars, assemblerVars, callVars>>
-----------------------------------------------------------------------------
(* accept: the packet at the head of the queue against the other side's.     *)
Taken == [received EXCEPT ![Head(queue).side] = Head(queue).at]

(* Mutant: a state needs a new packet of one side only.                      *)
Complete_AnySide == (\A s \in Sides : Taken[s] # -1) /\ Taken # emitted

Complete == \A s \in Sides : Taken[s] > emitted[s]
Coherent == \A s, o \in Sides : Taken[s] - Taken[o] <= MaxSkew

Keep ==
  /\ received' = Taken /\ queue' = Tail(queue)
  /\ UNCHANGED <<emitted, pair>>

Emit ==
  /\ received' = Taken /\ queue' = Tail(queue)
  /\ emitted' = Taken /\ pair' = Taken

(* An error ends the session: it closes the socket and stops the sidecars.   *)
Fail ==
  /\ call' = "failed" /\ chosen' = Never /\ target' = 0 /\ until' = 0
  /\ queue' = <<>> /\ received' = Never /\ emitted' = Never
  /\ loop' = [s \in Sides |-> "dead"]
  /\ UNCHANGED <<tick, sent, asked, pair>>

(* A skew beyond the limit ends the session wherever accept meets it.        *)
AcceptRaises ==
  /\ call \in {"draining", "receiving", "resuming"}
  /\ queue # <<>> /\ Complete /\ ~Coherent
  /\ Fail
-----------------------------------------------------------------------------
(* LiveCollectionSource.samples: the cameras, then receive_closest.          *)
StartClosest ==
  /\ call = "idle" /\ tick < MaxTick
  /\ call' = "draining" /\ target' = tick
  /\ UNCHANGED <<tick, sidecarVars, assemblerVars, until, chosen>>

Closer ==
  \/ chosen = Never
  \/ Distance(Latest(Taken), target) <= Distance(Latest(chosen), target)

Drain ==
  /\ call = "draining" /\ queue # <<>>
  /\ IF Complete THEN Coherent /\ Emit ELSE Keep
  /\ chosen' = IF Complete /\ Closer THEN Taken ELSE chosen
  /\ UNCHANGED <<tick, sidecarVars, call, target, until>>

Drained ==
  /\ call = "draining" /\ queue = <<>> /\ chosen # Never
  /\ call' = "chosen"
  /\ UNCHANGED <<tick, sidecarVars, assemblerVars, target, until, chosen>>

NothingQueued ==
  /\ call = "draining" /\ queue = <<>> /\ chosen = Never
  /\ call' = "receiving" /\ until' = Deadline(MaxAge)
  /\ UNCHANGED <<tick, sidecarVars, assemblerVars, target, chosen>>

Receive ==
  /\ call \in {"receiving", "resuming"} /\ queue # <<>> /\ ~Complete
  /\ Keep
  /\ UNCHANGED <<tick, sidecarVars, callVars>>

ReceivePair ==
  /\ call = "receiving" /\ queue # <<>> /\ Complete /\ Coherent
  /\ Emit /\ chosen' = Taken /\ call' = "chosen"
  /\ UNCHANGED <<tick, sidecarVars, target, until>>

(* Mutant: only the wait for one state has a deadline.                       *)
ReceiveTimesOut_NotResuming ==
  /\ call = "receiving" /\ tick >= until
  /\ queue # <<>> => ~Complete
  /\ Fail

(* TimeoutError: a side is silent, or its packets do not complete a state.   *)
ReceiveTimesOut ==
  /\ call \in {"receiving", "resuming"} /\ tick >= until
  /\ queue # <<>> => ~Complete
  /\ Fail

(* Mutant: the age is that of the request, not that of the state.            *)
Fresh_OfTarget == tick - target <= MaxAge

Fresh == tick - Latest(chosen) <= MaxAge

Validate ==
  /\ call = "chosen" /\ Fresh
  /\ call' = "idle" /\ chosen' = Never /\ target' = 0 /\ until' = 0
  /\ UNCHANGED <<tick, sidecarVars, assemblerVars>>

RefuseStale == call = "chosen" /\ ~Fresh /\ Fail
-----------------------------------------------------------------------------
(* adjust_position: one request to each side's owner, at once.               *)
AdjustPosition ==
  /\ call = "idle" /\ tick + 1 < MaxTick
  /\ call' = "adjusting" /\ asked' = [s \in Sides |-> tick]
  /\ loop' = [s \in Sides |-> IF loop[s] = "dead" THEN "dead" ELSE "homing"]
  /\ UNCHANGED <<tick, sent, assemblerVars, target, until, chosen>>

(* A sidecar answers OK when a callback came after the restart.              *)
Home(s) ==
  /\ loop[s] = "homing" /\ sent[s] > asked[s]
  /\ loop' = [loop EXCEPT ![s] = "running"]
  /\ UNCHANGED <<tick, sent, asked, assemblerVars, callVars>>

(* A side that died, or whose callback does not come back, fails the request.*)
AdjustFails ==
  /\ call = "adjusting" /\ \E s \in Sides : loop[s] # "running"
  /\ (\E s \in Sides : loop[s] = "dead") \/ tick = MaxTick
  /\ Fail

(* Mutant: the assembler starts anew, the queued packets are kept.           *)
ResetPairing_KeepsQueue ==
  /\ call = "adjusting" /\ \A s \in Sides : loop[s] = "running"
  /\ received' = Never /\ emitted' = Never
  /\ call' = "resuming" /\ until' = Deadline(Resume)
  /\ UNCHANGED <<tick, sidecarVars, queue, pair, target, chosen>>

ResetPairing ==
  /\ call = "adjusting" /\ \A s \in Sides : loop[s] = "running"
  /\ queue' = <<>> /\ received' = Never /\ emitted' = Never
  /\ call' = "resuming" /\ until' = Deadline(Resume)
  /\ UNCHANGED <<tick, sidecarVars, pair, target, chosen>>

Resumed ==
  /\ call = "resuming" /\ queue # <<>> /\ Complete /\ Coherent
  /\ Emit /\ call' = "idle" /\ until' = 0
  /\ UNCHANGED <<tick, sidecarVars, target, chosen>>
-----------------------------------------------------------------------------
CollectingThread ==
  \/ AcceptRaises \/ Drain \/ Drained \/ NothingQueued
  \/ Receive \/ ReceivePair \/ ReceiveTimesOut \/ Validate \/ RefuseStale
  \/ AdjustFails \/ ResetPairing \/ Resumed

ReceiverNext ==
  \/ \E s \in Sides : Publish(s) \/ Die(s) \/ Home(s)
  \/ PassTick \/ StartClosest \/ AdjustPosition \/ CollectingThread

(* The clock and the collecting thread run; a sidecar promises nothing.      *)
ReceiverSpec ==
  /\ ReceiverInit /\ [][ReceiverNext]_receiverVars
  /\ WF_receiverVars(PassTick) /\ WF_receiverVars(CollectingThread)
-----------------------------------------------------------------------------
(* What the receiver promises: states that advance on every side and are     *)
(* coherent, whatever datagrams were lost and across every reset_pairing.    *)
States == INSTANCE PairStream
RefinesPairStream == States!PairSpec

(* Once AdjustPosition is over, the state that ended it and every state after *)
(* it hold no packet from before it: what was queued while the arms moved     *)
(* home is gone (managed.py:238).                                             *)
StateAfterRestart ==
  call \in {"idle", "draining", "receiving", "chosen"} =>
    \A s \in Sides : asked[s] # -1 => pair[s] > asked[s]

(* No side of a state that is written to the dataset is older than the age   *)
(* and the skew together, although only the newer side's time is checked     *)
(* and the queue may have filled long before.                                *)
BothSidesFresh ==
  [][Validate => \A s \in Sides : tick - chosen[s] <= MaxAge + MaxSkew]_receiverVars

(* Every call on the receiver returns or fails, whoever stops sending.       *)
CallsReturn == call \notin {"idle", "failed"} ~> call \in {"idle", "failed"}
=============================================================================
