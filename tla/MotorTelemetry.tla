--------------------------- MODULE MotorTelemetry ---------------------------
(***************************************************************************)
(* Raw telemetry of a Follower, from the native FeedbackAccumulator        *)
(* (motor_feedback.cpp), which collects one frame of every motor into a    *)
(* batch, over a datagram channel, to FeedbackSession (feedback_wire.py),  *)
(* which judges the packets and latches the first thing wrong.  Datagrams  *)
(* are lost, delayed, duplicated, reordered and garbled; the sender may be *)
(* restarted under a new session identity.  Times are of the one monotonic *)
(* clock of the host.                                                      *)
(***************************************************************************)
EXTENDS Integers, FiniteSets

CONSTANTS
  MotorNames,      \* the motors, in any number
  BatchAge,        \* max_age_ns of the accumulator
  BatchSkew,       \* its max_skew_ns
  MaxAge,          \* max_age_ns of the session
  MaxSkew,         \* its max_motor_skew_ns
  StartupTimeout,
  SilenceTimeout,
  MaxInstant,      \* bound on the clock
  MaxSessions,     \* bound on the session identities
  MaxOnWire        \* bound on the datagrams under way

(* The accumulator checks its limits when it is made.                        *)
BatchLimitsSound == BatchAge \in Nat \ {0} /\ BatchSkew \in 1 .. BatchAge

ASSUME TelemetryAssumption ==
  /\ BatchLimitsSound
  /\ MaxAge \in Nat \ {0} /\ MaxSkew \in 1 .. MaxAge
  /\ StartupTimeout \in Nat \ {0} /\ SilenceTimeout \in Nat \ {0}

VARIABLES
  hostClock,
  \* FeedbackAccumulator
  identity,    \* session_id of the sender
  latest,      \* receive time of the last frame of each motor, 0 before it
  amiss,       \* motors whose last frame has a bad status or is at an endpoint
  emitted,     \* emitted_ns_
  takenAt,     \* last_now_ns_
  sequence,
  broken,      \* fault_
  \* the channel
  wire,
  \* FeedbackSession
  expects,     \* session_id
  startedAt,   \* started_ns
  lastNow,
  receivedAt,  \* last_received_ns, 0 for None
  lastPacket,
  latched      \* fault

senderVars == <<identity, latest, amiss, emitted, takenAt, sequence, broken>>
sessionVars == <<expects, startedAt, lastNow, receivedAt, lastPacket, latched>>
telemetryVars == <<hostClock, senderVars, wire, sessionVars>>

Never == [m \in MotorNames |-> 0]
NoPacket == [identity |-> 0, sequence |-> 0, assembled |-> 0, at |-> Never, amiss |-> {}]

TelemetryInit ==
  /\ hostClock = 1
  /\ identity = 1 /\ latest = Never /\ amiss = {} /\ emitted = Never
  /\ takenAt = 0 /\ sequence = 0 /\ broken = FALSE
  /\ wire = {}
  /\ expects = 1 /\ startedAt = 1 /\ lastNow = 1 /\ receivedAt = 0
  /\ lastPacket = NoPacket /\ latched = FALSE

Elapse ==
  /\ hostClock < MaxInstant
  /\ hostClock' = hostClock + 1
  /\ UNCHANGED <<senderVars, wire, sessionVars>>
-----------------------------------------------------------------------------
(* ingest: the frame replaces the motor's last one; one with no later time   *)
(* breaks the accumulator for good.                                          *)
Ingest(m, bad) ==
  /\ ~broken
  /\ IF hostClock > latest[m]
     THEN /\ latest' = [latest EXCEPT ![m] = hostClock]
          /\ amiss' = IF bad THEN amiss \cup {m} ELSE amiss \ {m}
          /\ UNCHANGED broken
     ELSE broken' = TRUE /\ UNCHANGED <<latest, amiss>>
  /\ UNCHANGED <<hostClock, identity, emitted, takenAt, sequence, wire, sessionVars>>

(* take: every motor has a new frame, none too old and none too far apart.   *)
BatchComplete ==
  /\ \A m \in MotorNames : latest[m] > emitted[m] /\ hostClock - latest[m] <= BatchAge
  /\ \A m, n \in MotorNames : latest[m] - latest[n] <= BatchSkew

Batch ==
  [identity |-> identity, sequence |-> sequence + 1, assembled |-> hostClock,
   at |-> latest, amiss |-> amiss]

TakeBatch ==
  /\ ~broken /\ hostClock > takenAt /\ BatchComplete
  /\ Cardinality(wire) < MaxOnWire
  /\ takenAt' = hostClock /\ sequence' = sequence + 1 /\ emitted' = latest
  /\ wire' = wire \cup {Batch}
  /\ UNCHANGED <<hostClock, identity, latest, amiss, broken, sessionVars>>

TakeNothing ==
  /\ ~broken
  /\ IF hostClock > takenAt THEN ~BatchComplete /\ takenAt' = hostClock /\ UNCHANGED broken
                        ELSE broken' = TRUE /\ UNCHANGED takenAt
  /\ UNCHANGED <<hostClock, identity, latest, amiss, emitted, sequence, wire, sessionVars>>

(* A fault needs a new accumulator, and that a new identity.                 *)
RestartSender ==
  /\ identity < MaxSessions
  /\ identity' = identity + 1
  /\ latest' = Never /\ amiss' = {} /\ emitted' = Never
  /\ takenAt' = 0 /\ sequence' = 0 /\ broken' = FALSE
  /\ UNCHANGED <<hostClock, wire, sessionVars>>

Lose(p) ==
  /\ wire' = wire \ {p}
  /\ UNCHANGED <<hostClock, senderVars, sessionVars>>
-----------------------------------------------------------------------------
Usable == lastPacket.sequence > 0

(* check_deadline.                                                           *)
InTime ==
  /\ hostClock >= lastNow
  /\ IF receivedAt = 0 THEN hostClock - startedAt <= StartupTimeout
                       ELSE hostClock - receivedAt <= SilenceTimeout
  /\ Usable => \A m \in MotorNames : hostClock - lastPacket.at[m] <= MaxAge

(* invalidate.                                                               *)
Latch == latched' = TRUE /\ lastPacket' = NoPacket

CheckDeadline ==
  /\ ~latched
  /\ lastNow' = hostClock
  /\ IF InTime THEN UNCHANGED <<lastPacket, latched>> ELSE Latch
  /\ UNCHANGED <<hostClock, senderVars, wire, expects, startedAt, receivedAt>>

(* decode: the packet, the feedback and the raw frames in it are well formed.*)
SoundFrame(p, m) == p.at[m] > 0

SoundFeedback(p) ==
  p.assembled > 0 /\ \A m \in MotorNames : SoundFrame(p, m) /\ p.at[m] <= p.assembled

WellFormed(p) == p.identity > 0 /\ p.sequence > 0 /\ SoundFeedback(p)

Advances(p) ==
  /\ p.sequence > lastPacket.sequence /\ p.assembled > lastPacket.assembled
  /\ \A m \in MotorNames : p.at[m] > lastPacket.at[m]

(* Mutant: the age of the batch is judged, not of every motor in it.         *)
Acceptable_OfBatch(p) ==
  /\ WellFormed(p)
  /\ p.identity = expects
  /\ startedAt <= p.assembled /\ p.assembled <= hostClock
  /\ Usable => Advances(p)
  /\ p.amiss = {} /\ hostClock - p.assembled <= MaxAge
  /\ \A m \in MotorNames : startedAt <= p.at[m]
  /\ \A m, n \in MotorNames : p.at[m] - p.at[n] <= MaxSkew

(* accept.                                                                   *)
Acceptable(p) ==
  /\ WellFormed(p)
  /\ p.identity = expects
  /\ startedAt <= p.assembled /\ p.assembled <= hostClock
  /\ Usable => Advances(p)
  /\ p.amiss = {}
  /\ \A m \in MotorNames : startedAt <= p.at[m] /\ hostClock - p.at[m] <= MaxAge
  /\ \A m, n \in MotorNames : p.at[m] - p.at[n] <= MaxSkew

AcceptPacket(p) ==
  /\ ~latched
  /\ lastNow' = hostClock
  /\ IF InTime /\ Acceptable(p)
     THEN lastPacket' = p /\ receivedAt' = hostClock /\ UNCHANGED latched
     ELSE Latch /\ UNCHANGED receivedAt
  /\ \/ UNCHANGED wire
     \/ wire' = wire \ {p}
  /\ UNCHANGED <<hostClock, senderVars, expects, startedAt>>

AcceptGarbled ==
  /\ ~latched
  /\ lastNow' = hostClock /\ Latch
  /\ UNCHANGED <<hostClock, senderVars, wire, expects, startedAt, receivedAt>>

(* The owner's own evidence, such as an overflow of its queue.               *)
Invalidate ==
  /\ ~latched /\ Latch
  /\ UNCHANGED <<hostClock, senderVars, wire, expects, startedAt, lastNow, receivedAt>>

(* __init__: the identity is the one the sender has now.                     *)
NewSession ==
  /\ latched
  /\ expects' = identity /\ startedAt' = hostClock /\ lastNow' = hostClock
  /\ receivedAt' = 0 /\ lastPacket' = NoPacket /\ latched' = FALSE
  /\ UNCHANGED <<hostClock, senderVars, wire>>
-----------------------------------------------------------------------------
TelemetryNext ==
  \/ Elapse \/ TakeNothing \/ RestartSender
  \/ \E m \in MotorNames, bad \in BOOLEAN : Ingest(m, bad)
  \/ \E p \in wire : Lose(p) \/ AcceptPacket(p)
  \/ CheckDeadline \/ AcceptGarbled \/ Invalidate \/ NewSession
  \/ TakeBatch

TelemetrySpec == TelemetryInit /\ [][TelemetryNext]_telemetryVars
-----------------------------------------------------------------------------
(* The packet a session holds as usable is evidence of the present: every    *)
(* frame in it is sound, was received after the session began and, when the  *)
(* session was last asked, was not older than the limit; they were no        *)
(* further apart than theirs, and the channel had not been silent, whatever  *)
(* was lost, late, garbled or sent again (feedback_wire.py:200-273).         *)
UsableIsCurrent ==
  Usable =>
    /\ ~latched /\ lastPacket.identity = expects /\ lastPacket.amiss = {}
    /\ lastNow - receivedAt <= SilenceTimeout
    /\ \A m \in MotorNames :
         /\ lastPacket.at[m] \in startedAt .. lastNow
         /\ lastNow - lastPacket.at[m] <= MaxAge
         /\ \A n \in MotorNames : lastPacket.at[m] - lastPacket.at[n] <= MaxSkew
=============================================================================
