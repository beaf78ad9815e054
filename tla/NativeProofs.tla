----------------------------- MODULE NativeProofs -----------------------------
(***************************************************************************)
(* The native side, for any number of joints and motors, any timeouts and  *)
(* limits, either policy and any channel: what the timers of the monitor   *)
(* stand for, one warning per excursion, and how long a bound can be       *)
(* exceeded behind such warnings; the packet a session holds as usable is  *)
(* evidence of the present; what the passive log writes is an unbroken     *)
(* stretch of the bus.                                                     *)
(*                                                                         *)
(* For the monitor the invariant adds that the slot is never behind it,    *)
(* and that a joint without a sample within its limit since its last       *)
(* warning is still marked as warned. For the session it adds the types,   *)
(* that its clocks are behind the host's, and that a usable packet was     *)
(* received at an instant the session remembers: without it the silence of *)
(* the channel would be judged by the time allowed for the first packet.   *)
(* For the samples outside the bounds it adds which joints are spent, and  *)
(* for the log where each frame of the ring came from, that the kernel's   *)
(* queue continues what was ingested, and which frame last_ is of.         *)
(***************************************************************************)
EXTENDS
  JointSafety, MotorTelemetry, PassiveFeedbackLog, FiniteSetTheorems, SequenceLemmas, TLAPS

SlotAhead == last <= stamp
WarnedSince == \A j \in Joints : recovered[j] \/ warned[j]

JointInv == TypeOK /\ TimersBehindSamples /\ SlotAhead /\ WarnedSince

(* The monitor starts empty, every joint unwarned and within its limit.      *)
LEMMA JointInitInv == Init => JointInv
<1> SUFFICES ASSUME Init  PROVE JointInv
  OBVIOUS
<1>0. JointCount \in Nat /\ MaxClock \in Nat
  BY JointAssumption DEF JointAssumption
<1>1. 1 \in 1 .. (MaxClock + 1) /\ 0 \in 0 .. (JointCount + 1)
  BY <1>0
<1>2. TypeOK
  <2>1. clock \in 1 .. (MaxClock + 1) /\ event \in 0 .. Fatal
    BY <1>1 DEF Init, None, Fatal
  <2>2. warned \in [Joints -> BOOLEAN] /\ recovered \in [Joints -> BOOLEAN]
    BY DEF Init
  <2>3. sample \in [Joints -> Readings] /\ loop \in Running \cup Ended
    BY DEF Init, Readings, Running, Turn, Ended
  <2>4. started \in [Joints -> Nat] /\ apartSince \in [Joints -> Nat]
    BY DEF Init, None
  <2>5. /\ stamp \in Nat /\ last \in Nat /\ missed \in Nat /\ missedSince \in Nat
        /\ stamp <= clock
    BY DEF Init, None
  <2>6. unchecked \in BOOLEAN /\ fault \in BOOLEAN /\ resumed \in BOOLEAN
    BY DEF Init
  <2> QED
    BY <2>1, <2>2, <2>3, <2>4, <2>5, <2>6 DEF TypeOK
<1>3. TimersBehindSamples /\ SlotAhead /\ WarnedSince
  BY DEF Init, TimersBehindSamples, SlotAhead, WarnedSince, None
<1> QED  BY <1>2, <1>3 DEF JointInv

(* The history variables keep their types and hide no warning.               *)
LEMMA HistoryTypes ==
  ASSUME TypeOK, RecordHistory
  PROVE  /\ missed' \in Nat /\ missedSince' \in Nat
         /\ recovered' \in [Joints -> BOOLEAN] /\ apartSince' \in [Joints -> Nat]
         /\ \A j \in Joints : recovered[j] /\ event' # j => recovered'[j]
<1>1. missed' \in Nat /\ missedSince' \in Nat
  BY DEF TypeOK, RecordHistory, None
<1>2. recovered' \in [Joints -> BOOLEAN]
  BY DEF TypeOK, RecordHistory, Apart
<1>3. apartSince' \in [Joints -> Nat]
  BY DEF TypeOK, RecordHistory, None
<1>4. ASSUME NEW j \in Joints, recovered[j], event' # j  PROVE recovered'[j]
  BY <1>4 DEF RecordHistory
<1> QED  BY <1>1, <1>2, <1>3, <1>4

(* One pass of observe over a sample newer than the monitor's last one.      *)
LEMMA ObserveKeeps ==
  ASSUME JointInv, ObserveSample, RecordHistory,
         UNCHANGED <<clock, sample, stamp, fault, resumed>>,
         unchecked' \in BOOLEAN, loop' \in Running \cup Ended
  PROVE  JointInv'
<1>0. /\ TypeOK /\ TimersBehindSamples /\ SlotAhead /\ WarnedSince
      /\ JointCount \in Nat /\ Timeout \in Nat \ {0}
  BY JointAssumption DEF JointInv, JointAssumption
<1>1. \A j \in Joints : /\ started[j] \in Nat /\ started[j] <= last
                        /\ last \in Nat /\ stamp \in Nat /\ last <= stamp
                        /\ j \in Nat
  BY <1>0 DEF TypeOK, TimersBehindSamples, SlotAhead, Joints
<1>2. event' \in 0 .. Fatal
  BY <1>0 DEF ObserveSample, Verdict, Fatal, None, Joints
<1>3. TypeOK'
  <2>1. last' \in Nat /\ started' \in [Joints -> Nat] /\ warned' \in [Joints -> BOOLEAN]
    BY <1>0, <1>1 DEF ObserveSample, TypeOK, Apart, None
  <2> QED  BY <1>0, <1>2, <2>1, HistoryTypes DEF TypeOK
<1>4. TimersBehindSamples' /\ SlotAhead'
  <2> SUFFICES ASSUME NEW j \in Joints
               PROVE  /\ started'[j] <= last'
                      /\ warned'[j] => started'[j] # None /\ last' - started'[j] >= Timeout
    BY <1>0 DEF TimersBehindSamples, SlotAhead, ObserveSample, TypeOK
  <2>1. CASE Monitored(j)
    <3>1. last' = stamp /\ (warned'[j] => Apart(j) /\ (warned[j] \/ Expired(j)))
      BY <1>0, <2>1 DEF ObserveSample, TypeOK
    <3>2. CASE ~Apart(j)
      BY <1>1, <2>1, <3>1, <3>2 DEF ObserveSample, None
    <3>3. CASE Apart(j) /\ started[j] = None
      BY <1>0, <1>1, <2>1, <3>1, <3>3 DEF ObserveSample, TimersBehindSamples, Expired
    <3>4. CASE Apart(j) /\ started[j] # None
      <4>1. started'[j] = started[j]
        BY <2>1, <3>4 DEF ObserveSample
      <4>2. warned'[j] => stamp - started[j] >= Timeout
        BY <1>0, <1>1, <3>1, <3>4 DEF TimersBehindSamples, Expired
      <4> QED  BY <1>1, <3>1, <3>4, <4>1, <4>2
    <3> QED  BY <3>2, <3>3, <3>4
  <2>2. CASE ~Monitored(j)
    BY <1>0, <1>1, <2>2 DEF ObserveSample, TimersBehindSamples
  <2> QED  BY <2>1, <2>2
<1>5. WarnedSince'
  <2> SUFFICES ASSUME NEW j \in Joints, ~recovered'[j]  PROVE warned'[j]
    BY DEF WarnedSince
  <2>1. CASE event' = j
    <3>1. Ends(j) /\ Reached(j) /\ ~Outside(j) /\ ~StopOnError
      BY <1>0, <1>1, <2>1 DEF ObserveSample, Verdict, Fatal, None, Joints
    <3> QED
      BY <3>1 DEF ObserveSample, Monitored, Ends, Expired
  <2>2. CASE event' # j
    <3>1. ~recovered[j] /\ Apart(j)
      BY <2>2 DEF RecordHistory
    <3> QED
      BY <1>0, <3>1 DEF WarnedSince, ObserveSample
  <2> QED  BY <2>1, <2>2
<1> QED  BY <1>3, <1>4, <1>5 DEF JointInv

(* Samples, time and the rest of the run loop.                               *)
LEMMA JointStep == JointInv /\ [Next]_vars => JointInv'
<1> SUFFICES ASSUME JointInv, [Next]_vars  PROVE JointInv'
  OBVIOUS
<1>0. /\ TypeOK /\ TimersBehindSamples /\ SlotAhead /\ WarnedSince
      /\ JointCount \in Nat /\ MaxClock \in Nat
  BY JointAssumption DEF JointInv, JointAssumption
<1> USE <1>0 DEF JointInv, TypeOK, TimersBehindSamples, SlotAhead, WarnedSince, slot,
                 monitor, history, Running, Turn, Ended, None, Fatal
<1>1. CASE Tick          BY <1>1 DEF Tick
<1>2. CASE Update        BY <1>2 DEF Update
<1>3. CASE UpdateFault   BY <1>3 DEF UpdateFault
<1>4. CASE CheckFault    BY <1>4 DEF CheckFault
<1>5. CASE StopRequested BY <1>5 DEF StopRequested
<1>6. CASE Observe
  <2>1. CASE ~unchecked  BY <1>6, <2>1 DEF Observe
  <2>2. CASE unchecked /\ Stale
    <3>1. /\ missed' \in Nat /\ missedSince' \in Nat
          /\ recovered' \in [Joints -> BOOLEAN] /\ apartSince' \in [Joints -> Nat]
          /\ \A j \in Joints : recovered[j] /\ event' # j => recovered'[j]
      BY <1>6, <2>2, HistoryTypes DEF Observe
    <3>2. event' = Fatal /\ Fatal \in 0 .. Fatal /\ \A j \in Joints : event' # j
      BY <1>6, <2>2 DEF Observe, Joints
    <3> QED  BY <1>6, <2>2, <3>1, <3>2 DEF Observe
  <2>3. CASE unchecked /\ ~Stale
    BY <1>6, <2>3, ObserveKeeps DEF Observe
  <2> QED  BY <2>1, <2>2, <2>3
<1>7. CASE CheckAge      BY <1>7 DEF CheckAge
<1>8. CASE Accept        BY <1>8 DEF Accept
<1>9. CASE AdjustPosition BY <1>9 DEF AdjustPosition
<1>10. CASE SessionFault BY <1>10 DEF SessionFault
<1>11. CASE CheckHealth  BY <1>11 DEF CheckHealth
<1>12. CASE UNCHANGED vars BY <1>12 DEF vars
<1> QED
  BY <1>1, <1>2, <1>3, <1>4, <1>5, <1>6, <1>7, <1>8, <1>9, <1>10, <1>11, <1>12
  DEF Next, Callback, RunLoop
-----------------------------------------------------------------------------
(* Types, timers and the memory of warnings, together.                       *)
THEOREM JointInvariant == Spec => []JointInv
<1>1. Init => JointInv
  BY JointInitInv
<1>2. JointInv /\ [Next]_vars => JointInv'
  BY JointStep
<1> QED  BY <1>1, <1>2, PTL DEF Spec

(* JointSafetyMonitor keeps its types, and its timers stand for samples it   *)
(* has seen.                                                                 *)
THEOREM TimersHold == Spec => [](TypeOK /\ TimersBehindSamples)
<1>1. JointInv => TypeOK /\ TimersBehindSamples
  BY DEF JointInv
<1> QED  BY <1>1, JointInvariant, PTL

(* observe warns of a joint once per excursion.                              *)
THEOREM WarnsOnce == Spec => OneWarningPerExcursion
<1>1. JointInv /\ [Next]_vars => [\A j \in Joints : Warns(j) => recovered[j]]_vars
  <2> SUFFICES ASSUME JointInv, Next, NEW j \in Joints, Warns(j)  PROVE recovered[j]
    OBVIOUS
  <2>0. JointCount \in Nat /\ j \in Nat /\ j # None /\ j # Fatal
    BY JointAssumption DEF JointAssumption, Joints, None, Fatal
  <2>1. ObserveSample
    <3>1. Observe
      BY DEF Next, Warns, Callback, RunLoop, Tick, Update, UpdateFault, CheckFault,
             StopRequested, CheckAge, Accept, AdjustPosition, SessionFault, CheckHealth
    <3> QED  BY <2>0, <3>1 DEF Observe, Warns
  <2>2. Ends(j) /\ ~Outside(j) /\ ~StopOnError
    BY <2>0, <2>1 DEF ObserveSample, Verdict, Warns
  <2>3. ~warned[j]
    BY <2>2 DEF Ends
  <2> QED  BY <2>3 DEF JointInv, WarnedSince
<1> QED  BY <1>1, JointInvariant, PTL DEF Spec, OneWarningPerExcursion
-----------------------------------------------------------------------------
(* A joint that does not warn within the timeout after the first missed      *)
(* sample: it was warned of, its timer does not run, or runs only since then.*)
Spent ==
  {j \in 1 .. JointCount - 1 :
     warned[j] \/ started[j] = None \/ started[j] > missedSince}

(* Each sample in a row that is outside and not fatal spent another joint.   *)
MissedCounted ==
  missed # 0 =>
    /\ missedSince <= stamp /\ (unchecked => missedSince < stamp)
    /\ stamp - missedSince <= Timeout => missed <= Cardinality(Spent)

(* Fewer joints than the monitor has can warn in place of a later one.       *)
LEMMA SpentFinite ==
  ASSUME NEW S, S \subseteq 1 .. JointCount - 1
  PROVE  IsFiniteSet(S) /\ Cardinality(S) \in Nat /\ Cardinality(S) <= JointCount - 1
<1>1. JointCount \in Nat \ {0}
  BY JointAssumption
<1>2. /\ IsFiniteSet(1 .. JointCount - 1)
      /\ Cardinality(1 .. JointCount - 1) = JointCount - 1
  BY <1>1, FS_Interval
<1> QED  BY <1>2, FS_Subset, FS_CardinalityType

(* A sample outside the bounds that was let through: which joint warned.     *)
LEMMA WarnedInstead ==
  ASSUME JointInv, ObserveSample, event' # Fatal, NEW o \in Joints, Outside(o)
  PROVE  /\ event' \in 1 .. JointCount - 1 /\ event' \in Joints
         /\ ~warned[event'] /\ started[event'] # None /\ stamp - started[event'] >= Timeout
         /\ warned'[event']
<1>1. JointCount \in Nat \ {0} /\ TypeOK
  BY JointAssumption DEF JointInv
<1>2. Ends(o)
  BY DEF Ends
<1>3. PICK j \in Joints : /\ Ends(j) /\ Reached(j)
                          /\ event' = IF Outside(j) \/ StopOnError THEN Fatal ELSE j
  BY <1>2 DEF ObserveSample, Verdict
<1>4. event' = j /\ ~Outside(j) /\ ~StopOnError
  BY <1>3
<1>5. Expired(j) /\ ~warned[j]
  BY <1>3, <1>4 DEF Ends
<1>6. j <= o /\ j # o
  BY <1>2, <1>3, <1>4 DEF Reached
<1>7. j \in 1 .. JointCount - 1
  BY <1>1, <1>6 DEF Joints
<1>8. warned'[j]
  BY <1>3, <1>4, <1>5 DEF ObserveSample, Monitored, Expired
<1> QED  BY <1>3, <1>4, <1>5, <1>7, <1>8 DEF Expired

(* Once spent, a joint stays so: what starts its timer is a later sample.    *)
LEMMA SpentGrows ==
  ASSUME JointInv, ObserveSample, missed # 0, missedSince < stamp, missedSince' = missedSince
  PROVE  Spent \subseteq Spent'
<1>1. TypeOK /\ JointCount \in Nat
  BY JointAssumption DEF JointInv
<1> SUFFICES ASSUME NEW j \in 1 .. JointCount - 1,
                    warned[j] \/ started[j] = None \/ started[j] > missedSince
             PROVE  warned'[j] \/ started'[j] = None \/ started'[j] > missedSince'
  BY <1>1 DEF Spent
<1>2. j \in Joints
  BY <1>1 DEF Joints
<1>3. CASE ~Monitored(j)
  BY <1>2, <1>3 DEF ObserveSample
<1>4. CASE Monitored(j) /\ ~Apart(j)
  BY <1>2, <1>4 DEF ObserveSample
<1>5. CASE Monitored(j) /\ Apart(j)
  <2>1. started'[j] = IF started[j] = None THEN stamp ELSE started[j]
    BY <1>2, <1>5 DEF ObserveSample
  <2>2. warned[j] => warned'[j]
    BY <1>1, <1>2, <1>5 DEF ObserveSample, TypeOK
  <2> QED  BY <2>1, <2>2
<1> QED  BY <1>3, <1>4, <1>5

(* observe warns of one joint a sample: what was missed is counted by joints.*)
LEMMA MissedCountedKept ==
  ASSUME JointInv, MissedCounted, [Next]_vars
  PROVE  MissedCounted'
<1>0. /\ TypeOK /\ JointCount \in Nat /\ Timeout \in Nat
      /\ missed \in Nat /\ missedSince \in Nat /\ stamp \in Nat /\ clock \in Nat
  BY JointAssumption DEF JointInv, TypeOK
<1>1. ASSUME UNCHANGED <<stamp, unchecked, missed, missedSince, started, warned>>
      PROVE  MissedCounted'
  <2>1. Spent' = Spent
    BY <1>1 DEF Spent
  <2> QED  BY <1>1, <2>1 DEF MissedCounted
<1>2. CASE Update
  <2>1. UNCHANGED <<missed, missedSince, started, warned>>
    BY <1>2 DEF Update, monitor, history
  <2>2. PICK later \in Nat : stamp' = later /\ stamp < later
    BY <1>0, <1>2 DEF Update
  <2>3. Spent' = Spent
    BY <2>1 DEF Spent
  <2>4. ASSUME missed # 0
        PROVE  /\ missedSince < later
               /\ later - missedSince <= Timeout => missed <= Cardinality(Spent)
    <3>1. /\ missedSince <= stamp
          /\ stamp - missedSince <= Timeout => missed <= Cardinality(Spent)
      BY <2>4 DEF MissedCounted
    <3>2. missedSince < later /\ (later - missedSince <= Timeout => stamp - missedSince <= Timeout)
      BY <1>0, <2>2, <3>1
    <3> QED  BY <3>1, <3>2
  <2>5. missedSince < later => missedSince <= later
    BY <1>0
  <2> QED  BY <2>1, <2>2, <2>3, <2>4, <2>5 DEF MissedCounted
<1>3. CASE AdjustPosition
  <2>1. /\ UNCHANGED <<stamp, unchecked, missed, missedSince>>
        /\ \A j \in Joints : started'[j] = None
    BY <1>3 DEF AdjustPosition, slot
  <2>2. Spent \subseteq Spent' /\ Spent' \subseteq 1 .. JointCount - 1
    BY <1>0, <2>1 DEF Spent, Joints
  <2>3. Cardinality(Spent) <= Cardinality(Spent') /\ Cardinality(Spent) \in Nat
        /\ Cardinality(Spent') \in Nat
    BY <2>2, SpentFinite, FS_Subset
  <2> QED  BY <1>0, <2>1, <2>3 DEF MissedCounted
<1>4. CASE Observe /\ ~unchecked
  BY <1>1, <1>4 DEF Observe, monitor, history
<1>5. CASE Observe /\ unchecked
  <2>1. RecordHistory /\ unchecked' = FALSE /\ stamp' = stamp
        /\ (Stale => event' = Fatal) /\ (~Stale => ObserveSample)
    BY <1>5 DEF Observe
  <2>2. CASE ~(event' # Fatal /\ \E o \in Joints : Outside(o))
    <3>1. missed' = 0
      BY <2>1, <2>2 DEF RecordHistory
    <3> QED  BY <3>1 DEF MissedCounted
  <2>3. ASSUME event' # Fatal, NEW o \in Joints, Outside(o)
        PROVE  MissedCounted'
    <3>1. /\ ObserveSample /\ missed' = missed + 1
          /\ missedSince' = IF missed = 0 THEN stamp ELSE missedSince
      BY <2>1, <2>3 DEF RecordHistory
    <3>2. /\ event' \in 1 .. JointCount - 1 /\ event' \in Joints
          /\ ~warned[event'] /\ started[event'] # None /\ stamp - started[event'] >= Timeout
          /\ warned'[event']
      BY <2>3, <3>1, WarnedInstead
    <3>3. event' \in Spent' /\ Spent' \subseteq 1 .. JointCount - 1
          /\ Spent \subseteq 1 .. JointCount - 1
      BY <3>2 DEF Spent
    <3>4. IsFiniteSet(Spent') /\ Cardinality(Spent') \in Nat
          /\ IsFiniteSet(Spent) /\ Cardinality(Spent) \in Nat
      BY <3>3, SpentFinite
    <3>5. CASE missed = 0
      <4>1. Cardinality(Spent') # 0
        BY <3>3, <3>4, FS_EmptySet
      <4> QED  BY <1>0, <2>1, <3>1, <3>4, <3>5, <4>1 DEF MissedCounted
    <3>6. CASE missed # 0
      <4>1. missedSince' = missedSince /\ missedSince < stamp
        BY <1>5, <3>1, <3>6 DEF MissedCounted
      <4>2. ASSUME stamp - missedSince <= Timeout
            PROVE  missed + 1 <= Cardinality(Spent')
        <5>1. started[event'] \in Nat
          BY <1>0, <3>2 DEF TypeOK
        <5>2. event' \notin Spent
          BY <1>0, <3>2, <4>1, <4>2, <5>1 DEF Spent
        <5>3. Spent \cup {event'} \subseteq Spent'
          BY <3>1, <3>3, <3>6, <4>1, SpentGrows
        <5>4. Cardinality(Spent \cup {event'}) = Cardinality(Spent) + 1
          BY <3>4, <5>2, FS_AddElement
        <5>5. Cardinality(Spent \cup {event'}) <= Cardinality(Spent')
          BY <3>4, <5>3, FS_Subset
        <5>6. missed <= Cardinality(Spent)
          BY <3>6, <4>2 DEF MissedCounted
        <5> QED  BY <1>0, <3>4, <5>4, <5>5, <5>6
      <4> QED  BY <1>0, <2>1, <3>1, <3>6, <4>1, <4>2 DEF MissedCounted
    <3> QED  BY <3>5, <3>6
  <2> QED  BY <2>2, <2>3
<1>6. CASE \/ Tick \/ UpdateFault \/ CheckFault \/ StopRequested \/ CheckAge \/ Accept
           \/ SessionFault \/ CheckHealth \/ UNCHANGED vars
  BY <1>1, <1>6
     DEF Tick, UpdateFault, CheckFault, StopRequested, CheckAge, Accept, SessionFault,
         CheckHealth, vars, slot, monitor, history
<1> QED
  BY <1>2, <1>3, <1>4, <1>5, <1>6 DEF Next, Callback, RunLoop

(* A sample outside the bounds passes only behind the warning of a lower     *)
(* joint, which warns once in a timeout: within one fewer samples pass than  *)
(* there are joints, then one is fatal (runtime_safety.cpp, observe).        *)
THEOREM OutsideBounded == Spec => []OutsideSoonFatal
<1>1. Init => MissedCounted
  BY DEF Init, MissedCounted
<1>2. Spec => []MissedCounted
  BY <1>1, JointInvariant, MissedCountedKept, PTL DEF Spec
<1>3. ASSUME JointInv, MissedCounted PROVE OutsideSoonFatal
  <2>1. JointCount \in Nat \ {0} /\ Timeout \in Nat
        /\ missed \in Nat /\ missedSince \in Nat /\ stamp \in Nat
    BY <1>3, JointAssumption DEF JointInv, TypeOK
  <2>2. Cardinality(Spent) \in Nat /\ Cardinality(Spent) <= JointCount - 1
    BY SpentFinite DEF Spent
  <2> QED  BY <1>3, <2>1, <2>2 DEF MissedCounted, OutsideSoonFatal
<1> QED  BY <1>2, <1>3, JointInvariant, PTL
-----------------------------------------------------------------------------
Packets ==
  [identity : Nat, sequence : Nat, assembled : Nat,
   at : [MotorNames -> Nat], amiss : SUBSET MotorNames]

SenderTypes ==
  /\ identity \in Nat /\ sequence \in Nat
  /\ latest \in [MotorNames -> Nat] /\ amiss \in SUBSET MotorNames
  /\ wire \in SUBSET Packets

SessionTypes ==
  /\ hostClock \in Nat /\ hostClock > 0
  /\ startedAt \in Nat /\ lastNow \in Nat /\ receivedAt \in Nat
  /\ expects \in Nat /\ lastPacket \in Packets

Remembered ==
  /\ lastNow <= hostClock /\ receivedAt <= hostClock
  /\ Usable => receivedAt > 0

TelemetryInv == SenderTypes /\ SessionTypes /\ Remembered /\ UsableIsCurrent

LEMMA NoPacketFact == NoPacket \in Packets /\ NoPacket.sequence = 0
BY DEF NoPacket, Packets, Never

(* Nothing is on the wire at the beginning, and nothing usable.              *)
LEMMA TelemetryInitInv == TelemetryInit => TelemetryInv
<1> SUFFICES ASSUME TelemetryInit  PROVE TelemetryInv
  OBVIOUS
<1>1. SenderTypes
  BY DEF TelemetryInit, SenderTypes, Never
<1>2. SessionTypes
  <2>1. lastPacket \in Packets
    BY NoPacketFact DEF TelemetryInit
  <2>2. /\ hostClock \in Nat /\ hostClock > 0 /\ startedAt \in Nat /\ lastNow \in Nat
        /\ receivedAt \in Nat /\ expects \in Nat
    BY DEF TelemetryInit
  <2> QED  BY <2>1, <2>2 DEF SessionTypes
<1>3. ~Usable
  BY NoPacketFact DEF TelemetryInit, Usable
<1>4. Remembered /\ UsableIsCurrent
  BY <1>3 DEF TelemetryInit, Remembered, UsableIsCurrent
<1> QED  BY <1>1, <1>2, <1>4 DEF TelemetryInv

(* A latched session holds nothing.                                          *)
LEMMA LatchedHoldsNothing ==
  ASSUME Latch \/ lastPacket' = NoPacket
  PROVE  lastPacket' \in Packets /\ ~Usable' /\ UsableIsCurrent'
<1>1. lastPacket' = NoPacket
  BY DEF Latch
<1>2. lastPacket' \in Packets /\ ~Usable'
  BY <1>1, NoPacketFact DEF Usable
<1> QED  BY <1>2 DEF UsableIsCurrent

(* A step that leaves the session alone, and does not turn the clock back,   *)
(* leaves it what it was.                                                    *)
LEMMA SessionUntouched ==
  ASSUME TelemetryInv, UNCHANGED sessionVars, hostClock' \in {hostClock, hostClock + 1}
  PROVE  SessionTypes' /\ Remembered' /\ UsableIsCurrent'
<1>1. SessionTypes'
  BY DEF TelemetryInv, SessionTypes, sessionVars
<1>2. Remembered'
  BY DEF TelemetryInv, SessionTypes, Remembered, Usable, sessionVars
<1>3. UsableIsCurrent'
  BY DEF TelemetryInv, UsableIsCurrent, Usable, sessionVars
<1> QED  BY <1>1, <1>2, <1>3

(* What leaves the sender and its wire alone, or takes from the wire.        *)
LEMMA SenderUntouched ==
  ASSUME TelemetryInv, UNCHANGED senderVars, wire' \subseteq wire
  PROVE  SenderTypes'
BY DEF TelemetryInv, SenderTypes, senderVars

(* The sender's steps.                                                       *)
LEMMA SenderSteps ==
  ASSUME TelemetryInv,
         TakeNothing \/ RestartSender \/ TakeBatch
           \/ \E m \in MotorNames, bad \in BOOLEAN : Ingest(m, bad)
  PROVE  TelemetryInv'
<1>1. UNCHANGED sessionVars /\ hostClock' = hostClock
  BY DEF TakeNothing, RestartSender, TakeBatch, Ingest
<1>2. SessionTypes' /\ Remembered' /\ UsableIsCurrent'
  BY <1>1, SessionUntouched
<1>3. SenderTypes'
  <2>1. CASE TakeNothing
    BY <2>1 DEF TelemetryInv, SenderTypes, TakeNothing
  <2>2. CASE RestartSender
    BY <2>2 DEF TelemetryInv, SenderTypes, RestartSender, Never
  <2>3. CASE TakeBatch
    <3>1. Batch \in Packets
      BY DEF TelemetryInv, SenderTypes, SessionTypes, Batch, Packets
    <3> QED  BY <2>3, <3>1 DEF TelemetryInv, SenderTypes, TakeBatch
  <2>4. ASSUME NEW m \in MotorNames, NEW bad \in BOOLEAN, Ingest(m, bad)
        PROVE  SenderTypes'
    BY <2>4 DEF TelemetryInv, SenderTypes, SessionTypes, Ingest
  <2> QED  BY <2>1, <2>2, <2>3, <2>4
<1> QED  BY <1>2, <1>3 DEF TelemetryInv

(* check_deadline keeps a packet only while it is in time.                   *)
LEMMA DeadlineStep ==
  ASSUME TelemetryInv, CheckDeadline
  PROVE  SessionTypes' /\ Remembered' /\ UsableIsCurrent'
<1>1. CASE InTime
  <2>1. UNCHANGED <<lastPacket, latched, expects, startedAt, receivedAt, hostClock>>
        /\ lastNow' = hostClock
    BY <1>1 DEF CheckDeadline
  <2>2. SessionTypes' /\ Remembered'
    BY <2>1 DEF TelemetryInv, SessionTypes, Remembered, Usable
  <2>3. ASSUME Usable'  PROVE UsableIsCurrent'
    <3>1. Usable /\ receivedAt > 0
      BY <2>1, <2>3 DEF Usable, TelemetryInv, Remembered
    <3>2. hostClock - receivedAt <= SilenceTimeout
          /\ \A m \in MotorNames : hostClock - lastPacket.at[m] <= MaxAge
      BY <1>1, <3>1 DEF InTime, TelemetryInv, SessionTypes
    <3>3. \A m \in MotorNames : lastPacket.at[m] \in Nat /\ lastPacket.at[m] <= hostClock
                                /\ startedAt <= lastPacket.at[m]
      BY <3>1 DEF TelemetryInv, SessionTypes, Packets, UsableIsCurrent, Remembered
    <3> QED
      BY <2>1, <3>1, <3>2, <3>3 DEF UsableIsCurrent, TelemetryInv, SessionTypes
  <2> QED  BY <2>2, <2>3 DEF UsableIsCurrent
<1>2. CASE ~InTime
  <2>1. Latch /\ lastNow' = hostClock /\ UNCHANGED <<expects, startedAt, receivedAt, hostClock>>
    BY <1>2 DEF CheckDeadline
  <2>2. lastPacket' \in Packets /\ ~Usable' /\ UsableIsCurrent'
    BY <2>1, LatchedHoldsNothing
  <2> QED
    BY <2>1, <2>2 DEF TelemetryInv, SessionTypes, Remembered, Latch
<1> QED  BY <1>1, <1>2

(* accept takes only a packet that is evidence of the present.               *)
LEMMA AcceptStep ==
  ASSUME TelemetryInv, NEW p \in wire, AcceptPacket(p)
  PROVE  SessionTypes' /\ Remembered' /\ UsableIsCurrent'
<1>0. p \in Packets
  BY DEF TelemetryInv, SenderTypes
<1>1. CASE InTime /\ Acceptable(p)
  <2>1. /\ lastPacket' = p /\ receivedAt' = hostClock /\ lastNow' = hostClock
        /\ ~latched' /\ UNCHANGED <<expects, startedAt, hostClock>>
    BY <1>1 DEF AcceptPacket
  <2>2. SessionTypes' /\ Remembered'
    BY <1>0, <2>1 DEF TelemetryInv, SessionTypes, Remembered
  <2>3. p.identity = expects /\ p.amiss = {}
    BY <1>1 DEF Acceptable
  <2>4. ASSUME NEW m \in MotorNames
        PROVE  /\ p.at[m] \in startedAt .. hostClock
               /\ hostClock - p.at[m] <= MaxAge
    <3>1. p.at[m] <= p.assembled /\ p.assembled <= hostClock /\ startedAt <= p.at[m]
          /\ hostClock - p.at[m] <= MaxAge
      BY <1>1 DEF Acceptable, WellFormed, SoundFeedback
    <3>2. p.at[m] \in Nat /\ p.assembled \in Nat /\ hostClock \in Nat /\ startedAt \in Nat
      BY <1>0 DEF Packets, TelemetryInv, SessionTypes
    <3> QED  BY <3>1, <3>2
  <2>5. \A m, n \in MotorNames : p.at[m] - p.at[n] <= MaxSkew
    BY <1>1 DEF Acceptable
  <2>6. hostClock - hostClock <= SilenceTimeout
    BY TelemetryAssumption DEF TelemetryAssumption, TelemetryInv, SessionTypes
  <2>7. UsableIsCurrent'
    BY <2>1, <2>3, <2>4, <2>5, <2>6 DEF UsableIsCurrent
  <2> QED  BY <2>2, <2>7
<1>2. CASE ~(InTime /\ Acceptable(p))
  <2>1. Latch /\ lastNow' = hostClock /\ UNCHANGED <<expects, startedAt, receivedAt, hostClock>>
    BY <1>2 DEF AcceptPacket
  <2>2. lastPacket' \in Packets /\ ~Usable' /\ UsableIsCurrent'
    BY <2>1, LatchedHoldsNothing
  <2> QED
    BY <2>1, <2>2 DEF TelemetryInv, SessionTypes, Remembered, Latch
<1> QED  BY <1>1, <1>2

(* A session that drops its packet, or is made anew.                         *)
LEMMA DroppingSteps ==
  ASSUME TelemetryInv, AcceptGarbled \/ Invalidate \/ NewSession
  PROVE  SessionTypes' /\ Remembered' /\ UsableIsCurrent'
<1>1. Latch \/ lastPacket' = NoPacket
  BY DEF AcceptGarbled, Invalidate, NewSession
<1>2. lastPacket' \in Packets /\ ~Usable' /\ UsableIsCurrent'
  BY <1>1, LatchedHoldsNothing
<1>3. CASE AcceptGarbled \/ Invalidate
  BY <1>2, <1>3 DEF AcceptGarbled, Invalidate, Latch, TelemetryInv, SessionTypes, Remembered
<1>4. CASE NewSession
  BY <1>2, <1>4 DEF NewSession, TelemetryInv, SenderTypes, SessionTypes, Remembered
<1> QED  BY <1>3, <1>4 DEF AcceptGarbled, Invalidate, NewSession

LEMMA TelemetryStep == TelemetryInv /\ [TelemetryNext]_telemetryVars => TelemetryInv'
<1> SUFFICES ASSUME TelemetryInv, [TelemetryNext]_telemetryVars
             PROVE  TelemetryInv'
  OBVIOUS
<1>1. CASE Elapse
  BY <1>1, SessionUntouched, SenderUntouched DEF Elapse, TelemetryInv
<1>2. CASE TakeNothing \/ RestartSender \/ TakeBatch
             \/ \E m \in MotorNames, bad \in BOOLEAN : Ingest(m, bad)
  BY <1>2, SenderSteps
<1>3. ASSUME NEW p \in wire, Lose(p)
      PROVE  TelemetryInv'
  <2>1. UNCHANGED sessionVars /\ hostClock' = hostClock /\ UNCHANGED senderVars
        /\ wire' \subseteq wire
    BY <1>3 DEF Lose
  <2> QED  BY <2>1, SessionUntouched, SenderUntouched DEF TelemetryInv
<1>4. ASSUME NEW p \in wire, AcceptPacket(p)
      PROVE  TelemetryInv'
  <2>1. UNCHANGED senderVars /\ wire' \subseteq wire
    BY <1>4 DEF AcceptPacket
  <2> QED  BY <1>4, <2>1, AcceptStep, SenderUntouched DEF TelemetryInv
<1>5. CASE CheckDeadline
  <2>1. UNCHANGED senderVars /\ wire' \subseteq wire
    BY <1>5 DEF CheckDeadline
  <2> QED  BY <1>5, <2>1, DeadlineStep, SenderUntouched DEF TelemetryInv
<1>6. CASE AcceptGarbled \/ Invalidate \/ NewSession
  <2>1. UNCHANGED senderVars /\ wire' \subseteq wire
    BY <1>6 DEF AcceptGarbled, Invalidate, NewSession
  <2> QED  BY <1>6, <2>1, DroppingSteps, SenderUntouched DEF TelemetryInv
<1>7. CASE UNCHANGED telemetryVars
  <2>1. UNCHANGED sessionVars /\ hostClock' = hostClock /\ UNCHANGED senderVars
        /\ wire' \subseteq wire
    BY <1>7 DEF telemetryVars
  <2> QED  BY <2>1, SessionUntouched, SenderUntouched DEF TelemetryInv
<1> QED
  BY <1>1, <1>2, <1>3, <1>4, <1>5, <1>6, <1>7 DEF TelemetryNext

(* However datagrams are lost, delayed, repeated, reordered or garbled and   *)
(* whenever the sender starts again: a usable packet is of this session, its *)
(* frames are sound, no older than the limit at the last look, no further    *)
(* apart than theirs, and the channel was not silent                         *)
(* (FeedbackSession.accept and check_deadline).                              *)
THEOREM UsableEvidence == TelemetrySpec => []UsableIsCurrent
<1>1. TelemetryInv => UsableIsCurrent
  BY DEF TelemetryInv
<1> QED  BY <1>1, TelemetryInitInv, TelemetryStep, PTL DEF TelemetrySpec
-----------------------------------------------------------------------------
Frames == [id : ResponseIds, number : Nat, kernel : Nat, drops : Nat]
Records == [number : Nat, id : ResponseIds, at : Nat \ {0}]

LogTypes ==
  /\ logTime \in Nat \ {0} /\ checkedAt \in Nat /\ checkedAt <= logTime
  /\ socketQueue \in Seq(Frames) /\ sentFrames \in Nat /\ dropped \in Nat
  /\ retainLatest \in BOOLEAN /\ logger \in {"reading", "failed", "stopped"}
  /\ ring \in Seq(Records) /\ ingested \in Seq(Records)
  /\ oldest \in Nat /\ evicted \in Nat
  /\ heardAt \in [ResponseIds -> Nat] /\ openedAt \in Nat

(* Where the ring has the i-th of its frames, oldest first.                  *)
Place(first, i) == IF first + i <= Len(ring) THEN first + i ELSE first + i - Len(ring)

RingHolds ==
  /\ Len(ring) <= Capacity /\ oldest < Capacity
  /\ Len(ring) < Capacity => oldest = 0 /\ evicted = 0
  /\ ~retainLatest => evicted = 0
  /\ Len(ingested) = evicted + Len(ring)
  /\ \A i \in 1 .. Len(ring) : ring[Place(oldest, i)] = ingested[evicted + i]

NumbersFollow ==
  /\ \A i \in 1 .. Len(ingested) : ingested[i].number = i
  /\ logger # "failed" =>
       /\ dropped = 0 => sentFrames = Len(ingested) + Len(socketQueue)
       /\ \A i \in 1 .. Len(socketQueue) :
            socketQueue[i].drops = 0 => socketQueue[i].number = Len(ingested) + i

HeardIsLast ==
  \A id \in ResponseIds :
    \/ heardAt[id] = 0 /\ \A i \in 1 .. Len(ingested) : ingested[i].id # id
    \/ \E i \in 1 .. Len(ingested) :
         /\ ingested[i].id = id /\ heardAt[id] = ingested[i].at
         /\ \A k \in 1 .. Len(ingested) : ingested[k].id = id => k <= i

Since(id) == IF heardAt[id] = 0 THEN openedAt ELSE heardAt[id]
NoneSilent == logger # "failed" => \A id \in ResponseIds : checkedAt - Since(id) <= LogTimeout

LogInv == LogTypes /\ RingHolds /\ NumbersFollow /\ HeardIsLast /\ NoneSilent

(* The log starts empty, every motor with the whole timeout before it.       *)
LEMMA LogInitInv == LogInit => LogInv
<1> SUFFICES ASSUME LogInit  PROVE LogInv
  OBVIOUS
<1>0. Capacity \in Nat \ {0} /\ LogTimeout \in Nat \ {0}
  BY LogAssumption
<1>1. LogTypes
  BY DEF LogInit, LogTypes
<1>2. RingHolds
  <2>1. Len(ring) = 0 /\ Len(ingested) = 0 /\ oldest = 0 /\ evicted = 0
    BY DEF LogInit
  <2> QED  BY <1>0, <2>1 DEF RingHolds
<1>3. NumbersFollow
  <2>1. Len(ingested) = 0 /\ Len(socketQueue) = 0 /\ sentFrames = 0
    BY DEF LogInit
  <2> QED  BY <2>1 DEF NumbersFollow
<1>4. HeardIsLast
  <2>1. Len(ingested) = 0
    BY DEF LogInit
  <2>2. \A id \in ResponseIds : heardAt[id] = 0
    BY DEF LogInit
  <2> QED  BY <2>1, <2>2 DEF HeardIsLast
<1>5. NoneSilent
  <2>1. \A id \in ResponseIds : heardAt[id] = 0
    BY DEF LogInit
  <2>2. checkedAt = 1 /\ openedAt = 1
    BY DEF LogInit
  <2> QED  BY <1>0, <2>1, <2>2 DEF NoneSilent, Since
<1> QED  BY <1>1, <1>2, <1>3, <1>4, <1>5 DEF LogInv

(* What a step leaves of the ring when it does not ingest.                   *)
LEMMA BufferUntouched ==
  ASSUME LogInv, UNCHANGED <<bufferVars, retainLatest>>
  PROVE  RingHolds' /\ HeardIsLast'
<1>1. UNCHANGED <<ring, oldest, evicted, heardAt, openedAt, ingested, retainLatest>>
  BY DEF bufferVars
<1>2. RingHolds /\ HeardIsLast
  BY DEF LogInv
<1>3. RingHolds'
  BY <1>1, <1>2 DEF RingHolds, Place
<1>4. HeardIsLast'
  BY <1>1, <1>2 DEF HeardIsLast
<1> QED  BY <1>3, <1>4

(* A frame that comes has the next number, and drops before it if there were.*)
LEMMA FrameComesStep ==
  ASSUME LogInv, NEW id \in ResponseIds, FrameComes(id)
  PROVE  LogInv'
<1>0. LogTypes /\ NumbersFollow /\ NoneSilent
  BY DEF LogInv
<1>1. UNCHANGED <<logTime, checkedAt, ring, ingested, oldest, evicted, heardAt, openedAt,
                  retainLatest, logger>>
  BY DEF FrameComes, bufferVars
<1>2. sentFrames' = sentFrames + 1
  BY DEF FrameComes
<1>3. \/ dropped' = dropped + 1 /\ socketQueue' = socketQueue
      \/ /\ dropped' = dropped
         /\ socketQueue' = Append(socketQueue,
              [id |-> id, number |-> sentFrames + 1, kernel |-> logTime, drops |-> dropped])
  BY <1>2 DEF FrameComes
<1>4. RingHolds' /\ HeardIsLast'
  BY <1>1, BufferUntouched DEF bufferVars
<1>5. NoneSilent'
  BY <1>0, <1>1 DEF NoneSilent, Since
<1>6. CASE dropped' = dropped + 1 /\ socketQueue' = socketQueue
  <2>1. LogTypes'
    BY <1>0, <1>1, <1>2, <1>6 DEF LogTypes
  <2>2. dropped' # 0
    BY <1>0, <1>6 DEF LogTypes
  <2>3. NumbersFollow'
    BY <1>0, <1>1, <1>6, <2>2 DEF NumbersFollow
  <2> QED  BY <1>4, <1>5, <2>1, <2>3 DEF LogInv
<1>7. ASSUME NEW f \in Frames, f.number = sentFrames + 1, f.drops = dropped,
             dropped' = dropped, socketQueue' = Append(socketQueue, f)
      PROVE  LogInv'
  <2>1. /\ socketQueue' \in Seq(Frames) /\ Len(socketQueue') = Len(socketQueue) + 1
        /\ \A i \in 1 .. Len(socketQueue) : socketQueue'[i] = socketQueue[i]
        /\ socketQueue'[Len(socketQueue) + 1] = f
    BY <1>0, <1>7 DEF LogTypes
  <2>2. LogTypes'
    BY <1>0, <1>1, <1>2, <1>7, <2>1 DEF LogTypes
  <2>3. NumbersFollow'
    <3>1. /\ Len(ingested) \in Nat /\ Len(socketQueue) \in Nat /\ sentFrames \in Nat
      BY <1>0 DEF LogTypes
    <3>2. ASSUME logger # "failed"
          PROVE  /\ dropped = 0 => sentFrames = Len(ingested) + Len(socketQueue)
                 /\ \A i \in 1 .. Len(socketQueue) :
                      socketQueue[i].drops = 0 => socketQueue[i].number = Len(ingested) + i
      BY <1>0, <3>2 DEF NumbersFollow
    <3>3. \A i \in 1 .. Len(ingested) : ingested[i].number = i
      BY <1>0 DEF NumbersFollow
    <3>4. ASSUME logger # "failed", dropped = 0
          PROVE  sentFrames + 1 = Len(ingested) + (Len(socketQueue) + 1)
      BY <3>1, <3>2, <3>4
    <3>5. ASSUME logger # "failed", NEW i \in 1 .. Len(socketQueue) + 1,
                 socketQueue'[i].drops = 0
          PROVE  socketQueue'[i].number = Len(ingested) + i
      <4>1. CASE i \in 1 .. Len(socketQueue)
        BY <2>1, <3>2, <3>5, <4>1
      <4>2. CASE i = Len(socketQueue) + 1
        BY <1>7, <2>1, <3>1, <3>4, <3>5, <4>2
      <4> QED  BY <3>1, <4>1, <4>2
    <3> QED  BY <1>1, <1>2, <1>7, <2>1, <3>3, <3>4, <3>5 DEF NumbersFollow
  <2> QED  BY <1>4, <1>5, <2>2, <2>3 DEF LogInv
<1>8. ASSUME NEW t \in Nat, NEW n \in Nat, NEW d \in Nat
      PROVE  [id |-> id, number |-> n, kernel |-> t, drops |-> d] \in Frames
  BY DEF Frames
<1>9. [id |-> id, number |-> sentFrames + 1, kernel |-> logTime, drops |-> dropped] \in Frames
  BY <1>0, <1>8 DEF LogTypes
<1> QED  BY <1>3, <1>6, <1>7, <1>9

(* The place after x in a ring of n.                                         *)
LEMMA NextPlace ==
  ASSUME NEW n \in Nat \ {0}, NEW x \in Nat, x < n
  PROVE  (x + 1) % n = IF x + 1 < n THEN x + 1 ELSE 0
OBVIOUS

(* The ring after a frame was kept: in a full one the oldest gives way.      *)
LEMMA KeepHolds ==
  ASSUME LogTypes, RingHolds, NEW r \in Records, Keep(r),
         retainLatest' = retainLatest, Len(ring) < Capacity \/ retainLatest,
         ingested' = Append(ingested, r)
  PROVE  /\ RingHolds'
         /\ ring' \in Seq(Records) /\ oldest' \in Nat /\ evicted' \in Nat
<1>0. /\ Capacity \in Nat \ {0} /\ Len(ring) \in Nat /\ Len(ingested) \in Nat
      /\ oldest \in Nat /\ evicted \in Nat /\ ring \in Seq(Records)
  BY LogAssumption DEF LogTypes
<1>1. /\ Len(ring) <= Capacity /\ oldest < Capacity
      /\ Len(ring) < Capacity => oldest = 0 /\ evicted = 0
      /\ ~retainLatest => evicted = 0
      /\ Len(ingested) = evicted + Len(ring)
      /\ \A i \in 1 .. Len(ring) : ring[Place(oldest, i)] = ingested[evicted + i]
  BY DEF RingHolds
<1>2. /\ Len(ingested') = Len(ingested) + 1
      /\ \A i \in 1 .. Len(ingested) : ingested'[i] = ingested[i]
      /\ ingested'[Len(ingested) + 1] = r
  BY DEF LogTypes
<1>3. CASE Len(ring) < Capacity
  <2>1. ring' = Append(ring, r) /\ oldest' = oldest /\ evicted' = evicted
    BY <1>3 DEF Keep
  <2>2. oldest = 0 /\ evicted = 0 /\ Len(ingested) = Len(ring)
    BY <1>0, <1>1, <1>3
  <2>3. /\ ring' \in Seq(Records) /\ Len(ring') = Len(ring) + 1
        /\ \A i \in 1 .. Len(ring) : ring'[i] = ring[i]
        /\ ring'[Len(ring) + 1] = r
    BY <1>0, <2>1
  <2>4. \A i \in 1 .. Len(ring) : ring[i] = ingested[i]
    BY <1>0, <1>1, <2>2 DEF Place
  <2>5. ASSUME NEW i \in 1 .. Len(ring) + 1
        PROVE  ring'[i] = ingested'[i]
    <3>1. CASE i \in 1 .. Len(ring)  BY <1>2, <2>2, <2>3, <2>4, <3>1
    <3>2. CASE i = Len(ring) + 1  BY <1>2, <2>2, <2>3, <3>2
    <3>3. i \in 1 .. Len(ring) \/ i = Len(ring) + 1
      <4>1. Len(ring) \in Nat
        BY <1>0
      <4> QED  BY ONLY <4>1, i \in 1 .. Len(ring) + 1
    <3> QED  BY <3>1, <3>2, <3>3
  <2>6. \A i \in 1 .. Len(ring') : ring'[Place(oldest, i)'] = ingested'[evicted' + i]
    BY <1>0, <2>1, <2>2, <2>3, <2>5 DEF Place
  <2>7. Len(ring') <= Capacity /\ Len(ingested') = evicted' + Len(ring')
    BY <1>0, <1>2, <1>3, <2>1, <2>2, <2>3
  <2> QED  BY <1>0, <1>1, <2>1, <2>2, <2>3, <2>6, <2>7 DEF RingHolds
<1>4. CASE Len(ring) = Capacity
  <2>1. /\ ring' = [ring EXCEPT ![oldest + 1] = r]
        /\ oldest' = (oldest + 1) % Capacity /\ evicted' = evicted + 1
    BY <1>0, <1>4 DEF Keep
  <2>2. oldest + 1 \in 1 .. Len(ring)
    BY <1>0, <1>1, <1>4
  <2>3. /\ ring' \in Seq(Records) /\ Len(ring') = Len(ring)
        /\ ring'[oldest + 1] = r
        /\ \A i \in 1 .. Len(ring) : i # oldest + 1 => ring'[i] = ring[i]
    BY <1>0, <2>1, <2>2
  <2>4. oldest' = IF oldest + 1 < Capacity THEN oldest + 1 ELSE 0
    <3> QED  BY <1>0, <1>1, <2>1, NextPlace
  <2>5. \A i \in 1 .. Len(ring') : ring'[Place(oldest, i)'] = ingested'[evicted' + i]
    <3> SUFFICES ASSUME NEW i \in 1 .. Capacity
                 PROVE  ring'[Place(oldest, i)'] = ingested'[evicted + 1 + i]
      BY <1>4, <2>1, <2>3
    <3>1. Place(oldest, i)' =
            IF oldest' + i <= Capacity THEN oldest' + i ELSE oldest' + i - Capacity
      BY <1>4, <2>3 DEF Place
    <3>2. CASE i = Capacity
      <4>1. Place(oldest, i)' = oldest + 1
        BY <1>0, <1>1, <2>4, <3>1, <3>2
      <4>2. evicted + 1 + i = Len(ingested) + 1
        BY <1>0, <1>1, <1>4, <3>2
      <4> QED  BY <1>2, <2>3, <4>1, <4>2
    <3>3. CASE i # Capacity
      <4>1. /\ Place(oldest, i)' = Place(oldest, i + 1) /\ i + 1 \in 1 .. Len(ring)
            /\ Place(oldest, i + 1) \in 1 .. Len(ring) /\ Place(oldest, i + 1) # oldest + 1
        BY <1>0, <1>1, <1>4, <2>4, <3>1, <3>3 DEF Place
      <4>2. ring'[Place(oldest, i)'] = ring[Place(oldest, i + 1)]
        BY <2>3, <4>1
      <4>3. ring[Place(oldest, i + 1)] = ingested[evicted + (i + 1)]
        BY <1>1, <4>1
      <4>4. evicted + (i + 1) \in 1 .. Len(ingested) /\ evicted + (i + 1) = evicted + 1 + i
        BY <1>0, <1>1, <4>1
      <4> QED  BY <1>2, <4>2, <4>3, <4>4
    <3> QED  BY <3>2, <3>3
  <2>6. oldest' \in Nat /\ oldest' < Capacity /\ evicted' \in Nat
    BY <1>0, <2>1, <2>4
  <2>7. Len(ring') <= Capacity /\ ~(Len(ring') < Capacity) /\ retainLatest'
    BY <1>0, <1>4, <2>3
  <2>8. Len(ingested') = evicted' + Len(ring')
    <3>1. Len(ingested) + 1 = (evicted + 1) + Len(ring)
      BY <1>0, <1>1
    <3> QED  BY <1>2, <2>1, <2>3, <3>1
  <2> QED  BY <2>3, <2>5, <2>6, <2>7, <2>8 DEF RingHolds
<1> QED  BY <1>0, <1>1, <1>3, <1>4

(* A frame that is ingested is the one after the last; one that is not ends  *)
(* the log.                                                                  *)
LEMMA IngestStep ==
  ASSUME LogInv, IngestFrame
  PROVE  LogInv'
<1>0. /\ LogTypes /\ RingHolds /\ NumbersFollow /\ HeardIsLast /\ NoneSilent
      /\ LogTimeout \in Nat
  BY LogAssumption DEF LogInv
<1>1. /\ UNCHANGED <<sentFrames, dropped, retainLatest, openedAt, checkedAt, logStatus>>
      /\ logger = "reading" /\ socketQueue # <<>> /\ logTime' = logTime + 1
      /\ socketQueue' = Tail(socketQueue)
  BY DEF IngestFrame
<1>2. /\ Head(socketQueue) \in Frames /\ socketQueue' \in Seq(Frames)
      /\ Len(socketQueue') = Len(socketQueue) - 1
      /\ \A i \in 1 .. Len(socketQueue') : socketQueue'[i] = socketQueue[i + 1]
      /\ Head(socketQueue) = socketQueue[1] /\ 1 \in 1 .. Len(socketQueue)
      /\ Len(socketQueue) \in Nat /\ Len(ingested) \in Nat
  BY <1>0, <1>1, HeadTailProperties DEF LogTypes
<1>3. logTime' \in Nat \ {0} /\ checkedAt \in Nat /\ checkedAt <= logTime'
  BY <1>0, <1>1 DEF LogTypes
<1>4. CASE Fails /\ UNCHANGED <<ring, oldest, evicted, heardAt, ingested, inBurst>>
  <2>1. logger' = "failed"
    BY <1>4 DEF Fails
  <2>2. RingHolds' /\ HeardIsLast'
    BY <1>1, <1>4, BufferUntouched DEF bufferVars
  <2>3. LogTypes'
    BY <1>0, <1>1, <1>2, <1>3, <1>4, <2>1 DEF LogTypes
  <2>4. NumbersFollow' /\ NoneSilent'
    BY <1>0, <1>4, <2>1 DEF NumbersFollow, NoneSilent
  <2> QED  BY <2>2, <2>3, <2>4 DEF LogInv
<1>5. ASSUME NEW f \in Frames, f = Head(socketQueue),
             NEW r \in Records, r.number = f.number, r.id = f.id, r.at = logTime',
             f.drops = 0, Len(ring) < Capacity \/ retainLatest,
             heardAt' = [heardAt EXCEPT ![f.id] = logTime'],
             Keep(r), ingested' = Append(ingested, r), logger' = logger
      PROVE  LogInv'
  <2>1. RingHolds' /\ ring' \in Seq(Records) /\ oldest' \in Nat /\ evicted' \in Nat
    BY <1>0, <1>1, <1>5, KeepHolds
  <2>2. /\ ingested' \in Seq(Records) /\ Len(ingested') = Len(ingested) + 1
        /\ \A i \in 1 .. Len(ingested) : ingested'[i] = ingested[i]
        /\ ingested'[Len(ingested) + 1] = r
    BY <1>0, <1>5 DEF LogTypes
  <2>3. /\ f.id \in ResponseIds /\ heardAt' \in [ResponseIds -> Nat]
        /\ heardAt'[f.id] = logTime'
        /\ \A id \in ResponseIds : id # f.id => heardAt'[id] = heardAt[id]
    BY <1>0, <1>3, <1>5 DEF LogTypes, Frames
  <2>4. LogTypes'
    BY <1>0, <1>1, <1>2, <1>3, <1>5, <2>1, <2>2, <2>3 DEF LogTypes
  <2>5. NumbersFollow'
    <3>1. /\ \A i \in 1 .. Len(ingested) : ingested[i].number = i
          /\ dropped = 0 => sentFrames = Len(ingested) + Len(socketQueue)
          /\ \A i \in 1 .. Len(socketQueue) :
               socketQueue[i].drops = 0 => socketQueue[i].number = Len(ingested) + i
      BY <1>0, <1>1 DEF NumbersFollow
    <3>2. r.number = Len(ingested) + 1
      BY <1>2, <1>5, <3>1
    <3>3. \A i \in 1 .. Len(ingested') : ingested'[i].number = i
      <4> SUFFICES ASSUME NEW i \in 1 .. Len(ingested) + 1  PROVE ingested'[i].number = i
        BY <2>2
      <4>1. CASE i \in 1 .. Len(ingested)  BY <2>2, <3>1, <4>1
      <4>2. CASE i = Len(ingested) + 1  BY <2>2, <3>2, <4>2
      <4> QED  BY <1>2, <4>1, <4>2
    <3>4. dropped = 0 => sentFrames = Len(ingested') + Len(socketQueue')
      BY <1>2, <2>2, <3>1
    <3>5. ASSUME NEW i \in 1 .. Len(socketQueue'), socketQueue'[i].drops = 0
          PROVE  socketQueue'[i].number = Len(ingested') + i
      <4>1. i + 1 \in 1 .. Len(socketQueue) /\ socketQueue'[i] = socketQueue[i + 1]
        BY <1>2
      <4>2. socketQueue[i + 1].number = Len(ingested) + (i + 1)
        BY <3>1, <3>5, <4>1
      <4> QED  BY <1>2, <2>2, <4>1, <4>2
    <3> QED  BY <1>1, <3>3, <3>4, <3>5 DEF NumbersFollow
  <2>6. HeardIsLast'
    <3> SUFFICES ASSUME NEW id \in ResponseIds
                 PROVE  \/ heardAt'[id] = 0 /\ \A i \in 1 .. Len(ingested') : ingested'[i].id # id
                        \/ \E i \in 1 .. Len(ingested') :
                             /\ ingested'[i].id = id /\ heardAt'[id] = ingested'[i].at
                             /\ \A k \in 1 .. Len(ingested') : ingested'[k].id = id => k <= i
      BY DEF HeardIsLast
    <3>1. CASE id = f.id
      <4>1. /\ ingested'[Len(ingested) + 1].id = id
            /\ heardAt'[id] = ingested'[Len(ingested) + 1].at
            /\ Len(ingested) + 1 \in 1 .. Len(ingested')
            /\ \A k \in 1 .. Len(ingested') : k <= Len(ingested) + 1
        BY <1>2, <1>5, <2>2, <2>3, <3>1
      <4> QED  BY <4>1
    <3>2. CASE id # f.id
      <4>1. heardAt'[id] = heardAt[id] /\ ingested'[Len(ingested) + 1].id # id
        BY <1>5, <2>2, <2>3, <3>2
      <4>2. \A k \in 1 .. Len(ingested') : ingested'[k].id = id =>
              k \in 1 .. Len(ingested) /\ ingested[k].id = id
        <5> SUFFICES ASSUME NEW k \in 1 .. Len(ingested) + 1, ingested'[k].id = id
                     PROVE  k \in 1 .. Len(ingested) /\ ingested[k].id = id
          BY <2>2
        <5>1. k # Len(ingested) + 1
          BY <4>1
        <5>2. k \in 1 .. Len(ingested)
          BY <1>2, <5>1
        <5> QED  BY <2>2, <5>2
      <4>3. CASE heardAt[id] = 0 /\ \A i \in 1 .. Len(ingested) : ingested[i].id # id
        BY <4>1, <4>2, <4>3
      <4>4. CASE \E i \in 1 .. Len(ingested) :
                   /\ ingested[i].id = id /\ heardAt[id] = ingested[i].at
                   /\ \A k \in 1 .. Len(ingested) : ingested[k].id = id => k <= i
        <5>1. PICK i \in 1 .. Len(ingested) :
                   /\ ingested[i].id = id /\ heardAt[id] = ingested[i].at
                   /\ \A k \in 1 .. Len(ingested) : ingested[k].id = id => k <= i
          BY <4>4
        <5>2. i \in 1 .. Len(ingested') /\ ingested'[i] = ingested[i]
          BY <1>2, <2>2
        <5> QED  BY <4>1, <4>2, <5>1, <5>2
      <4> QED  BY <1>0, <4>3, <4>4 DEF HeardIsLast
    <3> QED  BY <3>1, <3>2
  <2>7. NoneSilent'
    <3>1. \A id \in ResponseIds : checkedAt - Since(id) <= LogTimeout
      BY <1>0, <1>1 DEF NoneSilent
    <3>2. ASSUME NEW id \in ResponseIds
          PROVE  checkedAt' - Since(id)' <= LogTimeout
      <4>1. CASE id = f.id
        <5>1. Since(id)' = logTime'
          BY <1>3, <2>3, <4>1 DEF Since
        <5> QED  BY <1>0, <1>1, <1>3, <5>1
      <4>2. CASE id # f.id
        <5>1. Since(id)' = Since(id)
          BY <1>1, <2>3, <4>2 DEF Since
        <5> QED  BY <1>1, <3>1, <5>1
      <4> QED  BY <4>1, <4>2
    <3> QED  BY <3>2 DEF NoneSilent
  <2> QED  BY <2>1, <2>4, <2>5, <2>6, <2>7 DEF LogInv
<1>6. CASE ~(Fails /\ UNCHANGED <<ring, oldest, evicted, heardAt, ingested, inBurst>>)
  <2> DEFINE f == Head(socketQueue)
             r == [number |-> f.number, id |-> f.id, at |-> logTime']
  <2>1. /\ ~(f.drops # 0 \/ logTime' - f.kernel > LogTimeout
               \/ (Len(ring) >= Capacity /\ ~retainLatest))
        /\ heardAt' = [heardAt EXCEPT ![f.id] = logTime']
        /\ Keep(r) /\ ingested' = Append(ingested, r) /\ logger' = logger
    BY <1>6 DEF IngestFrame
  <2>2. Len(ring) < Capacity \/ retainLatest
    BY <1>0, <2>1, LogAssumption DEF LogTypes
  <2>3. ASSUME NEW n \in Nat, NEW id \in ResponseIds, NEW t \in Nat \ {0}
        PROVE  [number |-> n, id |-> id, at |-> t] \in Records
    BY DEF Records
  <2>4. f \in Frames /\ f.number \in Nat /\ f.id \in ResponseIds
    BY <1>2 DEF Frames
  <2>5. r \in Records
    BY <1>3, <2>3, <2>4
  <2>6. r.number = f.number /\ r.id = f.id /\ r.at = logTime'
    OBVIOUS
  <2> HIDE DEF r
  <2> QED  BY <1>5, <2>1, <2>2, <2>4, <2>5, <2>6
<1> QED  BY <1>4, <1>6

(* A check that passes has heard of every motor within the timeout.          *)
LEMMA CheckSteps ==
  ASSUME LogInv, UNCHANGED <<logTime, socketQueue, sentFrames, dropped, retainLatest, bufferVars>>,
         \/ checkedAt' = checkedAt /\ logger \in {"reading", "stopped"} /\ logger' # "reading"
         \/ checkedAt' = checkedAt /\ logger' = logger
         \/ checkedAt' = checkedAt /\ logger' = "failed"
         \/ /\ checkedAt' = logTime /\ (logger' = "failed" \/ logger # "failed")
            /\ logger' # "failed" => \A id \in ResponseIds : ~Silent(id),
         logger' \in {"reading", "failed", "stopped"}
  PROVE  LogInv'
<1>0. LogTypes /\ NumbersFollow /\ NoneSilent /\ LogTimeout \in Nat
  BY LogAssumption DEF LogInv
<1>1. RingHolds' /\ HeardIsLast'
  BY BufferUntouched
<1>2. UNCHANGED <<ring, oldest, evicted, heardAt, openedAt, ingested>>
  BY DEF bufferVars
<1>3. logger' # "failed" => logger # "failed"
  OBVIOUS
<1>4. LogTypes'
  BY <1>0, <1>2 DEF LogTypes
<1>5. NumbersFollow'
  BY <1>0, <1>2, <1>3 DEF NumbersFollow
<1>6. NoneSilent'
  <2> SUFFICES ASSUME logger' # "failed", NEW id \in ResponseIds
               PROVE  checkedAt' - Since(id) <= LogTimeout
    BY <1>2 DEF NoneSilent, Since
  <2>1. CASE checkedAt' = checkedAt
    BY <1>0, <1>3, <2>1 DEF NoneSilent
  <2>2. CASE checkedAt' # checkedAt
    <3>1. checkedAt' = logTime /\ ~(logTime - Since(id) > LogTimeout)
      BY <2>2 DEF Silent, Since
    <3>2. Since(id) \in Nat /\ logTime \in Nat
      BY <1>0 DEF LogTypes, Since
    <3> QED  BY <1>0, <3>1, <3>2
  <2> QED  BY <2>1, <2>2
<1> QED  BY <1>1, <1>4, <1>5, <1>6 DEF LogInv

(* The steps of the log's thread, of the kernel's queue, and finish.         *)
LEMMA LogStep == LogInv /\ [LogNext]_logVars => LogInv'
<1> SUFFICES ASSUME LogInv, [LogNext]_logVars  PROVE LogInv'
  OBVIOUS
<1>0. LogTypes
  BY DEF LogInv
<1>1. CASE LogTick
  <2>1. /\ UNCHANGED <<socketQueue, sentFrames, dropped, retainLatest, bufferVars, checkedAt,
                       logger>>
        /\ logTime' = logTime + 1
    BY <1>1 DEF LogTick
  <2>2. RingHolds' /\ HeardIsLast'
    BY <2>1, BufferUntouched
  <2>3. UNCHANGED <<ring, oldest, evicted, heardAt, openedAt, ingested>>
    BY <2>1 DEF bufferVars
  <2>4. LogTypes'
    BY <1>0, <2>1, <2>3 DEF LogTypes
  <2>5. NumbersFollow' /\ NoneSilent'
    BY <2>1, <2>3 DEF LogInv, NumbersFollow, NoneSilent, Since
  <2> QED  BY <2>2, <2>4, <2>5 DEF LogInv
<1>2. CASE IngestFrame
  BY <1>2, IngestStep
<1>3. CASE CheckBuffer
  <2>1. /\ UNCHANGED <<logTime, socketQueue, sentFrames, dropped, retainLatest, bufferVars>>
        /\ logger = "reading" /\ checkedAt' = logTime
        /\ IF \E id \in ResponseIds : Silent(id) THEN Fails ELSE UNCHANGED logger
    BY <1>3 DEF CheckBuffer
  <2>2. logger' \in {"reading", "failed"}
    BY <2>1 DEF Fails
  <2>3. logger' # "failed" => \A id \in ResponseIds : ~Silent(id)
    BY <2>1 DEF Fails
  <2> QED  BY <2>1, <2>2, <2>3, CheckSteps
<1>4. ASSUME NEW id \in ResponseIds, FrameComes(id)
      PROVE  LogInv'
  BY <1>4, FrameComesStep
<1>5. ASSUME NEW succeeded \in BOOLEAN, NEW checks \in BOOLEAN, FinishLog(succeeded, checks)
      PROVE  LogInv'
  <2>1. /\ UNCHANGED <<logTime, socketQueue, sentFrames, dropped, retainLatest, bufferVars>>
        /\ checks => logger = "reading"
        /\ checkedAt' = IF checks THEN logTime ELSE checkedAt
        /\ IF logger = "failed" \/ (checks /\ \E id \in ResponseIds : Silent(id))
           THEN Fails ELSE logger' = "stopped"
    BY <1>5 DEF FinishLog
  <2>2. logger' \in {"failed", "stopped"} /\ logger \in {"reading", "failed", "stopped"}
    BY <1>0, <2>1 DEF Fails, LogTypes
  <2>3. CASE checks
    <3>1. logger' # "failed" => \A id \in ResponseIds : ~Silent(id)
      BY <2>1, <2>3 DEF Fails
    <3> QED  BY <2>1, <2>2, <2>3, <3>1, CheckSteps
  <2>4. CASE ~checks
    <3>1. checkedAt' = checkedAt /\ (logger = "failed" => logger' = "failed")
      BY <2>1, <2>4 DEF Fails
    <3> QED  BY <2>1, <2>2, <3>1, CheckSteps
  <2> QED  BY <2>3, <2>4
<1>6. CASE UNCHANGED logVars
  <2>1. UNCHANGED <<logTime, socketQueue, sentFrames, dropped, retainLatest, bufferVars>>
        /\ checkedAt' = checkedAt /\ logger' = logger
    BY <1>6 DEF logVars, bufferVars
  <2> QED  BY <1>0, <2>1, CheckSteps DEF LogTypes
<1> QED  BY <1>1, <1>2, <1>3, <1>4, <1>5, <1>6 DEF LogNext

(* The invariant of the log: the ring around its oldest place is the end of  *)
(* what was ingested.                                                        *)
THEOREM LogInvariant == LogSpec => []LogInv
<1> QED  BY LogInitInv, LogStep, PTL DEF LogSpec

(* last_ of a motor is the arrival of the last of its frames.                *)
LEMMA LastHeardIs ==
  ASSUME LogInv, NEW id \in ResponseIds
  PROVE  LastHeard(id) = Since(id)
<1> DEFINE I == {i \in 1 .. Len(ingested) : ingested[i].id = id}
<1>0. LogTypes /\ HeardIsLast /\ Len(ingested) \in Nat
  BY DEF LogInv, LogTypes
<1>1. LastHeard(id) = LET i == IF I # {} THEN Max(I) ELSE 0
                      IN IF i = 0 THEN openedAt ELSE ingested[i].at
  BY DEF LastHeard, SelectLastInSeq
<1>2. CASE heardAt[id] = 0 /\ \A i \in 1 .. Len(ingested) : ingested[i].id # id
  <2>1. I = {}
    BY <1>2
  <2> QED  BY <1>1, <1>2, <2>1 DEF Since
<1>3. CASE \E i \in 1 .. Len(ingested) :
             /\ ingested[i].id = id /\ heardAt[id] = ingested[i].at
             /\ \A k \in 1 .. Len(ingested) : ingested[k].id = id => k <= i
  <2>1. PICK i \in 1 .. Len(ingested) :
             /\ ingested[i].id = id /\ heardAt[id] = ingested[i].at
             /\ \A k \in 1 .. Len(ingested) : ingested[k].id = id => k <= i
    BY <1>3
  <2>2. I # {} /\ I \in SUBSET (1 .. Len(ingested)) /\ i \in I /\ \A k \in I : k <= i
    BY <2>1
  <2>3. Max(I) \in I /\ i <= Max(I)
    <3> HIDE DEF I
    <3> QED  BY <1>0, <2>2, MaxOf
  <2>4. Max(I) = i /\ i # 0
    <3>1. Max(I) <= i
      BY <2>2, <2>3
    <3>2. Max(I) \in Nat /\ i \in Nat
      BY <2>2, <2>3
    <3> QED  BY <2>3, <3>1, <3>2
  <2>5. ingested[i].at # 0
    <3>1. ingested[i] \in Records
      BY <1>0 DEF LogTypes
    <3> QED  BY <3>1 DEF Records
  <2> HIDE DEF I
  <2> QED  BY <1>1, <2>1, <2>2, <2>4, <2>5 DEF Since
<1> QED  BY <1>0, <1>2, <1>3 DEF HeardIsLast

(* chronological reads what was ingested after what was evicted.             *)
LEMMA ChronologicalIs ==
  ASSUME LogInv
  PROVE  /\ Chronological = SubSeq(ingested, evicted + 1, Len(ingested))
         /\ DOMAIN Chronological = 1 .. Len(ring) /\ Len(Chronological) = Len(ring)
         /\ \A i \in 1 .. Len(ring) : Chronological[i] = ingested[evicted + i]
<1>0. /\ LogTypes /\ RingHolds /\ Capacity \in Nat \ {0}
      /\ Len(ring) \in Nat /\ Len(ingested) \in Nat /\ oldest \in Nat /\ evicted \in Nat
  BY LogAssumption DEF LogInv, LogTypes
<1>1. Len(ingested) = evicted + Len(ring)
  BY <1>0 DEF RingHolds
<1>2. ASSUME NEW i \in 1 .. Len(ring)
      PROVE  ring[1 + ((oldest + i - 1) % Len(ring))] = ingested[evicted + i]
  <2>1. oldest < Len(ring) /\ Len(ring) \in Nat \ {0}
    BY <1>0 DEF RingHolds
  <2>2. PICK x \in Nat : x = oldest + i - 1
    BY <1>0
  <2>3. x % Len(ring) = IF x < Len(ring) THEN x ELSE x - Len(ring)
    <3>1. x < Len(ring) + Len(ring)
      BY <1>0, <2>1, <2>2
    <3> QED  BY <2>1, <3>1
  <2>4. 1 + (x % Len(ring)) = Place(oldest, i)
    BY <1>0, <2>1, <2>2, <2>3 DEF Place
  <2> QED  BY <1>0, <2>2, <2>4 DEF RingHolds
<1>3. /\ DOMAIN Chronological = 1 .. Len(ring)
      /\ \A i \in 1 .. Len(ring) : Chronological[i] = ingested[evicted + i]
  BY <1>2 DEF Chronological
<1>4. Chronological = [i \in 1 .. Len(ring) |-> ingested[evicted + i]]
  BY <1>2 DEF Chronological
<1>5. /\ SubSeq(ingested, evicted + 1, Len(ingested)) \in Seq(Records)
      /\ Len(SubSeq(ingested, evicted + 1, Len(ingested))) = Len(ring)
      /\ \A i \in 1 .. Len(ring) :
           SubSeq(ingested, evicted + 1, Len(ingested))[i] = ingested[evicted + i]
  <2>1. evicted + 1 \in Int /\ Len(ingested) \in Int
    BY <1>0
  <2>2. \A i \in (evicted + 1) .. Len(ingested) : ingested[i] \in Records
    BY <1>0 DEF LogTypes
  <2>3. /\ Len(ingested) - (evicted + 1) + 1 = Len(ring)
        /\ evicted + 1 <= Len(ingested) \/ Len(ring) = 0
        /\ \A i \in 1 .. Len(ring) : evicted + 1 + i - 1 = evicted + i
    BY <1>0, <1>1
  <2>4. /\ SubSeq(ingested, evicted + 1, Len(ingested)) \in Seq(Records)
        /\ Len(SubSeq(ingested, evicted + 1, Len(ingested))) =
             IF evicted + 1 <= Len(ingested) THEN Len(ingested) - (evicted + 1) + 1 ELSE 0
        /\ \A i \in 1 .. Len(ingested) - (evicted + 1) + 1 :
             SubSeq(ingested, evicted + 1, Len(ingested))[i] = ingested[evicted + 1 + i - 1]
    BY ONLY <2>1, <2>2, SubSeqProperties
  <2> QED  BY <2>3, <2>4
<1>6. SubSeq(ingested, evicted + 1, Len(ingested)) =
        [i \in 1 .. Len(ring) |-> ingested[evicted + i]]
  <2> DEFINE s == SubSeq(ingested, evicted + 1, Len(ingested))
  <2>1. s \in Seq(Records) /\ Len(s) = Len(ring)
        /\ \A i \in 1 .. Len(ring) : s[i] = ingested[evicted + i]
    BY <1>5
  <2> HIDE DEF s
  <2>2. s = [i \in 1 .. Len(s) |-> s[i]]
    BY <2>1
  <2>3. s = [i \in 1 .. Len(ring) |-> ingested[evicted + i]]
    BY <2>1, <2>2
  <2> QED  BY <2>3 DEF s
<1>7. Len(Chronological) = Len(ring)
  BY <1>4, <1>5, <1>6
<1> QED  BY <1>3, <1>4, <1>6, <1>7

(* What the log writes is an unbroken stretch of the bus and, while it has   *)
(* not failed, every motor was heard within the timeout when it last checked *)
(* (feedback_log_buffer.cpp, ingest, chronological and check).               *)
THEOREM LogIsUnbroken == LogSpec => []LogUnbroken
<1>1. ASSUME LogInv PROVE LogUnbroken
  <2>0. /\ LogTypes /\ RingHolds /\ NumbersFollow /\ NoneSilent
        /\ Len(ring) \in Nat /\ evicted \in Nat /\ Len(ingested) \in Nat
    BY <1>1 DEF LogInv, LogTypes
  <2>1. /\ Chronological = SubSeq(ingested, evicted + 1, Len(ingested))
        /\ DOMAIN Chronological = 1 .. Len(ring) /\ Len(Chronological) = Len(ring)
        /\ \A i \in 1 .. Len(ring) : Chronological[i] = ingested[evicted + i]
    BY <1>1, ChronologicalIs
  <2>2. Len(Chronological) <= Capacity /\ (~retainLatest => evicted = 0)
    BY <2>0, <2>1 DEF RingHolds
  <2>3. ASSUME NEW i \in 1 .. Len(ring), i > 1
        PROVE  Chronological[i].number = Chronological[i - 1].number + 1
    <3>1. /\ i - 1 \in 1 .. Len(ring) /\ evicted + i \in 1 .. Len(ingested)
          /\ evicted + (i - 1) \in 1 .. Len(ingested)
          /\ evicted + i = (evicted + (i - 1)) + 1
      BY <2>0, <2>3 DEF RingHolds
    <3>2. /\ Chronological[i] = ingested[evicted + i]
          /\ Chronological[i - 1] = ingested[evicted + (i - 1)]
      BY <2>1, <3>1
    <3>3. /\ ingested[evicted + i].number = evicted + i
          /\ ingested[evicted + (i - 1)].number = evicted + (i - 1)
      BY <2>0, <3>1 DEF NumbersFollow
    <3> QED  BY <3>1, <3>2, <3>3
  <2>4. logger # "failed" =>
          \A id \in ResponseIds : checkedAt - LastHeard(id) <= LogTimeout
    BY <1>1, <2>0, LastHeardIs DEF NoneSilent
  <2> QED  BY <2>1, <2>2, <2>3, <2>4 DEF LogUnbroken
<1> QED  BY <1>1, LogInvariant, PTL
=============================================================================
