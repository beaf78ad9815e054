------------------------ MODULE CommandSessionProofs ------------------------
(***************************************************************************)
(* Proofs about CommandSession for every set of lease names, every clock   *)
(* and every pair of timeouts: the inductive invariant, the order of       *)
(* accepted commands, and the refinement of CommandLease.                  *)
(***************************************************************************)
EXTENDS CommandSession, TLAPS

(* The inductive invariant: each named part needs NoResidue to know which    *)
(* fields are integers, and NoResidue needs the types.                       *)
SessionInv ==
  /\ TypeOK
  /\ NoResidue
  /\ EvidencePostdatesLease
  /\ NeitherTimerRefreshesTheOther
  /\ HoldBeforeMotion
  /\ OneCommandPerInstant

LEMMA MomentsAreNatural ==
  ASSUME SessionAssumption
  PROVE  Moments \subseteq Nat
<1>1. SUFFICES ASSUME NEW t \in Moments PROVE t \in Nat
  OBVIOUS
<1>2. t \in Int /\ t >= 0
  BY DEF Moments, SessionAssumption
<1> QED BY <1>2

(* Every recorded instant and sequence number is an integer, None included.  *)
LEMMA FieldsAreIntegers ==
  ASSUME SessionAssumption, TypeOK
  PROVE  /\ lastHeartbeat \in Int /\ lastAccepted \in Int /\ leaseAcquired \in Int
         /\ prevSequence \in Int /\ prevCommand \in Int
         /\ prevFbSequence \in Int /\ prevFeedback \in Int
<1>1. \A t \in Moments \cup {None} : t \in Int
  BY MomentsAreNatural DEF None
<1>2. \A n \in Sequences \cup {None} : n \in Int
  BY DEF None, SessionAssumption
<1> QED BY <1>1, <1>2 DEF TypeOK

(* Losing or giving up the lease by either exit restores the invariant.      *)
LEMMA ClearedSession ==
  ASSUME SessionAssumption, ClearCommandState,
         mode' \in {"disconnected", "read_only"}, releaseReason' \in Reasons
  PROVE  SessionInv'
<1>1. NoResidue'
  BY DEF ClearCommandState, NoResidue, None
<1>2. TypeOK'
  BY DEF ClearCommandState, TypeOK, None
<1>3. EvidencePostdatesLease' /\ HoldBeforeMotion' /\ OneCommandPerInstant'
  BY DEF ClearCommandState, EvidencePostdatesLease, HoldBeforeMotion, OneCommandPerInstant
<1>4. NeitherTimerRefreshesTheOther'
  BY DEF NeitherTimerRefreshesTheOther
<1> QED BY <1>1, <1>2, <1>3, <1>4 DEF SessionInv

LEMMA FailClosedKeepsInv ==
  ASSUME SessionAssumption, NEW reason \in Reasons, FailClosed(reason)
  PROVE  SessionInv'
BY ClearedSession DEF FailClosed

(* What the clock test of check_timeouts can answer.                         *)
LEMMA TimeoutReasonType ==
  ASSUME NEW now \in Int
  PROVE  TimeoutReason(now) \in Reasons
BY DEF TimeoutReason, Reasons

(* What it guarantees when it lets a call through.                           *)
LEMMA TimeoutReasonNone ==
  ASSUME SessionInv, SessionAssumption, mode = "command", NEW now \in Instants,
         TimeoutReason(now) = "none"
  PROVE  /\ now \in Moments
         /\ now >= lastHeartbeat /\ now >= lastAccepted
         /\ now - lastHeartbeat <= LivenessTimeout
         /\ now - lastAccepted <= InactivityTimeout
<1>1. now \in Int
  BY DEF SessionAssumption
<1>2. lastHeartbeat \in Int /\ lastAccepted \in Int
  BY FieldsAreIntegers DEF SessionInv
<1>3. ~(now < 0) /\ ~(now < lastHeartbeat \/ now < lastAccepted)
      /\ ~(now - lastHeartbeat > LivenessTimeout)
      /\ ~(now - lastAccepted > InactivityTimeout)
  BY DEF TimeoutReason
<1> QED BY <1>1, <1>2, <1>3 DEF Moments, SessionAssumption

LEMMA InitInv ==
  ASSUME SessionAssumption, Init
  PROVE  SessionInv
<1>1. TypeOK
  BY DEF Init, TypeOK, None, Reasons
<1>2. NoResidue
  BY DEF Init, NoResidue, None
<1>3. EvidencePostdatesLease /\ HoldBeforeMotion /\ OneCommandPerInstant
  BY DEF Init, EvidencePostdatesLease, HoldBeforeMotion, OneCommandPerInstant
<1>4. NeitherTimerRefreshesTheOther
  BY DEF Init, NeitherTimerRefreshesTheOther
<1> QED BY <1>1, <1>2, <1>3, <1>4 DEF SessionInv

LEMMA AcquireKeepsInv ==
  ASSUME SessionAssumption, SessionInv,
         NEW lease \in LeaseIds, NEW measured \in Samples, NEW now \in Moments,
         AcquireCommand(lease, measured, now)
  PROVE  SessionInv'
<1>1. now \in Int /\ now >= 0 /\ measured.ns \in Moments /\ measured.sequence \in Sequences
  BY DEF SessionAssumption, Moments, Samples
<1>2. TypeOK'
  BY <1>1 DEF AcquireCommand, SessionInv, TypeOK, Reasons
<1>3. NoResidue'
  BY <1>1 DEF AcquireCommand, NoResidue, None, SessionAssumption, Moments
<1>4. EvidencePostdatesLease' /\ HoldBeforeMotion' /\ OneCommandPerInstant'
  BY DEF AcquireCommand, EvidencePostdatesLease, HoldBeforeMotion, OneCommandPerInstant
<1>5. NeitherTimerRefreshesTheOther'
  BY <1>1 DEF AcquireCommand, NeitherTimerRefreshesTheOther, SessionAssumption
<1> QED BY <1>2, <1>3, <1>4, <1>5 DEF SessionInv

LEMMA HeartbeatKeepsInv ==
  ASSUME SessionAssumption, SessionInv,
         NEW lease \in LeaseIds, NEW now \in Instants, Heartbeat(lease, now)
  PROVE  SessionInv'
<1>0. mode = "command" /\ now \in Int
  BY DEF Heartbeat, SessionAssumption
<1>1. CASE lease # leaseId
  BY <1>1, FailClosedKeepsInv DEF Heartbeat, Reasons
<1>2. CASE lease = leaseId /\ TimeoutReason(now) # "none"
  BY <1>0, <1>2, FailClosedKeepsInv, TimeoutReasonType DEF Heartbeat
<1>3. CASE lease = leaseId /\ TimeoutReason(now) = "none"
  <2>1. /\ lastHeartbeat' = now
        /\ UNCHANGED <<mode, leaseId, lastAccepted, prevSequence, prevCommand,
                       prevFbSequence, prevFeedback, leaseAcquired, releaseReason, held>>
    BY <1>3 DEF Heartbeat
  <2>2. /\ now \in Moments /\ now >= lastHeartbeat
        /\ now - lastAccepted <= InactivityTimeout
    BY <1>0, <1>3, TimeoutReasonNone
  <2>3. lastHeartbeat \in Int /\ lastAccepted \in Int /\ leaseAcquired \in Int
    BY FieldsAreIntegers DEF SessionInv
  <2>4. TypeOK'
    BY <2>1, <2>2 DEF SessionInv, TypeOK
  <2>5. NoResidue'
    BY <1>0, <2>1, <2>2 DEF SessionInv, NoResidue, Moments, None
  <2>6. EvidencePostdatesLease' /\ HoldBeforeMotion' /\ OneCommandPerInstant'
    BY <2>1 DEF SessionInv, EvidencePostdatesLease, HoldBeforeMotion, OneCommandPerInstant
  <2>7. NeitherTimerRefreshesTheOther'
    BY <1>0, <2>1, <2>2, <2>3
    DEF SessionInv, NeitherTimerRefreshesTheOther, SessionAssumption
  <2> QED BY <2>4, <2>5, <2>6, <2>7 DEF SessionInv
<1> QED BY <1>1, <1>2, <1>3

(* What an accepted command has been checked against: the facts shared by    *)
(* the invariant, the order property and the refinement.                     *)
LEMMA AcceptedFacts ==
  ASSUME SessionAssumption, SessionInv, mode = "command",
         NEW cmd \in Commands, NEW fb \in Samples, NEW holds \in BOOLEAN,
         NEW now \in Instants,
         TimeoutReason(now) = "none", Acceptable(cmd, fb, holds, now)
  PROVE  /\ cmd.ns \in Moments /\ fb.ns \in Moments /\ now \in Moments
         /\ cmd.sequence \in Sequences /\ fb.sequence \in Sequences
         /\ cmd.sequence = prevSequence + 1
         /\ cmd.ns > prevCommand /\ fb.ns > prevFeedback
         /\ fb.sequence > prevFbSequence
         /\ leaseAcquired < cmd.ns /\ leaseAcquired < fb.ns
         /\ cmd.ns <= now /\ fb.ns <= now
<1>1. /\ cmd.ns \in Moments /\ fb.ns \in Moments
      /\ cmd.sequence \in Sequences /\ fb.sequence \in Sequences
  BY DEF Commands, Samples
<1>2. now \in Moments
  BY TimeoutReasonNone
<1>3. /\ cmd.ns \in Int /\ cmd.ns >= 0 /\ fb.ns \in Int /\ now \in Int
      /\ prevCommand \in Int /\ prevFeedback \in Int /\ leaseAcquired \in Int
  <2>1. \A t \in Moments : t \in Int /\ t >= 0
    BY MomentsAreNatural
  <2>2. prevCommand \in Int /\ prevFeedback \in Int /\ leaseAcquired \in Int
    BY FieldsAreIntegers DEF SessionInv
  <2> QED BY <1>1, <1>2, <2>1, <2>2
<1>4. /\ cmd.sequence = prevSequence + 1
      /\ prevCommand # None => cmd.ns > prevCommand
      /\ cmd.ns <= now /\ fb.ns <= now
      /\ fb.ns > prevFeedback /\ fb.sequence > prevFbSequence
  BY DEF Acceptable, CommandInOrder, FeedbackFresh
<1>5. cmd.ns > prevCommand
  BY <1>3, <1>4 DEF None
<1>6. CASE prevSequence = None
  <2>1. fb.ns > leaseAcquired /\ cmd.ns >= fb.ns
    BY <1>6 DEF Acceptable, FirstCommandAllowed
  <2> QED BY <1>1, <1>2, <1>3, <1>4, <1>5, <2>1
<1>7. CASE prevSequence # None
  <2>1. prevCommand # None
    BY <1>7 DEF SessionInv, NoResidue
  <2>2. leaseAcquired < prevFeedback /\ leaseAcquired < prevCommand
    BY <2>1 DEF SessionInv, EvidencePostdatesLease
  <2> QED BY <1>1, <1>2, <1>3, <1>4, <1>5, <2>2
<1> QED BY <1>6, <1>7

LEMMA AcceptKeepsInv ==
  ASSUME SessionAssumption, SessionInv,
         NEW cmd \in Commands, NEW fb \in Samples, NEW holds \in BOOLEAN,
         NEW now \in Instants, Accept(cmd, fb, holds, now)
  PROVE  SessionInv'
<1>0. mode = "command" /\ now \in Int
  BY DEF Accept, SessionAssumption
<1>1. CASE cmd.lease # leaseId
  BY <1>1, FailClosedKeepsInv DEF Accept, Reasons
<1>2. CASE cmd.lease = leaseId /\ TimeoutReason(now) # "none"
  BY <1>0, <1>2, FailClosedKeepsInv, TimeoutReasonType DEF Accept
<1>3. CASE /\ cmd.lease = leaseId /\ TimeoutReason(now) = "none"
           /\ ~Acceptable(cmd, fb, holds, now)
  BY <1>3, FailClosedKeepsInv DEF Accept, Reasons
<1>4. CASE /\ cmd.lease = leaseId /\ TimeoutReason(now) = "none"
           /\ Acceptable(cmd, fb, holds, now)
  <2>1. /\ prevSequence' = cmd.sequence /\ prevCommand' = cmd.ns
        /\ prevFbSequence' = fb.sequence /\ prevFeedback' = fb.ns
        /\ lastAccepted' = now
        /\ held' = (held \/ (prevSequence = None /\ holds))
        /\ UNCHANGED <<mode, leaseId, lastHeartbeat, leaseAcquired, releaseReason>>
    BY <1>4 DEF Accept
  <2>2. /\ cmd.ns \in Moments /\ fb.ns \in Moments /\ now \in Moments
        /\ cmd.sequence \in Sequences /\ fb.sequence \in Sequences
        /\ cmd.sequence = prevSequence + 1
        /\ cmd.ns > prevCommand /\ fb.ns > prevFeedback
        /\ leaseAcquired < cmd.ns /\ leaseAcquired < fb.ns
        /\ cmd.ns <= now /\ fb.ns <= now
    BY <1>0, <1>4, AcceptedFacts
  <2>3. now >= lastAccepted /\ now - lastHeartbeat <= LivenessTimeout
    BY <1>0, <1>4, TimeoutReasonNone
  <2>4. /\ lastHeartbeat \in Int /\ lastAccepted \in Int /\ leaseAcquired \in Int
        /\ prevSequence \in Int /\ prevCommand \in Int /\ cmd.ns \in Nat
    BY <2>2, FieldsAreIntegers, MomentsAreNatural DEF SessionInv
  <2>5. TypeOK'
    BY <2>1, <2>2 DEF SessionInv, TypeOK
  <2>6. NoResidue'
    BY <1>0, <2>1, <2>2 DEF SessionInv, NoResidue, Moments, None, SessionAssumption
  <2>7. EvidencePostdatesLease'
    BY <2>1, <2>2 DEF EvidencePostdatesLease
  <2>8. NeitherTimerRefreshesTheOther'
    BY <1>0, <2>1, <2>3, <2>4
    DEF SessionInv, NeitherTimerRefreshesTheOther, SessionAssumption
  <2>9. HoldBeforeMotion'
    <3>1. CASE prevSequence = None
      BY <1>4, <2>1, <3>1 DEF Acceptable, FirstCommandAllowed, HoldBeforeMotion
    <3>2. CASE prevSequence # None
      BY <2>1, <3>2 DEF SessionInv, HoldBeforeMotion
    <3> QED BY <3>1, <3>2
  <2>10. OneCommandPerInstant'
    <3>1. CASE prevCommand = None
      <4>1. prevSequence = None
        BY <1>0, <3>1 DEF SessionInv, NoResidue
      <4> QED BY <2>1, <2>2, <2>4, <4>1 DEF OneCommandPerInstant, None
    <3>2. CASE prevCommand # None
      <4>1. prevSequence < prevCommand - leaseAcquired
        BY <3>2 DEF SessionInv, OneCommandPerInstant
      <4>2. cmd.sequence < cmd.ns - leaseAcquired
        BY <2>2, <2>4, <4>1
      <4> QED BY <2>1, <4>2 DEF OneCommandPerInstant
    <3> QED BY <3>1, <3>2
  <2> QED BY <2>5, <2>6, <2>7, <2>8, <2>9, <2>10 DEF SessionInv
<1> QED BY <1>1, <1>2, <1>3, <1>4

LEMMA UnchangedKeepsInv ==
  ASSUME SessionInv, UNCHANGED vars
  PROVE  SessionInv'
BY DEF vars, tenure, SessionInv, TypeOK, NoResidue, EvidencePostdatesLease,
       NeitherTimerRefreshesTheOther, HoldBeforeMotion, OneCommandPerInstant

(* One step of the session, whichever operation it is.                       *)
LEMMA StepKeepsInv ==
  ASSUME SessionAssumption, SessionInv, [Next]_vars
  PROVE  SessionInv'
<1>1. CASE ConnectReadOnly
  <2>1. TypeOK'
    BY <1>1 DEF ConnectReadOnly, tenure, SessionInv, TypeOK, Reasons
  <2>2. NoResidue' /\ NeitherTimerRefreshesTheOther'
    BY <1>1 DEF ConnectReadOnly, tenure, SessionInv, NoResidue, NeitherTimerRefreshesTheOther
  <2>3. EvidencePostdatesLease' /\ HoldBeforeMotion' /\ OneCommandPerInstant'
    BY <1>1 DEF ConnectReadOnly, tenure, SessionInv, EvidencePostdatesLease,
                HoldBeforeMotion, OneCommandPerInstant
  <2> QED BY <2>1, <2>2, <2>3 DEF SessionInv
<1>2. CASE Disconnect
  BY <1>2, ClearedSession DEF Disconnect, SessionInv, TypeOK
<1>3. ASSUME NEW lease \in LeaseIds, NEW measured \in Samples, NEW now \in Moments,
             AcquireCommand(lease, measured, now)
      PROVE  SessionInv'
  BY <1>3, AcquireKeepsInv
<1>4. ASSUME NEW lease \in LeaseIds, NEW now \in Instants, Heartbeat(lease, now)
      PROVE  SessionInv'
  BY <1>4, HeartbeatKeepsInv
<1>5. ASSUME NEW cmd \in Commands, NEW fb \in Samples, NEW holds \in BOOLEAN,
             NEW now \in Instants, Accept(cmd, fb, holds, now)
      PROVE  SessionInv'
  BY <1>5, AcceptKeepsInv
<1>6. ASSUME NEW lease \in LeaseIds, NEW now \in Instants, AcceptMalformed(lease, now)
      PROVE  SessionInv'
  <2>1. PICK reason \in Reasons : FailClosed(reason)
    BY <1>6, TimeoutReasonType DEF AcceptMalformed, Reasons, SessionAssumption
  <2> QED BY <2>1, FailClosedKeepsInv
<1>7. ASSUME NEW lease \in LeaseIds, Release(lease)
      PROVE  SessionInv'
  BY <1>7, FailClosedKeepsInv DEF Release, Reasons
<1>8. ASSUME NEW now \in Instants, CheckTimeouts(now)
      PROVE  SessionInv'
  BY <1>8, FailClosedKeepsInv, TimeoutReasonType DEF CheckTimeouts, SessionAssumption
<1>9. CASE UNCHANGED vars
  BY <1>9, UnchangedKeepsInv
<1> QED BY <1>1, <1>2, <1>3, <1>4, <1>5, <1>6, <1>7, <1>8, <1>9 DEF Next

(* The inductive invariant holds in every reachable state.                   *)
THEOREM SessionInvariant == Spec => []SessionInv
<1> USE SessionAssumption
<1>1. Init => SessionInv
  BY InitInv
<1>2. SessionInv /\ [Next]_vars => SessionInv'
  BY StepKeepsInv
<1> QED BY <1>1, <1>2, PTL DEF Spec

(* Type correctness of the session for every lease set, clock and policy.    *)
THEOREM TypeCorrect == Spec => []TypeOK
BY SessionInvariant, PTL DEF SessionInv

(* For every policy: a lease leaves no residue, every tenure holds a pose    *)
(* measured after its acquisition before it moves, neither traffic refreshes *)
(* the other's timer, and no backlog is flushed in an instant.               *)
THEOREM LeaseSafety ==
  Spec => [](NoResidue /\ TenureStartsAfresh /\ NeitherTimerRefreshesTheOther
             /\ OneCommandPerInstant)
<1>1. SessionInv => NoResidue /\ TenureStartsAfresh /\ NeitherTimerRefreshesTheOther
                      /\ OneCommandPerInstant
  BY DEF SessionInv, TenureStartsAfresh
<1> QED BY <1>1, SessionInvariant, PTL

(* Accepted commands are contiguous, each judged against strictly newer      *)
(* feedback and inside both timeouts, neither of which the other's traffic   *)
(* refreshes, for every policy.                                              *)
THEOREM CommandsAcceptedInOrder == Spec => AcceptedInOrder
<1> USE SessionAssumption
<1>1. ASSUME SessionInv, Next PROVE Accepted
  <2>1. CASE prevSequence' \in {prevSequence, None}
    BY <2>1 DEF Accepted
  <2>2. CASE prevSequence' \notin {prevSequence, None}
    <3>1. PICK cmd \in Commands, fb \in Samples, holds \in BOOLEAN, now \in Instants :
            Accept(cmd, fb, holds, now)
      BY <1>1, <2>2 DEF Next, ConnectReadOnly, Disconnect, AcquireCommand, Heartbeat,
         AcceptMalformed, Release, CheckTimeouts, FailClosed, ClearCommandState, tenure
    <3>2. /\ mode = "command" /\ TimeoutReason(now) = "none"
          /\ Acceptable(cmd, fb, holds, now)
          /\ prevSequence' = cmd.sequence /\ prevCommand' = cmd.ns
          /\ prevFbSequence' = fb.sequence /\ prevFeedback' = fb.ns
          /\ lastAccepted' = now /\ leaseId' = leaseId
      BY <2>2, <3>1 DEF Accept, FailClosed, ClearCommandState
    <3>3. /\ cmd.sequence = prevSequence + 1
          /\ cmd.ns > prevCommand /\ fb.ns > prevFeedback
          /\ fb.sequence > prevFbSequence
      BY <1>1, <3>2, AcceptedFacts
    <3>4. /\ now \in Moments
          /\ now >= lastHeartbeat /\ now >= lastAccepted
          /\ now - lastHeartbeat <= LivenessTimeout
          /\ now - lastAccepted <= InactivityTimeout
      BY <1>1, <3>2, TimeoutReasonNone
    <3>5. now \in Int /\ lastHeartbeat \in Int /\ lastAccepted \in Int
          /\ LivenessTimeout \in Int /\ InactivityTimeout \in Int
      BY <1>1, FieldsAreIntegers DEF SessionInv, SessionAssumption
    <3> QED BY <3>2, <3>3, <3>4, <3>5 DEF Accepted
  <2> QED BY <2>1, <2>2
<1>2. ASSUME Next PROVE OneTimer
  <2> USE DEF OneTimer, FailClosed, ClearCommandState, tenure
  <2>1. ASSUME NEW lease \in LeaseIds, NEW now \in Instants, Heartbeat(lease, now)
        PROVE  OneTimer
    BY <2>1 DEF Heartbeat
  <2>2. ASSUME NEW cmd \in Commands, NEW fb \in Samples, NEW holds \in BOOLEAN,
               NEW now \in Instants, Accept(cmd, fb, holds, now)
        PROVE  OneTimer
    BY <2>2 DEF Accept
  <2>3. ASSUME NEW lease \in LeaseIds, NEW measured \in Samples, NEW now \in Moments,
               AcquireCommand(lease, measured, now)
        PROVE  OneTimer
    BY <2>3 DEF AcquireCommand
  <2>4. ASSUME \/ ConnectReadOnly \/ Disconnect
               \/ \E lease \in LeaseIds, now \in Instants : AcceptMalformed(lease, now)
               \/ \E lease \in LeaseIds : Release(lease)
               \/ \E now \in Instants : CheckTimeouts(now)
        PROVE  OneTimer
    BY <2>4 DEF ConnectReadOnly, Disconnect, AcceptMalformed, Release, CheckTimeouts
  <2> QED BY <1>2, <2>1, <2>2, <2>3, <2>4 DEF Next
<1>3. SessionInv /\ [Next]_vars => [Accepted /\ OneTimer]_vars
  BY <1>1, <1>2
<1> QED BY <1>3, SessionInvariant, PTL DEF Spec, AcceptedInOrder

(* The session implements CommandLease: every step is a grant, a command     *)
(* issued in order, a revocation, or invisible to the owner.                 *)
THEOREM SessionImplementsLease == Spec => ImplementsLease
<1> USE SessionAssumption
<1>1. Init => Lease!LeaseInit
  BY DEF Init, Lease!LeaseInit, None, Lease!None
<1>2. ASSUME SessionInv, [Next]_vars PROVE [Lease!LeaseNext]_(Lease!leaseVars)
  <2> DEFINE Horizon == IF prevCommand = None THEN leaseAcquired ELSE prevCommand
  <2> USE <1>2 DEF SessionInv
  <2>1. ASSUME NEW reason \in Reasons, FailClosed(reason) PROVE Lease!Revoke
    BY <2>1 DEF FailClosed, ClearCommandState, Lease!Revoke, NoResidue, None, Lease!None
  <2>2. CASE ConnectReadOnly
    BY <2>2 DEF ConnectReadOnly, tenure, Lease!leaseVars
  <2>3. CASE Disconnect
    <3>1. CASE mode = "command"
      BY <2>3, <3>1 DEF Disconnect, ClearCommandState, Lease!LeaseNext, Lease!Revoke,
                        NoResidue, None, Lease!None
    <3>2. CASE mode # "command"
      BY <2>3, <3>2 DEF Disconnect, ClearCommandState, Lease!leaseVars, NoResidue
    <3> QED BY <3>1, <3>2
  <2>4. ASSUME NEW lease \in LeaseIds, NEW measured \in Samples, NEW now \in Moments,
               AcquireCommand(lease, measured, now)
        PROVE  Lease!LeaseNext
    <3>1. Lease!Grant(lease)
      BY <2>4 DEF AcquireCommand, Lease!Grant, NoResidue, None, Moments
    <3> QED BY <3>1 DEF Lease!LeaseNext
  <2>5. ASSUME NEW lease \in LeaseIds, NEW now \in Instants, Heartbeat(lease, now)
        PROVE  [Lease!LeaseNext]_(Lease!leaseVars)
    <3>1. CASE TimeoutReason(now) = "none" /\ lease = leaseId
      BY <2>5, <3>1 DEF Heartbeat, Lease!leaseVars
    <3>2. CASE \E reason \in Reasons : FailClosed(reason)
      BY <3>2, <2>1 DEF Lease!LeaseNext
    <3> QED BY <2>5, <3>1, <3>2, TimeoutReasonType DEF Heartbeat, Reasons, SessionAssumption
  <2>6. ASSUME NEW cmd \in Commands, NEW fb \in Samples, NEW holds \in BOOLEAN,
               NEW now \in Instants, Accept(cmd, fb, holds, now)
        PROVE  Lease!LeaseNext
    <3>1. CASE \E reason \in Reasons : FailClosed(reason)
      BY <3>1, <2>1 DEF Lease!LeaseNext
    <3>2. CASE /\ cmd.lease = leaseId /\ TimeoutReason(now) = "none"
               /\ Acceptable(cmd, fb, holds, now)
      <4>1. /\ mode = "command" /\ leaseId' = leaseId /\ leaseAcquired' = leaseAcquired
            /\ prevSequence' = cmd.sequence /\ prevCommand' = cmd.ns
        BY <2>6, <3>2 DEF Accept
      <4>2. /\ cmd.ns \in Moments /\ cmd.sequence = prevSequence + 1
            /\ cmd.ns > prevCommand /\ leaseAcquired < cmd.ns
        BY <3>2, <4>1, AcceptedFacts
      <4>3. cmd.ns \in Nat /\ cmd.ns \in Instants
        BY <4>2, MomentsAreNatural DEF Moments
      <4>4. Horizon' = cmd.ns /\ cmd.ns > Horizon
        BY <4>1, <4>2, <4>3 DEF None
      <4>5. leaseId # NoLease
        BY <4>1 DEF NoResidue
      <4>6. Lease!Issue
        BY <4>1, <4>2, <4>3, <4>4, <4>5 DEF Lease!Issue
      <4> QED BY <4>6 DEF Lease!LeaseNext
    <3> QED BY <2>6, <3>1, <3>2, TimeoutReasonType DEF Accept, Reasons, SessionAssumption
  <2>7. ASSUME NEW lease \in LeaseIds, NEW now \in Instants, AcceptMalformed(lease, now)
        PROVE  Lease!LeaseNext
    <3>1. PICK reason \in Reasons : FailClosed(reason)
      BY <2>7, TimeoutReasonType DEF AcceptMalformed, Reasons, SessionAssumption
    <3> QED BY <3>1, <2>1 DEF Lease!LeaseNext
  <2>8. ASSUME NEW lease \in LeaseIds, Release(lease) PROVE Lease!LeaseNext
    BY <2>8, <2>1 DEF Release, Reasons, Lease!LeaseNext
  <2>9. ASSUME NEW now \in Instants, CheckTimeouts(now) PROVE Lease!LeaseNext
    BY <2>9, <2>1, TimeoutReasonType DEF CheckTimeouts, Lease!LeaseNext, SessionAssumption
  <2>10. CASE UNCHANGED vars
    BY <2>10 DEF vars, tenure, Lease!leaseVars
  <2> QED BY <2>2, <2>3, <2>4, <2>5, <2>6, <2>7, <2>8, <2>9, <2>10 DEF Next
<1> QED BY <1>1, <1>2, SessionInvariant, PTL DEF Spec, ImplementsLease, Lease!LeaseSpec
=============================================================================
