--------------------------- MODULE CommandSession ---------------------------
(***************************************************************************)
(* session.py: the reference state machine for exclusive command           *)
(* ownership, with the contract checks of contracts.py that decide its     *)
(* transitions.  The session owns no clock: every call brings its own      *)
(* now_ns, so calls of several clients arrive in any order and with any    *)
(* reading, a negative one standing for every value _require_time refuses. *)
(* A joint vector is abstracted to its metadata and to the one fact the    *)
(* code asks of two of them: whether the command holds the measured pose.  *)
(* Calls that raise without changing the session are stuttering steps.     *)
(***************************************************************************)
EXTENDS Integers

CONSTANTS LeaseIds,            \* lease names clients present
          NoLease,             \* lease_id is None
          Instants,            \* now_ns and sample instants
          Sequences,           \* command and feedback sequence numbers
          LivenessTimeout,     \* policy.liveness_timeout_ns
          InactivityTimeout,   \* policy.command_inactivity_timeout_ns
          CommandReady         \* policy.command_ready

ASSUME SessionAssumption ==
  /\ NoLease \notin LeaseIds
  /\ Instants \subseteq Int
  /\ Sequences \subseteq Nat
  /\ LivenessTimeout \in Nat \ {0}
  /\ InactivityTimeout \in Nat \ {0}
  /\ CommandReady \in BOOLEAN

VARIABLES mode,            \* SessionMode
          leaseId,         \* lease_id
          lastHeartbeat,   \* last_heartbeat_ns
          lastAccepted,    \* last_command_accepted_ns
          prevSequence,    \* previous_sequence
          prevCommand,     \* previous_command_monotonic_ns
          prevFbSequence,  \* _previous_feedback_sequence
          prevFeedback,    \* _previous_feedback_monotonic_ns
          leaseAcquired,   \* _lease_acquired_ns
          releaseReason,   \* release_reason
          held             \* history: this tenure's first command held the pose

tenure == <<lastHeartbeat, lastAccepted, prevSequence, prevCommand,
            prevFbSequence, prevFeedback, leaseAcquired, held>>
vars == <<mode, leaseId, tenure, releaseReason>>

None == -1
Moments == {t \in Instants : t >= 0}     \* what _require_time lets through

(* A NamedJointVector, and a CommandEnvelope; Malformed is any argument the *)
(* snapshot helpers refuse.                                                 *)
Samples  == [sequence : Sequences, ns : Moments]
Commands == [lease : LeaseIds, sequence : Sequences, ns : Moments]

Reasons == {"none", "requested", "invalid_release_reason", "lease_mismatch",
            "invalid_command", "invalid_session_time",
            "non_monotonic_session_time", "liveness_timeout",
            "command_inactivity_timeout"}
-----------------------------------------------------------------------------
Init ==
  /\ mode = "disconnected"
  /\ leaseId = NoLease
  /\ lastHeartbeat = None /\ lastAccepted = None
  /\ prevSequence = None /\ prevCommand = None
  /\ prevFbSequence = None /\ prevFeedback = None
  /\ leaseAcquired = None
  /\ releaseReason = "none"
  /\ held = FALSE

ClearCommandState ==
  /\ leaseId' = NoLease
  /\ lastHeartbeat' = None /\ lastAccepted' = None
  /\ prevSequence' = None /\ prevCommand' = None
  /\ prevFbSequence' = None /\ prevFeedback' = None
  /\ leaseAcquired' = None
  /\ held' = FALSE

FailClosed(reason) ==
  /\ mode = "command"
  /\ mode' = "read_only"
  /\ releaseReason' = reason
  /\ ClearCommandState

(* check_timeouts, in the order of its tests: why this reading of the clock *)
(* ends an active lease, or "none".                                         *)
TimeoutReason(now) ==
  IF now < 0 THEN "invalid_session_time"
  ELSE IF now < lastHeartbeat \/ now < lastAccepted THEN "non_monotonic_session_time"
  ELSE IF now - lastHeartbeat > LivenessTimeout THEN "liveness_timeout"
  ELSE IF now - lastAccepted > InactivityTimeout THEN "command_inactivity_timeout"
  ELSE "none"
-----------------------------------------------------------------------------
ConnectReadOnly ==
  /\ mode = "disconnected"
  /\ mode' = "read_only"
  /\ releaseReason' = "none"
  /\ UNCHANGED <<leaseId, tenure>>

Disconnect ==
  /\ mode' = "disconnected"
  /\ ClearCommandState
  /\ UNCHANGED releaseReason

(* Mutant: an acquisition is honoured while another lease is active.         *)
AcquireCommand_Steals(lease, measured, now) ==
  /\ mode # "disconnected" /\ CommandReady
  /\ measured.ns <= now /\ now - measured.ns <= InactivityTimeout
  /\ mode' = "command" /\ leaseId' = lease
  /\ lastHeartbeat' = now /\ lastAccepted' = now /\ leaseAcquired' = now
  /\ prevSequence' = None /\ prevCommand' = None
  /\ prevFbSequence' = measured.sequence /\ prevFeedback' = measured.ns
  /\ releaseReason' = "none" /\ held' = FALSE

AcquireCommand(lease, measured, now) ==
  /\ mode = "read_only"
  /\ CommandReady
  /\ measured.ns <= now
  /\ now - measured.ns <= InactivityTimeout
  /\ mode' = "command"
  /\ leaseId' = lease
  /\ lastHeartbeat' = now
  /\ lastAccepted' = now
  /\ prevSequence' = None
  /\ prevCommand' = None
  /\ prevFbSequence' = measured.sequence
  /\ prevFeedback' = measured.ns
  /\ leaseAcquired' = now
  /\ releaseReason' = "none"
  /\ held' = FALSE

(* Mutant: a heartbeat counts as command activity.                           *)
Heartbeat_Refreshes(lease, now) ==
  /\ mode = "command"
  /\ lease = leaseId
  /\ TimeoutReason(now) = "none"
  /\ lastHeartbeat' = now /\ lastAccepted' = now
  /\ UNCHANGED <<mode, leaseId, prevSequence, prevCommand, prevFbSequence, prevFeedback,
                 leaseAcquired, releaseReason, held>>

Heartbeat(lease, now) ==
  /\ mode = "command"
  /\ \/ /\ lease # leaseId
        /\ FailClosed("lease_mismatch")
     \/ /\ lease = leaseId
        /\ TimeoutReason(now) # "none"
        /\ FailClosed(TimeoutReason(now))
     \/ /\ lease = leaseId
        /\ TimeoutReason(now) = "none"
        /\ lastHeartbeat' = now
        /\ UNCHANGED <<mode, leaseId, lastAccepted, prevSequence, prevCommand,
                       prevFbSequence, prevFeedback, leaseAcquired,
                       releaseReason, held>>

(* validate_contiguous_command and the staleness test of accept.            *)
CommandInOrder(cmd, now) ==
  /\ cmd.sequence = prevSequence + 1
  /\ prevCommand # None => cmd.ns > prevCommand
  /\ cmd.ns <= now
  /\ now - cmd.ns <= InactivityTimeout

(* Mutant: a feedback sample may be used twice.                              *)
FeedbackFresh_Repeats(fb, now) ==
  /\ fb.sequence >= prevFbSequence
  /\ fb.ns >= prevFeedback
  /\ fb.ns <= now
  /\ now - fb.ns <= InactivityTimeout

FeedbackFresh(fb, now) ==
  /\ fb.sequence > prevFbSequence
  /\ fb.ns > prevFeedback
  /\ fb.ns <= now
  /\ now - fb.ns <= InactivityTimeout

(* Mutant: the hold reference may have been measured before the acquisition. *)
FirstCommandAllowed_OldReference(cmd, fb, holds) ==
  prevSequence = None => cmd.ns >= fb.ns /\ holds

(* Mutant: the first command need not hold the measured pose.                *)
FirstCommandAllowed_Jumps(cmd, fb, holds) ==
  prevSequence = None => fb.ns > leaseAcquired /\ cmd.ns >= fb.ns

(* The extra conditions on the first command of a tenure.                   *)
FirstCommandAllowed(cmd, fb, holds) ==
  prevSequence = None =>
    /\ fb.ns > leaseAcquired
    /\ cmd.ns >= fb.ns
    /\ holds

Acceptable(cmd, fb, holds, now) ==
  /\ CommandInOrder(cmd, now)
  /\ FeedbackFresh(fb, now)
  /\ FirstCommandAllowed(cmd, fb, holds)

Accept(cmd, fb, holds, now) ==
  /\ mode = "command"
  /\ \/ /\ cmd.lease # leaseId
        /\ FailClosed("lease_mismatch")
     \/ /\ cmd.lease = leaseId
        /\ TimeoutReason(now) # "none"
        /\ FailClosed(TimeoutReason(now))
     \/ /\ cmd.lease = leaseId
        /\ TimeoutReason(now) = "none"
        /\ ~Acceptable(cmd, fb, holds, now)
        /\ FailClosed("invalid_command")
     \/ /\ cmd.lease = leaseId
        /\ TimeoutReason(now) = "none"
        /\ Acceptable(cmd, fb, holds, now)
        /\ prevSequence' = cmd.sequence
        /\ prevCommand' = cmd.ns
        /\ prevFbSequence' = fb.sequence
        /\ prevFeedback' = fb.ns
        /\ lastAccepted' = now
        /\ held' = (held \/ (prevSequence = None /\ holds))
        /\ UNCHANGED <<mode, leaseId, lastHeartbeat, leaseAcquired, releaseReason>>

(* A command or a feedback the snapshot helpers refuse; the command's        *)
(* snapshot is taken before its lease is looked at.                          *)
AcceptMalformed(lease, now) ==
  \/ FailClosed("invalid_command")
  \/ /\ lease # leaseId
     /\ FailClosed("lease_mismatch")
  \/ /\ lease = leaseId
     /\ FailClosed(IF TimeoutReason(now) # "none" THEN TimeoutReason(now)
                                                  ELSE "invalid_command")

Release(lease) ==
  /\ mode = "command"
  /\ \/ lease # leaseId /\ FailClosed("lease_mismatch")
     \/ lease = leaseId /\ FailClosed("requested")
     \/ lease = leaseId /\ FailClosed("invalid_release_reason")

CheckTimeouts(now) ==
  /\ mode = "command"
  /\ TimeoutReason(now) # "none"
  /\ FailClosed(TimeoutReason(now))
-----------------------------------------------------------------------------
Next ==
  \/ ConnectReadOnly
  \/ Disconnect
  \/ \E lease \in LeaseIds, measured \in Samples, now \in Moments :
        AcquireCommand(lease, measured, now)
  \/ \E lease \in LeaseIds, now \in Instants : Heartbeat(lease, now)
  \/ \E cmd \in Commands, fb \in Samples, holds \in BOOLEAN, now \in Instants :
        Accept(cmd, fb, holds, now)
  \/ \E lease \in LeaseIds, now \in Instants : AcceptMalformed(lease, now)
  \/ \E lease \in LeaseIds : Release(lease)
  \/ \E now \in Instants : CheckTimeouts(now)

Spec == Init /\ [][Next]_vars
-----------------------------------------------------------------------------
TypeOK ==
  /\ mode \in {"disconnected", "read_only", "command"}
  /\ leaseId \in LeaseIds \cup {NoLease}
  /\ lastHeartbeat \in Moments \cup {None}
  /\ lastAccepted \in Moments \cup {None}
  /\ prevSequence \in Sequences \cup {None}
  /\ prevCommand \in Moments \cup {None}
  /\ prevFbSequence \in Sequences \cup {None}
  /\ prevFeedback \in Moments \cup {None}
  /\ leaseAcquired \in Moments \cup {None}
  /\ releaseReason \in Reasons
  /\ held \in BOOLEAN

(* Outside COMMAND nothing of a lease survives, and inside it the evidence   *)
(* a command is judged against is all present: no exit path of the session   *)
(* (fail-closed, release, disconnect) forgets a field of                     *)
(* _clear_command_state.                                                     *)
NoResidue ==
  IF mode = "command"
  THEN /\ leaseId # NoLease
       /\ None \notin {lastHeartbeat, lastAccepted, prevFbSequence,
                       prevFeedback, leaseAcquired}
       /\ (prevSequence = None) <=> (prevCommand = None)
  ELSE /\ leaseId = NoLease
       /\ {lastHeartbeat, lastAccepted, prevSequence, prevCommand,
           prevFbSequence, prevFeedback, leaseAcquired} = {None}

(* Whatever lease names are reused and however old messages are replayed,    *)
(* the command and the feedback an active lease last acted on were taken     *)
(* after that lease was acquired, and not after they were accepted.          *)
EvidencePostdatesLease ==
  prevCommand # None =>
    /\ leaseAcquired < prevFeedback /\ prevFeedback <= lastAccepted
    /\ leaseAcquired < prevCommand  /\ prevCommand <= lastAccepted

(* A heartbeat does not refresh command activity, nor a command liveness:    *)
(* neither clock of an active lease runs ahead of the other by more than     *)
(* the other's timeout.                                                      *)
NeitherTimerRefreshesTheOther ==
  mode = "command" =>
    /\ lastHeartbeat - lastAccepted <= InactivityTimeout
    /\ lastAccepted - lastHeartbeat <= LivenessTimeout
    /\ leaseAcquired <= lastHeartbeat /\ leaseAcquired <= lastAccepted

(* No tenure issues a second command, or any command after a fail-closed     *)
(* exit and a new acquisition, before one that held the measured pose.       *)
HoldBeforeMotion == prevSequence # None => held

(* Every tenure starts afresh: from a pose measured after its acquisition,   *)
(* held first, and with nothing commanded or measured before it.             *)
TenureStartsAfresh == EvidencePostdatesLease /\ HoldBeforeMotion

(* Accepted sequence numbers cannot outrun the clock: a client cannot flush  *)
(* a backlog of commands stamped at one instant.                             *)
OneCommandPerInstant ==
  prevCommand # None => prevSequence < prevCommand - leaseAcquired

(* An accepted command is the successor of the accepted one, comes with      *)
(* strictly newer feedback and falls inside both timeouts measured from the  *)
(* last heartbeat and the last accepted command, whatever other traffic came *)
(* since: no call refreshes both timers of a lease.                          *)
Accepted ==
  prevSequence' \notin {prevSequence, None} =>
    /\ prevSequence' = prevSequence + 1
    /\ prevCommand' > prevCommand
    /\ prevFeedback' > prevFeedback /\ prevFbSequence' > prevFbSequence
    /\ lastAccepted' - lastAccepted \in 0 .. InactivityTimeout
    /\ lastAccepted' - lastHeartbeat \in 0 .. LivenessTimeout
    /\ leaseId' = leaseId
OneTimer ==
  mode = "command" /\ mode' = "command" =>
    lastHeartbeat' = lastHeartbeat \/ lastAccepted' = lastAccepted
AcceptedInOrder == [][Accepted /\ OneTimer]_vars

-----------------------------------------------------------------------------
(* The session as the abstract lease.                                        *)
Lease == INSTANCE CommandLease
           WITH owner   <- leaseId,
                issued  <- prevSequence + 1,
                horizon <- IF prevCommand = None THEN leaseAcquired ELSE prevCommand

(* The session implements exclusive, replay-free command ownership.          *)
ImplementsLease == Lease!LeaseSpec
=============================================================================
