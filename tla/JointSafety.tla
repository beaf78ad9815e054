---------------------------- MODULE JointSafety ----------------------------
(***************************************************************************)
(* native/xair_sidecar: the one-element StateSlot between the SDK callback *)
(* and the control thread, JointSafetyMonitor, and the run loop that ends  *)
(* the session on what they find (main.cpp, runtime_safety.cpp).           *)
(*                                                                         *)
(* What a sample says of a joint is one of three things: leader and        *)
(* follower inside the bounds and "close", inside and "apart" (following   *)
(* error over the joint's limit), or one of them "outside".  Sequence      *)
(* numbers are used by the code only to tell a new sample from one already *)
(* copied; here that is a flag.  The lock of the slot makes update and     *)
(* copy atomic; an update that misses the lock is an update not taken.     *)
(***************************************************************************)
EXTENDS Integers, FiniteSets

CONSTANTS JointCount,       \* kArmJointCount, 7 on the robot
          Timeout,          \* following_error_timeout_ns
          StateTimeout,     \* state_timeout_ms
          StopOnError,      \* stop_on_following_error
          MaxClock          \* bound on the clock

ASSUME JointAssumption ==
  /\ JointCount \in Nat \ {0}
  /\ Timeout \in Nat \ {0} /\ StateTimeout \in Nat
  /\ StopOnError \in BOOLEAN
  /\ MaxClock \in Nat

Joints == 1 .. JointCount
Readings == {"close", "apart", "outside"}
None == 0                   \* an empty optional; the clock starts at 1
Fatal == JointCount + 1     \* the event that ends the session

VARIABLES
  clock,
  sample, stamp, unchecked, \* StateSlot: latest_, and not yet copied for safety
  fault,                    \* StateSlot: a callback fault was latched
  last,                     \* last_monotonic_ns_
  started,                  \* error_started_ns_
  warned,                   \* following_warning_emitted_
  loop,                     \* where the run loop is
  resumed,                  \* a callback came since AdjustPosition was asked for
  event,                    \* what observe returned: nothing, Fatal, or the joint warned of
  missed, missedSince,      \* history: samples in a row seen outside and not
                            \* fatal, and the first of them
  recovered,                \* history: seen not apart since its last warning
  apartSince                \* history: first of the samples in a row seen apart

slot == <<sample, stamp, unchecked, fault>>
monitor == <<last, started, warned>>
history == <<missed, missedSince, recovered, apartSince>>
vars == <<clock, slot, monitor, loop, resumed, event, history>>

Turn == {"faults", "observe", "stale", "control", "health"}
Running == Turn \cup {"homing"}
Ended == {"failed", "stopped"}

Init ==
  /\ clock = 1
  /\ sample = [j \in Joints |-> "close"] /\ stamp = None
  /\ unchecked = FALSE /\ fault = FALSE
  /\ last = None
  /\ started = [j \in Joints |-> None]
  /\ warned = [j \in Joints |-> FALSE]
  /\ loop = "faults"
  /\ resumed = FALSE
  /\ event = None
  /\ missed = 0 /\ missedSince = None
  /\ recovered = [j \in Joints |-> TRUE]
  /\ apartSince = [j \in Joints |-> None]

Tick ==
  /\ loop \in Running
  /\ clock < MaxClock
  /\ clock' = clock + 1
  /\ UNCHANGED <<slot, monitor, loop, resumed, event, history>>

(* StateSlot::update from the SDK's thread, at any point of the loop.        *)
Update ==
  /\ loop \in Running
  /\ stamp < clock
  /\ sample' \in [Joints -> Readings]
  /\ stamp' = clock
  /\ unchecked' = TRUE
  /\ resumed' = TRUE
  /\ UNCHANGED <<clock, fault, monitor, loop, event, history>>

(* A wrong joint count or a non-finite value.                                *)
UpdateFault ==
  /\ loop \in Running
  /\ fault' = TRUE
  /\ UNCHANGED <<clock, sample, stamp, unchecked, monitor, loop, resumed, event, history>>
-----------------------------------------------------------------------------
Outside(j) == sample[j] = "outside"
Apart(j) == sample[j] = "apart"

Expired(j) == Apart(j) /\ started[j] # None /\ stamp - started[j] >= Timeout

(* Mutant: a joint that was warned of ends the pass again.                   *)
Ends_Again(j) == Outside(j) \/ Expired(j)

(* The joints at which observe returns; it never looks beyond the first.     *)
Ends(j) == Outside(j) \/ (Expired(j) /\ (StopOnError \/ ~warned[j]))
Reached(j) == \A i \in Joints : Ends(i) => j <= i
Verdict(e) ==
  \/ (\A j \in Joints : ~Ends(j)) /\ e = None
  \/ \E j \in Joints : /\ Ends(j) /\ Reached(j)
                      /\ e = IF Outside(j) \/ StopOnError THEN Fatal ELSE j

Stale == last # None /\ stamp <= last     \* the timestamp did not increase

(* JointSafetyMonitor::observe on the sample in the slot.                    *)
Monitored(j) == Reached(j) /\ ~Outside(j)
ObserveSample ==
  /\ last' = stamp
  /\ started' = [j \in Joints |->
       IF ~Monitored(j) THEN started[j]
       ELSE IF ~Apart(j) THEN None
       ELSE IF started[j] = None THEN stamp ELSE started[j]]
  /\ warned' = [j \in Joints |->
       IF ~Monitored(j) THEN warned[j]
       ELSE Apart(j) /\ (warned[j] \/ (Expired(j) /\ ~StopOnError))]
  /\ Verdict(event')

(* What the samples the monitor was given say, whatever it made of them.     *)
RecordHistory ==
  /\ IF event' # Fatal /\ \E j \in Joints : Outside(j)
     THEN missed' = missed + 1 /\ missedSince' = IF missed = 0 THEN stamp ELSE missedSince
     ELSE missed' = 0 /\ missedSince' = None
  /\ recovered' = [j \in Joints |-> IF event' = j THEN FALSE ELSE recovered[j] \/ ~Apart(j)]
  /\ apartSince' = [j \in Joints |->
       IF ~Apart(j) THEN None ELSE IF apartSince[j] = None THEN stamp ELSE apartSince[j]]
-----------------------------------------------------------------------------
CheckFault ==
  /\ loop = "faults"
  /\ loop' = IF fault THEN "failed" ELSE "observe"
  /\ UNCHANGED <<clock, slot, monitor, resumed, event, history>>

StopRequested ==
  /\ loop = "faults"
  /\ loop' = "stopped"
  /\ UNCHANGED <<clock, slot, monitor, resumed, event, history>>

Observe ==
  /\ loop = "observe"
  /\ \/ /\ ~unchecked
        /\ event' = None
        /\ loop' = "stale"
        /\ UNCHANGED <<unchecked, monitor, history>>
     \/ /\ unchecked
        /\ unchecked' = FALSE
        /\ IF Stale THEN event' = Fatal /\ UNCHANGED monitor ELSE ObserveSample
        /\ RecordHistory
        /\ loop' = IF event' = Fatal THEN "failed" ELSE "stale"
  /\ UNCHANGED <<clock, sample, stamp, fault, resumed>>

(* The age of the latest update; before the first one, of the loop.          *)
CheckAge ==
  /\ loop = "stale"
  /\ loop' = IF clock - (IF stamp = None THEN 1 ELSE stamp) > StateTimeout
             THEN "failed" ELSE "control"
  /\ UNCHANGED <<clock, slot, monitor, resumed, event, history>>

(* No client, an invalid request, or one that asks for AdjustPosition.       *)
Accept ==
  /\ loop = "control"
  /\ \/ loop' = "health" /\ UNCHANGED resumed
     \/ loop' = "homing" /\ resumed' = FALSE
  /\ UNCHANGED <<clock, slot, monitor, event, history>>

(* Mutant: reset forgets the timers.                                         *)
AdjustPosition_TimersKept ==
  /\ loop = "homing"
  /\ resumed
  /\ last' = None
  /\ warned' = [j \in Joints |-> FALSE]
  /\ recovered' = [j \in Joints |-> TRUE]
  /\ apartSince' = [j \in Joints |-> None]
  /\ loop' = "health"
  /\ UNCHANGED <<clock, slot, started, resumed, event, missed, missedSince>>

(* xarm_teleop_go_home returned, and a callback newer than the request has   *)
(* come: the monitor starts afresh.                                          *)
AdjustPosition ==
  /\ loop = "homing"
  /\ resumed
  /\ last' = None
  /\ started' = [j \in Joints |-> None]
  /\ warned' = [j \in Joints |-> FALSE]
  /\ recovered' = [j \in Joints |-> TRUE]
  /\ apartSince' = [j \in Joints |-> None]
  /\ loop' = "health"
  /\ UNCHANGED <<clock, slot, resumed, event, missed, missedSince>>

(* go_home failed, no callback came in time, the SDK's loop stopped, or the  *)
(* CAN or scheduling check failed.                                           *)
SessionFault ==
  /\ loop \in {"homing", "control", "health"}
  /\ loop' = "failed"
  /\ UNCHANGED <<clock, slot, monitor, resumed, event, history>>

CheckHealth ==
  /\ loop = "health"
  /\ loop' = "faults"
  /\ UNCHANGED <<clock, slot, monitor, resumed, event, history>>

Callback == Update \/ UpdateFault
RunLoop ==
  \/ CheckFault \/ StopRequested \/ Observe \/ CheckAge \/ Accept
  \/ AdjustPosition \/ SessionFault \/ CheckHealth

Next == Tick \/ Callback \/ RunLoop
Spec == Init /\ [][Next]_vars
-----------------------------------------------------------------------------
TypeOK ==
  /\ clock \in 1 .. (MaxClock + 1)
  /\ sample \in [Joints -> Readings]
  /\ stamp \in Nat /\ stamp <= clock
  /\ unchecked \in BOOLEAN /\ fault \in BOOLEAN /\ resumed \in BOOLEAN
  /\ last \in Nat
  /\ started \in [Joints -> Nat]
  /\ warned \in [Joints -> BOOLEAN]
  /\ loop \in Running \cup Ended
  /\ event \in 0 .. Fatal
  /\ missed \in Nat /\ missedSince \in Nat
  /\ recovered \in [Joints -> BOOLEAN]
  /\ apartSince \in [Joints -> Nat]

(* observe: the monitor's memory is never ahead of what it saw: a running    *)
(* timer began at a sample it observed, and only a joint whose timer ran     *)
(* for the whole timeout is marked as warned.                                *)
TimersBehindSamples ==
  \A j \in Joints :
    /\ started[j] <= last
    /\ warned[j] => started[j] # None /\ last - started[j] >= Timeout

Warns(j) == loop = "observe" /\ loop' = "stale" /\ event' = j

(* One nonfatal warning per excursion: a joint is warned of again only after *)
(* the monitor was shown a sample of it within its limit, or was reset.      *)
OneWarningPerExcursion ==
  [][\A j \in Joints : Warns(j) => recovered[j]]_vars

(* A sample outside the bounds can be let through only because observe       *)
(* returns early with the warning of a lower joint.  A joint warns only once *)
(* in a Timeout, so within one no more than JointCount - 1 of them pass.     *)
OutsideSoonFatal == missed >= JointCount => stamp - missedSince > Timeout

(* SAFETY.md: any bound violation is immediately fatal.                      *)
BoundViolationFatal == missed = 0

=============================================================================
