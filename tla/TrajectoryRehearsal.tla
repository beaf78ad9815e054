------------------------ MODULE TrajectoryRehearsal ------------------------
(***************************************************************************)
(* The offline rehearsal of a wrist sweep (trajectory.py): the sweep as a  *)
(* function of time, and the automaton that judges simulated feedback of   *)
(* every joint against it, asks for release at the first thing wrong, or   *)
(* at the end, and closes only on evidence of the release.  A position is  *)
(* relative to the reference pose, in the unit of the tolerances.          *)
(***************************************************************************)
EXTENDS Integers, Sequences

CONSTANTS
  Features,      \* the joints
  ActiveFeature, \* the one that sweeps
  Amplitude,     \* amplitude_deg
  Transition,    \* transition_ns
  Hold,          \* hold_ns
  Cycles,
  Bound,         \* how far a joint may be from the reference
  FirstHold,     \* first_hold_tolerance_deg
  Tolerance,     \* tracking_error_deg
  Persistence,   \* persistence_ns
  StateTimeout,  \* state_timeout_ns
  Errors,        \* the tracking errors that are tried
  LastInstant    \* bound on the host's time

(* SweepSpec checks its parameters when it is made (without the budgets for  *)
(* speed and acceleration), WristSweep that the excursion keeps the bounds,  *)
(* and the rehearsal its tolerances.                                         *)
SweepSpecSound == {Amplitude, Transition, Hold, Cycles} \subseteq Nat \ {0}

ASSUME SweepAssumption ==
  /\ SweepSpecSound
  /\ ActiveFeature \in Features
  /\ {Tolerance, Persistence} \subseteq Nat \ {0}
  /\ {Bound, FirstHold, StateTimeout, LastInstant} \subseteq Nat
  /\ Amplitude <= Bound /\ Errors \subseteq Int

Duration == Hold + 4 * Cycles * (Transition + Hold)

(* at: the quintic from one end of a leg to the other, then a hold there.    *)
LegStarts == <<0, Amplitude, 0, -Amplitude>>
LegEnds   == <<Amplitude, 0, -Amplitude, 0>>

Quintic(from, to, k) ==
  from + ((to - from) * k * k * k
            * (10 * Transition * Transition - 15 * k * Transition + 6 * k * k))
         \div (Transition * Transition * Transition * Transition * Transition)

Offset(relative) ==
  IF relative < Hold \/ relative >= Duration THEN 0
  ELSE LET since == relative - Hold
           leg   == 1 + ((since \div (Transition + Hold)) % 4)
           local == since % (Transition + Hold)
       IN IF local < Transition THEN Quintic(LegStarts[leg], LegEnds[leg], local) ELSE LegEnds[leg]

At(relative) == [f \in Features |-> IF f = ActiveFeature THEN Offset(relative) ELSE 0]

VARIABLES
  rehearsal,   \* state
  cause,       \* reason
  startNs,     \* _start_ns
  hostNow,     \* _last_now
  lastSource,  \* _last_source
  lastSequence,
  errorSince,  \* _error_since
  target,      \* the position of the last decision's point, or NoTarget
  judged       \* the last Persistence + 1 samples: the source, who was outside

rehearsalVars ==
  <<rehearsal, cause, startNs, hostNow, lastSource, lastSequence, errorSince, target, judged>>

Unset == -1
NoTarget == <<>>
Unerring == [f \in Features |-> Unset]

RehearsalInit ==
  /\ rehearsal = "idle" /\ cause = "none" /\ startNs = Unset /\ hostNow = Unset
  /\ lastSource = Unset /\ lastSequence = Unset
  /\ errorSince = Unerring /\ target = NoTarget /\ judged = <<>>

Running == rehearsal \in {"idle", "running"}
-----------------------------------------------------------------------------
Release(why) == rehearsal' = "release_required" /\ cause' = why /\ target' = NoTarget

(* _clock: the time is taken over before the feedback's age is judged.       *)
Regressed(now) == hostNow # Unset /\ now <= hostNow
Aged(now) == lastSource # Unset /\ now - lastSource > StateTimeout
TakesTime(now) == hostNow' = IF Regressed(now) THEN hostNow ELSE now

Begun(now) == IF rehearsal = "idle" THEN now ELSE startNs

(* Where the sweep was when the sample was taken: before it began, its start.*)
Expected(start, source) ==
  At(IF source < start THEN 0 ELSE IF source - start > Duration THEN Duration
                                   ELSE source - start)

Outside(start, source, q) ==
  {f \in Features : LET e == q[f] - Expected(start, source)[f]
                    IN e > Tolerance \/ -e > Tolerance}

(* What step refuses a sample for: the first of its checks that fails.       *)
SampleFault(now, source, sequence, q, healthy) ==
  LET Off(f, limit) == q[f] > limit \/ -q[f] > limit
      checks == <<
        <<Regressed(now), "non_monotonic_host_time">>,
        <<Aged(now), "feedback_timeout">>,
        <<~healthy, "transport_fault">>,
        <<\E f \in Features : Off(f, Bound), "joint_bounds">>,
        <<now - source \notin 0 .. StateTimeout, "stale_or_future_feedback">>,
        <<lastSequence # Unset /\ (sequence <= lastSequence \/ source <= lastSource),
          "non_monotonic_feedback">>,
        <<rehearsal = "idle" /\ \E f \in Features : Off(f, FirstHold),
          "initial_reference_mismatch">> >>
      failed == {i \in DOMAIN checks : checks[i][1]}
  IN IF failed = {} THEN "none"
     ELSE checks[CHOOSE i \in failed : \A j \in failed : i <= j][2]

(* Mutant: an error that lasts is timed anew by every sample.                *)
ErrorsNow_Restarted(source, outside) ==
  [f \in Features |-> IF f \in outside THEN source ELSE Unset]

(* setdefault and pop.                                                       *)
ErrorsNow(source, outside) ==
  [f \in Features |-> IF f \notin outside THEN Unset
                      ELSE IF errorSince[f] = Unset THEN source ELSE errorSince[f]]

(* Sources advance, so that many samples span the persistence.               *)
Newest(samples) ==
  SubSeq(samples, IF Len(samples) > Persistence + 1 THEN Len(samples) - Persistence ELSE 1,
         Len(samples))

Step(now, source, sequence, q, healthy) ==
  /\ Running
  /\ TakesTime(now)
  /\ LET fault   == SampleFault(now, source, sequence, q, healthy)
         start   == Begun(now)
         outside == Outside(start, source, q)
         errors  == ErrorsNow(source, outside)
         lasting == \E f \in outside : source - errors[f] >= Persistence
     IN IF fault # "none"
        THEN /\ Release(fault)
             /\ UNCHANGED <<startNs, lastSource, lastSequence, errorSince, judged>>
        ELSE /\ startNs' = start
             /\ errorSince' = errors
             /\ judged' = Newest(Append(judged, [source |-> source, outside |-> outside]))
             /\ IF lasting
                THEN Release("persistent_tracking_error") /\ UNCHANGED <<lastSource, lastSequence>>
                ELSE /\ lastSource' = source /\ lastSequence' = sequence
                     /\ IF now - start >= Duration
                        THEN Release(IF outside # {} THEN "final_tracking_error" ELSE "completed")
                        ELSE /\ rehearsal' = "running" /\ UNCHANGED cause
                             /\ target' = At(now - start)

(* poll: a watchdog that does not renew the feedback.                        *)
Poll(now) ==
  /\ IF rehearsal = "running"
     THEN /\ TakesTime(now)
          /\ IF Regressed(now) THEN Release("non_monotonic_host_time")
             ELSE IF Aged(now) THEN Release("feedback_timeout")
             ELSE target' = NoTarget /\ UNCHANGED <<rehearsal, cause>>
     ELSE target' = NoTarget /\ UNCHANGED <<rehearsal, cause, hostNow>>
  /\ UNCHANGED <<startNs, lastSource, lastSequence, errorSince, judged>>

Stop ==
  /\ Running /\ Release("operator_stop")
  /\ UNCHANGED <<startNs, hostNow, lastSource, lastSequence, errorSince, judged>>

AcknowledgeRelease(disabled, released) ==
  /\ rehearsal = "release_required"
  /\ rehearsal' = IF disabled /\ released THEN "closed" ELSE "release_failed"
  /\ target' = NoTarget
  /\ UNCHANGED <<cause, startNs, hostNow, lastSource, lastSequence, errorSince, judged>>

(* A sample is at most a little too old or an instant in the future, repeats *)
(* the last sequence number or advances it, and its joints are off the sweep *)
(* by one of Errors.                                                         *)
RehearsalNext ==
  \/ \E now \in 0 .. LastInstant : now <= hostNow + 2 /\ Poll(now)
  \/ \E now, source \in 0 .. LastInstant, errors \in [Features -> Errors] :
       /\ now <= hostNow + 2 /\ now - source \in -1 .. StateTimeout + 1
       /\ \E sequence \in {lastSequence, source} \cap Nat, healthy \in BOOLEAN :
            Step(now, source, sequence,
                 [f \in Features |-> Expected(Begun(now), source)[f] + errors[f]], healthy)
  \/ Stop
  \/ \E disabled, released \in BOOLEAN : AcknowledgeRelease(disabled, released)

RehearsalSpec == RehearsalInit /\ [][RehearsalNext]_rehearsalVars
-----------------------------------------------------------------------------
(* A rehearsal that runs on has seen no joint outside its tolerance through  *)
(* samples that span the persistence, and never went without a sample for    *)
(* longer than the timeout; the points it gives keep the bounds; and         *)
(* "completed" is said only of a run whose last sample, of the end or of at  *)
(* most a timeout before it, had every joint within tolerance.               *)
Outlasts(f, i, j) ==
  /\ \A k \in i .. j : f \in judged[k].outside
  /\ judged[j].source - judged[i].source >= Persistence

RunsTracked ==
  /\ rehearsal = "running" \/ cause = "completed" =>
       /\ \A f \in Features, i, j \in DOMAIN judged : ~Outlasts(f, i, j)
       /\ \A k \in 2 .. Len(judged) :
            judged[k].source - judged[k - 1].source \in 1 .. StateTimeout
       /\ hostNow - judged[Len(judged)].source <= StateTimeout
  /\ target # NoTarget => \A f \in Features : target[f] \in -Bound .. Bound
  /\ cause = "completed" =>
       LET final == judged[Len(judged)]
       IN final.outside = {} /\ final.source >= startNs + Duration - StateTimeout
=============================================================================
