------------------------- MODULE AutomaticFollower -------------------------
(***************************************************************************)
(* The isolated diagnostic of the right follower: run_automatic and its    *)
(* supervise loop (teleoperation/automatic.py), the one native process that *)
(* owns the motors (automatic_main.cpp, with PairedSweep), and the offline  *)
(* review of what they left (automatic_review.py, paired_protocol.py).      *)
(*                                                                         *)
(* The native process writes lines into a pipe, the supervisor answers with *)
(* signals; an operator places acknowledgements in the output directory and *)
(* may stop the run at any time.  Either process may be killed.  Deadlines  *)
(* and hardware faults are steps that may be taken at any time.             *)
(***************************************************************************)
EXTENDS Integers, Sequences, SequencesExt

CONSTANTS
  RunModes,    \* the modes that are run, of "hold", "sweep", "paired"
  Handling,    \* manual_handling: sweeps start after a settling gate
  MaxKills     \* bound on the processes killed from outside

ASSUME FollowerAssumption ==
  /\ RunModes \subseteq {"hold", "sweep", "paired"}
  /\ Handling \in BOOLEAN /\ MaxKills \in Nat

VARIABLES
  mode,        \* mode of run_automatic
  place,       \* where the supervisor is
  which,       \* what the child was started for
  child,       \* what the child does
  sweep,       \* PairedSweep: its phase and settling_
  signals,     \* signals the child got and has not acted on
  outcome,     \* confirmed_disabled, success and error of the child
  pipe,        \* the lines it wrote
  heard,       \* what supervise has read: phase, disabled
  failure,     \* why supervise ends the child
  sent,        \* paired_sent, in order
  told,        \* the phases in report["events"]
  verified,    \* report["disabled_verified"]
  verdict,     \* report["status"]
  requests,    \* what the operator has placed: name to body
  askedStop,   \* stop
  energised,   \* whether the motors are enabled
  linkUp,      \* whether the interface is UP
  holders,     \* who has the lifecycle lock open
  kills        \* processes killed so far

childVars == <<child, sweep, outcome>>
parentVars == <<mode, place, which, heard, failure, sent, told, verified, verdict>>
worldVars == <<requests, askedStop, energised, linkUp, holders, kills>>
followerVars == <<childVars, signals, pipe, parentVars, worldVars>>

Phases == <<"baseline", "awaiting_attach", "loaded", "awaiting_remove", "empty_after", "complete">>
Waits == {2, 4}
SettlingName == [p \in Waits |-> IF p = 2 THEN "settling_loaded" ELSE "settling_empty_after"]
Acknowledged == [name \in {"attach", "remove"} |->
                   IF name = "attach" THEN "awaiting_attach" ELSE "awaiting_remove"]
Gone == {"none", "exited", "killed"}
NothingHeard == [phase |-> "none", disabled |-> FALSE]
Fresh == [mayBeEnabled |-> FALSE, confirmed |-> FALSE, success |-> FALSE, error |-> FALSE]

FollowerInit ==
  /\ mode \in RunModes
  /\ place = "lock" /\ which = "none" /\ child = "none"
  /\ sweep = [at |-> 1, settling |-> FALSE] /\ signals = {} /\ outcome = Fresh
  /\ pipe = <<>> /\ heard = NothingHeard /\ failure = FALSE
  /\ sent = <<>> /\ told = <<>> /\ verified = FALSE /\ verdict = "none"
  /\ requests = [name \in {} |-> "good"] /\ askedStop = FALSE
  /\ energised = FALSE /\ linkUp = FALSE /\ holders = {} /\ kills = 0
-----------------------------------------------------------------------------
(* The native process.                                                       *)
PhaseName == IF sweep.settling THEN SettlingName[sweep.at] ELSE Phases[sweep.at]
Tells(line) == pipe' = IF place = "dead" THEN pipe ELSE Append(pipe, line)
Native(from, to) ==
  /\ child = from /\ child' = to
  /\ holders' = IF to = "exited" THEN holders \ {"child"} ELSE holders
  /\ UNCHANGED <<parentVars, requests, askedStop, kills>>

(* Everything that throws before the disable block: the guard, the deadline, *)
(* the health of the link, a missing response, the settling or session cap;  *)
(* and a stop, before the enable or in the loop.                             *)
Faults ==
  /\ which # "disable"
  /\ \E from \in {"starting", "arming", "running"} : Native(from, "disabling")
  /\ outcome' = [outcome EXCEPT !.error = TRUE]
  /\ UNCHANGED <<sweep, signals, pipe, energised, linkUp>>

(* Input, identity or log cannot be opened: no disable block at all.         *)
StartupFails ==
  /\ Native("starting", "failing")
  /\ outcome' = [outcome EXCEPT !.error = TRUE]
  /\ UNCHANGED <<sweep, signals, pipe, energised, linkUp>>

(* A partial enable counts as enabled.                                       *)
Arm ==
  /\ which # "disable" /\ "stop" \notin signals
  /\ Native("starting", "arming")
  /\ outcome' = [outcome EXCEPT !.mayBeEnabled = TRUE] /\ energised' = TRUE
  /\ UNCHANGED <<sweep, signals, pipe, linkUp>>

Run ==
  /\ "stop" \notin signals /\ Native("arming", "running")
  /\ Tells(IF which = "paired" THEN "baseline" ELSE "running")
  /\ UNCHANGED <<sweep, signals, outcome, energised, linkUp>>

DisableOnly ==
  /\ which = "disable" /\ Native("starting", "disabling")
  /\ outcome' = [outcome EXCEPT !.mayBeEnabled = TRUE, !.success = TRUE]
  /\ UNCHANGED <<sweep, signals, pipe, energised, linkUp>>

(* A stop seen after the loop is an error, whatever was completed.           *)
Completed == [outcome EXCEPT !.success = TRUE, !.error = "stop" \in signals]

(* The whole hold or sweep, or the requested end of a hold.                  *)
RunsOut ==
  /\ which \in {"hold", "sweep"} /\ Native("running", "disabling")
  /\ outcome' = Completed
  /\ UNCHANGED <<sweep, signals, pipe, energised, linkUp>>

(* PairedSweep::step                                                         *)
Steps(next) ==
  /\ sweep' = next
  /\ Tells(IF next.settling THEN SettlingName[next.at] ELSE Phases[next.at])

Advances ==
  /\ which = "paired" /\ "advance" \in signals
  /\ signals' = signals \ {"advance"}
  /\ IF sweep.at \in Waits /\ ~sweep.settling
       THEN /\ Native("running", "running")
            /\ Steps([at |-> IF Handling THEN sweep.at ELSE sweep.at + 1, settling |-> Handling])
            /\ UNCHANGED outcome
       ELSE /\ Native("running", "disabling")
            /\ outcome' = [outcome EXCEPT !.error = TRUE]
            /\ UNCHANGED <<sweep, pipe>>
  /\ UNCHANGED <<energised, linkUp>>

Settles ==
  /\ which = "paired" /\ sweep.settling /\ "advance" \notin signals
  /\ Native("running", "running")
  /\ Steps([at |-> sweep.at + 1, settling |-> FALSE])
  /\ UNCHANGED <<signals, outcome, energised, linkUp>>

SweepEnds ==
  /\ which = "paired" /\ sweep.at \in {1, 3, 5} /\ "advance" \notin signals
  /\ Steps([at |-> sweep.at + 1, settling |-> FALSE])
  /\ IF sweep.at = 5 THEN Native("running", "disabling") /\ outcome' = Completed
                     ELSE Native("running", "running") /\ UNCHANGED outcome
  /\ UNCHANGED <<signals, energised, linkUp>>

(* The disable block: new replies confirm it, then the SDK is closed and the *)
(* marker written; the check of the link after the marker may still fail.    *)
Disable ==
  /\ Native("disabling", "finalizing")
  /\ IF outcome.mayBeEnabled
       THEN energised' = FALSE /\ Tells("disabled")
       ELSE UNCHANGED energised /\ Tells("not_enabled")
  /\ \E healthy \in BOOLEAN :
       outcome' = [outcome EXCEPT !.confirmed = @ \/ outcome.mayBeEnabled,
                                  !.success = @ /\ healthy, !.error = @ \/ ~healthy]
  /\ UNCHANGED <<sweep, signals, linkUp>>

DisableFails ==
  /\ outcome.mayBeEnabled /\ Native("disabling", "finalizing")
  /\ outcome' = [outcome EXCEPT !.success = FALSE, !.error = TRUE]
  /\ \E off \in BOOLEAN : energised' = IF off THEN FALSE ELSE energised
  /\ UNCHANGED <<sweep, signals, pipe, linkUp>>

(* orphan_link_down, in every exit but that of a failed start.               *)
Exits ==
  /\ Native("finalizing", "exited")
  /\ linkUp' = (linkUp /\ place # "dead")
  /\ \E written \in BOOLEAN :
       LET fine == outcome.success /\ outcome.confirmed /\ ~outcome.error /\ written
       IN /\ outcome' = [outcome EXCEPT !.success = fine]
          /\ IF fine /\ which = "paired" THEN Tells("completed") ELSE UNCHANGED pipe
  /\ UNCHANGED <<sweep, signals, energised>>

ExitsAtOnce ==
  /\ Native("failing", "exited")
  /\ outcome' = [outcome EXCEPT !.success = FALSE]
  /\ UNCHANGED <<sweep, signals, pipe, energised, linkUp>>

Child ==
  \/ Faults \/ StartupFails \/ Arm \/ Run \/ DisableOnly \/ RunsOut \/ Advances
  \/ Settles \/ SweepEnds \/ Disable \/ DisableFails \/ Exits \/ ExitsAtOnce
-----------------------------------------------------------------------------
(* The supervisor.                                                           *)
LockTakenBy(who) == holders' = holders \cup who

AcquireLock ==
  /\ place = "lock"
  /\ \/ place' = "preflight" /\ LockTakenBy({"supervisor"}) /\ UNCHANGED verdict
     \/ place' = "report" /\ verdict' = "failed" /\ UNCHANGED holders
  /\ UNCHANGED <<childVars, signals, pipe, mode, which, heard, failure, sent, told, verified,
                 requests, askedStop, energised, linkUp, kills>>

(* Everything is checked before the link is configured, and configured is    *)
(* set before.                                                               *)
PreflightFails ==
  /\ place \in {"preflight", "configured"}
  /\ place' = IF place = "preflight" THEN "unlock" ELSE "down"
  /\ verdict' = "failed"
  /\ UNCHANGED <<childVars, signals, pipe, mode, which, heard, failure, sent, told, verified,
                 worldVars>>

ConfigureLink ==
  /\ place = "preflight" /\ place' = "configured"
  /\ \E up \in BOOLEAN : linkUp' = up
  /\ UNCHANGED <<childVars, signals, pipe, mode, which, heard, failure, sent, told, verified,
                 verdict, requests, askedStop, energised, holders, kills>>

(* Mutant: the child does not inherit the lock.                              *)
StartChild_AloneLocked(for) ==
  /\ place' = "supervising" /\ which' = for /\ child' = "starting"
  /\ sweep' = [at |-> 1, settling |-> FALSE] /\ signals' = {} /\ outcome' = Fresh
  /\ pipe' = <<>> /\ heard' = NothingHeard /\ failure' = FALSE
  /\ UNCHANGED <<holders, mode, sent, told, verified, verdict,
                 requests, askedStop, energised, linkUp, kills>>

(* supervise: Popen with pass_fds.                                           *)
StartChild(for) ==
  /\ place' = "supervising" /\ which' = for /\ child' = "starting"
  /\ sweep' = [at |-> 1, settling |-> FALSE] /\ signals' = {} /\ outcome' = Fresh
  /\ pipe' = <<>> /\ heard' = NothingHeard /\ failure' = FALSE
  /\ LockTakenBy({"child"})
  /\ UNCHANGED <<mode, sent, told, verified, verdict,
                 requests, askedStop, energised, linkUp, kills>>

Enable == place = "configured" /\ linkUp /\ ~askedStop /\ StartChild(mode)

Supervises(to) ==
  /\ place = "supervising" /\ place' = to
  /\ UNCHANGED <<childVars, mode, which, verified, verdict, worldVars>>

(* Mutant: an acknowledgement is not remembered, and sent in every round.    *)
Due_Again(name) == which = "paired" /\ ~heard.disabled /\ ~failure /\ ~askedStop /\ name \in DOMAIN requests

Due(name) ==
  /\ which = "paired" /\ ~heard.disabled /\ ~failure /\ ~askedStop
  /\ name \in DOMAIN requests /\ name \notin ToSet(sent)

Premature(name) == heard.phase # Acknowledged[name] \/ requests[name] = "bad"

Acknowledge(name) ==
  /\ child \notin Gone /\ Due(name) /\ ~Premature(name)
  /\ name = "remove" => ~Due("attach")
  /\ Supervises("supervising")
  /\ signals' = signals \cup {"advance"} /\ sent' = Append(sent, name)
  /\ UNCHANGED <<pipe, heard, failure, told>>

(* Any exception in the loop: the child is terminated, then killed.          *)
SuperviseRaises ==
  /\ Supervises("raising") /\ signals' = signals \cup {"stop"}
  /\ UNCHANGED <<pipe, heard, failure, sent, told>>

(* A stop, a timeout of the heartbeat or of the final output, or the health  *)
(* of the link.                                                              *)
FailChild ==
  /\ child \notin Gone /\ ~failure
  /\ Supervises("supervising")
  /\ failure' = TRUE /\ signals' = signals \cup {"stop"}
  /\ UNCHANGED <<pipe, heard, sent, told>>

(* The lines of a read, in their order.                                      *)
IsPhase(line) == line \in ToSet(Phases) \cup {SettlingName[p] : p \in Waits}
LastPhase == SelectLastInSeq(pipe, IsPhase)
ReadLines ==
  /\ heard' = [phase |-> IF LastPhase = 0 THEN heard.phase ELSE pipe[LastPhase],
               disabled |-> heard.disabled \/ Contains(pipe, "disabled")]
  /\ told' = told \o SelectSeq(pipe, LAMBDA l : IsPhase(l) \/ l = "completed")
  /\ pipe' = <<>>

ReadsPipe ==
  /\ child \notin Gone /\ pipe # <<>>
  /\ Supervises("supervising") /\ ReadLines
  /\ UNCHANGED <<signals, failure, sent>>

(* Terminated and not gone within the shutdown timeout.                      *)
KillsChild ==
  /\ place \in {"supervising", "raising"} /\ child \notin Gone
  /\ failure \/ place = "raising"
  /\ child' = "killed" /\ holders' = holders \ {"child"}
  /\ UNCHANGED <<sweep, outcome, signals, pipe, parentVars, requests, askedStop, energised, linkUp, kills>>

ChildEnded ==
  /\ child \in Gone /\ place = "supervising" /\ place' = "judging"
  /\ ReadLines
  /\ UNCHANGED <<childVars, signals, mode, which, failure, sent, verified, verdict, worldVars>>

(* An exception leaves disabled_verified as it was.                          *)
ChildReaped ==
  /\ child \in Gone /\ place = "raising"
  /\ verdict' = "failed"
  /\ place' = IF which = "disable" \/ verified THEN "down" ELSE "unverified"
  /\ UNCHANGED <<childVars, signals, pipe, mode, which, heard, failure, sent, told, verified,
                 worldVars>>

(* Mutant: the exit status of the native process stands for the disable.     *)
DisableSeen_ByExit == child = "exited"

DisableSeen == heard.disabled

Evidence == which = "paired" => Len(SelectSeq(told, LAMBDA l : l = "completed")) = 1

(* The return of supervise in run_automatic, its checks, and the fallback.   *)
Judge ==
  /\ place = "judging" /\ which # "disable"
  /\ verified' = DisableSeen
  /\ \E healthy \in BOOLEAN :
       verdict' = IF child = "exited" /\ outcome.success /\ ~failure /\ DisableSeen
                     /\ Evidence /\ healthy /\ ~askedStop
                    THEN "passed" ELSE "failed"
  /\ place' = IF DisableSeen THEN "down" ELSE "unverified"
  /\ UNCHANGED <<childVars, signals, pipe, mode, which, heard, failure, sent, told, worldVars>>

CleanUp == place = "unverified" /\ StartChild("disable")

JudgeCleanUp ==
  /\ place = "judging" /\ which = "disable"
  /\ verified' = heard.disabled /\ verdict' = "failed" /\ place' = "down"
  /\ UNCHANGED <<childVars, signals, pipe, mode, which, heard, failure, sent, told, worldVars>>

LinkDown ==
  /\ place = "down" /\ place' = "unlock"
  /\ \/ linkUp' = FALSE /\ UNCHANGED verdict
     \/ UNCHANGED linkUp /\ verdict' = "failed"
  /\ UNCHANGED <<childVars, signals, pipe, mode, which, heard, failure, sent, told, verified,
                 requests, askedStop, energised, holders, kills>>

Unlock ==
  /\ place = "unlock" /\ place' = "report"
  /\ holders' = holders \ {"supervisor"}
  /\ UNCHANGED <<childVars, signals, pipe, mode, which, heard, failure, sent, told, verified,
                 verdict, requests, askedStop, energised, linkUp, kills>>

(* review_automatic: the phases of a paired run in their order, both         *)
(* acknowledgements; its reading of the samples may refuse any run.          *)
AllPhases ==
  IF Handling THEN <<"baseline", "awaiting_attach", "settling_loaded", "loaded",
                     "awaiting_remove", "settling_empty_after", "empty_after", "complete">>
              ELSE Phases
paired_phases ==
  /\ SelectSeq(told, IsPhase) = AllPhases
  /\ sent = <<"attach", "remove">>

Review ==
  /\ place = "report" /\ place' = "over"
  /\ \/ UNCHANGED verdict /\ (verdict = "passed" /\ mode = "paired" => paired_phases)
     \/ verdict' = "failed"
  /\ UNCHANGED <<childVars, signals, pipe, mode, which, heard, failure, sent, told, verified,
                 worldVars>>

(* run_automatic_sequence: the sweep only after a hold that passed.          *)
NextStage ==
  /\ place = "over" /\ mode = "hold" /\ verdict = "passed" /\ verified
  /\ place' = "lock" /\ mode' = "sweep" /\ which' = "none" /\ verdict' = "none"
  /\ heard' = NothingHeard /\ failure' = FALSE /\ sent' = <<>> /\ told' = <<>> /\ verified' = FALSE
  /\ UNCHANGED <<childVars, signals, pipe, worldVars>>

Supervisor ==
  \/ AcquireLock \/ PreflightFails \/ ConfigureLink \/ Enable
  \/ \E name \in {"attach", "remove"} : Acknowledge(name)
  \/ SuperviseRaises \/ FailChild \/ ReadsPipe \/ KillsChild \/ ChildEnded \/ ChildReaped
  \/ Judge \/ CleanUp \/ JudgeCleanUp \/ LinkDown \/ Unlock \/ Review \/ NextStage
-----------------------------------------------------------------------------
(* The world: the operator and kill -9.                                      *)
Places(name, body) ==
  /\ mode = "paired" /\ place = "supervising" /\ name \notin DOMAIN requests
  /\ requests' = [n \in DOMAIN requests \cup {name} |-> IF n = name THEN body ELSE requests[n]]
  /\ UNCHANGED <<childVars, signals, pipe, parentVars, askedStop, energised, linkUp, holders, kills>>

AsksStop ==
  /\ ~askedStop /\ place \notin {"lock", "over", "dead"} /\ askedStop' = TRUE
  /\ UNCHANGED <<childVars, signals, pipe, parentVars, requests, energised, linkUp, holders, kills>>

KillChild ==
  /\ kills < MaxKills /\ kills' = kills + 1 /\ child \notin Gone
  /\ child' = "killed" /\ holders' = holders \ {"child"}
  /\ UNCHANGED <<sweep, outcome, signals, pipe, parentVars, requests, askedStop, energised, linkUp>>

(* PR_SET_PDEATHSIG tells the child, and a child that starts late sees that  *)
(* its parent is gone.                                                       *)
KillSupervisor ==
  /\ kills < MaxKills /\ kills' = kills + 1 /\ place \notin {"over", "dead"}
  /\ place' = "dead" /\ signals' = signals \cup {"stop"} /\ pipe' = <<>>
  /\ holders' = holders \ {"supervisor"}
  /\ UNCHANGED <<childVars, mode, which, heard, failure, sent, told, verified, verdict,
                 requests, askedStop, energised, linkUp>>

FollowerNext ==
  \/ Child \/ Supervisor \/ AsksStop \/ KillChild \/ KillSupervisor
  \/ \E name \in {"attach", "remove"}, body \in {"good", "bad"} : Places(name, body)

FollowerSpec == FollowerInit /\ [][FollowerNext]_followerVars
-----------------------------------------------------------------------------
(* The motors are enabled by a living process only while the lifecycle lock  *)
(* is held, be it by a child whose supervisor was killed: no other launch    *)
(* can begin beside it.                                                      *)
EnabledUnderLock == energised /\ child \notin Gone => holders # {}

(* What the report says is so: disabled only of disabled motors, passed only *)
(* of a run whose process is gone, whose motors are off and whose link is    *)
(* DOWN, and of a paired run only with all three sweeps behind it.           *)
ReportTruthful ==
  place = "over" =>
    /\ child \in Gone
    /\ verified => ~energised
    /\ verdict = "passed" =>
         /\ verified /\ ~linkUp
         /\ mode = "paired" => sweep.at = 6

(* No sweep with, or after, the load begins before the operator has          *)
(* acknowledged that it was attached, or removed, although the supervisor    *)
(* knows the phase only from what it has read so far.                        *)
SweepsAcknowledged ==
  /\ sweep.at >= 3 \/ sweep.settling => "attach" \in DOMAIN requests
  /\ sweep.at >= 5 \/ (sweep.at = 4 /\ sweep.settling) => "remove" \in DOMAIN requests
=============================================================================
