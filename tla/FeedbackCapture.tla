-------------------------- MODULE FeedbackCapture --------------------------
(***************************************************************************)
(* The motion-free diagnostic of motor feedback                            *)
(* (teleoperation/feedback_capture.py): under the exclusive lifecycle lock *)
(* each selected endpoint is configured, probed for a number of rounds     *)
(* (can_probe.py), asked for parameters (parameter_probe.py) and taken     *)
(* down again.  A motor answers a refresh or a query once or twice, and     *)
(* when it likes, in order; its answers reach the raw socket and the socket *)
(* of the SDK alike.  A signal raises in whatever the code is doing.        *)
(***************************************************************************)
EXTENDS Integers, Sequences, SequencesExt

CONSTANTS
  Selected,    \* the endpoints, in their order
  Motors,      \* the motors of an endpoint
  Rounds,      \* motor_probe_duration_s * motor_probe_rate_hz
  Registers,   \* the number of ReadRegister's members
  MaxSignals   \* bound on the signals

ASSUME CaptureAssumption ==
  /\ Selected \in Seq(STRING) /\ Len(Selected) > 0 /\ Motors # {}
  /\ Rounds \in Nat \ {0} /\ Registers \in Nat /\ MaxSignals \in Nat

VARIABLES
  doing,      \* where capture_follower_feedback is
  asks,       \* whether the parameters of a motor are asked for
  turn,       \* the endpoint
  owned,      \* interfaces to take down
  up,         \* interfaces that are UP
  locked,     \* the lifecycle lock
  handling,   \* what SIGINT and SIGTERM do: "default", "raise" or "ignore"
  struckBy,   \* signals so far
  cut,        \* whether one came before the finally shut signals out
  raising,    \* whether an exception is on its way to the caller
  leftUp,     \* cleanup_errors: interfaces whose _down failed
  verdictOf,  \* report["status"]
  saved,      \* whether report.json was written
  session,    \* the SDK handle and the raw socket are open
  round,      \* the round, or the register
  due,        \* answers under way from a motor, each the round it is of
  late,       \* the motors with one under way when the round began
  raw,        \* answers in the raw socket
  sdk,        \* answers in the socket of the SDK
  frames,     \* _raw_frames: the last answer drained
  counts,     \* _raw_counts
  cached,     \* the state in the SDK's cache
  evidence    \* what was handed on: on_feedback and on_reading

reportVarsOf == <<leftUp, verdictOf, saved>>
processVars == <<owned, up, locked, handling, struckBy, cut, raising, reportVarsOf>>
roundVars == <<late, frames, counts, cached>>
wireVars == <<due, raw, sdk>>
captureVars == <<doing, asks, turn, processVars, session, round, wireVars, roundVars, evidence>>

Interface == Selected[turn]
Nothing == [m \in Motors |-> <<>>]
Zero == [m \in Motors |-> 0]
InTry == {"checks", "configure", "open", "drain", "refresh", "collect", "read", "query",
          "reply", "close", "down"}

CaptureInit ==
  /\ doing = "lock" /\ asks \in BOOLEAN /\ turn = 1 /\ owned = {} /\ up = {} /\ locked = FALSE
  /\ handling = "default" /\ struckBy = 0 /\ cut = FALSE /\ raising = FALSE
  /\ leftUp = {} /\ verdictOf = "failed" /\ saved = FALSE
  /\ session = FALSE /\ round = 0
  /\ late = {} /\ due = Nothing /\ raw = Nothing /\ sdk = Nothing
  /\ frames = Zero /\ counts = Zero /\ cached = Zero /\ evidence = <<>>

Does(from, to) == doing = from /\ doing' = to
-----------------------------------------------------------------------------
(* The motors: an answer arrives.                                            *)
Answers(m) ==
  /\ due[m] # <<>> /\ session
  /\ due' = [due EXCEPT ![m] = Tail(@)]
  /\ raw' = [raw EXCEPT ![m] = Append(@, Head(due[m]))]
  /\ sdk' = [sdk EXCEPT ![m] = Append(@, Head(due[m]))]
  /\ UNCHANGED <<doing, asks, turn, processVars, session, round, roundVars, evidence>>
-----------------------------------------------------------------------------
AcquireAndInstall ==
  /\ Does("lock", "checks")
  /\ locked' = TRUE /\ handling' = "raise"
  /\ UNCHANGED <<asks, turn, owned, up, struckBy, cut, raising, reportVarsOf, session, round,
                 wireVars, roundVars, evidence>>

(* No competing control, services inactive, every link DOWN, identities.     *)
Checked ==
  /\ Does("checks", "configure")
  /\ UNCHANGED <<asks, turn, processVars, session, round, wireVars, roundVars, evidence>>

ConfigureEnds ==
  \/ Does("configure", "open") /\ UNCHANGED raising
  \/ Does("configure", "unwinding") /\ raising' = TRUE

(* Mutant: an interface is owned only once it was configured.                *)
Configure_OwnedAfter ==
  /\ ConfigureEnds
  /\ owned' = IF raising' THEN owned ELSE owned \cup {Interface}
  /\ up' = up \cup {Interface}
  /\ UNCHANGED <<asks, turn, locked, handling, struckBy, cut, reportVarsOf, session, round,
                 wireVars, roundVars, evidence>>

(* _configure_can may fail after the link is UP.                             *)
Configure ==
  /\ ConfigureEnds
  /\ owned' = owned \cup {Interface} /\ up' = up \cup {Interface}
  /\ UNCHANGED <<asks, turn, locked, handling, struckBy, cut, reportVarsOf, session, round,
                 wireVars, roundVars, evidence>>

OpenBackend ==
  /\ Does("open", "drain") /\ session' = TRUE /\ round' = 1
  /\ UNCHANGED <<asks, turn, processVars, wireVars, roundVars, evidence>>

(* _SocketCanProbeBackend._drain                                             *)
DrainRaw ==
  /\ raw' = Nothing
  /\ frames' = [m \in Motors |-> IF raw[m] = <<>> THEN frames[m] ELSE Last(raw[m])]
  /\ counts' = [m \in Motors |-> counts[m] + Len(raw[m])]

(* Mutant: what waits in the socket is taken for the new round's.            *)
BeginRound_KeepsOld ==
  /\ Does("drain", "refresh")
  /\ frames' = Zero /\ counts' = Zero /\ late' = {m \in Motors : due[m] # <<>>}
  /\ UNCHANGED <<asks, turn, processVars, session, round, wireVars, cached, evidence>>

(* sample_round: drain, forget, refresh, then drain until its period is over. *)
BeginRound ==
  /\ Does("drain", "refresh")
  /\ raw' = Nothing /\ frames' = Zero /\ counts' = Zero
  /\ late' = {m \in Motors : due[m] # <<>>}
  /\ UNCHANGED <<asks, turn, processVars, session, round, due, sdk, cached, evidence>>

Receives ==
  /\ sdk' = Nothing
  /\ cached' = [m \in Motors |-> IF sdk[m] = <<>> THEN cached[m] ELSE Last(sdk[m])]

OnceOrTwice(n) == {<<n>>, <<n, n>>}

Refresh ==
  /\ Does("refresh", "collect")
  /\ \E copies \in [Motors -> OnceOrTwice(round)] :
       due' = [m \in Motors |-> due[m] \o copies[m]]
  /\ Receives
  /\ UNCHANGED <<asks, turn, processVars, session, round, raw, late, frames, counts, evidence>>

Collect ==
  /\ doing = "collect" /\ raw # Nothing /\ DrainRaw
  /\ UNCHANGED <<doing, asks, turn, processVars, session, round, due, sdk, late, cached, evidence>>

Complete == \A m \in Motors : counts'[m] > 0

Raise ==
  /\ doing' = "unwinding" /\ session' = FALSE /\ raising' = TRUE
  /\ UNCHANGED <<owned, up, locked, handling, struckBy, cut, reportVarsOf>>

PeriodOver ==
  /\ doing = "collect" /\ DrainRaw
  /\ IF Complete THEN doing' = "read" /\ UNCHANGED <<session, processVars>> ELSE Raise
  /\ UNCHANGED <<asks, turn, round, due, sdk, late, cached, evidence>>

(* read_feedback, and its health check: duplicates are refused; the SDK's    *)
(* socket is read once more.                                                 *)
ReadFeedback ==
  /\ doing = "read" /\ \A m \in Motors : counts[m] = 1
  /\ Receives
  /\ evidence' = Append(evidence, [of |-> round, raw |-> frames, sdk |-> cached', late |-> late])
  /\ IF round < Rounds THEN doing' = "drain" /\ round' = round + 1
                       ELSE doing' = "close" /\ round' = 0
  /\ UNCHANGED <<asks, turn, processVars, session, due, raw, late, frames, counts>>

ReadAmbiguous ==
  /\ doing = "read" /\ \E m \in Motors : counts[m] # 1
  /\ Raise /\ UNCHANGED <<asks, turn, round, wireVars, roundVars, evidence>>

(* The backend is closed; a new socket is bound for the parameters.          *)
CloseBackend ==
  /\ Does("close", IF asks THEN "query" ELSE "down")
  /\ round' = IF asks THEN 1 ELSE 0
  /\ session' = asks
  /\ raw' = Nothing /\ sdk' = Nothing /\ UNCHANGED due
  /\ late' = {} /\ frames' = Zero /\ counts' = Zero /\ cached' = Zero
  /\ UNCHANGED <<asks, turn, processVars, evidence>>

Asked == CHOOSE m \in Motors : TRUE
Register == Rounds + round

(* query: anything that waits in the socket refuses it before it is sent.    *)
SendQuery ==
  /\ Does("query", "reply") /\ raw[Asked] = <<>>
  /\ \E copies \in OnceOrTwice(Register) :
       due' = [due EXCEPT ![Asked] = @ \o copies]
  /\ UNCHANGED <<asks, turn, processVars, session, round, raw, sdk, roundVars, evidence>>

(* Mutant: any frame of the motor is taken for the reply.                    *)
Reply_Any == TRUE

(* decode: the register of the frame is that of the request.                 *)
Reply == Head(raw[Asked]) = Register

ReceiveReply ==
  /\ doing = "reply" /\ raw[Asked] # <<>>
  /\ IF Reply /\ counts[Asked] = 0
       THEN /\ frames' = [frames EXCEPT ![Asked] = Head(raw[Asked])]
            /\ counts' = [counts EXCEPT ![Asked] = 1]
            /\ raw' = [raw EXCEPT ![Asked] = Tail(@)]
            /\ UNCHANGED <<doing, session, processVars>>
       ELSE Raise /\ UNCHANGED <<raw, frames, counts>>
  /\ UNCHANGED <<asks, turn, round, due, sdk, late, cached, evidence>>

(* The window is waited for to its end, so that a duplicate is seen.         *)
WindowOver ==
  /\ doing = "reply" /\ raw[Asked] = <<>>
  /\ IF counts[Asked] = 1
       THEN /\ evidence' = Append(evidence, [of |-> Register, raw |-> frames, sdk |-> frames, late |-> {}])
            /\ UNCHANGED processVars
            /\ IF round < Registers THEN doing' = "query" /\ round' = round + 1 /\ UNCHANGED session
                                    ELSE doing' = "down" /\ round' = 0 /\ session' = FALSE
       ELSE Raise /\ UNCHANGED <<round, evidence>>
  /\ frames' = Zero /\ counts' = Zero
  /\ UNCHANGED <<asks, turn, wireVars, late, cached>>

(* Health, a file or the bus: whatever is being done raises.                 *)
SomethingRaises ==
  /\ doing \in InTry /\ Raise
  /\ UNCHANGED <<asks, turn, round, wireVars, roundVars, evidence>>

(* _down, owned.remove, and the next endpoint.                               *)
EndpointDown ==
  /\ doing = "down"
  /\ up' = up \ {Interface} /\ owned' = owned \ {Interface}
  /\ due' = Nothing /\ raw' = Nothing /\ sdk' = Nothing /\ evidence' = <<>>
  /\ IF turn < Len(Selected) /\ ~asks  \* parameters are of one endpoint
       THEN doing' = "configure" /\ turn' = turn + 1 /\ UNCHANGED verdictOf
       ELSE doing' = "unwinding" /\ UNCHANGED turn /\ verdictOf' = "passed"
  /\ UNCHANGED <<asks, locked, handling, struckBy, cut, raising, leftUp, saved, session, round,
                 roundVars>>
-----------------------------------------------------------------------------
(* The finally.                                                              *)
IgnoreSignals ==
  /\ Does("unwinding", "cleanup") /\ handling' = "ignore"
  /\ UNCHANGED <<asks, turn, owned, up, locked, struckBy, cut, raising, reportVarsOf, session,
                 round, wireVars, roundVars, evidence>>

CleanUpOne ==
  /\ doing = "cleanup"
  /\ \E i \in owned \ leftUp :
       \/ up' = up \ {i} /\ owned' = owned \ {i} /\ UNCHANGED leftUp
       \/ leftUp' = leftUp \cup {i} /\ UNCHANGED <<owned, up>>
  /\ UNCHANGED <<doing, asks, turn, locked, handling, struckBy, cut, raising, verdictOf, saved,
                 session, round, wireVars, roundVars, evidence>>

(* The report may not get written, which raises in its turn.                 *)
ReportAndUnlock ==
  /\ owned \subseteq leftUp /\ Does("cleanup", "over")
  /\ verdictOf' = IF leftUp = {} THEN verdictOf ELSE "failed"
  /\ \E fine \in BOOLEAN : saved' = fine /\ raising' = (raising \/ ~fine \/ leftUp # {})
  /\ locked' = FALSE /\ handling' = "default"
  /\ UNCHANGED <<asks, turn, owned, up, struckBy, cut, leftUp, session, round, wireVars,
                 roundVars, evidence>>

(* InterruptedError.  In the try it unwinds, with a passed report too once   *)
(* nothing was left to do; in the moment between that, or whatever else      *)
(* ended the try, and SIG_IGN it leaves the function by the first lines of   *)
(* the finally.                                                              *)
Unwinds ==
  /\ handling = "raise" /\ doing \in InTry \cup {"unwinding"}
  /\ doing' = "unwinding" /\ session' = FALSE /\ raising' = TRUE /\ UNCHANGED <<locked, cut>>

LeavesAtOnce ==
  /\ handling = "raise" /\ doing = "unwinding"
  /\ doing' = "over" /\ raising' = TRUE /\ cut' = TRUE /\ locked' = FALSE /\ UNCHANGED session

IsIgnored == handling = "ignore" /\ UNCHANGED <<doing, session, raising, locked, cut>>

Signalled ==
  /\ struckBy < MaxSignals /\ struckBy' = struckBy + 1
  /\ Unwinds \/ LeavesAtOnce \/ IsIgnored
  /\ UNCHANGED <<asks, turn, owned, up, handling, reportVarsOf, round, wireVars, roundVars,
                 evidence>>

CaptureNext ==
  \/ \E m \in Motors : Answers(m)
  \/ AcquireAndInstall \/ Checked \/ Configure \/ OpenBackend \/ BeginRound \/ Refresh
  \/ Collect \/ PeriodOver \/ ReadFeedback \/ ReadAmbiguous \/ CloseBackend \/ SendQuery
  \/ ReceiveReply \/ WindowOver \/ SomethingRaises \/ EndpointDown \/ IgnoreSignals
  \/ CleanUpOne \/ ReportAndUnlock \/ Signalled

CaptureSpec == CaptureInit /\ [][CaptureNext]_captureVars
-----------------------------------------------------------------------------
(* A capture that returns has taken every link it brought UP down again; one *)
(* that ends by any failure has too, or names in its report, if it got       *)
(* written, the links it could not, and says failed.  Only a signal in the   *)
(* moment between the end of the try, however it ended, and the loop that    *)
(* shuts signals out can cut that short.  While a link is UP the lock is     *)
(* held.                                                                     *)
LinksReturned ==
  /\ up # {} /\ doing # "over" => locked
  /\ doing = "over" /\ ~raising => up = {} /\ saved
  /\ doing = "over" /\ ~cut =>
       up \subseteq leftUp /\ (saved /\ leftUp # {} => verdictOf = "failed")

(* "One interrupt is enough. Keep cleanup deterministic on a second signal." *)
(* (feedback_capture.py:269): after a second signal, too, the links are DOWN *)
(* or named as not.                                                          *)
SecondSignalHarmless == doing = "over" /\ struckBy >= 2 => up \subseteq leftUp

(* What is handed on as a round or a reading is of one answer: the raw frame *)
(* and the SDK's state of a motor both answer this round's refresh, however  *)
(* often and late it was answered and whatever the rounds before left in the *)
(* sockets, unless an answer to one of those was still under way when the    *)
(* round began; and a parameter's value answers its own query, whatever is   *)
(* under way.                                                                *)
EvidencePaired ==
  \A i \in DOMAIN evidence :
    LET e == evidence[i]
        told == IF e.of > Rounds THEN {Asked} ELSE Motors \ e.late
    IN \A m \in told : e.raw[m] = e.of /\ e.sdk[m] = e.of
=============================================================================
