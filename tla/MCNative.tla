------------------------------ MODULE MCNative ------------------------------
(* What the native controllers watch and report, each on its own: a          *)
(* behaviour is one of the joint safety monitor, of the raw telemetry and    *)
(* its session, or of the passive log, whichever `native` says.  Two joints  *)
(* and a few instants are enough for the first joint to warn while the next  *)
(* one leaves its bounds or recovers.                                        *)
EXTENDS JointSafety, MotorTelemetry, PassiveFeedbackLog, TLC

CONSTANTS tx1, tx2, rx1, rx2

MCMotorNames == {tx1, tx2}
MCResponseIds == {rx1, rx2}

(* No motor is told from another by the telemetry or by the log.             *)
MCSymmetry == Permutations(MCMotorNames) \cup Permutations(MCResponseIds)

VARIABLE native

nativeVars == <<native, vars, telemetryVars, logVars>>

NativeInit ==
  /\ native \in {"monitor", "telemetry", "log"}
  /\ native # "log" => retainLatest = TRUE
  /\ Init /\ TelemetryInit /\ LogInit

OfMonitor(Action) ==
  native = "monitor" /\ Action /\ UNCHANGED <<native, telemetryVars, logVars>>
OfTelemetry(Action) ==
  native = "telemetry" /\ Action /\ UNCHANGED <<native, vars, logVars>>
OfLog(Action) ==
  native = "log" /\ Action /\ UNCHANGED <<native, vars, telemetryVars>>

NativeSpec ==
  /\ NativeInit
  /\ [][OfMonitor(Next) \/ OfTelemetry(TelemetryNext) \/ OfLog(LogNext)]_nativeVars
=============================================================================
