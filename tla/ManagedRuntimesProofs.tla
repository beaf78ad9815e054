----------------------- MODULE ManagedRuntimesProofs -----------------------
(***************************************************************************)
(* For any number of managed launches in any order, any number of links    *)
(* and crashes: no native controller starts before every side has passed   *)
(* its motion-free probe; and what the parent reports as stopped is        *)
(* stopped, when no two launches share a side.                             *)
(*                                                                         *)
(* The parent looks at the probes once and then opens the gates one by one *)
(* while launches go on and fail.  The invariant names the three places    *)
(* from which a controller may come, an open gate, a launch past it and a  *)
(* controller that is there, and the one from which a gate is opened.      *)
(*                                                                         *)
(* For the end of the session the invariant says what each launch owes     *)
(* (LaunchAccount) and how far the loops of _stop_all have come            *)
(* (StopProgress).  A START that could not be written makes the first loop *)
(* raise; ReleaseInv says that only launches before that one, which the    *)
(* loop has signalled by then, had a way to a controller.                  *)
(***************************************************************************)
EXTENDS ManagedRuntimes, XAirLifecycleProofs

GateTypes ==
  /\ pc \in [Launches -> Labels]
  /\ gate \in [Launches -> {"waiting", "start", "closed"}]
  /\ probed \in [Launches -> BOOLEAN]
  /\ sidecar \in [Launches -> {"none", "exited", "failed"} \cup AliveStates]

AllProbed == \A m \in Launches : probed[m]

Past(l) == gate[l] = "start" \/ pc[l] = "prestart" \/ sidecar[l] # "none"

(* A managed launch comes to the start by its gate alone.                    *)
ByTheGate == \A l \in Launches : pc[l] # "interlock" /\ (Past(l) => AllProbed)

(* No launch comes closer to a controller but by a gate that is opened.      *)
NoneStarts == \A m \in Launches : Past(m)' => Past(m)

PairedInv == GateTypes /\ ByTheGate /\ (ppc = "release" => AllProbed)

LEMMA AllManaged == \A l \in Launches : ModeOf[l] = "managed" /\ ~Isolated(l)
BY OrderAssumption DEF OrderAssumption, Isolated

LEMMA ManagedInitInv == ManagedInit => PairedInv
BY DEF ManagedInit, Init, PairedInv, GateTypes, ByTheGate, Past, Labels

(* A probe once passed stays passed.                                         *)
LEMMA ProbedStays ==
  ASSUME PairedInv, NEW l \in Launches, probed' \in {probed, [probed EXCEPT ![l] = TRUE]}
  PROVE  probed' \in [Launches -> BOOLEAN] /\ (AllProbed => AllProbed')
BY DEF PairedInv, GateTypes, AllProbed

(* A launch on its way to its controller.                                    *)
LEMMA StartingSteps ==
  ASSUME PairedInv, NEW l \in Launches, UNCHANGED ppc,
         \/ Launch(l) \/ ReadBaseline(l) \/ AcquireLifecycleLock(l)
         \/ RequireExclusiveControl(l) \/ RemoveOrphanBeforeStart(l)
         \/ ConfigureCan(l) \/ ConfigureCanFails(l)
         \/ ProbeMotorFeedback(l) \/ RecheckInterlock(l)
         \/ AwaitRelease(l) \/ LeaveGate(l) \/ StartupFault(l)
         \/ StartSidecar(l)
  PROVE  PairedInv' /\ NoneStarts
<1>1. CASE Launch(l) \/ ReadBaseline(l)
  BY <1>1, AllManaged DEF Launch, ReadBaseline, Goto, launchVars, childVars,
                          AllProbed, PairedInv, GateTypes, ByTheGate, Past, NoneStarts,
                          Labels, Active, PreHandler, Starting, Supervising,
                          Cleaning, Gone, AliveStates, BoundStates,
                          DestroyStates, Alive
<1>2. CASE AcquireLifecycleLock(l)
  BY <1>2, AllManaged DEF AcquireLifecycleLock, Refuse, Leave, Goto, childVars,
                          AllProbed, PairedInv, GateTypes, ByTheGate, Past, NoneStarts,
                          Labels, Active, PreHandler, Starting, Supervising,
                          Cleaning, Gone, AliveStates, BoundStates,
                          DestroyStates, Alive
<1>3. CASE RequireExclusiveControl(l)
  BY <1>3, AllManaged DEF RequireExclusiveControl, Refuse, Leave, Goto,
                          launchVars, childVars, AllProbed, PairedInv,
                          GateTypes, ByTheGate, Past, NoneStarts, Labels, Active,
                          PreHandler, Starting, Supervising, Cleaning, Gone,
                          AliveStates, BoundStates, DestroyStates, Alive
<1>4. CASE RemoveOrphanBeforeStart(l)
  BY <1>4, AllManaged DEF RemoveOrphanBeforeStart, Refuse, Leave, Goto,
                          launchVars, childVars, AllProbed, PairedInv,
                          GateTypes, ByTheGate, Past, NoneStarts, Labels, Active,
                          PreHandler, Starting, Supervising, Cleaning, Gone,
                          AliveStates, BoundStates, DestroyStates, Alive
<1>5. CASE ConfigureCan(l)
  BY <1>5, AllManaged DEF ConfigureCan, Goto, childVars, AllProbed, PairedInv,
                          GateTypes, ByTheGate, Past, NoneStarts, Labels, Active,
                          PreHandler, Starting, Supervising, Cleaning, Gone,
                          AliveStates, BoundStates, DestroyStates, Alive
<1>6. CASE ConfigureCanFails(l)
  BY <1>6, AllManaged DEF ConfigureCanFails, ToFinally, Goto, childVars,
                          AllProbed, PairedInv, GateTypes, ByTheGate, Past, NoneStarts,
                          Labels, Active, PreHandler, Starting, Supervising,
                          Cleaning, Gone, AliveStates, BoundStates,
                          DestroyStates, Alive
<1>7. CASE ProbeMotorFeedback(l)
  <2>1. pc' \in {pc, [pc EXCEPT ![l] = "gate"]} /\ UNCHANGED <<gate, sidecar>>
    BY <1>7, AllManaged DEF ProbeMotorFeedback, Goto, childVars
  <2>2. probed' \in {probed, [probed EXCEPT ![l] = TRUE]}
    BY <1>7 DEF ProbeMotorFeedback
  <2>3. probed' \in [Launches -> BOOLEAN] /\ (AllProbed => AllProbed')
    BY <2>2, ProbedStays
  <2> QED
    BY <2>1, <2>3 DEF PairedInv, GateTypes, ByTheGate, Past, NoneStarts, Labels, Active, Starting
<1>8. CASE RecheckInterlock(l)
  BY <1>8, AllManaged DEF RecheckInterlock, AllProbed, PairedInv, GateTypes,
                          ByTheGate, Past, NoneStarts, Labels, Active, PreHandler,
                          Starting, Supervising, Cleaning, Gone, AliveStates,
                          BoundStates, DestroyStates, Alive
<1>9. CASE AwaitRelease(l)
  BY <1>9, AllManaged DEF AwaitRelease, Goto, launchVars, childVars, AllProbed,
                          PairedInv, GateTypes, ByTheGate, Past, NoneStarts, Labels,
                          Active, PreHandler, Starting, Supervising, Cleaning,
                          Gone, AliveStates, BoundStates, DestroyStates, Alive
<1>10. CASE LeaveGate(l)
  BY <1>10, AllManaged DEF LeaveGate, ToFinally, Goto, childVars, AllProbed,
                           PairedInv, GateTypes, ByTheGate, Past, NoneStarts, Labels,
                           Active, PreHandler, Starting, Supervising, Cleaning,
                           Gone, AliveStates, BoundStates, DestroyStates,
                           Alive
<1>11. CASE StartupFault(l)
  BY <1>11, AllManaged DEF StartupFault, ToFinally, Goto, childVars, AllProbed,
                           PairedInv, GateTypes, ByTheGate, Past, NoneStarts, Labels,
                           Active, PreHandler, Starting, Supervising, Cleaning,
                           Gone, AliveStates, BoundStates, DestroyStates,
                           Alive
<1>12. CASE StartSidecar(l)
  BY <1>12, AllManaged DEF StartSidecar, Goto, launchVars, AllProbed,
                           PairedInv, GateTypes, ByTheGate, Past, NoneStarts, Labels,
                           Active, PreHandler, Starting, Supervising, Cleaning,
                           Gone, AliveStates, BoundStates, DestroyStates,
                           Alive
<1> QED  BY <1>1, <1>2, <1>3, <1>4, <1>5, <1>6, <1>7, <1>8, <1>9, <1>10, <1>11,
            <1>12

(* A launch with its controller, and after it.                               *)
LEMMA EndingSteps ==
  ASSUME PairedInv, NEW l \in Launches, UNCHANGED ppc,
         \/ Monitor(l) \/ SignalSidecar(l) \/ ReapSidecar(l)
         \/ KillSidecar(l) \/ BeginCleanup(l) \/ DisableMotors(l)
         \/ CloseLink(l) \/ Exit(l) \/ CrashLaunch(l)
  PROVE  PairedInv' /\ NoneStarts
<1>1. CASE Monitor(l)
  BY <1>1, AllManaged DEF Monitor, ToFinally, Goto, childVars, AllProbed,
                          PairedInv, GateTypes, ByTheGate, Past, NoneStarts, Labels,
                          Active, PreHandler, Starting, Supervising, Cleaning,
                          Gone, AliveStates, BoundStates, DestroyStates, Alive
<1>2. CASE SignalSidecar(l)
  BY <1>2, AllManaged DEF SignalSidecar, Goto, launchVars, AllProbed,
                          PairedInv, GateTypes, ByTheGate, Past, NoneStarts, Labels,
                          Active, PreHandler, Starting, Supervising, Cleaning,
                          Gone, AliveStates, BoundStates, DestroyStates, Alive
<1>3. CASE ReapSidecar(l)
  BY <1>3, AllManaged DEF ReapSidecar, Goto, childVars, AllProbed, PairedInv,
                          GateTypes, ByTheGate, Past, NoneStarts, Labels, Active,
                          PreHandler, Starting, Supervising, Cleaning, Gone,
                          AliveStates, BoundStates, DestroyStates, Alive
<1>4. CASE KillSidecar(l)
  BY <1>4, AllManaged DEF KillSidecar, DieUncleanly, SidecarEnds, launchVars,
                          AllProbed, PairedInv, GateTypes, ByTheGate, Past, NoneStarts,
                          Labels, Active, PreHandler, Starting, Supervising,
                          Cleaning, Gone, AliveStates, BoundStates,
                          DestroyStates, Alive
<1>5. CASE BeginCleanup(l) \/ DisableMotors(l) \/ CloseLink(l)
  BY <1>5, AllManaged DEF BeginCleanup, DisableMotors, CloseLink, Goto,
                          childVars, AllProbed, PairedInv, GateTypes,
                          ByTheGate, Past, NoneStarts, Labels, Active, PreHandler,
                          Starting, Supervising, Cleaning, Gone, AliveStates,
                          BoundStates, DestroyStates, Alive
<1>6. CASE Exit(l)
  BY <1>6, AllManaged DEF Exit, Leave, Goto, childVars, AllProbed, PairedInv,
                          GateTypes, ByTheGate, Past, NoneStarts, Labels, Active,
                          PreHandler, Starting, Supervising, Cleaning, Gone,
                          AliveStates, BoundStates, DestroyStates, Alive
<1>7. CASE CrashLaunch(l)
  BY <1>7, AllManaged DEF CrashLaunch, Leave, Goto, childVars, AllProbed,
                          PairedInv, GateTypes, ByTheGate, Past, NoneStarts, Labels,
                          Active, PreHandler, Starting, Supervising, Cleaning,
                          Gone, AliveStates, BoundStates, DestroyStates, Alive
<1> QED  BY <1>1, <1>2, <1>3, <1>4, <1>5, <1>6, <1>7

(* The controller, with a parent or without.                                 *)
LEMMA ControllerSteps ==
  ASSUME PairedInv, NEW l \in Launches, UNCHANGED ppc,
         \/ BindControl(l) \/ CreateUnilateral(l) \/ ControlRunning(l)
         \/ StopControl(l) \/ SidecarRefuses(l) \/ CreateFails(l)
         \/ DestroyHandle(l) \/ BrokenPipe(l) \/ CrashSidecar(l)
         \/ UnheardLine(l) \/ UnheardRunning(l) \/ UnheardWarning(l)
  PROVE  PairedInv' /\ NoneStarts
<1>1. CASE BindControl(l) \/ CreateUnilateral(l) \/ ControlRunning(l) \/ StopControl(l)
  BY <1>1, AllManaged DEF BindControl, CreateUnilateral, ControlRunning,
                          StopControl, launchVars, AllProbed, PairedInv,
                          GateTypes, ByTheGate, Past, NoneStarts, Labels, Active,
                          PreHandler, Starting, Supervising, Cleaning, Gone,
                          AliveStates, BoundStates, DestroyStates, Alive
<1>2. CASE SidecarRefuses(l) \/ CreateFails(l) \/ DestroyHandle(l)
  BY <1>2, AllManaged DEF SidecarRefuses, CreateFails, DestroyHandle,
                          SidecarEnds, launchVars, AllProbed, PairedInv,
                          GateTypes, ByTheGate, Past, NoneStarts, Labels, Active,
                          PreHandler, Starting, Supervising, Cleaning, Gone,
                          AliveStates, BoundStates, DestroyStates, Alive
<1>3. CASE BrokenPipe(l) \/ CrashSidecar(l) \/ UnheardLine(l)
  BY <1>3, AllManaged DEF BrokenPipe, CrashSidecar, UnheardLine, DieUncleanly,
                          SidecarEnds, launchVars, AllProbed, PairedInv,
                          GateTypes, ByTheGate, Past, NoneStarts, Labels, Active,
                          PreHandler, Starting, Supervising, Cleaning, Gone,
                          AliveStates, BoundStates, DestroyStates, Alive
<1>4. CASE UnheardRunning(l)
  BY <1>4, AllManaged DEF UnheardRunning, launchVars, AllProbed, PairedInv,
                          GateTypes, ByTheGate, Past, NoneStarts, Labels, Active,
                          PreHandler, Starting, Supervising, Cleaning, Gone,
                          AliveStates, BoundStates, DestroyStates, Alive
<1>5. CASE UnheardWarning(l)
  BY <1>5, AllManaged DEF UnheardWarning, Refuse, Leave, Goto, childVars,
                          AllProbed, PairedInv, GateTypes, ByTheGate, Past, NoneStarts,
                          Labels, Active, PreHandler, Starting, Supervising,
                          Cleaning, Gone, AliveStates, BoundStates,
                          DestroyStates, Alive
<1> QED  BY <1>1, <1>2, <1>3, <1>4, <1>5

(* The parent opens the gates only after both probes, and starts and stops   *)
(* the launches without starting a controller.                               *)
LEMMA ParentSteps ==
  ASSUME PairedInv,
         \/ Enter \/ RaiseIfRuntimeExited \/ LeaveWith \/ StopAll
         \/ ParentDies \/ ParentEnds
  PROVE  PairedInv'
<1> DEFINE Untouched == UNCHANGED <<pc, gate, probed, sidecar>>
<1>1. ASSUME Untouched, ppc' # "release" \/ ppc' = ppc
      PROVE  PairedInv'
  BY <1>1 DEF PairedInv, GateTypes, ByTheGate, Past, AllProbed
<1>2. CASE Spawn
  <2>1. /\ pc' = [pc EXCEPT ![Runtime] = "launched"] /\ UNCHANGED <<gate, probed, sidecar>>
        /\ ppc' # "release" \/ ppc' = ppc
    BY <1>2 DEF Spawn, Launch, Goto, Advance, launchVars, childVars
  <2> QED
    BY <2>1 DEF PairedInv, GateTypes, ByTheGate, Past, AllProbed, Labels, Active, PreHandler
<1>3. CASE AwaitPreflights
  BY <1>3 DEF AwaitPreflights, PreflightsReady, vars, launchVars, childVars, PairedInv,
              GateTypes, ByTheGate, Past, AllProbed
<1>4. CASE Release
  <2>1. /\ gate' \in {gate, [gate EXCEPT ![Runtime] = "start"]} /\ ppc = "release"
        /\ UNCHANGED <<pc, probed, sidecar>>
    BY <1>4 DEF Release, childVars
  <2> QED  BY <2>1 DEF PairedInv, GateTypes, ByTheGate, Past, AllProbed
<1>5. CASE \/ WaitUntilReady \/ RaiseIfRuntimeExited \/ LeaveWith \/ CloseRaises
           \/ WaitRuntime \/ VerifyRuntime
  <2>1. Untouched /\ (ppc' # "release" \/ ppc' = ppc)
    BY <1>5 DEF WaitUntilReady, RaiseIfRuntimeExited, LeaveWith, CloseRaises, WaitRuntime,
                VerifyRuntime, BeginStop, Advance, vars, launchVars, childVars
  <2> QED  BY <1>1, <2>1
<1>6. CASE SignalGroup
  <2>1. /\ \A l \in Launches : gate'[l] = "start" => gate[l] = "start"
        /\ gate' \in [Launches -> {"waiting", "start", "closed"}]
    BY <1>6 DEF SignalGroup, PairedInv, GateTypes
  <2>2. pc' \in {pc, [pc EXCEPT ![Runtime] = "exited"]} /\ UNCHANGED <<probed, sidecar>>
    BY <1>6 DEF SignalGroup, Leave, Goto
  <2>3. ppc' # "release"
    BY <1>6 DEF SignalGroup, Advance
  <2> QED
    BY <2>1, <2>2, <2>3 DEF PairedInv, GateTypes, ByTheGate, Past, AllProbed, Labels, Gone
<1>7. CASE KillGroup
  <2>1. pc' = [pc EXCEPT ![Runtime] = "crashed"] /\ UNCHANGED <<gate, probed>>
    BY <1>7 DEF KillGroup, Leave, Goto
  <2>2. sidecar' = sidecar \/ (Alive(Runtime) /\ sidecar' = [sidecar EXCEPT ![Runtime] = "failed"])
    BY <1>7 DEF KillGroup, DieUncleanly, SidecarEnds
  <2>3. ppc' # "release"
    BY <1>7 DEF KillGroup, Advance
  <2> QED
    BY <2>1, <2>2, <2>3
       DEF PairedInv, GateTypes, ByTheGate, Past, AllProbed, Labels, Gone, Alive,
           AliveStates, BoundStates, DestroyStates
<1>8. CASE ParentDies \/ ParentEnds
  <2>1. /\ \A l \in Launches : gate'[l] = "start" => gate[l] = "start"
        /\ gate' \in [Launches -> {"waiting", "start", "closed"}]
        /\ ppc' \in {"crashed", "ended"} /\ UNCHANGED <<pc, probed, sidecar>>
    BY <1>8 DEF ParentDies, ParentEnds, PipesClose, childVars, PairedInv, GateTypes
  <2> QED  BY <2>1 DEF PairedInv, GateTypes, ByTheGate, Past, AllProbed
<1> QED
  BY <1>2, <1>3, <1>4, <1>5, <1>6, <1>7, <1>8 DEF Enter, StopAll

(* A launch or its controller moves.                                         *)
LEMMA ChildKeepsPairing ==
  ASSUME PairedInv, NEW l \in Launches, Child(l), UNCHANGED parentVars
  PROVE  PairedInv' /\ NoneStarts
<1>1. UNCHANGED ppc
  BY DEF parentVars
<1> QED
  BY <1>1, StartingSteps, EndingSteps, ControllerSteps
  DEF Child, Quiet, Controls, Hardware, Prints, Unheard

LEMMA ManagedStep == PairedInv /\ [ManagedNext]_mvars => PairedInv'
<1> SUFFICES ASSUME PairedInv, [ManagedNext]_mvars  PROVE PairedInv'
  OBVIOUS
<1>1. CASE \/ Enter \/ RaiseIfRuntimeExited \/ LeaveWith \/ StopAll
           \/ ParentDies \/ ParentEnds
  BY <1>1, ParentSteps
<1>2. ASSUME NEW l \in Launches, Child(l), UNCHANGED parentVars
      PROVE  PairedInv'
  BY <1>2, ChildKeepsPairing
<1>3. CASE UNCHANGED mvars
  BY <1>3 DEF mvars, vars, launchVars, childVars, parentVars, PairedInv, GateTypes,
              ByTheGate, Past, AllProbed
<1> QED  BY <1>1, <1>2, <1>3 DEF ManagedNext

(* No native controller of any side starts before every side has passed its  *)
(* motion-free probe, however launches, gates, links and the parent fail     *)
(* (managed.py, _release_bimanual_startup).                                  *)
THEOREM PreflightsPaired == ManagedSpec => []PairedPreflight
<1>1. PairedInv => PairedPreflight
  BY DEF PairedInv, ByTheGate, Past, AllProbed, PairedPreflight
<1> QED  BY <1>1, ManagedInitInv, ManagedStep, PTL DEF ManagedSpec
-----------------------------------------------------------------------------
(* How far the release has come, and what is left of it when a START could   *)
(* not be written: only launches before the one it failed at have a way to   *)
(* their controllers.                                                        *)
ReleasedBefore(t) == \A l \in Launches : Past(l) => \E k \in 1 .. t - 1 : Order[k] = l

UnsentAt(t) == t \in turn .. Len(Order) /\ unsent = {Order[t]} /\ ReleasedBefore(t)

ReleaseInv ==
  /\ turn \in 1 .. Len(Order)
  /\ ppc \in Working => unsent = {}
  /\ ppc \in {"enter", "preflight"} => \A l \in Launches : ~Past(l)
  /\ ppc = "release" => ReleasedBefore(turn)
  /\ ppc = "signal" => unsent = {} \/ \E t \in Nat : UnsentAt(t)
  /\ ppc = "escaped" => ReleasedBefore(turn)

LEMMA ManagedInitRelease ==
  ASSUME Launches # {}, ManagedInit
  PROVE  ReleaseInv
<1>1. Len(Order) \in Nat /\ Len(Order) >= 1
  BY OrderAssumption DEF OrderAssumption
<1> QED  BY <1>1 DEF ManagedInit, Init, ReleaseInv, Past, Working

LEMMA ReleaseKept ==
  ASSUME ReleaseInv, NoneStarts, UNCHANGED <<turn, unsent>>,
         ppc' = ppc \/ ppc' \notin Working \cup {"signal", "escaped"}
  PROVE  ReleaseInv'
<1>1. ASSUME NEW t \in Nat, ReleasedBefore(t)  PROVE ReleasedBefore(t)'
  BY <1>1 DEF ReleasedBefore, NoneStarts
<1>2. ASSUME NEW t \in Nat, UnsentAt(t)  PROVE UnsentAt(t)'
  BY <1>1, <1>2 DEF UnsentAt, ReleaseInv
<1>3. ppc' = "signal" => unsent' = {} \/ \E t \in Nat : UnsentAt(t)'
  BY <1>2 DEF ReleaseInv
<1>4. ReleasedBefore(turn) => ReleasedBefore(turn)'
  BY DEF ReleasedBefore, NoneStarts
<1> QED  BY <1>3, <1>4 DEF ReleaseInv, NoneStarts, Working

LEMMA ReleaseStep == PairedInv /\ ReleaseInv /\ [ManagedNext]_mvars => ReleaseInv'
<1> SUFFICES ASSUME PairedInv, ReleaseInv, [ManagedNext]_mvars  PROVE ReleaseInv'
  OBVIOUS
<1>0. /\ turn \in Nat /\ turn \in 1 .. Len(Order) /\ Len(Order) \in Nat
      /\ 1 \in 1 .. Len(Order) /\ Runtime \in Launches
      /\ pc \in [Launches -> Labels] /\ gate \in [Launches -> {"waiting", "start", "closed"}]
      /\ \A j, k \in 1 .. Len(Order) : Order[j] = Order[k] => j = k
  BY OrderAssumption DEF OrderAssumption, ReleaseInv, PairedInv, GateTypes, Runtime
<1>1. ASSUME NEW l \in Launches, Child(l), UNCHANGED parentVars
      PROVE  ReleaseInv'
  BY <1>1, ChildKeepsPairing, ReleaseKept DEF parentVars
<1>2. CASE Spawn
  <2>1. /\ ppc = "enter" /\ pc' = [pc EXCEPT ![Runtime] = "launched"]
        /\ UNCHANGED <<gate, sidecar, unsent>> /\ Advance("preflight")
    BY <1>2 DEF Spawn, Launch, Goto, launchVars, childVars
  <2>2. NoneStarts
    BY <1>0, <2>1 DEF NoneStarts, Past
  <2> QED  BY <1>0, <2>1, <2>2 DEF ReleaseInv, Advance, NoneStarts, Working
<1>3. CASE AwaitPreflights \/ WaitUntilReady
  <2>1. /\ ppc \in {"preflight", "await"} /\ ppc' \in {"release", "running"}
        /\ (ppc' = "release" => ppc = "preflight")
        /\ UNCHANGED <<pc, gate, sidecar, turn, unsent>>
    BY <1>3 DEF AwaitPreflights, WaitUntilReady, vars, launchVars, childVars
  <2> QED  BY <1>0, <2>1 DEF ReleaseInv, ReleasedBefore, Past, Working
<1>4. CASE Release
  <2>0. ppc = "release" /\ UNCHANGED <<pc, sidecar>> /\ unsent = {} /\ ReleasedBefore(turn)
    BY <1>4 DEF Release, childVars, ReleaseInv, Working
  <2>1. CASE pc[Runtime] \in Gone
    <3>1. ppc' = "signal" /\ turn' = 1 /\ unsent' = {Runtime} /\ gate' = gate
      BY <1>4, <2>0, <2>1 DEF Release, BeginStop
    <3>2. \E t \in Nat : UnsentAt(t)'
      <4>1. ASSUME NEW t \in Nat, t = turn  PROVE UnsentAt(t)'
        BY <1>0, <2>0, <3>1, <4>1 DEF UnsentAt, ReleasedBefore, Past, Runtime
      <4> QED  BY <1>0, <4>1
    <3> QED  BY <1>0, <3>1, <3>2 DEF ReleaseInv, Working
  <2>2. CASE pc[Runtime] \notin Gone
    <3>1. Advance("await") /\ gate' = [gate EXCEPT ![Runtime] = "start"] /\ UNCHANGED unsent
      BY <1>4, <2>2 DEF Release
    <3>2. CASE turn < Len(Order)
      <4>1. turn' = turn + 1 /\ ppc' = "release"
        BY <2>0, <3>1, <3>2 DEF Advance
      <4>2. ReleasedBefore(turn)'
        BY <1>0, <2>0, <3>1, <3>2, <4>1 DEF ReleasedBefore, Past, Runtime
      <4> QED  BY <1>0, <2>0, <3>1, <3>2, <4>1, <4>2 DEF ReleaseInv, Working
    <3>3. CASE ~(turn < Len(Order))
      BY <1>0, <2>0, <3>1, <3>3 DEF Advance, ReleaseInv, Working
    <3> QED  BY <3>2, <3>3
  <2> QED  BY <2>1, <2>2
<1>5. CASE RaiseIfRuntimeExited \/ LeaveWith
  <2>1. ppc \in Working /\ ppc' = "signal" /\ turn' = 1 /\ UNCHANGED unsent
    BY <1>5 DEF RaiseIfRuntimeExited, LeaveWith, BeginStop, Working
  <2> QED  BY <1>0, <2>1 DEF ReleaseInv, Working
<1>6. CASE SignalGroup
  <2>1. /\ ppc = "signal" /\ Runtime \notin unsent /\ Advance("waiting") /\ UNCHANGED unsent
        /\ pc' \in {pc, [pc EXCEPT ![Runtime] = "exited"]} /\ UNCHANGED sidecar
        /\ \A l \in Launches : gate'[l] = "start" => gate[l] = "start"
    BY <1>0, <1>6 DEF SignalGroup, Leave, Goto
  <2>2. NoneStarts
    BY <1>0, <2>1 DEF NoneStarts, Past
  <2>3. CASE turn < Len(Order)
    <3>1. turn' = turn + 1 /\ ppc' = "signal"
      BY <2>1, <2>3 DEF Advance
    <3>2. ASSUME NEW t \in Nat, UnsentAt(t)  PROVE UnsentAt(t)'
      <4>1. t # turn
        BY <2>1, <3>2 DEF UnsentAt, Runtime
      <4> QED  BY <1>0, <2>1, <2>2, <3>1, <3>2, <4>1 DEF UnsentAt, ReleasedBefore, NoneStarts
    <3>3. unsent' = {} \/ \E t \in Nat : UnsentAt(t)'
      BY <2>1, <3>2 DEF ReleaseInv
    <3> QED  BY <1>0, <2>3, <3>1, <3>3 DEF ReleaseInv, Working
  <2>4. CASE ~(turn < Len(Order))
    BY <1>0, <2>1, <2>4 DEF Advance, ReleaseInv, Working
  <2> QED  BY <2>3, <2>4
<1>7. CASE CloseRaises
  <2>1. /\ ppc = "signal" /\ Runtime \in unsent /\ ppc' = "escaped"
        /\ UNCHANGED <<pc, gate, sidecar, turn, unsent>>
    BY <1>7 DEF CloseRaises, vars, launchVars, childVars
  <2>2. PICK t \in Nat : UnsentAt(t)
    BY <2>1 DEF ReleaseInv
  <2>3. t = turn
    BY <1>0, <2>1, <2>2 DEF UnsentAt, Runtime
  <2>4. ReleasedBefore(turn)'
    BY <2>1, <2>2, <2>3 DEF UnsentAt, ReleasedBefore, Past
  <2> QED  BY <1>0, <2>1, <2>4 DEF ReleaseInv, Working
<1>8. CASE WaitRuntime \/ KillGroup \/ VerifyRuntime
  <2>1. PICK next \in {"verify", "stopped", "unverified"} :
          ppc \in {"waiting", "verify"} /\ Advance(next) /\ UNCHANGED unsent
    BY <1>8 DEF WaitRuntime, KillGroup, VerifyRuntime
  <2> QED  BY <1>0, <2>1 DEF Advance, ReleaseInv, Working
<1>9. CASE ParentDies \/ ParentEnds
  BY <1>0, <1>9 DEF ParentDies, ParentEnds, PipesClose, ReleaseInv, Working
<1>10. CASE UNCHANGED mvars
  <2>1. NoneStarts /\ UNCHANGED <<turn, unsent, ppc>>
    BY <1>10 DEF mvars, vars, launchVars, childVars, parentVars, NoneStarts, Past
  <2> QED  BY <2>1, ReleaseKept
<1> QED  BY <1>1, <1>2, <1>3, <1>4, <1>5, <1>6, <1>7, <1>8, <1>9, <1>10
         DEF ManagedNext, Enter, StopAll
-----------------------------------------------------------------------------
(* How the session ends.  While the parent lives, every launch keeps its own *)
(* account of the robot (XAirLifecycleProofs); one that has left with    *)
(* status zero left its side stopped, and nobody else works on that side.    *)
ZeroStopped(l) ==
  pc[l] = "exited" /\ ~failed[l] =>
    /\ endpoint[SideOf[l]] = "absent"
    /\ \A i \in Ifaces : link[SideOf[l]][i] = "down" /\ motor[SideOf[l]][i] = "off"

LaunchAccount(l) ==
  /\ ChildOk(l) /\ Opened(l) /\ TakenDown(l) /\ ZeroStopped(l)
  /\ pc[l] = "crashed" /\ Alive(l) => crashes > 0

(* What the loops of _stop_all know of the launches they have been at.       *)
Before(k) == k \in 1 .. turn - 1
IsOver(l) == pc[l] \in Gone \cup {"idle"}
Asked(l) == IsOver(l) \/ stop[l]
LeftWithZero(l) == Spawned(l) => ExitedZero(l)

StopProgress ==
  /\ turn \in 1 .. Len(Order)
  /\ ppc \in {"signal", "escaped"} =>
       \A k \in 1 .. Len(Order) : Before(k) => Asked(Order[k])
  /\ ppc = "waiting" => \A k \in 1 .. Len(Order) : Before(k) => IsOver(Order[k])
  /\ ppc \in {"verify"} \cup Done => \A l \in Launches : IsOver(l)
  /\ ppc = "verify" /\ ~unverified =>
       \A k \in 1 .. Len(Order) : Before(k) => LeftWithZero(Order[k])
  /\ ppc = "stopped" => \A l \in Launches : LeftWithZero(l)

(* A parent whose process is gone promises nothing.                          *)
StopInv ==
  ~Parentless => TypeOK /\ (\A l \in Launches : LaunchAccount(l)) /\ StopProgress

(* One step of a launch or of its controller, whoever the parent is.         *)
LEMMA LaunchSteps ==
  ASSUME TypeOK, NEW l \in Launches, ChildOk(l), Opened(l),
         Launch(l) \/ Lifecycle(l) \/ Sidecar(l) \/ Hardware(l)
  PROVE  TypeOK' /\ Moves(l) /\ Touches(l) /\ Owes(l)
<1>1. TypeOK'
  BY StartupTypes, ShutdownTypes, SidecarTypes
  DEF Lifecycle, Prints, Quiet, Sidecar, Controls, Hardware
<1>2. Moves(l)
  BY StartupMoves, ShutdownMoves, SidecarMoves
  DEF Lifecycle, Prints, Quiet, Sidecar, Controls, Hardware
<1>3. Touches(l)
  BY StartupTouches, ShutdownTouches, SidecarTouches
  DEF Lifecycle, Prints, Quiet, Sidecar, Controls, Hardware
<1>4. Owes(l)
  BY StartupOwes, ShutdownOwes, SidecarOwes
  DEF Lifecycle, Prints, Quiet, Sidecar, Controls, Hardware
<1> QED  BY <1>1, <1>2, <1>3, <1>4

(* A launch that was never started, or has left, takes no step.              *)
LEMMA NoStepAfterExit ==
  ASSUME NEW l \in Launches, ChildOk(l), Lifecycle(l) \/ Sidecar(l) \/ Hardware(l)
  PROVE  pc[l] \notin {"idle", "exited"}
<1> USE DEF ChildOk, Alive, AliveStates, BoundStates, DestroyStates, Active, PreHandler,
            Starting, Supervising, Cleaning
<1>1. CASE Lifecycle(l)
  BY <1>1 DEF Lifecycle, Prints, Quiet, ProbeMotorFeedback, AwaitRelease, KillSidecar,
              AcquireLifecycleLock, RequireExclusiveControl, RemoveOrphanBeforeStart,
              ConfigureCan, ReadBaseline, RecheckInterlock, LeaveGate, StartSidecar,
              Monitor, SignalSidecar, ReapSidecar, BeginCleanup, DisableMotors,
              CloseLink, Exit
<1>2. CASE Sidecar(l)
  BY <1>2 DEF Sidecar, Controls, BindControl, SidecarRefuses, CreateUnilateral,
              CreateFails, ControlRunning, StopControl, DestroyHandle, BrokenPipe
<1>3. CASE Hardware(l)
  BY <1>3 DEF Hardware, ConfigureCanFails, StartupFault, CrashLaunch, CrashSidecar
<1> QED  BY <1>1, <1>2, <1>3

(* Only the end of its process clears the flag a launch was asked to stop by.*)
LEMMA StopFlagStays ==
  ASSUME NEW l \in Launches, Lifecycle(l) \/ Sidecar(l) \/ Hardware(l)
  PROVE  \/ stop' = stop
         \/ /\ stop' = [stop EXCEPT ![l] = FALSE]
            /\ \E label \in Gone : pc' = [pc EXCEPT ![l] = label]
<1>1. CASE Lifecycle(l)
  BY <1>1 DEF Lifecycle, Prints, Quiet, ProbeMotorFeedback, AwaitRelease, KillSidecar,
              AcquireLifecycleLock, RequireExclusiveControl, RemoveOrphanBeforeStart,
              ConfigureCan, ReadBaseline, RecheckInterlock, LeaveGate, StartSidecar,
              Monitor, SignalSidecar, ReapSidecar, BeginCleanup, DisableMotors,
              CloseLink, Exit, ToFinally, Refuse, Leave, Goto, Gone, launchVars
<1>2. CASE Sidecar(l)
  BY <1>2 DEF Sidecar, Controls, BindControl, SidecarRefuses, CreateUnilateral,
              CreateFails, ControlRunning, StopControl, DestroyHandle, BrokenPipe,
              launchVars
<1>3. CASE Hardware(l)
  BY <1>3 DEF Hardware, ConfigureCanFails, StartupFault, CrashLaunch, CrashSidecar,
              ToFinally, Leave, Goto, Gone, launchVars
<1> QED  BY <1>1, <1>2, <1>3

LEMMA ManagedInitStop ==
  ASSUME Launches # {}, ManagedInit
  PROVE  StopInv
<1>1. TypeOK
  BY InitType DEF ManagedInit
<1>2. \A l \in Launches : LaunchAccount(l)
  BY DEF ManagedInit, Init, LaunchAccount, ChildOk, Opened, TakenDown, ZeroStopped, Armed,
         Alive, AliveStates, BoundStates, DestroyStates, PreHandler, Starting,
         Supervising, Cleaning
<1>3. StopProgress
  <2>1. Len(Order) \in Nat /\ Len(Order) >= 1
    BY OrderAssumption DEF OrderAssumption
  <2> QED  BY <2>1 DEF ManagedInit, StopProgress, Done
<1> QED  BY <1>1, <1>2, <1>3 DEF StopInv

(* A step of one launch leaves the accounts of the others alone, when no two *)
(* launches share a side.                                                    *)
LEMMA AccountsKept ==
  ASSUME \A l, m \in Launches : SideOf[l] = SideOf[m] => l = m,
         TypeOK, TypeOK', \A l \in Launches : LaunchAccount(l),
         NEW l \in Launches, Moves(l), Touches(l), Owes(l),
         pc'[l] = "exited" => pc[l] \in Active
  PROVE  \A m \in Launches : LaunchAccount(m)'
<1> SUFFICES ASSUME NEW m \in Launches  PROVE LaunchAccount(m)'
  OBVIOUS
<1>0. /\ LaunchAccount(m) /\ SideOf[m] \in Sides /\ pc[m] \in Labels
      /\ crashes \in Nat /\ crashes' \in Nat
  BY LifecycleAssumption DEF LifecycleAssumption, TypeOK, LaunchTypes, RobotTypes
<1>1. CASE m # l
  <2>1. /\ link'[SideOf[m]] = link[SideOf[m]] /\ motor'[SideOf[m]] = motor[SideOf[m]]
        /\ endpoint'[SideOf[m]] = endpoint[SideOf[m]]
    BY <1>0, <1>1 DEF Moves, Frame, Touches
  <2>2. /\ pc'[m] = pc[m] /\ sidecar'[m] = sidecar[m] /\ probed'[m] = probed[m]
        /\ iface'[m] = iface[m] /\ linksOpen'[m] = linksOpen[m]
        /\ failed'[m] = failed[m] /\ cleanupFailed'[m] = cleanupFailed[m]
    BY <1>1 DEF Moves, Frame, Touches
  <2>3. crashes' >= crashes
    BY <1>0 DEF Touches
  <2> QED
    BY <1>0, <2>1, <2>2, <2>3
    DEF LaunchAccount, ChildOk, Opened, TakenDown, PastLink, PastMotors, ZeroStopped,
        Alive, Touches
<1>2. CASE m = l
  <2>1. ChildOk(m)' /\ Opened(m)' /\ TakenDown(m)'
    BY <1>0, <1>2 DEF LaunchAccount, Moves, Owes
  <2>2. pc'[l] = "crashed" /\ Alive(l)' => crashes' > 0
    BY <1>0, <1>2 DEF LaunchAccount, Moves, Frame, Touches
  <2>3. ZeroStopped(l)'
    <3> SUFFICES ASSUME pc'[l] = "exited", ~failed'[l]  PROVE ZeroStopped(l)'
      BY DEF ZeroStopped
    <3> QED
      BY <1>0, <1>2 DEF Owes, LaunchAccount, TakenDown, PastLink, PastMotors, ZeroStopped
  <2> QED  BY <1>2, <2>1, <2>2, <2>3 DEF LaunchAccount
<1> QED  BY <1>1, <1>2

LEMMA RuntimeIsLaunch ==
  ASSUME StopProgress
  PROVE  /\ turn \in 1 .. Len(Order) /\ Len(Order) \in Nat
         /\ \A k \in 1 .. Len(Order) : Order[k] \in Launches
         /\ Runtime \in Launches
BY OrderAssumption DEF OrderAssumption, StopProgress, Runtime

(* A launch or its controller moves while the parent lives.                  *)
LEMMA ChildKeepsStop ==
  ASSUME \A l, m \in Launches : SideOf[l] = SideOf[m] => l = m,
         StopInv, ~Parentless, NEW l \in Launches, Child(l), UNCHANGED parentVars
  PROVE  StopInv'
<1>0. /\ TypeOK /\ (\A m \in Launches : LaunchAccount(m)) /\ StopProgress
      /\ UNCHANGED <<ppc, turn, unverified>>
  BY DEF StopInv, parentVars
<1>1. ChildOk(l) /\ Opened(l) /\ (Lifecycle(l) \/ Sidecar(l) \/ Hardware(l))
  BY <1>0 DEF LaunchAccount, Child, Lifecycle, Sidecar
<1>2. TypeOK' /\ Moves(l) /\ Touches(l) /\ Owes(l)
  BY <1>0, <1>1, LaunchSteps
<1>3. pc[l] \notin {"idle", "exited"}
  BY <1>1, NoStepAfterExit
<1>4. pc'[l] = "exited" => pc[l] \in Active
  BY <1>0, <1>2, <1>3 DEF Touches, TypeOK, LaunchTypes, Labels, Gone
<1>5. \A m \in Launches : LaunchAccount(m)'
  BY <1>0, <1>2, <1>4, AccountsKept
<1>6. \A m \in Launches : IsOver(m) => IsOver(m)'
  BY <1>2, <1>3 DEF IsOver, Moves, Frame, Touches, Gone
<1>7. \A m \in Launches : LeftWithZero(m) => LeftWithZero(m)'
  BY <1>2, <1>3 DEF LeftWithZero, Spawned, ExitedZero, Moves, Frame, Touches
<1>8. \A m \in Launches : Asked(m) => Asked(m)'
  <2>1. pc \in [Launches -> Labels] /\ stop \in [Launches -> BOOLEAN]
    BY <1>0 DEF TypeOK, LaunchTypes
  <2>2. CASE stop' = stop
    BY <1>6, <2>2 DEF Asked
  <2>3. ASSUME stop' = [stop EXCEPT ![l] = FALSE],
               NEW label \in Gone, pc' = [pc EXCEPT ![l] = label]
        PROVE  \A m \in Launches : Asked(m) => Asked(m)'
    BY <1>6, <2>1, <2>3 DEF Asked, IsOver
  <2> QED  BY <1>1, <2>2, <2>3, StopFlagStays
<1>9. StopProgress'
  BY <1>0, <1>6, <1>7, <1>8, RuntimeIsLaunch DEF StopProgress, Before
<1> QED  BY <1>2, <1>5, <1>9 DEF StopInv

(* The parent takes its launches from the first to the last.                 *)
LEMMA ParentLoops ==
  ASSUME StopProgress, NEW next, Advance(next)
  PROVE  /\ turn' \in 1 .. Len(Order)
         /\ ppc' # ppc => ppc' = next /\ turn' = 1
BY RuntimeIsLaunch DEF Advance

(* What only opens or closes gates leaves every account as it is.            *)
LEMMA RobotUntouched ==
  ASSUME TypeOK, \A l \in Launches : LaunchAccount(l),
         gate' \in [Launches -> {"waiting", "start", "closed"}],
         UNCHANGED <<pc, iface, linksOpen, stop, failed, cleanupFailed, lock, probed,
                     childVars, robotVars, crashes>>
  PROVE  TypeOK' /\ \A l \in Launches : LaunchAccount(l)'
BY DEF TypeOK, LaunchTypes, ChildTypes, RobotTypes, LaunchAccount, ChildOk, Opened, TakenDown,
       PastLink, PastMotors, ZeroStopped, Alive, childVars, robotVars

(* Before it stops them the parent asks nothing of them.                     *)
LEMMA EnterKeepsStop ==
  ASSUME \A l, m \in Launches : SideOf[l] = SideOf[m] => l = m,
         StopInv, ~Parentless, Enter \/ RaiseIfRuntimeExited \/ LeaveWith
  PROVE  StopInv'
<1>0. TypeOK /\ (\A m \in Launches : LaunchAccount(m)) /\ StopProgress
  BY DEF StopInv
<1>1. /\ ppc' \notin {"signal", "escaped", "waiting", "verify"} \cup Done =>
            StopProgress' \/ turn' \notin 1 .. Len(Order)
      /\ ppc' = "signal" /\ turn' = 1 => StopProgress' \/ turn' \notin 1 .. Len(Order)
  BY DEF StopProgress, Done, Before
<1>2. 1 \in 1 .. Len(Order) /\ Runtime \in Launches
  BY <1>0, RuntimeIsLaunch
<1>3. CASE Spawn
  <2>1. Launch(Runtime) /\ turn' \in 1 .. Len(Order) /\ ppc' \in {"enter", "preflight"}
    BY <1>0, <1>3, ParentLoops DEF Spawn
  <2>2. ChildOk(Runtime) /\ Opened(Runtime) /\ pc'[Runtime] # "exited"
    BY <1>0, <1>2, <2>1 DEF LaunchAccount, Launch, Goto, TypeOK, LaunchTypes
  <2>3. TypeOK' /\ Moves(Runtime) /\ Touches(Runtime) /\ Owes(Runtime)
    BY <1>0, <1>2, <2>1, <2>2, LaunchSteps
  <2>4. \A m \in Launches : LaunchAccount(m)'
    BY <1>0, <1>2, <2>2, <2>3, AccountsKept
  <2> QED  BY <1>1, <2>1, <2>3, <2>4 DEF StopInv, Done
<1>4. CASE AwaitPreflights \/ WaitUntilReady \/ RaiseIfRuntimeExited \/ LeaveWith
  <2>1. /\ UNCHANGED vars /\ turn' \in {turn, 1} /\ ppc' \in {"release", "running", "signal"}
        /\ ppc' = "signal" => turn' = 1
    BY <1>4 DEF AwaitPreflights, WaitUntilReady, RaiseIfRuntimeExited, LeaveWith, BeginStop
  <2>2. TypeOK' /\ \A m \in Launches : LaunchAccount(m)'
    BY <1>0, <2>1, RobotUntouched DEF vars, launchVars, TypeOK, LaunchTypes
  <2> QED  BY <1>0, <1>1, <1>2, <2>1, <2>2, RuntimeIsLaunch DEF StopInv, Done
<1>5. CASE Release
  <2>1. /\ gate' \in [Launches -> {"waiting", "start", "closed"}]
        /\ UNCHANGED <<pc, iface, linksOpen, stop, failed, cleanupFailed, lock, probed,
                       childVars, robotVars, crashes>>
    BY <1>0, <1>5 DEF Release, TypeOK, LaunchTypes
  <2>2. /\ turn' \in 1 .. Len(Order) /\ ppc' \in {"release", "await", "signal"}
        /\ ppc' = "signal" => turn' = 1
    BY <1>0, <1>2, <1>5, ParentLoops DEF Release, BeginStop
  <2>3. TypeOK' /\ \A m \in Launches : LaunchAccount(m)'
    BY <1>0, <2>1, RobotUntouched
  <2> QED  BY <1>1, <2>2, <2>3 DEF StopInv, Done
<1> QED  BY <1>3, <1>4, <1>5 DEF Enter

(* The group signal ends a launch without handlers, which holds nothing yet, *)
(* and sets flags of any other.                                              *)
LEMMA SignalKeepsAccounts ==
  ASSUME StopInv, SignalGroup
  PROVE  TypeOK' /\ \A l \in Launches : LaunchAccount(l)'
<1>0. /\ TypeOK /\ (\A m \in Launches : LaunchAccount(m)) /\ StopProgress
      /\ ppc = "signal" /\ Runtime \in Launches
  BY RuntimeIsLaunch DEF StopInv, SignalGroup, Parentless
<1>1. /\ sidecar' = sidecar /\ link' = link /\ motor' = motor /\ endpoint' = endpoint
      /\ crashes' = crashes /\ cleanupFailed' = cleanupFailed /\ probed' = probed
      /\ ready' = ready
      /\ gate' \in [Launches -> {"waiting", "start", "closed"}]
      /\ sigint' \in [Launches -> BOOLEAN]
  BY <1>0 DEF SignalGroup, TypeOK, LaunchTypes, ChildTypes, Alive, robotVars
<1>2. CASE pc[Runtime] \in PreHandler
  <2>1. Leave(Runtime, "exited") /\ failed' = [failed EXCEPT ![Runtime] = TRUE]
    BY <1>0, <1>2 DEF SignalGroup, TypeOK, LaunchTypes
  <2>2. TypeOK'
    BY <1>0, <1>1, <2>1, LifecycleAssumption
    DEF TypeOK, LaunchTypes, ChildTypes, RobotTypes, Leave, Goto, Labels, Gone, Ifaces,
        LifecycleAssumption
  <2>3. ASSUME NEW m \in Launches  PROVE LaunchAccount(m)'
    BY <1>0, <1>1, <1>2, <2>1
    DEF LaunchAccount, ChildOk, Opened, TakenDown, PastLink, PastMotors, ZeroStopped, Alive,
        Armed, PreHandler, Starting, Supervising, Cleaning, AliveStates, BoundStates,
        DestroyStates, Leave, Goto, TypeOK, LaunchTypes
  <2> QED  BY <2>2, <2>3
<1>3. CASE pc[Runtime] \notin PreHandler
  <2>0. /\ failed \in [Launches -> BOOLEAN] /\ stop \in [Launches -> BOOLEAN]
        /\ failed' = [failed EXCEPT ![Runtime] = @ \/ pc[Runtime] \in PreHandler]
        /\ stop' = [stop EXCEPT ![Runtime] = @ \/ pc[Runtime] \in Active]
        /\ UNCHANGED <<pc, lock, iface, linksOpen>>
    BY <1>0, <1>3 DEF SignalGroup, TypeOK, LaunchTypes
  <2>1. /\ UNCHANGED <<pc, lock, iface, linksOpen, failed>>
        /\ stop' \in [Launches -> BOOLEAN]
    BY <1>0, <1>3, <2>0
  <2> QED
    BY <1>0, <1>1, <2>1
    DEF TypeOK, LaunchTypes, ChildTypes, RobotTypes, LaunchAccount, ChildOk, Opened,
        TakenDown, PastLink, PastMotors, ZeroStopped, Alive
<1> QED  BY <1>2, <1>3

(* SIGKILL to the group leaves no controller behind.                         *)
LEMMA KillKeepsAccounts ==
  ASSUME \A l, m \in Launches : SideOf[l] = SideOf[m] => l = m,
         StopInv, KillGroup
  PROVE  TypeOK' /\ \A l \in Launches : LaunchAccount(l)'
<1>0. /\ TypeOK /\ (\A m \in Launches : LaunchAccount(m)) /\ StopProgress
      /\ Runtime \in Launches /\ SideOf \in [Launches -> Sides]
  BY RuntimeIsLaunch, LifecycleAssumption
  DEF StopInv, KillGroup, LifecycleAssumption, Parentless
<1>1. /\ Leave(Runtime, "crashed") /\ link' = link /\ motor' = motor /\ crashes' = crashes
      /\ cleanupFailed' = cleanupFailed /\ probed' = probed /\ failed' = failed
      /\ gate' = gate /\ ready' = ready
  BY DEF KillGroup
<1>2. CASE Alive(Runtime)
  <2>1. /\ sidecar' = [sidecar EXCEPT ![Runtime] = "failed"]
        /\ sigint' = [sigint EXCEPT ![Runtime] = FALSE]
        /\ endpoint' \in {endpoint, [endpoint EXCEPT ![SideOf[Runtime]] = "orphan"]}
    BY <1>0, <1>2 DEF KillGroup, DieUncleanly, SidecarEnds, TypeOK, RobotTypes
  <2>2. TypeOK'
    <3>1. LaunchTypes'
      BY <1>0, <1>1, LifecycleAssumption
      DEF TypeOK, LaunchTypes, Leave, Goto, Labels, Gone, Ifaces, LifecycleAssumption
    <3>2. ChildTypes' /\ RobotTypes'
      BY <1>0, <1>1, <2>1 DEF TypeOK, ChildTypes, RobotTypes
    <3> QED  BY <3>1, <3>2 DEF TypeOK
  <2>3. ASSUME NEW m \in Launches  PROVE LaunchAccount(m)'
    <3>1. CASE m = Runtime
      BY <1>0, <1>1, <2>1, <3>1, <1>2
      DEF LaunchAccount, ChildOk, Opened, TakenDown, ZeroStopped, Alive, AliveStates,
          BoundStates, DestroyStates, Armed, PreHandler, Starting, Supervising, Cleaning,
          Leave, Goto, TypeOK, LaunchTypes, ChildTypes
    <3>2. CASE m # Runtime
      <4>1. /\ endpoint'[SideOf[m]] = endpoint[SideOf[m]]
            /\ pc'[m] = pc[m] /\ iface'[m] = iface[m] /\ linksOpen'[m] = linksOpen[m]
            /\ sidecar'[m] = sidecar[m]
        BY <1>0, <1>1, <2>1, <3>2
        DEF Leave, Goto, TypeOK, LaunchTypes, ChildTypes, RobotTypes
      <4> QED
        BY <1>0, <1>1, <4>1
        DEF LaunchAccount, ChildOk, Opened, TakenDown, PastLink, PastMotors, ZeroStopped, Alive
    <3> QED  BY <3>1, <3>2
  <2> QED  BY <2>2, <2>3
<1>3. CASE ~Alive(Runtime)
  <2>1. UNCHANGED <<sidecar, sigint, endpoint>>
    BY <1>3 DEF KillGroup
  <2>2. TypeOK'
    BY <1>0, <1>1, <2>1, LifecycleAssumption
    DEF TypeOK, LaunchTypes, ChildTypes, RobotTypes, Leave, Goto, Labels, Gone, Ifaces,
        LifecycleAssumption
  <2>3. ASSUME NEW m \in Launches  PROVE LaunchAccount(m)'
    <3>1. CASE m = Runtime
      BY <1>0, <1>1, <2>1, <3>1, <1>3
      DEF LaunchAccount, ChildOk, Opened, TakenDown, ZeroStopped, Alive,
          Armed, PreHandler, Starting, Supervising, Cleaning,
          Leave, Goto, TypeOK, LaunchTypes
    <3>2. CASE m # Runtime
      <4>1. pc'[m] = pc[m] /\ iface'[m] = iface[m] /\ linksOpen'[m] = linksOpen[m]
        BY <1>0, <1>1, <3>2 DEF Leave, Goto, TypeOK, LaunchTypes
      <4> QED
        BY <1>0, <1>1, <2>1, <4>1
        DEF LaunchAccount, ChildOk, Opened, TakenDown, PastLink, PastMotors, ZeroStopped, Alive
    <3> QED  BY <3>1, <3>2
  <2> QED  BY <2>2, <2>3
<1> QED  BY <1>2, <1>3

(* The verdict changes an account only by removing an orphaned socket.       *)
LEMMA VerifyKeepsAccounts ==
  ASSUME StopInv, VerifyRuntime
  PROVE  TypeOK' /\ \A l \in Launches : LaunchAccount(l)'
<1>0. TypeOK /\ (\A m \in Launches : LaunchAccount(m)) /\ SideOf \in [Launches -> Sides]
  BY LifecycleAssumption DEF StopInv, VerifyRuntime, LifecycleAssumption, Parentless
<1>1. /\ UNCHANGED <<pc, launchVars, childVars, link, motor, crashes>>
      /\ endpoint' \in [Sides -> {"absent", "bound", "orphan"}]
      /\ \A s \in Sides : endpoint[s] = "absent" => endpoint'[s] = "absent"
  BY <1>0 DEF VerifyRuntime, TypeOK, RobotTypes
<1> QED
  BY <1>0, <1>1
  DEF launchVars, childVars, TypeOK, LaunchTypes, ChildTypes, RobotTypes, LaunchAccount,
      ChildOk, Opened, TakenDown, PastLink, PastMotors, ZeroStopped, Alive

(* Runtime after runtime the loops of _stop_all learn that each is over, and *)
(* with what status.                                                         *)
LEMMA StopAllProgress ==
  ASSUME StopInv, StopAll
  PROVE  StopProgress'
<1>0. /\ TypeOK /\ StopProgress /\ Runtime \in Launches
      /\ turn \in 1 .. Len(Order) /\ Len(Order) \in Nat
      /\ \A k \in 1 .. Len(Order) : Order[k] \in Launches
      /\ \A l \in Launches : \E k \in 1 .. Len(Order) : Order[k] = l
  BY RuntimeIsLaunch, OrderAssumption
  DEF OrderAssumption, StopInv, StopAll, SignalGroup, CloseRaises, WaitRuntime, KillGroup,
      VerifyRuntime, Parentless
<1>1. CASE SignalGroup
  <2>1. /\ turn' \in 1 .. Len(Order)
        /\ ppc' = "signal" \/ (ppc' = "waiting" /\ turn' = 1)
    BY <1>0, <1>1, ParentLoops DEF SignalGroup
  <2>2. ppc' = "waiting" => \A k \in 1 .. Len(Order) : ~Before(k)'
    BY <1>0, <2>1 DEF Before
  <2>3. ASSUME NEW l \in Launches, Asked(l) \/ l = Runtime
        PROVE  Asked(l)'
    <3>0. /\ pc \in [Launches -> Labels] /\ stop \in [Launches -> BOOLEAN]
          /\ pc[l] \in Active \/ IsOver(l)
      BY <1>0 DEF TypeOK, LaunchTypes, Labels, IsOver
    <3>1. CASE pc[Runtime] \in PreHandler
      <4>1. /\ pc' = [pc EXCEPT ![Runtime] = "exited"]
            /\ stop' = [stop EXCEPT ![Runtime] = FALSE]
        BY <1>1, <3>1 DEF SignalGroup, Leave, Goto
      <4> QED  BY <2>3, <3>0, <4>1 DEF Asked, IsOver, Gone
    <3>2. CASE pc[Runtime] \notin PreHandler
      <4>1. pc' = pc /\ stop' = [stop EXCEPT ![Runtime] = @ \/ pc[Runtime] \in Active]
        BY <1>1, <3>2 DEF SignalGroup
      <4>2. stop[l] \/ (l = Runtime /\ pc[l] \in Active) => stop'[l]
        BY <3>0, <4>1, Zenon
      <4> QED  BY <2>3, <3>0, <4>1, <4>2 DEF Asked, IsOver
    <3> QED  BY <3>1, <3>2
  <2>4. ppc' = "signal" => \A k \in 1 .. Len(Order) : Before(k)' => Asked(Order[k])'
    <3> SUFFICES ASSUME ppc' = "signal", NEW k \in 1 .. Len(Order), Before(k)'
                 PROVE  Asked(Order[k])'
      OBVIOUS
    <3>1. turn' = turn + 1 /\ ppc = "signal"
      BY <1>1 DEF SignalGroup, Advance
    <3>2. Order[k] = Runtime \/ Before(k)
      BY <1>0, <3>1 DEF Before, Runtime
    <3>3. Asked(Order[k]) \/ Order[k] = Runtime
      BY <1>0, <3>1, <3>2 DEF StopProgress
    <3>4. ASSUME NEW l \in Launches, l = Order[k]  PROVE Asked(l)'
      BY <2>3, <3>3, <3>4
    <3> QED  BY <1>0, <3>4
  <2> QED  BY <2>1, <2>2, <2>4 DEF StopProgress, Done
<1>6. CASE CloseRaises
  <2>1. ppc = "signal" /\ ppc' = "escaped" /\ UNCHANGED <<pc, stop, turn>>
    BY <1>6 DEF CloseRaises, vars, launchVars
  <2> QED  BY <1>0, <2>1 DEF StopProgress, Done, Before, Asked, IsOver
<1>2. ASSUME ppc = "waiting", Advance("verify"), pc'[Runtime] \in Gone \cup {"idle"},
             \A l \in Launches : l # Runtime => pc'[l] = pc[l]
      PROVE  StopProgress'
  <2>1. ASSUME NEW k \in 1 .. Len(Order), k <= turn
        PROVE  IsOver(Order[k])'
    <3>1. CASE Order[k] = Runtime
      BY <1>2, <3>1 DEF IsOver
    <3>2. CASE Order[k] # Runtime
      <4>1. Order[k] \in Launches /\ k \in 1 .. turn - 1
        BY <1>0, <2>1, <3>2 DEF Runtime
      <4>2. IsOver(Order[k])
        BY <1>0, <1>2, <4>1 DEF StopProgress, Before
      <4> QED  BY <1>2, <3>2, <4>1, <4>2 DEF IsOver
    <3> QED  BY <3>1, <3>2
  <2>2. CASE turn < Len(Order)
    BY <1>0, <1>2, <2>1, <2>2 DEF Advance, StopProgress, Before, Done
  <2>3. CASE ~(turn < Len(Order))
    <3>1. \A l \in Launches : IsOver(l)'
      BY <1>0, <2>1, <2>3
    <3> QED  BY <1>0, <1>2, <2>3, <3>1 DEF Advance, StopProgress, Before, Done
  <2> QED  BY <2>2, <2>3
<1>3. CASE WaitRuntime
  BY <1>2, <1>3 DEF WaitRuntime, vars
<1>4. CASE KillGroup
  <2>1. /\ ppc = "waiting" /\ Advance("verify")
        /\ pc' = [pc EXCEPT ![Runtime] = "crashed"] /\ pc \in [Launches -> Labels]
    BY <1>0, <1>4 DEF KillGroup, Leave, Goto, TypeOK, LaunchTypes
  <2> QED  BY <1>0, <1>2, <2>1 DEF Gone
<1>5. CASE VerifyRuntime
  <2>1. UNCHANGED <<pc, failed>> /\ ppc = "verify"
        /\ (~unverified' => ~unverified /\ LeftWithZero(Runtime))
    BY <1>5 DEF VerifyRuntime, launchVars, LeftWithZero, Verified
  <2>2. \A l \in Launches : IsOver(l)'
    BY <1>0, <2>1 DEF StopProgress, IsOver
  <2>3. ~unverified' => \A k \in 1 .. Len(Order) : k <= turn => LeftWithZero(Order[k])'
    BY <1>0, <2>1 DEF StopProgress, Before, LeftWithZero, Spawned, ExitedZero, Runtime
  <2>4. CASE turn < Len(Order)
    <3>1. turn' = turn + 1 /\ ppc' = "verify"
      BY <1>5, <2>1, <2>4 DEF VerifyRuntime, Advance
    <3> QED  BY <1>0, <2>2, <2>3, <2>4, <3>1 DEF StopProgress, Before, Done
  <2>5. CASE ~(turn < Len(Order))
    <3>1. turn' = 1 /\ ppc' \in Done /\ (ppc' = "stopped" => ~unverified')
      BY <1>5, <2>1, <2>5 DEF VerifyRuntime, Advance, Done
    <3>2. ~unverified' => \A l \in Launches : LeftWithZero(l)'
      BY <1>0, <2>3, <2>5
    <3> QED  BY <1>0, <2>2, <3>1, <3>2 DEF StopProgress, Before, Done
  <2> QED  BY <2>4, <2>5
<1> QED  BY <1>1, <1>3, <1>4, <1>5, <1>6 DEF StopAll

LEMMA StopStep ==
  ASSUME \A l, m \in Launches : SideOf[l] = SideOf[m] => l = m
  PROVE  StopInv /\ [ManagedNext]_mvars => StopInv'
<1> SUFFICES ASSUME StopInv, [ManagedNext]_mvars, ~Parentless'
             PROVE  TypeOK' /\ (\A l \in Launches : LaunchAccount(l)') /\ StopProgress'
  BY DEF StopInv
<1>1. CASE Enter \/ RaiseIfRuntimeExited \/ LeaveWith
  <2>1. ~Parentless
    BY <1>1 DEF Enter, Spawn, AwaitPreflights, Release, WaitUntilReady,
                RaiseIfRuntimeExited, LeaveWith, Working, Parentless
  <2> QED  BY <1>1, <2>1, EnterKeepsStop DEF StopInv
<1>2. CASE StopAll
  <2>1. CASE WaitRuntime \/ CloseRaises
    <3>1. UNCHANGED vars /\ TypeOK /\ \A l \in Launches : LaunchAccount(l)
      BY <2>1 DEF WaitRuntime, CloseRaises, StopInv, Parentless
    <3>2. TypeOK' /\ \A l \in Launches : LaunchAccount(l)'
      BY <3>1, RobotUntouched DEF vars, launchVars, TypeOK, LaunchTypes
    <3> QED  BY <1>2, <3>2, StopAllProgress
  <2> QED
    BY <1>2, <2>1, StopAllProgress, SignalKeepsAccounts, KillKeepsAccounts,
       VerifyKeepsAccounts
    DEF StopAll
<1>3. CASE ParentDies \/ ParentEnds
  BY <1>3 DEF ParentDies, ParentEnds, Parentless
<1>4. ASSUME NEW l \in Launches, Child(l), UNCHANGED parentVars
      PROVE  TypeOK' /\ (\A m \in Launches : LaunchAccount(m)') /\ StopProgress'
  <2>1. ~Parentless
    BY <1>4 DEF parentVars, Parentless
  <2> QED  BY <1>4, <2>1, ChildKeepsStop DEF StopInv
<1>5. CASE UNCHANGED mvars
  <2>1. /\ UNCHANGED vars /\ UNCHANGED <<ppc, turn, unverified>>
        /\ TypeOK /\ (\A l \in Launches : LaunchAccount(l)) /\ StopProgress
    BY <1>5 DEF mvars, parentVars, StopInv, Parentless
  <2>2. TypeOK' /\ \A l \in Launches : LaunchAccount(l)'
    BY <2>1, RobotUntouched DEF vars, launchVars, TypeOK, LaunchTypes
  <2>3. StopProgress'
    BY <2>1 DEF vars, launchVars, StopProgress, Before, Asked, IsOver, LeftWithZero, Spawned,
                ExitedZero
  <2> QED  BY <2>2, <2>3
<1> QED  BY <1>1, <1>2, <1>3, <1>4, <1>5 DEF ManagedNext

(* When _stop_all comes to a verdict, no launch is left running and none of  *)
(* the controllers it could reach, and what it calls stopped is stopped; when*)
(* a START that could not be written keeps it from one, no controller is left*)
(* that was not asked to stop.  For any number of launches of different sides*)
(* (managed.py, _stop_all and _release_bimanual_startup).                    *)
THEOREM StopVerified ==
  ASSUME Launches # {}, \A l, m \in Launches : SideOf[l] = SideOf[m] => l = m
  PROVE  ManagedSpec => []StoppedIsStopped
<1>1. ManagedInit => PairedInv /\ ReleaseInv /\ StopInv
  BY ManagedInitInv, ManagedInitRelease, ManagedInitStop
<1>2. PairedInv /\ ReleaseInv /\ StopInv /\ [ManagedNext]_mvars =>
        PairedInv' /\ ReleaseInv' /\ StopInv'
  BY ManagedStep, ReleaseStep, StopStep
<1>3. PairedInv /\ ReleaseInv /\ StopInv => StoppedIsStopped
  <2> SUFFICES ASSUME ReleaseInv, StopInv, ppc \in Done \cup {"escaped"}
               PROVE  StoppedIsStopped
    BY DEF StoppedIsStopped, Done
  <2>1. (\A l \in Launches : LaunchAccount(l)) /\ StopProgress
    BY DEF StopInv, Done, Parentless
  <2>2. ASSUME NEW l \in Launches, IsOver(l)
        PROVE  Alive(l) => crashes > 0
    BY <2>1, <2>2 DEF LaunchAccount, ChildOk, IsOver, Supervising, Gone
  <2>3. ASSUME ppc \in Done  PROVE \A l \in Launches : IsOver(l)
    BY <2>1, <2>3 DEF StopProgress
  <2>4. ASSUME ppc = "stopped", NEW l \in Launches, Spawned(l)
        PROVE  /\ ~Alive(l) /\ endpoint[SideOf[l]] = "absent"
               /\ \A i \in Ifaces : link[SideOf[l]][i] = "down" /\ motor[SideOf[l]][i] = "off"
    BY <2>1, <2>4
    DEF StopProgress, LeftWithZero, ExitedZero, LaunchAccount, ChildOk, ZeroStopped, Supervising
  <2>5. ASSUME ppc = "escaped", NEW l \in Launches, Alive(l)
        PROVE  stop[l] \/ crashes > 0
    <3>1. Past(l)
      BY <2>5 DEF Past, Alive, AliveStates, BoundStates, DestroyStates
    <3>2. PICK k \in 1 .. turn - 1 : Order[k] = l
      BY <2>5, <3>1 DEF ReleaseInv, ReleasedBefore
    <3>3. k \in 1 .. Len(Order)
      BY <2>1, <3>2, RuntimeIsLaunch
    <3>4. Asked(l)
      BY <2>1, <2>5, <3>2, <3>3 DEF StopProgress, Before
    <3> QED  BY <2>2, <2>5, <3>4 DEF Asked
  <2> QED  BY <2>2, <2>3, <2>4, <2>5 DEF StoppedIsStopped, IsOver
<1> QED  BY <1>1, <1>2, <1>3, PTL DEF ManagedSpec
=============================================================================
