------------------------ MODULE XAirLifecycleProofs ------------------------
(***************************************************************************)
(* For any number of launches, any assignment of sides and modes and any   *)
(* number of CAN links and crashes: types, supervision of the native       *)
(* controllers, and the isolation of an isolated session.                  *)
(*                                                                         *)
(* Isolation rests on the lock.  From its scan on, an isolated launch owns *)
(* the lock alone (LockHeld, LockExclusive), so every other launch is      *)
(* idle, gone or still asking for the lock; only launches that own the     *)
(* lock move links or start controllers (ChildPhase); hence what the scan  *)
(* saw stays true until the launch is gone (AloneSinceScan).               *)
(***************************************************************************)
EXTENDS XAirLifecycle, TLAPS

Owning == Active \ {"launched"}         \* the lock is held
Scanned == Owning \ {"locked"}          \* and nobody else controls the robot

LockHeld ==
  \A l \in Launches :
    lock[l] = IF pc[l] \in Owning THEN IF Isolated(l) THEN "exclusive" ELSE "shared"
                                  ELSE "none"

LockExclusive ==
  \A l, m \in Launches : (l # m /\ lock[l] = "exclusive") => lock[m] = "none"

ChildOk(l) ==
  /\ pc[l] \in {"idle"} \cup PreHandler \cup Starting => sidecar[l] = "none"
  /\ Alive(l) => pc[l] \in Supervising \cup {"crashed"}
  /\ pc[l] \in {"interlock", "gate", "prestart"} => probed[l]
  /\ sidecar[l] # "none" => probed[l]

ChildPhase == \A l \in Launches : ChildOk(l)

AloneSinceScan ==
  \A l \in Launches : (Isolated(l) /\ pc[l] \in Scanned) =>
    /\ InactiveDown(l)
    /\ \A m \in Launches : m # l => ~Alive(m)

LifecycleInv == TypeOK /\ LockHeld /\ LockExclusive /\ ChildPhase /\ AloneSinceScan
-----------------------------------------------------------------------------
(* The initial state: every launch idle, links DOWN, no controller.          *)
LEMMA InitType == Init => TypeOK
BY LifecycleAssumption
   DEF LifecycleAssumption, Init, TypeOK, LaunchTypes, ChildTypes, RobotTypes,
       Labels, Ifaces, Sides

(* Nobody owns the lock and nobody has scanned yet.                          *)
LEMMA InitInv == Init => LifecycleInv
<1>1. Init => LockHeld /\ LockExclusive
  BY DEF Init, LockHeld, LockExclusive, Owning, Active, PreHandler, Starting,
         Supervising, Cleaning
<1>2. Init => ChildPhase
  BY DEF Init, ChildPhase, ChildOk, Alive, AliveStates, BoundStates, DestroyStates,
         PreHandler, Starting, Supervising
<1>3. Init => AloneSinceScan
  BY DEF Init, AloneSinceScan, Scanned, Owning, Active, PreHandler, Starting,
         Supervising, Cleaning
<1> QED  BY <1>1, <1>2, <1>3, InitType DEF LifecycleInv

(* A launch that raises, and one that is gone, keep the types of its fields. *)
LEMMA ToFinallyTypes ==
  ASSUME LaunchTypes, NEW l \in Launches, NEW bad \in BOOLEAN, ToFinally(l, bad)
  PROVE  LaunchTypes'
BY LifecycleAssumption
   DEF LifecycleAssumption, LaunchTypes, ToFinally, Goto, Ifaces, Labels, Active,
       Cleaning, Supervising

(* A loop over the links of a side stays on them.                            *)
LEMMA NextInterface ==
  ASSUME LaunchTypes, NEW l \in Launches
  PROVE  /\ 1 \in Ifaces
         /\ iface[l] < LinksPerSide =>
              [iface EXCEPT ![l] = @ + 1] \in [Launches -> Ifaces]
BY LifecycleAssumption DEF LifecycleAssumption, LaunchTypes, Ifaces

LEMMA RefuseTypes ==
  ASSUME LaunchTypes, NEW l \in Launches, Refuse(l)
  PROVE  LaunchTypes'
BY LifecycleAssumption
   DEF LifecycleAssumption, LaunchTypes, Refuse, Leave, Goto, Ifaces, Labels, Gone

(* Starting up, as far as the sidecar, keeps the types.                      *)
LEMMA StartupTypes ==
  ASSUME TypeOK, NEW l \in Launches,
         \/ Launch(l) \/ AcquireLifecycleLock(l) \/ RequireExclusiveControl(l)
         \/ RemoveOrphanBeforeStart(l) \/ ConfigureCan(l) \/ ConfigureCanFails(l)
         \/ ReadBaseline(l) \/ ProbeMotorFeedback(l) \/ RecheckInterlock(l)
         \/ AwaitRelease(l) \/ LeaveGate(l) \/ StartupFault(l)
         \/ StartSidecar(l)
  PROVE  TypeOK'
<1>0. LaunchTypes /\ ChildTypes /\ RobotTypes  BY DEF TypeOK
<1>1. LaunchTypes'
  <2> USE <1>0, LifecycleAssumption
      DEF LifecycleAssumption, LaunchTypes, Labels, Ifaces, Active, PreHandler,
          Starting, Supervising, Cleaning, Gone, launchVars, Goto
  <2>1. CASE Launch(l)  BY <2>1 DEF Launch
  <2>2. CASE AcquireLifecycleLock(l)  BY <2>2, RefuseTypes DEF AcquireLifecycleLock
  <2>3. CASE RequireExclusiveControl(l)  BY <2>3, RefuseTypes DEF RequireExclusiveControl
  <2>4. CASE RemoveOrphanBeforeStart(l)  BY <2>4, RefuseTypes DEF RemoveOrphanBeforeStart
  <2>5. CASE ConfigureCan(l)  BY <2>5, NextInterface DEF ConfigureCan
  <2>6. CASE ConfigureCanFails(l)  BY <2>6, ToFinallyTypes DEF ConfigureCanFails
  <2>7. CASE ReadBaseline(l)  BY <2>7 DEF ReadBaseline
  <2>8. CASE ProbeMotorFeedback(l)  BY <2>8, NextInterface DEF ProbeMotorFeedback
  <2>9. CASE RecheckInterlock(l)  BY <2>9, ToFinallyTypes DEF RecheckInterlock
  <2>10. CASE AwaitRelease(l)  BY <2>10 DEF AwaitRelease
  <2>11. CASE LeaveGate(l)  BY <2>11, ToFinallyTypes DEF LeaveGate
  <2>12. CASE StartupFault(l)  BY <2>12, ToFinallyTypes DEF StartupFault
  <2>13. CASE StartSidecar(l)  BY <2>13 DEF StartSidecar
  <2> QED  BY <2>1, <2>2, <2>3, <2>4, <2>5, <2>6, <2>7, <2>8, <2>9,
            <2>10, <2>11, <2>12, <2>13
<1>2. ChildTypes' /\ RobotTypes'
  <2> USE <1>0, LifecycleAssumption
      DEF LifecycleAssumption, ChildTypes, RobotTypes, Sides, AliveStates,
          BoundStates, DestroyStates, childVars, robotVars, SidecarEnds, DieUncleanly
  <2>1. CASE Launch(l)  BY <2>1 DEF Launch
  <2>2. CASE AcquireLifecycleLock(l)  BY <2>2 DEF AcquireLifecycleLock
  <2>3. CASE RequireExclusiveControl(l)  BY <2>3 DEF RequireExclusiveControl
  <2>4. CASE RemoveOrphanBeforeStart(l)  BY <2>4 DEF RemoveOrphanBeforeStart
  <2>5. CASE ConfigureCan(l)  BY <2>5 DEF ConfigureCan
  <2>6. CASE ConfigureCanFails(l)  BY <2>6 DEF ConfigureCanFails
  <2>7. CASE ReadBaseline(l)  BY <2>7 DEF ReadBaseline
  <2>8. CASE ProbeMotorFeedback(l)  BY <2>8 DEF ProbeMotorFeedback
  <2>9. CASE RecheckInterlock(l)  BY <2>9 DEF RecheckInterlock
  <2>10. CASE AwaitRelease(l)  BY <2>10 DEF AwaitRelease
  <2>11. CASE LeaveGate(l)  BY <2>11 DEF LeaveGate
  <2>12. CASE StartupFault(l)  BY <2>12 DEF StartupFault
  <2>13. CASE StartSidecar(l)  BY <2>13 DEF StartSidecar
  <2> QED  BY <2>1, <2>2, <2>3, <2>4, <2>5, <2>6, <2>7, <2>8, <2>9,
            <2>10, <2>11, <2>12, <2>13
<1> QED  BY <1>1, <1>2 DEF TypeOK

(* Supervision, cleanup and crashes keep the types.                          *)
LEMMA ShutdownTypes ==
  ASSUME TypeOK, NEW l \in Launches,
         \/ Monitor(l) \/ SignalSidecar(l) \/ ReapSidecar(l)
         \/ KillSidecar(l) \/ BeginCleanup(l) \/ DisableMotors(l)
         \/ CloseLink(l) \/ Exit(l) \/ CrashLaunch(l)
  PROVE  TypeOK'
<1>0. LaunchTypes /\ ChildTypes /\ RobotTypes  BY DEF TypeOK
<1>1. LaunchTypes'
  <2> USE <1>0, LifecycleAssumption
      DEF LifecycleAssumption, LaunchTypes, Labels, Ifaces, Active, PreHandler,
          Starting, Supervising, Cleaning, Gone, launchVars, Goto
  <2>1. CASE Monitor(l)  BY <2>1, ToFinallyTypes DEF Monitor
  <2>2. CASE SignalSidecar(l)  BY <2>2 DEF SignalSidecar
  <2>3. CASE ReapSidecar(l)  BY <2>3 DEF ReapSidecar
  <2>4. CASE KillSidecar(l)  BY <2>4 DEF KillSidecar
  <2>5. CASE BeginCleanup(l)  BY <2>5 DEF BeginCleanup
  <2>6. CASE DisableMotors(l)  BY <2>6 DEF DisableMotors
  <2>7. CASE CloseLink(l)
    <3>1. pc' \in [Launches -> Labels]  BY <2>7 DEF CloseLink
    <3>2. iface' \in [Launches -> Ifaces]  BY <2>7, NextInterface DEF CloseLink
    <3>3. cleanupFailed' \in [Launches -> BOOLEAN]  BY <2>7 DEF CloseLink
    <3> QED  BY <2>7, <3>1, <3>2, <3>3 DEF CloseLink
  <2>8. CASE Exit(l)  BY <2>8 DEF Exit, Leave
  <2>9. CASE CrashLaunch(l)  BY <2>9 DEF CrashLaunch, Leave
  <2> QED  BY <2>1, <2>2, <2>3, <2>4, <2>5, <2>6, <2>7, <2>8, <2>9
<1>2. ChildTypes' /\ RobotTypes'
  <2> USE <1>0, LifecycleAssumption
      DEF LifecycleAssumption, ChildTypes, RobotTypes, Sides, AliveStates,
          BoundStates, DestroyStates, childVars, robotVars, SidecarEnds, DieUncleanly
  <2>1. CASE Monitor(l)  BY <2>1 DEF Monitor
  <2>2. CASE SignalSidecar(l)  BY <2>2 DEF SignalSidecar
  <2>3. CASE ReapSidecar(l)  BY <2>3 DEF ReapSidecar
  <2>4. CASE KillSidecar(l)  BY <2>4 DEF KillSidecar
  <2>5. CASE BeginCleanup(l)  BY <2>5 DEF BeginCleanup
  <2>6. CASE DisableMotors(l)  BY <2>6 DEF DisableMotors
  <2>7. CASE CloseLink(l)  BY <2>7 DEF CloseLink
  <2>8. CASE Exit(l)  BY <2>8 DEF Exit
  <2>9. CASE CrashLaunch(l)  BY <2>9 DEF CrashLaunch
  <2> QED  BY <2>1, <2>2, <2>3, <2>4, <2>5, <2>6, <2>7, <2>8, <2>9
<1> QED  BY <1>1, <1>2 DEF TypeOK

(* The sidecar's own steps keep the types.                                   *)
LEMMA SidecarTypes ==
  ASSUME TypeOK, NEW l \in Launches,
         \/ BindControl(l) \/ SidecarRefuses(l) \/ CreateUnilateral(l)
         \/ CreateFails(l) \/ ControlRunning(l) \/ StopControl(l)
         \/ DestroyHandle(l) \/ BrokenPipe(l) \/ CrashSidecar(l)
  PROVE  TypeOK'
<1>0. LaunchTypes /\ ChildTypes /\ RobotTypes  BY DEF TypeOK
<1>1. LaunchTypes'
  <2> USE <1>0, LifecycleAssumption
      DEF LifecycleAssumption, LaunchTypes, Labels, Ifaces, Active, PreHandler,
          Starting, Supervising, Cleaning, Gone, launchVars, Goto
  <2>1. CASE BindControl(l)  BY <2>1 DEF BindControl
  <2>2. CASE SidecarRefuses(l)  BY <2>2 DEF SidecarRefuses
  <2>3. CASE CreateUnilateral(l)  BY <2>3 DEF CreateUnilateral
  <2>4. CASE CreateFails(l)  BY <2>4 DEF CreateFails
  <2>5. CASE ControlRunning(l)  BY <2>5 DEF ControlRunning
  <2>6. CASE StopControl(l)  BY <2>6 DEF StopControl
  <2>7. CASE DestroyHandle(l)  BY <2>7 DEF DestroyHandle
  <2>8. CASE BrokenPipe(l)  BY <2>8 DEF BrokenPipe
  <2>9. CASE CrashSidecar(l)  BY <2>9 DEF CrashSidecar
  <2> QED  BY <2>1, <2>2, <2>3, <2>4, <2>5, <2>6, <2>7, <2>8, <2>9
<1>2. ChildTypes' /\ RobotTypes'
  <2> USE <1>0, LifecycleAssumption
      DEF LifecycleAssumption, ChildTypes, RobotTypes, Sides, AliveStates,
          BoundStates, DestroyStates, childVars, robotVars, SidecarEnds, DieUncleanly
  <2>1. CASE BindControl(l)  BY <2>1 DEF BindControl
  <2>2. CASE SidecarRefuses(l)  BY <2>2 DEF SidecarRefuses
  <2>3. CASE CreateUnilateral(l)  BY <2>3 DEF CreateUnilateral
  <2>4. CASE CreateFails(l)  BY <2>4 DEF CreateFails
  <2>5. CASE ControlRunning(l)  BY <2>5 DEF ControlRunning
  <2>6. CASE StopControl(l)  BY <2>6 DEF StopControl
  <2>7. CASE DestroyHandle(l)  BY <2>7 DEF DestroyHandle
  <2>8. CASE BrokenPipe(l)  BY <2>8 DEF BrokenPipe
  <2>9. CASE CrashSidecar(l)  BY <2>9 DEF CrashSidecar
  <2> QED  BY <2>1, <2>2, <2>3, <2>4, <2>5, <2>6, <2>7, <2>8, <2>9
<1> QED  BY <1>1, <1>2 DEF TypeOK

(* What a step of launch l (or of its sidecar) can change: nothing of the     *)
(* other launches; links of its own side only, and only as an owner of the   *)
(* lock; a controller comes to life only from "prestart"; and the lock is    *)
(* taken, kept, or dropped with the ownership it stands for.                 *)
Frame(l) ==
  /\ \A m \in Launches : m # l =>
       /\ pc'[m] = pc[m] /\ lock'[m] = lock[m]
       /\ sidecar'[m] = sidecar[m] /\ probed'[m] = probed[m]
  /\ \A s \in Sides : (s # SideOf[l] \/ pc[l] \notin Owning) => link'[s] = link[s]
  /\ Alive(l)' => Alive(l) \/ pc[l] = "prestart"

LockMove(l) ==
  \/ (pc'[l] \in Owning <=> pc[l] \in Owning) /\ lock'[l] = lock[l]
  \/ pc'[l] \notin Owning /\ lock'[l] = "none"
  \/ /\ pc'[l] \in Owning /\ LockFree(l)
     /\ lock'[l] = IF Isolated(l) THEN "exclusive" ELSE "shared"

ScanMove(l) ==
  pc'[l] \in Scanned =>
    \/ pc[l] \in Scanned
    \/ /\ \A m \in Launches : ~Competes(m, l)
       /\ Isolated(l) => InactiveDown(l)
       /\ UNCHANGED <<link, sidecar>>

Moves(l) == Frame(l) /\ LockMove(l) /\ ScanMove(l) /\ (ChildOk(l) => ChildOk(l)')

(* Starting up.                                                              *)
LEMMA StartupMoves ==
  ASSUME TypeOK, NEW l \in Launches,
         \/ Launch(l) \/ AcquireLifecycleLock(l) \/ RequireExclusiveControl(l)
         \/ RemoveOrphanBeforeStart(l) \/ ConfigureCan(l) \/ ConfigureCanFails(l)
         \/ ReadBaseline(l) \/ ProbeMotorFeedback(l) \/ RecheckInterlock(l)
         \/ AwaitRelease(l) \/ LeaveGate(l) \/ StartupFault(l)
         \/ StartSidecar(l)
  PROVE  Moves(l)
<1>0. /\ pc \in [Launches -> Labels] /\ lock \in [Launches -> {"none", "shared", "exclusive"}]
      /\ sidecar \in [Launches -> {"none", "exited", "failed"} \cup AliveStates]
      /\ probed \in [Launches -> BOOLEAN]
      /\ link \in [Sides -> [Ifaces -> {"down", "up"}]]
      /\ SideOf[l] \in Sides /\ ModeOf[l] \in {"shared", "isolated", "managed"}
  BY LifecycleAssumption
  DEF LifecycleAssumption, TypeOK, LaunchTypes, ChildTypes, RobotTypes
<1> USE <1>0 DEF Moves, Frame, LockMove, ScanMove, ChildOk, Owning, Scanned,
         Active, PreHandler, Starting, Supervising, Cleaning, Alive, AliveStates,
         BoundStates, DestroyStates, launchVars, childVars, robotVars, Goto,
         Leave, Refuse, ToFinally
<1>1. CASE Launch(l)
  BY <1>1 DEF Launch
<1>2. CASE AcquireLifecycleLock(l)
  BY <1>2 DEF AcquireLifecycleLock
<1>3. CASE RequireExclusiveControl(l)
  BY <1>3 DEF RequireExclusiveControl
<1>4. CASE RemoveOrphanBeforeStart(l)
  BY <1>4 DEF RemoveOrphanBeforeStart
<1>5. CASE ConfigureCan(l)
  BY <1>5 DEF ConfigureCan
<1>6. CASE ConfigureCanFails(l)
  BY <1>6 DEF ConfigureCanFails
<1>7. CASE ReadBaseline(l)
  BY <1>7 DEF ReadBaseline
<1>8. CASE ProbeMotorFeedback(l)
  BY <1>8 DEF ProbeMotorFeedback
<1>9. CASE RecheckInterlock(l)
  BY <1>9 DEF RecheckInterlock
<1>10. CASE AwaitRelease(l)
  BY <1>10 DEF AwaitRelease
<1>11. CASE LeaveGate(l)
  BY <1>11 DEF LeaveGate
<1>12. CASE StartupFault(l)
  BY <1>12 DEF StartupFault
<1>13. CASE StartSidecar(l)
  BY <1>13 DEF StartSidecar
<1> QED
  BY <1>1, <1>2, <1>3, <1>4, <1>5, <1>6, <1>7, <1>8, <1>9, <1>10, <1>11, <1>12, <1>13

(* Supervision, cleanup and crashes.                                         *)
LEMMA ShutdownMoves ==
  ASSUME TypeOK, NEW l \in Launches,
         \/ Monitor(l) \/ SignalSidecar(l) \/ ReapSidecar(l)
         \/ KillSidecar(l) \/ BeginCleanup(l) \/ DisableMotors(l)
         \/ CloseLink(l) \/ Exit(l) \/ CrashLaunch(l)
  PROVE  Moves(l)
<1>0. /\ pc \in [Launches -> Labels] /\ lock \in [Launches -> {"none", "shared", "exclusive"}]
      /\ sidecar \in [Launches -> {"none", "exited", "failed"} \cup AliveStates]
      /\ probed \in [Launches -> BOOLEAN]
      /\ link \in [Sides -> [Ifaces -> {"down", "up"}]]
      /\ SideOf[l] \in Sides /\ ModeOf[l] \in {"shared", "isolated", "managed"}
  BY LifecycleAssumption
  DEF LifecycleAssumption, TypeOK, LaunchTypes, ChildTypes, RobotTypes
<1> USE <1>0 DEF Moves, Frame, LockMove, ScanMove, ChildOk, Owning, Scanned,
         Active, PreHandler, Starting, Supervising, Cleaning, Alive, AliveStates,
         BoundStates, DestroyStates, launchVars, childVars, robotVars, Goto,
         Leave, Refuse, ToFinally
<1>1. CASE Monitor(l)
  BY <1>1 DEF Monitor
<1>2. CASE SignalSidecar(l)
  BY <1>2 DEF SignalSidecar
<1>3. CASE ReapSidecar(l)
  BY <1>3 DEF ReapSidecar
<1>4. CASE KillSidecar(l)
  BY <1>4 DEF KillSidecar, SidecarEnds, DieUncleanly, Leave
<1>5. CASE BeginCleanup(l)
  BY <1>5 DEF BeginCleanup
<1>6. CASE DisableMotors(l)
  BY <1>6 DEF DisableMotors
<1>7. CASE CloseLink(l)
  BY <1>7 DEF CloseLink
<1>8. CASE Exit(l)
  BY <1>8 DEF Exit
<1>9. CASE CrashLaunch(l)
  BY <1>9 DEF CrashLaunch
<1> QED
  BY <1>1, <1>2, <1>3, <1>4, <1>5, <1>6, <1>7, <1>8, <1>9

(* The sidecar.                                                              *)
LEMMA SidecarMoves ==
  ASSUME TypeOK, NEW l \in Launches,
         \/ BindControl(l) \/ SidecarRefuses(l) \/ CreateUnilateral(l)
         \/ CreateFails(l) \/ ControlRunning(l) \/ StopControl(l)
         \/ DestroyHandle(l) \/ BrokenPipe(l) \/ CrashSidecar(l)
  PROVE  Moves(l)
<1>0. /\ pc \in [Launches -> Labels] /\ lock \in [Launches -> {"none", "shared", "exclusive"}]
      /\ sidecar \in [Launches -> {"none", "exited", "failed"} \cup AliveStates]
      /\ probed \in [Launches -> BOOLEAN]
      /\ link \in [Sides -> [Ifaces -> {"down", "up"}]]
      /\ SideOf[l] \in Sides /\ ModeOf[l] \in {"shared", "isolated", "managed"}
  BY LifecycleAssumption
  DEF LifecycleAssumption, TypeOK, LaunchTypes, ChildTypes, RobotTypes
<1> USE <1>0 DEF Moves, Frame, LockMove, ScanMove, ChildOk, Owning, Scanned,
         Active, PreHandler, Starting, Supervising, Cleaning, Alive, AliveStates,
         BoundStates, DestroyStates, launchVars, childVars, robotVars, Goto,
         Leave, Refuse, ToFinally
<1>1. CASE BindControl(l)
  BY <1>1 DEF BindControl
<1>2. CASE SidecarRefuses(l)
  BY <1>2 DEF SidecarRefuses, SidecarEnds
<1>3. CASE CreateUnilateral(l)
  BY <1>3 DEF CreateUnilateral
<1>4. CASE CreateFails(l)
  BY <1>4 DEF CreateFails, SidecarEnds
<1>5. CASE ControlRunning(l)
  BY <1>5 DEF ControlRunning
<1>6. CASE StopControl(l)
  BY <1>6 DEF StopControl
<1>7. CASE DestroyHandle(l)
  BY <1>7 DEF DestroyHandle, SidecarEnds
<1>8. CASE BrokenPipe(l)
  BY <1>8 DEF BrokenPipe, SidecarEnds, DieUncleanly, Leave
<1>9. CASE CrashSidecar(l)
  BY <1>9 DEF CrashSidecar, SidecarEnds, DieUncleanly, Leave
<1> QED
  BY <1>1, <1>2, <1>3, <1>4, <1>5, <1>6, <1>7, <1>8, <1>9

(* A signal, before and after the handlers are installed.                    *)
LEMMA InterruptKeeps ==
  ASSUME TypeOK, NEW l \in Launches, NEW group \in BOOLEAN, Interrupt(l, group)
  PROVE  TypeOK' /\ Moves(l)
<1>0. LaunchTypes /\ ChildTypes /\ RobotTypes  BY DEF TypeOK
<1>1. LaunchTypes'
  BY <1>0, RefuseTypes DEF Interrupt, LaunchTypes
<1>2. sigint' \in [Launches -> BOOLEAN]
  BY <1>0 DEF Interrupt, ChildTypes
<1>3. TypeOK'
  BY <1>0, <1>1, <1>2 DEF Interrupt, TypeOK, ChildTypes, RobotTypes, robotVars
<1>4. Moves(l)
  BY <1>0
  DEF Interrupt, LaunchTypes, ChildTypes, RobotTypes, Moves, Frame, LockMove,
      ScanMove, ChildOk, Owning, Scanned, Active, PreHandler, Starting, Supervising,
      Cleaning, Alive, AliveStates, BoundStates, DestroyStates, robotVars, Goto,
      Leave, Refuse
<1> QED  BY <1>3, <1>4

(* What comes in at the gate concerns nothing but the gate.                  *)
LEMMA GateInputKeeps ==
  ASSUME TypeOK, NEW l \in Launches, GateInput(l)
  PROVE  TypeOK' /\ Moves(l)
<1>1. TypeOK'
  BY DEF GateInput, TypeOK, LaunchTypes, ChildTypes, RobotTypes, childVars, robotVars
<1>2. Moves(l)
  BY DEF GateInput, Moves, Frame, LockMove, ScanMove, ChildOk, Alive, childVars, robotVars
<1> QED  BY <1>1, <1>2

(* Every step is a move of one launch and keeps the types.                   *)
LEMMA StepMoves ==
  ASSUME TypeOK, LifecycleNext
  PROVE  TypeOK' /\ \E l \in Launches : Moves(l)
<1>1. PICK l \in Launches :
        \/ Launch(l) \/ Lifecycle(l) \/ Sidecar(l) \/ Hardware(l)
        \/ GateInput(l)
        \/ \E group \in BOOLEAN : Interrupt(l, group)
  BY DEF LifecycleNext
<1>2. CASE Launch(l) \/ Lifecycle(l) \/ Sidecar(l) \/ Hardware(l)
  BY <1>2, StartupTypes, StartupMoves, ShutdownTypes, ShutdownMoves, SidecarTypes,
     SidecarMoves
  DEF Lifecycle, Prints, Quiet, Sidecar, Controls, Hardware
<1>3. CASE \E group \in BOOLEAN : Interrupt(l, group)
  BY <1>3, InterruptKeeps
<1>4. CASE GateInput(l)
  BY <1>4, GateInputKeeps
<1> QED  BY <1>1, <1>2, <1>3, <1>4

(* The lock follows the ownership it stands for, whoever moved.              *)
LEMMA LockKept ==
  ASSUME LockHeld, LockExclusive, NEW l \in Launches, Moves(l)
  PROVE  LockHeld' /\ LockExclusive'
<1> USE DEF Moves, Frame, LockMove
<1>1. LockHeld'
  BY DEF LockHeld, Isolated
<1>2. ASSUME NEW m \in Launches, NEW k \in Launches, m # k, lock'[m] = "exclusive"
      PROVE  lock'[k] = "none"
  <2>1. CASE lock'[l] = lock[l] \/ lock'[l] = "none"
    BY <1>2, <2>1 DEF LockExclusive
  <2>2. CASE LockFree(l) /\ lock'[l] = IF Isolated(l) THEN "exclusive" ELSE "shared"
    BY <1>2, <2>2 DEF LockExclusive, LockFree
  <2> QED  BY <2>1, <2>2
<1> QED  BY <1>1, <1>2 DEF LockExclusive

(* What an isolated launch saw in its scan stays true while it has the lock. *)
LEMMA AloneKept ==
  ASSUME LifecycleInv, NEW l \in Launches, Moves(l)
  PROVE  AloneSinceScan'
<1>0. LockHeld /\ LockExclusive /\ ChildPhase /\ AloneSinceScan
  BY DEF LifecycleInv
<1> SUFFICES ASSUME NEW k \in Launches, Isolated(k), pc'[k] \in Scanned
             PROVE  InactiveDown(k)' /\ \A m \in Launches : m # k => ~Alive(m)'
  BY DEF AloneSinceScan, Isolated
<1>s. SideOf[k] \in Sides /\ Other(SideOf[k]) \in Sides /\ Other(SideOf[k]) # SideOf[k]
  BY LifecycleAssumption DEF LifecycleAssumption, Sides, Other
<1>1. CASE k = l
  <2>1. /\ InactiveDown(k)
        /\ \A m \in Launches : m # k => ~Alive(m)
    BY <1>0, <1>1 DEF Moves, ScanMove, AloneSinceScan, Competes
  <2> QED  BY <1>1, <1>s, <2>1 DEF Moves, Frame, InactiveDown, Alive
<1>2. CASE k # l
  <2>1. pc[k] \in Scanned
    BY <1>2 DEF Moves, Frame
  <2>2. InactiveDown(k) /\ \A m \in Launches : m # k => ~Alive(m)
    BY <1>0, <2>1 DEF AloneSinceScan
  <2>3. pc[l] \notin Owning /\ pc[l] # "prestart"
    <3>1. lock[k] = "exclusive"
      BY <1>0, <2>1 DEF LockHeld, Scanned
    <3>2. lock[l] = "none"
      BY <1>0, <1>2, <3>1 DEF LockExclusive
    <3>3. pc[l] \notin Owning
      BY <1>0, <3>2 DEF LockHeld
    <3> QED  BY <3>3 DEF Owning, Active, Starting
  <2> QED  BY <1>2, <1>s, <2>2, <2>3 DEF Moves, Frame, InactiveDown, Alive
<1> QED  BY <1>1, <1>2

(* Every step, of any launch, keeps the whole invariant.                     *)
LEMMA LifecycleStep == LifecycleInv /\ [LifecycleNext]_vars => LifecycleInv'
<1> SUFFICES ASSUME LifecycleInv, [LifecycleNext]_vars  PROVE LifecycleInv'
  OBVIOUS
<1>1. CASE LifecycleNext
  <2>1. TypeOK' /\ \E l \in Launches : Moves(l)
    BY <1>1, StepMoves DEF LifecycleInv
  <2>2. PICK l \in Launches : Moves(l)
    BY <2>1
  <2>3. LockHeld' /\ LockExclusive'
    BY <2>2, LockKept DEF LifecycleInv
  <2>4. ChildPhase'
    <3> SUFFICES ASSUME NEW k \in Launches  PROVE ChildOk(k)'
      BY DEF ChildPhase
    <3>1. ChildOk(k)
      BY DEF LifecycleInv, ChildPhase
    <3>2. CASE k = l
      BY <2>2, <3>1, <3>2 DEF Moves
    <3>3. CASE k # l
      BY <2>2, <3>1, <3>3 DEF Moves, Frame, ChildOk, Alive
    <3> QED  BY <3>2, <3>3
  <2>5. AloneSinceScan'
    BY <2>2, AloneKept
  <2> QED  BY <2>1, <2>3, <2>4, <2>5 DEF LifecycleInv
<1>2. CASE UNCHANGED vars
  BY <1>2
  DEF vars, launchVars, childVars, robotVars, LifecycleInv, TypeOK, LaunchTypes,
      ChildTypes, RobotTypes, LockHeld, LockExclusive, ChildPhase, ChildOk,
      AloneSinceScan, InactiveDown, Alive, Isolated
<1> QED  BY <1>1, <1>2
-----------------------------------------------------------------------------
(* The strengthened invariant: types, the lock protocol, the phases in which *)
(* a native controller can exist, and what an isolated scan established.     *)
THEOREM LifecycleInvariant == Spec => []LifecycleInv
<1>1. Init => LifecycleInv
  BY InitInv
<1>2. LifecycleInv /\ [LifecycleNext]_vars => LifecycleInv'
  BY LifecycleStep
<1> QED  BY <1>1, <1>2, PTL DEF Spec

(* run_xair_side and the native sidecar keep the types of their fields.      *)
THEOREM LifecycleTypes == Spec => []TypeOK
<1>1. LifecycleInv => TypeOK
  BY DEF LifecycleInv
<1> QED  BY <1>1, LifecycleInvariant, PTL

(* No exit path of run_xair_side leaves a native controller behind, and none *)
(* is started before both links passed the probe.                            *)
THEOREM ChildrenSupervised == Spec => []ChildSupervised
<1>1. LifecycleInv => ChildSupervised
  BY DEF LifecycleInv, ChildPhase, ChildOk, ChildSupervised
<1> QED  BY <1>1, LifecycleInvariant, PTL

(* While an isolated session's controller lives under its launch, no         *)
(* controller of the other side lives and the other side's links are DOWN.   *)
THEOREM IsolationHolds == Spec => []IsolatedAlone
<1>1. LifecycleInv => IsolatedAlone
  <2> SUFFICES ASSUME LifecycleInv, NEW l \in Launches,
                      Isolated(l), pc[l] \in Active, Alive(l)
               PROVE  /\ InactiveDown(l)
                      /\ \A m \in Launches : SideOf[m] # SideOf[l] => ~Alive(m)
    BY DEF IsolatedAlone
  <2>1. pc[l] \in Supervising
    BY DEF LifecycleInv, ChildPhase, ChildOk, Active, PreHandler, Starting,
           Supervising, Cleaning
  <2>2. pc[l] \in Scanned
    BY <2>1 DEF Scanned, Owning, Active, Supervising
  <2> QED  BY <2>2 DEF LifecycleInv, AloneSinceScan
<1> QED  BY <1>1, LifecycleInvariant, PTL
-----------------------------------------------------------------------------
(***************************************************************************)
(* How a launch leaves the robot, for any number of launches, links and    *)
(* crashes: enabled motors are always answered for; and, where the launches*)
(* of one side are started one after the other, one controller owns a side *)
(* and exit status zero means a stopped robot.                             *)
(*                                                                         *)
(* A launch answers for a link from the moment its links are open until it *)
(* has disabled the motors behind it (Answers); a step of one launch gives *)
(* up no motor that it leaves enabled, so no other launch need be looked   *)
(* at.  Of two launches of a side one at most is active, and no controller *)
(* is left once the later one has scanned (Apart); hence what its cleanup  *)
(* has taken down stays down until it is gone (TakenDown).                 *)
(***************************************************************************)


Armed == (Starting \ {"configure"}) \cup Supervising

(* What the places of a launch say of its links.                             *)
Opened(l) ==
  /\ pc[l] \in Armed => linksOpen[l]
  /\ pc[l] \in {"stopping", "waiting"} => iface[l] = 1
  /\ pc[l] \in Cleaning /\ ~linksOpen[l] => failed[l]

(* Launch l answers for the motors behind link i: its controller lives, it   *)
(* has yet to disable them, it reported that it could not, or it was killed. *)
Answers(l, i) ==
  \/ Alive(l) \/ cleanupFailed[l] \/ pc[l] = "crashed" \/ pc[l] \in Armed
  \/ linksOpen[l] /\ pc[l] \in {"cleanup", "disable"} /\ iface[l] <= i
  \/ linksOpen[l] /\ pc[l] = "closing" /\ iface[l] < i

Answered ==
  \A s \in Sides, i \in Ifaces : motor[s][i] = "on" =>
    \E l \in Launches : SideOf[l] = s /\ Answers(l, i)

(* How far the cleanup of a launch has come.                                 *)
PastLink(l, i) == pc[l] = "endpoint" \/ (pc[l] \in Cleaning /\ i < iface[l])
PastMotors(l, i) == PastLink(l, i) \/ (pc[l] = "closing" /\ i = iface[l])

TakenDown(l) ==
  linksOpen[l] /\ ~cleanupFailed[l] => \A i \in Ifaces :
    /\ PastLink(l, i) => link[SideOf[l]][i] = "down"
    /\ PastMotors(l, i) => motor[SideOf[l]][i] = "off"

(* Two launches of one side, when one is started only after the other.       *)
Apart(l, m) ==
  /\ ~(pc[l] \in Active /\ pc[m] \in Active)
  /\ pc[l] \in Scanned => ~Alive(m)
  /\ ~(Alive(l) /\ Alive(m))

CleanupInv == LifecycleInv /\ (\A l \in Launches : Opened(l)) /\ Answered

ExitInv ==
  /\ CleanupInv
  /\ \A l, m \in Launches : l # m /\ SideOf[l] = SideOf[m] => Apart(l, m)
  /\ \A l \in Launches : TakenDown(l)
-----------------------------------------------------------------------------
(* What a step of launch l, or of its controller, leaves alone: the other    *)
(* launches and the other side; the motors, but for a controller of its own  *)
(* or in its disable sequence; a link that is UP, but while it configures or *)
(* closes it.  It becomes active only when it is launched, what is gone stays*)
(* gone, and a crash is counted.                                             *)
Touches(l) ==
  /\ \A m \in Launches : m # l =>
       /\ iface'[m] = iface[m] /\ linksOpen'[m] = linksOpen[m]
       /\ cleanupFailed'[m] = cleanupFailed[m] /\ failed'[m] = failed[m]
  /\ \A s \in Sides : s # SideOf[l] => motor'[s] = motor[s] /\ endpoint'[s] = endpoint[s]
  /\ motor' = motor \/ Alive(l) \/ pc[l] = "disable"
  /\ \A s \in Sides, i \in Ifaces :
       link[s][i] = "up" /\ link'[s][i] = "down" =>
         s = SideOf[l] /\ pc[l] \in {"configure", "closing"}
  /\ pc'[l] \in Active =>
       \/ pc[l] \in Active
       \/ OneAtATime => \A m \in Launches : SideOf[m] = SideOf[l] => pc[m] \notin Active
  /\ pc[l] \in Gone => pc'[l] = pc[l]
  /\ crashes' >= crashes /\ (pc'[l] = "crashed" => pc[l] = "crashed" \/ crashes' > 0)

(* What it owes: it stops answering only for motors that are off, and takes  *)
(* down its links before it passes them.                                     *)
Owes(l) ==
  /\ Opened(l)'
  /\ \A i \in Ifaces : motor'[SideOf[l]][i] = "on" =>
       Answers(l, i)' \/ (motor[SideOf[l]][i] = "on" /\ ~Answers(l, i))
  /\ TakenDown(l) => TakenDown(l)'
  /\ pc[l] \in Active /\ pc'[l] = "exited" /\ ~failed'[l] =>
       /\ pc[l] = "endpoint" /\ linksOpen[l] /\ ~cleanupFailed[l]
       /\ link' = link /\ motor' = motor /\ endpoint'[SideOf[l]] = "absent"

(* The types of what launch l reads and writes.                              *)
FieldTypes(l) ==
  /\ pc \in [Launches -> Labels] /\ iface \in [Launches -> Ifaces]
  /\ linksOpen \in [Launches -> BOOLEAN] /\ failed \in [Launches -> BOOLEAN]
  /\ cleanupFailed \in [Launches -> BOOLEAN]
  /\ sidecar \in [Launches -> {"none", "exited", "failed"} \cup AliveStates]
  /\ link \in [Sides -> [Ifaces -> {"down", "up"}]]
  /\ motor \in [Sides -> [Ifaces -> {"off", "on"}]]
  /\ endpoint \in [Sides -> {"absent", "bound", "orphan"}]
  /\ SideOf[l] \in Sides /\ ModeOf[l] \in {"shared", "isolated", "managed"}
  /\ LinksPerSide \in Nat \ {0} /\ crashes \in Nat

LEMMA FieldsTyped ==
  ASSUME TypeOK, NEW l \in Launches
  PROVE  FieldTypes(l)
BY LifecycleAssumption
DEF LifecycleAssumption, TypeOK, LaunchTypes, ChildTypes, RobotTypes, FieldTypes

(* Starting up, as far as the sidecar. What it touches.                      *)
LEMMA StartupTouches ==
  ASSUME TypeOK, NEW l \in Launches,
         \/ Launch(l) \/ AcquireLifecycleLock(l)
         \/ RequireExclusiveControl(l) \/ RemoveOrphanBeforeStart(l)
         \/ ConfigureCan(l) \/ ConfigureCanFails(l) \/ ReadBaseline(l)
         \/ ProbeMotorFeedback(l) \/ RecheckInterlock(l) \/ AwaitRelease(l)
         \/ LeaveGate(l) \/ StartupFault(l) \/ StartSidecar(l)
  PROVE  Touches(l)
<1>0. FieldTypes(l)
  BY FieldsTyped
<1> USE <1>0 DEF FieldTypes, Touches, Gone, Active, PreHandler, Starting, Supervising, Cleaning,
         Alive, AliveStates, BoundStates, DestroyStates, launchVars, childVars, robotVars,
         Goto, Leave, Refuse, ToFinally
<1>1. CASE Launch(l)
  BY <1>1 DEF Launch
<1>2. CASE AcquireLifecycleLock(l)
  BY <1>2 DEF AcquireLifecycleLock
<1>3. CASE RequireExclusiveControl(l)
  BY <1>3 DEF RequireExclusiveControl
<1>4. CASE RemoveOrphanBeforeStart(l)
  BY <1>4 DEF RemoveOrphanBeforeStart
<1>5. CASE ConfigureCan(l)
  BY <1>5 DEF ConfigureCan
<1>6. CASE ConfigureCanFails(l)
  BY <1>6 DEF ConfigureCanFails
<1>7. CASE ReadBaseline(l)
  BY <1>7 DEF ReadBaseline
<1>8. CASE ProbeMotorFeedback(l)
  BY <1>8 DEF ProbeMotorFeedback
<1>9. CASE RecheckInterlock(l)
  BY <1>9 DEF RecheckInterlock
<1>10. CASE AwaitRelease(l)
  BY <1>10 DEF AwaitRelease
<1>11. CASE LeaveGate(l)
  BY <1>11 DEF LeaveGate
<1>12. CASE StartupFault(l)
  BY <1>12 DEF StartupFault
<1>13. CASE StartSidecar(l)
  BY <1>13 DEF StartSidecar
<1> QED
  BY <1>1, <1>2, <1>3, <1>4, <1>5, <1>6, <1>7, <1>8, <1>9, <1>10, <1>11,
  <1>12, <1>13

(* Starting up, as far as the sidecar. What it owes.                         *)
LEMMA StartupOwes ==
  ASSUME TypeOK, NEW l \in Launches, ChildOk(l), Opened(l),
         \/ Launch(l) \/ AcquireLifecycleLock(l)
         \/ RequireExclusiveControl(l) \/ RemoveOrphanBeforeStart(l)
         \/ ConfigureCan(l) \/ ConfigureCanFails(l) \/ ReadBaseline(l)
         \/ ProbeMotorFeedback(l) \/ RecheckInterlock(l) \/ AwaitRelease(l)
         \/ LeaveGate(l) \/ StartupFault(l) \/ StartSidecar(l)
  PROVE  Owes(l)
<1>0. FieldTypes(l)
  BY FieldsTyped
<1> USE <1>0 DEF FieldTypes, Owes, Opened, Answers, TakenDown, PastLink, PastMotors,
         Armed, ChildOk, Active, PreHandler, Starting, Supervising, Cleaning, Alive, AliveStates,
         BoundStates, DestroyStates, launchVars, childVars, robotVars, Goto, Leave,
         Refuse, ToFinally, Ifaces
<1>1. CASE Launch(l)
  BY <1>1 DEF Launch
<1>2. CASE AcquireLifecycleLock(l)
  BY <1>2 DEF AcquireLifecycleLock
<1>3. CASE RequireExclusiveControl(l)
  BY <1>3 DEF RequireExclusiveControl
<1>4. CASE RemoveOrphanBeforeStart(l)
  BY <1>4 DEF RemoveOrphanBeforeStart
<1>5. CASE ConfigureCan(l)
  BY <1>5 DEF ConfigureCan
<1>6. CASE ConfigureCanFails(l)
  <2>1. /\ pc[l] = "configure" /\ pc'[l] = "cleanup"
        /\ iface'[l] = 1 /\ failed'[l] /\ linksOpen' = linksOpen
        /\ motor' = motor /\ sidecar' = sidecar /\ cleanupFailed' = cleanupFailed
    BY <1>6 DEF ConfigureCanFails
  <2> QED  BY <2>1
<1>7. CASE ReadBaseline(l)
  BY <1>7 DEF ReadBaseline
<1>8. CASE ProbeMotorFeedback(l)
  BY <1>8 DEF ProbeMotorFeedback
<1>9. CASE RecheckInterlock(l)
  BY <1>9 DEF RecheckInterlock
<1>10. CASE AwaitRelease(l)
  BY <1>10 DEF AwaitRelease
<1>11. CASE LeaveGate(l)
  BY <1>11 DEF LeaveGate
<1>12. CASE StartupFault(l)
  BY <1>12 DEF StartupFault
<1>13. CASE StartSidecar(l)
  BY <1>13 DEF StartSidecar
<1> QED
  BY <1>1, <1>2, <1>3, <1>4, <1>5, <1>6, <1>7, <1>8, <1>9, <1>10, <1>11,
  <1>12, <1>13

(* Supervision, cleanup and crashes. What it touches.                        *)
LEMMA ShutdownTouches ==
  ASSUME TypeOK, NEW l \in Launches,
         \/ Monitor(l) \/ SignalSidecar(l) \/ ReapSidecar(l)
         \/ KillSidecar(l) \/ BeginCleanup(l) \/ DisableMotors(l)
         \/ CloseLink(l) \/ Exit(l) \/ CrashLaunch(l)
  PROVE  Touches(l)
<1>0. FieldTypes(l)
  BY FieldsTyped
<1> USE <1>0 DEF FieldTypes, Touches, Gone, Active, PreHandler, Starting, Supervising, Cleaning,
         Alive, AliveStates, BoundStates, DestroyStates, launchVars, childVars, robotVars,
         Goto, Leave, Refuse, ToFinally
<1>1. CASE Monitor(l)
  BY <1>1 DEF Monitor
<1>2. CASE SignalSidecar(l)
  BY <1>2 DEF SignalSidecar
<1>3. CASE ReapSidecar(l)
  BY <1>3 DEF ReapSidecar
<1>4. CASE KillSidecar(l)
  BY <1>4 DEF KillSidecar, SidecarEnds, DieUncleanly
<1>5. CASE BeginCleanup(l)
  <2>1. \A s \in Sides, i \in Ifaces : link[s][i] = "up" => link'[s][i] = "up"
    BY <1>5 DEF BeginCleanup
  <2> QED  BY <1>5, <2>1 DEF BeginCleanup
<1>6. CASE DisableMotors(l)
  BY <1>6 DEF DisableMotors
<1>7. CASE CloseLink(l)
  BY <1>7 DEF CloseLink
<1>8. CASE Exit(l)
  BY <1>8 DEF Exit
<1>9. CASE CrashLaunch(l)
  BY <1>9 DEF CrashLaunch
<1> QED
  BY <1>1, <1>2, <1>3, <1>4, <1>5, <1>6, <1>7, <1>8, <1>9

(* Supervision, cleanup and crashes. What it owes.                           *)
LEMMA ShutdownOwes ==
  ASSUME TypeOK, NEW l \in Launches, ChildOk(l), Opened(l),
         \/ Monitor(l) \/ SignalSidecar(l) \/ ReapSidecar(l)
         \/ KillSidecar(l) \/ BeginCleanup(l) \/ DisableMotors(l)
         \/ CloseLink(l) \/ Exit(l) \/ CrashLaunch(l)
  PROVE  Owes(l)
<1>0. FieldTypes(l)
  BY FieldsTyped
<1> USE <1>0 DEF FieldTypes, Owes, Opened, Answers, TakenDown, PastLink, PastMotors,
         Armed, ChildOk, Active, PreHandler, Starting, Supervising, Cleaning, Alive, AliveStates,
         BoundStates, DestroyStates, launchVars, childVars, robotVars, Goto, Leave,
         Refuse, ToFinally, Ifaces
<1>1. CASE Monitor(l)
  BY <1>1 DEF Monitor
<1>2. CASE SignalSidecar(l)
  BY <1>2 DEF SignalSidecar
<1>3. CASE ReapSidecar(l)
  BY <1>3 DEF ReapSidecar
<1>4. CASE KillSidecar(l)
  BY <1>4 DEF KillSidecar, SidecarEnds, DieUncleanly
<1>5. CASE BeginCleanup(l)
  BY <1>5 DEF BeginCleanup
<1>6. CASE DisableMotors(l)
  <2>1. /\ pc[l] = "disable" /\ pc'[l] = "closing" /\ iface' = iface
        /\ linksOpen' = linksOpen /\ failed' = failed /\ sidecar' = sidecar
        /\ link' = link
    BY <1>6 DEF DisableMotors
  <2>2. Opened(l)'
    BY <2>1
  <2>3. CASE cleanupFailed'[l]
    BY <2>1, <2>2, <2>3
  <2>4. CASE ~cleanupFailed'[l]
    <3>1. \A i \in Ifaces :
            motor'[SideOf[l]][i] = IF i = iface[l] THEN "off" ELSE motor[SideOf[l]][i]
      BY <1>6, <2>4 DEF DisableMotors
    <3>2. cleanupFailed' = cleanupFailed
      BY <1>6, <2>4 DEF DisableMotors
    <3> QED  BY <2>1, <2>2, <3>1, <3>2
  <2> QED  BY <2>3, <2>4
<1>7. CASE CloseLink(l)
  BY <1>7 DEF CloseLink
<1>8. CASE Exit(l)
  BY <1>8 DEF Exit
<1>9. CASE CrashLaunch(l)
  BY <1>9 DEF CrashLaunch
<1> QED
  BY <1>1, <1>2, <1>3, <1>4, <1>5, <1>6, <1>7, <1>8, <1>9

(* The sidecar. What it touches.                                             *)
LEMMA SidecarTouches ==
  ASSUME TypeOK, NEW l \in Launches,
         \/ BindControl(l) \/ SidecarRefuses(l) \/ CreateUnilateral(l)
         \/ CreateFails(l) \/ ControlRunning(l) \/ StopControl(l)
         \/ DestroyHandle(l) \/ BrokenPipe(l) \/ CrashSidecar(l)
  PROVE  Touches(l)
<1>0. FieldTypes(l)
  BY FieldsTyped
<1> USE <1>0 DEF FieldTypes, Touches, Gone, Active, PreHandler, Starting, Supervising, Cleaning,
         Alive, AliveStates, BoundStates, DestroyStates, launchVars, childVars, robotVars,
         Goto, Leave, Refuse, ToFinally
<1>1. CASE BindControl(l)
  BY <1>1 DEF BindControl
<1>2. CASE SidecarRefuses(l)
  BY <1>2 DEF SidecarRefuses, SidecarEnds
<1>3. CASE CreateUnilateral(l)
  BY <1>3 DEF CreateUnilateral
<1>4. CASE CreateFails(l)
  BY <1>4 DEF CreateFails, SidecarEnds
<1>5. CASE ControlRunning(l)
  BY <1>5 DEF ControlRunning
<1>6. CASE StopControl(l)
  BY <1>6 DEF StopControl
<1>7. CASE DestroyHandle(l)
  BY <1>7 DEF DestroyHandle, SidecarEnds
<1>8. CASE BrokenPipe(l)
  BY <1>8 DEF BrokenPipe, SidecarEnds, DieUncleanly
<1>9. CASE CrashSidecar(l)
  BY <1>9 DEF CrashSidecar, SidecarEnds, DieUncleanly
<1> QED
  BY <1>1, <1>2, <1>3, <1>4, <1>5, <1>6, <1>7, <1>8, <1>9

(* The sidecar. What it owes.                                                *)
LEMMA SidecarOwes ==
  ASSUME TypeOK, NEW l \in Launches, ChildOk(l), Opened(l),
         \/ BindControl(l) \/ SidecarRefuses(l) \/ CreateUnilateral(l)
         \/ CreateFails(l) \/ ControlRunning(l) \/ StopControl(l)
         \/ DestroyHandle(l) \/ BrokenPipe(l) \/ CrashSidecar(l)
  PROVE  Owes(l)
<1>0. FieldTypes(l)
  BY FieldsTyped
<1> USE <1>0 DEF FieldTypes, Owes, Opened, Answers, TakenDown, PastLink, PastMotors,
         Armed, ChildOk, Active, PreHandler, Starting, Supervising, Cleaning, Alive, AliveStates,
         BoundStates, DestroyStates, launchVars, childVars, robotVars, Goto, Leave,
         Refuse, ToFinally, Ifaces
<1>1. CASE BindControl(l)
  BY <1>1 DEF BindControl
<1>2. CASE SidecarRefuses(l)
  BY <1>2 DEF SidecarRefuses, SidecarEnds
<1>3. CASE CreateUnilateral(l)
  BY <1>3 DEF CreateUnilateral
<1>4. CASE CreateFails(l)
  BY <1>4 DEF CreateFails, SidecarEnds
<1>5. CASE ControlRunning(l)
  BY <1>5 DEF ControlRunning
<1>6. CASE StopControl(l)
  BY <1>6 DEF StopControl
<1>7. CASE DestroyHandle(l)
  BY <1>7 DEF DestroyHandle, SidecarEnds
<1>8. CASE BrokenPipe(l)
  BY <1>8 DEF BrokenPipe, SidecarEnds, DieUncleanly
<1>9. CASE CrashSidecar(l)
  BY <1>9 DEF CrashSidecar, SidecarEnds, DieUncleanly
<1> QED
  BY <1>1, <1>2, <1>3, <1>4, <1>5, <1>6, <1>7, <1>8, <1>9

(* A signal, and what comes in at the gate.                                  *)
LEMMA InputTouchesOwes ==
  ASSUME TypeOK, NEW l \in Launches, ChildOk(l), Opened(l),
         GateInput(l) \/ \E group \in BOOLEAN : Interrupt(l, group)
  PROVE  Touches(l) /\ Owes(l)
<1>0. FieldTypes(l)
  BY FieldsTyped
<1> USE <1>0 DEF FieldTypes, Touches, Gone, Owes, Opened, Answers, TakenDown, PastLink,
         PastMotors, Armed, ChildOk, Active, PreHandler, Starting, Supervising, Cleaning, Alive,
         AliveStates, BoundStates, DestroyStates, childVars, robotVars, Goto, Leave,
         Refuse
<1>1. CASE GateInput(l)
  BY <1>1 DEF GateInput
<1>2. CASE \E group \in BOOLEAN : Interrupt(l, group)
  BY <1>2 DEF Interrupt
<1> QED  BY <1>1, <1>2

(* Every step is of one launch, which touches and owes no more than that.    *)
LEMMA StepOwes ==
  ASSUME TypeOK, ChildPhase, \A l \in Launches : Opened(l), LifecycleNext
  PROVE  \E l \in Launches : Moves(l) /\ Touches(l) /\ Owes(l)
<1>1. PICK l \in Launches :
        \/ Launch(l) \/ Lifecycle(l) \/ Sidecar(l) \/ Hardware(l)
        \/ GateInput(l)
        \/ \E group \in BOOLEAN : Interrupt(l, group)
  BY DEF LifecycleNext
<1>2. ChildOk(l) /\ Opened(l)
  BY DEF ChildPhase
<1>3. CASE Launch(l) \/ Lifecycle(l) \/ Sidecar(l) \/ Hardware(l)
  <2>1. Moves(l)
    BY <1>3, StartupMoves, ShutdownMoves, SidecarMoves
    DEF Lifecycle, Prints, Quiet, Sidecar, Controls, Hardware
  <2>2. Touches(l)
    BY <1>3, StartupTouches, ShutdownTouches, SidecarTouches
    DEF Lifecycle, Prints, Quiet, Sidecar, Controls, Hardware
  <2>3. Owes(l)
    BY <1>2, <1>3, StartupOwes, ShutdownOwes, SidecarOwes
    DEF Lifecycle, Prints, Quiet, Sidecar, Controls, Hardware
  <2> QED  BY <2>1, <2>2, <2>3
<1>4. CASE GateInput(l) \/ \E group \in BOOLEAN : Interrupt(l, group)
  BY <1>2, <1>4, InputTouchesOwes, InterruptKeeps, GateInputKeeps
<1> QED  BY <1>1, <1>3, <1>4
-----------------------------------------------------------------------------
(* A launch that does not move goes on answering for what it answered for.   *)
LEMMA OthersAnswer ==
  ASSUME NEW l \in Launches, Moves(l), Touches(l),
         NEW m \in Launches, m # l, NEW i \in Ifaces
  PROVE  (Answers(m, i)' <=> Answers(m, i)) /\ (Opened(m)' <=> Opened(m))
BY DEF Moves, Frame, Touches, Answers, Opened, Alive

LEMMA AnsweredKept ==
  ASSUME CleanupInv, NEW l \in Launches, Moves(l), Touches(l), Owes(l)
  PROVE  Answered'
<1> SUFFICES ASSUME NEW s \in Sides, NEW i \in Ifaces, motor'[s][i] = "on"
             PROVE  \E m \in Launches : SideOf[m] = s /\ Answers(m, i)'
  BY DEF Answered
<1>1. CASE s = SideOf[l] /\ Answers(l, i)'
  BY <1>1
<1>2. CASE ~(s = SideOf[l] /\ Answers(l, i)')
  <2>1. motor[s][i] = "on" /\ ~(s = SideOf[l] /\ Answers(l, i))
    BY <1>2 DEF Touches, Owes
  <2>2. PICK m \in Launches : SideOf[m] = s /\ Answers(m, i)
    BY <2>1 DEF CleanupInv, Answered
  <2> QED  BY <2>1, <2>2, OthersAnswer
<1> QED  BY <1>1, <1>2

LEMMA OpenedKept ==
  ASSUME CleanupInv, NEW l \in Launches, Moves(l), Touches(l), Owes(l)
  PROVE  \A m \in Launches : Opened(m)'
BY DEF CleanupInv, Moves, Frame, Touches, Owes, Opened

(* Of two launches of a side one is active; what comes to life is of it.     *)
LEMMA ApartKept ==
  ASSUME OneAtATime, ExitInv, NEW l \in Launches, Moves(l), Touches(l),
         NEW k \in Launches, NEW m \in Launches, k # m, SideOf[k] = SideOf[m]
  PROVE  Apart(k, m)'
<1> USE DEF Moves, Frame, Touches, Apart, Alive
<1>1. CASE k # l /\ m # l
  BY <1>1 DEF ExitInv
<1>2. ASSUME NEW o \in Launches, o # l, SideOf[o] = SideOf[l]
      PROVE  Apart(l, o)' /\ Apart(o, l)'
  <2>1. Apart(l, o) /\ Apart(o, l)
    BY <1>2 DEF ExitInv
  <2>2. ~(pc'[l] \in Active /\ pc[o] \in Active)
    BY <1>2, <2>1
  <2>3. pc'[l] \in Scanned => ~Alive(o)
    BY <1>2, <2>1 DEF ScanMove, Competes
  <2>4. Alive(l)' => Alive(l) \/ pc[l] = "prestart"
    OBVIOUS
  <2>5. pc[o] \in Scanned => ~Alive(l)'
    BY <2>1, <2>4 DEF Scanned, Owning, Active, Starting
  <2>6. ~(Alive(l)' /\ Alive(o))
    BY <2>1, <2>4 DEF Scanned, Owning, Active, PreHandler, Starting
  <2> QED  BY <1>2, <2>2, <2>3, <2>5, <2>6
<1> QED  BY <1>1, <1>2

(* Nobody else touches what a launch has taken down.                         *)
LEMMA TakenDownKept ==
  ASSUME OneAtATime, ExitInv, NEW l \in Launches, Moves(l), Touches(l), Owes(l),
         NEW k \in Launches
  PROVE  TakenDown(k)'
<1>0. TakenDown(k)
  BY DEF ExitInv
<1>s. SideOf[k] \in Sides
  BY LifecycleAssumption DEF LifecycleAssumption
<1>1. CASE k = l
  BY <1>0, <1>1 DEF Owes
<1>2. CASE k # l /\ pc[k] \in Cleaning
  <2>1. link'[SideOf[k]] = link[SideOf[k]] /\ motor'[SideOf[k]] = motor[SideOf[k]]
    <3>1. CASE SideOf[k] # SideOf[l]
      BY <1>s, <3>1 DEF Moves, Frame, Touches
    <3>2. CASE SideOf[k] = SideOf[l]
      <4>1. Apart(k, l) /\ pc[k] \in Active /\ pc[k] \in Scanned
        BY <1>2, <3>2 DEF ExitInv, Active, Scanned, Owning, Cleaning
      <4>2. pc[l] \notin Owning /\ pc[l] # "disable" /\ ~Alive(l)
        BY <4>1 DEF Apart, Owning, Active, Cleaning
      <4> QED  BY <1>s, <4>2 DEF Moves, Frame, Touches
    <3> QED  BY <3>1, <3>2
  <2> QED  BY <1>0, <1>2, <2>1
           DEF Moves, Frame, Touches, TakenDown, PastLink, PastMotors
<1>3. CASE k # l /\ pc[k] \notin Cleaning
  BY <1>3 DEF Moves, Frame, TakenDown, PastLink, PastMotors, Cleaning
<1> QED  BY <1>1, <1>2, <1>3
-----------------------------------------------------------------------------
(* At the beginning no motor is enabled and no launch has begun.             *)
LEMMA ExitInitInv == Init => ExitInv
<1> SUFFICES ASSUME Init  PROVE ExitInv
  OBVIOUS
<1> USE DEF Init, Active, PreHandler, Starting, Supervising, Cleaning
<1>1. LifecycleInv
  BY InitInv
<1>2. \A l \in Launches : Opened(l)
  BY DEF Opened, Armed
<1>3. Answered
  BY DEF Answered
<1>4. \A l \in Launches : TakenDown(l)
  BY DEF TakenDown
<1>5. \A l, m \in Launches : Apart(l, m)
  BY DEF Apart, Scanned, Owning, Alive, AliveStates, BoundStates, DestroyStates
<1> QED  BY <1>1, <1>2, <1>3, <1>4, <1>5 DEF ExitInv, CleanupInv

LEMMA CleanupStep == CleanupInv /\ [LifecycleNext]_vars => CleanupInv'
<1> SUFFICES ASSUME CleanupInv, [LifecycleNext]_vars  PROVE CleanupInv'
  OBVIOUS
<1>1. LifecycleInv'
  BY LifecycleStep DEF CleanupInv
<1>2. CASE LifecycleNext
  <2>1. PICK l \in Launches : Moves(l) /\ Touches(l) /\ Owes(l)
    BY <1>2, StepOwes DEF CleanupInv, LifecycleInv
  <2> QED  BY <1>1, <2>1, AnsweredKept, OpenedKept DEF CleanupInv
<1>3. CASE UNCHANGED vars
  BY <1>1, <1>3
  DEF vars, launchVars, childVars, robotVars, CleanupInv, Opened, Answered, Answers, Alive
<1> QED  BY <1>2, <1>3

LEMMA ExitStep ==
  ASSUME OneAtATime
  PROVE  ExitInv /\ [LifecycleNext]_vars => ExitInv'
<1> SUFFICES ASSUME ExitInv, [LifecycleNext]_vars  PROVE ExitInv'
  OBVIOUS
<1>1. CleanupInv'
  BY CleanupStep DEF ExitInv
<1>2. CASE LifecycleNext
  <2>1. PICK l \in Launches : Moves(l) /\ Touches(l) /\ Owes(l)
    BY <1>2, StepOwes DEF ExitInv, CleanupInv, LifecycleInv
  <2>2. \A k, m \in Launches : k # m /\ SideOf[k] = SideOf[m] => Apart(k, m)'
    BY <2>1, ApartKept
  <2>3. \A k \in Launches : TakenDown(k)'
    BY <2>1, TakenDownKept
  <2> QED  BY <1>1, <2>2, <2>3 DEF ExitInv
<1>3. CASE UNCHANGED vars
  BY <1>1, <1>3
  DEF vars, launchVars, childVars, robotVars, ExitInv, Apart, TakenDown, PastLink,
      PastMotors, Alive
<1> QED  BY <1>2, <1>3
-----------------------------------------------------------------------------
(* Enabled motors are always somebody's, whatever fails or is killed: also   *)
(* when several launches of a side overlap.                                  *)
THEOREM MotorsAccounted == Spec => []EnergisedAccounted
<1>1. Init => CleanupInv
  BY ExitInitInv DEF ExitInv
<1>2. CleanupInv /\ [LifecycleNext]_vars => CleanupInv'
  BY CleanupStep
<1>3. CleanupInv => EnergisedAccounted
  <2> SUFFICES ASSUME CleanupInv, NEW s \in Sides, NEW i \in Ifaces, motor[s][i] = "on"
               PROVE  \E l \in Launches : SideOf[l] = s /\
                        \/ Alive(l)
                        \/ pc[l] \in Active /\ linksOpen[l]
                        \/ cleanupFailed[l]
                        \/ pc[l] = "crashed"
    BY DEF EnergisedAccounted
  <2>1. PICK l \in Launches : SideOf[l] = s /\ Answers(l, i)
    BY DEF CleanupInv, Answered
  <2>2. Opened(l)
    BY DEF CleanupInv
  <2> QED  BY <2>1, <2>2 DEF Answers, Opened, Armed, Active, Cleaning
<1> QED  BY <1>1, <1>2, <1>3, PTL DEF Spec

(* The invariant behind the other two, of launches started one after another.*)
THEOREM ExitInvariant ==
  ASSUME OneAtATime
  PROVE  Spec => []ExitInv
<1>1. Init => ExitInv
  BY ExitInitInv
<1>2. ExitInv /\ [LifecycleNext]_vars => ExitInv'
  BY ExitStep
<1> QED  BY <1>1, <1>2, PTL DEF Spec

(* While a controller holds the SDK no other sidecar of its side lives: the  *)
(* scan of the later launch comes after the last start of the earlier one.   *)
THEOREM OneController ==
  ASSUME OneAtATime
  PROVE  Spec => []SoleOwner
<1>1. ExitInv => SoleOwner
  BY DEF ExitInv, Apart, SoleOwner, Alive, SdkStates, AliveStates, BoundStates, DestroyStates
<1> QED  BY <1>1, ExitInvariant, PTL

(* No link is taken DOWN under a controller of its side, and exit status     *)
(* zero means motors off, links DOWN and no control socket.                  *)
THEOREM ExitsClean ==
  ASSUME OneAtATime
  PROVE  Spec => CleanExit
<1>1. ExitInv /\ [LifecycleNext]_vars => [UnderNobody /\ ZeroIsStopped]_vars
  <2> SUFFICES ASSUME ExitInv, LifecycleNext  PROVE UnderNobody /\ ZeroIsStopped
    OBVIOUS
  <2>1. PICK l \in Launches : Moves(l) /\ Touches(l) /\ Owes(l)
    BY StepOwes DEF ExitInv, CleanupInv, LifecycleInv
  <2>2. UnderNobody
    <3> SUFFICES ASSUME NEW s \in Sides, NEW i \in Ifaces, NEW m \in Launches,
                        link[s][i] = "up", link'[s][i] = "down", SideOf[m] = s
                 PROVE  ~Alive(m)
      BY DEF UnderNobody
    <3>1. s = SideOf[l] /\ pc[l] \in {"configure", "closing"}
      BY <2>1 DEF Touches
    <3>2. CASE m = l
      BY <3>1, <3>2 DEF ExitInv, CleanupInv, LifecycleInv, ChildPhase, ChildOk, Supervising
    <3>3. CASE m # l
      BY <3>1, <3>3
      DEF ExitInv, Apart, Scanned, Owning, Active, PreHandler, Starting, Cleaning
    <3> QED  BY <3>2, <3>3
  <2>3. ZeroIsStopped
    <3> SUFFICES ASSUME NEW m \in Launches, pc[m] \in Active, pc'[m] = "exited", ~failed'[m]
                 PROVE  /\ \A i \in Ifaces :
                             link'[SideOf[m]][i] = "down" /\ motor'[SideOf[m]][i] = "off"
                        /\ endpoint'[SideOf[m]] = "absent"
      BY DEF ZeroIsStopped
    <3>1. m = l
      BY <2>1 DEF Moves, Frame, Active, PreHandler, Starting, Supervising, Cleaning
    <3>2. /\ pc[m] = "endpoint" /\ linksOpen[m] /\ ~cleanupFailed[m]
          /\ link' = link /\ motor' = motor /\ endpoint'[SideOf[m]] = "absent"
      BY <2>1, <3>1 DEF Owes
    <3>3. TakenDown(m)
      BY DEF ExitInv
    <3> QED  BY <3>2, <3>3 DEF TakenDown, PastLink, PastMotors
  <2> QED  BY <2>2, <2>3
<1> QED  BY <1>1, ExitInvariant, PTL DEF Spec, CleanExit
=============================================================================
