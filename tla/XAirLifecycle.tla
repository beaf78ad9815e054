--------------------------- MODULE XAirLifecycle ---------------------------
(***************************************************************************)
(* teleoperation/lifecycle.py: run_xair_side, from the lifecycle lock to   *)
(* the verified shutdown, for any number of launches that share one robot, *)
(* and the life of the native sidecar each launch starts                   *)
(* (native/xair_sidecar/main.cpp) as far as links, motors and the control  *)
(* socket are concerned.                                                   *)
(*                                                                         *)
(* A launch works on the two CAN links of its side, in the order leader,   *)
(* follower.  Every command and every check that reads the hardware may    *)
(* succeed or fail.  A launch raises by going to the finally block.        *)
(***************************************************************************)
EXTENDS Naturals, FiniteSets

CONSTANTS Launches,     \* run_xair_side processes that may be started
          SideOf,       \* the side each one selects
          ModeOf,       \* "shared", "isolated", or "managed" (startup gate)
          LinksPerSide, \* 2 on the robot: the leader's and the follower's
          OneAtATime,   \* the operator never starts a side that is still owned
          MaxCrashes    \* bound on process crashes (kill -9, segfault)

Sides == {"left", "right"}
Ifaces == 1 .. LinksPerSide     \* 1 is leader_can, 2 is follower_can

ASSUME LifecycleAssumption ==
  /\ SideOf \in [Launches -> Sides]
  /\ ModeOf \in [Launches -> {"shared", "isolated", "managed"}]
  /\ LinksPerSide \in Nat \ {0}
  /\ OneAtATime \in BOOLEAN
  /\ MaxCrashes \in Nat

VARIABLES
  pc,             \* where each launch is in run_xair_side
  iface,          \* the loop variable of the loop it is in
  linksOpen,      \* links_open
  stop,           \* stop_requested
  failed,         \* the exit status will not be zero
  cleanupFailed,  \* _disable_and_close collected a failure
  gate,           \* stdin of a managed launch: "waiting", "start" or "closed"
  lock,           \* teleop-lifecycle.lock as held by each launch
  probed,         \* history: both links passed the motion-free probe
  sidecar,        \* the native child of each launch
  sigint,         \* g_stop_requested of that child
  ready,          \* the child reported "control running"
  link,           \* administrative state of each CAN link
  motor,          \* whether the motors behind each link are enabled
  endpoint,       \* the control socket of each side
  crashes

launchVars == <<iface, linksOpen, stop, failed, cleanupFailed, gate, lock, probed>>
childVars  == <<sidecar, sigint, ready>>
robotVars  == <<link, motor, endpoint>>
vars == <<pc, launchVars, childVars, robotVars, crashes>>

PreHandler == {"launched", "locked", "exclusive"}     \* signal handlers not installed
Starting == {"configure", "health", "probe", "interlock", "gate", "prestart"}
Supervising == {"monitor", "stopping", "waiting"}
Cleaning == {"cleanup", "disable", "closing", "endpoint"}
Active == PreHandler \cup Starting \cup Supervising \cup Cleaning
Gone == {"exited", "crashed"}

BoundStates == {"creating", "aligning", "running"}       \* control socket bound
DestroyStates == {"releasing", "unwinding"}              \* clean stop, fault
AliveStates == {"starting"} \cup BoundStates \cup DestroyStates
SdkStates == {"aligning", "running"} \cup DestroyStates  \* an SDK handle exists
Alive(l) == sidecar[l] \in AliveStates

Other(s) == IF s = "left" THEN "right" ELSE "left"
Isolated(l) == ModeOf[l] = "isolated"
InactiveDown(l) == \A i \in Ifaces : link[Other(SideOf[l])][i] = "down"
-----------------------------------------------------------------------------
Init ==
  /\ pc = [l \in Launches |-> "idle"]
  /\ iface = [l \in Launches |-> 1]
  /\ linksOpen = [l \in Launches |-> FALSE]
  /\ stop = [l \in Launches |-> FALSE]
  /\ failed = [l \in Launches |-> FALSE]
  /\ cleanupFailed = [l \in Launches |-> FALSE]
  /\ gate = [l \in Launches |-> "waiting"]
  /\ lock = [l \in Launches |-> "none"]
  /\ probed = [l \in Launches |-> FALSE]
  /\ sidecar = [l \in Launches |-> "none"]
  /\ sigint = [l \in Launches |-> FALSE]
  /\ ready = [l \in Launches |-> FALSE]
  /\ link = [s \in Sides |-> [i \in Ifaces |-> "down"]]
  /\ motor = [s \in Sides |-> [i \in Ifaces |-> "off"]]
  /\ endpoint = [s \in Sides |-> "absent"]
  /\ crashes = 0

Goto(l, label) == pc' = [pc EXCEPT ![l] = label]

(* Mutant: the finally block forgets the child.                              *)
ToFinally_ForgetsChild(l, bad) ==
  /\ Goto(l, "cleanup")
  /\ iface' = [iface EXCEPT ![l] = 1]
  /\ failed' = [failed EXCEPT ![l] = @ \/ bad]
  /\ UNCHANGED <<linksOpen, stop, cleanupFailed, gate, lock, probed>>

(* An exception inside the outer try, or a return that leaves it: the        *)
(* finally block first stops a child that exists.                            *)
ToFinally(l, bad) ==
  /\ Goto(l, IF sidecar[l] = "none" THEN "cleanup" ELSE "stopping")
  /\ iface' = [iface EXCEPT ![l] = 1]
  /\ failed' = [failed EXCEPT ![l] = @ \/ bad]
  /\ UNCHANGED <<linksOpen, stop, cleanupFailed, gate, lock, probed>>

(* The process is gone, and with it its lock and its local variables.        *)
Leave(l, label) ==
  /\ Goto(l, label)
  /\ lock' = [lock EXCEPT ![l] = "none"]
  /\ iface' = [iface EXCEPT ![l] = 1]
  /\ linksOpen' = [linksOpen EXCEPT ![l] = FALSE]
  /\ stop' = [stop EXCEPT ![l] = FALSE]

(* An exception before the outer try: the lock is closed and nothing else.   *)
Refuse(l) ==
  /\ Leave(l, "exited")
  /\ failed' = [failed EXCEPT ![l] = TRUE]
  /\ UNCHANGED <<cleanupFailed, gate, probed>>
-----------------------------------------------------------------------------
Launch(l) ==
  /\ pc[l] = "idle"
  /\ OneAtATime => \A m \in Launches : SideOf[m] = SideOf[l] => pc[m] \notin Active
  /\ Goto(l, "launched")
  /\ UNCHANGED <<launchVars, childVars, robotVars, crashes>>

(* Mutant: an isolated launch asks for the lock in shared mode.              *)
LockFree_Shared(l) == \A m \in Launches : lock[m] # "exclusive"

(* flock(LOCK_EX or LOCK_SH, LOCK_NB) on one file.                           *)
LockFree(l) ==
  IF Isolated(l) THEN \A m \in Launches : lock[m] = "none"
                 ELSE \A m \in Launches : lock[m] # "exclusive"

AcquireLifecycleLock(l) ==
  /\ pc[l] = "launched"
  /\ \/ /\ LockFree(l)
        /\ Goto(l, "locked")
        /\ lock' = [lock EXCEPT ![l] = IF Isolated(l) THEN "exclusive" ELSE "shared"]
        /\ UNCHANGED <<iface, linksOpen, stop, failed, cleanupFailed, gate, probed>>
     \/ ~LockFree(l) /\ Refuse(l)
  /\ UNCHANGED <<childVars, robotVars, crashes>>

(* Mutant: the scan looks at the peer's interfaces only.                     *)
Competes_PeerOnly(m, l) == Alive(m) /\ SideOf[m] # SideOf[l]

(* The /proc scan: a sidecar competes when it drives one of the interfaces   *)
(* asked for; an isolated launch asks for its own and for the peer's.        *)
Competes(m, l) == Alive(m) /\ (SideOf[m] = SideOf[l] \/ Isolated(l))

RequireExclusiveControl(l) ==
  /\ pc[l] = "locked"
  /\ IF /\ \A m \in Launches : ~Competes(m, l)
        /\ Isolated(l) => InactiveDown(l)
     THEN Goto(l, "exclusive") /\ UNCHANGED launchVars
     ELSE Refuse(l)
  /\ UNCHANGED <<childVars, robotVars, crashes>>

(* remove_orphaned_xair_control_socket, then the signal handlers.            *)
RemoveOrphanBeforeStart(l) ==
  /\ pc[l] = "exclusive"
  /\ \/ /\ endpoint[SideOf[l]] = "bound"
        /\ Refuse(l)
        /\ UNCHANGED endpoint
     \/ /\ endpoint[SideOf[l]] # "bound"
        /\ endpoint' = [endpoint EXCEPT ![SideOf[l]] = "absent"]
        /\ Goto(l, "configure")
        /\ UNCHANGED launchVars
  /\ UNCHANGED <<childVars, link, motor, crashes>>

(* SIGINT or SIGTERM.  Before the handlers are installed it ends the launch; *)
(* afterwards it only sets the flag.  A terminal's Ctrl+C and the parent's   *)
(* group signal reach the sidecar too, which then only sets its own flag.    *)
Interrupt(l, group) ==
  /\ \/ /\ pc[l] \in PreHandler
        /\ ~group
        /\ Refuse(l)
        /\ UNCHANGED sigint
     \/ /\ pc[l] \in Active \ PreHandler
        /\ stop' = [stop EXCEPT ![l] = TRUE]
        /\ sigint' = [sigint EXCEPT ![l] = @ \/ (group /\ Alive(l))]
        /\ UNCHANGED <<pc, iface, linksOpen, failed, cleanupFailed, gate, lock, probed>>
  /\ UNCHANGED <<sidecar, ready, robotVars, crashes>>
-----------------------------------------------------------------------------
(* _configure_can on the next interface.  Before the first one an isolated   *)
(* launch checks its interlock.  links_open is set when both are configured; *)
(* a failing command leaves the interface as it was, or down.                *)
ConfigureCan(l) ==
  /\ pc[l] = "configure"
  /\ Isolated(l) /\ iface[l] = 1 => InactiveDown(l)
  /\ link' = [link EXCEPT ![SideOf[l]][iface[l]] = "up"]
  /\ IF iface[l] < LinksPerSide
     THEN /\ iface' = [iface EXCEPT ![l] = @ + 1]
          /\ UNCHANGED <<pc, linksOpen>>
     ELSE /\ iface' = [iface EXCEPT ![l] = 1]
          /\ linksOpen' = [linksOpen EXCEPT ![l] = TRUE]
          /\ Goto(l, "health")
  /\ UNCHANGED <<stop, failed, cleanupFailed, gate, lock, probed, childVars,
                 motor, endpoint, crashes>>

ConfigureCanFails(l) ==
  /\ pc[l] = "configure"
  /\ \/ UNCHANGED link
     \/ /\ Isolated(l) /\ iface[l] = 1 => InactiveDown(l)
        /\ link' = [link EXCEPT ![SideOf[l]][iface[l]] = "down"]
  /\ ToFinally(l, TRUE)
  /\ UNCHANGED <<childVars, motor, endpoint, crashes>>

(* CAN health of both links and the qdisc baseline.                          *)
ReadBaseline(l) ==
  /\ pc[l] = "health"
  /\ Goto(l, "probe")
  /\ UNCHANGED <<launchVars, childVars, robotVars, crashes>>

(* The motion-free probe of one interface; after the second, isolated        *)
(* launches check the interlock again and managed ones announce themselves   *)
(* and wait at the gate.                                                     *)
ProbeMotorFeedback(l) ==
  /\ pc[l] = "probe"
  /\ IF iface[l] < LinksPerSide
     THEN iface' = [iface EXCEPT ![l] = @ + 1] /\ UNCHANGED <<pc, probed>>
     ELSE /\ iface' = [iface EXCEPT ![l] = 1]
          /\ probed' = [probed EXCEPT ![l] = TRUE]
          /\ Goto(l, CASE ModeOf[l] = "isolated" -> "interlock"
                       [] ModeOf[l] = "managed"  -> "gate"
                       [] ModeOf[l] = "shared"   -> "prestart")
  /\ UNCHANGED <<linksOpen, stop, failed, cleanupFailed, gate, lock, childVars,
                 robotVars, crashes>>

RecheckInterlock(l) ==
  /\ pc[l] = "interlock"
  /\ IF InactiveDown(l) THEN Goto(l, "prestart") /\ UNCHANGED launchVars
                        ELSE ToFinally(l, TRUE)
  /\ UNCHANGED <<childVars, robotVars, crashes>>

(* The parent at the other end of stdin: START, or the pipe is closed.        *)
(* ManagedRuntimes puts the real parent in the place of this one.            *)
GateInput(l) ==
  /\ ModeOf[l] = "managed" /\ pc[l] \in Active
  /\ gate[l] = "waiting"
  /\ gate' \in {[gate EXCEPT ![l] = input] : input \in {"start", "closed"}}
  /\ UNCHANGED <<pc, iface, linksOpen, stop, failed, cleanupFailed, lock, probed,
                 childVars, robotVars, crashes>>

(* _await_managed_startup_release: START lets the launch go on; a stop       *)
(* request ends it without failure, a closed pipe with one.                  *)
AwaitRelease(l) ==
  /\ pc[l] = "gate"
  /\ ~stop[l]
  /\ gate[l] = "start"
  /\ Goto(l, "prestart")
  /\ UNCHANGED <<launchVars, childVars, robotVars, crashes>>

LeaveGate(l) ==
  /\ pc[l] = "gate"
  /\ \/ stop[l] /\ ToFinally(l, FALSE)
     \/ ~stop[l] /\ gate[l] = "closed" /\ ToFinally(l, TRUE)
  /\ UNCHANGED <<childVars, robotVars, crashes>>

(* A CAN fault, a qdisc drop, a missing motor response or a timeout during   *)
(* preflight, at the gate or just before the sidecar would be started.       *)
StartupFault(l) ==
  /\ pc[l] \in {"health", "probe", "gate", "prestart"}
  /\ ToFinally(l, TRUE)
  /\ UNCHANGED <<childVars, robotVars, crashes>>

(* subprocess.Popen of the sidecar.  Nothing looks at stop_requested between *)
(* the gate (or the probe) and this point.                                   *)
StartSidecar(l) ==
  /\ pc[l] = "prestart"
  /\ sidecar' = [sidecar EXCEPT ![l] = "starting"]
  /\ Goto(l, "monitor")
  /\ UNCHANGED <<launchVars, sigint, ready, robotVars, crashes>>

(* One turn of the monitoring loop: stop_requested is looked at first, then  *)
(* a child that exited; a drop, a CAN fault or the deadline may raise, and   *)
(* the isolated interlock raises when a peer link is up.                     *)
Monitor(l) ==
  /\ pc[l] = "monitor"
  /\ \/ stop[l] /\ ToFinally(l, FALSE)
     \/ ~stop[l] /\ ~Alive(l) /\ ToFinally(l, ~ready[l])
     \/ ~stop[l] /\ Alive(l) /\ ToFinally(l, TRUE)
  /\ UNCHANGED <<childVars, robotVars, crashes>>

(* _stop_sidecar: SIGINT to a live child, then wait; kill on timeout.        *)
SignalSidecar(l) ==
  /\ pc[l] = "stopping"
  /\ sigint' = [sigint EXCEPT ![l] = @ \/ Alive(l)]
  /\ Goto(l, "waiting")
  /\ UNCHANGED <<launchVars, sidecar, ready, robotVars, crashes>>

(* Mutant: a wait that times out goes on without killing the child.          *)
ReapSidecar_GivesUp(l) ==
  /\ pc[l] = "waiting"
  /\ failed' = [failed EXCEPT ![l] = @ \/ sidecar[l] = "failed"]
  /\ Goto(l, "cleanup")
  /\ UNCHANGED <<iface, linksOpen, stop, cleanupFailed, gate, lock, probed,
                 childVars, robotVars, crashes>>

ReapSidecar(l) ==
  /\ pc[l] = "waiting"
  /\ ~Alive(l)
  /\ failed' = [failed EXCEPT ![l] = @ \/ sidecar[l] = "failed"]
  /\ Goto(l, "cleanup")
  /\ UNCHANGED <<iface, linksOpen, stop, cleanupFailed, gate, lock, probed,
                 childVars, robotVars, crashes>>

SidecarEnds(l, status) ==
  /\ sidecar' = [sidecar EXCEPT ![l] = status]
  /\ sigint' = [sigint EXCEPT ![l] = FALSE]

(* A process that dies without unwinding leaves its motors and its socket's  *)
(* path behind.                                                              *)
DieUncleanly(l) ==
  /\ SidecarEnds(l, "failed")
  /\ endpoint' = [endpoint EXCEPT ![SideOf[l]] =
                    IF sidecar[l] \in BoundStates THEN "orphan" ELSE @]

(* Mutant: only a child that reported control running is killed.             *)
KillSidecar_WhenReady(l) ==
  /\ pc[l] = "waiting"
  /\ Alive(l) /\ ready[l]
  /\ DieUncleanly(l)
  /\ UNCHANGED <<pc, launchVars, ready, link, motor, crashes>>

KillSidecar(l) ==
  /\ pc[l] = "waiting"
  /\ Alive(l)
  /\ DieUncleanly(l)
  /\ UNCHANGED <<pc, launchVars, ready, link, motor, crashes>>
-----------------------------------------------------------------------------
(* The finally block.  _disable_and_close runs only when links_open, one     *)
(* interface after the other: up, disable every motor, down.                 *)
BeginCleanup(l) ==
  /\ pc[l] = "cleanup"
  /\ IF ~linksOpen[l]
     THEN Goto(l, "endpoint") /\ UNCHANGED <<link, cleanupFailed>>
     ELSE \/ /\ link' = [link EXCEPT ![SideOf[l]][iface[l]] = "up"]
             /\ Goto(l, "disable")
             /\ UNCHANGED cleanupFailed
          \/ /\ cleanupFailed' = [cleanupFailed EXCEPT ![l] = TRUE]
             /\ Goto(l, "closing")
             /\ UNCHANGED link
  /\ UNCHANGED <<iface, linksOpen, stop, failed, gate, lock, probed, childVars,
                 motor, endpoint, crashes>>

(* Mutant: a failed disable command is ignored.                              *)
DisableMotors_Ignored(l) ==
  /\ pc[l] = "disable"
  /\ Goto(l, "closing")
  /\ \/ motor' = [motor EXCEPT ![SideOf[l]][iface[l]] = "off"]
     \/ UNCHANGED motor
  /\ UNCHANGED <<iface, linksOpen, stop, failed, cleanupFailed, gate, lock, probed,
                 childVars, link, endpoint, crashes>>

DisableMotors(l) ==
  /\ pc[l] = "disable"
  /\ Goto(l, "closing")
  /\ \/ /\ motor' = [motor EXCEPT ![SideOf[l]][iface[l]] = "off"]
        /\ UNCHANGED cleanupFailed
     \/ /\ cleanupFailed' = [cleanupFailed EXCEPT ![l] = TRUE]
        /\ UNCHANGED motor
  /\ UNCHANGED <<iface, linksOpen, stop, failed, gate, lock, probed, childVars,
                 link, endpoint, crashes>>

CloseLink(l) ==
  /\ pc[l] = "closing"
  /\ \/ /\ link' = [link EXCEPT ![SideOf[l]][iface[l]] = "down"]
        /\ UNCHANGED cleanupFailed
     \/ /\ cleanupFailed' = [cleanupFailed EXCEPT ![l] = TRUE]
        /\ UNCHANGED link
  /\ IF iface[l] < LinksPerSide
     THEN Goto(l, "cleanup") /\ iface' = [iface EXCEPT ![l] = @ + 1]
     ELSE Goto(l, "endpoint") /\ UNCHANGED iface
  /\ UNCHANGED <<linksOpen, stop, failed, gate, lock, probed, childVars,
                 motor, endpoint, crashes>>

(* Mutant: cleanup failures do not reach the exit status.                    *)
Exit_Silent(l) ==
  /\ pc[l] = "endpoint"
  /\ endpoint' = [endpoint EXCEPT ![SideOf[l]] = IF @ = "bound" THEN @ ELSE "absent"]
  /\ failed' = [failed EXCEPT ![l] = @ \/ endpoint[SideOf[l]] = "bound"]
  /\ Leave(l, "exited")
  /\ UNCHANGED <<cleanupFailed, gate, probed, childVars, link, motor, crashes>>

(* Remove the control socket, restore the handlers, close the lock, exit.    *)
Exit(l) ==
  /\ pc[l] = "endpoint"
  /\ endpoint' = [endpoint EXCEPT ![SideOf[l]] = IF @ = "bound" THEN @ ELSE "absent"]
  /\ failed' = [failed EXCEPT ![l] =
                  @ \/ cleanupFailed[l] \/ endpoint[SideOf[l]] = "bound"]
  /\ Leave(l, "exited")
  /\ UNCHANGED <<cleanupFailed, gate, probed, childVars, link, motor, crashes>>

(* SIGKILL of the launch alone: the kernel drops the lock (the sidecar does  *)
(* not inherit it, O_CLOEXEC) and nobody supervises the sidecar any more.    *)
CrashLaunch(l) ==
  /\ pc[l] \in Active
  /\ crashes < MaxCrashes
  /\ crashes' = crashes + 1
  /\ Leave(l, "crashed")
  /\ UNCHANGED <<failed, cleanupFailed, gate, probed, childVars, robotVars>>
-----------------------------------------------------------------------------
(* The sidecar.  Its control socket is bound before the SDK constructor that *)
(* enables the motors, and removed before the SDK handle is destroyed.       *)
BindControl(l) ==
  /\ sidecar[l] = "starting"
  /\ endpoint[SideOf[l]] = "absent"
  /\ endpoint' = [endpoint EXCEPT ![SideOf[l]] = "bound"]
  /\ sidecar' = [sidecar EXCEPT ![l] = "creating"]
  /\ UNCHANGED <<pc, launchVars, sigint, ready, link, motor, crashes>>

(* Option, scheduling, CAN baseline or bind failure: nothing was created.    *)
SidecarRefuses(l) ==
  /\ sidecar[l] = "starting"
  /\ SidecarEnds(l, "failed")
  /\ UNCHANGED <<pc, launchVars, ready, robotVars, crashes>>

(* xarm_teleop_create_unilateral enables the motors and aligns the arms.     *)
CreateUnilateral(l) ==
  /\ sidecar[l] = "creating"
  /\ \A i \in Ifaces : link[SideOf[l]][i] = "up"
  /\ motor' = [motor EXCEPT ![SideOf[l]] = [i \in Ifaces |-> "on"]]
  /\ sidecar' = [sidecar EXCEPT ![l] = "aligning"]
  /\ UNCHANGED <<pc, launchVars, sigint, ready, link, endpoint, crashes>>

CreateFails(l) ==
  /\ sidecar[l] = "creating"
  /\ endpoint' = [endpoint EXCEPT ![SideOf[l]] = "absent"]
  /\ SidecarEnds(l, "failed")
  /\ UNCHANGED <<pc, launchVars, ready, link, motor, crashes>>

ControlRunning(l) ==
  /\ sidecar[l] = "aligning"
  /\ pc[l] # "crashed"
  /\ sidecar' = [sidecar EXCEPT ![l] = "running"]
  /\ ready' = [ready EXCEPT ![l] = TRUE]
  /\ UNCHANGED <<pc, launchVars, sigint, robotVars, crashes>>

(* The run loop ends cleanly on its flag; on any fault it detects, or one    *)
(* between the constructor and the loop, it reports and unwinds.             *)
StopControl(l) ==
  /\ \/ /\ sidecar[l] = "running" /\ sigint[l]
        /\ sidecar' = [sidecar EXCEPT ![l] = "releasing"]
     \/ /\ sidecar[l] \in {"aligning", "running"} /\ pc[l] # "crashed"
        /\ sidecar' = [sidecar EXCEPT ![l] = "unwinding"]
  /\ endpoint' = [endpoint EXCEPT ![SideOf[l]] = "absent"]
  /\ UNCHANGED <<pc, launchVars, sigint, ready, link, motor, crashes>>

(* The SDK handle's destructor disables the motors it can still reach.       *)
DestroyHandle(l) ==
  /\ sidecar[l] \in DestroyStates
  /\ motor' = [motor EXCEPT ![SideOf[l]] =
                 [i \in Ifaces |-> IF link[SideOf[l]][i] = "up" THEN "off" ELSE @[i]]]
  /\ SidecarEnds(l, IF sidecar[l] = "releasing" THEN "exited" ELSE "failed")
  /\ UNCHANGED <<pc, launchVars, ready, link, endpoint, crashes>>

(* Once its launch is dead the sidecar's output pipe is broken, and the next *)
(* line it prints (creating, control running, a warning, a fault) kills it.  *)
BrokenPipe(l) ==
  /\ pc[l] = "crashed"
  /\ sidecar[l] \in BoundStates
  /\ DieUncleanly(l)
  /\ UNCHANGED <<pc, launchVars, ready, link, motor, crashes>>

CrashSidecar(l) ==
  /\ Alive(l)
  /\ crashes < MaxCrashes
  /\ crashes' = crashes + 1
  /\ DieUncleanly(l)
  /\ UNCHANGED <<pc, launchVars, ready, link, motor>>
-----------------------------------------------------------------------------
(* Steps that print, and steps that do not: only the first ones need a       *)
(* reader at the other end of the output pipe.                               *)
Prints(l) == ProbeMotorFeedback(l) \/ AwaitRelease(l) \/ KillSidecar(l)

Quiet(l) ==
  \/ AcquireLifecycleLock(l) \/ RequireExclusiveControl(l) \/ RemoveOrphanBeforeStart(l)
  \/ ConfigureCan(l) \/ ReadBaseline(l) \/ RecheckInterlock(l) \/ LeaveGate(l)
  \/ StartSidecar(l) \/ Monitor(l) \/ SignalSidecar(l) \/ ReapSidecar(l)
  \/ BeginCleanup(l) \/ DisableMotors(l) \/ CloseLink(l) \/ Exit(l)

Lifecycle(l) == Prints(l) \/ Quiet(l)

Controls(l) ==
  \/ BindControl(l) \/ SidecarRefuses(l) \/ CreateUnilateral(l) \/ CreateFails(l)
  \/ StopControl(l) \/ DestroyHandle(l) \/ BrokenPipe(l)

Sidecar(l) == Controls(l) \/ ControlRunning(l)

Hardware(l) == ConfigureCanFails(l) \/ StartupFault(l) \/ CrashLaunch(l) \/ CrashSidecar(l)

LifecycleNext ==
  \E l \in Launches :
    \/ Launch(l)
    \/ Lifecycle(l)
    \/ Sidecar(l)
    \/ Hardware(l)
    \/ GateInput(l)
    \/ \E group \in BOOLEAN : Interrupt(l, group)

(* Each process keeps taking its own steps: a launch's loops and waits are   *)
(* bounded by timeouts, and its kill of the sidecar is not refused.  Nothing *)
(* is assumed about the operator, the hardware or the sidecar.               *)
Fairness == \A l \in Launches : WF_vars(Lifecycle(l))

Spec == Init /\ [][LifecycleNext]_vars /\ Fairness
-----------------------------------------------------------------------------
Labels == {"idle"} \cup Active \cup Gone

LaunchTypes ==
  /\ pc \in [Launches -> Labels]
  /\ iface \in [Launches -> Ifaces]
  /\ linksOpen \in [Launches -> BOOLEAN] /\ stop \in [Launches -> BOOLEAN]
  /\ failed \in [Launches -> BOOLEAN] /\ cleanupFailed \in [Launches -> BOOLEAN]
  /\ gate \in [Launches -> {"waiting", "start", "closed"}]
  /\ lock \in [Launches -> {"none", "shared", "exclusive"}]
  /\ probed \in [Launches -> BOOLEAN]

ChildTypes ==
  /\ sidecar \in [Launches -> {"none", "exited", "failed"} \cup AliveStates]
  /\ sigint \in [Launches -> BOOLEAN] /\ ready \in [Launches -> BOOLEAN]

RobotTypes ==
  /\ link \in [Sides -> [Ifaces -> {"down", "up"}]]
  /\ motor \in [Sides -> [Ifaces -> {"off", "on"}]]
  /\ endpoint \in [Sides -> {"absent", "bound", "orphan"}]
  /\ crashes \in 0 .. MaxCrashes

TypeOK == LaunchTypes /\ ChildTypes /\ RobotTypes

(* A native controller lives only under the launch that supervises it, or    *)
(* survives that launch's crash: no exit path leaves one behind, and none is *)
(* started before both of its links passed the motion-free probe.            *)
ChildSupervised ==
  \A l \in Launches :
    /\ Alive(l) => pc[l] \in Supervising \cup {"crashed"}
    /\ sidecar[l] # "none" => probed[l]

(* An isolated session really is alone: while its sidecar lives under its    *)
(* launch, no controller of the other side lives, not even one orphaned by   *)
(* an earlier crash, and the other side's links stay DOWN.                   *)
IsolatedAlone ==
  \A l \in Launches : (Isolated(l) /\ pc[l] \in Active /\ Alive(l)) =>
    /\ InactiveDown(l)
    /\ \A m \in Launches : SideOf[m] # SideOf[l] => ~Alive(m)

(* Enabled motors are always somebody's: of a live sidecar, of a launch that *)
(* will still run the disable sequence, of a launch that reported a failed   *)
(* disable, or of a launch that was killed.                                  *)
EnergisedAccounted ==
  \A s \in Sides, i \in Ifaces : motor[s][i] = "on" =>
    \E l \in Launches : SideOf[l] = s /\
      \/ Alive(l)
      \/ pc[l] \in Active /\ linksOpen[l]
      \/ cleanupFailed[l]
      \/ pc[l] = "crashed"

(* While one launch's controller holds the SDK, no other sidecar of the side *)
(* lives, whatever was crashed, killed and restarted in between.             *)
SoleOwner ==
  \A l, m \in Launches :
    l # m /\ SideOf[l] = SideOf[m] => ~(sidecar[l] \in SdkStates /\ Alive(m))

UnderNobody ==
  \A s \in Sides, i \in Ifaces :
    (link[s][i] = "up" /\ link'[s][i] = "down") =>
      \A l \in Launches : SideOf[l] = s => ~Alive(l)

ZeroIsStopped ==
  \A l \in Launches :
    (pc[l] \in Active /\ pc'[l] = "exited" /\ ~failed'[l]) =>
      /\ \A i \in Ifaces : link'[SideOf[l]][i] = "down" /\ motor'[SideOf[l]][i] = "off"
      /\ endpoint'[SideOf[l]] = "absent"

(* A session is taken down in order: no command of any launch takes a link   *)
(* DOWN under a live controller of that side, and exit status zero means     *)
(* what the operator reads into it, the motors disabled, both links DOWN and *)
(* the control socket gone, also when the sidecar had to be killed.          *)
CleanExit == [][UnderNobody /\ ZeroIsStopped]_vars

(* A launch that is asked to stop ends, whatever its sidecar does.           *)
StopLeadsToExit == \A l \in Launches : stop[l] ~> pc[l] \in Gone

(* README.md: startup failure after either side begins uses the fail-closed  *)
(* cleanup and the CAN links return to DOWN.                                 *)
StartupFailureLeavesLinksDown ==
  \A l \in Launches :
    (pc[l] = "exited" /\ sidecar[l] = "none" /\ ~cleanupFailed[l]) =>
      \A i \in Ifaces : link[SideOf[l]][i] = "down"

(* SAFETY.md: the isolated launch holds an exclusive lock so another side    *)
(* cannot start concurrently; here for the session the motors belong to,     *)
(* whether or not its Python parent still lives.                             *)
IsolatedSessionAlone ==
  \A l, m \in Launches :
    (Isolated(l) /\ sidecar[l] \in SdkStates /\ SideOf[m] # SideOf[l]) => ~Alive(m)
=============================================================================
