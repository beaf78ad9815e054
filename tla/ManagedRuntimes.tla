-------------------------- MODULE ManagedRuntimes --------------------------
(***************************************************************************)
(* collection/managed.py: ManagedXAirRuntimes, the unprivileged parent of  *)
(* the left and the right launch.  It spawns both with a startup gate on   *)
(* stdin, releases them only together, watches them, and stops them:       *)
(* SIGINT to both process groups, one shared deadline, SIGKILL to a group  *)
(* that missed it, then an independent look at status, links and sockets.  *)
(*                                                                         *)
(* Each launch leads a process group (start_new_session) that its sidecar  *)
(* belongs to; nothing but the parent signals it.                          *)
(***************************************************************************)
EXTENDS XAirLifecycle, Sequences

CONSTANT Order      \* the launches in the order of self._sides

ASSUME OrderAssumption ==
  /\ Order \in Seq(Launches)
  /\ \A l \in Launches : \E k \in 1 .. Len(Order) : Order[k] = l
  /\ \A j, k \in 1 .. Len(Order) : Order[j] = Order[k] => j = k
  /\ \A l \in Launches : ModeOf[l] = "managed"

VARIABLES
  ppc,          \* where the parent is
  turn,         \* the index of the runtime its current loop is at
  unverified,   \* cleanup_failures is not empty
  unsent        \* launches in whose stdin a START is left that nobody reads

parentVars == <<ppc, turn, unverified, unsent>>
mvars == <<vars, parentVars>>

Working == {"enter", "preflight", "release", "await", "running"}
Stopping == {"signal", "waiting", "verify"}
Done == {"stopped", "unverified"}
Parentless == ppc \in {"crashed", "ended"}     \* its ends of the pipes are closed

Runtime == Order[turn]
Spawned(l) == pc[l] # "idle"
ExitedZero(l) == pc[l] = "exited" /\ ~failed[l]       \* returncode is zero

ManagedInit ==
  /\ Init
  /\ ppc = "enter"
  /\ turn = 1
  /\ unverified = FALSE
  /\ unsent = {}

(* The next runtime of this loop, or the first one of the next loop.         *)
Advance(next) ==
  IF turn < Len(Order) THEN turn' = turn + 1 /\ UNCHANGED ppc
                       ELSE turn' = 1 /\ ppc' = next

BeginStop == ppc' = "signal" /\ turn' = 1
-----------------------------------------------------------------------------
Spawn ==
  /\ ppc = "enter"
  /\ Launch(Runtime)
  /\ Advance("preflight")
  /\ UNCHANGED <<unverified, unsent>>

(* Mutant: the parent does not wait for the slower side.                     *)
PreflightsReady_Any == \E l \in Launches : probed[l]

(* preflight_ready is set by the line a launch prints when it reaches the    *)
(* gate, and stays set.                                                      *)
PreflightsReady == \A l \in Launches : probed[l]

(* _release_bimanual_startup: both are ready and both are alive.             *)
AwaitPreflights ==
  /\ ppc = "preflight"
  /\ PreflightsReady
  /\ \A l \in Launches : pc[l] \notin Gone
  /\ ppc' = "release"
  /\ UNCHANGED <<vars, turn, unverified, unsent>>

(* START, one side after the other; a gate nobody reads any more raises, and *)
(* the line stays in the buffer of its pipe.                                 *)
Release ==
  /\ ppc = "release"
  /\ IF pc[Runtime] \in Gone
     THEN BeginStop /\ unsent' = unsent \cup {Runtime} /\ UNCHANGED gate
     ELSE /\ Advance("await")
          /\ gate' = [gate EXCEPT ![Runtime] = "start"]
          /\ UNCHANGED unsent
  /\ UNCHANGED <<pc, iface, linksOpen, stop, failed, cleanupFailed, lock, probed,
                 childVars, robotVars, crashes, unverified>>

(* wait_until_ready: the receiver saw fresh state of both sides.             *)
WaitUntilReady ==
  /\ ppc = "await"
  /\ \A l \in Launches : ready[l]
  /\ ppc' = "running"
  /\ UNCHANGED <<vars, turn, unverified, unsent>>

(* Mutant: only the collection loop looks at the runtimes.                   *)
RaiseIfRuntimeExited_Late ==
  /\ ppc \in {"preflight", "await"}
  /\ \E l \in Launches : Spawned(l) /\ pc[l] \in Gone
  /\ BeginStop
  /\ UNCHANGED <<vars, unverified, unsent>>

RaiseIfRuntimeExited ==
  /\ ppc \in {"preflight", "await", "running"}
  /\ \E l \in Launches : Spawned(l) /\ pc[l] \in Gone
  /\ BeginStop
  /\ UNCHANGED <<vars, unverified, unsent>>

(* The end of the with block: the session is over, the operator pressed      *)
(* Ctrl+C, a deadline passed, or Popen of the second runtime failed.         *)
LeaveWith ==
  /\ ppc \in Working
  /\ \E l \in Launches : Spawned(l)
  /\ BeginStop
  /\ UNCHANGED <<vars, unverified, unsent>>
-----------------------------------------------------------------------------
(* _stop_all, first loop: close the gate, SIGINT to the group.  It ends a    *)
(* launch whose handlers are not installed, sets the flag of any other, and  *)
(* reaches the sidecar even when its launch is dead.                         *)
SignalGroup ==
  /\ ppc = "signal"
  /\ Runtime \notin unsent
  /\ LET l == Runtime
         raw == pc[l] \in PreHandler
     IN /\ gate' = [gate EXCEPT ![l] = IF Spawned(l) /\ @ = "waiting" THEN "closed" ELSE @]
        /\ sigint' = [sigint EXCEPT ![l] = @ \/ Alive(l)]
        /\ failed' = [failed EXCEPT ![l] = @ \/ raw]
        /\ IF raw THEN Leave(l, "exited")
                  ELSE /\ stop' = [stop EXCEPT ![l] = @ \/ pc[l] \in Active]
                       /\ UNCHANGED <<pc, lock, iface, linksOpen>>
  /\ Advance("waiting")
  /\ UNCHANGED <<cleanupFailed, probed, sidecar, ready, robotVars, crashes, unverified,
                 unsent>>

(* Closing the gate writes what is left in its buffer, so that after a START *)
(* that could not be written the close raises as well: the exception leaves  *)
(* _stop_all before this side and the ones after it are signalled and before *)
(* any is waited for, and no verdict is given.                               *)
CloseRaises ==
  /\ ppc = "signal"
  /\ Runtime \in unsent
  /\ ppc' = "escaped"
  /\ UNCHANGED <<vars, turn, unverified, unsent>>

WaitRuntime ==
  /\ ppc = "waiting"
  /\ pc[Runtime] \in Gone \cup {"idle"}
  /\ Advance("verify")
  /\ UNCHANGED <<vars, unverified, unsent>>

(* Mutant: SIGKILL goes to the launch instead of its process group.          *)
KillGroup_LeaderOnly ==
  /\ ppc = "waiting"
  /\ pc[Runtime] \in Active
  /\ Leave(Runtime, "crashed")
  /\ unverified' = TRUE
  /\ Advance("verify")
  /\ UNCHANGED <<failed, cleanupFailed, gate, probed, childVars, robotVars, crashes, unsent>>

(* The shared deadline passed.  It is as long as the one the launch gives    *)
(* its sidecar, so the launch may be anywhere, disabling motors included.    *)
KillGroup ==
  /\ ppc = "waiting"
  /\ pc[Runtime] \in Active
  /\ Leave(Runtime, "crashed")
  /\ IF Alive(Runtime) THEN DieUncleanly(Runtime) ELSE UNCHANGED <<sidecar, sigint, endpoint>>
  /\ unverified' = TRUE
  /\ Advance("verify")
  /\ UNCHANGED <<failed, cleanupFailed, gate, probed, ready, link, motor, crashes, unsent>>

(* Mutant: the exit status of a runtime is not looked at.                    *)
Verified_LinksOnly(l) ==
  /\ \A i \in Ifaces : link[SideOf[l]][i] = "down"
  /\ endpoint[SideOf[l]] # "bound"

Verified(l) ==
  /\ ExitedZero(l)
  /\ \A i \in Ifaces : link[SideOf[l]][i] = "down"
  /\ endpoint[SideOf[l]] # "bound"

VerifyRuntime ==
  /\ ppc = "verify"
  /\ unverified' = (unverified \/ (Spawned(Runtime) /\ ~Verified(Runtime)))
  /\ endpoint' = [endpoint EXCEPT ![SideOf[Runtime]] =
                    IF @ = "orphan" /\ Spawned(Runtime) THEN "absent" ELSE @]
  /\ Advance(IF unverified' THEN "unverified" ELSE "stopped")
  /\ UNCHANGED <<pc, launchVars, childVars, link, motor, crashes, unsent>>

(* The parent's ends of the pipes close with its process.                    *)
PipesClose ==
  /\ gate' = [l \in Launches |->
                IF Spawned(l) /\ gate[l] = "waiting" THEN "closed" ELSE gate[l]]
  /\ UNCHANGED <<pc, iface, linksOpen, stop, failed, cleanupFailed, lock, probed,
                 childVars, robotVars, turn, unverified, unsent>>

(* It is killed, or a second Ctrl+C escapes from _stop_all.                  *)
ParentDies ==
  /\ ppc \in Working \cup Stopping
  /\ crashes < MaxCrashes
  /\ crashes' = crashes + 1
  /\ ppc' = "crashed"
  /\ PipesClose

(* It exits with the exception that CloseRaises let out.                     *)
ParentEnds ==
  /\ ppc = "escaped"
  /\ ppc' = "ended"
  /\ PipesClose
  /\ UNCHANGED crashes
-----------------------------------------------------------------------------
(* Without a parent a launch cannot print.  A print of its own raises (the   *)
(* StartupFault of XAirLifecycle); one in the sidecar's relay thread ends    *)
(* that thread, so ready is not set and the next line kills the sidecar; the *)
(* warning before the kill in _stop_sidecar escapes from the finally block.  *)
UnheardRunning(l) ==
  /\ sidecar[l] = "aligning"
  /\ sidecar' = [sidecar EXCEPT ![l] = "running"]
  /\ UNCHANGED <<pc, launchVars, sigint, ready, robotVars, crashes>>

UnheardLine(l) ==
  /\ sidecar[l] \in BoundStates
  /\ DieUncleanly(l)
  /\ UNCHANGED <<pc, launchVars, ready, link, motor, crashes>>

UnheardWarning(l) ==
  /\ pc[l] = "waiting"
  /\ Alive(l)
  /\ Refuse(l)
  /\ UNCHANGED <<childVars, robotVars, crashes>>

Unheard(l) == UnheardRunning(l) \/ UnheardLine(l) \/ UnheardWarning(l)

Child(l) ==
  \/ Quiet(l) \/ Controls(l) \/ Hardware(l)
  \/ ~Parentless /\ (Prints(l) \/ ControlRunning(l))
  \/ Parentless /\ Unheard(l)

Enter == Spawn \/ AwaitPreflights \/ Release \/ WaitUntilReady
StopAll == SignalGroup \/ CloseRaises \/ WaitRuntime \/ KillGroup \/ VerifyRuntime

ManagedNext ==
  \/ Enter \/ RaiseIfRuntimeExited \/ LeaveWith \/ StopAll \/ ParentDies \/ ParentEnds
  \/ \E l \in Launches : Child(l) /\ UNCHANGED parentVars

(* The parent keeps taking its own steps: its loops poll and its waits have  *)
(* deadlines.  Nothing is assumed of the launches.                           *)
ManagedSpec ==
  ManagedInit /\ [][ManagedNext]_mvars
  /\ WF_mvars(StopAll) /\ WF_mvars(RaiseIfRuntimeExited) /\ WF_mvars(Release)
-----------------------------------------------------------------------------
(* No motion-capable sidecar of either side starts before both sides passed  *)
(* their motion-free probe, however launches, gate and parent fail.          *)
PairedPreflight ==
  (\E l \in Launches : sidecar[l] # "none") => \A l \in Launches : probed[l]

(* When _stop_all comes to a verdict, no launch is left running, and a       *)
(* sidecar is left only by a launch that died on its own (kill -9), never by *)
(* the parent's; "Teleoperation stopped" is said only of a robot that is     *)
(* stopped.  When it comes to none, because a START could not be written, it *)
(* has still left no controller that was not asked to stop.                  *)
StoppedIsStopped ==
  /\ ppc \in Done => \A l \in Launches :
       /\ pc[l] \in Gone \cup {"idle"}
       /\ Alive(l) => crashes > 0
  /\ ppc = "stopped" => \A l \in Launches : Spawned(l) =>
       /\ ~Alive(l)
       /\ endpoint[SideOf[l]] = "absent"
       /\ \A i \in Ifaces : link[SideOf[l]][i] = "down" /\ motor[SideOf[l]][i] = "off"
  /\ ppc = "escaped" => \A l \in Launches : Alive(l) => stop[l] \/ crashes > 0

(* A side that dies takes the other one with it: the parent notices and every*)
(* launch is gone in the end, and once stopping has begun it ends with a     *)
(* verdict; unless the parent itself is killed, or the side died between the *)
(* release's last look at it and its START (ShutdownChecked is about that).  *)
OneFallsAllStop ==
  /\ (/\ ppc \in {"preflight", "release", "await", "running"}
      /\ \E l \in Launches : pc[l] \in Gone)
        ~> (ppc = "crashed" \/ unsent # {} \/ \A m \in Launches : pc[m] \in Gone)
  /\ ppc \in Stopping ~> ppc \in Done \/ ppc = "crashed" \/ unsent # {}

(* SAFETY.md: "Managed shutdown checks its exit status and passively verifies*)
(* both owned links are DOWN".  A parent that was not killed would then leave*)
(* _stop_all only when every launch it spawned has exited.                   *)
ShutdownChecked ==
  ppc \in Done \cup {"escaped"} => \A l \in Launches : pc[l] \in Gone \cup {"idle"}
=============================================================================
