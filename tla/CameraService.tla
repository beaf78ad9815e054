---------------------------- MODULE CameraService ----------------------------
(***************************************************************************)
(* Who owns the cameras (camera_service.py).  A call of start or stop, in  *)
(* the command line, the panel or a collection, reads the marker file,     *)
(* asks the kernel for the marked process, stops it or starts a detached   *)
(* one, and marks it.  The owner opens the cameras, binds the socket of    *)
(* the raw bridge and serves the preview whose health the calls ask for    *)
(* (camera_preview.py).  Calls may overlap or be killed, owners exit or    *)
(* hang, and a process id may come back as another process.                *)
(* A signal only lets an owner exit, which it may do at any time.          *)
(***************************************************************************)
EXTENDS Integers, FiniteSets

CONSTANTS
  Calls,      \* the processes that call CameraServiceController
  ConfigOf,   \* the System config of each; all share one state directory
  Pids,       \* process ids
  MaxTicks,   \* bound on the processes started under one id
  MaxBegun    \* bound on the calls

ASSUME ServiceAssumption ==
  /\ IsFiniteSet(Calls) /\ IsFiniteSet(Pids) /\ DOMAIN ConfigOf = Calls
  /\ MaxTicks \in Nat \ {0} /\ MaxBegun \in Nat \ {0}

VARIABLES
  phase,       \* what runs under each process id
  ticks,       \* its start_ticks
  marker,      \* camera-service.json
  path,        \* whether the bridge's socket path exists
  at,          \* where each call is
  held,        \* the marker it works with, or of the process it started
  then,        \* where it goes on once the marked process is stopped
  begun,       \* calls made
  overlapped,  \* whether two calls ever ran at the same time
  abandoned    \* what killed calls had started and not marked, or NoMarker

ownerVars == <<phase, ticks, path>>
callVarsOf == <<at, held, then>>
serviceVars == <<ownerVars, marker, callVarsOf, begun, overlapped, abandoned>>

NoMarker == [pid |-> "none"]
Runs(m) == m # NoMarker /\ phase[m.pid] \in {"starting", "serving", "degraded"}
             /\ ticks[m.pid] = m.ticks

ServiceInit ==
  /\ phase = [p \in Pids |-> "free"] /\ ticks = [p \in Pids |-> 0]
  /\ marker = NoMarker /\ path = FALSE
  /\ at = [c \in Calls |-> "idle"] /\ held = [c \in Calls |-> NoMarker]
  /\ then = [c \in Calls |-> "end"]
  /\ begun = 0 /\ overlapped = FALSE /\ abandoned = {}
-----------------------------------------------------------------------------
(* The owners.  A camera that is open cannot be opened again, and the bridge *)
(* refuses a path that exists.                                               *)
Endpoint == \E p \in Pids : phase[p] \in {"serving", "degraded"}

OwnerServes(p) ==
  /\ phase[p] = "starting" /\ ~Endpoint /\ ~path
  /\ phase' = [phase EXCEPT ![p] = "serving"] /\ path' = TRUE
  /\ UNCHANGED <<ticks, marker, callVarsOf, begun, overlapped, abandoned>>

(* health(): a camera that hangs, or an encoder that fails, and its return.  *)
HealthChanges(p) ==
  /\ phase[p] \in {"serving", "degraded"}
  /\ phase' = [phase EXCEPT ![p] = IF @ = "serving" THEN "degraded" ELSE "serving"]
  /\ UNCHANGED <<ticks, path, marker, callVarsOf, begun, overlapped, abandoned>>

(* A failed reader, a signal or a crash; close() unlinks the path.           *)
OwnerExits(p, clean) ==
  /\ phase[p] \in {"starting", "serving", "degraded"}
  /\ path' = (path /\ ~(clean /\ phase[p] # "starting"))
  /\ phase' = [phase EXCEPT ![p] = "free"]
  /\ UNCHANGED <<ticks, marker, callVarsOf, begun, overlapped, abandoned>>

(* The id of a process that is gone is given away, unless the call that       *)
(* started it still runs and has not asked for its exit status.              *)
Unreaped(p) ==
  \E c \in Calls :
    /\ held[c] # NoMarker /\ held[c].pid = p
    /\ at[c] \in {"mark", "await"} \/ then[c] = "raise"

GivenAway(p, to) ==
  /\ phase[p] = "free" /\ ticks[p] < MaxTicks /\ ~Unreaped(p)
  /\ phase' = [phase EXCEPT ![p] = to] /\ ticks' = [ticks EXCEPT ![p] = @ + 1]

ReusePid(p) ==
  /\ 0 < ticks[p] /\ GivenAway(p, "stranger")
  /\ UNCHANGED <<path, marker, callVarsOf, begun, overlapped, abandoned>>
-----------------------------------------------------------------------------
(* A call.                                                                   *)
CallGoes(c, to) == at' = [at EXCEPT ![c] = to]

Ends(c) ==
  /\ CallGoes(c, "idle")
  /\ held' = [held EXCEPT ![c] = NoMarker] /\ then' = [then EXCEPT ![c] = "end"]

Begin(c, operation) ==
  /\ at[c] = "idle" /\ begun < MaxBegun
  /\ CallGoes(c, operation) /\ begun' = begun + 1
  /\ overlapped' = (overlapped \/ \E d \in Calls : at[d] # "idle")
  /\ UNCHANGED <<ownerVars, marker, held, then, abandoned>>

CallReads(c) ==
  /\ at[c] \in {"start", "stop"}
  /\ held' = [held EXCEPT ![c] = marker]
  /\ CallGoes(c, IF at[c] = "start" THEN "judge" ELSE "judgeStop")
  /\ UNCHANGED <<ownerVars, marker, then, begun, overlapped, abandoned>>

(* _marker_process: the start ticks and the command line.                    *)
Alive(m) == Runs(m)

Healthy == \E p \in Pids : phase[p] = "serving"

(* status().healthy, of the marker as it is by now.                          *)
ReportsHealthy == Runs(marker) /\ Healthy

(* start() ends at once: there is a healthy owner, one of another config, or *)
(* one without a marker.                                                     *)
StartEnds(c) ==
  /\ at[c] = "judge"
  /\ IF held[c] = NoMarker THEN Endpoint
     ELSE Alive(held[c]) /\ (held[c].config = ConfigOf[c] => ReportsHealthy)
  /\ Ends(c)
  /\ UNCHANGED <<ownerVars, marker, begun, overlapped, abandoned>>

StartReplaces(c) ==
  /\ at[c] = "judge" /\ held[c] # NoMarker /\ Alive(held[c])
  /\ held[c].config = ConfigOf[c] /\ ~ReportsHealthy
  /\ CallGoes(c, "kill") /\ then' = [then EXCEPT ![c] = "unlink"]
  /\ UNCHANGED <<ownerVars, marker, held, begun, overlapped, abandoned>>

(* _remove_stale_marker, of whatever process it names by now.                *)
StartFresh(c) ==
  /\ at[c] = "judge"
  /\ IF held[c] = NoMarker THEN ~Endpoint ELSE ~Alive(held[c])
  /\ marker' = IF held[c] = NoMarker THEN marker ELSE NoMarker
  /\ CallGoes(c, "unlink")
  /\ UNCHANGED <<ownerVars, held, then, begun, overlapped, abandoned>>

(* _remove_stale_socket, then Popen.                                         *)
Unlink(c) ==
  /\ at[c] = "unlink"
  /\ path' = FALSE /\ CallGoes(c, "spawn")
  /\ UNCHANGED <<phase, ticks, marker, held, then, begun, overlapped, abandoned>>

Spawn(c) ==
  /\ at[c] = "spawn"
  /\ \E p \in Pids :
       /\ GivenAway(p, "starting")
       /\ held' = [held EXCEPT ![c] = [pid |-> p, ticks |-> ticks[p] + 1,
                                       config |-> ConfigOf[c]]]
  /\ CallGoes(c, "mark")
  /\ UNCHANGED <<path, marker, then, begun, overlapped, abandoned>>

Mark(c) ==
  /\ at[c] = "mark"
  /\ marker' = held[c] /\ CallGoes(c, "await")
  /\ UNCHANGED <<ownerVars, held, then, begun, overlapped, abandoned>>

(* The preview is asked, whoever serves it.                                  *)
BecomesHealthy(c) ==
  /\ at[c] = "await" /\ Runs(held[c]) /\ Healthy
  /\ Ends(c)
  /\ UNCHANGED <<ownerVars, marker, begun, overlapped, abandoned>>

(* Mutant: an owner that does not answer yet counts as one that exited.      *)
ExitedDuringStartup_Impatient(c) ==
  /\ at[c] = "await" /\ ~Healthy
  /\ marker' = NoMarker /\ path' = FALSE /\ Ends(c)
  /\ UNCHANGED <<phase, ticks, begun, overlapped, abandoned>>

ExitedDuringStartup(c) ==
  /\ at[c] = "await" /\ ~Runs(held[c])
  /\ marker' = NoMarker /\ path' = FALSE /\ Ends(c)
  /\ UNCHANGED <<phase, ticks, begun, overlapped, abandoned>>

StartupTimesOut(c) ==
  /\ at[c] = "await" /\ Runs(held[c])
  /\ CallGoes(c, "kill") /\ then' = [then EXCEPT ![c] = "raise"]
  /\ UNCHANGED <<ownerVars, marker, held, begun, overlapped, abandoned>>

StopEnds(c) ==
  /\ at[c] = "judgeStop" /\ (held[c] = NoMarker \/ ~Alive(held[c]))
  /\ path' = IF held[c] = NoMarker /\ Endpoint THEN path ELSE FALSE
  /\ marker' = IF held[c] = NoMarker THEN marker ELSE NoMarker
  /\ Ends(c)
  /\ UNCHANGED <<phase, ticks, begun, overlapped, abandoned>>

StopKills(c) ==
  /\ at[c] = "judgeStop" /\ held[c] # NoMarker /\ Alive(held[c])
  /\ CallGoes(c, "kill")
  /\ UNCHANGED <<ownerVars, marker, held, then, begun, overlapped, abandoned>>
-----------------------------------------------------------------------------
(* _stop_marked: the process is looked at, then its id is signalled.         *)
LooksBeforeSignal(c) ==
  /\ at[c] = "kill" /\ Alive(held[c])
  /\ CallGoes(c, "interrupt")
  /\ UNCHANGED <<ownerVars, marker, held, then, begun, overlapped, abandoned>>

(* killpg raises when there is no such group: nobody has the id any more, or *)
(* a process that leads none.  A child that was not waited for still counts. *)
Interrupts(c) ==
  /\ at[c] = "interrupt"
  /\ \/ CallGoes(c, "wait") /\ UNCHANGED <<held, then>>
     \/ ~Alive(held[c]) /\ Ends(c)
  /\ UNCHANGED <<ownerVars, marker, begun, overlapped, abandoned>>

(* The marked process is gone: its marker and its socket are removed.        *)
Stopped(c) ==
  /\ at[c] \in {"kill", "wait", "term"} /\ ~Alive(held[c])
  /\ marker' = NoMarker /\ path' = FALSE
  /\ IF then[c] = "unlink"
     THEN CallGoes(c, "unlink") /\ held' = [held EXCEPT ![c] = NoMarker] /\ then' = [then EXCEPT ![c] = "end"]
     ELSE Ends(c)
  /\ UNCHANGED <<phase, ticks, begun, overlapped, abandoned>>

(* SIGTERM after the shutdown timeout.                                       *)
Terminates(c) ==
  /\ at[c] = "wait"
  /\ \/ CallGoes(c, "term") /\ UNCHANGED <<held, then>>
     \/ ~Alive(held[c]) /\ Ends(c)
  /\ UNCHANGED <<ownerVars, marker, begun, overlapped, abandoned>>

(* Mutant: the socket of an owner that does not stop is removed.             *)
DoesNotStop_Unlinks(c) ==
  /\ at[c] = "term" /\ Alive(held[c])
  /\ path' = FALSE /\ Ends(c)
  /\ UNCHANGED <<phase, ticks, marker, begun, overlapped, abandoned>>

DoesNotStop(c) ==
  /\ at[c] = "term" /\ Alive(held[c])
  /\ Ends(c)
  /\ UNCHANGED <<ownerVars, marker, begun, overlapped, abandoned>>

(* Ctrl+C or SIGKILL of the calling process.                                 *)
Killed(c) ==
  /\ at[c] # "idle" /\ Ends(c)
  /\ abandoned' = abandoned \cup {IF at[c] = "mark" THEN held[c] ELSE NoMarker}
  /\ UNCHANGED <<ownerVars, marker, begun, overlapped>>
-----------------------------------------------------------------------------
Starting(c) ==
  \/ Begin(c, "start") \/ StartEnds(c) \/ StartReplaces(c) \/ StartFresh(c)
  \/ Unlink(c) \/ Spawn(c) \/ Mark(c)
  \/ BecomesHealthy(c) \/ ExitedDuringStartup(c) \/ StartupTimesOut(c)

Stopping(c) ==
  \/ Begin(c, "stop") \/ StopEnds(c) \/ StopKills(c)
  \/ LooksBeforeSignal(c) \/ Interrupts(c) \/ Stopped(c) \/ Terminates(c) \/ DoesNotStop(c)

ServiceNext ==
  \/ \E c \in Calls : CallReads(c) \/ Starting(c) \/ Stopping(c) \/ Killed(c)
  \/ \E p \in Pids :
       \/ OwnerServes(p) \/ HealthChanges(p) \/ ReusePid(p)
       \/ \E clean \in BOOLEAN : OwnerExits(p, clean)

ServiceSpec == ServiceInit /\ [][ServiceNext]_serviceVars
-----------------------------------------------------------------------------
(* As long as no two calls overlap, every owner that runs is the marked one, *)
(* and can be stopped by the next call, whatever was killed, hung or timed   *)
(* out before; but for a process whose call was killed between Popen and the *)
(* marker (camera_service.py:89-124).                                        *)
OwnerStaysMarked ==
  ~overlapped => \A p \in Pids :
    phase[p] \in {"starting", "serving", "degraded"} =>
      \E m \in {marker} \cup abandoned \cup {held[c] : c \in {d \in Calls : at[d] = "mark"}} :
        m # NoMarker /\ m.pid = p /\ m.ticks = ticks[p]

(* An owner that holds the cameras can be reached: as long as no two calls    *)
(* overlap and none was killed between Popen and the marker, no call that    *)
(* stops, replaces or clears away an owner, whatever died, hung or timed out *)
(* before, removes the socket of the one that is alive.                      *)
OwnerReachable ==
  ~overlapped /\ abandoned \subseteq {NoMarker} =>
    \A p \in Pids : phase[p] \in {"serving", "degraded"} => path

(* "The marked persistent Camera Service is the only physical camera owner"  *)
(* (docs/SAFETY.md:356): between calls that all ended by themselves, the     *)
(* process that holds the cameras is the one the marker names.               *)
CameraOwnerIsMarked ==
  (abandoned = {} /\ \A c \in Calls : at[c] = "idle") => \A p \in Pids :
    phase[p] \in {"serving", "degraded"} =>
      marker # NoMarker /\ marker.pid = p /\ marker.ticks = ticks[p]
=============================================================================
