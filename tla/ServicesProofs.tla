---------------------------- MODULE ServicesProofs ----------------------------
(***************************************************************************)
(* The programs beside collection, for any calls, process ids, motors,     *)
(* rounds, registers, files and sweeps, any number of signals and any      *)
(* failure.                                                                *)
(*                                                                         *)
(* The camera service: while calls do not overlap every owner that runs is *)
(* marked, or was lost by a call killed before it could mark it; and the   *)
(* one that holds the cameras keeps its socket.                            *)
(*                                                                         *)
(* The follower moves under the lock and reports what is so. The           *)
(* supervisor knows the child only by its output. A line in the pipe is of *)
(* what was so when it was written and can only become truer (LinesTrue);  *)
(* what was sent bounds the sweep (SweepAgrees), and the verdict rests on  *)
(* both (VerdictAgrees).                                                   *)
(*                                                                         *)
(* The capture returns its links: the loop over the endpoints is left with *)
(* none owned, or by an exception (LinksOwned). It pairs its evidence:     *)
(* from a motor with nothing under way when a round begins, all that comes *)
(* in the round is of it (OwnAnswers).                                     *)
(*                                                                         *)
(* The offline programs. A replay that passed is of the whole of a passed  *)
(* capture. A rehearsed sweep keeps its bounds, for any amplitude and      *)
(* times, and goes on only while it is tracked; what is known of the       *)
(* samples (Tracked) is also what errorSince stands for. A migrated        *)
(* dataset appears whole, though sessions add to its source meanwhile.     *)
(*                                                                         *)
(* The decoder finds the frames of the stream however it is cut into       *)
(* reads: what it has dealt with is decided, whatever comes (Settled).     *)
(***************************************************************************)
EXTENDS
  CameraService, AutomaticFollower, FeedbackCapture, CaptureReplay, TrajectoryRehearsal,
  DatasetMigration, SerialFraming, SequenceLemmas, FiniteSetTheorems

OwnerPhases == {"starting", "serving", "degraded"}
MarkerRead == {"judge", "judgeStop"}          \* has read the marker
Ending == {"kill", "interrupt", "wait", "term"}  \* in _stop_marked
Replacing == {"unlink", "spawn", "mark"}   \* there is no marked process
Markers == [pid : Pids, ticks : Nat, config : {ConfigOf[c] : c \in Calls}]
Names(m, p) == m # NoMarker /\ m.pid = p /\ m.ticks = ticks[p]

ServiceTypes ==
  /\ phase \in [Pids -> {"free", "stranger"} \cup OwnerPhases]
  /\ ticks \in [Pids -> Nat]
  /\ marker \in Markers \cup {NoMarker}
  /\ at \in [Calls -> {"idle", "start", "stop", "await"} \cup MarkerRead \cup Ending \cup Replacing]
  /\ held \in [Calls -> Markers \cup {NoMarker}]
  /\ then \in [Calls -> {"end", "unlink", "raise"}]

(* The cameras are open once.                                                *)
Holding == {"serving", "degraded"}
OneHolder == \A p, q \in Pids : phase[p] \in Holding /\ phase[q] \in Holding => p = q

(* While calls do not overlap there is one call, which works with the marker *)
(* as it is; what it starts takes the place of no marked process.            *)
OneCall == \A c, d \in Calls : at[c] # "idle" /\ at[d] # "idle" => c = d
MarkerCurrent ==
  \A c \in Calls :
    /\ at[c] \in MarkerRead \cup Ending \cup {"await"} => held[c] = marker
    /\ at[c] \in Replacing => marker = NoMarker

ServiceInv ==
  /\ ServiceTypes /\ OneHolder
  /\ ~overlapped => OneCall /\ MarkerCurrent
  /\ OwnerStaysMarked /\ OwnerReachable

(* A marker that is read is a record of a process.                           *)
LEMMA MarkersAreRecords ==
  /\ NoMarker \notin Markers
  /\ \A m \in Markers : m # NoMarker /\ m.pid \in Pids /\ m.ticks \in Nat
BY DEF Markers, NoMarker

(* Nothing is marked and nobody is called.                                   *)
LEMMA ServiceInitInv == ServiceInit => ServiceInv
BY DEF ServiceInit, ServiceInv, ServiceTypes, OneHolder, Holding,
       OneCall, MarkerCurrent, OwnerStaysMarked, OwnerReachable, MarkerRead, Ending, Replacing, OwnerPhases

(* Each step keeps the types.                                                *)
LEMMA ServiceTypesKept ==
  ASSUME ServiceTypes, ServiceNext
  PROVE  ServiceTypes'
<1> USE MarkersAreRecords DEF ServiceTypes, CallGoes, Ends, ownerVars, callVarsOf,
            OwnerPhases, MarkerRead, Ending, Replacing
<1>1. ASSUME NEW c \in Calls, CallReads(c) PROVE ServiceTypes'
  BY <1>1 DEF CallReads
<1>2. ASSUME NEW c \in Calls, StartEnds(c) PROVE ServiceTypes'
  BY <1>2 DEF StartEnds
<1>3. ASSUME NEW c \in Calls, StartReplaces(c) PROVE ServiceTypes'
  BY <1>3 DEF StartReplaces
<1>4. ASSUME NEW c \in Calls, StartFresh(c) PROVE ServiceTypes'
  BY <1>4 DEF StartFresh
<1>5. ASSUME NEW c \in Calls, Unlink(c) PROVE ServiceTypes'
  BY <1>5 DEF Unlink
<1>6. ASSUME NEW c \in Calls, Spawn(c) PROVE ServiceTypes'
  <2>1. PICK p \in Pids :
          /\ phase' = [phase EXCEPT ![p] = "starting"]
          /\ ticks' = [ticks EXCEPT ![p] = @ + 1]
          /\ held' = [held EXCEPT ![c] = [pid |-> p, ticks |-> ticks[p] + 1,
                                        config |-> ConfigOf[c]]]
    BY <1>6 DEF Spawn, GivenAway
  <2>2. [pid |-> p, ticks |-> ticks[p] + 1, config |-> ConfigOf[c]] \in Markers
    BY DEF Markers, ServiceTypes
  <2> QED
    BY <1>6, <2>1, <2>2 DEF Spawn, ServiceTypes, CallGoes, OwnerPhases, MarkerRead, Ending,
       Replacing
<1>7. ASSUME NEW c \in Calls, Mark(c) PROVE ServiceTypes'
  BY <1>7 DEF Mark
<1>8. ASSUME NEW c \in Calls, BecomesHealthy(c) PROVE ServiceTypes'
  BY <1>8 DEF BecomesHealthy
<1>9. ASSUME NEW c \in Calls, ExitedDuringStartup(c) PROVE ServiceTypes'
  BY <1>9 DEF ExitedDuringStartup
<1>10. ASSUME NEW c \in Calls, StartupTimesOut(c) PROVE ServiceTypes'
  BY <1>10 DEF StartupTimesOut
<1>11. ASSUME NEW c \in Calls, StopEnds(c) PROVE ServiceTypes'
  BY <1>11 DEF StopEnds
<1>12. ASSUME NEW c \in Calls, StopKills(c) PROVE ServiceTypes'
  BY <1>12 DEF StopKills
<1>13. ASSUME NEW c \in Calls, Interrupts(c) PROVE ServiceTypes'
  BY <1>13 DEF Interrupts
<1>24. ASSUME NEW c \in Calls, LooksBeforeSignal(c) PROVE ServiceTypes'
  BY <1>24 DEF LooksBeforeSignal
<1>14. ASSUME NEW c \in Calls, Stopped(c) PROVE ServiceTypes'
  BY <1>14 DEF Stopped
<1>15. ASSUME NEW c \in Calls, Terminates(c) PROVE ServiceTypes'
  BY <1>15 DEF Terminates
<1>16. ASSUME NEW c \in Calls, DoesNotStop(c) PROVE ServiceTypes'
  BY <1>16 DEF DoesNotStop
<1>17. ASSUME NEW c \in Calls, Killed(c) PROVE ServiceTypes'
  BY <1>17 DEF Killed
<1>18. ASSUME NEW c \in Calls, NEW o \in {"start", "stop"}, Begin(c, o) PROVE ServiceTypes'
  BY <1>18 DEF Begin
<1>19. ASSUME NEW p \in Pids, OwnerServes(p) PROVE ServiceTypes'
  BY <1>19 DEF OwnerServes
<1>20. ASSUME NEW p \in Pids, HealthChanges(p) PROVE ServiceTypes'
  BY <1>20 DEF HealthChanges
<1>21. ASSUME NEW p \in Pids, ReusePid(p) PROVE ServiceTypes'
  BY <1>21 DEF ReusePid, GivenAway
<1>22. ASSUME NEW p \in Pids, NEW clean \in BOOLEAN, OwnerExits(p, clean)
      PROVE ServiceTypes'
  BY <1>22 DEF OwnerExits
<1> QED
  BY <1>1, <1>2, <1>3, <1>4, <1>5, <1>6, <1>7, <1>8, <1>9, <1>10, <1>11, 
     <1>12, <1>13, <1>14, <1>15, <1>16, <1>17, <1>18, <1>19, <1>20, <1>21,
        <1>22, <1>24 DEF ServiceNext, Starting, Stopping

(* The one call works with the marker as it is.                              *)
LEMMA MarkerKept ==
  ASSUME ServiceTypes, ~overlapped => OneCall /\ MarkerCurrent, ~overlapped', ServiceNext
  PROVE  OneCall' /\ MarkerCurrent'
<1> USE DEF ServiceTypes, OneCall, MarkerCurrent, CallGoes, Ends, ownerVars,
            callVarsOf, MarkerRead, Ending, Replacing
<1>1. ASSUME NEW c \in Calls, CallReads(c) PROVE OneCall' /\ MarkerCurrent'
  BY <1>1 DEF CallReads
<1>2. ASSUME NEW c \in Calls, StartEnds(c) PROVE OneCall' /\ MarkerCurrent'
  BY <1>2 DEF StartEnds
<1>3. ASSUME NEW c \in Calls, StartReplaces(c) PROVE OneCall' /\ MarkerCurrent'
  BY <1>3 DEF StartReplaces
<1>4. ASSUME NEW c \in Calls, StartFresh(c) PROVE OneCall' /\ MarkerCurrent'
  BY <1>4 DEF StartFresh
<1>5. ASSUME NEW c \in Calls, Unlink(c) PROVE OneCall' /\ MarkerCurrent'
  BY <1>5 DEF Unlink
<1>6. ASSUME NEW c \in Calls, Spawn(c) PROVE OneCall' /\ MarkerCurrent'
  BY <1>6 DEF Spawn, GivenAway
<1>7. ASSUME NEW c \in Calls, Mark(c) PROVE OneCall' /\ MarkerCurrent'
  BY <1>7 DEF Mark
<1>8. ASSUME NEW c \in Calls, BecomesHealthy(c) PROVE OneCall' /\ MarkerCurrent'
  BY <1>8 DEF BecomesHealthy
<1>9. ASSUME NEW c \in Calls, ExitedDuringStartup(c) PROVE OneCall' /\ MarkerCurrent'
  BY <1>9 DEF ExitedDuringStartup
<1>10. ASSUME NEW c \in Calls, StartupTimesOut(c) PROVE OneCall' /\ MarkerCurrent'
  BY <1>10 DEF StartupTimesOut
<1>11. ASSUME NEW c \in Calls, StopEnds(c) PROVE OneCall' /\ MarkerCurrent'
  BY <1>11 DEF StopEnds
<1>12. ASSUME NEW c \in Calls, StopKills(c) PROVE OneCall' /\ MarkerCurrent'
  BY <1>12 DEF StopKills
<1>13. ASSUME NEW c \in Calls, Interrupts(c) PROVE OneCall' /\ MarkerCurrent'
  BY <1>13 DEF Interrupts
<1>24. ASSUME NEW c \in Calls, LooksBeforeSignal(c) PROVE OneCall' /\ MarkerCurrent'
  BY <1>24 DEF LooksBeforeSignal
<1>14. ASSUME NEW c \in Calls, Stopped(c) PROVE OneCall' /\ MarkerCurrent'
  BY <1>14 DEF Stopped
<1>15. ASSUME NEW c \in Calls, Terminates(c) PROVE OneCall' /\ MarkerCurrent'
  BY <1>15 DEF Terminates
<1>16. ASSUME NEW c \in Calls, DoesNotStop(c) PROVE OneCall' /\ MarkerCurrent'
  BY <1>16 DEF DoesNotStop
<1>17. ASSUME NEW c \in Calls, Killed(c) PROVE OneCall' /\ MarkerCurrent'
  BY <1>17 DEF Killed
<1>18. ASSUME NEW c \in Calls, NEW o \in {"start", "stop"}, Begin(c, o)
      PROVE OneCall' /\ MarkerCurrent'
  BY <1>18 DEF Begin
<1>19. ASSUME NEW p \in Pids, OwnerServes(p) PROVE OneCall' /\ MarkerCurrent'
  BY <1>19 DEF OwnerServes
<1>20. ASSUME NEW p \in Pids, HealthChanges(p) PROVE OneCall' /\ MarkerCurrent'
  BY <1>20 DEF HealthChanges
<1>21. ASSUME NEW p \in Pids, ReusePid(p) PROVE OneCall' /\ MarkerCurrent'
  BY <1>21 DEF ReusePid, GivenAway
<1>22. ASSUME NEW p \in Pids, NEW clean \in BOOLEAN, OwnerExits(p, clean)
      PROVE OneCall' /\ MarkerCurrent'
  BY <1>22 DEF OwnerExits
<1> QED
  BY <1>1, <1>2, <1>3, <1>4, <1>5, <1>6, <1>7, <1>8, <1>9, <1>10, <1>11, 
     <1>12, <1>13, <1>14, <1>15, <1>16, <1>17, <1>18, <1>19, <1>20, <1>21,
        <1>22, <1>24 DEF ServiceNext, Starting, Stopping

(* The owners stay marked.                                                   *)
LEMMA OwnersKept ==
  ASSUME ServiceTypes, ServiceTypes', ~overlapped => OneCall /\ MarkerCurrent,
         OwnerStaysMarked, ServiceNext
  PROVE  OwnerStaysMarked'
<1> USE DEF ServiceTypes, OneCall, MarkerCurrent, OwnerStaysMarked, CallGoes, Ends, ownerVars,
            callVarsOf, MarkerRead, Ending, Replacing, OwnerPhases
<1>1. ASSUME NEW c \in Calls, CallReads(c) PROVE OwnerStaysMarked'
  BY <1>1 DEF CallReads
<1>2. ASSUME NEW c \in Calls, StartEnds(c) PROVE OwnerStaysMarked'
  BY <1>2 DEF StartEnds
<1>3. ASSUME NEW c \in Calls, StartReplaces(c) PROVE OwnerStaysMarked'
  BY <1>3 DEF StartReplaces
<1>4. ASSUME NEW c \in Calls, StartFresh(c) PROVE OwnerStaysMarked'
  BY <1>4 DEF StartFresh, Alive, Runs
<1>5. ASSUME NEW c \in Calls, Unlink(c) PROVE OwnerStaysMarked'
  BY <1>5 DEF Unlink
<1>6. ASSUME NEW c \in Calls, Spawn(c), ~overlapped',
             NEW q \in Pids, phase'[q] \in OwnerPhases
      PROVE  \E m \in {marker'} \cup abandoned'
                        \cup {held'[e] : e \in {d \in Calls : at'[d] = "mark"}} :
               Names(m, q)'
  <2>1. PICK p \in Pids :
          /\ phase[p] = "free"
          /\ phase' = [phase EXCEPT ![p] = "starting"]
          /\ ticks' = [ticks EXCEPT ![p] = @ + 1]
          /\ held' = [held EXCEPT ![c] = [pid |-> p, ticks |-> ticks[p] + 1,
                                        config |-> ConfigOf[c]]]
    BY <1>6 DEF Spawn, GivenAway
  <2>2. /\ at[c] = "spawn" /\ at' = [at EXCEPT ![c] = "mark"]
        /\ UNCHANGED <<marker, abandoned, overlapped>>
    BY <1>6 DEF Spawn, CallGoes
  <2>3. CASE q = p
    <3>1. /\ held'[c] # NoMarker /\ held'[c].pid = q /\ held'[c].ticks = ticks'[q]
          /\ at'[c] = "mark"
      BY <2>1, <2>2, <2>3 DEF NoMarker, ServiceTypes
    <3> QED  BY <3>1 DEF Names
  <2>4. CASE q # p
    <3>1. phase[q] \in OwnerPhases /\ ticks'[q] = ticks[q]
      BY <1>6, <2>1, <2>4 DEF ServiceTypes
    <3>2. PICK m \in {marker} \cup abandoned \cup {held[e] : e \in {d \in Calls : at[d] = "mark"}} :
            Names(m, q)
      BY <1>6, <2>2, <3>1 DEF OwnerStaysMarked, OwnerPhases, Names
    <3>3. \A d \in Calls : at[d] # "mark"
      BY <1>6, <2>2 DEF OneCall
    <3>4. marker = NoMarker
      BY <1>6, <2>2 DEF MarkerCurrent, Replacing
    <3>5. m \in abandoned
      BY <3>2, <3>3, <3>4 DEF Names
    <3>6. m \in abandoned' /\ Names(m, q)'
      BY <2>2, <3>1, <3>2, <3>5 DEF Names
    <3> QED  BY <3>6
  <2> QED  BY <2>3, <2>4
<1>7. ASSUME NEW c \in Calls, Mark(c) PROVE OwnerStaysMarked'
  BY <1>7 DEF Mark
<1>8. ASSUME NEW c \in Calls, BecomesHealthy(c) PROVE OwnerStaysMarked'
  BY <1>8 DEF BecomesHealthy
<1>9. ASSUME NEW c \in Calls, ExitedDuringStartup(c) PROVE OwnerStaysMarked'
  BY <1>9 DEF ExitedDuringStartup, Alive, Runs
<1>10. ASSUME NEW c \in Calls, StartupTimesOut(c) PROVE OwnerStaysMarked'
  BY <1>10 DEF StartupTimesOut
<1>11. ASSUME NEW c \in Calls, StopEnds(c) PROVE OwnerStaysMarked'
  BY <1>11 DEF StopEnds, Alive, Runs
<1>12. ASSUME NEW c \in Calls, StopKills(c) PROVE OwnerStaysMarked'
  BY <1>12 DEF StopKills
<1>13. ASSUME NEW c \in Calls, Interrupts(c) PROVE OwnerStaysMarked'
  BY <1>13 DEF Interrupts
<1>24. ASSUME NEW c \in Calls, LooksBeforeSignal(c) PROVE OwnerStaysMarked'
  BY <1>24 DEF LooksBeforeSignal
<1>14. ASSUME NEW c \in Calls, Stopped(c) PROVE OwnerStaysMarked'
  BY <1>14 DEF Stopped, Alive, Runs
<1>15. ASSUME NEW c \in Calls, Terminates(c) PROVE OwnerStaysMarked'
  BY <1>15 DEF Terminates
<1>16. ASSUME NEW c \in Calls, DoesNotStop(c) PROVE OwnerStaysMarked'
  BY <1>16 DEF DoesNotStop
<1>17. ASSUME NEW c \in Calls, Killed(c) PROVE OwnerStaysMarked'
  BY <1>17 DEF Killed
<1>18. ASSUME NEW c \in Calls, NEW o \in {"start", "stop"}, Begin(c, o)
      PROVE OwnerStaysMarked'
  <2>1. {d \in Calls : at'[d] = "mark"} = {d \in Calls : at[d] = "mark"}
    BY <1>18 DEF Begin, CallGoes, ServiceTypes
  <2>2. (~overlapped' => ~overlapped) /\ UNCHANGED <<phase, ticks, marker, held, abandoned>>
    BY <1>18 DEF Begin, ownerVars
  <2> QED  BY <2>1, <2>2 DEF OwnerStaysMarked
<1>19. ASSUME NEW p \in Pids, OwnerServes(p) PROVE OwnerStaysMarked'
  BY <1>19 DEF OwnerServes
<1>20. ASSUME NEW p \in Pids, HealthChanges(p) PROVE OwnerStaysMarked'
  BY <1>20 DEF HealthChanges
<1>21. ASSUME NEW p \in Pids, ReusePid(p) PROVE OwnerStaysMarked'
  BY <1>21 DEF ReusePid, GivenAway
<1>22. ASSUME NEW p \in Pids, NEW clean \in BOOLEAN, OwnerExits(p, clean)
      PROVE OwnerStaysMarked'
  BY <1>22 DEF OwnerExits
<1>23. ASSUME NEW c \in Calls, Spawn(c) PROVE OwnerStaysMarked'
  BY <1>6, <1>23 DEF OwnerStaysMarked, OwnerPhases, Names
<1> QED
  BY <1>1, <1>2, <1>3, <1>4, <1>5, <1>23, <1>7, <1>8, <1>9, <1>10, <1>11, 
     <1>12, <1>13, <1>14, <1>15, <1>16, <1>17, <1>18, <1>19, <1>20, <1>21,
        <1>22, <1>24 DEF ServiceNext, Starting, Stopping

Unmarked == overlapped \/ ~(abandoned \subseteq {NoMarker})

(* To a call that has no process of its own to mark, no process runs but the *)
(* marked one.                                                               *)
LEMMA OnlyMarkedRuns ==
  ASSUME ServiceInv, ~Unmarked, NEW c \in Calls, at[c] \notin {"idle", "mark"},
         NEW p \in Pids, phase[p] \in OwnerPhases
  PROVE  Runs(marker)
<1>1. PICK m \in {marker} \cup abandoned \cup {held[e] : e \in {d \in Calls : at[d] = "mark"}} :
        m # NoMarker /\ m.pid = p /\ m.ticks = ticks[p]
  BY DEF ServiceInv, OwnerStaysMarked, OwnerPhases, Unmarked
<1>2. \A d \in Calls : at[d] # "mark"
  BY DEF ServiceInv, OneCall, Unmarked
<1>3. m = marker
  BY <1>1, <1>2 DEF Unmarked
<1> QED  BY <1>1, <1>3 DEF Runs, OwnerPhases

(* What a step does to the owners and to the socket.                         *)
LEMMA PathSteps ==
  ASSUME ServiceNext
  PROVE  \/ phase' = phase /\ path' = path
         \/ \E c \in Calls : Unlink(c) \/ ExitedDuringStartup(c) \/ StopEnds(c) \/ Stopped(c)
         \/ \E p \in Pids : OwnerServes(p) \/ HealthChanges(p)
                             \/ \E clean \in BOOLEAN : OwnerExits(p, clean)
         \/ path' = path /\ \E p \in Pids, to \in {"starting", "stranger"} : GivenAway(p, to)
BY DEF ServiceNext, Starting, Stopping, Begin, CallReads, StartEnds, StartReplaces, StartFresh,
       Spawn, Mark, BecomesHealthy, StartupTimesOut, StopKills, LooksBeforeSignal, Interrupts,
       Terminates, DoesNotStop, Killed, ReusePid, ownerVars

(* What was started apart, or lost, stays so.                                *)
LEMMA UnmarkedStays == ServiceNext /\ Unmarked => Unmarked'
<1>1. ASSUME NEW c \in Calls, NEW o \in {"start", "stop"}, Begin(c, o)
      PROVE  (overlapped => overlapped') /\ abandoned' = abandoned
  BY <1>1, Zenon DEF Begin
<1>2. ServiceNext =>
        \/ \E c \in Calls, o \in {"start", "stop"} : Begin(c, o)
        \/ overlapped' = overlapped /\ abandoned \subseteq abandoned'
  BY DEF ServiceNext, Starting, Stopping, CallReads, StartEnds, StartReplaces,
       StartFresh, Unlink, Spawn, Mark, BecomesHealthy, ExitedDuringStartup, StartupTimesOut,
       StopEnds, StopKills, LooksBeforeSignal, Interrupts, Stopped, Terminates, DoesNotStop,
       Killed, OwnerServes, HealthChanges, OwnerExits, ReusePid
<1>3. ServiceNext => (overlapped => overlapped') /\ abandoned \subseteq abandoned'
  BY <1>1, <1>2
<1> QED  BY <1>3 DEF Unmarked

(* The cameras are held once, and while nothing was lost through the socket. *)
LEMMA SocketKept ==
  ASSUME ServiceInv, ServiceNext
  PROVE  OneHolder' /\ OwnerReachable'
<1> USE DEF Holding
<1>1. /\ phase \in [Pids -> {"free", "stranger"} \cup OwnerPhases]
      /\ OneHolder
      /\ ~Unmarked' => ~Unmarked /\ (\A q \in Pids : phase[q] \in Holding => path)
  BY UnmarkedStays DEF ServiceInv, ServiceTypes, OwnerReachable, Unmarked
<1>2. SUFFICES OneHolder' /\ (~Unmarked' => \A q \in Pids : phase'[q] \in Holding => path')
  BY DEF OwnerReachable, Unmarked
<1>3. CASE phase' = phase /\ path' = path
  BY <1>1, <1>3 DEF OneHolder
<1>4. ASSUME NEW c \in Calls, Unlink(c) \/ ExitedDuringStartup(c) \/ StopEnds(c) \/ Stopped(c)
      PROVE  OneHolder' /\ (~Unmarked' => \A q \in Pids : phase'[q] \in Holding => path')
  <2>1. phase' = phase
    BY <1>4 DEF Unlink, ExitedDuringStartup, StopEnds, Stopped
  <2>2. ASSUME ~Unmarked, NEW q \in Pids, phase[q] \in Holding, path' # path  PROVE FALSE
    <3>1. at[c] \notin {"idle", "mark"}
      BY <1>4 DEF Unlink, ExitedDuringStartup, StopEnds, Stopped
    <3>2. Runs(marker)
      BY <2>2, <3>1, OnlyMarkedRuns DEF OwnerPhases
    <3>3. MarkerCurrent
      BY <2>2 DEF ServiceInv, Unmarked
    <3>4. CASE Unlink(c)
      BY <3>2, <3>3, <3>4 DEF Unlink, MarkerCurrent, Replacing, Runs
    <3>5. CASE ExitedDuringStartup(c)
      BY <3>2, <3>3, <3>5 DEF ExitedDuringStartup, MarkerCurrent
    <3>6. CASE StopEnds(c)
      BY <3>2, <3>3, <3>6 DEF StopEnds, MarkerCurrent, MarkerRead, Alive, Runs
    <3>7. CASE Stopped(c)
      BY <3>2, <3>3, <3>7 DEF Stopped, MarkerCurrent, Ending, Alive
    <3> QED  BY <1>4, <3>4, <3>5, <3>6, <3>7
  <2> QED  BY <1>1, <2>1, <2>2 DEF OneHolder
<1>5. ASSUME NEW p \in Pids, OwnerServes(p)
      PROVE  OneHolder' /\ (~Unmarked' => \A q \in Pids : phase'[q] \in Holding => path')
  BY <1>1, <1>5 DEF OwnerServes, Endpoint, OneHolder
<1>6. ASSUME NEW p \in Pids, HealthChanges(p)
      PROVE  OneHolder' /\ (~Unmarked' => \A q \in Pids : phase'[q] \in Holding => path')
  BY <1>1, <1>6 DEF HealthChanges, OneHolder
<1>7. ASSUME NEW p \in Pids, NEW clean \in BOOLEAN, OwnerExits(p, clean)
      PROVE  OneHolder' /\ (~Unmarked' => \A q \in Pids : phase'[q] \in Holding => path')
  <2>1. /\ phase' = [phase EXCEPT ![p] = "free"]
        /\ phase[p] = "starting" \/ phase[p] \in Holding
        /\ phase[p] = "starting" => (path => path')
    <3>1. phase[p] = "starting" => (path => path')
      BY <1>7, Zenon DEF OwnerExits
    <3> QED  BY <1>7, <3>1 DEF OwnerExits
  <2>2. \A q \in Pids : phase'[q] \in Holding => q # p /\ phase[q] \in Holding
    BY <1>1, <2>1
  <2>3. OneHolder'
    BY <1>1, <2>2 DEF OneHolder
  <2>4. ASSUME NEW q \in Pids, phase'[q] \in Holding  PROVE path => path'
    BY <1>1, <2>1, <2>2, <2>4 DEF OneHolder
  <2> QED  BY <1>1, <2>2, <2>3, <2>4
<1>8. ASSUME path' = path, NEW p \in Pids, NEW to \in {"starting", "stranger"}, GivenAway(p, to)
      PROVE  OneHolder' /\ (~Unmarked' => \A q \in Pids : phase'[q] \in Holding => path')
  <2>1. \A q \in Pids : phase'[q] \in Holding => phase[q] \in Holding
    BY <1>1, <1>8 DEF GivenAway
  <2> QED  BY <1>1, <1>8, <2>1 DEF OneHolder
<1> QED  BY <1>3, <1>4, <1>5, <1>6, <1>7, <1>8, PathSteps

(* The invariant holds in every state.                                       *)
THEOREM ServiceInvariant == ServiceSpec => []ServiceInv
<1>1. ASSUME ServiceInv, [ServiceNext]_serviceVars PROVE ServiceInv'
  <2>1. CASE ServiceNext
    <3>1. ServiceTypes' /\ OneHolder' /\ OwnerReachable'
      BY <1>1, <2>1, ServiceTypesKept, SocketKept DEF ServiceInv
    <3>2. ~overlapped' => OneCall' /\ MarkerCurrent'
      BY <1>1, <2>1, MarkerKept DEF ServiceInv
    <3>3. OwnerStaysMarked'
      BY <1>1, <2>1, <3>1, OwnersKept DEF ServiceInv
    <3> QED  BY <3>1, <3>2, <3>3 DEF ServiceInv
  <2>2. CASE UNCHANGED serviceVars
    BY <1>1, <2>2 DEF ServiceInv, ServiceTypes, OneHolder, OwnerReachable, OneCall,
       MarkerCurrent, OwnerStaysMarked, serviceVars, ownerVars, callVarsOf
  <2> QED  BY <1>1, <2>1, <2>2
<1> QED  BY <1>1, ServiceInitInv, PTL DEF ServiceSpec

(* While no calls overlap, and none was killed before it could mark what it  *)
(* started, the process that holds the cameras keeps its socket, whatever    *)
(* owners exit, hang or come back under an id used before (start, stop).     *)
THEOREM OwnersReachable == ServiceSpec => []OwnerReachable
<1>1. ServiceInv => OwnerReachable
  BY DEF ServiceInv
<1> QED  BY <1>1, ServiceInvariant, PTL

(* While calls do not overlap, every running camera owner is the marked one, *)
(* or was started by a call that was killed before it wrote the marker.      *)
THEOREM OwnersMarked == ServiceSpec => []OwnerStaysMarked
<1>1. ServiceInv => OwnerStaysMarked
  BY DEF ServiceInv
<1> QED  BY <1>1, ServiceInvariant, PTL
-----------------------------------------------------------------------------
(* The diagnostic of the right follower.  A child whose disable was seen in  *)
(* its output has disabled motors and does not enable them again.            *)
Off == ~energised /\ child \in {"finalizing", "exited", "killed"}

Lines ==
  {"none", "running", "disabled", "not_enabled", "completed", "baseline", "awaiting_attach",
   "loaded", "awaiting_remove", "empty_after", "complete", "settling_loaded",
   "settling_empty_after"}
Answered == {"attach", "remove"}

FollowerTypes ==
  /\ mode \in {"hold", "sweep", "paired"} /\ which \in {"none", "disable", mode}
  /\ place \in {"lock", "preflight", "configured", "supervising", "raising", "judging",
                "unverified", "down", "unlock", "report", "over", "dead"}
  /\ child \in {"starting", "arming", "running", "disabling", "finalizing", "failing"} \cup Gone
  /\ sweep \in [at : 1 .. 6, settling : BOOLEAN]
  /\ DOMAIN outcome = {"mayBeEnabled", "confirmed", "success", "error"}
  /\ pipe \in Seq(Lines) /\ heard \in [phase : Lines, disabled : BOOLEAN]
  /\ sent \in Seq(Answered)

(* A line is written of what is so by then, and stays so for this child.     *)
LineTrue(line) ==
  /\ line = "awaiting_attach" => sweep.at >= 2
  /\ line = "awaiting_remove" => sweep.at >= 4
  /\ line = "disabled" => Off
LinesTrue ==
  /\ \A i \in 1 .. Len(pipe) : LineTrue(pipe[i])
  /\ LineTrue(heard.phase) /\ (heard.disabled => Off)

(* The supervisor's places, and the child's beside them.                     *)
PlacesAgree ==
  /\ place \in {"lock", "preflight", "configured"} => sent = <<>>
  /\ place \in {"supervising", "raising", "judging"} => which # "none"
  /\ place \in {"supervising", "raising", "dead"} \/ child \in Gone
  /\ child \in Gone \/ "child" \in holders

(* What was sent is what was asked for, and one sweep goes with each.        *)
SweepAgrees ==
  /\ sweep.settling => sweep.at \in Waits
  /\ which # "paired" => sweep.at = 1
  /\ which = "paired" =>
       /\ "attach" \in ToSet(sent) => "attach" \in DOMAIN requests
       /\ "attach" \notin ToSet(sent) =>
            sweep.at <= 2 /\ ~sweep.settling /\ "advance" \notin signals
       /\ "remove" \in ToSet(sent) => "remove" \in DOMAIN requests /\ sweep.at >= 4
       /\ "remove" \notin ToSet(sent) =>
            sweep.at <= 4 /\ (sweep.at = 4 => ~sweep.settling /\ "advance" \notin signals)
       /\ "advance" \in signals => sweep.at \in Waits /\ ~sweep.settling

(* The verdict, and what it is drawn from.                                   *)
VerdictAgrees ==
  /\ which = "paired" /\ outcome.success => sweep.at = 6
  /\ verified => Off /\ child \in Gone /\ place \in {"down", "unlock", "report", "over", "dead"}
  /\ verdict = "passed" =>
       /\ verified /\ (mode = "paired" => which = "paired" /\ sweep.at = 6)
       /\ place \in {"unlock", "report", "over"} => ~linkUp

FollowerInv == FollowerTypes /\ LinesTrue /\ PlacesAgree /\ SweepAgrees /\ VerdictAgrees

(* An empty pipe, and nothing sent.                                          *)
LEMMA NoLines ==
  <<>> \in Seq(Lines) /\ <<>> \in Seq(Answered) /\ Len(<<>>) = 0 /\ ToSet(<<>>) = {}
BY EmptySeq DEF ToSet

(* Nothing runs and nothing was heard.                                       *)
LEMMA FollowerInitInv == FollowerInit => FollowerInv
<1> SUFFICES ASSUME FollowerInit PROVE FollowerInv
  OBVIOUS
<1> USE DEF FollowerInit, NothingHeard, Fresh, Gone
<1>1. FollowerTypes
  BY NoLines, FollowerAssumption DEF FollowerTypes, Lines
<1>2. LinesTrue
  BY NoLines DEF LinesTrue, LineTrue
<1>3. PlacesAgree
  BY DEF PlacesAgree
<1>4. SweepAgrees
  BY DEF SweepAgrees
<1>5. VerdictAgrees
  BY DEF VerdictAgrees
<1> QED  BY <1>1, <1>2, <1>3, <1>4, <1>5 DEF FollowerInv

(* The names of the phases.                                                  *)
LEMMA PhaseNames ==
  /\ \A p \in 1 .. 6 :
       /\ Phases[p] \in Lines /\ Phases[p] # "disabled"
       /\ Phases[p] = "awaiting_attach" => p = 2
       /\ Phases[p] = "awaiting_remove" => p = 4
  /\ \A p \in Waits :
       /\ SettlingName[p] \in Lines
       /\ SettlingName[p] \notin {"disabled", "awaiting_attach", "awaiting_remove"}
<1>1. ASSUME NEW p \in 1 .. 6
      PROVE  /\ Phases[p] \in Lines /\ Phases[p] # "disabled"
             /\ Phases[p] = "awaiting_attach" => p = 2
             /\ Phases[p] = "awaiting_remove" => p = 4
  <2>1. /\ Phases[1] = "baseline" /\ Phases[2] = "awaiting_attach" /\ Phases[3] = "loaded"
        /\ Phases[4] = "awaiting_remove" /\ Phases[5] = "empty_after" /\ Phases[6] = "complete"
    BY DEF Phases
  <2> QED  BY <2>1 DEF Lines
<1>2. ASSUME NEW p \in Waits
      PROVE  /\ SettlingName[p] \in Lines
             /\ SettlingName[p] \notin {"disabled", "awaiting_attach", "awaiting_remove"}
  BY DEF Waits, SettlingName, Lines
<1> QED  BY <1>1, <1>2

(* What the child writes is added to the pipe.                               *)
LEMMA LineTold ==
  ASSUME FollowerTypes, NEW line \in Lines, Tells(line)
  PROVE  /\ pipe' \in Seq(Lines)
         /\ \A i \in 1 .. Len(pipe') :
              pipe'[i] = line \/ (i \in 1 .. Len(pipe) /\ pipe'[i] = pipe[i])
<1>1. CASE place = "dead"
  BY <1>1 DEF FollowerTypes, Tells
<1>2. CASE place # "dead"
  <2>1. pipe \in Seq(Lines) /\ pipe' = Append(pipe, line)
    BY <1>2 DEF FollowerTypes, Tells
  <2>2. /\ Append(pipe, line) \in Seq(Lines) /\ Len(Append(pipe, line)) = Len(pipe) + 1
        /\ \A i \in 1 .. Len(pipe) : Append(pipe, line)[i] = pipe[i]
        /\ Append(pipe, line)[Len(pipe) + 1] = line
    BY <2>1, AppendProperties
  <2> QED  BY <2>1, <2>2
<1> QED  BY <1>1, <1>2

(* A line that is so when it is written leaves the pipe true.                *)
LEMMA LinesAdded ==
  ASSUME FollowerTypes, LinesTrue, NEW line \in Lines, Tells(line), LineTrue(line)',
         UNCHANGED heard, sweep' \in [at : 1 .. 6, settling : BOOLEAN], sweep'.at >= sweep.at,
         Off => Off'
  PROVE  LinesTrue' /\ pipe' \in Seq(Lines)
BY LineTold DEF LinesTrue, LineTrue, FollowerTypes

(* A step of the sweep tells the phase it comes to.                          *)
LEMMA StepTold ==
  ASSUME FollowerTypes, LinesTrue, Steps(sweep'), sweep' \in [at : 1 .. 6, settling : BOOLEAN],
         sweep'.settling => sweep'.at \in Waits, sweep'.at >= sweep.at,
         UNCHANGED heard, Off => Off'
  PROVE  LinesTrue' /\ pipe' \in Seq(Lines)
<1> DEFINE name == IF sweep'.settling THEN SettlingName[sweep'.at] ELSE Phases[sweep'.at]
<1>1. PICK line \in Lines : line = name /\ Tells(line)
  BY PhaseNames DEF Steps
<1>2. LineTrue(line)'
  BY <1>1, PhaseNames DEF LineTrue
<1> QED  BY <1>1, <1>2, LinesAdded

(* What the supervisor has heard is what it had heard, or a line of the pipe.*)
LEMMA LinesRead ==
  ASSUME FollowerTypes, LinesTrue, ReadLines
  PROVE  /\ pipe' = <<>> /\ pipe' \in Seq(Lines) /\ Len(pipe') = 0
         /\ heard' \in [phase : Lines, disabled : BOOLEAN]
         /\ LineTrue(heard'.phase) /\ (heard'.disabled => Off)
<1>1. pipe' = <<>> /\ pipe' \in Seq(Lines) /\ Len(pipe') = 0
  BY EmptySeq DEF ReadLines
<1>2. LastPhase = 0 \/ LastPhase \in 1 .. Len(pipe)
  <2> DEFINE I == {i \in 1 .. Len(pipe) : IsPhase(pipe[i])}
  <2>1. Len(pipe) \in Nat /\ I \subseteq 1 .. Len(pipe)
    BY DEF FollowerTypes
  <2>2. LastPhase = IF I # {} THEN Max(I) ELSE 0
    BY DEF LastPhase, SelectLastInSeq
  <2> HIDE DEF I
  <2> QED  BY <2>1, <2>2, MaxOf
<1>3. heard'.phase = heard.phase \/ \E i \in 1 .. Len(pipe) : heard'.phase = pipe[i]
  BY <1>2 DEF ReadLines
<1>4. /\ heard'.disabled \in BOOLEAN
      /\ heard'.disabled => heard.disabled \/ \E i \in 1 .. Len(pipe) : pipe[i] = "disabled"
  BY DEF ReadLines, Contains
<1>5. heard'.phase \in Lines
  BY <1>3 DEF FollowerTypes
<1>6. heard' = [phase |-> heard'.phase, disabled |-> heard'.disabled]
  BY DEF ReadLines
<1> QED
  BY <1>1, <1>3, <1>4, <1>5, <1>6 DEF LinesTrue, LineTrue

(* A step of the native process.                                             *)
LEMMA ChildKeeps ==
  ASSUME FollowerInv, Child
  PROVE  FollowerInv'
<1> USE DEF childVars, parentVars, Gone, Native
<1>1. CASE Faults
  <2>1. FollowerTypes'
    BY <1>1 DEF FollowerInv, FollowerTypes, SweepAgrees, Waits, Faults
  <2>2. LinesTrue'
    BY <1>1 DEF FollowerInv, FollowerTypes, SweepAgrees, Waits, LinesTrue, LineTrue, Off, Faults
  <2>3. PlacesAgree'
    BY <1>1 DEF FollowerInv, FollowerTypes, PlacesAgree, Faults
  <2>4. SweepAgrees'
    BY <1>1 DEF FollowerInv, FollowerTypes, SweepAgrees, Waits, Faults
  <2>5. VerdictAgrees'
    BY <1>1 DEF FollowerInv, FollowerTypes, PlacesAgree, VerdictAgrees, SweepAgrees, Waits,
       Off, Faults
  <2> QED  BY <2>1, <2>2, <2>3, <2>4, <2>5 DEF FollowerInv
<1>2. CASE StartupFails
  <2>1. FollowerTypes'
    BY <1>2 DEF FollowerInv, FollowerTypes, SweepAgrees, Waits, StartupFails
  <2>2. LinesTrue'
    BY <1>2 DEF FollowerInv, FollowerTypes, SweepAgrees, Waits, LinesTrue, LineTrue, Off,
       StartupFails
  <2>3. PlacesAgree'
    BY <1>2 DEF FollowerInv, FollowerTypes, PlacesAgree, StartupFails
  <2>4. SweepAgrees'
    BY <1>2 DEF FollowerInv, FollowerTypes, SweepAgrees, Waits, StartupFails
  <2>5. VerdictAgrees'
    BY <1>2 DEF FollowerInv, FollowerTypes, PlacesAgree, VerdictAgrees, SweepAgrees, Waits,
       Off, StartupFails
  <2> QED  BY <2>1, <2>2, <2>3, <2>4, <2>5 DEF FollowerInv
<1>3. CASE Arm
  <2>1. FollowerTypes'
    BY <1>3 DEF FollowerInv, FollowerTypes, SweepAgrees, Waits, Arm
  <2>2. LinesTrue'
    BY <1>3 DEF FollowerInv, FollowerTypes, SweepAgrees, Waits, LinesTrue, LineTrue, Off, Arm
  <2>3. PlacesAgree'
    BY <1>3 DEF FollowerInv, FollowerTypes, PlacesAgree, Arm
  <2>4. SweepAgrees'
    BY <1>3 DEF FollowerInv, FollowerTypes, SweepAgrees, Waits, Arm
  <2>5. VerdictAgrees'
    BY <1>3 DEF FollowerInv, FollowerTypes, PlacesAgree, VerdictAgrees, SweepAgrees, Waits,
       Off, Arm
  <2> QED  BY <2>1, <2>2, <2>3, <2>4, <2>5 DEF FollowerInv
<1>4. CASE Run
  <2>6. PICK line \in Lines : Tells(line) /\ LineTrue(line)'
    BY <1>4 DEF Run, LineTrue, Lines
  <2>7. UNCHANGED <<heard, sweep>> /\ (Off => Off')
    BY <1>4 DEF Run, Off
  <2>2. LinesTrue' /\ pipe' \in Seq(Lines)
    BY <2>6, <2>7, LinesAdded DEF FollowerInv, FollowerTypes
  <2>1. FollowerTypes'
    BY <1>4, <2>2 DEF FollowerInv, FollowerTypes, Run
  <2>3. PlacesAgree'
    BY <1>4 DEF FollowerInv, FollowerTypes, PlacesAgree, Run
  <2>4. SweepAgrees'
    BY <1>4 DEF FollowerInv, FollowerTypes, SweepAgrees, Waits, Run
  <2>5. VerdictAgrees'
    BY <1>4 DEF FollowerInv, FollowerTypes, PlacesAgree, VerdictAgrees, SweepAgrees, Waits,
       Off, Run
  <2> QED  BY <2>1, <2>2, <2>3, <2>4, <2>5 DEF FollowerInv
<1>5. CASE DisableOnly
  <2>1. FollowerTypes'
    BY <1>5 DEF FollowerInv, FollowerTypes, SweepAgrees, Waits, DisableOnly
  <2>2. LinesTrue'
    BY <1>5 DEF FollowerInv, FollowerTypes, SweepAgrees, Waits, LinesTrue, LineTrue, Off,
       DisableOnly
  <2>3. PlacesAgree'
    BY <1>5 DEF FollowerInv, FollowerTypes, PlacesAgree, DisableOnly
  <2>4. SweepAgrees'
    BY <1>5 DEF FollowerInv, FollowerTypes, SweepAgrees, Waits, DisableOnly
  <2>5. VerdictAgrees'
    BY <1>5 DEF FollowerInv, FollowerTypes, PlacesAgree, VerdictAgrees, SweepAgrees, Waits,
       Off, DisableOnly
  <2> QED  BY <2>1, <2>2, <2>3, <2>4, <2>5 DEF FollowerInv
<1>6. CASE RunsOut
  <2>1. FollowerTypes'
    BY <1>6 DEF FollowerInv, FollowerTypes, SweepAgrees, Waits, RunsOut, Completed
  <2>2. LinesTrue'
    BY <1>6 DEF FollowerInv, FollowerTypes, SweepAgrees, Waits, LinesTrue, LineTrue, Off,
       RunsOut, Completed
  <2>3. PlacesAgree'
    BY <1>6 DEF FollowerInv, FollowerTypes, PlacesAgree, RunsOut, Completed
  <2>4. SweepAgrees'
    BY <1>6 DEF FollowerInv, FollowerTypes, SweepAgrees, Waits, RunsOut, Completed
  <2>5. VerdictAgrees'
    BY <1>6 DEF FollowerInv, FollowerTypes, PlacesAgree, VerdictAgrees, SweepAgrees, Waits,
       Off, RunsOut, Completed
  <2> QED  BY <2>1, <2>2, <2>3, <2>4, <2>5 DEF FollowerInv
<1>7. CASE Advances
  <2>6. ASSUME sweep.at \in Waits /\ ~sweep.settling
        PROVE  LinesTrue' /\ pipe' \in Seq(Lines) /\ sweep' \in [at : 1 .. 6, settling : BOOLEAN]
    <3>1. /\ Steps(sweep') /\ sweep' \in [at : 1 .. 6, settling : BOOLEAN]
          /\ sweep'.settling => sweep'.at \in Waits
          /\ sweep'.at >= sweep.at /\ UNCHANGED heard /\ (Off => Off')
      BY <1>7, <2>6, FollowerAssumption DEF FollowerInv, FollowerTypes, Waits, Advances, Steps,
         Off
    <3>2. LinesTrue' /\ pipe' \in Seq(Lines)
      BY <3>1, StepTold DEF FollowerInv
    <3> QED  BY <3>1, <3>2
  <2>7. ASSUME ~(sweep.at \in Waits /\ ~sweep.settling)
        PROVE  LinesTrue' /\ pipe' \in Seq(Lines) /\ sweep' \in [at : 1 .. 6, settling : BOOLEAN]
    BY <1>7, <2>7 DEF FollowerInv, FollowerTypes, LinesTrue, LineTrue, Off, Advances
  <2>1. FollowerTypes'
    BY <1>7, <2>6, <2>7 DEF FollowerInv, FollowerTypes, Advances
  <2>2. LinesTrue'
    BY <1>7, <2>6, <2>7 DEF FollowerInv, FollowerTypes, Advances
  <2>3. PlacesAgree'
    BY <1>7 DEF FollowerInv, FollowerTypes, PlacesAgree, Advances, Steps
  <2>4. SweepAgrees'
    BY <1>7 DEF FollowerInv, FollowerTypes, SweepAgrees, Waits, Advances, Steps
  <2>5. VerdictAgrees'
    BY <1>7 DEF FollowerInv, FollowerTypes, PlacesAgree, VerdictAgrees, SweepAgrees, Waits,
       Off, Advances, Steps
  <2> QED  BY <2>1, <2>2, <2>3, <2>4, <2>5 DEF FollowerInv
<1>8. CASE Settles
  <2>6. /\ Steps(sweep') /\ sweep' \in [at : 1 .. 6, settling : BOOLEAN]
        /\ ~sweep'.settling /\ sweep'.at >= sweep.at /\ UNCHANGED heard /\ (Off => Off')
    BY <1>8 DEF FollowerInv, FollowerTypes, SweepAgrees, Waits, Settles, Steps, Off
  <2>2. LinesTrue' /\ pipe' \in Seq(Lines)
    BY <2>6, StepTold DEF FollowerInv
  <2>1. FollowerTypes'
    BY <1>8, <2>2, <2>6 DEF FollowerInv, FollowerTypes, Settles
  <2>3. PlacesAgree'
    BY <1>8 DEF FollowerInv, FollowerTypes, PlacesAgree, Settles, Steps
  <2>4. SweepAgrees'
    BY <1>8 DEF FollowerInv, FollowerTypes, SweepAgrees, Waits, Settles, Steps
  <2>5. VerdictAgrees'
    BY <1>8 DEF FollowerInv, FollowerTypes, PlacesAgree, VerdictAgrees, SweepAgrees, Waits,
       Off, Settles, Steps
  <2> QED  BY <2>1, <2>2, <2>3, <2>4, <2>5 DEF FollowerInv
<1>9. CASE SweepEnds
  <2>6. /\ Steps(sweep') /\ sweep' \in [at : 1 .. 6, settling : BOOLEAN]
        /\ ~sweep'.settling /\ sweep'.at >= sweep.at /\ UNCHANGED heard /\ (Off => Off')
    BY <1>9 DEF FollowerInv, FollowerTypes, SweepAgrees, Waits, SweepEnds, Steps, Off
  <2>2. LinesTrue' /\ pipe' \in Seq(Lines)
    BY <2>6, StepTold DEF FollowerInv
  <2>1. FollowerTypes'
    BY <1>9, <2>2, <2>6 DEF FollowerInv, FollowerTypes, SweepEnds, Completed
  <2>3. PlacesAgree'
    BY <1>9 DEF FollowerInv, FollowerTypes, PlacesAgree, SweepEnds, Completed, Steps
  <2>4. SweepAgrees'
    BY <1>9 DEF FollowerInv, FollowerTypes, SweepAgrees, Waits, SweepEnds, Completed, Steps
  <2>5. VerdictAgrees'
    BY <1>9 DEF FollowerInv, FollowerTypes, PlacesAgree, VerdictAgrees, SweepAgrees, Waits,
       Off, SweepEnds, Completed, Steps
  <2> QED  BY <2>1, <2>2, <2>3, <2>4, <2>5 DEF FollowerInv
<1>10. CASE Disable
  <2>6. PICK line \in Lines : Tells(line) /\ LineTrue(line)'
    BY <1>10 DEF Disable, LineTrue, Off, Lines
  <2>7. UNCHANGED <<heard, sweep>> /\ (Off => Off')
    BY <1>10 DEF Disable, Off
  <2>2. LinesTrue' /\ pipe' \in Seq(Lines)
    BY <2>6, <2>7, LinesAdded DEF FollowerInv, FollowerTypes
  <2>1. FollowerTypes'
    BY <1>10, <2>2 DEF FollowerInv, FollowerTypes, Disable
  <2>3. PlacesAgree'
    BY <1>10 DEF FollowerInv, FollowerTypes, PlacesAgree, Disable
  <2>4. SweepAgrees'
    BY <1>10 DEF FollowerInv, FollowerTypes, SweepAgrees, Waits, Disable
  <2>5. VerdictAgrees'
    BY <1>10 DEF FollowerInv, FollowerTypes, PlacesAgree, VerdictAgrees, SweepAgrees, Waits,
       Off, Disable
  <2> QED  BY <2>1, <2>2, <2>3, <2>4, <2>5 DEF FollowerInv
<1>11. CASE DisableFails
  <2>1. FollowerTypes'
    BY <1>11 DEF FollowerInv, FollowerTypes, SweepAgrees, Waits, DisableFails
  <2>2. LinesTrue'
    BY <1>11 DEF FollowerInv, FollowerTypes, SweepAgrees, Waits, LinesTrue, LineTrue, Off,
       DisableFails
  <2>3. PlacesAgree'
    BY <1>11 DEF FollowerInv, FollowerTypes, PlacesAgree, DisableFails
  <2>4. SweepAgrees'
    BY <1>11 DEF FollowerInv, FollowerTypes, SweepAgrees, Waits, DisableFails
  <2>5. VerdictAgrees'
    BY <1>11 DEF FollowerInv, FollowerTypes, PlacesAgree, VerdictAgrees, SweepAgrees, Waits,
       Off, DisableFails
  <2> QED  BY <2>1, <2>2, <2>3, <2>4, <2>5 DEF FollowerInv
<1>12. CASE Exits
  <2>6. PICK line \in Lines : (Tells(line) \/ pipe' = pipe) /\ LineTrue(line)'
    BY <1>12 DEF Exits, LineTrue, Lines
  <2>7. UNCHANGED <<heard, sweep>> /\ (Off => Off')
    BY <1>12 DEF Exits, Off
  <2>2. LinesTrue' /\ pipe' \in Seq(Lines)
    <3>1. CASE Tells(line)
      BY <2>6, <2>7, <3>1, LinesAdded DEF FollowerInv, FollowerTypes
    <3>2. CASE pipe' = pipe
      BY <2>7, <3>2 DEF FollowerInv, FollowerTypes, LinesTrue, LineTrue
    <3> QED  BY <2>6, <3>1, <3>2
  <2>1. FollowerTypes'
    BY <1>12, <2>2 DEF FollowerInv, FollowerTypes, Exits
  <2>3. PlacesAgree'
    BY <1>12 DEF FollowerInv, FollowerTypes, PlacesAgree, Exits
  <2>4. SweepAgrees'
    BY <1>12 DEF FollowerInv, FollowerTypes, SweepAgrees, Waits, Exits
  <2>5. VerdictAgrees'
    BY <1>12 DEF FollowerInv, FollowerTypes, PlacesAgree, VerdictAgrees, SweepAgrees, Waits,
       Off, Exits
  <2> QED  BY <2>1, <2>2, <2>3, <2>4, <2>5 DEF FollowerInv
<1>13. CASE ExitsAtOnce
  <2>1. FollowerTypes'
    BY <1>13 DEF FollowerInv, FollowerTypes, SweepAgrees, Waits, ExitsAtOnce
  <2>2. LinesTrue'
    BY <1>13 DEF FollowerInv, FollowerTypes, SweepAgrees, Waits, LinesTrue, LineTrue, Off,
       ExitsAtOnce
  <2>3. PlacesAgree'
    BY <1>13 DEF FollowerInv, FollowerTypes, PlacesAgree, ExitsAtOnce
  <2>4. SweepAgrees'
    BY <1>13 DEF FollowerInv, FollowerTypes, SweepAgrees, Waits, ExitsAtOnce
  <2>5. VerdictAgrees'
    BY <1>13 DEF FollowerInv, FollowerTypes, PlacesAgree, VerdictAgrees, SweepAgrees, Waits,
       Off, ExitsAtOnce
  <2> QED  BY <2>1, <2>2, <2>3, <2>4, <2>5 DEF FollowerInv
<1> QED  BY <1>1, <1>2, <1>3, <1>4, <1>5, <1>6, <1>7, <1>8, <1>9, <1>10, <1>11, <1>12,
   <1>13 DEF Child

(* A step of the supervisor.                                                 *)
LEMMA SupervisorKeeps ==
  ASSUME FollowerInv, Supervisor
  PROVE  FollowerInv'
<1> USE DEF FollowerInv, FollowerTypes, LinesTrue, LineTrue, Off, PlacesAgree, SweepAgrees,
   VerdictAgrees,
      childVars, parentVars, worldVars, Gone, Waits
<1>1. CASE AcquireLock
  BY <1>1 DEF AcquireLock, LockTakenBy
<1>2. CASE PreflightFails
  BY <1>2 DEF PreflightFails
<1>3. CASE ConfigureLink
  BY <1>3 DEF ConfigureLink
<1>4. CASE Enable
  BY <1>4, NoLines DEF Enable, StartChild, LockTakenBy, Fresh, NothingHeard, Lines
<1>5. CASE SuperviseRaises
  BY <1>5 DEF SuperviseRaises, Supervises
<1>6. CASE FailChild
  BY <1>6 DEF FailChild, Supervises
<1>7. CASE ReadsPipe
  BY <1>7, LinesRead DEF ReadsPipe, Supervises
<1>8. CASE KillsChild
  BY <1>8 DEF KillsChild
<1>9. CASE ChildEnded
  BY <1>9, LinesRead DEF ChildEnded
<1>10. CASE ChildReaped
  BY <1>10 DEF ChildReaped
<1>11. CASE Judge
  BY <1>11 DEF Judge, DisableSeen
<1>12. CASE CleanUp
  BY <1>12, NoLines DEF CleanUp, StartChild, LockTakenBy, Fresh, NothingHeard, Lines
<1>13. CASE JudgeCleanUp
  BY <1>13 DEF JudgeCleanUp
<1>14. CASE LinkDown
  BY <1>14 DEF LinkDown
<1>15. CASE Unlock
  BY <1>15 DEF Unlock
<1>16. CASE Review
  BY <1>16 DEF Review
<1>17. CASE NextStage
  BY <1>17, NoLines DEF NextStage, NothingHeard, Lines
<1>18. ASSUME NEW name \in {"attach", "remove"}, Acknowledge(name) PROVE FollowerInv'
  <2>1. /\ which = "paired" /\ name \in DOMAIN requests /\ heard.phase = Acknowledged[name]
        /\ child \notin Gone /\ place = "supervising" /\ name \notin ToSet(sent)
        /\ signals' = signals \cup {"advance"} /\ sent' = Append(sent, name)
    BY <1>18 DEF Acknowledge, Supervises, Due, Premature
  <2>2. UNCHANGED <<childVars, mode, which, verified, verdict, worldVars, pipe, heard, place>>
    BY <1>18 DEF Acknowledge, Supervises
  <2>3. sent' \in Seq(Answered) /\ ToSet(sent') = ToSet(sent) \cup {name}
    <3>1. name \in Answered /\ sent \in Seq(Answered)
      BY DEF Answered
    <3> QED  BY <2>1, <3>1, SetOfAppend
  <2>4. name = "attach" => sweep.at = 2
    BY <2>1 DEF Acknowledged
  <2>5. name = "remove" => sweep.at = 4 /\ "attach" \in ToSet(sent)
    BY <2>1 DEF Acknowledged
  <2>6. FollowerTypes' /\ LinesTrue' /\ PlacesAgree' /\ VerdictAgrees'
    BY <2>1, <2>2, <2>3
  <2>7. SweepAgrees'
    BY <2>1, <2>2, <2>3, <2>4, <2>5
  <2> QED  BY <2>6, <2>7
<1> QED  BY <1>1, <1>2, <1>3, <1>4, <1>5, <1>6, <1>7, <1>8, <1>9, <1>10, <1>11, <1>12, <1>13,
   <1>14, <1>15, <1>16, <1>17, <1>18 DEF Supervisor

(* A step of the operator, or the end of a process.                          *)
LEMMA WorldKeeps ==
  ASSUME FollowerInv,
         \/ AsksStop \/ KillChild \/ KillSupervisor
         \/ \E name \in {"attach", "remove"}, body \in {"good", "bad"} : Places(name, body)
  PROVE  FollowerInv'
<1> USE DEF FollowerInv, FollowerTypes, LinesTrue, LineTrue, Off, PlacesAgree, SweepAgrees,
   VerdictAgrees,
      childVars, parentVars, worldVars, Gone, Waits
<1>1. CASE AsksStop
  BY <1>1 DEF AsksStop
<1>2. CASE KillChild
  BY <1>2 DEF KillChild
<1>3. CASE KillSupervisor
  BY <1>3, NoLines DEF KillSupervisor
<1>4. ASSUME NEW name \in {"attach", "remove"}, NEW body \in {"good", "bad"}, Places(name, body)
      PROVE  FollowerInv'
  BY <1>4 DEF Places
<1> QED  BY <1>1, <1>2, <1>3, <1>4

(* The diagnostic keeps its places, its phases and its verdict in agreement, *)
(* through any failure, signal or death of the supervisor.                   *)
THEOREM FollowerInvariant == FollowerSpec => []FollowerInv
<1>1. ASSUME FollowerInv, [FollowerNext]_followerVars PROVE FollowerInv'
  <2>1. CASE UNCHANGED followerVars
    BY <1>1, <2>1 DEF followerVars, FollowerInv, FollowerTypes, LinesTrue, LineTrue, Off,
       PlacesAgree, SweepAgrees, VerdictAgrees,
       childVars, parentVars, worldVars
  <2> QED  BY <1>1, <2>1, ChildKeeps, SupervisorKeeps, WorldKeeps DEF FollowerNext
<1> QED  BY <1>1, FollowerInitInv, PTL DEF FollowerSpec

(* The motors are enabled only under the lifecycle lock, or after the        *)
(* supervisor that held it was killed (automatic_follower.py).               *)
THEOREM FollowerEnabledUnderLock == FollowerSpec => []EnabledUnderLock
<1>1. FollowerInv => EnabledUnderLock
  BY DEF FollowerInv, PlacesAgree, EnabledUnderLock
<1> QED  BY <1>1, FollowerInvariant, PTL

(* A report that says passed is of a robot whose motors were seen disabled   *)
(* and whose link is DOWN.                                                   *)
THEOREM FollowerReportTruthful == FollowerSpec => []ReportTruthful
<1>1. FollowerInv => ReportTruthful
  BY DEF FollowerInv, PlacesAgree, VerdictAgrees, Off, ReportTruthful
<1> QED  BY <1>1, FollowerInvariant, PTL

(* The sweep under load starts only after a valid attach, the empty one only *)
(* after a valid remove (the runtime control files).                         *)
THEOREM FollowerSweepsAcknowledged == FollowerSpec => []SweepsAcknowledged
<1>1. FollowerInv => SweepsAcknowledged
  BY DEF FollowerInv, FollowerTypes, SweepAgrees, SweepsAcknowledged, Waits
<1> QED  BY <1>1, FollowerInvariant, PTL
-----------------------------------------------------------------------------
(* The feedback capture.  What it has brought UP it owns, under the lock: at *)
(* most the endpoint it is at, and none once every endpoint was passed.      *)
LinksOwned ==
  /\ up \subseteq owned
  /\ doing = "lock" => up = {}
  /\ doing \notin {"lock", "over"} => locked
  /\ cut => raising
  /\ doing \in {"lock", "checks", "configure"} => owned = {}
  /\ doing \in InTry => owned \subseteq {Interface}
  /\ doing \in {"unwinding", "cleanup"} /\ ~raising => owned = {}
  /\ doing = "over" /\ ~cut =>
       owned \subseteq leftUp /\ (saved /\ leftUp # {} => verdictOf = "failed")
  /\ doing = "over" /\ ~raising => owned = {} /\ saved

Numbers == Seq(Nat)
Entries ==
  [of : Nat, raw : [Motors -> Nat], sdk : [Motors -> Nat], late : SUBSET Motors]

CaptureTypes ==
  /\ round \in Nat /\ late \subseteq Motors
  /\ due \in [Motors -> Numbers] /\ raw \in [Motors -> Numbers] /\ sdk \in [Motors -> Numbers]
  /\ frames \in [Motors -> Nat] /\ counts \in [Motors -> Nat] /\ cached \in [Motors -> Nat]
  /\ evidence \in Seq(Entries)

(* From a motor with nothing under way when the round began all that is      *)
(* under way, waits in a socket or was drained is an answer to this round's  *)
(* refresh; what came at all came to the SDK's socket too, which is read     *)
(* only before the refresh is sent and once the round is over.               *)
AllOf(answers, n) == \A k \in DOMAIN answers : answers[k] = n
OwnAnswers(m) ==
  /\ AllOf(due[m], round) /\ AllOf(raw[m], round) /\ AllOf(sdk[m], round)
  /\ counts[m] > 0 => frames[m] = round
  /\ counts[m] > 0 \/ raw[m] # <<>> => sdk[m] # <<>>

RoundsAgree ==
  /\ doing \in {"drain", "refresh", "collect", "read"} => round \in 1 .. Rounds
  /\ doing = "refresh" =>
       \A m \in Motors : counts[m] = 0 /\ (m \notin late => due[m] = <<>> /\ raw[m] = <<>>)
  /\ doing \in {"collect", "read"} => \A m \in Motors \ late : OwnAnswers(m)
  /\ doing \in {"query", "reply"} => round > 0
  /\ doing = "query" => counts[Asked] = 0
  /\ doing = "reply" => counts[Asked] = 0 \/ (counts[Asked] = 1 /\ frames[Asked] = Register)

CaptureInv == CaptureTypes /\ LinksOwned /\ RoundsAgree /\ EvidencePaired

(* What is drained of numbers is numbers.                                    *)
LEMMA NumbersKept ==
  /\ <<>> \in Numbers
  /\ \A s \in Numbers : Len(s) \in Nat
  /\ \A s \in Numbers : s # <<>> => Head(s) \in Nat /\ Tail(s) \in Numbers /\ Last(s) \in Nat
  /\ \A s \in Numbers, n \in Nat :
       Append(s, n) \in Numbers /\ s \o <<n>> \in Numbers /\ s \o <<n, n>> \in Numbers
<1>1. ASSUME NEW s \in Numbers, s # <<>>
      PROVE  Head(s) \in Nat /\ Tail(s) \in Numbers /\ Last(s) \in Nat
  <2>1. Len(s) \in 1 .. Len(s)
    BY <1>1 DEF Numbers
  <2> QED  BY <1>1, <2>1, HeadTailProperties, ElementOfSeq DEF Numbers, Last
<1>2. ASSUME NEW s \in Numbers, NEW n \in Nat
      PROVE  Append(s, n) \in Numbers /\ s \o <<n>> \in Numbers /\ s \o <<n, n>> \in Numbers
  BY DEF Numbers
<1> QED  BY <1>1, <1>2, EmptySeq DEF Numbers

(* There is a motor to ask.                                                  *)
LEMMA AskedIsMotor == Asked \in Motors
BY CaptureAssumption DEF Asked

(* Sockets that hold answers to one request only.                            *)
LEMMA AllOfKept ==
  ASSUME NEW n \in Nat
  PROVE  /\ AllOf(<<>>, n) /\ AllOf(<<n>>, n) /\ AllOf(<<n, n>>, n)
         /\ \A s \in Numbers : s # <<>> /\ AllOf(s, n) =>
              Head(s) = n /\ AllOf(Tail(s), n) /\ Last(s) = n
         /\ \A s \in Numbers : AllOf(s, n) => AllOf(Append(s, n), n)
         /\ \A s \in Numbers : Append(s, n) # <<>>
<1>1. AllOf(<<>>, n) /\ AllOf(<<n>>, n) /\ AllOf(<<n, n>>, n)
  BY DEF AllOf
<1>2. ASSUME NEW s \in Numbers, s # <<>>, AllOf(s, n)
      PROVE  Head(s) = n /\ AllOf(Tail(s), n) /\ Last(s) = n
  <2>1. s \in Seq(Nat) /\ Len(s) \in Nat /\ Len(s) > 0 /\ DOMAIN s = 1 .. Len(s)
    BY <1>2, EmptySeq DEF Numbers
  <2>2. s[1] = n /\ s[Len(s)] = n /\ Head(s) = s[1]
    BY <1>2, <2>1 DEF AllOf
  <2>3. /\ Tail(s) \in Seq(Nat) /\ Len(Tail(s)) = Len(s) - 1
        /\ \A k \in 1 .. Len(Tail(s)) : Tail(s)[k] = s[k + 1]
    BY <2>1, HeadTailProperties, <1>2
  <2>4. DOMAIN Tail(s) = 1 .. Len(Tail(s))
    BY <2>3
  <2>5. ASSUME NEW k \in DOMAIN Tail(s) PROVE Tail(s)[k] = n
    <3>1. k \in 1 .. Len(Tail(s)) /\ k + 1 \in 1 .. Len(s)
      BY <2>1, <2>3, <2>4
    <3> QED  BY <2>1, <2>3, <3>1, <1>2 DEF AllOf
  <2> QED  BY <2>2, <2>5 DEF AllOf, Last
<1>3. ASSUME NEW s \in Numbers, AllOf(s, n) PROVE AllOf(Append(s, n), n)
  <2>1. s \in Seq(Nat) /\ Len(s) \in Nat /\ DOMAIN s = 1 .. Len(s)
    BY DEF Numbers
  <2>2. DOMAIN Append(s, n) = 1 .. Len(s) + 1 /\ Append(s, n)[Len(s) + 1] = n
    BY <2>1, AppendProperties
  <2>3. \A k \in 1 .. Len(s) : Append(s, n)[k] = s[k]
    BY <2>1, AppendProperties
  <2> QED  BY <1>3, <2>1, <2>2, <2>3 DEF AllOf
<1>4. ASSUME NEW s \in Numbers PROVE Append(s, n) # <<>>
  BY AppendProperties DEF Numbers
<1> QED  BY <1>1, <1>2, <1>3, <1>4

(* _drain: every answer is counted, and the last one kept.                   *)
LEMMA DrainCounts ==
  ASSUME CaptureTypes, DrainRaw
  PROVE  /\ raw' = Nothing /\ raw' \in [Motors -> Numbers]
         /\ frames' \in [Motors -> Nat] /\ counts' \in [Motors -> Nat]
         /\ \A m \in Motors :
              /\ raw[m] = <<>> => frames'[m] = frames[m] /\ counts'[m] = counts[m]
              /\ raw[m] # <<>> => frames'[m] = Last(raw[m])
<1>1. ASSUME NEW m \in Motors
      PROVE  /\ (IF raw[m] = <<>> THEN frames[m] ELSE Last(raw[m])) \in Nat
             /\ counts[m] + Len(raw[m]) \in Nat
  BY NumbersKept DEF CaptureTypes
<1>2. frames' \in [Motors -> Nat] /\ counts' \in [Motors -> Nat]
  BY <1>1 DEF DrainRaw
<1>3. raw' = Nothing /\ raw' \in [Motors -> Numbers]
  BY NumbersKept DEF DrainRaw, Nothing
<1>4. ASSUME NEW m \in Motors, raw[m] = <<>>
      PROVE  frames'[m] = frames[m] /\ counts'[m] = counts[m]
  BY <1>4, EmptySeq DEF DrainRaw, CaptureTypes
<1>5. ASSUME NEW m \in Motors, raw[m] # <<>> PROVE frames'[m] = Last(raw[m])
  BY <1>5 DEF DrainRaw
<1> QED  BY <1>2, <1>3, <1>4, <1>5

(* A drain leaves of a motor's own answers its own answers.                  *)
LEMMA DrainKeepsOwn ==
  ASSUME CaptureTypes, DrainRaw, UNCHANGED <<due, sdk, round>>,
         NEW m \in Motors, OwnAnswers(m)
  PROVE  OwnAnswers(m)'
<1>1. raw'[m] = <<>> /\ AllOf(<<>>, round)
  BY DrainCounts, AllOfKept DEF Nothing, CaptureTypes
<1>2. CASE raw[m] = <<>>
  BY <1>1, <1>2, DrainCounts DEF OwnAnswers
<1>3. CASE raw[m] # <<>>
  <2>1. Last(raw[m]) = round
    BY <1>3, AllOfKept DEF OwnAnswers, CaptureTypes
  <2> QED  BY <1>1, <1>3, <2>1, DrainCounts DEF OwnAnswers
<1> QED  BY <1>2, <1>3

(* What is handed on is a round's, or a reading's.                           *)
LEMMA EvidenceAdded ==
  ASSUME CaptureTypes, EvidencePaired, NEW e \in Entries, evidence' = Append(evidence, e),
         \A m \in (IF e.of > Rounds THEN {Asked} ELSE Motors \ e.late) :
           e.raw[m] = e.of /\ e.sdk[m] = e.of
  PROVE  EvidencePaired' /\ evidence' \in Seq(Entries)
<1>1. evidence \in Seq(Entries)
  BY DEF CaptureTypes
<1>2. /\ evidence' \in Seq(Entries) /\ DOMAIN evidence' = 1 .. Len(evidence) + 1
      /\ \A i \in DOMAIN evidence : evidence'[i] = evidence[i]
      /\ evidence'[Len(evidence) + 1] = e /\ Len(evidence) \in Nat
      /\ DOMAIN evidence = 1 .. Len(evidence)
  BY <1>1
<1>3. ASSUME NEW i \in DOMAIN evidence'
      PROVE  evidence'[i] = e \/ (i \in DOMAIN evidence /\ evidence'[i] = evidence[i])
  BY <1>2
<1> QED  BY <1>2, <1>3 DEF EvidencePaired

(* Nothing is UP, owed or handed on.                                         *)
LEMMA CaptureInitInv == CaptureInit => CaptureInv
<1> SUFFICES ASSUME CaptureInit PROVE CaptureInv
  OBVIOUS
<1>1. CaptureTypes
  BY NumbersKept, EmptySeq DEF CaptureInit, CaptureTypes, Nothing, Zero
<1>2. LinksOwned
  BY DEF CaptureInit, LinksOwned
<1>3. RoundsAgree
  BY DEF CaptureInit, RoundsAgree
<1>4. EvidencePaired
  BY DEF CaptureInit, EvidencePaired
<1> QED  BY <1>1, <1>2, <1>3, <1>4 DEF CaptureInv

(* The links.                                                                *)
LEMMA LinksKept ==
  ASSUME LinksOwned, CaptureNext
  PROVE  LinksOwned'
<1> USE DEF LinksOwned, processVars, reportVarsOf, Does, Raise, InTry, Interface
<1>1. ASSUME NEW m \in Motors, Answers(m) PROVE LinksOwned'
  BY <1>1 DEF Answers
<1>2. CASE AcquireAndInstall
  BY <1>2 DEF AcquireAndInstall
<1>3. CASE Checked
  BY <1>3 DEF Checked
<1>4. CASE Configure
  BY <1>4 DEF Configure, ConfigureEnds
<1>5. CASE OpenBackend
  BY <1>5 DEF OpenBackend
<1>6. CASE BeginRound
  BY <1>6 DEF BeginRound
<1>7. CASE Refresh
  BY <1>7 DEF Refresh, Receives
<1>8. CASE Collect
  BY <1>8 DEF Collect, DrainRaw
<1>9. CASE PeriodOver
  BY <1>9 DEF PeriodOver, DrainRaw, Complete
<1>10. CASE ReadFeedback
  BY <1>10 DEF ReadFeedback, Receives
<1>11. CASE ReadAmbiguous
  BY <1>11 DEF ReadAmbiguous
<1>12. CASE CloseBackend
  BY <1>12 DEF CloseBackend
<1>13. CASE SendQuery
  BY <1>13 DEF SendQuery
<1>14. CASE ReceiveReply
  BY <1>14 DEF ReceiveReply
<1>15. CASE WindowOver
  BY <1>15 DEF WindowOver
<1>16. CASE SomethingRaises
  BY <1>16 DEF SomethingRaises
<1>17. CASE EndpointDown
  BY <1>17 DEF EndpointDown
<1>18. CASE IgnoreSignals
  BY <1>18 DEF IgnoreSignals
<1>19. CASE CleanUpOne
  BY <1>19 DEF CleanUpOne
<1>20. CASE ReportAndUnlock
  <2>1. PICK fine \in BOOLEAN :
          saved' = fine /\ raising' = (raising \/ ~fine \/ leftUp # {})
    BY <1>20 DEF ReportAndUnlock
  <2>2. (raising => raising') /\ (~raising' => ~raising /\ saved' /\ leftUp = {})
    BY ONLY <2>1, Zenon
  <2>3. leftUp # {} => verdictOf' = "failed"
    BY <1>20 DEF ReportAndUnlock
  <2>4. /\ owned \subseteq leftUp /\ doing = "cleanup" /\ doing' = "over"
        /\ UNCHANGED <<turn, owned, up, cut, leftUp>>
    BY <1>20 DEF ReportAndUnlock
  <2> QED  BY <2>2, <2>3, <2>4
<1>21. CASE Signalled
  BY <1>21 DEF Signalled, Unwinds, LeavesAtOnce, IsIgnored
<1> QED
  BY <1>1, <1>2, <1>3, <1>4, <1>5, <1>6, <1>7, <1>8, <1>9, <1>10, <1>11,
     <1>12, <1>13, <1>14, <1>15, <1>16, <1>17, <1>18, <1>19, <1>20, <1>21 DEF CaptureNext

(* The types.                                                                *)
LEMMA CaptureTypesKept ==
  ASSUME CaptureTypes, RoundsAgree, CaptureNext
  PROVE  CaptureTypes'
<1> USE CaptureAssumption, NumbersKept DEF CaptureTypes, roundVars, wireVars, Nothing, Zero,
   Does
<1>1. ASSUME NEW m \in Motors, Answers(m) PROVE CaptureTypes'
  BY <1>1 DEF Answers
<1>2. CASE AcquireAndInstall
  BY <1>2 DEF AcquireAndInstall
<1>3. CASE Checked
  BY <1>3 DEF Checked
<1>4. CASE Configure
  BY <1>4 DEF Configure, ConfigureEnds
<1>5. CASE OpenBackend
  BY <1>5 DEF OpenBackend
<1>6. CASE BeginRound
  BY <1>6 DEF BeginRound
<1>7. CASE Refresh
  <2>1. PICK copies \in [Motors -> OnceOrTwice(round)] :
          due' = [m \in Motors |-> due[m] \o copies[m]]
    BY <1>7 DEF Refresh
  <2>2. ASSUME NEW m \in Motors PROVE due[m] \o copies[m] \in Numbers
    BY <2>1 DEF OnceOrTwice
  <2>3. due' \in [Motors -> Numbers]
    BY <2>1, <2>2
  <2> QED  BY <1>7, <2>3 DEF Refresh, Receives
<1>8. CASE Collect
  BY <1>8, DrainCounts DEF Collect
<1>9. CASE PeriodOver
  BY <1>9, DrainCounts DEF PeriodOver
<1>10. CASE ReadFeedback
  <2>1. cached' \in [Motors -> Nat] /\ sdk' \in [Motors -> Numbers]
    BY <1>10 DEF ReadFeedback, Receives
  <2>2. [of |-> round, raw |-> frames, sdk |-> cached', late |-> late] \in Entries
    BY <2>1 DEF Entries
  <2>3. evidence' \in Seq(Entries)
    BY <1>10, <2>2 DEF ReadFeedback
  <2>4. round' \in Nat
    BY <1>10 DEF ReadFeedback
  <2> QED  BY <1>10, <2>1, <2>3, <2>4 DEF ReadFeedback
<1>11. CASE ReadAmbiguous
  BY <1>11 DEF ReadAmbiguous
<1>12. CASE CloseBackend
  BY <1>12 DEF CloseBackend
<1>13. CASE SendQuery
  <2>1. Register \in Nat
    BY DEF Register
  <2>2. PICK copies \in {<<Register>>, <<Register, Register>>} :
          due' = [due EXCEPT ![Asked] = @ \o copies]
    BY <1>13 DEF SendQuery, OnceOrTwice
  <2>3. due[Asked] \o copies \in Numbers
    BY <2>1, AskedIsMotor
  <2> QED  BY <1>13, <2>2, <2>3 DEF SendQuery
<1>14. CASE ReceiveReply
  <2>1. Head(raw[Asked]) \in Nat /\ Tail(raw[Asked]) \in Numbers
    BY <1>14, AskedIsMotor DEF ReceiveReply
  <2>2. frames' \in [Motors -> Nat] /\ counts' \in [Motors -> Nat] /\ raw' \in [Motors -> Numbers]
    <3>1. CASE Reply /\ counts[Asked] = 0
      <4>1. /\ frames' = [frames EXCEPT ![Asked] = Head(raw[Asked])]
            /\ counts' = [counts EXCEPT ![Asked] = 1]
            /\ raw' = [raw EXCEPT ![Asked] = Tail(raw[Asked])]
        BY ONLY <1>14, <3>1 DEF ReceiveReply
      <4>2. frames \in [Motors -> Nat] /\ counts \in [Motors -> Nat] /\ raw \in [Motors -> Numbers]
        BY DEF CaptureTypes
      <4>3. frames' \in [Motors -> Nat]
        BY ONLY <2>1, <4>1, <4>2
      <4>4. counts' \in [Motors -> Nat]
        BY ONLY <4>1, <4>2
      <4>5. raw' \in [Motors -> Numbers]
        BY ONLY <2>1, <4>1, <4>2
      <4> QED  BY ONLY <4>3, <4>4, <4>5
    <3>2. CASE ~(Reply /\ counts[Asked] = 0)
      BY <1>14, <3>2 DEF ReceiveReply
    <3> QED  BY <3>1, <3>2
  <2> QED  BY <1>14, <2>2 DEF ReceiveReply
<1>15. CASE WindowOver
  <2>1. [of |-> Register, raw |-> frames, sdk |-> frames, late |-> {}] \in Entries
    BY DEF Entries, Register
  <2>2. evidence' \in Seq(Entries)
    <3>1. CASE counts[Asked] = 1
      <4>1. ASSUME NEW e \in Entries PROVE Append(evidence, e) \in Seq(Entries)
        BY DEF CaptureTypes
      <4>2. \E e \in Entries : evidence' = Append(evidence, e)
        BY ONLY <1>15, <2>1, <3>1 DEF WindowOver
      <4> QED  BY ONLY <4>1, <4>2
    <3>2. CASE counts[Asked] # 1
      BY <1>15, <3>2 DEF WindowOver
    <3> QED  BY <3>1, <3>2
  <2>3. round' \in {round, round + 1, 0}
    BY ONLY <1>15 DEF WindowOver
  <2>4. /\ frames' = [m \in Motors |-> 0] /\ counts' = [m \in Motors |-> 0]
        /\ UNCHANGED <<due, raw, sdk, late, cached>>
    BY ONLY <1>15 DEF WindowOver, Zero, wireVars
  <2>5. round' \in Nat
    BY <2>3
  <2>6. frames' \in [Motors -> Nat] /\ counts' \in [Motors -> Nat]
    BY ONLY <2>4
  <2> QED  BY <2>2, <2>4, <2>5, <2>6
<1>16. CASE SomethingRaises
  BY <1>16 DEF SomethingRaises
<1>17. CASE EndpointDown
  BY <1>17 DEF EndpointDown
<1>18. CASE IgnoreSignals
  BY <1>18 DEF IgnoreSignals
<1>19. CASE CleanUpOne
  BY <1>19 DEF CleanUpOne
<1>20. CASE ReportAndUnlock
  BY <1>20 DEF ReportAndUnlock
<1>21. CASE Signalled
  BY <1>21 DEF Signalled, Unwinds, LeavesAtOnce, IsIgnored
<1> QED
  BY <1>1, <1>2, <1>3, <1>4, <1>5, <1>6, <1>7, <1>8, <1>9, <1>10, <1>11,
     <1>12, <1>13, <1>14, <1>15, <1>16, <1>17, <1>18, <1>19, <1>20, <1>21 DEF CaptureNext

(* The rounds.                                                               *)
LEMMA RoundsKept ==
  ASSUME CaptureTypes, RoundsAgree, CaptureNext
  PROVE  RoundsAgree'
<1> USE CaptureAssumption DEF CaptureTypes, RoundsAgree, roundVars, wireVars, Does, Raise, InTry
<1>1. ASSUME NEW m \in Motors, Answers(m) PROVE RoundsAgree'
  <2>1. /\ due[m] # <<>> /\ due' = [due EXCEPT ![m] = Tail(@)]
        /\ raw' = [raw EXCEPT ![m] = Append(@, Head(due[m]))]
        /\ sdk' = [sdk EXCEPT ![m] = Append(@, Head(due[m]))]
        /\ UNCHANGED <<doing, round, late, frames, counts>>
    BY <1>1 DEF Answers
  <2>2. ASSUME NEW n \in Motors, OwnAnswers(n) PROVE OwnAnswers(n)'
    <3>1. CASE n # m
      BY <2>1, <2>2, <3>1 DEF OwnAnswers
    <3>2. CASE n = m
      <4>1. /\ Head(due[n]) = round /\ AllOf(Tail(due[n]), round)
            /\ AllOf(Append(raw[n], round), round) /\ AllOf(Append(sdk[n], round), round)
            /\ Append(sdk[n], round) # <<>>
        BY <2>1, <2>2, <3>2, AllOfKept DEF OwnAnswers
      <4> QED  BY <2>1, <2>2, <3>2, <4>1 DEF OwnAnswers
    <3> QED  BY <3>1, <3>2
  <2> QED  BY <2>1, <2>2 DEF Register
<1>2. CASE AcquireAndInstall
  BY <1>2 DEF AcquireAndInstall
<1>3. CASE Checked
  BY <1>3 DEF Checked
<1>4. CASE Configure
  BY <1>4 DEF Configure, ConfigureEnds
<1>5. CASE OpenBackend
  BY <1>5 DEF OpenBackend
<1>6. CASE BeginRound
  BY <1>6 DEF BeginRound, Nothing, Zero
<1>7. CASE Refresh
  <2>1. PICK copies \in [Motors -> OnceOrTwice(round)] :
          due' = [m \in Motors |-> due[m] \o copies[m]]
    BY <1>7 DEF Refresh
  <2>2. /\ doing = "refresh" /\ doing' = "collect" /\ UNCHANGED <<round, raw, late, frames, counts>>
        /\ sdk' = Nothing
    BY <1>7 DEF Refresh, Receives
  <2>3. ASSUME NEW m \in Motors \ late PROVE OwnAnswers(m)'
    <3>1. due[m] = <<>> /\ raw[m] = <<>> /\ counts[m] = 0
      BY <2>2
    <3>2. copies[m] \in {<<round>>, <<round, round>>}
      BY <2>1 DEF OnceOrTwice
    <3>3. <<>> \o copies[m] = copies[m]
      BY <3>2
    <3>4. due'[m] = copies[m] /\ raw'[m] = <<>> /\ sdk'[m] = <<>> /\ counts'[m] = 0
      BY <2>1, <2>2, <3>1, <3>3 DEF Nothing
    <3>5. AllOf(copies[m], round) /\ AllOf(<<>>, round)
      BY <3>2, AllOfKept
    <3> QED  BY <2>2, <3>4, <3>5 DEF OwnAnswers
  <2> HIDE DEF CaptureTypes
  <2> QED  BY <2>2, <2>3
<1>8. CASE Collect
  <2>1. /\ DrainRaw /\ doing = "collect" /\ UNCHANGED <<due, sdk, round>>
        /\ UNCHANGED <<doing, late>>
    BY <1>8 DEF Collect
  <2>2. ASSUME NEW m \in Motors \ late PROVE OwnAnswers(m)'
    BY <2>1, DrainKeepsOwn
  <2> QED  BY <2>1, <2>2
<1>9. CASE PeriodOver
  <2>1. /\ DrainRaw /\ doing = "collect" /\ UNCHANGED <<due, sdk, round>>
        /\ doing' \in {"read", "unwinding"} /\ UNCHANGED late
    BY <1>9 DEF PeriodOver
  <2>2. ASSUME NEW m \in Motors \ late PROVE OwnAnswers(m)'
    BY <2>1, DrainKeepsOwn
  <2> QED  BY <2>1, <2>2
<1>10. CASE ReadFeedback
  BY <1>10 DEF ReadFeedback, Receives
<1>11. CASE ReadAmbiguous
  BY <1>11 DEF ReadAmbiguous
<1>12. CASE CloseBackend
  <2>1. counts'[Asked] = 0
    BY <1>12, AskedIsMotor DEF CloseBackend, Zero
  <2> QED  BY <1>12, <2>1 DEF CloseBackend
<1>13. CASE SendQuery
  BY <1>13 DEF SendQuery
<1>14. CASE ReceiveReply
  <2>1. CASE Reply /\ counts[Asked] = 0
    <3>1. frames'[Asked] = Register /\ counts'[Asked] = 1
      BY <1>14, <2>1, AskedIsMotor DEF ReceiveReply, Reply
    <3> QED  BY <1>14, <2>1, <3>1 DEF ReceiveReply, Register
  <2>2. CASE ~(Reply /\ counts[Asked] = 0)
    BY <1>14, <2>2 DEF ReceiveReply
  <2> QED  BY <2>1, <2>2
<1>15. CASE WindowOver
  <2>1. counts'[Asked] = 0
    BY <1>15, AskedIsMotor DEF WindowOver, Zero
  <2> QED  BY <1>15, <2>1 DEF WindowOver
<1>16. CASE SomethingRaises
  BY <1>16 DEF SomethingRaises
<1>17. CASE EndpointDown
  BY <1>17 DEF EndpointDown
<1>18. CASE IgnoreSignals
  BY <1>18 DEF IgnoreSignals
<1>19. CASE CleanUpOne
  BY <1>19 DEF CleanUpOne
<1>20. CASE ReportAndUnlock
  BY <1>20 DEF ReportAndUnlock
<1>21. CASE Signalled
  <2>1. CASE doing' = doing
    BY <1>21, <2>1 DEF Signalled, Register, OwnAnswers
  <2>2. CASE doing' \in {"unwinding", "over"}
    BY <2>2
  <2> QED  BY <1>21, <2>1, <2>2 DEF Signalled, Unwinds, LeavesAtOnce, IsIgnored
<1> QED
  BY <1>1, <1>2, <1>3, <1>4, <1>5, <1>6, <1>7, <1>8, <1>9, <1>10, <1>11,
     <1>12, <1>13, <1>14, <1>15, <1>16, <1>17, <1>18, <1>19, <1>20, <1>21 DEF CaptureNext

(* The evidence.                                                             *)
LEMMA EvidenceKept ==
  ASSUME CaptureTypes, RoundsAgree, EvidencePaired, CaptureNext
  PROVE  EvidencePaired'
<1> USE DEF CaptureTypes, EvidencePaired
<1>1. ASSUME NEW m \in Motors, Answers(m) PROVE EvidencePaired'
  BY <1>1 DEF Answers
<1>2. CASE AcquireAndInstall
  BY <1>2 DEF AcquireAndInstall
<1>3. CASE Checked
  BY <1>3 DEF Checked
<1>4. CASE Configure
  BY <1>4 DEF Configure, ConfigureEnds
<1>5. CASE OpenBackend
  BY <1>5 DEF OpenBackend
<1>6. CASE BeginRound
  BY <1>6 DEF BeginRound
<1>7. CASE Refresh
  BY <1>7 DEF Refresh, Receives
<1>8. CASE Collect
  BY <1>8 DEF Collect, DrainRaw
<1>9. CASE PeriodOver
  BY <1>9 DEF PeriodOver, DrainRaw, Complete
<1>10. CASE ReadFeedback
  <2> DEFINE e == [of |-> round, raw |-> frames, sdk |-> cached', late |-> late]
  <2>1. ASSUME NEW m \in Motors \ late PROVE frames[m] = round /\ cached'[m] = round
    <3>1. OwnAnswers(m) /\ counts[m] = 1
      BY <1>10 DEF ReadFeedback, RoundsAgree
    <3>2. frames[m] = round /\ sdk[m] # <<>> /\ AllOf(sdk[m], round)
      BY <3>1 DEF OwnAnswers
    <3>3. cached'[m] = Last(sdk[m])
      BY <1>10, <3>2 DEF ReadFeedback, Receives
    <3> QED  BY <3>2, <3>3, AllOfKept
  <2>2. cached' \in [Motors -> Nat] /\ round \in 1 .. Rounds
    BY <1>10, NumbersKept DEF ReadFeedback, Receives, RoundsAgree
  <2>3. e \in Entries
    BY <2>2 DEF Entries
  <2>4. evidence' = Append(evidence, e)
    BY <1>10 DEF ReadFeedback
  <2>5. e.of = round /\ e.raw = frames /\ e.sdk = cached' /\ e.late = late
    OBVIOUS
  <2>6. ~(e.of > Rounds)
    BY <2>2, <2>5, CaptureAssumption
  <2> HIDE DEF e
  <2> QED  BY <2>1, <2>3, <2>4, <2>5, <2>6, EvidenceAdded
<1>11. CASE ReadAmbiguous
  BY <1>11 DEF ReadAmbiguous
<1>12. CASE CloseBackend
  BY <1>12 DEF CloseBackend
<1>13. CASE SendQuery
  BY <1>13 DEF SendQuery
<1>14. CASE ReceiveReply
  BY <1>14 DEF ReceiveReply
<1>15. CASE WindowOver
  <2> DEFINE e == [of |-> Register, raw |-> frames, sdk |-> frames, late |-> {}]
  <2>1. CASE counts[Asked] = 1
    <3>1. frames[Asked] = Register /\ round > 0
      BY <1>15, <2>1 DEF WindowOver, RoundsAgree
    <3>2. e \in Entries /\ e.of = Register /\ e.raw = frames /\ e.sdk = frames
      BY CaptureAssumption DEF Entries, Register
    <3>3. e.of > Rounds
      BY <3>1, <3>2, CaptureAssumption DEF Register
    <3>4. evidence' = Append(evidence, e)
      BY <1>15, <2>1 DEF WindowOver
    <3> HIDE DEF e
    <3> QED  BY <3>1, <3>2, <3>3, <3>4, EvidenceAdded
  <2>2. CASE counts[Asked] # 1
    BY <1>15, <2>2 DEF WindowOver
  <2> QED  BY <2>1, <2>2
<1>16. CASE SomethingRaises
  BY <1>16 DEF SomethingRaises
<1>17. CASE EndpointDown
  BY <1>17 DEF EndpointDown
<1>18. CASE IgnoreSignals
  BY <1>18 DEF IgnoreSignals
<1>19. CASE CleanUpOne
  BY <1>19 DEF CleanUpOne
<1>20. CASE ReportAndUnlock
  BY <1>20 DEF ReportAndUnlock
<1>21. CASE Signalled
  BY <1>21 DEF Signalled, Unwinds, LeavesAtOnce, IsIgnored
<1> QED
  BY <1>1, <1>2, <1>3, <1>4, <1>5, <1>6, <1>7, <1>8, <1>9, <1>10, <1>11,
     <1>12, <1>13, <1>14, <1>15, <1>16, <1>17, <1>18, <1>19, <1>20, <1>21 DEF CaptureNext

(* The capture keeps what is UP under its ownership, and what a motor with   *)
(* nothing under way at the start of a round answers is of that round.       *)
THEOREM CaptureInvariant == CaptureSpec => []CaptureInv
<1>1. ASSUME CaptureInv, [CaptureNext]_captureVars PROVE CaptureInv'
  <2>1. CASE UNCHANGED captureVars
    BY <1>1, <2>1 DEF captureVars, CaptureInv, CaptureTypes, LinksOwned, RoundsAgree,
       OwnAnswers, Interface, EvidencePaired, Register, processVars, reportVarsOf, wireVars,
       roundVars
  <2> QED  BY <1>1, <2>1, LinksKept, CaptureTypesKept, RoundsKept, EvidenceKept DEF CaptureInv
<1> QED  BY <1>1, CaptureInitInv, PTL DEF CaptureSpec

(* A capture that returns has all its links DOWN and its report written; one *)
(* that fails has them DOWN or tells in its report, if that got written,     *)
(* which it could not take down and that it failed, unless a signal came     *)
(* between the end of the try and SIG_IGN (the finally of                    *)
(* capture_follower_feedback).                                               *)
THEOREM CaptureLinksReturned == CaptureSpec => []LinksReturned
<1>1. CaptureInv => LinksReturned
  BY DEF CaptureInv, LinksOwned, LinksReturned
<1> QED  BY <1>1, CaptureInvariant, PTL

(* Every sample pairs the raw answer and the cached state of its own round   *)
(* for every motor that had no answer under way when the round began, and    *)
(* every reading is that of its register, however often and late the motors  *)
(* answer.                                                                   *)
THEOREM CaptureEvidencePaired == CaptureSpec => []EvidencePaired
<1>1. CaptureInv => EvidencePaired
  BY DEF CaptureInv
<1> QED  BY <1>1, CaptureInvariant, PTL
-----------------------------------------------------------------------------
(* The replay of a capture.  What was judged so far is, line by line, what   *)
(* was saved, and of every side the rounds 1, 2, ... to its count, later and *)
(* later up to its last time.                                                *)
Judged ==
  /\ records \in Seq(SavedLines) /\ Len(records) <= Len(savedLines)
  /\ \A i \in 1 .. Len(records) : records[i] = savedLines[i]
  /\ roundsOf \in [Followers -> Nat] /\ previous \in [Followers -> Nat]

JudgedInOrder ==
  /\ \A s \in Followers : \A n \in 1 .. roundsOf[s] :
       \E i \in 1 .. Len(records) : records[i].side = s /\ records[i].round = n
  /\ \A i \in 1 .. Len(records) :
       LET line == records[i]
       IN /\ line.round <= roundsOf[line.side]
          /\ line.time > 0 /\ line.time <= previous[line.side]
  /\ \A i, j \in 1 .. Len(records) :
       i < j /\ records[i].side = records[j].side =>
         records[i].round < records[j].round /\ records[i].time < records[j].time

(* Rows are written of a passed capture, when every line was judged.         *)
Writing ==
  replayed = "write" =>
    /\ replayStatus = "writing" /\ savedReport.passed /\ AllRounds
    /\ Len(records) = Len(savedLines) /\ Len(rowsWritten) <= Len(records)
    /\ \A i \in 1 .. Len(rowsWritten) : rowsWritten[i] = records[i]

(* The types, and that only a capture that passed is judged.                 *)
ReplayTypes ==
  /\ savedReport \in SavedReports /\ savedLines \in Seq(SavedLines)
  /\ rowsWritten \in Seq(SavedLines)
  /\ replayed \in {"read", "judge", "write", "refused", "over"}
  /\ replayed = "judge" => savedReport.passed

ReplayInv ==
  ReplayTypes /\ Judged /\ JudgedInOrder /\ Writing /\ ReplayFaithful

(* The saved lines are what the capture left, and nothing is judged yet.     *)
LEMMA ReplayInitInv == ReplayInit => ReplayInv
<1> SUFFICES ASSUME ReplayInit  PROVE ReplayInv
  OBVIOUS
<1>1. savedLines \in Seq(SavedLines)
  <2>1. PICK n \in 0 .. MaxLines : savedLines \in [1 .. n -> SavedLines]
    BY DEF ReplayInit, BoundedSeq, SeqOf
  <2>2. n \in Nat
    BY <2>1, ReplayAssumption
  <2> QED  BY <2>1, <2>2
<1>2. /\ records = <<>> /\ rowsWritten = <<>> /\ replayed = "read"
      /\ replayStatus \in {"none", "earlier"} /\ savedReport \in SavedReports
      /\ \A s \in Followers : roundsOf[s] = 0
      /\ roundsOf \in [Followers -> Nat] /\ previous \in [Followers -> Nat]
  BY DEF ReplayInit, NothingOf
<1>3. Len(records) = 0 /\ records \in Seq(SavedLines) /\ rowsWritten \in Seq(SavedLines)
  BY <1>2
<1>4. ReplayTypes
  BY <1>1, <1>2, <1>3 DEF ReplayTypes
<1>5. Judged
  BY <1>1, <1>2, <1>3 DEF Judged
<1>6. JudgedInOrder
  BY <1>2, <1>3 DEF JudgedInOrder
<1>7. Writing /\ ReplayFaithful
  BY <1>2 DEF Writing, ReplayFaithful
<1> QED  BY <1>4, <1>5, <1>6, <1>7 DEF ReplayInv

(* A step that judges no line and writes no row.                             *)
LEMMA ReplayMoves ==
  ASSUME ReplayInv, UNCHANGED <<savedReport, savedLines, judgedVars, rowsWritten>>,
         replayed' \in {"read", "judge", "refused", "over"},
         replayed' = "judge" => savedReport.passed,
         \/ replayStatus' = replayStatus
         \/ replayStatus' = "failed"
         \/ replayStatus' = "passed" /\ rowsWritten = savedLines /\ savedReport.passed
            /\ AllOfRounds
  PROVE  ReplayInv'
<1>1. UNCHANGED <<records, roundsOf, previous>>
  BY DEF judgedVars
<1>2. ReplayTypes /\ Judged /\ JudgedInOrder /\ ReplayFaithful
  BY DEF ReplayInv
<1>3. ReplayTypes' /\ Writing'
  BY <1>2 DEF ReplayTypes, Writing
<1>4. Judged'
  BY <1>1, <1>2 DEF Judged
<1>5. JudgedInOrder'
  BY <1>1, <1>2 DEF JudgedInOrder
<1>6. AllOfRounds' = AllOfRounds
  BY DEF AllOfRounds
<1>7. ReplayFaithful'
  BY <1>2, <1>6 DEF ReplayFaithful
<1> QED  BY <1>3, <1>4, <1>5, <1>7 DEF ReplayInv

(* The fields of a saved line.                                               *)
LEMMA LineTypes ==
  ASSUME NEW line \in SavedLines
  PROVE  line.side \in Followers /\ line.round \in Nat /\ line.time \in Nat
BY ReplayAssumption DEF SavedLines

(* A line that follows is the next round of its side.                        *)
LEMMA JudgeStep ==
  ASSUME ReplayInv, JudgeLine
  PROVE  ReplayInv'
<1> DEFINE line == savedLines[Len(records) + 1]
<1>1. /\ replayed = "judge" /\ Len(records) < Len(savedLines)
      /\ UNCHANGED <<rowsWritten, replayStatus, savedReport, savedLines>>
  BY DEF JudgeLine, ReplayGoes
<1>2. /\ ReplayTypes /\ Judged /\ JudgedInOrder /\ ReplayFaithful /\ savedReport.passed
      /\ Len(records) \in Nat
  <2>1. ReplayTypes /\ Judged /\ JudgedInOrder /\ ReplayFaithful
    BY DEF ReplayInv
  <2>2. savedReport.passed
    BY <1>1, <2>1 DEF ReplayTypes
  <2>3. records \in Seq(SavedLines)
    BY <2>1 DEF Judged
  <2> QED  BY <2>1, <2>2, <2>3
<1>3. CASE ~Follows(line)
  <2>1. replayed' = "refused" /\ UNCHANGED judgedVars
    BY <1>3 DEF JudgeLine, ReplayGoes
  <2> QED  BY <1>1, <2>1, ReplayMoves
<1>4. ASSUME NEW new \in SavedLines, new = line,
             records' = Append(records, new), replayed' = "judge",
             new.round = roundsOf[new.side] + 1, new.time > previous[new.side],
             roundsOf' = [roundsOf EXCEPT ![new.side] = @ + 1],
             previous' = [previous EXCEPT ![new.side] = new.time]
      PROVE  ReplayInv'
  <2>1. /\ records' \in Seq(SavedLines) /\ Len(records') = Len(records) + 1
        /\ \A i \in 1 .. Len(records) : records'[i] = records[i]
        /\ records'[Len(records) + 1] = new
    BY <1>2, <1>4 DEF Judged
  <2>2. /\ new.side \in Followers /\ new.round \in Nat /\ new.time \in Nat
        /\ \A s \in Followers : roundsOf[s] \in Nat /\ previous[s] \in Nat
    BY <1>2, <1>4, LineTypes DEF Judged
  <2>3. /\ roundsOf' \in [Followers -> Nat] /\ previous' \in [Followers -> Nat]
        /\ roundsOf'[new.side] = roundsOf[new.side] + 1 /\ previous'[new.side] = new.time
        /\ \A s \in Followers : s # new.side =>
             roundsOf'[s] = roundsOf[s] /\ previous'[s] = previous[s]
    BY <1>2, <1>4, <2>2 DEF Judged
  <2>4. \A i \in 1 .. Len(records') : i \in 1 .. Len(records) \/ i = Len(records) + 1
    BY <1>2, <2>1
  <2>5. \A i \in 1 .. Len(records) : /\ records[i].side \in Followers
                                     /\ records[i].round \in Nat /\ records[i].time \in Nat
    <3> SUFFICES ASSUME NEW i \in 1 .. Len(records)
                 PROVE  /\ records[i].side \in Followers
                        /\ records[i].round \in Nat /\ records[i].time \in Nat
      OBVIOUS
    <3>1. records[i] \in SavedLines
      BY <1>2 DEF Judged
    <3> QED  BY <3>1, LineTypes
  <2>6. Judged'
    <3>1. \A i \in 1 .. Len(records') : records'[i] = savedLines'[i]
      <4> SUFFICES ASSUME NEW i \in 1 .. Len(records')  PROVE records'[i] = savedLines[i]
        BY <1>1
      <4>1. CASE i \in 1 .. Len(records)  BY <1>2, <2>1, <4>1 DEF Judged
      <4>2. CASE i = Len(records) + 1  BY <1>4, <2>1, <4>2
      <4> QED  BY <2>4, <4>1, <4>2
    <3>2. Len(records') <= Len(savedLines')
      <4>1. Len(savedLines) \in Nat
        BY <1>2 DEF ReplayTypes
      <4> QED  BY <1>1, <1>2, <2>1, <4>1
    <3> QED  BY <2>1, <2>3, <3>1, <3>2 DEF Judged
  <2>7. ASSUME NEW s \in Followers, NEW n \in 1 .. roundsOf'[s]
        PROVE  \E i \in 1 .. Len(records') : records'[i].side = s /\ records'[i].round = n
    <3>1. CASE n \in 1 .. roundsOf[s]
      <4>1. PICK i \in 1 .. Len(records) : records[i].side = s /\ records[i].round = n
        BY <1>2, <3>1 DEF JudgedInOrder
      <4> QED  BY <1>2, <2>1, <4>1
    <3>2. CASE n \notin 1 .. roundsOf[s]
      <4>1. s = new.side /\ n = roundsOf[s] + 1
        BY <2>2, <2>3, <2>7, <3>2
      <4> QED  BY <1>2, <1>4, <2>1, <4>1
    <3> QED  BY <3>1, <3>2
  <2>8. ASSUME NEW i \in 1 .. Len(records')
        PROVE  /\ records'[i].round <= roundsOf'[records'[i].side]
               /\ records'[i].time > 0 /\ records'[i].time <= previous'[records'[i].side]
    <3>1. CASE i \in 1 .. Len(records)
      <4>1. /\ records[i].round <= roundsOf[records[i].side]
            /\ records[i].time > 0 /\ records[i].time <= previous[records[i].side]
        BY <1>2, <3>1 DEF JudgedInOrder
      <4>2. CASE records[i].side = new.side
        BY <1>4, <2>1, <2>2, <2>3, <2>5, <3>1, <4>1, <4>2
      <4>3. CASE records[i].side # new.side
        BY <2>1, <2>3, <2>5, <3>1, <4>1, <4>3
      <4> QED  BY <4>2, <4>3
    <3>2. CASE i = Len(records) + 1
      BY <1>4, <2>1, <2>2, <2>3, <3>2
    <3> QED  BY <2>4, <3>1, <3>2
  <2>9. ASSUME NEW i \in 1 .. Len(records'), NEW j \in 1 .. Len(records'),
               i < j, records'[i].side = records'[j].side
        PROVE  records'[i].round < records'[j].round /\ records'[i].time < records'[j].time
    <3>1. i \in 1 .. Len(records)
      BY <1>2, <2>1, <2>4, <2>9
    <3>2. CASE j \in 1 .. Len(records)
      BY <1>2, <2>1, <2>9, <3>1, <3>2 DEF JudgedInOrder
    <3>3. CASE j = Len(records) + 1
      <4>1. records[i].side = new.side
        BY <2>1, <2>9, <3>1, <3>3
      <4>2. records[i].round <= roundsOf[new.side] /\ records[i].time <= previous[new.side]
        BY <1>2, <3>1, <4>1 DEF JudgedInOrder
      <4> QED  BY <1>4, <2>1, <2>2, <2>5, <3>1, <3>3, <4>2
    <3> QED  BY <2>4, <3>2, <3>3
  <2>10. JudgedInOrder'
    BY <2>7, <2>8, <2>9 DEF JudgedInOrder
  <2>11. ReplayTypes' /\ Writing'
    BY <1>1, <1>2, <1>4 DEF ReplayTypes, Writing
  <2>12. AllOfRounds' = AllOfRounds
    BY <1>1 DEF AllOfRounds
  <2>13. ReplayFaithful'
    BY <1>1, <1>2, <2>12 DEF ReplayFaithful
  <2> QED  BY <2>6, <2>10, <2>11, <2>13 DEF ReplayInv
<1>5. CASE Follows(line)
  <2>1. /\ records' = Append(records, line) /\ replayed' = "judge"
        /\ roundsOf' = [roundsOf EXCEPT ![line.side] = @ + 1]
        /\ previous' = [previous EXCEPT ![line.side] = line.time]
    BY <1>5 DEF JudgeLine, ReplayGoes
  <2>2. line.round = roundsOf[line.side] + 1 /\ line.time > previous[line.side]
    BY <1>5 DEF Follows
  <2>3. Len(records) + 1 \in 1 .. Len(savedLines)
    BY <1>1, <1>2 DEF ReplayTypes
  <2>4. line \in SavedLines
    BY <1>2, <2>3 DEF ReplayTypes
  <2> HIDE DEF line
  <2> QED  BY <1>4, <2>1, <2>2, <2>4
<1> QED  BY <1>3, <1>5

(* When every line was judged and every side is complete, the saved lines    *)
(* are all of the rounds.                                                    *)
LEMMA AllJudged ==
  ASSUME ReplayTypes, Judged, JudgedInOrder, AllRounds, Len(records) = Len(savedLines)
  PROVE  AllOfRounds
<1>1. /\ DOMAIN savedLines = 1 .. Len(records)
      /\ \A i \in 1 .. Len(records) : records[i] = savedLines[i]
      /\ \A s \in Followers : savedReport.rounds[s] = roundsOf[s]
      /\ \A i \in 1 .. Len(records) : records[i].side \in Followers
  <2>1. \A i \in 1 .. Len(records) : records[i] \in SavedLines
    BY DEF Judged
  <2>2. \A i \in 1 .. Len(records) : records[i].side \in Followers
    BY <2>1, LineTypes
  <2>3. DOMAIN savedLines = 1 .. Len(records)
    BY DEF ReplayTypes
  <2> QED  BY <2>2, <2>3 DEF Judged, AllRounds
<1> QED  BY <1>1 DEF JudgedInOrder, AllOfRounds

(* Every step of redecode_capture keeps all of this.                         *)
LEMMA ReplayStep == ReplayInv /\ [ReplayNext]_replayVars => ReplayInv'
<1> SUFFICES ASSUME ReplayInv, [ReplayNext]_replayVars  PROVE ReplayInv'
  OBVIOUS
<1>0. ReplayTypes /\ Judged /\ JudgedInOrder /\ Writing /\ ReplayFaithful
  BY DEF ReplayInv
<1>1. CASE ReadSaved
  <2>1. /\ UNCHANGED <<savedReport, savedLines, judgedVars, rowsWritten, replayStatus>>
        /\ replayed' \in {"judge", "refused"} /\ (replayed' = "judge" => savedReport.passed)
    BY <1>1 DEF ReadSaved, ReplayGoes
  <2> QED  BY <2>1, ReplayMoves
<1>2. CASE JudgeLine
  BY <1>2, JudgeStep
<1>3. CASE OpenOutput
  <2>1. /\ UNCHANGED <<savedReport, savedLines, judgedVars, rowsWritten>>
        /\ replayed = "judge" /\ Len(records) = Len(savedLines)
    BY <1>3 DEF OpenOutput, ReplayGoes
  <2>2. CASE ~(AllRounds /\ replayStatus = "none")
    <3>1. replayed' = "refused" /\ replayStatus' = replayStatus
      BY <1>3, <2>2 DEF OpenOutput, ReplayGoes
    <3> QED  BY <2>1, <3>1, ReplayMoves
  <2>3. CASE AllRounds /\ replayStatus = "none"
    <3>1. replayed' = "write" /\ replayStatus' = "writing"
      BY <1>3, <2>3 DEF OpenOutput, ReplayGoes
    <3>2. UNCHANGED <<records, roundsOf, previous>>
      BY <2>1 DEF judgedVars
    <3>3. rowsWritten = <<>> /\ savedReport.passed
      BY <1>0, <2>1, <2>3 DEF ReplayFaithful, ReplayTypes
    <3>4. ReplayTypes'
      BY <1>0, <2>1, <3>1 DEF ReplayTypes
    <3>5. Judged'
      BY <1>0, <2>1, <3>2 DEF Judged
    <3>6. JudgedInOrder'
      BY <1>0, <3>2 DEF JudgedInOrder
    <3>7. AllRounds'
      BY <2>1, <2>3, <3>2 DEF AllRounds
    <3>8. Writing'
      <4>1. Len(rowsWritten) = 0 /\ Len(records) \in Nat
        BY <1>0, <3>3 DEF Judged
      <4> QED  BY <2>1, <3>1, <3>2, <3>3, <3>7, <4>1 DEF Writing
    <3>9. ReplayFaithful'
      BY <3>1 DEF ReplayFaithful
    <3> QED  BY <3>4, <3>5, <3>6, <3>8, <3>9 DEF ReplayInv
  <2> QED  BY <2>2, <2>3
<1>4. CASE WriteRow
  <2>1. /\ UNCHANGED <<savedReport, savedLines, records, roundsOf, previous, replayStatus>>
        /\ replayed = "write" /\ replayed' = "write" /\ Len(rowsWritten) < Len(records)
        /\ rowsWritten' = Append(rowsWritten, records[Len(rowsWritten) + 1])
    BY <1>4 DEF WriteRow, ReplayGoes, judgedVars
  <2>2. /\ replayStatus = "writing" /\ savedReport.passed /\ AllRounds
        /\ Len(records) = Len(savedLines) /\ Len(rowsWritten) <= Len(records)
        /\ \A i \in 1 .. Len(rowsWritten) : rowsWritten[i] = records[i]
    BY <1>0, <2>1 DEF Writing
  <2>3. Len(rowsWritten) + 1 \in 1 .. Len(records) /\ Len(rowsWritten) \in Nat
        /\ Len(records) \in Nat
    BY <1>0, <2>1 DEF ReplayTypes, Judged
  <2>4. records[Len(rowsWritten) + 1] \in SavedLines
    BY <1>0, <2>3 DEF Judged
  <2>5. /\ rowsWritten' \in Seq(SavedLines) /\ Len(rowsWritten') = Len(rowsWritten) + 1
        /\ \A i \in 1 .. Len(rowsWritten) : rowsWritten'[i] = rowsWritten[i]
        /\ rowsWritten'[Len(rowsWritten) + 1] = records[Len(rowsWritten) + 1]
    BY <1>0, <2>1, <2>4 DEF ReplayTypes
  <2>6. \A i \in 1 .. Len(rowsWritten') : rowsWritten'[i] = records[i]
    <3> SUFFICES ASSUME NEW i \in 1 .. Len(rowsWritten')  PROVE rowsWritten'[i] = records[i]
      OBVIOUS
    <3>1. i \in 1 .. Len(rowsWritten) \/ i = Len(rowsWritten) + 1
      BY <2>3, <2>5
    <3> QED  BY <2>2, <2>5, <3>1
  <2>7. Len(rowsWritten') <= Len(records)
    BY <2>3, <2>5
  <2>8. ReplayTypes'
    BY <1>0, <2>1, <2>5 DEF ReplayTypes
  <2>9. Judged'
    BY <1>0, <2>1 DEF Judged
  <2>10. JudgedInOrder'
    BY <1>0, <2>1 DEF JudgedInOrder
  <2>11. Writing'
    BY <2>1, <2>2, <2>6, <2>7 DEF Writing, AllRounds
  <2>12. ReplayFaithful'
    BY <2>1, <2>2 DEF ReplayFaithful
  <2> QED  BY <2>8, <2>9, <2>10, <2>11, <2>12 DEF ReplayInv
<1>5. CASE ConcludeReplay
  <2>1. /\ UNCHANGED <<savedReport, savedLines, judgedVars, rowsWritten>>
        /\ replayed = "write" /\ replayed' = "over" /\ Len(rowsWritten) = Len(records)
        /\ replayStatus' = "passed" \/ replayStatus' = replayStatus
    BY <1>5 DEF ConcludeReplay, ReplayGoes
  <2>2. /\ savedReport.passed /\ AllRounds /\ Len(records) = Len(savedLines)
        /\ \A i \in 1 .. Len(rowsWritten) : rowsWritten[i] = records[i]
    BY <1>0, <2>1 DEF Writing
  <2>3. rowsWritten = savedLines
    <3>1. rowsWritten \in Seq(SavedLines) /\ savedLines \in Seq(SavedLines)
          /\ Len(rowsWritten) = Len(savedLines)
          /\ \A i \in 1 .. Len(savedLines) : rowsWritten[i] = savedLines[i]
      BY <1>0, <2>1, <2>2 DEF ReplayTypes, Judged
    <3> QED  BY <3>1, SeqEqual
  <2>4. AllOfRounds
    BY <1>0, <2>2, AllJudged
  <2> QED  BY <2>1, <2>2, <2>3, <2>4, ReplayMoves
<1>6. CASE WriteFails
  <2>1. /\ UNCHANGED <<savedReport, savedLines, judgedVars, rowsWritten>>
        /\ replayed' = "over"
        /\ replayStatus' = "failed" \/ replayStatus' = replayStatus
    BY <1>6 DEF WriteFails, ReplayGoes
  <2> QED  BY <2>1, ReplayMoves
<1>7. CASE KillReplay
  <2>1. UNCHANGED <<savedReport, savedLines, judgedVars, rowsWritten, replayStatus>>
        /\ replayed' = "over"
    BY <1>7 DEF KillReplay, ReplayGoes
  <2> QED  BY <2>1, ReplayMoves
<1>8. CASE ReplayAgain
  <2>1. /\ UNCHANGED <<savedReport, savedLines, rowsWritten, replayStatus>>
        /\ replayed' = "read" /\ records' = <<>>
        /\ roundsOf' = NothingOf /\ previous' = NothingOf
    BY <1>8 DEF ReplayAgain, ReplayGoes
  <2>2. Len(records') = 0 /\ records' \in Seq(SavedLines) /\ Len(savedLines) \in Nat
    BY <1>0, <2>1 DEF ReplayTypes
  <2>3. Judged'
    BY <2>1, <2>2 DEF Judged, NothingOf
  <2>4. JudgedInOrder'
    <3>1. \A s \in Followers : roundsOf'[s] = 0
      BY <2>1 DEF NothingOf
    <3> QED  BY <2>2, <3>1 DEF JudgedInOrder
  <2>5. ReplayTypes' /\ Writing'
    BY <1>0, <2>1 DEF ReplayTypes, Writing
  <2>6. AllOfRounds' = AllOfRounds
    BY <2>1 DEF AllOfRounds
  <2>7. ReplayFaithful'
    BY <1>0, <2>1, <2>6 DEF ReplayFaithful
  <2> QED  BY <2>3, <2>4, <2>5, <2>7 DEF ReplayInv
<1>9. CASE UNCHANGED replayVars
  <2>1. UNCHANGED <<savedReport, savedLines, replayed, records, roundsOf, previous,
                    rowsWritten, replayStatus>>
    BY <1>9 DEF replayVars, judgedVars
  <2>2. ReplayTypes' /\ Judged'
    BY <1>0, <2>1 DEF ReplayTypes, Judged
  <2>3. JudgedInOrder'
    BY <1>0, <2>1 DEF JudgedInOrder
  <2>4. Writing'
    BY <1>0, <2>1 DEF Writing, AllRounds
  <2>5. ReplayFaithful'
    BY <1>0, <2>1 DEF ReplayFaithful, AllOfRounds
  <2> QED  BY <2>2, <2>3, <2>4, <2>5 DEF ReplayInv
<1> QED
  BY <1>1, <1>2, <1>3, <1>4, <1>5, <1>6, <1>7, <1>8, <1>9 DEF ReplayNext

(* A replay that says passed is of the whole of a passed capture, and an     *)
(* output that was there before is not touched (feedback_decode.py,          *)
(* redecode_capture).                                                        *)
THEOREM ReplayIsFaithful == ReplaySpec => []ReplayFaithful
<1>1. ReplayInv => ReplayFaithful
  BY DEF ReplayInv
<1> QED  BY <1>1, ReplayInitInv, ReplayStep, PTL DEF ReplaySpec
-----------------------------------------------------------------------------
(* The rehearsal of a wrist sweep.  The quintic from an end of a leg to the  *)
(* other stays between them: with u = t - k what is missing from the whole   *)
(* is u^3 (t^2 + 3 k t + 6 k^2).                                             *)
Rise(t, k) == k * k * k * (10 * t * t - 15 * k * t + 6 * k * k)

LEMMA RiseBounds ==
  ASSUME NEW t \in Nat \ {0}, NEW k \in Nat, k < t
  PROVE  Rise(t, k) \in 0 .. t * t * t * t * t
<1>1. 10 * t * t - 15 * k * t + 6 * k * k >= 0
  <2>1. 24 * (10 * t * t - 15 * k * t + 6 * k * k)
          = (12 * k - 15 * t) * (12 * k - 15 * t) + 15 * t * t
    OBVIOUS
  <2> QED  BY <2>1
<1>2. PICK u \in Nat : t = k + u
  <2>1. t - k \in Nat /\ t = k + (t - k)
    OBVIOUS
  <2> QED  BY <2>1
<1>3. t * t * t * t * t - Rise(t, k) = u * u * u * (t * t + 3 * k * t + 6 * k * k)
  BY <1>2 DEF Rise
<1>4. PICK m \in Nat : m = 10 * t * t - 15 * k * t + 6 * k * k
  BY <1>1
<1>5. PICK c \in Nat : c = k * k * k
  OBVIOUS
<1>6. Rise(t, k) \in Nat
  BY <1>4, <1>5 DEF Rise
<1>7. u * u * u * (t * t + 3 * k * t + 6 * k * k) \in Nat
  <2>1. PICK v \in Nat : v = u * u * u
    OBVIOUS
  <2>2. PICK w \in Nat : w = t * t + 3 * k * t + 6 * k * k
    OBVIOUS
  <2> QED  BY <2>1, <2>2
<1>8. PICK p \in Nat : p = t * t * t * t * t
  OBVIOUS
<1> QED  BY <1>3, <1>6, <1>7, <1>8

(* A quotient is between the bounds that hold for the divided number.        *)
LEMMA DivBounds ==
  ASSUME NEW n \in Nat \ {0}, NEW x \in Int, NEW a \in Int, NEW b \in Int,
         n * a <= x, x <= n * b
  PROVE  x \div n \in a .. b
<1>1. PICK d \in Int : d = x \div n
  OBVIOUS
<1>2. n * d <= x /\ x < n * d + n
  BY <1>1
<1>3. ~(d < a)
  <2>1. d < a => n * (d + 1) <= n * a
    OBVIOUS
  <2>2. n * (d + 1) = n * d + n
    OBVIOUS
  <2> QED  BY <1>2, <2>1, <2>2
<1>4. ~(b < d)
  <2>1. b < d => n * (b + 1) <= n * d
    OBVIOUS
  <2>2. n * (b + 1) = n * b + n
    OBVIOUS
  <2> QED  BY <1>2, <2>1, <2>2
<1> QED  BY <1>1, <1>3, <1>4

(* So a leg of the sweep stays between its ends, up and down.                *)
LEMMA QuinticBetween ==
  ASSUME NEW a \in Nat, NEW k \in Nat, k < Transition
  PROVE  /\ Quintic(0, a, k) \in 0 .. a /\ Quintic(a, 0, k) \in 0 .. a
         /\ Quintic(0, -a, k) \in -a .. 0 /\ Quintic(-a, 0, k) \in -a .. 0
<1>1. Transition \in Nat \ {0}
  BY SweepAssumption DEF SweepSpecSound
<1>2. PICK r \in Nat : r = Rise(Transition, k)
  BY <1>1, RiseBounds
<1>3. PICK d \in Nat \ {0} :
        d = Transition * Transition * Transition * Transition * Transition
  BY <1>1
<1>4. r <= d
  BY <1>1, <1>2, <1>3, RiseBounds
<1>5. ASSUME NEW from \in Int, NEW to \in Int
      PROVE  Quintic(from, to, k) = from + (((to - from) * r) \div d)
  <2>1. PICK m \in Int : m = 10 * Transition * Transition - 15 * k * Transition + 6 * k * k
    BY <1>1
  <2>2. r = k * k * k * m
    BY <1>2, <2>1 DEF Rise
  <2>3. PICK e \in Int : e = to - from
    OBVIOUS
  <2>4. e * k * k * k * m = e * r
    BY <2>2
  <2> QED  BY <1>3, <2>1, <2>3, <2>4 DEF Quintic
<1>6. a * r \in Int /\ d * 0 <= a * r /\ a * r <= d * a
  BY ONLY <1>4, a \in Nat, r \in Nat, d \in Nat \ {0}
<1>7. (-a) * r \in Int /\ d * (-a) <= (-a) * r /\ (-a) * r <= d * 0
  <2>1. (-a) * r = -(a * r) /\ d * (-a) = -(d * a)
    OBVIOUS
  <2> QED  BY <1>6, <2>1
<1>8. (a * r) \div d \in 0 .. a /\ ((-a) * r) \div d \in (-a) .. 0
  BY <1>6, <1>7, DivBounds
<1>9. /\ Quintic(0, a, k) = 0 + ((a * r) \div d)
      /\ Quintic(a, 0, k) = a + (((-a) * r) \div d)
      /\ Quintic(0, -a, k) = 0 + (((-a) * r) \div d)
      /\ Quintic(-a, 0, k) = (-a) + ((a * r) \div d)
  <2>1. a - 0 = a /\ 0 - a = -a /\ (-a) - 0 = -a /\ 0 - (-a) = a
        /\ a \in Int /\ -a \in Int /\ 0 \in Int
    OBVIOUS
  <2>2. /\ Quintic(0, a, k) = 0 + (((a - 0) * r) \div d)
        /\ Quintic(a, 0, k) = a + (((0 - a) * r) \div d)
        /\ Quintic(0, -a, k) = 0 + ((((-a) - 0) * r) \div d)
        /\ Quintic(-a, 0, k) = (-a) + (((0 - (-a)) * r) \div d)
    BY <1>5, <2>1
  <2> QED  BY <2>1, <2>2
<1>10. PICK x \in 0 .. a, y \in (-a) .. 0 : x = (a * r) \div d /\ y = ((-a) * r) \div d
  BY <1>8
<1> QED  BY <1>9, <1>10

(* The sweep never leaves its amplitude.                                     *)
LEMMA OffsetBounds ==
  ASSUME NEW n \in Nat
  PROVE  Offset(n) \in -Amplitude .. Amplitude
<1>1. Transition \in Nat \ {0} /\ Hold \in Nat \ {0} /\ Amplitude \in Nat
  BY SweepAssumption DEF SweepSpecSound
<1>2. CASE n < Hold \/ n >= Duration
  <2>1. Offset(n) = 0
    BY <1>2 DEF Offset
  <2> QED  BY <1>1, <2>1
<1>3. CASE ~(n < Hold \/ n >= Duration)
  <2> DEFINE since == n - Hold
             leg   == 1 + ((since \div (Transition + Hold)) % 4)
             local == since % (Transition + Hold)
  <2>1. since \in Nat
    BY <1>1, <1>3
  <2>2. local \in Nat
    <3> HIDE DEF since
    <3>1. PICK m \in Nat \ {0} : m = Transition + Hold
      BY <1>1
    <3> QED  BY <2>1, <3>1
  <2>3. leg \in {1, 2, 3, 4}
    <3> HIDE DEF since
    <3>1. PICK m \in Nat \ {0} : m = Transition + Hold
      BY <1>1
    <3>2. PICK w \in Nat : w = since \div m
      BY <2>1
    <3>3. w % 4 \in {0, 1, 2, 3}
      OBVIOUS
    <3> QED  BY <3>1, <3>2, <3>3
  <2>4. Offset(n) = IF local < Transition THEN Quintic(LegStarts[leg], LegEnds[leg], local)
                    ELSE LegEnds[leg]
    BY <1>3 DEF Offset
  <2> HIDE DEF since, leg, local
  <2>5. LegEnds[leg] \in -Amplitude .. Amplitude
    BY <1>1, <2>3 DEF LegEnds
  <2>6. ASSUME local < Transition
        PROVE  Quintic(LegStarts[leg], LegEnds[leg], local) \in -Amplitude .. Amplitude
    <3>1. /\ Quintic(0, Amplitude, local) \in 0 .. Amplitude
          /\ Quintic(Amplitude, 0, local) \in 0 .. Amplitude
          /\ Quintic(0, -Amplitude, local) \in -Amplitude .. 0
          /\ Quintic(-Amplitude, 0, local) \in -Amplitude .. 0
      BY <1>1, <2>2, <2>6, QuinticBetween
    <3>2. \A x : x \in 0 .. Amplitude \/ x \in -Amplitude .. 0 => x \in -Amplitude .. Amplitude
      BY <1>1
    <3>3. \/ LegStarts[leg] = 0 /\ LegEnds[leg] = Amplitude
          \/ LegStarts[leg] = Amplitude /\ LegEnds[leg] = 0
          \/ LegStarts[leg] = 0 /\ LegEnds[leg] = -Amplitude
          \/ LegStarts[leg] = -Amplitude /\ LegEnds[leg] = 0
      BY <2>3 DEF LegStarts, LegEnds
    <3> QED  BY <3>1, <3>2, <3>3
  <2> QED  BY <2>4, <2>5, <2>6
<1> QED  BY <1>2, <1>3

(* The other joints stay at the reference.                                   *)
LEMMA AtBounds ==
  ASSUME NEW n \in Nat, NEW f \in Features
  PROVE  At(n)[f] \in -Bound .. Bound
<1>1. Amplitude \in Nat /\ Bound \in Nat /\ Amplitude <= Bound
  BY SweepAssumption DEF SweepSpecSound
<1>2. Offset(n) \in -Amplitude .. Amplitude
  BY OffsetBounds
<1>3. At(n)[f] = IF f = ActiveFeature THEN Offset(n) ELSE 0
  BY DEF At
<1> HIDE DEF Offset
<1> QED  BY <1>1, <1>2, <1>3

(* A sample without a fault passed the checks of its time and order, and no  *)
(* fault is the reason of a run that ended well.                             *)
LEMMA SampleFine ==
  ASSUME NEW now, NEW source, NEW sequence, NEW q, NEW healthy
  PROVE  /\ SampleFault(now, source, sequence, q, healthy) # "completed"
         /\ SampleFault(now, source, sequence, q, healthy) = "none" =>
              /\ ~Regressed(now) /\ ~Aged(now) /\ now - source \in 0 .. StateTimeout
              /\ ~(lastSequence # Unset /\ (sequence <= lastSequence \/ source <= lastSource))
<1> DEFINE Far(f, limit) == q[f] > limit \/ -q[f] > limit
      checks == <<
        <<Regressed(now), "non_monotonic_host_time">>,
        <<Aged(now), "feedback_timeout">>,
        <<~healthy, "transport_fault">>,
        <<\E f \in Features : Far(f, Bound), "joint_bounds">>,
        <<now - source \notin 0 .. StateTimeout, "stale_or_future_feedback">>,
        <<lastSequence # Unset /\ (sequence <= lastSequence \/ source <= lastSource),
          "non_monotonic_feedback">>,
        <<rehearsal = "idle" /\ \E f \in Features : Far(f, FirstHold),
          "initial_reference_mismatch">> >>
      failed == {i \in DOMAIN checks : checks[i][1]}
<1>1. DOMAIN checks = 1 .. 7 /\ \A i \in 1 .. 7 : checks[i][2] \notin {"none", "completed"}
  OBVIOUS
<1>2. /\ checks[1][1] = Regressed(now) /\ checks[2][1] = Aged(now)
      /\ checks[5][1] = (now - source \notin 0 .. StateTimeout)
      /\ checks[6][1] =
           (lastSequence # Unset /\ (sequence <= lastSequence \/ source <= lastSource))
  OBVIOUS
<1>3. SampleFault(now, source, sequence, q, healthy) =
        IF failed = {} THEN "none"
        ELSE checks[CHOOSE i \in failed : \A j \in failed : i <= j][2]
  BY DEF SampleFault
<1> HIDE DEF checks
<1>4. ASSUME failed # {}
      PROVE  checks[CHOOSE i \in failed : \A j \in failed : i <= j][2]
               \notin {"none", "completed"}
  <2>1. failed \subseteq 1 .. 7
    BY <1>1
  <2> HIDE DEF failed
  <2>2. \E i \in failed : \A j \in failed : i <= j
    <3>1. failed \subseteq Nat
      BY <2>1
    <3> QED  BY <1>4, <3>1, LeastOf
  <2>3. (CHOOSE i \in failed : \A j \in failed : i <= j) \in failed
    BY <2>2
  <2> QED  BY <1>1, <2>1, <2>3
<1>5. ASSUME failed = {}
      PROVE  ~checks[1][1] /\ ~checks[2][1] /\ ~checks[5][1] /\ ~checks[6][1]
  <2>1. \A i \in 1 .. 7 : ~checks[i][1]
    BY <1>1, <1>5
  <2> QED  BY <2>1
<1> HIDE DEF failed
<1>6. CASE failed = {}
  <2>1. SampleFault(now, source, sequence, q, healthy) = "none"
    BY <1>3, <1>6
  <2> QED  BY <1>2, <1>5, <1>6, <2>1
<1>7. CASE failed # {}
  BY <1>3, <1>4, <1>7
<1> QED  BY <1>6, <1>7

(* What the automaton knows of the samples it has judged: they follow each   *)
(* other within the timeout, no joint was outside through some that span the *)
(* persistence, and since when each is outside.                              *)
Judgements == [source : Nat, outside : SUBSET Features]

Spaced(s) ==
  /\ \A i, j \in 1 .. Len(s) : i < j => s[i].source < s[j].source
  /\ \A k \in 2 .. Len(s) : s[k].source - s[k - 1].source \in 1 .. StateTimeout

OutsideAll(s, f, i, j) == \A k \in i .. j : f \in s[k].outside

NeverLasting(s) ==
  \A f \in Features : \A i, j \in 1 .. Len(s) :
    OutsideAll(s, f, i, j) => s[j].source - s[i].source < Persistence

Timed(s, since) ==
  \A f \in Features :
    IF since[f] = Unset THEN f \notin s[Len(s)].outside
    ELSE /\ since[f] <= s[Len(s)].source
         /\ \A i \in 1 .. Len(s) : OutsideAll(s, f, i, Len(s)) => s[i].source >= since[f]

Tracked(s, since) == Spaced(s) /\ NeverLasting(s) /\ Timed(s, since)

(* What holds of all samples holds of the last ones.                         *)
LEMMA SuffixTracked ==
  ASSUME NEW s \in Seq(Judgements), NEW t \in Seq(Judgements), NEW d \in Nat, NEW since,
         Len(t) = Len(s) - d, Len(t) > 0,
         \A i \in 1 .. Len(t) : t[i] = s[i + d],
         Tracked(s, since)
  PROVE  Tracked(t, since)
<1>1. Len(s) \in Nat /\ Len(t) \in Nat /\ Len(t) + d = Len(s)
  OBVIOUS
<1>2. \A i \in 1 .. Len(t) : i + d \in 1 .. Len(s)
  BY <1>1
<1>3. Spaced(t)
  <2>1. ASSUME NEW i \in 1 .. Len(t), NEW j \in 1 .. Len(t), i < j
        PROVE  t[i].source < t[j].source
    <3>1. i + d < j + d
      BY <2>1
    <3>2. s[i + d].source < s[j + d].source
      BY <1>2, <3>1 DEF Tracked, Spaced
    <3> QED  BY <3>2
  <2>2. ASSUME NEW k \in 2 .. Len(t)
        PROVE  t[k].source - t[k - 1].source \in 1 .. StateTimeout
    <3>1. k \in 1 .. Len(t) /\ k - 1 \in 1 .. Len(t)
          /\ k + d \in 2 .. Len(s) /\ (k + d) - 1 = (k - 1) + d
      BY <1>1
    <3>2. s[k + d].source - s[(k + d) - 1].source \in 1 .. StateTimeout
      BY <3>1 DEF Tracked, Spaced
    <3>3. t[k] = s[k + d] /\ t[k - 1] = s[(k - 1) + d]
      BY <3>1
    <3> QED  BY <3>1, <3>2, <3>3
  <2> QED  BY <2>1, <2>2 DEF Spaced
<1>4. ASSUME NEW f \in Features, NEW i \in 1 .. Len(t), NEW j \in 1 .. Len(t),
             OutsideAll(t, f, i, j)
      PROVE  OutsideAll(s, f, i + d, j + d)
  <2> SUFFICES ASSUME NEW k \in (i + d) .. (j + d)  PROVE f \in s[k].outside
    BY DEF OutsideAll
  <2>1. k - d \in i .. j /\ k - d \in 1 .. Len(t) /\ (k - d) + d = k
    BY <1>1
  <2>2. f \in t[k - d].outside
    BY <1>4, <2>1 DEF OutsideAll
  <2>3. t[k - d] = s[(k - d) + d]
    BY <2>1
  <2> QED  BY <2>1, <2>2, <2>3
<1>5. NeverLasting(t)
  <2> SUFFICES ASSUME NEW f \in Features, NEW i \in 1 .. Len(t), NEW j \in 1 .. Len(t),
                      OutsideAll(t, f, i, j)
               PROVE  t[j].source - t[i].source < Persistence
    BY DEF NeverLasting
  <2>1. s[j + d].source - s[i + d].source < Persistence
    BY <1>2, <1>4 DEF Tracked, NeverLasting
  <2> QED  BY <2>1
<1>6. Timed(t, since)
  <2> SUFFICES ASSUME NEW f \in Features
               PROVE  IF since[f] = Unset THEN f \notin t[Len(t)].outside
                      ELSE /\ since[f] <= t[Len(t)].source
                           /\ \A i \in 1 .. Len(t) :
                                OutsideAll(t, f, i, Len(t)) => t[i].source >= since[f]
    BY DEF Timed
  <2>1. Len(t) \in 1 .. Len(t) /\ t[Len(t)] = s[Len(s)]
    BY <1>1
  <2>2. IF since[f] = Unset THEN f \notin s[Len(s)].outside
        ELSE /\ since[f] <= s[Len(s)].source
             /\ \A i \in 1 .. Len(s) : OutsideAll(s, f, i, Len(s)) => s[i].source >= since[f]
    BY DEF Tracked, Timed
  <2>3. ASSUME since[f] # Unset, NEW i \in 1 .. Len(t), OutsideAll(t, f, i, Len(t))
        PROVE  t[i].source >= since[f]
    <3>1. OutsideAll(s, f, i + d, Len(s))
      BY <1>1, <1>4, <2>1, <2>3
    <3> QED  BY <1>2, <2>2, <2>3, <3>1
  <2> QED  BY <2>1, <2>2, <2>3
<1> QED  BY <1>3, <1>5, <1>6 DEF Tracked

(* A sample that comes in time, and with it no error that lasts.             *)
LEMMA SampleTracked ==
  ASSUME NEW s \in Seq(Judgements), NEW x \in Judgements,
         errorSince \in [Features -> Nat \cup {Unset}],
         (s = <<>> /\ errorSince = Unerring) \/ (Len(s) > 0 /\ Tracked(s, errorSince)),
         Len(s) > 0 => x.source - s[Len(s)].source \in 1 .. StateTimeout,
         \A f \in x.outside : ~(x.source - ErrorsNow(x.source, x.outside)[f] >= Persistence)
  PROVE  /\ Tracked(Append(s, x), ErrorsNow(x.source, x.outside))
         /\ ErrorsNow(x.source, x.outside) \in [Features -> Nat \cup {Unset}]
<1> DEFINE t == Append(s, x)
           n == Len(s)
           now == ErrorsNow(x.source, x.outside)
<1>1. x.source \in Nat /\ x.outside \subseteq Features /\ n \in Nat
      /\ \A i \in 1 .. n : s[i] \in Judgements
  <2>1. n \in Nat /\ \A i \in 1 .. n : s[i] \in Judgements
    OBVIOUS
  <2>2. x.source \in Nat /\ x.outside \subseteq Features
    BY DEF Judgements
  <2> QED  BY <2>1, <2>2
<1>2. /\ t \in Seq(Judgements) /\ Len(t) = n + 1 /\ t[n + 1] = x
      /\ \A i \in 1 .. n : t[i] = s[i]
  OBVIOUS
<1>3. /\ now \in [Features -> Nat \cup {Unset}]
      /\ \A f \in Features : now[f] = IF f \notin x.outside THEN Unset
                                      ELSE IF errorSince[f] = Unset THEN x.source
                                      ELSE errorSince[f]
  BY <1>1 DEF ErrorsNow
<1>4. Unset \notin Nat /\ Persistence \in Nat \ {0} /\ StateTimeout \in Nat
  BY SweepAssumption DEF Unset
<1>5. \A i \in 1 .. n : s[i].source \in Nat
  <2> SUFFICES ASSUME NEW i \in 1 .. n  PROVE s[i].source \in Nat
    OBVIOUS
  <2>1. s[i] \in Judgements
    BY <1>1
  <2> QED  BY <2>1 DEF Judgements
<1> HIDE DEF t, now, n
<1>6. \A i \in 1 .. n + 1 : i \in 1 .. n \/ i = n + 1
  BY <1>1
<1>7. \A i \in 1 .. n : s[i].source < x.source
  <2> SUFFICES ASSUME NEW i \in 1 .. n  PROVE s[i].source < x.source
    OBVIOUS
  <2>1. n > 0 /\ n \in 1 .. n /\ (i = n \/ i < n)
    BY <1>1
  <2>2. x.source - s[n].source \in 1 .. StateTimeout /\ Tracked(s, errorSince)
    BY <2>1 DEF n
  <2>3. i < n => s[i].source < s[n].source
    BY <2>1, <2>2 DEF Tracked, Spaced, n
  <2>4. s[i].source \in Nat /\ s[n].source \in Nat
    BY <1>5, <2>1
  <2> QED  BY <1>1, <1>4, <2>1, <2>2, <2>3, <2>4
<1>8. Spaced(t)
  <2>1. ASSUME NEW i \in 1 .. n + 1, NEW j \in 1 .. n + 1, i < j
        PROVE  t[i].source < t[j].source
    <3>1. i \in 1 .. n
      BY <1>1, <2>1
    <3>2. CASE j \in 1 .. n
      <4>1. Tracked(s, errorSince)
        BY <3>1, <1>1 DEF n
      <4> QED  BY <1>2, <2>1, <3>1, <3>2, <4>1 DEF Tracked, Spaced, n
    <3>3. CASE j = n + 1
      BY <1>2, <1>7, <3>1, <3>3
    <3> QED  BY <1>6, <3>2, <3>3
  <2>2. ASSUME NEW k \in 2 .. n + 1
        PROVE  t[k].source - t[k - 1].source \in 1 .. StateTimeout
    <3>1. k - 1 \in 1 .. n /\ n > 0 /\ (k \in 2 .. n \/ k = n + 1)
      BY <1>1
    <3>2. CASE k \in 2 .. n
      <4>1. Tracked(s, errorSince) /\ k \in 1 .. n
        BY <1>1, <3>1, <3>2 DEF n
      <4> QED  BY <1>2, <3>1, <3>2, <4>1 DEF Tracked, Spaced, n
    <3>3. CASE k = n + 1
      <4>1. k - 1 = n
        BY <1>1, <3>3
      <4> QED  BY <1>2, <3>1, <3>3, <4>1 DEF n
    <3> QED  BY <3>1, <3>2, <3>3
  <2> QED  BY <1>2, <2>1, <2>2 DEF Spaced
<1>9. ASSUME NEW f \in Features, NEW i \in 1 .. n, OutsideAll(t, f, i, n + 1)
      PROVE  /\ f \in x.outside /\ errorSince[f] # Unset
             /\ s[i].source >= errorSince[f] /\ now[f] = errorSince[f]
  <2>1. n + 1 \in i .. n + 1 /\ n \in i .. n + 1 /\ n \in 1 .. n /\ n > 0
    BY <1>1
  <2>2. f \in x.outside /\ f \in s[n].outside
    BY <1>2, <1>9, <2>1 DEF OutsideAll
  <2>3. OutsideAll(s, f, i, n)
    <3> SUFFICES ASSUME NEW k \in i .. n  PROVE f \in s[k].outside
      BY DEF OutsideAll
    <3>1. k \in i .. n + 1 /\ k \in 1 .. n
      BY <1>1
    <3> QED  BY <1>2, <1>9, <3>1 DEF OutsideAll
  <2>4. Timed(s, errorSince)
    BY <2>1 DEF Tracked, n
  <2>5. errorSince[f] # Unset
    BY <2>2, <2>4 DEF Timed, n
  <2>6. s[i].source >= errorSince[f]
    BY <2>3, <2>4, <2>5 DEF Timed, n
  <2> QED  BY <1>3, <2>2, <2>5, <2>6
<1>10. NeverLasting(t)
  <2> SUFFICES ASSUME NEW f \in Features, NEW i \in 1 .. n + 1, NEW j \in 1 .. n + 1,
                      OutsideAll(t, f, i, j)
               PROVE  t[j].source - t[i].source < Persistence
    BY <1>2 DEF NeverLasting
  <2>1. \A k \in 1 .. n + 1 : t[k].source \in Nat
    BY <1>1, <1>2, <1>5, <1>6
  <2>2. CASE j <= i
    <3>1. t[j].source <= t[i].source
      <4>1. CASE j = i
        BY <2>1, <4>1
      <4>2. CASE j < i
        <5>1. t[j].source < t[i].source
          BY <1>2, <1>8, <4>2 DEF Spaced
        <5> QED  BY <2>1, <5>1
      <4> QED  BY <2>2, <4>1, <4>2
    <3> QED  BY <1>4, <2>1, <3>1
  <2>3. CASE i < j /\ j \in 1 .. n
    <3>1. i \in 1 .. n /\ Tracked(s, errorSince)
      BY <1>1, <2>3 DEF n
    <3>2. OutsideAll(s, f, i, j)
      <4> SUFFICES ASSUME NEW k \in i .. j  PROVE f \in s[k].outside
        BY DEF OutsideAll
      <4>1. k \in 1 .. n
        BY <1>1, <2>3
      <4> QED  BY <1>2, <4>1 DEF OutsideAll
    <3> QED  BY <1>2, <2>3, <3>1, <3>2 DEF Tracked, NeverLasting, n
  <2>4. CASE i < j /\ j = n + 1
    <3>1. i \in 1 .. n
      BY <1>1, <2>4
    <3>2. f \in x.outside /\ s[i].source >= now[f] /\ now[f] \in Nat
      BY <1>3, <1>9, <2>4, <3>1
    <3>3. ~(x.source - now[f] >= Persistence)
      BY <3>2 DEF now
    <3>4. s[i].source \in Nat /\ t[i] = s[i] /\ t[j] = x
      BY <1>2, <1>5, <2>4, <3>1
    <3>5. x.source - s[i].source < Persistence
      BY <1>1, <1>4, <3>2, <3>3, <3>4
    <3> QED  BY <3>4, <3>5
  <2> QED  BY <1>6, <2>2, <2>3, <2>4
<1>11. Timed(t, now)
  <2> SUFFICES ASSUME NEW f \in Features
               PROVE  IF now[f] = Unset THEN f \notin t[n + 1].outside
                      ELSE /\ now[f] <= t[n + 1].source
                           /\ \A i \in 1 .. n + 1 :
                                OutsideAll(t, f, i, n + 1) => t[i].source >= now[f]
    BY <1>2 DEF Timed
  <2>1. CASE f \notin x.outside
    BY <1>2, <1>3, <2>1
  <2>2. CASE f \in x.outside
    <3>1. now[f] # Unset
      BY <1>1, <1>3, <1>4, <2>2
    <3>2. now[f] \in Nat /\ now[f] <= x.source
      <4>1. CASE errorSince[f] = Unset
        BY <1>1, <1>3, <2>2, <4>1
      <4>2. CASE errorSince[f] # Unset
        <5>1. n > 0 /\ n \in 1 .. n
          BY <1>1, <4>2 DEF Unerring, n
        <5>2. Timed(s, errorSince) /\ now[f] = errorSince[f]
          BY <1>3, <2>2, <4>2, <5>1 DEF Tracked, n
        <5>3. errorSince[f] <= s[n].source /\ s[n].source < x.source
          BY <1>7, <4>2, <5>1, <5>2 DEF Timed, n
        <5>4. errorSince[f] \in Nat /\ s[n].source \in Nat
          BY <1>5, <4>2, <5>1
        <5> QED  BY <1>1, <5>2, <5>3, <5>4
      <4> QED  BY <4>1, <4>2
    <3>3. ASSUME NEW i \in 1 .. n + 1, OutsideAll(t, f, i, n + 1)
          PROVE  t[i].source >= now[f]
      <4>1. CASE i \in 1 .. n
        BY <1>2, <1>9, <3>3, <4>1
      <4>2. CASE i = n + 1
        BY <1>1, <1>2, <3>2, <4>2
      <4> QED  BY <1>6, <4>1, <4>2
    <3> QED  BY <1>2, <3>1, <3>2, <3>3
  <2> QED  BY <2>1, <2>2
<1> QED  BY <1>3, <1>8, <1>10, <1>11 DEF Tracked, t, now

(* Newest keeps the last samples.                                            *)
LEMMA NewestSuffix ==
  ASSUME NEW s \in Seq(Judgements), Len(s) > 0
  PROVE  \E d \in Nat : /\ Newest(s) \in Seq(Judgements) /\ Len(Newest(s)) > 0
                        /\ Len(Newest(s)) = Len(s) - d
                        /\ \A i \in 1 .. Len(Newest(s)) : Newest(s)[i] = s[i + d]
<1>1. Persistence \in Nat \ {0} /\ Len(s) \in Nat
  BY SweepAssumption
<1>2. PICK m \in 1 .. Len(s) : Newest(s) = SubSeq(s, m, Len(s))
  <2>1. CASE Len(s) > Persistence + 1
    <3>1. Len(s) - Persistence \in 1 .. Len(s)
      BY <1>1, <2>1
    <3>2. Newest(s) = SubSeq(s, Len(s) - Persistence, Len(s))
      BY <2>1 DEF Newest
    <3> QED  BY <3>1, <3>2
  <2>2. CASE ~(Len(s) > Persistence + 1)
    <3>1. 1 \in 1 .. Len(s)
      BY <1>1
    <3>2. Newest(s) = SubSeq(s, 1, Len(s))
      BY <2>2 DEF Newest
    <3> QED  BY <3>1, <3>2
  <2> QED  BY <2>1, <2>2
<1>3. m - 1 \in Nat /\ m \in Nat /\ Len(s) - (m - 1) > 0
  BY <1>1
<1>4. /\ SubSeq(s, m, Len(s)) \in Seq(Judgements)
      /\ Len(SubSeq(s, m, Len(s))) = Len(s) - (m - 1)
      /\ \A i \in 1 .. Len(s) - (m - 1) : SubSeq(s, m, Len(s))[i] = s[i + (m - 1)]
  BY <1>1, <1>3
<1> QED  BY <1>2, <1>3, <1>4

(* An empty journal of an idle rehearsal, the last samples of a running one, *)
(* what a completed one has seen, and the bounds of the point it gives.      *)
RehearsalTypes ==
  /\ rehearsal \in {"idle", "running", "release_required", "release_failed", "closed"}
  /\ {startNs, hostNow, lastSource, lastSequence} \subseteq Nat \cup {Unset}
  /\ errorSince \in [Features -> Nat \cup {Unset}]
  /\ judged \in Seq(Judgements)

IdleUntouched ==
  rehearsal = "idle" =>
    /\ judged = <<>> /\ errorSince = Unerring
    /\ startNs = Unset /\ lastSource = Unset /\ lastSequence = Unset

RunningTracked ==
  rehearsal = "running" =>
    /\ Len(judged) > 0 /\ Tracked(judged, errorSince)
    /\ lastSource = judged[Len(judged)].source /\ lastSequence \in Nat
    /\ startNs \in Nat /\ hostNow \in Nat /\ startNs <= hostNow
    /\ hostNow - lastSource <= StateTimeout

CompletedTracked ==
  cause = "completed" =>
    /\ ~Running /\ Len(judged) > 0 /\ Spaced(judged) /\ NeverLasting(judged)
    /\ startNs \in Nat /\ hostNow \in Nat
    /\ hostNow - judged[Len(judged)].source <= StateTimeout
    /\ judged[Len(judged)].outside = {}
    /\ judged[Len(judged)].source >= startNs + Duration - StateTimeout

TargetBounded == target # NoTarget => \A f \in Features : target[f] \in -Bound .. Bound

RehearsalInv ==
  /\ RehearsalTypes /\ IdleUntouched /\ RunningTracked /\ CompletedTracked /\ TargetBounded

(* A sample that is accepted, and what it does.                              *)
LEMMA StepAccepts ==
  ASSUME RehearsalInv, NEW now \in Nat, NEW source \in Nat, NEW sequence \in Nat, NEW q,
         NEW healthy, Step(now, source, sequence, q, healthy),
         SampleFault(now, source, sequence, q, healthy) = "none"
  PROVE  RehearsalInv'
<1> DEFINE start   == Begun(now)
           outside == Outside(start, source, q)
           errors  == ErrorsNow(source, outside)
           x       == [source |-> source, outside |-> outside]
           t       == Append(judged, x)
           lasting == \E f \in outside : source - errors[f] >= Persistence
<1>1. /\ Running /\ hostNow' = now /\ startNs' = start /\ errorSince' = errors
      /\ judged' = Newest(t)
      /\ IF lasting
         THEN Release("persistent_tracking_error") /\ UNCHANGED <<lastSource, lastSequence>>
         ELSE /\ lastSource' = source /\ lastSequence' = sequence
              /\ IF now - start >= Duration
                 THEN Release(IF outside # {} THEN "final_tracking_error" ELSE "completed")
                 ELSE /\ rehearsal' = "running" /\ UNCHANGED cause
                      /\ target' = At(now - start)
  BY SampleFine DEF Step, TakesTime
<1>2. /\ ~Regressed(now) /\ ~Aged(now) /\ now - source \in 0 .. StateTimeout
      /\ ~(lastSequence # Unset /\ (sequence <= lastSequence \/ source <= lastSource))
  BY SampleFine
<1>3. outside \subseteq Features /\ x \in Judgements
  BY DEF Outside, Judgements
<1>4. errorSince \in [Features -> Nat \cup {Unset}] /\ judged \in Seq(Judgements)
  BY DEF RehearsalInv, RehearsalTypes
<1>5. errors \in [Features -> Nat \cup {Unset}]
  <2> HIDE DEF outside
  <2> QED  BY <1>3, <1>4 DEF ErrorsNow
<1>6. Unset \notin Nat /\ Persistence \in Nat \ {0} /\ StateTimeout \in Nat
  BY SweepAssumption DEF Unset
<1>7. start \in Nat /\ now - start \in Nat
  <2>1. CASE rehearsal = "idle"
    BY <2>1 DEF Begun
  <2>2. CASE rehearsal = "running"
    <3>1. startNs \in Nat /\ hostNow \in Nat /\ startNs <= hostNow
      BY <2>2 DEF RehearsalInv, RunningTracked
    <3>2. now > hostNow
      BY <1>2, <1>6, <3>1 DEF Regressed
    <3>3. start = startNs
      BY <2>2 DEF Begun
    <3> QED  BY <3>1, <3>2, <3>3
  <2> QED  BY <1>1, <2>1, <2>2 DEF Running
<1> HIDE DEF start, outside, errors
<1>8. \/ judged = <<>> /\ errorSince = Unerring
      \/ /\ Len(judged) > 0 /\ Tracked(judged, errorSince)
         /\ lastSource = judged[Len(judged)].source /\ lastSequence \in Nat
         /\ lastSource \in Nat
  <2>1. CASE rehearsal = "idle"
    BY <2>1 DEF RehearsalInv, IdleUntouched
  <2>2. CASE rehearsal = "running"
    <3>1. /\ Len(judged) > 0 /\ Tracked(judged, errorSince)
          /\ lastSource = judged[Len(judged)].source /\ lastSequence \in Nat
      BY <2>2 DEF RehearsalInv, RunningTracked
    <3>2. judged[Len(judged)] \in Judgements
      BY <1>4, <3>1
    <3> QED  BY <3>1, <3>2 DEF Judgements
  <2> QED  BY <1>1, <2>1, <2>2 DEF Running
<1>9. x.source = source /\ x.outside = outside
  OBVIOUS
<1>10. Len(judged) > 0 => source - judged[Len(judged)].source \in 1 .. StateTimeout
  <2> SUFFICES ASSUME Len(judged) > 0
               PROVE  source - judged[Len(judged)].source \in 1 .. StateTimeout
    OBVIOUS
  <2>1. /\ lastSource = judged[Len(judged)].source /\ lastSequence \in Nat
        /\ lastSource \in Nat
    BY <1>8
  <2>2. ~(source <= lastSource) /\ ~(now - lastSource > StateTimeout)
    BY <1>2, <1>6, <2>1 DEF Aged
  <2> QED  BY <1>2, <1>6, <2>1, <2>2
<1> HIDE DEF x
<1>11. t \in Seq(Judgements) /\ Len(t) = Len(judged) + 1 /\ Len(t) > 0 /\ t[Len(t)] = x
  BY <1>3, <1>4
<1> HIDE DEF t
<1>12. PICK d \in Nat : /\ judged' \in Seq(Judgements) /\ Len(judged') > 0
                        /\ Len(judged') = Len(t) - d
                        /\ \A i \in 1 .. Len(judged') : judged'[i] = t[i + d]
  BY <1>1, <1>11, NewestSuffix
<1>13. judged'[Len(judged')] = x
  <2>1. Len(judged') \in 1 .. Len(judged') /\ Len(judged') + d = Len(t)
    BY <1>11, <1>12
  <2> QED  BY <1>11, <1>12, <2>1
<1>14. ASSUME ~lasting  PROVE Tracked(judged', errorSince')
  <2>1. \A f \in x.outside : ~(x.source - ErrorsNow(x.source, x.outside)[f] >= Persistence)
    BY <1>9, <1>14 DEF errors
  <2>2. Tracked(t, ErrorsNow(x.source, x.outside))
    BY <1>3, <1>4, <1>8, <1>9, <1>10, <2>1, SampleTracked DEF t
  <2>3. Tracked(t, errorSince')
    BY <1>1, <1>9, <2>2 DEF errors
  <2> QED  BY <1>11, <1>12, <2>3, SuffixTracked
<1>15. RehearsalTypes'
  <2>1. rehearsal' \in {"running", "release_required"}
    BY <1>1 DEF Release
  <2>2. {startNs, hostNow, lastSource, lastSequence}' \subseteq Nat \cup {Unset}
    BY <1>1, <1>7 DEF RehearsalInv, RehearsalTypes
  <2> QED  BY <1>1, <1>5, <1>12, <2>1, <2>2 DEF RehearsalTypes
<1>16. IdleUntouched'
  BY <1>1 DEF IdleUntouched, Release
<1>17. RunningTracked'
  <2> SUFFICES ASSUME rehearsal' = "running"  PROVE RunningTracked'
    BY DEF RunningTracked
  <2>1. ~lasting /\ lastSource' = source /\ lastSequence' = sequence
    BY <1>1 DEF Release
  <2>2. startNs' <= hostNow' /\ hostNow' - lastSource' <= StateTimeout
    BY <1>1, <1>2, <1>6, <1>7, <2>1
  <2> QED  BY <1>1, <1>7, <1>9, <1>12, <1>13, <1>14, <2>1, <2>2 DEF RunningTracked
<1>18. CompletedTracked'
  <2> SUFFICES ASSUME cause' = "completed"  PROVE CompletedTracked'
    BY DEF CompletedTracked
  <2>1. cause # "completed"
    BY <1>1 DEF RehearsalInv, CompletedTracked
  <2>2. ~lasting /\ outside = {} /\ now - start >= Duration /\ rehearsal' = "release_required"
    BY <1>1, <2>1 DEF Release
  <2>3. PICK e \in Int : e = Duration
    BY SweepAssumption DEF SweepSpecSound, Duration
  <2>4. source >= start + Duration - StateTimeout
    BY <1>2, <1>6, <1>7, <2>2, <2>3
  <2>5. now - source <= StateTimeout
    BY <1>2, <1>6
  <2> QED  BY <1>1, <1>7, <1>9, <1>12, <1>13, <1>14, <2>2, <2>4, <2>5
          DEF CompletedTracked, Tracked, Running
<1>19. TargetBounded'
  <2> SUFFICES ASSUME target' # NoTarget  PROVE TargetBounded'
    BY DEF TargetBounded
  <2>1. target' = At(now - start)
    BY <1>1 DEF Release
  <2> QED  BY <1>7, <2>1, AtBounds DEF TargetBounded
<1> QED  BY <1>15, <1>16, <1>17, <1>18, <1>19 DEF RehearsalInv

(* Every other step leaves the journal alone and asks for nothing that the   *)
(* completed run would.                                                      *)
LEMMA ReleasesPreserve ==
  ASSUME RehearsalInv,
         UNCHANGED <<startNs, lastSource, lastSequence, errorSince, judged>>,
         hostNow' \in Nat \cup {Unset}, Running,
         rehearsal' = "release_required", cause' # "completed", target' = NoTarget
  PROVE  RehearsalInv'
BY DEF RehearsalInv, RehearsalTypes, IdleUntouched, RunningTracked, CompletedTracked,
       TargetBounded, Tracked, Running

(* A watchdog's poll of a running rehearsal that is neither late nor early   *)
(* changes the time only.                                                    *)
LEMMA PollPreserves ==
  ASSUME RehearsalInv, NEW now \in Nat, Poll(now)
  PROVE  RehearsalInv'
<1>1. UNCHANGED <<startNs, lastSource, lastSequence, errorSince, judged>>
  BY DEF Poll
<1>2. CASE rehearsal # "running"
  <2>1. UNCHANGED <<rehearsal, cause, hostNow>> /\ target' = NoTarget
    BY <1>2 DEF Poll
  <2> QED  BY <1>1, <1>2, <2>1 DEF RehearsalInv, RehearsalTypes, IdleUntouched, RunningTracked,
             CompletedTracked, TargetBounded, Running
<1>3. CASE rehearsal = "running"
  <2>1. hostNow \in Nat /\ startNs \in Nat /\ startNs <= hostNow
    BY <1>3 DEF RehearsalInv, RunningTracked
  <2>2. hostNow' \in Nat
    BY <1>3, <2>1 DEF Poll, TakesTime
  <2>3. CASE Regressed(now) \/ Aged(now)
    <3>1. Release("non_monotonic_host_time") \/ Release("feedback_timeout")
      BY <1>3, <2>3 DEF Poll
    <3> QED  BY <1>1, <1>3, <2>2, <3>1, ReleasesPreserve DEF Release, Running
  <2>4. CASE ~Regressed(now) /\ ~Aged(now)
    <3>1. target' = NoTarget /\ UNCHANGED <<rehearsal, cause>> /\ hostNow' = now
      BY <1>3, <2>4 DEF Poll, TakesTime
    <3>2. now > hostNow
      BY <2>1, <2>4 DEF Regressed, Unset
    <3>3. lastSource = judged[Len(judged)].source /\ judged[Len(judged)] \in Judgements
      BY <1>3 DEF RehearsalInv, RehearsalTypes, RunningTracked
    <3>4. lastSource \in Nat
      BY <3>3 DEF Judgements
    <3>5. now - lastSource <= StateTimeout
      BY <2>4, <3>4, SweepAssumption DEF Aged, Unset
    <3>6. startNs <= now
      BY <2>1, <3>2
    <3>7. cause # "completed"
      BY <1>3 DEF RehearsalInv, CompletedTracked, Running
    <3> QED  BY <1>1, <1>3, <2>1, <3>1, <3>5, <3>6, <3>7 DEF RehearsalInv, RehearsalTypes,
               IdleUntouched, RunningTracked, CompletedTracked, TargetBounded, Running
  <2> QED  BY <2>3, <2>4
<1> QED  BY <1>2, <1>3

(* The evidence of the release ends the rehearsal, its journal stays.        *)
LEMMA AcknowledgePreserves ==
  ASSUME RehearsalInv, NEW disabled, NEW released, AcknowledgeRelease(disabled, released)
  PROVE  RehearsalInv'
<1>1. /\ rehearsal = "release_required" /\ rehearsal' \in {"closed", "release_failed"}
      /\ target' = NoTarget
      /\ UNCHANGED <<cause, startNs, hostNow, lastSource, lastSequence, errorSince, judged>>
  BY DEF AcknowledgeRelease
<1> QED  BY <1>1 DEF RehearsalInv, RehearsalTypes, IdleUntouched, RunningTracked,
           CompletedTracked, TargetBounded, Running

(* An idle rehearsal has judged nothing.                                     *)
LEMMA RehearsalInitInv == RehearsalInit => RehearsalInv
<1> SUFFICES ASSUME RehearsalInit  PROVE RehearsalInv
  OBVIOUS
<1>1. Unerring \in [Features -> Nat \cup {Unset}]
  BY DEF Unerring
<1> QED  BY <1>1 DEF RehearsalInit, RehearsalInv, RehearsalTypes, IdleUntouched,
           RunningTracked, CompletedTracked, TargetBounded

(* Every step of the automaton keeps all of this.                            *)
LEMMA RehearsalStep ==
  ASSUME RehearsalInv, [RehearsalNext]_rehearsalVars
  PROVE  RehearsalInv'
<1>1. ASSUME NEW now \in Nat, Poll(now)  PROVE RehearsalInv'
  BY <1>1, PollPreserves
<1>2. ASSUME NEW now \in Nat, NEW source \in Nat, NEW sequence \in Nat, NEW q, NEW healthy,
             Step(now, source, sequence, q, healthy)
      PROVE  RehearsalInv'
  <2> DEFINE fault == SampleFault(now, source, sequence, q, healthy)
  <2>1. CASE fault = "none"
    BY <1>2, <2>1, StepAccepts
  <2>2. CASE fault # "none"
    <3>1. /\ Running /\ TakesTime(now) /\ Release(fault)
          /\ UNCHANGED <<startNs, lastSource, lastSequence, errorSince, judged>>
      BY <1>2, <2>2 DEF Step
    <3>2. fault # "completed"
      BY SampleFine
    <3>3. hostNow' \in Nat \cup {Unset}
      BY <3>1 DEF TakesTime, RehearsalInv, RehearsalTypes
    <3> HIDE DEF fault
    <3> QED  BY <3>1, <3>2, <3>3, ReleasesPreserve DEF Release
  <2> QED  BY <2>1, <2>2
<1>3. CASE Stop
  <2>1. /\ Running /\ Release("operator_stop")
        /\ UNCHANGED <<startNs, hostNow, lastSource, lastSequence, errorSince, judged>>
    BY <1>3 DEF Stop
  <2>2. hostNow' \in Nat \cup {Unset}
    BY <2>1 DEF RehearsalInv, RehearsalTypes
  <2> QED  BY <2>1, <2>2, ReleasesPreserve DEF Release
<1>4. ASSUME NEW disabled, NEW released, AcknowledgeRelease(disabled, released)
      PROVE  RehearsalInv'
  BY <1>4, AcknowledgePreserves
<1>5. CASE UNCHANGED rehearsalVars
  BY <1>5 DEF rehearsalVars, RehearsalInv, RehearsalTypes, IdleUntouched, RunningTracked,
     CompletedTracked, TargetBounded, Running
<1>6. 0 .. LastInstant \subseteq Nat
  BY SweepAssumption
<1> QED  BY <1>1, <1>2, <1>3, <1>4, <1>5, <1>6 DEF RehearsalNext

(* What is known of the journal is what a tracked run is.                    *)
LEMMA RehearsalInvImplies == RehearsalInv => RunsTracked
<1> SUFFICES ASSUME RehearsalInv  PROVE RunsTracked
  OBVIOUS
<1>1. judged \in Seq(Judgements) /\ Persistence \in Nat
  BY SweepAssumption DEF RehearsalInv, RehearsalTypes
<1>2. ASSUME rehearsal = "running" \/ cause = "completed"
      PROVE  /\ \A f \in Features, i, j \in DOMAIN judged : ~Outlasts(f, i, j)
             /\ \A k \in 2 .. Len(judged) :
                  judged[k].source - judged[k - 1].source \in 1 .. StateTimeout
             /\ hostNow - judged[Len(judged)].source <= StateTimeout
  <2>1. /\ Spaced(judged) /\ NeverLasting(judged)
        /\ hostNow - judged[Len(judged)].source <= StateTimeout
    BY <1>2 DEF RehearsalInv, RunningTracked, CompletedTracked, Tracked
  <2>2. ASSUME NEW f \in Features, NEW i \in DOMAIN judged, NEW j \in DOMAIN judged,
               Outlasts(f, i, j)
        PROVE  FALSE
    <3>1. i \in 1 .. Len(judged) /\ j \in 1 .. Len(judged)
      BY <1>1
    <3>2. judged[j].source - judged[i].source < Persistence
      BY <2>1, <2>2, <3>1 DEF NeverLasting, OutsideAll, Outlasts
    <3>3. judged[i] \in Judgements /\ judged[j] \in Judgements
      BY <1>1, <3>1
    <3>4. judged[i].source \in Nat /\ judged[j].source \in Nat
      BY <3>3 DEF Judgements
    <3> QED  BY <1>1, <2>2, <3>2, <3>4 DEF Outlasts
  <2> QED  BY <2>1, <2>2 DEF Spaced
<1>3. target # NoTarget => \A f \in Features : target[f] \in -Bound .. Bound
  BY DEF RehearsalInv, TargetBounded
<1>4. cause = "completed" =>
        LET final == judged[Len(judged)]
        IN final.outside = {} /\ final.source >= startNs + Duration - StateTimeout
  BY DEF RehearsalInv, CompletedTracked
<1> QED  BY <1>2, <1>3, <1>4 DEF RunsTracked

(* The rehearsal's automaton (trajectory.py) runs on only while its samples  *)
(* come in time and no joint was outside for the persistence, gives points   *)
(* within the bounds only, and completes only on an end that was tracked.    *)
THEOREM RehearsalTracked == RehearsalSpec => []RunsTracked
<1>1. RehearsalInit => RehearsalInv
  BY RehearsalInitInv
<1>2. RehearsalInv /\ [RehearsalNext]_rehearsalVars => RehearsalInv'
  BY RehearsalStep
<1>3. RehearsalInv => RunsTracked
  BY RehearsalInvImplies
<1> QED  BY <1>1, <1>2, <1>3, PTL DEF RehearsalSpec
-----------------------------------------------------------------------------
(* The trim of a dataset.  A source of episodes, each behind the one before, *)
(* is counted, read, planned and written while the collection sessions go on *)
(* adding to it: what was read stays the beginning of it, the plan holds the *)
(* gates of what was read, and what is staged are trimmed episodes.          *)
Episodes == [from : Nat, length : 1 .. MaxLength, gate : 0 .. MaxLength]
Laid(episodes) ==
  /\ episodes \in Seq(Episodes) /\ Len(episodes) > 0
  /\ \A i, j \in 1 .. Len(episodes) :
       i < j => episodes[i].from + episodes[i].length <= episodes[j].from

(* The places of trim_leading_stillness_dataset, and where it has read the   *)
(* source, planned, and opened the writer.                                   *)
MigrationSteps ==
  {"inspect", "target", "load", "plan", "enter", "write", "verify", "commit", "over"}
WithReader == {"plan", "enter", "write", "verify", "commit"}
WithPlan == {"enter", "write", "verify", "commit"}
WithWriter == {"write", "verify", "commit"}

(* What its place tells of the result, of the sibling and of the writer.     *)
StageTells ==
  /\ stage \in MigrationSteps /\ result \in {"none", "PASS", "failed", "DRY_RUN", "killed"}
  /\ taken \in BOOLEAN /\ dryRun \in BOOLEAN
  /\ result = "none" <=> stage # "over"
  /\ stage \in {"load", "plan", "enter"} => staging = "absent"
  /\ stage \in {"inspect", "target", "over"} => staging \in {"absent", "left"}
  /\ stage \notin WithWriter => staged = <<>> /\ writing = <<>>

(* The source is only added to: what was counted and read is its beginning.  *)
Beginning ==
  /\ Laid(sourceSet)
  /\ counted.episodes \in Nat /\ counted.episodes <= Len(sourceSet)
  /\ stage \notin {"inspect", "over"} => counted.episodes > 0
  /\ stage \in WithReader =>
       /\ reader \in Seq(Episodes) /\ Len(reader) <= Len(sourceSet)
       /\ \A i \in 1 .. Len(reader) : reader[i] = sourceSet[i]

(* plan_trims keeps of each episode what follows its gate.                   *)
Planned ==
  stage \in WithPlan =>
    /\ Len(reader) = counted.episodes
    /\ \A i \in 1 .. Len(reader) : reader[i].gate < reader[i].length
    /\ plan = [i \in 1 .. Len(reader) |->
                 [from |-> reader[i].from + reader[i].gate,
                  to   |-> reader[i].from + reader[i].length]]

(* The episodes that were staged are trimmed ones, the buffer the beginning  *)
(* of the next.                                                              *)
Written ==
  stage \in WithWriter =>
    /\ staged \in Seq(Seq(Nat \X Nat)) /\ writing \in Seq(Nat \X Nat)
    /\ Len(staged) <= Len(reader)
    /\ \A i \in 1 .. Len(staged) : staged[i] = Trimmed(sourceSet[i], i)
    /\ writing # <<>> => Len(staged) < Len(reader)
    /\ \A k \in 1 .. Len(writing) :
         writing[k] = <<Current, sourceSet[Current].gate + k - 1>>
    /\ stage # "write" => Len(staged) = Len(reader) /\ writing = <<>>

(* The target is what others took, nothing, or the whole of the counted      *)
(* episodes, and then the result says PASS.                                  *)
Published ==
  /\ taken => targetSet = Others
  /\ targetSet # NoDataset /\ ~taken =>
       /\ result = "PASS"
       /\ targetSet = [i \in 1 .. counted.episodes |-> Trimmed(sourceSet[i], i)]
  /\ result = "PASS" => targetSet # NoDataset /\ ~taken

MigrationInv == StageTells /\ Beginning /\ Planned /\ Written /\ Published

(* The numbers of an episode's record.                                       *)
LEMMA EpisodeTypes ==
  ASSUME NEW e \in Episodes
  PROVE  e.from \in Nat /\ e.length \in Nat \ {0} /\ e.gate \in Nat
BY MigrationAssumption DEF Episodes

(* An episode that is added begins where the last one ended.                 *)
LEMMA ExtendedLaid ==
  ASSUME NEW episodes, Laid(episodes) \/ episodes = <<>>, NEW e \in Recorded
  PROVE  /\ Laid(Extended(episodes, e))
         /\ Len(Extended(episodes, e)) = Len(episodes) + 1
         /\ \A i \in 1 .. Len(episodes) : Extended(episodes, e)[i] = episodes[i]
<1> DEFINE new == [from |-> FramesOf(episodes), length |-> e.length, gate |-> e.gate]
<1>0. episodes \in Seq(Episodes)
  <2>1. CASE Laid(episodes)
    BY <2>1 DEF Laid
  <2>2. CASE episodes = <<>>
    BY <2>2
  <2> QED  BY <2>1, <2>2
<1>1. episodes \in Seq(Episodes) /\ Len(episodes) \in Nat
  BY <1>0
<1>2. e.length \in 1 .. MaxLength /\ e.gate \in 0 .. MaxLength
  BY DEF Recorded
<1>3. /\ FramesOf(episodes) \in Nat
      /\ \A i \in 1 .. Len(episodes) :
           episodes[i].from + episodes[i].length <= FramesOf(episodes)
  <2>1. CASE episodes = <<>>
    BY <2>1 DEF FramesOf
  <2>2. CASE episodes # <<>>
    <3>1. Len(episodes) \in 1 .. Len(episodes)
      BY <1>1, <2>2
    <3>2. \A i \in 1 .. Len(episodes) : episodes[i] \in Episodes
      BY <1>1
    <3>3. \A i \in 1 .. Len(episodes) :
            episodes[i].from \in Nat /\ episodes[i].length \in Nat \ {0}
      BY <3>2, EpisodeTypes
    <3>4. FramesOf(episodes) =
            episodes[Len(episodes)].from + episodes[Len(episodes)].length
      BY <2>2 DEF FramesOf, Last
    <3>5. ASSUME NEW i \in 1 .. Len(episodes)
          PROVE  episodes[i].from + episodes[i].length <= FramesOf(episodes)
      <4>1. CASE i = Len(episodes)
        BY <3>1, <3>3, <3>4, <4>1
      <4>2. CASE i # Len(episodes)
        <5>1. i < Len(episodes)
          BY <1>1, <4>2
        <5>2. episodes[i].from + episodes[i].length <= episodes[Len(episodes)].from
          BY <2>2, <3>1, <5>1 DEF Laid
        <5> QED  BY <3>1, <3>3, <3>4, <5>2
      <4> QED  BY <4>1, <4>2
    <3> QED  BY <3>1, <3>3, <3>4, <3>5
  <2> QED  BY <2>1, <2>2
<1>4. ASSUME NEW f \in Nat
      PROVE  [from |-> f, length |-> e.length, gate |-> e.gate] \in Episodes
  BY <1>2 DEF Episodes
<1>5. new \in Episodes /\ new.from = FramesOf(episodes)
  BY <1>3, <1>4
<1>6. Extended(episodes, e) = Append(episodes, new)
  BY DEF Extended
<1> HIDE DEF new
<1>7. /\ Extended(episodes, e) \in Seq(Episodes)
      /\ Len(Extended(episodes, e)) = Len(episodes) + 1
      /\ \A i \in 1 .. Len(episodes) : Extended(episodes, e)[i] = episodes[i]
      /\ Extended(episodes, e)[Len(episodes) + 1] = new
  BY <1>1, <1>5, <1>6
<1>8. ASSUME NEW i \in 1 .. Len(episodes) + 1, NEW j \in 1 .. Len(episodes) + 1, i < j
      PROVE  Extended(episodes, e)[i].from + Extended(episodes, e)[i].length
               <= Extended(episodes, e)[j].from
  <2>1. i \in 1 .. Len(episodes)
    BY <1>1, <1>8
  <2>2. CASE j \in 1 .. Len(episodes)
    <3>1. episodes # <<>>
      BY <2>1
    <3> QED  BY <1>7, <1>8, <2>1, <2>2, <3>1 DEF Laid
  <2>3. CASE j = Len(episodes) + 1
    BY <1>3, <1>5, <1>7, <2>1, <2>3
  <2> QED  BY <1>1, <2>2, <2>3
<1> QED  BY <1>1, <1>7, <1>8 DEF Laid

(* It begins with a source of an episode or two and no work of its own.      *)
LEMMA MigrationInitInv == MigrationInit => MigrationInv
<1> SUFFICES ASSUME MigrationInit  PROVE MigrationInv
  OBVIOUS
<1>1. PICK e \in Recorded, f \in Recorded :
        sourceSet \in {Extended(<<>>, e), Extended(Extended(<<>>, e), f)}
  BY DEF MigrationInit
<1>2. Laid(Extended(<<>>, e))
  BY ExtendedLaid
<1>3. Laid(Extended(Extended(<<>>, e), f))
  BY <1>2, ExtendedLaid
<1>4. Laid(sourceSet) /\ Len(sourceSet) \in Nat
  BY <1>1, <1>2, <1>3 DEF Laid
<1>5. /\ stage = "inspect" /\ result = "none" /\ taken = FALSE /\ dryRun \in BOOLEAN
      /\ staging = "absent" /\ staged = <<>> /\ writing = <<>> /\ targetSet = NoDataset
      /\ counted.episodes = 0
  BY DEF MigrationInit
<1>6. StageTells
  BY <1>5 DEF StageTells, MigrationSteps, WithWriter
<1>7. Beginning /\ Planned /\ Written /\ Published
  BY <1>4, <1>5 DEF Beginning, Planned, Written, Published, WithReader, WithPlan, WithWriter
<1> QED  BY <1>6, <1>7 DEF MigrationInv

(* A step before the writer, or one that ends the run without publishing.    *)
LEMMA MigrationMoves ==
  ASSUME MigrationInv,
         UNCHANGED <<sourceSet, taken, targetSet>>,
         stage' \in MigrationSteps \ WithWriter,
         \/ stage' # "over" /\ result' = "none" /\ result # "PASS"
         \/ stage' = "over" /\ result' \in {"failed", "DRY_RUN", "killed"} /\ result # "PASS"
         \/ stage' = stage /\ result' = result /\ counted' = counted,
         dryRun' \in BOOLEAN,
         staged' = <<>>, writing' = <<>>,
         staging' \in {"absent", "left"},
         stage' \in {"load", "plan", "enter"} => staging' = "absent",
         counted'.episodes \in Nat /\ counted'.episodes <= Len(sourceSet),
         stage' \notin {"inspect", "over"} => counted'.episodes > 0,
         stage' = "plan" => reader' = sourceSet,
         stage' = "enter" => reader' = reader /\ stage \in {"plan", "enter"},
         Planned'
  PROVE  MigrationInv'
<1>0. StageTells /\ Beginning /\ Published
  BY DEF MigrationInv
<1>1. result' = "PASS" <=> result = "PASS"
  BY <1>0 DEF StageTells
<1>2. StageTells'
  BY <1>0 DEF StageTells, MigrationSteps, WithWriter
<1>3. Beginning'
  <2>1. Laid(sourceSet) /\ Laid(sourceSet)'
    BY <1>0 DEF Beginning, Laid
  <2>2. stage' \in WithReader => stage' \in {"plan", "enter"}
    BY DEF WithReader, WithWriter
  <2>3. CASE stage' = "plan"
    <3>1. sourceSet \in Seq(Episodes) /\ Len(sourceSet) <= Len(sourceSet)
      BY <2>1 DEF Laid
    <3> QED  BY <2>1, <2>3, <3>1 DEF Beginning
  <2>4. CASE stage' = "enter"
    BY <1>0, <2>1, <2>4 DEF Beginning, WithReader
  <2>5. CASE stage' \notin WithReader
    BY <2>1, <2>5 DEF Beginning
  <2> QED  BY <2>2, <2>3, <2>4, <2>5
<1>4. Written'
  BY DEF Written, WithWriter
<1>5. Published'
  <2>1. targetSet # NoDataset /\ ~taken => counted' = counted
    BY <1>0, <1>1 DEF Published
  <2> QED  BY <1>0, <1>1, <2>1 DEF Published
<1> QED  BY <1>2, <1>3, <1>4, <1>5 DEF MigrationInv

(* An index of a frame that an episode has is of some episode.               *)
LEMMA EpisodeAtHas ==
  ASSUME NEW index, NEW k \in DOMAIN reader,
         index - reader[k].from \in 0 .. reader[k].length - 1
  PROVE  /\ EpisodeAt(index) \in DOMAIN reader
         /\ index - reader[EpisodeAt(index)].from \in 0 .. reader[EpisodeAt(index)].length - 1
BY DEF EpisodeAt

(* A number is in one of two stretches that follow each other.               *)
LEMMA OneStretch ==
  ASSUME NEW f \in Nat, NEW l \in Nat, NEW g \in Nat, NEW m \in Nat, NEW n \in Nat,
         n < m, (g + n) - f \in 0 .. l - 1
  PROVE  ~(f + l <= g) /\ ~(g + m <= f)
OBVIOUS

(* What the reader returns at an index of the plan is of its episode.        *)
LEMMA FrameIsOf ==
  ASSUME Laid(sourceSet), NEW i \in 1 .. Len(reader),
         reader \in Seq(Episodes), Len(reader) <= Len(sourceSet),
         \A k \in 1 .. Len(reader) : reader[k] = sourceSet[k],
         NEW n \in Nat, n < reader[i].length
  PROVE  FrameAt(reader[i].from + n, i) = <<i, n>>
<1>1. /\ \A k \in 1 .. Len(reader) : /\ reader[k].from \in Nat
                                     /\ reader[k].length \in Nat \ {0}
      /\ DOMAIN reader = 1 .. Len(reader)
  <2>1. \A k \in 1 .. Len(reader) : reader[k] \in Episodes
    OBVIOUS
  <2> QED  BY <2>1, EpisodeTypes
<1>2. ASSUME NEW j \in 1 .. Len(reader), NEW k \in 1 .. Len(reader), j < k
      PROVE  reader[j].from + reader[j].length <= reader[k].from
  <2>1. Len(reader) \in Nat /\ Len(sourceSet) \in Nat
    BY DEF Laid
  <2>2. j \in 1 .. Len(sourceSet) /\ k \in 1 .. Len(sourceSet)
    BY <2>1
  <2> QED  BY <1>2, <2>2 DEF Laid
<1> DEFINE index == reader[i].from + n
           Has(k) == index - reader[k].from \in 0 .. reader[k].length - 1
<1>3. Has(i)
  BY <1>1
<1>4. ASSUME NEW k \in 1 .. Len(reader), Has(k)
      PROVE  k = i
  <2>1. /\ reader[k].from \in Nat /\ reader[k].length \in Nat
        /\ reader[i].from \in Nat /\ reader[i].length \in Nat
    BY <1>1
  <2>2. (reader[i].from + n) - reader[k].from \in 0 .. reader[k].length - 1
    BY <1>4
  <2>3. /\ ~(reader[k].from + reader[k].length <= reader[i].from)
        /\ ~(reader[i].from + reader[i].length <= reader[k].from)
    BY <2>1, <2>2, OneStretch
  <2>4. ~(k < i) /\ ~(i < k)
    BY <1>2, <2>3
  <2> QED  BY <2>4
<1>5. EpisodeAt(index) = i
  <2>1. i \in DOMAIN reader /\ index - reader[i].from \in 0 .. reader[i].length - 1
    BY <1>1, <1>3
  <2>2. /\ EpisodeAt(index) \in DOMAIN reader
        /\ index - reader[EpisodeAt(index)].from \in 0 .. reader[EpisodeAt(index)].length - 1
    <3> HIDE DEF index
    <3> QED  BY <2>1, EpisodeAtHas
  <2> QED  BY <1>1, <1>4, <2>2
<1>6. FrameAt(index, i) = <<i, index - reader[i].from>>
  <2> HIDE DEF index
  <2> QED  BY <1>5 DEF FrameAt
<1>7. index - reader[i].from = n
  BY <1>1
<1> QED  BY <1>6, <1>7

(* The writer's steps leave all but the buffer and the sibling.              *)
LEMMA WriterSteps ==
  ASSUME MigrationInv, stage \in WithWriter, stage' \in WithWriter,
         UNCHANGED <<collectorVars, targetSet, dryRun, counted, reader, plan, result>>,
         Written'
  PROVE  MigrationInv'
<1>0. /\ StageTells /\ Beginning /\ Planned /\ Published
      /\ UNCHANGED <<sourceSet, taken>>
  BY DEF MigrationInv, collectorVars
<1>1. StageTells'
  BY <1>0 DEF StageTells, MigrationSteps, WithWriter
<1>2. Beginning'
  BY <1>0 DEF Beginning, Laid, WithReader, WithWriter
<1>3. Planned'
  BY <1>0 DEF Planned, WithPlan, WithWriter
<1>4. Published'
  BY <1>0 DEF Published
<1> QED  BY <1>1, <1>2, <1>3, <1>4 DEF MigrationInv

(* A frame that is written is the next of the trimmed episode.               *)
LEMMA WriteFrameStep ==
  ASSUME MigrationInv, WriteFrame
  PROVE  MigrationInv'
<1>1. /\ stage = "write" /\ stage' = "write" /\ Current <= Len(plan)
      /\ plan[Current].from + Len(writing) < plan[Current].to
      /\ writing' = Append(writing, FrameAt(plan[Current].from + Len(writing), Current))
      /\ UNCHANGED <<collectorVars, targetSet, dryRun, counted, reader, plan, result, staged>>
  BY DEF WriteFrame, Untouched
<1>2. /\ Beginning /\ Planned /\ Written
      /\ stage \in WithReader /\ stage \in WithPlan /\ stage \in WithWriter
      /\ sourceSet' = sourceSet
  BY <1>1 DEF MigrationInv, WithReader, WithPlan, WithWriter, collectorVars
<1>3. /\ Laid(sourceSet) /\ reader \in Seq(Episodes) /\ Len(reader) <= Len(sourceSet)
      /\ \A i \in 1 .. Len(reader) : reader[i] = sourceSet[i]
      /\ Len(reader) \in Nat /\ Len(staged) \in Nat /\ Len(writing) \in Nat
      /\ writing \in Seq(Nat \X Nat) /\ staged \in Seq(Seq(Nat \X Nat))
  BY <1>2 DEF Beginning, Written
<1>4. /\ Len(plan) = Len(reader)
      /\ \A i \in 1 .. Len(reader) : /\ plan[i].from = reader[i].from + reader[i].gate
                                     /\ plan[i].to = reader[i].from + reader[i].length
  BY <1>2, <1>3 DEF Planned
<1>5. Current \in 1 .. Len(reader)
  BY <1>1, <1>3, <1>4 DEF Current
<1>6. PICK e \in Episodes : e = reader[Current] /\ e = sourceSet[Current]
  BY <1>3, <1>5
<1>7. e.from \in Nat /\ e.length \in Nat /\ e.gate \in Nat
  BY EpisodeTypes
<1>8. /\ e.gate + Len(writing) \in Nat /\ e.gate + Len(writing) < e.length
      /\ plan[Current].from + Len(writing) = e.from + (e.gate + Len(writing))
  <2>1. plan[Current].from = e.from + e.gate /\ plan[Current].to = e.from + e.length
    BY <1>4, <1>5, <1>6
  <2>2. (e.from + e.gate) + Len(writing) < e.from + e.length
    BY <1>1, <2>1
  <2>3. Len(writing) \in Nat
    BY <1>3
  <2>4. /\ e.gate + Len(writing) \in Nat /\ e.gate + Len(writing) < e.length
        /\ (e.from + e.gate) + Len(writing) = e.from + (e.gate + Len(writing))
    BY ONLY <1>7, <2>2, <2>3
  <2> QED  BY <2>1, <2>4
<1>9. FrameAt(plan[Current].from + Len(writing), Current) = <<Current, e.gate + Len(writing)>>
  <2>1. FrameAt(reader[Current].from + (e.gate + Len(writing)), Current)
          = <<Current, e.gate + Len(writing)>>
    BY <1>3, <1>5, <1>6, <1>8, FrameIsOf
  <2> QED  BY <1>6, <1>8, <2>1
<1>10. <<Current, e.gate + Len(writing)>> \in Nat \X Nat
  BY <1>3, <1>5, <1>8
<1>11. /\ writing' \in Seq(Nat \X Nat) /\ Len(writing') = Len(writing) + 1
       /\ \A k \in 1 .. Len(writing) : writing'[k] = writing[k]
       /\ writing'[Len(writing) + 1] = <<Current, e.gate + Len(writing)>>
  <2>1. PICK x \in Nat \X Nat : x = <<Current, e.gate + Len(writing)>>
    BY <1>10
  <2>2. writing' = Append(writing, x)
    BY <1>1, <1>9, <2>1
  <2> QED  BY <1>3, <2>1, <2>2
<1>12. ASSUME NEW k \in 1 .. Len(writing')
       PROVE  writing'[k] = <<Current, e.gate + k - 1>>
  <2>1. CASE k \in 1 .. Len(writing)
    <3>1. writing[k] = <<Current, e.gate + k - 1>>
      BY <1>2, <1>6, <2>1 DEF Written
    <3> QED  BY <1>11, <2>1, <3>1
  <2>2. CASE k = Len(writing) + 1
    <3>1. e.gate + k - 1 = e.gate + Len(writing)
      BY <1>3, <1>7, <2>2
    <3> QED  BY <1>11, <2>2, <3>1
  <2>3. k \in 1 .. Len(writing) \/ k = Len(writing) + 1
    BY <1>3, <1>11
  <2> QED  BY <2>1, <2>2, <2>3
<1>13. Current' = Current /\ Len(staged) < Len(reader)
  BY <1>1, <1>3, <1>5 DEF Current
<1>14. \A i \in 1 .. Len(staged) : staged[i] = Trimmed(sourceSet[i], i)
  BY <1>2 DEF Written
<1>15. Written'
  BY <1>1, <1>2, <1>3, <1>6, <1>11, <1>12, <1>13, <1>14 DEF Written
<1> QED  BY <1>1, <1>2, <1>15, WriterSteps

(* An episode is saved when its last frame was written.                      *)
LEMMA SaveStep ==
  ASSUME MigrationInv, SaveTrimmed
  PROVE  MigrationInv'
<1>1. /\ stage = "write" /\ stage' = "write" /\ Current <= Len(plan)
      /\ plan[Current].from + Len(writing) = plan[Current].to
      /\ staged' = Append(staged, writing) /\ writing' = <<>>
      /\ UNCHANGED <<collectorVars, targetSet, dryRun, counted, reader, plan, result>>
  BY DEF SaveTrimmed, Untouched
<1>2. /\ Beginning /\ Planned /\ Written
      /\ stage \in WithReader /\ stage \in WithPlan /\ stage \in WithWriter
      /\ sourceSet' = sourceSet
  BY <1>1 DEF MigrationInv, WithReader, WithPlan, WithWriter, collectorVars
<1>3. /\ reader \in Seq(Episodes)
      /\ \A i \in 1 .. Len(reader) : reader[i] = sourceSet[i]
      /\ Len(reader) \in Nat /\ Len(staged) \in Nat /\ Len(writing) \in Nat
      /\ writing \in Seq(Nat \X Nat) /\ staged \in Seq(Seq(Nat \X Nat))
      /\ \A i \in 1 .. Len(staged) : staged[i] = Trimmed(sourceSet[i], i)
  BY <1>2 DEF Beginning, Written
<1>4. /\ Len(plan) = Len(reader)
      /\ \A i \in 1 .. Len(reader) : /\ plan[i].from = reader[i].from + reader[i].gate
                                     /\ plan[i].to = reader[i].from + reader[i].length
  BY <1>2, <1>3 DEF Planned
<1>5. Current \in 1 .. Len(reader) /\ Current = Len(staged) + 1
  BY <1>1, <1>3, <1>4 DEF Current
<1>6. PICK e \in Episodes : e = reader[Current] /\ e = sourceSet[Current]
  BY <1>3, <1>5
<1>7. e.from \in Nat /\ e.length \in Nat /\ e.gate \in Nat
  BY EpisodeTypes
<1>8. Len(writing) = e.length - e.gate
  <2>1. plan[Current].from = e.from + e.gate /\ plan[Current].to = e.from + e.length
    BY <1>4, <1>5, <1>6
  <2>2. (e.from + e.gate) + Len(writing) = e.from + e.length
    BY <1>1, <2>1
  <2>3. Len(writing) \in Nat
    BY <1>3
  <2> QED  BY ONLY <1>7, <2>2, <2>3
<1>9. writing = Trimmed(e, Current)
  <2>1. \A k \in 1 .. Len(writing) : writing[k] = <<Current, e.gate + k - 1>>
    BY <1>2, <1>6 DEF Written
  <2>2. writing = [k \in 1 .. Len(writing) |-> writing[k]]
    BY <1>3
  <2>3. writing = [k \in 1 .. Len(writing) |-> <<Current, e.gate + k - 1>>]
    BY <2>1, <2>2
  <2> QED  BY <1>8, <2>3 DEF Trimmed
<1>10. /\ staged' \in Seq(Seq(Nat \X Nat)) /\ Len(staged') = Len(staged) + 1
       /\ \A i \in 1 .. Len(staged) : staged'[i] = staged[i]
       /\ staged'[Len(staged) + 1] = writing
  <2>1. PICK w \in Seq(Nat \X Nat) : w = writing
    BY <1>3
  <2>2. staged' = Append(staged, w)
    BY <1>1, <2>1
  <2> QED  BY <1>3, <2>1, <2>2
<1>11. ASSUME NEW i \in 1 .. Len(staged')
       PROVE  staged'[i] = Trimmed(sourceSet[i], i)
  <2>1. CASE i \in 1 .. Len(staged)
    BY <1>3, <1>10, <2>1
  <2>2. CASE i = Len(staged) + 1
    BY <1>5, <1>6, <1>9, <1>10, <2>2
  <2> QED  BY <1>3, <1>10, <2>1, <2>2
<1>12. writing' \in Seq(Nat \X Nat) /\ Len(writing') = 0 /\ Len(staged') <= Len(reader)
  BY <1>1, <1>3, <1>5, <1>10
<1>13. Written'
  BY <1>1, <1>2, <1>10, <1>11, <1>12 DEF Written, Trimmed
<1> QED  BY <1>1, <1>2, <1>13, WriterSteps

(* The plan is of what was read, when every gate leaves a frame.             *)
LEMMA PlanStep ==
  ASSUME MigrationInv, PlanTrim
  PROVE  MigrationInv'
<1>1. /\ stage = "plan" /\ Plannable
      /\ UNCHANGED <<collectorVars, targetSet, dryRun, staging, staged, writing, counted, reader>>
      /\ plan' = [i \in DOMAIN reader |->
                    [from |-> reader[i].from + reader[i].gate,
                     to   |-> reader[i].from + reader[i].length]]
      /\ \/ stage' = "over" /\ result' = "DRY_RUN"
         \/ stage' = "enter" /\ result' = result
  BY DEF PlanTrim, Untouched, Finishes, Reaches
<1>2. /\ StageTells /\ Beginning /\ UNCHANGED <<sourceSet, taken>>
      /\ result = "none" /\ staging = "absent" /\ staged = <<>> /\ writing = <<>>
      /\ reader \in Seq(Episodes)
  BY <1>1 DEF MigrationInv, StageTells, Beginning, collectorVars, WithReader, WithWriter
<1>3. /\ DOMAIN reader = 1 .. Len(reader) /\ Len(reader) = counted.episodes
      /\ \A i \in 1 .. Len(reader) : reader[i].gate < reader[i].length
  BY <1>1, <1>2 DEF Plannable
<1>4. Planned'
  BY <1>1, <1>3 DEF Planned, WithPlan
<1>5. /\ counted.episodes \in Nat /\ counted.episodes <= Len(sourceSet)
      /\ counted.episodes > 0 /\ dryRun \in BOOLEAN
  BY <1>1, <1>2 DEF Beginning, StageTells
<1>6. stage' \in MigrationSteps \ WithWriter
  BY <1>1 DEF MigrationSteps, WithWriter
<1> QED  BY <1>1, <1>2, <1>4, <1>5, <1>6, MigrationMoves

(* A run that ends without publishing: by an exception, or killed.           *)
LEMMA EndsUnpublished ==
  ASSUME MigrationInv, stage # "over", stage' = "over", result' \in {"failed", "killed"},
         UNCHANGED <<collectorVars, targetSet, dryRun, counted, reader, plan>>,
         staging' \in {"absent", "left"}, staged' = <<>>, writing' = <<>>
  PROVE  MigrationInv'
<1>1. /\ UNCHANGED <<sourceSet, taken>> /\ result # "PASS" /\ dryRun \in BOOLEAN
      /\ counted.episodes \in Nat /\ counted.episodes <= Len(sourceSet)
  BY DEF collectorVars, MigrationInv, StageTells, Beginning
<1>2. stage' \in MigrationSteps \ WithWriter /\ Planned'
  BY DEF MigrationSteps, WithWriter, WithPlan, Planned
<1> QED  BY <1>1, <1>2, MigrationMoves

(* commit publishes what was staged.                                         *)
LEMMA CommitStep ==
  ASSUME MigrationInv, CommitMigration
  PROVE  MigrationInv'
<1>1. /\ stage = "commit" /\ targetSet = NoDataset /\ targetSet' = staged
      /\ staging' = "absent" /\ staged' = <<>> /\ stage' = "over" /\ result' = "PASS"
      /\ UNCHANGED <<collectorVars, writing, dryRun, counted, reader, plan>>
  BY DEF CommitMigration, Finishes
<1>2. /\ StageTells /\ Beginning /\ Planned /\ Written /\ Published
      /\ UNCHANGED <<sourceSet, taken>>
      /\ stage \in WithWriter /\ stage \in WithPlan /\ stage \in WithReader
  BY <1>1 DEF MigrationInv, collectorVars, WithWriter, WithPlan, WithReader
<1>3. /\ staged \in Seq(Seq(Nat \X Nat)) /\ Len(staged) = counted.episodes /\ writing = <<>>
      /\ \A i \in 1 .. Len(staged) : staged[i] = Trimmed(sourceSet[i], i)
      /\ counted.episodes > 0
  BY <1>1, <1>2 DEF Written, Planned, Beginning
<1>4. ~taken
  <2>1. Len(Others) = 1 /\ Len(NoDataset) = 0
    BY DEF Others, NoDataset
  <2> QED  BY <1>1, <1>2, <2>1 DEF Published
<1>5. targetSet' # NoDataset
  BY <1>1, <1>3 DEF NoDataset
<1>6. targetSet' = [i \in 1 .. counted.episodes |-> Trimmed(sourceSet[i], i)]
  <2>1. staged = [i \in 1 .. Len(staged) |-> staged[i]]
    BY <1>3
  <2>2. staged = [i \in 1 .. Len(staged) |-> Trimmed(sourceSet[i], i)]
    BY <1>3, <2>1
  <2> QED  BY <1>1, <1>3, <2>2
<1>7. StageTells'
  BY <1>1, <1>2, <1>3 DEF StageTells, MigrationSteps, WithWriter
<1>8. Beginning'
  BY <1>1, <1>2 DEF Beginning, Laid, WithReader
<1>9. Planned' /\ Written'
  BY <1>1 DEF Planned, Written, WithPlan, WithWriter
<1>10. Published'
  BY <1>1, <1>2, <1>4, <1>5, <1>6 DEF Published, Trimmed
<1> QED  BY <1>7, <1>8, <1>9, <1>10 DEF MigrationInv

(* An episode that a collection session adds is behind what was read.        *)
LEMMA EndAppendStep ==
  ASSUME MigrationInv, NEW e \in Recorded, EndAppend(e)
  PROVE  MigrationInv'
<1>1. /\ sourceSet' = Extended(sourceSet, e)
      /\ UNCHANGED <<taken, targetSet, staging, staged, writing, stage, dryRun,
                     counted, reader, plan, result>>
  BY DEF EndAppend
<1>2. StageTells /\ Beginning /\ Planned /\ Written /\ Published
  BY DEF MigrationInv
<1>3. /\ Laid(sourceSet') /\ Len(sourceSet') = Len(sourceSet) + 1
      /\ \A i \in 1 .. Len(sourceSet) : sourceSet'[i] = sourceSet[i]
      /\ Len(sourceSet) \in Nat
  <2>1. Laid(sourceSet)
    BY <1>2 DEF Beginning
  <2>2. /\ Laid(Extended(sourceSet, e))
        /\ Len(Extended(sourceSet, e)) = Len(sourceSet) + 1
        /\ \A i \in 1 .. Len(sourceSet) : Extended(sourceSet, e)[i] = sourceSet[i]
    BY <2>1, ExtendedLaid
  <2>3. Len(sourceSet) \in Nat
    BY <2>1 DEF Laid
  <2> QED  BY <1>1, <2>2, <2>3
<1>4. StageTells' /\ Planned'
  BY <1>1, <1>2 DEF StageTells, Planned
<1>5. Beginning'
  <2>1. /\ counted.episodes \in Nat /\ counted.episodes <= Len(sourceSet')
        /\ stage \notin {"inspect", "over"} => counted.episodes > 0
    BY <1>2, <1>3 DEF Beginning
  <2>2. ASSUME stage \in WithReader
        PROVE  /\ reader \in Seq(Episodes) /\ Len(reader) <= Len(sourceSet')
               /\ \A i \in 1 .. Len(reader) : reader[i] = sourceSet'[i]
    <3>1. /\ reader \in Seq(Episodes) /\ Len(reader) <= Len(sourceSet) /\ Len(reader) \in Nat
          /\ \A i \in 1 .. Len(reader) : reader[i] = sourceSet[i]
      BY <1>2, <2>2 DEF Beginning
    <3>2. \A i \in 1 .. Len(reader) : i \in 1 .. Len(sourceSet)
      BY <1>3, <3>1
    <3> QED  BY <1>3, <3>1, <3>2
  <2>3. Laid(sourceSet)'
    BY <1>3 DEF Laid
  <2> QED  BY <1>1, <2>1, <2>2, <2>3 DEF Beginning
<1>6. Written'
  <2> SUFFICES ASSUME stage \in WithWriter  PROVE Written'
    BY <1>1 DEF Written
  <2>1. /\ staged \in Seq(Seq(Nat \X Nat)) /\ writing \in Seq(Nat \X Nat)
        /\ Len(staged) <= Len(reader) /\ Len(reader) <= Len(sourceSet)
        /\ \A i \in 1 .. Len(staged) : staged[i] = Trimmed(sourceSet[i], i)
        /\ writing # <<>> => Len(staged) < Len(reader)
        /\ \A k \in 1 .. Len(writing) :
             writing[k] = <<Current, sourceSet[Current].gate + k - 1>>
        /\ stage # "write" => Len(staged) = Len(reader) /\ writing = <<>>
        /\ Len(staged) \in Nat /\ Len(reader) \in Nat
    <3>1. reader \in Seq(Episodes) /\ Len(reader) <= Len(sourceSet)
      BY <1>2 DEF Beginning, WithReader, WithWriter
    <3>2. staged \in Seq(Seq(Nat \X Nat))
      BY <1>2 DEF Written
    <3>3. Len(staged) \in Nat /\ Len(reader) \in Nat
      BY <3>1, <3>2
    <3> QED  BY <1>2, <3>1, <3>3 DEF Written
  <2>2. ASSUME NEW i \in 1 .. Len(staged)
        PROVE  staged[i] = Trimmed(sourceSet'[i], i)
    <3>1. i \in 1 .. Len(sourceSet)
      BY <1>3, <2>1
    <3> QED  BY <1>3, <2>1, <3>1
  <2>3. ASSUME NEW k \in 1 .. Len(writing)
        PROVE  writing[k] = <<Current, sourceSet'[Current].gate + k - 1>>
    <3>1. Current \in 1 .. Len(sourceSet)
      BY <1>3, <2>1 DEF Current
    <3> QED  BY <1>3, <2>1, <3>1
  <2>4. Current' = Current
    BY <1>1 DEF Current
  <2> QED  BY <1>1, <2>1, <2>2, <2>3, <2>4 DEF Written, Trimmed
<1>7. Published'
  <2>1. ASSUME NEW i \in 1 .. counted.episodes
        PROVE  sourceSet'[i] = sourceSet[i]
    <3>1. i \in 1 .. Len(sourceSet)
      BY <1>2, <1>3 DEF Beginning
    <3> QED  BY <1>3, <3>1
  <2>2. [i \in 1 .. counted.episodes |-> Trimmed(sourceSet'[i], i)]
          = [i \in 1 .. counted.episodes |-> Trimmed(sourceSet[i], i)]
    BY <2>1
  <2> QED  BY <1>1, <1>2, <2>2 DEF Published, Trimmed
<1> QED  BY <1>4, <1>5, <1>6, <1>7 DEF MigrationInv

(* The collection sessions' other steps, and a step that changes nothing.    *)
LEMMA OthersStep ==
  ASSUME MigrationInv,
         \/ BeginAppend \/ UNCHANGED migrationVars
         \/ TakeTarget
  PROVE  MigrationInv'
<1>1. /\ UNCHANGED <<sourceSet, staging, staged, writing, stage, dryRun, counted, reader, plan,
                     result>>
      /\ \/ UNCHANGED <<taken, targetSet>>
         \/ targetSet = NoDataset /\ targetSet' = Others /\ taken' = TRUE
  BY DEF BeginAppend, TakeTarget, migrationVars, collectorVars
<1>2. StageTells /\ Beginning /\ Planned /\ Written /\ Published
  BY DEF MigrationInv
<1>3. StageTells'
  BY <1>1, <1>2 DEF StageTells
<1>4. Beginning'
  BY <1>1, <1>2 DEF Beginning, Laid
<1>5. Planned'
  BY <1>1, <1>2 DEF Planned
<1>6. Written'
  BY <1>1, <1>2 DEF Written, Trimmed, Current
<1>7. Published'
  BY <1>1, <1>2 DEF Published, Trimmed
<1> QED  BY <1>3, <1>4, <1>5, <1>6, <1>7 DEF MigrationInv

(* Every step of the trim and of the sessions beside it keeps all of this.   *)
LEMMA MigrationStep == MigrationInv /\ [MigrationNext]_migrationVars => MigrationInv'
<1> SUFFICES ASSUME MigrationInv, [MigrationNext]_migrationVars  PROVE MigrationInv'
  OBVIOUS
<1>0. /\ StageTells /\ Beginning /\ Planned /\ Written /\ Published /\ Laid(sourceSet)
      /\ counted.episodes \in Nat /\ counted.episodes <= Len(sourceSet) /\ dryRun \in BOOLEAN
      /\ Len(sourceSet) \in Nat /\ Len(sourceSet) > 0
  BY DEF MigrationInv, StageTells, Beginning, Laid
<1>1. CASE InspectSource
  <2>1. /\ stage = "inspect" /\ stage' = "target" /\ result' = result
        /\ counted' = [episodes |-> Len(sourceSet), frames |-> FramesOf(sourceSet)]
        /\ UNCHANGED <<sourceSet, taken, targetSet, dryRun, staging, staged, writing>>
    BY <1>1 DEF InspectSource, Reaches, Untouched, collectorVars
  <2>2. counted'.episodes = Len(sourceSet)
    BY <2>1
  <2>3. /\ stage' \in MigrationSteps \ WithWriter /\ Planned' /\ result = "none"
        /\ staging \in {"absent", "left"} /\ staged = <<>> /\ writing = <<>>
    BY <1>0, <2>1 DEF MigrationSteps, WithWriter, WithPlan, Planned, StageTells
  <2> QED  BY <1>0, <2>1, <2>2, <2>3, MigrationMoves
<1>2. CASE InspectTarget
  <2>1. /\ stage = "target" /\ stage' = "load" /\ result' = result /\ staging = "absent"
        /\ UNCHANGED <<sourceSet, taken, targetSet, dryRun, staging, staged, writing, counted>>
    BY <1>2 DEF InspectTarget, Reaches, Untouched, collectorVars
  <2>2. /\ stage' \in MigrationSteps \ WithWriter /\ Planned' /\ result = "none"
        /\ staged = <<>> /\ writing = <<>> /\ counted.episodes > 0
    BY <1>0, <2>1 DEF MigrationSteps, WithWriter, WithPlan, Planned, StageTells, Beginning
  <2> QED  BY <1>0, <2>1, <2>2, MigrationMoves
<1>3. CASE LoadReader
  <2>1. /\ stage = "load" /\ stage' = "plan" /\ result' = result /\ reader' = sourceSet
        /\ UNCHANGED <<sourceSet, taken, targetSet, dryRun, staging, staged, writing, counted>>
    BY <1>3 DEF LoadReader, Reaches, Untouched, collectorVars
  <2>2. /\ stage' \in MigrationSteps \ WithWriter /\ Planned'
        /\ result = "none" /\ staging = "absent"
        /\ staged = <<>> /\ writing = <<>> /\ counted.episodes > 0
    BY <1>0, <2>1 DEF MigrationSteps, WithWriter, WithPlan, Planned, StageTells, Beginning
  <2> QED  BY <1>0, <2>1, <2>2, MigrationMoves
<1>4. CASE PlanTrim
  BY <1>4, PlanStep
<1>5. CASE EnterTransaction
  <2>1. /\ stage = "enter" /\ stage' = "write" /\ result' = result /\ staging' = "open"
        /\ UNCHANGED <<sourceSet, taken, targetSet, dryRun, staged, writing, counted, reader, plan>>
    BY <1>5 DEF EnterTransaction, Reaches, Untouched, collectorVars
  <2>2. staged = <<>> /\ writing = <<>>
    BY <1>0, <2>1 DEF StageTells, WithWriter
  <2>3. /\ staged \in Seq(Seq(Nat \X Nat)) /\ writing \in Seq(Nat \X Nat)
        /\ Len(staged) = 0 /\ Len(writing) = 0
    BY <2>2
  <2>4. reader \in Seq(Episodes) /\ Len(reader) \in Nat
    BY <1>0, <2>1 DEF Beginning, WithReader
  <2>5. Written'
    BY <2>1, <2>2, <2>3, <2>4 DEF Written
  <2>6. StageTells'
    BY <1>0, <2>1 DEF StageTells, MigrationSteps, WithWriter
  <2>7. Beginning'
    BY <1>0, <2>1 DEF Beginning, Laid, WithReader
  <2>8. Planned'
    BY <1>0, <2>1 DEF Planned, WithPlan
  <2>9. Published'
    BY <1>0, <2>1 DEF Published, Trimmed
  <2> QED  BY <2>5, <2>6, <2>7, <2>8, <2>9 DEF MigrationInv
<1>6. CASE WriteFrame
  BY <1>6, WriteFrameStep
<1>7. CASE SaveTrimmed
  BY <1>7, SaveStep
<1>8. CASE FinishWriter
  <2>1. /\ stage = "write" /\ stage' = "verify" /\ result' = result /\ Current > Len(plan)
        /\ UNCHANGED <<collectorVars, sourceSet, targetSet, dryRun, staging, staged, writing,
                       counted, reader, plan>>
    BY <1>8 DEF FinishWriter, Reaches, Untouched, collectorVars
  <2>2. /\ stage \in WithWriter /\ stage' \in WithWriter /\ stage \in WithPlan
        /\ stage \in WithReader
    BY <2>1 DEF WithWriter, WithPlan, WithReader
  <2>3. reader \in Seq(Episodes) /\ Len(reader) \in Nat
    BY <1>0, <2>2 DEF Beginning
  <2>4. Len(plan) = Len(reader)
    BY <1>0, <2>2, <2>3 DEF Planned
  <2>5. Len(staged) = Len(reader) /\ writing = <<>>
    <3>1. Len(staged) \in Nat /\ Len(staged) <= Len(reader)
          /\ (writing # <<>> => Len(staged) < Len(reader))
      BY <1>0, <2>2 DEF Written
    <3>2. Len(staged) + 1 > Len(reader)
      BY <2>1, <2>4 DEF Current
    <3> QED  BY <2>3, <3>1, <3>2
  <2>6. Written'
    BY <1>0, <2>1, <2>2, <2>5 DEF Written, Current, Trimmed
  <2> QED  BY <2>1, <2>2, <2>6, WriterSteps
<1>9. CASE VerifyStaged
  <2>1. /\ stage = "verify" /\ stage' = "commit" /\ result' = result
        /\ UNCHANGED <<collectorVars, sourceSet, targetSet, dryRun, staged, writing, counted,
                       reader, plan>>
    BY <1>9 DEF VerifyStaged, Reaches, Untouched, collectorVars
  <2>2. stage \in WithWriter /\ stage' \in WithWriter
    BY <2>1 DEF WithWriter
  <2>3. Written'
    BY <1>0, <2>1, <2>2 DEF Written, Current, Trimmed
  <2> QED  BY <2>1, <2>2, <2>3, WriterSteps
<1>10. CASE CommitMigration
  BY <1>10, CommitStep
<1>11. CASE MigrationFails
  <2>1. /\ stage # "over" /\ stage' = "over" /\ result' = "failed"
        /\ UNCHANGED <<collectorVars, targetSet, dryRun, counted, reader, plan>>
        /\ staging' \in {"absent", "left"} /\ staged' = <<>> /\ writing' = <<>>
    BY <1>11 DEF MigrationFails, Raises, Finishes
  <2> QED  BY <2>1, EndsUnpublished
<1>12. CASE KillMigration
  <2>1. /\ stage # "over" /\ stage' = "over" /\ result' = "killed"
        /\ UNCHANGED <<collectorVars, targetSet, dryRun, counted, reader, plan>>
        /\ staging' \in {"absent", "left"} /\ staged' = <<>> /\ writing' = <<>>
    BY <1>12 DEF KillMigration, Finishes, Untouched
  <2> QED  BY <2>1, EndsUnpublished
<1>13. CASE RemoveLeftover
  <2>1. /\ stage = "over" /\ staging' = "absent"
        /\ UNCHANGED <<sourceSet, taken, targetSet, dryRun, staged, writing, stage, counted,
                       reader, plan, result>>
    BY <1>13 DEF RemoveLeftover, Untouched, collectorVars
  <2>2. /\ stage' \in MigrationSteps \ WithWriter /\ Planned' /\ staged = <<>> /\ writing = <<>>
    BY <1>0, <2>1 DEF MigrationSteps, WithWriter, WithPlan, Planned, StageTells
  <2> QED  BY <1>0, <2>1, <2>2, MigrationMoves
<1>14. CASE MigrateAgain
  <2>1. /\ result \in {"failed", "killed", "DRY_RUN"} /\ stage' = "inspect" /\ result' = "none"
        /\ dryRun' \in BOOLEAN /\ counted' = [episodes |-> 0, frames |-> 0]
        /\ UNCHANGED <<sourceSet, taken, targetSet, staging, staged, writing>>
    BY <1>14 DEF MigrateAgain, collectorVars
  <2>2. stage = "over" /\ counted'.episodes = 0
    BY <1>0, <2>1 DEF StageTells
  <2>3. /\ stage' \in MigrationSteps \ WithWriter /\ Planned' /\ staged = <<>> /\ writing = <<>>
        /\ staging \in {"absent", "left"}
    BY <1>0, <2>1, <2>2 DEF MigrationSteps, WithWriter, WithPlan, Planned, StageTells
  <2> QED  BY <1>0, <2>1, <2>2, <2>3, MigrationMoves
<1>15. CASE BeginAppend \/ TakeTarget \/ UNCHANGED migrationVars
  BY <1>15, OthersStep
<1>16. ASSUME NEW e \in Recorded, EndAppend(e)  PROVE MigrationInv'
  BY <1>16, EndAppendStep
<1> QED
  BY <1>1, <1>2, <1>3, <1>4, <1>5, <1>6, <1>7, <1>8, <1>9, <1>10, <1>11, <1>12, <1>13, <1>14,
     <1>15, <1>16 DEF MigrationNext

(* A migrated dataset appears whole or not at all, and in place of none      *)
(* (migration.py, trim_leading_stillness_dataset).                           *)
THEOREM MigrationWhole == MigrationSpec => []MigratedWhole
<1>1. ASSUME MigrationInv  PROVE MigratedWhole
  <2>1. StageTells /\ Published
    BY <1>1 DEF MigrationInv
  <2> QED  BY <2>1 DEF StageTells, Published, MigratedWhole
<1> QED  BY <1>1, MigrationInitInv, MigrationStep, PTL DEF MigrationSpec
-----------------------------------------------------------------------------
(* The force sensor's byte stream.  The buffer is the end of the stream; an  *)
(* accepted frame is whole and dealt with; and every byte dealt with is in   *)
(* an accepted frame, or begins a damaged one, or begins no header, not even *)
(* one that the next read completes.                                         *)
FramingTypes ==
  /\ received \in Seq(Bytes) /\ buffer \in Seq(Bytes) /\ Len(buffer) <= Len(received)
  /\ \A i \in 1 .. Len(buffer) : buffer[i] = received[Dealt + i]
  /\ feeding \in BOOLEAN /\ samples \in Seq(Seq(Bytes))

AcceptedWhole ==
  /\ accepted \subseteq 1 .. Dealt /\ IsFiniteSet(accepted)
  /\ \A j \in accepted : IntactAt(j) /\ ~Inside(j) /\ j + FrameSize - 1 <= Dealt

Broken(i) == HeaderAt(i) /\ i + FrameSize - 1 <= Len(received) /\ FrameFrom(i) \notin Intact

BeginsNone(i) ==
  received[i] = Header[1] => i < Len(received) /\ received[i + 1] # Header[2]

Settled == \A i \in 1 .. Dealt : Inside(i) \/ i \in accepted \/ Broken(i) \/ BeginsNone(i)

FramesCounted ==
  /\ nonfinite = Cardinality(accepted) - Len(samples)
  /\ discarded = Dealt - FrameSize * Cardinality(accepted)
  /\ IsFiniteSet(Damaged) /\ crcFailures = Cardinality(Damaged)

FramesListed == \E places \in [DOMAIN samples -> Delivered] : Lists(places)

NoneWaits == ~feeding => \A i \in 1 .. Len(received) : IntactAt(i) => i <= Dealt

FramingInv ==
  FramingTypes /\ AcceptedWhole /\ Settled /\ FramesCounted /\ FramesListed /\ NoneWaits

(* The numbers of the stream.                                                *)
LEMMA DealtIsNat ==
  ASSUME FramingTypes
  PROVE  /\ Dealt \in Nat /\ Len(received) \in Nat /\ Len(buffer) \in Nat
         /\ Dealt + Len(buffer) = Len(received) /\ FrameSize \in Nat /\ FrameSize > 2
BY FramingAssumption DEF FramingTypes, Dealt

(* A header is its two bytes.                                                *)
LEMMA HeaderIs ==
  ASSUME NEW S, NEW s \in Seq(S), NEW i \in 1 .. Len(s), i < Len(s)
  PROVE  SubSeq(s, i, i + 1) = Header <=> s[i] = Header[1] /\ s[i + 1] = Header[2]
<1>1. i \in Nat /\ i + 1 \in 1 .. Len(s)
  OBVIOUS
<1>2. PICK t : t = SubSeq(s, i, i + 1)
  OBVIOUS
<1>3. t \in Seq(S) /\ Len(t) = 2 /\ t[1] = s[i] /\ t[2] = s[i + 1]
  <2>1. \A k \in i .. i + 1 : s[k] \in S
    BY <1>1
  <2>2. /\ t \in Seq(S) /\ Len(t) = IF i <= i + 1 THEN (i + 1) - i + 1 ELSE 0
        /\ \A k \in 1 .. (i + 1) - i + 1 : t[k] = s[i + k - 1]
    BY <1>1, <1>2, <2>1, SubSeqProperties
  <2>3. i + 1 - 1 = i /\ i + 2 - 1 = i + 1 /\ 1 \in 1 .. (i + 1) - i + 1
        /\ 2 \in 1 .. (i + 1) - i + 1
    BY <1>1
  <2>4. t[1] = s[i + 1 - 1] /\ t[2] = s[i + 2 - 1]
    BY <2>2, <2>3
  <2>5. Len(t) = 2
    BY <1>1, <2>2
  <2>6. t[1] = s[i] /\ t[2] = s[i + 1]
    BY <2>3, <2>4
  <2> QED  BY <2>2, <2>5, <2>6
<1>4. t = [k \in 1 .. 2 |-> t[k]] /\ Header = [k \in 1 .. 2 |-> Header[k]]
  <2>1. DOMAIN t = 1 .. 2
    BY <1>3
  <2>2. t = [k \in DOMAIN t |-> t[k]]
    BY <1>3
  <2> QED  BY <2>1, <2>2, FramingAssumption
<1>5. t = Header <=> t[1] = Header[1] /\ t[2] = Header[2]
  <2>1. ASSUME t[1] = Header[1], t[2] = Header[2]  PROVE t = Header
    <3>1. \A k \in 1 .. 2 : t[k] = Header[k]
      BY <2>1
    <3> QED  BY <1>4, <3>1
  <2> QED  BY <2>1
<1> QED  BY <1>2, <1>3, <1>5

(* Stretches with the same elements are the same.                            *)
LEMMA SameStretch ==
  ASSUME NEW S, NEW s \in Seq(S), NEW t \in Seq(S), NEW i \in Nat \ {0}, NEW j \in Nat \ {0},
         NEW n \in Nat, i + n - 1 <= Len(s), j + n - 1 <= Len(t),
         \A k \in 1 .. n : s[i + k - 1] = t[j + k - 1]
  PROVE  SubSeq(s, i, i + n - 1) = SubSeq(t, j, j + n - 1)
<1> DEFINE u == SubSeq(s, i, i + n - 1)
           v == SubSeq(t, j, j + n - 1)
<1>1. /\ u \in Seq(S) /\ Len(u) = n /\ \A k \in 1 .. n : u[k] = s[i + k - 1]
      /\ v \in Seq(S) /\ Len(v) = n /\ \A k \in 1 .. n : v[k] = t[j + k - 1]
  OBVIOUS
<1> HIDE DEF u, v
<1>2. \A k \in 1 .. n : u[k] = v[k]
  BY <1>1
<1>3. u = v
  BY <1>1, <1>2, SeqEqual
<1> QED  BY <1>3 DEF u, v

(* What begins no header is none, now or after the next read.                *)
LEMMA NoneIsNone ==
  ASSUME FramingTypes, NEW i \in 1 .. Len(received), BeginsNone(i)
  PROVE  ~HeaderAt(i)
<1> SUFFICES ASSUME HeaderAt(i)  PROVE FALSE
  OBVIOUS
<1>1. i < Len(received) /\ SubSeq(received, i, i + 1) = Header
  BY DEF HeaderAt
<1>2. received[i] = Header[1] /\ received[i + 1] = Header[2]
  BY <1>1, HeaderIs DEF FramingTypes
<1> QED  BY <1>1, <1>2 DEF BeginsNone

(* Where no header is, no later byte makes one; the last byte may begin one. *)
LEMMA NoHeaderHere ==
  ASSUME FramingTypes, NEW i \in 1 .. Len(received), i < Len(received), ~HeaderAt(i)
  PROVE  BeginsNone(i)
BY HeaderIs DEF FramingTypes, HeaderAt, BeginsNone

(* The first frame of the buffer is the one of the stream.                   *)
LEMMA FirstIs ==
  ASSUME FramingTypes, 1 \in Headers, Len(buffer) >= FrameSize
  PROVE  /\ HeaderAt(Dealt + 1) /\ FrameFrom(Dealt + 1) = Candidate
         /\ Dealt + FrameSize <= Len(received)
<1>1. /\ Dealt \in Nat /\ Len(received) \in Nat /\ Len(buffer) \in Nat
      /\ Dealt + Len(buffer) = Len(received) /\ FrameSize \in Nat /\ FrameSize > 2
  BY DealtIsNat
<1>2. /\ received \in Seq(Bytes) /\ buffer \in Seq(Bytes)
      /\ \A i \in 1 .. Len(buffer) : buffer[i] = received[Dealt + i]
  BY DEF FramingTypes
<1>3. buffer[1] = Header[1] /\ buffer[2] = Header[2]
  <2>1. SubSeq(buffer, 1, 1 + 1) = Header
    BY DEF Headers
  <2>2. 1 \in 1 .. Len(buffer) /\ 1 < Len(buffer)
    BY <1>1
  <2>3. buffer[1] = Header[1] /\ buffer[1 + 1] = Header[2]
    BY <1>2, <2>1, <2>2, HeaderIs
  <2> QED  BY <2>3
<1>4. received[Dealt + 1] = Header[1] /\ received[(Dealt + 1) + 1] = Header[2]
  <2>1. 1 \in 1 .. Len(buffer) /\ 2 \in 1 .. Len(buffer) /\ (Dealt + 1) + 1 = Dealt + 2
    BY <1>1
  <2> QED  BY <1>2, <1>3, <2>1
<1>5. HeaderAt(Dealt + 1)
  <2>1. Dealt + 1 \in 1 .. Len(received) /\ Dealt + 1 < Len(received)
    BY <1>1
  <2> QED  BY <1>2, <1>4, <2>1, HeaderIs DEF HeaderAt
<1>6. FrameFrom(Dealt + 1) = Candidate
  <2>1. /\ Dealt + 1 \in Nat \ {0} /\ 1 \in Nat \ {0}
        /\ (Dealt + 1) + FrameSize - 1 <= Len(received) /\ 1 + FrameSize - 1 <= Len(buffer)
        /\ 1 + FrameSize - 1 = FrameSize
    BY <1>1
  <2>2. \A k \in 1 .. FrameSize : received[(Dealt + 1) + k - 1] = buffer[1 + k - 1]
    <3> TAKE k \in 1 .. FrameSize
    <3>1. (Dealt + 1) + k - 1 = Dealt + k /\ 1 + k - 1 = k /\ k \in 1 .. Len(buffer)
      BY <1>1
    <3> QED  BY <1>2, <3>1
  <2>3. SubSeq(received, Dealt + 1, (Dealt + 1) + FrameSize - 1)
          = SubSeq(buffer, 1, 1 + FrameSize - 1)
    BY <1>1, <1>2, <2>1, <2>2, SameStretch
  <2> QED  BY <2>1, <2>3 DEF FrameFrom, Candidate
<1> QED  BY <1>1, <1>5, <1>6

LEMMA FramingInitInv == FramingInit => FramingInv
<1> SUFFICES ASSUME FramingInit  PROVE FramingInv
  OBVIOUS
<1>1. /\ received = <<>> /\ buffer = <<>> /\ accepted = {} /\ samples = <<>>
      /\ feeding = FALSE /\ crcFailures = 0 /\ nonfinite = 0 /\ discarded = 0
  BY DEF FramingInit
<1>2. Len(received) = 0 /\ Len(buffer) = 0 /\ Len(samples) = 0 /\ Dealt = 0
  BY <1>1 DEF Dealt
<1>3. FramingTypes /\ AcceptedWhole /\ Settled /\ NoneWaits
  <2>1. 1 .. 0 = {}
    OBVIOUS
  <2>2. FramingTypes
    <3>1. received \in Seq(Bytes) /\ buffer \in Seq(Bytes) /\ samples \in Seq(Seq(Bytes))
      BY <1>1
    <3>2. Len(buffer) <= Len(received)
      BY <1>2
    <3>3. feeding \in BOOLEAN
      BY <1>1
    <3>4. \A i \in 1 .. Len(buffer) : buffer[i] = received[Dealt + i]
      BY <1>2, <2>1
    <3> QED  BY <3>1, <3>2, <3>3, <3>4 DEF FramingTypes
  <2>3. AcceptedWhole
    BY <1>1, FS_EmptySet DEF AcceptedWhole
  <2>4. Settled /\ NoneWaits
    BY <1>2, <2>1 DEF Settled, NoneWaits
  <2> QED  BY <2>2, <2>3, <2>4
<1>4. FramesCounted
  <2>1. Damaged = {}
    BY <1>2 DEF Damaged
  <2> QED  BY <1>1, <1>2, <2>1, FS_EmptySet, FramingAssumption DEF FramesCounted
<1>5. FramesListed
  <2>1. Delivered = {} /\ DOMAIN samples = {}
    BY <1>1 DEF Delivered
  <2>2. samples \in [DOMAIN samples -> Delivered]
    BY <1>1, <2>1
  <2>3. Lists(samples)
    BY <2>1 DEF Lists
  <2> QED  BY <2>2, <2>3 DEF FramesListed
<1> QED  BY <1>3, <1>4, <1>5 DEF FramingInv

(* More bytes change nothing of what was dealt with.                         *)
LEMMA FeedKeeps ==
  ASSUME FramingInv, NEW chunk \in Seq(Bytes), Feed(chunk)
  PROVE  FramingInv'
<1>1. /\ received' = received \o chunk /\ buffer' = buffer \o chunk /\ feeding' = TRUE
      /\ accepted' = accepted /\ samples' = samples
      /\ crcFailures' = crcFailures /\ nonfinite' = nonfinite /\ discarded' = discarded
  BY DEF Feed, counters
<1>2. FramingTypes /\ AcceptedWhole /\ Settled /\ FramesCounted /\ FramesListed
  BY DEF FramingInv
<1>3. /\ Dealt \in Nat /\ Len(received) \in Nat /\ Len(buffer) \in Nat
      /\ Dealt + Len(buffer) = Len(received) /\ FrameSize \in Nat /\ FrameSize > 2
  BY <1>2, DealtIsNat
<1>4. /\ received \in Seq(Bytes) /\ buffer \in Seq(Bytes) /\ samples \in Seq(Seq(Bytes))
      /\ \A i \in 1 .. Len(buffer) : buffer[i] = received[Dealt + i]
  BY <1>2 DEF FramingTypes
<1>5. Len(chunk) \in Nat
  OBVIOUS
<1>6. /\ received' \in Seq(Bytes) /\ Len(received') = Len(received) + Len(chunk)
      /\ buffer' \in Seq(Bytes) /\ Len(buffer') = Len(buffer) + Len(chunk)
      /\ \A i \in 1 .. Len(received) + Len(chunk) :
           received'[i] = IF i <= Len(received) THEN received[i] ELSE chunk[i - Len(received)]
      /\ \A i \in 1 .. Len(buffer) + Len(chunk) :
           buffer'[i] = IF i <= Len(buffer) THEN buffer[i] ELSE chunk[i - Len(buffer)]
  BY <1>1, <1>4, ConcatProperties
<1>7. Dealt' = Dealt
  BY <1>3, <1>5, <1>6 DEF Dealt
<1>8. \A i \in 1 .. Len(received) : received'[i] = received[i]
  BY <1>3, <1>5, <1>6
<1>9. FramingTypes'
  <2>1. ASSUME NEW i \in 1 .. Len(buffer')  PROVE buffer'[i] = received'[Dealt' + i]
    <3>1. i \in 1 .. Len(buffer) + Len(chunk)
      BY <1>6
    <3>2. CASE i <= Len(buffer)
      <4>1. i \in 1 .. Len(buffer) /\ Dealt + i \in 1 .. Len(received)
        BY <1>3, <3>1, <3>2
      <4>2. buffer'[i] = buffer[i]
        BY <1>6, <3>1, <3>2
      <4>3. buffer[i] = received[Dealt + i] /\ received'[Dealt + i] = received[Dealt + i]
        BY <1>4, <1>8, <4>1
      <4> QED  BY <1>7, <4>2, <4>3
    <3>3. CASE ~(i <= Len(buffer))
      <4>1. /\ Dealt + i \in 1 .. Len(received) + Len(chunk) /\ ~(Dealt + i <= Len(received))
            /\ (Dealt + i) - Len(received) = i - Len(buffer)
        BY <1>3, <1>5, <3>1, <3>3
      <4>2. received'[Dealt + i] = chunk[(Dealt + i) - Len(received)]
        BY <1>6, <4>1
      <4>3. buffer'[i] = chunk[i - Len(buffer)]
        BY <1>6, <3>1, <3>3
      <4> QED  BY <1>7, <4>1, <4>2, <4>3
    <3> QED  BY <3>2, <3>3
  <2>2. Len(buffer') <= Len(received')
    BY <1>3, <1>5, <1>6
  <2> QED  BY <1>1, <1>4, <1>6, <2>1, <2>2 DEF FramingTypes
<1>10. ASSUME NEW i \in 1 .. Len(received), i + FrameSize - 1 <= Len(received)
       PROVE  FrameFrom(i)' = FrameFrom(i)
  <2>1. \A k \in 1 .. FrameSize : received'[i + k - 1] = received[i + k - 1]
    <3> TAKE k \in 1 .. FrameSize
    <3>1. i + k - 1 \in 1 .. Len(received)
      BY <1>3, <1>10
    <3> QED  BY <1>8, <3>1
  <2>2. i \in Nat \ {0} /\ i + FrameSize - 1 <= Len(received')
    BY <1>3, <1>5, <1>6, <1>10
  <2>3. received \in Seq(Bytes) /\ received' \in Seq(Bytes) /\ FrameSize \in Nat
    BY <1>3, <1>4, <1>6
  <2>4. SubSeq(received', i, i + FrameSize - 1) = SubSeq(received, i, i + FrameSize - 1)
    BY <1>10, <2>1, <2>2, <2>3, SameStretch
  <2> QED  BY <2>4 DEF FrameFrom
<1>11. ASSUME NEW i \in 1 .. Len(received), i < Len(received)
       PROVE  HeaderAt(i)' <=> HeaderAt(i)
  <2>1. /\ i \in 1 .. Len(received') /\ i < Len(received') /\ i + 1 \in 1 .. Len(received)
    BY <1>3, <1>5, <1>6, <1>11
  <2>2. SubSeq(received', i, i + 1) = Header
          <=> received'[i] = Header[1] /\ received'[i + 1] = Header[2]
    BY <1>6, <2>1, HeaderIs
  <2>3. SubSeq(received, i, i + 1) = Header
          <=> received[i] = Header[1] /\ received[i + 1] = Header[2]
    BY <1>4, <1>11, HeaderIs
  <2>4. received'[i] = received[i] /\ received'[i + 1] = received[i + 1]
    BY <1>8, <2>1
  <2> QED  BY <1>11, <2>1, <2>2, <2>3, <2>4 DEF HeaderAt
<1>12. \A i : Inside(i)' <=> Inside(i)
  BY <1>1 DEF Inside
<1>13. AcceptedWhole'
  <2>1. ASSUME NEW j \in accepted
        PROVE  IntactAt(j)' /\ ~Inside(j)' /\ j + FrameSize - 1 <= Dealt
    <3>1. IntactAt(j) /\ ~Inside(j) /\ j + FrameSize - 1 <= Dealt /\ j \in 1 .. Dealt
      BY <1>2 DEF AcceptedWhole
    <3>2. /\ j \in 1 .. Len(received) /\ j + FrameSize - 1 <= Len(received)
          /\ j < Len(received) /\ j + FrameSize - 1 <= Len(received')
      BY <1>3, <1>5, <1>6, <3>1
    <3> QED  BY <1>10, <1>11, <1>12, <3>1, <3>2 DEF IntactAt
  <2> QED  BY <1>1, <1>2, <1>7, <2>1 DEF AcceptedWhole
<1>14. ASSUME NEW i \in 1 .. Dealt, ~Inside(i), i \notin accepted
       PROVE  /\ Broken(i)' \/ BeginsNone(i)'
              /\ HeaderAt(i)' <=> HeaderAt(i)
  <2>1. i \in 1 .. Len(received)
    BY <1>3
  <2>2. Broken(i) \/ BeginsNone(i)
    BY <1>2, <1>14 DEF Settled
  <2>3. CASE Broken(i)
    <3>1. HeaderAt(i) /\ i + FrameSize - 1 <= Len(received) /\ FrameFrom(i) \notin Intact
          /\ i < Len(received)
      BY <2>3 DEF Broken, HeaderAt
    <3>2. i + FrameSize - 1 <= Len(received')
      BY <1>3, <1>5, <1>6, <2>1, <3>1
    <3> QED  BY <1>10, <1>11, <2>1, <3>1, <3>2 DEF Broken
  <2>4. CASE BeginsNone(i)
    <3>1. BeginsNone(i)'
      <4> SUFFICES ASSUME received'[i] = Header[1]
                   PROVE  i < Len(received') /\ received'[i + 1] # Header[2]
        BY DEF BeginsNone
      <4>1. i < Len(received) /\ received[i + 1] # Header[2]
        BY <1>8, <2>1, <2>4 DEF BeginsNone
      <4>2. i + 1 \in 1 .. Len(received) /\ i < Len(received')
        BY <1>3, <1>5, <1>6, <2>1, <4>1
      <4> QED  BY <1>8, <4>1, <4>2
    <3>2. ~HeaderAt(i)
      BY <1>2, <2>1, <2>4, NoneIsNone
    <3>3. ~HeaderAt(i)'
      <4> SUFFICES ASSUME i < Len(received'), SubSeq(received', i, i + 1) = Header
                   PROVE  FALSE
        BY DEF HeaderAt
      <4>1. i \in 1 .. Len(received')
        BY <1>3, <1>5, <1>6, <2>1
      <4>2. received'[i] = Header[1] /\ received'[i + 1] = Header[2]
        BY <1>6, <4>1, HeaderIs
      <4> QED  BY <3>1, <4>2 DEF BeginsNone
    <3> QED  BY <3>1, <3>2, <3>3
  <2> QED  BY <2>2, <2>3, <2>4
<1>15. Settled'
  BY <1>1, <1>7, <1>12, <1>14 DEF Settled
<1>16. FramesCounted'
  <2>1. Damaged' = Damaged
    BY <1>1, <1>7, <1>12, <1>14 DEF Damaged
  <2> QED  BY <1>1, <1>2, <1>7, <2>1 DEF FramesCounted
<1>17. FramesListed'
  <2>1. \A i \in accepted : FrameFrom(i)' = FrameFrom(i)
    <3> TAKE i \in accepted
    <3>1. i \in 1 .. Dealt /\ i + FrameSize - 1 <= Dealt
      BY <1>2 DEF AcceptedWhole
    <3>2. i \in 1 .. Len(received) /\ i + FrameSize - 1 <= Len(received)
      BY <1>3, <3>1
    <3> QED  BY <1>10, <3>2
  <2>2. Delivered' = Delivered
    BY <1>1, <2>1 DEF Delivered
  <2>3. PICK places \in [DOMAIN samples -> Delivered] : Lists(places)
    BY <1>2 DEF FramesListed
  <2>4. \A k \in DOMAIN places : places[k] \in accepted
    BY DEF Delivered
  <2>5. Lists(places)'
    BY <1>1, <2>1, <2>2, <2>3, <2>4 DEF Lists
  <2> QED  BY <1>1, <2>2, <2>3, <2>5 DEF FramesListed
<1>18. NoneWaits'
  BY <1>1 DEF NoneWaits
<1> QED  BY <1>9, <1>13, <1>15, <1>16, <1>17, <1>18 DEF FramingInv
(* A header in the buffer is one of the stream.                              *)
LEMMA HeadersAre ==
  ASSUME FramingTypes, NEW i \in 1 .. Len(buffer), i < Len(buffer)
  PROVE  i \in Headers <=> HeaderAt(Dealt + i)
<1>1. /\ Dealt \in Nat /\ Len(received) \in Nat /\ Len(buffer) \in Nat
      /\ Dealt + Len(buffer) = Len(received)
  BY DealtIsNat
<1>2. /\ received \in Seq(Bytes) /\ buffer \in Seq(Bytes)
      /\ \A k \in 1 .. Len(buffer) : buffer[k] = received[Dealt + k]
  BY DEF FramingTypes
<1>3. /\ i \in 1 .. Len(buffer) - 1 /\ i + 1 \in 1 .. Len(buffer)
      /\ Dealt + i \in 1 .. Len(received) /\ Dealt + i < Len(received)
      /\ Dealt + (i + 1) = (Dealt + i) + 1
  BY <1>1
<1>4. SubSeq(buffer, i, i + 1) = Header <=> buffer[i] = Header[1] /\ buffer[i + 1] = Header[2]
  BY <1>2, HeaderIs
<1>5. SubSeq(received, Dealt + i, (Dealt + i) + 1) = Header
        <=> received[Dealt + i] = Header[1] /\ received[(Dealt + i) + 1] = Header[2]
  BY <1>2, <1>3, HeaderIs
<1>6. buffer[i] = received[Dealt + i] /\ buffer[i + 1] = received[(Dealt + i) + 1]
  BY <1>2, <1>3
<1>7. i \in Headers <=> SubSeq(buffer, i, i + 1) = Header
  BY <1>3 DEF Headers
<1>8. HeaderAt(Dealt + i) <=> SubSeq(received, Dealt + i, (Dealt + i) + 1) = Header
  BY <1>3 DEF HeaderAt
<1> QED  BY <1>4, <1>5, <1>6, <1>7, <1>8

(* No frame that was accepted reaches what is not dealt with.                *)
LEMMA OutsideIs ==
  ASSUME FramingTypes, AcceptedWhole, NEW i \in Nat, i > Dealt
  PROVE  ~Inside(i) /\ i \notin accepted
<1>1. Dealt \in Nat /\ FrameSize \in Nat
  BY DealtIsNat
<1>2. \A j \in accepted : j \in Nat /\ j <= Dealt /\ j + FrameSize - 1 <= Dealt
  <2> TAKE j \in accepted
  <2>1. j \in 1 .. Dealt /\ j + FrameSize - 1 <= Dealt
    BY DEF AcceptedWhole
  <2> QED  BY <1>1, <2>1
<1>3. ~Inside(i)
  <2> SUFFICES ASSUME NEW j \in accepted, i < j + FrameSize  PROVE FALSE
    BY DEF Inside
  <2>1. j \in Nat /\ j + FrameSize - 1 <= Dealt
    BY <1>2
  <2> QED  BY <1>1, <2>1
<1>4. i \notin accepted
  <2> SUFFICES ASSUME i \in accepted  PROVE FALSE
    OBVIOUS
  <2>1. i <= Dealt
    BY <1>2
  <2> QED  BY <1>1, <2>1
<1> QED  BY <1>3, <1>4

LEMMA DropNumbers ==
  ASSUME NEW r \in Nat, NEW b \in Nat, NEW d \in Nat, d + b = r, NEW n \in Nat, n <= b
  PROVE  /\ r - (b - n) = d + n /\ b - n <= r
         /\ \A k \in 1 .. b - n : n + k \in 1 .. b /\ d + (n + k) = (d + n) + k
OBVIOUS

(* The buffer without its first bytes is still the end of the stream.        *)
LEMMA DropTypes ==
  ASSUME FramingTypes, NEW n \in Nat, n <= Len(buffer), received' = received,
         buffer' = SubSeq(buffer, n + 1, Len(buffer)),
         feeding' \in BOOLEAN, samples' \in Seq(Seq(Bytes))
  PROVE  FramingTypes' /\ Dealt' = Dealt + n
<1>1. /\ Dealt \in Nat /\ Len(received) \in Nat /\ Len(buffer) \in Nat
      /\ Dealt + Len(buffer) = Len(received)
  BY DealtIsNat
<1>2. /\ received \in Seq(Bytes) /\ buffer \in Seq(Bytes)
      /\ \A k \in 1 .. Len(buffer) : buffer[k] = received[Dealt + k]
  BY DEF FramingTypes
<1>3. /\ buffer' \in Seq(Bytes) /\ Len(buffer') = Len(buffer) - n
      /\ \A k \in 1 .. Len(buffer) - n : buffer'[k] = buffer[n + k]
  <2>1. n + 1 \in 1 .. Len(buffer) + 1
    BY <1>1
  <2>2. /\ buffer' \in Seq(Bytes)
        /\ Len(buffer') = IF n + 1 <= Len(buffer) THEN Len(buffer) - (n + 1) + 1 ELSE 0
        /\ \A k \in 1 .. Len(buffer) - (n + 1) + 1 : buffer'[k] = buffer[(n + 1) + k - 1]
    <3>1. \A k \in n + 1 .. Len(buffer) : buffer[k] \in Bytes
      BY <1>1, <1>2
    <3> QED  BY <1>1, <1>2, <3>1, SubSeqProperties
  <2>3. Len(buffer') = Len(buffer) - n
    BY <1>1, <2>2
  <2>4. ASSUME NEW k \in 1 .. Len(buffer) - n  PROVE buffer'[k] = buffer[n + k]
    <3>1. k \in 1 .. Len(buffer) - (n + 1) + 1 /\ (n + 1) + k - 1 = n + k
      BY <1>1
    <3> QED  BY <2>2, <3>1
  <2> QED  BY <2>2, <2>3, <2>4
<1>4. Dealt' = Dealt + n /\ Len(buffer') <= Len(received')
  <2>1. Dealt' = Len(received) - Len(buffer')
    BY DEF Dealt
  <2>2. Len(buffer') = Len(buffer) - n
    BY <1>3
  <2>3. Len(received) - (Len(buffer) - n) = Dealt + n /\ Len(buffer) - n <= Len(received)
    <3>1. n \in Nat /\ n <= Len(buffer)
      OBVIOUS
    <3> QED  BY ONLY <1>1, <3>1
  <2> QED  BY <2>1, <2>2, <2>3
<1>5. ASSUME NEW k \in 1 .. Len(buffer')  PROVE buffer'[k] = received'[Dealt' + k]
  <2>1. /\ k \in 1 .. Len(buffer) - n /\ n + k \in 1 .. Len(buffer)
        /\ Dealt + (n + k) = (Dealt + n) + k
    <3>1. k \in 1 .. Len(buffer) - n
      BY <1>3
    <3> QED  BY <1>1, <3>1, DropNumbers
  <2>2. buffer'[k] = buffer[n + k] /\ buffer[n + k] = received[Dealt + (n + k)]
    BY <1>2, <1>3, <2>1
  <2> QED  BY <1>4, <2>1, <2>2
<1> QED  BY <1>2, <1>3, <1>4, <1>5 DEF FramingTypes

(* Bytes are given up when none begins a header, or when the first begins a  *)
(* damaged frame; a call ends when no whole frame is left.                   *)
LEMMA DropKeeps ==
  ASSUME FramingInv, NEW n \in Nat, n <= Len(buffer), DropFirst(n),
         UNCHANGED <<received, accepted, samples, nonfinite>>, feeding' \in BOOLEAN,
         \/ n = 1 /\ Broken(Dealt + 1) /\ crcFailures' = crcFailures + 1
         \/ crcFailures' = crcFailures /\ \A i \in 1 .. n : BeginsNone(Dealt + i),
         ~feeding' => \A i \in 1 .. Len(received) : IntactAt(i) => i <= Dealt + n
  PROVE  FramingInv'
<1>1. FramingTypes /\ AcceptedWhole /\ Settled /\ FramesCounted /\ FramesListed
  BY DEF FramingInv
<1>2. /\ Dealt \in Nat /\ Len(received) \in Nat /\ Len(buffer) \in Nat
      /\ Dealt + Len(buffer) = Len(received) /\ FrameSize \in Nat /\ FrameSize > 2
  BY <1>1, DealtIsNat
<1>3. /\ received' = received /\ accepted' = accepted /\ samples' = samples
      /\ nonfinite' = nonfinite /\ discarded' = discarded + n
      /\ buffer' = SubSeq(buffer, n + 1, Len(buffer))
  BY DEF DropFirst
<1>4. FramingTypes' /\ Dealt' = Dealt + n
  <2>1. samples' \in Seq(Seq(Bytes))
    BY <1>1, <1>3 DEF FramingTypes
  <2> QED  BY <1>1, <1>3, <2>1, DropTypes
<1>5. \A i : /\ HeaderAt(i)' <=> HeaderAt(i)
             /\ IntactAt(i)' <=> IntactAt(i)
             /\ Inside(i)' <=> Inside(i)
             /\ Broken(i)' <=> Broken(i)
             /\ BeginsNone(i)' <=> BeginsNone(i)
             /\ FrameFrom(i)' = FrameFrom(i)
  BY <1>3 DEF HeaderAt, IntactAt, Inside, Broken, BeginsNone, FrameFrom
<1>6. AcceptedWhole'
  <2>1. accepted \subseteq 1 .. Dealt + n
    BY <1>1, <1>2 DEF AcceptedWhole
  <2>2. ASSUME NEW j \in accepted  PROVE j + FrameSize - 1 <= Dealt + n
    <3>1. j \in 1 .. Dealt /\ j + FrameSize - 1 <= Dealt
      BY <1>1 DEF AcceptedWhole
    <3> QED  BY <1>2, <3>1
  <2> QED  BY <1>1, <1>3, <1>4, <1>5, <2>1, <2>2 DEF AcceptedWhole
<1>7. ASSUME NEW i \in 1 .. Dealt + n, i \notin 1 .. Dealt
      PROVE  /\ ~Inside(i) /\ i \notin accepted
             /\ i \in 1 .. Len(received) /\ i - Dealt \in 1 .. n
             /\ i = Dealt + (i - Dealt)
  <2>1. i \in Nat /\ i > Dealt /\ i \in 1 .. Len(received) /\ i - Dealt \in 1 .. n
        /\ i = Dealt + (i - Dealt)
    BY <1>2, <1>7
  <2> QED  BY <1>1, <2>1, OutsideIs
<1>8. Settled'
  <2>1. ASSUME NEW i \in 1 .. Dealt + n
        PROVE  Inside(i) \/ i \in accepted \/ Broken(i) \/ BeginsNone(i)
    <3>1. CASE i \in 1 .. Dealt
      BY <1>1, <3>1 DEF Settled
    <3>2. CASE i \notin 1 .. Dealt
      <4>1. i - Dealt \in 1 .. n /\ i = Dealt + (i - Dealt)
        BY <1>7, <3>2
      <4>2. CASE n = 1 /\ Broken(Dealt + 1)
        <5>1. i = Dealt + 1
          BY <1>2, <4>1, <4>2
        <5> QED  BY <4>2, <5>1
      <4>3. CASE \A k \in 1 .. n : BeginsNone(Dealt + k)
        <5>1. BeginsNone(Dealt + (i - Dealt))
          BY <4>1, <4>3
        <5> QED  BY <4>1, <5>1
      <4> QED  BY <4>2, <4>3
    <3> QED  BY <3>1, <3>2
  <2> QED  BY <1>3, <1>4, <1>5, <2>1 DEF Settled
<1>9. FramesCounted'
  <2>1. Damaged' = {i \in 1 .. Dealt + n : HeaderAt(i) /\ ~Inside(i)} \ accepted
    BY <1>3, <1>4, <1>5 DEF Damaged
  <2>2. 1 .. Dealt \subseteq 1 .. Dealt + n
    BY <1>2
  <2>3. IsFiniteSet(Damaged) /\ crcFailures = Cardinality(Damaged)
    BY <1>1 DEF FramesCounted
  <2>4. IsFiniteSet(Damaged') /\ crcFailures' = Cardinality(Damaged')
    <3>1. CASE n = 1 /\ Broken(Dealt + 1) /\ crcFailures' = crcFailures + 1
      <4>1. /\ Dealt + 1 \in 1 .. Dealt + n /\ Dealt + 1 \notin 1 .. Dealt
            /\ \A i \in 1 .. Dealt + n : i \in 1 .. Dealt \/ i = Dealt + 1
        BY <1>2, <3>1
      <4>2. ~Inside(Dealt + 1) /\ Dealt + 1 \notin accepted /\ HeaderAt(Dealt + 1)
        BY <1>7, <3>1, <4>1 DEF Broken
      <4>3. Damaged' = Damaged \cup {Dealt + 1} /\ Dealt + 1 \notin Damaged
        BY <2>1, <2>2, <4>1, <4>2 DEF Damaged
      <4> QED  BY <2>3, <3>1, <4>3, FS_AddElement
    <3>2. CASE crcFailures' = crcFailures /\ \A i \in 1 .. n : BeginsNone(Dealt + i)
      <4>1. ASSUME NEW i \in 1 .. Dealt + n, i \notin 1 .. Dealt  PROVE ~HeaderAt(i)
        <5>1. i \in 1 .. Len(received) /\ i - Dealt \in 1 .. n /\ i = Dealt + (i - Dealt)
          BY <1>7, <4>1
        <5>2. BeginsNone(Dealt + (i - Dealt))
          BY <3>2, <5>1
        <5>3. BeginsNone(i)
          BY <5>1, <5>2
        <5> QED  BY <1>1, <5>1, <5>3, NoneIsNone
      <4>2. Damaged' = Damaged
        BY <2>1, <2>2, <4>1 DEF Damaged
      <4> QED  BY <2>3, <3>2, <4>2
    <3> QED  BY <3>1, <3>2
  <2>5. /\ nonfinite = Cardinality(accepted) - Len(samples)
        /\ discarded = Dealt - FrameSize * Cardinality(accepted)
    BY <1>1 DEF FramesCounted
  <2>6. Cardinality(accepted) \in Nat
    BY <1>1, FS_CardinalityType DEF AcceptedWhole
  <2>7. ASSUME NEW c \in Nat, NEW d \in Nat  PROVE d - FrameSize * c + n = (d + n) - FrameSize * c
    <3>1. FrameSize * c \in Int
      BY <1>2
    <3> QED  BY <3>1
  <2>8. discarded' = Dealt' - FrameSize * Cardinality(accepted)
    BY <1>2, <1>3, <1>4, <2>5, <2>6, <2>7
  <2> QED  BY <1>3, <2>4, <2>5, <2>8 DEF FramesCounted
<1>10. FramesListed'
  <2>1. PICK places \in [DOMAIN samples -> Delivered] : Lists(places)
    BY <1>1 DEF FramesListed
  <2>2. Delivered' = Delivered
    BY <1>3, <1>5 DEF Delivered
  <2>3. Lists(places)'
    BY <1>3, <1>5, <2>1, <2>2 DEF Lists
  <2> QED  BY <1>3, <2>1, <2>2, <2>3 DEF FramesListed
<1>11. NoneWaits'
  BY <1>3, <1>4, <1>5 DEF NoneWaits
<1> QED  BY <1>4, <1>6, <1>8, <1>9, <1>10, <1>11 DEF FramingInv

LEMMA DropAllKeeps == FramingInv /\ DropAll => FramingInv'
<1> SUFFICES ASSUME FramingInv, DropAll  PROVE FramingInv'
  OBVIOUS
<1>1. FramingTypes
  BY DEF FramingInv
<1>2. /\ Dealt \in Nat /\ Len(received) \in Nat /\ Len(buffer) \in Nat
      /\ Dealt + Len(buffer) = Len(received) /\ FrameSize \in Nat /\ FrameSize > 2
  BY <1>1, DealtIsNat
<1>3. /\ buffer # <<>> /\ Headers = {} /\ feeding' = FALSE
      /\ DropFirst(Len(buffer) - Kept) /\ crcFailures' = crcFailures
      /\ UNCHANGED <<received, accepted, samples, nonfinite>>
  BY DEF DropAll
<1>4. /\ received \in Seq(Bytes) /\ buffer \in Seq(Bytes)
      /\ \A k \in 1 .. Len(buffer) : buffer[k] = received[Dealt + k]
  BY <1>1 DEF FramingTypes
<1>5. Len(buffer) >= 1 /\ Last(buffer) = buffer[Len(buffer)]
  BY <1>3, <1>4 DEF Last
<1>6. Kept \in {0, 1}
  BY DEF Kept
<1> DEFINE n == Len(buffer) - Kept
<1>7. n \in Nat /\ n <= Len(buffer) /\ Len(buffer) <= n + 1
  BY <1>2, <1>5, <1>6
<1>8. ASSUME NEW i \in 1 .. n  PROVE BeginsNone(Dealt + i)
  <2>1. i \in 1 .. Len(buffer) /\ Dealt + i \in 1 .. Len(received)
    BY <1>2, <1>7
  <2>2. CASE i < Len(buffer)
    <3>1. Dealt + i < Len(received)
      BY <1>2, <2>1, <2>2
    <3>2. ~HeaderAt(Dealt + i)
      BY <1>1, <1>3, <2>1, <2>2, HeadersAre
    <3> QED  BY <1>1, <2>1, <3>1, <3>2, NoHeaderHere
  <2>3. CASE ~(i < Len(buffer))
    <3>1. i = Len(buffer) /\ Kept = 0
      BY <1>2, <1>6, <2>1, <2>3
    <3>2. buffer[i] # Header[1]
      BY <1>5, <3>1 DEF Kept
    <3>3. received[Dealt + i] # Header[1]
      BY <1>4, <2>1, <3>2
    <3> QED  BY <3>3 DEF BeginsNone
  <2> QED  BY <2>2, <2>3
<1>9. ASSUME NEW i \in 1 .. Len(received), IntactAt(i)  PROVE i <= Dealt + n
  <2>1. i < Len(received)
    BY <1>9 DEF IntactAt, HeaderAt
  <2> QED  BY <1>2, <1>7, <2>1
<1> HIDE DEF n
<1>10. DropFirst(n)
  BY <1>3 DEF n
<1> QED  BY <1>3, <1>7, <1>8, <1>9, <1>10, DropKeeps

LEMMA SkipToHeaderKeeps == FramingInv /\ SkipToHeader => FramingInv'
<1> SUFFICES ASSUME FramingInv, SkipToHeader  PROVE FramingInv'
  OBVIOUS
<1>1. FramingTypes
  BY DEF FramingInv
<1>2. /\ Dealt \in Nat /\ Len(received) \in Nat /\ Len(buffer) \in Nat
      /\ Dealt + Len(buffer) = Len(received)
  BY <1>1, DealtIsNat
<1>3. PICK start \in Headers : (\A other \in Headers : start <= other) /\ DropFirst(start - 1)
  BY DEF SkipToHeader
<1>4. /\ feeding' = TRUE /\ crcFailures' = crcFailures
      /\ UNCHANGED <<received, accepted, samples, nonfinite>>
  BY DEF SkipToHeader
<1> DEFINE n == start - 1
<1>5. start \in 1 .. Len(buffer) - 1
  BY DEF Headers
<1>6. n \in Nat /\ n <= Len(buffer) /\ n < start /\ start < Len(buffer)
  BY <1>2, <1>5
<1>7. ASSUME NEW i \in 1 .. n  PROVE BeginsNone(Dealt + i)
  <2>1. /\ i \in 1 .. Len(buffer) /\ i < Len(buffer) /\ ~(start <= i)
        /\ Dealt + i \in 1 .. Len(received) /\ Dealt + i < Len(received)
    BY <1>2, <1>5, <1>6
  <2>2. ~HeaderAt(Dealt + i)
    BY <1>1, <1>3, <2>1, HeadersAre
  <2> QED  BY <1>1, <2>1, <2>2, NoHeaderHere
<1> HIDE DEF n
<1>8. DropFirst(n)
  BY <1>3 DEF n
<1> QED  BY <1>4, <1>6, <1>7, <1>8, DropKeeps

LEMMA RejectFrameKeeps == FramingInv /\ RejectFrame => FramingInv'
<1> SUFFICES ASSUME FramingInv, RejectFrame  PROVE FramingInv'
  OBVIOUS
<1>1. FramingTypes
  BY DEF FramingInv
<1>2. /\ Dealt \in Nat /\ Len(received) \in Nat /\ Len(buffer) \in Nat
      /\ Dealt + Len(buffer) = Len(received) /\ FrameSize \in Nat /\ FrameSize > 2
  BY <1>1, DealtIsNat
<1>3. /\ 1 \in Headers /\ Len(buffer) >= FrameSize /\ Candidate \notin Intact
      /\ feeding' = TRUE /\ crcFailures' = crcFailures + 1 /\ DropFirst(1)
      /\ UNCHANGED <<received, accepted, samples, nonfinite>>
  BY DEF RejectFrame
<1>4. /\ HeaderAt(Dealt + 1) /\ FrameFrom(Dealt + 1) = Candidate
      /\ Dealt + FrameSize <= Len(received)
  BY <1>1, <1>3, FirstIs
<1>5. (Dealt + 1) + FrameSize - 1 <= Len(received) /\ 1 <= Len(buffer)
  BY <1>2, <1>3, <1>4
<1>6. Broken(Dealt + 1)
  BY <1>3, <1>4, <1>5 DEF Broken
<1> QED  BY <1>3, <1>5, <1>6, DropKeeps

(* A call ends with less than a frame left, and so with no whole one.        *)
LEMMA AwaitRestKeeps == FramingInv /\ AwaitRest => FramingInv'
<1> SUFFICES ASSUME FramingInv, AwaitRest  PROVE FramingInv'
  OBVIOUS
<1>1. FramingTypes /\ AcceptedWhole /\ Settled /\ FramesCounted /\ FramesListed
  BY DEF FramingInv
<1>2. /\ Dealt \in Nat /\ Len(received) \in Nat /\ Len(buffer) \in Nat
      /\ Dealt + Len(buffer) = Len(received) /\ FrameSize \in Nat /\ FrameSize > 2
  BY <1>1, DealtIsNat
<1>3. /\ buffer = <<>> \/ Len(buffer) < FrameSize
      /\ received' = received /\ buffer' = buffer /\ accepted' = accepted
      /\ samples' = samples /\ crcFailures' = crcFailures /\ nonfinite' = nonfinite
      /\ discarded' = discarded /\ feeding' = FALSE
  BY DEF AwaitRest, counters
<1>4. Len(buffer) < FrameSize
  BY <1>2, <1>3
<1>5. Dealt' = Dealt
  BY <1>3 DEF Dealt
<1>6. \A i : /\ HeaderAt(i)' <=> HeaderAt(i)
             /\ IntactAt(i)' <=> IntactAt(i)
             /\ Inside(i)' <=> Inside(i)
             /\ Broken(i)' <=> Broken(i)
             /\ BeginsNone(i)' <=> BeginsNone(i)
             /\ FrameFrom(i)' = FrameFrom(i)
  BY <1>3 DEF HeaderAt, IntactAt, Inside, Broken, BeginsNone, FrameFrom
<1>7. FramingTypes' /\ AcceptedWhole' /\ Settled'
  <2>1. FramingTypes'
    BY <1>1, <1>3, <1>5 DEF FramingTypes
  <2>2. AcceptedWhole'
    BY <1>1, <1>3, <1>5, <1>6 DEF AcceptedWhole
  <2>3. Settled'
    BY <1>1, <1>3, <1>5, <1>6 DEF Settled
  <2> QED  BY <2>1, <2>2, <2>3
<1>8. FramesCounted'
  <2>1. Damaged' = Damaged
    BY <1>3, <1>5, <1>6 DEF Damaged
  <2> QED  BY <1>1, <1>3, <1>5, <2>1 DEF FramesCounted
<1>9. FramesListed'
  <2>1. PICK places \in [DOMAIN samples -> Delivered] : Lists(places)
    BY <1>1 DEF FramesListed
  <2>2. Delivered' = Delivered
    BY <1>3, <1>6 DEF Delivered
  <2>3. Lists(places)'
    BY <1>3, <1>6, <2>1, <2>2 DEF Lists
  <2> QED  BY <1>3, <2>1, <2>2, <2>3 DEF FramesListed
<1>10. NoneWaits'
  <2>1. ASSUME NEW i \in 1 .. Len(received), IntactAt(i)  PROVE i <= Dealt
    <3>1. i + FrameSize - 1 <= Len(received)
      BY <2>1 DEF IntactAt
    <3> QED  BY <1>2, <1>4, <3>1
  <2> QED  BY <1>3, <1>5, <1>6, <2>1 DEF NoneWaits
<1> QED  BY <1>7, <1>8, <1>9, <1>10 DEF FramingInv

(* A listing of the m members of D, from the first to the last.            *)
Ascends(places, m, D) ==
  /\ places \in [1 .. m -> D]
  /\ \A i \in D : \E k \in 1 .. m : places[k] = i
  /\ \A k, l \in 1 .. m : k < l => places[k] < places[l]

GoesOn(more, places, m, p) ==
  (\A k \in 1 .. m : more[k] = places[k]) /\ more[m + 1] = p

(* It goes on with the frame that is accepted next.                          *)
LEMMA ListGrows ==
  ASSUME NEW m \in Nat, NEW D, NEW p \in Nat, \A i \in D : i \in Nat /\ i < p,
         NEW places, Ascends(places, m, D)
  PROVE  \E more : Ascends(more, m + 1, D \cup {p}) /\ GoesOn(more, places, m, p)
<1>0. /\ places \in [1 .. m -> D]
      /\ \A i \in D : \E k \in 1 .. m : places[k] = i
      /\ \A k, l \in 1 .. m : k < l => places[k] < places[l]
  BY DEF Ascends
<1> DEFINE more == [k \in 1 .. m + 1 |-> IF k <= m THEN places[k] ELSE p]
<1>1. /\ 1 .. m \subseteq 1 .. m + 1 /\ m + 1 \in 1 .. m + 1
      /\ \A k \in 1 .. m + 1 : k \in 1 .. m \/ k = m + 1
      /\ \A k \in 1 .. m : k <= m
      /\ ~(m + 1 <= m)
  OBVIOUS
<1>2. (\A k \in 1 .. m : more[k] = places[k]) /\ more[m + 1] = p
  BY <1>1
<1>3. more \in [1 .. m + 1 -> D \cup {p}]
  <2>1. \A k \in 1 .. m + 1 : more[k] \in D \cup {p}
    BY <1>0, <1>1, <1>2
  <2> QED  BY <2>1
<1> HIDE DEF more
<1>4. \A i \in D \cup {p} : \E k \in 1 .. m + 1 : more[k] = i
  <2> TAKE i \in D \cup {p}
  <2>1. CASE i \in D
    <3>1. PICK k \in 1 .. m : places[k] = i
      BY <1>0, <2>1
    <3> QED  BY <1>1, <1>2, <3>1
  <2>2. CASE i = p
    BY <1>1, <1>2, <2>2
  <2> QED  BY <2>1, <2>2
<1>5. ASSUME NEW k \in 1 .. m + 1, NEW l \in 1 .. m + 1, k < l  PROVE more[k] < more[l]
  <2>1. k \in 1 .. m
    BY <1>5
  <2>2. CASE l \in 1 .. m
    BY <1>0, <1>2, <1>5, <2>1, <2>2
  <2>3. CASE l = m + 1
    <3>1. places[k] \in D
      BY <1>0, <2>1
    <3> QED  BY <1>2, <2>1, <2>3, <3>1
  <2> QED  BY <1>1, <2>2, <2>3
<1> QED  BY <1>2, <1>3, <1>4, <1>5 DEF Ascends, GoesOn

LEMMA TakeFrameKeeps == FramingInv /\ TakeFrame => FramingInv'
<1> SUFFICES ASSUME FramingInv, TakeFrame  PROVE FramingInv'
  OBVIOUS
<1>1. FramingTypes /\ AcceptedWhole /\ Settled /\ FramesCounted /\ FramesListed
  BY DEF FramingInv
<1>2. /\ Dealt \in Nat /\ Len(received) \in Nat /\ Len(buffer) \in Nat
      /\ Dealt + Len(buffer) = Len(received) /\ FrameSize \in Nat /\ FrameSize > 2
  BY <1>1, DealtIsNat
<1>3. /\ feeding' = TRUE /\ received' = received /\ crcFailures' = crcFailures
      /\ discarded' = discarded
      /\ 1 \in Headers /\ Len(buffer) >= FrameSize /\ Candidate \in Intact
      /\ buffer' = SubSeq(buffer, FrameSize + 1, Len(buffer))
  BY DEF TakeFrame
<1>4. accepted' = accepted \cup {Dealt + 1}
  BY DEF TakeFrame, Dealt
<1>5. /\ HeaderAt(Dealt + 1) /\ FrameFrom(Dealt + 1) = Candidate
      /\ Dealt + FrameSize <= Len(received)
  BY <1>1, <1>3, FirstIs
<1>6. samples \in Seq(Seq(Bytes)) /\ received \in Seq(Bytes)
  BY <1>1 DEF FramingTypes
<1>7. FrameFrom(Dealt + 1) \in Seq(Bytes)
  <2>1. Dealt + 1 \in 1 .. Len(received) + 1 /\ (Dealt + 1) + FrameSize - 1 \in 0 .. Len(received)
    BY <1>2, <1>5
  <2>2. \A k \in Dealt + 1 .. (Dealt + 1) + FrameSize - 1 : received[k] \in Bytes
    BY <1>2, <1>6, <2>1
  <2>3. SubSeq(received, Dealt + 1, (Dealt + 1) + FrameSize - 1) \in Seq(Bytes)
    BY <1>6, <2>1, <2>2, SubSeqProperties
  <2> QED  BY <2>3 DEF FrameFrom
<1>8. \/ /\ FrameFrom(Dealt + 1) \in Finite /\ nonfinite' = nonfinite
         /\ samples' = Append(samples, FrameFrom(Dealt + 1))
      \/ /\ FrameFrom(Dealt + 1) \notin Finite /\ nonfinite' = nonfinite + 1
         /\ samples' = samples
  BY <1>5 DEF TakeFrame
<1>9. FramingTypes' /\ Dealt' = Dealt + FrameSize
  <2>1. samples' \in Seq(Seq(Bytes))
    <3>1. Append(samples, FrameFrom(Dealt + 1)) \in Seq(Seq(Bytes))
      BY <1>6, <1>7, AppendProperties
    <3> QED  BY <1>6, <1>8, <3>1
  <2> QED  BY <1>1, <1>2, <1>3, <2>1, DropTypes
<1>10. \A i : /\ HeaderAt(i)' <=> HeaderAt(i)
              /\ IntactAt(i)' <=> IntactAt(i)
              /\ Broken(i)' <=> Broken(i)
              /\ BeginsNone(i)' <=> BeginsNone(i)
              /\ FrameFrom(i)' = FrameFrom(i)
  BY <1>3 DEF HeaderAt, IntactAt, Broken, BeginsNone, FrameFrom
<1>11. \A i : Inside(i)' <=> Inside(i) \/ (Dealt + 1 < i /\ i < (Dealt + 1) + FrameSize)
  BY <1>4 DEF Inside
<1>12. \A i \in 1 .. Dealt + 1 : Inside(i)' <=> Inside(i)
  <2>1. \A i \in 1 .. Dealt + 1 : ~(Dealt + 1 < i)
    BY <1>2
  <2> QED  BY <1>11, <2>1
<1>13. \A i \in 1 .. Dealt + FrameSize : i \in 1 .. Dealt \/ i = Dealt + 1 \/ Inside(i)'
  <2> TAKE i \in 1 .. Dealt + FrameSize
  <2>1. i \in 1 .. Dealt \/ i = Dealt + 1 \/ (Dealt + 1 < i /\ i < (Dealt + 1) + FrameSize)
    BY <1>2
  <2> QED  BY <1>11, <2>1
<1>14. ~Inside(Dealt + 1) /\ Dealt + 1 \notin accepted
  BY <1>1, <1>2, OutsideIs
<1>15. /\ 1 .. Dealt \subseteq 1 .. Dealt + 1 /\ 1 .. Dealt \subseteq 1 .. Dealt + FrameSize
       /\ Dealt + 1 \in 1 .. Dealt + 1 /\ Dealt + 1 \in 1 .. Dealt + FrameSize
       /\ (Dealt + 1) + FrameSize - 1 = Dealt + FrameSize
  BY <1>2
<1>16. IsFiniteSet(accepted) /\ accepted \subseteq 1 .. Dealt
  BY <1>1 DEF AcceptedWhole
<1>17. /\ IsFiniteSet(accepted') /\ Cardinality(accepted') = Cardinality(accepted) + 1
       /\ Cardinality(accepted) \in Nat
  BY <1>4, <1>14, <1>16, FS_AddElement, FS_CardinalityType
<1>18. AcceptedWhole'
  <2>1. accepted' \subseteq 1 .. Dealt + FrameSize
    BY <1>4, <1>15, <1>16
  <2>2. ASSUME NEW j \in accepted
        PROVE  IntactAt(j)' /\ ~Inside(j)' /\ j + FrameSize - 1 <= Dealt + FrameSize
    <3>1. IntactAt(j) /\ ~Inside(j) /\ j \in 1 .. Dealt
      BY <1>1 DEF AcceptedWhole
    <3>2. j + FrameSize - 1 <= Dealt + FrameSize
      BY <1>2, <3>1
    <3> QED  BY <1>10, <1>12, <1>15, <3>1, <3>2
  <2>3. ASSUME NEW j, j = Dealt + 1
        PROVE  IntactAt(j)' /\ ~Inside(j)' /\ j + FrameSize - 1 <= Dealt + FrameSize
    <3>1. IntactAt(Dealt + 1)
      BY <1>3, <1>5, <1>15 DEF IntactAt
    <3>2. (Dealt + 1) + FrameSize - 1 <= Dealt + FrameSize
      BY <1>2
    <3>3. IntactAt(j) /\ ~Inside(j) /\ j \in 1 .. Dealt + 1
      BY <1>14, <1>15, <2>3, <3>1
    <3> QED  BY <1>10, <1>12, <2>3, <3>2, <3>3
  <2>4. ASSUME NEW j \in accepted'
        PROVE  IntactAt(j)' /\ ~Inside(j)' /\ j + FrameSize - 1 <= Dealt'
    <3>1. j \in accepted \/ j = Dealt + 1
      BY <1>4
    <3>2. IntactAt(j)' /\ ~Inside(j)' /\ j + FrameSize - 1 <= Dealt + FrameSize
      BY <2>2, <2>3, <3>1
    <3> QED  BY <1>9, <3>2
  <2> QED  BY <1>9, <1>17, <2>1, <2>4 DEF AcceptedWhole
<1>19. Settled'
  <2>1. ASSUME NEW i \in 1 .. Dealt + FrameSize
        PROVE  Inside(i)' \/ i \in accepted' \/ Broken(i)' \/ BeginsNone(i)'
    <3>1. CASE i \in 1 .. Dealt
      <4>1. Inside(i) \/ i \in accepted \/ Broken(i) \/ BeginsNone(i)
        BY <1>1, <3>1 DEF Settled
      <4> QED  BY <1>4, <1>10, <1>11, <4>1
    <3>2. CASE i = Dealt + 1
      BY <1>4, <3>2
    <3>3. CASE Inside(i)'
      BY <3>3
    <3> QED  BY <1>13, <3>1, <3>2, <3>3
  <2> QED  BY <1>9, <2>1 DEF Settled
<1>20. FramesCounted'
  <2>1. Damaged' = Damaged
    <3>1. Damaged' = {i \in 1 .. Dealt + FrameSize : HeaderAt(i) /\ ~Inside(i)'} \ accepted'
      BY <1>9, <1>10 DEF Damaged
    <3>2. ASSUME NEW i \in 1 .. Dealt + FrameSize, ~Inside(i)', i \notin accepted'
          PROVE  i \in 1 .. Dealt /\ ~Inside(i) /\ i \notin accepted
      BY <1>4, <1>11, <1>13, <3>2
    <3>3. ASSUME NEW i \in 1 .. Dealt, ~Inside(i), i \notin accepted
          PROVE  i \in 1 .. Dealt + FrameSize /\ ~Inside(i)' /\ i \notin accepted'
      <4>1. i # Dealt + 1
        BY <1>2
      <4> QED  BY <1>4, <1>12, <1>15, <3>3, <4>1
    <3> QED  BY <3>1, <3>2, <3>3 DEF Damaged
  <2>2. /\ nonfinite = Cardinality(accepted) - Len(samples)
        /\ discarded = Dealt - FrameSize * Cardinality(accepted)
        /\ IsFiniteSet(Damaged) /\ crcFailures = Cardinality(Damaged)
    BY <1>1 DEF FramesCounted
  <2>3. nonfinite' = Cardinality(accepted') - Len(samples')
    <3>1. Len(samples) \in Nat /\ Len(Append(samples, FrameFrom(Dealt + 1))) = Len(samples) + 1
      BY <1>6, <1>7
    <3> QED  BY <1>8, <1>17, <2>2, <3>1
  <2>4. ASSUME NEW c \in Nat, NEW d \in Nat
        PROVE  d - FrameSize * c = (d + FrameSize) - FrameSize * (c + 1)
    <3>1. FrameSize * (c + 1) = FrameSize * c + FrameSize /\ FrameSize * c \in Int
      BY <1>2
    <3> QED  BY <1>2, <3>1
  <2>5. discarded' = Dealt' - FrameSize * Cardinality(accepted')
    BY <1>2, <1>3, <1>9, <1>17, <2>2, <2>4
  <2> QED  BY <1>3, <2>1, <2>2, <2>3, <2>5 DEF FramesCounted
<1>21. FramesListed'
  <2>1. PICK places \in [DOMAIN samples -> Delivered] : Lists(places)
    BY <1>1 DEF FramesListed
  <2>2. CASE /\ FrameFrom(Dealt + 1) \in Finite
             /\ samples' = Append(samples, FrameFrom(Dealt + 1))
    <3>1. Delivered' = Delivered \cup {Dealt + 1}
      BY <1>4, <1>10, <2>2 DEF Delivered
    <3>2. /\ Len(samples) \in Nat /\ DOMAIN samples = 1 .. Len(samples)
          /\ DOMAIN samples' = 1 .. Len(samples) + 1
          /\ \A k \in 1 .. Len(samples) : samples'[k] = samples[k]
          /\ samples'[Len(samples) + 1] = FrameFrom(Dealt + 1)
      BY <1>6, <1>7, <2>2
    <3>3. \A i \in Delivered : i \in Nat /\ i < Dealt + 1
      <4>1. \A i \in 1 .. Dealt : i \in Nat /\ i < Dealt + 1
        BY <1>2
      <4> QED  BY <1>16, <4>1 DEF Delivered
    <3>4. /\ places \in [1 .. Len(samples) -> Delivered]
          /\ \A i \in Delivered : \E k \in 1 .. Len(samples) : places[k] = i
          /\ \A k, l \in 1 .. Len(samples) : k < l => places[k] < places[l]
          /\ \A k \in 1 .. Len(samples) : samples[k] = FrameFrom(places[k])
      BY <2>1, <3>2 DEF Lists
    <3>5. Dealt + 1 \in Nat
      BY <1>2
    <3>6. Ascends(places, Len(samples), Delivered)
      BY <3>4 DEF Ascends
    <3>7. PICK more : /\ Ascends(more, Len(samples) + 1, Delivered \cup {Dealt + 1})
                      /\ GoesOn(more, places, Len(samples), Dealt + 1)
      BY <3>2, <3>3, <3>5, <3>6, ListGrows
    <3>8. /\ more \in [1 .. Len(samples) + 1 -> Delivered \cup {Dealt + 1}]
          /\ \A i \in Delivered \cup {Dealt + 1} :
               \E k \in 1 .. Len(samples) + 1 : more[k] = i
          /\ \A k, l \in 1 .. Len(samples) + 1 : k < l => more[k] < more[l]
      BY <3>7 DEF Ascends
    <3>9. ASSUME NEW k \in 1 .. Len(samples) + 1  PROVE samples'[k] = FrameFrom(more[k])
      <4>1. k \in 1 .. Len(samples) \/ k = Len(samples) + 1
        BY <3>2
      <4> QED  BY <3>2, <3>4, <3>7, <4>1 DEF GoesOn
    <3>10. DOMAIN more = 1 .. Len(samples) + 1
      BY <3>8
    <3>11. Lists(more)'
      BY <1>10, <3>1, <3>8, <3>9, <3>10 DEF Lists
    <3> QED  BY <3>1, <3>2, <3>8, <3>11 DEF FramesListed
  <2>3. CASE FrameFrom(Dealt + 1) \notin Finite /\ samples' = samples
    <3>1. Delivered' = Delivered
      BY <1>4, <1>10, <2>3 DEF Delivered
    <3>2. Lists(places)'
      BY <1>10, <2>1, <2>3, <3>1 DEF Lists
    <3> QED  BY <2>1, <2>3, <3>1, <3>2 DEF FramesListed
  <2> QED  BY <1>8, <2>2, <2>3
<1>22. NoneWaits'
  BY <1>3 DEF NoneWaits
<1> QED  BY <1>9, <1>18, <1>19, <1>20, <1>21, <1>22 DEF FramingInv

LEMMA FramingStutterKeeps == FramingInv /\ UNCHANGED framingVars => FramingInv'
<1> SUFFICES ASSUME FramingInv, UNCHANGED framingVars  PROVE FramingInv'
  OBVIOUS
<1>1. /\ received' = received /\ buffer' = buffer /\ feeding' = feeding
      /\ accepted' = accepted /\ samples' = samples /\ crcFailures' = crcFailures
      /\ nonfinite' = nonfinite /\ discarded' = discarded
  BY DEF framingVars, counters
<1> QED  BY <1>1
    DEF FramingInv, FramingTypes, AcceptedWhole, Settled, FramesCounted, FramesListed, NoneWaits,
        Dealt, FrameFrom, HeaderAt, IntactAt, Inside, Broken, BeginsNone, Delivered, Damaged, Lists

LEMMA FramingStepInv == FramingInv /\ [FramingNext]_framingVars => FramingInv'
<1> SUFFICES ASSUME FramingInv, [FramingNext]_framingVars  PROVE FramingInv'
  OBVIOUS
<1>1. ASSUME NEW n \in 1 .. MaxRead, NEW chunk \in [1 .. n -> Bytes], Feed(chunk)
      PROVE  FramingInv'
  <2>1. chunk \in Seq(Bytes)
    BY FramingAssumption
  <2> QED  BY <1>1, <2>1, FeedKeeps
<1> QED  BY <1>1, DropAllKeeps, SkipToHeaderKeeps, AwaitRestKeeps, RejectFrameKeeps,
            TakeFrameKeeps, FramingStutterKeeps DEF FramingNext

LEMMA FramingIsRead == FramingInv => FramingExact
<1> SUFFICES ASSUME FramingInv  PROVE FramingExact
  OBVIOUS
<1>1. FramingTypes /\ AcceptedWhole /\ Settled /\ FramesCounted /\ FramesListed /\ NoneWaits
  BY DEF FramingInv
<1>2. /\ Dealt \in Nat /\ Len(received) \in Nat /\ Len(buffer) \in Nat
      /\ Dealt + Len(buffer) = Len(received)
  BY <1>1, DealtIsNat
<1>3. /\ received \in Seq(Bytes) /\ buffer \in Seq(Bytes)
      /\ \A k \in 1 .. Len(buffer) : buffer[k] = received[Dealt + k]
  BY <1>1 DEF FramingTypes
<1>4. buffer = SubSeq(received, Dealt + 1, Len(received))
  <2> DEFINE rest == SubSeq(received, Dealt + 1, Len(received))
  <2>1. Dealt + 1 \in 1 .. Len(received) + 1
    BY <1>2
  <2>2. \A k \in Dealt + 1 .. Len(received) : received[k] \in Bytes
    BY <1>2, <1>3
  <2>3. /\ rest \in Seq(Bytes)
        /\ Len(rest) = IF Dealt + 1 <= Len(received)
                       THEN Len(received) - (Dealt + 1) + 1 ELSE 0
        /\ \A k \in 1 .. Len(received) - (Dealt + 1) + 1 :
             rest[k] = received[(Dealt + 1) + k - 1]
    BY <1>2, <1>3, <2>1, <2>2, SubSeqProperties
  <2> HIDE DEF rest
  <2>4. Len(rest) = Len(buffer)
    BY <1>2, <2>3
  <2>5. ASSUME NEW k \in 1 .. Len(buffer)  PROVE buffer[k] = rest[k]
    <3>1. k \in 1 .. Len(received) - (Dealt + 1) + 1 /\ (Dealt + 1) + k - 1 = Dealt + k
      BY <1>2
    <3> QED  BY <1>3, <2>3, <3>1
  <2>6. buffer = rest
    BY <1>3, <2>3, <2>4, <2>5, SeqEqual
  <2> QED  BY <2>6 DEF rest
<1>5. accepted = {i \in 1 .. Dealt : IntactAt(i) /\ ~Inside(i)}
  <2>1. ASSUME NEW i \in 1 .. Dealt, IntactAt(i), ~Inside(i)  PROVE i \in accepted
    <3>1. i \in 1 .. Len(received)
      BY <1>2
    <3>2. HeaderAt(i) /\ FrameFrom(i) \in Intact
      BY <2>1 DEF IntactAt
    <3>3. ~Broken(i)
      BY <3>2 DEF Broken
    <3>4. ~BeginsNone(i)
      BY <1>1, <3>1, <3>2, NoneIsNone
    <3> QED  BY <1>1, <2>1, <3>3, <3>4 DEF Settled
  <2> QED  BY <1>1, <2>1 DEF AcceptedWhole
<1> QED  BY <1>1, <1>4, <1>5 DEF FramingExact, FramesCounted, FramesListed, NoneWaits

(* However the bytes come, the frames delivered and the bytes and frames     *)
(* counted as lost are those of the stream (FrameDecoder.feed).              *)
THEOREM FramingIsExact == FramingSpec => []FramingExact
<1>1. FramingSpec => []FramingInv
  BY FramingInitInv, FramingStepInv, PTL DEF FramingSpec
<1> QED  BY <1>1, FramingIsRead, PTL
=============================================================================
