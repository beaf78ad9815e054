----------------------------- MODULE MCServices -----------------------------
(* The programs beside collection, each on its own: a behaviour is one of   *)
(* the camera service and its callers, of the standalone recorder, of the   *)
(* automatic follower, of the feedback capture, of the rehearsal of a sweep,*)
(* of a migration, of a replay or of the decoder of the force sensor's      *)
(* bytes, whichever `service` says.                                         *)
EXTENDS CameraService, TemporaryRecording, AutomaticFollower, FeedbackCapture,
        TrajectoryRehearsal, DatasetMigration, CaptureReplay, SerialFraming

CONSTANTS shell, panel, pid1, pid2

MCCalls == {shell, panel}
MCConfigOf == [c \in Calls |-> IF c = panel THEN "other" ELSE "l1"]
MCPids == {pid1, pid2}
MCSelected == <<"can_left", "can_right">>
MCErrors == {0, 2}
MCHeader == <<1, 2>>
MCIntact == {<<1, 2, a, b, (a + b) % 3>> : a, b \in Bytes}
MCFinite == {f \in MCIntact : f[3] # 0 \/ f[4] # 0}

VARIABLE service

offlineVars == <<rehearsalVars, migrationVars, replayVars, framingVars>>
servicesVars ==
  <<service, serviceVars, recordingVars, followerVars, captureVars, offlineVars>>

(* What a program that does not run starts from is of no account.            *)
ServicesInit ==
  /\ service \in {"cameras", "recorder", "follower", "capture", "rehearsal", "migration",
                  "replay", "framing"}
  /\ service # "migration" => sourceSet = <<[from |-> 0, length |-> 1, gate |-> 0]>>
  /\ service # "migration" => dryRun = FALSE
  /\ service # "replay" => savedLines = <<>>
  /\ service # "replay" => savedReport = [passed |-> FALSE, rounds |-> [f \in Followers |-> 0]]
  /\ service # "replay" => replayStatus = "none"
  /\ service # "follower" => mode = "hold"
  /\ service # "capture" => asks = FALSE
  /\ ServiceInit /\ RecordingInit /\ FollowerInit /\ CaptureInit
  /\ RehearsalInit /\ MigrationInit /\ ReplayInit /\ FramingInit

OfCameras(Action) ==
  service = "cameras" /\ Action
    /\ UNCHANGED <<service, recordingVars, followerVars, captureVars, offlineVars>>
OfRecorder(Action) ==
  service = "recorder" /\ Action
    /\ UNCHANGED <<service, serviceVars, followerVars, captureVars, offlineVars>>
OfFollower(Action) ==
  service = "follower" /\ Action
    /\ UNCHANGED <<service, serviceVars, recordingVars, captureVars, offlineVars>>
OfCapture(Action) ==
  service = "capture" /\ Action
    /\ UNCHANGED <<service, serviceVars, recordingVars, followerVars, offlineVars>>
OfRehearsal(Action) ==
  service = "rehearsal" /\ Action
    /\ UNCHANGED <<service, serviceVars, recordingVars, followerVars, captureVars,
                   migrationVars, replayVars, framingVars>>
OfMigration(Action) ==
  service = "migration" /\ Action
    /\ UNCHANGED <<service, serviceVars, recordingVars, followerVars, captureVars,
                   rehearsalVars, replayVars, framingVars>>
OfReplay(Action) ==
  service = "replay" /\ Action
    /\ UNCHANGED <<service, serviceVars, recordingVars, followerVars, captureVars,
                   rehearsalVars, migrationVars, framingVars>>
OfFraming(Action) ==
  service = "framing" /\ Action
    /\ UNCHANGED <<service, serviceVars, recordingVars, followerVars, captureVars,
                   rehearsalVars, migrationVars, replayVars>>

ServicesSpec ==
  /\ ServicesInit
  /\ [][\/ OfCameras(ServiceNext) \/ OfRecorder(RecordingNext)
        \/ OfFollower(FollowerNext) \/ OfCapture(CaptureNext)
        \/ OfRehearsal(RehearsalNext) \/ OfMigration(MigrationNext)
        \/ OfReplay(ReplayNext) \/ OfFraming(FramingNext)]_servicesVars
=============================================================================
