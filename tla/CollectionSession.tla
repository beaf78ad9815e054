------------------------- MODULE CollectionSession -------------------------
(***************************************************************************)
(* A managed collection session (collection/managed.py,                    *)
(* collect_managed_session) with its operator, its devices, its sidecars   *)
(* and its dataset.  One thread walks through the session's contexts:      *)
(* the sources, the teleoperation runtimes and, for each episode, the      *)
(* dataset transaction; any error unwinds them in reverse.  The operator   *)
(* types lines whenever he likes; the thread polls them at the prompt and  *)
(* once a sample.  The process may be killed and started again.  How robot *)
(* states, camera frames and the runtimes behave in detail is in           *)
(* StateReceiver, CameraStream and ManagedRuntimes.                        *)
(***************************************************************************)
EXTENDS EpisodeTransaction, Sequences

CONSTANTS
  Sources,         \* the sources of LiveCollectionSource, in the order of entry
  BeforeCollection,\* auto_reset_before_collection
  ResetAfter,      \* the decisions after which AdjustPosition is required
  MaxTyped,        \* bound on the lines typed ahead
  MaxSessions      \* bound on the sessions started

ASSUME CollectionAssumption ==
  /\ Sources \in Seq(STRING) /\ BeforeCollection \in BOOLEAN
  /\ ResetAfter \subseteq {"save", "discard"}
  /\ MaxTyped \in Nat \ {0} /\ MaxSessions \in Nat \ {0}

VARIABLES
  step,      \* what the session's thread does
  opened,    \* how many sources are entered
  robot,     \* the runtimes: "off", "on", "lost" (a side exited) or "orphaned"
  lines,     \* what the operator typed and the thread has not read
  eof,       \* standard input is closed
  decision,  \* the decision about the current episode
  homed,     \* AdjustPosition has completed since the last frame
  first,     \* episodes kept when the session began
  saved,     \* results reported as saved
  session    \* the sessions started

operatorVars == <<lines, eof>>
resultVars == <<decision, homed, first, saved>>
sessionVars == <<datasetVars, step, opened, robot, operatorVars, resultVars, session>>

Idle == "none"
Over == {"over", "failed"}
Answers == {"", "d", "q", "r"}

SessionInit ==
  /\ DatasetInit
  /\ step = "inspect" /\ opened = 0 /\ robot = "off"
  /\ lines = <<>> /\ eof = FALSE
  /\ decision = Idle /\ homed = FALSE /\ first = 0 /\ saved = 0 /\ session = 1

Go(from, to) == step = from /\ step' = to
-----------------------------------------------------------------------------
(* The operator and the environment.                                         *)
Type(line) ==
  /\ ~eof /\ Len(lines) < MaxTyped /\ step \notin Over
  /\ lines' = Append(lines, line)
  /\ UNCHANGED <<datasetVars, step, opened, robot, eof, resultVars, session>>

CloseInput ==
  /\ ~eof /\ step \notin Over /\ eof' = TRUE
  /\ UNCHANGED <<datasetVars, step, opened, robot, lines, resultVars, session>>

(* A sidecar's fault or exit.                                                *)
LoseSide ==
  /\ robot = "on" /\ step \notin Over /\ robot' = "lost"
  /\ UNCHANGED <<datasetVars, step, opened, operatorVars, resultVars, session>>

(* SIGKILL, or the power: the contexts do not unwind.                        *)
Kill ==
  /\ step \notin Over /\ step' = "failed"
  /\ opened' = 0 /\ buffer' = 0
  /\ robot' = IF robot = "off" THEN "off" ELSE "orphaned"
  /\ lines' = <<>> /\ eof' = FALSE /\ decision' = Idle /\ homed' = FALSE
  /\ UNCHANGED <<target, staging, staged, added, backup, first, saved, session>>

Inspect ==
  /\ step \in Over /\ InspectLeftovers
  /\ UNCHANGED <<step, opened, robot, operatorVars, resultVars, session>>

StartSession ==
  /\ step \in Over /\ session < MaxSessions
  /\ step' = "inspect" /\ session' = session + 1 /\ robot' = "off"
  /\ lines' = <<>> /\ eof' = FALSE /\ saved' = 0 /\ first' = Kept
  /\ UNCHANGED <<datasetVars, opened, decision, homed>>
-----------------------------------------------------------------------------
(* Before the prompt.  Every step may fail; a failure unwinds.               *)
InspectDataset ==
  /\ Clean /\ Go("inspect", "service") /\ first' = target
  /\ UNCHANGED <<datasetVars, opened, robot, operatorVars, decision, homed, saved, session>>

StartCameraService ==
  /\ Go("service", "enter")
  /\ UNCHANGED <<datasetVars, opened, robot, operatorVars, resultVars, session>>

EnterSource ==
  /\ step = "enter" /\ opened < Len(Sources) /\ opened' = opened + 1
  /\ UNCHANGED <<datasetVars, step, robot, operatorVars, resultVars, session>>

PreflightCameras ==
  /\ opened = Len(Sources) /\ Go("enter", "runtimes")
  /\ UNCHANGED <<datasetVars, opened, robot, operatorVars, resultVars, session>>

EnterRuntimes ==
  /\ step = "runtimes" /\ robot' = "on"
  /\ step' = IF BeforeCollection THEN "reset" ELSE "prompt"
  /\ UNCHANGED <<datasetVars, opened, operatorVars, resultVars, session>>

(* adjust_position needs every side; it ends where its caller goes on.       *)
AdjustPosition ==
  /\ step \in {"reset", "after"} /\ robot = "on"
  /\ step' = IF step = "reset" THEN "prompt" ELSE "complete"
  /\ homed' = TRUE
  /\ UNCHANGED <<datasetVars, opened, robot, operatorVars, decision, first, saved, session>>

Unwinding == {"unwind"} \cup Over

(* Whatever raises: a device, a timeout, a stale or skewed sample, a capture *)
(* rate below the minimum, a runtime that exited, a full disk, an interrupt. *)
Raise ==
  /\ step \notin Unwinding
  /\ step' = "unwind" /\ homed' = FALSE
  /\ UNCHANGED <<datasetVars, opened, robot, operatorVars, decision, first, saved, session>>

LostRaises == robot = "lost" /\ step \in {"prompt", "reset", "after"} /\ Raise

(* A sibling left behind refuses the session and the episode; the bound on   *)
(* episodes acts as a full disk.                                             *)
LeftoverRaises ==
  \/ step = "inspect" /\ ~Clean /\ Raise
  \/ step = "recheck" /\ ~(Clean /\ target < MaxEpisodes) /\ Raise
-----------------------------------------------------------------------------
(* _poll_stdin_line: the oldest line, or "q" once the input is closed.       *)

(* Mutant: a closed input reads as nothing typed.                            *)
HasLine_IgnoresEof == lines # <<>>

HasLine == lines # <<>> \/ eof
Line == IF lines # <<>> THEN Head(lines) ELSE "q"
ReadLine == lines' = (IF lines # <<>> THEN Tail(lines) ELSE lines) /\ eof' = eof

(* _wait_for_episode_start.                                                  *)
Prompted(line, to) ==
  /\ step = "prompt" /\ robot = "on" /\ HasLine /\ Line = line
  /\ ReadLine /\ step' = to

StartEpisode ==
  /\ Prompted("", "recheck")
  /\ UNCHANGED <<datasetVars, opened, robot, resultVars, session>>

ResetPose ==
  /\ Prompted("r", "reset")
  /\ UNCHANGED <<datasetVars, opened, robot, resultVars, session>>

QuitSession ==
  /\ Prompted("q", "leave")
  /\ UNCHANGED <<datasetVars, opened, robot, resultVars, session>>

Misunderstood ==
  /\ Prompted("d", "prompt")
  /\ UNCHANGED <<datasetVars, opened, robot, resultVars, session>>

(* The cameras are checked again, and the transaction begins.                *)
RecheckAndOpen ==
  /\ Go("recheck", "record") /\ OpenEpisode
  /\ decision' = Idle /\ homed' = FALSE
  /\ UNCHANGED <<opened, robot, operatorVars, first, saved, session>>

(* One sample of _record_interactive_episode, which is taken before a line   *)
(* is read; a lost side leaves finitely many queued states, then times out.  *)
Sampled == step = "record" /\ (robot = "lost" => buffer < MaxFrames)

RecordFrame ==
  /\ Sampled /\ (HasLine => Line = "r")
  /\ ReadLine /\ AddFrame
  /\ UNCHANGED <<step, opened, robot, resultVars, session>>

(* The trimmer keeps frames back while the arms rest.                        *)
HoldFrame ==
  /\ Sampled /\ robot = "on" /\ HasLine /\ Line = "r"
  /\ ReadLine
  /\ UNCHANGED <<datasetVars, step, opened, robot, resultVars, session>>

LostTimesOut == step = "record" /\ robot = "lost" /\ Raise

Decision(line) == IF line = "" THEN "save" ELSE IF line = "d" THEN "discard" ELSE "quit"

(* Mutant: the episode is saved first, and the arms go to Reset afterwards.  *)
Decide_BeforeReset ==
  /\ Sampled /\ HasLine /\ Line # "r"
  /\ ReadLine /\ decision' = Decision(Line) /\ step' = "complete"
  /\ UNCHANGED <<datasetVars, opened, robot, homed, first, saved, session>>

Decide ==
  /\ Sampled /\ HasLine /\ Line # "r"
  /\ ReadLine /\ decision' = Decision(Line)
  /\ step' = IF decision' \in ResetAfter THEN "after" ELSE "complete"
  /\ UNCHANGED <<datasetVars, opened, robot, homed, first, saved, session>>

(* Mutant: an episode without frames keeps its decision.                     *)
CompleteDiscarding_ReportsSaved ==
  /\ Go("complete", "close") /\ (decision # "save" \/ buffer = 0)
  /\ DiscardFrames
  /\ UNCHANGED <<opened, robot, operatorVars, resultVars, session>>

(* _complete_interactive_episode.                                            *)
CompleteDiscarding ==
  /\ Go("complete", "close") /\ (decision # "save" \/ buffer = 0)
  /\ DiscardFrames
  /\ decision' = IF decision = "quit" THEN "quit" ELSE "discard"
  /\ UNCHANGED <<opened, robot, operatorVars, homed, first, saved, session>>

(* Mutant: a decision to save is carried out, whatever was captured.         *)
CompleteSaving_Empty ==
  /\ Go("complete", "seal") /\ decision = "save" /\ SaveEpisode
  /\ UNCHANGED <<opened, robot, operatorVars, resultVars, session>>

CompleteSaving ==
  /\ Go("complete", "seal") /\ decision = "save" /\ buffer > 0 /\ SaveEpisode
  /\ UNCHANGED <<opened, robot, operatorVars, resultVars, session>>

Seal ==
  /\ Go("seal", "install") /\ SealEpisode
  /\ UNCHANGED <<opened, robot, operatorVars, resultVars, session>>

AsideStep ==
  /\ step = "install" /\ SetAside
  /\ UNCHANGED <<step, opened, robot, operatorVars, resultVars, session>>

InstallStep ==
  /\ Go("install", "clean") /\ Install
  /\ UNCHANGED <<opened, robot, operatorVars, resultVars, session>>

CleanStep ==
  /\ step = "clean" /\ RemoveBackup
  /\ UNCHANGED <<step, opened, robot, operatorVars, resultVars, session>>

Committed ==
  /\ Go("clean", "close") /\ backup = NoBackup
  /\ UNCHANGED <<datasetVars, opened, robot, operatorVars, resultVars, session>>

(* Mutant: the frames are cleared and the sibling is left.                   *)
CloseEpisode_KeepsSibling ==
  /\ step = "close" /\ DiscardFrames
  /\ step' = IF decision = "quit" THEN "leave" ELSE "prompt"
  /\ saved' = IF decision = "save" THEN saved + 1 ELSE saved
  /\ decision' = Idle
  /\ UNCHANGED <<opened, robot, operatorVars, homed, first, session>>

(* The transaction's __exit__, then the result.                              *)
CloseEpisode ==
  /\ step = "close" /\ RollBack
  /\ step' = IF decision = "quit" THEN "leave" ELSE "prompt"
  /\ saved' = IF decision = "save" THEN saved + 1 ELSE saved
  /\ decision' = Idle
  /\ UNCHANGED <<opened, robot, operatorVars, homed, first, session>>
-----------------------------------------------------------------------------
(* The contexts end in reverse: the transaction, the runtimes, the sources.  *)
UnwindEpisode ==
  /\ step = "unwind" /\ ~Clean /\ opened > 0
  /\ RollBack /\ decision' = Idle
  /\ UNCHANGED <<step, opened, robot, operatorVars, homed, first, saved, session>>

StopRuntimes ==
  /\ step = "leave" \/ (step = "unwind" /\ Clean)
  /\ robot # "off" /\ robot' = "off"
  /\ UNCHANGED <<datasetVars, step, opened, operatorVars, resultVars, session>>

ExitSource ==
  /\ step \in {"leave", "unwind"} /\ robot = "off" /\ opened > 0
  /\ opened' = opened - 1
  /\ UNCHANGED <<datasetVars, step, robot, operatorVars, resultVars, session>>

EndSession ==
  /\ step \in {"leave", "unwind"} /\ robot = "off" /\ opened = 0
  /\ step' = IF step = "leave" THEN "over" ELSE "failed"
  /\ lines' = <<>> /\ eof' = FALSE /\ decision' = Idle /\ homed' = FALSE
  /\ UNCHANGED <<datasetVars, opened, robot, first, saved, session>>
-----------------------------------------------------------------------------
Recording == RecordFrame \/ HoldFrame \/ LostTimesOut \/ Decide
Completing ==
  \/ CompleteDiscarding \/ CompleteSaving \/ Seal \/ AsideStep \/ InstallStep
  \/ CleanStep \/ Committed \/ CloseEpisode
Leaving == UnwindEpisode \/ StopRuntimes \/ ExitSource \/ EndSession
Steps ==
  \/ InspectDataset \/ StartCameraService \/ EnterSource \/ PreflightCameras
  \/ EnterRuntimes \/ AdjustPosition \/ LeftoverRaises \/ LostRaises
  \/ StartEpisode \/ ResetPose \/ QuitSession \/ Misunderstood \/ RecheckAndOpen
  \/ Recording \/ Completing \/ Leaving

SessionNext ==
  \/ Steps \/ Raise \/ Kill \/ Inspect \/ StartSession
  \/ \E line \in Answers : Type(line)
  \/ CloseInput \/ LoseSide

(* The thread goes on: what it waits for answers, fails or times out.        *)
SessionSpec == SessionInit /\ [][SessionNext]_sessionVars /\ WF_sessionVars(Steps)
-----------------------------------------------------------------------------
(* Whatever fails or is killed, every episode ever published is in the       *)
(* dataset or in a sibling that blocks its use: nothing loses an episode     *)
(* (docs/ARCHITECTURE.md:201).                                               *)
NothingLost == [][Kept' >= Kept]_sessionVars

(* The dataset grows by one episode at a time, only by one that the operator *)
(* saved and that has frames, and only after the arms went to Reset since    *)
(* its last frame, if the policy asks for it (docs/DATASETS.md:110).         *)
PublishedAsDecided ==
  [][Kept' > Kept /\ step \notin Over =>
       /\ Kept' = Kept + 1 /\ decision = "save" /\ added > 0
       /\ "save" \in ResetAfter => homed]_sessionVars

(* What the session reports as saved is what the dataset gained; an episode  *)
(* more only while its commit is not reported yet, or its commit raised.     *)
ResultsTruthful ==
  /\ Kept - first \in {saved, saved + 1}
  /\ step \in {"prompt", "record", "over"} => Kept = first + saved

(* The sidecars run only while the sources are open: the socket they send to *)
(* and the cameras outlive them in every unwinding; and a session that ended *)
(* by itself leaves nothing: no sidecar, no source, no sibling that would    *)
(* block the next one.                                                       *)
EndsClean ==
  /\ robot \in {"on", "lost"} => opened = Len(Sources)
  /\ step = "over" => robot = "off" /\ opened = 0 /\ Clean

(* Once the operator's input is closed the session ends, wherever it stands, *)
(* although a closed input is readable for ever; so does the loss of a side, *)
(* in the middle of an episode or at the prompt.                             *)
SessionEnds == (eof ~> step \in Over) /\ (robot = "lost" ~> robot # "lost")
=============================================================================
