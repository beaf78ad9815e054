----------------------- MODULE CollectionSessionProofs -----------------------
(***************************************************************************)
(* For any sources, any policy for Reset and any number of episodes, typed *)
(* lines and sessions: no published episode is lost, none is published     *)
(* that is empty or was not saved after Reset, results are true and a      *)
(* session that ends by itself leaves nothing.                             *)
(*                                                                         *)
(* The invariant says how far the hidden sibling is ahead of the dataset,  *)
(* that a dataset set aside is never ahead of the one in its place, and    *)
(* what the place in the session says about the decision, the count of     *)
(* results and the open sources.                                           *)
(***************************************************************************)
EXTENDS CollectionSession, TLAPS

DatasetTypes ==
  /\ target \in Nat /\ staged \in Nat /\ added \in Nat /\ buffer \in Nat
  /\ backup \in Nat \cup {NoBackup}
  /\ staging \in {"absent", "open", "saved", "sealed"}

SiblingAhead ==
  /\ staging = "open" => staged = Kept
  /\ staging \in {"saved", "sealed"} => staged = Kept + 1

BackupBehind == backup = NoBackup \/ target = 0 \/ backup <= target

DatasetInv == DatasetTypes /\ SiblingAhead /\ BackupBehind

Decided ==
  /\ step \in {"seal", "install", "clean"} => decision = "save"
  /\ step \in {"seal", "install"} => added > 0
  /\ step \in {"complete", "seal", "install"} /\ decision = "save"
       /\ "save" \in ResetAfter => homed

(* What the session has still to report.                                     *)
Counted ==
  /\ first \in Nat /\ saved \in Nat
  /\ step = "inspect" => saved = 0
  /\ IF step = "clean" \/ (step = "close" /\ decision = "save")
     THEN Kept = first + saved + 1
     ELSE step \notin {"unwind", "failed"} => Kept = first + saved
  /\ Kept = first + saved \/ Kept = first + saved + 1

Entering == {"inspect", "service", "enter"}
Quiet == {"service", "enter", "runtimes", "reset", "prompt", "recheck", "leave", "over"}
Collecting ==
  {"runtimes", "reset", "prompt", "recheck", "record", "after", "complete",
   "seal", "install", "clean", "close"}

SourcesHeld ==
  /\ step \in Entering \cup Collecting \cup {"leave"} \cup Unwinding
  /\ step \in Quiet => Clean
  /\ step \in Collecting => opened = Len(Sources)
  /\ step \in Entering \cup Over => robot \notin {"on", "lost"}
  /\ step = "over" => robot = "off" /\ opened = 0
  /\ robot \in {"on", "lost"} => opened = Len(Sources)

CollectionInv == DatasetInv /\ Decided /\ Counted /\ SourcesHeld

LEMMA KeptInNat == DatasetTypes => Kept \in Nat /\ NoBackup \notin Nat
BY DEF DatasetTypes, Kept, NoBackup

(* The session begins with nothing.                                          *)
LEMMA SessionInitInv == SessionInit => CollectionInv
<1> SUFFICES ASSUME SessionInit  PROVE CollectionInv
  OBVIOUS
<1>1. DatasetInv /\ Kept = 0
  BY DEF SessionInit, DatasetInit, DatasetInv, DatasetTypes, SiblingAhead, BackupBehind, Kept, NoBackup
<1>2. Decided /\ Counted
  BY <1>1 DEF SessionInit, Decided, Counted
<1>3. SourcesHeld
  BY DEF SessionInit, DatasetInit, SourcesHeld, Entering, Quiet, Collecting, Unwinding, Over
<1> QED  BY <1>1, <1>2, <1>3 DEF CollectionInv

-----------------------------------------------------------------------------
(* The dataset's operations: only Install publishes, and one episode.        *)
LEMMA DatasetUntouched ==
  ASSUME DatasetInv, UNCHANGED datasetVars
  PROVE  DatasetInv' /\ Kept' = Kept /\ (Clean' <=> Clean)
BY DEF DatasetInv, DatasetTypes, SiblingAhead, BackupBehind, Kept, Clean, datasetVars

LEMMA BufferOnly ==
  ASSUME DatasetInv, buffer' \in Nat, UNCHANGED <<target, staging, staged, added, backup>>
  PROVE  DatasetInv' /\ Kept' = Kept /\ (Clean' <=> Clean)
BY DEF DatasetInv, DatasetTypes, SiblingAhead, BackupBehind, Kept, Clean

LEMMA RollBackKeeps ==
  ASSUME DatasetInv, RollBack
  PROVE  DatasetInv' /\ Kept' = Kept /\ Clean'
<1>1. target' = Kept
  BY DEF DatasetInv, DatasetTypes, BackupBehind, Kept, RollBack, NoBackup
<1>2. Kept' = Kept /\ Clean'
  BY <1>1, KeptInNat DEF DatasetInv, RollBack, Kept, Clean, NoBackup
<1>3. DatasetInv'
  BY <1>1, KeptInNat DEF DatasetInv, DatasetTypes, SiblingAhead, BackupBehind, RollBack
<1> QED  BY <1>2, <1>3

LEMMA PreparingKeeps ==
  ASSUME DatasetInv, OpenEpisode \/ SaveEpisode \/ SealEpisode \/ SetAside \/ RemoveBackup
  PROVE  DatasetInv' /\ Kept' = Kept
<1>1. CASE OpenEpisode
  BY <1>1 DEF OpenEpisode, Clean, DatasetInv, DatasetTypes, SiblingAhead, BackupBehind, Kept, NoBackup
<1>2. CASE SaveEpisode
  BY <1>2 DEF SaveEpisode, DatasetInv, DatasetTypes, SiblingAhead, BackupBehind, Kept
<1>3. CASE SealEpisode
  BY <1>3 DEF SealEpisode, DatasetInv, DatasetTypes, SiblingAhead, BackupBehind, Kept
<1>4. CASE SetAside
  BY <1>4 DEF SetAside, DatasetInv, DatasetTypes, SiblingAhead, BackupBehind, Kept, NoBackup
<1>5. CASE RemoveBackup
  BY <1>5 DEF RemoveBackup, DatasetInv, DatasetTypes, SiblingAhead, BackupBehind, Kept, NoBackup
<1> QED  BY <1>1, <1>2, <1>3, <1>4, <1>5

LEMMA InstallPublishes ==
  ASSUME DatasetInv, Install
  PROVE  DatasetInv' /\ Kept' = Kept + 1
BY DEF Install, DatasetInv, DatasetTypes, SiblingAhead, BackupBehind, Kept, NoBackup
-----------------------------------------------------------------------------
(* What a step does to the dataset, and to the decision and the results.     *)
Publishes == step = "install" /\ step' = "clean" /\ Kept' = Kept + 1

LEMMA DatasetSteps ==
  ASSUME CollectionInv, [SessionNext]_sessionVars
  PROVE  DatasetInv' /\ (Kept' = Kept \/ Publishes)
<1>0. DatasetInv
  BY DEF CollectionInv
<1>1. CASE UNCHANGED datasetVars
  BY <1>0, <1>1, DatasetUntouched
<1>2. CASE UNCHANGED <<target, staging, staged, added, backup>> /\ buffer' \in Nat
  BY <1>0, <1>2, BufferOnly
<1>3. CASE RollBack
  BY <1>0, <1>3, RollBackKeeps
<1>4. CASE OpenEpisode \/ SaveEpisode \/ SealEpisode \/ SetAside \/ RemoveBackup
  BY <1>0, <1>4, PreparingKeeps
<1>5. CASE InstallStep
  <2>1. Install /\ step = "install" /\ step' = "clean"
    BY <1>5 DEF InstallStep, Go
  <2> QED  BY <1>0, <2>1, InstallPublishes DEF Publishes
<1>6. CASE AddFrame
  <2>1. buffer' \in Nat
    BY <1>0, <1>6 DEF AddFrame, DatasetInv, DatasetTypes
  <2> QED  BY <1>2, <1>6, <2>1 DEF AddFrame
<1>7. CASE DiscardFrames \/ Kill
  BY <1>2, <1>7 DEF DiscardFrames, Kill
<1>8. CASE UNCHANGED sessionVars
  BY <1>1, <1>8 DEF sessionVars
<1>9. CASE Raise \/ StartSession \/ CloseInput \/ LoseSide \/ \E line \in Answers : Type(line)
  BY <1>1, <1>9 DEF Raise, StartSession, CloseInput, LoseSide, Type
<1>10. CASE Inspect
  BY <1>3, <1>10 DEF Inspect, InspectLeftovers
<1>11. CASE Completing
  BY <1>1, <1>3, <1>4, <1>5, <1>7, <1>11
     DEF Completing, CompleteDiscarding, CompleteSaving, Seal, AsideStep, CleanStep,
         Committed, CloseEpisode
<1>12. CASE Recording
  BY <1>1, <1>6, <1>12 DEF Recording, RecordFrame, HoldFrame, LostTimesOut, Decide, Raise
<1>13. CASE Leaving
  BY <1>1, <1>3, <1>13 DEF Leaving, UnwindEpisode, StopRuntimes, ExitSource, EndSession
<1>14. CASE RecheckAndOpen
  BY <1>4, <1>14 DEF RecheckAndOpen
<1>15. CASE \/ InspectDataset \/ StartCameraService \/ EnterSource \/ PreflightCameras
            \/ EnterRuntimes \/ AdjustPosition \/ LeftoverRaises \/ LostRaises
            \/ StartEpisode \/ ResetPose \/ QuitSession \/ Misunderstood
  BY <1>1, <1>15
     DEF InspectDataset, StartCameraService, EnterSource, PreflightCameras,
         EnterRuntimes, AdjustPosition, LeftoverRaises, LostRaises, Raise,
         StartEpisode, ResetPose, QuitSession, Misunderstood
<1> QED
  BY <1>8, <1>9, <1>10, <1>11, <1>12, <1>13, <1>14, <1>15, <1>7 DEF SessionNext, Steps

(* Whatever is committed was decided so, and after Reset if need be.         *)
LEMMA DecidedStep ==
  ASSUME CollectionInv, [SessionNext]_sessionVars
  PROVE  Decided'
<1>0. DatasetInv' /\ (Kept' = Kept \/ Publishes)
  BY DatasetSteps
<1>1. CASE \/ StartCameraService \/ EnterSource \/ PreflightCameras
           \/ EnterRuntimes \/ AdjustPosition
  BY <1>0, <1>1 DEF StartCameraService, EnterSource, PreflightCameras,
                    EnterRuntimes, AdjustPosition, Go, CollectionInv, Decided,
                    datasetVars, operatorVars, resultVars
<1>2. CASE \/ StartEpisode \/ ResetPose \/ QuitSession
           \/ Misunderstood
  BY <1>0, <1>2 DEF StartEpisode, ResetPose, QuitSession, Misunderstood,
                    Prompted, CollectionInv, Decided, datasetVars,
                    operatorVars, resultVars
<1>3. CASE \/ RecordFrame \/ HoldFrame \/ Decide
  BY <1>0, <1>3 DEF RecordFrame, HoldFrame, Decide, Sampled, Decision,
                    CollectionInv, Decided, datasetVars, operatorVars,
                    resultVars
<1>4. CASE \/ CompleteDiscarding \/ CompleteSaving \/ Seal
           \/ AsideStep \/ CleanStep \/ Committed
  BY <1>0, <1>4 DEF CompleteDiscarding, CompleteSaving, Seal, AsideStep,
                    CleanStep, Committed, SaveEpisode, SealEpisode, SetAside,
                    RemoveBackup, Go, CollectionInv, Decided, datasetVars,
                    operatorVars, resultVars
<1>5. CASE \/ UnwindEpisode \/ StopRuntimes \/ ExitSource
           \/ EndSession \/ RecheckAndOpen
  BY <1>0, <1>5 DEF UnwindEpisode, StopRuntimes, ExitSource, EndSession,
                    RecheckAndOpen, Go, CollectionInv, Decided, datasetVars,
                    operatorVars, resultVars
<1>6. CASE \/ Raise \/ Kill \/ StartSession \/ CloseInput \/ LoseSide
  BY <1>0, <1>6 DEF Raise, Kill, StartSession, CloseInput, LoseSide,
                    CollectionInv, Decided, datasetVars, operatorVars,
                    resultVars
<1>7. CASE InspectDataset
  BY <1>0, <1>7 DEF InspectDataset, Go, CollectionInv, Decided, datasetVars,
                    operatorVars, resultVars
<1>8. CASE InstallStep
  BY <1>0, <1>8 DEF InstallStep, Go, CollectionInv, Decided, datasetVars,
                    operatorVars, resultVars
<1>9. CASE CloseEpisode
  BY <1>0, <1>9 DEF CloseEpisode, CollectionInv, Decided, datasetVars,
                    operatorVars, resultVars
<1>10. CASE Inspect
  BY <1>0, <1>10 DEF Inspect, Over, CollectionInv, Decided, datasetVars,
                     operatorVars, resultVars
<1>11. ASSUME NEW line \in Answers, Type(line)  PROVE Decided'
  BY <1>0, <1>11 DEF Type, CollectionInv, Decided, datasetVars, operatorVars,
                     resultVars
<1>12. CASE UNCHANGED sessionVars
  BY <1>0, <1>12 DEF sessionVars, CollectionInv, Decided, datasetVars,
                     operatorVars, resultVars
<1> QED
  BY <1>1, <1>2, <1>3, <1>4, <1>5, <1>6, <1>7, <1>8, <1>9, <1>10, <1>11, <1>12
     DEF SessionNext, Steps, Recording, Completing, Leaving, LeftoverRaises,
         LostRaises, LostTimesOut

(* The results count what was published.                                     *)
LEMMA CountedStep ==
  ASSUME CollectionInv, [SessionNext]_sessionVars
  PROVE  Counted'
<1>0. DatasetInv' /\ (Kept' = Kept \/ Publishes)
  BY DatasetSteps
<1>1. CASE \/ StartCameraService \/ EnterSource \/ PreflightCameras
           \/ EnterRuntimes \/ AdjustPosition
  BY <1>0, <1>1 DEF StartCameraService, EnterSource, PreflightCameras,
                    EnterRuntimes, AdjustPosition, Go, CollectionInv, Counted,
                    Decided, Publishes, datasetVars, operatorVars, resultVars
<1>2. CASE \/ StartEpisode \/ ResetPose \/ QuitSession
           \/ Misunderstood
  BY <1>0, <1>2 DEF StartEpisode, ResetPose, QuitSession, Misunderstood,
                    Prompted, CollectionInv, Counted, Decided, Publishes,
                    datasetVars, operatorVars, resultVars
<1>3. CASE \/ RecordFrame \/ HoldFrame \/ Decide
  BY <1>0, <1>3 DEF RecordFrame, HoldFrame, Decide, Sampled, Decision,
                    CollectionInv, Counted, Decided, Publishes, datasetVars,
                    operatorVars, resultVars
<1>4. CASE \/ CompleteDiscarding \/ CompleteSaving \/ Seal
           \/ AsideStep \/ CleanStep \/ Committed
  BY <1>0, <1>4 DEF CompleteDiscarding, CompleteSaving, Seal, AsideStep,
                    CleanStep, Committed, Go, CollectionInv, Counted, Decided,
                    Publishes, datasetVars, operatorVars, resultVars
<1>5. CASE \/ UnwindEpisode \/ StopRuntimes \/ ExitSource
           \/ EndSession \/ RecheckAndOpen
  BY <1>0, <1>5 DEF UnwindEpisode, StopRuntimes, ExitSource, EndSession,
                    RecheckAndOpen, Go, CollectionInv, Counted, Decided,
                    Publishes, datasetVars, operatorVars, resultVars
<1>6. CASE \/ Raise \/ Kill \/ StartSession \/ CloseInput \/ LoseSide
  BY <1>0, <1>6 DEF Raise, Kill, StartSession, CloseInput, LoseSide,
                    CollectionInv, Counted, Decided, Publishes, datasetVars,
                    operatorVars, resultVars
<1>7. CASE InspectDataset
  BY <1>0, <1>7 DEF InspectDataset, Go, DatasetInv, DatasetTypes, Clean, Kept,
                    NoBackup, CollectionInv, Counted, Decided, Publishes,
                    datasetVars, operatorVars, resultVars
<1>8. CASE InstallStep
  BY <1>0, <1>8, InstallPublishes
     DEF InstallStep, Go, CollectionInv, Counted, Decided, Publishes,
         datasetVars, operatorVars, resultVars
<1>9. CASE CloseEpisode
  BY <1>0, <1>9 DEF CloseEpisode, CollectionInv, Counted, Decided, Publishes,
                    datasetVars, operatorVars, resultVars
<1>10. CASE Inspect
  BY <1>0, <1>10 DEF Inspect, CollectionInv, Counted, Decided, Publishes,
                     datasetVars, operatorVars, resultVars
<1>11. ASSUME NEW line \in Answers, Type(line)  PROVE Counted'
  BY <1>0, <1>11 DEF Type, CollectionInv, Counted, Decided, Publishes,
                     datasetVars, operatorVars, resultVars
<1>12. CASE UNCHANGED sessionVars
  BY <1>0, <1>12 DEF sessionVars, CollectionInv, Counted, Decided, Publishes,
                     datasetVars, operatorVars, resultVars
<1> QED
  BY <1>1, <1>2, <1>3, <1>4, <1>5, <1>6, <1>7, <1>8, <1>9, <1>10, <1>11, <1>12
     DEF SessionNext, Steps, Recording, Completing, Leaving, LeftoverRaises,
         LostRaises, LostTimesOut

(* The sources outlive the sidecars, and the sibling is gone where it must.  *)
LEMMA SourcesStep ==
  ASSUME CollectionInv, [SessionNext]_sessionVars
  PROVE  SourcesHeld'
<1>0. DatasetInv' /\ (Kept' = Kept \/ Publishes)
  BY DatasetSteps
<1>1. CASE \/ StartCameraService \/ EnterSource \/ PreflightCameras
           \/ EnterRuntimes \/ AdjustPosition
  BY <1>0, <1>1 DEF StartCameraService, EnterSource, PreflightCameras,
                    EnterRuntimes, AdjustPosition, Go, CollectionInv,
                    SourcesHeld, Entering, Quiet, Collecting, Unwinding, Over,
                    Clean, datasetVars, operatorVars, resultVars
<1>2. CASE \/ StartEpisode \/ ResetPose \/ QuitSession
           \/ Misunderstood
  BY <1>0, <1>2 DEF StartEpisode, ResetPose, QuitSession, Misunderstood,
                    Prompted, CollectionInv, SourcesHeld, Entering, Quiet,
                    Collecting, Unwinding, Over, Clean, datasetVars,
                    operatorVars, resultVars
<1>3. CASE \/ RecordFrame \/ HoldFrame \/ Decide
  BY <1>0, <1>3 DEF RecordFrame, HoldFrame, Decide, Sampled, Decision,
                    CollectionInv, SourcesHeld, Entering, Quiet, Collecting,
                    Unwinding, Over, Clean, datasetVars, operatorVars,
                    resultVars
<1>4. CASE \/ CompleteDiscarding \/ CompleteSaving \/ Seal
           \/ AsideStep \/ CleanStep \/ Committed
  BY <1>0, <1>4 DEF CompleteDiscarding, CompleteSaving, Seal, AsideStep,
                    CleanStep, Committed, Go, CollectionInv, SourcesHeld,
                    Entering, Quiet, Collecting, Unwinding, Over, Clean,
                    datasetVars, operatorVars, resultVars
<1>5. CASE \/ UnwindEpisode \/ StopRuntimes \/ ExitSource
           \/ EndSession \/ RecheckAndOpen
  BY <1>0, <1>5 DEF UnwindEpisode, StopRuntimes, ExitSource, EndSession,
                    RecheckAndOpen, Go, CollectionInv, SourcesHeld, Entering,
                    Quiet, Collecting, Unwinding, Over, Clean, datasetVars,
                    operatorVars, resultVars
<1>6. CASE \/ Raise \/ Kill \/ StartSession \/ CloseInput \/ LoseSide
  BY <1>0, <1>6 DEF Raise, Kill, StartSession, CloseInput, LoseSide,
                    CollectionInv, SourcesHeld, Entering, Quiet, Collecting,
                    Unwinding, Over, Clean, datasetVars, operatorVars,
                    resultVars
<1>7. CASE InspectDataset
  BY <1>0, <1>7 DEF InspectDataset, Go, CollectionInv, SourcesHeld, Entering,
                    Quiet, Collecting, Unwinding, Over, Clean, datasetVars,
                    operatorVars, resultVars
<1>8. CASE InstallStep
  BY <1>0, <1>8 DEF InstallStep, Go, CollectionInv, SourcesHeld, Entering,
                    Quiet, Collecting, Unwinding, Over, Clean, datasetVars,
                    operatorVars, resultVars
<1>9. CASE CloseEpisode
  BY <1>0, <1>9, RollBackKeeps
     DEF CloseEpisode, CollectionInv, SourcesHeld, Entering, Quiet, Collecting,
         Unwinding, Over, Clean, datasetVars, operatorVars, resultVars
<1>10. CASE Inspect
  BY <1>0, <1>10, RollBackKeeps
     DEF Inspect, InspectLeftovers, CollectionInv, SourcesHeld, Entering,
         Quiet, Collecting, Unwinding, Over, Clean, datasetVars, operatorVars,
         resultVars
<1>11. ASSUME NEW line \in Answers, Type(line)  PROVE SourcesHeld'
  BY <1>0, <1>11 DEF Type, CollectionInv, SourcesHeld, Entering, Quiet,
                     Collecting, Unwinding, Over, Clean, datasetVars,
                     operatorVars, resultVars
<1>12. CASE UNCHANGED sessionVars
  BY <1>0, <1>12 DEF sessionVars, CollectionInv, SourcesHeld, Entering, Quiet,
                     Collecting, Unwinding, Over, Clean, datasetVars,
                     operatorVars, resultVars
<1> QED
  BY <1>1, <1>2, <1>3, <1>4, <1>5, <1>6, <1>7, <1>8, <1>9, <1>10, <1>11, <1>12
     DEF SessionNext, Steps, Recording, Completing, Leaving, LeftoverRaises,
         LostRaises, LostTimesOut
-----------------------------------------------------------------------------
LEMMA CollectionInvariant == SessionSpec => []CollectionInv
<1>1. CollectionInv /\ [SessionNext]_sessionVars => CollectionInv'
  BY DatasetSteps, DecidedStep, CountedStep, SourcesStep DEF CollectionInv
<1> QED  BY <1>1, SessionInitInv, PTL DEF SessionSpec

(* Every episode ever published stays in the dataset or in the sibling that  *)
(* blocks its use, through every failure and kill (dataset.py, __exit__).    *)
THEOREM EpisodesKept == SessionSpec => NothingLost
<1>1. CollectionInv /\ [SessionNext]_sessionVars => [Kept' >= Kept]_sessionVars
  <2> SUFFICES ASSUME CollectionInv, [SessionNext]_sessionVars
               PROVE  Kept' >= Kept
    OBVIOUS
  <2>1. Kept \in Nat
    BY KeptInNat DEF CollectionInv, DatasetInv
  <2>2. Kept' = Kept \/ Kept' = Kept + 1
    BY DatasetSteps DEF Publishes
  <2> QED  BY <2>1, <2>2
<1> QED  BY <1>1, CollectionInvariant, PTL DEF SessionSpec, NothingLost

(* One episode at a time is published, only if the operator saved it and it  *)
(* has frames, and after Reset where the policy asks for it                  *)
(* (managed.py, _complete_interactive_episode).                              *)
THEOREM OnlyDecidedPublished == SessionSpec => PublishedAsDecided
<1> DEFINE Rule == Kept' > Kept /\ step \notin Over =>
                     /\ Kept' = Kept + 1 /\ decision = "save" /\ added > 0
                     /\ "save" \in ResetAfter => homed
<1>1. CollectionInv /\ [SessionNext]_sessionVars => [Rule]_sessionVars
  <2> SUFFICES ASSUME CollectionInv, [SessionNext]_sessionVars
               PROVE  Rule
    OBVIOUS
  <2>1. Kept \in Nat
    BY KeptInNat DEF CollectionInv, DatasetInv
  <2>2. Kept' = Kept \/ Publishes
    BY DatasetSteps
  <2> QED  BY <2>1, <2>2 DEF Publishes, CollectionInv, Decided
<1> QED  BY <1>1, CollectionInvariant, PTL DEF SessionSpec, PublishedAsDecided

(* What is reported as saved is what the dataset gained (managed.py, the     *)
(* results of collect_managed_session).                                      *)
THEOREM ResultsCount == SessionSpec => []ResultsTruthful
<1>1. CollectionInv => ResultsTruthful
  <2> SUFFICES ASSUME CollectionInv  PROVE ResultsTruthful
    OBVIOUS
  <2>1. Kept \in Nat /\ first \in Nat /\ saved \in Nat
    BY KeptInNat DEF CollectionInv, DatasetInv, Counted
  <2> QED  BY <2>1 DEF CollectionInv, Counted, ResultsTruthful
<1> QED  BY <1>1, CollectionInvariant, PTL

(* The sidecars run only while the sources are open, and a session that ends *)
(* by itself leaves no sidecar, no source and no sibling (managed.py,        *)
(* collect_managed_session's contexts).                                      *)
THEOREM SessionLeavesNothing == SessionSpec => []EndsClean
<1>1. CollectionInv => EndsClean
  BY DEF CollectionInv, SourcesHeld, EndsClean, Quiet
<1> QED  BY <1>1, CollectionInvariant, PTL
=============================================================================
