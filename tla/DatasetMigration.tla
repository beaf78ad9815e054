-------------------------- MODULE DatasetMigration --------------------------
(***************************************************************************)
(* trim_leading_stillness_dataset (collection/migration.py): a dataset is  *)
(* rebuilt under another experiment's name without the still beginning of  *)
(* its episodes, through a hidden sibling of the target, while collection  *)
(* sessions may append to the source and publish under the target's name.  *)
(* The trimmer and OutputDirectoryTransaction are of embodied_ops and the  *)
(* reader and the writer of LeRobot: modelled from how they are used here. *)
(***************************************************************************)
EXTENDS Integers, Sequences, SequencesExt, Functions

CONSTANTS
  MaxLength,    \* bound on the frames of an episode
  MaxSource     \* bound on the episodes of the source

ASSUME MigrationAssumption == {MaxLength, MaxSource} \subseteq Nat

(* An episode: its frames, and the first one that the motion gate lets       *)
(* through, counted from 0; none does if that is the length.                 *)
Recorded == {e \in [length : 1 .. MaxLength, gate : 0 .. MaxLength] : e.gate <= e.length}

(* The frames of a dataset, and an episode after them: from is its           *)
(* dataset_from_index, in LeRobot's count of all frames.                     *)
FramesOf(episodes) ==
  IF episodes = <<>> THEN 0 ELSE Last(episodes).from + Last(episodes).length
Extended(episodes, e) ==
  Append(episodes, [from |-> FramesOf(episodes), length |-> e.length, gate |-> e.gate])

NoDataset == <<>>
Others == << <<"other">> >>

VARIABLES
  sourceSet,    \* the source dataset
  appending,    \* a sibling of the source exists: an episode is being added
  targetSet,    \* the target: episodes, each its frames
  taken,        \* another program published under the target's name
  staging,      \* the hidden sibling of the target: "absent", "open", "sealed", or
                \* "left" by a run that was killed
  staged,       \* the episodes in it
  writing,      \* the frames in the writer's buffer
  stage,        \* where the migration is
  dryRun,
  counted,      \* source_state: episodes and frames
  reader,       \* the episodes the reader was loaded with
  plan,         \* for every episode its frames: from retained_from_index, up to source_to_index
  result        \* how it ended

collectorVars == <<sourceSet, appending, taken>>
migrationVars ==
  <<collectorVars, targetSet, staging, staged, writing, stage, dryRun, counted, reader, plan, result>>

MigrationInit ==
  /\ \E e, f \in Recorded :
       sourceSet \in {Extended(<<>>, e), Extended(Extended(<<>>, e), f)}
  /\ appending = FALSE /\ targetSet = NoDataset /\ taken = FALSE
  /\ staging = "absent" /\ staged = <<>> /\ writing = <<>>
  /\ stage = "inspect" /\ dryRun \in BOOLEAN
  /\ counted = [episodes |-> 0, frames |-> 0] /\ reader = <<>> /\ plan = <<>>
  /\ result = "none"

-----------------------------------------------------------------------------
Reaches(next) == stage' = next /\ UNCHANGED result

Finishes(how) == stage' = "over" /\ result' = how

(* An exception anywhere: the buffer is cleared, the writer finalized and    *)
(* the run's own sibling removed on the way out.                             *)
Raises ==
  /\ Finishes("failed")
  /\ staging' = IF staging = "left" THEN staging ELSE "absent"
  /\ staged' = <<>> /\ writing' = <<>>
  /\ UNCHANGED <<collectorVars, targetSet, dryRun, counted, reader, plan>>

Untouched == UNCHANGED <<collectorVars, targetSet, dryRun>>

(* inspect_direct_dataset of the source: its siblings refuse it.             *)
InspectSource ==
  /\ stage = "inspect" /\ ~appending
  /\ counted' = [episodes |-> Len(sourceSet), frames |-> FramesOf(sourceSet)]
  /\ Reaches("target")
  /\ Untouched /\ UNCHANGED <<staging, staged, writing, reader, plan>>

InspectTarget ==
  /\ stage = "target" /\ targetSet = NoDataset /\ staging = "absent"
  /\ Reaches("load")
  /\ Untouched /\ UNCHANGED <<staging, staged, writing, counted, reader, plan>>

LoadReader ==
  /\ stage = "load"
  /\ reader' = sourceSet
  /\ Reaches("plan")
  /\ Untouched /\ UNCHANGED <<staging, staged, writing, counted, plan>>

(* plan_leading_stillness: the reader must be of what was inspected, each    *)
(* episode begin where the one before it ended, and cross the gate.          *)
Plannable ==
  /\ FramesOf(reader) = counted.frames /\ Len(reader) = counted.episodes
  /\ \A i \in DOMAIN reader :
       reader[i].from = IF i = 1 THEN 0 ELSE reader[i - 1].from + reader[i - 1].length
  /\ \A i \in DOMAIN reader : reader[i].gate < reader[i].length

PlanTrim ==
  /\ stage = "plan" /\ Plannable
  /\ plan' = [i \in DOMAIN reader |->
                [from |-> reader[i].from + reader[i].gate,
                 to   |-> reader[i].from + reader[i].length]]
  /\ IF dryRun THEN Finishes("DRY_RUN") ELSE Reaches("enter")
  /\ Untouched /\ UNCHANGED <<staging, staged, writing, counted, reader>>

EnterTransaction ==
  /\ stage = "enter" /\ targetSet = NoDataset /\ staging = "absent"
  /\ staging' = "open" /\ Reaches("write")
  /\ Untouched /\ UNCHANGED <<staged, writing, counted, reader, plan>>

(* Mutant: the reader is indexed within the episode.                         *)
FrameAt_Relative(index, episode) ==
  <<1, index - reader[episode].from>>

(* reader[source_index]: an episode and the frame's place in it.             *)
EpisodeAt(index) ==
  CHOOSE i \in DOMAIN reader : index - reader[i].from \in 0 .. reader[i].length - 1
FrameAt(index, episode) == <<EpisodeAt(index), index - reader[EpisodeAt(index)].from>>

(* _write_trimmed_episodes, frame by frame and episode by episode.           *)
Current == Len(staged) + 1

WriteFrame ==
  /\ stage = "write" /\ Current <= Len(plan)
  /\ plan[Current].from + Len(writing) < plan[Current].to
  /\ writing' = Append(writing, FrameAt(plan[Current].from + Len(writing), Current))
  /\ UNCHANGED <<stage, result>>
  /\ Untouched /\ UNCHANGED <<staging, staged, counted, reader, plan>>

SaveTrimmed ==
  /\ stage = "write" /\ Current <= Len(plan)
  /\ plan[Current].from + Len(writing) = plan[Current].to
  /\ staged' = Append(staged, writing) /\ writing' = <<>>
  /\ UNCHANGED <<stage, result>>
  /\ Untouched /\ UNCHANGED <<staging, counted, reader, plan>>

FinishWriter ==
  /\ stage = "write" /\ Current > Len(plan)
  /\ Reaches("verify")
  /\ Untouched /\ UNCHANGED <<staging, staged, writing, counted, reader, plan>>

(* The counts in info.json, provenance, and the inspection of the sibling.   *)
VerifyStaged ==
  /\ stage = "verify"
  /\ Len(staged) = counted.episodes
  /\ FoldFunction(LAMBDA frames, n : Len(frames) + n, 0, staged) =
       FoldFunction(LAMBDA e, n : e.to - e.from + n, 0, plan)
  /\ staging' = "sealed" /\ Reaches("commit")
  /\ Untouched /\ UNCHANGED <<staged, writing, counted, reader, plan>>

(* commit, with overwrite=False: it does not replace a dataset.              *)
CommitMigration ==
  /\ stage = "commit" /\ targetSet = NoDataset
  /\ targetSet' = staged /\ staging' = "absent" /\ staged' = <<>>
  /\ Finishes("PASS")
  /\ UNCHANGED <<collectorVars, writing, dryRun, counted, reader, plan>>

(* Every step may fail of itself; and these checks of it do.                 *)
MigrationFails == stage # "over" /\ Raises

(* A killed run leaves its sibling, which refuses every run until somebody   *)
(* has inspected it.                                                         *)
KillMigration ==
  /\ stage # "over" /\ Finishes("killed")
  /\ staging' = IF staging = "absent" THEN staging ELSE "left"
  /\ staged' = <<>> /\ writing' = <<>>
  /\ Untouched /\ UNCHANGED <<counted, reader, plan>>

RemoveLeftover ==
  /\ staging = "left" /\ stage = "over" /\ staging' = "absent"
  /\ Untouched /\ UNCHANGED <<staged, writing, stage, counted, reader, plan, result>>

(* After a PASS the target exists and no other run gets past it.             *)
MigrateAgain ==
  /\ result \in {"failed", "killed", "DRY_RUN"}
  /\ stage' = "inspect" /\ result' = "none" /\ dryRun' \in BOOLEAN
  /\ counted' = [episodes |-> 0, frames |-> 0] /\ reader' = <<>> /\ plan' = <<>>
  /\ UNCHANGED <<collectorVars, targetSet, staging, staged, writing>>

(* A collection session adds an episode to the source, through a sibling.    *)
BeginAppend ==
  /\ ~appending /\ Len(sourceSet) < MaxSource
  /\ appending' = TRUE
  /\ UNCHANGED <<sourceSet, taken, targetSet, staging, staged, writing, stage, dryRun,
                 counted, reader, plan, result>>

EndAppend(e) ==
  /\ appending /\ appending' = FALSE
  /\ sourceSet' = Extended(sourceSet, e)
  /\ UNCHANGED <<taken, targetSet, staging, staged, writing, stage, dryRun,
                 counted, reader, plan, result>>

(* One that started before the migration publishes under the target's name.  *)
TakeTarget ==
  /\ targetSet = NoDataset
  /\ targetSet' = Others /\ taken' = TRUE
  /\ UNCHANGED <<sourceSet, appending, staging, staged, writing, stage, dryRun,
                 counted, reader, plan, result>>

MigrationNext ==
  \/ InspectSource \/ InspectTarget \/ LoadReader \/ PlanTrim \/ EnterTransaction
  \/ WriteFrame \/ SaveTrimmed \/ FinishWriter \/ VerifyStaged \/ CommitMigration
  \/ MigrationFails \/ KillMigration \/ RemoveLeftover \/ MigrateAgain
  \/ BeginAppend \/ TakeTarget
  \/ \E e \in Recorded : EndAppend(e)

MigrationSpec == MigrationInit /\ [][MigrationNext]_migrationVars
-----------------------------------------------------------------------------
(* A migrated dataset appears whole or not at all: every episode the source  *)
(* had when it was inspected, in order, each with exactly its frames from    *)
(* the first one that moves; it never replaces what another program          *)
(* published meanwhile; PASS is said only of it, and a run that failed or    *)
(* was dry leaves no sibling of its own and no dataset (migration.py:155-277).*)
Trimmed(e, i) == [k \in 1 .. e.length - e.gate |-> <<i, e.gate + k - 1>>]

MigratedWhole ==
  /\ taken => targetSet = Others
  /\ targetSet # NoDataset /\ ~taken =>
       targetSet = [i \in 1 .. counted.episodes |-> Trimmed(sourceSet[i], i)]
  /\ result = "PASS" => targetSet # NoDataset /\ ~taken
  /\ result \in {"failed", "DRY_RUN"} =>
       /\ staging \in {"absent", "left"}
       /\ targetSet # NoDataset => taken
=============================================================================
