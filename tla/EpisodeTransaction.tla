------------------------- MODULE EpisodeTransaction -------------------------
(***************************************************************************)
(* One episode on its way into the dataset (collection/dataset.py,         *)
(* DirectLeRobotEpisode): a hidden sibling directory holds a snapshot of   *)
(* the dataset and the frames of the episode, and replaces the dataset in  *)
(* one rename when it is complete and valid.  The replacement itself is    *)
(* OutputDirectoryTransaction of embodied_ops, modelled from how dataset.py*)
(* uses it and from the siblings it leaves behind.                         *)
(***************************************************************************)
EXTENDS Integers

CONSTANTS
  MaxEpisodes,  \* bound on the episodes of the dataset
  MaxFrames     \* bound on the frames counted in an episode

ASSUME TransactionAssumption ==
  MaxEpisodes \in Nat \ {0} /\ MaxFrames \in Nat \ {0}

VARIABLES
  target,   \* episodes in the dataset, 0 when there is no directory
  staging,  \* what the hidden sibling is: its progress, or "absent"
  staged,   \* the complete episodes it holds
  added,    \* the frames of the episode it adds to the dataset's
  backup,   \* episodes in the dataset set aside by a replacement, or NoBackup
  buffer    \* frames in LeRobot's episode buffer

datasetVars == <<target, staging, staged, added, backup, buffer>>

NoBackup == -1

DatasetInit ==
  /\ target = 0 /\ staging = "absent" /\ staged = 0 /\ added = 0
  /\ backup = NoBackup /\ buffer = 0

(* validate_no_transaction_leftovers, at every inspection.                   *)
Clean == staging = "absent" /\ backup = NoBackup

(* __enter__: the snapshot of the dataset, or a new one.                     *)
OpenEpisode ==
  /\ Clean /\ target < MaxEpisodes
  /\ staging' = "open" /\ staged' = target /\ buffer' = 0
  /\ UNCHANGED <<target, added, backup>>

AddFrame ==
  /\ staging = "open"
  /\ buffer' = IF buffer < MaxFrames THEN buffer + 1 ELSE buffer
  /\ UNCHANGED <<target, staging, staged, added, backup>>

DiscardFrames ==
  /\ buffer' = 0 /\ UNCHANGED <<target, staging, staged, added, backup>>

(* commit: save_episode and finalize, whatever the buffer holds; then        *)
(* provenance and inspection.                                                *)
SaveEpisode ==
  /\ staging = "open"
  /\ staging' = "saved" /\ staged' = staged + 1 /\ added' = buffer /\ buffer' = 0
  /\ UNCHANGED <<target, backup>>

SealEpisode ==
  /\ staging = "saved"
  /\ staging' = "sealed"
  /\ UNCHANGED <<target, staged, added, backup, buffer>>

(* The replacement: the dataset aside, the sibling in its place, then the    *)
(* old one is removed.                                                       *)
SetAside ==
  /\ staging = "sealed" /\ backup = NoBackup /\ target > 0
  /\ backup' = target /\ target' = 0
  /\ UNCHANGED <<staging, staged, added, buffer>>

Install ==
  /\ staging = "sealed" /\ target = 0
  /\ target' = staged /\ staging' = "absent" /\ staged' = 0 /\ added' = 0
  /\ UNCHANGED <<backup, buffer>>

RemoveBackup ==
  /\ staging = "absent" /\ backup # NoBackup /\ target > 0
  /\ backup' = NoBackup
  /\ UNCHANGED <<target, staging, staged, added, buffer>>

(* Mutant: a replacement that was not cleaned up is undone.                  *)
RollBack_Undoes ==
  /\ target' = IF backup # NoBackup THEN backup ELSE target
  /\ staging' = "absent" /\ staged' = 0 /\ added' = 0 /\ buffer' = 0
  /\ backup' = NoBackup

(* __exit__: what is not committed is removed, and a dataset set aside comes *)
(* back.                                                                     *)
RollBack ==
  /\ target' = IF target = 0 /\ backup # NoBackup THEN backup ELSE target
  /\ staging' = "absent" /\ staged' = 0 /\ added' = 0 /\ buffer' = 0
  /\ backup' = NoBackup

(* Somebody inspects what a crash left, as validate_no_transaction_leftovers *)
(* demands.                                                                  *)
InspectLeftovers == ~Clean /\ RollBack

Kept == IF backup > target THEN backup ELSE target

DatasetTypeOK ==
  /\ target \in 0 .. MaxEpisodes /\ staged \in 0 .. MaxEpisodes
  /\ staging \in {"absent", "open", "saved", "sealed"}
  /\ backup \in -1 .. MaxEpisodes /\ added \in 0 .. MaxFrames /\ buffer \in 0 .. MaxFrames
=============================================================================
