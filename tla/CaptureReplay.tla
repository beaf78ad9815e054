--------------------------- MODULE CaptureReplay ---------------------------
(***************************************************************************)
(* redecode_capture (feedback_decode.py): the raw frames a capture saved   *)
(* are read again, judged line by line against the capture's own report,   *)
(* and only then decoded into an output directory of their own.  A value   *)
(* that is decoded is left out: a row stands for the line it came from.    *)
(***************************************************************************)
EXTENDS Integers, Sequences, SequencesExt

CONSTANTS
  Followers,   \* the Follower sides of the configuration
  MaxLines,    \* bound on the lines of raw_feedback.jsonl
  MaxRound     \* bound on their rounds and times

ASSUME ReplayAssumption == {MaxLines, MaxRound} \subseteq Nat

(* A line, as a crash, a full disk or an edit may have left it: its time is  *)
(* 0 if it or its frames do not decode under the configuration's identities. *)
SavedLines == [side : Followers, round : 1 .. MaxRound, time : 0 .. MaxRound]

(* report.json: its status, and the completed rounds of every side, 0 for a  *)
(* side without an endpoint.                                                 *)
SavedReports == [passed : BOOLEAN, rounds : [Followers -> 0 .. MaxRound]]

VARIABLES
  savedReport,
  savedLines,
  replayed,     \* where redecode_capture is
  records,      \* the lines it has judged
  roundsOf,     \* counts: how many of them are of a side
  previous,     \* the time of a side's last one, 0 for none
  rowsWritten,  \* decoded.csv
  replayStatus  \* status in the output's report, "earlier" or "none" before it

judgedVars == <<records, roundsOf, previous>>
replayVars == <<savedReport, savedLines, replayed, judgedVars, rowsWritten, replayStatus>>

NothingOf == [s \in Followers |-> 0]

ReplayInit ==
  /\ savedReport \in SavedReports
  /\ savedLines \in BoundedSeq(SavedLines, MaxLines)
  /\ replayed = "read" /\ rowsWritten = <<>>
  /\ records = <<>> /\ roundsOf = NothingOf /\ previous = NothingOf
  /\ replayStatus \in {"none", "earlier"}
-----------------------------------------------------------------------------
ReplayGoes(to) == replayed' = to /\ UNCHANGED <<savedReport, savedLines>>

(* The report is of a passed capture with endpoints.                         *)
ReadSaved ==
  /\ replayed = "read"
  /\ IF savedReport.passed /\ \E s \in Followers : savedReport.rounds[s] > 0
     THEN ReplayGoes("judge") ELSE ReplayGoes("refused")
  /\ UNCHANGED <<judgedVars, rowsWritten, replayStatus>>

(* The line of a side is of its next round and later than its last.          *)
Follows(line) ==
  /\ savedReport.rounds[line.side] > 0
  /\ line.round = roundsOf[line.side] + 1
  /\ line.time > previous[line.side]

JudgeLine ==
  /\ replayed = "judge" /\ Len(records) < Len(savedLines)
  /\ LET line == savedLines[Len(records) + 1]
     IN IF Follows(line)
        THEN /\ records' = Append(records, line)
             /\ roundsOf' = [roundsOf EXCEPT ![line.side] = @ + 1]
             /\ previous' = [previous EXCEPT ![line.side] = line.time]
             /\ ReplayGoes("judge")
        ELSE ReplayGoes("refused") /\ UNCHANGED judgedVars
  /\ UNCHANGED <<rowsWritten, replayStatus>>

(* Mutant: fewer rounds than the capture completed pass for all of them.     *)
AllRounds_AtMost == \A s \in Followers : roundsOf[s] <= savedReport.rounds[s]

AllRounds == \A s \in Followers : roundsOf[s] = savedReport.rounds[s]

(* mkdir refuses an output that exists; then the report says writing.        *)
OpenOutput ==
  /\ replayed = "judge" /\ Len(records) = Len(savedLines)
  /\ IF AllRounds /\ replayStatus = "none"
     THEN ReplayGoes("write") /\ replayStatus' = "writing"
     ELSE ReplayGoes("refused") /\ UNCHANGED replayStatus
  /\ UNCHANGED <<judgedVars, rowsWritten>>

WriteRow ==
  /\ replayed = "write" /\ Len(rowsWritten) < Len(records)
  /\ rowsWritten' = Append(rowsWritten, records[Len(rowsWritten) + 1])
  /\ ReplayGoes("write") /\ UNCHANGED <<judgedVars, replayStatus>>

(* The report is written again in any case, unless that fails as well.       *)
ConcludeReplay ==
  /\ replayed = "write" /\ Len(rowsWritten) = Len(records)
  /\ \/ replayStatus' = "passed"
     \/ UNCHANGED replayStatus
  /\ ReplayGoes("over") /\ UNCHANGED <<judgedVars, rowsWritten>>

WriteFails ==
  /\ replayed = "write"
  /\ \/ replayStatus' = "failed"
     \/ UNCHANGED replayStatus
  /\ ReplayGoes("over") /\ UNCHANGED <<judgedVars, rowsWritten>>

KillReplay ==
  /\ replayed \in {"read", "judge", "write"}
  /\ ReplayGoes("over") /\ UNCHANGED <<judgedVars, rowsWritten, replayStatus>>

(* The same command again, on the same output.                               *)
ReplayAgain ==
  /\ replayed \in {"over", "refused"}
  /\ ReplayGoes("read")
  /\ records' = <<>> /\ roundsOf' = NothingOf /\ previous' = NothingOf
  /\ UNCHANGED <<rowsWritten, replayStatus>>

ReplayNext ==
  \/ ReadSaved \/ JudgeLine \/ OpenOutput \/ WriteRow \/ ConcludeReplay
  \/ WriteFails \/ KillReplay \/ ReplayAgain

ReplaySpec == ReplayInit /\ [][ReplayNext]_replayVars
-----------------------------------------------------------------------------
(* A replay that says passed is of the whole of a passed capture: its rows   *)
(* are the saved lines, all of them and in their order, and of every side    *)
(* those are the rounds 1, 2, ... to the completed one, later and later; and *)
(* an output that was there before is not touched, by the second run of a    *)
(* command either (feedback_decode.py:81-228).                               *)
AllOfRounds ==
  /\ \A s \in Followers : \A n \in 1 .. savedReport.rounds[s] :
       \E i \in DOMAIN savedLines : savedLines[i].side = s /\ savedLines[i].round = n
  /\ \A i \in DOMAIN savedLines :
       LET line == savedLines[i]
       IN line.round <= savedReport.rounds[line.side] /\ line.time > 0
  /\ \A i, j \in DOMAIN savedLines :
       i < j /\ savedLines[i].side = savedLines[j].side =>
         savedLines[i].round < savedLines[j].round /\ savedLines[i].time < savedLines[j].time

ReplayFaithful ==
  /\ replayStatus \in {"none", "earlier"} => rowsWritten = <<>>
  /\ replayStatus = "passed" =>
       savedReport.passed /\ rowsWritten = savedLines /\ AllOfRounds
=============================================================================
