---------------------------- MODULE SerialFraming ----------------------------
(***************************************************************************)
(* FrameDecoder (hkvl_serial.py): the frames of the force sensor are found  *)
(* again in the bytes of a serial line, which come in reads of any length  *)
(* and may begin anywhere or be damaged.  A byte is a member of a small    *)
(* set; the checksum and the finiteness of a frame's six values are sets   *)
(* of frames, whatever they are computed from.                             *)
(***************************************************************************)
EXTENDS Integers, Sequences, SequencesExt, FiniteSets

CONSTANTS
  Bytes,
  Header,      \* HEADER: two bytes that differ
  FrameSize,   \* FRAME_SIZE
  Intact,      \* the frames whose checksum is right
  Finite,      \* the frames whose values are finite
  MaxRead,     \* bound on the bytes of one read
  MaxReceived  \* bound on the bytes of the stream

ASSUME FramingAssumption ==
  /\ Header \in [1 .. 2 -> Bytes] /\ Header[1] # Header[2]
  /\ FrameSize \in Nat /\ FrameSize > 2 /\ MaxRead \in Nat /\ MaxReceived \in Nat

VARIABLES
  received,   \* every byte read so far: the .bin of a capture
  buffer,     \* _buffer
  feeding,    \* feed is in its loop
  accepted,   \* where in the stream the frames began that were intact
  samples,    \* the frames delivered
  crcFailures,
  nonfinite,  \* nonfinite_frames
  discarded   \* discarded_bytes

counters == <<crcFailures, nonfinite, discarded>>
framingVars == <<received, buffer, feeding, accepted, samples, counters>>

FramingInit ==
  /\ received = <<>> /\ buffer = <<>> /\ feeding = FALSE
  /\ accepted = {} /\ samples = <<>>
  /\ crcFailures = 0 /\ nonfinite = 0 /\ discarded = 0

(* A read of the port, and feed with what it returned.                       *)
Feed(chunk) ==
  /\ ~feeding /\ Len(received) + Len(chunk) <= MaxReceived
  /\ received' = received \o chunk /\ buffer' = buffer \o chunk
  /\ feeding' = TRUE
  /\ UNCHANGED <<accepted, samples, counters>>
-----------------------------------------------------------------------------
(* find: the places in the buffer where a header begins.                     *)
Headers ==
  {i \in 1 .. Len(buffer) - 1 : SubSeq(buffer, i, i + 1) = Header}

DropFirst(n) ==
  /\ buffer' = SubSeq(buffer, n + 1, Len(buffer))
  /\ discarded' = discarded + n

(* Mutant: a header cut in two by the end of a read is thrown away.          *)
Kept_Nothing == 0

(* The first half of a header is kept for the next read.                     *)
Kept == IF Last(buffer) = Header[1] THEN 1 ELSE 0

DropAll ==
  /\ feeding /\ buffer # <<>> /\ Headers = {}
  /\ DropFirst(Len(buffer) - Kept)
  /\ feeding' = FALSE
  /\ UNCHANGED <<received, accepted, samples, crcFailures, nonfinite>>

SkipToHeader ==
  /\ feeding /\ Headers # {} /\ 1 \notin Headers
  /\ \E start \in Headers :
       (\A other \in Headers : start <= other) /\ DropFirst(start - 1)
  /\ UNCHANGED <<received, feeding, accepted, samples, crcFailures, nonfinite>>

Candidate == SubSeq(buffer, 1, FrameSize)

AwaitRest ==
  /\ feeding /\ (buffer = <<>> \/ (1 \in Headers /\ Len(buffer) < FrameSize))
  /\ feeding' = FALSE
  /\ UNCHANGED <<received, buffer, accepted, samples, counters>>

(* A frame with a wrong checksum gives up its first byte only: the true one  *)
(* may begin inside it.                                                      *)
RejectFrame ==
  /\ feeding /\ 1 \in Headers /\ Len(buffer) >= FrameSize
  /\ Candidate \notin Intact
  /\ crcFailures' = crcFailures + 1 /\ DropFirst(1)
  /\ UNCHANGED <<received, feeding, accepted, samples, nonfinite>>

TakeFrame ==
  /\ feeding /\ 1 \in Headers /\ Len(buffer) >= FrameSize
  /\ Candidate \in Intact
  /\ accepted' = accepted \cup {Len(received) - Len(buffer) + 1}
  /\ buffer' = SubSeq(buffer, FrameSize + 1, Len(buffer))
  /\ IF Candidate \in Finite
     THEN samples' = Append(samples, Candidate) /\ UNCHANGED nonfinite
     ELSE nonfinite' = nonfinite + 1 /\ UNCHANGED samples
  /\ UNCHANGED <<received, feeding, crcFailures, discarded>>

FramingNext ==
  \/ \E n \in 1 .. MaxRead : \E chunk \in [1 .. n -> Bytes] : Feed(chunk)
  \/ DropAll \/ SkipToHeader \/ AwaitRest \/ RejectFrame \/ TakeFrame

FramingSpec == FramingInit /\ [][FramingNext]_framingVars
-----------------------------------------------------------------------------
(* However the stream is cut into reads, what is decoded depends on its      *)
(* bytes alone: of those that have been dealt with, the frames are the       *)
(* intact ones that do not begin inside an earlier one, the finite ones are  *)
(* delivered in order, every other byte is counted as discarded and every    *)
(* header of a damaged frame as a failure; and no whole frame waits for the  *)
(* next read (FrameDecoder.feed).                                            *)
Dealt == Len(received) - Len(buffer)
FrameFrom(i) == SubSeq(received, i, i + FrameSize - 1)
HeaderAt(i) == i < Len(received) /\ SubSeq(received, i, i + 1) = Header
IntactAt(i) == HeaderAt(i) /\ i + FrameSize - 1 <= Len(received) /\ FrameFrom(i) \in Intact
Inside(i) == \E j \in accepted : j < i /\ i < j + FrameSize

Delivered == {i \in accepted : FrameFrom(i) \in Finite}
Damaged == {i \in 1 .. Dealt : HeaderAt(i) /\ ~Inside(i)} \ accepted
Lists(places) ==
  /\ \A i \in Delivered : \E k \in DOMAIN places : places[k] = i
  /\ \A k, l \in DOMAIN places : k < l => places[k] < places[l]
  /\ \A k \in DOMAIN places : samples[k] = FrameFrom(places[k])

FramingExact ==
  /\ buffer = SubSeq(received, Dealt + 1, Len(received))
  /\ accepted = {i \in 1 .. Dealt : IntactAt(i) /\ ~Inside(i)}
  /\ \E places \in [DOMAIN samples -> Delivered] : Lists(places)
  /\ nonfinite = Cardinality(accepted) - Len(samples)
  /\ discarded = Dealt - FrameSize * Cardinality(accepted)
  /\ crcFailures = Cardinality(Damaged)
  /\ ~feeding => \A i \in 1 .. Len(received) : IntactAt(i) => i <= Dealt
=============================================================================
