------------------------- MODULE PassiveFeedbackLog -------------------------
(***************************************************************************)
(* The passive log of motor feedback beside the native controllers: a      *)
(* thread reads the frames of a raw CAN socket into FeedbackLogBuffer, a   *)
(* ring that keeps the newest frames or refuses to lose any, and watches   *)
(* for a motor that fell silent (passive_feedback_log.cpp and              *)
(* feedback_log_buffer.cpp).                                               *)
(***************************************************************************)
EXTENDS Integers, FiniteSets, Sequences, SequencesExt

CONSTANTS
  ResponseIds,   \* the motors of the Follower
  Capacity,      \* of the ring, at least one frame of each
  LogTimeout,    \* timeout_ns
  Burst,         \* frames read in one wake
  SocketLimit,   \* frames the kernel queues
  MaxComing,     \* bound on the frames sent
  MaxLogTime     \* bound on the clock

(* The constructor asks for a place for every motor and for a timeout.       *)
ASSUME LogAssumption ==
  /\ IsFiniteSet(ResponseIds) /\ Capacity \in Nat \ {0}
  /\ Capacity >= Cardinality(ResponseIds)
  /\ LogTimeout \in Nat \ {0}

VARIABLES
  logTime,
  socketQueue,   \* frames in the kernel: motor, number, arrival, drops before it
  sentFrames,    \* frames sent so far: the number of the last one
  dropped,       \* frames the kernel dropped
  retainLatest,
  ring,          \* records_
  oldest,        \* oldest_
  evicted,       \* evicted_
  heardAt,       \* last_, 0 for a motor not heard
  openedAt,      \* started_ns_
  checkedAt,     \* last_check_ns_
  inBurst,       \* frames read since the last poll
  logger,        \* the thread: "reading", "failed" or "stopped"
  logStatus,     \* of the file: "open", "passed" or "failed"
  ingested       \* every frame that was ingested, in order

logVars == <<logTime, socketQueue, sentFrames, dropped, retainLatest, ring, oldest,
             evicted, heardAt, openedAt, checkedAt, inBurst, logger, logStatus, ingested>>
bufferVars == <<ring, oldest, evicted, heardAt, openedAt, ingested>>

LogInit ==
  /\ logTime = 1 /\ socketQueue = <<>> /\ sentFrames = 0 /\ dropped = 0
  /\ retainLatest \in BOOLEAN
  /\ ring = <<>> /\ oldest = 0 /\ evicted = 0
  /\ heardAt = [id \in ResponseIds |-> 0] /\ openedAt = 1 /\ checkedAt = 1
  /\ inBurst = 0 /\ logger = "reading" /\ logStatus = "open" /\ ingested = <<>>

(* chronological: from the oldest frame on, around the ring.                 *)
Chronological ==
  [i \in 1 .. Len(ring) |-> ring[1 + ((oldest + i - 1) % Len(ring))]]
-----------------------------------------------------------------------------
LogTick ==
  /\ logTime < MaxLogTime /\ logTime' = logTime + 1
  /\ UNCHANGED <<socketQueue, sentFrames, dropped, retainLatest, bufferVars, checkedAt,
                 inBurst, logger, logStatus>>

(* The kernel queues a frame with the count of those it dropped before it.   *)
FrameComes(id) ==
  /\ sentFrames < MaxComing
  /\ sentFrames' = sentFrames + 1
  /\ IF Len(socketQueue) < SocketLimit
     THEN /\ socketQueue' = Append(socketQueue,
               [id |-> id, number |-> sentFrames', kernel |-> logTime, drops |-> dropped])
          /\ UNCHANGED dropped
     ELSE dropped' = dropped + 1 /\ UNCHANGED socketQueue
  /\ UNCHANGED <<logTime, retainLatest, bufferVars, checkedAt, inBurst, logger, logStatus>>
-----------------------------------------------------------------------------
Fails == logger' = "failed"

(* Mutant: the oldest frame's place does not move on.                        *)
Keep_InPlace(r) ==
  IF Len(ring) < Capacity
  THEN ring' = Append(ring, r) /\ UNCHANGED <<oldest, evicted>>
  ELSE /\ ring' = [ring EXCEPT ![oldest + 1] = r]
       /\ oldest' = oldest /\ evicted' = evicted + 1

(* The end of ingest: a full ring gives up its oldest frame.                 *)
Keep(r) ==
  IF Len(ring) < Capacity
  THEN ring' = Append(ring, r) /\ UNCHANGED <<oldest, evicted>>
  ELSE /\ ring' = [ring EXCEPT ![oldest + 1] = r]
       /\ oldest' = (oldest + 1) % Capacity /\ evicted' = evicted + 1

(* recvmsg and ingest; reading takes time, so that receive times increase.   *)
(* A frame after a drop, or one that waited too long, is a fault, and so is  *)
(* a full ring that must not lose any.                                       *)
IngestFrame ==
  /\ logger = "reading" /\ socketQueue # <<>> /\ inBurst < Burst
  /\ logTime < MaxLogTime /\ logTime' = logTime + 1
  /\ socketQueue' = Tail(socketQueue)
  /\ LET f == Head(socketQueue)
     IN IF f.drops # 0 \/ logTime' - f.kernel > LogTimeout
             \/ (Len(ring) >= Capacity /\ ~retainLatest)
        THEN Fails /\ UNCHANGED <<ring, oldest, evicted, heardAt, ingested, inBurst>>
        ELSE /\ heardAt' = [heardAt EXCEPT ![f.id] = logTime']
             /\ LET r == [number |-> f.number, id |-> f.id, at |-> logTime']
                IN Keep(r) /\ ingested' = Append(ingested, r)
             /\ inBurst' = inBurst + 1 /\ UNCHANGED logger
  /\ UNCHANGED <<sentFrames, dropped, retainLatest, openedAt, checkedAt, logStatus>>

(* check, once the socket is empty or the burst over.                        *)
Silent(id) ==
  logTime - (IF heardAt[id] = 0 THEN openedAt ELSE heardAt[id]) > LogTimeout

CheckBuffer ==
  /\ logger = "reading" /\ (socketQueue = <<>> \/ inBurst = Burst)
  /\ inBurst' = 0 /\ checkedAt' = logTime
  /\ IF \E id \in ResponseIds : Silent(id) THEN Fails ELSE UNCHANGED logger
  /\ UNCHANGED <<logTime, socketQueue, sentFrames, dropped, retainLatest, bufferVars,
                 logStatus>>

(* finish: the thread ends, in a burst or in its poll with one more check,   *)
(* and what the ring holds is written.                                       *)
FinishLog(succeeded, checks) ==
  /\ logStatus = "open"
  /\ IF checks THEN logger = "reading" ELSE logger = "failed" \/ inBurst = 0
  /\ checkedAt' = IF checks THEN logTime ELSE checkedAt
  /\ IF logger = "failed" \/ (checks /\ \E id \in ResponseIds : Silent(id))
     THEN Fails ELSE logger' = "stopped"
  /\ logStatus' = IF succeeded /\ logger' = "stopped" /\ ring # <<>> THEN "passed" ELSE "failed"
  /\ UNCHANGED <<logTime, socketQueue, sentFrames, dropped, retainLatest, bufferVars,
                 inBurst>>

LogNext ==
  \/ LogTick \/ IngestFrame \/ CheckBuffer
  \/ \E id \in ResponseIds : FrameComes(id)
  \/ \E succeeded, checks \in BOOLEAN : FinishLog(succeeded, checks)

LogSpec == LogInit /\ [][LogNext]_logVars
-----------------------------------------------------------------------------
(* What the log writes is an unbroken stretch of the bus: the newest frames  *)
(* in the order they were sent, none missing between two of them, as many as *)
(* were read less those it says it evicted, with full retention all of them; *)
(* and as long as it has not failed, every motor had been heard within the   *)
(* timeout when it last checked, however busy the others keep the ring       *)
(* (feedback_log_buffer.cpp:40-86).                                          *)
LastHeard(id) ==
  LET i == SelectLastInSeq(ingested, LAMBDA r : r.id = id)
  IN IF i = 0 THEN openedAt ELSE ingested[i].at

LogUnbroken ==
  LET rows == Chronological
  IN /\ rows = SubSeq(ingested, evicted + 1, Len(ingested))
     /\ Len(rows) <= Capacity /\ (~retainLatest => evicted = 0)
     /\ \A i \in DOMAIN rows : i > 1 => rows[i].number = rows[i - 1].number + 1
     /\ logger # "failed" =>
          \A id \in ResponseIds : checkedAt - LastHeard(id) <= LogTimeout
=============================================================================
