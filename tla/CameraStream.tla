---------------------------- MODULE CameraStream ----------------------------
(***************************************************************************)
(* How a frame reaches a consumer.  In the camera owner one thread per     *)
(* camera keeps its newest frame (_OpenCvReader); the raw bridge serves    *)
(* sets of newest frames over a stream socket to one collecting client     *)
(* (camera_ipc.py) which validates every set (cameras.py), and the preview *)
(* encodes the newest frames and reports health (camera_preview.py).  The  *)
(* camera check owns the readers itself and takes each frame once, and     *)
(* captures roles that lag the newest frame again (V4L2CameraSet.capture). *)
(* An owner may fail or be stopped and replaced by one of a new epoch, a   *)
(* camera may fail or hang.  Images are left out: a frame is its sequence  *)
(* number and the instant of its read.                                     *)
(***************************************************************************)
EXTENDS Integers, FiniteSets

CONSTANTS
  Roles,       \* the enabled camera roles
  PairSkew,    \* cameras.max_pair_skew_s
  FrameAge,    \* cameras.max_age_s, and camera_preview.max_age_s
  Patience,    \* timeout_s of a capture
  MaxWait,     \* _MAX_WAIT_S: the longest the server keeps a request
  MaxInstant,  \* bound on the clock
  MaxEpoch     \* bound on the owners started

ASSUME CameraAssumption ==
  /\ Roles # {} /\ IsFiniteSet(Roles)
  /\ PairSkew \in Nat /\ FrameAge \in Nat /\ Patience \in Nat \ {0}
  /\ MaxWait \in Nat \ {0}
  /\ MaxInstant \in Nat /\ MaxEpoch \in Nat \ {0}

VARIABLES
  instant,    \* the monotonic clock
  owner,      \* what owns the cameras: "service", "check" or "down"
  epoch,      \* stream_epoch: the generation of the owner
  reader,     \* what each reader thread does
  frame,      \* _OpenCvReader._latest
  delivered,  \* _OpenCvReader._last_delivered_sequence
  client,     \* the capture call of the bridge's client
  deadline,   \* its deadline, or that of the check's capture
  after,      \* RawCameraBridgeClient._after
  previous,   \* CameraSetValidator._previous
  request,    \* the request the server's handler works on
  snap,       \* the roles latest() has read so far in this round, or captures
  response    \* what the handler sent and the client has not read

ownerVars == <<owner, epoch, reader, frame, delivered>>
clientVars == <<client, deadline, after, previous>>
serverVars == <<request, snap, response>>
cameraVars == <<instant, ownerVars, clientVars, serverVars>>

Instants == 0 .. MaxInstant
Frames == [seq : 0 .. MaxInstant + 1, at : Instants]
Nothing == [r \in {} |-> 0]
NoMessage == [kind |-> "none"]

Synchronized(set) ==
  \A r, s \in DOMAIN set : set[r].at - set[s].at <= PairSkew

CameraInit ==
  /\ instant = 0
  /\ owner = "down" /\ epoch = 0
  /\ reader = [r \in Roles |-> "closed"]
  /\ frame = [r \in Roles |-> [seq |-> 0, at |-> 0]]
  /\ delivered = [r \in Roles |-> 0]
  /\ client = "closed" /\ deadline = 0
  /\ after = [r \in Roles |-> 0] /\ previous = Nothing
  /\ request = NoMessage /\ snap = Nothing /\ response = NoMessage
-----------------------------------------------------------------------------
(* The owner: __enter__ takes one frame of every camera before it serves.    *)
StartOwner(kind) ==
  /\ owner = "down" /\ client \notin {"idle", "asking"} /\ epoch < MaxEpoch
  /\ owner' = kind /\ epoch' = epoch + 1
  /\ reader' = [r \in Roles |-> "reading"]
  /\ frame' = [r \in Roles |-> [seq |-> 1, at |-> instant]]
  /\ delivered' = [r \in Roles |-> 1]
  /\ UNCHANGED <<instant, clientVars, serverVars>>

(* One turn of _read_frames; two frames of a camera have different times.    *)
ReadFrame(r) ==
  /\ owner # "down" /\ reader[r] = "reading" /\ frame[r].at < instant
  /\ frame' = [frame EXCEPT ![r] = [seq |-> @.seq + 1, at |-> instant]]
  /\ UNCHANGED <<instant, owner, epoch, reader, delivered,
                 clientVars, serverVars>>

(* read() fails, which _fail records, or does not return.                    *)
ReadEnds(r, how) ==
  /\ owner # "down" /\ reader[r] = "reading"
  /\ instant + FrameAge < MaxInstant
  /\ reader' = [reader EXCEPT ![r] = how]
  /\ UNCHANGED <<instant, owner, epoch, frame, delivered,
                 clientVars, serverVars>>

CloseReaders ==
  /\ owner' = "down"
  /\ reader' = [r \in Roles |-> "closed"]
  /\ frame' = [r \in Roles |-> [seq |-> 0, at |-> 0]]
  /\ delivered' = [r \in Roles |-> 0]

(* The service's loop meets the error of a reader, or the owner is stopped;  *)
(* its connections close with it.                                            *)
StopOwner ==
  /\ owner = "service" /\ CloseReaders
  /\ request' = NoMessage /\ snap' = Nothing /\ response' = NoMessage
  /\ UNCHANGED <<instant, epoch, clientVars>>
-----------------------------------------------------------------------------
(* The bridge's handler: latest() reads the roles one after the other.       *)
Snapshot(r) ==
  /\ request.kind = "next" /\ r \notin DOMAIN snap /\ reader[r] # "failed"
  /\ snap' = [s \in DOMAIN snap \cup {r} |->
                IF s = r THEN frame[r] ELSE snap[s]]
  /\ UNCHANGED <<instant, ownerVars, clientVars, request, response>>

(* Mutant: one new frame makes the set new.                                  *)
AllChanged_Any == \E r \in Roles : snap[r].seq > request.after[r]

AllChanged == \A r \in Roles : snap[r].seq > request.after[r]

Answer(kind, frames) ==
  /\ response' = [kind |-> kind, frames |-> frames, epoch |-> epoch]
  /\ request' = NoMessage /\ snap' = Nothing
  /\ UNCHANGED <<instant, ownerVars, clientVars>>

RespondChanged ==
  /\ request.kind = "next" /\ DOMAIN snap = Roles
  /\ AllChanged /\ Synchronized(snap)
  /\ Answer("changed", snap)

RespondUnchanged ==
  /\ request.kind = "next" /\ DOMAIN snap = Roles
  /\ ~(AllChanged /\ Synchronized(snap)) /\ instant >= request.until
  /\ Answer("unchanged", Nothing)

RespondError ==
  /\ request.kind = "next"
  /\ \E r \in Roles \ DOMAIN snap : reader[r] = "failed"
  /\ Answer("error", Nothing)

SleepAndRetry ==
  /\ request.kind = "next" /\ DOMAIN snap = Roles
  /\ ~(AllChanged /\ Synchronized(snap)) /\ instant < request.until
  /\ snap' = Nothing
  /\ UNCHANGED <<instant, ownerVars, clientVars, request, response>>
-----------------------------------------------------------------------------
(* The client: one connection and one validator for each session.            *)
Connect ==
  /\ client = "closed" /\ owner = "service"
  /\ client' = "idle"
  /\ UNCHANGED <<instant, ownerVars, deadline, after, previous, serverVars>>

Earlier(s, t) == IF s < t THEN s ELSE t

Send(until) ==
  request' = [kind |-> "next", after |-> after,
              until |-> Earlier(until, instant + MaxWait)]

Capture ==
  /\ client = "idle" /\ owner = "service" /\ instant + Patience < MaxInstant
  /\ client' = "asking" /\ deadline' = instant + Patience
  /\ Send(instant + Patience)
  /\ UNCHANGED <<instant, ownerVars, after, previous, snap, response>>

(* Every end of a session closes its connection and drops its validator.     *)
Hangup ==
  /\ client' = "closed" /\ deadline' = 0
  /\ after' = [r \in Roles |-> 0] /\ previous' = Nothing
  /\ request' = NoMessage /\ snap' = Nothing /\ response' = NoMessage
  /\ UNCHANGED <<instant, ownerVars>>

(* CameraSetValidator.validate.                                              *)
Valid(frames, ofEpoch) ==
  /\ \A r \in Roles : instant - frames[r].at <= FrameAge
  /\ Synchronized(frames)
  /\ \A r \in DOMAIN previous :
       /\ previous[r].epoch = ofEpoch
       /\ frames[r].seq > previous[r].seq /\ frames[r].at > previous[r].at

Remember(frames, ofEpoch) ==
  previous' = [r \in Roles |-> [epoch |-> ofEpoch, seq |-> frames[r].seq,
                                at |-> frames[r].at]]

Accept ==
  /\ client = "asking" /\ response.kind = "changed"
  /\ Valid(response.frames, response.epoch)
  /\ client' = "idle" /\ deadline' = 0
  /\ after' = [r \in Roles |-> response.frames[r].seq]
  /\ Remember(response.frames, response.epoch)
  /\ response' = NoMessage
  /\ UNCHANGED <<instant, ownerVars, request, snap>>

Refuse ==
  /\ client = "asking"
  /\ \/ response.kind = "error"
     \/ response.kind = "changed" /\ ~Valid(response.frames, response.epoch)
     \/ response.kind = "unchanged" /\ instant >= deadline
  /\ Hangup

AskAgain ==
  /\ client = "asking" /\ response.kind = "unchanged" /\ instant < deadline
  /\ Send(deadline) /\ response' = NoMessage
  /\ UNCHANGED <<instant, ownerVars, clientVars, snap>>

(* Mutant: a capture that timed out leaves its connection open.              *)
TimeOut_KeepsSocket ==
  /\ client = "asking" /\ response = NoMessage /\ instant >= deadline
  /\ client' = "idle" /\ deadline' = 0
  /\ UNCHANGED <<instant, ownerVars, after, previous, serverVars>>

(* The socket's timeout, a little after the deadline, ends the session, and  *)
(* so does a connection closed by the owner.                                 *)
TimeOut ==
  /\ client = "asking" /\ response = NoMessage
  /\ instant > deadline \/ owner = "down"
  /\ Hangup

Disconnect == client = "idle" /\ Hangup
-----------------------------------------------------------------------------
(* The camera check: V4L2CameraSet.capture and _capture_roles.  snap holds   *)
(* captures; the roles outside its domain are being captured.                *)
StartCapture ==
  /\ owner = "check" /\ client = "closed" /\ instant + Patience <= MaxInstant
  /\ client' = "checking" /\ deadline' = instant + Patience
  /\ UNCHANGED <<instant, ownerVars, after, previous, serverVars>>

(* Mutant: the reader does not note what it delivered.                       *)
CaptureRole_Forgets(r) ==
  /\ client = "checking" /\ r \notin DOMAIN snap
  /\ reader[r] # "failed" /\ frame[r].seq > delivered[r]
  /\ snap' = [s \in DOMAIN snap \cup {r} |->
                IF s = r THEN frame[r] ELSE snap[s]]
  /\ UNCHANGED <<instant, ownerVars, clientVars, request, response>>

CaptureRole(r) ==
  /\ client = "checking" /\ r \notin DOMAIN snap
  /\ reader[r] # "failed" /\ frame[r].seq > delivered[r]
  /\ snap' = [s \in DOMAIN snap \cup {r} |->
                IF s = r THEN frame[r] ELSE snap[s]]
  /\ delivered' = [delivered EXCEPT ![r] = frame[r].seq]
  /\ UNCHANGED <<instant, owner, epoch, reader, frame,
                 clientVars, request, response>>

Lagging == {r \in DOMAIN snap :
              \E s \in DOMAIN snap : snap[s].at - snap[r].at > PairSkew}

CaptureAgain ==
  /\ client = "checking" /\ DOMAIN snap = Roles /\ Lagging # {}
  /\ instant < deadline
  /\ snap' = [r \in Roles \ Lagging |-> snap[r]]
  /\ UNCHANGED <<instant, ownerVars, clientVars, request, response>>

(* check_camera_source validates each set it captures.                       *)
Captured == client = "checking" /\ DOMAIN snap = Roles /\ Lagging = {}

CaptureReturns ==
  /\ Captured /\ Valid(snap, epoch) /\ Remember(snap, epoch)
  /\ client' = "closed" /\ deadline' = 0 /\ snap' = Nothing
  /\ UNCHANGED <<instant, ownerVars, after, request, response>>

(* A deadline, a reader's error or an invalid set ends the check, as its last*)
(* sample does: all its cameras are closed.                                  *)
EndCheck ==
  /\ client' = "closed" /\ deadline' = 0 /\ previous' = Nothing /\ snap' = Nothing
  /\ CloseReaders
  /\ UNCHANGED <<instant, epoch, after, request, response>>

CaptureFails ==
  /\ client = "checking"
  /\ \/ instant >= deadline
     \/ \E r \in Roles \ DOMAIN snap : reader[r] = "failed"
     \/ Captured /\ ~Valid(snap, epoch)
  /\ EndCheck

CheckEnds == owner = "check" /\ client = "closed" /\ EndCheck

Tick ==
  /\ instant < MaxInstant
  /\ instant' = instant + 1
  /\ UNCHANGED <<ownerVars, clientVars, serverVars>>
-----------------------------------------------------------------------------
Handler ==
  \/ \E r \in Roles : Snapshot(r)
  \/ RespondChanged \/ RespondUnchanged \/ RespondError \/ SleepAndRetry

ClientTurn ==
  \/ Accept \/ Refuse \/ AskAgain \/ TimeOut
  \/ CaptureAgain \/ CaptureReturns \/ CaptureFails
  \/ \E r \in Roles : CaptureRole(r)

CameraNext ==
  \/ \E kind \in {"service", "check"} : StartOwner(kind)
  \/ \E r \in Roles : ReadFrame(r)
  \/ \E r \in Roles, how \in {"failed", "hung"} : ReadEnds(r, how)
  \/ StopOwner \/ Handler
  \/ Connect \/ Capture \/ Disconnect \/ StartCapture \/ CheckEnds \/ ClientTurn
  \/ Tick

(* Threads run, calls go on and time passes; no frame need ever arrive.      *)
CameraSpec ==
  /\ CameraInit /\ [][CameraNext]_cameraVars
  /\ WF_cameraVars(Tick) /\ WF_cameraVars(Handler)
  /\ WF_cameraVars(ClientTurn)
-----------------------------------------------------------------------------
(* No two frames of a set that the bridge sends to its client lie behind     *)
(* what the client has accepted, and none is of another owner: the validator *)
(* never has to end a session for the order of its frames (camera_ipc.py's   *)
(* "after" map and the new connection of every session).                     *)
ResponseAdvances ==
  response.kind = "changed" => \A r \in DOMAIN previous :
    /\ response.epoch = previous[r].epoch
    /\ response.frames[r].seq > previous[r].seq
    /\ response.frames[r].at > previous[r].at

(* A request or a response is on the connection only while a capture waits   *)
(* for it, and never both: a late answer is never read as the answer to a    *)
(* later request.                                                            *)
OneExchange ==
  /\ request.kind = "next" => client = "asking" /\ response = NoMessage
  /\ response # NoMessage => client = "asking"

(* The set a camera check is about to take is newer, camera by camera, than  *)
(* the one it took before, although lagging cameras are captured again and    *)
(* the others are not: no frame counts twice for the rate it reports.         *)
CheckAdvances ==
  Captured => \A r \in DOMAIN previous :
    /\ snap[r].seq > previous[r].seq
    /\ snap[r].at > previous[r].at

(* The camera stream as its two callers see it: sets of frames that advance, *)
(* each answer to its own request.                                           *)
FrameSetsAdvance == ResponseAdvances /\ OneExchange /\ CheckAdvances

(* Every capture ends, whether its cameras read, hang, fail or never agree.  *)
CaptureEnds == client \in {"asking", "checking"} ~> client \notin {"asking", "checking"}
=============================================================================
