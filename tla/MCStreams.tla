----------------------------- MODULE MCStreams -----------------------------
(* The streams of a frame of the dataset, each on its own: a behaviour is    *)
(* one of the robot state's receiver, of the camera stream or of the         *)
(* assembly of frames, whichever `stream` says.                              *)
EXTENDS StateReceiver, CameraStream, SampleAssembly

CONSTANTS left, right, agent

MCSides == {left, right}
MCRoles == {left, agent}

VARIABLE stream

streamVars == <<stream, receiverVars, cameraVars, assemblyVars>>

StreamsInit ==
  /\ stream \in {"state", "camera", "assembly"}
  /\ ReceiverInit /\ CameraInit /\ AssemblyInit

State(Action) ==
  stream = "state" /\ Action /\ UNCHANGED <<stream, cameraVars, assemblyVars>>
Camera(Action) ==
  stream = "camera" /\ Action /\ UNCHANGED <<stream, receiverVars, assemblyVars>>
Assembly(Action) ==
  stream = "assembly" /\ Action /\ UNCHANGED <<stream, receiverVars, cameraVars>>

StreamsSpec ==
  /\ StreamsInit
  /\ [][State(ReceiverNext) \/ Camera(CameraNext) \/ Assembly(AssemblyNext)]_streamVars
  /\ WF_streamVars(State(PassTick)) /\ WF_streamVars(State(CollectingThread))
  /\ WF_streamVars(Camera(Tick)) /\ WF_streamVars(Camera(Handler))
  /\ WF_streamVars(Camera(ClientTurn))
-----------------------------------------------------------------------------
(* Every call on the receiver and every capture returns or fails, whoever    *)
(* stops sending and whether the cameras read, hang, fail or never agree.    *)
CallsEnd == CallsReturn /\ CaptureEnds
=============================================================================
