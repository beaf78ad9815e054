---------------------------- MODULE StreamsProofs ----------------------------
(***************************************************************************)
(* The streams of a frame, for any sides, roles, sensors, limits and       *)
(* losses.                                                                 *)
(*                                                                         *)
(* The robot state: the states the receiver emits are the abstract stream  *)
(* PairStream, none after AdjustPosition holds a packet from before it,    *)
(* and no side of one that is accepted is older than the age and the skew. *)
(* The assembler forgets what it emitted when it is reset, so that it      *)
(* advances does not follow from its own check. The invariant says why:    *)
(* either it remembers the last state, or all that it has taken since, and *)
(* all that is queued, is newer than that state.                           *)
(*                                                                         *)
(* The cameras: every accepted set of frames is later than the one before, *)
(* in every role, because nothing that is on its way is newer than what    *)
(* its reader has read, and a request reads after it was sent.             *)
(*                                                                         *)
(* The assembly: a sensor that delivers in time never costs a frame. Its   *)
(* deque holds the sample of every instant of the last ones, so that the   *)
(* one of the state is in it.                                              *)
(*                                                                         *)
(* The recording: one that says complete is whole. What a worker announces *)
(* has to stay so until the manifest is written, in the queue as in the    *)
(* recorder (SayingIsSo).                                                  *)
(***************************************************************************)
EXTENDS StateReceiver, CameraStream, SampleAssembly, TemporaryRecording, SequenceLemmas

Packets == [side : Sides, at : Nat]
Moments == [Sides -> Nat \cup {-1}]

ReceiverTypes ==
  /\ tick \in Nat /\ queue \in Seq(Packets)
  /\ loop \in [Sides -> {"running", "homing", "dead"}]
  /\ sent \in Moments /\ asked \in Moments
  /\ received \in Moments /\ emitted \in Moments /\ pair \in Moments

(* Nothing has an instant that its side has not sent.                        *)
Past ==
  /\ \A s \in Sides : sent[s] <= tick /\ received[s] <= sent[s] /\ pair[s] <= sent[s]
  /\ \A i \in 1 .. Len(queue) : queue[i].at <= sent[queue[i].side]

(* What the assembler and the queue hold is newer than b.                    *)
Newer(b) ==
  /\ \A s \in Sides : received[s] = -1 \/ received[s] > b[s]
  /\ \A i \in 1 .. Len(queue) : queue[i].at > b[queue[i].side]

Unseen == emitted = pair \/ (emitted = Never /\ Newer(pair))

Restarting ==
  /\ call = "adjusting" => \A s \in Sides : loop[s] = "running" => sent[s] > asked[s]
  /\ call = "resuming" =>
       emitted = Never /\ Newer(asked) /\ \A s \in Sides : sent[s] > asked[s]

ReceiverInv ==
  ReceiverTypes /\ Past /\ Unseen /\ Restarting /\ StateAfterRestart

(* A side that has not sent is before every instant.                         *)
LEMMA NeverFact == Never \in Moments /\ \A s \in Sides : Never[s] = -1
BY DEF Never, Moments

(* No packet has been sent.                                                  *)
LEMMA ReceiverInitInv == ReceiverInit => ReceiverInv
<1> SUFFICES ASSUME ReceiverInit  PROVE ReceiverInv
  OBVIOUS
<1>1. ReceiverTypes
  BY NeverFact DEF ReceiverInit, ReceiverTypes
<1>2. Past /\ Unseen
  BY NeverFact DEF ReceiverInit, Past, Unseen
<1>3. Restarting /\ StateAfterRestart
  BY NeverFact DEF ReceiverInit, Restarting, StateAfterRestart
<1> QED  BY <1>1, <1>2, <1>3 DEF ReceiverInv
-----------------------------------------------------------------------------
(* The packet at the head of the queue, and those behind it.                 *)
LEMMA QueueHead ==
  ASSUME ReceiverTypes, queue # <<>>
  PROVE  /\ Head(queue) = queue[1] /\ queue[1] \in Packets /\ 1 \in 1 .. Len(queue)
         /\ Tail(queue) \in Seq(Packets)
         /\ \A i \in 1 .. Len(Tail(queue)) :
              i + 1 \in 1 .. Len(queue) /\ Tail(queue)[i] = queue[i + 1]
BY DEF ReceiverTypes

LEMMA TakenFacts ==
  ASSUME ReceiverTypes, queue # <<>>
  PROVE  /\ Taken \in Moments
         /\ \A s \in Sides : Taken[s] = IF s = queue[1].side THEN queue[1].at ELSE received[s]
BY QueueHead DEF ReceiverTypes, Taken, Moments, Packets

(* A packet that completes no state is remembered.                           *)
LEMMA KeepStep ==
  ASSUME ReceiverInv, queue # <<>>, Keep, UNCHANGED <<tick, sidecarVars>>
  PROVE  /\ ReceiverTypes' /\ Past' /\ Unseen'
         /\ Newer(asked) => Newer(asked)'
<1> USE DEF ReceiverInv
<1>1. ReceiverTypes'
  BY QueueHead, TakenFacts DEF Keep, ReceiverTypes, sidecarVars
<1>2. ASSUME NEW b \in Moments, Newer(b)
      PROVE  /\ \A s \in Sides : Taken[s] = -1 \/ Taken[s] > b[s]
             /\ \A i \in 1 .. Len(Tail(queue)) : Tail(queue)[i].at > b[Tail(queue)[i].side]
  BY <1>2, QueueHead, TakenFacts DEF Newer
<1>3. Past'
  BY QueueHead, TakenFacts DEF Keep, Past, sidecarVars
<1>4. Unseen'
  BY <1>2 DEF Keep, Unseen, Newer, ReceiverTypes
<1>5. Newer(asked) => Newer(asked)'
  BY <1>2 DEF Keep, Newer, ReceiverTypes, sidecarVars
<1> QED  BY <1>1, <1>3, <1>4, <1>5

(* A packet that completes a coherent state hands it over.                   *)
LEMMA EmitStep ==
  ASSUME ReceiverInv, queue # <<>>, Complete, Coherent, Emit, UNCHANGED <<tick, sidecarVars>>
  PROVE  /\ ReceiverTypes' /\ Past' /\ Unseen' /\ States!HandOver
         /\ emitted = Never /\ Newer(asked) => \A s \in Sides : pair'[s] > asked[s]
<1> USE DEF ReceiverInv
<1>1. ReceiverTypes'
  BY QueueHead, TakenFacts DEF Emit, ReceiverTypes, sidecarVars
<1>2. Past'
  BY QueueHead, TakenFacts DEF Emit, Past, sidecarVars
<1>3. Unseen'
  BY DEF Emit, Unseen
<1>4. \A s \in Sides : Taken[s] \in Nat
  BY TakenFacts DEF Complete, ReceiverTypes, Moments
<1>5. ASSUME NEW b \in Moments, Newer(b)
      PROVE  \A s \in Sides : Taken[s] > b[s]
  BY <1>4, <1>5, QueueHead, TakenFacts DEF Newer, Moments
<1>6. \A s \in Sides : Taken[s] > pair[s]
  BY <1>5 DEF Unseen, Complete, ReceiverTypes
<1>7. States!HandOver
  BY <1>4, <1>6, TakenFacts DEF Emit, Coherent, States!HandOver, Moments
<1> QED  BY <1>1, <1>2, <1>3, <1>5, <1>7 DEF Emit, ReceiverTypes

(* An error closes the socket; nothing is sent after it.                     *)
LEMMA FailStep ==
  ASSUME ReceiverInv, Fail
  PROVE  ReceiverInv' /\ pair' = pair
<1>1. queue' = <<>> /\ received' = Never /\ emitted' = Never /\ call' = "failed"
      /\ loop' = [s \in Sides |-> "dead"] /\ UNCHANGED <<tick, sent, asked, pair>>
  BY DEF Fail
<1>2. ReceiverTypes'
  BY <1>1, NeverFact DEF ReceiverInv, ReceiverTypes
<1>3. Past' /\ Unseen'
  BY <1>1, NeverFact DEF ReceiverInv, ReceiverTypes, Past, Unseen, Newer, Moments
<1>4. Restarting' /\ StateAfterRestart'
  BY <1>1 DEF Restarting, StateAfterRestart
<1> QED  BY <1>1, <1>2, <1>3, <1>4 DEF ReceiverInv

(* Steps that leave the assembler alone.                                     *)
LEMMA AssemblerUntouched ==
  ASSUME ReceiverInv, UNCHANGED <<assemblerVars, sent>>, tick' \in {tick, tick + 1},
         loop' \in [Sides -> {"running", "homing", "dead"}], asked' \in Moments
  PROVE  ReceiverTypes' /\ Past' /\ Unseen'
<1>1. ReceiverTypes'
  BY DEF ReceiverInv, ReceiverTypes, assemblerVars
<1>2. Past'
  BY DEF ReceiverInv, ReceiverTypes, Past, assemblerVars, Moments
<1>3. Unseen'
  BY DEF ReceiverInv, Unseen, Newer, assemblerVars
<1> QED  BY <1>1, <1>2, <1>3
-----------------------------------------------------------------------------
(* The sidecars and the clock.                                               *)
LEMMA PublishStep ==
  ASSUME ReceiverInv, NEW s \in Sides, Publish(s)
  PROVE  ReceiverInv' /\ pair' = pair
<1> DEFINE packet == [side |-> s, at |-> tick]
<1>1. /\ sent' = [sent EXCEPT ![s] = tick] /\ sent[s] < tick
      /\ queue' \in {queue, Append(queue, packet)}
      /\ UNCHANGED <<tick, loop, asked, received, emitted, pair, callVars>>
  BY DEF Publish
<1>2. /\ \A o \in Sides : sent'[o] >= sent[o] /\ sent'[o] <= tick /\ sent[o] \in Nat \cup {-1}
      /\ \A o \in Sides : sent'[o] \in Nat \cup {-1}
      /\ sent'[s] = tick /\ tick \in Nat
  BY <1>1 DEF ReceiverInv, ReceiverTypes, Past, Moments
<1>3. \A i \in 1 .. Len(queue') :
        (i \in 1 .. Len(queue) /\ queue'[i] = queue[i]) \/ queue'[i] = packet
  BY <1>1 DEF ReceiverInv, ReceiverTypes
<1>4. \A i \in 1 .. Len(queue) : queue[i].side \in Sides /\ queue[i].at \in Nat
  <2>1. \A i \in 1 .. Len(queue) : queue[i] \in Packets
    BY DEF ReceiverInv, ReceiverTypes
  <2> QED  BY <2>1 DEF Packets
<1>5. ReceiverTypes'
  <2>1. packet \in Packets
    BY DEF ReceiverInv, ReceiverTypes, Packets
  <2>2. queue' \in Seq(Packets)
    BY <1>1, <2>1 DEF ReceiverInv, ReceiverTypes
  <2> QED  BY <1>1, <2>2 DEF ReceiverInv, ReceiverTypes, Moments
<1>6. Past'
  <2>1. \A o \in Sides : sent'[o] <= tick /\ received[o] <= sent'[o] /\ pair[o] <= sent'[o]
    BY <1>2 DEF ReceiverInv, ReceiverTypes, Past, Moments
  <2>2. ASSUME NEW i \in 1 .. Len(queue')
        PROVE  queue'[i].at <= sent'[queue'[i].side]
    <3>1. CASE queue'[i] = packet
      BY <1>2, <3>1
    <3>2. CASE i \in 1 .. Len(queue) /\ queue'[i] = queue[i]
      <4>1. queue[i].side \in Sides /\ queue[i].at \in Nat
            /\ queue[i].at <= sent[queue[i].side]
        BY <1>4, <3>2 DEF ReceiverInv, Past
      <4> QED  BY <1>2, <3>2, <4>1
    <3> QED  BY <1>3, <3>1, <3>2
  <2> QED  BY <1>1, <2>1, <2>2 DEF Past
<1>7. ASSUME NEW b \in Moments, Newer(b), b[s] <= sent[s]
      PROVE  \A i \in 1 .. Len(queue') : queue'[i].at > b[queue'[i].side]
  <2> SUFFICES ASSUME NEW i \in 1 .. Len(queue')
               PROVE  queue'[i].at > b[queue'[i].side]
    OBVIOUS
  <2>1. CASE queue'[i] = packet
    BY <1>1, <1>2, <1>7, <2>1 DEF Moments
  <2>2. CASE i \in 1 .. Len(queue) /\ queue'[i] = queue[i]
    BY <1>7, <2>2 DEF Newer
  <2> QED  BY <1>3, <2>1, <2>2
<1>8. Unseen'
  BY <1>1, <1>7 DEF ReceiverInv, ReceiverTypes, Past, Unseen, Newer
<1>9. Restarting'
  <2>1. CASE call = "resuming"
    <3>1. asked[s] <= sent[s] /\ Newer(asked) /\ asked \in Moments /\ emitted = Never
      BY <2>1 DEF ReceiverInv, ReceiverTypes, Restarting, Moments
    <3>2. Newer(asked)'
      <4>1. \A i \in 1 .. Len(queue') : queue'[i].at > asked[queue'[i].side]
        BY <1>7, <3>1
      <4> QED  BY <1>1, <3>1, <4>1 DEF Newer
    <3>3. \A o \in Sides : sent'[o] > asked[o]
      <4>1. \A o \in Sides : sent[o] > asked[o]
        BY <2>1 DEF ReceiverInv, Restarting
      <4>2. \A o \in Sides : asked[o] \in Nat \cup {-1}
        BY <3>1 DEF Moments
      <4> QED  BY <1>2, <4>1, <4>2
    <3> QED  BY <1>1, <2>1, <3>1, <3>2, <3>3 DEF Restarting, callVars
  <2>2. CASE call # "resuming"
    BY <1>1, <1>2, <2>2 DEF ReceiverInv, ReceiverTypes, Restarting, callVars, Moments
  <2> QED  BY <2>1, <2>2
<1>10. StateAfterRestart'
  BY <1>1 DEF ReceiverInv, StateAfterRestart, callVars
<1> QED  BY <1>1, <1>5, <1>6, <1>8, <1>9, <1>10 DEF ReceiverInv

LEMMA SidecarSteps ==
  ASSUME ReceiverInv, PassTick \/ \E s \in Sides : Die(s) \/ Home(s)
  PROVE  ReceiverInv' /\ pair' = pair
<1>1. /\ UNCHANGED <<assemblerVars, callVars, sent, asked>> /\ tick' \in {tick, tick + 1}
      /\ loop' \in [Sides -> {"running", "homing", "dead"}]
  BY DEF PassTick, Die, Home, sidecarVars, ReceiverInv, ReceiverTypes
<1>2. ReceiverTypes' /\ Past' /\ Unseen'
  BY <1>1, AssemblerUntouched DEF ReceiverInv, ReceiverTypes
<1>3. \A s \in Sides : loop'[s] = "running" => loop[s] = "running" \/ sent[s] > asked[s]
  BY DEF PassTick, Die, Home, sidecarVars, ReceiverInv, ReceiverTypes
<1>4. Restarting' /\ StateAfterRestart'
  BY <1>1, <1>3 DEF ReceiverInv, Restarting, StateAfterRestart, Newer, callVars, assemblerVars
<1> QED  BY <1>1, <1>2, <1>4 DEF ReceiverInv, assemblerVars

(* The collecting thread, where it leaves the assembler alone.               *)
LEMMA CallSteps ==
  ASSUME ReceiverInv,
         StartClosest \/ Drained \/ NothingQueued \/ Validate \/ AdjustPosition
  PROVE  ReceiverInv' /\ pair' = pair
<1>1. /\ UNCHANGED <<assemblerVars, tick, sent>> /\ asked' \in Moments
      /\ loop' \in [Sides -> {"running", "homing", "dead"}]
  BY DEF StartClosest, Drained, NothingQueued, Validate, AdjustPosition, sidecarVars,
         ReceiverInv, ReceiverTypes, Moments
<1>2. ReceiverTypes' /\ Past' /\ Unseen'
  BY <1>1, AssemblerUntouched
<1>3. ASSUME StartClosest \/ Drained \/ NothingQueued \/ Validate
      PROVE  Restarting' /\ StateAfterRestart'
  BY <1>3
     DEF StartClosest, Drained, NothingQueued, Validate, ReceiverInv, Restarting,
         StateAfterRestart, sidecarVars, assemblerVars
<1>4. ASSUME AdjustPosition
      PROVE  Restarting' /\ StateAfterRestart'
  BY <1>4 DEF AdjustPosition, Restarting, StateAfterRestart
<1>5. Restarting' /\ StateAfterRestart'
  BY <1>3, <1>4
<1> QED  BY <1>1, <1>2, <1>5 DEF ReceiverInv, assemblerVars

(* reset_pairing, once every side has sent after the restart.                *)
LEMMA ResetStep ==
  ASSUME ReceiverInv, ResetPairing
  PROVE  ReceiverInv' /\ pair' = pair
<1>1. /\ queue' = <<>> /\ received' = Never /\ emitted' = Never /\ call' = "resuming"
      /\ UNCHANGED <<tick, loop, sent, asked, pair>>
      /\ \A s \in Sides : sent[s] > asked[s]
  BY DEF ResetPairing, sidecarVars, ReceiverInv, Restarting
<1>2. ReceiverTypes'
  BY <1>1, NeverFact DEF ReceiverInv, ReceiverTypes
<1>3. Past' /\ Unseen'
  BY <1>1, NeverFact DEF ReceiverInv, ReceiverTypes, Past, Unseen, Newer, Moments
<1>4. Restarting' /\ StateAfterRestart'
  BY <1>1, NeverFact DEF Restarting, StateAfterRestart, Newer
<1> QED  BY <1>1, <1>2, <1>3, <1>4 DEF ReceiverInv

(* The packets that are taken from the queue.                                *)
LEMMA TakingSteps ==
  ASSUME ReceiverInv, Drain \/ Receive \/ ReceivePair \/ Resumed
  PROVE  ReceiverInv' /\ (pair' = pair \/ States!HandOver)
<1>1. /\ queue # <<>> /\ UNCHANGED <<tick, sidecarVars>>
      /\ (Keep \/ (Complete /\ Coherent /\ Emit))
  BY DEF Drain, Receive, ReceivePair, Resumed
<1>2. CASE Keep
  <2>1. ReceiverTypes' /\ Past' /\ Unseen' /\ (Newer(asked) => Newer(asked)')
    BY <1>1, <1>2, KeepStep
  <2>2. pair' = pair /\ emitted' = emitted
    BY <1>2 DEF Keep
  <2>3. call' = call \/ (call \notin {"adjusting"} /\ call' \notin {"adjusting", "resuming"})
    BY DEF Drain, Receive, ReceivePair, Resumed, callVars
  <2>4. Restarting'
    BY <1>1, <2>1, <2>2, <2>3 DEF ReceiverInv, Restarting, sidecarVars
  <2>5. CASE Drain \/ Receive
    <3>1. call' = call
      BY <2>5 DEF Drain, Receive, callVars
    <3> QED
      BY <1>1, <2>1, <2>2, <2>4, <3>1 DEF ReceiverInv, StateAfterRestart, sidecarVars
  <2>6. CASE ReceivePair \/ Resumed
    <3>1. Complete /\ Coherent /\ Emit
      BY <2>6 DEF ReceivePair, Resumed
    <3>2. /\ States!HandOver
          /\ emitted = Never /\ Newer(asked) => \A s \in Sides : pair'[s] > asked[s]
      BY <1>1, <3>1, EmitStep
    <3>3. StateAfterRestart'
      BY <1>1, <2>2, <2>6, <3>2
         DEF ReceivePair, Resumed, ReceiverInv, Restarting, StateAfterRestart, sidecarVars
    <3> QED  BY <2>1, <2>4, <3>2, <3>3 DEF ReceiverInv
  <2> QED  BY <2>5, <2>6
<1>3. CASE Complete /\ Coherent /\ Emit
  <2>1. /\ ReceiverTypes' /\ Past' /\ Unseen' /\ States!HandOver
        /\ emitted = Never /\ Newer(asked) => \A s \in Sides : pair'[s] > asked[s]
    BY <1>1, <1>3, EmitStep
  <2>2. \A s \in Sides : pair'[s] > pair[s] /\ pair'[s] \in Nat
    BY <2>1 DEF States!HandOver
  <2>3. Restarting' /\ StateAfterRestart'
    <3>1. CASE call = "resuming"
      <4>1. \A s \in Sides : pair'[s] > asked[s]
        BY <2>1, <3>1 DEF ReceiverInv, Restarting
      <4>2. call' = "idle"
        BY <1>3, <3>1 DEF Drain, Receive, ReceivePair, Resumed
      <4> QED  BY <1>1, <4>1, <4>2 DEF Restarting, StateAfterRestart, sidecarVars
    <3>2. CASE call # "resuming"
      <4>1. call \in {"draining", "receiving"} /\ call' \in {"draining", "receiving", "chosen"}
        BY <3>2 DEF Drain, Receive, ReceivePair, Resumed, callVars
      <4>2. \A s \in Sides : asked[s] # -1 => pair'[s] > asked[s]
        BY <2>2, <4>1 DEF ReceiverInv, StateAfterRestart, ReceiverTypes, Moments
      <4> QED  BY <1>1, <4>1, <4>2 DEF Restarting, StateAfterRestart, sidecarVars
    <3> QED  BY <3>1, <3>2
  <2> QED  BY <2>1, <2>3 DEF ReceiverInv
<1> QED  BY <1>1, <1>2, <1>3

(* Every step, and what it does to the state that was emitted.               *)
LEMMA ReceiverStep ==
  ASSUME ReceiverInv, [ReceiverNext]_receiverVars
  PROVE  ReceiverInv' /\ (pair' = pair \/ States!HandOver)
<1>1. CASE AcceptRaises \/ ReceiveTimesOut \/ RefuseStale \/ AdjustFails
  <2>1. Fail
    BY <1>1 DEF AcceptRaises, ReceiveTimesOut, RefuseStale, AdjustFails
  <2> QED  BY <2>1, FailStep
<1>2. CASE Drain \/ Receive \/ ReceivePair \/ Resumed
  BY <1>2, TakingSteps
<1>3. CASE StartClosest \/ Drained \/ NothingQueued \/ Validate \/ AdjustPosition
  BY <1>3, CallSteps
<1>4. CASE ResetPairing
  BY <1>4, ResetStep
<1>5. CASE PassTick \/ \E s \in Sides : Die(s) \/ Home(s)
  BY <1>5, SidecarSteps
<1>6. CASE \E s \in Sides : Publish(s)
  BY <1>6, PublishStep
<1>7. CASE UNCHANGED receiverVars
  <2>1. ReceiverTypes' /\ Past' /\ Unseen'
    BY <1>7, AssemblerUntouched DEF receiverVars, sidecarVars, ReceiverInv, ReceiverTypes
  <2>2. Restarting' /\ StateAfterRestart' /\ pair' = pair
    BY <1>7 DEF receiverVars, sidecarVars, assemblerVars, callVars, ReceiverInv, Restarting,
                StateAfterRestart, Newer
  <2> QED  BY <2>1, <2>2 DEF ReceiverInv
<1> QED
  BY <1>1, <1>2, <1>3, <1>4, <1>5, <1>6, <1>7 DEF ReceiverNext, CollectingThread

(* The invariant holds throughout (xair.py, XAirStateReceiver and the        *)
(* assemblers).                                                              *)
LEMMA ReceiverInvariant == ReceiverSpec => []ReceiverInv
BY ReceiverInitInv, ReceiverStep, PTL DEF ReceiverSpec

(* No state after AdjustPosition holds a packet from before it               *)
(* (managed.py, adjust_position and reset_pairing).                          *)
THEOREM RestartSeparates == ReceiverSpec => []StateAfterRestart
<1>1. ReceiverInv => StateAfterRestart
  BY DEF ReceiverInv
<1> QED  BY <1>1, ReceiverInvariant, PTL

(* The receiver implements the stream of advancing, coherent states, across  *)
(* every loss and every reset of the pairing (xair.py, accept).              *)
THEOREM ReceiverImplementsStream == ReceiverSpec => RefinesPairStream
<1>1. ReceiverInit => States!PairInit
  BY DEF ReceiverInit, Never, States!PairInit
<1>2. ReceiverInv /\ [ReceiverNext]_receiverVars => [States!HandOver]_pair
  BY ReceiverStep
<1> QED
  BY <1>1, <1>2, ReceiverInvariant, PTL
     DEF ReceiverSpec, RefinesPairStream, States!PairSpec

(* The state that was chosen is one state of all sides: no two of its packets*)
(* are further apart than the skew.                                          *)
ChosenApart == chosen \in Moments /\ \A s, o \in Sides : chosen[s] - chosen[o] <= MaxSkew

(* Nothing is chosen at first.                                               *)
LEMMA ChosenInit == ReceiverInit => ChosenApart
BY NeverFact, ReceiverAssumption DEF ReceiverInit, ChosenApart, Moments

(* What receive_closest chooses came out of accept, which raises on a skew.  *)
LEMMA ChosenKept ==
  ASSUME ReceiverInv, ChosenApart, [ReceiverNext]_receiverVars
  PROVE  ChosenApart'
<1>1. ASSUME queue # <<>>, Coherent, chosen' = Taken
      PROVE  ChosenApart'
  <2>1. Taken \in Moments
    BY <1>1, TakenFacts DEF ReceiverInv
  <2> QED  BY <1>1, <2>1 DEF ChosenApart, Coherent
<1>2. ASSUME chosen' = chosen  PROVE ChosenApart'
  BY <1>2 DEF ChosenApart
<1>3. ASSUME chosen' = Never  PROVE ChosenApart'
  BY <1>3, NeverFact, ReceiverAssumption DEF ChosenApart
<1>4. CASE Drain
  BY <1>1, <1>2, <1>4 DEF Drain
<1>5. CASE ReceivePair
  BY <1>1, <1>5 DEF ReceivePair
<1>6. CASE AcceptRaises \/ ReceiveTimesOut \/ RefuseStale \/ AdjustFails \/ Validate
  <2>1. chosen' = Never
    BY <1>6 DEF AcceptRaises, ReceiveTimesOut, RefuseStale, AdjustFails, Validate, Fail
  <2> QED  BY <1>3, <2>1
<1>7. CASE \/ StartClosest \/ Drained \/ NothingQueued \/ Receive \/ AdjustPosition
           \/ ResetPairing \/ Resumed \/ PassTick \/ UNCHANGED receiverVars
  <2>1. chosen' = chosen
    BY <1>7 DEF StartClosest, Drained, NothingQueued, Receive, AdjustPosition, ResetPairing,
                Resumed, PassTick, callVars, receiverVars
  <2> QED  BY <1>2, <2>1
<1>8. CASE \E s \in Sides : Publish(s) \/ Die(s) \/ Home(s)
  <2>1. chosen' = chosen
    BY <1>8 DEF Publish, Die, Home, callVars
  <2> QED  BY <1>2, <2>1
<1> QED
  BY <1>4, <1>5, <1>6, <1>7, <1>8 DEF ReceiverNext, CollectingThread

(* The newest packet of a coherent state, though of any number of sides.     *)
LEMMA LatestIsNewest ==
  ASSUME ChosenApart
  PROVE  Latest(chosen) \in Int /\ \E s \in Sides : chosen[s] = Latest(chosen)
<1>1. /\ \A s \in Sides : chosen[s] \in Int
      /\ \A s, o \in Sides : chosen[s] - chosen[o] <= MaxSkew
  BY DEF ChosenApart, Moments
<1>2. PICK some \in Sides : TRUE
  BY ReceiverAssumption
<1>3. MaxSkew \in Nat
  BY ReceiverAssumption
<1> DEFINE Behind == {chosen[some] + MaxSkew - chosen[s] : s \in Sides}
<1>4. Behind \subseteq Nat /\ Behind # {}
  <2>1. \A s \in Sides : chosen[some] + MaxSkew - chosen[s] \in Nat
    BY <1>1, <1>3
  <2> QED  BY <1>2, <2>1
<1>5. \E m \in Behind : \A n \in Behind : m <= n
  <2> HIDE DEF Behind
  <2> QED  BY <1>4, LeastOf
<1>6. PICK newest \in Sides : \A n \in Behind : chosen[some] + MaxSkew - chosen[newest] <= n
  BY <1>5
<1>7. \A s \in Sides : chosen[s] <= chosen[newest]
  <2> TAKE s \in Sides
  <2>1. chosen[some] + MaxSkew - chosen[newest] <= chosen[some] + MaxSkew - chosen[s]
    BY <1>6
  <2> QED  BY <1>1, <1>3, <2>1
<1> DEFINE SideTimes == {chosen[s] : s \in Sides}
<1>8. Latest(chosen) \in SideTimes
  BY <1>7 DEF Latest
<1> QED  BY <1>1, <1>8

(* validate compares the newer side only.                                    *)
LEMMA ValidatedFresh ==
  ASSUME ReceiverInv, ChosenApart, Validate
  PROVE  \A s \in Sides : tick - chosen[s] <= MaxAge + MaxSkew
<1>1. PICK newest \in Sides : chosen[newest] = Latest(chosen)
  BY LatestIsNewest
<1>2. tick - chosen[newest] <= MaxAge
  BY <1>1 DEF Validate, Fresh
<1>3. \A s \in Sides : chosen[s] \in Int /\ chosen[newest] - chosen[s] <= MaxSkew
  BY DEF ChosenApart, Moments
<1>4. tick \in Nat /\ MaxAge \in Nat /\ MaxSkew \in Nat
  BY ReceiverAssumption DEF ReceiverInv, ReceiverTypes
<1> QED  BY <1>2, <1>3, <1>4

(* No side of a state that passes validate is older than the age and the     *)
(* skew together, though validate looks at the newer side's time             *)
(* (schema.py).                                                              *)
THEOREM AcceptedStateFresh == ReceiverSpec => BothSidesFresh
<1>1. ReceiverSpec => []ChosenApart
  BY ReceiverInvariant, ChosenInit, ChosenKept, PTL DEF ReceiverSpec
<1>2. ReceiverInv /\ ChosenApart
        => [Validate => \A s \in Sides : tick - chosen[s] <= MaxAge + MaxSkew]_receiverVars
  BY ValidatedFresh
<1> QED  BY <1>1, <1>2, ReceiverInvariant, PTL DEF ReceiverSpec, BothSidesFresh
-----------------------------------------------------------------------------
(* The camera stream.  A reader numbers its frames in the order of their     *)
(* times; a frame taken from it is its newest one or older.                  *)
Seen == [seq : Nat, at : Nat]
NotAfter(f, g) == f.seq <= g.seq /\ f.at <= g.at /\ (f.seq < g.seq => f.at < g.at)

StreamTypes ==
  /\ instant \in Nat /\ epoch \in Nat
  /\ owner \in {"service", "check", "down"}
  /\ client \in {"closed", "idle", "asking", "checking"}
  /\ frame \in [Roles -> Seen] /\ delivered \in [Roles -> Nat] /\ after \in [Roles -> Nat]
  /\ DOMAIN previous = {} \/ previous \in [Roles -> [epoch : Nat, seq : Nat, at : Nat]]
  /\ DOMAIN snap \subseteq Roles /\ \A r \in DOMAIN snap : snap[r] \in Seen
  /\ request = NoMessage \/ (request.kind = "next" /\ request.after = after)
  /\ \/ response = NoMessage \/ response.kind \in {"unchanged", "error"}
     \/ /\ response.kind = "changed" /\ response.epoch = epoch
        /\ DOMAIN response.frames = Roles /\ \A r \in Roles : response.frames[r] \in Seen

(* Who may be where, and what is on the connection then.                     *)
PlacesMatch ==
  /\ client = "checking" => owner = "check"
  /\ client \in {"idle", "asking"} => owner # "check"
  /\ request # NoMessage => client = "asking" /\ owner = "service" /\ response = NoMessage
  /\ response # NoMessage => client = "asking" /\ owner = "service"
  /\ DOMAIN snap # {} => request # NoMessage \/ client = "checking"
  /\ client = "closed" /\ owner # "check" => DOMAIN previous = {}

ReadInOrder ==
  /\ \A r \in Roles : frame[r].at <= instant /\ delivered[r] <= frame[r].seq
  /\ \A r \in DOMAIN snap : NotAfter(snap[r], frame[r])
  /\ response.kind = "changed" => \A r \in Roles : NotAfter(response.frames[r], frame[r])
  /\ owner # "down" => \A r \in DOMAIN previous : NotAfter(previous[r], frame[r])

(* What the client of the bridge accepted is of this owner, before what its  *)
(* request has read; what the check took it took before what it takes now.   *)
BridgeInOrder ==
  client \in {"idle", "asking"} =>
    \A r \in DOMAIN previous :
      /\ previous[r].epoch = epoch /\ after[r] = previous[r].seq
      /\ r \in DOMAIN snap => NotAfter(previous[r], snap[r])

CheckInOrder ==
  owner = "check" =>
    /\ \A r \in DOMAIN previous : previous[r].epoch = epoch /\ previous[r].seq <= delivered[r]
    /\ \A r \in DOMAIN snap :
         /\ snap[r].seq <= delivered[r]
         /\ r \in DOMAIN previous => previous[r].seq < snap[r].seq /\ previous[r].at < snap[r].at

StreamInv ==
  StreamTypes /\ PlacesMatch /\ ReadInOrder /\ BridgeInOrder /\ CheckInOrder /\ ResponseAdvances

(* Nothing read, nothing sent.                                               *)
LEMMA NothingRead == DOMAIN Nothing = {} /\ NoMessage.kind = "none"
BY DEF Nothing, NoMessage

(* No owner, no client, and nothing read.                                    *)
LEMMA StreamInitInv == CameraInit => StreamInv
BY NothingRead DEF CameraInit, StreamInv, StreamTypes, Seen, PlacesMatch, ReadInOrder,
   BridgeInOrder,
   CheckInOrder, ResponseAdvances, NotAfter

(* A frame is taken over whole, from the reader to the client.               *)
LEMMA StreamTypesKept ==
  ASSUME StreamTypes, PlacesMatch, CameraNext
  PROVE  StreamTypes'
<1> USE NothingRead
    DEF ownerVars, clientVars, serverVars, StreamTypes, Seen, PlacesMatch
<1>1. CASE Tick
  BY <1>1 DEF Tick
<1>2. CASE StopOwner
  BY <1>2 DEF StopOwner, CloseReaders
<1>3. ASSUME NEW kind \in {"service", "check"}, StartOwner(kind)  PROVE StreamTypes'
  BY <1>3 DEF StartOwner
<1>4. CASE \E r \in Roles : ReadFrame(r)
  BY <1>4 DEF ReadFrame
<1>5. CASE \E r \in Roles, how \in {"failed", "hung"} : ReadEnds(r, how)
  BY <1>5 DEF ReadEnds
<1>6. CASE \E r \in Roles : Snapshot(r)
  BY <1>6 DEF Snapshot
<1>7. CASE RespondChanged
  BY <1>7 DEF RespondChanged, Answer, AllChanged
<1>8. CASE RespondUnchanged \/ RespondError \/ SleepAndRetry
  BY <1>8 DEF RespondUnchanged, RespondError, SleepAndRetry, Answer
<1>9. CASE Connect \/ Capture \/ AskAgain
  BY <1>9 DEF Connect, Capture, AskAgain, Send
<1>10. CASE Disconnect \/ Refuse \/ TimeOut
  BY <1>10 DEF Disconnect, Refuse, TimeOut, Hangup
<1>11. CASE Accept
  BY <1>11 DEF Accept, Remember
<1>12. CASE StartCapture \/ CaptureAgain
  BY <1>12 DEF StartCapture, CaptureAgain
<1>13. ASSUME NEW r \in Roles, CaptureRole(r)  PROVE StreamTypes'
  BY <1>13 DEF CaptureRole
<1>14. CASE CaptureReturns
  BY <1>14 DEF CaptureReturns, Captured, Remember
<1>15. CASE CheckEnds \/ CaptureFails
  BY <1>15 DEF CheckEnds, CaptureFails, EndCheck, CloseReaders
<1> QED
  BY <1>1, <1>2, <1>3, <1>4, <1>5, <1>6, <1>7, <1>8, <1>9, <1>10, <1>11, <1>12, <1>13, <1>14,
     <1>15
     DEF CameraNext, Handler, ClientTurn

(* One owner has the devices, and one exchange is on the connection.         *)
LEMMA PlacesKept ==
  ASSUME StreamTypes, PlacesMatch, CameraNext
  PROVE  PlacesMatch'
<1> USE NothingRead
    DEF ownerVars, clientVars, serverVars, StreamTypes, PlacesMatch
<1>1. CASE Tick
  BY <1>1 DEF Tick
<1>2. CASE StopOwner
  BY <1>2 DEF StopOwner, CloseReaders
<1>3. ASSUME NEW kind \in {"service", "check"}, StartOwner(kind)  PROVE PlacesMatch'
  BY <1>3 DEF StartOwner
<1>4. CASE \E r \in Roles : ReadFrame(r)
  BY <1>4 DEF ReadFrame
<1>5. CASE \E r \in Roles, how \in {"failed", "hung"} : ReadEnds(r, how)
  BY <1>5 DEF ReadEnds
<1>6. CASE \E r \in Roles : Snapshot(r)
  BY <1>6 DEF Snapshot
<1>7. CASE RespondChanged
  BY <1>7 DEF RespondChanged, Answer, AllChanged
<1>8. CASE RespondUnchanged \/ RespondError \/ SleepAndRetry
  BY <1>8 DEF RespondUnchanged, RespondError, SleepAndRetry, Answer
<1>9. CASE Connect \/ Capture \/ AskAgain
  BY <1>9 DEF Connect, Capture, AskAgain, Send
<1>10. CASE Disconnect \/ Refuse \/ TimeOut
  BY <1>10 DEF Disconnect, Refuse, TimeOut, Hangup
<1>11. CASE Accept
  BY <1>11 DEF Accept, Remember
<1>12. CASE StartCapture \/ CaptureAgain
  BY <1>12 DEF StartCapture, CaptureAgain
<1>13. ASSUME NEW r \in Roles, CaptureRole(r)  PROVE PlacesMatch'
  BY <1>13 DEF CaptureRole
<1>14. CASE CaptureReturns
  BY <1>14 DEF CaptureReturns, Captured, Remember
<1>15. CASE CheckEnds \/ CaptureFails
  BY <1>15 DEF CheckEnds, CaptureFails, EndCheck, CloseReaders
<1> QED
  BY <1>1, <1>2, <1>3, <1>4, <1>5, <1>6, <1>7, <1>8, <1>9, <1>10, <1>11, <1>12, <1>13, <1>14,
     <1>15
     DEF CameraNext, Handler, ClientTurn

(* Nothing that was taken from a reader is newer than what it has read       *)
(* (camera_capture.py, _read_loop).                                          *)
LEMMA ReadingKept ==
  ASSUME StreamTypes, PlacesMatch, ReadInOrder, CameraNext
  PROVE  ReadInOrder'
<1> USE NothingRead
    DEF ownerVars, clientVars, serverVars, StreamTypes, Seen, PlacesMatch, ReadInOrder, NotAfter
<1>1. CASE Tick
  BY <1>1 DEF Tick
<1>2. CASE StopOwner
  BY <1>2 DEF StopOwner, CloseReaders
<1>3. ASSUME NEW kind \in {"service", "check"}, StartOwner(kind)  PROVE ReadInOrder'
  BY <1>3 DEF StartOwner
<1>4. ASSUME NEW r \in Roles, ReadFrame(r)
      PROVE  ReadInOrder'
  <2>1. \A s \in Roles : NotAfter(frame[s], frame'[s]) /\ frame'[s].at <= instant
    BY <1>4 DEF ReadFrame
  <2>2. /\ \A s \in Roles : delivered'[s] <= frame'[s].seq
        /\ \A s \in DOMAIN snap : NotAfter(snap[s], frame'[s])
    BY <1>4, <2>1 DEF ReadFrame
  <2>3. response.kind = "changed" => \A s \in Roles : NotAfter(response.frames[s], frame'[s])
    BY <1>4, <2>1 DEF ReadFrame
  <2>4. \A s \in DOMAIN previous : NotAfter(previous[s], frame'[s])
    BY <1>4, <2>1 DEF ReadFrame
  <2> QED  BY <1>4, <2>1, <2>2, <2>3, <2>4 DEF ReadFrame
<1>5. CASE \E r \in Roles, how \in {"failed", "hung"} : ReadEnds(r, how)
  BY <1>5 DEF ReadEnds
<1>6. CASE \E r \in Roles : Snapshot(r)
  BY <1>6 DEF Snapshot
<1>7. CASE RespondChanged
  BY <1>7 DEF RespondChanged, Answer, AllChanged
<1>8. CASE RespondUnchanged \/ RespondError \/ SleepAndRetry
  BY <1>8 DEF RespondUnchanged, RespondError, SleepAndRetry, Answer
<1>9. CASE Connect \/ Capture \/ AskAgain
  BY <1>9 DEF Connect, Capture, AskAgain, Send
<1>10. CASE Disconnect \/ Refuse \/ TimeOut
  BY <1>10 DEF Disconnect, Refuse, TimeOut, Hangup
<1>11. CASE Accept
  BY <1>11 DEF Accept, Remember
<1>12. CASE StartCapture \/ CaptureAgain
  BY <1>12 DEF StartCapture, CaptureAgain
<1>13. ASSUME NEW r \in Roles, CaptureRole(r)  PROVE ReadInOrder'
  BY <1>13 DEF CaptureRole
<1>14. CASE CaptureReturns
  BY <1>14 DEF CaptureReturns, Captured, Remember
<1>15. CASE CheckEnds \/ CaptureFails
  BY <1>15 DEF CheckEnds, CaptureFails, EndCheck, CloseReaders
<1> QED
  BY <1>1, <1>2, <1>3, <1>4, <1>5, <1>6, <1>7, <1>8, <1>9, <1>10, <1>11, <1>12, <1>13, <1>14,
     <1>15
     DEF CameraNext, Handler, ClientTurn

(* The server reads after the request came, and a client does not outlive    *)
(* the owner it asked (camera_ipc.py).                                       *)
LEMMA BridgeKept ==
  ASSUME StreamTypes, PlacesMatch, ReadInOrder, BridgeInOrder, CameraNext
  PROVE  BridgeInOrder'
<1> USE NothingRead
    DEF ownerVars, clientVars, serverVars, StreamTypes, Seen, PlacesMatch, ReadInOrder,
       NotAfter, BridgeInOrder
<1>1. CASE Tick
  BY <1>1 DEF Tick
<1>2. CASE StopOwner
  BY <1>2 DEF StopOwner, CloseReaders
<1>3. ASSUME NEW kind \in {"service", "check"}, StartOwner(kind)  PROVE BridgeInOrder'
  BY <1>3 DEF StartOwner
<1>4. CASE \E r \in Roles : ReadFrame(r)
  BY <1>4 DEF ReadFrame
<1>5. CASE \E r \in Roles, how \in {"failed", "hung"} : ReadEnds(r, how)
  BY <1>5 DEF ReadEnds
<1>6. CASE \E r \in Roles : Snapshot(r)
  BY <1>6 DEF Snapshot
<1>7. CASE RespondChanged
  BY <1>7 DEF RespondChanged, Answer, AllChanged
<1>8. CASE RespondUnchanged \/ RespondError \/ SleepAndRetry
  BY <1>8 DEF RespondUnchanged, RespondError, SleepAndRetry, Answer
<1>9. CASE Connect \/ Capture \/ AskAgain
  BY <1>9 DEF Connect, Capture, AskAgain, Send
<1>10. CASE Disconnect \/ Refuse \/ TimeOut
  BY <1>10 DEF Disconnect, Refuse, TimeOut, Hangup
<1>11. CASE Accept
  BY <1>11 DEF Accept, Remember
<1>12. CASE StartCapture \/ CaptureAgain
  BY <1>12 DEF StartCapture, CaptureAgain
<1>13. ASSUME NEW r \in Roles, CaptureRole(r)  PROVE BridgeInOrder'
  BY <1>13 DEF CaptureRole
<1>14. CASE CaptureReturns
  BY <1>14 DEF CaptureReturns, Captured, Remember
<1>15. CASE CheckEnds \/ CaptureFails
  BY <1>15 DEF CheckEnds, CaptureFails, EndCheck, CloseReaders
<1> QED
  BY <1>1, <1>2, <1>3, <1>4, <1>5, <1>6, <1>7, <1>8, <1>9, <1>10, <1>11, <1>12, <1>13, <1>14,
     <1>15
     DEF CameraNext, Handler, ClientTurn

(* A frame that the check takes is later than the one of its last set.       *)
LEMMA CheckTakes ==
  ASSUME StreamTypes, ReadInOrder, CheckInOrder, NEW r \in Roles, CaptureRole(r)
  PROVE  CheckInOrder'
<1>1. /\ r \notin DOMAIN snap /\ frame[r].seq > delivered[r]
      /\ snap' = [s \in DOMAIN snap \cup {r} |-> IF s = r THEN frame[r] ELSE snap[s]]
      /\ delivered' = [delivered EXCEPT ![r] = frame[r].seq]
      /\ UNCHANGED <<owner, epoch, previous>>
  BY DEF CaptureRole, clientVars
<1>2. /\ delivered \in [Roles -> Nat] /\ DOMAIN snap \subseteq Roles /\ frame[r].seq \in Nat
      /\ frame[r].at \in Nat
      /\ DOMAIN previous = {} \/ previous \in [Roles -> [epoch : Nat, seq : Nat, at : Nat]]
  BY DEF StreamTypes, Seen
<1>3. /\ delivered'[r] = frame[r].seq
      /\ \A s \in Roles : s # r => delivered'[s] = delivered[s]
      /\ DOMAIN snap' = DOMAIN snap \cup {r} /\ snap'[r] = frame[r]
      /\ \A s \in DOMAIN snap : s # r /\ snap'[s] = snap[s]
  BY <1>1, <1>2
<1> SUFFICES ASSUME owner = "check"
             PROVE  /\ \A s \in DOMAIN previous :
                         previous[s].epoch = epoch /\ previous[s].seq <= delivered'[s]
                    /\ \A s \in DOMAIN snap' :
                         /\ snap'[s].seq <= delivered'[s]
                         /\ s \in DOMAIN previous =>
                              previous[s].seq < snap'[s].seq /\ previous[s].at < snap'[s].at
  BY <1>1 DEF CheckInOrder
<1>4. ASSUME NEW s \in DOMAIN previous
      PROVE  /\ s \in Roles /\ previous[s].seq \in Nat /\ previous[s].at \in Nat
             /\ previous[s].epoch = epoch /\ previous[s].seq <= delivered[s]
             /\ NotAfter(previous[s], frame[s])
  <2>1. s \in Roles /\ previous[s] \in [epoch : Nat, seq : Nat, at : Nat]
    BY <1>2
  <2> QED  BY <2>1 DEF CheckInOrder, ReadInOrder
<1>5. ASSUME NEW s \in DOMAIN previous
      PROVE  previous[s].epoch = epoch /\ previous[s].seq <= delivered'[s]
  BY <1>1, <1>2, <1>3, <1>4
<1>6. ASSUME NEW s \in DOMAIN snap
      PROVE  /\ snap'[s].seq <= delivered'[s]
             /\ s \in DOMAIN previous =>
                  previous[s].seq < snap'[s].seq /\ previous[s].at < snap'[s].at
  BY <1>2, <1>3 DEF CheckInOrder
<1>7. r \in DOMAIN previous => previous[r].seq < frame[r].seq /\ previous[r].at < frame[r].at
  BY <1>1, <1>2, <1>4 DEF NotAfter
<1> QED  BY <1>2, <1>3, <1>5, <1>6, <1>7

(* The check takes from a reader only what it has not delivered yet          *)
(* (camera_capture.py, latest_after).                                        *)
LEMMA CheckKept ==
  ASSUME StreamTypes, PlacesMatch, ReadInOrder, CheckInOrder, CameraNext
  PROVE  CheckInOrder'
<1> USE NothingRead
    DEF ownerVars, clientVars, serverVars, StreamTypes, Seen, PlacesMatch, ReadInOrder,
       NotAfter, CheckInOrder
<1>1. CASE Tick
  BY <1>1 DEF Tick
<1>2. CASE StopOwner
  BY <1>2 DEF StopOwner, CloseReaders
<1>3. ASSUME NEW kind \in {"service", "check"}, StartOwner(kind)  PROVE CheckInOrder'
  BY <1>3 DEF StartOwner
<1>4. CASE \E r \in Roles : ReadFrame(r)
  BY <1>4 DEF ReadFrame
<1>5. CASE \E r \in Roles, how \in {"failed", "hung"} : ReadEnds(r, how)
  BY <1>5 DEF ReadEnds
<1>6. CASE \E r \in Roles : Snapshot(r)
  BY <1>6 DEF Snapshot
<1>7. CASE RespondChanged
  BY <1>7 DEF RespondChanged, Answer, AllChanged
<1>8. CASE RespondUnchanged \/ RespondError \/ SleepAndRetry
  BY <1>8 DEF RespondUnchanged, RespondError, SleepAndRetry, Answer
<1>9. CASE Connect \/ Capture \/ AskAgain
  BY <1>9 DEF Connect, Capture, AskAgain, Send
<1>10. CASE Disconnect \/ Refuse \/ TimeOut
  BY <1>10 DEF Disconnect, Refuse, TimeOut, Hangup
<1>11. CASE Accept
  BY <1>11 DEF Accept, Remember
<1>12. CASE StartCapture \/ CaptureAgain
  BY <1>12 DEF StartCapture, CaptureAgain
<1>13. ASSUME NEW r \in Roles, CaptureRole(r)  PROVE CheckInOrder'
  BY ONLY <1>13, CheckTakes, StreamTypes, ReadInOrder, CheckInOrder, r \in Roles
<1>14. CASE CaptureReturns
  BY <1>14 DEF CaptureReturns, Captured, Remember
<1>15. CASE CheckEnds \/ CaptureFails
  BY <1>15 DEF CheckEnds, CaptureFails, EndCheck, CloseReaders
<1> QED
  BY <1>1, <1>2, <1>3, <1>4, <1>5, <1>6, <1>7, <1>8, <1>9, <1>10, <1>11, <1>12, <1>13, <1>14,
     <1>15
     DEF CameraNext, Handler, ClientTurn

(* The set that is sent is later than the last accepted one, in every role   *)
(* (camera_ipc.py, next).                                                    *)
LEMMA ResponseKept ==
  ASSUME StreamTypes, PlacesMatch, ReadInOrder, BridgeInOrder, ResponseAdvances, CameraNext
  PROVE  ResponseAdvances'
<1> USE NothingRead
    DEF ownerVars, clientVars, serverVars, StreamTypes, Seen, PlacesMatch, NotAfter,
       BridgeInOrder, ResponseAdvances
<1>1. CASE Tick
  BY <1>1 DEF Tick
<1>2. CASE StopOwner
  BY <1>2 DEF StopOwner, CloseReaders
<1>3. ASSUME NEW kind \in {"service", "check"}, StartOwner(kind)  PROVE ResponseAdvances'
  BY <1>3 DEF StartOwner
<1>4. CASE \E r \in Roles : ReadFrame(r)
  BY <1>4 DEF ReadFrame
<1>5. CASE \E r \in Roles, how \in {"failed", "hung"} : ReadEnds(r, how)
  BY <1>5 DEF ReadEnds
<1>6. CASE \E r \in Roles : Snapshot(r)
  BY <1>6 DEF Snapshot
<1>7. CASE RespondChanged
  BY <1>7 DEF RespondChanged, Answer, AllChanged
<1>8. CASE RespondUnchanged \/ RespondError \/ SleepAndRetry
  BY <1>8 DEF RespondUnchanged, RespondError, SleepAndRetry, Answer
<1>9. CASE Connect \/ Capture \/ AskAgain
  BY <1>9 DEF Connect, Capture, AskAgain, Send
<1>10. CASE Disconnect \/ Refuse \/ TimeOut
  BY <1>10 DEF Disconnect, Refuse, TimeOut, Hangup
<1>11. CASE Accept
  BY <1>11 DEF Accept, Remember
<1>12. CASE StartCapture \/ CaptureAgain
  BY <1>12 DEF StartCapture, CaptureAgain
<1>13. ASSUME NEW r \in Roles, CaptureRole(r)  PROVE ResponseAdvances'
  BY <1>13 DEF CaptureRole
<1>14. CASE CaptureReturns
  BY <1>14 DEF CaptureReturns, Captured, Remember
<1>15. CASE CheckEnds \/ CaptureFails
  BY <1>15 DEF CheckEnds, CaptureFails, EndCheck, CloseReaders
<1> QED
  BY <1>1, <1>2, <1>3, <1>4, <1>5, <1>6, <1>7, <1>8, <1>9, <1>10, <1>11, <1>12, <1>13, <1>14,
     <1>15
     DEF CameraNext, Handler, ClientTurn

(* What was read, sent and accepted is in order, whatever the owner, the     *)
(* check and the client do (camera_capture.py, camera_ipc.py).               *)
THEOREM StreamInvariant == CameraSpec => []StreamInv
<1>1. ASSUME StreamInv, [CameraNext]_cameraVars PROVE StreamInv'
  <2>1. CASE UNCHANGED cameraVars
    BY <1>1, <2>1 DEF cameraVars, ownerVars, clientVars, serverVars, StreamInv, StreamTypes,
       PlacesMatch, ReadInOrder, BridgeInOrder, CheckInOrder, ResponseAdvances, NotAfter
  <2> QED  BY <1>1, <2>1, StreamTypesKept, PlacesKept, ReadingKept, BridgeKept, CheckKept,
     ResponseKept DEF StreamInv
<1> QED  BY <1>1, StreamInitInv, PTL DEF CameraSpec

(* Every set of frames a client or a check accepts is later in every role    *)
(* than the one it accepted before, and of one owner (camera_ipc.py, next;   *)
(* cameras.py).                                                              *)
THEOREM FrameSetsInOrder == CameraSpec => []FrameSetsAdvance
<1>1. StreamInv => FrameSetsAdvance
  BY NothingRead DEF StreamInv, StreamTypes, PlacesMatch, CheckInOrder, FrameSetsAdvance,
     OneExchange,
     CheckAdvances, Captured
<1> QED  BY <1>1, StreamInvariant, PTL
-----------------------------------------------------------------------------
(* The assembly of frames.                                                   *)
Samples == [at : Nat, seq : Nat]
Collecting == {"idle", "closest", "latest", "validate"}

AssemblyTypes ==
  /\ now \in Nat /\ expiry \in Nat
  /\ count \in [Sensors -> Nat] /\ samples \in [Sensors -> Seq(Samples)]
  /\ sensor \in [Sensors -> {"reading", "failed"}] /\ steady \in [Sensors -> BOOLEAN]
  /\ stage \in {"ft_first", "scale_first", "ft", "scale", "state", "cameras", "not_started"}
             \cup Collecting
  /\ camera \in Int /\ state \in Int /\ DOMAIN picked = Sensors
  /\ last.camera \in Int /\ last.state \in Int /\ last.state >= -1

(* A steady sensor has delivered the sample of every instant before this one,*)
(* and its deque holds the last of them.                                     *)
NewestOf(q, c, kept) ==
  /\ Len(q) = IF c < kept THEN c ELSE kept
  /\ \A i \in 1 .. Len(q) : q[i].at = c - Len(q) + i - 1 /\ q[i].seq = c - Len(q) + i
SteadyDelivered ==
  \A s \in Sensors : steady[s] =>
    /\ sensor[s] = "reading" /\ count[s] \in {now, now + 1}
    /\ NewestOf(samples[s], count[s], KeptOf[s])

(* Before a frame can be collected the scale has delivered twice.            *)
ScaleCame == stage \in Collecting /\ steady["scale"] => count["scale"] >= 2

StateOfFrame ==
  stage \in {"closest", "latest", "validate"} =>
    /\ last.state < state /\ state <= now
    /\ stage = "closest" => state + SampleAge <= expiry

(* While a sensor is steady, the sample taken for a fresh state is of the    *)
(* state's own instant, or, of the scale, of the one before.                 *)
FtExact ==
  steady["ft"] =>
    /\ last.ft = last.state + 1
    /\ stage \in {"latest", "validate"} /\ now - state <= SampleAge =>
         picked["ft"].at = state /\ picked["ft"].seq = state + 1
ScaleBehind ==
  steady["scale"] =>
    /\ last.scale \in Int /\ last.scale <= last.state + 1
    /\ stage = "validate" /\ now - state <= SampleAge =>
         picked["scale"].at \in {state - 1, state} /\ picked["scale"].seq = picked["scale"].at + 1

AssemblyInv ==
  /\ AssemblyTypes /\ SteadyDelivered /\ ScaleCame /\ StateOfFrame /\ FtExact /\ ScaleBehind
  /\ SteadySensorsAccepted

(* The sensors are steady until they miss an instant.                        *)
LEMMA AssemblyInitInv == AssemblyInit => AssemblyInv
<1> SUFFICES ASSUME AssemblyInit PROVE AssemblyInv
  OBVIOUS
<1> USE AssemblyAssumption DEF AssemblyInit, NoSample, Sensors, Collecting
<1>1. <<>> \in Seq(Samples) /\ Len(<<>>) = 0
  BY EmptySeq
<1>2. AssemblyTypes
  BY <1>1 DEF AssemblyTypes
<1>3. SteadyDelivered
  BY <1>1 DEF SteadyDelivered, KeptOf, NewestOf
<1> QED  BY <1>2, <1>3 DEF AssemblyInv, ScaleCame, StateOfFrame, FtExact, ScaleBehind,
   SteadySensorsAccepted

(* Such a deque holds the sample of every instant it is long enough for; one *)
(* that is full gives up its oldest.                                         *)
LEMMA DequeHolds ==
  ASSUME NEW q \in Seq(Samples), NEW c \in Nat, NEW kept \in Nat \ {0}, NewestOf(q, c, kept)
  PROVE  /\ (q = <<>> <=> c = 0) /\ (q # <<>> => Last(q).at = c - 1)
         /\ \A t \in Nat : c - kept <= t /\ t < c => \E i \in 1 .. Len(q) : q[i].at = t
         /\ \A i \in 1 .. Len(q) : q[i].at = c - Len(q) + i - 1 /\ q[i].seq = q[i].at + 1
<1>1. Len(q) \in Nat /\ Len(q) = (IF c < kept THEN c ELSE kept) /\ (q = <<>> <=> Len(q) = 0)
  BY DEF NewestOf
<1>2. \A i \in 1 .. Len(q) : q[i].at = c - Len(q) + i - 1 /\ q[i].seq = c - Len(q) + i
  BY DEF NewestOf
<1>3. \A i \in 1 .. Len(q) : q[i].seq = q[i].at + 1
  BY ONLY <1>1, <1>2, c \in Nat
<1>4. ASSUME q # <<>> PROVE Last(q).at = c - 1
  <2>1. Len(q) \in 1 .. Len(q)
    BY <1>1, <1>4
  <2>2. Last(q).at = c - Len(q) + Len(q) - 1
    BY <1>2, <2>1 DEF Last
  <2> QED  BY <1>1, <2>2
<1>5. ASSUME NEW t \in Nat, c - kept <= t, t < c PROVE \E i \in 1 .. Len(q) : q[i].at = t
  <2> DEFINE k == t - c + Len(q) + 1
  <2>1. k \in 1 .. Len(q) /\ c - Len(q) + k - 1 = t
    BY ONLY <1>1, <1>5, c \in Nat, kept \in Nat \ {0}
  <2> HIDE DEF k
  <2> QED  BY <1>2, <2>1
<1>6. (q = <<>> <=> c = 0)
  BY <1>1
<1> QED  BY <1>2, <1>3, <1>4, <1>5, <1>6

(* The next sample keeps it so (the deque of ft.py and scale.py).            *)
LEMMA DequeGrows ==
  ASSUME NEW q \in Seq(Samples), NEW c \in Nat, NEW kept \in Nat \ {0}, NewestOf(q, c, kept),
         NEW x \in Samples, x.at = c, x.seq = c + 1
  PROVE  NewestOf(IF Len(Append(q, x)) > kept THEN Tail(Append(q, x)) ELSE Append(q, x),
                  c + 1, kept)
<1> DEFINE n == Len(q)  longer == Append(q, x)
<1>1. n \in Nat /\ n = (IF c < kept THEN c ELSE kept)
  BY DEF NewestOf
<1>2. \A i \in 1 .. n : q[i].at = c - n + i - 1 /\ q[i].seq = c - n + i
  BY DEF NewestOf
<1>3. /\ longer \in Seq(Samples) /\ Len(longer) = n + 1 /\ longer[n + 1] = x
      /\ \A i \in 1 .. n : longer[i] = q[i]
  OBVIOUS
<1>4. /\ Len(Tail(longer)) = n
      /\ \A i \in 1 .. n : Tail(longer)[i] = longer[i + 1]
  <2>1. longer # <<>>
    BY <1>1, <1>3
  <2> QED  BY <1>1, <1>3, <2>1, HeadTailProperties
<1> HIDE DEF n, longer
<1>5. \A i \in 1 .. n + 1 : longer[i].at = c - n + i - 1 /\ longer[i].seq = c - n + i
  <2>1. ASSUME NEW i \in 1 .. n PROVE longer[i].at = c - n + i - 1 /\ longer[i].seq = c - n + i
    BY <1>2, <1>3
  <2>2. longer[n + 1].at = c - n + (n + 1) - 1 /\ longer[n + 1].seq = c - n + (n + 1)
    <3>1. c - n + (n + 1) - 1 = c /\ c - n + (n + 1) = c + 1
      BY <1>1
    <3> QED  BY <1>3, <3>1
  <2>3. ASSUME NEW i \in 1 .. n + 1 PROVE i \in 1 .. n \/ i = n + 1
    BY <1>1
  <2> QED  BY <2>1, <2>2, <2>3
<1>6. CASE n + 1 > kept
  <2>1. ASSUME NEW i \in 1 .. n
        PROVE  /\ Tail(longer)[i].at = (c + 1) - n + i - 1
               /\ Tail(longer)[i].seq = (c + 1) - n + i
    <3>1. i + 1 \in 1 .. n + 1 /\ Tail(longer)[i] = longer[i + 1]
      BY <1>1, <1>4
    <3>2. longer[i + 1].at = c - n + (i + 1) - 1 /\ longer[i + 1].seq = c - n + (i + 1)
      BY <1>5, <3>1
    <3>3. c - n + (i + 1) - 1 = (c + 1) - n + i - 1 /\ c - n + (i + 1) = (c + 1) - n + i
      BY ONLY <1>1, c \in Nat, i \in 1 .. n
    <3> QED  BY ONLY <3>1, <3>2, <3>3
  <2>2. n = IF c + 1 < kept THEN c + 1 ELSE kept
    BY <1>1, <1>6
  <2>3. NewestOf(Tail(longer), c + 1, kept)
    BY <1>4, <2>1, <2>2 DEF NewestOf
  <2> QED  BY <1>3, <1>6, <2>3 DEF longer
<1>7. CASE ~(n + 1 > kept)
  <2>1. n + 1 = IF c + 1 < kept THEN c + 1 ELSE kept
    BY <1>1, <1>7
  <2>2. ASSUME NEW i \in 1 .. n + 1
        PROVE  /\ longer[i].at = (c + 1) - (n + 1) + i - 1
               /\ longer[i].seq = (c + 1) - (n + 1) + i
    <3>1. longer[i].at = c - n + i - 1 /\ longer[i].seq = c - n + i
      BY <1>5
    <3>2. c - n + i - 1 = (c + 1) - (n + 1) + i - 1 /\ c - n + i = (c + 1) - (n + 1) + i
      BY ONLY <1>1, c \in Nat, i \in 1 .. n + 1
    <3> QED  BY ONLY <3>1, <3>2
  <2>3. NewestOf(longer, c + 1, kept)
    BY <1>3, <2>1, <2>2 DEF NewestOf
  <2> QED  BY <1>3, <1>7, <2>3 DEF longer
<1> QED  BY <1>6, <1>7

(* So with the deque of a steady sensor.                                     *)
LEMMA SteadyDeque ==
  ASSUME AssemblyTypes, SteadyDelivered, NEW s \in Sensors, steady[s]
  PROVE  /\ samples[s] \in Seq(Samples) /\ count[s] \in {now, now + 1} /\ now \in Nat
         /\ KeptOf[s] \in Nat \ {0} /\ KeptOf[s] > SampleAge + 1 /\ sensor[s] = "reading"
         /\ NewestOf(samples[s], count[s], KeptOf[s]) /\ count[s] \in Nat
         /\ Newest(s).at = count[s] - 1
<1>1. KeptOf[s] \in Nat \ {0} /\ KeptOf[s] > SampleAge + 1
  BY AssemblyAssumption DEF KeptOf, Sensors
<1>2. /\ samples[s] \in Seq(Samples) /\ count[s] \in {now, now + 1} /\ now \in Nat
      /\ sensor[s] = "reading" /\ NewestOf(samples[s], count[s], KeptOf[s]) /\ count[s] \in Nat
  BY DEF AssemblyTypes, SteadyDelivered
<1>3. /\ (samples[s] = <<>> <=> count[s] = 0)
      /\ samples[s] # <<>> => Last(samples[s]).at = count[s] - 1
  BY <1>1, <1>2, DequeHolds
<1>4. Newest(s).at = count[s] - 1
  BY <1>2, <1>3 DEF Newest, NoSample
<1> QED  BY <1>1, <1>2, <1>4

(* closest(): the sample of the state's own instant.                         *)
LEMMA ClosestExact ==
  ASSUME AssemblyTypes, SteadyDelivered, StateOfFrame, stage = "closest", Decided, steady["ft"],
         now - state <= SampleAge
  PROVE  Closest.at = state /\ Closest.seq = state + 1
<1> DEFINE q == samples["ft"]  c == count["ft"]  kept == KeptOf["ft"]
<1>1. /\ q \in Seq(Samples) /\ c \in {now, now + 1} /\ now \in Nat /\ c \in Nat
      /\ kept \in Nat \ {0} /\ kept > SampleAge + 1 /\ NewestOf(q, c, kept)
      /\ Newest("ft").at = c - 1
  BY SteadyDeque DEF Sensors
<1>2. /\ state \in Nat /\ state <= now /\ state + SampleAge <= expiry /\ expiry \in Nat
      /\ SampleAge \in Nat \ {0}
  BY AssemblyAssumption DEF AssemblyTypes, StateOfFrame
<1>3. Newest("ft").at >= state \/ now >= expiry
  BY DEF Decided
<1> HIDE DEF q, c, kept
<1>4. state < c /\ c - kept <= state
  BY <1>1, <1>2, <1>3
<1>5. /\ \E i \in 1 .. Len(q) : q[i].at = state
      /\ \A i \in 1 .. Len(q) : q[i].at = c - Len(q) + i - 1 /\ q[i].seq = q[i].at + 1
  BY <1>1, <1>2, <1>4, DequeHolds
<1>6. PICK k \in 1 .. Len(q) : q[k].at = state
  BY <1>5
<1>7. \A y \in ToSet(q) : y.at \in Int /\ y.seq = y.at + 1
  <2>1. ASSUME NEW y \in ToSet(q) PROVE y.at \in Int /\ y.seq = y.at + 1
    <3>1. PICK i \in 1 .. Len(q) : y = q[i]
      BY <1>1 DEF ToSet
    <3>2. q[i].at = c - Len(q) + i - 1 /\ q[i].seq = q[i].at + 1
      BY <1>5
    <3>3. Len(q) \in Nat /\ i \in Nat
      BY <1>1
    <3> QED  BY ONLY <1>1, <3>1, <3>2, <3>3
  <2> QED  BY <2>1
<1>8. q[k] \in ToSet(q)
  BY <1>1, <1>6 DEF ToSet
<1> DEFINE Best(x) == \A y \in ToSet(q) :
             \/ Apart(x.at, state) < Apart(y.at, state)
             \/ Apart(x.at, state) = Apart(y.at, state) /\ x.seq <= y.seq
<1>9. Apart(state, state) = 0
  BY <1>2 DEF Apart
<1>10. Best(q[k])
  <2>1. ASSUME NEW y \in ToSet(q)
        PROVE  \/ Apart(q[k].at, state) < Apart(y.at, state)
               \/ Apart(q[k].at, state) = Apart(y.at, state) /\ q[k].seq <= y.seq
    <3>1. y.at \in Int /\ y.seq = y.at + 1 /\ q[k].seq = state + 1
      BY <1>6, <1>7, <1>8
    <3>2. Apart(y.at, state) \in Nat /\ (Apart(y.at, state) = 0 <=> y.at = state)
      BY <1>2, <3>1 DEF Apart
    <3> QED  BY ONLY <1>2, <1>6, <1>9, <3>1, <3>2
  <2> QED  BY <2>1
<1>11. Closest = CHOOSE x \in ToSet(q) : Best(x)
  BY DEF Closest, q
<1> HIDE DEF Best
<1>12. Closest \in ToSet(q) /\ Best(Closest)
  BY <1>8, <1>10, <1>11
<1>13. Closest.at \in Int /\ Closest.seq = Closest.at + 1
  BY <1>7, <1>12
<1>14. Apart(Closest.at, state) \in Nat /\ (Apart(Closest.at, state) = 0 <=> Closest.at = state)
  BY <1>2, <1>13 DEF Apart
<1>15. \/ Apart(Closest.at, state) < Apart(q[k].at, state)
       \/ Apart(Closest.at, state) = Apart(q[k].at, state)
  BY <1>8, <1>12 DEF Best
<1>16. Apart(Closest.at, state) = 0
  BY <1>6, <1>9, <1>14, <1>15
<1> QED  BY <1>13, <1>14, <1>16

(* latest_before(): the sample of the state's own instant, or if that has    *)
(* not come yet, the one before.                                             *)
LEMMA BeforeState ==
  ASSUME AssemblyTypes, SteadyDelivered, StateOfFrame, ScaleCame, stage = "latest", steady["scale"],
         now - state <= SampleAge
  PROVE  /\ Before # 0
         /\ samples["scale"][Before].at \in {state - 1, state}
         /\ samples["scale"][Before].seq = samples["scale"][Before].at + 1
<1> DEFINE q == samples["scale"]  c == count["scale"]  kept == KeptOf["scale"]
           I == {i \in 1 .. Len(q) : q[i].at <= state}
<1>1. /\ q \in Seq(Samples) /\ c \in {now, now + 1} /\ now \in Nat /\ c \in Nat
      /\ kept \in Nat \ {0} /\ kept > SampleAge + 1 /\ NewestOf(q, c, kept)
  BY SteadyDeque DEF Sensors
<1>2. state \in Nat /\ state <= now /\ SampleAge \in Nat \ {0} /\ c >= 2
  BY AssemblyAssumption DEF AssemblyTypes, StateOfFrame, ScaleCame, Collecting
<1>3. Before = IF I # {} THEN Max(I) ELSE 0
  BY DEF Before, SelectLastInSeq
<1> HIDE DEF q, c, kept
<1> DEFINE t == IF state < c THEN state ELSE c - 1
<1>4. t \in Nat /\ t < c /\ c - kept <= t /\ t \in {state - 1, state} /\ (t # state => t = c - 1)
  BY <1>1, <1>2
<1> HIDE DEF t
<1>5. /\ \E i \in 1 .. Len(q) : q[i].at = t
      /\ \A i \in 1 .. Len(q) : q[i].at = c - Len(q) + i - 1 /\ q[i].seq = q[i].at + 1
  BY <1>1, <1>4, DequeHolds
<1>6. PICK k \in 1 .. Len(q) : q[k].at = t
  BY <1>5
<1>7. Len(q) \in Nat /\ k \in I /\ I \in SUBSET (1 .. Len(q))
  BY <1>1, <1>2, <1>4, <1>6
<1>8. Before = Max(I)
  BY <1>3, <1>7
<1> HIDE DEF I
<1>9. Before \in I /\ k <= Before
  BY <1>7, <1>8, MaxOf
<1>10. Before \in 1 .. Len(q) /\ q[Before].at <= state
  BY <1>9 DEF I
<1>11. /\ q[Before].at = c - Len(q) + Before - 1 /\ q[Before].seq = q[Before].at + 1
       /\ t = c - Len(q) + k - 1
  BY <1>5, <1>6, <1>10
<1>12. q[Before].at \in {state - 1, state}
  BY ONLY <1>1, <1>2, <1>4, <1>7, <1>9, <1>10, <1>11, k \in 1 .. Len(q)
<1> QED  BY <1>7, <1>10, <1>11, <1>12 DEF q

(* A refusal, of whatever, keeps the types.                                  *)
LEMMA RefusedTypes ==
  ASSUME AssemblyTypes, NEW why \in {"ft", "scale", "state", "cameras", "not_started"}, Refused(why)
  PROVE  AssemblyTypes'
<1>1. UNCHANGED <<now, count, samples, sensor, steady, state, last>> /\ stage' = why /\ expiry' = 0
  BY DEF Refused, sensorVars
<1>2. DOMAIN picked' = Sensors
  BY DEF Refused
<1>5. camera' \in Int
  BY DEF Refused
<1>3. stage' \in {"ft_first", "scale_first", "ft", "scale", "state", "cameras", "not_started"}
             \cup Collecting
  BY ONLY <1>1, why \in {"ft", "scale", "state", "cameras", "not_started"}
<1>4. expiry' \in Nat
  BY <1>1
<1> QED  BY <1>1, <1>2, <1>3, <1>4, <1>5 DEF AssemblyTypes

(* What arrives is a sample, and the deque one of samples.                   *)
LEMMA SampleArrives ==
  ASSUME NEW q \in Seq(Samples), NEW k, NEW at \in Nat, NEW c \in Nat
  PROVE  LET longer == Append(q, [at |-> at, seq |-> c + 1])
         IN (IF Len(longer) > k THEN Tail(longer) ELSE longer) \in Seq(Samples)
<1> DEFINE x == [at |-> at, seq |-> c + 1]  longer == Append(q, x)
<1>1. x \in Samples
  BY DEF Samples
<1> HIDE DEF x
<1>2. longer \in Seq(Samples) /\ longer # <<>>
  BY <1>1, AppendProperties
<1> HIDE DEF longer
<1>3. (IF Len(longer) > k THEN Tail(longer) ELSE longer) \in Seq(Samples)
  BY <1>2, HeadTailProperties
<1> QED  BY <1>3 DEF longer, x

(* Time passes, and a sensor without a sample is steady no more.             *)
LEMMA SteadyNoLonger ==
  ASSUME AssemblyTypes, Passes
  PROVE  /\ now' = now + 1 /\ UNCHANGED <<samples, count, sensor, stage, expiry, frameVars, last>>
         /\ steady' \in [Sensors -> BOOLEAN]
         /\ \A s \in Sensors : steady'[s] => steady[s] /\ Newest(s).at = now
<1>1. steady' = [t \in Sensors |-> steady[t] /\ Newest(t).at = now]
  BY DEF Passes
<1>2. \A t \in Sensors : (steady[t] /\ Newest(t).at = now) \in BOOLEAN
  OBVIOUS
<1>3. steady' \in [Sensors -> BOOLEAN]
  BY ONLY <1>1, <1>2, Zenon
<1>4. \A s \in Sensors : steady'[s] => steady[s] /\ Newest(s).at = now
  BY ONLY <1>1, Zenon
<1>5. now' = now + 1 /\ UNCHANGED <<samples, count, sensor, stage, expiry, frameVars, last>>
  BY DEF Passes
<1> QED  BY <1>3, <1>4, <1>5

(* A deque that nothing comes to stays as it is.                             *)
LEMMA DequesUnchanged ==
  ASSUME SteadyDelivered, UNCHANGED <<now, sensorVars>>
  PROVE  SteadyDelivered'
BY DEF SteadyDelivered, sensorVars

(* Sequence numbers and instants are naturals; a deque holds samples.        *)
LEMMA AssemblyTypesKept ==
  ASSUME AssemblyTypes, StateOfFrame, AssemblyNext
  PROVE  AssemblyTypes'
<1> USE AssemblyAssumption
    DEF sensorVars, frameVars, Sensors, Collecting, AssemblyTypes, StateOfFrame
<1>1. ASSUME NEW s \in Sensors, Arrives(s) PROVE AssemblyTypes'
  <2>1. now \in Nat /\ count[s] \in Nat /\ samples[s] \in Seq(Samples)
    OBVIOUS
  <2> DEFINE q == Append(samples[s], [at |-> now, seq |-> count[s] + 1])
             kept == IF Len(q) > KeptOf[s] THEN Tail(q) ELSE q
  <2>2. kept \in Seq(Samples)
    BY <2>1, SampleArrives
  <2>3. count' = [count EXCEPT ![s] = count[s] + 1] /\ samples' = [samples EXCEPT ![s] = kept]
    BY <1>1 DEF Arrives
  <2> HIDE DEF q, kept
  <2>5. samples \in [Sensors -> Seq(Samples)] /\ count \in [Sensors -> Nat]
    OBVIOUS
  <2>6. samples' \in [Sensors -> Seq(Samples)]
    BY ONLY <2>2, <2>3, <2>5, s \in Sensors
  <2>4. count' \in [Sensors -> Nat]
    BY ONLY <2>1, <2>3, <2>5, s \in Sensors
  <2> QED  BY <1>1, <2>4, <2>6 DEF Arrives
<1>2. ASSUME NEW s \in Sensors, SensorFails(s) PROVE AssemblyTypes'
  BY <1>2 DEF SensorFails
<1>3. CASE Passes
  <2>1. /\ now' = now + 1 /\ UNCHANGED <<samples, count, sensor, stage, expiry, frameVars, last>>
        /\ steady' \in [Sensors -> BOOLEAN]
    BY <1>3, SteadyNoLonger
  <2> QED  BY <2>1
<1>4. CASE FtFirst
  BY <1>4 DEF FtFirst, First
<1>5. CASE ScaleFirst
  BY <1>5 DEF ScaleFirst, First
<1>6. CASE FirstFails
  BY <1>6, RefusedTypes DEF FirstFails
<1>7. CASE TakeFrames
  BY <1>7 DEF TakeFrames
<1>8. CASE PickClosest
  BY <1>8 DEF PickClosest
<1>9. CASE PickLatest
  BY <1>9 DEF PickLatest
<1>10. CASE SensorRaises
  BY <1>10, RefusedTypes DEF SensorRaises
<1>11. CASE AcceptFrame
  BY <1>11 DEF AcceptFrame
<1>12. CASE RefuseFrame
  BY <1>12, RefusedTypes DEF RefuseFrame
<1> QED
  BY <1>1, <1>2, <1>3, <1>4, <1>5, <1>6, <1>7, <1>8, <1>9, <1>10, <1>11, <1>12 DEF AssemblyNext

(* What a thread of a sensor appends, and what does not touch the deques.    *)
LEMMA DequesKept ==
  ASSUME AssemblyTypes, SteadyDelivered, AssemblyNext
  PROVE  SteadyDelivered'
<1> USE AssemblyAssumption DEF sensorVars, frameVars, Sensors, Collecting
<1>1. ASSUME NEW s \in Sensors, Arrives(s) PROVE SteadyDelivered'
  <2> DEFINE x == [at |-> now, seq |-> count[s] + 1]
             q == Append(samples[s], x)
  <2>1. /\ Newest(s).at < now /\ UNCHANGED <<now, sensor, steady>>
        /\ count' = [count EXCEPT ![s] = count[s] + 1]
        /\ samples' = [samples EXCEPT ![s] = IF Len(q) > KeptOf[s] THEN Tail(q) ELSE q]
    BY <1>1 DEF Arrives
  <2>2. ASSUME NEW t \in Sensors, steady[t], t # s
        PROVE  count'[t] = count[t] /\ samples'[t] = samples[t]
    BY <2>1, <2>2 DEF AssemblyTypes
  <2>3. ASSUME steady[s]
        PROVE  count'[s] = now + 1 /\ NewestOf(samples'[s], count'[s], KeptOf[s])
    <3>1. /\ samples[s] \in Seq(Samples) /\ count[s] \in {now, now + 1} /\ now \in Nat
          /\ KeptOf[s] \in Nat \ {0} /\ NewestOf(samples[s], count[s], KeptOf[s])
          /\ Newest(s).at = count[s] - 1 /\ count[s] \in Nat
      BY <2>3, SteadyDeque
    <3>2. count[s] = now
      BY <2>1, <3>1
    <3>3. x \in Samples /\ x.at = now /\ x.seq = now + 1
      BY <3>1, <3>2 DEF Samples
    <3> HIDE DEF x
    <3>4. NewestOf(IF Len(q) > KeptOf[s] THEN Tail(q) ELSE q, now + 1, KeptOf[s])
      BY <3>1, <3>2, <3>3, DequeGrows
    <3>5. count'[s] = now + 1 /\ samples'[s] = IF Len(q) > KeptOf[s] THEN Tail(q) ELSE q
      BY <2>1, <3>2 DEF AssemblyTypes
    <3> QED  BY <3>4, <3>5
  <2> HIDE DEF q
  <2>4. ASSUME NEW t \in Sensors, steady[t]
        PROVE  /\ sensor[t] = "reading" /\ count'[t] \in {now, now + 1}
               /\ NewestOf(samples'[t], count'[t], KeptOf[t])
    <3>1. CASE t = s
      BY <2>3, <2>4, <3>1 DEF SteadyDelivered
    <3>2. CASE t # s
      BY <2>2, <2>4, <3>2 DEF SteadyDelivered
    <3> QED  BY <3>1, <3>2
  <2> QED  BY <2>1, <2>4 DEF SteadyDelivered
<1>2. ASSUME NEW s \in Sensors, SensorFails(s) PROVE SteadyDelivered'
  <2>1. UNCHANGED <<now, samples, count>> /\ sensor' = [sensor EXCEPT ![s] = "failed"]
        /\ steady' = [steady EXCEPT ![s] = FALSE]
    BY <1>2 DEF SensorFails
  <2>2. ASSUME NEW t \in Sensors, steady'[t] PROVE steady[t] /\ sensor'[t] = sensor[t]
    BY <2>1, <2>2 DEF AssemblyTypes
  <2> QED  BY <2>1, <2>2 DEF SteadyDelivered
<1>3. CASE Passes
  <2>1. UNCHANGED <<samples, count, sensor>> /\ now' = now + 1
        /\ \A t \in Sensors : steady'[t] => steady[t] /\ Newest(t).at = now
    BY <1>3 DEF Passes
  <2>2. ASSUME NEW t \in Sensors, steady'[t]
        PROVE  /\ sensor[t] = "reading" /\ count[t] \in {now', now' + 1}
               /\ NewestOf(samples[t], count[t], KeptOf[t])
    <3>1. steady[t] /\ Newest(t).at = now
      BY <2>1, <2>2
    <3>2. Newest(t).at = count[t] - 1 /\ count[t] \in Nat /\ now \in Nat /\ sensor[t] = "reading"
          /\ NewestOf(samples[t], count[t], KeptOf[t])
      BY <3>1, SteadyDeque
    <3> QED  BY <2>1, <3>1, <3>2
  <2> QED  BY <2>1, <2>2 DEF SteadyDelivered
<1>4. CASE \/ FtFirst \/ ScaleFirst \/ FirstFails \/ TakeFrames \/ PickClosest \/ PickLatest
           \/ SensorRaises \/ AcceptFrame \/ RefuseFrame
  <2>1. UNCHANGED <<now, sensorVars>>
    BY <1>4 DEF FtFirst, ScaleFirst, First, FirstFails, TakeFrames, PickClosest, PickLatest,
                SensorRaises, AcceptFrame, RefuseFrame, Refused
  <2> QED  BY <2>1, DequesUnchanged
<1> QED
  BY <1>1, <1>2, <1>3, <1>4 DEF AssemblyNext

(* When a frame may be collected, and how old its state is (live.py).        *)
LEMMA FramesKept ==
  ASSUME AssemblyTypes, SteadyDelivered, ScaleCame, StateOfFrame, AssemblyNext
  PROVE  (ScaleCame /\ StateOfFrame)'
<1> USE AssemblyAssumption
    DEF sensorVars, frameVars, Sensors, Collecting, AssemblyTypes, ScaleCame, StateOfFrame
<1>1. ASSUME NEW s \in Sensors, Arrives(s) PROVE (ScaleCame /\ StateOfFrame)'
  <2>1. count'["scale"] \in {count["scale"], count["scale"] + 1}
        /\ UNCHANGED <<now, sensor, steady, stage, expiry, frameVars, last>>
    BY <1>1 DEF Arrives
  <2> QED  BY <2>1
<1>2. ASSUME NEW s \in Sensors, SensorFails(s) PROVE (ScaleCame /\ StateOfFrame)'
  BY <1>2 DEF SensorFails
<1>3. CASE Passes
  <2>1. /\ now' = now + 1 /\ UNCHANGED <<samples, count, sensor, stage, expiry, frameVars, last>>
        /\ steady'["scale"] => steady["scale"]
    BY <1>3, SteadyNoLonger
  <2> QED  BY <2>1
<1>4. CASE FtFirst
  BY <1>4 DEF FtFirst, First
<1>5. CASE ScaleFirst
  <2>1. stage' = "idle" /\ UNCHANGED <<count, steady>> /\ Len(samples["scale"]) >= 2
    BY <1>5 DEF ScaleFirst, First
  <2>2. ASSUME steady["scale"] PROVE count["scale"] >= 2
    <3>1. /\ count["scale"] \in Nat /\ KeptOf["scale"] \in Nat
          /\ NewestOf(samples["scale"], count["scale"], KeptOf["scale"])
      BY <2>2, SteadyDeque
    <3>2. Len(samples["scale"]) <= count["scale"]
      BY <3>1 DEF NewestOf
    <3> QED  BY <2>1, <3>1, <3>2
  <2> QED  BY <2>1, <2>2
<1>6. CASE FirstFails
  BY <1>6 DEF FirstFails, Refused
<1>7. CASE TakeFrames
  BY <1>7 DEF TakeFrames
<1>8. CASE PickClosest
  BY <1>8 DEF PickClosest
<1>9. CASE PickLatest
  BY <1>9 DEF PickLatest
<1>10. CASE SensorRaises
  BY <1>10 DEF SensorRaises, Refused
<1>11. CASE AcceptFrame
  BY <1>11 DEF AcceptFrame
<1>12. CASE RefuseFrame
  BY <1>12 DEF RefuseFrame, Refused
<1> QED
  BY <1>1, <1>2, <1>3, <1>4, <1>5, <1>6, <1>7, <1>8, <1>9, <1>10, <1>11, <1>12 DEF AssemblyNext

(* What is picked for a state, and what it was picked after.                 *)
LEMMA PicksKept ==
  ASSUME AssemblyInv, AssemblyNext
  PROVE  (FtExact /\ ScaleBehind)'
<1> USE AssemblyAssumption
    DEF sensorVars, frameVars, Sensors, Collecting, AssemblyInv, AssemblyTypes, StateOfFrame,
       FtExact, ScaleBehind
<1>1. ASSUME NEW s \in Sensors, Arrives(s) PROVE (FtExact /\ ScaleBehind)'
  BY <1>1 DEF Arrives
<1>2. ASSUME NEW s \in Sensors, SensorFails(s) PROVE (FtExact /\ ScaleBehind)'
  BY <1>2 DEF SensorFails
<1>3. CASE Passes
  <2>1. now' = now + 1 /\ UNCHANGED <<stage, state, picked, last>>
    BY <1>3, SteadyNoLonger
  <2>2. (steady'["scale"] => steady["scale"]) /\ (steady'["ft"] => steady["ft"])
    BY <1>3, SteadyNoLonger
  <2>3. now \in Nat /\ state \in Int /\ SampleAge \in Nat
    OBVIOUS
  <2>4. now' - state <= SampleAge => now - state <= SampleAge
    BY ONLY <2>1, <2>3
  <2>5. FtExact'
    BY ONLY FtExact, <2>1, <2>2, <2>4 DEF FtExact
  <2>6. ScaleBehind'
    BY ONLY ScaleBehind, <2>1, <2>2, <2>4 DEF ScaleBehind
  <2> QED  BY <2>5, <2>6
<1>4. CASE FtFirst
  BY <1>4 DEF FtFirst, First
<1>5. CASE ScaleFirst
  BY <1>5 DEF ScaleFirst, First
<1>6. CASE FirstFails
  BY <1>6 DEF FirstFails, Refused
<1>7. CASE TakeFrames
  BY <1>7 DEF TakeFrames
<1>8. CASE PickClosest
  <2>1. steady["ft"] /\ now - state <= SampleAge => Closest.at = state /\ Closest.seq = state + 1
    BY <1>8, ClosestExact DEF PickClosest
  <2>2. picked'["ft"] = Closest /\ stage' = "latest" /\ UNCHANGED <<now, sensorVars, state, last>>
    BY <1>8 DEF PickClosest
  <2> QED  BY <2>1, <2>2
<1>9. CASE PickLatest
  <2> DEFINE x == samples["scale"][Before]
  <2>1. steady["scale"] /\ now - state <= SampleAge =>
          x.at \in {state - 1, state} /\ x.seq = x.at + 1
    BY <1>9, BeforeState DEF PickLatest
  <2>2. /\ picked'["scale"] = x /\ picked'["ft"] = picked["ft"] /\ stage = "latest"
        /\ stage' = "validate" /\ UNCHANGED <<now, sensorVars, state, last>>
    BY <1>9 DEF PickLatest
  <2> HIDE DEF x
  <2> QED  BY <2>1, <2>2
<1>10. CASE SensorRaises
  BY <1>10 DEF SensorRaises, Refused
<1>11. CASE AcceptFrame
  <2>1. /\ stage = "validate" /\ now - state <= SampleAge /\ stage' = "idle"
        /\ last'.state = state /\ last'.ft = picked["ft"].seq /\ last'.scale = picked["scale"].seq
        /\ UNCHANGED <<now, sensorVars>>
    BY <1>11 DEF AcceptFrame, StateFresh
  <2>2. FtExact'
    BY <2>1
  <2>3. ScaleBehind'
    <3>1. ASSUME steady["scale"]
          PROVE  /\ picked["scale"].at \in {state - 1, state}
                 /\ picked["scale"].seq = picked["scale"].at + 1
      BY <2>1, <3>1
    <3>2. ASSUME steady["scale"] PROVE last'.scale \in Int /\ last'.scale <= last'.state + 1
      BY <2>1, <3>1, <3>2
    <3> QED  BY <2>1, <3>2
  <2> QED  BY <2>2, <2>3
<1>12. CASE RefuseFrame
  BY <1>12 DEF RefuseFrame, Refused
<1> QED
  BY <1>1, <1>2, <1>3, <1>4, <1>5, <1>6, <1>7, <1>8, <1>9, <1>10, <1>11, <1>12 DEF AssemblyNext

(* A frame is refused for its force or its weight only where that sensor was *)
(* not steady, or the state too old (schema.py, validate).                   *)
LEMMA AcceptanceKept ==
  ASSUME AssemblyInv, AssemblyNext
  PROVE  SteadySensorsAccepted'
<1> USE AssemblyAssumption
    DEF sensorVars, frameVars, Sensors, Collecting, AssemblyInv, AssemblyTypes, StateOfFrame,
       SteadySensorsAccepted
<1>1. ASSUME NEW s \in Sensors, Arrives(s) PROVE SteadySensorsAccepted'
  BY <1>1 DEF Arrives
<1>2. ASSUME NEW s \in Sensors, SensorFails(s) PROVE SteadySensorsAccepted'
  BY <1>2 DEF SensorFails
<1>3. CASE Passes
  <2>1. /\ now' = now + 1 /\ UNCHANGED <<samples, count, sensor, stage, expiry, frameVars, last>>
        /\ \A s \in Sensors : steady'[s] => steady[s]
    BY <1>3, SteadyNoLonger
  <2> QED  BY <2>1
<1>4. CASE FtFirst
  BY <1>4 DEF FtFirst, First
<1>5. CASE ScaleFirst
  BY <1>5 DEF ScaleFirst, First
<1>6. CASE FirstFails
  BY <1>6 DEF FirstFails, Refused
<1>7. CASE TakeFrames
  BY <1>7 DEF TakeFrames
<1>8. CASE PickClosest
  BY <1>8 DEF PickClosest
<1>9. CASE PickLatest
  BY <1>9 DEF PickLatest
<1>10. CASE SensorRaises
  <2>1. ASSUME stage = "closest" /\ sensor["ft"] = "failed" /\ Refused("ft")
        PROVE  SteadySensorsAccepted'
    BY <2>1 DEF Refused, SteadyDelivered
  <2>2. ASSUME stage = "latest" /\ (sensor["scale"] = "failed" \/ Before = 0) /\ Refused("scale")
        PROVE  SteadySensorsAccepted'
    <3>1. steady["scale"] => now - state > SampleAge
      BY <2>2, BeforeState DEF SteadyDelivered
    <3> QED  BY <2>2, <3>1 DEF Refused
  <2> QED  BY <1>10, <2>1, <2>2 DEF SensorRaises
<1>11. CASE AcceptFrame
  BY <1>11 DEF AcceptFrame
<1>12. CASE RefuseFrame
  <2>1. ASSUME stage = "validate", StateFresh, ~FtCoherent PROVE ~steady["ft"]
    <3>1. SUFFICES ASSUME steady["ft"] PROVE FtCoherent
      BY <2>1
    <3>2. picked["ft"].at = state /\ picked["ft"].seq = state + 1 /\ last.ft = last.state + 1
      BY <2>1, <3>1 DEF StateFresh, FtExact
    <3>3. last.state < state /\ state <= now /\ now - state <= SampleAge
      BY <2>1 DEF StateFresh
    <3>4. state \in Int /\ last.state \in Int /\ now \in Nat /\ SampleAge \in Nat /\ FtSkew \in Nat
      OBVIOUS
    <3>5. Apart(state, state) = 0
      BY ONLY <3>4 DEF Apart
    <3> QED  BY ONLY <3>2, <3>3, <3>4, <3>5 DEF FtCoherent
  <2>2. ASSUME stage = "validate", StateFresh, now - state < ScaleAge, ~ScaleCoherent
        PROVE  ~steady["scale"]
    <3>1. SUFFICES ASSUME steady["scale"] PROVE ScaleCoherent
      BY <2>2
    <3>2. /\ picked["scale"].at \in {state - 1, state}
          /\ picked["scale"].seq = picked["scale"].at + 1
          /\ last.scale \in Int /\ last.scale <= last.state + 1
      BY <2>2, <3>1 DEF StateFresh, ScaleBehind
    <3>3. last.state < state /\ state <= now /\ now - state <= SampleAge /\ now - state < ScaleAge
      BY <2>2 DEF StateFresh
    <3>4. /\ state \in Int /\ last.state \in Int /\ now \in Nat /\ SampleAge \in Nat
          /\ ScaleSkew \in Nat \ {0} /\ ScaleAge \in Int
      OBVIOUS
    <3> QED  BY ONLY <3>2, <3>3, <3>4 DEF ScaleCoherent
  <2>3. CASE stage = "validate" /\ ~StateFresh /\ Refused("state")
    BY <2>3 DEF Refused
  <2>4. CASE stage = "validate" /\ StateFresh /\ ~FtCoherent /\ Refused("ft")
    BY <2>1, <2>4 DEF Refused
  <2>5. CASE stage = "validate" /\ StateFresh /\ ~ScaleCoherent /\ Refused("scale")
    BY <2>2, <2>5 DEF Refused
  <2>6. CASE stage = "validate" /\ ~CamerasCoherent /\ Refused("cameras")
    BY <2>6 DEF Refused
  <2> QED  BY <1>12, <2>3, <2>4, <2>5, <2>6 DEF RefuseFrame
<1> QED
  BY <1>1, <1>2, <1>3, <1>4, <1>5, <1>6, <1>7, <1>8, <1>9, <1>10, <1>11, <1>12 DEF AssemblyNext

(* The deques, the state and the samples picked for it stay together         *)
(* (live.py, ft.py, scale.py).                                               *)
THEOREM AssemblyInvariant == AssemblySpec => []AssemblyInv
<1>1. ASSUME AssemblyInv, [AssemblyNext]_assemblyVars PROVE AssemblyInv'
  <2>1. CASE UNCHANGED assemblyVars
    BY <1>1, <2>1 DEF assemblyVars, sensorVars, frameVars, AssemblyInv, AssemblyTypes,
       SteadyDelivered,
       ScaleCame, StateOfFrame, FtExact, ScaleBehind, SteadySensorsAccepted
  <2> QED  BY <1>1, <2>1, AssemblyTypesKept, DequesKept, FramesKept, PicksKept,
     AcceptanceKept DEF AssemblyInv
<1> QED  BY <1>1, AssemblyInitInv, PTL DEF AssemblySpec

(* A sensor that delivers at every instant never costs a frame of a fresh    *)
(* state, of one an instant younger than a weight may be: what closest and   *)
(* latest_before take from its deque passes the checks of                    *)
(* SampleAssembler.validate (schema.py), whatever ages and skews the loader  *)
(* lets through.                                                             *)
THEOREM SteadySensorsServe == AssemblySpec => []SteadySensorsAccepted
<1>1. AssemblyInv => SteadySensorsAccepted
  BY DEF AssemblyInv
<1> QED  BY <1>1, AssemblyInvariant, PTL
-----------------------------------------------------------------------------
(* The recorder.  What a worker announces is so from then on: it wrote       *)
(* enough frames and found them in the video, and has only to exit, or the   *)
(* recorder had to kill it, an error.                                        *)
WorkerPlaces == {"opening", "reading", "ready", "verifying", "verified", "failing"} \cup Exited
EventKinds == {"ready", "done", "error"}

Messages == Cameras \X EventKinds

RecordingTypes ==
  /\ worker \in [Cameras -> WorkerPlaces] /\ written \in [Cameras -> Nat]
  /\ events \subseteq Messages
  /\ reports \subseteq Cameras /\ faulty \in BOOLEAN /\ rows \in [Cameras -> Nat]

Said(c) == c \in reports \/ <<c, "done">> \in events
SayingIsSo ==
  \A c \in Cameras : Said(c) =>
    /\ written[c] >= MinFrames
    /\ worker[c] \in {"verified"} \cup Verified \/ (worker[c] = "killed" /\ faulty)

NotLaunched == recorder = "launch" => \A c \in Cameras : worker[c] = "absent" /\ ~Said(c)
NoneLeft == recorder \in {"conclude", "over"} => AllExited
CompleteSaid ==
  recorder = "over" /\ status = "complete" =>
    /\ ~faulty /\ reports = Cameras
    /\ CamerasOnly \/ \A s \in Cameras : rows[s] > 0

RecordingInv == RecordingTypes /\ SayingIsSo /\ NotLaunched /\ NoneLeft /\ CompleteSaid

(* _drain_events: who has put done is reported from then on; the queue is    *)
(* empty.                                                                    *)
LEMMA DrainSays ==
  ASSUME RecordingTypes, DrainEvents
  PROVE  /\ events' = {} /\ reports' \subseteq Cameras /\ faulty' \in BOOLEAN
         /\ faulty => faulty'
         /\ \A c \in Cameras : c \in reports' <=> Said(c)
BY DEF DrainEvents, Heard, RecordingTypes, Said

(* No worker runs and none has spoken.                                       *)
LEMMA RecordingInitInv == RecordingInit => RecordingInv
<1> SUFFICES ASSUME RecordingInit  PROVE RecordingInv
  OBVIOUS
<1>1. RecordingTypes
  BY DEF RecordingInit, RecordingTypes, WorkerPlaces, Exited
<1>2. \A c \in Cameras : worker[c] = "absent" /\ ~Said(c)
  BY DEF RecordingInit, Said
<1> QED
  BY <1>1, <1>2 DEF RecordingInit, RecordingInv, SayingIsSo, NotLaunched, NoneLeft, CompleteSaid

(* A step of a worker.                                                       *)
LEMMA WorkerKeeps ==
  ASSUME RecordingInv, NEW c \in Cameras, Worker(c)
  PROVE  RecordingInv'
<1> USE RecordingAssumption DEF RecordingInv, RecordingTypes, SayingIsSo, NotLaunched, NoneLeft,
      CompleteSaid, Said, AllExited, Work, reportVars, WorkerPlaces, Exited, Verified, EventKinds,
      Messages, Put
<1>1. CASE OpensCamera(c)
  BY <1>1 DEF OpensCamera
<1>2. CASE ReadsFirst(c)
  BY <1>2 DEF ReadsFirst
<1>3. CASE WritesFrame(c)
  BY <1>3 DEF WritesFrame
<1>4. CASE StopsReading(c)
  BY <1>4 DEF StopsReading
<1>5. CASE Verifies(c)
  BY <1>5 DEF Verifies
<1>6. CASE WorkerRaises(c)
  BY <1>6 DEF WorkerRaises
<1>7. CASE WorkerExits(c)
  BY <1>7 DEF WorkerExits
<1>8. CASE WorkerKilled(c)
  BY <1>8 DEF WorkerKilled
<1> QED  BY <1>1, <1>2, <1>3, <1>4, <1>5, <1>6, <1>7, <1>8 DEF Worker

(* A step of the recorder.                                                   *)
LEMMA RecorderKeeps ==
  ASSUME RecordingInv, Recorder \/ Interrupted
  PROVE  RecordingInv'
<1> USE DEF RecordingInv, RecordingTypes, SayingIsSo, NotLaunched, NoneLeft,
      CompleteSaid, Said, AllExited, Goes, workerVars, reportVars, WorkerPlaces, Exited,
      Verified, EventKinds, Watching
<1>1. CASE LaunchWorkers
  BY <1>1 DEF LaunchWorkers
<1>2. CASE LaunchFails
  BY <1>2 DEF LaunchFails, EndsWith
<1>3. CASE InterruptEnds
  BY <1>3 DEF InterruptEnds, EndsWith
<1>4. CASE ReceivePacket
  BY <1>4 DEF ReceivePacket
<1>5. CASE PacketRefused
  BY <1>5 DEF PacketRefused, EndsWith
<1>6. CASE DrainQueue
  <2>1. DrainEvents  BY <1>6 DEF DrainQueue
  <2>2. /\ events' = {} /\ reports' \subseteq Cameras
        /\ faulty' \in BOOLEAN
        /\ faulty => faulty'
        /\ \A c \in Cameras : c \in reports' <=> Said(c)
    BY <2>1, DrainSays
  <2> QED  BY <1>6, <2>2 DEF DrainQueue
<1>7. CASE CheckWorkers
  BY <1>7 DEF CheckWorkers, EndsWith
<1>8. CASE Start
  BY <1>8 DEF Start
<1>9. CASE GoesOn
  BY <1>9 DEF GoesOn
<1>10. CASE StreamLate
  BY <1>10 DEF StreamLate, EndsWith
<1>11. CASE DurationOver
  BY <1>11 DEF DurationOver, EndsWith
<1>12. CASE JoinDrains
  <2>1. DrainEvents  BY <1>12 DEF JoinDrains
  <2>2. /\ events' = {} /\ reports' \subseteq Cameras
        /\ faulty' \in BOOLEAN
        /\ faulty => faulty'
        /\ \A c \in Cameras : c \in reports' <=> Said(c)
    BY <2>1, DrainSays
  <2> QED  BY <1>12, <2>2 DEF JoinDrains
<1>13. CASE Joined
  BY <1>13 DEF Joined
<1>14. CASE JoinTimesOut
  BY <1>14 DEF JoinTimesOut
<1>15. CASE Conclude
  <2>1. DrainEvents  BY <1>15 DEF Conclude
  <2>2. /\ events' = {} /\ reports' \subseteq Cameras
        /\ faulty' \in BOOLEAN
        /\ faulty => faulty'
        /\ \A c \in Cameras : c \in reports' <=> Said(c)
    BY <2>1, DrainSays
  <2>3. status' = "complete" =>
          /\ ~faulty' /\ reports' = Cameras
          /\ CamerasOnly \/ \A s \in Cameras : rows[s] # 0
    BY <1>15 DEF Conclude, Lacking
  <2>4. /\ recorder = "conclude" /\ recorder' = "over"
        /\ worker' = worker /\ written' = written /\ rows' = rows
    BY <1>15 DEF Conclude
  <2>5. \A s \in Cameras : rows[s] # 0 => rows[s] > 0
    OBVIOUS
  <2> QED  BY <2>2, <2>3, <2>4, <2>5
<1>16. CASE Interrupted
  BY <1>16 DEF Interrupted
<1> QED  BY <1>1, <1>2, <1>3, <1>4, <1>5, <1>6, <1>7, <1>8, <1>9, <1>10, <1>11, <1>12, <1>13,
   <1>14, <1>15, <1>16 DEF Recorder

(* What workers announce stays so, and a recorder that concludes has no      *)
(* worker left.                                                              *)
THEOREM RecordingInvariant == RecordingSpec => []RecordingInv
<1>1. ASSUME RecordingInv, [RecordingNext]_recordingVars PROVE RecordingInv'
  <2>1. CASE UNCHANGED recordingVars
    BY <1>1, <2>1 DEF RecordingInv, RecordingTypes, SayingIsSo, NotLaunched, NoneLeft,
       CompleteSaid, Said, AllExited, recordingVars, workerVars, reportVars
  <2> QED  BY <1>1, <2>1, WorkerKeeps, RecorderKeeps DEF RecordingNext
<1> QED  BY <1>1, RecordingInitInv, PTL DEF RecordingSpec

(* A manifest that says complete is of a whole recording, whatever failed,   *)
(* hung or was killed (run_recording).                                       *)
THEOREM RecordingWhole == RecordingSpec => []CompleteIsWhole
<1>1. RecordingInv => CompleteIsWhole
  BY DEF RecordingInv, SayingIsSo, Said, NoneLeft, CompleteSaid, CompleteIsWhole, AllExited,
     Exited, Verified
<1> QED  BY <1>1, RecordingInvariant, PTL
=============================================================================
