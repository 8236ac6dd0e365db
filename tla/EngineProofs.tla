---------------------------- MODULE EngineProofs ----------------------------
(***************************************************************************)
(* Proofs about Engine for every set of cameras and every bound.           *)
(***************************************************************************)
EXTENDS Engine, TLAPS

\* Lists the actions of Next, so that the cases below follow one by one.
LEMMA NextCases ==
    ASSUME [Next]_vars
    PROVE  \/ \E c \in Cameras : \/ CameraStops(c) \/ GoodFrame(c) \/ AnalyzerThrows(c)
                                 \/ BadFrame(c) \/ CameraTake(c)
           \/ HallTake \/ HandleSetCamera \/ HandleRequest \/ HallThrows
           \/ MainTake \/ HandleCameraResponse \/ HandleHallResponse
           \/ GatheringTick \/ NoTick \/ ConnectionTick
           \/ Connect \/ NewCameraServer \/ DropOldCameras \/ NewHall
           \/ StartCameras \/ StartHall
           \/ BeginShutdown \/ MainJoined \/ DropRecorder \/ DeleteAnalyzer
           \/ StopHall \/ HallJoined \/ DropCameras
           \/ UNCHANGED vars
  BY DEF Next, CameraStep, HallStep, MainStep, Launch, Destroy

\* Push keeps the type of a queue.
LEMMA PushType ==
    ASSUME NEW S, NEW q \in Seq(S), NEW m \in S
    PROVE  Push(q, m) \in Seq(S)
<1>1. CASE MaxSize < Len(q)
  <2>1. q # <<>> /\ Tail(q) \in Seq(S)
    BY <1>1, MaxSizeAssumption
  <2> QED
    BY <1>1, <2>1 DEF Push
<1>2. CASE ~(MaxSize < Len(q))
  BY <1>2 DEF Push
<1> QED
  BY <1>1, <1>2

\* Push keeps a queue within its capacity.
LEMMA PushLength ==
    ASSUME NEW S, NEW q \in Seq(S), NEW m \in S, Len(q) <= Capacity
    PROVE  Len(Push(q, m)) <= Capacity
<1>1. CASE MaxSize < Len(q)
  <2>1. q # <<>> /\ Tail(q) \in Seq(S) /\ Len(Tail(q)) = Len(q) - 1
    BY <1>1, MaxSizeAssumption
  <2> QED
    BY <1>1, <2>1, MaxSizeAssumption DEF Push, Capacity
<1>2. CASE ~(MaxSize < Len(q))
  BY <1>2, MaxSizeAssumption DEF Push, Capacity
<1> QED
  BY <1>1, <1>2

\* Taking the first message off a queue that has one.
LEMMA HeadTail ==
    ASSUME NEW S, NEW q \in Seq(S), q # <<>>
    PROVE  /\ Head(q) \in S /\ Tail(q) \in Seq(S)
           /\ Len(q) # 1 => Tail(q) # <<>>
<1>1. Len(q) \in Nat /\ Len(q) > 0 /\ 1 \in DOMAIN q
  OBVIOUS
<1>2. Head(q) \in S
  BY <1>1
<1>3. Tail(q) \in Seq(S) /\ Len(Tail(q)) = Len(q) - 1
  BY <1>1
<1>4. Len(q) # 1 => Tail(q) # <<>>
  BY <1>1, <1>3
<1> QED
  BY <1>2, <1>3, <1>4

LEMMA MessageTypes ==
    /\ \A c \in Cameras, n \in Frames :
          CameraResponse(c, n) \in ServerMessages /\ HallSetCamera(c, n) \in HallMessages
    /\ \A r \in Rects : HallResponse(r) \in ServerMessages /\ CameraSetHall(r) \in CameraMessages
    /\ HallRequest \in HallMessages
  BY DEF ServerMessages, HallMessages, CameraMessages

\* What the type field of a message tells of the rest of it.
LEMMA MessageFields ==
    /\ \A m \in ServerMessages : m.type = "CameraResponse" =>
          m.camera \in Cameras /\ m.frame \in Frames
    /\ \A m \in ServerMessages : m.type = "HallResponse" => m.rects \in Rects
    /\ \A m \in HallMessages : m.type = "HallSetCamera" =>
          m.camera \in Cameras /\ m.frame \in Frames
    /\ \A m \in CameraMessages : m.rects \in Rects
  BY DEF ServerMessages, HallMessages, CameraMessages, CameraResponse, HallResponse,
         HallSetCamera, HallRequest, CameraSetHall

LEMMA FramesAreRects == NoRects \in Rects /\ Frames \subseteq 0..MaxFrames /\ 0 \in 0..MaxFrames
  BY BoundsAssumption DEF NoRects, Rects, Frames

\* A thread that handles messages has one at hand.
BatchAtHand ==
    /\ hallPc = "Batch" => hallBatch # <<>>
    /\ mainPc = "Batch" => mainBatch # <<>>

TypeInv == TypeOK /\ BatchAtHand

LEMMA InitType == Init => TypeInv
<1> SUFFICES ASSUME Init PROVE TypeInv
  OBVIOUS
<1>1. /\ camSeq \in Rects /\ userData \in Rects /\ hallSeen \in Rects
      /\ mainWork \in BOOLEAN
  BY FramesAreRects, FlagAssumption DEF Init
<1>2. camQueue \in [Cameras -> Seq(CameraMessages)]
  BY DEF Init
<1>3. /\ camPc \in [Cameras -> CamLabels] /\ camWork \in [Cameras -> BOOLEAN]
      /\ invalid \in [Cameras -> BOOLEAN]
  BY DEF Init, CamLabels
<1>4. /\ hallQueue \in Seq(HallMessages) /\ hallBatch \in Seq(HallMessages)
      /\ serverQueue \in Seq(ServerMessages) /\ mainBatch \in Seq(ServerMessages)
  BY DEF Init
<1> QED
  BY <1>1, <1>2, <1>3, <1>4
     DEF Init, TypeInv, TypeOK, BatchAtHand, HallLabels, MainLabels, OwnerLabels

LEMMA CameraKeepsType ==
    ASSUME TypeInv, NEW c \in Cameras,
           \/ CameraStops(c) \/ GoodFrame(c) \/ AnalyzerThrows(c) \/ BadFrame(c)
           \/ CameraTake(c)
    PROVE  TypeInv'
<1> USE DEF TypeInv, BatchAtHand, TypeOK, notCamera, hallVars, launchVars, GoTo, Reads, CamLabels
<1>1. CASE CameraStops(c)
  BY <1>1 DEF CameraStops
<1>2. ASSUME NewFrame(c)
      PROVE  /\ camSeq' \in Rects /\ invalid' \in [Cameras -> BOOLEAN]
             /\ camSeq[c] + 1 \in Frames
  BY <1>2, BoundsAssumption DEF NewFrame, Rects, Frames
<1>3. CASE GoodFrame(c)
  <2>1. serverQueue' \in Seq(ServerMessages)
    BY <1>3, <1>2, PushType, MessageTypes DEF GoodFrame
  <2> QED
    BY <1>3, <1>2, <2>1 DEF GoodFrame
<1>4. CASE AnalyzerThrows(c)
  BY <1>4, <1>2 DEF AnalyzerThrows
<1>5. CASE BadFrame(c)
  <2>1. userData' \in Rects
    BY <1>5, FramesAreRects DEF BadFrame, Rects
  <2> QED
    BY <1>5, <2>1 DEF BadFrame
<1>6. CASE CameraTake(c)
  <2>1. PICK n \in 0..Len(camQueue[c]) : Show(c, n)
    BY <1>6 DEF CameraTake
  <2>2. camQueue[c] \in Seq(CameraMessages)
    OBVIOUS
  <2>3. userData' \in Rects
    <3>1. CASE n = 0 \/ invalid[c]
      BY <2>1, <3>1 DEF Show
    <3>2. CASE ~(n = 0 \/ invalid[c])
      <4>1. camQueue[c][n] \in CameraMessages
        BY <2>1, <2>2, <3>2
      <4>2. camQueue[c][n].rects[c] \in 0..MaxFrames
        BY <4>1, MessageFields DEF Rects
      <4> QED
        BY <2>1, <3>2, <4>2 DEF Show, Rects
    <3> QED
      BY <3>1, <3>2
  <2>4. camQueue' \in [Cameras -> Seq(CameraMessages)]
    BY <1>6 DEF CameraTake
  <2> QED
    BY <1>6, <2>3, <2>4 DEF CameraTake
<1> QED
  BY <1>1, <1>3, <1>4, <1>5, <1>6

LEMMA HallKeepsType ==
    ASSUME TypeInv, HallTake \/ HandleSetCamera \/ HandleRequest \/ HallThrows
    PROVE  TypeInv'
<1> USE DEF TypeInv, BatchAtHand, TypeOK, notHall, camVars, launchVars, HallLabels, Handled
<1>1. CASE HallTake
  <2>1. CASE hallWork
    BY <1>1, <2>1 DEF HallTake
  <2>2. CASE ~hallWork
    BY <1>1, <2>2 DEF HallTake
  <2> QED
    BY <2>1, <2>2
<1>2. ASSUME NEW m \in HallMessages, m.type = "HallSetCamera"
      PROVE  [hallSeen EXCEPT ![m.camera] = m.frame] \in Rects
  BY <1>2, MessageFields, FramesAreRects DEF Rects
<1>3. ASSUME hallPc = "Batch"
      PROVE  /\ Head(hallBatch) \in HallMessages /\ Tail(hallBatch) \in Seq(HallMessages)
             /\ Len(hallBatch) # 1 => Tail(hallBatch) # <<>>
  BY <1>3, HeadTail
<1>4. CASE HandleSetCamera
  BY <1>2, <1>3, <1>4 DEF HandleSetCamera
<1>5. CASE HandleRequest
  <2>1. PICK moving \in SUBSET {d \in Cameras : hallSeen[d] > 0} :
           serverQueue' = Push(serverQueue, HallResponse(
              [d \in Cameras |-> IF d \in moving THEN hallSeen[d] ELSE 0]))
    BY <1>5 DEF HandleRequest
  <2>2. [d \in Cameras |-> IF d \in moving THEN hallSeen[d] ELSE 0] \in Rects
    BY FramesAreRects DEF Rects
  <2>3. serverQueue' \in Seq(ServerMessages)
    BY <2>1, <2>2, PushType, MessageTypes
  <2> QED
    BY <1>3, <1>5, <2>3 DEF HandleRequest
<1>6. CASE HallThrows
  <2>1. hallSeen' \in Rects
    BY <1>2, <1>3, <1>6 DEF HallThrows
  <2> QED
    BY <1>6, <2>1 DEF HallThrows
<1> QED
  BY <1>1, <1>4, <1>5, <1>6

LEMMA DropCameraType ==
    ASSUME TypeOK, NEW c \in Cameras, DropCamera(c)
    PROVE  /\ camPc' \in [Cameras -> CamLabels]
           /\ camWork' \in [Cameras -> BOOLEAN]
           /\ camQueue' \in [Cameras -> Seq(CameraMessages)]
           /\ camSeq' \in Rects /\ userData' \in Rects
           /\ invalid' \in [Cameras -> BOOLEAN]
<1> USE DEF TypeOK, CamLabels
<1>1. [userData EXCEPT ![c] = 0] \in Rects
  BY FramesAreRects DEF Rects
<1>2. CASE CameraRuns(c)
  BY <1>2 DEF DropCamera
<1>3. CASE ~CameraRuns(c)
  <2>1. [camQueue EXCEPT ![c] = <<>>] \in [Cameras -> Seq(CameraMessages)]
    OBVIOUS
  <2>2. /\ [camPc EXCEPT ![c] = "Absent"] \in [Cameras -> CamLabels]
        /\ [invalid EXCEPT ![c] = FALSE] \in [Cameras -> BOOLEAN]
    OBVIOUS
  <2> QED
    BY <1>1, <1>3, <2>1, <2>2 DEF DropCamera
<1> QED
  BY <1>2, <1>3

\* The main thread outside a launch.
LEMMA MainKeepsType ==
    ASSUME TypeInv,
           \/ MainTake \/ HandleCameraResponse \/ HandleHallResponse
           \/ GatheringTick \/ NoTick \/ ConnectionTick
    PROVE  TypeInv'
<1> USE DEF TypeInv, BatchAtHand, TypeOK, notMain, camVars, launchVars, MainLabels
<1>1. CASE MainTake
  <2>1. CASE mainWork
    BY <1>1, <2>1 DEF MainTake
  <2>2. CASE ~mainWork
    BY <1>1, <2>2 DEF MainTake
  <2> QED
    BY <2>1, <2>2
<1>2. ASSUME mainPc = "Batch"
      PROVE  /\ Head(mainBatch) \in ServerMessages /\ Tail(mainBatch) \in Seq(ServerMessages)
             /\ Len(mainBatch) # 1 => Tail(mainBatch) # <<>>
  BY <1>2, HeadTail
<1>3. CASE HandleCameraResponse
  <2>1. HallSetCamera(Head(mainBatch).camera, Head(mainBatch).frame) \in HallMessages
    BY <1>2, <1>3, MessageFields, MessageTypes DEF HandleCameraResponse
  <2>2. hallQueue' \in Seq(HallMessages)
    BY <1>3, <2>1, PushType DEF HandleCameraResponse
  <2> QED
    BY <1>2, <1>3, <2>2 DEF HandleCameraResponse, MainHandled
<1>4. CASE HandleHallResponse
  <2>1. CameraSetHall(Head(mainBatch).rects) \in CameraMessages
    BY <1>2, <1>4, MessageFields, MessageTypes DEF HandleHallResponse
  <2>2. \A c \in Cameras : Push(camQueue[c], CameraSetHall(Head(mainBatch).rects))
                              \in Seq(CameraMessages)
    BY <2>1, PushType
  <2>3. camQueue' \in [Cameras -> Seq(CameraMessages)]
    BY <1>4, <2>2 DEF HandleHallResponse
  <2> QED
    BY <1>2, <1>4, <2>3 DEF HandleHallResponse, MainHandled, camRest
<1>5. CASE GatheringTick
  <2>1. hallQueue' \in Seq(HallMessages)
    BY <1>5, PushType, MessageTypes DEF GatheringTick
  <2> QED
    BY <1>5, <2>1 DEF GatheringTick
<1>6. CASE NoTick
  BY <1>6 DEF NoTick
<1>7. CASE ConnectionTick
  BY <1>7 DEF ConnectionTick
<1> QED
  BY <1>1, <1>3, <1>4, <1>5, <1>6, <1>7

LEMMA LaunchKeepsType ==
    ASSUME TypeInv,
           \/ Connect \/ NewCameraServer \/ DropOldCameras \/ NewHall
           \/ StartCameras \/ StartHall
    PROVE  TypeInv'
<1> USE DEF TypeInv, BatchAtHand, TypeOK, launchIdle, camVars, hallVars, MainLabels,
            LaunchContinues, LaunchFails, LaunchSucceeds
<1>1. CASE Connect
  BY <1>1 DEF Connect
<1>2. CASE NewCameraServer
  BY <1>2 DEF NewCameraServer
<1>3. CASE DropOldCameras
  <2>1. CASE InMap = {}
    BY <1>3, <2>1 DEF DropOldCameras
  <2>2. CASE InMap # {}
    <3>1. PICK c \in Cameras : DropCamera(c)
      BY <1>3, <2>2 DEF DropOldCameras, First, InMap
    <3>2. UNCHANGED <<mainPc, state, toStart, recorder, launchIdle, hallVars>>
      BY <1>3, <2>2 DEF DropOldCameras
    <3> QED
      BY <3>1, <3>2, DropCameraType
  <2> QED
    BY <2>1, <2>2
<1>4. CASE NewHall
  <2>1. /\ hallSeen' \in Rects /\ hallQueue' \in Seq(HallMessages)
        /\ toStart' \subseteq Cameras /\ recorder' \in BOOLEAN
        /\ hallPc' \in HallLabels /\ hallPc' = "NoThread"
    BY <1>4, FramesAreRects DEF NewHall, HallLabels
  <2>2. /\ mainPc' \in {"Take", "StartCameras"}
        /\ state' \in {"FirstTime", "DBConnection", "Gathering"}
    BY <1>4 DEF NewHall
  <2> QED
    BY <1>4, <2>1, <2>2 DEF NewHall
<1>5. CASE StartCameras
  <2>1. CASE toStart = {}
    BY <1>5, <2>1 DEF StartCameras
  <2>2. CASE toStart # {}
    <3>1. PICK c \in Cameras : StartCamera(c)
      BY <1>5, <2>2 DEF StartCameras, First
    <3>2. camPc' \in [Cameras -> CamLabels] /\ camWork' \in [Cameras -> BOOLEAN]
      BY <3>1, FlagAssumption DEF StartCamera, CamLabels
    <3>3. mainPc' \in {"Take", "StartCameras"}
          /\ state' \in {"FirstTime", "DBConnection", "Gathering"}
          /\ toStart' \subseteq Cameras
      BY <3>1 DEF StartCamera
    <3>4. UNCHANGED <<camQueue, camSeq, invalid, userData>>
      BY <3>1 DEF StartCamera
    <3> QED
      BY <1>5, <3>2, <3>3, <3>4 DEF StartCameras
  <2> QED
    BY <2>1, <2>2
<1>6. CASE StartHall
  <2>1. /\ hallPc' \in HallLabels /\ (hallPc' = hallPc \/ hallPc' = "Take")
        /\ hallWork' \in BOOLEAN
        /\ hallAnalyzer' \in {"none", "stub", "real", "deleted"}
    BY <1>6, FlagAssumption DEF StartHall, HallLabels
  <2>2. mainPc' = "Take" /\ state' \in {"FirstTime", "DBConnection", "Gathering"}
    BY <1>6 DEF StartHall
  <2> QED
    BY <1>6, <2>1, <2>2 DEF StartHall
<1> QED
  BY <1>1, <1>2, <1>3, <1>4, <1>5, <1>6

LEMMA OwnerKeepsType ==
    ASSUME TypeInv,
           \/ BeginShutdown \/ MainJoined \/ DropRecorder \/ DeleteAnalyzer
           \/ StopHall \/ HallJoined \/ DropCameras
    PROVE  TypeInv'
<1> USE DEF TypeInv, BatchAtHand, TypeOK, ownerIdle, camVars, hallVars, OwnerLabels
<1>1. CASE BeginShutdown
  BY <1>1 DEF BeginShutdown
<1>2. CASE MainJoined
  BY <1>2 DEF MainJoined
<1>3. CASE DropRecorder
  BY <1>3 DEF DropRecorder
<1>4. CASE DeleteAnalyzer
  BY <1>4 DEF DeleteAnalyzer
<1>5. CASE StopHall
  BY <1>5 DEF StopHall
<1>6. CASE HallJoined
  BY <1>6 DEF HallJoined, HallLabels
<1>7. CASE DropCameras
  <2>1. CASE InMap = {}
    BY <1>7, <2>1 DEF DropCameras
  <2>2. CASE InMap # {}
    <3>1. PICK c \in Cameras : DropCamera(c)
      BY <1>7, <2>2 DEF DropCameras, First, InMap
    <3> QED
      BY <1>7, <2>2, <3>1, DropCameraType DEF DropCameras
  <2> QED
    BY <2>1, <2>2
<1> QED
  BY <1>1, <1>2, <1>3, <1>4, <1>5, <1>6, <1>7

LEMMA IdleKeepsType == TypeInv /\ UNCHANGED vars => TypeInv'
  BY DEF TypeInv, BatchAtHand, TypeOK, vars, camVars, hallVars, mainVars, launchVars

LEMMA StepKeepsType == TypeInv /\ [Next]_vars => TypeInv'
  BY NextCases, CameraKeepsType, HallKeepsType, MainKeepsType, LaunchKeepsType,
     OwnerKeepsType, IdleKeepsType

LEMMA TypeInvariance == Spec => []TypeInv
  BY InitType, StepKeepsType, PTL DEF Spec

\* The variables keep their types for every set of cameras and every bound: no
\* message arrives at a queue whose thread has no handler for it.
THEOREM TypeCorrect == Spec => []TypeOK
<1>1. TypeInv => TypeOK
  BY DEF TypeInv
<1> QED
  BY <1>1, TypeInvariance, PTL

=============================================================================
