---------------------------- MODULE EngineSafety ----------------------------
(***************************************************************************)
(* The safety of Engine, for every set of cameras and every bound: order   *)
(* of launch and destruction, bounded queues, images without a signal.     *)
(***************************************************************************)
EXTENDS EngineProofs, FiniteSetTheorems

----------------------------------------------------------------------------
(* Launch and destruction.                                                 *)

LaunchLabels == {"Connect", "NewCameraServer", "DropOldCameras", "NewHall",
                 "StartCameras", "StartHall"}

KindIn(q, k) == \E i \in DOMAIN q : q[i].type = k
AnswersIn(q) == KindIn(q, "HallResponse")

\* The members go after the main thread has ended, the cameras last.
GoneInOrder ==
    /\ owner \notin {"Up", "JoinMain"} => mainPc = "Off"
    /\ owner = "Down" => InMap = {}
    /\ HallRuns => owner \notin {"DropCameras", "Down"}

\* A launch never runs next to a working hall, nor with answers of one on
\* their way.
OneLaunch ==
    /\ mainPc \in LaunchLabels => state # "Gathering"
    /\ HallRuns => state = "Gathering"
    /\ AnswersIn(serverQueue) \/ AnswersIn(mainBatch) => state = "Gathering"

\* The record is there from the launch to the end of the main thread.
RecorderKept ==
    /\ mainPc \in {"StartCameras", "StartHall"} => recorder
    /\ state = "Gathering" /\ owner \in {"Up", "JoinMain", "DropRecorder"} => recorder

ControlInv == TypeInv /\ GoneInOrder /\ OneLaunch /\ RecorderKept /\ RelaunchFromScratch


\* Push adds no kind of message but that of the one pushed, and Tail adds none.
LEMMA KindPushed ==
    ASSUME NEW S, NEW q \in Seq(S), NEW m \in S, NEW k, KindIn(Push(q, m), k)
    PROVE  KindIn(q, k) \/ m.type = k
<1>1. Len(q) \in Nat /\ MaxSize \in Nat
  BY MaxSizeAssumption
<1>2. \A i \in DOMAIN Push(q, m) : Push(q, m)[i] = m \/ \E j \in DOMAIN q : Push(q, m)[i] = q[j]
  <2>1. CASE MaxSize < Len(q)
    <3>1. Push(q, m) = Append(Tail(q), m) /\ Tail(q) \in Seq(S) /\ Len(Tail(q)) = Len(q) - 1
      BY <1>1, <2>1 DEF Push
    <3>2. \A i \in 1..Len(Tail(q)) : i + 1 \in DOMAIN q /\ Tail(q)[i] = q[i + 1]
      BY <1>1, <2>1, <3>1
    <3>3. \A i \in DOMAIN Append(Tail(q), m) :
             Append(Tail(q), m)[i] = m \/ (i \in 1..Len(Tail(q)) /\ Append(Tail(q), m)[i] = Tail(q)[i])
      BY <3>1
    <3> QED
      BY <3>1, <3>2, <3>3
  <2>2. CASE ~(MaxSize < Len(q))
    BY <1>1, <2>2 DEF Push
  <2> QED
    BY <2>1, <2>2
<1> QED
  BY <1>2 DEF KindIn

LEMMA KindTail ==
    ASSUME NEW S, NEW q \in Seq(S), q # <<>>, NEW k, KindIn(Tail(q), k)
    PROVE  KindIn(q, k)
<1>1. Len(q) \in Nat /\ Len(q) > 0
  OBVIOUS
<1>2. \A i \in DOMAIN Tail(q) : i + 1 \in DOMAIN q /\ Tail(q)[i] = q[i + 1]
  BY <1>1
<1> QED
  BY <1>2 DEF KindIn

LEMMA InitControl == Init => ControlInv
<1> SUFFICES ASSUME Init PROVE ControlInv
  OBVIOUS
<1>1. ~AnswersIn(<<>>)
  BY DEF AnswersIn, KindIn
<1> QED
  BY <1>1, InitType DEF Init, ControlInv, GoneInOrder, OneLaunch, RecorderKept,
     RelaunchFromScratch, HallRuns, LaunchLabels

\* A camera's thread comes and goes with its entry in the map, and sends no
\* answers of the hall.
LEMMA CameraKeepsControl ==
    ASSUME ControlInv, NEW c \in Cameras,
           \/ CameraStops(c) \/ GoodFrame(c) \/ AnalyzerThrows(c) \/ BadFrame(c)
           \/ CameraTake(c)
    PROVE  GoneInOrder' /\ OneLaunch' /\ RecorderKept' /\ RelaunchFromScratch'
<1>1. /\ camPc[c] \in {"Image", "Take"} /\ camPc' \in [Cameras -> CamLabels]
      /\ camPc' = camPc \/ camPc' = [camPc EXCEPT ![c] = "Off"]
         \/ camPc' = [camPc EXCEPT ![c] = "Take"] \/ camPc' = [camPc EXCEPT ![c] = "Image"]
  BY CameraKeepsType DEF ControlInv, TypeInv, TypeOK, CameraStops, GoodFrame, AnalyzerThrows,
     BadFrame, CameraTake, GoTo, Reads
<1>2. \A d \in Cameras : camPc'[d] = "Absent" <=> camPc[d] = "Absent"
  BY <1>1 DEF ControlInv, TypeInv, TypeOK
<1>3. InMap' = InMap
  BY <1>2 DEF InMap
<1>4. UNCHANGED <<hallPc, mainPc, mainBatch, state, recorder, toStart, owner>>
  BY DEF notCamera, hallVars, launchVars, CameraStops, GoodFrame, AnalyzerThrows,
     BadFrame, CameraTake
<1>5. AnswersIn(serverQueue') => AnswersIn(serverQueue)
  <2>1. CASE UNCHANGED serverQueue
    BY <2>1
  <2>2. CASE GoodFrame(c) /\ serverQueue' = Push(serverQueue, CameraResponse(c, camSeq[c] + 1))
    <3>1. CameraResponse(c, camSeq[c] + 1) \in ServerMessages
      BY <2>2, BoundsAssumption, MessageTypes
         DEF GoodFrame, NewFrame, ControlInv, TypeInv, TypeOK, Rects, Frames
    <3>2. CameraResponse(c, camSeq[c] + 1).type # "HallResponse"
      BY DEF CameraResponse
    <3> QED
      BY <2>2, <3>1, <3>2, KindPushed DEF AnswersIn, ControlInv, TypeInv, TypeOK
  <2> QED
    BY <2>1, <2>2 DEF CameraStops, GoodFrame, AnalyzerThrows, BadFrame, CameraTake
<1> QED
  BY <1>2, <1>3, <1>4, <1>5 DEF ControlInv, GoneInOrder, OneLaunch, RecorderKept,
     RelaunchFromScratch, HallRuns, TypeInv, TypeOK

LEMMA HallKeepsControl ==
    ASSUME ControlInv, HallTake \/ HandleSetCamera \/ HandleRequest \/ HallThrows
    PROVE  GoneInOrder' /\ OneLaunch' /\ RecorderKept' /\ RelaunchFromScratch'
<1>1. HallRuns
  BY DEF HallRuns, HallTake, HandleSetCamera, HandleRequest, HallThrows
<1>2. UNCHANGED <<camPc, mainPc, mainBatch, state, recorder, toStart, owner>>
  BY DEF notHall, camVars, launchVars, HallTake, HandleSetCamera, HandleRequest, HallThrows
<1>3. mainPc # "NewHall"
  BY <1>1 DEF ControlInv, OneLaunch, LaunchLabels
<1> QED
  BY <1>1, <1>2, <1>3 DEF ControlInv, GoneInOrder, OneLaunch, RecorderKept,
     RelaunchFromScratch, InMap

\* Steps of the main thread outside a launch.
LEMMA MainKeepsControl ==
    ASSUME ControlInv,
           \/ MainTake \/ HandleCameraResponse \/ HandleHallResponse
           \/ GatheringTick \/ NoTick \/ ConnectionTick
    PROVE  GoneInOrder' /\ OneLaunch' /\ RecorderKept' /\ RelaunchFromScratch'
<1>1. UNCHANGED <<camPc, hallPc, state, recorder, toStart, owner>>
  BY DEF notMain, camVars, camRest, launchVars, MainTake, HandleCameraResponse,
     HandleHallResponse, GatheringTick, NoTick, ConnectionTick, MainHandled
<1>2. mainPc # "Off"
  BY DEF MainTake, HandleCameraResponse, HandleHallResponse, GatheringTick, NoTick,
     ConnectionTick
<1>3. mainPc' \in {"Take", "Batch", "Post", "Off"} \/ (mainPc' = "Connect" /\ state # "Gathering")
  BY DEF MainTake, HandleCameraResponse, HandleHallResponse, GatheringTick, NoTick,
     ConnectionTick, MainHandled
<1>4. AnswersIn(serverQueue') \/ AnswersIn(mainBatch')
         => AnswersIn(serverQueue) \/ AnswersIn(mainBatch)
  <2>1. CASE MainTake
    <3>1. ~AnswersIn(<<>>)
      BY DEF AnswersIn, KindIn
    <3> QED
      BY <2>1, <3>1 DEF MainTake
  <2>2. CASE HandleCameraResponse \/ HandleHallResponse
    <3>1. /\ serverQueue' = serverQueue /\ mainBatch' = Tail(mainBatch)
          /\ mainBatch # <<>> /\ mainBatch \in Seq(ServerMessages)
      BY <2>2 DEF HandleCameraResponse, HandleHallResponse, MainHandled, ControlInv,
         TypeInv, TypeOK, BatchAtHand
    <3> QED
      BY <3>1, KindTail DEF AnswersIn
  <2>3. CASE GatheringTick \/ NoTick \/ ConnectionTick
    BY <2>3 DEF GatheringTick, NoTick, ConnectionTick
  <2> QED
    BY <2>1, <2>2, <2>3
<1> QED
  BY <1>1, <1>2, <1>3, <1>4 DEF ControlInv, GoneInOrder, OneLaunch, RecorderKept,
     RelaunchFromScratch, HallRuns, InMap, LaunchLabels

LEMMA LaunchKeepsControl ==
    ASSUME ControlInv,
           \/ Connect \/ NewCameraServer \/ DropOldCameras \/ NewHall
           \/ StartCameras \/ StartHall
    PROVE  GoneInOrder' /\ OneLaunch' /\ RecorderKept' /\ RelaunchFromScratch'
<1>1. /\ mainPc \in LaunchLabels /\ mainPc # "Off" /\ state # "Gathering"
      /\ owner' = owner /\ owner \in {"Up", "JoinMain"}
      /\ ~HallRuns /\ ~AnswersIn(serverQueue') /\ ~AnswersIn(mainBatch')
  BY DEF ControlInv, OneLaunch, GoneInOrder, LaunchLabels, launchIdle, Connect,
     NewCameraServer, DropOldCameras, NewHall, StartCameras, StartHall
<1>2. owner # "Down" /\ owner \notin {"DropCameras", "Down"}
  BY <1>1
<1> USE DEF GoneInOrder, OneLaunch, RecorderKept, LaunchLabels, LaunchContinues,
            LaunchFails, LaunchSucceeds
<1>3. CASE Connect \/ NewCameraServer
  BY <1>1, <1>2, <1>3 DEF Connect, NewCameraServer, hallVars, HallRuns, RelaunchFromScratch
<1>4. CASE DropOldCameras
  <2>1. CASE InMap = {}
    BY <1>1, <1>2, <1>4, <2>1 DEF DropOldCameras, camVars, hallVars, InMap, HallRuns, RelaunchFromScratch
  <2>2. CASE InMap # {}
    BY <1>1, <1>2, <1>4, <2>2 DEF DropOldCameras, hallVars, HallRuns, RelaunchFromScratch
  <2> QED
    BY <2>1, <2>2
<1>5. CASE NewHall
  <2>1. \A c \in Cameras : camPc'[c] = "Absent"
    BY <1>5 DEF NewHall, camVars, ControlInv, RelaunchFromScratch, InMap
  <2>2. hallPc' = "NoThread" /\ recorder' /\ toStart' = Cameras
        /\ (mainPc' = "Take" \/ (mainPc' = "StartCameras" /\ state' = state))
    BY <1>5 DEF NewHall
  <2> QED
    BY <1>1, <1>2, <2>1, <2>2 DEF RelaunchFromScratch, HallRuns
<1>6. CASE StartCameras
  <2>1. CASE toStart = {}
    BY <1>1, <1>2, <1>6, <2>1 DEF StartCameras, hallVars, HallRuns, ControlInv, RelaunchFromScratch
  <2>2. CASE toStart # {}
    <3>1. PICK c \in Cameras : StartCamera(c)
      BY <1>6, <2>2 DEF StartCameras, First, ControlInv, TypeInv, TypeOK
    <3>2. toStart' = toStart \ {c} /\ \A d \in toStart' : camPc'[d] = camPc[d]
      BY <3>1 DEF StartCamera, ControlInv, TypeInv, TypeOK
    <3>3. \/ mainPc' = "StartCameras" /\ state' = state
          \/ mainPc' = "Take" /\ state' = "DBConnection"
      BY <3>1 DEF StartCamera
    <3>4. UNCHANGED <<recorder, hallPc>>
      BY <1>6 DEF StartCameras, hallVars
    <3>5. \A d \in toStart' : camPc'[d] = "Absent"
      BY <1>6, <3>2 DEF StartCameras, ControlInv, RelaunchFromScratch
    <3> QED
      BY <1>1, <1>2, <1>6, <3>3, <3>4, <3>5
         DEF StartCameras, HallRuns, ControlInv, RelaunchFromScratch
  <2> QED
    BY <2>1, <2>2
<1>7. CASE StartHall
  BY <1>1, <1>2, <1>7 DEF StartHall, HallRuns, ControlInv, RelaunchFromScratch
<1> QED
  BY <1>3, <1>4, <1>5, <1>6, <1>7

LEMMA OwnerKeepsControl ==
    ASSUME ControlInv,
           \/ BeginShutdown \/ MainJoined \/ DropRecorder \/ DeleteAnalyzer
           \/ StopHall \/ HallJoined \/ DropCameras
    PROVE  GoneInOrder' /\ OneLaunch' /\ RecorderKept' /\ RelaunchFromScratch'
<1> USE DEF GoneInOrder, OneLaunch, RecorderKept, LaunchLabels, ownerIdle
<1>1. CASE BeginShutdown
  BY <1>1 DEF BeginShutdown, camVars, hallVars, ControlInv, HallRuns, InMap, RelaunchFromScratch
<1>2. CASE MainJoined
  BY <1>2 DEF MainJoined, camVars, hallVars, ControlInv, HallRuns, InMap, RelaunchFromScratch
<1>3. CASE DropRecorder
  BY <1>3 DEF DropRecorder, camVars, hallVars, ControlInv, HallRuns, InMap, RelaunchFromScratch
<1>4. CASE DeleteAnalyzer \/ StopHall
  BY <1>4 DEF DeleteAnalyzer, StopHall, camVars, ControlInv, HallRuns, InMap, RelaunchFromScratch
<1>5. CASE HallJoined
  BY <1>5 DEF HallJoined, camVars, ControlInv, HallRuns, InMap, RelaunchFromScratch
<1>6. CASE DropCameras
  <2>1. /\ mainPc = "Off" /\ mainPc' = "Off" /\ ~HallRuns /\ ~HallRuns'
        /\ UNCHANGED <<state, serverQueue, mainBatch, recorder>>
    BY <1>6 DEF DropCameras, hallVars, ControlInv, HallRuns
  <2>2. owner' \in {"DropCameras", "Down"} /\ (owner' = "Down" => InMap' = {})
    BY <1>6 DEF DropCameras, camVars, InMap
  <2> QED
    BY <2>1, <2>2 DEF ControlInv, RelaunchFromScratch
<1> QED
  BY <1>1, <1>2, <1>3, <1>4, <1>5, <1>6

LEMMA IdleKeepsControl ==
    ASSUME ControlInv, UNCHANGED vars
    PROVE  GoneInOrder' /\ OneLaunch' /\ RecorderKept' /\ RelaunchFromScratch'
  BY DEF vars, camVars, hallVars, mainVars, launchVars, ControlInv, GoneInOrder, OneLaunch,
     RecorderKept, RelaunchFromScratch, HallRuns, InMap

LEMMA StepKeepsControl == ControlInv /\ [Next]_vars => ControlInv'
<1> SUFFICES ASSUME ControlInv, [Next]_vars PROVE ControlInv'
  OBVIOUS
<1>1. TypeInv'
  BY StepKeepsType DEF ControlInv
<1>2. GoneInOrder' /\ OneLaunch' /\ RecorderKept' /\ RelaunchFromScratch'
  BY NextCases, CameraKeepsControl, HallKeepsControl, MainKeepsControl, LaunchKeepsControl,
     OwnerKeepsControl, IdleKeepsControl
<1> QED
  BY <1>1, <1>2 DEF ControlInv

LEMMA ControlInvariance == Spec => []ControlInv
  BY InitControl, StepKeepsControl, PTL DEF Spec

\* A launch that is tried again starts nothing next to what an earlier attempt
\* left behind (ServerImpl.cpp:230-231, 250).
THEOREM RelaunchIsClean == Spec => []RelaunchFromScratch
<1>1. ControlInv => RelaunchFromScratch
  BY DEF ControlInv
<1> QED
  BY <1>1, ControlInvariance, PTL

\* An answer of the hall always finds the activity record to write to
\* (ServerImpl.cpp:103-107, 212-215).
THEOREM RecorderIsPresent == Spec => []RecorderPresent
<1>1. ControlInv => RecorderPresent
  <2> SUFFICES ASSUME ControlInv, mainPc = "Batch", Head(mainBatch).type = "HallResponse"
               PROVE  recorder
    BY DEF RecorderPresent
  <2>1. mainBatch # <<>> /\ mainBatch \in Seq(ServerMessages)
    BY DEF ControlInv, TypeInv, TypeOK, BatchAtHand
  <2>2. 1 \in DOMAIN mainBatch /\ Head(mainBatch) = mainBatch[1]
    BY <2>1
  <2>3. state = "Gathering"
    BY <2>2 DEF ControlInv, OneLaunch, AnswersIn, KindIn
  <2> QED
    BY <2>3 DEF ControlInv, RecorderKept, GoneInOrder
<1> QED
  BY <1>1, ControlInvariance, PTL

\* Nothing is destroyed before the threads that use it have ended
\* (ServerImpl.h:49-63, ServerImpl.cpp:103-107).
THEOREM UsersAreGone == Spec => []UsersGoFirst
<1>1. ControlInv => UsersGoFirst
  BY DEF ControlInv, GoneInOrder, UsersGoFirst, InMap, CameraRuns
<1> QED
  BY <1>1, ControlInvariance, PTL

----------------------------------------------------------------------------
(* The queues.                                                             *)

LEMMA StepKeepsBounds == TypeInv /\ QueuesBounded /\ [Next]_vars => QueuesBounded'
<1> SUFFICES ASSUME TypeInv, QueuesBounded, [Next]_vars PROVE QueuesBounded'
  OBVIOUS
<1> USE DEF QueuesBounded, TypeInv, TypeOK
<1>1. Len(<<>>) <= Capacity
  BY MaxSizeAssumption DEF Capacity
<1>2. ASSUME NEW c \in Cameras,
             CameraStops(c) \/ GoodFrame(c) \/ AnalyzerThrows(c) \/ BadFrame(c) \/ CameraTake(c)
      PROVE  QueuesBounded'
  <2>1. hallQueue' = hallQueue
    BY <1>2 DEF CameraStops, GoodFrame, AnalyzerThrows, BadFrame, CameraTake, notCamera, hallVars
  <2>2. camQueue' = camQueue \/ camQueue' = [camQueue EXCEPT ![c] = <<>>]
    BY <1>2 DEF CameraStops, GoodFrame, AnalyzerThrows, BadFrame, CameraTake
  <2>3. Len(serverQueue') <= Capacity
    <3>1. CASE UNCHANGED serverQueue
      BY <3>1
    <3>2. CASE GoodFrame(c) /\ serverQueue' = Push(serverQueue, CameraResponse(c, camSeq[c] + 1))
      <4>1. CameraResponse(c, camSeq[c] + 1) \in ServerMessages
        BY <3>2, BoundsAssumption, MessageTypes DEF GoodFrame, NewFrame, Rects, Frames
      <4> QED
        BY <3>2, <4>1, PushLength
    <3> QED
      BY <1>2, <3>1, <3>2 DEF CameraStops, GoodFrame, AnalyzerThrows, BadFrame, CameraTake
  <2> QED
    BY <1>1, <2>1, <2>2, <2>3
<1>3. CASE HallTake \/ HandleSetCamera \/ HandleRequest \/ HallThrows
  <2>1. UNCHANGED camQueue /\ (hallQueue' = hallQueue \/ hallQueue' = <<>>)
    BY <1>3 DEF HallTake, HandleSetCamera, HandleRequest, HallThrows, notHall, camVars
  <2>2. Len(serverQueue') <= Capacity
    <3>1. CASE UNCHANGED serverQueue
      BY <3>1
    <3>2. CASE HandleRequest
      <4>1. PICK moving \in SUBSET {d \in Cameras : hallSeen[d] > 0} :
               serverQueue' = Push(serverQueue, HallResponse(
                  [d \in Cameras |-> IF d \in moving THEN hallSeen[d] ELSE 0]))
        BY <3>2 DEF HandleRequest
      <4>2. [d \in Cameras |-> IF d \in moving THEN hallSeen[d] ELSE 0] \in Rects
        BY FramesAreRects DEF Rects
      <4> QED
        BY <4>1, <4>2, PushLength, MessageTypes
    <3> QED
      BY <1>3, <3>1, <3>2 DEF HallTake, HandleSetCamera, HallThrows
  <2> QED
    BY <1>1, <2>1, <2>2
<1>4. CASE HandleCameraResponse
  <2>1. HallSetCamera(Head(mainBatch).camera, Head(mainBatch).frame) \in HallMessages
    BY <1>4, HeadTail, MessageFields, MessageTypes DEF HandleCameraResponse, BatchAtHand
  <2> QED
    BY <1>4, <2>1, PushLength DEF HandleCameraResponse, MainHandled, camVars
<1>5. CASE HandleHallResponse
  <2>1. CameraSetHall(Head(mainBatch).rects) \in CameraMessages
    BY <1>5, HeadTail, MessageFields, MessageTypes DEF HandleHallResponse, BatchAtHand
  <2>2. \A c \in Cameras : Len(Push(camQueue[c], CameraSetHall(Head(mainBatch).rects))) <= Capacity
    BY <2>1, PushLength
  <2> QED
    BY <1>5, <2>2 DEF HandleHallResponse, MainHandled
<1>6. CASE GatheringTick
  BY <1>6, PushLength, MessageTypes DEF GatheringTick, camVars
<1>7. CASE MainTake \/ NoTick \/ ConnectionTick \/ Connect \/ NewCameraServer
  BY <1>1, <1>7 DEF MainTake, NoTick, ConnectionTick, Connect, NewCameraServer, camVars,
     hallVars, launchIdle
<1>8. ASSUME NEW c \in Cameras, DropCamera(c)
      PROVE  \A d \in Cameras : Len(camQueue'[d]) <= Capacity
  BY <1>1, <1>8 DEF DropCamera
<1>9. CASE DropOldCameras \/ DropCameras
  <2>1. UNCHANGED <<hallQueue, serverQueue>>
    BY <1>9 DEF DropOldCameras, DropCameras, hallVars, launchIdle, ownerIdle
  <2>2. UNCHANGED camQueue \/ \E c \in Cameras : DropCamera(c)
    BY <1>9 DEF DropOldCameras, DropCameras, First, InMap, camVars
  <2> QED
    BY <1>8, <2>1, <2>2
<1>10. CASE NewHall \/ StartHall
  BY <1>1, <1>10 DEF NewHall, StartHall, camVars, launchIdle
<1>11. CASE StartCameras
  BY <1>11 DEF StartCameras, StartCamera, First, camVars, hallVars, launchIdle
<1>12. CASE BeginShutdown \/ MainJoined \/ DropRecorder \/ DeleteAnalyzer \/ StopHall \/ HallJoined
  BY <1>1, <1>12 DEF BeginShutdown, MainJoined, DropRecorder, DeleteAnalyzer, StopHall,
     HallJoined, ownerIdle, camVars, hallVars
<1>13. CASE UNCHANGED vars
  BY <1>13 DEF vars, camVars, hallVars, mainVars
<1> QED
  BY <1>2, <1>3, <1>4, <1>5, <1>6, <1>7, <1>9, <1>10, <1>11, <1>12, <1>13, NextCases

\* No queue outgrows its limit, also when nobody empties it
\* (MessageQueue.h:40-48, HallThread.cpp:62-69, CameraThread.cpp:56-61).
THEOREM QueuesAreBounded == Spec => []QueuesBounded
<1>1. Init => QueuesBounded
  BY MaxSizeAssumption DEF Init, QueuesBounded, Capacity
<1> QED
  BY <1>1, TypeInvariance, StepKeepsBounds, PTL DEF Spec

----------------------------------------------------------------------------
(* Images without a signal.                                                *)

LEMMA StepKeepsSignal == TypeInv /\ NoRectsWithoutSignal /\ [Next]_vars => NoRectsWithoutSignal'
<1> SUFFICES ASSUME TypeInv, NoRectsWithoutSignal, [Next]_vars PROVE NoRectsWithoutSignal'
  OBVIOUS
<1> USE DEF NoRectsWithoutSignal, TypeInv, TypeOK
<1>1. ASSUME NEW c \in Cameras, CameraStops(c)
      PROVE  NoRectsWithoutSignal'
  BY <1>1 DEF CameraStops
<1>2. ASSUME NEW c \in Cameras, GoodFrame(c) \/ AnalyzerThrows(c)
      PROVE  NoRectsWithoutSignal'
  BY <1>2 DEF GoodFrame, AnalyzerThrows, NewFrame
<1>3. ASSUME NEW c \in Cameras, BadFrame(c)
      PROVE  NoRectsWithoutSignal'
  <2>1. userData \in [Cameras -> 0..MaxFrames]
    BY DEF Rects
  <2> QED
    BY <1>3, <2>1 DEF BadFrame
<1>4. ASSUME NEW c \in Cameras, CameraTake(c)
      PROVE  NoRectsWithoutSignal'
  <2>1. invalid' = invalid /\ \E n \in 0..Len(camQueue[c]) : Show(c, n)
    BY <1>4 DEF CameraTake
  <2>2. CASE invalid[c]
    BY <2>1, <2>2 DEF Show
  <2>3. CASE ~invalid[c]
    <3>1. \A d \in Cameras : d # c => userData'[d] = userData[d]
      BY <2>1 DEF Show, Rects
    <3> QED
      BY <2>1, <2>3, <3>1
  <2> QED
    BY <2>2, <2>3
<1>5. ASSUME NEW c \in Cameras, DropCamera(c)
      PROVE  NoRectsWithoutSignal'
  BY <1>5 DEF DropCamera, Rects
<1>6. CASE DropOldCameras \/ DropCameras
  <2>1. UNCHANGED <<invalid, userData>> \/ \E c \in Cameras : DropCamera(c)
    BY <1>6 DEF DropOldCameras, DropCameras, First, InMap, camVars
  <2> QED
    BY <1>5, <2>1
<1>7. CASE StartCameras
  BY <1>7 DEF StartCameras, StartCamera, First, camVars
<1>8. CASE HallTake \/ HandleSetCamera \/ HandleRequest \/ HallThrows
  BY <1>8 DEF HallTake, HandleSetCamera, HandleRequest, HallThrows, notHall, camVars
<1>9. CASE \/ MainTake \/ HandleCameraResponse \/ HandleHallResponse
           \/ GatheringTick \/ NoTick \/ ConnectionTick
  BY <1>9 DEF MainTake, HandleCameraResponse, HandleHallResponse, GatheringTick, NoTick,
     ConnectionTick, camRest, camVars
<1>10. CASE Connect \/ NewCameraServer \/ NewHall \/ StartHall
  BY <1>10 DEF Connect, NewCameraServer, NewHall, StartHall, camVars
<1>11. CASE BeginShutdown \/ MainJoined \/ DropRecorder \/ DeleteAnalyzer \/ StopHall \/ HallJoined
  BY <1>11 DEF BeginShutdown, MainJoined, DropRecorder, DeleteAnalyzer, StopHall, HallJoined,
     camVars
<1>12. CASE UNCHANGED vars
  BY <1>12 DEF vars, camVars
<1> QED
  BY <1>1, <1>2, <1>3, <1>4, <1>6, <1>7, <1>8, <1>9, <1>10, <1>11, <1>12, NextCases

\* A camera that has lost its signal writes no rectangles into its video
\* (CameraThread.cpp:158-162, 195-204).
THEOREM SignalRespected == Spec => []NoRectsWithoutSignal
<1>1. Init => NoRectsWithoutSignal
  BY DEF Init, NoRectsWithoutSignal
<1> QED
  BY <1>1, TypeInvariance, StepKeepsSignal, PTL DEF Spec

----------------------------------------------------------------------------
(* What the three findings about the server come down to: each is the only *)
(* way in which the code's own words are broken.                           *)

\* The hall's thread works with the analyzer it was started with until the
\* destruction deletes it: between DeleteAnalyzer and the end of the thread,
\* and never else, the messages meet an analyzer that is gone
\* (HallThread.h:44, HallThread.cpp:62-75).
AnalyzerUntilDeleted == owner \notin {"StopHall", "JoinHall"} => HallAnalyzerAlive

\* The analyzer of a hall that runs is there until the destruction is at it.
AnalyzerKept == HallRuns => hallAnalyzer = "real" \/ owner \in {"StopHall", "JoinHall"}

LEMMA StepKeepsAnalyzer == ControlInv /\ AnalyzerKept /\ [Next]_vars => AnalyzerKept'
<1> SUFFICES ASSUME ControlInv, AnalyzerKept, [Next]_vars PROVE AnalyzerKept'
  OBVIOUS
<1> USE DEF AnalyzerKept, HallRuns
<1>1. ASSUME NEW c \in Cameras,
             CameraStops(c) \/ GoodFrame(c) \/ AnalyzerThrows(c) \/ BadFrame(c) \/ CameraTake(c)
      PROVE  AnalyzerKept'
  BY <1>1 DEF CameraStops, GoodFrame, AnalyzerThrows, BadFrame, CameraTake, notCamera, hallVars
<1>2. CASE HallTake \/ HandleSetCamera \/ HandleRequest \/ HallThrows
  BY <1>2 DEF HallTake, HandleSetCamera, HandleRequest, HallThrows, notHall
<1>3. CASE \/ MainTake \/ HandleCameraResponse \/ HandleHallResponse
           \/ GatheringTick \/ NoTick \/ ConnectionTick
  BY <1>3 DEF MainTake, HandleCameraResponse, HandleHallResponse, GatheringTick, NoTick,
     ConnectionTick, notMain
<1>4. CASE Connect \/ NewCameraServer \/ DropOldCameras \/ NewHall \/ StartCameras
  BY <1>4 DEF Connect, NewCameraServer, DropOldCameras, NewHall, StartCameras, hallVars,
     launchIdle
<1>5. CASE StartHall
  <2>1. mainPc \in LaunchLabels /\ ~HallRuns
    BY <1>5 DEF StartHall, LaunchLabels, ControlInv, OneLaunch
  <2> QED
    BY <1>5, <2>1 DEF StartHall
<1>6. CASE BeginShutdown \/ MainJoined \/ DropRecorder \/ DeleteAnalyzer \/ StopHall
  BY <1>6 DEF BeginShutdown, MainJoined, DropRecorder, DeleteAnalyzer, StopHall, hallVars
<1>7. CASE HallJoined \/ DropCameras
  BY <1>7 DEF HallJoined, DropCameras, hallVars
<1>8. CASE UNCHANGED vars
  BY <1>8 DEF vars, hallVars
<1> QED
  BY <1>1, <1>2, <1>3, <1>4, <1>5, <1>6, <1>7, <1>8, NextCases

\* Only the order in which ~HallThread takes its members apart leaves the
\* hall's thread with a deleted analyzer.
THEOREM AnalyzerOutlivesWork == Spec => []AnalyzerUntilDeleted
<1>1. Init => AnalyzerKept
  BY DEF Init, AnalyzerKept, HallRuns
<1>2. AnalyzerKept => AnalyzerUntilDeleted
  BY DEF AnalyzerKept, AnalyzerUntilDeleted, HallAnalyzerAlive, HallRuns
<1> QED
  BY <1>1, <1>2, StepKeepsAnalyzer, ControlInvariance, PTL DEF Spec

\* A thread that has ended, or that was told to end, is one its owner is about
\* to join: the main thread and the hall in the destruction, a camera when its
\* server is replaced or destroyed, where the cameras are told and joined one
\* at a time, in the order of the map (AnalyzeThread.h:40-57, ServerImpl.cpp:230).
EndsWhenTold ==
    /\ ~mainWork \/ mainPc = "Off" => owner # "Up"
    /\ (HallRuns /\ ~hallWork) \/ hallPc = "Off" => owner = "JoinHall"
    /\ \A c \in Cameras :
          (CameraRuns(c) /\ ~camWork[c]) \/ camPc[c] = "Off" =>
             /\ c \in First(InMap)
             /\ mainPc = "DropOldCameras" \/ owner = "DropCameras"

\* Dropping the first camera leaves no other that was told.
LEMMA DropTellsOne ==
    ASSUME TypeInv, EndsWhenTold, NEW c \in First(InMap), DropCamera(c)
    PROVE  \A d \in Cameras :
              (CameraRuns(d)' /\ ~camWork'[d]) \/ camPc'[d] = "Off" => d \in First(InMap)'
<1>1. c \in Cameras /\ c \in InMap /\ \A d \in InMap : c <= d
  BY DEF First, InMap
<1>2. \A d \in First(InMap) : d = c
  <2> SUFFICES ASSUME NEW d \in First(InMap) PROVE d = c
    OBVIOUS
  <2>1. c <= d /\ d <= c /\ c \in Nat /\ d \in Nat
    BY <1>1, CamerasAssumption DEF First, InMap
  <2> QED
    BY <2>1
<1>3. CASE CameraRuns(c) /\ camWork' = [camWork EXCEPT ![c] = FALSE] /\ camPc' = camPc
  BY <1>1, <1>2, <1>3 DEF TypeInv, TypeOK, EndsWhenTold, First, InMap, CameraRuns
<1>4. CASE camPc' = [camPc EXCEPT ![c] = "Absent"] /\ camWork' = camWork
  BY <1>1, <1>2, <1>4 DEF TypeInv, TypeOK, EndsWhenTold, First, InMap, CameraRuns
<1> QED
  BY <1>3, <1>4 DEF DropCamera

LEMMA StepKeepsEnds ==
    ASSUME FlagValues = {TRUE}, ControlInv, EndsWhenTold, [Next]_vars
    PROVE  EndsWhenTold'
<1> USE DEF ControlInv, TypeInv, TypeOK
<1>1. ASSUME NEW c \in Cameras,
             CameraStops(c) \/ GoodFrame(c) \/ AnalyzerThrows(c) \/ BadFrame(c) \/ CameraTake(c)
      PROVE  EndsWhenTold'
  <2>1. UNCHANGED <<mainPc, mainWork, hallPc, hallWork, owner, camWork>>
    BY <1>1 DEF CameraStops, GoodFrame, AnalyzerThrows, BadFrame, CameraTake, notCamera, hallVars
  <2>2. \/ ~camWork[c] /\ CameraRuns(c) /\ camPc' = [camPc EXCEPT ![c] = "Off"]
        \/ camWork[c] /\ camPc' = camPc
        \/ camWork[c] /\ CameraRuns(c) /\ camPc' = [camPc EXCEPT ![c] = "Take"]
        \/ CameraRuns(c) /\ camPc' = [camPc EXCEPT ![c] = "Image"]
    BY <1>1 DEF CameraStops, GoodFrame, AnalyzerThrows, BadFrame, CameraTake, GoTo, Reads, CameraRuns
  <2>3. \A d \in Cameras : camPc'[d] = "Absent" <=> camPc[d] = "Absent"
    BY <2>2 DEF CameraRuns
  <2>4. First(InMap)' = First(InMap)
    BY <2>3 DEF First, InMap
  <2>5. ASSUME NEW d \in Cameras, (CameraRuns(d)' /\ ~camWork[d]) \/ camPc'[d] = "Off"
        PROVE  (CameraRuns(d) /\ ~camWork[d]) \/ camPc[d] = "Off"
    BY <2>2, <2>5, <2>1 DEF CameraRuns
  <2> QED
    BY <2>1, <2>4, <2>5 DEF EndsWhenTold, HallRuns
<1>2. CASE HallTake \/ HandleSetCamera \/ HandleRequest \/ HallThrows
  <2>1. UNCHANGED <<mainPc, mainWork, hallWork, owner, camWork, camPc>> /\ HallRuns
    BY <1>2 DEF HallTake, HandleSetCamera, HandleRequest, HallThrows, notHall, camVars, HallRuns
  <2>2. hallPc' = "Off" => ~hallWork
    BY <1>2 DEF HallTake, HandleSetCamera, HandleRequest, HallThrows, Handled
  <2> QED
    BY <2>1, <2>2 DEF EndsWhenTold, HallRuns, InMap, First, CameraRuns
<1>3. CASE \/ MainTake \/ HandleCameraResponse \/ HandleHallResponse
           \/ GatheringTick \/ NoTick \/ ConnectionTick \/ Connect \/ NewCameraServer
  <2>1. UNCHANGED <<mainWork, hallPc, hallWork, owner, camWork, camPc>> /\ mainPc # "DropOldCameras"
    BY <1>3 DEF MainTake, HandleCameraResponse, HandleHallResponse, GatheringTick, NoTick,
       ConnectionTick, Connect, NewCameraServer, notMain, camVars, camRest, hallVars,
       launchIdle, MainHandled
  <2>2. mainPc' = "Off" => ~mainWork
    BY <1>3 DEF MainTake, HandleCameraResponse, HandleHallResponse, GatheringTick, NoTick,
       ConnectionTick, Connect, NewCameraServer, MainHandled, LaunchContinues, LaunchFails
  <2> QED
    BY <2>1, <2>2 DEF EndsWhenTold, HallRuns, InMap, First, CameraRuns
<1>4. CASE DropOldCameras
  <2>1. UNCHANGED <<mainWork, hallPc, hallWork, owner>> /\ mainPc' # "Off"
    BY <1>4 DEF DropOldCameras, hallVars, launchIdle, LaunchContinues
  <2>2. CASE InMap = {}
    BY <1>4, <2>1, <2>2 DEF DropOldCameras, camVars, EndsWhenTold, HallRuns, InMap, First, CameraRuns
  <2>3. CASE InMap # {}
    <3>1. mainPc' = "DropOldCameras" /\ \E c \in First(InMap) : DropCamera(c)
      BY <1>4, <2>3 DEF DropOldCameras
    <3> QED
      BY <2>1, <3>1, DropTellsOne DEF EndsWhenTold, HallRuns
  <2> QED
    BY <2>2, <2>3
<1>5. CASE NewHall \/ StartHall
  <2>1. /\ UNCHANGED <<mainWork, owner, camWork, camPc>>
        /\ mainPc # "DropOldCameras" /\ mainPc' # "Off"
    BY <1>5 DEF NewHall, StartHall, camVars, launchIdle, LaunchFails, LaunchSucceeds,
       LaunchContinues
  <2>2. /\ hallPc' = "Off" => hallPc = "Off"
        /\ HallRuns' => (HallRuns /\ hallWork' = hallWork) \/ hallWork'
    BY <1>5 DEF NewHall, StartHall, HallRuns
  <2>3. owner # "JoinHall"
    BY <1>5 DEF NewHall, StartHall, GoneInOrder
  <2> QED
    BY <2>1, <2>2, <2>3 DEF EndsWhenTold, HallRuns, InMap, First, CameraRuns
<1>6. CASE StartCameras
  <2>1. UNCHANGED <<mainWork, hallPc, hallWork, owner>> /\ mainPc' # "Off"
        /\ mainPc = "StartCameras" /\ owner # "DropCameras"
    BY <1>6 DEF StartCameras, hallVars, launchIdle, LaunchContinues, LaunchFails, StartCamera,
       GoneInOrder
  <2>2. \A d \in Cameras : ~(CameraRuns(d) /\ ~camWork[d]) /\ camPc[d] # "Off"
    BY <2>1 DEF EndsWhenTold
  <2>3. \/ UNCHANGED <<camPc, camWork>>
        \/ \E c \in Cameras : StartCamera(c)
    BY <1>6 DEF StartCameras, First, camVars
  <2>4. \A d \in Cameras : ~(CameraRuns(d)' /\ ~camWork'[d]) /\ camPc'[d] # "Off"
    <3>1. CASE UNCHANGED <<camPc, camWork>>
      BY <2>2, <3>1 DEF CameraRuns
    <3>2. ASSUME NEW c \in Cameras, StartCamera(c)
          PROVE  \A d \in Cameras : ~(CameraRuns(d)' /\ ~camWork'[d]) /\ camPc'[d] # "Off"
      <4>1. \/ UNCHANGED <<camPc, camWork>>
            \/ camPc' = [camPc EXCEPT ![c] = "NoThread"] /\ camWork' = camWork
            \/ camPc' = [camPc EXCEPT ![c] = "Image"] /\ camWork' = [camWork EXCEPT ![c] = TRUE]
        BY <3>2 DEF StartCamera
      <4> QED
        BY <2>2, <4>1 DEF CameraRuns
    <3> QED
      BY <2>3, <3>1, <3>2
  <2> QED
    BY <2>1, <2>4 DEF EndsWhenTold, HallRuns
<1>7. CASE BeginShutdown \/ MainJoined \/ DropRecorder \/ DeleteAnalyzer \/ StopHall \/ HallJoined
  <2>1. UNCHANGED <<mainPc, camPc, camWork>> /\ owner' \notin {"Up"}
    BY <1>7 DEF BeginShutdown, MainJoined, DropRecorder, DeleteAnalyzer, StopHall, HallJoined,
       ownerIdle, camVars
  <2>2. (HallRuns' /\ ~hallWork') \/ hallPc' = "Off" => owner' = "JoinHall"
    BY <1>7 DEF BeginShutdown, MainJoined, DropRecorder, DeleteAnalyzer, StopHall, HallJoined,
       hallVars, HallRuns, EndsWhenTold
  <2>3. owner # "DropCameras"
    BY <1>7 DEF BeginShutdown, MainJoined, DropRecorder, DeleteAnalyzer, StopHall, HallJoined
  <2> QED
    BY <2>1, <2>2, <2>3 DEF EndsWhenTold, InMap, First, CameraRuns, HallRuns
<1>8. CASE DropCameras
  <2>1. UNCHANGED <<mainPc, mainWork, hallPc, hallWork>> /\ owner' # "Up" /\ owner # "JoinHall"
    BY <1>8 DEF DropCameras, hallVars, ownerIdle
  <2>2. CASE InMap = {}
    BY <1>8, <2>1, <2>2 DEF DropCameras, camVars, EndsWhenTold, HallRuns, InMap, First, CameraRuns
  <2>3. CASE InMap # {}
    <3>1. owner' = "DropCameras" /\ \E c \in First(InMap) : DropCamera(c)
      BY <1>8, <2>3 DEF DropCameras
    <3> QED
      BY <2>1, <3>1, DropTellsOne DEF EndsWhenTold, HallRuns
  <2> QED
    BY <2>2, <2>3
<1>9. CASE UNCHANGED vars
  BY <1>9 DEF vars, camVars, hallVars, mainVars, EndsWhenTold, HallRuns, InMap, First, CameraRuns
<1> QED
  BY <1>1, <1>2, <1>3, <1>4, <1>5, <1>6, <1>7, <1>8, <1>9, NextCases

\* But for the flag that is never initialised, every thread of the server works
\* until it is told to end (AnalyzeThread.h:40, AnalyzeThread.cpp:10-31).
THEOREM OnlyTheFlagEndsThreads ==
    ASSUME FlagValues = {TRUE}
    PROVE  Spec => []EndsWhenTold /\ []WorksUntilTold
<1>1. Init => EndsWhenTold
  BY DEF Init, EndsWhenTold, HallRuns, CameraRuns
<1>2. ControlInv /\ EndsWhenTold /\ [Next]_vars => EndsWhenTold'
  BY StepKeepsEnds
<1>3. EndsWhenTold => WorksUntilTold
  BY DEF EndsWhenTold, WorksUntilTold
<1> QED
  BY <1>1, <1>2, <1>3, ControlInvariance, PTL DEF Spec

\* A launch that fails after it has begun to start the cameras.
LateFailure ==
    mainPc \in {"StartCameras", "StartHall"} /\ mainPc' = "Take" /\ state' = "DBConnection"

ResponsesIn(q) == KindIn(q, "CameraResponse")

\* Before the first launch that succeeds there is no camera, nor anything of
\* one, but while it starts them.
QuietBefore ==
    state # "Gathering" =>
        /\ ~ResponsesIn(mainBatch)
        /\ mainPc \notin {"StartCameras", "StartHall"} => InMap = {} /\ ~ResponsesIn(serverQueue)

LEMMA StepKeepsQuiet ==
    ASSUME ControlInv, QuietBefore, [Next]_vars, ~LateFailure
    PROVE  QuietBefore'
<1> USE DEF QuietBefore
<1>1. ASSUME NEW c \in Cameras,
             CameraStops(c) \/ GoodFrame(c) \/ AnalyzerThrows(c) \/ BadFrame(c) \/ CameraTake(c)
      PROVE  QuietBefore'
  <2>1. UNCHANGED <<mainPc, mainBatch, state>>
    BY <1>1 DEF CameraStops, GoodFrame, AnalyzerThrows, BadFrame, CameraTake, notCamera, launchVars
  <2>2. c \in InMap
    BY <1>1 DEF CameraStops, GoodFrame, AnalyzerThrows, BadFrame, CameraTake, Reads, InMap
  <2> QED
    BY <2>1, <2>2
<1>2. CASE HallTake \/ HandleSetCamera \/ HandleRequest \/ HallThrows
  <2>1. HallRuns /\ UNCHANGED state
    BY <1>2 DEF HallTake, HandleSetCamera, HandleRequest, HallThrows, notHall, launchVars, HallRuns
  <2> QED
    BY <2>1 DEF ControlInv, OneLaunch
<1>3. CASE MainTake
  <2>1. ~ResponsesIn(<<>>)
    BY DEF ResponsesIn, KindIn
  <2> QED
    BY <1>3, <2>1 DEF MainTake, launchVars, camVars, InMap, ResponsesIn, KindIn
<1>4. CASE HandleCameraResponse \/ HandleHallResponse
  <2>1. /\ mainBatch' = Tail(mainBatch) /\ mainBatch # <<>> /\ mainBatch \in Seq(ServerMessages)
        /\ UNCHANGED <<state, serverQueue, camPc>> /\ mainPc = "Batch"
    BY <1>4 DEF HandleCameraResponse, HandleHallResponse, MainHandled, launchVars, camVars,
       camRest, ControlInv, TypeInv, TypeOK, BatchAtHand
  <2>2. ResponsesIn(mainBatch') => ResponsesIn(mainBatch)
    BY <2>1, KindTail DEF ResponsesIn
  <2> QED
    BY <2>1, <2>2 DEF InMap
<1>5. CASE GatheringTick \/ NoTick \/ ConnectionTick \/ Connect \/ NewCameraServer
  <2>1. /\ UNCHANGED <<serverQueue, mainBatch, camPc>> /\ (state' # "Gathering" => state # "Gathering")
        /\ mainPc \notin {"StartCameras", "StartHall"}
    BY <1>5 DEF GatheringTick, NoTick, ConnectionTick, Connect, NewCameraServer, launchVars,
       launchIdle, camVars, LaunchContinues, LaunchFails, ControlInv, OneLaunch, LaunchLabels
  <2> QED
    BY <2>1 DEF InMap
<1>6. CASE DropOldCameras
  <2>1. state # "Gathering" => InMap = {} /\ mainPc' = "NewHall" /\ UNCHANGED camPc
    BY <1>6 DEF DropOldCameras, camVars, LaunchContinues
  <2>2. /\ UNCHANGED <<serverQueue, mainBatch>> /\ mainPc = "DropOldCameras"
        /\ state' # "Gathering" => state # "Gathering"
    BY <1>6 DEF DropOldCameras, launchIdle, LaunchContinues
  <2> QED
    BY <2>1, <2>2 DEF InMap
<1>7. CASE NewHall
  <2>1. UNCHANGED <<serverQueue, mainBatch, camPc>> /\ mainPc = "NewHall"
    BY <1>7 DEF NewHall, launchIdle, camVars
  <2>2. state # "Gathering"
    BY <2>1 DEF ControlInv, OneLaunch, LaunchLabels
  <2> QED
    BY <2>1, <2>2 DEF InMap
<1>8. CASE StartCameras \/ StartHall
  <2>1. /\ mainPc \in {"StartCameras", "StartHall"} /\ UNCHANGED mainBatch
        /\ \/ mainPc' \in {"StartCameras", "StartHall"} /\ UNCHANGED state
           \/ state' = "Gathering"
    BY <1>8 DEF StartCameras, StartCamera, StartHall, launchIdle, LaunchContinues, LaunchFails,
       LaunchSucceeds, LateFailure
  <2> QED
    BY <2>1
<1>9. CASE BeginShutdown \/ MainJoined \/ DropRecorder \/ DeleteAnalyzer \/ StopHall \/ HallJoined
  BY <1>9 DEF BeginShutdown, MainJoined, DropRecorder, DeleteAnalyzer, StopHall, HallJoined,
     ownerIdle, camVars, InMap
<1>10. CASE DropCameras
  <2>1. mainPc = "Off" /\ UNCHANGED <<mainPc, state, serverQueue, mainBatch>>
    BY <1>10 DEF DropCameras, ownerIdle, ControlInv, GoneInOrder
  <2>2. InMap = {} => UNCHANGED camPc
    BY <1>10 DEF DropCameras, camVars
  <2> QED
    BY <2>1, <2>2 DEF InMap
<1>11. CASE UNCHANGED vars
  BY <1>11 DEF vars, camVars, mainVars, launchVars, InMap
<1> QED
  BY <1>1, <1>2, <1>3, <1>4, <1>5, <1>6, <1>7, <1>8, <1>9, <1>10, <1>11, NextCases

\* "Such a message must not be", and it is not, in a server that never failed
\* a launch after it had begun to start the cameras: the only way to meet the
\* assertion is a relaunch over cameras that have run
\* (ServerThreadState.cpp:47, ServerImpl.cpp:245-262).
THEOREM OnlyLateFailuresLeaveMessages ==
    Spec /\ [][~LateFailure]_vars => []NoInadmissibleMessage
<1>1. Init => QuietBefore
  BY DEF Init, QuietBefore, ResponsesIn, KindIn, InMap
<1>2. QuietBefore /\ ControlInv => NoInadmissibleMessage
  <2> SUFFICES ASSUME QuietBefore, ControlInv, mainPc = "Batch",
                      Head(mainBatch).type = "CameraResponse"
               PROVE  state = "Gathering"
    BY DEF NoInadmissibleMessage
  <2>1. mainBatch # <<>> /\ mainBatch \in Seq(ServerMessages)
    BY DEF ControlInv, TypeInv, TypeOK, BatchAtHand
  <2>2. 1 \in DOMAIN mainBatch /\ Head(mainBatch) = mainBatch[1]
    BY <2>1
  <2> QED
    BY <2>2 DEF QuietBefore, ResponsesIn, KindIn
<1>3. ControlInv /\ QuietBefore /\ [Next]_vars /\ [~LateFailure]_vars => QuietBefore'
  <2>1. CASE ~LateFailure
    BY <2>1, StepKeepsQuiet
  <2>2. CASE UNCHANGED vars
    BY <2>2 DEF vars, camVars, mainVars, launchVars, InMap, QuietBefore
  <2> QED
    BY <2>1, <2>2
<1> QED
  BY <1>1, <1>2, <1>3, ControlInvariance, PTL DEF Spec

----------------------------------------------------------------------------
(* The destruction takes a bounded number of steps: its safety half, for   *)
(* any number of cameras.  That the steps are taken is ShutdownCompletes.  *)

\* What is still to be done to the cameras in the map: each is joined, and
\* before that told to end if its thread works.
CamerasLeft ==
    ({"join"} \X InMap) \cup ({"tell"} \X {c \in InMap : CameraRuns(c) /\ camWork[c]})
AllCameras == {"join", "tell"} \X Cameras

OwnerStages(l) ==
    CASE l = "JoinMain" -> 6 [] l = "DropRecorder" -> 5 [] l = "DeleteAnalyzer" -> 4
      [] l = "StopHall" -> 3 [] l = "JoinHall" -> 2 [] l = "DropCameras" -> 1
      [] OTHER -> 0

\* What the destruction has before it.  Until the main thread has ended, a
\* launch may start any of the cameras.
OwnerLeft ==
    ({"stage"} \X (1..OwnerStages(owner)))
        \cup (IF owner = "JoinMain" THEN AllCameras ELSE CamerasLeft)

\* Once begun, the destruction is never given up, what it has before it never
\* grows, whatever the threads do, and each of its steps takes away from it
\* (ServerImpl.cpp:103-107).
DestructionShrinks ==
    [][owner # "Up" =>
          /\ owner' # "Up"
          /\ OwnerLeft' \subseteq OwnerLeft
          /\ Destroy => OwnerLeft' # OwnerLeft]_vars

\* Only a launch adds to the cameras that are left.
LEMMA CamerasLeftShrink ==
    ASSUME TypeInv, [Next]_vars, ~StartCameras
    PROVE  CamerasLeft' \subseteq CamerasLeft
<1> USE DEF TypeInv, TypeOK, CameraRuns
<1>1. \A c \in Cameras :
         /\ camPc[c] = "Absent" => camPc'[c] = "Absent"
         /\ CameraRuns(c)' /\ camWork'[c] => CameraRuns(c) /\ camWork[c]
  <2>1. ASSUME NEW c \in Cameras,
               CameraStops(c) \/ GoodFrame(c) \/ AnalyzerThrows(c) \/ BadFrame(c) \/ CameraTake(c)
        PROVE  /\ camWork' = camWork /\ CameraRuns(c)
               /\ \/ camPc' = camPc
                  \/ \E l \in {"Off", "Take", "Image"} : camPc' = [camPc EXCEPT ![c] = l]
    BY <2>1 DEF CameraStops, GoodFrame, AnalyzerThrows, BadFrame, CameraTake, GoTo, Reads
  <2>2. ASSUME NEW c \in Cameras, DropCamera(c)
        PROVE  \/ camPc' = camPc /\ camWork' = [camWork EXCEPT ![c] = FALSE]
               \/ camPc' = [camPc EXCEPT ![c] = "Absent"] /\ camWork' = camWork
    BY <2>2 DEF DropCamera
  <2>3. DropOldCameras \/ DropCameras => UNCHANGED <<camPc, camWork>> \/ \E c \in Cameras : DropCamera(c)
    BY DEF DropOldCameras, DropCameras, First, InMap, camVars
  <2>4. \/ \E c \in Cameras : \/ CameraStops(c) \/ GoodFrame(c) \/ AnalyzerThrows(c)
                              \/ BadFrame(c) \/ CameraTake(c)
        \/ \E c \in Cameras : DropCamera(c)
        \/ UNCHANGED <<camPc, camWork>>
    <3>1. CASE HallTake \/ HandleSetCamera \/ HandleRequest \/ HallThrows
      BY <3>1 DEF HallTake, HandleSetCamera, HandleRequest, HallThrows, notHall, camVars
    <3>2. CASE \/ MainTake \/ HandleCameraResponse \/ HandleHallResponse
               \/ GatheringTick \/ NoTick \/ ConnectionTick
      BY <3>2 DEF MainTake, HandleCameraResponse, HandleHallResponse, GatheringTick, NoTick,
         ConnectionTick, camVars, camRest
    <3>3. CASE Connect \/ NewCameraServer \/ NewHall \/ StartHall
      BY <3>3 DEF Connect, NewCameraServer, NewHall, StartHall, camVars
    <3>4. CASE BeginShutdown \/ MainJoined \/ DropRecorder \/ DeleteAnalyzer \/ StopHall \/ HallJoined
      BY <3>4 DEF BeginShutdown, MainJoined, DropRecorder, DeleteAnalyzer, StopHall, HallJoined,
         camVars
    <3>5. CASE UNCHANGED vars
      BY <3>5 DEF vars, camVars
    <3> QED
      BY <2>3, <3>1, <3>2, <3>3, <3>4, <3>5, NextCases
  <2>5. CASE UNCHANGED <<camPc, camWork>>
    BY <2>5
  <2>6. ASSUME NEW c \in Cameras,
               CameraStops(c) \/ GoodFrame(c) \/ AnalyzerThrows(c) \/ BadFrame(c) \/ CameraTake(c)
        PROVE  \A d \in Cameras :
                  /\ camPc[d] = "Absent" => camPc'[d] = "Absent"
                  /\ CameraRuns(d)' /\ camWork'[d] => CameraRuns(d) /\ camWork[d]
    <3>1. PICK l \in {camPc[c], "Off", "Take", "Image"} : camPc' = [camPc EXCEPT ![c] = l]
      <4>1. camPc = [camPc EXCEPT ![c] = camPc[c]]
        OBVIOUS
      <4> QED
        BY <2>1, <2>6, <4>1
    <3>2. camWork' = camWork /\ CameraRuns(c)
      BY <2>1, <2>6
    <3> SUFFICES ASSUME NEW d \in Cameras
                 PROVE  /\ camPc[d] = "Absent" => camPc'[d] = "Absent"
                        /\ CameraRuns(d)' /\ camWork'[d] => CameraRuns(d) /\ camWork[d]
      OBVIOUS
    <3>3. CASE d = c
      BY <3>2, <3>3
    <3>4. CASE d # c
      <4>1. camPc'[d] = camPc[d]
        BY <3>1, <3>4
      <4> QED
        BY <3>2, <4>1
    <3> QED
      BY <3>3, <3>4
  <2>7. ASSUME NEW c \in Cameras, DropCamera(c)
        PROVE  \A d \in Cameras :
                  /\ camPc[d] = "Absent" => camPc'[d] = "Absent"
                  /\ CameraRuns(d)' /\ camWork'[d] => CameraRuns(d) /\ camWork[d]
    BY <2>2, <2>7
  <2> QED
    BY <2>4, <2>5, <2>6, <2>7
<1> QED
  BY <1>1 DEF CamerasLeft, InMap

LEMMA DropShrinks ==
    ASSUME TypeInv, NEW c \in First(InMap), DropCamera(c)
    PROVE  \E x \in CamerasLeft : x \notin CamerasLeft'
<1> USE DEF TypeInv, TypeOK, CameraRuns
<1>1. c \in Cameras /\ c \in InMap
  BY DEF First, InMap
<1>2. CASE CameraRuns(c) /\ camWork[c] /\ camWork' = [camWork EXCEPT ![c] = FALSE]
  <2>1. <<"tell", c>> \in CamerasLeft
    BY <1>1, <1>2 DEF CamerasLeft
  <2>2. <<"tell", c>> \notin CamerasLeft'
    BY <1>1, <1>2 DEF CamerasLeft
  <2> QED
    BY <2>1, <2>2
<1>3. CASE camPc' = [camPc EXCEPT ![c] = "Absent"]
  <2>1. <<"join", c>> \in CamerasLeft
    BY <1>1 DEF CamerasLeft
  <2>2. <<"join", c>> \notin CamerasLeft'
    BY <1>1, <1>3 DEF CamerasLeft, InMap
  <2> QED
    BY <2>1, <2>2
<1> QED
  BY <1>2, <1>3 DEF DropCamera

LEMMA CamerasLeftAre ==
    CamerasLeft \subseteq AllCameras /\ \A n : <<"stage", n>> \notin AllCameras
  BY DEF CamerasLeft, AllCameras, InMap

\* A later stage has less before it.
LEMMA StagesShrink ==
    ASSUME TypeInv, owner # "Up", owner' \in OwnerLabels, owner' # "JoinMain",
           OwnerStages(owner') < OwnerStages(owner),
           owner = "JoinMain" \/ CamerasLeft' \subseteq CamerasLeft
    PROVE  OwnerLeft' \subseteq OwnerLeft /\ OwnerLeft' # OwnerLeft
<1>1. OwnerStages(owner') \in 0..6 /\ OwnerStages(owner) \in 1..6
  BY DEF OwnerStages, TypeInv, TypeOK, OwnerLabels
<1>2. CamerasLeft' \subseteq AllCameras
  <2>1. InMap' \subseteq Cameras
    BY DEF InMap
  <2> QED
    BY <2>1 DEF CamerasLeft, AllCameras
<1>3. (1..OwnerStages(owner')) \subseteq 1..OwnerStages(owner)
  BY <1>1
<1>4. OwnerLeft' = ({"stage"} \X (1..OwnerStages(owner'))) \cup CamerasLeft'
  BY DEF OwnerLeft
<1>5. OwnerLeft' \subseteq OwnerLeft
  BY <1>2, <1>3, <1>4 DEF OwnerLeft
<1>6. <<"stage", OwnerStages(owner)>> \in OwnerLeft
  BY <1>1 DEF OwnerLeft
<1>7. <<"stage", OwnerStages(owner)>> \notin CamerasLeft'
  BY <1>2, CamerasLeftAre
<1>8. <<"stage", OwnerStages(owner)>> \notin {"stage"} \X (1..OwnerStages(owner'))
  BY <1>1
<1> QED
  BY <1>4, <1>5, <1>6, <1>7, <1>8

LEMMA StepShrinksOwner ==
    ASSUME ControlInv, owner # "Up", [Next]_vars
    PROVE  /\ owner' # "Up"
           /\ OwnerLeft' \subseteq OwnerLeft
           /\ Destroy => OwnerLeft' # OwnerLeft
<1>1. TypeInv /\ TypeInv' /\ owner \in OwnerLabels /\ owner' \in OwnerLabels
  BY StepKeepsControl DEF ControlInv, TypeInv, TypeOK
<1>2. owner # "JoinMain" => ~StartCameras
  BY DEF StartCameras, ControlInv, GoneInOrder
<1>3. owner # "JoinMain" => CamerasLeft' \subseteq CamerasLeft
  BY <1>1, <1>2, CamerasLeftShrink
<1>4. CASE MainJoined \/ DropRecorder \/ DeleteAnalyzer \/ StopHall \/ HallJoined
  <2>1. owner' \notin {"Up", "JoinMain"} /\ OwnerStages(owner') < OwnerStages(owner)
    BY <1>4 DEF MainJoined, DropRecorder, DeleteAnalyzer, StopHall, HallJoined, OwnerStages
  <2> QED
    BY <1>1, <1>3, <2>1, StagesShrink
<1>5. CASE DropCameras
  <2>1. owner = "DropCameras"
    BY <1>5 DEF DropCameras
  <2>2. CASE InMap = {}
    <3>1. owner' = "Down" /\ OwnerStages(owner') < OwnerStages(owner)
      BY <1>5, <2>1, <2>2 DEF DropCameras, OwnerStages
    <3> QED
      BY <1>1, <1>3, <2>1, <3>1, StagesShrink
  <2>3. CASE InMap # {}
    <3>1. owner' = owner /\ \E c \in First(InMap) : DropCamera(c)
      BY <1>5, <2>3 DEF DropCameras
    <3>2. PICK x \in CamerasLeft : x \notin CamerasLeft'
      BY <1>1, <3>1, DropShrinks
    <3>3. OwnerLeft = ({"stage"} \X (1..1)) \cup CamerasLeft
      BY <2>1 DEF OwnerLeft, OwnerStages
    <3>4. OwnerLeft' = ({"stage"} \X (1..1)) \cup CamerasLeft'
      BY <2>1, <3>1 DEF OwnerLeft, OwnerStages
    <3>5. x \notin {"stage"} \X (1..1)
      BY <3>2, CamerasLeftAre
    <3>6. x \in OwnerLeft /\ x \notin OwnerLeft'
      BY <3>2, <3>3, <3>4, <3>5
    <3> QED
      BY <1>3, <2>1, <3>1, <3>3, <3>4, <3>6
  <2> QED
    BY <2>2, <2>3
<1>6. CASE UNCHANGED owner /\ ~Destroy
  BY <1>3, <1>6 DEF OwnerLeft, AllCameras
<1>7. \/ MainJoined \/ DropRecorder \/ DeleteAnalyzer \/ StopHall \/ HallJoined \/ DropCameras
      \/ UNCHANGED owner /\ ~Destroy
  <2>1. Destroy => \/ MainJoined \/ DropRecorder \/ DeleteAnalyzer \/ StopHall \/ HallJoined
                   \/ DropCameras
    BY DEF Destroy
  <2>2. ASSUME NEW c \in Cameras,
               CameraStops(c) \/ GoodFrame(c) \/ AnalyzerThrows(c) \/ BadFrame(c) \/ CameraTake(c)
        PROVE  UNCHANGED owner
    BY <2>2 DEF CameraStops, GoodFrame, AnalyzerThrows, BadFrame, CameraTake, notCamera
  <2>3. CASE HallTake \/ HandleSetCamera \/ HandleRequest \/ HallThrows
    BY <2>1, <2>3 DEF HallTake, HandleSetCamera, HandleRequest, HallThrows, notHall
  <2>4. CASE \/ MainTake \/ HandleCameraResponse \/ HandleHallResponse
             \/ GatheringTick \/ NoTick \/ ConnectionTick
    BY <2>1, <2>4 DEF MainTake, HandleCameraResponse, HandleHallResponse, GatheringTick, NoTick,
       ConnectionTick, notMain
  <2>5. CASE Connect \/ NewCameraServer \/ DropOldCameras \/ NewHall \/ StartCameras \/ StartHall
    BY <2>1, <2>5 DEF Connect, NewCameraServer, DropOldCameras, NewHall, StartCameras, StartHall,
       launchIdle
  <2>6. CASE UNCHANGED vars
    BY <2>1, <2>6 DEF vars
  <2>7. ~BeginShutdown
    BY DEF BeginShutdown
  <2> QED
    BY <2>1, <2>2, <2>3, <2>4, <2>5, <2>6, <2>7, NextCases
<1> QED
  BY <1>4, <1>5, <1>6, <1>7

\* Once begun, the destruction is not given up, and no thread can make it
\* longer (ServerImpl.cpp:103-107).
THEOREM DestructionIsBounded == Spec => DestructionShrinks
<1>1. ControlInv /\ [Next]_vars =>
        [owner # "Up" =>
            /\ owner' # "Up"
            /\ OwnerLeft' \subseteq OwnerLeft
            /\ Destroy => OwnerLeft' # OwnerLeft]_vars
  BY StepShrinksOwner
<1> QED
  BY <1>1, ControlInvariance, PTL DEF Spec, DestructionShrinks

MainStages(l) ==
    CASE l = "Batch" -> 9 [] l = "Post" -> 8 [] l = "Connect" -> 7
      [] l = "NewCameraServer" -> 6 [] l = "DropOldCameras" -> 5 [] l = "NewHall" -> 4
      [] l = "StartCameras" -> 3 [] l = "StartHall" -> 2 [] l = "Take" -> 1
      [] OTHER -> 0

BeforeDrop == {"Batch", "Post", "Connect", "NewCameraServer"}
BeforeStart == BeforeDrop \cup {"DropOldCameras", "NewHall"}

ToDrop == IF mainPc \in BeforeDrop THEN AllCameras
          ELSE IF mainPc = "DropOldCameras" THEN CamerasLeft ELSE {}
ToStart == {"start"} \X (IF mainPc \in BeforeStart THEN Cameras
                         ELSE IF mainPc = "StartCameras" THEN toStart ELSE {})

\* What the main thread may still do in the pass it is at: the rest of the
\* batch, and a launch with the old cameras and the new.
MainLeft ==
    ({"stage"} \X (1..MainStages(mainPc))) \cup ({"message"} \X (1..Len(mainBatch)))
        \cup ToDrop \cup ToStart

HallStages(l) == CASE l = "Batch" -> 2 [] l = "Take" -> 1 [] OTHER -> 0
HallLeft == ({"stage"} \X (1..HallStages(hallPc))) \cup ({"message"} \X (1..Len(hallBatch)))

CameraStages(l) == CASE l = "Take" -> 2 [] l = "Image" -> 1 [] OTHER -> 0

\* A thread that was told to end is not told otherwise, and has before it no
\* more than the rest of the pass it is at: nothing the other threads do adds
\* to that, and each of its own steps takes away from it, a launch in its
\* course included (AnalyzeThread.h:40-57, ServerImpl.cpp:217-262).
ToldThreadsEnd ==
    [][/\ ~mainWork =>
            /\ ~mainWork' /\ MainLeft' \subseteq MainLeft
            /\ MainStep => MainLeft' # MainLeft
       /\ HallRuns /\ ~hallWork =>
            /\ ~hallWork' /\ HallLeft' \subseteq HallLeft
            /\ HallStep => HallLeft' # HallLeft
       /\ \A c \in Cameras : CameraRuns(c) /\ ~camWork[c] =>
            /\ ~camWork'[c] /\ CameraStages(camPc'[c]) <= CameraStages(camPc[c])
            /\ CameraStep(c) => CameraStages(camPc'[c]) < CameraStages(camPc[c])]_vars

LEMMA MainPartsDiffer ==
    /\ \A n : <<"stage", n>> \notin ({"message"} \X (1..Len(mainBatch))) \cup ToDrop \cup ToStart
    /\ \A n : <<"message", n>> \notin ({"stage"} \X (1..MainStages(mainPc))) \cup ToDrop \cup ToStart
    /\ \A x \in CamerasLeft \cup AllCameras :
          x \notin ({"stage"} \X (1..MainStages(mainPc)))
                      \cup ({"message"} \X (1..Len(mainBatch))) \cup ToStart
    /\ \A c : <<"start", c>> \notin ({"stage"} \X (1..MainStages(mainPc)))
                      \cup ({"message"} \X (1..Len(mainBatch))) \cup ToDrop
  BY DEF ToDrop, ToStart, CamerasLeft, AllCameras

\* In a later stage, or in the same with the same or less, less is left.
LEMMA StageEndsMain ==
    ASSUME TypeInv, TypeInv', MainStages(mainPc') < MainStages(mainPc),
           Len(mainBatch') <= Len(mainBatch)
    PROVE  MainLeft' \subseteq MainLeft /\ MainLeft' # MainLeft
<1>1. /\ MainStages(mainPc) \in 1..9 /\ MainStages(mainPc') \in 0..9
      /\ Len(mainBatch) \in Nat /\ Len(mainBatch') \in Nat
  BY DEF TypeInv, TypeOK, MainStages, MainLabels
<1>2. (1..MainStages(mainPc')) \subseteq (1..MainStages(mainPc))
      /\ (1..Len(mainBatch')) \subseteq (1..Len(mainBatch))
  BY <1>1
<1>3. ToDrop' \subseteq ToDrop
  <2>1. mainPc \in BeforeDrop \/ ToDrop' = {}
    BY DEF ToDrop, BeforeDrop, MainStages, MainLabels, TypeInv, TypeOK
  <2>2. ToDrop' \subseteq AllCameras
    BY DEF ToDrop, CamerasLeft, AllCameras, InMap
  <2> QED
    BY <2>1, <2>2 DEF ToDrop
<1>4. ToStart' \subseteq ToStart
  <2>1. mainPc \in BeforeStart \/ ToStart' = {}
    BY DEF ToStart, BeforeStart, BeforeDrop, MainStages, MainLabels, TypeInv, TypeOK
  <2>2. ToStart' \subseteq {"start"} \X Cameras
    BY DEF ToStart, TypeInv, TypeOK
  <2> QED
    BY <2>1, <2>2 DEF ToStart
<1>5. <<"stage", MainStages(mainPc)>> \in MainLeft
  BY <1>1 DEF MainLeft
<1>6. <<"stage", MainStages(mainPc)>> \notin MainLeft'
  <2>1. <<"stage", MainStages(mainPc)>> \notin
           ({"message"} \X (1..Len(mainBatch'))) \cup ToDrop' \cup ToStart'
    BY DEF ToDrop, ToStart, CamerasLeft, AllCameras
  <2>2. <<"stage", MainStages(mainPc)>> \notin {"stage"} \X (1..MainStages(mainPc'))
    BY <1>1
  <2> QED
    BY <2>1, <2>2 DEF MainLeft
<1> QED
  BY <1>2, <1>3, <1>4, <1>5, <1>6 DEF MainLeft

LEMMA MainStepShrinks ==
    ASSUME ControlInv, ControlInv', ~mainWork, MainStep
    PROVE  ~mainWork' /\ MainLeft' \subseteq MainLeft /\ MainLeft' # MainLeft
<1> USE DEF ControlInv, TypeInv
<1>1. ~mainWork'
  BY DEF MainStep, Launch, MainTake, HandleCameraResponse, HandleHallResponse, GatheringTick,
     NoTick, ConnectionTick, Connect, NewCameraServer, DropOldCameras, NewHall, StartCameras,
     StartHall, MainHandled, launchIdle
<1>2. ASSUME MainStages(mainPc') < MainStages(mainPc), Len(mainBatch') <= Len(mainBatch)
      PROVE  MainLeft' \subseteq MainLeft /\ MainLeft' # MainLeft
  BY <1>2, StageEndsMain
<1>3. CASE MainTake
  <2>1. mainPc = "Take" /\ mainPc' = "Off" /\ mainBatch' = mainBatch
    BY <1>3 DEF MainTake
  <2> QED
    BY <1>1, <1>2, <2>1 DEF MainStages, TypeOK
<1>4. CASE HandleCameraResponse \/ HandleHallResponse
  <2>1. /\ mainPc = "Batch" /\ mainBatch # <<>> /\ mainBatch \in Seq(ServerMessages)
        /\ mainBatch' = Tail(mainBatch) /\ mainPc' \in {"Batch", "Post"}
    BY <1>4 DEF HandleCameraResponse, HandleHallResponse, MainHandled, TypeOK, BatchAtHand
  <2>2. Len(mainBatch) \in Nat /\ Len(mainBatch) > 0 /\ Len(mainBatch') = Len(mainBatch) - 1
    BY <2>1
  <2>3. CASE mainPc' = "Post"
    BY <1>1, <1>2, <2>1, <2>2, <2>3 DEF MainStages
  <2>4. CASE mainPc' = "Batch"
    <3>1. MainStages(mainPc') = MainStages(mainPc) /\ ToDrop' = ToDrop /\ ToStart' = ToStart
      BY <2>1, <2>4 DEF ToDrop, ToStart, BeforeDrop, BeforeStart, AllCameras
    <3>2. (1..Len(mainBatch')) \subseteq (1..Len(mainBatch))
      BY <2>2
    <3>3. MainLeft' \subseteq MainLeft
      BY <3>1, <3>2 DEF MainLeft
    <3>4. <<"message", Len(mainBatch)>> \in MainLeft
      BY <2>2 DEF MainLeft
    <3>5. <<"message", Len(mainBatch)>> \notin
             ({"stage"} \X (1..MainStages(mainPc'))) \cup ToDrop' \cup ToStart'
      BY <3>1, MainPartsDiffer
    <3>6. <<"message", Len(mainBatch)>> \notin {"message"} \X (1..Len(mainBatch'))
      BY <2>2
    <3>7. <<"message", Len(mainBatch)>> \notin MainLeft'
      BY <3>5, <3>6 DEF MainLeft
    <3> QED
      BY <1>1, <3>3, <3>4, <3>7
  <2> QED
    BY <2>1, <2>3, <2>4
<1>5. CASE GatheringTick \/ NoTick \/ ConnectionTick
  <2>1. mainPc = "Post" /\ mainPc' \in {"Take", "Connect"} /\ mainBatch' = mainBatch
    BY <1>5 DEF GatheringTick, NoTick, ConnectionTick
  <2> QED
    BY <1>1, <1>2, <2>1 DEF MainStages, TypeOK
<1>6. CASE Connect \/ NewCameraServer \/ NewHall \/ StartHall
  <2>1. /\ MainStages(mainPc') < MainStages(mainPc)
        /\ mainBatch' = mainBatch
    BY <1>6 DEF Connect, NewCameraServer, NewHall, StartHall, LaunchContinues, LaunchFails,
       LaunchSucceeds, launchIdle, MainStages
  <2> QED
    BY <1>1, <1>2, <2>1 DEF TypeOK
<1>7. CASE DropOldCameras
  <2>1. mainPc = "DropOldCameras" /\ UNCHANGED <<mainBatch, toStart>>
    BY <1>7 DEF DropOldCameras, launchIdle
  <2>2. CASE InMap = {}
    <3>1. MainStages(mainPc') < MainStages(mainPc)
      BY <1>7, <2>2 DEF DropOldCameras, LaunchContinues, MainStages
    <3> QED
      BY <1>1, <1>2, <2>1, <3>1 DEF TypeOK
  <2>3. CASE InMap # {}
    <3>1. mainPc' = mainPc /\ \E c \in First(InMap) : DropCamera(c)
      BY <1>7, <2>3 DEF DropOldCameras
    <3>2. PICK x \in CamerasLeft : x \notin CamerasLeft'
      BY <3>1, DropShrinks
    <3>3. CamerasLeft' \subseteq CamerasLeft
      <4>1. [Next]_vars
        BY <1>7 DEF Next, MainStep, Launch
      <4>2. ~StartCameras
        BY <2>1 DEF StartCameras
      <4> QED
        BY <4>1, <4>2, CamerasLeftShrink
    <3>4. ToDrop = CamerasLeft /\ ToDrop' = CamerasLeft' /\ ToStart' = ToStart
      BY <2>1, <3>1 DEF ToDrop, ToStart, BeforeDrop, BeforeStart
    <3>5. x \notin ({"stage"} \X (1..MainStages(mainPc)))
                      \cup ({"message"} \X (1..Len(mainBatch))) \cup ToStart
      BY <3>2, MainPartsDiffer
    <3>6. x \in MainLeft /\ x \notin MainLeft'
      BY <2>1, <3>1, <3>2, <3>4, <3>5 DEF MainLeft
    <3>7. MainLeft' \subseteq MainLeft
      BY <2>1, <3>1, <3>3, <3>4 DEF MainLeft
    <3> QED
      BY <1>1, <3>6, <3>7
  <2> QED
    BY <2>2, <2>3
<1>8. CASE StartCameras
  <2>1. mainPc = "StartCameras" /\ UNCHANGED mainBatch
    BY <1>8 DEF StartCameras, launchIdle
  <2>2. CASE toStart = {}
    <3>1. MainStages(mainPc') < MainStages(mainPc)
      BY <1>8, <2>2 DEF StartCameras, LaunchContinues, MainStages
    <3> QED
      BY <1>1, <1>2, <2>1, <3>1 DEF TypeOK
  <2>3. CASE toStart # {}
    <3>1. PICK c \in First(toStart) : StartCamera(c)
      BY <1>8, <2>3 DEF StartCameras
    <3>2. c \in toStart /\ toStart' = toStart \ {c} /\ mainPc' \in {"StartCameras", "Take"}
      BY <3>1 DEF StartCamera, First, LaunchContinues, LaunchFails
    <3>3. CASE mainPc' = "Take"
      BY <1>1, <1>2, <2>1, <3>3 DEF MainStages, TypeOK
    <3>4. CASE mainPc' = "StartCameras"
      <4>1. /\ ToStart = {"start"} \X toStart /\ ToStart' = {"start"} \X (toStart \ {c})
            /\ ToDrop = {} /\ ToDrop' = {}
        BY <2>1, <3>2, <3>4 DEF ToStart, ToDrop, BeforeDrop, BeforeStart
      <4>2. MainLeft' \subseteq MainLeft
        BY <2>1, <3>4, <4>1 DEF MainLeft
      <4>3. <<"start", c>> \in MainLeft
        BY <3>2, <4>1 DEF MainLeft
      <4>4. <<"start", c>> \notin MainLeft'
        BY <2>1, <3>4, <4>1, MainPartsDiffer DEF MainLeft
      <4> QED
        BY <1>1, <4>2, <4>3, <4>4
    <3> QED
      BY <3>2, <3>3, <3>4
  <2> QED
    BY <2>2, <2>3
<1> QED
  BY <1>3, <1>4, <1>5, <1>6, <1>7, <1>8 DEF MainStep, Launch

\* What the other threads do while the main thread is at a step of its own.
LEMMA OthersLeaveMain ==
    ASSUME ControlInv, [Next]_vars, ~MainStep
    PROVE  /\ UNCHANGED <<mainPc, mainBatch, toStart>>
           /\ mainWork' = mainWork \/ ~mainWork'
           /\ ~StartCameras
<1>1. ASSUME NEW c \in Cameras,
             CameraStops(c) \/ GoodFrame(c) \/ AnalyzerThrows(c) \/ BadFrame(c) \/ CameraTake(c)
      PROVE  UNCHANGED <<mainPc, mainBatch, toStart, mainWork>>
  BY <1>1 DEF CameraStops, GoodFrame, AnalyzerThrows, BadFrame, CameraTake, notCamera,
     launchVars
<1>2. CASE HallTake \/ HandleSetCamera \/ HandleRequest \/ HallThrows
  BY <1>2 DEF HallTake, HandleSetCamera, HandleRequest, HallThrows, notHall, launchVars,
     MainStep, Launch
<1>3. CASE \/ BeginShutdown \/ MainJoined \/ DropRecorder \/ DeleteAnalyzer
           \/ StopHall \/ HallJoined \/ DropCameras
  BY <1>3 DEF BeginShutdown, MainJoined, DropRecorder, DeleteAnalyzer, StopHall, HallJoined,
     DropCameras, ownerIdle, MainStep, Launch
<1>4. CASE UNCHANGED vars
  BY <1>4 DEF vars, mainVars, launchVars, MainStep, Launch
<1>5. ~StartCameras
  BY DEF MainStep, Launch
<1> QED
  BY <1>1, <1>2, <1>3, <1>4, <1>5, NextCases DEF MainStep, Launch

LEMMA ToldMainShrinks ==
    ASSUME ControlInv, ControlInv', ~mainWork, [Next]_vars
    PROVE  /\ ~mainWork' /\ MainLeft' \subseteq MainLeft
           /\ MainStep => MainLeft' # MainLeft
<1>1. CASE MainStep
  BY <1>1, MainStepShrinks
<1>2. CASE ~MainStep
  <2>1. UNCHANGED <<mainPc, mainBatch, toStart>> /\ ~mainWork' /\ ~StartCameras
    BY <1>2, OthersLeaveMain
  <2>2. CamerasLeft' \subseteq CamerasLeft
    BY <2>1, CamerasLeftShrink DEF ControlInv
  <2>3. ToDrop' \subseteq ToDrop /\ ToStart' = ToStart
    BY <2>1, <2>2 DEF ToDrop, ToStart, AllCameras
  <2> QED
    BY <1>2, <2>1, <2>3 DEF MainLeft
<1> QED
  BY <1>1, <1>2

LEMMA ToldHallShrinks ==
    ASSUME ControlInv, HallRuns, ~hallWork, [Next]_vars
    PROVE  /\ ~hallWork' /\ HallLeft' \subseteq HallLeft
           /\ HallStep => HallLeft' # HallLeft
<1> USE DEF ControlInv, TypeInv, TypeOK
<1>1. CASE HallTake
  <2>1. hallPc = "Take" /\ hallPc' = "Off" /\ UNCHANGED <<hallBatch, hallWork>>
    BY <1>1 DEF HallTake
  <2>2. <<"stage", 1>> \in HallLeft /\ <<"stage", 1>> \notin HallLeft'
    BY <2>1 DEF HallLeft, HallStages
  <2>3. HallLeft' \subseteq HallLeft
    BY <2>1 DEF HallLeft, HallStages
  <2> QED
    BY <2>1, <2>2, <2>3
<1>2. CASE HandleSetCamera \/ HandleRequest \/ HallThrows
  <2>1. /\ hallPc = "Batch" /\ UNCHANGED hallWork /\ hallBatch # <<>> /\ hallBatch \in Seq(HallMessages)
        /\ hallBatch' \in {Tail(hallBatch), <<>>} /\ hallPc' \in {"Batch", "Take"}
    BY <1>2 DEF HandleSetCamera, HandleRequest, HallThrows, Handled, BatchAtHand
  <2>2. Len(hallBatch) \in Nat /\ Len(hallBatch) > 0 /\ Len(hallBatch') \in Nat
        /\ Len(hallBatch') < Len(hallBatch)
    BY <2>1
  <2>3. HallStages(hallPc) = 2 /\ HallStages(hallPc') \in 1..2
    BY <2>1 DEF HallStages
  <2>4. (1..Len(hallBatch')) \subseteq (1..Len(hallBatch)) /\ (1..HallStages(hallPc')) \subseteq (1..HallStages(hallPc))
    BY <2>2, <2>3
  <2>5. HallLeft' \subseteq HallLeft
    BY <2>4 DEF HallLeft
  <2>6. <<"message", Len(hallBatch)>> \in HallLeft
    BY <2>2 DEF HallLeft
  <2>7. <<"message", Len(hallBatch)>> \notin HallLeft'
    BY <2>2 DEF HallLeft
  <2> QED
    BY <2>1, <2>5, <2>6, <2>7
<1>3. CASE ~HallStep
  <2>1. UNCHANGED <<hallPc, hallBatch>> /\ ~hallWork'
    <3>1. ASSUME NEW c \in Cameras,
                 CameraStops(c) \/ GoodFrame(c) \/ AnalyzerThrows(c) \/ BadFrame(c) \/ CameraTake(c)
          PROVE  UNCHANGED <<hallPc, hallBatch, hallWork>>
      BY <3>1 DEF CameraStops, GoodFrame, AnalyzerThrows, BadFrame, CameraTake, notCamera, hallVars
    <3>2. CASE \/ MainTake \/ HandleCameraResponse \/ HandleHallResponse
               \/ GatheringTick \/ NoTick \/ ConnectionTick
      <4>1. UNCHANGED notMain /\ UNCHANGED hallWork
        BY <3>2 DEF MainTake, HandleCameraResponse, HandleHallResponse, GatheringTick, NoTick,
           ConnectionTick, notMain
      <4> QED
        BY <4>1 DEF notMain
    <3>3. ~NewHall /\ ~StartHall
      BY DEF NewHall, StartHall, OneLaunch, LaunchLabels
    <3>4. CASE Connect \/ NewCameraServer \/ DropOldCameras \/ StartCameras
      BY <3>4 DEF Connect, NewCameraServer, DropOldCameras, StartCameras, hallVars
    <3>5. CASE \/ BeginShutdown \/ MainJoined \/ DropRecorder \/ DeleteAnalyzer
               \/ StopHall \/ DropCameras
      BY <3>5 DEF BeginShutdown, MainJoined, DropRecorder, DeleteAnalyzer, StopHall,
         DropCameras, hallVars
    <3>6. ~HallJoined
      BY DEF HallJoined
    <3>7. CASE UNCHANGED vars
      BY <3>7 DEF vars, hallVars
    <3> QED
      BY <1>3, <3>1, <3>2, <3>3, <3>4, <3>5, <3>6, <3>7, NextCases DEF HallStep
  <2> QED
    BY <1>3, <2>1 DEF HallLeft
<1> QED
  BY <1>1, <1>2, <1>3 DEF HallStep

LEMMA ToldCameraShrinks ==
    ASSUME ControlInv, [Next]_vars, NEW c \in Cameras, CameraRuns(c), ~camWork[c]
    PROVE  /\ ~camWork'[c] /\ CameraStages(camPc'[c]) <= CameraStages(camPc[c])
           /\ CameraStep(c) => CameraStages(camPc'[c]) < CameraStages(camPc[c])
<1> USE DEF ControlInv, TypeInv, TypeOK, CameraRuns
<1>1. CASE CameraStep(c)
  <2>1. \/ camPc[c] = "Image" /\ camPc' = [camPc EXCEPT ![c] = "Off"]
        \/ camPc[c] = "Take" /\ camPc' = [camPc EXCEPT ![c] = "Image"]
    BY <1>1 DEF CameraStep, CameraStops, GoodFrame, AnalyzerThrows, BadFrame, CameraTake, GoTo, Reads
  <2>2. camWork' = camWork
    BY <1>1 DEF CameraStep, CameraStops, GoodFrame, AnalyzerThrows, BadFrame, CameraTake
  <2> QED
    BY <2>1, <2>2 DEF CameraStages
<1>2. CASE ~CameraStep(c)
  <2>1. camPc'[c] = camPc[c] /\ ~camWork'[c]
    <3>1. ASSUME NEW d \in Cameras,
                 CameraStops(d) \/ GoodFrame(d) \/ AnalyzerThrows(d) \/ BadFrame(d) \/ CameraTake(d)
          PROVE  camPc'[c] = camPc[c] /\ ~camWork'[c]
      <4>1. d # c
        BY <1>2, <3>1 DEF CameraStep
      <4>2. camWork' = camWork /\ (camPc' = camPc \/ \E l \in CamLabels : camPc' = [camPc EXCEPT ![d] = l])
        BY <3>1 DEF CameraStops, GoodFrame, AnalyzerThrows, BadFrame, CameraTake, GoTo, CamLabels
      <4> QED
        BY <4>1, <4>2
    <3>2. CASE HallTake \/ HandleSetCamera \/ HandleRequest \/ HallThrows
      BY <3>2 DEF HallTake, HandleSetCamera, HandleRequest, HallThrows, notHall, camVars
    <3>3. CASE \/ MainTake \/ HandleCameraResponse \/ HandleHallResponse
               \/ GatheringTick \/ NoTick \/ ConnectionTick
      BY <3>3 DEF MainTake, HandleCameraResponse, HandleHallResponse, GatheringTick, NoTick,
         ConnectionTick, camVars, camRest
    <3>4. CASE Connect \/ NewCameraServer \/ NewHall \/ StartHall
      BY <3>4 DEF Connect, NewCameraServer, NewHall, StartHall, camVars
    <3>5. CASE StartCameras
      <4>1. UNCHANGED camVars \/ \E d \in toStart : StartCamera(d)
        BY <3>5 DEF StartCameras, First
      <4>2. ASSUME NEW d \in toStart, StartCamera(d)
            PROVE  camPc'[c] = camPc[c] /\ ~camWork'[c]
        <5>1. d # c
          BY <3>5 DEF StartCameras, RelaunchFromScratch
        <5> QED
          BY <4>2, <5>1 DEF StartCamera
      <4> QED
        BY <4>1, <4>2 DEF camVars
    <3>6. ASSUME NEW d \in Cameras, DropCamera(d)
          PROVE  camPc'[c] = camPc[c] /\ ~camWork'[c]
      BY <3>6 DEF DropCamera
    <3>7. CASE DropOldCameras \/ DropCameras
      <4>1. UNCHANGED <<camPc, camWork>> \/ \E d \in Cameras : DropCamera(d)
        BY <3>7 DEF DropOldCameras, DropCameras, First, InMap, camVars
      <4> QED
        BY <3>6, <4>1
    <3>8. CASE BeginShutdown \/ MainJoined \/ DropRecorder \/ DeleteAnalyzer \/ StopHall \/ HallJoined
      BY <3>8 DEF BeginShutdown, MainJoined, DropRecorder, DeleteAnalyzer, StopHall, HallJoined,
         camVars
    <3>9. CASE UNCHANGED vars
      BY <3>9 DEF vars, camVars
    <3> QED
      BY <3>1, <3>2, <3>3, <3>4, <3>5, <3>7, <3>8, <3>9, NextCases
  <2> QED
    BY <1>2, <2>1 DEF CameraStages
<1> QED
  BY <1>1, <1>2

\* Whoever is told to end does, after a bounded number of steps of its own
\* (AnalyzeThread.h:40-57).
THEOREM ToldThreadsAreBounded == Spec => ToldThreadsEnd
<1>1. ControlInv /\ ControlInv' /\ [Next]_vars =>
        [/\ ~mainWork =>
              /\ ~mainWork' /\ MainLeft' \subseteq MainLeft
              /\ MainStep => MainLeft' # MainLeft
         /\ HallRuns /\ ~hallWork =>
              /\ ~hallWork' /\ HallLeft' \subseteq HallLeft
              /\ HallStep => HallLeft' # HallLeft
         /\ \A c \in Cameras : CameraRuns(c) /\ ~camWork[c] =>
              /\ ~camWork'[c] /\ CameraStages(camPc'[c]) <= CameraStages(camPc[c])
              /\ CameraStep(c) => CameraStages(camPc'[c]) < CameraStages(camPc[c])]_vars
  BY ToldMainShrinks, ToldHallShrinks, ToldCameraShrinks
<1> QED
  BY <1>1, ControlInvariance, PTL DEF Spec, ToldThreadsEnd

\* The destruction joins no thread that has not been told to end
\* (ServerImpl.cpp:103-107, AnalyzeThread.h:45-57).
WaitsForTold ==
    /\ owner = "JoinMain" => ~mainWork
    /\ owner = "JoinHall" => ~hallWork

LeftIsFinite == IsFiniteSet(OwnerLeft) /\ IsFiniteSet(MainLeft) /\ IsFiniteSet(HallLeft)

LEMMA SetsLeftFinite ==
    ASSUME TypeInv
    PROVE  IsFiniteSet(OwnerLeft) /\ IsFiniteSet(MainLeft) /\ IsFiniteSet(HallLeft)
<1> DEFINE Tags == {"stage", "message", "join", "tell", "start"}
           top == 9 + Len(mainBatch) + Len(hallBatch)
           All == Tags \X (Cameras \cup (1..top))
<1>1. Len(mainBatch) \in Nat /\ Len(hallBatch) \in Nat
  BY DEF TypeInv, TypeOK
<1>2. IsFiniteSet(Tags)
  <2>1. IsFiniteSet({"stage"} \cup {"message"})
    BY FS_Singleton, FS_AddElement
  <2>2. IsFiniteSet(({"stage"} \cup {"message"}) \cup {"join"})
    BY <2>1, FS_AddElement
  <2>3. IsFiniteSet((({"stage"} \cup {"message"}) \cup {"join"}) \cup {"tell"})
    BY <2>2, FS_AddElement
  <2>4. IsFiniteSet(((({"stage"} \cup {"message"}) \cup {"join"}) \cup {"tell"}) \cup {"start"})
    BY <2>3, FS_AddElement
  <2>5. Tags = ((({"stage"} \cup {"message"}) \cup {"join"}) \cup {"tell"}) \cup {"start"}
    OBVIOUS
  <2> QED
    BY <2>4, <2>5
<1>3. IsFiniteSet(1..top)
  BY <1>1, FS_Interval
<1>4. IsFiniteSet(Cameras \cup (1..top))
  BY <1>3, CamerasAssumption, FS_Union
<1>5. IsFiniteSet(All)
  BY <1>2, <1>4, FS_Product
<1>6. OwnerStages(owner) \in 0..6 /\ MainStages(mainPc) \in 0..9 /\ HallStages(hallPc) \in 0..2
  BY DEF OwnerStages, MainStages, HallStages
<1>7. CamerasLeft \subseteq All /\ AllCameras \subseteq All
  BY DEF CamerasLeft, AllCameras, InMap
<1>8. OwnerLeft \subseteq All
  BY <1>1, <1>6, <1>7 DEF OwnerLeft
<1>9. MainLeft \subseteq All
  BY <1>1, <1>6, <1>7 DEF MainLeft, ToDrop, ToStart, TypeInv, TypeOK
<1>10. HallLeft \subseteq All
  BY <1>1, <1>6 DEF HallLeft
<1> QED
  BY <1>5, <1>8, <1>9, <1>10, FS_Subset

LEMMA StepWaits == ControlInv /\ WaitsForTold /\ [Next]_vars => WaitsForTold'
<1> SUFFICES ASSUME ControlInv, WaitsForTold, [Next]_vars PROVE WaitsForTold'
  OBVIOUS
<1> USE DEF WaitsForTold
<1>1. ASSUME NEW c \in Cameras,
             CameraStops(c) \/ GoodFrame(c) \/ AnalyzerThrows(c) \/ BadFrame(c) \/ CameraTake(c)
      PROVE  WaitsForTold'
  BY <1>1 DEF CameraStops, GoodFrame, AnalyzerThrows, BadFrame, CameraTake, notCamera, hallVars
<1>2. CASE HallTake \/ HandleSetCamera \/ HandleRequest \/ HallThrows
  BY <1>2 DEF HallTake, HandleSetCamera, HandleRequest, HallThrows, notHall
<1>3. CASE \/ MainTake \/ HandleCameraResponse \/ HandleHallResponse
           \/ GatheringTick \/ NoTick \/ ConnectionTick
  <2>1. UNCHANGED <<owner, mainWork, hallWork>>
    BY <1>3 DEF MainTake, HandleCameraResponse, HandleHallResponse, GatheringTick, NoTick,
       ConnectionTick, notMain, MainHandled
  <2> QED
    BY <2>1
<1>4. CASE Connect \/ NewCameraServer \/ DropOldCameras \/ NewHall \/ StartCameras
  BY <1>4 DEF Connect, NewCameraServer, DropOldCameras, NewHall, StartCameras, hallVars,
     launchIdle
<1>5. CASE StartHall
  <2>1. owner # "JoinHall"
    BY <1>5 DEF StartHall, ControlInv, GoneInOrder
  <2> QED
    BY <1>5, <2>1 DEF StartHall, launchIdle
<1>6. CASE BeginShutdown \/ MainJoined \/ DropRecorder \/ DeleteAnalyzer \/ StopHall
  BY <1>6 DEF BeginShutdown, MainJoined, DropRecorder, DeleteAnalyzer, StopHall, hallVars
<1>7. CASE HallJoined \/ DropCameras
  BY <1>7 DEF HallJoined, DropCameras, hallVars
<1>8. CASE UNCHANGED vars
  BY <1>8 DEF vars, hallVars, mainVars
<1> QED
  BY <1>1, <1>2, <1>3, <1>4, <1>5, <1>6, <1>7, <1>8, NextCases

\* No join in the destruction waits for a thread that works on, nor for more
\* than a bounded number of steps (ServerImpl.cpp:103-107).
THEOREM NoJoinWithoutTelling == Spec => []WaitsForTold /\ []LeftIsFinite
<1>1. Init => WaitsForTold
  BY DEF Init, WaitsForTold
<1>2. TypeInv => LeftIsFinite
  BY SetsLeftFinite DEF LeftIsFinite
<1> QED
  BY <1>1, <1>2, StepWaits, ControlInvariance, TypeInvariance, PTL DEF Spec

=============================================================================
