---------------------------- MODULE ServerThread ----------------------------
(***************************************************************************)
(* The main thread of the server (ServerImpl.cpp) and its two states       *)
(* (state/ServerThread*.cpp).  Until a launch succeeds the state is        *)
(* ServerThreadDBConnection, which runs LaunchThreads at once and then on  *)
(* each tick of a timer; after that it is ServerThreadGathering for good,  *)
(* which carries the cameras' data to the hall and asks it for alarms on   *)
(* each tick.  "FirstTime" is the first state with m_bFirstTime set.       *)
(***************************************************************************)
EXTENDS EngineState

notMain == <<hallPc, hallWork, hallBatch, hallAnalyzer, hallSeen, owner>>
camRest == <<camPc, camWork, camSeq, invalid, userData>>

\* One pass of ControlledThread's loop: the flag, then the locked part of
\* ProcessQueue.
MainTake ==
    /\ mainPc = "Take"
    /\ \/ /\ ~mainWork
          /\ mainPc' = "Off"
          /\ UNCHANGED <<serverQueue, mainBatch>>
       \/ /\ mainWork
          /\ mainBatch' = serverQueue
          /\ serverQueue' = <<>>
          /\ mainPc' = IF serverQueue = <<>> THEN "Post" ELSE "Batch"
    /\ UNCHANGED <<mainWork, launchVars, camVars, hallQueue, notMain>>

MainHandled ==
    /\ mainBatch' = Tail(mainBatch)
    /\ mainPc' = IF Len(mainBatch) = 1 THEN "Post" ELSE "Batch"
    /\ UNCHANGED <<mainWork, serverQueue, launchVars>>

\* Mistake: the camera's own message is passed on instead of one for the hall.
HandleCameraResponseAsIs ==
    /\ mainPc = "Batch"
    /\ Head(mainBatch).type = "CameraResponse"
    /\ hallQueue' = IF state = "Gathering" /\ hallPc # "Absent"
                    THEN Push(hallQueue, Head(mainBatch))
                    ELSE hallQueue
    /\ MainHandled
    /\ UNCHANGED <<camVars, notMain>>

\* Mistake: the hall's queue takes the message past its limit.
HandleCameraResponseUnbounded ==
    /\ mainPc = "Batch"
    /\ Head(mainBatch).type = "CameraResponse"
    /\ hallQueue' = IF state = "Gathering" /\ hallPc # "Absent"
                    THEN Append(hallQueue, HallSetCamera(Head(mainBatch).camera,
                                                         Head(mainBatch).frame))
                    ELSE hallQueue
    /\ MainHandled
    /\ UNCHANGED <<camVars, notMain>>

\* A camera's data go on to the hall, if there is one, in the gathering state;
\* before it the message meets _ASSERT(false) and is dropped.
HandleCameraResponse ==
    /\ mainPc = "Batch"
    /\ Head(mainBatch).type = "CameraResponse"
    /\ hallQueue' = IF state = "Gathering" /\ hallPc # "Absent"
                    THEN Push(hallQueue, HallSetCamera(Head(mainBatch).camera,
                                                       Head(mainBatch).frame))
                    ELSE hallQueue
    /\ MainHandled
    /\ UNCHANGED <<camVars, notMain>>

\* ReceiveHallData, in either state: the rectangles for the client, the record
\* of activity, and a message for every camera in the map.
HandleHallResponse ==
    /\ mainPc = "Batch"
    /\ Head(mainBatch).type = "HallResponse"
    /\ camQueue' = [c \in Cameras |->
                      IF c \in InMap
                      THEN Push(camQueue[c], CameraSetHall(Head(mainBatch).rects))
                      ELSE camQueue[c]]
    /\ MainHandled
    /\ UNCHANGED <<hallQueue, camRest, notMain>>

RequestsWaiting == Cardinality({i \in DOMAIN hallQueue : hallQueue[i] = HallRequest})

\* ServerThreadGathering::PostProcess, when the timer ticks.
GatheringTick ==
    /\ mainPc = "Post"
    /\ state = "Gathering"
    /\ RequestsWaiting < MaxRequests
    /\ hallQueue' = IF hallPc = "Absent" THEN hallQueue ELSE Push(hallQueue, HallRequest)
    /\ mainPc' = "Take"
    /\ UNCHANGED <<mainWork, serverQueue, mainBatch, launchVars,
                   camVars, notMain>>

\* PostProcess in either state, when the timer does not tick.
NoTick ==
    /\ mainPc = "Post"
    /\ state # "FirstTime"
    /\ mainPc' = "Take"
    /\ UNCHANGED <<mainWork, serverQueue, mainBatch, launchVars,
                   camVars, hallQueue, notMain>>

\* Mistake: the launch is tried at the first pass only.
ConnectionFirstTime ==
    /\ mainPc = "Post"
    /\ state = "FirstTime"
    /\ mainPc' = "Connect"
    /\ UNCHANGED <<mainWork, serverQueue, mainBatch, launchVars,
                   camVars, hallQueue, notMain>>

\* ServerThreadDBConnection::PostProcess, when the timer ticks or never did.
ConnectionTick ==
    /\ mainPc = "Post"
    /\ state # "Gathering"
    /\ mainPc' = "Connect"
    /\ UNCHANGED <<mainWork, serverQueue, mainBatch, launchVars,
                   camVars, hallQueue, notMain>>

----------------------------------------------------------------------------
(* LaunchThreads.  Other threads run meanwhile: on a second attempt, the   *)
(* cameras the first one started.                                          *)

launchIdle == <<mainWork, serverQueue, mainBatch, owner>>

\* An exception leaves LaunchThreads; PostProcess reports it and tries again.
LaunchFails ==
    /\ state' = "DBConnection"
    /\ mainPc' = "Take"

LaunchSucceeds ==
    /\ state' = "Gathering"
    /\ mainPc' = "Take"

LaunchContinues(label) ==
    /\ mainPc' = label
    /\ UNCHANGED state

\* CreateDBServer and GetCameras; the database may be out of reach.
Connect ==
    /\ mainPc = "Connect"
    /\ \/ LaunchContinues("NewCameraServer")
       \/ LaunchFails
    /\ UNCHANGED <<toStart, recorder, launchIdle, camVars, hallVars>>

\* The new CameraServer is constructed, with its video system, while the old
\* one is still there; the video system may fail to start.
NewCameraServer ==
    /\ mainPc = "NewCameraServer"
    /\ \/ LaunchContinues("DropOldCameras")
       \/ LaunchFails
    /\ UNCHANGED <<toStart, recorder, launchIdle, camVars, hallVars>>

\* Mistake: only a camera without a thread is dropped, the others stay.
DropIdleCameras ==
    /\ mainPc = "DropOldCameras"
    /\ IF \A c \in First(InMap) : CameraRuns(c)
       THEN /\ LaunchContinues("NewHall")
            /\ UNCHANGED camVars
       ELSE /\ \E c \in First(InMap) : DropCamera(c)
            /\ UNCHANGED <<mainPc, state>>
    /\ UNCHANGED <<toStart, recorder, launchIdle, hallVars>>

\* m_CameraServer.reset: the threads of the old one are joined in map order.
DropOldCameras ==
    /\ mainPc = "DropOldCameras"
    /\ IF InMap = {}
       THEN /\ LaunchContinues("NewHall")
            /\ UNCHANGED camVars
       ELSE /\ \E c \in First(InMap) : DropCamera(c)
            /\ UNCHANGED <<mainPc, state>>
    /\ UNCHANGED <<toStart, recorder, launchIdle, hallVars>>

\* m_HallServer.reset with a HallThread that has a stub and no thread yet; the
\* new ActivityRecord; the backup, which may fail to start; the sorted ids.
NewHall ==
    /\ mainPc = "NewHall"
    /\ hallPc' = "NoThread"
    /\ hallAnalyzer' = "stub"
    /\ hallQueue' = <<>>
    /\ hallSeen' = NoRects
    /\ recorder' = TRUE
    /\ toStart' = Cameras
    /\ \/ Cameras = {} /\ LaunchSucceeds
       \/ Cameras # {} /\ LaunchContinues("StartCameras")
       \/ LaunchFails
    /\ UNCHANGED <<hallWork, hallBatch, launchIdle, camVars>>

\* CameraServer::StartThread of c.  No video: the camera stays out of the map.
\* No analyzer: in the map, without a thread.  No thread: the launch fails.
StartCamera(c) ==
    /\ \/ /\ UNCHANGED <<camPc, camWork>>
          /\ LaunchContinues("StartCameras")
       \/ /\ camPc' = [camPc EXCEPT ![c] = "NoThread"]
          /\ UNCHANGED camWork
          /\ LaunchContinues("StartCameras")
       \/ /\ camPc' = [camPc EXCEPT ![c] = "Image"]
          /\ \E f \in FlagValues : camWork' = [camWork EXCEPT ![c] = f]
          /\ LaunchContinues("StartCameras")
       \/ /\ UNCHANGED <<camPc, camWork>>
          /\ LaunchFails
    /\ toStart' = toStart \ {c}
    /\ UNCHANGED <<camQueue, camSeq, invalid, userData>>

StartCameras ==
    /\ mainPc = "StartCameras"
    /\ IF toStart = {}
       THEN /\ LaunchContinues("StartHall")
            /\ UNCHANGED <<toStart, camVars>>
       ELSE \E c \in First(toStart) : StartCamera(c)
    /\ UNCHANGED <<recorder, launchIdle, hallVars>>

\* HallThread::StartThread.  Without parameters or an analyzer it returns with
\* a stub and no thread, and the launch goes on as if the hall worked.
StartHall ==
    /\ mainPc = "StartHall"
    /\ \/ /\ LaunchSucceeds
          /\ UNCHANGED <<hallPc, hallWork, hallAnalyzer>>
       \/ /\ LaunchSucceeds
          /\ hallAnalyzer' = "real"
          /\ hallPc' = "Take"
          /\ hallWork' \in FlagValues
       \/ /\ LaunchFails
          /\ hallAnalyzer' = "real"
          /\ UNCHANGED <<hallPc, hallWork>>
    /\ UNCHANGED <<toStart, recorder, launchIdle, hallQueue, hallBatch, hallSeen, camVars>>

Launch ==
    \/ Connect \/ NewCameraServer \/ DropOldCameras \/ NewHall \/ StartCameras
    \/ StartHall

MainStep ==
    \/ MainTake \/ HandleCameraResponse \/ HandleHallResponse
    \/ GatheringTick \/ NoTick \/ ConnectionTick \/ Launch
=============================================================================
