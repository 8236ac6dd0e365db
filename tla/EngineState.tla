---------------------------- MODULE EngineState ----------------------------
(***************************************************************************)
(* The state of the DVREngine server (ServerImpl) and the messages its     *)
(* threads exchange.  The threads are the main server thread, the hall     *)
(* thread, one thread per camera, and the owner's thread that destroys the *)
(* server.  Each of the first three has a message queue of its own and     *)
(* takes it over in whole, as module MessageQueue describes.  A loop reads *)
(* its work flag in the step that follows the check: whoever clears a flag *)
(* does nothing but wait until the thread has seen it.                     *)
(*                                                                         *)
(* A camera's frames are numbered.  Whatever is computed from frame n of   *)
(* camera c is represented by n: the analyzer's data for the hall, and the *)
(* rectangles the hall answers with; 0 stands for "no rectangles".         *)
(***************************************************************************)
EXTENDS MessageQueueOps, FiniteSets

CONSTANTS
    Cameras,      \* m_CameraIDArr: the ids the database returns
    MaxFrames,    \* bound on the frames each camera delivers
    MaxRequests,  \* bound on the requests that wait in the hall's queue
    FlagValues    \* what m_CondWorking, never initialised, may hold at first

ASSUME CamerasAssumption == Cameras \subseteq Nat /\ IsFiniteSet(Cameras)
ASSUME BoundsAssumption == MaxFrames \in Nat /\ MaxRequests \in Nat
ASSUME FlagAssumption == FlagValues \subseteq BOOLEAN /\ TRUE \in FlagValues

VARIABLES
    \* one CameraThread per camera
    camPc,          \* "Absent" from the map, else where its thread is
    camWork,        \* m_CondWorking of its ControlledThread
    camQueue,       \* m_Queue of its BaseQueueThread
    camSeq,         \* the number of the last frame read
    invalid,        \* m_bInvalidImageMode
    userData,       \* the rectangles set into its video stream
    \* the HallThread
    hallPc, hallWork, hallQueue, hallBatch,
    hallAnalyzer,   \* what m_pAnalyzer points to
    hallSeen,       \* the frame of each camera the analyzer was last given
    \* ServerImpl and its thread
    mainPc, mainWork, serverQueue, mainBatch,
    state,          \* the ServerThreadState object
    toStart,        \* the cameras LaunchThreads has yet to start
    recorder,       \* m_FrameActivityStatistics is not null
    \* the thread that owns ServerImpl
    owner

camVars == <<camPc, camWork, camQueue, camSeq, invalid, userData>>
hallVars == <<hallPc, hallWork, hallQueue, hallBatch, hallAnalyzer, hallSeen>>
launchVars == <<state, toStart, recorder>>
mainVars == <<mainPc, mainWork, serverQueue, mainBatch, launchVars>>
vars == <<camVars, hallVars, mainVars, owner>>

----------------------------------------------------------------------------
Frames == 1..MaxFrames

\* Frames_t: for each camera the frame its rectangles come from, or none.
Rects == [Cameras -> 0..MaxFrames]
NoRects == [c \in Cameras |-> 0]

CameraResponse(c, n) == [type |-> "CameraResponse", camera |-> c, frame |-> n]
HallSetCamera(c, n) == [type |-> "HallSetCamera", camera |-> c, frame |-> n]
HallRequest == [type |-> "HallRequest"]
HallResponse(r) == [type |-> "HallResponse", rects |-> r]
CameraSetHall(r) == [type |-> "CameraSetHall", rects |-> r]

ServerMessages ==
    {CameraResponse(c, n) : c \in Cameras, n \in Frames}
        \cup {HallResponse(r) : r \in Rects}
HallMessages ==
    {HallSetCamera(c, n) : c \in Cameras, n \in Frames} \cup {HallRequest}
CameraMessages == {CameraSetHall(r) : r \in Rects}

----------------------------------------------------------------------------
CamLabels == {"Absent", "NoThread", "Image", "Take", "Off"}
HallLabels == {"Absent", "NoThread", "Take", "Batch", "Off"}
MainLabels == {"Take", "Batch", "Post", "Connect", "NewCameraServer",
               "DropOldCameras", "NewHall", "StartCameras", "StartHall", "Off"}
OwnerLabels == {"Up", "JoinMain", "DropRecorder", "DeleteAnalyzer", "StopHall",
                "JoinHall", "DropCameras", "Down"}

TypeOK ==
    /\ camPc \in [Cameras -> CamLabels]
    /\ camWork \in [Cameras -> BOOLEAN]
    /\ camQueue \in [Cameras -> Seq(CameraMessages)]
    /\ camSeq \in Rects
    /\ invalid \in [Cameras -> BOOLEAN]
    /\ userData \in Rects
    /\ hallPc \in HallLabels /\ hallWork \in BOOLEAN
    /\ hallQueue \in Seq(HallMessages) /\ hallBatch \in Seq(HallMessages)
    /\ hallAnalyzer \in {"none", "stub", "real", "deleted"}
    /\ hallSeen \in Rects
    /\ mainPc \in MainLabels /\ mainWork \in BOOLEAN
    /\ serverQueue \in Seq(ServerMessages) /\ mainBatch \in Seq(ServerMessages)
    /\ state \in {"FirstTime", "DBConnection", "Gathering"}
    /\ toStart \subseteq Cameras
    /\ recorder \in BOOLEAN
    /\ owner \in OwnerLabels

----------------------------------------------------------------------------
\* The thread of c runs, so that whoever destroys c has to wait for it.
CameraRuns(c) == camPc[c] \in {"Image", "Take"}
HallRuns == hallPc \in {"Take", "Batch"}

\* The cameras in m_CameraThreads; the first of a set in the map's order.
InMap == {c \in Cameras : camPc[c] # "Absent"}
First(S) == {c \in S : \A d \in S : c <= d}

\* ~CameraThread: m_Thread.reset() clears the work flag, then joins; once the
\* thread has left its loop, the object, its queue and its stream are gone.
DropCamera(c) ==
    \/ /\ CameraRuns(c) /\ camWork[c]
       /\ camWork' = [camWork EXCEPT ![c] = FALSE]
       /\ UNCHANGED <<camPc, camQueue, camSeq, invalid, userData>>
    \/ /\ ~CameraRuns(c)
       /\ camPc' = [camPc EXCEPT ![c] = "Absent"]
       /\ camQueue' = [camQueue EXCEPT ![c] = <<>>]
       /\ invalid' = [invalid EXCEPT ![c] = FALSE]
       /\ userData' = [userData EXCEPT ![c] = 0]
       /\ UNCHANGED <<camWork, camSeq>>
=============================================================================
