------------------------------- MODULE Engine -------------------------------
(***************************************************************************)
(* The DVREngine server as a whole: its threads, and the thread that owns  *)
(* the server and destroys it.                                             *)
(***************************************************************************)
EXTENDS CameraThread, HallThread, ServerThread

Init ==
    /\ camPc = [c \in Cameras |-> "Absent"]
    /\ camWork = [c \in Cameras |-> FALSE]
    /\ camQueue = [c \in Cameras |-> <<>>]
    /\ camSeq = NoRects
    /\ invalid = [c \in Cameras |-> FALSE]
    /\ userData = NoRects
    /\ hallPc = "Absent" /\ hallWork = FALSE
    /\ hallQueue = <<>> /\ hallBatch = <<>>
    /\ hallAnalyzer = "none" /\ hallSeen = NoRects
    /\ mainPc = "Take" /\ mainWork \in FlagValues
    /\ serverQueue = <<>> /\ mainBatch = <<>>
    /\ state = "FirstTime" /\ toStart = {} /\ recorder = FALSE
    /\ owner = "Up"

----------------------------------------------------------------------------
(* ~ServerImpl: its body joins the main thread and drops the recorder, then *)
(* the members go, the hall before the cameras.                            *)

ownerIdle == <<mainPc, serverQueue, mainBatch, state, toStart>>

BeginShutdown ==
    /\ owner = "Up"
    /\ owner' = "JoinMain"
    /\ mainWork' = FALSE
    /\ UNCHANGED <<recorder, ownerIdle, camVars, hallVars>>

\* Mistake: the recorder is dropped before the thread that uses it has ended.
MainNotJoined ==
    /\ owner = "JoinMain"
    /\ owner' = "DropRecorder"
    /\ UNCHANGED <<mainWork, recorder, ownerIdle, camVars, hallVars>>

MainJoined ==
    /\ owner = "JoinMain"
    /\ mainPc = "Off"
    /\ owner' = "DropRecorder"
    /\ UNCHANGED <<mainWork, recorder, ownerIdle, camVars, hallVars>>

DropRecorder ==
    /\ owner = "DropRecorder"
    /\ recorder' = FALSE
    /\ owner' = IF hallPc = "Absent" THEN "DropCameras" ELSE "DeleteAnalyzer"
    /\ UNCHANGED <<mainWork, ownerIdle, camVars, hallVars>>

\* ~HallThread has an empty body: its member m_pAnalyzer is deleted first, and
\* only the destructor of the base BaseQueueThread stops and joins the thread.
DeleteAnalyzer ==
    /\ owner = "DeleteAnalyzer"
    /\ hallAnalyzer' = "deleted"
    /\ owner' = "StopHall"
    /\ UNCHANGED <<recorder, mainWork, ownerIdle, camVars, hallPc, hallWork,
                   hallQueue, hallBatch, hallSeen>>

\* Mistake: the thread is joined and was never told to stop.
HallNotStopped ==
    /\ owner = "StopHall"
    /\ owner' = "JoinHall"
    /\ UNCHANGED <<recorder, mainWork, ownerIdle, camVars, hallVars>>

StopHall ==
    /\ owner = "StopHall"
    /\ hallWork' = FALSE
    /\ owner' = "JoinHall"
    /\ UNCHANGED <<recorder, mainWork, ownerIdle, camVars, hallPc, hallAnalyzer,
                   hallQueue, hallBatch, hallSeen>>

\* Mistake: the hall's object goes away without waiting for its thread.
HallNotJoined ==
    /\ owner = "JoinHall"
    /\ owner' = "DropCameras"
    /\ UNCHANGED <<recorder, mainWork, ownerIdle, camVars, hallVars>>

HallJoined ==
    /\ owner = "JoinHall"
    /\ ~HallRuns
    /\ hallPc' = "Absent"
    /\ hallQueue' = <<>>
    /\ owner' = "DropCameras"
    /\ UNCHANGED <<recorder, mainWork, ownerIdle, camVars, hallWork, hallAnalyzer,
                   hallBatch, hallSeen>>

DropCameras ==
    /\ owner = "DropCameras"
    /\ IF InMap = {}
       THEN owner' = "Down" /\ UNCHANGED camVars
       ELSE (\E c \in First(InMap) : DropCamera(c)) /\ UNCHANGED owner
    /\ UNCHANGED <<recorder, mainWork, ownerIdle, hallVars>>

Destroy ==
    \/ MainJoined \/ DropRecorder \/ DeleteAnalyzer \/ StopHall \/ HallJoined
    \/ DropCameras

----------------------------------------------------------------------------
Next ==
    \/ \E c \in Cameras : CameraStep(c)
    \/ HallStep
    \/ MainStep
    \/ BeginShutdown
    \/ Destroy

Spec == Init /\ [][Next]_vars

----------------------------------------------------------------------------
(* Safety.                                                                 *)

\* A camera that has lost its signal writes no rectangles into its video: the
\* loss clears those set before, and answers of the hall that were on their
\* way do not set them again (CameraThread.cpp:158-162, 195-204).
NoRectsWithoutSignal == \A c \in Cameras : invalid[c] => userData[c] = 0

InSeq(s) == {s[i] : i \in DOMAIN s}

\* The frames of c whose data are on their way to the hall's analyzer.
InFlight(c) ==
    {m.frame : m \in {x \in InSeq(serverQueue) \cup InSeq(mainBatch)
                             \cup InSeq(hallQueue) \cup InSeq(hallBatch) :
                         x \in {CameraResponse(c, n) : n \in Frames}
                               \cup {HallSetCamera(c, n) : n \in Frames}}}

\* From the camera's thread over the server's queue and the hall's to the
\* analyzer, the data of a camera's frames form one lossy first-in first-out
\* channel, whatever launches fail, queues overflow or analyzers throw: the
\* hall never sees a frame twice or after a later one (ServerImpl.cpp:155-188).
Channel(c) == INSTANCE LossyFifo WITH
    sent <- camSeq[c], pending <- InFlight(c), delivered <- hallSeen[c]
FramesInOrder ==
    /\ \A c \in Cameras : Channel(c)!FifoInit
    /\ [][\A c \in Cameras : [Channel(c)!FifoNext]_(Channel(c)!fifoVars)]_vars

\* The frame from which a message has rectangles for c, or 0.
RectsFrom(m, c) ==
    IF m.type \in {"HallResponse", "CameraSetHall"} THEN m.rects[c] ELSE 0
RectsIn(s, c) == [i \in DOMAIN s |-> RectsFrom(s[i], c)]

\* What c shows, what will be shown after it, and what the hall knows.
RectsPath(c) ==
    <<userData[c]>> \o RectsIn(camQueue[c], c) \o RectsIn(mainBatch, c)
        \o RectsIn(serverQueue, c) \o <<hallSeen[c]>>

\* Rectangles reach the video in the order the hall computed them: along the
\* way back none comes from an older frame than those ahead of it
\* (ServerImpl.cpp:193-205, CameraServer.cpp:62-69).
RectsInOrder ==
    \A c \in Cameras :
        LET path == RectsPath(c)
        IN  \A i, j \in DOMAIN path :
                i < j /\ path[i] # 0 /\ path[j] # 0 => path[i] <= path[j]

\* No queue outgrows its limit, also when nobody empties it: a hall without
\* its analyzer, a camera without its own (MessageQueue.h:40-48,
\* HallThread.cpp:62-69, CameraThread.cpp:56-61).
QueuesBounded ==
    /\ \A c \in Cameras : Len(camQueue[c]) <= Capacity
    /\ Len(hallQueue) <= Capacity
    /\ Len(serverQueue) <= Capacity

\* A launch that is tried again starts nothing next to what an earlier one
\* left behind: the hall it replaces has no thread, and no camera it starts is
\* still in the map (ServerImpl.cpp:230-231, 250).
RelaunchFromScratch ==
    /\ mainPc = "NewHall" => InMap = {} /\ ~HallRuns
    /\ mainPc = "StartCameras" => \A c \in toStart : camPc[c] = "Absent"

\* An answer of the hall always finds the activity record to write to, through
\* failed launches and during the destruction (ServerImpl.cpp:103-107, 212-215).
RecorderPresent ==
    mainPc = "Batch" /\ Head(mainBatch).type = "HallResponse" => recorder

\* Nothing is destroyed before the threads that use it have ended: the main
\* thread sends to the hall and the cameras, the hall to the server, the
\* cameras to the server (ServerImpl.h:49-63, ServerImpl.cpp:103-107).
UsersGoFirst ==
    /\ mainPc # "Off" => owner \in {"Up", "JoinMain"}
    /\ HallRuns => owner \notin {"DropCameras", "Down"}
    /\ (\E c \in Cameras : CameraRuns(c)) => owner # "Down"

----------------------------------------------------------------------------
(* What the code says of itself and does not keep.                         *)

\* "Such a message must not be": the assertion in the server's first state
\* (ServerThreadState.cpp:47, with the words of BaseMessageProcessor.h).
NoInadmissibleMessage ==
    mainPc = "Batch" /\ Head(mainBatch).type = "CameraResponse" => state = "Gathering"

\* The hall's messages are handled by the analyzer m_pAnalyzer points to.
HallAnalyzerAlive == hallPc = "Batch" => hallAnalyzer = "real"

\* The flag of work (AnalyzeThread.h:40): a thread works until it is told to
\* end, which only the destructor of its owner does.
WorksUntilTold ==
    /\ mainPc = "Off" => owner # "Up"
    /\ hallPc = "Off" => owner # "Up"

----------------------------------------------------------------------------
(* Liveness.  Every thread is scheduled, a timer that runs ticks, and the  *)
(* database, the video system and the system's threads are there again and *)
(* again when a launch needs them.                                         *)

StartCameraSucceeds == StartCameras /\ mainPc' # "Take"

Fairness ==
    /\ WF_vars(MainStep)
    /\ WF_vars(HallStep)
    /\ \A c \in Cameras : WF_vars(CameraStep(c))
    /\ WF_vars(Destroy)
    /\ SF_vars(GatheringTick)
    /\ SF_vars(ConnectionTick)
    /\ SF_vars(Connect /\ mainPc' = "NewCameraServer")
    /\ SF_vars(NewCameraServer /\ mainPc' = "DropOldCameras")
    /\ SF_vars(NewHall /\ (mainPc' = "StartCameras" \/ state' = "Gathering"))
    /\ SF_vars(StartCameraSucceeds)
    /\ SF_vars(StartHall /\ state' = "Gathering")

FairSpec == Spec /\ Fairness

\* A server whose launch failed keeps trying until it gathers
\* (ServerThreadDBConnection.cpp:34-60).
LaunchRetried == <>(state = "Gathering" \/ owner # "Up")

\* The destruction ends, whatever the threads are doing when it begins, also
\* in the middle of a launch that waits for cameras (ServerImpl.cpp:103-107).
ShutdownCompletes == owner # "Up" ~> owner = "Down"

\* With a hall that works, a frame's data do not stay in the queues: they reach
\* the analyzer or are lost (ServerThreadGathering.cpp:47-60).
FramesSettle ==
    \A c \in Cameras : \A n \in Frames :
        HallRuns /\ n \in InFlight(c) ~> n \notin InFlight(c) \/ owner # "Up"
=============================================================================
