---------------------------- MODULE CameraThread ----------------------------
(***************************************************************************)
(* The thread of one camera (CameraThread.cpp, with the loop of            *)
(* ControlledThread): read a frame, analyse it, send the result to the     *)
(* server, then handle the answers of the hall.                            *)
(***************************************************************************)
EXTENDS EngineState

notCamera == <<hallVars, mainPc, mainWork, mainBatch, launchVars, owner>>

GoTo(c, label) == camPc' = [camPc EXCEPT ![c] = label]

Reads(c) == camPc[c] = "Image" /\ camWork[c]

\* The loop of ControlledThread ends when it finds the flag cleared.
CameraStops(c) ==
    /\ camPc[c] = "Image"
    /\ ~camWork[c]
    /\ GoTo(c, "Off")
    /\ UNCHANGED <<camWork, camQueue, camSeq, invalid, userData, serverQueue, notCamera>>

NewFrame(c) ==
    /\ camSeq[c] < MaxFrames
    /\ camSeq' = [camSeq EXCEPT ![c] = @ + 1]
    /\ invalid' = [invalid EXCEPT ![c] = FALSE]

\* Read found a frame with a signal; the analyzer processed it, and if it has
\* data for the hall the data goes to the server's queue.
GoodFrame(c) ==
    /\ Reads(c)
    /\ NewFrame(c)
    /\ \/ serverQueue' = Push(serverQueue, CameraResponse(c, camSeq[c] + 1))
       \/ UNCHANGED serverQueue                       \* GetData failed
    /\ GoTo(c, "Take")
    /\ UNCHANGED <<camWork, camQueue, userData, notCamera>>

\* The analyzer throws: DoAction swallows it, and this pass of the loop ends
\* before ProcessQueue.
AnalyzerThrows(c) ==
    /\ Reads(c)
    /\ NewFrame(c)
    /\ UNCHANGED <<camPc, camWork, camQueue, userData, serverQueue, notCamera>>

\* Mistake: the mode is remembered, the rectangles are left in the video.
BadFrameKeepsRects(c) ==
    /\ Reads(c)
    /\ invalid' = [invalid EXCEPT ![c] = TRUE]
    /\ GoTo(c, "Take")
    /\ UNCHANGED <<camWork, camQueue, camSeq, userData, serverQueue, notCamera>>

\* No frame within the timeout, or no signal in it.  The test for a frame equal
\* to the last one never holds: EqualFrameDetection remembers no time.
BadFrame(c) ==
    /\ Reads(c)
    /\ invalid' = [invalid EXCEPT ![c] = TRUE]
    /\ userData' = [userData EXCEPT ![c] = 0]
    /\ GoTo(c, "Take")
    /\ UNCHANGED <<camWork, camQueue, camSeq, serverQueue, notCamera>>

\* What the stream holds after the first n answers in the queue: each replaces
\* the rectangles of the one before it, unless the image is invalid.
Show(c, n) ==
    userData' = IF n = 0 \/ invalid[c] THEN userData
                ELSE [userData EXCEPT ![c] = camQueue[c][n].rects[c]]

\* ProcessQueue: all the answers are taken; they are handled in order, up to
\* one at which the analyzer throws and with it the rest of them is lost.  The
\* handlers touch nothing another thread reads, so they are one step.
CameraTake(c) ==
    /\ camPc[c] = "Take"
    /\ \E n \in 0..Len(camQueue[c]) : Show(c, n)
    /\ camQueue' = [camQueue EXCEPT ![c] = <<>>]
    /\ GoTo(c, "Image")
    /\ UNCHANGED <<camWork, camSeq, invalid, serverQueue, notCamera>>

CameraStep(c) ==
    \/ CameraStops(c) \/ GoodFrame(c) \/ AnalyzerThrows(c) \/ BadFrame(c)
    \/ CameraTake(c)
=============================================================================
