----------------------------- MODULE HallThread -----------------------------
(***************************************************************************)
(* The hall's thread (HallThread.cpp): it gives the cameras' data to the   *)
(* hall analyzer and answers the server's requests with the rectangles of  *)
(* the objects in motion.                                                  *)
(***************************************************************************)
EXTENDS EngineState

notHall == <<camVars, mainPc, mainWork, mainBatch, launchVars, owner>>

\* Mistake: the queue is copied to the batch and not cleared.
HallTakeKeeps ==
    /\ hallPc = "Take"
    /\ \/ /\ ~hallWork
          /\ hallPc' = "Off"
          /\ UNCHANGED hallBatch
       \/ /\ hallWork
          /\ hallQueue # <<>>
          /\ hallBatch' = hallQueue
          /\ hallPc' = "Batch"
    /\ UNCHANGED <<hallWork, hallQueue, hallAnalyzer, hallSeen, serverQueue, notHall>>

\* One pass of ControlledThread's loop: the flag, then the locked part of
\* ProcessQueue.
HallTake ==
    /\ hallPc = "Take"
    /\ \/ /\ ~hallWork
          /\ hallPc' = "Off"
          /\ UNCHANGED <<hallQueue, hallBatch>>
       \/ /\ hallWork
          /\ hallQueue # <<>>
          /\ hallBatch' = hallQueue
          /\ hallQueue' = <<>>
          /\ hallPc' = "Batch"
    /\ UNCHANGED <<hallWork, hallAnalyzer, hallSeen, serverQueue, notHall>>

Handled ==
    /\ hallBatch' = Tail(hallBatch)
    /\ hallPc' = IF Len(hallBatch) = 1 THEN "Take" ELSE "Batch"

\* Process(MsgHallSetCameraData): the analyzer takes the data of one frame.
HandleSetCamera ==
    /\ hallPc = "Batch"
    /\ Head(hallBatch).type = "HallSetCamera"
    /\ hallSeen' = [hallSeen EXCEPT ![Head(hallBatch).camera] = Head(hallBatch).frame]
    /\ Handled
    /\ UNCHANGED <<hallWork, hallQueue, hallAnalyzer, serverQueue, notHall>>

\* Mistake: the answer is made of the data that still wait in the queue.
HandleRequestAhead ==
    /\ hallPc = "Batch"
    /\ Head(hallBatch).type = "HallRequest"
    /\ serverQueue' = Push(serverQueue, HallResponse(camSeq))
    /\ Handled
    /\ UNCHANGED <<hallWork, hallQueue, hallAnalyzer, hallSeen, notHall>>

\* Process(MsgHallRequestAlarmData): the analyzer reports motion at some of
\* the cameras it has data of, and the answer goes to the server's queue.
HandleRequest ==
    /\ hallPc = "Batch"
    /\ Head(hallBatch).type = "HallRequest"
    /\ \E moving \in SUBSET {c \in Cameras : hallSeen[c] > 0} :
          LET r == [c \in Cameras |-> IF c \in moving THEN hallSeen[c] ELSE 0]
          IN  serverQueue' = Push(serverQueue, HallResponse(r))
    /\ Handled
    /\ UNCHANGED <<hallWork, hallQueue, hallAnalyzer, hallSeen, notHall>>

\* Mistake: after the exception the same batch is taken up again.
HallRetries ==
    /\ hallPc = "Batch"
    /\ Head(hallBatch).type = "HallSetCamera"
    /\ hallSeen' = [hallSeen EXCEPT ![Head(hallBatch).camera] = Head(hallBatch).frame]
    /\ UNCHANGED <<hallPc, hallWork, hallQueue, hallBatch, hallAnalyzer, serverQueue, notHall>>

\* The analyzer throws at either message, DoAction swallows it, and the rest
\* of the batch is lost.  Data given to it before it threw stay in it.
HallThrows ==
    /\ hallPc = "Batch"
    /\ hallBatch' = <<>>
    /\ hallPc' = "Take"
    /\ \/ UNCHANGED hallSeen
       \/ /\ Head(hallBatch).type = "HallSetCamera"
          /\ hallSeen' = [hallSeen EXCEPT ![Head(hallBatch).camera] = Head(hallBatch).frame]
    /\ UNCHANGED <<hallWork, hallQueue, hallAnalyzer, serverQueue, notHall>>

HallStep == HallTake \/ HandleSetCamera \/ HandleRequest \/ HallThrows
=============================================================================
