---------------------------- MODULE EngineFrames ----------------------------
(***************************************************************************)
(* The path of a camera's frames to the hall is a lossy first-in first-out *)
(* channel, and the rectangles made from them come back in order, for      *)
(* every set of cameras and every bound.  The argument: along the path     *)
(* hallBatch, hallQueue, mainBatch, serverQueue the frames of one camera   *)
(* increase, and all lie between the frame the hall has seen last and the  *)
(* frame the camera has read last; along the way back userData, camQueue,  *)
(* mainBatch, serverQueue they do not decrease, and the hall has seen the  *)
(* last.                                                                   *)
(***************************************************************************)
EXTENDS EngineSafety

Data(m, c) == m.type \in {"CameraResponse", "HallSetCamera"} /\ m.camera = c

\* The frames of c in a queue, and that they are in order.
FramesIn(q, c) == {q[i].frame : i \in {j \in DOMAIN q : Data(q[j], c)}}
Sorted(q, c) ==
    \A i, j \in DOMAIN q : i < j /\ Data(q[i], c) /\ Data(q[j], c) => q[i].frame < q[j].frame

Below(A, B) == \A a \in A, b \in B : a < b

LineInv(c) ==
    /\ Sorted(hallBatch, c) /\ Sorted(hallQueue, c)
    /\ Sorted(mainBatch, c) /\ Sorted(serverQueue, c)
    /\ Below(FramesIn(hallBatch, c), FramesIn(hallQueue, c))
    /\ Below(FramesIn(hallBatch, c), FramesIn(mainBatch, c))
    /\ Below(FramesIn(hallBatch, c), FramesIn(serverQueue, c))
    /\ Below(FramesIn(hallQueue, c), FramesIn(mainBatch, c))
    /\ Below(FramesIn(hallQueue, c), FramesIn(serverQueue, c))
    /\ Below(FramesIn(mainBatch, c), FramesIn(serverQueue, c))
    /\ Below({hallSeen[c]}, FramesIn(hallBatch, c) \cup FramesIn(hallQueue, c)
                              \cup FramesIn(mainBatch, c) \cup FramesIn(serverQueue, c))
    /\ \A n \in FramesIn(hallBatch, c) \cup FramesIn(hallQueue, c)
                  \cup FramesIn(mainBatch, c) \cup FramesIn(serverQueue, c) : n <= camSeq[c]
    /\ hallSeen[c] <= camSeq[c]

\* A batch is empty outside the loop that handles it, and a hall that has
\* never run has seen nothing.
AtRest ==
    /\ hallPc # "Batch" => hallBatch = <<>>
    /\ mainPc # "Batch" => mainBatch = <<>>
    /\ state # "Gathering" => hallSeen = NoRects

FrameInv == ControlInv /\ AtRest /\ \A c \in Cameras : LineInv(c)

----------------------------------------------------------------------------
(* What happens to the frames of c when a queue changes.                   *)

Msgs == ServerMessages \cup HallMessages \cup CameraMessages

\* An element of a queue after Push is the message, or an element of the
\* queue before; the order of the latter is kept, and the message is last.
LEMMA PushElements ==
    ASSUME NEW q \in Seq(Msgs), NEW m \in Msgs
    PROVE  /\ Push(q, m) \in Seq(Msgs)
           /\ \E d \in {0, 1} :
                /\ Len(Push(q, m)) = Len(q) + 1 - d
                /\ Push(q, m)[Len(q) + 1 - d] = m
                /\ \A i \in 1..(Len(q) - d) : i + d \in DOMAIN q /\ Push(q, m)[i] = q[i + d]
<1> DEFINE Shifted(d) ==
             /\ Len(Push(q, m)) = Len(q) + 1 - d
             /\ Push(q, m)[Len(q) + 1 - d] = m
             /\ \A i \in 1..(Len(q) - d) : i + d \in DOMAIN q /\ Push(q, m)[i] = q[i + d]
<1>1. Len(q) \in Nat /\ MaxSize \in Nat
  BY MaxSizeAssumption
<1>2. MaxSize < Len(q) => Shifted(1)
  <2> SUFFICES ASSUME MaxSize < Len(q) PROVE Shifted(1)
    OBVIOUS
  <2>1. Push(q, m) = Append(Tail(q), m) /\ Tail(q) \in Seq(Msgs) /\ Len(Tail(q)) = Len(q) - 1
    BY <1>1 DEF Push
  <2>2. \A i \in 1..(Len(q) - 1) : i + 1 \in DOMAIN q /\ Tail(q)[i] = q[i + 1]
    BY <1>1, <2>1
  <2>3. /\ Len(Append(Tail(q), m)) = Len(q) /\ Append(Tail(q), m)[Len(q)] = m
        /\ \A i \in 1..(Len(q) - 1) : Append(Tail(q), m)[i] = Tail(q)[i]
    BY <1>1, <2>1
  <2> QED
    BY <1>1, <2>1, <2>2, <2>3
<1>3. ~(MaxSize < Len(q)) => Shifted(0)
  <2> SUFFICES ASSUME ~(MaxSize < Len(q)) PROVE Shifted(0)
    OBVIOUS
  <2>1. Push(q, m) = Append(q, m)
    BY DEF Push
  <2> QED
    BY <1>1, <2>1
<1>4. \E d \in {0, 1} : Shifted(d)
  <2> HIDE DEF Shifted
  <2> QED
    BY <1>2, <1>3
<1> QED
  BY <1>4, PushType

LEMMA PushFrames ==
    ASSUME NEW q \in Seq(Msgs), NEW m \in Msgs, NEW c
    PROVE  \A n \in FramesIn(Push(q, m), c) :
              n \in FramesIn(q, c) \/ (Data(m, c) /\ n = m.frame)
<1>1. PICK d \in {0, 1} :
         /\ Len(Push(q, m)) = Len(q) + 1 - d
         /\ Push(q, m)[Len(q) + 1 - d] = m
         /\ \A i \in 1..(Len(q) - d) : i + d \in DOMAIN q /\ Push(q, m)[i] = q[i + d]
  BY PushElements
<1>2. Push(q, m) \in Seq(Msgs) /\ Len(q) \in Nat
  BY PushElements
<1> SUFFICES ASSUME NEW i \in DOMAIN Push(q, m), Data(Push(q, m)[i], c)
             PROVE  \/ Push(q, m)[i].frame \in FramesIn(q, c)
                    \/ Data(m, c) /\ Push(q, m)[i].frame = m.frame
  BY DEF FramesIn
<1>3. CASE i = Len(q) + 1 - d
  BY <1>1, <1>3
<1>4. CASE i # Len(q) + 1 - d
  <2>1. i \in 1..(Len(q) - d)
    BY <1>1, <1>2, <1>4
  <2> QED
    BY <1>1, <2>1 DEF FramesIn
<1> QED
  BY <1>3, <1>4

LEMMA PushSorted ==
    ASSUME NEW q \in Seq(Msgs), NEW m \in Msgs, NEW c, Sorted(q, c),
           Data(m, c) => \A n \in FramesIn(q, c) : n < m.frame
    PROVE  Sorted(Push(q, m), c)
<1>1. PICK d \in {0, 1} :
         /\ Len(Push(q, m)) = Len(q) + 1 - d
         /\ Push(q, m)[Len(q) + 1 - d] = m
         /\ \A i \in 1..(Len(q) - d) : i + d \in DOMAIN q /\ Push(q, m)[i] = q[i + d]
  BY PushElements
<1>2. Push(q, m) \in Seq(Msgs) /\ Len(q) \in Nat
  BY PushElements
<1> SUFFICES ASSUME NEW i \in DOMAIN Push(q, m), NEW j \in DOMAIN Push(q, m), i < j,
                    Data(Push(q, m)[i], c), Data(Push(q, m)[j], c)
             PROVE  Push(q, m)[i].frame < Push(q, m)[j].frame
  BY DEF Sorted
<1>3. i \in 1..(Len(q) - d)
  BY <1>1, <1>2
<1>4. i + d \in DOMAIN q /\ Push(q, m)[i] = q[i + d] /\ q[i + d].frame \in FramesIn(q, c)
  BY <1>1, <1>3 DEF FramesIn
<1>5. CASE j = Len(q) + 1 - d
  BY <1>1, <1>4, <1>5
<1>6. CASE j # Len(q) + 1 - d
  <2>1. j \in 1..(Len(q) - d) /\ i + d < j + d
    BY <1>1, <1>2, <1>6
  <2>2. j + d \in DOMAIN q /\ Push(q, m)[j] = q[j + d]
    BY <1>1, <2>1
  <2> QED
    BY <1>4, <2>1, <2>2 DEF Sorted
<1> QED
  BY <1>5, <1>6

LEMMA TailFrames ==
    ASSUME NEW q \in Seq(Msgs), q # <<>>, NEW c, Sorted(q, c)
    PROVE  /\ FramesIn(Tail(q), c) \subseteq FramesIn(q, c)
           /\ Sorted(Tail(q), c)
           /\ Data(Head(q), c) => /\ Head(q).frame \in FramesIn(q, c)
                                  /\ \A n \in FramesIn(Tail(q), c) : Head(q).frame < n
<1>1. /\ Len(q) \in Nat /\ 1 \in DOMAIN q /\ Head(q) = q[1]
      /\ \A i \in DOMAIN Tail(q) : i \in Nat /\ i + 1 \in DOMAIN q /\ Tail(q)[i] = q[i + 1] /\ 1 < i + 1
  OBVIOUS
<1>2. FramesIn(Tail(q), c) \subseteq FramesIn(q, c)
  BY <1>1 DEF FramesIn
<1>3. Sorted(Tail(q), c)
  <2> SUFFICES ASSUME NEW i \in DOMAIN Tail(q), NEW j \in DOMAIN Tail(q), i < j,
                      Data(Tail(q)[i], c), Data(Tail(q)[j], c)
               PROVE  Tail(q)[i].frame < Tail(q)[j].frame
    BY DEF Sorted
  <2>1. i + 1 < j + 1
    BY <1>1
  <2> QED
    BY <1>1, <2>1 DEF Sorted
<1>4. ASSUME Data(Head(q), c)
      PROVE  /\ Head(q).frame \in FramesIn(q, c)
             /\ \A n \in FramesIn(Tail(q), c) : Head(q).frame < n
  BY <1>1, <1>4 DEF FramesIn, Sorted
<1> QED
  BY <1>2, <1>3, <1>4

LEMMA NoFrames == \A c : FramesIn(<<>>, c) = {} /\ Sorted(<<>>, c)
  BY DEF FramesIn, Sorted

\* Which messages carry frames of c, and which do not.
LEMMA DataOf ==
    ASSUME NEW c \in Cameras
    PROVE  /\ \A d \in Cameras, n \in Frames :
                 /\ Data(CameraResponse(d, n), c) <=> d = c
                 /\ CameraResponse(d, n).frame = n
                 /\ Data(HallSetCamera(d, n), c) <=> d = c
                 /\ HallSetCamera(d, n).frame = n
           /\ ~Data(HallRequest, c)
           /\ \A r \in Rects : ~Data(HallResponse(r), c)
           /\ \A m \in Msgs : Data(m, c) => m.frame \in Frames
  BY MessageFields
     DEF Data, CameraResponse, HallSetCamera, HallRequest, HallResponse, CameraSetHall,
         Msgs, ServerMessages, HallMessages, CameraMessages

LEMMA FramesInAreFrames ==
    ASSUME NEW c \in Cameras, NEW q \in Seq(Msgs)
    PROVE  FramesIn(q, c) \subseteq Frames
  BY DataOf DEF FramesIn

LEMMA DataMeaning ==
    ASSUME NEW c \in Cameras
    PROVE  \A m \in Msgs : Data(m, c) <=> m \in {CameraResponse(c, n) : n \in Frames}
                                                \cup {HallSetCamera(c, n) : n \in Frames}
  BY DEF Data, Msgs, ServerMessages, HallMessages, CameraMessages, CameraResponse,
         HallSetCamera, HallRequest, HallResponse, CameraSetHall

LineFrames(c) == FramesIn(hallBatch, c) \cup FramesIn(hallQueue, c)
                    \cup FramesIn(mainBatch, c) \cup FramesIn(serverQueue, c)

LEMMA InFlightFrames ==
    ASSUME NEW c \in Cameras, TypeOK, TypeOK'
    PROVE  InFlight(c) = LineFrames(c) /\ InFlight(c)' = LineFrames(c)'
<1>1. \A q \in Seq(Msgs) : \A i \in DOMAIN q : q[i] \in Msgs
  OBVIOUS
<1>2. /\ hallBatch \in Seq(Msgs) /\ hallQueue \in Seq(Msgs)
      /\ mainBatch \in Seq(Msgs) /\ serverQueue \in Seq(Msgs)
  BY DEF Msgs, TypeOK
<1>3. /\ hallBatch' \in Seq(Msgs) /\ hallQueue' \in Seq(Msgs)
      /\ mainBatch' \in Seq(Msgs) /\ serverQueue' \in Seq(Msgs)
  BY DEF Msgs, TypeOK
<1> DEFINE D == {CameraResponse(c, n) : n \in Frames} \cup {HallSetCamera(c, n) : n \in Frames}
           Part(q) == {m.frame : m \in {x \in InSeq(q) : x \in D}}
<1>4. ASSUME NEW q \in Seq(Msgs) PROVE FramesIn(q, c) = Part(q)
  <2>1. \A i \in DOMAIN q : Data(q[i], c) <=> q[i] \in D
    BY <1>1, DataMeaning
  <2> HIDE DEF D
  <2> QED
    BY <2>1 DEF FramesIn, InSeq
<1>5. /\ InFlight(c) = Part(hallBatch) \cup Part(hallQueue) \cup Part(mainBatch) \cup Part(serverQueue)
      /\ InFlight(c)' = Part(hallBatch') \cup Part(hallQueue') \cup Part(mainBatch')
                          \cup Part(serverQueue')
  BY DEF InFlight, InSeq
<1> HIDE DEF Part
<1>6. InFlight(c) = LineFrames(c)
  BY <1>2, <1>4, <1>5 DEF LineFrames
<1>7. InFlight(c)' = LineFrames(c)'
  BY <1>3, <1>4, <1>5 DEF LineFrames
<1> QED
  BY <1>6, <1>7

----------------------------------------------------------------------------
(* The steps.  Each keeps the line of every camera c in order, and is a    *)
(* step of c's channel: Send, Deliver, or else Lose, which covers the      *)
(* steps that change nothing of it.                                        *)

\* What every case below may assume and has to show of one camera.
Given(c) == FrameInv /\ TypeOK' /\ c \in Cameras
Shown(c) == LineInv(c)' /\ Channel(c)!FifoNext

LEMMA QueueTypes ==
    ASSUME NEW c \in Cameras, TypeOK
    PROVE  /\ hallBatch \in Seq(Msgs) /\ hallQueue \in Seq(Msgs)
           /\ mainBatch \in Seq(Msgs) /\ serverQueue \in Seq(Msgs)
           /\ LineFrames(c) \subseteq Nat /\ hallSeen[c] \in Nat /\ camSeq[c] \in Nat
<1>1. /\ hallBatch \in Seq(Msgs) /\ hallQueue \in Seq(Msgs)
      /\ mainBatch \in Seq(Msgs) /\ serverQueue \in Seq(Msgs)
  BY DEF Msgs, TypeOK
<1>2. hallSeen[c] \in Nat /\ camSeq[c] \in Nat /\ Frames \subseteq Nat
  BY BoundsAssumption DEF TypeOK, Rects, Frames
<1> QED
  BY <1>1, <1>2, FramesInAreFrames DEF LineFrames

\* A step that only takes frames of c away, or moves whole queues on.
LEMMA Shrinks ==
    ASSUME NEW c \in Cameras, Given(c),
           Sorted(hallBatch', c) /\ FramesIn(hallBatch', c) \subseteq FramesIn(hallBatch, c),
           Sorted(hallQueue', c) /\ FramesIn(hallQueue', c) \subseteq FramesIn(hallQueue, c),
           Sorted(mainBatch', c) /\ FramesIn(mainBatch', c) \subseteq FramesIn(mainBatch, c),
           Sorted(serverQueue', c) /\ FramesIn(serverQueue', c) \subseteq FramesIn(serverQueue, c),
           hallSeen'[c] = hallSeen[c], camSeq'[c] = camSeq[c]
    PROVE  Shown(c)
<1>1. LineInv(c)'
  BY DEF Given, FrameInv, LineInv, Below
<1>2. LineFrames(c)' \subseteq LineFrames(c)
  BY DEF LineFrames
<1>3. Channel(c)!FifoNext
  BY <1>2, InFlightFrames DEF Given, FrameInv, ControlInv, TypeInv, Channel!FifoNext, Channel!Lose
<1> QED
  BY <1>1, <1>3 DEF Shown

LEMMA CameraKeepsLine ==
    ASSUME NEW c \in Cameras, Given(c), NEW d \in Cameras,
           \/ CameraStops(d) \/ GoodFrame(d) \/ AnalyzerThrows(d) \/ BadFrame(d)
           \/ CameraTake(d)
    PROVE  Shown(c)
<1> DEFINE m == CameraResponse(d, camSeq[d] + 1)
<1>1. LineInv(c) /\ TypeOK /\ TypeOK'
  BY DEF Given, FrameInv, ControlInv, TypeInv
<1>2. UNCHANGED <<hallBatch, hallQueue, mainBatch, hallSeen>>
  BY DEF CameraStops, GoodFrame, AnalyzerThrows, BadFrame, CameraTake, notCamera, hallVars
<1>3. CASE camSeq' = camSeq /\ serverQueue' = serverQueue
  BY <1>1, <1>2, <1>3, Shrinks DEF LineInv
<1>4. CASE /\ NewFrame(d)
           /\ serverQueue' = serverQueue \/ serverQueue' = Push(serverQueue, m)
  <2>1. /\ camSeq' = [camSeq EXCEPT ![d] = camSeq[d] + 1]
        /\ camSeq[d] \in Nat /\ camSeq[d] + 1 \in Frames /\ camSeq[c] \in Nat
    <3>1. camSeq[d] \in 0..MaxFrames /\ camSeq[c] \in 0..MaxFrames /\ camSeq[d] < MaxFrames
      BY <1>1, <1>4 DEF NewFrame, TypeOK, Rects
    <3>2. camSeq[d] \in Nat /\ camSeq[d] + 1 \in Frames /\ camSeq[c] \in Nat
      BY <3>1, BoundsAssumption DEF Frames
    <3> QED
      BY <1>4, <3>2 DEF NewFrame
  <2>2. camSeq'[c] = IF c = d THEN camSeq[c] + 1 ELSE camSeq[c]
    BY <1>1, <2>1 DEF TypeOK, Rects
  <2>3. /\ m \in Msgs /\ m.frame = camSeq[d] + 1
        /\ Data(m, c) <=> c = d
    BY <2>1, DataOf, MessageTypes DEF Msgs
  <2>4. /\ \A n \in LineFrames(c) : n \in Nat /\ hallSeen[c] < n /\ n <= camSeq[c]
        /\ hallSeen[c] \in Nat /\ hallSeen[c] <= camSeq[c]
    BY <1>1, QueueTypes DEF LineInv, LineFrames, Below
  <2>5. \A n \in FramesIn(serverQueue', c) :
           n \in FramesIn(serverQueue, c) \/ (c = d /\ n = camSeq[c] + 1)
    BY <1>1, <1>4, <2>3, PushFrames, QueueTypes
  <2>6. Sorted(serverQueue', c)
    <3>1. CASE serverQueue' = serverQueue
      BY <1>1, <3>1 DEF LineInv
    <3>2. CASE serverQueue' = Push(serverQueue, m)
      <4>1. Data(m, c) => \A n \in FramesIn(serverQueue, c) : n < m.frame
        BY <2>1, <2>3, <2>4 DEF LineFrames
      <4> QED
        BY <1>1, <2>3, <3>2, <4>1, PushSorted, QueueTypes DEF LineInv
    <3> QED
      BY <1>4, <3>1, <3>2
  <2>7. LineInv(c)'
    <3>1. /\ Below(FramesIn(hallBatch, c), FramesIn(serverQueue', c))
          /\ Below(FramesIn(hallQueue, c), FramesIn(serverQueue', c))
          /\ Below(FramesIn(mainBatch, c), FramesIn(serverQueue', c))
          /\ Below({hallSeen[c]}, FramesIn(serverQueue', c))
      BY <1>1, <2>1, <2>4, <2>5 DEF LineInv, Below, LineFrames
    <3>2. /\ \A n \in FramesIn(serverQueue', c) : n <= camSeq'[c]
          /\ \A n \in LineFrames(c) : n <= camSeq'[c]
          /\ hallSeen[c] <= camSeq'[c]
      BY <2>1, <2>2, <2>4, <2>5 DEF LineFrames
    <3> QED
      BY <1>1, <1>2, <2>6, <3>1, <3>2 DEF LineInv, Below, LineFrames
  <2>8. Channel(c)!FifoNext
    <3>1. \A n \in LineFrames(c)' : n \in LineFrames(c) \/ (c = d /\ n = camSeq[c] + 1)
      BY <1>2, <2>5 DEF LineFrames
    <3>2. InFlight(c) = LineFrames(c) /\ InFlight(c)' = LineFrames(c)'
      BY <1>1, InFlightFrames
    <3>3. CASE c = d
      <4>1. InFlight(c)' \subseteq InFlight(c) \cup {camSeq[c] + 1}
        BY <3>1, <3>2
      <4> QED
        BY <1>2, <2>2, <3>3, <4>1 DEF Channel!FifoNext, Channel!Send
    <3>4. CASE c # d
      <4>1. InFlight(c)' \subseteq InFlight(c)
        BY <3>1, <3>2, <3>4
      <4> QED
        BY <1>2, <2>2, <3>4, <4>1 DEF Channel!FifoNext, Channel!Lose
    <3> QED
      BY <3>3, <3>4
  <2> QED
    BY <2>7, <2>8 DEF Shown
<1> QED
  BY <1>3, <1>4 DEF CameraStops, GoodFrame, AnalyzerThrows, BadFrame, CameraTake

LEMMA HallKeepsLine ==
    ASSUME NEW c \in Cameras, Given(c),
           HallTake \/ HandleSetCamera \/ HandleRequest \/ HallThrows
    PROVE  Shown(c)
<1> DEFINE m == Head(hallBatch)
<1>1. LineInv(c) /\ TypeOK /\ TypeOK' /\ BatchAtHand /\ AtRest
  BY DEF Given, FrameInv, ControlInv, TypeInv
<1>2. UNCHANGED <<mainBatch, camSeq>>
  BY DEF HallTake, HandleSetCamera, HandleRequest, HallThrows, notHall, camVars
<1>3. CASE HallTake
  <2>1. CASE UNCHANGED <<hallQueue, hallBatch>>
    BY <1>1, <1>2, <1>3, <2>1, Shrinks DEF HallTake, LineInv
  <2>2. CASE hallBatch' = hallQueue /\ hallQueue' = <<>>
    <3>1. hallBatch = <<>> /\ UNCHANGED <<serverQueue, hallSeen>>
      BY <1>1, <1>3 DEF HallTake, AtRest
    <3>2. LineFrames(c)' = LineFrames(c)
      BY <1>2, <2>2, <3>1, NoFrames DEF LineFrames
    <3>3. LineInv(c)'
      BY <1>1, <1>2, <2>2, <3>1, NoFrames DEF LineInv, Below
    <3>4. Channel(c)!FifoNext
      BY <1>1, <1>2, <3>1, <3>2, InFlightFrames DEF Channel!FifoNext, Channel!Lose
    <3> QED
      BY <3>3, <3>4 DEF Shown
  <2> QED
    BY <1>3, <2>1, <2>2 DEF HallTake
<1>4. ASSUME hallPc = "Batch"
      PROVE  /\ hallBatch # <<>> /\ hallBatch \in Seq(Msgs) /\ m \in HallMessages
             /\ FramesIn(Tail(hallBatch), c) \subseteq FramesIn(hallBatch, c)
             /\ Sorted(Tail(hallBatch), c)
             /\ Data(m, c) => /\ m.frame \in FramesIn(hallBatch, c)
                              /\ \A n \in FramesIn(Tail(hallBatch), c) : m.frame < n
  <2>1. hallBatch # <<>> /\ hallBatch \in Seq(Msgs)
    BY <1>1, <1>4, QueueTypes DEF BatchAtHand
  <2>2. m \in HallMessages
    BY <1>1, <2>1, HeadTail DEF TypeOK
  <2> QED
    BY <1>1, <2>1, <2>2, TailFrames DEF LineInv
<1>5. CASE HandleRequest
  <2>1. PICK moving \in SUBSET {d \in Cameras : hallSeen[d] > 0} :
           serverQueue' = Push(serverQueue, HallResponse(
              [d \in Cameras |-> IF d \in moving THEN hallSeen[d] ELSE 0]))
    BY <1>5 DEF HandleRequest
  <2> DEFINE r == [d \in Cameras |-> IF d \in moving THEN hallSeen[d] ELSE 0]
  <2>2. r \in Rects
    BY <1>1, FramesAreRects DEF TypeOK, Rects
  <2>3. HallResponse(r) \in Msgs /\ ~Data(HallResponse(r), c)
    BY <2>2, MessageTypes, DataOf DEF Msgs
  <2>4. FramesIn(serverQueue', c) \subseteq FramesIn(serverQueue, c)
    BY <1>1, <2>1, <2>3, PushFrames, QueueTypes
  <2>5. Sorted(serverQueue', c)
    BY <1>1, <2>1, <2>3, PushSorted, QueueTypes DEF LineInv
  <2>6. hallPc = "Batch" /\ hallBatch' = Tail(hallBatch) /\ UNCHANGED <<hallQueue, hallSeen>>
    BY <1>5 DEF HandleRequest, Handled
  <2> QED
    BY <1>1, <1>2, <1>4, <2>4, <2>5, <2>6, Shrinks DEF LineInv
<1>6. CASE HallThrows /\ UNCHANGED hallSeen
  BY <1>1, <1>2, <1>6, NoFrames, Shrinks DEF HallThrows, LineInv
<1>7. ASSUME hallPc = "Batch", m.type = "HallSetCamera",
             hallSeen' = [hallSeen EXCEPT ![m.camera] = m.frame],
             hallBatch' \in {<<>>, Tail(hallBatch)}, UNCHANGED <<hallQueue, serverQueue>>
      PROVE  Shown(c)
  <2>1. /\ FramesIn(hallBatch', c) \subseteq FramesIn(hallBatch, c)
        /\ Sorted(hallBatch', c)
        /\ Data(m, c) => \A n \in FramesIn(hallBatch', c) : m.frame < n
    BY <1>4, <1>7, NoFrames
  <2>2. CASE ~Data(m, c)
    <3>1. hallSeen'[c] = hallSeen[c]
      BY <1>1, <1>7, <2>2 DEF Data, TypeOK, Rects
    <3> QED
      BY <1>1, <1>2, <1>7, <2>1, <3>1, Shrinks DEF LineInv
  <2>3. CASE Data(m, c)
    <3>1. /\ hallSeen'[c] = m.frame /\ m.frame \in FramesIn(hallBatch, c)
          /\ m.frame \in LineFrames(c) /\ m.frame \in Nat /\ hallSeen[c] \in Nat
          /\ hallSeen[c] < m.frame /\ m.frame <= camSeq[c]
      BY <1>1, <1>4, <1>7, <2>3, QueueTypes DEF Data, TypeOK, Rects, LineFrames, LineInv, Below
    <3>2. \A n \in LineFrames(c)' : n \in LineFrames(c) /\ m.frame < n
      BY <1>1, <1>2, <1>7, <2>1, <2>3, <3>1 DEF LineFrames, LineInv, Below
    <3>3. LineInv(c)'
      BY <1>1, <1>2, <1>7, <2>1, <3>1, <3>2 DEF LineInv, LineFrames, Below
    <3>4. InFlight(c) = LineFrames(c) /\ InFlight(c)' = LineFrames(c)'
      BY <1>1, InFlightFrames
    <3>5. Channel(c)!Deliver
      BY <1>2, <3>1, <3>2, <3>4 DEF Channel!Deliver
    <3> QED
      BY <3>3, <3>5 DEF Shown, Channel!FifoNext
  <2> QED
    BY <2>2, <2>3
<1> QED
  BY <1>3, <1>5, <1>6, <1>7 DEF HandleSetCamera, HallThrows, Handled

LEMMA MainKeepsLine ==
    ASSUME NEW c \in Cameras, Given(c),
           \/ MainTake \/ HandleCameraResponse \/ HandleHallResponse
           \/ GatheringTick \/ NoTick \/ ConnectionTick
    PROVE  Shown(c)
<1> DEFINE m == Head(mainBatch)
<1>1. LineInv(c) /\ TypeOK /\ TypeOK' /\ BatchAtHand /\ AtRest
  BY DEF Given, FrameInv, ControlInv, TypeInv
<1>2. UNCHANGED <<hallBatch, hallSeen, camSeq>>
  BY DEF MainTake, HandleCameraResponse, HandleHallResponse, GatheringTick, NoTick,
     ConnectionTick, notMain, camVars, camRest
<1>3. CASE MainTake
  <2>1. CASE UNCHANGED <<serverQueue, mainBatch>>
    BY <1>1, <1>2, <1>3, <2>1, Shrinks DEF MainTake, LineInv
  <2>2. CASE mainBatch' = serverQueue /\ serverQueue' = <<>>
    <3>1. mainBatch = <<>> /\ UNCHANGED hallQueue
      BY <1>1, <1>3 DEF MainTake, AtRest
    <3>2. LineFrames(c)' = LineFrames(c)
      BY <1>2, <2>2, <3>1, NoFrames DEF LineFrames
    <3>3. LineInv(c)'
      BY <1>1, <1>2, <2>2, <3>1, NoFrames DEF LineInv, Below
    <3>4. Channel(c)!FifoNext
      BY <1>1, <1>2, <3>2, InFlightFrames DEF Channel!FifoNext, Channel!Lose
    <3> QED
      BY <3>3, <3>4 DEF Shown
  <2> QED
    BY <1>3, <2>1, <2>2 DEF MainTake
<1>4. ASSUME mainPc = "Batch"
      PROVE  /\ mainBatch # <<>> /\ mainBatch \in Seq(Msgs) /\ m \in ServerMessages
             /\ FramesIn(Tail(mainBatch), c) \subseteq FramesIn(mainBatch, c)
             /\ Sorted(Tail(mainBatch), c)
             /\ Data(m, c) => /\ m.frame \in FramesIn(mainBatch, c)
                              /\ \A n \in FramesIn(Tail(mainBatch), c) : m.frame < n
  <2>1. mainBatch # <<>> /\ mainBatch \in Seq(Msgs)
    BY <1>1, <1>4, QueueTypes DEF BatchAtHand
  <2>2. m \in ServerMessages
    BY <1>1, <2>1, HeadTail DEF TypeOK
  <2> QED
    BY <1>1, <2>1, <2>2, TailFrames DEF LineInv
<1>5. CASE HandleHallResponse
  BY <1>1, <1>2, <1>4, <1>5, Shrinks DEF HandleHallResponse, MainHandled, LineInv
<1>6. CASE GatheringTick
  <2>1. HallRequest \in Msgs /\ ~Data(HallRequest, c)
    BY MessageTypes, DataOf DEF Msgs
  <2>2. FramesIn(hallQueue', c) \subseteq FramesIn(hallQueue, c) /\ Sorted(hallQueue', c)
    BY <1>1, <1>6, <2>1, PushFrames, PushSorted, QueueTypes DEF GatheringTick, LineInv
  <2> QED
    BY <1>1, <1>2, <1>6, <2>2, Shrinks DEF GatheringTick, LineInv
<1>7. CASE NoTick \/ ConnectionTick
  BY <1>1, <1>2, <1>7, Shrinks DEF NoTick, ConnectionTick, LineInv
<1>8. CASE HandleCameraResponse
  <2> DEFINE h == HallSetCamera(m.camera, m.frame)
  <2>1. /\ mainPc = "Batch" /\ mainBatch' = Tail(mainBatch) /\ UNCHANGED serverQueue
        /\ hallQueue' = hallQueue \/ hallQueue' = Push(hallQueue, h)
        /\ m.type = "CameraResponse"
    BY <1>8 DEF HandleCameraResponse, MainHandled
  <2>2. h \in Msgs /\ h.frame = m.frame /\ (Data(h, c) <=> Data(m, c))
    <3>1. m.camera \in Cameras /\ m.frame \in Frames
      BY <1>4, <2>1, MessageFields
    <3> QED
      BY <2>1, <3>1, MessageTypes, DataOf DEF Msgs, Data
  <2>3. CASE UNCHANGED hallQueue \/ ~Data(m, c)
    <3>1. FramesIn(hallQueue', c) \subseteq FramesIn(hallQueue, c) /\ Sorted(hallQueue', c)
      BY <1>1, <2>1, <2>2, <2>3, PushFrames, PushSorted, QueueTypes DEF LineInv
    <3> QED
      BY <1>1, <1>2, <1>4, <2>1, <3>1, Shrinks DEF LineInv
  <2>4. CASE hallQueue' = Push(hallQueue, h) /\ Data(m, c)
    <3>1. /\ m.frame \in FramesIn(mainBatch, c) /\ m.frame \in LineFrames(c)
          /\ \A n \in FramesIn(hallQueue, c) : n < m.frame
          /\ \A n \in FramesIn(hallBatch, c) : n < m.frame
          /\ \A n \in FramesIn(Tail(mainBatch), c) : m.frame < n
          /\ \A n \in FramesIn(serverQueue, c) : m.frame < n
      BY <1>1, <1>4, <2>1, <2>4 DEF LineInv, LineFrames, Below
    <3>2. Sorted(hallQueue', c)
      BY <1>1, <2>2, <2>4, <3>1, PushSorted, QueueTypes DEF LineInv
    <3>3. \A n \in FramesIn(hallQueue', c) : n \in FramesIn(hallQueue, c) \/ n = m.frame
      BY <1>1, <2>2, <2>4, PushFrames, QueueTypes
    <3>4. LineFrames(c)' \subseteq LineFrames(c)
      BY <1>2, <1>4, <2>1, <3>1, <3>3 DEF LineFrames
    <3>5. /\ Below(FramesIn(hallBatch, c), FramesIn(hallQueue', c))
          /\ Below(FramesIn(hallQueue', c), FramesIn(mainBatch', c))
          /\ Below(FramesIn(hallQueue', c), FramesIn(serverQueue, c))
          /\ Below(FramesIn(hallBatch, c), FramesIn(mainBatch', c))
          /\ Below(FramesIn(mainBatch', c), FramesIn(serverQueue, c))
      BY <1>1, <1>4, <2>1, <3>1, <3>3 DEF LineInv, Below
    <3>6. \A n \in LineFrames(c) : hallSeen[c] < n /\ n <= camSeq[c]
      BY <1>1 DEF LineInv, LineFrames, Below
    <3>7. LineInv(c)'
      BY <1>1, <1>2, <1>4, <2>1, <3>2, <3>4, <3>5, <3>6 DEF LineInv, LineFrames, Below
    <3>8. Channel(c)!FifoNext
      BY <1>1, <1>2, <3>4, InFlightFrames DEF Channel!FifoNext, Channel!Lose
    <3> QED
      BY <3>7, <3>8 DEF Shown
  <2> QED
    BY <2>1, <2>3, <2>4
<1> QED
  BY <1>3, <1>5, <1>6, <1>7, <1>8

\* Launch and destruction move no frames; a new hall finds its queue emptied.
LEMMA OthersKeepLine ==
    ASSUME NEW c \in Cameras, Given(c),
           \/ Connect \/ NewCameraServer \/ DropOldCameras \/ NewHall
           \/ StartCameras \/ StartHall
           \/ BeginShutdown \/ MainJoined \/ DropRecorder \/ DeleteAnalyzer
           \/ StopHall \/ HallJoined \/ DropCameras
           \/ UNCHANGED vars
    PROVE  Shown(c)
<1>1. LineInv(c) /\ TypeOK /\ AtRest /\ OneLaunch
  BY DEF Given, FrameInv, ControlInv, TypeInv
<1>2. UNCHANGED <<hallBatch, mainBatch, serverQueue>>
  BY DEF Connect, NewCameraServer, DropOldCameras, NewHall, StartCameras, StartHall,
     BeginShutdown, MainJoined, DropRecorder, DeleteAnalyzer, StopHall, HallJoined,
     DropCameras, vars, mainVars, hallVars, launchIdle, ownerIdle
<1>3. UNCHANGED camSeq
  BY DEF Connect, NewCameraServer, DropOldCameras, NewHall, StartCameras, StartHall,
     BeginShutdown, MainJoined, DropRecorder, DeleteAnalyzer, StopHall, HallJoined,
     DropCameras, vars, camVars, DropCamera, StartCamera, First
<1>4. UNCHANGED hallQueue \/ hallQueue' = <<>>
  BY DEF Connect, NewCameraServer, DropOldCameras, NewHall, StartCameras, StartHall,
     BeginShutdown, MainJoined, DropRecorder, DeleteAnalyzer, StopHall, HallJoined,
     DropCameras, vars, hallVars
<1>5. UNCHANGED hallSeen
  <2>1. CASE NewHall
    BY <1>1, <2>1 DEF NewHall, AtRest, OneLaunch, LaunchLabels
  <2>2. CASE ~NewHall
    BY <2>2 DEF Connect, NewCameraServer, DropOldCameras, StartCameras, StartHall,
       BeginShutdown, MainJoined, DropRecorder, DeleteAnalyzer, StopHall, HallJoined,
       DropCameras, vars, hallVars
  <2> QED
    BY <2>1, <2>2
<1> QED
  BY <1>1, <1>2, <1>3, <1>4, <1>5, NoFrames, Shrinks DEF LineInv

LEMMA StepKeepsLine ==
    ASSUME NEW c \in Cameras, Given(c), [Next]_vars
    PROVE  Shown(c)
  BY NextCases, CameraKeepsLine, HallKeepsLine, MainKeepsLine, OthersKeepLine

LEMMA StepKeepsRest == TypeInv /\ ControlInv /\ AtRest /\ [Next]_vars => AtRest'
<1> SUFFICES ASSUME TypeInv, ControlInv, AtRest, [Next]_vars PROVE AtRest'
  OBVIOUS
<1> USE DEF AtRest
<1>1. ASSUME NEW c \in Cameras,
             CameraStops(c) \/ GoodFrame(c) \/ AnalyzerThrows(c) \/ BadFrame(c) \/ CameraTake(c)
      PROVE  AtRest'
  BY <1>1 DEF CameraStops, GoodFrame, AnalyzerThrows, BadFrame, CameraTake, notCamera,
     hallVars, launchVars
<1>2. CASE HallTake \/ HandleSetCamera \/ HandleRequest \/ HallThrows
  <2>1. state = "Gathering" /\ UNCHANGED <<state, mainPc, mainBatch>>
    BY <1>2 DEF HallTake, HandleSetCamera, HandleRequest, HallThrows, notHall, launchVars,
       HallRuns, ControlInv, OneLaunch
  <2>2. hallPc' # "Batch" => hallBatch' = <<>>
    <3>1. CASE HallTake
      BY <3>1 DEF HallTake
    <3>2. CASE HallThrows
      BY <3>2 DEF HallThrows
    <3>3. CASE HandleSetCamera \/ HandleRequest
      <4>1. /\ hallBatch \in Seq(HallMessages) /\ hallBatch' = Tail(hallBatch)
            /\ hallPc' # "Batch" => Len(hallBatch) = 1
        BY <3>3 DEF HandleSetCamera, HandleRequest, Handled, TypeInv, TypeOK
      <4> QED
        BY <4>1
    <3> QED
      BY <1>2, <3>1, <3>2, <3>3
  <2> QED
    BY <2>1, <2>2
<1>3. CASE \/ MainTake \/ HandleCameraResponse \/ HandleHallResponse
           \/ GatheringTick \/ NoTick \/ ConnectionTick
  <2>1. UNCHANGED <<hallPc, hallBatch, hallSeen, state>>
    BY <1>3 DEF MainTake, HandleCameraResponse, HandleHallResponse, GatheringTick, NoTick,
       ConnectionTick, notMain, launchVars, MainHandled
  <2>2. mainPc' # "Batch" => mainBatch' = <<>>
    <3>1. CASE MainTake
      BY <3>1 DEF MainTake
    <3>2. CASE HandleCameraResponse \/ HandleHallResponse
      <4>1. /\ mainBatch \in Seq(ServerMessages) /\ mainBatch' = Tail(mainBatch)
            /\ mainPc' # "Batch" => Len(mainBatch) = 1
        BY <3>2 DEF HandleCameraResponse, HandleHallResponse, MainHandled, TypeInv, TypeOK
      <4> QED
        BY <4>1
    <3>3. CASE GatheringTick \/ NoTick \/ ConnectionTick
      BY <3>3 DEF GatheringTick, NoTick, ConnectionTick
    <3> QED
      BY <1>3, <3>1, <3>2, <3>3
  <2> QED
    BY <2>1, <2>2
<1>4. CASE \/ Connect \/ NewCameraServer \/ DropOldCameras \/ NewHall
           \/ StartCameras \/ StartHall
  <2>1. /\ mainPc # "Batch" /\ mainBatch' = mainBatch /\ state # "Gathering"
        /\ ~HallRuns /\ hallBatch' = hallBatch
    BY <1>4 DEF Connect, NewCameraServer, DropOldCameras, NewHall, StartCameras, StartHall,
       launchIdle, hallVars, ControlInv, OneLaunch, LaunchLabels
  <2>2. hallSeen' = NoRects
    BY <1>4, <2>1 DEF Connect, NewCameraServer, DropOldCameras, NewHall, StartCameras,
       StartHall, hallVars
  <2> QED
    BY <2>1, <2>2 DEF HallRuns
<1>5. CASE \/ BeginShutdown \/ MainJoined \/ DropRecorder \/ DeleteAnalyzer
           \/ StopHall \/ HallJoined \/ DropCameras
  BY <1>5 DEF BeginShutdown, MainJoined, DropRecorder, DeleteAnalyzer, StopHall, HallJoined,
     DropCameras, ownerIdle, hallVars, HallRuns
<1>6. CASE UNCHANGED vars
  BY <1>6 DEF vars, hallVars, mainVars, launchVars
<1> QED
  BY <1>1, <1>2, <1>3, <1>4, <1>5, <1>6, NextCases

LEMMA InitFrames == Init => FrameInv /\ \A c \in Cameras : Channel(c)!FifoInit
<1> SUFFICES ASSUME Init PROVE FrameInv /\ \A c \in Cameras : Channel(c)!FifoInit
  OBVIOUS
<1>1. ControlInv /\ AtRest
  BY InitControl DEF Init, AtRest
<1>2. ASSUME NEW c \in Cameras
      PROVE  LineInv(c) /\ Channel(c)!FifoInit
  <2>1. LineInv(c)
    BY NoFrames DEF Init, LineInv, Below, NoRects
  <2>2. InFlight(c) = {}
    BY DEF Init, InFlight, InSeq
  <2> QED
    BY <2>1, <2>2 DEF Channel!FifoInit, Init, NoRects
<1> QED
  BY <1>1, <1>2 DEF FrameInv

LEMMA StepKeepsFrames ==
    FrameInv /\ [Next]_vars =>
        FrameInv' /\ \A c \in Cameras : [Channel(c)!FifoNext]_(Channel(c)!fifoVars)
<1> SUFFICES ASSUME FrameInv, [Next]_vars
             PROVE  FrameInv' /\ \A c \in Cameras : Channel(c)!FifoNext
  OBVIOUS
<1>1. ControlInv' /\ TypeOK'
  BY StepKeepsControl, StepKeepsType DEF FrameInv, ControlInv, TypeInv
<1>2. AtRest'
  BY StepKeepsRest DEF FrameInv, ControlInv
<1>3. \A c \in Cameras : LineInv(c)' /\ Channel(c)!FifoNext
  BY <1>1, StepKeepsLine DEF Given, Shown
<1> QED
  BY <1>1, <1>2, <1>3 DEF FrameInv

\* The hall never sees a frame twice or after a later one: the path of each
\* camera's frames, over two queues and two batches, implements the lossy
\* first-in first-out channel (ServerImpl.cpp:155-188, HallThread.cpp:121-142).
THEOREM FramesArriveInOrder == Spec => FramesInOrder
<1>1. Init => FrameInv /\ \A c \in Cameras : Channel(c)!FifoInit
  BY InitFrames
<1>2. FrameInv /\ [Next]_vars =>
        FrameInv' /\ [\A c \in Cameras : [Channel(c)!FifoNext]_(Channel(c)!fifoVars)]_vars
  BY StepKeepsFrames
<1> QED
  BY <1>1, <1>2, PTL DEF Spec, FramesInOrder

----------------------------------------------------------------------------
(* The way back.  Along the rectangles a camera shows, its queue, the main *)
(* batch and the server's queue, the frames the rectangles come from do    *)
(* not decrease, and the hall has seen the last of them.                   *)

\* The frames of the rectangles for c in a queue, and that they are in order.
BackIn(q, c) == {RectsFrom(q[i], c) : i \in DOMAIN q} \ {0}
InOrder(q, c) ==
    \A i, j \in DOMAIN q :
        i < j /\ RectsFrom(q[i], c) # 0 /\ RectsFrom(q[j], c) # 0
            => RectsFrom(q[i], c) <= RectsFrom(q[j], c)

UpTo(A, B) == \A a \in A, b \in B : a <= b

Displayed(c) == {userData[c]} \ {0}
BackFrames(c) == Displayed(c) \cup BackIn(camQueue[c], c) \cup BackIn(mainBatch, c)
                    \cup BackIn(serverQueue, c)

BackInv(c) ==
    /\ InOrder(camQueue[c], c) /\ InOrder(mainBatch, c) /\ InOrder(serverQueue, c)
    /\ UpTo(Displayed(c), BackIn(camQueue[c], c))
    /\ UpTo(Displayed(c), BackIn(mainBatch, c))
    /\ UpTo(Displayed(c), BackIn(serverQueue, c))
    /\ UpTo(BackIn(camQueue[c], c), BackIn(mainBatch, c))
    /\ UpTo(BackIn(camQueue[c], c), BackIn(serverQueue, c))
    /\ UpTo(BackIn(mainBatch, c), BackIn(serverQueue, c))
    /\ \A n \in BackFrames(c) : n <= hallSeen[c]

LEMMA RectsFromIsNat ==
    ASSUME NEW c \in Cameras
    PROVE  \A m \in Msgs : RectsFrom(m, c) \in Nat
<1>1. \A m \in Msgs : m.type \in {"HallResponse", "CameraSetHall"} => m.rects \in Rects
  BY DEF Msgs, ServerMessages, HallMessages, CameraMessages, CameraResponse, HallSetCamera,
         HallRequest, HallResponse, CameraSetHall
<1>2. \A r \in Rects : r[c] \in Nat
  BY BoundsAssumption DEF Rects
<1> QED
  BY <1>1, <1>2 DEF RectsFrom

LEMMA NoBack == \A c : BackIn(<<>>, c) = {} /\ InOrder(<<>>, c)
  BY DEF BackIn, InOrder

LEMMA PushBack ==
    ASSUME NEW q \in Seq(Msgs), NEW m \in Msgs, NEW c, InOrder(q, c),
           RectsFrom(m, c) # 0 => \A n \in BackIn(q, c) : n <= RectsFrom(m, c)
    PROVE  /\ InOrder(Push(q, m), c)
           /\ BackIn(Push(q, m), c) \subseteq BackIn(q, c) \cup ({RectsFrom(m, c)} \ {0})
<1>1. PICK d \in {0, 1} :
         /\ Len(Push(q, m)) = Len(q) + 1 - d
         /\ Push(q, m)[Len(q) + 1 - d] = m
         /\ \A i \in 1..(Len(q) - d) : i + d \in DOMAIN q /\ Push(q, m)[i] = q[i + d]
  BY PushElements
<1>2. Push(q, m) \in Seq(Msgs) /\ Len(q) \in Nat
  BY PushElements
<1>3. DOMAIN Push(q, m) = 1..(Len(q) + 1 - d)
  BY <1>1, <1>2
<1>4. \A i \in DOMAIN Push(q, m) : i = Len(q) + 1 - d \/ i \in 1..(Len(q) - d)
  BY <1>2, <1>3
<1>5. BackIn(Push(q, m), c) \subseteq BackIn(q, c) \cup ({RectsFrom(m, c)} \ {0})
  BY <1>1, <1>4 DEF BackIn
<1>6. InOrder(Push(q, m), c)
  <2> SUFFICES ASSUME NEW i \in DOMAIN Push(q, m), NEW j \in DOMAIN Push(q, m), i < j,
                      RectsFrom(Push(q, m)[i], c) # 0, RectsFrom(Push(q, m)[j], c) # 0
               PROVE  RectsFrom(Push(q, m)[i], c) <= RectsFrom(Push(q, m)[j], c)
    BY DEF InOrder
  <2>1. i \in 1..(Len(q) - d)
    BY <1>2, <1>3
  <2>2. i + d \in DOMAIN q /\ Push(q, m)[i] = q[i + d]
    BY <1>1, <2>1
  <2>3. CASE j = Len(q) + 1 - d
    BY <1>1, <2>2, <2>3 DEF BackIn
  <2>4. CASE j # Len(q) + 1 - d
    <3>1. j \in 1..(Len(q) - d) /\ i + d < j + d
      BY <1>2, <1>3, <1>4, <2>4
    <3>2. j + d \in DOMAIN q /\ Push(q, m)[j] = q[j + d]
      BY <1>1, <3>1
    <3> QED
      BY <2>2, <3>1, <3>2 DEF InOrder
  <2> QED
    BY <2>3, <2>4
<1> QED
  BY <1>5, <1>6

LEMMA TailBack ==
    ASSUME NEW q \in Seq(Msgs), q # <<>>, NEW c, InOrder(q, c)
    PROVE  /\ InOrder(Tail(q), c)
           /\ BackIn(Tail(q), c) \subseteq BackIn(q, c)
           /\ RectsFrom(Head(q), c) # 0 =>
                 /\ RectsFrom(Head(q), c) \in BackIn(q, c)
                 /\ \A n \in BackIn(Tail(q), c) : RectsFrom(Head(q), c) <= n
<1>1. /\ Len(q) \in Nat /\ 1 \in DOMAIN q /\ Head(q) = q[1]
      /\ \A i \in DOMAIN Tail(q) : i \in Nat /\ i + 1 \in DOMAIN q /\ Tail(q)[i] = q[i + 1] /\ 1 < i + 1
  OBVIOUS
<1>2. BackIn(Tail(q), c) \subseteq BackIn(q, c)
  BY <1>1 DEF BackIn
<1>3. InOrder(Tail(q), c)
  <2> SUFFICES ASSUME NEW i \in DOMAIN Tail(q), NEW j \in DOMAIN Tail(q), i < j,
                      RectsFrom(Tail(q)[i], c) # 0, RectsFrom(Tail(q)[j], c) # 0
               PROVE  RectsFrom(Tail(q)[i], c) <= RectsFrom(Tail(q)[j], c)
    BY DEF InOrder
  <2>1. i + 1 < j + 1
    BY <1>1
  <2> QED
    BY <1>1, <2>1 DEF InOrder
<1>4. ASSUME RectsFrom(Head(q), c) # 0
      PROVE  /\ RectsFrom(Head(q), c) \in BackIn(q, c)
             /\ \A n \in BackIn(Tail(q), c) : RectsFrom(Head(q), c) <= n
  BY <1>1, <1>4 DEF BackIn, InOrder
<1> QED
  BY <1>2, <1>3, <1>4

----------------------------------------------------------------------------
(* The steps.                                                              *)

\* The analyzer's memory of a camera only moves on to newer frames.
LEMMA SeenGrows ==
    ASSUME NEW c \in Cameras, Given(c), [Next]_vars
    PROVE  hallSeen[c] \in Nat /\ hallSeen'[c] \in Nat /\ hallSeen[c] <= hallSeen'[c]
<1>1. Channel(c)!FifoNext
  BY StepKeepsLine DEF Shown
<1>2. hallSeen[c] \in Nat /\ hallSeen'[c] \in Nat
  BY BoundsAssumption DEF Given, FrameInv, ControlInv, TypeInv, TypeOK, Rects
<1>3. hallSeen'[c] = hallSeen[c] \/ hallSeen'[c] > hallSeen[c]
  BY <1>1 DEF Channel!FifoNext, Channel!Send, Channel!Deliver, Channel!Lose
<1> QED
  BY <1>2, <1>3

LEMMA BackTypes ==
    ASSUME NEW c \in Cameras, TypeOK
    PROVE  /\ camQueue[c] \in Seq(Msgs) /\ mainBatch \in Seq(Msgs) /\ serverQueue \in Seq(Msgs)
           /\ BackFrames(c) \subseteq Nat /\ hallSeen[c] \in Nat
<1>1. camQueue[c] \in Seq(Msgs) /\ mainBatch \in Seq(Msgs) /\ serverQueue \in Seq(Msgs)
  BY DEF Msgs, TypeOK
<1>2. hallSeen[c] \in Nat /\ userData[c] \in Nat
  BY BoundsAssumption DEF TypeOK, Rects
<1>3. \A q \in Seq(Msgs) : BackIn(q, c) \subseteq Nat
  BY RectsFromIsNat DEF BackIn
<1> QED
  BY <1>1, <1>2, <1>3 DEF BackFrames, Displayed

\* What every case below may assume of one camera.
BackGiven(c) ==
    /\ c \in Cameras /\ TypeOK /\ BackInv(c) /\ BatchAtHand /\ AtRest
    /\ hallSeen[c] \in Nat /\ hallSeen'[c] \in Nat /\ hallSeen[c] <= hallSeen'[c]

\* A step that only takes rectangles of c away.
LEMMA BackShrinks ==
    ASSUME NEW c, BackGiven(c),
           Displayed(c)' \subseteq Displayed(c),
           InOrder(camQueue'[c], c) /\ BackIn(camQueue'[c], c) \subseteq BackIn(camQueue[c], c),
           InOrder(mainBatch', c) /\ BackIn(mainBatch', c) \subseteq BackIn(mainBatch, c),
           InOrder(serverQueue', c) /\ BackIn(serverQueue', c) \subseteq BackIn(serverQueue, c)
    PROVE  BackInv(c)'
<1>1. \A n \in BackFrames(c)' : n \in BackFrames(c)
  BY DEF BackFrames
<1>2. BackFrames(c) \subseteq Nat
  BY BackTypes DEF BackGiven
<1>3. \A n \in BackFrames(c)' : n <= hallSeen'[c]
  BY <1>1, <1>2 DEF BackGiven, BackInv
<1> QED
  BY <1>3 DEF BackGiven, BackInv, UpTo

LEMMA CameraKeepsBack ==
    ASSUME NEW c, BackGiven(c), NEW d \in Cameras,
           \/ CameraStops(d) \/ GoodFrame(d) \/ AnalyzerThrows(d) \/ BadFrame(d)
           \/ CameraTake(d)
    PROVE  BackInv(c)'
<1>1. c \in Cameras /\ TypeOK /\ BackInv(c)
  BY DEF BackGiven
<1>2. mainBatch' = mainBatch
  BY DEF CameraStops, GoodFrame, AnalyzerThrows, BadFrame, CameraTake, notCamera
<1>3. CASE CameraTake(d) /\ c = d
  <2>1. PICK n \in 0..Len(camQueue[c]) : Show(c, n)
    BY <1>3 DEF CameraTake
  <2>2. camQueue'[c] = <<>> /\ serverQueue' = serverQueue
    BY <1>1, <1>3 DEF CameraTake, TypeOK
  <2>3. Displayed(c)' \subseteq Displayed(c) \cup BackIn(camQueue[c], c)
    <3>1. CASE userData' = userData
      BY <3>1 DEF Displayed
    <3>2. CASE n # 0 /\ userData' = [userData EXCEPT ![c] = camQueue[c][n].rects[c]]
      <4>1. camQueue[c] \in Seq(CameraMessages) /\ n \in DOMAIN camQueue[c]
        BY <1>1, <2>1, <3>2 DEF TypeOK
      <4>2. camQueue[c][n] \in CameraMessages
        BY <4>1
      <4>3. RectsFrom(camQueue[c][n], c) = camQueue[c][n].rects[c]
        BY <4>2 DEF RectsFrom, CameraMessages, CameraSetHall
      <4>4. userData'[c] = RectsFrom(camQueue[c][n], c)
        BY <1>1, <3>2, <4>3 DEF TypeOK, Rects
      <4> QED
        BY <4>1, <4>4 DEF Displayed, BackIn
    <3> QED
      BY <2>1, <3>1, <3>2 DEF Show
  <2>4. BackFrames(c)' \subseteq BackFrames(c) /\ BackFrames(c) \subseteq Nat
    BY <1>1, <1>2, <2>2, <2>3, NoBack, BackTypes DEF BackFrames
  <2>5. \A f \in BackFrames(c)' : f <= hallSeen'[c]
    BY <2>4 DEF BackGiven, BackInv
  <2>6. /\ UpTo(Displayed(c)', BackIn(mainBatch, c))
        /\ UpTo(Displayed(c)', BackIn(serverQueue, c))
    BY <1>1, <2>3 DEF BackInv, UpTo
  <2> QED
    BY <1>1, <1>2, <2>2, <2>5, <2>6, NoBack DEF BackInv, UpTo
<1>4. CASE CameraTake(d) /\ c # d
  <2>1. userData'[c] = userData[c] /\ camQueue'[c] = camQueue[c] /\ serverQueue' = serverQueue
    BY <1>1, <1>4 DEF CameraTake, Show, TypeOK, Rects
  <2> QED
    BY <1>1, <1>2, <2>1, BackShrinks DEF BackInv, Displayed
<1>5. CASE CameraStops(d) \/ AnalyzerThrows(d) \/ BadFrame(d)
  <2>1. /\ userData'[c] \in {0, userData[c]}
        /\ camQueue'[c] = camQueue[c] /\ serverQueue' = serverQueue
    BY <1>1, <1>5 DEF CameraStops, AnalyzerThrows, BadFrame, TypeOK, Rects
  <2> QED
    BY <1>1, <1>2, <2>1, BackShrinks DEF BackInv, Displayed
<1>6. CASE GoodFrame(d)
  <2> DEFINE m == CameraResponse(d, camSeq[d] + 1)
  <2>1. userData' = userData /\ camQueue' = camQueue
    BY <1>6 DEF GoodFrame
  <2>2. m \in Msgs /\ RectsFrom(m, c) = 0
    <3>1. camSeq[d] \in 0..MaxFrames /\ camSeq[d] < MaxFrames
      BY <1>1, <1>6 DEF GoodFrame, NewFrame, TypeOK, Rects
    <3>2. camSeq[d] + 1 \in Frames
      BY <3>1, BoundsAssumption DEF Frames
    <3> QED
      BY <3>2, MessageTypes DEF Msgs, RectsFrom, CameraResponse
  <2>3. InOrder(serverQueue', c) /\ BackIn(serverQueue', c) \subseteq BackIn(serverQueue, c)
    <3>1. CASE serverQueue' = serverQueue
      BY <1>1, <3>1 DEF BackInv
    <3>2. CASE serverQueue' = Push(serverQueue, m)
      BY <1>1, <2>2, <3>2, PushBack, BackTypes DEF BackInv
    <3> QED
      BY <1>6, <3>1, <3>2 DEF GoodFrame
  <2> QED
    BY <1>1, <1>2, <2>1, <2>3, BackShrinks DEF BackInv, Displayed
<1> QED
  BY <1>3, <1>4, <1>5, <1>6

LEMMA HallKeepsBack ==
    ASSUME NEW c, BackGiven(c),
           HallTake \/ HandleSetCamera \/ HandleRequest \/ HallThrows
    PROVE  BackInv(c)'
<1>1. c \in Cameras /\ TypeOK /\ BackInv(c)
  BY DEF BackGiven
<1>2. UNCHANGED <<userData, camQueue, mainBatch>>
  BY DEF HallTake, HandleSetCamera, HandleRequest, HallThrows, notHall, camVars
<1>3. CASE ~HandleRequest
  <2>1. serverQueue' = serverQueue
    BY <1>3 DEF HallTake, HandleSetCamera, HallThrows
  <2> QED
    BY <1>1, <1>2, <2>1, BackShrinks DEF BackInv, Displayed
<1>4. CASE HandleRequest
  <2> DEFINE Answer(moving) == [d \in Cameras |-> IF d \in moving THEN hallSeen[d] ELSE 0]
  <2>1. PICK moving \in SUBSET {d \in Cameras : hallSeen[d] > 0} :
           serverQueue' = Push(serverQueue, HallResponse(Answer(moving)))
    BY <1>4 DEF HandleRequest
  <2> DEFINE m == HallResponse(Answer(moving))
  <2>2. Answer(moving) \in Rects /\ Answer(moving)[c] \in {0, hallSeen[c]}
    BY <1>1, FramesAreRects DEF TypeOK, Rects
  <2>3. m \in Msgs /\ RectsFrom(m, c) \in {0, hallSeen[c]}
    BY <2>2, MessageTypes DEF Msgs, RectsFrom, HallResponse
  <2>4. /\ BackFrames(c) \subseteq Nat /\ hallSeen[c] \in Nat
        /\ \A n \in BackFrames(c) : n <= hallSeen[c]
    BY <1>1, BackTypes DEF BackInv
  <2>5. /\ InOrder(serverQueue', c)
        /\ BackIn(serverQueue', c) \subseteq BackIn(serverQueue, c) \cup {hallSeen[c]}
    <3>1. RectsFrom(m, c) # 0 => \A n \in BackIn(serverQueue, c) : n <= RectsFrom(m, c)
      BY <2>3, <2>4 DEF BackFrames
    <3>2. InOrder(serverQueue, c) /\ serverQueue \in Seq(Msgs)
      BY <1>1, BackTypes DEF BackInv
    <3>3. /\ InOrder(Push(serverQueue, m), c)
          /\ BackIn(Push(serverQueue, m), c)
                \subseteq BackIn(serverQueue, c) \cup ({RectsFrom(m, c)} \ {0})
      BY <2>3, <3>1, <3>2, PushBack
    <3> QED
      BY <2>1, <2>3, <3>3
  <2>6. \A n \in BackFrames(c)' : n \in BackFrames(c) \/ n = hallSeen[c]
    BY <1>2, <2>5 DEF BackFrames, Displayed
  <2>7. \A n \in BackFrames(c)' : n <= hallSeen'[c]
    BY <2>4, <2>6 DEF BackGiven
  <2>8. \A A \in SUBSET BackFrames(c) :
           UpTo(A, BackIn(serverQueue, c)) => UpTo(A, BackIn(serverQueue', c))
    BY <2>4, <2>5 DEF UpTo
  <2>9. /\ UpTo(Displayed(c), BackIn(serverQueue', c))
        /\ UpTo(BackIn(camQueue[c], c), BackIn(serverQueue', c))
        /\ UpTo(BackIn(mainBatch, c), BackIn(serverQueue', c))
    BY <1>1, <2>8 DEF BackInv, BackFrames
  <2> QED
    BY <1>1, <1>2, <2>5, <2>7, <2>9 DEF BackInv, Displayed
<1> QED
  BY <1>3, <1>4

LEMMA MainKeepsBack ==
    ASSUME NEW c, BackGiven(c),
           \/ MainTake \/ HandleCameraResponse \/ HandleHallResponse
           \/ GatheringTick \/ NoTick \/ ConnectionTick
    PROVE  BackInv(c)'
<1> DEFINE m == Head(mainBatch)
           h == CameraSetHall(m.rects)
<1>1. c \in Cameras /\ TypeOK /\ BackInv(c) /\ BatchAtHand /\ AtRest
  BY DEF BackGiven
<1>2. UNCHANGED userData
  BY DEF MainTake, HandleCameraResponse, HandleHallResponse, GatheringTick, NoTick,
     ConnectionTick, camVars, camRest
<1>3. ASSUME mainPc = "Batch"
      PROVE  /\ m \in ServerMessages
             /\ InOrder(Tail(mainBatch), c)
             /\ BackIn(Tail(mainBatch), c) \subseteq BackIn(mainBatch, c)
             /\ RectsFrom(m, c) # 0 =>
                   /\ RectsFrom(m, c) \in BackIn(mainBatch, c)
                   /\ \A n \in BackIn(Tail(mainBatch), c) : RectsFrom(m, c) <= n
  <2>1. mainBatch # <<>> /\ mainBatch \in Seq(Msgs)
    BY <1>1, <1>3, BackTypes DEF BatchAtHand
  <2>2. m \in ServerMessages
    BY <1>1, <2>1, HeadTail DEF TypeOK
  <2> QED
    BY <1>1, <2>1, <2>2, TailBack DEF BackInv
<1>4. CASE MainTake
  <2>1. CASE UNCHANGED <<serverQueue, mainBatch>>
    BY <1>1, <1>2, <1>4, <2>1, BackShrinks DEF MainTake, camVars, BackInv, Displayed
  <2>2. CASE mainBatch' = serverQueue /\ serverQueue' = <<>>
    <3>1. mainBatch = <<>> /\ UNCHANGED camQueue
      BY <1>1, <1>4 DEF MainTake, AtRest, camVars
    <3>2. BackFrames(c)' \subseteq BackFrames(c) /\ BackFrames(c) \subseteq Nat
      BY <1>1, <1>2, <2>2, <3>1, NoBack, BackTypes DEF BackFrames, Displayed
    <3>3. \A n \in BackFrames(c)' : n <= hallSeen'[c]
      BY <3>2 DEF BackGiven, BackInv
    <3> QED
      BY <1>1, <1>2, <2>2, <3>1, <3>3, NoBack DEF BackInv, UpTo, Displayed
  <2> QED
    BY <1>4, <2>1, <2>2 DEF MainTake
<1>5. CASE HandleCameraResponse
  <2>1. /\ mainPc = "Batch" /\ mainBatch' = Tail(mainBatch)
        /\ UNCHANGED <<serverQueue, camQueue>>
    BY <1>5 DEF HandleCameraResponse, MainHandled, camVars
  <2> QED
    BY <1>1, <1>2, <1>3, <2>1, BackShrinks DEF BackInv, Displayed
<1>6. CASE GatheringTick \/ NoTick \/ ConnectionTick
  BY <1>1, <1>2, <1>6, BackShrinks
     DEF GatheringTick, NoTick, ConnectionTick, camVars, BackInv, Displayed
<1>7. CASE HandleHallResponse
  <2>1. /\ mainPc = "Batch" /\ mainBatch' = Tail(mainBatch) /\ UNCHANGED serverQueue
        /\ m.type = "HallResponse"
        /\ camQueue'[c] = camQueue[c] \/ camQueue'[c] = Push(camQueue[c], h)
    BY <1>1, <1>7 DEF HandleHallResponse, MainHandled
  <2>2. h \in Msgs /\ RectsFrom(h, c) = RectsFrom(m, c)
    <3>1. m.rects \in Rects
      BY <1>3, <2>1, MessageFields
    <3> QED
      BY <2>1, <3>1, MessageTypes DEF Msgs, RectsFrom, CameraSetHall
  <2>3. /\ InOrder(camQueue'[c], c)
        /\ BackIn(camQueue'[c], c) \subseteq BackIn(camQueue[c], c) \cup ({RectsFrom(m, c)} \ {0})
    <3>1. RectsFrom(m, c) # 0 => \A n \in BackIn(camQueue[c], c) : n <= RectsFrom(m, c)
      BY <1>1, <1>3, <2>1 DEF BackInv, UpTo
    <3>2. camQueue[c] \in Seq(Msgs) /\ InOrder(camQueue[c], c)
      BY <1>1, BackTypes DEF BackInv
    <3>3. CASE camQueue'[c] = camQueue[c]
      BY <3>2, <3>3
    <3>4. CASE camQueue'[c] = Push(camQueue[c], h)
      BY <2>2, <3>1, <3>2, <3>4, PushBack
    <3> QED
      BY <2>1, <3>3, <3>4
  <2>4. RectsFrom(m, c) # 0 => RectsFrom(m, c) \in BackIn(mainBatch, c)
    BY <1>3, <2>1
  <2>5. BackFrames(c)' \subseteq BackFrames(c) /\ BackFrames(c) \subseteq Nat
    BY <1>1, <1>2, <1>3, <2>1, <2>3, <2>4, BackTypes DEF BackFrames, Displayed
  <2>6. \A n \in BackFrames(c)' : n <= hallSeen'[c]
    BY <2>5 DEF BackGiven, BackInv
  <2>7. /\ UpTo(Displayed(c), BackIn(camQueue'[c], c))
        /\ UpTo(BackIn(camQueue'[c], c), BackIn(serverQueue, c))
    BY <1>1, <2>3, <2>4 DEF BackInv, UpTo
  <2>8. /\ UpTo(BackIn(camQueue'[c], c), BackIn(mainBatch', c))
        /\ UpTo(Displayed(c), BackIn(mainBatch', c))
        /\ UpTo(BackIn(mainBatch', c), BackIn(serverQueue, c))
    BY <1>1, <1>3, <2>1, <2>3 DEF BackInv, UpTo
  <2> QED
    BY <1>1, <1>2, <1>3, <2>1, <2>3, <2>6, <2>7, <2>8 DEF BackInv, Displayed
<1> QED
  BY <1>4, <1>5, <1>6, <1>7

LEMMA OthersKeepBack ==
    ASSUME NEW c, BackGiven(c),
           \/ Connect \/ NewCameraServer \/ DropOldCameras \/ NewHall
           \/ StartCameras \/ StartHall
           \/ BeginShutdown \/ MainJoined \/ DropRecorder \/ DeleteAnalyzer
           \/ StopHall \/ HallJoined \/ DropCameras
           \/ UNCHANGED vars
    PROVE  BackInv(c)'
<1>1. c \in Cameras /\ TypeOK /\ BackInv(c)
  BY DEF BackGiven
<1>2. UNCHANGED <<mainBatch, serverQueue>>
  BY DEF Connect, NewCameraServer, DropOldCameras, NewHall, StartCameras, StartHall,
     BeginShutdown, MainJoined, DropRecorder, DeleteAnalyzer, StopHall, HallJoined,
     DropCameras, vars, mainVars, launchIdle, ownerIdle
<1>3. UNCHANGED <<userData, camQueue>> \/ \E d \in Cameras : DropCamera(d)
  BY DEF Connect, NewCameraServer, DropOldCameras, NewHall, StartCameras, StartHall,
     BeginShutdown, MainJoined, DropRecorder, DeleteAnalyzer, StopHall, HallJoined,
     DropCameras, vars, camVars, StartCamera, First, InMap
<1>4. /\ userData'[c] \in {0, userData[c]}
      /\ camQueue'[c] = camQueue[c] \/ camQueue'[c] = <<>>
  BY <1>1, <1>3 DEF DropCamera, TypeOK, Rects
<1> QED
  BY <1>1, <1>2, <1>4, NoBack, BackShrinks DEF BackInv, Displayed

RectsInv == FrameInv /\ \A c \in Cameras : BackInv(c)

LEMMA InitRects == Init => RectsInv
<1> SUFFICES ASSUME Init, NEW c \in Cameras PROVE BackInv(c)
  BY InitFrames DEF RectsInv
<1>1. Displayed(c) = {} /\ camQueue[c] = <<>> /\ mainBatch = <<>> /\ serverQueue = <<>>
  BY DEF Init, Displayed, NoRects
<1> QED
  BY <1>1, NoBack DEF BackInv, BackFrames, UpTo

LEMMA StepKeepsRects == RectsInv /\ [Next]_vars => RectsInv'
<1> SUFFICES ASSUME RectsInv, [Next]_vars PROVE RectsInv'
  OBVIOUS
<1>1. FrameInv' /\ ControlInv'
  BY StepKeepsFrames DEF RectsInv, FrameInv
<1>2. ASSUME NEW c \in Cameras PROVE BackInv(c)'
  <2>1. Given(c)
    BY <1>1 DEF RectsInv, Given, ControlInv, TypeInv
  <2>2. BackGiven(c)
    BY <2>1, SeenGrows DEF RectsInv, BackGiven, FrameInv, ControlInv, TypeInv
  <2> QED
    BY <2>2, NextCases, CameraKeepsBack, HallKeepsBack, MainKeepsBack, OthersKeepBack
<1> QED
  BY <1>1, <1>2 DEF RectsInv

----------------------------------------------------------------------------
(* From the parts of the path to the path.                                 *)

Values(s) == {s[i] : i \in DOMAIN s} \ {0}
Ordered(s) ==
    \A i, j \in DOMAIN s : i < j /\ s[i] # 0 /\ s[j] # 0 => s[i] <= s[j]

LEMMA Joined ==
    ASSUME NEW s \in Seq(Nat), NEW t \in Seq(Nat), Ordered(s), Ordered(t),
           UpTo(Values(s), Values(t))
    PROVE  /\ s \o t \in Seq(Nat) /\ Ordered(s \o t)
           /\ Values(s \o t) \subseteq Values(s) \cup Values(t)
<1>1. /\ Len(s) \in Nat /\ Len(t) \in Nat /\ s \o t \in Seq(Nat)
      /\ DOMAIN (s \o t) = 1..(Len(s) + Len(t))
      /\ \A i \in 1..(Len(s) + Len(t)) :
            (s \o t)[i] = IF i <= Len(s) THEN s[i] ELSE t[i - Len(s)]
  OBVIOUS
<1>2. \A i \in 1..(Len(s) + Len(t)) :
         IF i <= Len(s) THEN i \in DOMAIN s ELSE i - Len(s) \in DOMAIN t
  BY <1>1
<1>3. Values(s \o t) \subseteq Values(s) \cup Values(t)
  BY <1>1, <1>2 DEF Values
<1>4. Ordered(s \o t)
  <2> SUFFICES ASSUME NEW i \in 1..(Len(s) + Len(t)), NEW j \in 1..(Len(s) + Len(t)), i < j,
                      (s \o t)[i] # 0, (s \o t)[j] # 0
               PROVE  (s \o t)[i] <= (s \o t)[j]
    BY <1>1 DEF Ordered
  <2>1. CASE j <= Len(s)
    BY <1>1, <1>2, <2>1 DEF Ordered
  <2>2. CASE i <= Len(s) /\ ~(j <= Len(s))
    BY <1>1, <1>2, <2>2 DEF UpTo, Values
  <2>3. CASE ~(i <= Len(s))
    <3>1. ~(j <= Len(s)) /\ i - Len(s) < j - Len(s)
      BY <1>1, <2>3
    <3> QED
      BY <1>1, <1>2, <2>3, <3>1 DEF Ordered
  <2> QED
    BY <2>1, <2>2, <2>3
<1> QED
  BY <1>1, <1>3, <1>4

LEMMA RectsInFacts ==
    ASSUME NEW c \in Cameras, NEW q \in Seq(Msgs), InOrder(q, c)
    PROVE  /\ RectsIn(q, c) \in Seq(Nat) /\ Ordered(RectsIn(q, c))
           /\ Values(RectsIn(q, c)) = BackIn(q, c)
<1>1. /\ Len(q) \in Nat /\ DOMAIN q = 1..Len(q)
      /\ \A i \in DOMAIN q : RectsFrom(q[i], c) \in Nat
  BY RectsFromIsNat
<1>2. RectsIn(q, c) \in Seq(Nat)
  BY <1>1 DEF RectsIn
<1> QED
  BY <1>2 DEF RectsIn, Ordered, Values, InOrder, BackIn

\* Rectangles reach a camera's video in the order the hall computed them: on
\* the whole way back none comes from an older frame than one ahead of it,
\* through overflows, lost batches and relaunches (ServerImpl.cpp:193-205,
\* CameraServer.cpp:62-69, CameraThread.cpp:195-204).
THEOREM RectsArriveInOrder == Spec => []RectsInOrder
<1>1. RectsInv => RectsInOrder
  <2> SUFFICES ASSUME RectsInv, NEW c \in Cameras PROVE Ordered(RectsPath(c))
    BY DEF RectsInOrder, Ordered
  <2> DEFINE shown == <<userData[c]>>
             queued == RectsIn(camQueue[c], c)
             handled == RectsIn(mainBatch, c)
             waiting == RectsIn(serverQueue, c)
             seen == <<hallSeen[c]>>
  <2>1. BackInv(c) /\ TypeOK
    BY DEF RectsInv, FrameInv, ControlInv, TypeInv
  <2>2. /\ queued \in Seq(Nat) /\ Ordered(queued) /\ Values(queued) = BackIn(camQueue[c], c)
        /\ handled \in Seq(Nat) /\ Ordered(handled) /\ Values(handled) = BackIn(mainBatch, c)
        /\ waiting \in Seq(Nat) /\ Ordered(waiting) /\ Values(waiting) = BackIn(serverQueue, c)
    BY <2>1, BackTypes, RectsInFacts DEF BackInv
  <2>3. \A n \in Nat : <<n>> \in Seq(Nat) /\ Ordered(<<n>>) /\ Values(<<n>>) = {n} \ {0}
    BY DEF Ordered, Values
  <2>4. userData[c] \in Nat /\ hallSeen[c] \in Nat
    BY <2>1, BoundsAssumption DEF TypeOK, Rects
  <2>5. /\ shown \in Seq(Nat) /\ Ordered(shown) /\ Values(shown) = Displayed(c)
        /\ seen \in Seq(Nat) /\ Ordered(seen) /\ Values(seen) = {hallSeen[c]} \ {0}
    BY <2>3, <2>4 DEF Displayed
  <2>6. UpTo(BackFrames(c), {hallSeen[c]})
    BY <2>1 DEF BackInv, UpTo
  <2> HIDE DEF shown, queued, handled, waiting, seen
  <2>7. /\ shown \o queued \in Seq(Nat) /\ Ordered(shown \o queued)
        /\ Values(shown \o queued) \subseteq Displayed(c) \cup BackIn(camQueue[c], c)
    BY <2>1, <2>2, <2>5, Joined DEF BackInv
  <2>8. /\ shown \o queued \o handled \in Seq(Nat) /\ Ordered(shown \o queued \o handled)
        /\ Values(shown \o queued \o handled)
              \subseteq Displayed(c) \cup BackIn(camQueue[c], c) \cup BackIn(mainBatch, c)
    <3>1. UpTo(Values(shown \o queued), Values(handled))
      BY <2>1, <2>2, <2>7 DEF BackInv, UpTo
    <3>2. Values(shown \o queued \o handled) \subseteq Values(shown \o queued) \cup Values(handled)
      BY <2>2, <2>7, <3>1, Joined
    <3>3. /\ shown \o queued \o handled \in Seq(Nat)
          /\ Ordered(shown \o queued \o handled)
      BY <2>2, <2>7, <3>1, Joined
    <3> QED
      BY <2>2, <2>7, <3>2, <3>3
  <2>9. /\ shown \o queued \o handled \o waiting \in Seq(Nat)
        /\ Ordered(shown \o queued \o handled \o waiting)
        /\ Values(shown \o queued \o handled \o waiting) \subseteq BackFrames(c)
    <3>1. UpTo(Values(shown \o queued \o handled), Values(waiting))
      BY <2>1, <2>2, <2>8 DEF BackInv, UpTo
    <3>2. Values(shown \o queued \o handled \o waiting)
             \subseteq Values(shown \o queued \o handled) \cup Values(waiting)
      BY <2>2, <2>8, <3>1, Joined
    <3>3. /\ shown \o queued \o handled \o waiting \in Seq(Nat)
          /\ Ordered(shown \o queued \o handled \o waiting)
      BY <2>2, <2>8, <3>1, Joined
    <3> QED
      BY <2>2, <2>8, <3>2, <3>3 DEF BackFrames
  <2>10. Ordered(shown \o queued \o handled \o waiting \o seen)
    <3>1. UpTo(Values(shown \o queued \o handled \o waiting), Values(seen))
      BY <2>5, <2>6, <2>9 DEF UpTo
    <3> QED
      BY <2>5, <2>9, <3>1, Joined
  <2> QED
    BY <2>10 DEF RectsPath, shown, queued, handled, waiting, seen
<1> QED
  BY <1>1, InitRects, StepKeepsRects, PTL DEF Spec

----------------------------------------------------------------------------
(* What follows for the video, and what a camera or a hall starts with.    *)

\* The rectangles in a camera's video only move on: what replaces rectangles
\* comes from the same frame or a later one, never from an older one, whatever
\* is lost or dropped on the way (CameraThread.cpp:195-204).
ShownOnlyForward ==
    [][\A c \in Cameras :
          userData[c] # 0 /\ userData'[c] # 0 => userData[c] <= userData'[c]]_vars

LEMMA StepShowsForward ==
    ASSUME RectsInv, [Next]_vars, NEW c \in Cameras, userData[c] # 0, userData'[c] # 0
    PROVE  userData[c] <= userData'[c]
<1> USE DEF RectsInv, FrameInv, ControlInv, TypeInv, TypeOK
<1>1. userData[c] \in Nat
  BY BoundsAssumption DEF Rects
<1>2. CASE userData'[c] = userData[c]
  BY <1>1, <1>2
<1>3. CASE CameraTake(c)
  <2>1. PICK n \in 0..Len(camQueue[c]) : Show(c, n)
    BY <1>3 DEF CameraTake
  <2>2. CASE n = 0 \/ invalid[c]
    BY <1>1, <2>1, <2>2 DEF Show
  <2>3. CASE ~(n = 0 \/ invalid[c])
    <3>1. /\ n \in DOMAIN camQueue[c] /\ camQueue[c][n] \in CameraMessages
          /\ userData'[c] = camQueue[c][n].rects[c]
      BY <2>1, <2>3 DEF Show, Rects
    <3>2. RectsFrom(camQueue[c][n], c) = userData'[c]
      BY <3>1 DEF RectsFrom, CameraMessages, CameraSetHall
    <3>3. userData'[c] \in BackIn(camQueue[c], c) /\ userData[c] \in Displayed(c)
      BY <3>1, <3>2 DEF BackIn, Displayed
    <3> QED
      BY <3>3 DEF BackInv, UpTo
  <2> QED
    BY <2>2, <2>3
<1>4. userData'[c] \in {userData[c], 0} \/ CameraTake(c)
  <2>1. ASSUME NEW d \in Cameras, CameraStops(d) \/ GoodFrame(d) \/ AnalyzerThrows(d) \/ BadFrame(d)
        PROVE  userData'[c] \in {userData[c], 0}
    BY <2>1 DEF CameraStops, GoodFrame, AnalyzerThrows, BadFrame, Rects
  <2>2. ASSUME NEW d \in Cameras, d # c, CameraTake(d)
        PROVE  userData'[c] = userData[c]
    BY <2>2 DEF CameraTake, Show, Rects
  <2>3. ASSUME NEW d \in Cameras, DropCamera(d)
        PROVE  userData'[c] \in {userData[c], 0}
    BY <2>3 DEF DropCamera, Rects
  <2>4. CASE DropOldCameras \/ DropCameras
    <3>1. UNCHANGED userData \/ \E d \in Cameras : DropCamera(d)
      BY <2>4 DEF DropOldCameras, DropCameras, First, InMap, camVars
    <3> QED
      BY <2>3, <3>1
  <2>5. CASE HallTake \/ HandleSetCamera \/ HandleRequest \/ HallThrows
    BY <2>5 DEF HallTake, HandleSetCamera, HandleRequest, HallThrows, notHall, camVars
  <2>6. CASE \/ MainTake \/ HandleCameraResponse \/ HandleHallResponse
             \/ GatheringTick \/ NoTick \/ ConnectionTick
    BY <2>6 DEF MainTake, HandleCameraResponse, HandleHallResponse, GatheringTick, NoTick,
       ConnectionTick, camVars, camRest
  <2>7. CASE Connect \/ NewCameraServer \/ NewHall \/ StartCameras \/ StartHall
    BY <2>7 DEF Connect, NewCameraServer, NewHall, StartCameras, StartCamera, StartHall, camVars
  <2>8. CASE BeginShutdown \/ MainJoined \/ DropRecorder \/ DeleteAnalyzer \/ StopHall \/ HallJoined
    BY <2>8 DEF BeginShutdown, MainJoined, DropRecorder, DeleteAnalyzer, StopHall, HallJoined,
       camVars
  <2>9. CASE UNCHANGED vars
    BY <2>9 DEF vars, camVars
  <2> QED
    BY <2>1, <2>2, <2>4, <2>5, <2>6, <2>7, <2>8, <2>9, NextCases
<1> QED
  BY <1>2, <1>3, <1>4

\* What a camera shows never goes back to an older frame (CameraThread.cpp:
\* 195-204).
THEOREM RectsOnlyForward == Spec => ShownOnlyForward
<1>1. RectsInv /\ [Next]_vars =>
        [\A c \in Cameras :
            userData[c] # 0 /\ userData'[c] # 0 => userData[c] <= userData'[c]]_vars
  BY StepShowsForward
<1> QED
  BY <1>1, InitRects, StepKeepsRects, PTL DEF Spec, ShownOnlyForward

\* Nothing shown is ahead of the hall, and the hall is never ahead of the
\* camera: rectangles come from a frame the camera has read and the analyzer
\* has been given, also across launches that fail.
ShownWasSeen ==
    \A c \in Cameras : userData[c] <= hallSeen[c] /\ hallSeen[c] <= camSeq[c]

\* For every set of cameras, and through launches that fail.
THEOREM RectsWereSeen == Spec => []ShownWasSeen
<1>1. RectsInv => ShownWasSeen
  <2> SUFFICES ASSUME RectsInv, NEW c \in Cameras
               PROVE  userData[c] <= hallSeen[c] /\ hallSeen[c] <= camSeq[c]
    BY DEF ShownWasSeen
  <2>1. LineInv(c) /\ BackInv(c) /\ hallSeen[c] \in Nat /\ userData[c] \in Nat
    BY BoundsAssumption DEF RectsInv, FrameInv, ControlInv, TypeInv, TypeOK, Rects
  <2>2. userData[c] # 0 => userData[c] \in BackFrames(c)
    BY DEF BackFrames, Displayed
  <2> QED
    BY <2>1, <2>2 DEF LineInv, BackInv
<1> QED
  BY <1>1, InitRects, StepKeepsRects, PTL DEF Spec

\* What is started again starts afresh: a camera that is not in the map has no
\* messages, no bad image and no rectangles from its life before, and the hall
\* that a launch is about to start has nothing in its queue, its batch or its
\* analyzer (ServerImpl.cpp:230-250, HallThread.cpp:62-69).
StartsAfresh ==
    /\ \A c \in Cameras :
          camPc[c] = "Absent" => camQueue[c] = <<>> /\ ~invalid[c] /\ userData[c] = 0
    /\ mainPc \in {"StartCameras", "StartHall"} =>
          hallQueue = <<>> /\ hallBatch = <<>> /\ hallSeen = NoRects

LEMMA StepKeepsAfresh ==
    ASSUME FrameInv, StartsAfresh, [Next]_vars
    PROVE  StartsAfresh'
<1> USE DEF FrameInv, ControlInv, TypeInv, TypeOK, StartsAfresh
<1>1. ASSUME NEW c \in Cameras,
             CameraStops(c) \/ GoodFrame(c) \/ AnalyzerThrows(c) \/ BadFrame(c) \/ CameraTake(c)
      PROVE  StartsAfresh'
  <2>1. UNCHANGED <<mainPc, hallQueue, hallBatch, hallSeen>> /\ camPc[c] # "Absent" /\ camPc'[c] # "Absent"
    BY <1>1 DEF CameraStops, GoodFrame, AnalyzerThrows, BadFrame, CameraTake, notCamera, hallVars,
       GoTo, Reads
  <2>2. \A d \in Cameras : d # c =>
           camPc'[d] = camPc[d] /\ camQueue'[d] = camQueue[d] /\ invalid'[d] = invalid[d]
             /\ userData'[d] = userData[d]
    BY <1>1 DEF CameraStops, GoodFrame, AnalyzerThrows, BadFrame, CameraTake, GoTo, NewFrame,
       Show, Rects
  <2> QED
    BY <2>1, <2>2
<1>2. CASE HallTake \/ HandleSetCamera \/ HandleRequest \/ HallThrows
  <2>1. HallRuns /\ UNCHANGED <<mainPc, camVars>>
    BY <1>2 DEF HallTake, HandleSetCamera, HandleRequest, HallThrows, notHall, HallRuns
  <2>2. mainPc \notin {"StartCameras", "StartHall"}
    BY <2>1 DEF OneLaunch, LaunchLabels
  <2> QED
    BY <2>1, <2>2 DEF camVars
<1>3. CASE MainTake \/ HandleCameraResponse \/ GatheringTick \/ NoTick \/ ConnectionTick
           \/ Connect \/ NewCameraServer
  <2>1. UNCHANGED camVars /\ mainPc' \notin {"StartCameras", "StartHall"}
    BY <1>3 DEF MainTake, HandleCameraResponse, GatheringTick, NoTick, ConnectionTick, Connect,
       NewCameraServer, MainHandled, LaunchContinues, LaunchFails
  <2> QED
    BY <2>1 DEF camVars
<1>4. CASE HandleHallResponse
  <2>1. /\ UNCHANGED camRest /\ mainPc' \notin {"StartCameras", "StartHall"}
        /\ \A c \in Cameras : camPc[c] = "Absent" => camQueue'[c] = camQueue[c]
    BY <1>4 DEF HandleHallResponse, MainHandled, InMap
  <2> QED
    BY <2>1 DEF camRest
<1>5. CASE NewHall
  <2>1. ~HallRuns /\ hallBatch = <<>>
    BY <1>5 DEF NewHall, RelaunchFromScratch, AtRest, HallRuns
  <2> QED
    BY <1>5, <2>1 DEF NewHall, camVars
<1>6. CASE StartCameras
  <2>1. mainPc = "StartCameras" /\ UNCHANGED <<hallQueue, hallBatch, hallSeen>>
    BY <1>6 DEF StartCameras, hallVars
  <2>2. UNCHANGED <<camQueue, invalid, userData>>
    BY <1>6 DEF StartCameras, StartCamera, camVars
  <2>3. \A d \in Cameras : camPc'[d] = "Absent" => camPc[d] = "Absent"
    BY <1>6 DEF StartCameras, StartCamera, camVars
  <2> QED
    BY <2>1, <2>2, <2>3
<1>7. CASE StartHall
  BY <1>7 DEF StartHall, camVars, LaunchFails, LaunchSucceeds
<1>8. ASSUME NEW c \in Cameras, DropCamera(c)
      PROVE  \A d \in Cameras :
                camPc'[d] = "Absent" => camQueue'[d] = <<>> /\ ~invalid'[d] /\ userData'[d] = 0
  BY <1>8 DEF DropCamera, Rects
<1>9. CASE DropOldCameras \/ DropCameras
  <2>1. UNCHANGED <<camPc, camQueue, invalid, userData>> \/ \E c \in Cameras : DropCamera(c)
    BY <1>9 DEF DropOldCameras, DropCameras, First, InMap, camVars
  <2>2. mainPc' \notin {"StartCameras", "StartHall"}
    BY <1>9 DEF DropOldCameras, DropCameras, LaunchContinues, ownerIdle, GoneInOrder
  <2> QED
    BY <1>8, <2>1, <2>2
<1>10. CASE BeginShutdown \/ MainJoined \/ DropRecorder \/ DeleteAnalyzer \/ StopHall \/ HallJoined
  <2>1. UNCHANGED <<camVars, mainPc, hallBatch, hallSeen>>
        /\ (UNCHANGED hallQueue \/ hallQueue' = <<>>)
    BY <1>10 DEF BeginShutdown, MainJoined, DropRecorder, DeleteAnalyzer, StopHall, HallJoined,
       ownerIdle, hallVars
  <2> QED
    BY <2>1 DEF camVars
<1>11. CASE UNCHANGED vars
  BY <1>11 DEF vars, camVars, hallVars, mainVars
<1> QED
  BY <1>1, <1>2, <1>3, <1>4, <1>5, <1>6, <1>7, <1>9, <1>10, <1>11, NextCases

\* Nothing of an earlier attempt to launch reaches what is started anew.
THEOREM LaunchStartsAfresh == Spec => []StartsAfresh
<1>1. Init => FrameInv /\ StartsAfresh
  BY InitFrames DEF Init, StartsAfresh, NoRects
<1>2. FrameInv /\ [Next]_vars => FrameInv'
  BY StepKeepsFrames
<1>3. FrameInv /\ StartsAfresh /\ [Next]_vars => StartsAfresh'
  BY StepKeepsAfresh
<1> QED
  BY <1>1, <1>2, <1>3, PTL DEF Spec

=============================================================================
