------------------------------ MODULE Capture ------------------------------
(***************************************************************************)
(* One capture card and its cameras: CDeviceStream, which looks at one     *)
(* input of the card after the other, the CDevicePin of each input with    *)
(* its pool of frame buffers (CFrmBuffer::Allocator), the ServerStream     *)
(* that keeps the last frame of each camera, and the readers that take it  *)
(* from there, one thread per camera (ServerVideoReader).                  *)
(*                                                                         *)
(* The frames come on a thread of the card's.  The main thread chooses the *)
(* pins in use while that thread already runs, and takes everything apart  *)
(* in the end (~CameraServer, UninitializeWork).  A buffer is counted: who *)
(* takes its last reference gives it back to the pool, in a step of its    *)
(* own.  What the filters behind ServerStream do with a frame is done      *)
(* before PushImage returns and leaves the count as it was.                *)
(***************************************************************************)
EXTENDS Integers, FiniteSets, FiniteSetsExt

CONSTANTS
    NumPins,        \* the inputs of the card: 4
    Used,           \* those that have a camera
    Watched,        \* and those of them the engine reads
    Buffers,        \* the memory for the buffers of a pin
    None,           \* no buffer, or no frame
    MaxFree,        \* m_maxFreeFrames: 5, and 0 stands for no limit
    MaxTime,        \* bound on the times of frames that are told apart
    MaxFaults       \* bound on the routings that fail

ASSUME CaptureAssumption ==
    /\ NumPins \in Nat \ {0, 1} /\ Used \subseteq 0..(NumPins - 1) /\ Watched \subseteq Used
    /\ None \notin Buffers /\ IsFiniteSet(Buffers) /\ Cardinality(Buffers) >= 3
    /\ None \notin (0..(NumPins - 1)) \X (0..MaxTime)
    /\ MaxFree \in Nat /\ MaxTime \in Nat /\ MaxFaults \in Nat

Pins == 0..(NumPins - 1)

\* A frame is the input it was taken from, and the time.
Frames == Pins \X (0..MaxTime)

VARIABLES
    techwell,       \* m_bUseTechwellDriverHack
    input,          \* the input the card looks at
    pipe,           \* the frame the card has taken and not delivered yet
    time,           \* the time of the next frame
    curpin,         \* m_curpin
    at,             \* where the capture thread is
    frame,          \* the buffer it has allocated, of pin curpin
    enabled,        \* m_bEnabled of each pin
    attached,       \* the pins that are connected to a ServerStream
    phase,          \* of the main thread
    alive,          \* the buffers there are, of each pin
    free,           \* m_freeList; the others are in m_activeList
    ref,            \* m_lrefCount
    data,           \* the frame in each buffer
    last,           \* m_pFrameLast of each stream
    held,           \* the frame its reader has
    dying,          \* the buffer its reader is giving back
    seen,           \* what the reader has read last
    faults          \* the routings that have failed

cardVars == <<techwell, input, pipe, time, faults>>
mainVars == <<enabled, attached, phase>>
poolVars == <<alive, free, ref, data>>
readerVars == <<held, dying, seen>>
vars == <<cardVars, curpin, at, frame, mainVars, poolVars, last, readerVars>>

TypeOK ==
    /\ techwell \in BOOLEAN /\ input \in Pins
    /\ pipe \in Frames \cup {None} /\ time \in 0..MaxTime
    /\ curpin \in Pins
    /\ at \in {"wait", "send", "recycle", "store", "release", "route"}
    /\ frame \in Buffers \cup {None}
    /\ enabled \in [Pins -> BOOLEAN] /\ attached \subseteq Used
    /\ phase \in {"work", "end", "streams", "gone"}
    /\ alive \in [Pins -> SUBSET Buffers] /\ free \in [Pins -> SUBSET Buffers]
    /\ ref \in [Pins -> [Buffers -> Nat]]
    /\ data \in [Pins -> [Buffers -> Frames \cup {None}]]
    /\ last \in [Pins -> Buffers \cup {None}]
    /\ held \in [Pins -> Buffers \cup {None}] /\ dying \in [Pins -> Buffers \cup {None}]
    /\ seen \in [Pins -> Frames \cup {None}]
    /\ faults \in 0..MaxFaults

\* The card starts at an input on which there is a signal (InitDevice,
\* RouteToSignaledPin), the device at the first.
Init ==
    /\ techwell \in BOOLEAN /\ input \in Pins
    /\ pipe = None /\ time = 0
    /\ curpin = 0 /\ at = "wait" /\ frame = None
    /\ enabled = [p \in Pins |-> TRUE] /\ attached = {} /\ phase = "work"
    /\ alive = [p \in Pins |-> {}] /\ free = [p \in Pins |-> {}]
    /\ ref = [p \in Pins |-> [b \in Buffers |-> 0]]
    /\ data = [p \in Pins |-> [b \in Buffers |-> None]]
    /\ last = [p \in Pins |-> None]
    /\ held = [p \in Pins |-> None] /\ dying = [p \in Pins |-> None]
    /\ seen = [p \in Pins |-> None]
    /\ faults = 0

----------------------------------------------------------------------------
(* The pool of a pin.                                                      *)

\* Mistake: the free list is never used.
AllocateNew(p, f) ==
    \E b \in {CHOOSE b \in Buffers : b \notin alive[p]} :
        /\ frame' = b
        /\ alive' = [alive EXCEPT ![p] = @ \cup {b}]
        /\ ref' = [ref EXCEPT ![p][b] = 1]
        /\ data' = [data EXCEPT ![p][b] = f]
        /\ UNCHANGED free

\* AllocateFrameBuffer: a buffer of the free list, or a new one; and the
\* frame is copied into it.
Allocate(p, f) ==
    \E b \in IF free[p] # {} THEN free[p] ELSE {CHOOSE b \in Buffers : b \notin alive[p]} :
        /\ frame' = b
        /\ alive' = [alive EXCEPT ![p] = @ \cup {b}]
        /\ free' = [free EXCEPT ![p] = @ \ {b}]
        /\ ref' = [ref EXCEPT ![p][b] = @ + 1]
        /\ data' = [data EXCEPT ![p][b] = f]

\* Allocator::Release: the buffer is emptied, and kept or destroyed.
GiveBack(p, b) ==
    /\ data' = [data EXCEPT ![p][b] = None]
    /\ IF MaxFree = 0 \/ Cardinality(free[p]) < MaxFree
       THEN free' = [free EXCEPT ![p] = @ \cup {b}] /\ UNCHANGED alive
       ELSE alive' = [alive EXCEPT ![p] = @ \ {b}] /\ UNCHANGED free

----------------------------------------------------------------------------
(* The card, and the thread on which it delivers its frames.               *)

\* Frames are delivered later than they are taken: a routing does not reach
\* the one that is on its way.
TakeFrame ==
    /\ pipe = None /\ phase \in {"work", "end"}
    /\ pipe' = <<input, time>>
    /\ time' = IF time < MaxTime THEN time + 1 ELSE time
    /\ UNCHANGED <<techwell, input, faults, curpin, at, frame, mainVars, poolVars, last, readerVars>>

\* Mistake: the mark of the driver is not looked at.
AnyFrame(f) == TRUE

\* With the driver hack the first byte of a frame tells its input.
IsExpected(f) == techwell => f[1] = curpin

\* OnBufferCB of the device.  With the driver hack a frame that is not of
\* the current pin is dropped, and no pin is routed either.
DropFrame ==
    /\ at = "wait" /\ pipe # None
    /\ ~IsExpected(pipe)
    /\ pipe' = None
    /\ UNCHANGED <<techwell, input, time, faults, curpin, at, frame, mainVars, poolVars, last, readerVars>>

\* OnBufferCB of the pin.  An empty frame is not stored; one of a pin that is
\* not connected yet is allocated and released.
DeliverFrame(empty) ==
    /\ at = "wait" /\ pipe # None
    /\ IsExpected(pipe)
    /\ pipe' = None
    /\ IF empty
       THEN at' = "route" /\ UNCHANGED <<frame, poolVars>>
       ELSE /\ Allocate(curpin, pipe)
            /\ at' = IF curpin \in attached THEN "send" ELSE "release"
    /\ UNCHANGED <<techwell, input, time, faults, curpin, mainVars, last, readerVars>>

\* ServerStream::SetLastFrame, which holds m_lastFrameSect from here to the
\* end of StoreFrame: the frame that was the last is released.
ReleaseLast ==
    /\ at = "send"
    /\ IF last[curpin] = None
       THEN at' = "store" /\ UNCHANGED ref
       ELSE /\ ref' = [ref EXCEPT ![curpin][last[curpin]] = @ - 1]
            /\ at' = IF ref'[curpin][last[curpin]] = 0 THEN "recycle" ELSE "store"
    /\ UNCHANGED <<cardVars, curpin, frame, mainVars, alive, free, data, last, readerVars>>

RecycleLast ==
    /\ at = "recycle"
    /\ GiveBack(curpin, last[curpin])
    /\ at' = "store"
    /\ UNCHANGED <<cardVars, curpin, frame, mainVars, ref, last, readerVars>>

\* Mistake: the stream keeps the frame without a reference of its own.
StoreUncounted ==
    /\ at = "store"
    /\ last' = [last EXCEPT ![curpin] = frame]
    /\ at' = "release"
    /\ UNCHANGED <<cardVars, curpin, frame, mainVars, poolVars, readerVars>>

\* The new one is stored, and sent on.
StoreFrame ==
    /\ at = "store"
    /\ last' = [last EXCEPT ![curpin] = frame]
    /\ ref' = [ref EXCEPT ![curpin][frame] = @ + 1]
    /\ at' = "release"
    /\ UNCHANGED <<cardVars, curpin, frame, mainVars, alive, free, data, readerVars>>

\* The end of the pin's OnBufferCB.
ReleaseFrame ==
    /\ at = "release"
    /\ ref' = [ref EXCEPT ![curpin][frame] = @ - 1]
    /\ IF ref'[curpin][frame] = 0 THEN GiveBack(curpin, frame) ELSE UNCHANGED <<alive, free, data>>
    /\ frame' = None
    /\ at' = "route"
    /\ UNCHANGED <<cardVars, curpin, mainVars, last, readerVars>>

\* How far the other enabled pins are from the current one.
Ahead == {d \in 1..(NumPins - 1) : enabled[(curpin + d) % NumPins]}

\* Mistake: only the neighbour is looked at.
Neighbour == IF enabled[(curpin + 1) % NumPins] THEN (curpin + 1) % NumPins ELSE curpin

\* Mistake: the pin is not clamped (ClampPinNumber).
Unclamped == IF Ahead = {} THEN curpin ELSE curpin + Min(Ahead)

\* The next enabled pin, or the current one if there is no other.
NextPin == IF Ahead = {} THEN curpin ELSE (curpin + Min(Ahead)) % NumPins

\* The device goes on to the next pin, whether RouteToPin succeeds or not.
RouteToNextPin ==
    /\ at = "route"
    /\ at' = "wait"
    /\ curpin' = NextPin
    /\ \/ /\ input' = IF Ahead = {} THEN input ELSE NextPin
          /\ UNCHANGED faults
       \/ /\ Ahead # {} /\ faults < MaxFaults
          /\ faults' = faults + 1
          /\ UNCHANGED input
    /\ UNCHANGED <<techwell, pipe, time, frame, mainVars, poolVars, last, readerVars>>

Capture ==
    \/ TakeFrame \/ DropFrame \/ (\E empty \in BOOLEAN : DeliverFrame(empty))
    \/ ReleaseLast \/ RecycleLast \/ StoreFrame \/ ReleaseFrame \/ RouteToNextPin

----------------------------------------------------------------------------
(* The reader of a camera.                                                 *)

\* Mistake: the lock of the last frame is not taken.
NeverLocked(p) == FALSE

\* m_lastFrameSect.
Locked(p) == at \in {"recycle", "store"} /\ curpin = p

\* Read: first the frame of the last call is released ...
ReleaseHeld(p) ==
    /\ held[p] # None
    /\ held' = [held EXCEPT ![p] = None]
    /\ ref' = [ref EXCEPT ![p][held[p]] = @ - 1]
    /\ dying' = [dying EXCEPT ![p] = IF ref'[p][held[p]] = 0 THEN held[p] ELSE None]
    /\ UNCHANGED <<cardVars, curpin, at, frame, mainVars, alive, free, data, last, seen>>

RecycleHeld(p) ==
    /\ dying[p] # None
    /\ GiveBack(p, dying[p])
    /\ dying' = [dying EXCEPT ![p] = None]
    /\ UNCHANGED <<cardVars, curpin, at, frame, mainVars, ref, last, held, seen>>

\* ... then the stream's last frame is taken, be it new or not.
GetLastFrame(p) ==
    /\ phase = "work" /\ p \in attached \cap Watched
    /\ held[p] = None /\ dying[p] = None
    /\ last[p] # None /\ ~Locked(p)
    /\ held' = [held EXCEPT ![p] = last[p]]
    /\ ref' = [ref EXCEPT ![p][last[p]] = @ + 1]
    /\ seen' = [seen EXCEPT ![p] = data[p][last[p]]]
    /\ UNCHANGED <<cardVars, curpin, at, frame, mainVars, alive, free, data, last, dying>>

Reader(p) == ReleaseHeld(p) \/ RecycleHeld(p) \/ GetLastFrame(p)

----------------------------------------------------------------------------
(* The main thread.                                                        *)

\* SetUsedPins: a pin without a camera is deleted from the list ...
DisablePin(p) ==
    /\ phase = "work" /\ p \notin Used /\ enabled[p]
    /\ enabled' = [enabled EXCEPT ![p] = FALSE]
    /\ UNCHANGED <<cardVars, curpin, at, frame, attached, phase, poolVars, last, readerVars>>

\* ... and the others get their streams, AttachToCaptureFilter.
AttachPin(p) ==
    /\ phase = "work" /\ p \in Used \ attached
    /\ \A q \in Pins \ Used : ~enabled[q]
    /\ attached' = attached \cup {p}
    /\ UNCHANGED <<cardVars, curpin, at, frame, enabled, phase, poolVars, last, readerVars>>

\* ~CameraServer: the readers end, each with ReleaseHeld.
EndReaders ==
    /\ phase = "work"
    /\ phase' = "end"
    /\ UNCHANGED <<cardVars, curpin, at, frame, enabled, attached, poolVars, last, readerVars>>

\* FlushFrames: all the buffers of the pins in S are destroyed.
FlushFrames(S) ==
    /\ alive' = [p \in Pins |-> IF p \in S THEN {} ELSE alive[p]]
    /\ free' = [p \in Pins |-> IF p \in S THEN {} ELSE free[p]]
    /\ data' = [p \in Pins |-> IF p \in S THEN [b \in Buffers |-> None] ELSE data[p]]

\* DeleteAllDevices, when the readers have ended: no frame comes any more,
\* and the pins that are not in use go with the device.
DeleteAllDevices ==
    /\ phase = "end" /\ at = "wait"
    /\ \A p \in Pins : held[p] = None /\ dying[p] = None
    /\ phase' = "streams" /\ pipe' = None
    /\ FlushFrames({p \in Pins : ~enabled[p]})
    /\ UNCHANGED <<techwell, input, time, faults, curpin, at, frame, enabled, attached, ref, last, readerVars>>

\* m_StreamList.Clear, ~ServerStream.
ClearStream(p) ==
    /\ phase = "streams" /\ last[p] # None
    /\ last' = [last EXCEPT ![p] = None]
    /\ ref' = [ref EXCEPT ![p][last[p]] = @ - 1]
    /\ IF ref'[p][last[p]] = 0 THEN GiveBack(p, last[p]) ELSE UNCHANGED <<alive, free, data>>
    /\ UNCHANGED <<cardVars, curpin, at, frame, mainVars, readerVars>>

\* "And here are the frames' buffers, deleted last."
DeleteAllPins ==
    /\ phase = "streams" /\ \A p \in Pins : last[p] = None
    /\ phase' = "gone"
    /\ FlushFrames(Pins)
    /\ UNCHANGED <<cardVars, curpin, at, frame, enabled, attached, ref, last, readerVars>>

Main ==
    \/ \E p \in Pins : DisablePin(p) \/ AttachPin(p) \/ ClearStream(p)
    \/ EndReaders \/ DeleteAllDevices \/ DeleteAllPins

Next == Capture \/ (\E p \in Pins : Reader(p)) \/ Main

\* The card goes on to take frames, the capture thread runs.
Fairness == WF_vars(Capture)

Spec == Init /\ [][Next]_vars /\ Fairness

----------------------------------------------------------------------------
One(condition) == IF condition THEN 1 ELSE 0

\* Who has a reference to a buffer: the capture thread, the stream (but not
\* to the frame it is about to replace), and the reader.
Holders(p, b) ==
    One(curpin = p /\ frame = b) + One(last[p] = b /\ ~Locked(p)) + One(held[p] = b)

\* A buffer's count is the number of its owners, on every step of three
\* threads; an owned buffer exists and is not in the free list.
RefsCounted ==
    \A p \in Pins : \A b \in Buffers :
        /\ ref[p][b] = Holders(p, b)
        /\ Holders(p, b) > 0 => b \in alive[p] \ free[p]

\* What a reader works on is not given to the next frame, emptied or
\* destroyed under its hands: it has what it saw when it took it.
HeldIntact == \A p \in Pins : held[p] # None => data[p][held[p]] = seen[p]

\* A pin never needs more than three buffers, one per owner: every buffer
\* comes back, and comes back once.
PoolBounded == \A p \in Pins : Cardinality(alive[p]) <= 3

\* With the driver hack, no camera's stream ever has a frame of another
\* camera's, whatever is on its way while the card is routed, and whether
\* the routing succeeded or not.
OwnFrames == techwell => \A p \in Pins : last[p] # None /\ ~Locked(p) => data[p][last[p]][1] = p

Stamp(f) == IF f = None THEN 0 - 1 ELSE f[2]

\* A reader never goes back in time, nor to an empty frame.
ReadsInOrder == [][\A p \in Pins : Stamp(seen'[p]) >= Stamp(seen[p])]_vars

\* The hack has lost the card: it looks at another input than the device
\* waits for, and nothing will put that right.
Lost == techwell /\ input # curpin

\* Every camera gets its turn again and again, also while pins are disabled;
\* only with the hack a single routing that fails, or a card that did not
\* start at the first input, leaves all of them without one.
EveryCameraRouted == \A p \in Used : []<>(curpin = p \/ phase # "work" \/ Lost)
=============================================================================
