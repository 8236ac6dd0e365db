--------------------------- MODULE CaptureProofs ---------------------------
(***************************************************************************)
(* Proofs about Capture for every number of inputs, every choice of the    *)
(* pins in use and watched, every amount of memory for at least three      *)
(* buffers and every limit of the free list.                               *)
(***************************************************************************)
EXTENDS Capture, FiniteSetTheorems, WellFoundedInduction, TLAPS

----------------------------------------------------------------------------
(* The inductive invariant.                                                *)

\* A buffer whose last reference is gone and which is on its way back to the
\* pool: in the hands of the reader, or of the capture thread.
Spare(p, b) == dying[p] = b \/ (at = "recycle" /\ curpin = p /\ last[p] = b)

\* The capture thread has a frame exactly between allocation and release, and
\* hands it to a stream only if there is one.
FrameInHand ==
    /\ at \in {"send", "recycle", "store", "release"} <=> frame # None
    /\ at \in {"send", "recycle", "store"} => curpin \in attached
    /\ at = "recycle" => last[curpin] # None

Counted == \A p \in Pins : \A b \in Buffers : ref[p][b] = Holders(p, b)

\* Outside of the free list are exactly the buffers that somebody owns or is
\* giving back: none leaks, and none is lent twice.
Lent ==
    /\ \A p \in Pins : free[p] \subseteq alive[p]
    /\ \A p \in Pins : \A b \in Buffers :
          b \in alive[p] \ free[p] <=> Holders(p, b) > 0 \/ Spare(p, b)

\* A buffer that is given back has no owner, and is given back by one.
SpareOnce ==
    /\ \A p \in Pins : \A b \in Buffers : Spare(p, b) => Holders(p, b) = 0
    /\ \A p \in Pins : dying[p] # None =>
          /\ held[p] = None
          /\ ~(at = "recycle" /\ curpin = p /\ last[p] = dying[p])

\* Only a pin in use has a stream, and stays enabled.
StreamsInUse ==
    /\ \A p \in Pins : last[p] # None => p \in attached
    /\ \A p \in Pins : ~enabled[p] => p \notin Used

\* When the devices are gone, nothing is on its way and nothing is read.
Quiet ==
    phase \in {"streams", "gone"} =>
        /\ at = "wait" /\ pipe = None
        /\ \A p \in Pins : held[p] = None /\ dying[p] = None

\* With the driver hack the frame in hand is of the current pin.
FrameExpected == techwell /\ frame # None => data[curpin][frame][1] = curpin

CaptureInv ==
    /\ TypeOK /\ FrameInHand /\ Counted /\ Lent /\ SpareOnce /\ StreamsInUse /\ Quiet
    /\ HeldIntact /\ FrameExpected /\ OwnFrames /\ PoolBounded
----------------------------------------------------------------------------
(* Helpers: the smallest of some numbers is one of them; the next pin is a *)
(* pin; a set of at most three is small.                                   *)

LEMMA MinFacts ==
    ASSUME NEW S, S \subseteq Nat, S # {}
    PROVE  Min(S) \in S /\ \A y \in S : Min(S) <= y
<1> DEFINE R == OpToRel(<, Nat)
<1>1. IsWellFoundedOn(R, Nat)
  BY NatLessThanWellFounded
<1>2. \A x, y \in Nat : <<y, x>> \in R <=> y < x
  BY DEF OpToRel
<1> HIDE DEF R
<1>3. PICK x \in S : \A y \in S : ~(<<y, x>> \in R)
  BY <1>1, WFMin
<1>4. ASSUME NEW y \in S PROVE x =< y
  <2>1. x \in Nat /\ y \in Nat
    OBVIOUS
  <2>2. ~(y < x)
    BY <1>2, <1>3, <2>1
  <2> QED
    BY <2>1, <2>2
<1> QED
  BY <1>4 DEF Min

LEMMA NextPinIsPin == TypeOK => NextPin \in Pins
<1> SUFFICES ASSUME TypeOK PROVE NextPin \in Pins
  OBVIOUS
<1>1. CASE Ahead = {}
  BY <1>1 DEF NextPin, TypeOK
<1>2. CASE Ahead # {}
  <2>1. Ahead \subseteq Nat
    BY CaptureAssumption DEF Ahead
  <2>2. Min(Ahead) \in Nat
    BY <1>2, <2>1, MinFacts
  <2>3. curpin + Min(Ahead) \in Nat
    BY <2>2 DEF TypeOK, Pins
  <2>4. (curpin + Min(Ahead)) % NumPins \in 0..(NumPins - 1)
    BY <2>3, CaptureAssumption
  <2> QED
    BY <1>2, <2>4 DEF NextPin, Pins
<1> QED
  BY <1>1, <1>2

LEMMA AtMostTwo ==
    ASSUME NEW x, NEW y, NEW S, S \subseteq {x, y}
    PROVE  IsFiniteSet(S) /\ Cardinality(S) \in 0..2
<1>1. IsFiniteSet({x}) /\ Cardinality({x}) = 1
  BY FS_Singleton
<1>2. {x, y} = {x} \cup {y}
  OBVIOUS
<1>3. IsFiniteSet({x, y}) /\ Cardinality({x, y}) <= 2
  BY <1>1, <1>2, FS_AddElement
<1>4. IsFiniteSet(S) /\ Cardinality(S) <= Cardinality({x, y})
  BY <1>3, FS_Subset
<1>5. Cardinality(S) \in Nat /\ Cardinality({x, y}) \in Nat
  BY <1>3, <1>4, FS_CardinalityType
<1> QED
  BY <1>3, <1>4, <1>5

----------------------------------------------------------------------------
(* What the operations of a pool do, buffer by buffer.                     *)

\* Nothing but buffer b of pin p has changed.
OthersUntouched(p, b) ==
    \A q \in Pins : \A c \in Buffers : q # p \/ c # b =>
        /\ c \in alive'[q] <=> c \in alive[q]
        /\ c \in free'[q] <=> c \in free[q]
        /\ data'[q][c] = data[q][c]

PoolTypes ==
    /\ alive \in [Pins -> SUBSET Buffers] /\ free \in [Pins -> SUBSET Buffers]
    /\ ref \in [Pins -> [Buffers -> Nat]]
    /\ data \in [Pins -> [Buffers -> Frames \cup {None}]]

\* A buffer that is given back is in the free list or gone.
LEMMA GiveBackFacts ==
    ASSUME PoolTypes, NEW p \in Pins, NEW b \in Buffers, GiveBack(p, b)
    PROVE  /\ alive' \in [Pins -> SUBSET Buffers] /\ free' \in [Pins -> SUBSET Buffers]
           /\ data' \in [Pins -> [Buffers -> Frames \cup {None}]]
           /\ OthersUntouched(p, b)
           /\ b \in alive[p] \ free[p] => (b \in alive'[p] <=> b \in free'[p])
           /\ \A q \in Pins : alive'[q] \subseteq alive[q]
<1>1. /\ data' \in [Pins -> [Buffers -> Frames \cup {None}]]
      /\ \A q \in Pins : \A c \in Buffers : q # p \/ c # b => data'[q][c] = data[q][c]
  BY DEF GiveBack, PoolTypes
<1>2. CASE free' = [free EXCEPT ![p] = @ \cup {b}] /\ alive' = alive
  BY <1>1, <1>2 DEF PoolTypes, OthersUntouched
<1>3. CASE alive' = [alive EXCEPT ![p] = @ \ {b}] /\ free' = free
  BY <1>1, <1>3 DEF PoolTypes, OthersUntouched
<1> QED
  BY <1>2, <1>3 DEF GiveBack

----------------------------------------------------------------------------
\* When the capture thread waits and a pin has no free buffer, all its buffers
\* are the stream's and the reader's, two at most: there is memory for one more.
LEMMA FewOut ==
    ASSUME CaptureInv, at = "wait", NEW p \in Pins, free[p] = {}
    PROVE  /\ IsFiniteSet(alive[p]) /\ Cardinality(alive[p]) \in 0..2
           /\ \E b \in Buffers : b \notin alive[p]
<1> DEFINE x == last[p]
           y == IF held[p] # None THEN held[p] ELSE dying[p]
<1>1. frame = None /\ ~Locked(p)
  BY DEF CaptureInv, FrameInHand, Locked
<1>2. ASSUME NEW b \in alive[p] PROVE b \in {x, y}
  <2>1. b \in Buffers /\ b # None
    BY CaptureAssumption DEF CaptureInv, TypeOK
  <2>2. Holders(p, b) > 0 \/ Spare(p, b)
    BY <2>1 DEF CaptureInv, Lent
  <2>3. CASE Spare(p, b)
    <3>1. dying[p] = b /\ held[p] = None
      BY <2>1, <2>3 DEF Spare, CaptureInv, SpareOnce
    <3> QED
      BY <3>1
  <2>4. CASE Holders(p, b) > 0
    <3>1. last[p] = b \/ held[p] = b
      BY <1>1, <2>1, <2>4 DEF Holders, One
    <3> QED
      BY <3>1, <2>1
  <2> QED
    BY <2>2, <2>3, <2>4
<1>3. IsFiniteSet(alive[p]) /\ Cardinality(alive[p]) \in 0..2
  <2> HIDE DEF x, y
  <2> QED
    BY <1>2, AtMostTwo
<1>4. \E b \in Buffers : b \notin alive[p]
  <2> SUFFICES ASSUME Buffers \subseteq alive[p] PROVE FALSE
    OBVIOUS
  <2>1. Cardinality(Buffers) <= Cardinality(alive[p])
    BY <1>3, FS_Subset
  <2>2. Cardinality(Buffers) \in Nat
    BY CaptureAssumption, FS_CardinalityType
  <2> QED
    BY <1>3, <2>1, <2>2, CaptureAssumption
<1> QED
  BY <1>3, <1>4

\* The buffer that is allocated was nobody's, and is the capture thread's now.
LEMMA AllocateFacts ==
    ASSUME CaptureInv, at = "wait", NEW f \in Frames, Allocate(curpin, f)
    PROVE  /\ alive' \in [Pins -> SUBSET Buffers] /\ free' \in [Pins -> SUBSET Buffers]
           /\ data' \in [Pins -> [Buffers -> Frames \cup {None}]]
           /\ \A q \in Pins : Cardinality(alive'[q]) <= 3
           /\ \E b \in Buffers :
                 /\ frame' = b /\ OthersUntouched(curpin, b)
                 /\ b \notin alive[curpin] \ free[curpin]
                 /\ b \in alive'[curpin] \ free'[curpin]
                 /\ ref' = [ref EXCEPT ![curpin][b] = @ + 1]
                 /\ data'[curpin][b] = f
<1>1. /\ PoolTypes /\ curpin \in Pins /\ free[curpin] \subseteq alive[curpin]
      /\ \A q \in Pins : Cardinality(alive[q]) <= 3
  BY DEF CaptureInv, TypeOK, PoolTypes, Lent, PoolBounded
<1>2. PICK b \in IF free[curpin] # {} THEN free[curpin]
                 ELSE {CHOOSE b \in Buffers : b \notin alive[curpin]} :
        /\ frame' = b
        /\ alive' = [alive EXCEPT ![curpin] = @ \cup {b}]
        /\ free' = [free EXCEPT ![curpin] = @ \ {b}]
        /\ ref' = [ref EXCEPT ![curpin][b] = @ + 1]
        /\ data' = [data EXCEPT ![curpin][b] = f]
  BY DEF Allocate
<1>5. ASSUME b \in Buffers
      PROVE  /\ alive' \in [Pins -> SUBSET Buffers] /\ free' \in [Pins -> SUBSET Buffers]
             /\ data' \in [Pins -> [Buffers -> Frames \cup {None}]]
             /\ OthersUntouched(curpin, b)
             /\ b \in alive'[curpin] \ free'[curpin]
             /\ data'[curpin][b] = f
  BY <1>1, <1>2, <1>5 DEF PoolTypes, OthersUntouched
<1>3. CASE free[curpin] # {}
  <2>1. b \in free[curpin] /\ b \in Buffers /\ b \in alive[curpin]
    BY <1>1, <1>2, <1>3 DEF PoolTypes
  <2>2. alive' = alive
    BY <1>1, <1>2, <2>1 DEF PoolTypes
  <2>3. \A q \in Pins : Cardinality(alive'[q]) <= 3
    BY <1>1, <2>2
  <2> QED
    BY <1>1, <1>2, <1>5, <2>1, <2>2, <2>3
<1>4. CASE free[curpin] = {}
  <2>1. b \in Buffers /\ b \notin alive[curpin]
    BY <1>1, <1>2, <1>4, FewOut
  <2>2. Cardinality(alive[curpin] \cup {b}) <= 3
    <3>1. IsFiniteSet(alive[curpin]) /\ Cardinality(alive[curpin]) \in 0..2
      BY <1>1, <1>4, FewOut
    <3>2. Cardinality(alive[curpin] \cup {b}) = Cardinality(alive[curpin]) + 1
      BY <2>1, <3>1, FS_AddElement
    <3> QED
      BY <3>1, <3>2
  <2>3. \A q \in Pins : Cardinality(alive'[q]) <= 3
    BY <1>1, <1>2, <2>2 DEF PoolTypes
  <2> QED
    BY <1>1, <1>2, <1>5, <2>1, <2>3
<1> QED
  BY <1>3, <1>4

----------------------------------------------------------------------------
(* The invariant holds in the beginning, and every action keeps it.        *)

\* What is said of buffers depends on these variables only.
bufferVars == <<techwell, curpin, at, frame, poolVars, last, readerVars>>

BufferInv ==
    /\ Counted /\ Lent /\ SpareOnce
    /\ HeldIntact /\ FrameExpected /\ OwnFrames /\ PoolBounded

LEMMA HoldersRange == \A p, b : Holders(p, b) \in 0..3
  BY DEF Holders, One

LEMMA BuffersUnchanged == BufferInv /\ UNCHANGED bufferVars => BufferInv'
<1> SUFFICES ASSUME BufferInv, UNCHANGED bufferVars PROVE BufferInv'
  OBVIOUS
<1>1. \A p, b : Holders(p, b)' = Holders(p, b) /\ (Spare(p, b)' <=> Spare(p, b))
  BY DEF bufferVars, readerVars, Holders, Spare, Locked, One
<1>2. (Counted /\ Lent /\ SpareOnce)'
  BY <1>1 DEF bufferVars, poolVars, readerVars, BufferInv, Counted, Lent, SpareOnce, Spare
<1>3. (HeldIntact /\ FrameExpected /\ PoolBounded)'
  BY DEF bufferVars, poolVars, readerVars, BufferInv, HeldIntact, FrameExpected, PoolBounded
<1>4. OwnFrames'
  BY DEF bufferVars, poolVars, readerVars, BufferInv, OwnFrames, Locked
<1> QED
  BY <1>2, <1>3, <1>4 DEF BufferInv

LEMMA InvParts ==
    CaptureInv <=> TypeOK /\ FrameInHand /\ StreamsInUse /\ Quiet /\ BufferInv
  BY DEF CaptureInv, BufferInv

LEMMA InitCapture == Init => CaptureInv
<1> SUFFICES ASSUME Init PROVE CaptureInv
  OBVIOUS
<1>1. TypeOK
  BY CaptureAssumption DEF Init, TypeOK, Pins
<1>2. \A p \in Pins : \A b \in Buffers : Holders(p, b) = 0 /\ ~Spare(p, b)
  BY CaptureAssumption DEF Init, Holders, Spare, One
<1>3. Counted /\ Lent /\ SpareOnce
  BY <1>2 DEF Init, Counted, Lent, SpareOnce
<1>4. PoolBounded
  BY FS_EmptySet DEF Init, PoolBounded
<1> QED
  BY <1>1, <1>3, <1>4 DEF Init, CaptureInv, FrameInHand, StreamsInUse, Quiet, HeldIntact,
     FrameExpected, OwnFrames

\* The card takes a frame, the device drops one, a pin is disabled or gets its
\* stream, the readers end: no buffer is touched.
LEMMA BufferlessKeepsInv ==
    ASSUME CaptureInv,
           \/ TakeFrame \/ DropFrame \/ EndReaders
           \/ \E p \in Pins : DisablePin(p) \/ AttachPin(p)
    PROVE  CaptureInv'
<1>1. BufferInv /\ UNCHANGED bufferVars
  BY InvParts DEF bufferVars, poolVars, readerVars, cardVars, mainVars, TakeFrame, DropFrame, EndReaders,
     DisablePin, AttachPin
<1>2. BufferInv'
  BY <1>1, BuffersUnchanged
<1>3. (TypeOK /\ FrameInHand /\ StreamsInUse /\ Quiet)'
  <2>1. CASE TakeFrame
    <3>1. pipe' \in Frames /\ time' \in 0..MaxTime
      BY <2>1, CaptureAssumption DEF TakeFrame, CaptureInv, TypeOK, Frames
    <3> QED
      BY <2>1, <3>1, CaptureAssumption DEF TakeFrame, mainVars, poolVars, readerVars, CaptureInv, TypeOK,
         FrameInHand, StreamsInUse, Quiet
  <2>2. CASE DropFrame
    BY <2>2, CaptureAssumption DEF DropFrame, mainVars, poolVars, readerVars, CaptureInv, TypeOK,
       FrameInHand, StreamsInUse, Quiet
  <2>3. CASE EndReaders
    BY <2>3, CaptureAssumption DEF EndReaders, cardVars, poolVars, readerVars, CaptureInv, TypeOK,
       FrameInHand, StreamsInUse, Quiet
  <2>4. ASSUME NEW p \in Pins, DisablePin(p)
        PROVE  (TypeOK /\ FrameInHand /\ StreamsInUse /\ Quiet)'
    BY <2>4, CaptureAssumption DEF DisablePin, cardVars, poolVars, readerVars, CaptureInv, TypeOK,
       FrameInHand, StreamsInUse, Quiet
  <2>5. ASSUME NEW p \in Pins, AttachPin(p)
        PROVE  (TypeOK /\ FrameInHand /\ StreamsInUse /\ Quiet)'
    BY <2>5, CaptureAssumption DEF AttachPin, cardVars, poolVars, readerVars, CaptureInv, TypeOK,
       FrameInHand, StreamsInUse, Quiet
  <2> QED
    BY <2>1, <2>2, <2>3, <2>4, <2>5
<1> QED
  BY <1>2, <1>3 DEF CaptureInv, BufferInv

LEMMA DeliverKeepsInv ==
    ASSUME CaptureInv, NEW empty \in BOOLEAN, DeliverFrame(empty)
    PROVE  CaptureInv'
<1>1. /\ TypeOK /\ at = "wait" /\ frame = None /\ pipe \in Frames /\ curpin \in Pins
      /\ curpin' = curpin /\ last' = last /\ held' = held /\ dying' = dying
      /\ techwell' = techwell /\ attached' = attached /\ enabled' = enabled /\ phase' = phase
      /\ seen' = seen /\ input' = input /\ time' = time /\ faults' = faults /\ pipe' = None
      /\ phase \notin {"streams", "gone"}
  BY DEF DeliverFrame, cardVars, mainVars, readerVars, CaptureInv, TypeOK, FrameInHand, Quiet
<1>2. CASE empty
  <2>1. at' = "route" /\ frame' = frame /\ UNCHANGED poolVars
    BY <1>2 DEF DeliverFrame
  <2>2. \A p, b : Holders(p, b)' = Holders(p, b) /\ (Spare(p, b)' <=> Spare(p, b))
    BY <1>1, <2>1 DEF Holders, Spare, Locked, One
  <2>3. (TypeOK /\ FrameInHand /\ StreamsInUse /\ Quiet)'
    BY <1>1, <2>1 DEF poolVars, CaptureInv, TypeOK, FrameInHand, StreamsInUse, Quiet
  <2>4. (Counted /\ Lent /\ SpareOnce)'
    BY <1>1, <2>1, <2>2 DEF poolVars, CaptureInv, Counted, Lent, SpareOnce, Spare
  <2>5. (HeldIntact /\ FrameExpected /\ OwnFrames /\ PoolBounded)'
    BY <1>1, <2>1 DEF poolVars, CaptureInv, HeldIntact, FrameExpected, OwnFrames, PoolBounded, Locked
  <2> QED
    BY <2>3, <2>4, <2>5 DEF CaptureInv
<1>3. CASE ~empty
  <2>1. /\ Allocate(curpin, pipe) /\ (techwell => pipe[1] = curpin)
        /\ at' = IF curpin \in attached THEN "send" ELSE "release"
    BY <1>3 DEF DeliverFrame, IsExpected
  <2>2. /\ alive' \in [Pins -> SUBSET Buffers] /\ free' \in [Pins -> SUBSET Buffers]
        /\ data' \in [Pins -> [Buffers -> Frames \cup {None}]]
        /\ \A q \in Pins : Cardinality(alive'[q]) <= 3
    BY <1>1, <2>1, AllocateFacts
  <2>3. PICK b \in Buffers :
           /\ frame' = b /\ OthersUntouched(curpin, b)
           /\ b \notin alive[curpin] \ free[curpin]
           /\ b \in alive'[curpin] \ free'[curpin]
           /\ ref' = [ref EXCEPT ![curpin][b] = @ + 1]
           /\ data'[curpin][b] = pipe
    BY <1>1, <2>1, AllocateFacts
  <2>4. Holders(curpin, b) = 0 /\ ~Spare(curpin, b)
    BY <1>1, <2>3 DEF CaptureInv, Lent, Holders, One
  <2>5. \A p \in Pins, c \in Buffers :
           /\ Holders(p, c)' = IF p = curpin /\ c = b THEN 1 ELSE Holders(p, c)
           /\ Spare(p, c)' <=> Spare(p, c)
    BY <1>1, <2>1, <2>3, <2>4, CaptureAssumption DEF Holders, Spare, Locked, One
  <2>6. ref' \in [Pins -> [Buffers -> Nat]]
        /\ \A p \in Pins, c \in Buffers :
              ref'[p][c] = IF p = curpin /\ c = b THEN ref[p][c] + 1 ELSE ref[p][c]
    BY <1>1, <2>3 DEF TypeOK
  <2>7. (TypeOK /\ FrameInHand /\ StreamsInUse /\ Quiet)'
    BY <1>1, <2>1, <2>2, <2>3, <2>6, CaptureAssumption
       DEF CaptureInv, TypeOK, FrameInHand, StreamsInUse, Quiet
  <2>8. Counted'
    BY <2>4, <2>5, <2>6 DEF CaptureInv, Counted
  <2>9. Lent'
    <3>1. ASSUME NEW p \in Pins, NEW c \in Buffers
          PROVE  /\ c \in free'[p] => c \in alive'[p]
                 /\ c \in alive'[p] \ free'[p] <=> Holders(p, c)' > 0 \/ Spare(p, c)'
      <4>1. CASE p = curpin /\ c = b
        BY <2>3, <2>5, <4>1
      <4>2. CASE ~(p = curpin /\ c = b)
        BY <2>3, <2>5, <4>2 DEF CaptureInv, Lent, OthersUntouched
      <4> QED
        BY <4>1, <4>2
    <3> QED
      BY <2>2, <3>1 DEF Lent
  <2>10. SpareOnce'
    BY <1>1, <2>1, <2>4, <2>5 DEF CaptureInv, SpareOnce
  <2>11. HeldIntact' /\ FrameExpected' /\ OwnFrames'
    <3>1. \A p \in Pins : held[p] # None => held[p] \in Buffers /\ ~(p = curpin /\ held[p] = b)
      BY <1>1, <2>4 DEF TypeOK, Holders, One
    <3>2. \A p \in Pins : last[p] # None => last[p] \in Buffers /\ ~(p = curpin /\ last[p] = b)
      BY <1>1, <2>4 DEF TypeOK, Holders, One, Locked
    <3>3. HeldIntact'
      BY <1>1, <2>3, <3>1 DEF CaptureInv, HeldIntact, OthersUntouched
    <3>4. OwnFrames'
      BY <1>1, <2>1, <2>3, <3>2 DEF CaptureInv, OwnFrames, OthersUntouched, Locked
    <3> QED
      BY <1>1, <2>1, <2>3, <3>3, <3>4 DEF FrameExpected
  <2> QED
    BY <2>2, <2>7, <2>8, <2>9, <2>10, <2>11 DEF CaptureInv, PoolBounded
<1> QED
  BY <1>2, <1>3

\* Fewer buffers are as bounded.
LEMMA FewerBounded ==
    ASSUME CaptureInv, \A p \in Pins : alive'[p] \subseteq alive[p]
    PROVE  PoolBounded'
<1> SUFFICES ASSUME NEW p \in Pins PROVE Cardinality(alive'[p]) <= 3
  BY DEF PoolBounded
<1>1. alive[p] \subseteq Buffers /\ alive'[p] \subseteq alive[p] /\ Cardinality(alive[p]) <= 3
  BY DEF CaptureInv, TypeOK, PoolBounded
<1>2. IsFiniteSet(alive[p])
  BY <1>1, CaptureAssumption, FS_Subset
<1>3. IsFiniteSet(alive'[p]) /\ Cardinality(alive'[p]) <= Cardinality(alive[p])
  BY <1>1, <1>2, FS_Subset
<1>4. Cardinality(alive[p]) \in Nat /\ Cardinality(alive'[p]) \in Nat
  BY <1>2, <1>3, FS_CardinalityType
<1> QED
  BY <1>1, <1>3, <1>4

\* A buffer that nobody owns any more goes back; the others are as they were.
LEMMA GiveBackKeeps ==
    ASSUME CaptureInv, NEW p \in Pins, NEW b \in alive[p] \ free[p], GiveBack(p, b),
           Holders(p, b)' = 0, ~Spare(p, b)',
           \A q \in Pins, c \in Buffers : q # p \/ c # b =>
              Holders(q, c)' = Holders(q, c) /\ (Spare(q, c)' <=> Spare(q, c))
    PROVE  /\ Lent' /\ PoolBounded'
           /\ alive' \in [Pins -> SUBSET Buffers] /\ free' \in [Pins -> SUBSET Buffers]
           /\ data' \in [Pins -> [Buffers -> Frames \cup {None}]]
           /\ OthersUntouched(p, b)
<1>1. PoolTypes /\ b \in Buffers
  BY DEF CaptureInv, TypeOK, PoolTypes
<1>2. /\ alive' \in [Pins -> SUBSET Buffers] /\ free' \in [Pins -> SUBSET Buffers]
      /\ data' \in [Pins -> [Buffers -> Frames \cup {None}]]
      /\ OthersUntouched(p, b)
      /\ b \in alive'[p] <=> b \in free'[p]
      /\ \A q \in Pins : alive'[q] \subseteq alive[q]
  BY <1>1, GiveBackFacts
<1>3. ASSUME NEW q \in Pins, NEW c \in Buffers
      PROVE  /\ c \in free'[q] => c \in alive'[q]
             /\ c \in alive'[q] \ free'[q] <=> Holders(q, c)' > 0 \/ Spare(q, c)'
  <2>1. CASE q = p /\ c = b
    BY <1>2, <2>1
  <2>2. CASE ~(q = p /\ c = b)
    BY <1>2, <2>2 DEF CaptureInv, Lent, OthersUntouched
  <2> QED
    BY <2>1, <2>2
<1> QED
  BY <1>2, <1>3, FewerBounded DEF Lent

LEMMA ReleaseLastKeepsInv ==
    ASSUME CaptureInv, ReleaseLast
    PROVE  CaptureInv'
<1>1. /\ TypeOK /\ at = "send" /\ frame \in Buffers /\ curpin \in Pins /\ curpin \in attached
      /\ curpin' = curpin /\ last' = last /\ held' = held /\ dying' = dying /\ frame' = frame
      /\ techwell' = techwell /\ attached' = attached /\ enabled' = enabled /\ phase' = phase
      /\ seen' = seen /\ input' = input /\ time' = time /\ faults' = faults /\ pipe' = pipe
      /\ alive' = alive /\ free' = free /\ data' = data
      /\ phase \notin {"streams", "gone"}
  BY CaptureAssumption DEF ReleaseLast, cardVars, mainVars, readerVars, CaptureInv, TypeOK, FrameInHand, Quiet
<1>2. CASE last[curpin] = None
  <2>1. at' = "store" /\ ref' = ref
    BY <1>2 DEF ReleaseLast
  <2>2. \A p \in Pins, b \in Buffers : Holders(p, b)' = Holders(p, b) /\ (Spare(p, b)' <=> Spare(p, b))
    BY <1>1, <1>2, <2>1, CaptureAssumption DEF Holders, Spare, Locked, One
  <2>3. (TypeOK /\ FrameInHand /\ StreamsInUse /\ Quiet)'
    BY <1>1, <2>1 DEF CaptureInv, TypeOK, FrameInHand, StreamsInUse, Quiet
  <2>4. (Counted /\ Lent /\ SpareOnce)'
    BY <1>1, <2>1, <2>2 DEF CaptureInv, Counted, Lent, SpareOnce
  <2>5. (HeldIntact /\ FrameExpected /\ OwnFrames /\ PoolBounded)'
    BY <1>1, <2>1 DEF CaptureInv, HeldIntact, FrameExpected, OwnFrames, PoolBounded, Locked
  <2> QED
    BY <2>3, <2>4, <2>5 DEF CaptureInv
<1>3. CASE last[curpin] # None
  <2> DEFINE b == last[curpin]
  <2>1. /\ b \in Buffers /\ ref' = [ref EXCEPT ![curpin][b] = @ - 1]
        /\ at' = IF ref'[curpin][b] = 0 THEN "recycle" ELSE "store"
    BY <1>1, <1>3 DEF ReleaseLast, TypeOK
  <2>2. /\ Holders(curpin, b) >= 1 /\ ~Spare(curpin, b) /\ ref[curpin][b] >= 1
        /\ ref[curpin][b] = Holders(curpin, b)
    BY <1>1, <2>1 DEF CaptureInv, Counted, SpareOnce, Holders, Locked, One
  <2>3. /\ ref' \in [Pins -> [Buffers -> Nat]]
        /\ \A p \in Pins, c \in Buffers :
              ref'[p][c] = IF p = curpin /\ c = b THEN ref[p][c] - 1 ELSE ref[p][c]
    BY <1>1, <2>1, <2>2 DEF TypeOK
  <2>4. at' \in {"recycle", "store"} /\ (at' = "recycle" <=> ref[curpin][b] = 1)
    BY <1>1, <2>1, <2>3 DEF TypeOK
  <2>5. \A p \in Pins, c \in Buffers :
           /\ Holders(p, c)' = IF p = curpin /\ c = b THEN Holders(p, c) - 1 ELSE Holders(p, c)
           /\ Spare(p, c)' <=> Spare(p, c) \/ (p = curpin /\ c = b /\ at' = "recycle")
    BY <1>1, <2>1, <2>4 DEF Holders, Spare, Locked, One
  <2>6. (TypeOK /\ FrameInHand /\ StreamsInUse /\ Quiet)'
    BY <1>1, <1>3, <2>3, <2>4, CaptureAssumption DEF CaptureInv, TypeOK, FrameInHand, StreamsInUse, Quiet
  <2>7. Counted'
    BY <2>3, <2>5 DEF CaptureInv, Counted
  <2>8. Lent'
    <3>1. b \in alive[curpin] \ free[curpin]
      <4>1. Holders(curpin, b) > 0
        BY <2>2, HoldersRange
      <4> QED
        BY <1>1, <2>1, <4>1 DEF CaptureInv, Lent
    <3>2. Holders(curpin, b)' > 0 \/ Spare(curpin, b)'
      <4>1. Holders(curpin, b) \in 1..3
        BY <2>2 DEF Holders, One
      <4>2. CASE Holders(curpin, b) = 1
        BY <1>1, <2>1, <2>2, <2>4, <2>5, <4>2
      <4>3. CASE Holders(curpin, b) # 1
        BY <1>1, <2>1, <2>5, <4>1, <4>3
      <4> QED
        BY <4>2, <4>3
    <3>3. \A p \in Pins, c \in Buffers : p # curpin \/ c # b =>
             (c \in alive[p] \ free[p] <=> Holders(p, c)' > 0 \/ Spare(p, c)')
      BY <2>5 DEF CaptureInv, Lent
    <3>4. \A p \in Pins, c \in Buffers :
             (c \in alive[p] \ free[p] <=> Holders(p, c)' > 0 \/ Spare(p, c)')
      <4> SUFFICES ASSUME NEW p \in Pins, NEW c \in Buffers
                   PROVE  c \in alive[p] \ free[p] <=> Holders(p, c)' > 0 \/ Spare(p, c)'
        OBVIOUS
      <4>1. CASE p = curpin /\ c = b
        BY <1>1, <3>1, <3>2, <4>1
      <4>2. CASE p # curpin \/ c # b
        BY <3>3, <4>2
      <4> QED
        BY <4>1, <4>2
    <3> QED
      BY <1>1, <3>4 DEF CaptureInv, Lent
  <2>9. SpareOnce'
    <3>1. \A p \in Pins : dying[p] # None => ~(p = curpin /\ dying[p] = b)
      BY <2>2 DEF Spare
    <3> QED
      BY <1>1, <2>1, <2>2, <2>4, <2>5, <3>1 DEF CaptureInv, SpareOnce, Spare
  <2>10. (HeldIntact /\ FrameExpected /\ OwnFrames /\ PoolBounded)'
    BY <1>1, <2>4 DEF CaptureInv, HeldIntact, FrameExpected, OwnFrames, PoolBounded, Locked
  <2> QED
    BY <2>6, <2>7, <2>8, <2>9, <2>10 DEF CaptureInv
<1> QED
  BY <1>2, <1>3

LEMMA RecycleLastKeepsInv ==
    ASSUME CaptureInv, RecycleLast
    PROVE  CaptureInv'
<1> DEFINE b == last[curpin]
<1>1. /\ TypeOK /\ at = "recycle" /\ frame \in Buffers /\ curpin \in Pins /\ b \in Buffers
      /\ curpin \in attached /\ GiveBack(curpin, b) /\ at' = "store"
      /\ curpin' = curpin /\ last' = last /\ held' = held /\ dying' = dying /\ frame' = frame
      /\ techwell' = techwell /\ attached' = attached /\ enabled' = enabled /\ phase' = phase
      /\ seen' = seen /\ input' = input /\ time' = time /\ faults' = faults /\ pipe' = pipe
      /\ ref' = ref /\ phase \notin {"streams", "gone"}
  BY CaptureAssumption DEF RecycleLast, cardVars, mainVars, readerVars, CaptureInv, TypeOK, FrameInHand, Quiet
<1>2. /\ Spare(curpin, b) /\ Holders(curpin, b) = 0 /\ dying[curpin] # b
      /\ b \in alive[curpin] \ free[curpin]
  BY <1>1, CaptureAssumption DEF Spare, CaptureInv, SpareOnce, Lent
<1>3. \A p \in Pins, c \in Buffers :
         /\ Holders(p, c)' = Holders(p, c)
         /\ Spare(p, c)' <=> Spare(p, c) /\ ~(p = curpin /\ c = b)
  BY <1>1, <1>2 DEF Holders, Spare, Locked, One
<1> HIDE DEF b
<1>4. /\ Lent' /\ PoolBounded'
      /\ alive' \in [Pins -> SUBSET Buffers] /\ free' \in [Pins -> SUBSET Buffers]
      /\ data' \in [Pins -> [Buffers -> Frames \cup {None}]]
      /\ OthersUntouched(curpin, b)
  BY <1>1, <1>2, <1>3, GiveBackKeeps
<1>5. (TypeOK /\ FrameInHand /\ StreamsInUse /\ Quiet)'
  BY <1>1, <1>4 DEF CaptureInv, TypeOK, FrameInHand, StreamsInUse, Quiet
<1>6. Counted' /\ SpareOnce'
  BY <1>1, <1>3 DEF CaptureInv, Counted, SpareOnce
<1>7. HeldIntact' /\ FrameExpected' /\ OwnFrames'
  <2>1. /\ held[curpin] # b /\ frame # b
    BY <1>1, <1>2 DEF Holders, One
  <2>2. \A p \in Pins : last[p] # None /\ ~Locked(p)' => last[p] \in Buffers /\ p # curpin /\ ~Locked(p)
    BY <1>1 DEF TypeOK, Locked
  <2>3. FrameExpected'
    BY <1>1, <1>4, <2>1 DEF CaptureInv, FrameExpected, OthersUntouched
  <2>3a. HeldIntact'
    <3>1. \A p \in Pins : held[p] # None => held[p] \in Buffers /\ (p # curpin \/ held[p] # b)
      BY <1>1, <2>1 DEF TypeOK
    <3> QED
      BY <1>1, <1>4, <3>1 DEF CaptureInv, HeldIntact, OthersUntouched
  <2>4. OwnFrames'
    BY <1>1, <1>4, <2>2 DEF CaptureInv, OwnFrames, OthersUntouched
  <2> QED
    BY <2>3, <2>3a, <2>4
<1> QED
  BY <1>4, <1>5, <1>6, <1>7 DEF CaptureInv

LEMMA StoreKeepsInv ==
    ASSUME CaptureInv, StoreFrame
    PROVE  CaptureInv'
<1>1. /\ TypeOK /\ at = "store" /\ frame \in Buffers /\ curpin \in Pins /\ curpin \in attached
      /\ last' = [last EXCEPT ![curpin] = frame] /\ at' = "release"
      /\ ref' = [ref EXCEPT ![curpin][frame] = @ + 1]
      /\ curpin' = curpin /\ held' = held /\ dying' = dying /\ frame' = frame
      /\ techwell' = techwell /\ attached' = attached /\ enabled' = enabled /\ phase' = phase
      /\ seen' = seen /\ input' = input /\ time' = time /\ faults' = faults /\ pipe' = pipe
      /\ alive' = alive /\ free' = free /\ data' = data /\ phase \notin {"streams", "gone"}
  BY CaptureAssumption DEF StoreFrame, cardVars, mainVars, readerVars, CaptureInv, TypeOK, FrameInHand, Quiet
<1>2. Holders(curpin, frame) >= 1 /\ ~Spare(curpin, frame)
  BY <1>1 DEF CaptureInv, SpareOnce, Holders, One
<1>3. /\ ref' \in [Pins -> [Buffers -> Nat]]
      /\ \A p \in Pins, c \in Buffers :
            ref'[p][c] = IF p = curpin /\ c = frame THEN ref[p][c] + 1 ELSE ref[p][c]
      /\ \A p \in Pins : last'[p] = IF p = curpin THEN frame ELSE last[p]
  BY <1>1 DEF TypeOK
<1>4. \A p \in Pins, c \in Buffers :
         /\ Holders(p, c)' = IF p = curpin /\ c = frame THEN Holders(p, c) + 1 ELSE Holders(p, c)
         /\ Spare(p, c)' <=> Spare(p, c)
  BY <1>1, <1>3 DEF Holders, Spare, Locked, One
<1>5. (TypeOK /\ FrameInHand /\ StreamsInUse /\ Quiet)'
  BY <1>1, <1>3, CaptureAssumption DEF CaptureInv, TypeOK, FrameInHand, StreamsInUse, Quiet
<1>6. Counted' /\ SpareOnce'
  BY <1>1, <1>2, <1>3, <1>4 DEF CaptureInv, Counted, SpareOnce
<1>7. Lent'
  <2>1. \A p \in Pins, c \in Buffers : Holders(p, c)' > 0 <=> Holders(p, c) > 0
    BY <1>1, <1>2, <1>4, HoldersRange
  <2> QED
    BY <1>1, <1>4, <2>1 DEF CaptureInv, Lent
<1>8. (HeldIntact /\ FrameExpected /\ PoolBounded)'
  BY <1>1 DEF CaptureInv, HeldIntact, FrameExpected, PoolBounded
<1>9. OwnFrames'
  BY <1>1, <1>3, CaptureAssumption DEF CaptureInv, OwnFrames, FrameExpected, Locked
<1> QED
  BY <1>5, <1>6, <1>7, <1>8, <1>9 DEF CaptureInv

LEMMA ReleaseFrameKeepsInv ==
    ASSUME CaptureInv, ReleaseFrame
    PROVE  CaptureInv'
<1>1. /\ TypeOK /\ at = "release" /\ frame \in Buffers /\ frame # None /\ curpin \in Pins
      /\ at' = "route" /\ frame' = None /\ ref' = [ref EXCEPT ![curpin][frame] = @ - 1]
      /\ curpin' = curpin /\ held' = held /\ dying' = dying /\ last' = last
      /\ techwell' = techwell /\ attached' = attached /\ enabled' = enabled /\ phase' = phase
      /\ seen' = seen /\ input' = input /\ time' = time /\ faults' = faults /\ pipe' = pipe
      /\ phase \notin {"streams", "gone"}
  BY CaptureAssumption DEF ReleaseFrame, cardVars, mainVars, readerVars, CaptureInv, TypeOK, FrameInHand, Quiet
<1>2. /\ Holders(curpin, frame) \in 1..3 /\ ~Spare(curpin, frame)
      /\ ref[curpin][frame] = Holders(curpin, frame) /\ frame \in alive[curpin] \ free[curpin]
  <2>1. Holders(curpin, frame) \in 1..3
    BY <1>1 DEF Holders, One
  <2> QED
    BY <1>1, <2>1 DEF CaptureInv, Counted, SpareOnce, Lent
<1>3. /\ ref' \in [Pins -> [Buffers -> Nat]]
      /\ \A p \in Pins, c \in Buffers :
            ref'[p][c] = IF p = curpin /\ c = frame THEN ref[p][c] - 1 ELSE ref[p][c]
  BY <1>1, <1>2 DEF TypeOK
<1>4. \A p \in Pins, c \in Buffers :
         /\ Holders(p, c)' = IF p = curpin /\ c = frame THEN Holders(p, c) - 1 ELSE Holders(p, c)
         /\ Spare(p, c)' <=> Spare(p, c)
  BY <1>1, CaptureAssumption DEF Holders, Spare, Locked, One
<1>5. Counted' /\ SpareOnce'
  <2>1. \A p \in Pins, c \in Buffers : Spare(p, c)' => Holders(p, c)' = 0
    BY <1>1, <1>2, <1>4 DEF CaptureInv, SpareOnce
  <2> QED
    BY <1>1, <1>3, <1>4, <2>1 DEF CaptureInv, Counted, SpareOnce
<1>6. /\ Lent' /\ PoolBounded'
      /\ alive' \in [Pins -> SUBSET Buffers] /\ free' \in [Pins -> SUBSET Buffers]
      /\ data' \in [Pins -> [Buffers -> Frames \cup {None}]]
      /\ \A p \in Pins, c \in Buffers : Holders(p, c)' > 0 => data'[p][c] = data[p][c]
  <2>1. CASE ref'[curpin][frame] = 0
    <3> DEFINE p == curpin
               b == frame
    <3>1. GiveBack(p, b)
      BY <2>1 DEF ReleaseFrame
    <3>2. \A q \in Pins, c \in Buffers : q = p /\ c = b => Holders(q, c)' = 0 /\ ~Spare(q, c)'
      BY <1>1, <1>2, <1>3, <1>4, <2>1
    <3>3. \A q \in Pins, c \in Buffers : q # p \/ c # b =>
             Holders(q, c)' = Holders(q, c) /\ (Spare(q, c)' <=> Spare(q, c))
      BY <1>4
    <3>4. PICK q \in Pins, c \in Buffers : q = p /\ c = b
      BY <1>1
    <3>5. /\ Lent' /\ PoolBounded'
          /\ alive' \in [Pins -> SUBSET Buffers] /\ free' \in [Pins -> SUBSET Buffers]
          /\ data' \in [Pins -> [Buffers -> Frames \cup {None}]]
          /\ OthersUntouched(q, c)
      BY <1>2, <3>1, <3>2, <3>3, <3>4, GiveBackKeeps
    <3> QED
      BY <3>2, <3>4, <3>5 DEF OthersUntouched
  <2>2. CASE ref'[curpin][frame] # 0
    <3>1. alive' = alive /\ free' = free /\ data' = data
      BY <2>2 DEF ReleaseFrame
    <3>2. \A p \in Pins, c \in Buffers : Holders(p, c)' > 0 <=> Holders(p, c) > 0
      BY <1>1, <1>2, <1>3, <1>4, <2>2, HoldersRange
    <3>3. Lent'
      BY <1>4, <3>1, <3>2 DEF CaptureInv, Lent
    <3> QED
      BY <3>1, <3>3 DEF CaptureInv, TypeOK, PoolBounded
  <2> QED
    BY <2>1, <2>2
<1>7. (TypeOK /\ FrameInHand /\ StreamsInUse /\ Quiet)'
  BY <1>1, <1>3, <1>6 DEF CaptureInv, TypeOK, FrameInHand, StreamsInUse, Quiet
<1>8. HeldIntact' /\ FrameExpected' /\ OwnFrames'
  <2>1. \A p \in Pins : held[p] # None => held[p] \in Buffers /\ Holders(p, held[p])' > 0
    BY <1>1 DEF TypeOK, Holders, One
  <2>2. \A p \in Pins : last[p] # None =>
           last[p] \in Buffers /\ Holders(p, last[p])' > 0 /\ ~Locked(p)
    BY <1>1 DEF TypeOK, Holders, One, Locked
  <2>3. HeldIntact'
    BY <1>1, <1>6, <2>1 DEF CaptureInv, HeldIntact
  <2>4. OwnFrames'
    BY <1>1, <1>6, <2>2 DEF CaptureInv, OwnFrames
  <2> QED
    BY <1>1, <2>3, <2>4 DEF FrameExpected
<1> QED
  BY <1>5, <1>6, <1>7, <1>8 DEF CaptureInv

LEMMA RouteKeepsInv ==
    ASSUME CaptureInv, RouteToNextPin
    PROVE  CaptureInv'
<1>1. /\ TypeOK /\ at = "route" /\ frame = None /\ at' = "wait" /\ curpin' = NextPin /\ NextPin \in Pins
      /\ frame' = frame /\ last' = last /\ held' = held /\ dying' = dying /\ seen' = seen
      /\ alive' = alive /\ free' = free /\ ref' = ref /\ data' = data
      /\ techwell' = techwell /\ attached' = attached /\ enabled' = enabled /\ phase' = phase
      /\ time' = time /\ pipe' = pipe /\ phase \notin {"streams", "gone"}
  BY NextPinIsPin DEF RouteToNextPin, mainVars, poolVars, readerVars, CaptureInv, FrameInHand, Quiet
<1>2. input' \in Pins /\ faults' \in 0..MaxFaults
  BY <1>1, CaptureAssumption DEF RouteToNextPin, TypeOK
<1>3. \A p \in Pins, c \in Buffers : Holders(p, c)' = Holders(p, c) /\ (Spare(p, c)' <=> Spare(p, c))
  BY <1>1, CaptureAssumption DEF Holders, Spare, Locked, One
<1>4. (TypeOK /\ FrameInHand /\ StreamsInUse /\ Quiet)'
  BY <1>1, <1>2 DEF CaptureInv, TypeOK, FrameInHand, StreamsInUse, Quiet
<1>5. (Counted /\ Lent /\ SpareOnce)'
  BY <1>1, <1>3 DEF CaptureInv, Counted, Lent, SpareOnce
<1>6. (HeldIntact /\ FrameExpected /\ OwnFrames /\ PoolBounded)'
  BY <1>1 DEF CaptureInv, HeldIntact, FrameExpected, OwnFrames, PoolBounded, Locked
<1> QED
  BY <1>4, <1>5, <1>6 DEF CaptureInv

LEMMA ReleaseHeldKeepsInv ==
    ASSUME CaptureInv, NEW p \in Pins, ReleaseHeld(p)
    PROVE  CaptureInv'
<1>1. /\ TypeOK /\ held[p] # None /\ held[p] \in Buffers /\ dying[p] = None
      /\ held' = [held EXCEPT ![p] = None]
      /\ ref' = [ref EXCEPT ![p][held[p]] = @ - 1]
      /\ dying' = [dying EXCEPT ![p] = IF ref'[p][held[p]] = 0 THEN held[p] ELSE None]
      /\ curpin' = curpin /\ at' = at /\ last' = last /\ frame' = frame /\ seen' = seen
      /\ techwell' = techwell /\ attached' = attached /\ enabled' = enabled /\ phase' = phase
      /\ input' = input /\ time' = time /\ faults' = faults /\ pipe' = pipe
      /\ alive' = alive /\ free' = free /\ data' = data /\ phase \notin {"streams", "gone"}
  BY DEF ReleaseHeld, cardVars, mainVars, CaptureInv, TypeOK, SpareOnce, Quiet
<1> DEFINE b == held[p]
<1>2. b \in Buffers /\ b # None
  BY <1>1
<1> HIDE DEF b
<1>3. /\ Holders(p, b) \in 1..3 /\ ~Spare(p, b) /\ ref[p][b] = Holders(p, b)
  <2>1. Holders(p, b) \in 1..3
    BY <1>1 DEF Holders, One, b
  <2> QED
    BY <1>2, <2>1 DEF CaptureInv, Counted, SpareOnce
<1>4. /\ ref' \in [Pins -> [Buffers -> Nat]]
      /\ \A q \in Pins, c \in Buffers :
            ref'[q][c] = IF q = p /\ c = b THEN ref[q][c] - 1 ELSE ref[q][c]
  BY <1>1, <1>2, <1>3 DEF TypeOK, b
<1>5. /\ held' \in [Pins -> Buffers \cup {None}] /\ dying' \in [Pins -> Buffers \cup {None}]
      /\ held'[p] = None /\ dying'[p] = IF Holders(p, b) = 1 THEN b ELSE None
      /\ \A q \in Pins : q # p => held'[q] = held[q] /\ dying'[q] = dying[q]
  <2>1. ref'[p][b] = 0 <=> Holders(p, b) = 1
    BY <1>2, <1>3, <1>4
  <2> QED
    BY <1>1, <2>1 DEF TypeOK, b
<1>6. \A q \in Pins, c \in Buffers :
         /\ Holders(q, c)' = IF q = p /\ c = b THEN Holders(q, c) - 1 ELSE Holders(q, c)
         /\ Spare(q, c)' <=> Spare(q, c) \/ (q = p /\ c = b /\ Holders(p, b) = 1)
  <2>1. \A c \in Buffers : held[p] = c <=> c = b
    BY DEF b
  <2> QED
    BY <1>1, <1>2, <1>5, <2>1, CaptureAssumption DEF Holders, Spare, Locked, One
<1>7. (TypeOK /\ FrameInHand /\ StreamsInUse /\ Quiet)'
  BY <1>1, <1>4, <1>5 DEF CaptureInv, TypeOK, FrameInHand, StreamsInUse, Quiet
<1>8. Counted'
  BY <1>4, <1>6 DEF CaptureInv, Counted
<1>9. SpareOnce'
  <2>1. \A q \in Pins, c \in Buffers : Spare(q, c)' => Holders(q, c)' = 0
    BY <1>3, <1>6 DEF CaptureInv, SpareOnce
  <2>2. ~(at = "recycle" /\ curpin = p /\ last[p] = b)
    BY <1>3 DEF Spare
  <2>3. \A q \in Pins : dying'[q] # None =>
           held'[q] = None /\ ~(at' = "recycle" /\ curpin' = q /\ last'[q] = dying'[q])
    BY <1>1, <1>2, <1>5, <2>2 DEF CaptureInv, SpareOnce
  <2> QED
    BY <2>1, <2>3 DEF SpareOnce
<1>10. Lent'
  <2>1. \A q \in Pins, c \in Buffers :
           Holders(q, c)' > 0 \/ Spare(q, c)' <=> Holders(q, c) > 0 \/ Spare(q, c)
    <3>1. \A c \in Buffers : c = b =>
             (Holders(p, c)' > 0 \/ Spare(p, c)' <=> Holders(p, c) > 0 \/ Spare(p, c))
      <4> SUFFICES ASSUME NEW c \in Buffers, c = b
                   PROVE  /\ Holders(p, c)' > 0 \/ Spare(p, c)'
                          /\ Holders(p, c) > 0
        OBVIOUS
      <4>1. Holders(p, c) \in 1..3
        BY <1>3
      <4>2. CASE Holders(p, c) = 1
        BY <1>6, <4>2
      <4>3. CASE Holders(p, c) # 1
        BY <1>6, <4>1, <4>3
      <4> QED
        BY <4>1, <4>2, <4>3
    <3>2. \A q \in Pins, c \in Buffers : q # p \/ c # b =>
             (Holders(q, c)' > 0 \/ Spare(q, c)' <=> Holders(q, c) > 0 \/ Spare(q, c))
      BY <1>6
    <3> QED
      BY <1>2, <1>3, <1>6, <3>1, <3>2
  <2> QED
    BY <1>1, <2>1 DEF CaptureInv, Lent
<1>11. HeldIntact'
  BY <1>1, <1>5 DEF CaptureInv, HeldIntact
<1>12. (FrameExpected /\ OwnFrames /\ PoolBounded)'
  BY <1>1 DEF CaptureInv, FrameExpected, OwnFrames, PoolBounded, Locked
<1> QED
  BY <1>7, <1>8, <1>9, <1>10, <1>11, <1>12 DEF CaptureInv

LEMMA RecycleHeldKeepsInv ==
    ASSUME CaptureInv, NEW p \in Pins, RecycleHeld(p)
    PROVE  CaptureInv'
<1> DEFINE b == dying[p]
<1>1. /\ TypeOK /\ b # None /\ b \in Buffers /\ GiveBack(p, b) /\ dying' = [dying EXCEPT ![p] = None]
      /\ curpin' = curpin /\ at' = at /\ last' = last /\ frame' = frame /\ seen' = seen /\ held' = held
      /\ techwell' = techwell /\ attached' = attached /\ enabled' = enabled /\ phase' = phase
      /\ input' = input /\ time' = time /\ faults' = faults /\ pipe' = pipe
      /\ ref' = ref /\ phase \notin {"streams", "gone"}
  BY DEF RecycleHeld, cardVars, mainVars, CaptureInv, TypeOK, Quiet
<1>2. /\ Spare(p, b) /\ Holders(p, b) = 0 /\ b \in alive[p] \ free[p]
      /\ ~(at = "recycle" /\ curpin = p /\ last[p] = b)
  BY <1>1 DEF Spare, CaptureInv, SpareOnce, Lent
<1>3. /\ dying' \in [Pins -> Buffers \cup {None}] /\ dying'[p] = None
      /\ \A q \in Pins : q # p => dying'[q] = dying[q]
  BY <1>1 DEF TypeOK
<1>4. \A c \in Buffers : dying[p] = c <=> c = b
  OBVIOUS
<1> HIDE DEF b
<1>5. \A q \in Pins, c \in Buffers :
         /\ Holders(q, c)' = Holders(q, c)
         /\ Spare(q, c)' <=> Spare(q, c) /\ ~(q = p /\ c = b)
  BY <1>1, <1>2, <1>3, <1>4, CaptureAssumption DEF Holders, Spare, Locked, One
<1>6. /\ Lent' /\ PoolBounded'
      /\ alive' \in [Pins -> SUBSET Buffers] /\ free' \in [Pins -> SUBSET Buffers]
      /\ data' \in [Pins -> [Buffers -> Frames \cup {None}]]
      /\ OthersUntouched(p, b)
  <2>1. PICK c \in Buffers : c = b
    BY <1>1
  <2>2. Holders(p, c)' = 0 /\ ~Spare(p, c)'
    BY <1>2, <1>5, <2>1
  <2> QED
    BY <1>1, <1>2, <1>5, <2>1, <2>2, GiveBackKeeps
<1>7. (TypeOK /\ FrameInHand /\ StreamsInUse /\ Quiet)'
  BY <1>1, <1>3, <1>6 DEF CaptureInv, TypeOK, FrameInHand, StreamsInUse, Quiet
<1>8. Counted' /\ SpareOnce'
  <2>1. Counted'
    BY <1>1, <1>5 DEF CaptureInv, Counted
  <2>2. \A q \in Pins, c \in Buffers : Spare(q, c)' => Holders(q, c)' = 0
    BY <1>5 DEF CaptureInv, SpareOnce
  <2>3. \A q \in Pins : dying'[q] # None =>
           held'[q] = None /\ ~(at' = "recycle" /\ curpin' = q /\ last'[q] = dying'[q])
    BY <1>1, <1>3 DEF CaptureInv, SpareOnce
  <2> QED
    BY <2>1, <2>2, <2>3 DEF SpareOnce
<1>9. HeldIntact' /\ FrameExpected' /\ OwnFrames'
  <2>1. \A q \in Pins : held[q] # None => held[q] \in Buffers /\ (q # p \/ held[q] # b)
    BY <1>1, <1>2 DEF TypeOK, Holders, One
  <2>2. \A q \in Pins : last[q] # None /\ ~Locked(q) => last[q] \in Buffers /\ (q # p \/ last[q] # b)
    BY <1>1, <1>2 DEF TypeOK, Holders, One
  <2>3. frame # None => frame \in Buffers /\ curpin \in Pins /\ (curpin # p \/ frame # b)
    BY <1>1, <1>2 DEF TypeOK, Holders, One
  <2>4. HeldIntact'
    BY <1>1, <1>6, <2>1 DEF CaptureInv, HeldIntact, OthersUntouched
  <2>5. OwnFrames'
    BY <1>1, <1>6, <2>2 DEF CaptureInv, OwnFrames, OthersUntouched, Locked
  <2>6. FrameExpected'
    BY <1>1, <1>6, <2>3 DEF CaptureInv, FrameExpected, OthersUntouched
  <2> QED
    BY <2>4, <2>5, <2>6
<1> QED
  BY <1>6, <1>7, <1>8, <1>9 DEF CaptureInv

LEMMA GetLastFrameKeepsInv ==
    ASSUME CaptureInv, NEW p \in Pins, GetLastFrame(p)
    PROVE  CaptureInv'
<1> DEFINE b == last[p]
<1>1. /\ TypeOK /\ b # None /\ b \in Buffers /\ held[p] = None /\ dying[p] = None /\ ~Locked(p)
      /\ held' = [held EXCEPT ![p] = b]
      /\ ref' = [ref EXCEPT ![p][b] = @ + 1]
      /\ seen' = [seen EXCEPT ![p] = data[p][b]]
      /\ curpin' = curpin /\ at' = at /\ last' = last /\ frame' = frame /\ dying' = dying
      /\ techwell' = techwell /\ attached' = attached /\ enabled' = enabled /\ phase' = phase
      /\ input' = input /\ time' = time /\ faults' = faults /\ pipe' = pipe
      /\ alive' = alive /\ free' = free /\ data' = data /\ phase \notin {"streams", "gone"}
  BY DEF GetLastFrame, cardVars, mainVars, CaptureInv, TypeOK, Quiet
<1>2. Holders(p, b) \in 1..3 /\ ~Spare(p, b)
  <2>1. Holders(p, b) \in 1..3
    BY <1>1 DEF Holders, One
  <2> QED
    BY <1>1, <2>1 DEF CaptureInv, SpareOnce
<1> HIDE DEF b
<1>3. /\ ref' \in [Pins -> [Buffers -> Nat]]
      /\ \A q \in Pins, c \in Buffers :
            ref'[q][c] = IF q = p /\ c = b THEN ref[q][c] + 1 ELSE ref[q][c]
      /\ held' \in [Pins -> Buffers \cup {None}] /\ held'[p] = b
      /\ seen' \in [Pins -> Frames \cup {None}] /\ seen'[p] = data[p][b]
      /\ \A q \in Pins : q # p => held'[q] = held[q] /\ seen'[q] = seen[q]
  BY <1>1 DEF TypeOK
<1>4. \A q \in Pins, c \in Buffers :
         /\ Holders(q, c)' = IF q = p /\ c = b THEN Holders(q, c) + 1 ELSE Holders(q, c)
         /\ Spare(q, c)' <=> Spare(q, c)
  BY <1>1, <1>3, CaptureAssumption DEF Holders, Spare, Locked, One
<1>5. (TypeOK /\ FrameInHand /\ StreamsInUse /\ Quiet)'
  BY <1>1, <1>3 DEF CaptureInv, TypeOK, FrameInHand, StreamsInUse, Quiet
<1>6. Counted'
  BY <1>3, <1>4 DEF CaptureInv, Counted
<1>7. SpareOnce'
  <2>1. \A q \in Pins, c \in Buffers : Spare(q, c)' => Holders(q, c)' = 0
    BY <1>2, <1>4 DEF CaptureInv, SpareOnce
  <2>2. \A q \in Pins : dying'[q] # None =>
           held'[q] = None /\ ~(at' = "recycle" /\ curpin' = q /\ last'[q] = dying'[q])
    BY <1>1, <1>3 DEF CaptureInv, SpareOnce
  <2> QED
    BY <2>1, <2>2 DEF SpareOnce
<1>8. Lent'
  <2>1. \A q \in Pins, c \in Buffers : Holders(q, c)' > 0 <=> Holders(q, c) > 0
    BY <1>2, <1>4, HoldersRange
  <2> QED
    BY <1>1, <1>4, <2>1 DEF CaptureInv, Lent
<1>9. HeldIntact'
  BY <1>1, <1>3 DEF CaptureInv, HeldIntact
<1>10. (FrameExpected /\ OwnFrames /\ PoolBounded)'
  BY <1>1 DEF CaptureInv, FrameExpected, OwnFrames, PoolBounded, Locked
<1> QED
  BY <1>5, <1>6, <1>7, <1>8, <1>9, <1>10 DEF CaptureInv

----------------------------------------------------------------------------
(* Taking things apart: nobody has a frame but the streams.                *)

\* Flushing pins of which no buffer is out.
LEMMA FlushKeeps ==
    ASSUME CaptureInv, NEW S \in SUBSET Pins, FlushFrames(S),
           \A p \in S : \A b \in Buffers : Holders(p, b) = 0 /\ ~Spare(p, b),
           \A p \in Pins, b \in Buffers :
              Holders(p, b)' = Holders(p, b) /\ (Spare(p, b)' <=> Spare(p, b))
    PROVE  /\ Lent' /\ PoolBounded'
           /\ alive' \in [Pins -> SUBSET Buffers] /\ free' \in [Pins -> SUBSET Buffers]
           /\ data' \in [Pins -> [Buffers -> Frames \cup {None}]]
           /\ \A p \in Pins : p \notin S => data'[p] = data[p]
<1>1. /\ alive' \in [Pins -> SUBSET Buffers] /\ free' \in [Pins -> SUBSET Buffers]
      /\ data' \in [Pins -> [Buffers -> Frames \cup {None}]]
      /\ \A p \in Pins : p \notin S => data'[p] = data[p] /\ alive'[p] = alive[p] /\ free'[p] = free[p]
      /\ \A p \in S : alive'[p] = {} /\ free'[p] = {}
  BY DEF FlushFrames, CaptureInv, TypeOK
<1>2. Lent'
  BY <1>1 DEF CaptureInv, Lent
<1>3. \A p \in Pins : alive'[p] \subseteq alive[p]
  BY <1>1
<1> QED
  BY <1>1, <1>2, <1>3, FewerBounded

LEMMA DeleteDevicesKeepsInv ==
    ASSUME CaptureInv, DeleteAllDevices
    PROVE  CaptureInv'
<1> DEFINE S == {p \in Pins : ~enabled[p]}
<1>1. /\ TypeOK /\ at = "wait" /\ frame = None /\ \A p \in Pins : held[p] = None /\ dying[p] = None
      /\ phase' = "streams" /\ pipe' = None /\ FlushFrames(S)
      /\ curpin' = curpin /\ at' = at /\ last' = last /\ frame' = frame /\ dying' = dying
      /\ held' = held /\ seen' = seen /\ ref' = ref
      /\ techwell' = techwell /\ attached' = attached /\ enabled' = enabled
      /\ input' = input /\ time' = time /\ faults' = faults
  BY DEF DeleteAllDevices, readerVars, CaptureInv, FrameInHand
<1>2. \A p \in S : last[p] = None
  BY <1>1 DEF CaptureInv, StreamsInUse, TypeOK
<1>3. /\ \A p \in S : \A b \in Buffers : Holders(p, b) = 0 /\ ~Spare(p, b)
      /\ \A p \in Pins, b \in Buffers :
            Holders(p, b)' = Holders(p, b) /\ (Spare(p, b)' <=> Spare(p, b))
  BY <1>1, <1>2, CaptureAssumption DEF Holders, Spare, Locked, One
<1>4. /\ Lent' /\ PoolBounded'
      /\ alive' \in [Pins -> SUBSET Buffers] /\ free' \in [Pins -> SUBSET Buffers]
      /\ data' \in [Pins -> [Buffers -> Frames \cup {None}]]
      /\ \A p \in Pins : p \notin S => data'[p] = data[p]
  <2> S \in SUBSET Pins
    OBVIOUS
  <2> HIDE DEF S
  <2> QED
    BY <1>1, <1>3, FlushKeeps
<1>5. (TypeOK /\ FrameInHand /\ StreamsInUse /\ Quiet)'
  BY <1>1, <1>4 DEF CaptureInv, TypeOK, FrameInHand, StreamsInUse, Quiet
<1>6. (Counted /\ SpareOnce)'
  BY <1>1, <1>3 DEF CaptureInv, Counted, SpareOnce
<1>7. HeldIntact' /\ FrameExpected' /\ OwnFrames'
  BY <1>1, <1>2, <1>4 DEF CaptureInv, HeldIntact, FrameExpected, OwnFrames, Locked
<1> QED
  BY <1>4, <1>5, <1>6, <1>7 DEF CaptureInv

LEMMA DeletePinsKeepsInv ==
    ASSUME CaptureInv, DeleteAllPins
    PROVE  CaptureInv'
<1>1. /\ TypeOK /\ at = "wait" /\ frame = None /\ pipe = None
      /\ \A p \in Pins : held[p] = None /\ dying[p] = None /\ last[p] = None
      /\ phase' = "gone" /\ FlushFrames(Pins)
      /\ curpin' = curpin /\ at' = at /\ last' = last /\ frame' = frame /\ dying' = dying
      /\ held' = held /\ seen' = seen /\ ref' = ref
      /\ techwell' = techwell /\ attached' = attached /\ enabled' = enabled
      /\ input' = input /\ time' = time /\ faults' = faults /\ pipe' = pipe
  BY DEF DeleteAllPins, readerVars, cardVars, CaptureInv, FrameInHand, Quiet
<1>2. /\ \A p \in Pins : \A b \in Buffers : Holders(p, b) = 0 /\ ~Spare(p, b)
      /\ \A p \in Pins, b \in Buffers :
            Holders(p, b)' = Holders(p, b) /\ (Spare(p, b)' <=> Spare(p, b))
  BY <1>1, CaptureAssumption DEF Holders, Spare, Locked, One
<1>3. /\ Lent' /\ PoolBounded'
      /\ alive' \in [Pins -> SUBSET Buffers] /\ free' \in [Pins -> SUBSET Buffers]
      /\ data' \in [Pins -> [Buffers -> Frames \cup {None}]]
  BY <1>1, <1>2, FlushKeeps
<1>4. (TypeOK /\ FrameInHand /\ StreamsInUse /\ Quiet)'
  BY <1>1, <1>3 DEF CaptureInv, TypeOK, FrameInHand, StreamsInUse, Quiet
<1>5. (Counted /\ SpareOnce)'
  BY <1>1, <1>2 DEF CaptureInv, Counted, SpareOnce
<1>6. HeldIntact' /\ FrameExpected' /\ OwnFrames'
  BY <1>1 DEF HeldIntact, FrameExpected, OwnFrames
<1> QED
  BY <1>3, <1>4, <1>5, <1>6 DEF CaptureInv

\* The stream's frame has no other owner any more, and goes back.
LEMMA ClearStreamKeepsInv ==
    ASSUME CaptureInv, NEW p \in Pins, ClearStream(p)
    PROVE  CaptureInv'
<1> DEFINE b == last[p]
<1>1. /\ TypeOK /\ at = "wait" /\ frame = None /\ pipe = None /\ b # None /\ b \in Buffers
      /\ \A q \in Pins : held[q] = None /\ dying[q] = None
      /\ last' = [last EXCEPT ![p] = None] /\ ref' = [ref EXCEPT ![p][b] = @ - 1]
      /\ curpin' = curpin /\ at' = at /\ frame' = frame /\ dying' = dying /\ held' = held /\ seen' = seen
      /\ techwell' = techwell /\ attached' = attached /\ enabled' = enabled /\ phase' = phase
      /\ input' = input /\ time' = time /\ faults' = faults /\ pipe' = pipe
  BY DEF ClearStream, cardVars, mainVars, readerVars, CaptureInv, TypeOK, FrameInHand, Quiet
<1>2. /\ Holders(p, b) = 1 /\ ~Spare(p, b) /\ ref[p][b] = 1 /\ b \in alive[p] \ free[p]
  <2>1. Holders(p, b) = 1
    BY <1>1 DEF Holders, Locked, One
  <2> QED
    BY <1>1, <2>1 DEF CaptureInv, Counted, SpareOnce, Lent
<1>3. GiveBack(p, b)
  <2>1. ref'[p][b] = 0
    BY <1>1, <1>2 DEF TypeOK
  <2> QED
    BY <2>1 DEF ClearStream
<1>4. \A c \in Buffers : last[p] = c <=> c = b
  OBVIOUS
<1> HIDE DEF b
<1>5. /\ ref' \in [Pins -> [Buffers -> Nat]]
      /\ \A q \in Pins, c \in Buffers :
            ref'[q][c] = IF q = p /\ c = b THEN ref[q][c] - 1 ELSE ref[q][c]
      /\ last' \in [Pins -> Buffers \cup {None}] /\ last'[p] = None
      /\ \A q \in Pins : q # p => last'[q] = last[q]
  BY <1>1, <1>2 DEF TypeOK
<1>6. \A q \in Pins, c \in Buffers :
         /\ Holders(q, c)' = IF q = p /\ c = b THEN 0 ELSE Holders(q, c)
         /\ ~Spare(q, c) /\ ~Spare(q, c)'
  BY <1>1, <1>4, <1>5, CaptureAssumption DEF Holders, Spare, Locked, One
<1>7. /\ Lent' /\ PoolBounded'
      /\ alive' \in [Pins -> SUBSET Buffers] /\ free' \in [Pins -> SUBSET Buffers]
      /\ data' \in [Pins -> [Buffers -> Frames \cup {None}]]
      /\ OthersUntouched(p, b)
  <2>1. PICK c \in Buffers : c = b
    BY <1>1
  <2>2. Holders(p, c)' = 0 /\ ~Spare(p, c)'
    BY <1>6, <2>1
  <2> QED
    BY <1>2, <1>3, <1>6, <2>1, <2>2, GiveBackKeeps
<1>8. (TypeOK /\ FrameInHand /\ StreamsInUse /\ Quiet)'
  BY <1>1, <1>5, <1>7 DEF CaptureInv, TypeOK, FrameInHand, StreamsInUse, Quiet
<1>9. Counted' /\ SpareOnce'
  <2>1. Counted'
    BY <1>1, <1>2, <1>5, <1>6 DEF CaptureInv, Counted
  <2> QED
    BY <1>1, <1>6, <2>1 DEF SpareOnce
<1>10. HeldIntact' /\ FrameExpected' /\ OwnFrames'
  <2>1. \A q \in Pins : last'[q] # None => q # p /\ last[q] # None /\ last[q] \in Buffers
    BY <1>1, <1>5 DEF TypeOK
  <2>2. HeldIntact'
    BY <1>1 DEF HeldIntact
  <2>3. FrameExpected'
    BY <1>1 DEF FrameExpected
  <2>4. OwnFrames'
    <3> SUFFICES ASSUME techwell, NEW q \in Pins, last'[q] # None
                 PROVE  data'[q][last'[q]][1] = q
      BY <1>1 DEF OwnFrames
    <3>1. q # p /\ last[q] # None /\ last[q] \in Buffers /\ last'[q] = last[q]
      BY <1>5, <2>1
    <3>2. data'[q][last[q]] = data[q][last[q]]
      BY <1>7, <3>1 DEF OthersUntouched
    <3>3. data[q][last[q]][1] = q
      BY <1>1, <3>1 DEF CaptureInv, OwnFrames, Locked
    <3> QED
      BY <3>1, <3>2, <3>3
  <2> QED
    BY <2>2, <2>3, <2>4
<1> QED
  BY <1>7, <1>8, <1>9, <1>10 DEF CaptureInv

LEMMA StutterKeepsInv == CaptureInv /\ UNCHANGED vars => CaptureInv'
<1> SUFFICES ASSUME CaptureInv, UNCHANGED vars PROVE CaptureInv'
  OBVIOUS
<1>1. BufferInv /\ UNCHANGED bufferVars
  BY InvParts DEF bufferVars, vars, cardVars
<1>2. BufferInv'
  BY <1>1, BuffersUnchanged
<1>3. (TypeOK /\ FrameInHand /\ StreamsInUse /\ Quiet)'
  BY DEF vars, cardVars, mainVars, poolVars, readerVars, CaptureInv, TypeOK, FrameInHand, StreamsInUse, Quiet
<1> QED
  BY <1>2, <1>3 DEF CaptureInv, BufferInv

LEMMA NextKeepsInv == CaptureInv /\ [Next]_vars => CaptureInv'
<1> SUFFICES ASSUME CaptureInv, [Next]_vars PROVE CaptureInv'
  OBVIOUS
<1>1. CASE Capture
  <2>1. CASE TakeFrame \/ DropFrame
    BY <2>1, BufferlessKeepsInv
  <2>2. ASSUME NEW empty \in BOOLEAN, DeliverFrame(empty) PROVE CaptureInv'
    BY <2>2, DeliverKeepsInv
  <2> QED
    BY <1>1, <2>1, <2>2, ReleaseLastKeepsInv, RecycleLastKeepsInv, StoreKeepsInv,
       ReleaseFrameKeepsInv, RouteKeepsInv DEF Capture
<1>2. ASSUME NEW p \in Pins, Reader(p) PROVE CaptureInv'
  BY <1>2, ReleaseHeldKeepsInv, RecycleHeldKeepsInv, GetLastFrameKeepsInv DEF Reader
<1>3. CASE Main
  <2>1. ASSUME NEW p \in Pins, DisablePin(p) \/ AttachPin(p) PROVE CaptureInv'
    BY <2>1, BufferlessKeepsInv
  <2>2. ASSUME NEW p \in Pins, ClearStream(p) PROVE CaptureInv'
    BY <2>2, ClearStreamKeepsInv
  <2>3. CASE EndReaders
    BY <2>3, BufferlessKeepsInv
  <2> QED
    BY <1>3, <2>1, <2>2, <2>3, DeleteDevicesKeepsInv, DeletePinsKeepsInv DEF Main
<1>4. CASE UNCHANGED vars
  BY <1>4, StutterKeepsInv
<1> QED
  BY <1>1, <1>2, <1>3, <1>4 DEF Next

LEMMA CaptureInvariance == Spec => []CaptureInv
<1>1. CaptureInv /\ [Next]_vars => CaptureInv'
  BY NextKeepsInv
<1> QED
  BY <1>1, InitCapture, PTL DEF Spec

----------------------------------------------------------------------------
(* The theorems.                                                           *)

\* The variables of the capture card always have their types: the pin number
\* stays in range (ClampPinNumber) and no count becomes negative.
THEOREM CaptureTypes == Spec => []TypeOK
<1>1. CaptureInv => TypeOK
  BY DEF CaptureInv
<1> QED
  BY <1>1, CaptureInvariance, PTL

\* m_lrefCount is the number of the owners at every step of the capture
\* thread, the readers and the main thread, and what is owned is not in the
\* free list: no frame is lost, given back twice or used after it is gone.
THEOREM FramesAreCounted == Spec => []RefsCounted
<1>1. CaptureInv => RefsCounted
  BY DEF CaptureInv, Counted, Lent, RefsCounted
<1> QED
  BY <1>1, CaptureInvariance, PTL

\* A reader's frame is not overwritten, emptied or destroyed while it has it.
THEOREM HeldFramesAreIntact == Spec => []HeldIntact
<1>1. CaptureInv => HeldIntact
  BY DEF CaptureInv
<1> QED
  BY <1>1, CaptureInvariance, PTL

\* With the driver hack no stream gets a frame of another camera, for any
\* number of inputs and any routing that fails.
THEOREM FramesAreOwn == Spec => []OwnFrames
<1>1. CaptureInv => OwnFrames
  BY DEF CaptureInv
<1> QED
  BY <1>1, CaptureInvariance, PTL

\* Three buffers are enough for a pin, for ever.
THEOREM PoolsAreBounded == Spec => []PoolBounded
<1>1. CaptureInv => PoolBounded
  BY DEF CaptureInv
<1> QED
  BY <1>1, CaptureInvariance, PTL

----------------------------------------------------------------------------
(* The order of the frames: what a reader has seen is no newer than what   *)
(* the stream has, that no newer than the frame in hand, that no newer     *)
(* than the one on its way, and nothing is newer than the clock.           *)

\* The capture thread has a frame it will store.
Storing == at \in {"send", "recycle", "store"}

\* The stream of pin p has a frame that a reader may take.
Offered(p) == last[p] # None /\ ~Locked(p)

\* Nothing of pin p is newer than t.
Before(p, t) ==
    /\ Stamp(seen[p]) <= t
    /\ Offered(p) => Stamp(data[p][last[p]]) <= t
    /\ curpin = p /\ frame # None => Stamp(data[p][frame]) <= t

SeenBeforeStored ==
    /\ \A p \in Pins : Offered(p) => Stamp(seen[p]) <= Stamp(data[p][last[p]])
    /\ Storing => Stamp(seen[curpin]) <= Stamp(data[curpin][frame])
    /\ at = "send" /\ last[curpin] # None =>
          Stamp(data[curpin][last[curpin]]) <= Stamp(data[curpin][frame])

OrderInv ==
    /\ SeenBeforeStored
    /\ \A p \in Pins : Before(p, time)
    /\ pipe # None => Stamp(pipe) <= time /\ \A p \in Pins : Before(p, Stamp(pipe))

LEMMA StampFacts ==
    /\ \A f \in Frames \cup {None} : Stamp(f) \in Int /\ Stamp(f) >= 0 - 1
    /\ \A p \in Pins, t \in 0..MaxTime : Stamp(<<p, t>>) = t
  BY CaptureAssumption DEF Stamp, Frames, Pins

\* The data of a buffer change only while nobody has it: whoever has it before
\* and after a step finds the same frame in it.
LEMMA LentDataKept ==
    ASSUME CaptureInv, CaptureInv', [Next]_vars,
           NEW p \in Pins, NEW b \in Buffers, Holders(p, b) > 0, Holders(p, b)' > 0
    PROVE  data'[p][b] = data[p][b]
<1>1. PoolTypes /\ b \in alive[p] \ free[p] /\ b \in alive'[p] \ free'[p] /\ curpin \in Pins
  BY DEF CaptureInv, Lent, TypeOK, PoolTypes
<1>2. ASSUME NEW q \in Pins, NEW c \in Buffers, GiveBack(q, c) PROVE data'[p][b] = data[p][b]
  BY <1>1, <1>2, GiveBackFacts DEF OthersUntouched
<1>3. ASSUME NEW S \in SUBSET Pins, FlushFrames(S) PROVE data'[p][b] = data[p][b]
  BY <1>1, <1>3 DEF FlushFrames
<1>4. ASSUME NEW empty \in BOOLEAN, DeliverFrame(empty) PROVE data'[p][b] = data[p][b]
  <2>1. CASE UNCHANGED poolVars
    BY <2>1 DEF poolVars
  <2>2. CASE Allocate(curpin, pipe)
    <3>1. at = "wait" /\ pipe \in Frames
      BY <1>4 DEF DeliverFrame, CaptureInv, TypeOK
    <3> QED
      BY <1>1, <2>2, <3>1, AllocateFacts DEF OthersUntouched
  <2> QED
    BY <1>4, <2>1, <2>2 DEF DeliverFrame
<1>5. CASE Capture
  <2>1. CASE TakeFrame \/ DropFrame \/ ReleaseLast \/ StoreFrame \/ RouteToNextPin
    BY <2>1 DEF TakeFrame, DropFrame, ReleaseLast, StoreFrame, RouteToNextPin, poolVars
  <2>2. CASE RecycleLast
    <3>1. last[curpin] \in Buffers
      BY <2>2 DEF RecycleLast, CaptureInv, FrameInHand, TypeOK
    <3> QED
      BY <1>1, <1>2, <2>2, <3>1 DEF RecycleLast
  <2>3. CASE ReleaseFrame
    <3>1. frame \in Buffers
      BY <2>3 DEF ReleaseFrame, CaptureInv, FrameInHand, TypeOK
    <3> QED
      BY <1>1, <1>2, <2>3, <3>1 DEF ReleaseFrame
  <2> QED
    BY <1>4, <1>5, <2>1, <2>2, <2>3 DEF Capture
<1>6. ASSUME NEW q \in Pins, Reader(q) PROVE data'[p][b] = data[p][b]
  <2>1. dying[q] # None => dying[q] \in Buffers
    BY DEF CaptureInv, TypeOK
  <2> QED
    BY <1>2, <1>6, <2>1 DEF Reader, ReleaseHeld, RecycleHeld, GetLastFrame
<1>7. CASE Main
  <2>1. ASSUME NEW q \in Pins, ClearStream(q) PROVE data'[p][b] = data[p][b]
    <3>1. last[q] \in Buffers
      BY <2>1 DEF ClearStream, CaptureInv, TypeOK
    <3> QED
      BY <1>2, <2>1, <3>1 DEF ClearStream
  <2>2. CASE DeleteAllDevices \/ DeleteAllPins
    BY <1>3, <2>2 DEF DeleteAllDevices, DeleteAllPins
  <2>3. ASSUME NEW q \in Pins, DisablePin(q) \/ AttachPin(q) PROVE data'[p][b] = data[p][b]
    BY <2>3 DEF DisablePin, AttachPin, poolVars
  <2>4. CASE EndReaders
    BY <2>4 DEF EndReaders, poolVars
  <2> QED
    BY <1>7, <2>1, <2>2, <2>3, <2>4 DEF Main
<1>8. CASE UNCHANGED vars
  BY <1>8 DEF vars, poolVars
<1> QED
  BY <1>5, <1>6, <1>7, <1>8 DEF Next

\* What a stream offers, and what the capture thread has in hand, have owners.
LEMMA OwnersHold ==
    ASSUME CaptureInv
    PROVE  /\ \A p \in Pins : Offered(p) => last[p] \in Buffers /\ Holders(p, last[p]) > 0
           /\ frame # None => frame \in Buffers /\ Holders(curpin, frame) > 0
           /\ Storing => frame # None
           /\ curpin \in Pins
  BY DEF CaptureInv, TypeOK, FrameInHand, Storing, Offered, Holders, One

LEMMA StampsAreInts ==
    ASSUME CaptureInv
    PROVE  /\ time \in Int
           /\ pipe # None => pipe \in Frames /\ Stamp(pipe) \in Int
           /\ \A p \in Pins : Stamp(seen[p]) \in Int
           /\ \A p \in Pins, b \in Buffers : Stamp(data[p][b]) \in Int
  BY StampFacts, CaptureAssumption DEF CaptureInv, TypeOK

\* A step after which there is no frame that was not there before.
NoNewFrame ==
    /\ seen' = seen /\ time' = time /\ (pipe' = pipe \/ pipe' = None)
    /\ \A p \in Pins : Offered(p)' => Offered(p) /\ last'[p] = last[p]
    /\ frame' # None => frame' = frame /\ curpin' = curpin
    /\ Storing' => Storing
    /\ at' = "send" => at = "send" /\ last' = last

LEMMA NoNewFrameKeepsOrder ==
    ASSUME CaptureInv, CaptureInv', OrderInv, [Next]_vars, NoNewFrame
    PROVE  OrderInv'
<1>1. \A p \in Pins : Offered(p)' =>
         Offered(p) /\ last'[p] = last[p] /\ data'[p][last'[p]] = data[p][last[p]]
  <2> SUFFICES ASSUME NEW p \in Pins, Offered(p)'
               PROVE  Offered(p) /\ last'[p] = last[p] /\ data'[p][last'[p]] = data[p][last[p]]
    OBVIOUS
  <2>1. Offered(p) /\ last'[p] = last[p]
    BY DEF NoNewFrame
  <2>2. last[p] \in Buffers /\ Holders(p, last[p]) > 0
    BY <2>1, OwnersHold
  <2>5. PICK c \in Buffers : c = last[p]
    BY <2>2
  <2>6. Holders(p, c) > 0 /\ Holders(p, c)' > 0
    BY <2>1, <2>2, <2>5 DEF Offered, Holders, One
  <2>7. data'[p][c] = data[p][c]
    BY <2>6, LentDataKept
  <2> QED
    BY <2>1, <2>5, <2>7
<1>2. frame' # None =>
         frame # None /\ frame' = frame /\ curpin' = curpin /\ curpin \in Pins
         /\ data'[curpin][frame] = data[curpin][frame]
  <2> SUFFICES ASSUME frame' # None
               PROVE  frame # None /\ frame' = frame /\ curpin' = curpin /\ curpin \in Pins
                      /\ data'[curpin][frame] = data[curpin][frame]
    OBVIOUS
  <2>1. frame # None /\ frame' = frame /\ curpin' = curpin
    BY DEF NoNewFrame
  <2>2. frame \in Buffers /\ curpin \in Pins
    BY <2>1, OwnersHold
  <2>3. PICK c \in Buffers : c = frame
    BY <2>2
  <2>4. PICK p \in Pins : p = curpin
    BY <2>2
  <2>5. Holders(p, c) > 0 /\ Holders(p, c)' > 0
    BY <2>1, <2>3, <2>4 DEF Holders, One
  <2>6. data'[p][c] = data[p][c]
    BY <2>5, LentDataKept
  <2> QED
    BY <2>1, <2>2, <2>3, <2>4, <2>6
<1>3. Storing' => Storing /\ frame' # None
  BY DEF NoNewFrame, CaptureInv, FrameInHand, Storing
<1>4. SeenBeforeStored'
  <2>1. \A p \in Pins : Offered(p)' => Stamp(seen'[p]) <= Stamp(data'[p][last'[p]])
    BY <1>1 DEF NoNewFrame, OrderInv, SeenBeforeStored
  <2>2. Storing' => Stamp(seen'[curpin']) <= Stamp(data'[curpin'][frame'])
    BY <1>2, <1>3 DEF NoNewFrame, OrderInv, SeenBeforeStored
  <2>3. ASSUME at' = "send", last'[curpin'] # None
        PROVE  Stamp(data'[curpin'][last'[curpin']]) <= Stamp(data'[curpin'][frame'])
    <3>1. Storing' /\ at = "send" /\ last' = last
      BY <2>3 DEF Storing, NoNewFrame
    <3>2. curpin' = curpin /\ data'[curpin'][frame'] = data[curpin][frame] /\ curpin \in Pins
      BY <1>2, <1>3, <3>1
    <3>3. Offered(curpin)'
      BY <2>3, <3>1, <3>2 DEF Offered, Locked
    <3> QED
      BY <1>1, <3>1, <3>2, <3>3, <2>3 DEF OrderInv, SeenBeforeStored
  <2> QED
    BY <2>1, <2>2, <2>3 DEF SeenBeforeStored
<1>5. ASSUME NEW t, \A p \in Pins : Before(p, t)
      PROVE  \A p \in Pins : Stamp(seen'[p]) <= t
                /\ (Offered(p)' => Stamp(data'[p][last'[p]]) <= t)
                /\ (curpin' = p /\ frame' # None => Stamp(data'[p][frame']) <= t)
  BY <1>1, <1>2, <1>5 DEF NoNewFrame, Before
<1>6. \A p \in Pins : Before(p, time)'
  BY <1>5 DEF NoNewFrame, OrderInv, Before
<1>7. pipe' # None => Stamp(pipe') <= time' /\ \A p \in Pins : Before(p, Stamp(pipe))'
  BY <1>5 DEF NoNewFrame, OrderInv, Before
<1> QED
  BY <1>4, <1>6, <1>7 DEF OrderInv

\* A frame that comes from the card is as new as the clock.
LEMMA TakeFrameKeepsOrder ==
    ASSUME CaptureInv, OrderInv, TakeFrame
    PROVE  OrderInv'
<1>1. /\ pipe' = <<input, time>> /\ time \in 0..MaxTime /\ input \in Pins
      /\ time' \in 0..MaxTime /\ time' >= time
      /\ UNCHANGED <<seen, last, data, at, curpin, frame>>
  BY CaptureAssumption DEF TakeFrame, CaptureInv, TypeOK, poolVars, readerVars
<1>2. Stamp(pipe') = time
  BY <1>1, StampFacts
<1>3. SeenBeforeStored'
  BY <1>1 DEF OrderInv, SeenBeforeStored, Offered, Locked, Storing
<1>4. \A p \in Pins : Before(p, time)' /\ Before(p, Stamp(pipe))'
  <2> SUFFICES ASSUME NEW p \in Pins PROVE Before(p, time)' /\ Before(p, Stamp(pipe))'
    OBVIOUS
  <2>1. Before(p, time) /\ (Offered(p)' <=> Offered(p))
    BY <1>1 DEF OrderInv, Offered, Locked
  <2>2. /\ Stamp(seen[p]) \in Int
        /\ Offered(p) => Stamp(data[p][last[p]]) \in Int
        /\ curpin = p /\ frame # None => Stamp(data[p][frame]) \in Int
    BY StampsAreInts, OwnersHold
  <2> QED
    BY <1>1, <1>2, <2>1, <2>2 DEF Before
<1> QED
  BY <1>1, <1>2, <1>3, <1>4 DEF OrderInv

\* A frame that is delivered is newer than all of its pin.
LEMMA DeliverKeepsOrder ==
    ASSUME CaptureInv, CaptureInv', OrderInv, NEW empty \in BOOLEAN, DeliverFrame(empty)
    PROVE  OrderInv'
<1>0. [Next]_vars
  BY DEF Next, Capture
<1>1. /\ at = "wait" /\ frame = None /\ pipe \in Frames /\ curpin \in Pins /\ pipe' = None
      /\ UNCHANGED <<seen, last, curpin, time>>
  BY DEF DeliverFrame, readerVars, CaptureInv, TypeOK, FrameInHand
<1>2. CASE empty
  <2>1. NoNewFrame
    BY <1>1, <1>2 DEF DeliverFrame, NoNewFrame, Offered, Locked, Storing
  <2> QED
    BY <1>0, <2>1, NoNewFrameKeepsOrder
<1>3. CASE ~empty
  <2>1. Allocate(curpin, pipe) /\ at' \in {"send", "release"}
    BY <1>3 DEF DeliverFrame
  <2>2. PICK b \in Buffers :
           /\ frame' = b /\ OthersUntouched(curpin, b)
           /\ b \notin alive[curpin] \ free[curpin] /\ data'[curpin][b] = pipe
    BY <1>1, <2>1, AllocateFacts
  <2>3. \A p \in Pins : Offered(p)' => Offered(p) /\ data'[p][last[p]] = data[p][last[p]]
    <3> SUFFICES ASSUME NEW p \in Pins, Offered(p)'
                 PROVE  Offered(p) /\ data'[p][last[p]] = data[p][last[p]]
      OBVIOUS
    <3>1. Offered(p)
      BY <1>1 DEF Offered, Locked
    <3>2. last[p] \in Buffers /\ last[p] \in alive[p] \ free[p]
      BY <3>1, OwnersHold DEF CaptureInv, Lent
    <3> QED
      BY <2>2, <3>1, <3>2 DEF OthersUntouched
  <2>4. \A p \in Pins : Before(p, Stamp(pipe)) /\ Before(p, time) /\ Stamp(pipe) <= time
    <3>1. pipe # None
      BY <1>1, CaptureAssumption DEF Frames, Pins
    <3> QED
      BY <3>1 DEF OrderInv
  <2>5. SeenBeforeStored'
    <3>1. \A p \in Pins : Offered(p)' => Stamp(seen[p]) <= Stamp(data'[p][last[p]])
      BY <2>3 DEF OrderInv, SeenBeforeStored
    <3>2. Stamp(seen[curpin]) <= Stamp(data'[curpin][frame'])
      BY <1>1, <2>2, <2>4 DEF Before
    <3>3. at' = "send" /\ last[curpin] # None =>
             Stamp(data'[curpin][last[curpin]]) <= Stamp(data'[curpin][frame'])
      <4> SUFFICES ASSUME at' = "send", last[curpin] # None
                   PROVE  Stamp(data'[curpin][last[curpin]]) <= Stamp(data'[curpin][frame'])
        OBVIOUS
      <4>1. Offered(curpin)'
        BY <1>1 DEF Offered, Locked
      <4> QED
        BY <1>1, <2>2, <2>3, <2>4, <4>1 DEF Before
    <3> QED
      BY <1>1, <3>1, <3>2, <3>3 DEF SeenBeforeStored
  <2>6. \A p \in Pins : Before(p, time)'
    BY <1>1, <2>2, <2>3, <2>4 DEF Before
  <2> QED
    BY <1>1, <2>5, <2>6 DEF OrderInv
<1> QED
  BY <1>2, <1>3

\* The stream then offers the newest frame of its pin.
LEMMA StoreKeepsOrder ==
    ASSUME CaptureInv, OrderInv, StoreFrame
    PROVE  OrderInv'
<1>1. /\ at = "store" /\ at' = "release" /\ frame # None /\ curpin \in Pins /\ Storing
      /\ last' = [last EXCEPT ![curpin] = frame]
      /\ last'[curpin] = frame /\ \A p \in Pins : p # curpin => last'[p] = last[p]
      /\ UNCHANGED <<seen, data, curpin, frame, time, pipe>>
  BY DEF StoreFrame, CaptureInv, TypeOK, FrameInHand, Storing, readerVars, cardVars
<1>2. \A p \in Pins : p # curpin => (Offered(p)' <=> Offered(p))
  BY <1>1 DEF Offered, Locked
<1>3. SeenBeforeStored'
  <2>1. \A p \in Pins : Offered(p)' => Stamp(seen[p]) <= Stamp(data[p][last'[p]])
    BY <1>1, <1>2 DEF OrderInv, SeenBeforeStored
  <2> QED
    BY <1>1, <2>1 DEF SeenBeforeStored, Storing
<1>4. ASSUME NEW t, \A p \in Pins : Before(p, t)
      PROVE  \A p \in Pins : Stamp(seen[p]) <= t
                /\ (Offered(p)' => Stamp(data[p][last'[p]]) <= t)
                /\ (curpin = p => Stamp(data[p][frame]) <= t)
  BY <1>1, <1>2, <1>4 DEF Before
<1>5. \A p \in Pins : Before(p, time)'
  BY <1>1, <1>4 DEF OrderInv, Before
<1>6. pipe' # None => Stamp(pipe') <= time' /\ \A p \in Pins : Before(p, Stamp(pipe))'
  BY <1>1, <1>4 DEF OrderInv, Before
<1> QED
  BY <1>3, <1>5, <1>6 DEF OrderInv

\* The reader sees the frame the stream offers.
LEMMA GetLastKeepsOrder ==
    ASSUME CaptureInv, OrderInv, NEW q \in Pins, GetLastFrame(q)
    PROVE  OrderInv' /\ Stamp(seen'[q]) >= Stamp(seen[q])
                     /\ \A p \in Pins : p # q => seen'[p] = seen[p]
<1>1. /\ Offered(q) /\ last[q] \in Buffers
      /\ seen'[q] = data[q][last[q]] /\ \A p \in Pins : p # q => seen'[p] = seen[p]
      /\ UNCHANGED <<last, at, data, curpin, frame, time, pipe>>
  BY DEF GetLastFrame, CaptureInv, TypeOK, Offered, cardVars
<1>2. \A p \in Pins : Offered(p)' <=> Offered(p)
  BY <1>1 DEF Offered, Locked
<1>3. Stamp(seen[q]) <= Stamp(seen'[q]) /\ Stamp(seen[q]) \in Int /\ Stamp(seen'[q]) \in Int
  BY <1>1, StampsAreInts DEF OrderInv, SeenBeforeStored
<1>4. SeenBeforeStored'
  <2>1. \A p \in Pins : Offered(p)' => Stamp(seen'[p]) <= Stamp(data[p][last[p]])
    BY <1>1, <1>2, <1>3 DEF OrderInv, SeenBeforeStored
  <2>2. ASSUME Storing PROVE Stamp(seen'[curpin]) <= Stamp(data[curpin][frame])
    <3>1. CASE curpin = q
      <4>1. at = "send" /\ last[curpin] # None
        BY <1>1, <2>2, <3>1 DEF Storing, Offered, Locked
      <4> QED
        BY <1>1, <3>1, <4>1 DEF OrderInv, SeenBeforeStored
    <3>2. CASE curpin # q
      BY <1>1, <2>2, <3>2, OwnersHold DEF OrderInv, SeenBeforeStored
    <3> QED
      BY <3>1, <3>2
  <2>3. at' = "send" /\ last'[curpin] # None =>
           Stamp(data[curpin][last[curpin]]) <= Stamp(data[curpin][frame])
    BY <1>1 DEF OrderInv, SeenBeforeStored
  <2> QED
    BY <1>1, <2>1, <2>2, <2>3 DEF SeenBeforeStored, Storing
<1>5. ASSUME NEW t, \A p \in Pins : Before(p, t)
      PROVE  \A p \in Pins : Stamp(seen'[p]) <= t
                /\ (Offered(p)' => Stamp(data[p][last[p]]) <= t)
                /\ (curpin = p /\ frame # None => Stamp(data[p][frame]) <= t)
  BY <1>1, <1>2, <1>5 DEF Before
<1>6. \A p \in Pins : Before(p, time)'
  BY <1>1, <1>5 DEF OrderInv, Before
<1>7. pipe' # None => Stamp(pipe') <= time' /\ \A p \in Pins : Before(p, Stamp(pipe))'
  BY <1>1, <1>5 DEF OrderInv, Before
<1> QED
  BY <1>1, <1>3, <1>4, <1>6, <1>7 DEF OrderInv

\* All the other steps only let frames go.
LEMMA OthersAddNoFrame ==
    ASSUME CaptureInv,
           \/ DropFrame \/ ReleaseLast \/ RecycleLast \/ ReleaseFrame \/ RouteToNextPin
           \/ \E p \in Pins : ReleaseHeld(p) \/ RecycleHeld(p)
           \/ Main \/ UNCHANGED vars
    PROVE  NoNewFrame
<1>1. TypeOK /\ FrameInHand /\ curpin \in Pins /\ (~Storing /\ at # "release" => frame = None)
  BY DEF CaptureInv, TypeOK, FrameInHand, Storing
<1>2. CASE DropFrame
  BY <1>2 DEF DropFrame, readerVars, NoNewFrame, Offered, Locked, Storing
<1>3. CASE ReleaseLast
  BY <1>3, <1>1 DEF ReleaseLast, readerVars, cardVars, NoNewFrame, Offered, Locked, Storing
<1>4. CASE RecycleLast
  BY <1>4, <1>1 DEF RecycleLast, readerVars, cardVars, NoNewFrame, Offered, Locked, Storing
<1>5. CASE ReleaseFrame
  BY <1>5, <1>1 DEF ReleaseFrame, readerVars, cardVars, NoNewFrame, Offered, Locked, Storing
<1>6. CASE RouteToNextPin
  BY <1>6, <1>1 DEF RouteToNextPin, readerVars, NoNewFrame, Offered, Locked, Storing
<1>7. ASSUME NEW p \in Pins, ReleaseHeld(p) \/ RecycleHeld(p) PROVE NoNewFrame
  BY <1>7 DEF ReleaseHeld, RecycleHeld, cardVars, NoNewFrame, Offered, Locked, Storing
<1>8. CASE Main
  <2>1. ASSUME NEW p \in Pins, DisablePin(p) \/ AttachPin(p) PROVE NoNewFrame
    BY <2>1 DEF DisablePin, AttachPin, cardVars, readerVars, NoNewFrame, Offered, Locked, Storing
  <2>2. CASE EndReaders \/ DeleteAllDevices \/ DeleteAllPins
    BY <2>2 DEF EndReaders, DeleteAllDevices, DeleteAllPins, cardVars, readerVars, NoNewFrame,
       Offered, Locked, Storing
  <2>3. ASSUME NEW p \in Pins, ClearStream(p) PROVE NoNewFrame
    <3>1. /\ at = "wait" /\ last' = [last EXCEPT ![p] = None]
          /\ UNCHANGED <<seen, time, pipe, at, curpin, frame>>
      BY <2>3 DEF ClearStream, cardVars, readerVars, CaptureInv, Quiet
    <3>2. \A q \in Pins : Offered(q)' => Offered(q) /\ last'[q] = last[q]
      BY <1>1, <3>1 DEF TypeOK, Offered, Locked
    <3> QED
      BY <3>1, <3>2 DEF NoNewFrame, Storing
  <2> QED
    BY <1>8, <2>1, <2>2, <2>3 DEF Main
<1>9. CASE UNCHANGED vars
  BY <1>9 DEF vars, cardVars, readerVars, NoNewFrame, Offered, Locked, Storing
<1> QED
  BY <1>2, <1>3, <1>4, <1>5, <1>6, <1>7, <1>8, <1>9

LEMMA InitOrder == Init => OrderInv
<1> SUFFICES ASSUME Init PROVE OrderInv
  OBVIOUS
<1>1. Stamp(None) <= 0
  BY StampFacts DEF Stamp
<1> QED
  BY <1>1 DEF Init, OrderInv, SeenBeforeStored, Before, Offered, Storing

\* Every step keeps the order, and no reader goes back.
LEMMA NextKeepsOrder ==
    ASSUME CaptureInv, CaptureInv', OrderInv, [Next]_vars
    PROVE  OrderInv' /\ \A p \in Pins : Stamp(seen'[p]) >= Stamp(seen[p])
<1>1. \A p \in Pins : Stamp(seen[p]) \in Int
  BY StampsAreInts
<1>2. ASSUME NEW q \in Pins, GetLastFrame(q)
      PROVE  OrderInv' /\ \A p \in Pins : Stamp(seen'[p]) >= Stamp(seen[p])
  BY <1>1, <1>2, GetLastKeepsOrder
<1>3. CASE \/ DropFrame \/ ReleaseLast \/ RecycleLast \/ ReleaseFrame \/ RouteToNextPin
           \/ \E p \in Pins : ReleaseHeld(p) \/ RecycleHeld(p)
           \/ Main \/ UNCHANGED vars
  <2>1. NoNewFrame
    BY <1>3, OthersAddNoFrame
  <2>2. seen' = seen
    BY <2>1 DEF NoNewFrame
  <2> QED
    BY <1>1, <2>1, <2>2, NoNewFrameKeepsOrder
<1>4. CASE TakeFrame \/ StoreFrame \/ (\E empty \in BOOLEAN : DeliverFrame(empty))
  <2>1. seen' = seen
    BY <1>4 DEF TakeFrame, StoreFrame, DeliverFrame, readerVars
  <2> QED
    BY <1>1, <1>4, <2>1, TakeFrameKeepsOrder, StoreKeepsOrder, DeliverKeepsOrder
<1> QED
  BY <1>2, <1>3, <1>4 DEF Next, Capture, Reader

\* A reader's frames come in the order in which the card took them: however its
\* calls fall between the releases and stores of the capture thread, it never
\* gets an older frame after a newer one, nor an emptied buffer.
THEOREM ReadsAreInOrder == Spec => ReadsInOrder
<1> DEFINE Inv == CaptureInv /\ OrderInv
<1>1. Init => Inv
  BY InitCapture, InitOrder
<1>2. Inv /\ [Next]_vars => Inv' /\ \A p \in Pins : Stamp(seen'[p]) >= Stamp(seen[p])
  BY NextKeepsInv, NextKeepsOrder
<1> QED
  BY <1>1, <1>2, PTL DEF Spec, ReadsInOrder

----------------------------------------------------------------------------
(* The turns of the pins.                                                  *)

\* How many inputs lie between the current pin and the pin p's turn.
Distance(q, p) == IF q <= p THEN p - q ELSE p + NumPins - q

\* How many steps of the capture thread at most until the next routing, twice,
\* and one for the frame that may be taken in the meantime.
StepsToRoute ==
    IF at = "wait"
    THEN IF pipe = None THEN 14 ELSE IF IsExpected(pipe) THEN 13 ELSE 15
    ELSE (CASE at = "send" -> 10 [] at = "recycle" -> 8 [] at = "store" -> 6
            [] at = "release" -> 4 [] at = "route" -> 2)
         + One(pipe = None)

StepsToTurn(p) == 20 * Distance(curpin, p) + StepsToRoute

\* No camera is passed over: as long as the main thread has not begun to end,
\* each step of the capture brings the turn of each camera nearer, whichever
\* pins are switched off in the meantime, whether frames are empty or still of
\* the pin before, and whether a routing fails; nothing another thread does
\* puts it off.  Only a card that the hack has lost is without progress
\* (StreamDevice.cpp:114-160, 284-331).
TurnsComeNearer ==
    [][\A p \in Used :
          curpin # p /\ phase = "work" /\ ~Lost =>
              IF Capture THEN StepsToTurn(p)' < StepsToTurn(p)
              ELSE phase' = "work" => StepsToTurn(p)' = StepsToTurn(p)]_vars

LEMMA ModOnce ==
    ASSUME NEW n \in Nat \ {0}, NEW x \in Nat, x < 2 * n
    PROVE  x % n = IF x < n THEN x ELSE x - n
  OBVIOUS

LEMMA NextPinIsNearer ==
    ASSUME TypeOK, NEW p \in Pins, enabled[p], curpin # p
    PROVE  /\ Ahead # {}
           /\ Distance(curpin, p) \in Nat /\ Distance(NextPin, p) \in Nat
           /\ Distance(NextPin, p) < Distance(curpin, p)
<1> DEFINE d == Distance(curpin, p)
           m == Min(Ahead)
<1>1. /\ NumPins \in Nat /\ NumPins > 1 /\ curpin \in Nat /\ curpin < NumPins
      /\ p \in Nat /\ p < NumPins
  BY CaptureAssumption DEF TypeOK, Pins
<1>2. d \in Nat /\ d > 0 /\ d < NumPins
      /\ curpin + d = (IF curpin < p THEN p ELSE p + NumPins)
  BY <1>1 DEF Distance
<1>3. (curpin + d) % NumPins = p
  BY <1>1, <1>2, ModOnce
<1>4. d \in Ahead
  BY <1>1, <1>2, <1>3 DEF Ahead
<1>5. m \in Ahead /\ m <= d /\ m \in Nat /\ m > 0
  <2>1. Ahead \subseteq Nat /\ \A k \in Ahead : k \in Nat /\ k > 0
    BY CaptureAssumption DEF Ahead
  <2> QED
    BY <1>4, <2>1, MinFacts
<1>6. NextPin = IF curpin + m < NumPins THEN curpin + m ELSE curpin + m - NumPins
  <2>1. NextPin = (curpin + m) % NumPins
    BY <1>4 DEF NextPin
  <2> QED
    BY <1>1, <1>2, <1>5, <2>1, ModOnce
<1> HIDE DEF d, m
<1>7. Distance(NextPin, p) = d - m
  <2>1. d = IF curpin <= p THEN p - curpin ELSE p + NumPins - curpin
    BY DEF d, Distance
  <2> QED
    BY <1>1, <1>2, <1>5, <1>6, <2>1 DEF Distance
<1> QED
  BY <1>2, <1>4, <1>5, <1>7 DEF d

LEMMA StepsToRouteFacts == TypeOK => StepsToRoute \in 2..15
  BY DEF TypeOK, StepsToRoute, One

LEMMA CaptureStepsNearer ==
    ASSUME TypeOK, TypeOK', StreamsInUse, ~Lost, Capture, NEW p \in Used, curpin # p
    PROVE  StepsToTurn(p)' < StepsToTurn(p)
<1>0. StepsToRoute \in 2..15 /\ StepsToRoute' \in 2..15
  <2>1. StepsToRoute' \in 2..15
    BY DEF TypeOK, StepsToRoute, One
  <2> QED
    BY <2>1, StepsToRouteFacts
<1>1. p \in Pins /\ enabled[p] /\ StepsToRoute \in Nat /\ StepsToRoute' \in Nat
  <2>1. p \in Pins
    BY CaptureAssumption DEF Pins
  <2> QED
    BY <1>0, <2>1 DEF StreamsInUse, TypeOK
<1>2. Distance(curpin, p) \in Nat
  BY <1>1, NextPinIsNearer
<1>3. CASE RouteToNextPin
  <2>1. at = "route" /\ curpin' = NextPin
    BY <1>3 DEF RouteToNextPin
  <2>2. Distance(curpin', p) \in Nat /\ Distance(curpin', p) < Distance(curpin, p)
    BY <1>1, <2>1, NextPinIsNearer
  <2>3. StepsToRoute' <= 15 /\ StepsToRoute >= 2
    BY <1>0
  <2>4. /\ StepsToTurn(p) = 20 * Distance(curpin, p) + StepsToRoute
        /\ StepsToTurn(p)' = 20 * Distance(curpin', p) + StepsToRoute'
    BY DEF StepsToTurn, Distance
  <2> DEFINE d == Distance(curpin, p)
             e == Distance(curpin', p)
             r == StepsToRoute
             t == StepsToRoute'
  <2>5. d \in Nat /\ e \in Nat /\ e < d /\ r \in Nat /\ t \in Nat /\ t <= 15 /\ r >= 2
    BY <1>1, <1>2, <2>2, <2>3
  <2> HIDE DEF d, e, r, t
  <2>6. 20 * e + t < 20 * d + r
    BY <2>5
  <2> QED
    BY <2>4, <2>6 DEF d, e, r, t
<1>4. CASE ~RouteToNextPin
  <2>1. curpin' = curpin /\ StepsToRoute' < StepsToRoute
    <3>1. CASE TakeFrame
      <4>0. /\ pipe = None /\ pipe' = <<input, time>> /\ at' = at
            /\ curpin' = curpin /\ techwell' = techwell
        BY <3>1 DEF TakeFrame
      <4>1. /\ pipe = None /\ pipe' = <<input, time>> /\ pipe' # None /\ at' = at
            /\ curpin' = curpin /\ techwell' = techwell
        <5>1. <<input, time>> \in (0..(NumPins - 1)) \X (0..MaxTime)
          BY DEF TypeOK, Pins
        <5> QED
          BY <4>0, <5>1, CaptureAssumption
      <4>2. techwell' => pipe'[1] = curpin'
        BY <4>1 DEF Lost
      <4> QED
        BY <4>1, <4>2 DEF StepsToRoute, IsExpected, One, TypeOK
    <3>2. CASE DropFrame
      BY <3>2 DEF DropFrame, StepsToRoute, TypeOK
    <3>3. ASSUME NEW empty \in BOOLEAN, DeliverFrame(empty) PROVE curpin' = curpin /\ StepsToRoute' < StepsToRoute
      BY <3>3 DEF DeliverFrame, StepsToRoute, One, TypeOK
    <3>4. CASE ReleaseLast \/ RecycleLast \/ StoreFrame \/ ReleaseFrame
      BY <3>4 DEF ReleaseLast, RecycleLast, StoreFrame, ReleaseFrame, StepsToRoute, One, TypeOK, cardVars
    <3> QED
      BY <1>4, <3>1, <3>2, <3>3, <3>4 DEF Capture
  <2> QED
    BY <1>1, <1>2, <2>1 DEF StepsToTurn
<1> QED
  BY <1>3, <1>4

LEMMA OthersDoNotDelay ==
    ASSUME Next, ~Capture, phase = "work", phase' = "work"
    PROVE  UNCHANGED <<techwell, pipe, curpin, at>>
  BY DEF Next, Reader, ReleaseHeld, RecycleHeld, GetLastFrame, Main, DisablePin, AttachPin,
     ClearStream, EndReaders, DeleteAllDevices, DeleteAllPins, cardVars

\* For every number of inputs, every choice of the pins in use and any number
\* of routings that fail.
THEOREM TurnsAreFair == Spec => TurnsComeNearer
<1>1. CaptureInv /\ CaptureInv' /\ [Next]_vars
        => [\A p \in Used :
              curpin # p /\ phase = "work" /\ ~Lost =>
                  IF Capture THEN StepsToTurn(p)' < StepsToTurn(p)
                  ELSE phase' = "work" => StepsToTurn(p)' = StepsToTurn(p)]_vars
  <2> SUFFICES ASSUME CaptureInv, CaptureInv', Next, NEW p \in Used,
                      curpin # p, phase = "work", ~Lost
               PROVE  IF Capture THEN StepsToTurn(p)' < StepsToTurn(p)
                      ELSE phase' = "work" => StepsToTurn(p)' = StepsToTurn(p)
    OBVIOUS
  <2>1. CASE Capture
    BY <2>1, CaptureStepsNearer DEF CaptureInv
  <2>2. CASE ~Capture
    <3> SUFFICES ASSUME phase' = "work" PROVE StepsToTurn(p)' = StepsToTurn(p)
      BY <2>2
    <3>1. UNCHANGED <<techwell, pipe, curpin, at>>
      BY <2>2, OthersDoNotDelay
    <3>2. StepsToRoute' = StepsToRoute
      BY <3>1 DEF StepsToRoute, IsExpected
    <3> QED
      BY <3>1, <3>2 DEF StepsToTurn
  <2> QED
    BY <2>1, <2>2
<1> QED
  BY <1>1, CaptureInvariance, PTL DEF Spec, TurnsComeNearer

----------------------------------------------------------------------------
(* The end of the buffers.                                                 *)

\* Once the devices are deleted, the buffers of a pin whose stream is cleared
\* are all back in the free list, none is left with a reader or the capture
\* thread; and in the end there are none (CaptureServer.cpp:278-290,
\* FrmBuffer.cpp:350-390).
AllComeBack ==
    \A p \in Pins : /\ phase = "streams" /\ last[p] = None => alive[p] = free[p]
                    /\ phase = "gone" => alive[p] = {}

\* A buffer that is destroyed with its pin is in nobody's hands: the flush of
\* the pins without a camera comes while the streams still have their frames,
\* and the flush of the others after all of them are cleared
\* (ServerManager.cpp:104-125).
FlushedAreFree ==
    [][DeleteAllDevices \/ DeleteAllPins =>
          \A p \in Pins : alive[p] \ alive'[p] \subseteq free[p]]_vars

\* Without the frame in hand, a reader and a stream nothing is out.
LEMMA NothingOut ==
    ASSUME CaptureInv, at = "wait", NEW p \in Pins, held[p] = None, dying[p] = None,
           last[p] = None
    PROVE  alive[p] = free[p]
<1>1. frame = None
  BY DEF CaptureInv, FrameInHand
<1>2. ASSUME NEW b \in Buffers PROVE Holders(p, b) = 0 /\ ~Spare(p, b)
  <2>1. b # None
    BY CaptureAssumption
  <2> QED
    BY <1>1, <2>1 DEF Holders, One, Spare
<1>3. free[p] \subseteq alive[p] /\ alive[p] \subseteq Buffers
  BY DEF CaptureInv, Lent, TypeOK
<1>4. ASSUME NEW b \in alive[p] PROVE b \in free[p]
  <2>1. b \in Buffers
    BY <1>3
  <2>2. Holders(p, b) = 0 /\ ~Spare(p, b)
    BY <1>2, <2>1
  <2>3. ~(Holders(p, b) > 0)
    BY <2>2
  <2> QED
    BY <2>1, <2>2, <2>3 DEF CaptureInv, Lent
<1> QED
  BY <1>3, <1>4

\* After the end nothing runs.
LEMMA GoneIsQuiet ==
    ASSUME CaptureInv, Next, phase = "gone"
    PROVE  FALSE
<1>1. /\ at = "wait" /\ pipe = None
      /\ \A p \in Pins : held[p] = None /\ dying[p] = None
  BY DEF CaptureInv, Quiet
<1>2. ~Capture
  BY <1>1 DEF Capture, TakeFrame, DropFrame, DeliverFrame, ReleaseLast, RecycleLast, StoreFrame,
     ReleaseFrame, RouteToNextPin
<1>3. ~(\E p \in Pins : Reader(p))
  BY <1>1 DEF Reader, ReleaseHeld, RecycleHeld, GetLastFrame
<1>4. ~Main
  BY DEF Main, DisablePin, AttachPin, ClearStream, EndReaders, DeleteAllDevices, DeleteAllPins
<1> QED
  BY <1>2, <1>3, <1>4 DEF Next

\* The pool of every pin is whole when it is destroyed, for any number of pins
\* and buffers.
THEOREM BuffersComeBack == Spec => []AllComeBack
<1> DEFINE Gone == phase = "gone" => \A p \in Pins : alive[p] = {}
<1>1. Init => Gone
  BY DEF Init
<1>2. CaptureInv /\ Gone /\ [Next]_vars => Gone'
  <2> SUFFICES ASSUME CaptureInv, Next, phase # "gone", phase' = "gone", NEW p \in Pins
               PROVE  alive'[p] = {}
    BY GoneIsQuiet DEF vars, mainVars, poolVars
  <2>1. DeleteAllPins
    BY DEF Next, Capture, TakeFrame, DropFrame, DeliverFrame, ReleaseLast, RecycleLast, StoreFrame,
       ReleaseFrame, RouteToNextPin, Reader, ReleaseHeld, RecycleHeld, GetLastFrame, Main,
       DisablePin, AttachPin, ClearStream, EndReaders, DeleteAllDevices, mainVars
  <2> QED
    BY <2>1 DEF DeleteAllPins, FlushFrames
<1>3. CaptureInv /\ Gone => AllComeBack
  <2> SUFFICES ASSUME CaptureInv, Gone, NEW p \in Pins
               PROVE  /\ phase = "streams" /\ last[p] = None => alive[p] = free[p]
                      /\ phase = "gone" => alive[p] = {}
    BY DEF AllComeBack
  <2> QED
    BY NothingOut DEF CaptureInv, Quiet
<1> QED
  BY <1>1, <1>2, <1>3, CaptureInvariance, PTL DEF Spec

\* The two flushes never take a buffer from under a stream or a reader.
THEOREM FlushesAreSafe == Spec => FlushedAreFree
<1>1. CaptureInv /\ [Next]_vars
        => [DeleteAllDevices \/ DeleteAllPins =>
              \A p \in Pins : alive[p] \ alive'[p] \subseteq free[p]]_vars
  <2> SUFFICES ASSUME CaptureInv, DeleteAllDevices \/ DeleteAllPins,
                      NEW p \in Pins, NEW b \in alive[p] \ alive'[p]
               PROVE  b \in free[p]
    OBVIOUS
  <2>1. CASE DeleteAllDevices
    <3>1. at = "wait" /\ held[p] = None /\ dying[p] = None
      BY <2>1 DEF DeleteAllDevices
    <3>2. ~enabled[p]
      BY <2>1 DEF DeleteAllDevices, FlushFrames
    <3>3. last[p] = None
      BY <3>2 DEF CaptureInv, StreamsInUse, TypeOK
    <3> QED
      BY <3>1, <3>3, NothingOut
  <2>2. CASE DeleteAllPins
    <3>1. last[p] = None /\ phase = "streams"
      BY <2>2 DEF DeleteAllPins
    <3>2. at = "wait" /\ held[p] = None /\ dying[p] = None
      BY <3>1 DEF CaptureInv, Quiet
    <3> QED
      BY <3>1, <3>2, NothingOut
  <2> QED
    BY <2>1, <2>2
<1> QED
  BY <1>1, CaptureInvariance, PTL DEF Spec, FlushedAreFree

=============================================================================
