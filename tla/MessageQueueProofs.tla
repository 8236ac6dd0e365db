------------------------- MODULE MessageQueueProofs -------------------------
(***************************************************************************)
(* Proofs about MessageQueue for every MaxSize and MaxSent.                *)
(***************************************************************************)
EXTENDS MessageQueue, TLAPS

\* The batch under way was cut from the front of the run of recent pushes:
\* all of it is newer than what has been handled and older than the queue.
BatchOrdered ==
    /\ done <= sent - Len(queue)
    /\ \A i \in DOMAIN batch : done < batch[i] /\ batch[i] <= sent - Len(queue)
    /\ \A i, j \in DOMAIN batch : i < j => batch[i] < batch[j]

\* The test in Push (MessageQueue.h:42) compares before the push: Capacity, one
\* above MaxSize, is what the queue can reach.
QueueBounded == Len(queue) <= Capacity

IInv ==
    /\ TypeOK
    /\ QueueBounded
    /\ QueueIsNewest
    /\ BatchOrdered

----------------------------------------------------------------------------
\* Push on a queue of numbers: its length, its last element, and the elements
\* before it, which are those of the old queue, shifted when the head is lost.
LEMMA PushFacts ==
    ASSUME NEW q \in Seq(Nat), NEW m \in Nat
    PROVE  LET p == Push(q, m) IN
           /\ p \in Seq(Nat)
           /\ Len(p) = IF MaxSize < Len(q) THEN Len(q) ELSE Len(q) + 1
           /\ p[Len(p)] = m
           /\ \A i \in 1..(Len(p) - 1) :
                 p[i] = q[i + (Len(q) + 1 - Len(p))]
<1>1. CASE MaxSize < Len(q)
  <2>1. q # <<>> /\ Tail(q) \in Seq(Nat) /\ Len(Tail(q)) = Len(q) - 1
    BY <1>1, MaxSizeAssumption
  <2>2. \A i \in 1..(Len(q) - 1) : Tail(q)[i] = q[i + 1]
    BY <2>1
  <2> QED
    BY <1>1, <2>1, <2>2 DEF Push
<1>2. CASE ~(MaxSize < Len(q))
  BY <1>2 DEF Push
<1> QED
  BY <1>1, <1>2

\* The container never holds more than Capacity messages, whoever pushes.
LEMMA PushBounded ==
    ASSUME NEW q \in Seq(Nat), NEW m \in Nat, Len(q) <= Capacity
    PROVE  Len(Push(q, m)) <= Capacity
  BY PushFacts, MaxSizeAssumption DEF Capacity

LEMMA InitInv == Init => IInv
  BY MaxSizeAssumption, MaxSentAssumption
     DEF Init, IInv, TypeOK, QueueBounded, QueueIsNewest, BatchOrdered, Capacity

LEMMA PushKeepsInv ==
    ASSUME IInv, PushMessage
    PROVE  IInv'
<1> DEFINE m == sent + 1
<1>1. /\ queue \in Seq(Nat) /\ sent \in Nat /\ m \in Nat
      /\ queue' = Push(queue, m) /\ sent' = m /\ batch' = batch /\ done' = done
  BY MaxSentAssumption DEF IInv, TypeOK, PushMessage
<1>2. /\ queue' \in Seq(Nat)
      /\ Len(queue') = IF MaxSize < Len(queue) THEN Len(queue) ELSE Len(queue) + 1
      /\ queue'[Len(queue')] = m
      /\ \A i \in 1..(Len(queue') - 1) :
            queue'[i] = queue[i + (Len(queue) + 1 - Len(queue'))]
  BY <1>1, PushFacts
<1>2a. DOMAIN queue' = 1..Len(queue') /\ Len(queue') \in Nat
  BY <1>2
<1>3. TypeOK'
  BY <1>1, <1>2, MaxSentAssumption DEF IInv, TypeOK, PushMessage
<1>4. QueueBounded'
  BY <1>1, PushBounded DEF IInv, QueueBounded
<1>5. QueueIsNewest'
  <2> SUFFICES ASSUME NEW i \in 1..Len(queue')
               PROVE  queue'[i] = m - Len(queue') + i
    BY <1>1, <1>2, <1>2a DEF QueueIsNewest
  <2>1. CASE i = Len(queue')
    BY <2>1, <1>1, <1>2, MaxSizeAssumption
  <2>2. CASE i < Len(queue')
    <3> DEFINE k == i + (Len(queue) + 1 - Len(queue'))
    <3>1. k \in 1..Len(queue)
      BY <2>2, <1>1, <1>2, MaxSizeAssumption
    <3>2. i \in 1..(Len(queue') - 1)
      BY <2>2, <1>2
    <3>3. queue'[i] = queue[k]
      BY <3>2, <1>2
    <3> HIDE DEF k
    <3>4. queue[k] = sent - Len(queue) + k
      BY <3>1 DEF IInv, QueueIsNewest
    <3>5. sent - Len(queue) + k = m - Len(queue') + i
      <4>1. i \in Nat /\ Len(queue) \in Nat
        BY <1>1, <1>2a
      <4> QED
        BY <1>1, <1>2a, <4>1 DEF k
    <3> QED
      BY <3>3, <3>4, <3>5
  <2> QED
    BY <2>1, <2>2, <1>2
<1>6. BatchOrdered'
  <2>1. sent' - Len(queue') >= sent - Len(queue)
    BY <1>1, <1>2, MaxSizeAssumption
  <2>2. \A i \in DOMAIN batch : batch[i] \in Nat
    BY DEF IInv, TypeOK
  <2>3. /\ sent \in Nat /\ done \in Nat /\ Len(queue) \in Nat /\ Len(queue') \in Nat
        /\ sent' \in Nat
    BY <1>1, <1>2, MaxSentAssumption DEF IInv, TypeOK
  <2> QED
    BY <1>1, <2>1, <2>2, <2>3 DEF IInv, BatchOrdered
<1> QED
  BY <1>3, <1>4, <1>5, <1>6 DEF IInv

LEMMA TakeKeepsInv ==
    ASSUME IInv, TakeAll
    PROVE  IInv'
<1>1. /\ queue \in Seq(Nat) /\ sent \in Nat /\ done \in Nat
      /\ queue' = <<>> /\ batch' = queue /\ sent' = sent /\ done' = done
  BY MaxSentAssumption DEF IInv, TypeOK, TakeAll
<1>2. TypeOK' /\ QueueBounded' /\ QueueIsNewest'
  BY <1>1, MaxSizeAssumption DEF IInv, TypeOK, QueueBounded, QueueIsNewest, Capacity
<1>3. \A i \in DOMAIN queue : queue[i] = sent - Len(queue) + i /\ i \in 1..Len(queue)
  BY <1>1 DEF IInv, QueueIsNewest
<1>4. BatchOrdered'
  <2>1. done <= sent - Len(queue) /\ Len(queue) \in Nat
    BY <1>1 DEF IInv, BatchOrdered
  <2>2. Len(queue') = 0
    BY <1>1
  <2>3. \A i \in DOMAIN queue : done < queue[i] /\ queue[i] <= sent
    BY <1>1, <1>3, <2>1
  <2>4. \A i, j \in DOMAIN queue : i < j => queue[i] < queue[j]
    BY <1>1, <1>3, <2>1
  <2> QED
    BY <1>1, <2>1, <2>2, <2>3, <2>4 DEF BatchOrdered
<1> QED
  BY <1>2, <1>4 DEF IInv

LEMMA HandleKeepsInv ==
    ASSUME IInv, Handle
    PROVE  IInv'
<1>1. /\ batch \in Seq(Nat) /\ batch # <<>> /\ queue' = queue /\ sent' = sent
      /\ done' = batch[1] /\ batch' = Tail(batch) /\ sent \in Nat /\ done \in Nat
  BY MaxSentAssumption DEF IInv, TypeOK, Handle
<1>2. /\ batch' \in Seq(Nat) /\ Len(batch') = Len(batch) - 1
      /\ \A i \in 1..Len(batch') : batch'[i] = batch[i + 1]
      /\ 1 \in DOMAIN batch /\ \A i \in 1..Len(batch') : i + 1 \in DOMAIN batch
  BY <1>1
<1>3. /\ done < batch[1] /\ batch[1] <= sent - Len(queue) /\ batch[1] \in Nat
      /\ Len(queue) \in Nat
  BY <1>1, <1>2 DEF IInv, TypeOK, BatchOrdered
<1>4. TypeOK' /\ QueueBounded' /\ QueueIsNewest'
  BY <1>1, <1>2, <1>3 DEF IInv, TypeOK, QueueBounded, QueueIsNewest, Capacity
<1>5. BatchOrdered'
  <2>1. \A i \in DOMAIN batch' : i \in 1..Len(batch') /\ batch'[i] = batch[i + 1]
                                 /\ i + 1 \in DOMAIN batch /\ 1 < i + 1
    <3>1. DOMAIN batch' = 1..Len(batch')
      BY <1>2
    <3> QED
      BY <1>2, <3>1
  <2>2. \A i \in DOMAIN batch' : done' < batch'[i] /\ batch'[i] <= sent - Len(queue)
    BY <1>1, <1>2, <2>1 DEF IInv, BatchOrdered
  <2>3. \A i, j \in DOMAIN batch' : i < j => batch'[i] < batch'[j]
    BY <2>1 DEF IInv, BatchOrdered
  <2> QED
    BY <1>1, <1>3, <2>2, <2>3 DEF BatchOrdered
<1> QED
  BY <1>4, <1>5 DEF IInv

LEMMA ThrowKeepsInv ==
    ASSUME IInv, HandlerThrows
    PROVE  IInv'
  BY DEF IInv, TypeOK, QueueBounded, QueueIsNewest, BatchOrdered, HandlerThrows, Capacity

LEMMA StepKeepsInv == IInv /\ [Next]_vars => IInv'
<1> SUFFICES ASSUME IInv, [Next]_vars PROVE IInv'
  OBVIOUS
<1>1. CASE UNCHANGED vars
  BY <1>1 DEF vars, IInv, TypeOK, QueueBounded, QueueIsNewest, BatchOrdered, Capacity
<1> QED
  BY <1>1, PushKeepsInv, TakeKeepsInv, HandleKeepsInv, ThrowKeepsInv DEF Next, Consume

\* Every behaviour of the queue and its users keeps the inductive invariant:
\* the container is bounded, it holds the most recent pushes, and the batch
\* under way lies between what was handled and what waits (MessageQueue.h).
THEOREM Invariance == Spec => []IInv
  BY InitInv, StepKeepsInv, PTL DEF Spec

\* The state of the queue and of its thread keeps its types whatever the pushes
\* and the exchanges (MessageQueue.h:40-48, 112-158).
THEOREM QueueTypes == Spec => []TypeOK
  BY Invariance, PTL DEF IInv

\* Overload drops only the oldest messages (MessageQueue.h:42-47).
THEOREM NewestKept == Spec => []QueueIsNewest
  BY Invariance, PTL DEF IInv

----------------------------------------------------------------------------
LEMMA InSeqPush ==
    ASSUME NEW q \in Seq(Nat), NEW m \in Nat
    PROVE  InSeq(Push(q, m)) \subseteq InSeq(q) \cup {m}
<1>0. Push(q, m) \in Seq(Nat) /\ DOMAIN Push(q, m) = 1..Len(Push(q, m))
  BY PushFacts
<1>1. SUFFICES ASSUME NEW i \in 1..Len(Push(q, m))
               PROVE  Push(q, m)[i] \in InSeq(q) \cup {m}
  BY <1>0 DEF InSeq
<1>2. CASE i = Len(Push(q, m))
  BY <1>2, PushFacts
<1>3. CASE i # Len(Push(q, m))
  <2> DEFINE k == i + (Len(q) + 1 - Len(Push(q, m)))
  <2>1. k \in 1..Len(q) /\ Push(q, m)[i] = q[k]
    BY <1>3, PushFacts, MaxSizeAssumption
  <2> QED
    BY <2>1 DEF InSeq
<1> QED
  BY <1>2, <1>3

\* A step of the queue is a step of the lossy channel, or changes none of it.
LEMMA StepRefines == IInv /\ [Next]_vars => [Fifo!FifoNext]_(Fifo!fifoVars)
<1> SUFFICES ASSUME IInv, [Next]_vars PROVE Fifo!FifoNext \/ UNCHANGED Fifo!fifoVars
  OBVIOUS
<1> USE DEF Fifo!FifoNext
<1>1. CASE PushMessage
  <2>1. Pending' \subseteq Pending \cup {sent + 1}
    BY <1>1, InSeqPush, MaxSentAssumption DEF PushMessage, Pending, IInv, TypeOK
  <2> QED
    BY <1>1, <2>1 DEF PushMessage, Fifo!Send
<1>2. CASE TakeAll
  <2>1. Pending' \subseteq Pending
    BY <1>2 DEF TakeAll, Pending, InSeq
  <2> QED
    BY <1>2, <2>1 DEF TakeAll, Fifo!Lose
<1>3. CASE Handle
  <2> DEFINE n == batch[1]
  <2>1. /\ batch \in Seq(Nat) /\ queue \in Seq(Nat) /\ 1 \in DOMAIN batch
        /\ done' = n /\ queue' = queue /\ sent' = sent
        /\ batch' = Tail(batch) /\ batch # <<>> /\ sent \in Nat
    BY <1>3, MaxSentAssumption DEF Handle, IInv, TypeOK
  <2>2. n \in Pending /\ n > done /\ n <= sent - Len(queue) /\ n \in Nat
    BY <2>1 DEF Pending, InSeq, IInv, BatchOrdered, TypeOK
  <2>3. ASSUME NEW m \in InSeq(batch') PROVE m \in InSeq(batch) /\ m > n
    <3>1. PICK i \in DOMAIN batch' : m = batch'[i]
      BY <2>3 DEF InSeq
    <3>2. i + 1 \in DOMAIN batch /\ m = batch[i + 1] /\ 1 < i + 1
      BY <2>1, <3>1
    <3> QED
      BY <2>1, <2>2, <3>2 DEF InSeq, IInv, BatchOrdered, TypeOK
  <2>4. ASSUME NEW m \in InSeq(queue) PROVE m > n
    <3>1. PICK i \in DOMAIN queue : m = queue[i]
      BY <2>4 DEF InSeq
    <3> QED
      BY <2>1, <2>2, <3>1 DEF IInv, QueueIsNewest
  <2>5. Pending' \subseteq {m \in Pending : m > n}
    BY <2>1, <2>3, <2>4 DEF Pending
  <2> QED
    BY <2>1, <2>2, <2>5 DEF Fifo!Deliver
<1>4. CASE HandlerThrows
  <2>1. Pending' \subseteq Pending
    BY <1>4 DEF HandlerThrows, Pending, InSeq
  <2> QED
    BY <1>4, <2>1 DEF HandlerThrows, Fifo!Lose
<1>5. CASE UNCHANGED vars
  BY <1>5 DEF vars, Pending, InSeq, Fifo!fifoVars
<1> QED
  BY <1>1, <1>2, <1>3, <1>4, <1>5 DEF Next, Consume

\* The queue implements the lossy first-in first-out channel: whatever the
\* pushing threads and the owner do, a message is handled at most once and
\* never after a later one (MessageQueue.h:40-48, 144-158).
THEOREM Refinement == Spec => RefinesFifo
<1>1. Init => Fifo!FifoInit
  BY DEF Init, Fifo!FifoInit, Pending, InSeq
<1> QED
  BY <1>1, Invariance, StepRefines, PTL DEF Spec, RefinesFifo, Fifo!FifoSpec

----------------------------------------------------------------------------
(* What can be lost.                                                       *)

LEMMA PushLosesOldest ==
    ASSUME IInv, PushMessage, NEW n \in Pending \ Pending'
    PROVE  MaxSize < Len(queue) /\ n + Capacity = sent'
<1>1. /\ queue \in Seq(Nat) /\ sent \in Nat /\ sent + 1 \in Nat
      /\ queue' = Push(queue, sent + 1) /\ sent' = sent + 1 /\ batch' = batch
      /\ Len(queue) <= Capacity /\ Len(queue) \in Nat
  BY MaxSentAssumption DEF IInv, TypeOK, PushMessage, QueueBounded
<1>2. PICK i \in 1..Len(queue) : n = queue[i]
  BY <1>1 DEF Pending, InSeq
<1>3. n \notin InSeq(queue') /\ n = sent - Len(queue) + i
  BY <1>1, <1>2 DEF Pending, IInv, QueueIsNewest
<1>4. /\ queue' \in Seq(Nat) /\ DOMAIN queue' = 1..Len(queue')
      /\ Len(queue') = IF MaxSize < Len(queue) THEN Len(queue) ELSE Len(queue) + 1
      /\ \A j \in 1..(Len(queue') - 1) :
            queue'[j] = queue[j + (Len(queue) + 1 - Len(queue'))]
  <2>1. LET p == Push(queue, sent + 1) IN
        /\ p \in Seq(Nat)
        /\ Len(p) = IF MaxSize < Len(queue) THEN Len(queue) ELSE Len(queue) + 1
        /\ \A j \in 1..(Len(p) - 1) : p[j] = queue[j + (Len(queue) + 1 - Len(p))]
    BY <1>1, PushFacts
  <2>2. queue' \in Seq(Nat) => DOMAIN queue' = 1..Len(queue')
    OBVIOUS
  <2> QED
    BY <1>1, <2>1, <2>2
<1> DEFINE j == i - (Len(queue) + 1 - Len(queue'))
<1>5. ASSUME j \in 1..(Len(queue') - 1) PROVE FALSE
  <2>1. queue'[j] = queue[j + (Len(queue) + 1 - Len(queue'))]
    BY <1>4, <1>5
  <2>2. j + (Len(queue) + 1 - Len(queue')) = i
    BY <1>1, <1>2, <1>4, <1>5
  <2>3. j \in DOMAIN queue'
    <3>1. Len(queue') \in Nat
      BY <1>4
    <3> QED
      BY <1>4, <1>5, <3>1
  <2>4. queue'[j] = n
    BY <1>2, <2>1, <2>2
  <2>5. \A k \in DOMAIN queue' : queue'[k] # n
    BY <1>3 DEF InSeq
  <2> HIDE DEF j
  <2> QED
    BY <2>3, <2>4, <2>5
<1>6. MaxSize < Len(queue) /\ i = 1
  BY <1>1, <1>2, <1>4, <1>5, MaxSizeAssumption
<1> QED
  BY <1>1, <1>3, <1>6, MaxSizeAssumption DEF Capacity

\* The exchange of the queues loses nothing, and a turn of the loop only what
\* it handles.
LEMMA OthersLoseNothing ==
    ASSUME IInv
    PROVE  /\ TakeAll => Pending' = Pending
           /\ Handle => Pending' = Pending \ {done'} /\ done' \in Pending
<1>1. TakeAll => Pending' = Pending
  BY DEF TakeAll, Pending, InSeq
<1>2. ASSUME Handle PROVE Pending' = Pending \ {done'} /\ done' \in Pending
  <2>1. /\ batch \in Seq(Nat) /\ queue \in Seq(Nat) /\ batch # <<>> /\ 1 \in DOMAIN batch
        /\ done' = batch[1] /\ queue' = queue /\ batch' = Tail(batch) /\ sent \in Nat
    BY <1>2, MaxSentAssumption DEF Handle, IInv, TypeOK
  <2>2. /\ DOMAIN batch = 1..Len(batch) /\ DOMAIN batch' = 1..(Len(batch) - 1)
        /\ \A i \in 1..(Len(batch) - 1) : batch'[i] = batch[i + 1]
    BY <2>1
  <2>3. done' \in InSeq(batch) /\ done' \notin InSeq(queue)
    <3>1. batch[1] <= sent - Len(queue) /\ batch[1] \in Nat
      BY <2>1 DEF IInv, BatchOrdered, TypeOK
    <3>2. \A i \in DOMAIN queue : queue[i] > sent - Len(queue) /\ i \in 1..Len(queue)
      BY <2>1 DEF IInv, QueueIsNewest
    <3> QED
      BY <2>1, <3>1, <3>2 DEF InSeq
  <2>4. InSeq(batch') = InSeq(batch) \ {done'}
    <3>1. \A i \in DOMAIN batch : batch[i] = done' => i = 1
      <4> SUFFICES ASSUME NEW i \in DOMAIN batch, i # 1 PROVE batch[i] # done'
        OBVIOUS
      <4>1. 1 < i /\ batch[1] \in Nat /\ batch[i] \in Nat
        BY <2>1, <2>2
      <4>2. batch[1] < batch[i]
        BY <2>1, <4>1 DEF IInv, BatchOrdered
      <4> QED
        BY <2>1, <4>1, <4>2
    <3>2. ASSUME NEW m \in InSeq(batch') PROVE m \in InSeq(batch) \ {done'}
      <4>1. PICK i \in 1..(Len(batch) - 1) : m = batch[i + 1]
        BY <2>2 DEF InSeq
      <4>2. i + 1 \in DOMAIN batch /\ i + 1 # 1
        BY <2>1, <2>2
      <4> QED
        BY <3>1, <4>1, <4>2 DEF InSeq
    <3>3. ASSUME NEW m \in InSeq(batch) \ {done'} PROVE m \in InSeq(batch')
      <4>1. PICK i \in DOMAIN batch : m = batch[i] /\ i # 1
        BY <2>1 DEF InSeq
      <4>2. i - 1 \in 1..(Len(batch) - 1) /\ (i - 1) + 1 = i
        BY <2>1, <2>2, <4>1
      <4>3. batch'[i - 1] = m
        BY <2>2, <4>1, <4>2
      <4> QED
        BY <2>2, <4>2, <4>3 DEF InSeq
    <3> QED
      BY <3>2, <3>3
  <2> QED
    BY <2>1, <2>3, <2>4 DEF Pending
<1> QED
  BY <1>1, <1>2

\* For every limit and any number of pushes and exceptions.
THEOREM LossIsExplained == Spec => LossExplained
<1>1. IInv /\ [Next]_vars
        => [\A n \in Pending \ Pending' :
              n = done' \/ HandlerThrows \/ (PushMessage /\ n + Capacity = sent')]_vars
  <2> SUFFICES ASSUME IInv, Next, NEW n \in Pending \ Pending'
               PROVE  n = done' \/ HandlerThrows \/ (PushMessage /\ n + Capacity = sent')
    OBVIOUS
  <2> QED
    BY PushLosesOldest, OthersLoseNothing DEF Next, Consume
<1> QED
  BY <1>1, Invariance, PTL DEF Spec, LossExplained

\* While no handler throws and no push finds the queue full, the queue is a
\* perfect channel: what waits is exactly what was pushed after the message
\* handled last, so that no message is skipped (MessageQueue.h:40-48, 144-158).
NothingSkipped == Pending = (done + 1)..sent

PushOverflows == PushMessage /\ MaxSize < Len(queue)

\* Only an exception or an overflow costs a message.
THEOREM QueueIsPerfectBelowItsLimit ==
    Spec /\ [][~HandlerThrows /\ ~PushOverflows]_vars => []NothingSkipped
<1>1. Init => NothingSkipped
  BY DEF Init, NothingSkipped, Pending, InSeq
<1>2. IInv /\ NothingSkipped /\ [Next]_vars /\ [~HandlerThrows /\ ~PushOverflows]_vars
        => NothingSkipped'
  <2> SUFFICES ASSUME IInv, NothingSkipped, Next, ~HandlerThrows, ~PushOverflows
               PROVE  NothingSkipped'
    BY DEF vars, NothingSkipped, Pending, InSeq
  <2>1. sent \in Nat /\ done \in Nat /\ done <= sent
    BY MaxSentAssumption DEF IInv, TypeOK
  <2>2. CASE PushMessage
    <3>1. Pending \subseteq Pending'
      BY <2>2, PushLosesOldest DEF PushOverflows
    <3>2. sent' = sent + 1 /\ done' = done /\ Pending' \subseteq Pending \cup {sent + 1}
      BY <2>2, InSeqPush, MaxSentAssumption DEF PushMessage, Pending, IInv, TypeOK
    <3>3. sent + 1 \in Pending'
      <4>1. /\ queue' \in Seq(Nat) /\ queue'[Len(queue')] = sent + 1 /\ Len(queue') # 0
        BY <2>1, <2>2, PushFacts, MaxSizeAssumption DEF PushMessage, IInv, TypeOK
      <4> QED
        BY <4>1 DEF Pending, InSeq
    <3>4. Pending' = ((done + 1)..sent) \cup {sent + 1}
      BY <3>1, <3>2, <3>3 DEF NothingSkipped
    <3> QED
      BY <2>1, <3>2, <3>4 DEF NothingSkipped
  <2>3. CASE TakeAll
    BY <2>3, OthersLoseNothing DEF TakeAll, NothingSkipped
  <2>4. CASE Handle
    <3>1. /\ batch \in Seq(Nat) /\ queue \in Seq(Nat) /\ 1 \in DOMAIN batch
          /\ done' = batch[1] /\ sent' = sent /\ batch[1] \in Nat
      BY <2>4, MaxSentAssumption DEF Handle, IInv, TypeOK
    <3>2. \A i \in DOMAIN batch : batch[1] <= batch[i]
      <4> SUFFICES ASSUME NEW i \in DOMAIN batch PROVE batch[1] <= batch[i]
        OBVIOUS
      <4>1. i = 1 \/ 1 < i
        BY <3>1
      <4>2. 1 < i => batch[1] < batch[i]
        BY <3>1 DEF IInv, BatchOrdered
      <4>3. batch[1] \in Nat /\ batch[i] \in Nat
        BY <3>1
      <4> QED
        BY <4>1, <4>2, <4>3
    <3>3. \A i \in DOMAIN queue : batch[1] <= queue[i]
      <4>1. batch[1] <= sent - Len(queue) /\ Len(queue) \in Nat
        BY <3>1 DEF IInv, BatchOrdered
      <4>2. \A i \in DOMAIN queue : i \in 1..Len(queue) /\ queue[i] = sent - Len(queue) + i
        BY <3>1 DEF IInv, QueueIsNewest
      <4> QED
        BY <2>1, <3>1, <4>1, <4>2
    <3>4. done' \in Pending /\ \A n \in Pending : done' <= n
      BY <3>1, <3>2, <3>3 DEF Pending, InSeq
    <3>5. done' = done + 1
      BY <2>1, <3>4 DEF NothingSkipped
    <3>6. Pending' = Pending \ {done'}
      BY <2>4, OthersLoseNothing
    <3> QED
      BY <2>1, <3>1, <3>5, <3>6 DEF NothingSkipped
  <2> QED
    BY <2>2, <2>3, <2>4 DEF Next, Consume
<1> QED
  BY <1>1, <1>2, Invariance, PTL DEF Spec

----------------------------------------------------------------------------
(* How long a message waits.                                               *)

\* What is to happen before the message n is handled: the older ones that wait
\* with it, itself, and the exchange of the queues.
ToCome(n) ==
    {<<"handle", m>> : m \in {k \in Pending : k <= n}}
    \cup {<<"exchange", m>> : m \in {n} \cap InSeq(queue)}

\* No message waits for one that came after it: each step of the owner, be it
\* an exception, takes from what is to come before a message that still waits,
\* and no push adds to it (MessageQueue.h:40-48, 144-158).
WaitsShorten ==
    [][\A n \in Pending \cap Pending' :
          /\ ToCome(n)' \subseteq ToCome(n)
          /\ Consume => ToCome(n)' # ToCome(n)]_vars

\* The older message that leaves shortens the wait.
LEMMA OlderLeaves ==
    ASSUME NEW n, Pending' \subseteq Pending, UNCHANGED queue,
           NEW m \in Pending, m \notin Pending', m <= n
    PROVE  ToCome(n)' \subseteq ToCome(n) /\ ToCome(n)' # ToCome(n)
<1>1. <<"handle", m>> \in ToCome(n)
  BY DEF ToCome
<1>2. <<"handle", m>> \notin ToCome(n)'
  BY DEF ToCome
<1>3. ToCome(n)' \subseteq ToCome(n)
  BY DEF ToCome
<1> QED
  BY <1>1, <1>2, <1>3

\* What is in the batch is older than what is in the queue, and the head of
\* the batch is the oldest of all.
LEMMA BatchIsOlder ==
    ASSUME IInv, batch # <<>>
    PROVE  /\ batch[1] \in InSeq(batch) /\ batch[1] \in Pending
           /\ batch[1] \in Nat /\ \A n \in Pending : n \in Nat /\ batch[1] <= n
           /\ InSeq(batch) \cap InSeq(queue) = {}
<1>1. /\ batch \in Seq(Nat) /\ queue \in Seq(Nat) /\ 1 \in DOMAIN batch /\ sent \in Nat
      /\ Len(queue) \in Nat
  BY MaxSentAssumption DEF IInv, TypeOK
<1>2. \A i \in DOMAIN batch : /\ batch[i] \in Nat /\ batch[i] <= sent - Len(queue)
                              /\ batch[1] <= batch[i]
  <2> TAKE i \in DOMAIN batch
  <2>1. batch[i] \in Nat /\ batch[1] \in Nat /\ batch[i] <= sent - Len(queue)
    BY <1>1 DEF IInv, BatchOrdered
  <2>2. i = 1 \/ 1 < i
    BY <1>1
  <2>3. 1 < i => batch[1] < batch[i]
    BY <1>1 DEF IInv, BatchOrdered
  <2> QED
    BY <2>1, <2>2, <2>3
<1>3. \A i \in DOMAIN queue : queue[i] \in Nat /\ queue[i] > sent - Len(queue)
  <2> TAKE i \in DOMAIN queue
  <2>1. i \in 1..Len(queue) /\ queue[i] \in Nat /\ queue[i] = sent - Len(queue) + i
    BY <1>1 DEF IInv, QueueIsNewest
  <2> QED
    BY <1>1, <2>1
<1>4. \A m \in InSeq(batch) : m \in Nat /\ m <= sent - Len(queue) /\ batch[1] <= m
  BY <1>2 DEF InSeq
<1>5. \A m \in InSeq(queue) : m \in Nat /\ m > sent - Len(queue)
  BY <1>3 DEF InSeq
<1>6. batch[1] \in InSeq(batch)
  BY <1>1 DEF InSeq
<1> QED
  BY <1>1, <1>4, <1>5, <1>6 DEF Pending

\* For every size of the queue and any number of pushes.
THEOREM WaitsAreShort == Spec => WaitsShorten
<1>1. IInv /\ [Next]_vars
        => [\A n \in Pending \cap Pending' :
              /\ ToCome(n)' \subseteq ToCome(n)
              /\ Consume => ToCome(n)' # ToCome(n)]_vars
  <2> SUFFICES ASSUME IInv, Next, NEW n \in Pending \cap Pending'
               PROVE  /\ ToCome(n)' \subseteq ToCome(n)
                      /\ Consume => ToCome(n)' # ToCome(n)
    OBVIOUS
  <2>1. CASE PushMessage
    <3>1. /\ queue \in Seq(Nat) /\ sent \in Nat /\ sent + 1 \in Nat
          /\ queue' = Push(queue, sent + 1) /\ batch' = batch
      BY <2>1, MaxSentAssumption DEF PushMessage, IInv, TypeOK
    <3>2. InSeq(queue') \subseteq InSeq(queue) \cup {sent + 1}
      BY <3>1, InSeqPush
    <3>3. \A m \in Pending : m \in Nat /\ m <= sent
      <4>1. \A m \in InSeq(queue) : m \in Nat /\ m <= sent
        <5>1. \A i \in DOMAIN queue : i \in 1..Len(queue) /\ queue[i] \in Nat
                                      /\ queue[i] = sent - Len(queue) + i
          BY <3>1 DEF IInv, QueueIsNewest
        <5> QED
          BY <3>1, <5>1 DEF InSeq
      <4>2. \A m \in InSeq(batch) : m \in Nat /\ m <= sent
        <5>1. \A i \in DOMAIN batch : batch[i] \in Nat /\ batch[i] <= sent - Len(queue)
          BY DEF IInv, TypeOK, BatchOrdered
        <5> QED
          BY <3>1, <5>1 DEF InSeq
      <4> QED
        BY <4>1, <4>2 DEF Pending
    <3>4. n \in Nat /\ n <= sent
      BY <3>3
    <3>5. {k \in Pending' : k <= n} \subseteq {k \in Pending : k <= n}
      <4>1. ~(sent + 1 <= n)
        BY <3>1, <3>4
      <4> QED
        BY <3>1, <3>2, <4>1 DEF Pending
    <3>6. {n} \cap InSeq(queue') \subseteq {n} \cap InSeq(queue)
      BY <3>1, <3>2, <3>4
    <3>7. ToCome(n)' \subseteq ToCome(n)
      BY <3>5, <3>6 DEF ToCome
    <3>8. ~Consume
      BY <2>1, <3>1 DEF PushMessage, Consume, TakeAll, Handle, HandlerThrows, IInv, TypeOK
    <3> QED
      BY <3>7, <3>8
  <2>2. CASE TakeAll
    <3>1. Pending' = Pending /\ InSeq(queue') = {} /\ InSeq(batch) = {}
      BY <2>2, OthersLoseNothing DEF TakeAll, InSeq
    <3>2. <<"exchange", n>> \in ToCome(n) /\ <<"exchange", n>> \notin ToCome(n)'
      BY <3>1 DEF ToCome, Pending
    <3> QED
      BY <3>1, <3>2 DEF ToCome
  <2>3. CASE Handle
    <3>1. batch # <<>> /\ queue' = queue /\ done' = batch[1]
      BY <2>3 DEF Handle, IInv, TypeOK
    <3>2. Pending' = Pending \ {batch[1]}
      BY <2>3, <3>1, OthersLoseNothing
    <3> QED
      BY <3>1, <3>2, BatchIsOlder, OlderLeaves
  <2>4. CASE HandlerThrows
    <3>1. batch # <<>> /\ queue' = queue /\ Pending' = InSeq(queue)
      BY <2>4 DEF HandlerThrows, Pending, InSeq
    <3> QED
      BY <3>1, BatchIsOlder, OlderLeaves DEF Pending
  <2> QED
    BY <2>1, <2>2, <2>3, <2>4 DEF Next, Consume
<1> QED
  BY <1>1, Invariance, PTL DEF Spec, WaitsShorten

=============================================================================
