---------------------------- MODULE MessageQueue ----------------------------
(***************************************************************************)
(* One MessageSyncQueue with its users: the threads that push messages     *)
(* under the queue's mutex, and the owning thread that runs ProcessQueue   *)
(* on each pass of its loop: it moves the whole queue to a local one under *)
(* the mutex, then handles the local messages one by one without the       *)
(* mutex.  A handler that throws unwinds ProcessQueue, and the local queue *)
(* with it.  A message is the number of its push.                          *)
(***************************************************************************)
EXTENDS MessageQueueOps, FiniteSets

CONSTANT MaxSent    \* bound on the pushes of a behaviour

ASSUME MaxSentAssumption == MaxSent \in Nat

VARIABLES
    queue,      \* m_MsgQueue of the shared queue
    batch,      \* ProcessedQueue, the local queue of the running ProcessQueue
    sent,       \* pushes so far
    done        \* the last message whose handler has returned

vars == <<queue, batch, sent, done>>

Messages == 1..MaxSent

InSeq(s) == {s[i] : i \in DOMAIN s}

TypeOK ==
    /\ queue \in Seq(Nat)
    /\ batch \in Seq(Nat)
    /\ sent \in 0..MaxSent
    /\ done \in 0..sent

Init ==
    /\ queue = <<>>
    /\ batch = <<>>
    /\ sent = 0
    /\ done = 0

----------------------------------------------------------------------------
\* MessageQueueAutoEnter::Push by any thread.
PushMessage ==
    /\ sent < MaxSent
    /\ sent' = sent + 1
    /\ queue' = Push(queue, sent + 1)
    /\ UNCHANGED <<batch, done>>

\* Mistake: the messages are handed over newest first, as from a stack.
TakeAllReversed ==
    /\ batch = <<>>
    /\ queue # <<>>
    /\ batch' = [i \in DOMAIN queue |-> queue[Len(queue) + 1 - i]]
    /\ queue' = <<>>
    /\ UNCHANGED <<sent, done>>

\* Mistake: the copy is taken but the shared queue is not cleared.
TakeAllKeeps ==
    /\ batch = <<>>
    /\ queue # <<>>
    /\ batch' = queue
    /\ UNCHANGED <<queue, sent, done>>

\* The locked block of ProcessQueue: MoveTo a fresh local queue.
TakeAll ==
    /\ batch = <<>>
    /\ queue # <<>>
    /\ batch' = queue
    /\ queue' = <<>>
    /\ UNCHANGED <<sent, done>>

\* Mistake: what is noted as done is the message after the one handled.
HandleAhead ==
    /\ batch # <<>>
    /\ done' = Head(batch) + 1
    /\ batch' = Tail(batch)
    /\ UNCHANGED <<queue, sent>>

\* One turn of the unlocked loop: Front(true), then the handler.
Handle ==
    /\ batch # <<>>
    /\ done' = Head(batch)
    /\ batch' = Tail(batch)
    /\ UNCHANGED <<queue, sent>>

\* The handler throws: the message and the rest of the local queue are gone.
HandlerThrows ==
    /\ batch # <<>>
    /\ batch' = <<>>
    /\ UNCHANGED <<queue, sent, done>>

Consume == TakeAll \/ Handle \/ HandlerThrows

Next == PushMessage \/ Consume

\* The owner's thread loop calls ProcessQueue again and again.
Spec == Init /\ [][Next]_vars /\ WF_vars(Consume)

----------------------------------------------------------------------------
\* Overload drops the oldest messages and nothing else: the shared queue is at
\* every moment an unbroken run of the most recent pushes, so a result can be
\* lost but never replaced by an older one (MessageQueue.h:42-47).
QueueIsNewest ==
    \A i \in DOMAIN queue : queue[i] = sent - Len(queue) + i

\* The messages that are neither handled nor lost.
Pending == InSeq(batch) \cup InSeq(queue)

\* A message leaves the queue and its batch in three ways only: through its own
\* handler, when a handler throws, or when a push finds the queue full, and
\* then it is the one that exactly Capacity newer messages have followed.  A
\* result is never dropped while the queue has room, and never by the exchange
\* of the queues (MessageQueue.h:40-48, 144-158).
LossExplained ==
    [][\A n \in Pending \ Pending' :
          n = done' \/ HandlerThrows \/ (PushMessage /\ n + Capacity = sent')]_vars

\* Taking a batch and dropping on overload never reorder or repeat messages:
\* the queue and its batch together behave as a lossy first-in first-out
\* channel from the pushing threads to the handlers (MessageQueue.h:145-158).
Fifo == INSTANCE LossyFifo WITH pending <- Pending, delivered <- done
RefinesFifo == Fifo!FifoSpec

\* No message stays in the queue for ever: the owner handles it, loses it to
\* an exception in its batch, or overload pushes it out.
Settled == \A n \in Messages : n \in Pending ~> n \notin Pending
=============================================================================
