-------------------------- MODULE MessageQueueOps --------------------------
(***************************************************************************)
(* The container of MessageQueue.h as operators on sequences: the queue    *)
(* that every thread of the server owns and that any thread may push to.   *)
(***************************************************************************)
EXTENDS Naturals, Sequences

CONSTANT MaxSize    \* m_nMaxSize, 100 unless the constructor is told otherwise

ASSUME MaxSizeAssumption == MaxSize \in Nat

\* Mistaken variants of Push: overload empties the queue, and room is made at
\* the wrong end.
PushStartsOver(q, m) == Append(IF MaxSize < Len(q) THEN <<>> ELSE q, m)
PushDropsNewest(q, m) ==
    Append(IF MaxSize < Len(q) THEN SubSeq(q, 1, Len(q) - 1) ELSE q, m)

\* MessageQueue::Push.  The head is dropped when the queue is already LONGER
\* than m_nMaxSize, so the container holds up to MaxSize + 1 messages.
Push(q, m) == Append(IF MaxSize < Len(q) THEN Tail(q) ELSE q, m)

\* The number of messages a queue filled by Push alone can reach.
Capacity == MaxSize + 1
=============================================================================
