----------------------------- MODULE LossyFifo -----------------------------
(***************************************************************************)
(* What the server promises about a stream of numbered items that travels  *)
(* from one thread to another: an item may be lost on the way, but what    *)
(* does arrive was sent, arrives once, and arrives in the order of         *)
(* sending.  The queue of one thread implements it, and so does the whole  *)
(* path of a camera's frames to the hall.                                  *)
(***************************************************************************)
EXTENDS Naturals

VARIABLES
    sent,       \* the number of items sent so far; item n is the n-th
    pending,    \* the items on their way
    delivered   \* the last item delivered, 0 when there is none

fifoVars == <<sent, pending, delivered>>

FifoTypeOK ==
    /\ sent \in Nat
    /\ pending \subseteq 1..sent
    /\ delivered \in 0..sent

FifoInit ==
    /\ sent = 0
    /\ pending = {}
    /\ delivered = 0

\* Making room for the new item may cost some of those on their way.
Send ==
    /\ sent' = sent + 1
    /\ pending' \subseteq pending \cup {sent + 1}
    /\ UNCHANGED delivered

\* Whatever is delivered leaves only later items behind it.
Deliver ==
    \E n \in pending :
        /\ n > delivered
        /\ delivered' = n
        /\ pending' \subseteq {m \in pending : m > n}
        /\ UNCHANGED sent

Lose ==
    /\ pending' \subseteq pending
    /\ UNCHANGED <<sent, delivered>>

FifoNext == Send \/ Deliver \/ Lose

FifoSpec == FifoInit /\ [][FifoNext]_fifoVars
=============================================================================
