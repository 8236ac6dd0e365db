--------------------------- MODULE ActivityRecord ---------------------------
(***************************************************************************)
(* ActivityRecord.cpp: the periods of motion at each camera that the       *)
(* server writes to the database.  A period is open from the first answer  *)
(* of the hall with rectangles of the camera until none came for longer    *)
(* than the timeout, or until it has become too long; then it is written,  *)
(* and forgotten even if the database refused it.                          *)
(*                                                                         *)
(* Time is in whole seconds, as time() counts.  The record is asked on     *)
(* each answer of the hall, with rectangles or without; CallGap bounds the *)
(* time between two answers, which the code leaves to the hall.            *)
(***************************************************************************)
EXTENDS Naturals

CONSTANTS
    Cameras,
    Timeout,    \* c_nTimeOutInSecond, 5
    MaxPeriod,  \* c_MaxActivityPeriodInSec, 300
    CallGap,    \* bound on the time between two calls of ProcessFrames
    MaxTime     \* bound on the time of a behaviour

ASSUME TimesAssumption ==
    Timeout \in Nat /\ MaxPeriod \in Nat /\ CallGap \in Nat \ {0} /\ MaxTime \in Nat

VARIABLES
    now,            \* time(0)
    lastCall,       \* the end of the last call of ProcessFrames
    active,         \* the keys of m_CameraActivity
    start, end,     \* its values, 0 for the other cameras
    written,        \* the periods given to AddFrames
    seen            \* the camera and the time of every rectangle reported

vars == <<now, lastCall, active, start, end, written, seen>>

Times == 0..MaxTime
Periods == [camera : Cameras, first : Times, last : Times]
Period(c, s, e) == [camera |-> c, first |-> s, last |-> e]

OpenPeriods == {Period(c, start[c], end[c]) : c \in active}

TypeOK ==
    /\ now \in Times /\ lastCall \in Times
    /\ active \subseteq Cameras
    /\ start \in [Cameras -> Times] /\ end \in [Cameras -> Times]
    /\ written \subseteq Periods
    /\ seen \subseteq Cameras \X Times

Init ==
    /\ now = 0 /\ lastCall = 0
    /\ active = {}
    /\ start = [c \in Cameras |-> 0] /\ end = [c \in Cameras |-> 0]
    /\ written = {}
    /\ seen = {}

----------------------------------------------------------------------------
\* Mistake: the end holds the time at which the period would expire.
MarkedExpiry(S) == [c \in Cameras |-> IF c \in S THEN now + Timeout ELSE end[c]]

\* ProcessFramesForCamera for the cameras in S: their periods after the marks.
MarkedStart(S) == [c \in Cameras |-> IF c \in S \ active THEN now ELSE start[c]]
MarkedEnd(S) == [c \in Cameras |-> IF c \in S THEN now ELSE end[c]]

\* Mistake: a period in which the camera moves on is never too long.
IsDueNoLimit(t, s, e) == t - e > Timeout

\* Mistake: a period ends only when it is too long.
IsDueNoTimeout(t, s, e) == e - s > MaxPeriod

\* The test in DumpActivityPeriod, at time t, of a period from s to e.
IsDue(t, s, e) == t - e > Timeout \/ e - s > MaxPeriod

\* Mistake: what was written stays in the map.
CloseKeeps(closed, S, s, e) ==
    /\ written' = written \cup {Period(c, s[c], e[c]) : c \in closed}
    /\ active' = active \cup S
    /\ start' = s
    /\ end' = e

\* DumpActivityPeriodForCamera for each of the periods closed, then the erase.
\* An exception of the database is swallowed and makes no difference here.
Close(closed, S, s, e) ==
    /\ written' = written \cup {Period(c, s[c], e[c]) : c \in closed}
    /\ active' = (active \cup S) \ closed
    /\ start' = [c \in Cameras |-> IF c \in closed THEN 0 ELSE s[c]]
    /\ end' = [c \in Cameras |-> IF c \in closed THEN 0 ELSE e[c]]

\* ProcessFrames with rectangles of the cameras in S.  A second may pass
\* between the marks and the dump, which ask for the time separately.
ProcessFrames(S) ==
    /\ now' \in {now, now + 1} \cap Times
    /\ LET s == MarkedStart(S)
           e == MarkedEnd(S)
       IN  Close({c \in active \cup S : IsDue(now', s[c], e[c])}, S, s, e)
    /\ seen' = seen \cup (S \X {now})
    /\ lastCall' = now'

\* Mistake: the record goes away with its open periods.
DestroyForgets ==
    /\ active' = {}
    /\ start' = [c \in Cameras |-> 0] /\ end' = [c \in Cameras |-> 0]
    /\ UNCHANGED <<now, lastCall, written, seen>>

\* ~ActivityRecord dumps whatever is open.  A new record on the same database
\* may follow, after another launch.
Destroy ==
    /\ Close(active, {}, start, end)
    /\ UNCHANGED <<now, lastCall, seen>>

TimePasses ==
    /\ now < MaxTime
    /\ now < lastCall + CallGap
    /\ now' = now + 1
    /\ UNCHANGED <<lastCall, active, start, end, written, seen>>

Next ==
    \/ \E S \in SUBSET Cameras : ProcessFrames(S)
    \/ Destroy
    \/ TimePasses

Spec == Init /\ [][Next]_vars

----------------------------------------------------------------------------
AllPeriods == written \cup OpenPeriods

\* No moment of a camera's activity is written twice: two periods of a camera
\* share at most the second in which one ends and the next begins, which
\* happens when a period is cut for its length (ActivityRecord.cpp:51-73).
PeriodsDisjoint ==
    \A p, q \in AllPeriods :
        p.camera = q.camera /\ p # q => p.last <= q.first \/ q.last <= p.first

\* No activity is forgotten: each second in which the hall reported a camera
\* lies in a period that is open or was given to the database, also when the
\* record is destroyed (ActivityRecord.cpp:27-43, 75-87).
EverySightingKept ==
    \A x \in seen : \E p \in AllPeriods :
        p.camera = x[1] /\ p.first <= x[2] /\ x[2] <= p.last

\* A period does not claim activity long after the last rectangle.  A new one
\* prolongs the period before the timeout is tested, so that a silence in the
\* middle of a period may exceed the timeout by the time between two calls,
\* and by no more (ActivityRecord.cpp:39-42, 59-61, 85).
NoLongSilence ==
    \A p \in AllPeriods : \A t \in p.first .. p.last :
        \E u \in 0..t : <<p.camera, u>> \in seen /\ (t - u < Timeout + CallGap)

\* What a crash would lose is bounded: however long a camera's activity lasts,
\* the part that is not yet in the database is at most MaxPeriod long
\* (ActivityRecord.cpp:45-49).
OpenPeriodBounded == \A c \in active : end[c] - start[c] <= MaxPeriod
=============================================================================
