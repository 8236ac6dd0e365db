------------------------ MODULE ActivityRecordProofs ------------------------
(***************************************************************************)
(* Proofs about ActivityRecord for every set of cameras and every timeout, *)
(* limit of a period and time between two calls.                           *)
(***************************************************************************)
EXTENDS ActivityRecord, TLAPS

----------------------------------------------------------------------------
(* The inductive invariant.                                                *)

\* Calls come at most CallGap apart.
CallsRecent == lastCall <= now /\ now <= lastCall + CallGap

\* An open period lies in the past, ends in a second in which its camera was
\* reported, and was neither silent nor long enough to be closed at the last
\* call.
OpenSound ==
    \A c \in active :
        /\ start[c] <= end[c] /\ end[c] <= now
        /\ <<c, end[c]>> \in seen
        /\ lastCall <= end[c] + Timeout
        /\ end[c] <= start[c] + MaxPeriod

\* What was written lies in the past, before what is open.
WrittenFirst ==
    \A p \in written :
        /\ p.first <= p.last /\ p.last <= now
        /\ p.camera \in active => p.last <= start[p.camera]

WrittenDisjoint ==
    \A p, q \in written :
        p.camera = q.camera /\ p # q => p.last <= q.first \/ q.last <= p.first

\* A moment of a period of camera c is close to a second before it in which c
\* was reported.
Recent(c, t) ==
    \E u \in 0..t : <<c, u>> \in seen /\ (t - u < Timeout + CallGap)

RecordInv ==
    /\ TypeOK /\ CallsRecent /\ OpenSound /\ WrittenFirst /\ WrittenDisjoint
    /\ EverySightingKept /\ NoLongSilence

----------------------------------------------------------------------------
(* A period of AllPeriods is written, or the open one of its camera.       *)

LEMMA PeriodKinds ==
    /\ \A p \in AllPeriods :
          \/ p \in written
          \/ \E c \in active : /\ p.camera = c /\ p.first = start[c] /\ p.last = end[c]
                               /\ p = Period(c, start[c], end[c])
    /\ written \subseteq AllPeriods
    /\ \A c \in active : Period(c, start[c], end[c]) \in AllPeriods
  BY DEF AllPeriods, OpenPeriods, Period

LEMMA PeriodFields ==
    \A c, s, e : /\ Period(c, s, e).camera = c
                 /\ Period(c, s, e).first = s
                 /\ Period(c, s, e).last = e
  BY DEF Period

LEMMA InitRecord == Init => RecordInv
<1> SUFFICES ASSUME Init PROVE RecordInv
  OBVIOUS
<1>1. TypeOK /\ CallsRecent
  BY TimesAssumption DEF Init, TypeOK, CallsRecent, Times
<1>2. AllPeriods = {}
  BY DEF Init, AllPeriods, OpenPeriods
<1> QED
  BY <1>1, <1>2 DEF Init, RecordInv, OpenSound, WrittenFirst, WrittenDisjoint,
     EverySightingKept, NoLongSilence

----------------------------------------------------------------------------
(* ProcessFrames.  Moved(S) is what the marks make of the record before    *)
(* the dump closes anything; the periods after the step are those written  *)
(* before and the marked ones, of which the dump moves some over.          *)

Marked(S) == {Period(c, MarkedStart(S)[c], MarkedEnd(S)[c]) : c \in active \cup S}

LEMMA MarkFields ==
    ASSUME TypeOK, NEW S \in SUBSET Cameras, NEW c \in active \cup S
    PROVE  /\ c \in Cameras
           /\ MarkedStart(S)[c] = IF c \in S \ active THEN now ELSE start[c]
           /\ MarkedEnd(S)[c] = IF c \in S THEN now ELSE end[c]
           /\ MarkedStart(S)[c] \in Nat /\ MarkedEnd(S)[c] \in Nat
           /\ MarkedStart(S)[c] \in Times /\ MarkedEnd(S)[c] \in Times
  BY DEF TypeOK, MarkedStart, MarkedEnd, Times

\* What a mark leaves true of each open period.
LEMMA MarkSound ==
    ASSUME RecordInv, NEW S \in SUBSET Cameras, NEW c \in active \cup S,
           seen' = seen \cup (S \X {now})
    PROVE  /\ MarkedStart(S)[c] <= MarkedEnd(S)[c] /\ MarkedEnd(S)[c] <= now
           /\ <<c, MarkedEnd(S)[c]>> \in seen'
           /\ \A p \in written : p.camera = c => p.last <= MarkedStart(S)[c]
           /\ \A t \in MarkedStart(S)[c] .. MarkedEnd(S)[c] : Recent(c, t)'
<1> DEFINE s == MarkedStart(S)[c]
           e == MarkedEnd(S)[c]
<1>1. TypeOK /\ now \in Nat /\ lastCall \in Nat
  BY DEF RecordInv, TypeOK, Times
<1>2. /\ c \in Cameras /\ s = IF c \in S \ active THEN now ELSE start[c]
      /\ e = IF c \in S THEN now ELSE end[c]
      /\ s \in Nat /\ e \in Nat
  BY <1>1, MarkFields
<1>3. c \in active => /\ start[c] <= end[c] /\ end[c] <= now
                      /\ <<c, end[c]>> \in seen
                      /\ lastCall <= end[c] + Timeout
                      /\ start[c] \in Nat /\ end[c] \in Nat
  BY <1>1, <1>2 DEF RecordInv, OpenSound, TypeOK, Times
<1>4. s <= e /\ e <= now
  BY <1>1, <1>2, <1>3
<1>5. <<c, e>> \in seen'
  BY <1>2, <1>3
<1>6. \A p \in written : p.camera = c => p.last <= s
  BY <1>1, <1>2 DEF RecordInv, WrittenFirst
<1>7. ASSUME NEW t \in s..e PROVE Recent(c, t)'
  <2>1. t \in Nat /\ s <= t /\ t <= e
    BY <1>2, <1>7
  <2>2. CASE c \in active /\ t <= end[c]
    <3>1. t \in start[c] .. end[c]
      BY <1>2, <1>3, <2>1, <2>2
    <3>2. PICK u \in 0..t : <<c, u>> \in seen /\ (t - u < Timeout + CallGap)
      BY <2>2, <3>1, PeriodKinds, PeriodFields DEF RecordInv, NoLongSilence
    <3> QED
      BY <3>2 DEF Recent
  <2>3. CASE c \in active /\ end[c] < t
    <3>1. end[c] \in 0..t /\ (t - end[c] < Timeout + CallGap \/ t = now)
      BY <1>1, <1>2, <1>3, <1>4, <2>1, <2>3, TimesAssumption DEF RecordInv, CallsRecent
    <3>2. t = now => c \in S /\ t \in 0..t /\ t - t < Timeout + CallGap
      BY <1>2, <2>1, <2>3, <1>3, TimesAssumption
    <3> QED
      BY <1>1, <1>3, <2>3, <3>1, <3>2 DEF Recent
  <2>4. CASE c \notin active
    <3>1. c \in S /\ t = now /\ t \in 0..t /\ t - t < Timeout + CallGap
      BY <1>1, <1>2, <2>1, <2>4, TimesAssumption
    <3> QED
      BY <3>1 DEF Recent
  <2> QED
    BY <1>3, <2>1, <2>2, <2>3, <2>4
<1> QED
  BY <1>4, <1>5, <1>6, <1>7

\* The periods after ProcessFrames.
LEMMA ProcessPeriods ==
    ASSUME TypeOK, NEW S \in SUBSET Cameras, ProcessFrames(S)
    PROVE  /\ active' \subseteq active \cup S
           /\ \A c \in active' : /\ start'[c] = MarkedStart(S)[c]
                                 /\ end'[c] = MarkedEnd(S)[c]
                                 /\ ~IsDue(now', start'[c], end'[c])
           /\ written \subseteq written'
           /\ \A p \in written' : p \in written \/ p \in Marked(S)
           /\ \A p \in written' \ written : p.camera \notin active'
           /\ AllPeriods' = written \cup Marked(S)
<1> DEFINE s == MarkedStart(S)
           e == MarkedEnd(S)
           closed == {c \in active \cup S : IsDue(now', s[c], e[c])}
<1>1. /\ written' = written \cup {Period(c, s[c], e[c]) : c \in closed}
      /\ active' = (active \cup S) \ closed
      /\ start' = [c \in Cameras |-> IF c \in closed THEN 0 ELSE s[c]]
      /\ end' = [c \in Cameras |-> IF c \in closed THEN 0 ELSE e[c]]
  BY DEF ProcessFrames, Close
<1>2. \A c \in active' : start'[c] = s[c] /\ end'[c] = e[c] /\ c \notin closed
  <2> HIDE DEF s, e, closed
  <2> QED
    BY <1>1 DEF TypeOK
<1>3. OpenPeriods' = {Period(c, s[c], e[c]) : c \in (active \cup S) \ closed}
  <2> HIDE DEF s, e, closed
  <2> QED
    BY <1>1, <1>2 DEF OpenPeriods, Period
<1>4. Marked(S) = {Period(c, s[c], e[c]) : c \in active \cup S}
  BY DEF Marked
<1>5. closed \subseteq active \cup S
  OBVIOUS
<1>6. AllPeriods' = written \cup Marked(S)
  <2> HIDE DEF s, e, closed
  <2> QED
    BY <1>1, <1>3, <1>4, <1>5 DEF AllPeriods
<1>7. \A c \in active' : ~IsDue(now', start'[c], end'[c])
  BY <1>1, <1>2
<1>8. \A p \in written' \ written : p.camera \notin active'
  <2> HIDE DEF s, e, closed
  <2> QED
    BY <1>1, PeriodFields
<1>9. \A p \in written' : p \in written \/ p \in Marked(S)
  <2> HIDE DEF s, e, closed
  <2> QED
    BY <1>1, <1>4, <1>5
<1>10. active' \subseteq active \cup S /\ written \subseteq written'
  BY <1>1
<1> QED
  BY <1>2, <1>6, <1>7, <1>8, <1>9, <1>10

\* Two periods among the written and the marked ones do not overlap.
LEMMA MarkedDisjoint ==
    ASSUME RecordInv, NEW S \in SUBSET Cameras, seen' = seen \cup (S \X {now}),
           NEW p \in written \cup Marked(S), NEW q \in written \cup Marked(S),
           p.camera = q.camera, p # q
    PROVE  p.last <= q.first \/ q.last <= p.first
<1>1. \A r \in Marked(S) : \E c \in active \cup S :
        r = Period(c, MarkedStart(S)[c], MarkedEnd(S)[c])
  BY DEF Marked
<1>2. \A r \in Marked(S) : /\ r.camera \in active \cup S
                           /\ r.first = MarkedStart(S)[r.camera]
                           /\ r = Period(r.camera, r.first, MarkedEnd(S)[r.camera])
  BY <1>1, PeriodFields
<1>3. \A x \in written, r \in Marked(S) : x.camera = r.camera => x.last <= r.first
  BY <1>2, MarkSound
<1>4. CASE p \in written /\ q \in written
  BY <1>4 DEF RecordInv, WrittenDisjoint
<1>5. CASE p \in Marked(S) /\ q \in Marked(S)
  BY <1>2, <1>5
<1> QED
  BY <1>3, <1>4, <1>5

LEMMA ProcessKeepsRecord ==
    ASSUME RecordInv, NEW S \in SUBSET Cameras, ProcessFrames(S)
    PROVE  RecordInv'
<1> DEFINE s == MarkedStart(S)
           e == MarkedEnd(S)
<1>1. /\ now' \in {now, now + 1} \cap Times /\ lastCall' = now'
      /\ seen' = seen \cup (S \X {now})
  BY DEF ProcessFrames
<1>2. /\ TypeOK /\ now \in Nat /\ now' \in Nat /\ now <= now' /\ lastCall \in Nat
      /\ Timeout \in Nat /\ MaxPeriod \in Nat /\ CallGap \in Nat /\ 0 < CallGap
  BY <1>1, TimesAssumption DEF RecordInv, TypeOK, Times
<1>3. \A c \in active \cup S :
        /\ c \in Cameras /\ s[c] \in Times /\ e[c] \in Times
        /\ s[c] \in Nat /\ e[c] \in Nat /\ s[c] <= e[c] /\ e[c] <= now
        /\ <<c, e[c]>> \in seen'
        /\ \A p \in written : p.camera = c => p.last <= s[c]
        /\ \A t \in s[c] .. e[c] : Recent(c, t)'
  BY <1>1, <1>2, MarkFields, MarkSound
<1>4. /\ active' \subseteq active \cup S
      /\ \A c \in active' : /\ start'[c] = s[c] /\ end'[c] = e[c]
                            /\ ~IsDue(now', start'[c], end'[c])
      /\ written \subseteq written'
      /\ \A p \in written' : p \in written \/ p \in Marked(S)
      /\ \A p \in written' \ written : p.camera \notin active'
      /\ AllPeriods' = written \cup Marked(S)
  BY <1>2, ProcessPeriods
<1>5. \A p \in Marked(S) : \E c \in active \cup S :
        /\ p = Period(c, s[c], e[c])
        /\ p.camera = c /\ p.first = s[c] /\ p.last = e[c]
  BY PeriodFields DEF Marked
<1>6. \A c \in active \cup S : Period(c, s[c], e[c]) \in AllPeriods'
  BY <1>4 DEF Marked
<1> HIDE DEF s, e
<1>7. TypeOK'
  <2>1. written' \subseteq Periods
    <3>1. \A c \in active \cup S : Period(c, s[c], e[c]) \in Periods
      BY <1>3 DEF Periods, Period
    <3> QED
      BY <1>2, <1>4, <1>5, <3>1 DEF TypeOK
  <2>2. seen' \subseteq Cameras \X Times
    BY <1>1, <1>2 DEF TypeOK
  <2>3. start' \in [Cameras -> Times] /\ end' \in [Cameras -> Times]
    <3>1. /\ MarkedStart(S) \in [Cameras -> Times]
          /\ MarkedEnd(S) \in [Cameras -> Times] /\ 0 \in Times
      BY <1>2, TimesAssumption DEF TypeOK, MarkedStart, MarkedEnd, Times
    <3> QED
      BY <3>1 DEF ProcessFrames, Close
  <2>4. now' \in Times /\ lastCall' \in Times /\ active' \subseteq Cameras
    BY <1>1, <1>3, <1>4
  <2> QED
    BY <2>1, <2>2, <2>3, <2>4 DEF TypeOK
<1>8. CallsRecent'
  <2>1. \A n, m \in Nat : n <= n /\ n <= n + m
    OBVIOUS
  <2>2. now' <= now' /\ now' <= now' + CallGap
    BY <1>2, <2>1
  <2> QED
    BY <1>1, <2>2 DEF CallsRecent
<1>9. OpenSound'
  <2> SUFFICES ASSUME NEW c \in active'
               PROVE  /\ start'[c] <= end'[c] /\ end'[c] <= now'
                      /\ <<c, end'[c]>> \in seen'
                      /\ lastCall' <= end'[c] + Timeout
                      /\ end'[c] <= start'[c] + MaxPeriod
    BY DEF OpenSound
  <2> QED
    BY <1>1, <1>2, <1>3, <1>4 DEF IsDue
<1>10. WrittenFirst'
  <2> SUFFICES ASSUME NEW p \in written'
               PROVE  /\ p.first <= p.last /\ p.last <= now'
                      /\ p.camera \in active' => p.last <= start'[p.camera]
    BY DEF WrittenFirst
  <2>1. p.last \in Nat /\ p.first \in Nat
    BY <1>7 DEF TypeOK, Periods, Times
  <2>2. CASE p \in written
    <3>1. p.first <= p.last /\ p.last <= now
      BY <2>2 DEF RecordInv, WrittenFirst
    <3>2. ASSUME p.camera \in active' PROVE p.last <= start'[p.camera]
      BY <1>3, <1>4, <2>2, <3>2
    <3> QED
      BY <1>2, <2>1, <3>1, <3>2
  <2>3. CASE p \notin written
    <3>1. p.camera \notin active'
      BY <1>4, <2>3
    <3>2. p.first <= p.last /\ p.last <= now
      BY <1>3, <1>4, <1>5, <2>3
    <3> QED
      BY <1>2, <2>1, <3>1, <3>2
  <2> QED
    BY <2>2, <2>3
<1>11. WrittenDisjoint'
  BY <1>1, <1>4, MarkedDisjoint DEF WrittenDisjoint
<1>12. EverySightingKept'
  <2> SUFFICES ASSUME NEW x \in seen'
               PROVE  \E p \in AllPeriods' :
                         p.camera = x[1] /\ p.first <= x[2] /\ x[2] <= p.last
    BY DEF EverySightingKept
  <2>1. CASE x \in seen
    <3>1. PICK p \in AllPeriods : p.camera = x[1] /\ p.first <= x[2] /\ x[2] <= p.last
      BY <2>1 DEF RecordInv, EverySightingKept
    <3>2. CASE p \in written
      BY <1>4, <3>1, <3>2
    <3>3. CASE p \notin written
      <4>1. x[1] \in active /\ start[x[1]] <= x[2] /\ x[2] <= end[x[1]]
        BY <3>1, <3>3, PeriodKinds
      <4>2. x[2] \in Nat /\ end[x[1]] \in Nat /\ end[x[1]] <= now
        <5>1. x[1] \in Cameras /\ x[2] \in Times /\ end \in [Cameras -> Times]
          BY <1>2, <2>1 DEF TypeOK
        <5>2. end[x[1]] \in Times /\ Times \subseteq Nat
          BY <5>1 DEF Times
        <5>3. end[x[1]] <= now
          BY <4>1 DEF RecordInv, OpenSound
        <5> QED
          BY <5>1, <5>2, <5>3
      <4>3. s[x[1]] = start[x[1]] /\ (e[x[1]] = now \/ e[x[1]] = end[x[1]])
        BY <1>2, <4>1, MarkFields DEF s, e
      <4>4. x[2] <= e[x[1]] /\ s[x[1]] <= x[2]
        BY <1>2, <4>1, <4>2, <4>3
      <4> QED
        BY <1>6, <4>1, <4>4, PeriodFields
    <3> QED
      BY <3>2, <3>3
  <2>2. CASE x \in S \X {now}
    <3>1. x[1] \in S /\ x[2] = now /\ e[x[1]] = now /\ s[x[1]] <= now
      BY <1>2, <1>3, <2>2, MarkFields DEF s, e
    <3> QED
      BY <1>2, <1>6, <3>1, PeriodFields
  <2> QED
    BY <1>1, <2>1, <2>2
<1>13. NoLongSilence'
  <2> SUFFICES ASSUME NEW p \in AllPeriods', NEW t \in p.first .. p.last
               PROVE  Recent(p.camera, t)'
    BY DEF NoLongSilence, Recent
  <2>1. CASE p \in written
    <3>1. Recent(p.camera, t)
      BY <2>1, PeriodKinds DEF RecordInv, NoLongSilence, Recent
    <3> QED
      BY <1>1, <3>1 DEF Recent
  <2>2. CASE p \in Marked(S)
    BY <1>3, <1>5, <2>2
  <2> QED
    BY <1>4, <2>1, <2>2
<1> QED
  BY <1>7, <1>8, <1>9, <1>10, <1>11, <1>12, <1>13 DEF RecordInv

----------------------------------------------------------------------------
(* The other steps.                                                        *)

\* The destruction writes what is open: the periods stay the same.
LEMMA DestroyKeepsRecord == RecordInv /\ Destroy => RecordInv'
<1> SUFFICES ASSUME RecordInv, Destroy PROVE RecordInv'
  OBVIOUS
<1>1. /\ written' = written \cup OpenPeriods
      /\ active' = {}
      /\ start' = [c \in Cameras |-> IF c \in active THEN 0 ELSE start[c]]
      /\ end' = [c \in Cameras |-> IF c \in active THEN 0 ELSE end[c]]
      /\ UNCHANGED <<now, lastCall, seen>>
  BY DEF Destroy, Close, OpenPeriods
<1>2. TypeOK
  BY DEF RecordInv
<1>3. AllPeriods' = written' /\ written' = AllPeriods
  BY <1>1 DEF AllPeriods, OpenPeriods
<1>4. \A c \in active : /\ c \in Cameras /\ start[c] \in Times /\ end[c] \in Times
                        /\ start[c] <= end[c] /\ end[c] <= now
  BY DEF RecordInv, TypeOK, OpenSound
<1>5. TypeOK'
  <2>1. OpenPeriods \subseteq Periods
    BY <1>4 DEF OpenPeriods, Periods, Period
  <2> QED
    BY <1>1, <1>2, <2>1, TimesAssumption DEF TypeOK, Times
<1>6. WrittenFirst'
  BY <1>1, <1>4, PeriodFields DEF RecordInv, WrittenFirst, OpenPeriods
<1>7. WrittenDisjoint'
  <2> SUFFICES ASSUME NEW p \in AllPeriods, NEW q \in AllPeriods,
                      p.camera = q.camera, p # q
               PROVE  p.last <= q.first \/ q.last <= p.first
    BY <1>3 DEF WrittenDisjoint
  <2> QED
    BY PeriodKinds DEF RecordInv, WrittenFirst, WrittenDisjoint
<1>8. CallsRecent' /\ OpenSound'
  BY <1>1 DEF RecordInv, CallsRecent, OpenSound
<1>9. EverySightingKept' /\ NoLongSilence'
  BY <1>1, <1>3 DEF RecordInv, EverySightingKept, NoLongSilence
<1> QED
  BY <1>5, <1>6, <1>7, <1>8, <1>9 DEF RecordInv

LEMMA TimeKeepsRecord == RecordInv /\ TimePasses => RecordInv'
<1> SUFFICES ASSUME RecordInv, TimePasses PROVE RecordInv'
  OBVIOUS
<1>1. /\ now < MaxTime /\ now < lastCall + CallGap /\ now' = now + 1
      /\ UNCHANGED <<lastCall, active, start, end, written, seen>>
  BY DEF TimePasses
<1>2. TypeOK /\ now \in Nat /\ lastCall \in Nat
  BY DEF RecordInv, TypeOK, Times
<1>3. TypeOK' /\ CallsRecent'
  BY <1>1, <1>2, TimesAssumption DEF RecordInv, CallsRecent, TypeOK, Times
<1>4. OpenSound'
  <2>1. \A c \in active : end[c] \in Nat
    BY <1>2 DEF TypeOK, Times
  <2> QED
    BY <1>1, <1>2, <2>1 DEF RecordInv, OpenSound
<1>5. WrittenFirst'
  <2>1. \A p \in written : p.last \in Nat
    BY <1>2 DEF TypeOK, Periods, Times
  <2> QED
    BY <1>1, <1>2, <2>1 DEF RecordInv, WrittenFirst
<1>6. WrittenDisjoint' /\ AllPeriods' = AllPeriods
  BY <1>1 DEF RecordInv, WrittenDisjoint, AllPeriods, OpenPeriods
<1>7. EverySightingKept' /\ NoLongSilence'
  BY <1>1, <1>6 DEF RecordInv, EverySightingKept, NoLongSilence
<1> QED
  BY <1>3, <1>4, <1>5, <1>6, <1>7 DEF RecordInv

LEMMA IdleKeepsRecord == RecordInv /\ UNCHANGED vars => RecordInv'
  BY DEF vars, RecordInv, TypeOK, CallsRecent, OpenSound, WrittenFirst, WrittenDisjoint,
     EverySightingKept, NoLongSilence, AllPeriods, OpenPeriods

LEMMA StepKeepsRecord == RecordInv /\ [Next]_vars => RecordInv'
  BY ProcessKeepsRecord, DestroyKeepsRecord, TimeKeepsRecord, IdleKeepsRecord DEF Next

LEMMA RecordInvariance == Spec => []RecordInv
  BY InitRecord, StepKeepsRecord, PTL DEF Spec

----------------------------------------------------------------------------
\* Type correctness of the record, for every set of cameras and every bound.
THEOREM RecordTypes == Spec => []TypeOK
<1>1. RecordInv => TypeOK
  BY DEF RecordInv
<1> QED
  BY <1>1, RecordInvariance, PTL

\* The two periods in which one moment of a camera's activity could be are
\* at most the end of one and the start of the next, for every timeout and
\* limit (ActivityRecord.cpp:51-73).
THEOREM PeriodsAreDisjoint == Spec => []PeriodsDisjoint
<1>1. RecordInv => PeriodsDisjoint
  <2> SUFFICES ASSUME RecordInv, NEW p \in AllPeriods, NEW q \in AllPeriods,
                      p.camera = q.camera, p # q
               PROVE  p.last <= q.first \/ q.last <= p.first
    BY DEF PeriodsDisjoint
  <2> QED
    BY PeriodKinds DEF RecordInv, WrittenFirst, WrittenDisjoint
<1> QED
  BY <1>1, RecordInvariance, PTL

\* Every second in which the hall reported a camera is in a period, open or
\* written, also after the destruction (ActivityRecord.cpp:27-43).
THEOREM SightingsAreKept == Spec => []EverySightingKept
<1>1. RecordInv => EverySightingKept
  BY DEF RecordInv
<1> QED
  BY <1>1, RecordInvariance, PTL

\* No period covers a silence longer than the timeout and the time between two
\* calls together (ActivityRecord.cpp:59-61, 85).
THEOREM SilenceIsBounded == Spec => []NoLongSilence
<1>1. RecordInv => NoLongSilence
  BY DEF RecordInv
<1> QED
  BY <1>1, RecordInvariance, PTL

\* The part of an activity that only memory holds is never longer than the
\* limit (ActivityRecord.cpp:45-49).
THEOREM OpenPeriodsAreBounded == Spec => []OpenPeriodBounded
<1>1. RecordInv => OpenPeriodBounded
  <2> SUFFICES ASSUME RecordInv, NEW c \in active PROVE end[c] - start[c] <= MaxPeriod
    BY DEF OpenPeriodBounded
  <2>1. c \in Cameras /\ start \in [Cameras -> Times] /\ end \in [Cameras -> Times]
    BY DEF RecordInv, TypeOK
  <2>2. start[c] \in Nat /\ end[c] \in Nat
    BY <2>1 DEF Times
  <2>3. end[c] <= start[c] + MaxPeriod
    BY DEF RecordInv, OpenSound
  <2> QED
    BY <2>2, <2>3, TimesAssumption
<1> QED
  BY <1>1, RecordInvariance, PTL

----------------------------------------------------------------------------
(* The shape of a period.                                                  *)

\* A period begins and ends with a rectangle: its bounds are seconds in which
\* the hall reported the camera, never the time of a timeout or of a dump.  And
\* it is never longer than the limit, a silence and a call together: activity
\* that goes on is cut (ActivityRecord.cpp:45-49, 75-87).
PeriodsFit ==
    \A p \in AllPeriods :
        /\ <<p.camera, p.first>> \in seen /\ <<p.camera, p.last>> \in seen
        /\ p.last - p.first <= MaxPeriod + Timeout + CallGap

LEMMA ProcessKeepsFit ==
    ASSUME RecordInv, PeriodsFit, NEW S \in SUBSET Cameras, ProcessFrames(S)
    PROVE  PeriodsFit'
<1> SUFFICES ASSUME NEW p \in AllPeriods'
             PROVE  /\ <<p.camera, p.first>> \in seen' /\ <<p.camera, p.last>> \in seen'
                    /\ p.last - p.first <= MaxPeriod + Timeout + CallGap
  BY DEF PeriodsFit
<1>1. TypeOK /\ seen' = seen \cup (S \X {now}) /\ now \in Nat /\ lastCall \in Nat
      /\ now <= lastCall + CallGap
  BY DEF RecordInv, TypeOK, CallsRecent, ProcessFrames, Times
<1>2. p \in written \/ p \in Marked(S)
  BY <1>1, ProcessPeriods
<1>3. CASE p \in written
  BY <1>1, <1>3, PeriodKinds DEF PeriodsFit
<1>4. CASE p \in Marked(S)
  <2>1. PICK c \in active \cup S : p = Period(c, MarkedStart(S)[c], MarkedEnd(S)[c])
    BY <1>4 DEF Marked
  <2>2. /\ p.camera = c
        /\ p.first = IF c \in S \ active THEN now ELSE start[c]
        /\ p.last = IF c \in S THEN now ELSE end[c]
    BY <1>1, <2>1, MarkFields, PeriodFields
  <2>3. CASE c \notin active
    <3>1. c \in S /\ p.first = now /\ p.last = now
      BY <2>2, <2>3
    <3>2. now - now <= MaxPeriod + Timeout + CallGap
      BY <1>1, TimesAssumption
    <3> QED
      BY <1>1, <2>2, <3>1, <3>2
  <2>4. CASE c \in active
    <3>1. /\ <<c, start[c]>> \in seen /\ <<c, end[c]>> \in seen
          /\ start[c] \in Nat /\ end[c] \in Nat
          /\ lastCall <= end[c] + Timeout /\ end[c] <= start[c] + MaxPeriod
      BY <1>1, <2>4, PeriodKinds, PeriodFields
         DEF PeriodsFit, RecordInv, OpenSound, TypeOK, Times
    <3>2. now - start[c] <= MaxPeriod + Timeout + CallGap
          /\ end[c] - start[c] <= MaxPeriod + Timeout + CallGap
      BY <1>1, <3>1, TimesAssumption
    <3>3. c \in S => <<c, now>> \in seen'
      BY <1>1
    <3> QED
      BY <1>1, <2>2, <2>4, <3>1, <3>2, <3>3
  <2> QED
    BY <2>3, <2>4
<1> QED
  BY <1>2, <1>3, <1>4

\* The other steps leave the periods what they are.
LEMMA PeriodsStay ==
    ASSUME Destroy \/ TimePasses \/ UNCHANGED vars
    PROVE  AllPeriods' = AllPeriods /\ seen' = seen
<1>1. CASE Destroy
  <2>1. written' = written \cup OpenPeriods /\ active' = {} /\ seen' = seen
    BY <1>1 DEF Destroy, Close, OpenPeriods
  <2> QED
    BY <2>1 DEF AllPeriods, OpenPeriods
<1>2. CASE TimePasses \/ UNCHANGED vars
  BY <1>2 DEF TimePasses, vars, AllPeriods, OpenPeriods
<1> QED
  BY <1>1, <1>2

\* What the database gets begins and ends with a sighting, and is bounded in
\* length.
THEOREM PeriodsAreFit == Spec => []PeriodsFit
<1>1. Init => PeriodsFit
  BY DEF Init, PeriodsFit, AllPeriods, OpenPeriods
<1>2. RecordInv /\ PeriodsFit /\ [Next]_vars => PeriodsFit'
  <2>1. ASSUME RecordInv, PeriodsFit, Destroy \/ TimePasses \/ UNCHANGED vars
        PROVE  PeriodsFit'
    BY <2>1, PeriodsStay DEF PeriodsFit
  <2> QED
    BY <2>1, ProcessKeepsFit DEF Next
<1> QED
  BY <1>1, <1>2, RecordInvariance, PTL DEF Spec

\* An activity is not cut into pieces: as long as the record is not destroyed,
\* a camera's next period begins only after a silence longer than the timeout,
\* unless the one before it was longer than the limit.  Only the destruction,
\* with a launch after it, makes two periods of what could have been one
\* (ActivityRecord.cpp:27-43, 51-73).
NoNeedlessSplit ==
    \A p, q \in AllPeriods :
        p.camera = q.camera /\ p # q /\ p.last <= q.first =>
            p.last - p.first > MaxPeriod \/ q.first - p.last > Timeout

\* What was written was long, or silent for long at the last call.
WrittenDue ==
    \A p \in written : p.last - p.first > MaxPeriod \/ lastCall - p.last > Timeout

LEMMA ProcessKeepsSplits ==
    ASSUME RecordInv, WrittenDue, NoNeedlessSplit, NEW S \in SUBSET Cameras, ProcessFrames(S)
    PROVE  WrittenDue' /\ NoNeedlessSplit'
<1> DEFINE s == MarkedStart(S)
           e == MarkedEnd(S)
           closed == {c \in active \cup S : IsDue(now', s[c], e[c])}
<1>1. /\ RecordInv' /\ TypeOK /\ now \in Nat /\ lastCall \in Nat /\ lastCall <= now
      /\ lastCall' = now' /\ now' \in Nat /\ now <= now'
      /\ seen' = seen \cup (S \X {now})
  BY ProcessKeepsRecord DEF RecordInv, TypeOK, CallsRecent, ProcessFrames, Times
<1>2. AllPeriods' = written \cup Marked(S)
  BY <1>1, ProcessPeriods
<1>3. \A p \in written :
         p.first \in Nat /\ p.last \in Nat
         /\ (p.last - p.first > MaxPeriod \/ now - p.last > Timeout)
  BY <1>1, TimesAssumption DEF WrittenDue, TypeOK, Periods, Times
<1>4. WrittenDue'
  <2> SUFFICES ASSUME NEW p \in written'
               PROVE  p.last - p.first > MaxPeriod \/ now' - p.last > Timeout
    BY <1>1 DEF WrittenDue
  <2>1. CASE p \in written
    BY <1>1, <1>3, <2>1, TimesAssumption
  <2>2. CASE p \notin written
    <3>1. PICK c \in closed : p = Period(c, s[c], e[c])
      BY <2>2 DEF ProcessFrames, Close
    <3> QED
      BY <3>1, PeriodFields DEF IsDue
  <2> QED
    BY <2>1, <2>2
<1> HIDE DEF s, e, closed
<1>5. NoNeedlessSplit'
  <2> SUFFICES ASSUME NEW p \in AllPeriods', NEW q \in AllPeriods',
                      p.camera = q.camera, p # q, p.last <= q.first
               PROVE  p.last - p.first > MaxPeriod \/ q.first - p.last > Timeout
    BY DEF NoNeedlessSplit
  <2>1. CASE p \in written
    <3>1. CASE q \in written
      BY <2>1, <3>1, PeriodKinds DEF NoNeedlessSplit
    <3>2. CASE q \in Marked(S)
      <4>1. PICK c \in active \cup S : q = Period(c, MarkedStart(S)[c], MarkedEnd(S)[c])
        BY <3>2 DEF Marked
      <4>2. q.camera = c /\ q.first = IF c \in S \ active THEN now ELSE start[c]
        BY <1>1, <4>1, MarkFields, PeriodFields
      <4>3. CASE c \notin active
        <5>1. q.first = now
          BY <4>2, <4>3
        <5> QED
          BY <1>3, <2>1, <5>1
      <4>4. CASE c \in active
        <5>1. /\ Period(c, start[c], end[c]) \in AllPeriods /\ p \in AllPeriods
              /\ Period(c, start[c], end[c]).camera = c
              /\ Period(c, start[c], end[c]).first = start[c]
              /\ Period(c, start[c], end[c]).last = end[c]
          BY <2>1, <4>4, PeriodKinds, PeriodFields
        <5>2. q.first = start[c]
          BY <4>2, <4>4
        <5>3. CASE p # Period(c, start[c], end[c])
          BY <4>2, <5>1, <5>2, <5>3 DEF NoNeedlessSplit
        <5>4. CASE p = Period(c, start[c], end[c])
          <6>1. p.first = start[c] /\ p.last = end[c] /\ end[c] <= start[c] /\ lastCall <= end[c] + Timeout
                /\ end[c] <= start[c] + MaxPeriod /\ start[c] \in Nat /\ end[c] \in Nat
            <7>1. p.first = start[c] /\ p.last = end[c] /\ end[c] <= start[c]
              BY <5>1, <5>2, <5>4
            <7>2. lastCall <= end[c] + Timeout /\ end[c] <= start[c] + MaxPeriod
              BY <4>4 DEF RecordInv, OpenSound
            <7>3. start[c] \in Nat /\ end[c] \in Nat
              BY <1>1, <4>4 DEF TypeOK, Times
            <7> QED
              BY <7>1, <7>2, <7>3
          <6>2. p.last - p.first > MaxPeriod \/ lastCall - p.last > Timeout
            BY <2>1 DEF WrittenDue
          <6> QED
            BY <1>1, <6>1, <6>2, TimesAssumption
        <5> QED
          BY <5>3, <5>4
      <4> QED
        BY <4>3, <4>4
    <3> QED
      BY <1>2, <3>1, <3>2
  <2>2. CASE p \notin written
    <3>1. PICK c \in active \cup S : p = Period(c, MarkedStart(S)[c], MarkedEnd(S)[c])
      BY <1>2, <2>2 DEF Marked
    <3>2. /\ p.camera = c /\ p.first = MarkedStart(S)[c] /\ p.last = MarkedEnd(S)[c]
          /\ p.first \in Nat /\ p.last \in Nat
      BY <1>1, <3>1, MarkFields, PeriodFields
    <3>3. p.first <= p.last
      BY <1>1, <3>2, MarkSound
    <3>4. CASE q \in written
      <4>1. /\ q \in Periods /\ q.first \in Nat /\ q.last \in Nat
            /\ q.first <= q.last /\ q.last <= p.first
        <5>1. q \in Periods /\ q.first <= q.last
          BY <3>4 DEF RecordInv, TypeOK, WrittenFirst
        <5>2. q.first \in Nat /\ q.last \in Nat
          BY <5>1 DEF Periods, Times
        <5>3. q.last <= p.first
          BY <1>1, <3>2, <3>4, MarkSound
        <5> QED
          BY <5>1, <5>2, <5>3
      <4>2. q.first = p.first /\ q.last = p.last
        BY <3>2, <3>3, <4>1
      <4>3. q = Period(q.camera, q.first, q.last)
        BY <4>1 DEF Periods, Period
      <4> QED
        BY <3>1, <3>2, <4>2, <4>3
    <3>5. CASE q \in Marked(S)
      <4>1. PICK d \in active \cup S : q = Period(d, MarkedStart(S)[d], MarkedEnd(S)[d])
        BY <3>5 DEF Marked
      <4> QED
        BY <3>1, <4>1, PeriodFields
    <3> QED
      BY <1>2, <3>4, <3>5
  <2> QED
    BY <2>1, <2>2
<1> QED
  BY <1>4, <1>5

\* One activity is one period as long as the record lives.
THEOREM ActivityIsNotSplit == Spec /\ [][~Destroy]_vars => []NoNeedlessSplit
<1>1. Init => WrittenDue /\ NoNeedlessSplit
  BY DEF Init, WrittenDue, NoNeedlessSplit, AllPeriods, OpenPeriods
<1>2. RecordInv /\ WrittenDue /\ NoNeedlessSplit /\ [Next]_vars /\ [~Destroy]_vars
        => (WrittenDue /\ NoNeedlessSplit)'
  <2>1. ASSUME RecordInv, WrittenDue, NoNeedlessSplit, TimePasses \/ UNCHANGED vars
        PROVE  WrittenDue' /\ NoNeedlessSplit'
    <3>1. AllPeriods' = AllPeriods /\ written' = written /\ lastCall' = lastCall
      BY <2>1, PeriodsStay DEF TimePasses, vars
    <3> QED
      BY <2>1, <3>1 DEF WrittenDue, NoNeedlessSplit
  <2> QED
    BY <2>1, ProcessKeepsSplits DEF Next
<1> QED
  BY <1>1, <1>2, RecordInvariance, PTL DEF Spec
=============================================================================
