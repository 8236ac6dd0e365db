--------------------------- MODULE ArchiveProofs ---------------------------
(***************************************************************************)
(* Proofs about Archive for every set of cameras, disk, day, store time,   *)
(* segment and rhythm of the cleaner.                                      *)
(***************************************************************************)
EXTENDS Archive, TLAPS

----------------------------------------------------------------------------
(* The inductive invariant.                                                *)

\* Every file lies in a directory.
FilesInDirs == \A f \in files : Dir(f) \in dirs

\* An open file is there.
OpenThere == \A c \in Cameras : open[c] # None => <<c, open[c]>> \in files

\* What a pass over the files does not have in its list, and will not have,
\* was begun since the pass has.
ListComplete ==
    pass \in {"space", "age"} =>
        \A f \in files : f \in list \/ f[1] \in unlisted \/ f[2] >= since

\* Files and passes begin in the past.
InThePast ==
    /\ since <= now /\ horizon <= now
    /\ \A f \in files : f[2] <= now

ArchiveInv ==
    /\ TypeOK /\ FilesInDirs /\ OpenThere /\ ListComplete /\ InThePast /\ ArchiveIsNewest

LEMMA DirIsDir == \A f \in Files : Dir(f) \in Dirs
<1> SUFFICES ASSUME NEW c \in Cameras, NEW t \in Times PROVE Dir(<<c, t>>) \in Dirs
  BY DEF Files
<1> DEFINE q == t \div DayLen
           m == MaxTime \div DayLen
<1>1. t \in Nat /\ t <= MaxTime /\ MaxTime \in Nat /\ DayLen \in Nat /\ DayLen > 0
  BY ArchiveAssumption DEF Times
<1>2. q \in Nat /\ m \in Nat
  BY <1>1
<1>3. q <= m
  BY <1>1
<1> QED
  BY <1>2, <1>3 DEF Dir, Dirs

LEMMA FileFields == \A f \in Files : f[1] \in Cameras /\ f[2] \in Times /\ f = <<f[1], f[2]>>
  BY DEF Files

LEMMA TimesAreNat == \A t \in Times : t \in Nat /\ t # None
  BY ArchiveAssumption DEF Times, None

LEMMA InitArchive == Init => ArchiveInv
  BY ArchiveAssumption DEF Init, ArchiveInv, TypeOK, Times, FilesInDirs, OpenThere, ListComplete,
     InThePast, ArchiveIsNewest, None

----------------------------------------------------------------------------
(* The writers.                                                            *)

LEMMA FrameKeepsInv ==
    ASSUME ArchiveInv, NEW c \in Cameras, NEW key \in BOOLEAN, Frame(c, key)
    PROVE  ArchiveInv'
<1>1. /\ TypeOK /\ frames' \in 0..MaxFrames
      /\ now' = now /\ files' = files /\ dirs' = dirs /\ UNCHANGED cleanerVars
  BY ArchiveAssumption DEF ArchiveInv, TypeOK, Frame
<1>2. /\ size' \in [Files -> Nat] /\ open' \in [Cameras -> Times \cup {None}]
      /\ step' \in [Cameras -> {"idle", "make", "open"}]
      /\ \A d \in Cameras : open'[d] \in {open[d], None}
  <2>1. CASE open[c] # None /\ ~(key /\ SegmentEnds(c))
    <3>1. <<c, open[c]>> \in Files
      BY <1>1, <2>1 DEF TypeOK, Files
    <3>2. /\ open' = [open EXCEPT ![c] = IF Free > 0 THEN @ ELSE None]
          /\ size' = [size EXCEPT ![<<c, open[c]>>] = IF Free > 0 THEN @ + 1 ELSE @]
          /\ step' = step
      BY <2>1 DEF Frame
    <3> QED
      BY <1>1, <3>1, <3>2 DEF TypeOK
  <2>2. CASE ~(open[c] # None /\ ~(key /\ SegmentEnds(c)))
    <3>1. /\ open' = [open EXCEPT ![c] = None] /\ size' = size
          /\ step' = [step EXCEPT ![c] = IF key THEN "make" ELSE @]
      BY <2>2 DEF Frame
    <3> QED
      BY <1>1, <3>1 DEF TypeOK
  <2> QED
    BY <2>1, <2>2
<1>3. TypeOK'
  BY <1>1, <1>2 DEF TypeOK, cleanerVars
<1>4. OpenThere'
  BY <1>1, <1>2 DEF ArchiveInv, OpenThere
<1> QED
  BY <1>1, <1>3, <1>4 DEF cleanerVars, ArchiveInv, FilesInDirs, ListComplete, InThePast, ArchiveIsNewest

LEMMA MakeDirsKeepsInv ==
    ASSUME ArchiveInv, NEW c \in Cameras, MakeDirs(c)
    PROVE  ArchiveInv'
<1>1. /\ TypeOK /\ dirs' = dirs \cup {Dir(<<c, now>>)}
      /\ step' \in [Cameras -> {"idle", "make", "open"}]
      /\ now' = now /\ files' = files /\ size' = size /\ open' = open /\ frames' = frames
      /\ UNCHANGED cleanerVars
  BY DEF ArchiveInv, TypeOK, MakeDirs
<1>2. Dir(<<c, now>>) \in Dirs
  BY <1>1, DirIsDir DEF TypeOK, Files
<1>3. TypeOK'
  BY <1>1, <1>2 DEF TypeOK, cleanerVars
<1> QED
  BY <1>1, <1>3 DEF cleanerVars, ArchiveInv, FilesInDirs, OpenThere, ListComplete, InThePast, ArchiveIsNewest

\* The new file is as new as the clock says: newer than the horizon, and than
\* the listing of the pass under way.
LEMMA OpenKeepsInv ==
    ASSUME ArchiveInv, NEW c \in Cameras, OpenFile(c)
    PROVE  ArchiveInv'
<1> DEFINE f == <<c, now>>
<1>1. /\ TypeOK /\ f \in Files /\ f[1] = c /\ f[2] = now /\ now \in Times
      /\ step' \in [Cameras -> {"idle", "make", "open"}]
      /\ now' = now /\ dirs' = dirs /\ frames' = frames /\ UNCHANGED cleanerVars
  BY DEF ArchiveInv, TypeOK, OpenFile, Files
<1>2. CASE Dir(f) \in dirs /\ Free > 0
  <2>1. /\ files' = files \cup {f} /\ size' = [size EXCEPT ![f] = 1]
        /\ open' = [open EXCEPT ![c] = now]
    BY <1>2 DEF OpenFile
  <2>2. /\ open' \in [Cameras -> Times \cup {None}] /\ open'[c] = now
        /\ \A d \in Cameras : d # c => open'[d] = open[d]
    BY <1>1, <2>1 DEF TypeOK
  <2>3. TypeOK'
    BY <1>1, <2>1, <2>2 DEF TypeOK, cleanerVars
  <2>4. FilesInDirs' /\ OpenThere'
    BY <1>1, <1>2, <2>1, <2>2 DEF ArchiveInv, FilesInDirs, OpenThere, Dir
  <2>5. since <= now /\ horizon <= now /\ now \in Nat
    BY <1>1, TimesAreNat DEF ArchiveInv, InThePast
  <2>6. ListComplete' /\ InThePast' /\ ArchiveIsNewest'
    BY <1>1, <2>1, <2>5 DEF cleanerVars, ArchiveInv, ListComplete, InThePast, ArchiveIsNewest
  <2> QED
    BY <2>3, <2>4, <2>6 DEF ArchiveInv
<1>3. CASE ~(Dir(f) \in dirs /\ Free > 0)
  <2>1. files' = files /\ size' = size /\ open' = open
    BY <1>3 DEF OpenFile
  <2>2. TypeOK'
    BY <1>1, <2>1 DEF TypeOK, cleanerVars
  <2> QED
    BY <1>1, <2>1, <2>2 DEF cleanerVars, ArchiveInv, FilesInDirs, OpenThere, ListComplete, InThePast,
       ArchiveIsNewest
<1> QED
  BY <1>2, <1>3

LEMMA CloseKeepsInv ==
    ASSUME ArchiveInv, NEW c \in Cameras, CloseFile(c)
    PROVE  ArchiveInv'
<1>1. /\ TypeOK /\ open' \in [Cameras -> Times \cup {None}]
      /\ \A d \in Cameras : open'[d] \in {open[d], None}
      /\ now' = now /\ files' = files /\ dirs' = dirs /\ size' = size
      /\ step' = step /\ frames' = frames /\ UNCHANGED cleanerVars
  BY DEF ArchiveInv, TypeOK, CloseFile, diskVars
<1>2. TypeOK'
  BY <1>1 DEF TypeOK, cleanerVars
<1> QED
  BY <1>1, <1>2 DEF cleanerVars, ArchiveInv, FilesInDirs, OpenThere, ListComplete, InThePast, ArchiveIsNewest

LEMMA TimeKeepsInv == ArchiveInv /\ TimePasses => ArchiveInv'
<1> SUFFICES ASSUME ArchiveInv, TimePasses PROVE ArchiveInv'
  OBVIOUS
<1>1. /\ TypeOK /\ now \in Nat /\ now' = now + 1 /\ now' \in Times
      /\ UNCHANGED <<diskVars, writerVars, cleanerVars>>
  BY ArchiveAssumption DEF ArchiveInv, TypeOK, TimePasses, Times
<1>2. TypeOK'
  BY <1>1 DEF TypeOK, diskVars, writerVars, cleanerVars
<1>3. since \in Nat /\ horizon \in Nat /\ \A f \in files : f[2] \in Nat
  BY <1>1, TimesAreNat, FileFields DEF TypeOK
<1>4. InThePast'
  BY <1>1, <1>3 DEF diskVars, cleanerVars, ArchiveInv, InThePast
<1> QED
  BY <1>1, <1>2, <1>4 DEF diskVars, writerVars, cleanerVars, ArchiveInv, FilesInDirs, OpenThere, ListComplete,
     ArchiveIsNewest

----------------------------------------------------------------------------
(* The cleaner.                                                            *)

\* Where a pass, or a cycle, begins or ends, the disk stays as it is.
LEMMA PassKeepsInv ==
    ASSUME ArchiveInv, UNCHANGED <<now, diskVars, writerVars, horizon>>,
           cycle' \in 0..(DirsEvery - 1), expiry' \in Int,
           StopPass \/ \E p \in {"space", "age", "dirs"} : BeginPass(p)
    PROVE  ArchiveInv'
<1>1. /\ TypeOK /\ now' = now /\ files' = files /\ dirs' = dirs /\ size' = size /\ open' = open
      /\ step' = step /\ frames' = frames /\ horizon' = horizon
  BY DEF ArchiveInv, diskVars, writerVars
<1>2. 0 \in Times /\ now \in Times /\ 0 <= now /\ now <= now
  BY <1>1, TimesAreNat, ArchiveAssumption DEF TypeOK, Times
<1>3. /\ pass' \in {"none", "space", "age", "dirs"} /\ since' \in Times /\ since' <= now
      /\ unlisted' \in SUBSET Cameras /\ list' = {} /\ dirList' = {} /\ doomed' = {}
      /\ pass' \in {"space", "age"} => unlisted' = Cameras
  BY <1>2 DEF StopPass, BeginPass
<1>4. TypeOK'
  BY <1>1, <1>3 DEF TypeOK
<1>5. ListComplete'
  BY <1>1, <1>3, FileFields DEF TypeOK, ListComplete
<1> QED
  BY <1>1, <1>3, <1>4, <1>5 DEF ArchiveInv, FilesInDirs, OpenThere, InThePast, ArchiveIsNewest

LEMMA NextCycle == TypeOK => (cycle + 1) % DirsEvery \in 0..(DirsEvery - 1)
  BY ArchiveAssumption DEF TypeOK

LEMMA BeginCycleKeepsInv == ArchiveInv /\ BeginCycle => ArchiveInv'
<1> SUFFICES ASSUME ArchiveInv, BeginCycle PROVE ArchiveInv'
  OBVIOUS
<1>1. TypeOK /\ UNCHANGED <<now, diskVars, writerVars, horizon>>
  BY DEF ArchiveInv, BeginCycle
<1>2. CASE cycle % PassEvery = 0
  <2>1. /\ cycle' = cycle /\ expiry' = now - StoreTime
        /\ \E p \in {"space", "age", "dirs"} : BeginPass(p)
    BY <1>2 DEF BeginCycle
  <2>2. cycle' \in 0..(DirsEvery - 1) /\ expiry' \in Int
    BY <1>1, <2>1, ArchiveAssumption DEF TypeOK, Times
  <2> QED
    BY <1>1, <2>1, <2>2, PassKeepsInv
<1>3. CASE cycle % PassEvery # 0
  <2>1. StopPass /\ cycle' = (cycle + 1) % DirsEvery
    BY <1>3 DEF BeginCycle, EndCycle
  <2>2. cycle' \in 0..(DirsEvery - 1) /\ expiry' \in Int
    BY <1>1, <2>1, NextCycle DEF StopPass
  <2> QED
    BY <1>1, <2>1, <2>2, PassKeepsInv
<1> QED
  BY <1>2, <1>3

LEMMA EndPassKeepsInv == ArchiveInv /\ (EndFilePass \/ EndDirs) => ArchiveInv'
<1> SUFFICES ASSUME ArchiveInv, EndFilePass \/ EndDirs PROVE ArchiveInv'
  OBVIOUS
<1>1. TypeOK /\ UNCHANGED <<now, diskVars, writerVars, horizon>>
  BY DEF ArchiveInv, EndFilePass, EndDirs
<1>2. CASE \E p \in {"space", "age", "dirs"} : BeginPass(p) /\ UNCHANGED <<cycle, expiry>>
  <2>1. cycle' \in 0..(DirsEvery - 1) /\ expiry' \in Int
    BY <1>1, <1>2 DEF TypeOK
  <2> QED
    BY <1>1, <1>2, <2>1, PassKeepsInv
<1>3. CASE EndCycle
  <2>1. StopPass /\ cycle' \in 0..(DirsEvery - 1) /\ expiry' \in Int
    BY <1>1, <1>3, NextCycle DEF EndCycle, StopPass
  <2> QED
    BY <1>1, <2>1, PassKeepsInv
<1> QED
  BY <1>2, <1>3 DEF EndFilePass, EndDirs

LEMMA ListKeepsInv ==
    ASSUME ArchiveInv, NEW c \in Cameras, ListCamera(c)
    PROVE  ArchiveInv'
<1>1. /\ TypeOK /\ now' = now /\ files' = files /\ dirs' = dirs /\ size' = size /\ open' = open
      /\ step' = step /\ frames' = frames /\ horizon' = horizon /\ pass' = pass /\ since' = since
      /\ cycle' = cycle /\ expiry' = expiry /\ doomed' = doomed
      /\ unlisted' = unlisted \ {c} /\ list' = list \cup {f \in files : f[1] = c}
      /\ dirList' = dirList \cup {d \in dirs : d[1] = c}
  BY DEF ArchiveInv, ListCamera, diskVars, writerVars
<1>2. TypeOK'
  BY <1>1 DEF TypeOK
<1>3. ListComplete'
  BY <1>1 DEF ArchiveInv, ListComplete
<1> QED
  BY <1>1, <1>2, <1>3 DEF ArchiveInv, FilesInDirs, OpenThere, InThePast, ArchiveIsNewest

\* The file that goes is the oldest of the list, and what is not in the list
\* is as new as the pass: all that stay are at the new horizon or after it.
LEMMA RemoveFileKeepsInv ==
    ASSUME ArchiveInv, NEW f \in list, RemoveFile(f)
    PROVE  ArchiveInv'
<1>1. /\ TypeOK /\ f \in Files /\ pass \in {"space", "age"} /\ unlisted = {}
      /\ \A g \in list : f[2] <= g[2]
      /\ ~IsOpen(f)
      /\ files' = files \ {f} /\ size' = [size EXCEPT ![f] = 0] /\ list' = list \ {f}
      /\ horizon' = Later(horizon, Earlier(f[2], since))
      /\ now' = now /\ dirs' = dirs /\ UNCHANGED writerVars /\ cycle' = cycle /\ pass' = pass
      /\ since' = since /\ expiry' = expiry /\ unlisted' = unlisted /\ dirList' = dirList
      /\ doomed' = doomed
  BY DEF ArchiveInv, TypeOK, RemoveFile, First, Oldest
<1>2. /\ f[2] \in Times /\ since \in Times /\ horizon \in Times /\ now \in Times
      /\ f[2] \in Nat /\ since \in Nat /\ horizon \in Nat /\ now \in Nat
  BY <1>1, FileFields, TimesAreNat DEF TypeOK
<1>3. horizon' \in {horizon, f[2], since} /\ horizon' <= now
  BY <1>1, <1>2 DEF ArchiveInv, InThePast, Later, Earlier
<1>4. TypeOK'
  <2>1. size' \in [Files -> Nat] /\ horizon' \in Times
    BY <1>1, <1>2, <1>3 DEF TypeOK
  <2> QED
    BY <1>1, <2>1 DEF TypeOK, writerVars
<1>5. ArchiveIsNewest'
  <2> SUFFICES ASSUME NEW g \in files' PROVE g[2] >= horizon'
    BY DEF ArchiveIsNewest
  <2>1. g \in files /\ g \in Files
    BY <1>1 DEF TypeOK
  <2>2. g[2] \in Nat /\ g[2] >= horizon
    BY <2>1, FileFields, TimesAreNat DEF ArchiveInv, ArchiveIsNewest
  <2>3. g[2] >= f[2] \/ g[2] >= since
    BY <1>1, <2>1 DEF ArchiveInv, ListComplete
  <2> QED
    BY <1>1, <1>2, <2>2, <2>3 DEF Later, Earlier
<1>6. OpenThere'
  <2>1. \A c \in Cameras : open[c] # None => <<c, open[c]>> # f
    BY <1>1 DEF IsOpen
  <2> QED
    BY <1>1, <2>1 DEF writerVars, ArchiveInv, OpenThere
<1>7. ListComplete'
  BY <1>1 DEF ArchiveInv, ListComplete
<1>8. FilesInDirs' /\ InThePast'
  BY <1>1, <1>3 DEF ArchiveInv, FilesInDirs, InThePast, Dir
<1> QED
  BY <1>4, <1>5, <1>6, <1>7, <1>8 DEF ArchiveInv

LEMMA DirsKeepInv ==
    ASSUME ArchiveInv, NEW d \in Dirs, CountFiles(d) \/ RemoveDir(d)
    PROVE  ArchiveInv'
<1>1. CASE CountFiles(d)
  <2>1. TypeOK'
    BY <1>1 DEF ArchiveInv, TypeOK, CountFiles, diskVars, writerVars
  <2> QED
    BY <1>1, <2>1 DEF CountFiles, diskVars, writerVars, ArchiveInv, FilesInDirs, OpenThere, ListComplete,
       InThePast, ArchiveIsNewest
<1>2. CASE RemoveDir(d) /\ IsEmpty(d)
  <2>1. /\ TypeOK /\ dirs' = dirs \ {d} /\ doomed' = {}
        /\ UNCHANGED <<pass, since, expiry, unlisted, list, dirList>>
        /\ UNCHANGED <<now, files, size, writerVars, cycle, horizon>>
    BY <1>2 DEF RemoveDir, ArchiveInv
  <2>2. TypeOK'
    BY <2>1 DEF TypeOK, writerVars
  <2>3. FilesInDirs'
    BY <1>2, <2>1 DEF ArchiveInv, FilesInDirs, IsEmpty, Dir
  <2> QED
    BY <2>1, <2>2, <2>3 DEF writerVars, ArchiveInv, OpenThere, ListComplete, InThePast, ArchiveIsNewest
<1>3. CASE RemoveDir(d) /\ ~IsEmpty(d)
  <2>1. /\ TypeOK /\ StopPass /\ cycle' = cycle
        /\ UNCHANGED <<now, diskVars, writerVars, horizon>>
    BY <1>3 DEF RemoveDir, ArchiveInv, diskVars
  <2>2. cycle' \in 0..(DirsEvery - 1) /\ expiry' \in Int
    BY <2>1 DEF TypeOK, StopPass
  <2> QED
    BY <2>1, <2>2, PassKeepsInv
<1> QED
  BY <1>1, <1>2, <1>3

LEMMA ArchiveNext == ArchiveInv /\ [Next]_vars => ArchiveInv'
<1> SUFFICES ASSUME ArchiveInv, [Next]_vars PROVE ArchiveInv'
  OBVIOUS
<1>1. ASSUME NEW c \in Cameras, WriterSteps(c) PROVE ArchiveInv'
  BY <1>1, MakeDirsKeepsInv, OpenKeepsInv DEF WriterSteps
<1>2. ASSUME NEW c \in Cameras, CloseFile(c) PROVE ArchiveInv'
  BY <1>2, CloseKeepsInv
<1>3. ASSUME NEW c \in Cameras, NEW key \in BOOLEAN, Frame(c, key) PROVE ArchiveInv'
  BY <1>3, FrameKeepsInv
<1>4. CASE Clean
  BY <1>4, BeginCycleKeepsInv, EndPassKeepsInv, ListKeepsInv, RemoveFileKeepsInv, DirsKeepInv DEF Clean
<1>5. CASE UNCHANGED vars
  <2>1. TypeOK'
    BY <1>5 DEF vars, diskVars, writerVars, cleanerVars, ArchiveInv, TypeOK
  <2> QED
    BY <1>5, <2>1 DEF vars, diskVars, writerVars, cleanerVars, ArchiveInv, FilesInDirs, OpenThere,
       ListComplete, InThePast, ArchiveIsNewest
<1> QED
  BY <1>1, <1>2, <1>3, <1>4, <1>5, TimeKeepsInv DEF Next

LEMMA ArchiveInvariance == Spec => []ArchiveInv
  BY InitArchive, ArchiveNext, PTL DEF Spec

----------------------------------------------------------------------------
(* The theorems.                                                           *)

\* The variables of the archive always have their types.
THEOREM ArchiveTypes == Spec => []TypeOK
<1>1. ArchiveInv => TypeOK
  BY DEF ArchiveInv
<1> QED
  BY <1>1, ArchiveInvariance, PTL

\* The cleaner's two passes never remove a file before an older one that was
\* there when they listed the archive, however the writers cut their files in
\* the meantime.
THEOREM OldestGoFirst == Spec => []ArchiveIsNewest
<1>1. ArchiveInv => ArchiveIsNewest
  BY DEF ArchiveInv
<1> QED
  BY <1>1, ArchiveInvariance, PTL

\* The cleaner removes neither the file a camera is writing nor its directory.
THEOREM WritersAreSafe == Spec => []WriterHasFile
<1>1. ArchiveInv => WriterHasFile
  BY DEF ArchiveInv, FilesInDirs, OpenThere, WriterHasFile
<1> QED
  BY <1>1, ArchiveInvariance, PTL

----------------------------------------------------------------------------
(* What the cleaner may remove.                                            *)

\* A file goes only if no camera has it open, and only if the disk was short
\* of space at that moment or the file had been kept for the store time: a
\* listing that has grown old in the meantime, or a cut between the listing
\* and the removal, never costs a file that should have stayed (Storage.cpp:
\* 378-452).
RemovedForReason ==
    [][\A f \in files \ files' :
          ~IsOpen(f) /\ (Free <= MinFree \/ f[2] + StoreTime <= now)]_vars

\* The date up to which files are old does not lie too late.
ExpiryInThePast == pass # "none" => expiry + StoreTime <= now

\* Files only go where the cleaner removes one.
LEMMA OnlyTheCleanerRemoves ==
    ASSUME Next, NEW f \in files \ files'
    PROVE  RemoveFile(f)
<1>1. ASSUME NEW c \in Cameras, WriterSteps(c) PROVE files \subseteq files'
  BY <1>1 DEF WriterSteps, MakeDirs, OpenFile
<1>2. ASSUME NEW c \in Cameras, CloseFile(c) \/ \E key \in BOOLEAN : Frame(c, key)
      PROVE  files' = files
  BY <1>2 DEF CloseFile, Frame, diskVars
<1>3. TimePasses => files' = files
  BY DEF TimePasses, diskVars
<1>4. BeginCycle \/ EndFilePass \/ EndDirs => files' = files
  BY DEF BeginCycle, EndFilePass, EndDirs, diskVars
<1>5. ASSUME NEW c \in Cameras, ListCamera(c) PROVE files' = files
  BY <1>5 DEF ListCamera, diskVars
<1>6. ASSUME NEW d \in Dirs, CountFiles(d) \/ RemoveDir(d) PROVE files' = files
  BY <1>6 DEF CountFiles, RemoveDir, diskVars
<1>7. ASSUME NEW g \in list, RemoveFile(g) PROVE g = f
  BY <1>7 DEF RemoveFile
<1> QED
  BY <1>1, <1>2, <1>3, <1>4, <1>5, <1>6, <1>7 DEF Next, Clean

LEMMA ExpiryStaysInThePast == TypeOK /\ ExpiryInThePast /\ [Next]_vars => ExpiryInThePast'
<1> SUFFICES ASSUME TypeOK, ExpiryInThePast, [Next]_vars PROVE ExpiryInThePast'
  OBVIOUS
<1>1. now \in Nat /\ StoreTime \in Nat /\ expiry \in Int
  BY TimesAreNat, ArchiveAssumption DEF TypeOK
<1>2. CASE \/ \E c \in Cameras : \/ WriterSteps(c) \/ CloseFile(c)
                                 \/ \E key \in BOOLEAN : Frame(c, key)
           \/ UNCHANGED vars
  BY <1>2 DEF WriterSteps, MakeDirs, OpenFile, CloseFile, Frame, vars, cleanerVars, ExpiryInThePast
<1>3. CASE TimePasses
  BY <1>1, <1>3 DEF TimePasses, cleanerVars, ExpiryInThePast
<1>4. CASE BeginCycle
  BY <1>1, <1>4 DEF BeginCycle, BeginPass, EndCycle, StopPass, ExpiryInThePast
<1>5. CASE EndFilePass \/ EndDirs
  BY <1>5 DEF EndFilePass, EndDirs, BeginPass, EndCycle, StopPass, ExpiryInThePast
<1>6. CASE \/ \E c \in Cameras : ListCamera(c)
           \/ \E f \in list : RemoveFile(f)
           \/ \E d \in Dirs : CountFiles(d) \/ RemoveDir(d)
  BY <1>6 DEF ListCamera, RemoveFile, CountFiles, RemoveDir, StopPass, ExpiryInThePast
<1> QED
  BY <1>2, <1>3, <1>4, <1>5, <1>6 DEF Next, Clean

\* For every disk, store time and rhythm of the cleaner.
THEOREM OnlyOldOrNeededFilesGo == Spec => RemovedForReason
<1>1. Init => ExpiryInThePast
  BY DEF Init, ExpiryInThePast
<1>2. Spec => []ExpiryInThePast
  BY <1>1, ExpiryStaysInThePast, ArchiveTypes, PTL DEF Spec
<1>3. TypeOK /\ ExpiryInThePast /\ [Next]_vars
        => [\A f \in files \ files' :
              ~IsOpen(f) /\ (Free <= MinFree \/ f[2] + StoreTime <= now)]_vars
  <2> SUFFICES ASSUME TypeOK, ExpiryInThePast, Next, NEW f \in files \ files'
               PROVE  ~IsOpen(f) /\ (Free <= MinFree \/ f[2] + StoreTime <= now)
    OBVIOUS
  <2>1. RemoveFile(f)
    BY OnlyTheCleanerRemoves
  <2>2. /\ ~IsOpen(f) /\ pass \in {"space", "age"}
        /\ IF pass = "space" THEN Free <= MinFree ELSE f[2] <= expiry
    BY <2>1 DEF RemoveFile, Wanted
  <2>3. f[2] \in Nat /\ now \in Nat /\ StoreTime \in Nat /\ expiry \in Int
    BY FileFields, TimesAreNat, ArchiveAssumption DEF TypeOK
  <2> QED
    BY <2>2, <2>3 DEF ExpiryInThePast
<1> QED
  BY <1>2, <1>3, ArchiveTypes, PTL DEF Spec, RemovedForReason

----------------------------------------------------------------------------
(* The cleaner's cycles are finite.                                        *)

\* What a pass has to do when the cameras in U are to be listed, and the files
\* in L, the directories in D and the empty directories in X to be treated.
Todo(U, L, D, X) ==
    {<<"end">>} \cup {<<"list", c>> : c \in U}
    \cup {<<"file", f>> : f \in {g \in Files : g \in L \/ g[1] \in U}}
    \cup {<<"count", d>> : d \in {b \in Dirs : b \in D \/ b[1] \in U}}
    \cup {<<"remove", d>> : d \in {b \in Dirs : b \in D \/ b \in X \/ b[1] \in U}}

LaterPasses ==
    {q \in {"age", "dirs"} : pass = "space" \/ (pass = "age" /\ q = "dirs")}

\* What is left of the cleaner's cycle at most.
CycleLeft ==
    {<<q, x>> : q \in {pass} \ {"none"}, x \in Todo(unlisted, list, dirList, doomed)}
    \cup {<<q, x>> : q \in LaterPasses, x \in Todo(Cameras, Files, Dirs, Dirs)}

\* A cycle works off what it has listed: each step of the cleaner takes from
\* what is left of it, and nothing the writers do in the meantime adds to it.
\* The cleaner thread therefore never stays in one cycle for ever, however fast
\* files and directories are made; what it does not treat waits for the next
\* (Storage.cpp:291-325, 361-497).
CycleShrinks ==
    [][pass # "none" => /\ CycleLeft' \subseteq CycleLeft
                        /\ Clean => CycleLeft' # CycleLeft]_vars

\* The directory counted last is no more to be counted.
DoomedCounted == doomed # {} => unlisted = {} /\ doomed \cap dirList = {}

LEMMA DoomedStaysCounted == DoomedCounted /\ [Next]_vars => DoomedCounted'
<1> SUFFICES ASSUME DoomedCounted, [Next]_vars PROVE DoomedCounted'
  OBVIOUS
<1>1. CASE \/ \E c \in Cameras : \/ WriterSteps(c) \/ CloseFile(c)
                                 \/ \E key \in BOOLEAN : Frame(c, key)
           \/ TimePasses \/ UNCHANGED vars
  BY <1>1 DEF WriterSteps, MakeDirs, OpenFile, CloseFile, Frame, TimePasses, vars, cleanerVars,
     DoomedCounted
<1>2. CASE BeginCycle \/ EndFilePass \/ EndDirs
  BY <1>2 DEF BeginCycle, EndFilePass, EndDirs, BeginPass, EndCycle, StopPass, DoomedCounted
<1>3. CASE \/ \E c \in Cameras : ListCamera(c)
           \/ \E f \in list : RemoveFile(f)
           \/ \E d \in Dirs : CountFiles(d) \/ RemoveDir(d)
  BY <1>3 DEF ListCamera, RemoveFile, CountFiles, RemoveDir, StopPass, DoomedCounted
<1> QED
  BY <1>1, <1>2, <1>3 DEF Next, Clean

LEMMA TodoGrows ==
    ASSUME NEW U, NEW L, NEW D, NEW X, NEW V, NEW K, NEW E, NEW Y,
           V \subseteq U,
           \A g \in Files : g \in K \/ g[1] \in V => g \in L \/ g[1] \in U,
           \A b \in Dirs : b \in E \/ b[1] \in V => b \in D \/ b[1] \in U,
           \A b \in Dirs : b \in E \/ b \in Y \/ b[1] \in V => b \in D \/ b \in X \/ b[1] \in U
    PROVE  Todo(V, K, E, Y) \subseteq Todo(U, L, D, X)
  BY DEF Todo

\* A pass goes on.
LEMMA SamePassShrinks ==
    ASSUME pass # "none", pass' = pass,
           Todo(unlisted, list, dirList, doomed)' \subseteq Todo(unlisted, list, dirList, doomed)
    PROVE  CycleLeft' \subseteq CycleLeft
<1>1. LaterPasses' = LaterPasses
  BY DEF LaterPasses
<1> DEFINE T == Todo(unlisted, list, dirList, doomed)
<1>2. CycleLeft = {<<q, x>> : q \in {pass}, x \in T}
                  \cup {<<q, x>> : q \in LaterPasses, x \in Todo(Cameras, Files, Dirs, Dirs)}
  BY DEF CycleLeft
<1>3. CycleLeft' = {<<q, x>> : q \in {pass}, x \in T'}
                   \cup {<<q, x>> : q \in LaterPasses, x \in Todo(Cameras, Files, Dirs, Dirs)}
  BY <1>1 DEF CycleLeft
<1> HIDE DEF T
<1> QED
  BY <1>2, <1>3 DEF T

\* ... and takes something off.
LEMMA SamePassTakes ==
    ASSUME pass # "none", pass' = pass,
           NEW x \in Todo(unlisted, list, dirList, doomed),
           x \notin Todo(unlisted, list, dirList, doomed)'
    PROVE  CycleLeft' # CycleLeft
<1>1. pass \notin LaterPasses
  BY DEF LaterPasses
<1>2. <<pass, x>> \in CycleLeft
  BY DEF CycleLeft
<1>3. <<pass, x>> \notin CycleLeft'
  <2>1. LaterPasses' = LaterPasses
    BY DEF LaterPasses
  <2> QED
    BY <1>1, <2>1 DEF CycleLeft
<1> QED
  BY <1>2, <1>3

\* Another pass begins, or the cycle ends.
LEMMA NextPassTakes ==
    ASSUME pass \in {"space", "age", "dirs"}, pass' \in LaterPasses \cup {"none"},
           unlisted' \subseteq Cameras
    PROVE  CycleLeft' \subseteq CycleLeft /\ CycleLeft' # CycleLeft
<1> DEFINE T == Todo(unlisted, list, dirList, doomed)
           All == Todo(Cameras, Files, Dirs, Dirs)
<1>1. LaterPasses' \subseteq LaterPasses /\ pass \notin LaterPasses' \cup {pass'}
      /\ (pass' = "none" => LaterPasses' = {})
  BY DEF LaterPasses
<1>2. T' \subseteq All
  BY TodoGrows
<1>3. <<"end">> \in T
  BY DEF Todo
<1>4. /\ CycleLeft = {<<q, x>> : q \in {pass} \ {"none"}, x \in T}
                     \cup {<<q, x>> : q \in LaterPasses, x \in All}
      /\ CycleLeft' = {<<q, x>> : q \in {pass'} \ {"none"}, x \in T'}
                      \cup {<<q, x>> : q \in LaterPasses', x \in All}
  BY DEF CycleLeft
<1> HIDE DEF T, All
<1>5. CycleLeft' \subseteq CycleLeft
  BY <1>1, <1>2, <1>4
<1>6. <<pass, <<"end">>>> \in CycleLeft
  BY <1>3, <1>4
<1>7. <<pass, <<"end">>>> \notin CycleLeft'
  BY <1>1, <1>4
<1> QED
  BY <1>5, <1>6, <1>7

LEMMA BothEndPasses ==
    ASSUME TypeOK, EndFilePass \/ EndDirs
    PROVE  CycleLeft' \subseteq CycleLeft /\ CycleLeft' # CycleLeft
<1>1. CASE EndFilePass
  <2>1. /\ pass \in {"space", "age"} /\ pass' \in LaterPasses \cup {"none"}
        /\ unlisted' \in {{}, Cameras}
    BY <1>1 DEF EndFilePass, BeginPass, EndCycle, StopPass, LaterPasses
  <2> QED
    BY <2>1, NextPassTakes
<1>2. CASE EndDirs
  <2>1. pass = "dirs" /\ pass' = "none" /\ unlisted' = {}
    BY <1>2 DEF EndDirs, EndCycle, StopPass
  <2> QED
    BY <2>1, NextPassTakes
<1> QED
  BY <1>1, <1>2

LEMMA ListingShrinks ==
    ASSUME TypeOK, pass # "none", NEW c \in Cameras, ListCamera(c)
    PROVE  CycleLeft' \subseteq CycleLeft /\ CycleLeft' # CycleLeft
<1>1. /\ c \in unlisted /\ unlisted' = unlisted \ {c} /\ pass' = pass /\ doomed' = doomed
      /\ list' = list \cup {f \in files : f[1] = c}
      /\ dirList' = dirList \cup {d \in dirs : d[1] = c}
  BY DEF ListCamera
<1>2. Todo(unlisted', list', dirList', doomed') \subseteq Todo(unlisted, list, dirList, doomed)
  BY <1>1, TodoGrows
<1>3. <<"list", c>> \in Todo(unlisted, list, dirList, doomed)
  BY <1>1 DEF Todo
<1>4. <<"list", c>> \notin Todo(unlisted', list', dirList', doomed')
  BY <1>1 DEF Todo
<1> QED
  BY <1>1, <1>2, <1>3, <1>4, SamePassShrinks, SamePassTakes

LEMMA RemovalShrinks ==
    ASSUME TypeOK, NEW f \in list, RemoveFile(f)
    PROVE  CycleLeft' \subseteq CycleLeft /\ CycleLeft' # CycleLeft
<1>1. /\ f \in Files /\ unlisted = {} /\ unlisted' = unlisted /\ pass' = pass /\ pass # "none"
      /\ list' = list \ {f} /\ dirList' = dirList /\ doomed' = doomed
  BY DEF RemoveFile, TypeOK
<1>2. Todo(unlisted', list', dirList', doomed') \subseteq Todo(unlisted, list, dirList, doomed)
  BY <1>1, TodoGrows
<1>3. <<"file", f>> \in Todo(unlisted, list, dirList, doomed)
  BY <1>1 DEF Todo
<1>4. <<"file", f>> \notin Todo(unlisted', list', dirList', doomed')
  BY <1>1 DEF Todo
<1> QED
  BY <1>1, <1>2, <1>3, <1>4, SamePassShrinks, SamePassTakes

LEMMA CountingShrinks ==
    ASSUME TypeOK, NEW d \in Dirs, CountFiles(d)
    PROVE  CycleLeft' \subseteq CycleLeft /\ CycleLeft' # CycleLeft
<1>1. /\ unlisted = {} /\ unlisted' = unlisted /\ pass' = pass /\ pass # "none" /\ list' = list
      /\ d \in dirList /\ dirList' = dirList \ {d} /\ doomed' \subseteq {d}
  BY DEF CountFiles
<1>2. Todo(unlisted', list', dirList', doomed') \subseteq Todo(unlisted, list, dirList, doomed)
  BY <1>1, TodoGrows
<1>3. <<"count", d>> \in Todo(unlisted, list, dirList, doomed)
  BY <1>1 DEF Todo
<1>4. <<"count", d>> \notin Todo(unlisted', list', dirList', doomed')
  BY <1>1 DEF Todo
<1> QED
  BY <1>1, <1>2, <1>3, <1>4, SamePassShrinks, SamePassTakes

LEMMA DirRemovalShrinks ==
    ASSUME TypeOK, DoomedCounted, pass # "none", NEW d \in Dirs, RemoveDir(d)
    PROVE  CycleLeft' \subseteq CycleLeft /\ CycleLeft' # CycleLeft
<1>0. d \in doomed /\ unlisted = {} /\ d \notin dirList
  BY DEF RemoveDir, DoomedCounted
<1>1. CASE IsEmpty(d)
  <2>1. /\ doomed' = {} /\ unlisted' = unlisted /\ pass' = pass /\ list' = list
        /\ dirList' = dirList
    BY <1>1 DEF RemoveDir
  <2>2. Todo(unlisted', list', dirList', doomed') \subseteq Todo(unlisted, list, dirList, doomed)
    BY <2>1, TodoGrows
  <2>3. <<"remove", d>> \in Todo(unlisted, list, dirList, doomed)
    BY <1>0 DEF Todo
  <2>4. <<"remove", d>> \notin Todo(unlisted', list', dirList', doomed')
    BY <1>0, <2>1 DEF Todo
  <2> QED
    BY <2>1, <2>2, <2>3, <2>4, SamePassShrinks, SamePassTakes
<1>2. CASE ~IsEmpty(d)
  <2>1. pass' = "none" /\ unlisted' = {}
    BY <1>2 DEF RemoveDir, StopPass
  <2> QED
    BY <2>1, NextPassTakes DEF TypeOK
<1> QED
  BY <1>1, <1>2

\* For every set of cameras, disk and rhythm of the cleaner.
THEOREM CleanerCyclesEnd == Spec => CycleShrinks
<1>1. Init => DoomedCounted
  BY DEF Init, DoomedCounted
<1>2. Spec => []DoomedCounted
  BY <1>1, DoomedStaysCounted, PTL DEF Spec
<1>3. TypeOK /\ DoomedCounted /\ [Next]_vars
        => [pass # "none" => /\ CycleLeft' \subseteq CycleLeft
                             /\ Clean => CycleLeft' # CycleLeft]_vars
  <2> SUFFICES ASSUME TypeOK, DoomedCounted, Next, pass # "none"
               PROVE  CycleLeft' \subseteq CycleLeft /\ (Clean => CycleLeft' # CycleLeft)
    OBVIOUS
  <2>1. CASE Clean
    BY <2>1, BothEndPasses, ListingShrinks, RemovalShrinks, CountingShrinks, DirRemovalShrinks
       DEF Clean, BeginCycle
  <2>2. CASE ~Clean
    <3>1. UNCHANGED <<pass, unlisted, list, dirList, doomed>>
      BY <2>2 DEF Next, WriterSteps, MakeDirs, OpenFile, CloseFile, Frame, TimePasses, cleanerVars
    <3> QED
      BY <2>2, <3>1 DEF CycleLeft, LaterPasses
  <2> QED
    BY <2>1, <2>2
<1> QED
  BY <1>2, <1>3, ArchiveTypes, PTL DEF Spec, CycleShrinks

=============================================================================
