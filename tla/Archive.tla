------------------------------ MODULE Archive ------------------------------
(***************************************************************************)
(* The video archive on the disk: the ArchiveWriter of each camera, on the *)
(* thread of its capture, and Storage, with which the thread of DVRBackup  *)
(* removes old files and empty directories.  The two know nothing of each  *)
(* other; they meet in the file system.                                    *)
(*                                                                         *)
(* A file is named by its camera and the second in which it was begun, and *)
(* lies in a directory of its camera and day.  Space is counted in units   *)
(* of one frame.  As Windows has it, a file that is open for writing, or a *)
(* directory with a file in it, cannot be removed: boost::filesystem       *)
(* throws.  The model assumes that the clock is not set back and that a    *)
(* frame is written in the second in which it is stamped.                  *)
(***************************************************************************)
EXTENDS Integers, FiniteSets, FiniteSetsExt

CONSTANTS
    Cameras,
    DayLen,         \* seconds in a day
    DiskSize,       \* what the disk holds
    MinFree,        \* GetPercentageFreeDiskSpace
    StoreTime,      \* GetStorePeriod, in seconds
    SegmentTime,    \* m_VideoMaxSize: a file is cut when it is as old
    SegmentSize,    \* 0x2BC00000: or as large
    PassEvery,      \* the files are looked at in every 50th cycle
    DirsEvery,      \* the directories in every 100th
    MaxTime,        \* bound on the time of a behaviour
    MaxFrames       \* bound on the frames of a behaviour

ASSUME ArchiveAssumption ==
    /\ DayLen \in Nat \ {0} /\ DiskSize \in Nat /\ MinFree \in Nat /\ StoreTime \in Nat
    /\ SegmentTime \in Nat \ {0} /\ SegmentSize \in Nat \ {0}
    /\ PassEvery \in Nat \ {0} /\ DirsEvery \in Nat \ {0}
    /\ DirsEvery % PassEvery = 0
    /\ MaxTime \in Nat /\ MaxFrames \in Nat

Times == 0..MaxTime
Files == Cameras \X Times
Dirs == Cameras \X (0..(MaxTime \div DayLen))

\* Mistake: the day is counted from one.
NextDay(f) == <<f[1], f[2] \div DayLen + 1>>

\* The directory a file is put into.
Dir(f) == <<f[1], f[2] \div DayLen>>

\* None: a camera that has no file open.  The time of one that has.
None == -1

VARIABLES
    now,
    files, size,    \* the files of the archive, and their sizes
    dirs,           \* the directories of days
    open,           \* m_pVideoFileWriter: the time of the camera's open file
    step,           \* where WriteFrame is
    cycle,          \* m_storageCleaningCyclesCount, as far as it matters
    pass,           \* what the cleaner is at: no pass, space, age, dirs
    since,          \* when the pass, or the last one, began to list
    expiry,         \* lastDate
    unlisted,       \* the cameras GetStorageInfo has still to list
    list, dirList,  \* the files and directories the pass has still to treat
    doomed,         \* the directories found empty, until they are removed
    horizon,        \* the archive has no gap from here on
    frames          \* the frames so far

diskVars == <<files, size, dirs>>
writerVars == <<open, step, frames>>
cleanerVars == <<cycle, pass, since, expiry, unlisted, list, dirList, doomed, horizon>>
vars == <<now, diskVars, writerVars, cleanerVars>>

Used == MapThenSumSet(LAMBDA f : size[f], files)
Free == DiskSize - Used

IsOpen(f) == open[f[1]] = f[2]
IsEmpty(d) == \A f \in files : Dir(f) # d

TypeOK ==
    /\ now \in Times
    /\ files \subseteq Files /\ dirs \subseteq Dirs
    /\ size \in [Files -> Nat]
    /\ open \in [Cameras -> Times \cup {None}]
    /\ step \in [Cameras -> {"idle", "make", "open"}]
    /\ cycle \in 0..(DirsEvery - 1)
    /\ pass \in {"none", "space", "age", "dirs"}
    /\ since \in Times /\ expiry \in Int
    /\ unlisted \subseteq Cameras
    /\ list \subseteq Files /\ dirList \subseteq Dirs /\ doomed \subseteq Dirs
    /\ horizon \in Times
    /\ frames \in 0..MaxFrames

Init ==
    /\ now = 0
    /\ files = {} /\ dirs = {} /\ size = [f \in Files |-> 0]
    /\ open = [c \in Cameras |-> None] /\ step = [c \in Cameras |-> "idle"]
    /\ cycle = 0 /\ pass = "none" /\ since = 0 /\ expiry = 0
    /\ unlisted = {} /\ list = {} /\ dirList = {} /\ doomed = {}
    /\ horizon = 0
    /\ frames = 0

----------------------------------------------------------------------------
(* WriteFrame.                                                             *)

\* The file is old or large enough to be cut at a key frame.
SegmentEnds(c) ==
    /\ open[c] # None
    /\ now - open[c] >= SegmentTime \/ size[<<c, open[c]>>] >= SegmentSize

\* A frame arrives.  A key frame cuts the file when it is due, and opens one
\* when there is none; without a file other frames are dropped.  The frame is
\* written; without room the file is closed.
Frame(c, key) ==
    /\ step[c] = "idle" /\ frames < MaxFrames
    /\ frames' = frames + 1
    /\ IF open[c] # None /\ ~(key /\ SegmentEnds(c))
       THEN /\ open' = [open EXCEPT ![c] = IF Free > 0 THEN @ ELSE None]
            /\ size' = [size EXCEPT ![<<c, open[c]>>] = IF Free > 0 THEN @ + 1 ELSE @]
            /\ UNCHANGED step
       ELSE /\ open' = [open EXCEPT ![c] = None]
            /\ step' = [step EXCEPT ![c] = IF key THEN "make" ELSE @]
            /\ UNCHANGED size
    /\ UNCHANGED <<now, files, dirs, cleanerVars>>

\* PrepareArchiveFile: the directory is made, or is there already; a file of
\* the same second is an error.
MakeDirs(c) ==
    /\ step[c] = "make"
    /\ dirs' = dirs \cup {Dir(<<c, now>>)}
    /\ step' = [step EXCEPT ![c] = IF <<c, now>> \in files THEN "idle" ELSE "open"]
    /\ UNCHANGED <<now, files, size, open, frames, cleanerVars>>

\* CreateVideoFileWriter, and the key frame is written.  It fails without the
\* directory or without room; what it may have created is deleted.
OpenFile(c) ==
    /\ step[c] = "open"
    /\ step' = [step EXCEPT ![c] = "idle"]
    /\ IF Dir(<<c, now>>) \in dirs /\ Free > 0
       THEN /\ files' = files \cup {<<c, now>>}
            /\ size' = [size EXCEPT ![<<c, now>>] = 1]
            /\ open' = [open EXCEPT ![c] = now]
       ELSE UNCHANGED <<files, size, open>>
    /\ UNCHANGED <<now, dirs, frames, cleanerVars>>

\* ~ArchiveWriter, at the end of the capture.
CloseFile(c) ==
    /\ step[c] = "idle" /\ open[c] # None
    /\ open' = [open EXCEPT ![c] = None]
    /\ UNCHANGED <<now, diskVars, step, frames, cleanerVars>>

WriterSteps(c) == MakeDirs(c) \/ OpenFile(c)

TimePasses ==
    /\ now < MaxTime /\ \A c \in Cameras : step[c] = "idle"
    /\ now' = now + 1
    /\ UNCHANGED <<diskVars, writerVars, cleanerVars>>

----------------------------------------------------------------------------
(* PerformClean.                                                           *)

Low == Free < MinFree

\* Each pass begins with a listing of its own.
BeginPass(p) ==
    /\ pass' = p /\ unlisted' = Cameras /\ since' = now
    /\ list' = {} /\ dirList' = {} /\ doomed' = {}

StopPass ==
    /\ pass' = "none" /\ unlisted' = {} /\ since' = 0 /\ expiry' = 0
    /\ list' = {} /\ dirList' = {} /\ doomed' = {}

EndCycle ==
    /\ StopPass
    /\ cycle' = (cycle + 1) % DirsEvery

\* BackupStep.  If the parameters cannot be had the step is left out.
BeginCycle ==
    /\ pass = "none"
    /\ IF cycle % PassEvery = 0
       THEN /\ BeginPass(IF Low THEN "space" ELSE "age")
            /\ expiry' = now - StoreTime
            /\ UNCHANGED cycle
       ELSE EndCycle
    /\ UNCHANGED <<now, diskVars, writerVars, horizon>>

\* Mistake: the directories are not collected, only the files in them.
ListFilesOnly(c) ==
    /\ c \in unlisted
    /\ unlisted' = unlisted \ {c}
    /\ list' = list \cup {f \in files : f[1] = c}
    /\ UNCHANGED <<now, diskVars, writerVars, cycle, pass, since, expiry, dirList, doomed, horizon>>

\* GetStorageInfo, CollectDataFromCameraDirectory.
ListCamera(c) ==
    /\ c \in unlisted
    /\ unlisted' = unlisted \ {c}
    /\ list' = list \cup {f \in files : f[1] = c}
    /\ dirList' = dirList \cup {d \in dirs : d[1] = c}
    /\ UNCHANGED <<now, diskVars, writerVars, cycle, pass, since, expiry, doomed, horizon>>

\* The files that may come first in the sorted list.
Oldest == {f \in list : \A g \in list : f[2] <= g[2]}

\* Mistake: the comparison of the free space is the wrong way round.
WantedWhileFree(f) ==
    IF pass = "space" THEN Free >= MinFree ELSE f[2] <= expiry

\* Whether the loop of the pass goes on to the file f.
Wanted(f) ==
    IF pass = "space" THEN Free <= MinFree ELSE f[2] <= expiry

\* Mistake: the list is not sorted.
FirstUnsorted == list

\* RemoveFilesForDiskSpace and RemoveFilesForTimeExpired, one file.
First == Oldest

Earlier(s, t) == IF s <= t THEN s ELSE t
Later(s, t) == IF s <= t THEN t ELSE s

RemoveFile(f) ==
    /\ pass \in {"space", "age"} /\ unlisted = {}
    /\ f \in First /\ Wanted(f) /\ ~IsOpen(f)
    /\ files' = files \ {f} /\ size' = [size EXCEPT ![f] = 0]
    /\ list' = list \ {f}
    /\ horizon' = Later(horizon, Earlier(f[2], since))
    /\ UNCHANGED <<now, dirs, writerVars, cycle, pass, since, expiry, unlisted, dirList, doomed>>

\* The loop ends at a file it may leave, or by the exception of a file that
\* is open: then the rest of the list is given up too.
EndFilePass ==
    /\ pass \in {"space", "age"} /\ unlisted = {}
    /\ list = {} \/ \E f \in First : ~Wanted(f) \/ IsOpen(f)
    /\ IF pass = "space" THEN BeginPass("age") /\ UNCHANGED <<cycle, expiry>>
       ELSE IF cycle = 0 THEN BeginPass("dirs") /\ UNCHANGED <<cycle, expiry>>
       ELSE EndCycle
    /\ UNCHANGED <<now, diskVars, writerVars, horizon>>

\* RemoveEmptyDirs: the files of one directory are counted ...
CountFiles(d) ==
    /\ pass = "dirs" /\ unlisted = {} /\ doomed = {}
    /\ d \in dirList
    /\ dirList' = dirList \ {d}
    /\ doomed' = IF IsEmpty(d) THEN {d} ELSE {}
    /\ UNCHANGED <<now, diskVars, writerVars, cycle, pass, since, expiry, unlisted, list, horizon>>

\* Mistake: remove_all, which asks for nothing.
RemoveWithFiles(d) ==
    /\ d \in doomed
    /\ dirs' = dirs \ {d} /\ files' = {f \in files : Dir(f) # d}
    /\ doomed' = {}
    /\ UNCHANGED <<now, size, writerVars, cycle, pass, since, expiry, unlisted, list, dirList, horizon>>

\* ... and it is removed if there was none.  If there is one by now, the
\* exception ends the cycle, which does not count.
RemoveDir(d) ==
    /\ d \in doomed
    /\ IF IsEmpty(d)
       THEN /\ dirs' = dirs \ {d}
            /\ doomed' = {}
            /\ UNCHANGED <<pass, since, expiry, unlisted, list, dirList>>
       ELSE StopPass /\ UNCHANGED dirs
    /\ UNCHANGED <<now, files, size, writerVars, cycle, horizon>>

EndDirs ==
    /\ pass = "dirs" /\ unlisted = {} /\ dirList = {} /\ doomed = {}
    /\ EndCycle
    /\ UNCHANGED <<now, diskVars, writerVars, horizon>>

Clean ==
    \/ BeginCycle \/ EndFilePass \/ EndDirs
    \/ \E c \in Cameras : ListCamera(c)
    \/ \E f \in list : RemoveFile(f)
    \/ \E d \in Dirs : CountFiles(d) \/ RemoveDir(d)

Next ==
    \/ \E c \in Cameras : WriterSteps(c) \/ CloseFile(c) \/ \E key \in BOOLEAN : Frame(c, key)
    \/ TimePasses
    \/ Clean

\* The threads run; whether frames come is left open.
Fairness == WF_vars(Clean) /\ \A c \in Cameras : WF_vars(WriterSteps(c))

Spec == Init /\ [][Next]_vars /\ Fairness

----------------------------------------------------------------------------
\* The archive has no holes in time: a file is never removed before one that
\* is older, of whatever camera, unless that one was begun after the pass had
\* begun to list the files.  (The horizon is the latest time up to which
\* passes have removed, never later than their listing.)
ArchiveIsNewest == \A f \in files : f[2] >= horizon

\* The file a camera is writing is there, in its directory, whatever the
\* cleaner does between counting the files of a directory and removing it.
WriterHasFile ==
    \A c \in Cameras : open[c] # None => <<c, open[c]>> \in files /\ Dir(<<c, open[c]>>) \in dirs

\* Nothing but an open file that is the oldest of all keeps the cleaner from
\* making room: once no more frames come there is enough, or nothing left.
Blocked == \E f \in files : IsOpen(f) /\ \A g \in files : f[2] <= g[2]
SpaceRecovers == <>[](~Low \/ Blocked \/ files = {})

\* An empty directory is removed in the end, or gets a file: a removal that
\* fails is tried again.
EmptyDirsGo == \A d \in Dirs : (d \in dirs /\ IsEmpty(d)) ~> (d \notin dirs \/ ~IsEmpty(d))
=============================================================================
