# TLA+ models of the DVR system

The repository is a digital video recorder for Windows: a server process grabs
video from capture cards, writes it to an archive, analyses each camera's image,
combines the cameras into the picture of a "hall" and records the periods of
activity; a client shows the video with the rectangles of moving objects. This
directory holds TLA+ models of its concurrent and stateful core, the TLC
configurations that check them, and proofs checked by TLAPS.

Source paths below are relative to `src/`.

## 1. The system

### 1.1 The server, `DVREngine/trunk/server` (modelled)

| part | state | operations | hard behaviour | what makes it correct |
|---|---|---|---|---|
| message queue (`message/MessageQueue.h`) | a bounded deque and a mutex; the batch a running `ProcessQueue` has taken over | `Push` from any thread, `MoveTo` and `Front(true)` by the owner | overload, an exception in the middle of a batch | bounded, keeps the newest, never reorders or repeats, never keeps a message for ever |
| controlled thread (`AnalyzeThread.h`, `BaseQueueThread.*`) | the work flag, the thread | construction starts it, `DoAction` in a loop that swallows exceptions, destruction clears the flag and joins | the flag is never initialised; who is destroyed first | nothing is destroyed before its users, destruction ends |
| camera thread (`CameraThread.*`, `CameraServer.*`) | the video reader, the analyzer, the invalid-image mode, the rectangles in the video stream | read a frame, analyse, send data to the server, take the rectangles of the hall | loss and return of the signal while answers are on their way | no rectangles without a signal, none older than those shown |
| hall thread (`HallThread.*`) | the hall analyzer | take a camera's data, answer a request with rectangles | analyzer missing or throwing, destruction | each camera's data arrive in order, once |
| main thread and its states (`ServerImpl.*`, `state/*`) | the state object, the camera server, the hall, the activity record, the backup | dispatch messages, `LaunchThreads` with retries, ask the hall on each tick | a launch that fails half-way, the next one over its remains, destruction in the middle | a relaunch starts from scratch, the record is there when needed, the launch is retried |
| activity record (`ActivityRecord.*`) | the open period of each camera | `ProcessFrames`, destruction | silence, length limit, calls that are far apart | periods neither overlap nor forget, bounded loss |

How they interact: the three kinds of thread never call each other; each pushes
messages to the queue of another. A camera pushes `MsgCameraResponseData` to the
server; the server's thread turns it into `MsgHallSetCameraData` for the hall,
and pushes `MsgHallRequestAlarmData` on every tick of a 500 ms timer; the hall
answers with `MsgHallResponseAlarmData`, which the server turns into one
`MsgCameraSetHallData` for each camera. The main thread creates and destroys the
cameras and the hall, on its own, in `LaunchThreads`; the thread that owns
`ServerImpl` destroys everything.

### 1.2 The video system, `chcsva/trunk`, and the backup, `DVRBackup` (modelled in part)

| part | state | operations | hard behaviour | what makes it correct |
|---|---|---|---|---|
| capture of a card (`StreamDevice.cpp`, `FrmBuffer.cpp`, `ext/ImageGraph/ServerStream.cpp`, `ext/manager/CaptureServer.cpp`; the readers of `server/grabber`) | the current pin and the input of the card; a pool of reference-counted buffers per pin; the last frame of each stream; the frame each reader has | deliver a frame and route to the next pin, keep the last frame, take it, disable a pin, take all down | three kinds of thread share a frame, the count falls to zero outside the pool's lock, frames arrive after the routing, a routing fails | the count is the number of owners, nobody's frame is overwritten, the pool is bounded, no frame goes to another camera, each camera gets its turn |
| archive writer (`ext/archive/ArchiveWriter.cpp`) | the open file | write a frame, cut, make directories, create a file | the directory goes, the name exists, the disk is full | the file being written is there |
| archive backup (`DVRBackupImp.cpp`, `Storage.cpp`) | a thread, its cycle counter, the lists of the pass | list, remove by space and by age, remove empty directories | stale lists, files that are open, directories that fill while they are removed | the oldest go first, space is made, empty directories go |
| remote video (`ext/remote`) | the provider's connections, each with a thread; the proxy's connection and its assembler | send a frame to all, accept, drop; receive, assemble, connect again | packets sent or received in part, breaks, full buffers, restarts | frames are in order, a lost framing spoils its own connection only, no thread outlives its connection, the client recovers |

How they interact: the capture thread of a card calls down one chain of filters,
each inside the `PushImage` of the one before: the pin, the stream that keeps
the last frame, the compressor, the archive writer, the provider of remote
video. The engine's camera threads meet this chain only at the stream's last
frame, the backup only in the file system, and the remote client only over TCP.

### 1.3 The other parts

| part | what it is |
|---|---|
| client-server tier (`server/tier/ClientServerTier.*`) | the last rectangles per camera in one slot under a lock; the server overwrites, the client polls and clears |
| archive readers, remote archive (`ext/archive/*Reader*`, `ext/remote/archive`) | access to AVI files by index, locally or by request and answer |
| image analysis (`DVRAlgo`) | numeric algorithms on pixels |
| database bridge (`DVRDBBridge`), registry settings | list cameras, add periods: registry and SQLite |
| client, controls, renderer, installer, tests | a user interface on one thread; no part of the running server |

Section 7 says what is left to do, and section 8 why the rest stays out.

## 2. Modules

| module | what it is |
|---|---|
| `MessageQueueOps` | the container of `MessageQueue.h` as operators on sequences: `Push` and the capacity it allows |
| `LossyFifo` | the abstract promise of a stream of numbered items between two threads: some may be lost, the rest arrive once and in order |
| `MessageQueue` | one queue with the threads that push, the owner that takes it over and handles the batch, and the exception that loses the rest of it |
| `MessageQueueProofs` | its theorems |
| `EngineState` | the state of the whole server, its messages, its type invariant, and the removal of one camera, which two threads perform |
| `CameraThread`, `HallThread`, `ServerThread` | one module per kind of thread, one action per handler or step, all over the variables of `EngineState` |
| `Engine` | the composition: the destruction of the server, `Init`, `Next`, the properties, the fairness |
| `EngineProofs`, `EngineSafety`, `EngineFrames` | type correctness; the safety invariants; the refinement of `LossyFifo` by the whole path of a frame, and the order of the rectangles on their way back |
| `ActivityRecord`, `ActivityRecordProofs` | the periods of activity; the proofs of all its properties |
| `Capture`, `CaptureProofs` | one card: the turn of its pins, their pools of frames, the streams and their readers, setting up and teardown; the proofs of all its invariants |
| `Archive`, `ArchiveProofs` | the writers of all cameras and the cleaner, meeting in the file system; the proofs of its invariants |
| `RemoteVideo`, `MCRemoteVideo`, `RemoteVideoProofs` | the provider, its connections, TCP, the assembler and the proxy; its instance for TLC; the proofs of its invariants |

`EngineState` extends `MessageQueueOps`, so that the three queues of the server
are the very container that `MessageQueue` examines alone. `Engine` and
`MessageQueue` both instantiate `LossyFifo`, with different mappings: a queue
with its batch is such a channel, and so is the path over two queues and two
batches from a camera to the hall's analyzer. `RemoteVideo` is the third: each
camera's frames over TCP, through every loss of the connection, are such a
channel too. The promise is the same wherever the system hands frames on: some
may be lost, none comes twice or late.

### 2.1 How the state corresponds

| variable | code |
|---|---|
| `camPc[c]` | `"Absent"`: not in `CameraServer::m_CameraThreads`; `"NoThread"`: in the map, but no thread (no analyzer); `"Image"`: at the head of `DoAction`, about to check the flag and read; `"Take"`: about to run `ProcessQueue`; `"Off"`: the loop has ended |
| `camWork`, `hallWork`, `mainWork` | `ControlledThread::m_CondWorking` |
| `camQueue`, `hallQueue`, `serverQueue` | the `MessageSyncQueue` of each thread |
| `hallBatch`, `mainBatch` | the local queue of a running `ProcessQueue` |
| `camSeq[c]` | how many frames with a signal the camera delivered (the frame's contents) |
| `invalid`, `userData` | `m_bInvalidImageMode`, the rectangles set into the video stream |
| `hallSeen[c]` | the newest frame of `c` the hall's analyzer was given |
| `hallAnalyzer` | what `m_pAnalyzer` points to: nothing yet, the stub, the real one, freed memory |
| `state` | which state object; `"FirstTime"` is the connecting state before its first attempt |
| `toStart`, `mainPc` | where `LaunchThreads` is; `"Take"`, `"Batch"`, `"Post"` are the parts of a pass of the main loop |
| `recorder` | `m_FrameActivityStatistics` is not null |
| `owner` | where the destruction of `ServerImpl` is, in the order in which C++ runs destructor bodies, members (last declared first) and bases |

Grain of atomicity: a step is one locked section of a queue, one handler, or one
call of `LaunchThreads` that can fail. A handler is one step because what it
touches besides a queue belongs to its thread alone. `CameraTake` takes the
queue and handles the answers in one step for the same reason; the choice of
how many of them were handled is the exception that loses the others.
`HandleHallResponse` pushes to all the cameras at once: the cameras only pop, so
another order of pushes differs in nothing they can see of each other. The work
flag is read in the same step as what follows the check, since whoever clears it
does nothing but wait for the thread.

`Capture`, `Archive` and `RemoteVideo` have variables of their own; the engine's
modules see the video system only by the outcomes of a read.

| variable of `Capture` | code |
|---|---|
| `curpin`, `techwell`, `enabled` | `m_curpin`, `m_bUseTechwellDriverHack`, `m_bEnabled` of each pin |
| `input`, `pipe` | the card's input, and the frame it has taken and not yet delivered (external) |
| `at`, `frame` | where the capture thread is in `OnBufferCB`, and the buffer in its hands |
| `alive`, `free`, `ref`, `data` | the buffers of each pin's allocator, `m_freeList`, `m_lrefCount`, the contents |
| `last` | `m_pFrameLast`; `at` being "recycle" or "store" is `m_lastFrameSect` taken |
| `held`, `dying`, `seen` | `ServerVideoReader::m_pFrame`, a buffer whose count has fallen to zero and is not yet back in the pool, what was read |
| `attached`, `phase` | which pins have a stream; where `UninitializeWork` is |

A count is changed in one step, as `InterlockedDecrement` does it, and the
buffer goes back to the pool in another, under `m_listSection`. The two are one
step only in `ReleaseFrame` and `ClearStream`, where no other thread can have
the buffer: the first is after the stream has taken its reference or has no
connection, the second is when all threads have ended.

| variable of `Archive` | code |
|---|---|
| `files`, `size`, `dirs` | the tree under the archive's path; a file is its camera and its second |
| `open`, `step` | `m_pVideoFileWriter` of each camera; where `WriteFrame` is between making the directory and creating the file |
| `cycle`, `pass` | `m_storageCleaningCyclesCount`; which of the three parts of `PerformClean` is under way |
| `unlisted`, `list`, `dirList` | how far `GetStorageInfo` is, and what it has found |
| `doomed` | the directory counted empty in `RemoveEmptyDirs` and not removed yet |
| `since`, `horizon` | auxiliary: when the pass began to list, and up to when files have been removed |

| variable of `RemoteVideo` | code |
|---|---|
| `clients`, `running`, `working`, `failed` | `m_Clients`, the thread of each connection, `m_bWorking`, `m_bErrorWhileSending` |
| `push`, `server` | where each capture thread is in `PushImage`; where `BasicNetServer::Stop` is. Either may hold `m_MapSync` (`Locked`) |
| `backlog`, `link`, `wire` | TCP: connections nobody has accepted, the state of each, the bytes under way |
| `proxy`, `conn` | where the loop of `NetTCPConnection::ThreadFunc` is on the client's side, and its socket |
| `buf` | what is left of the bytes `ReceiveData` was called with |
| `valid`, `total`, `data` | `m_StreamData`: `TotalValid`, `TotalBytes`, `Data` |
| `delivered` | the last frame of each camera that `OnReceivePacket` was given |
| `cut`, `split` | auxiliary, of the client's connection: a packet was sent in part; a receive ended inside a marker |

A byte is a triple of camera, frame and position in the packet, so that a
property can tell where each came from; the number that bytes which are no
marker would be read as is any of `Garbage`, negative ones included. The first
byte of a frame stands for its header: `OnReceivePacket` hands a packet to the
camera it names, and refuses one that begins with any other byte, whatever else
is in it. A send takes any part of a packet (`Takes`), and `SendData` notices no
more of it than `NetSocket::Send` does.

Frames are numbers, and everything computed from frame n of a camera is n:
rectangles, the hall's data. That is all the properties tell apart.

Definitions whose comment starts with "Mistake:" are not part of the behaviour.
Each is a plausible bug in the definition after it, kept to show that some
property notices it.

## 3. Runs

| run | instance | what it shows |
|---|---|---|
| `MessageQueue` | limit 2, 7 pushes | losses explained, newest kept, refinement of `LossyFifo`, and every message settles |
| `EnginePath` | one camera, 3 frames, limit 1, either value of the flag | type invariant, no rectangles without signal, rectangles in order, frames in order |
| `EngineLaunch` | two cameras, 1 frame each, limit 0 | bounded queues, relaunch from scratch, the record is present, users go first |
| `EngineLive` | one camera, 1 frame, limit 1, the flag as intended | launch retried, shutdown completes, frames settle |
| `ActivityRecord` | one camera, timeout 1, limit 2, gap 2, 7 seconds | disjoint periods, nothing forgotten, bounded silence and open length |
| `Capture` | three inputs, two with a camera, one of these read; free list of 1, times 0 to 2, one routing fails | counting of frames, held frames intact, bounded pool, no frame of another camera, reads in order, each camera's turn |
| `Archive` | two cameras, days of 2 s, 3 units of disk, 2 to be free, 3 frames, files looked at every 2nd cycle and directories every 4th | oldest first, the writer's file is there, space recovers, empty directories go |
| `RemoteVideo` | one camera, two connections, packets of 2 + 2 bytes, any part of which a send may take, room for one and a half of them, lengths read as -1, 1 or 2, two faults | whole packets wherever nothing was cut or split, no thread without its connection, `LossyFifo`, the dead are dropped, `Stop` returns, the client recovers |
| `EngineInadmissible`, `EngineAnalyzer`, `EngineFlag` | one camera, 1 frame | three places where the code does what it says it does not (section 6) |
| `RemoteMarker` | one camera, one connection, packets of 4 + 6 bytes, any receive | a fourth: a packet sent whole, and a receive that ends inside its marker |

### 3.1 Why the bounds are enough

- A limit of 0, 1 or 2 makes overflow the ordinary case (the code's limit is
  100); with the limit at 1, two of the three frames fit and the third pushes
  one out. The theorems hold for every limit.
- One camera is enough for the path of a frame: the paths of two cameras share
  only the queues, whose overflow one camera and the requests already produce.
  Two cameras are needed for the launch: one runs while the next one fails, and
  the destructor meets the first while the second still runs.
- Three frames give: one that is shown, one on its way and one that is newer.
- `MaxFrames`, `MaxSent`, `MaxTime` end the behaviours; `MaxRequests` bounds how
  many requests the tick may leave unanswered in the hall's queue. They are the
  only bounds, in the guards of `NewFrame`, `PushMessage`, `TimePasses` and
  `GatheringTick`.
- Time in `ActivityRecord` is in whole seconds, as in the code; the timeout and
  the limit are scaled from 5 and 300 to 1 and 2, so that a period can be closed
  by silence, closed by length, or prolonged across a silence, within 7 seconds.
- `Capture`: with three inputs the next enabled pin may be a neighbour, the one
  after it, or the same; the code's four add no other case. Three times let an
  old frame, the last and the next be told apart; four buffers are one more than
  a pin needs, and a free list of 1 is both filled and overrun. The reader is
  one because the buffers of two pins have nothing in common.
- `Archive`: the disk fills up with two files and has to be cleaned for the
  third; the first and second seconds are one day and the third the next, so
  that a directory empties while another fills. A file may be cut by age or by
  size, and two cameras list one after the other. `MaxTime` and `MaxFrames`
  bound `TimePasses` and `Frame`; the cleaner itself is not bounded.
- `RemoteVideo`: packets of two bytes of each kind have a send or a receive end
  before, inside and after each part; a connection that breaks inside a packet
  leaves each possible part of it in the assembler, and two connections allow
  the old one to be still in `m_Clients` when the new one is accepted. With room
  for a packet and a half the buffer itself cuts the second packet, too. Bytes
  that are no marker are read as a length below zero, one too small or the right
  one; one that is too large only keeps the assembler waiting, as the right one
  does at the end of the frames. Two faults let a loss follow a loss, a restart a
  loss, and a connect fail after either. What two cameras share is the lock, at
  which one of them and `Stop`, or one and `Accept`, already meet; the order of
  the streams and the waits are proved for any number of cameras. `MaxFrames`
  bounds the frames that are followed: a capture thread goes on calling
  `PushImage` after them. `MaxFaults` bounds `Break`, `StopServer` and failing
  calls of `Connect`.
- `CHECK_DEADLOCK FALSE` is in every configuration because every system here may
  end: a destroyed server, an idle queue after the last push, the end of time.

### 3.2 Fairness

`MessageQueue` assumes weak fairness of the owner's thread. `Engine` assumes,
for `EngineLive` only:

- weak fairness of each thread: they are operating-system threads in endless
  loops;
- weak fairness of the destruction, once begun: it is straight-line code that
  only waits for joins;
- strong fairness of a tick (`GatheringTick`, `ConnectionTick`): each pass of
  the loop asks a timer whose period has a fixed length, so not every pass can
  find it early;
- strong fairness of the successful outcome of each step of a launch (the
  database answers, the video system starts, the system grants a thread). This
  is an assumption on the environment, not on the code: with a database that is
  never there no launch can succeed. The property shows the code adds no
  obstacle of its own.

`Capture` assumes weak fairness of the card and the capture thread together, and
nothing of the readers or the main thread. `Archive` assumes it of the cleaner's
thread and of each writer once it has begun to open a file; that frames go on
coming is not assumed. `RemoteVideo` assumes:

- weak fairness of the frames of some camera (while the capture is on, the
  provider is called), of the connections' threads, of the proxy's loop, and of
  the end of `Stop`, which is straight-line code, and the restart after it;
- strong fairness of `Accept`, of whichever connection: the one thread that
  accepts competes for `m_MapSync`
  with the capture threads, which give it back after every frame. A lock that
  starved it for ever would need one that prefers the others each time;
- nothing of `StopServer`, `Break` or `StopProxy`.

`EngineLive` fixes the work flag at TRUE: with the flag left to chance a thread
may never work, which is the subject of the run `EngineFlag`, and every safety
property is checked with it.

## 4. Proofs

All proofs are for every finite set of cameras, every queue limit, every bound
on frames and requests, and every possible initial value of the flags; the only
assumptions are the ASSUMEs of `MessageQueueOps`, `MessageQueue`,
`EngineState`, `ActivityRecord`, `Capture`, `Archive` and `RemoteVideo`, which
restrict the constants to their kinds. Three of these say more: a card has more
than one input, a pin's memory holds at least three buffers, and the directories
are looked at in a multiple of the cycles in which the files are.

- `MessageQueueProofs`: the invariant `IInv` adds `BatchOrdered` to the checked
  invariants: the batch ascends, all of it is newer than what was handled last
  and older than the whole shared queue. `QueueIsNewest` speaks of the shared
  queue alone, and the refinement of `Handle` needs to know that what is handled
  leaves only newer messages behind. That the queue holds at most
  one message more than its limit (`QueueBounded`) is another of its parts.
  From `IInv` follow `QueueTypes`, `NewestKept` and, one case per action,
  `Refinement`. `LossIsExplained` says in which three ways a message leaves, `QueueIsPerfectBelowItsLimit` that without
  two of them, an exception and an overflowing push, nothing is skipped.
  `WaitsAreShort`: what is to come before a waiting message is handled is a set
  (`ToCome`) from which each step of the owner takes and to which nothing adds.
- `EngineProofs`: `TypeOK` needs one more part, `BatchAtHand`: while a thread is
  at "Batch" its batch is not empty. Without it the head of the batch has no
  type.
- `EngineSafety`: `ControlInv` adds where the threads are while the destruction
  is at a given point (`GoneInOrder`); that a launch in progress, a hall at work
  and an answer of the hall in the server's queue or batch belong to different
  states of the server (`OneLaunch`); and from which step of a launch to which
  step of the destruction there is a record (`RecorderKept`). None of the three
  theorems is inductive without these: that an answer finds the record, for
  example, rests on answers existing only in the gathering state. From
  `ControlInv` follow `RelaunchIsClean`, `RecorderIsPresent` and `UsersAreGone`.
  `QueuesAreBounded` and `SignalRespected` are inductive relative to the type
  invariant. Three theorems say what the findings of section 6 come down to:
  `AnalyzerOutlivesWork`, that only the order inside `~HallThread` takes the
  analyzer from a thread; `OnlyTheFlagEndsThreads`, that with the flag initialised
  to TRUE no thread ends untold; `OnlyLateFailuresLeaveMessages`, that a server in
  which no launch fails after it began to start cameras never meets its assertion.
  The last two need an invariant of their own each: who may have been told at
  which point (`EndsWhenTold`), and that before the first late failure there is
  no camera, nor anything of one, outside the gathering state (`QuietBefore`).
  `DestructionIsBounded`, `ToldThreadsAreBounded` and `NoJoinWithoutTelling` are
  the safety half of `ShutdownCompletes`: the steps left to the owner, and to each
  thread once it is told, form finite sets (`OwnerLeft`, `MainLeft`, `HallLeft`)
  that shrink with each of their own steps and grow with nobody's, and no join
  of the main thread or the hall waits for one that was not told.
- `EngineFrames`: the whole path of a camera's frames implements `LossyFifo`.
  The invariant `FrameInv` says that the frames of a camera in the hall's batch,
  the hall's queue, the main batch and the server's queue are each in order,
  that all in one are older than all in the next, that the analyzer has seen
  only older ones and that none is newer than what was read. Its other part,
  `AtRest`, says that a thread not at its batch has none, and that before the
  gathering state the hall has seen nothing: otherwise the `NewHall` of a
  relaunch, which gives the hall an empty memory, would be no step of the
  channel. `Channel(c)` is the refinement mapping. `BackInv` follows the
  rectangles back: along what a camera shows, its queue, the main batch and the
  server's queue the frames they come from do not decrease, and none is newer
  than what the hall has seen of that camera. A new answer is made of what the
  hall has seen, which `FrameInv` says only moves forward, so that it may go to
  the end of the path: `RectsArriveInOrder`. From the same invariant,
  `RectsOnlyForward`: what a video shows is never replaced by something older;
  and `RectsWereSeen`: it comes from a frame the analyzer was given.
  `LaunchStartsAfresh` says for all launches what the refinement needs of the
  hall: a camera outside the map, and a hall about to start, have nothing left of
  an earlier life.
- `ActivityRecordProofs`: all the properties of the record, for every timeout,
  limit and gap between calls. The invariant `RecordInv` adds that the last call
  is at most a gap ago (`CallsRecent`); that an open period ends in a second in
  which its camera was reported and was neither silent nor long enough to be
  closed at the last call (`OpenSound`); and that what was written lies before
  what is open (`WrittenFirst`). The bound on a silence needs the second of
  these together with the first: a report may prolong a period whose silence
  was still within the timeout at the call before. `WrittenFirst` is what
  keeps a new period from overlapping one that was written. `PeriodsAreFit` bounds
  a period's length by the limit, a timeout and a gap together, a bound TLC
  finds reached, and says that its ends are reported seconds.
  `ActivityIsNotSplit`: only a silence longer than the timeout or a period longer
  than the limit separates two periods, as long as the record is not destroyed;
  without that hypothesis TLC finds it violated, by a relaunch.

- `CaptureProofs`: `CaptureInv` says at each point of the capture thread what it
  has in its hands (`FrameInHand`); that each count is the number of owners
  (`Counted`); that what a reader or a stream has been lent is in use and not
  free (`Lent`); that a buffer on its way back to the pool is on one way only
  (`SpareOnce`), without which a buffer could come back twice; that only a pin
  with a stream has a last frame (`StreamsInUse`); that nothing is held any more
  once the readers have ended (`Quiet`); and that with the driver hack the frame
  being delivered is of the current pin (`FrameExpected`). `PoolsAreBounded`
  counts: what is alive is free, owned by one of three, or on its way back.
  `OrderInv` is about the times in the buffers: what a reader has seen is at
  most as new as what its stream offers, that is at most as new as the frame
  the pin is about to store, and that as new as the clock. It holds because the
  data of a buffer change only while nobody has it (`LentDataKept`), which is
  where `CaptureInv` is needed; `ReadsAreInOrder` follows. `TurnsAreFair` is the
  ranking argument of `EveryCameraRouted`: `StepsToTurn(p)`, from the distance to
  pin p around the card and the place of the capture thread, decreases with each
  of its steps, and no other thread changes it while the capture works; a frame
  of an earlier pin, an empty one or a failed routing is paid for in the rank.
  `BuffersComeBack` and `FlushesAreSafe` are about the teardown: it destroys only
  free buffers, and in the end all of them.
- `ArchiveProofs`: `ArchiveInv` adds that each file lies in a directory that is
  there and an open file is one of the files (`FilesInDirs`, `OpenThere`); that
  once the cameras are listed, every file older than the pass is on its list
  (`ListComplete`), the fact from which oldest-first follows for files that
  closed or opened while the list was made; and that no file or horizon is in
  the future (`InThePast`). `OnlyOldOrNeededFilesGo`: at the moment of its
  removal a file is closed, and the disk is short of space or the file has been
  kept for the store time. `CleanerCyclesEnd`: what is left of a cycle
  (`CycleLeft`) shrinks with each step of the cleaner, and no writer adds to it.
- `RemoteVideoProofs`: `BaseInv` gives the types and the threads: a thread that
  runs has its connection, one whose connection was dropped from the list has
  been joined. `LinkInv` says that without a connection nothing is left of one:
  the assembler is empty, nothing was cut or split, and only an ended thread may
  have anything in its hands. `StreamInv` describes the bytes in flight, the
  assembler's, then those of the last receive, then those of the connection:
  they are a run of packets of which only the first may have lost its beginning,
  and that up to a packet's first byte or to the end of its marker (`Chained`,
  `Genuine`, `Whole`), and the assembler never waits inside a marker. It holds
  as long as the connection is `Framed`, and `LinkInv` is what makes it hold
  again on the next one, however the last was spoilt: `FramedInv` is the two
  together. Lemmas on such runs say that a suffix, a prefix and a juxtaposition
  of them are again such runs, and what the assembler cuts off at the front is
  one marker or one frame. `PacketsStayWhole` follows without any assumption on
  what a send or a receive takes; that it may not leave out either half of
  `Framed` is what `RemoteMarker` shows of the one and the observation in
  section 6 of the other. `AssemblerNeverThrows` follows from the same: an
  exception, a wrong length or more than a frame kept needs a packet cut or a
  marker split on this very connection.
  `OrderInv` needs no framing: cut or not, the bytes in flight of one camera
  ascend in frame and position, each header is of a newer frame than the last
  delivered, and no byte is of a frame not sent. A step leaves a part of the
  bytes in flight (`PartOf`: a part that stays in order) or appends a beginning
  of the newest packet of one camera, and what is handed on is what the first
  byte says, so that each step is one of the channel or leaves it alone:
  `StreamsKeepOrder`. `SocketsDoNotLeak` says whose each connection is at each
  state of it. `OneWaiter` and `WaitsAreBounded` are about the waits under
  `m_MapSync`: one at a time, by `Stop` only for threads that know of it, and
  during one the steps left to the threads of the connections (`ThreadsLeft`)
  only become fewer.

Model-checked only: the liveness properties `Settled`, `FramesSettle`,
`LaunchRetried`, `ShutdownCompletes`, `EveryCameraRouted`, `SpaceRecovers`,
`EmptyDirsGo`, `DeadDropped`, `StopReturns` and `ClientRecovers`. What they need
besides the proved sets and ranks is that somebody takes the next step, which is
fairness and ENABLED, and an induction over the rank; neither is within the
prover's backends. `LaunchRetried`, `FramesSettle`, `SpaceRecovers`,
`EmptyDirsGo` and `ClientRecovers` have no such rank here: each is about many
passes, of which only one pass or wait is bounded above. Sums over a set of
files (that what is used never exceeds the disk) would need induction over the
set, and are not stated.

## 5. What the properties rule out

Each property is broken by at least one of the "Mistake" definitions:

| property | the bug that breaks it |
|---|---|
| `LossExplained` | a push that finds the queue full empties it |
| `QueuesBounded` | a push without the test of the size |
| `QueueIsNewest` | overload drops at the wrong end |
| `RefinesFifo` | the batch is handled newest first |
| `Settled`, `FramesSettle` | the queue is copied and not cleared |
| `TypeOK` (Engine) | the camera's message is passed to the hall as it is |
| `NoRectsWithoutSignal` | the loss of the signal leaves the rectangles |
| `RectsInOrder` | the hall answers from data that are still queued |
| `FramesInOrder` | after an exception the batch is taken up again |
| `RelaunchFromScratch` | only idle cameras are dropped before a relaunch |
| `RecorderPresent` | the record goes before the main thread is joined |
| `UsersGoFirst` | the hall goes away without a join |
| `LaunchRetried` | one attempt only |
| `ShutdownCompletes` | the hall's thread is never told to stop |
| `PeriodsDisjoint` | a written period stays in the map |
| `EverySightingKept` | the destructor drops the open periods |
| `NoLongSilence`, `OpenPeriodBounded` | one of the two tests in `DumpActivityPeriod` is missing |
| `RefsCounted` | the stream keeps the frame without a reference of its own |
| `HeldIntact`, `ReadsInOrder` | the reader takes the last frame without the critical section |
| `PoolBounded` | the free list is never used |
| `OwnFrames` | the driver's mark is not looked at |
| `EveryCameraRouted` | only the neighbouring pin is tried |
| `ArchiveIsNewest` | the list is not sorted |
| `WriterHasFile` | the directory is removed with what is in it |
| `SpaceRecovers` | the test of the free space is the wrong way round |
| `EmptyDirsGo` | the listing leaves the directories out |
| `TypeOK` (RemoteVideo) | another field of the header is taken for the frame's |
| `PacketsIntact` | the assembler keeps what a broken connection left |
| `NoThreadOutlives` | a connection is erased without a join |
| `StreamsInOrder` | what a send took is sent once more |
| `DeadDropped` | the end of a connection does not end its thread |
| `StopReturns` | `Stop` waits for threads it has not told to end |
| `ClientRecovers` | to read nothing is not taken for the end of the connection |

## 6. Where the code does not keep what it says

1. `EngineInadmissible`: a launch that fails after its cameras have started
   leaves them sending to a server in the connecting state, whose handler of
   their message is `_ASSERT(false)`.
2. `EngineAnalyzer`: the destructor of `HallThread` is empty; the analyzer, a
   member, is deleted before the base class stops the thread that uses it.
3. `EngineFlag`: `ControlledThread` never initialises its work flag, so that a
   thread may end before it has done anything.

4. `RemoteMarker`: the assembler of packets loses count when the marker of a
   packet comes in two receives (`NetPacketAssembler.cpp:74-76`), which TCP may
   do although the sender passes the marker and the frame in one call, and all
  of it is taken: the comment at `:99` says that this is what it takes.

Smaller observations, without a run: `MessageQueue.h:33` calls `m_nMaxSize` the
maximal size of the queue, and `Push` lets it hold one more; a silence may be
covered by a period for longer than the timeout, because a new rectangle
prolongs the period before the timeout is tested (`NoLongSilence` states the
bound that does hold); `EqualFrameDetection` compares with a time it never
stores, so that no frame is ever recognised as repeated, and the model has no
such branch.

Of the capture:

- With the driver hack a frame that is not of the current pin ends `OnBufferCB`
  before the routing (`StreamDevice.cpp:131`), and the result of a routing is
  ignored (`:152`). A single routing that fails, or a card that starts at another
  input than the first (`Device.cpp:1140-1145`), therefore leaves all cameras of
  the card without frames for ever; `EveryCameraRouted` excepts this state
  (`Lost`), and has nothing else to except. Without the hack a frame that was
  under way during the routing is taken for the next camera's; `OwnFrames` is
  stated for the hack.
- `CompressFilter.cpp:192-196` gives an unsigned number of milliseconds to
  `MulDiv`, which takes an `int`: after 2^31 ms, 24.86 days, frame numbers are
  negative and nothing more is recorded or sent.
- The model takes it that no frame is delivered after `DeleteAllDevices`; the
  code only pauses the graph (`StopDevice`, `Device.cpp:939-953`) and lets go of
  its interfaces (`StreamDevice.cpp:162-166`), and relies on DirectShow for it.

Of the archive:

- `BackupParam.h:39-40` and `Storage.hpp:92-93` speak of a minimum of free space
  that is kept. A camera that sends no frames keeps its file open; when that is the oldest of
  all, both passes stop at it each time, and the disk fills up (`Blocked`).
- A file that was begun while a pass made its list may be older than one the
  pass then removes; hence the horizon in `ArchiveIsNewest`, which stops at the
  beginning of the listing.
- `BackupParam.h:51` speaks of local time; `DVRBackupImp.cpp:140` computes in UTC
  what is removed from the database, and in local time (`:131`) what is removed
  from the disk.
- A second file of a camera in the same second, also after the clock is set back
  an hour, is refused, and frames are dropped until the next key frame.

Of the remote video:

- `Send` does not look at how much was taken (`NetSocket.cpp:135`), on a socket
  that does not block. What is not taken of a packet is lost, and the client
  reads the next packet as the rest of it, then frame data as lengths, until the
  connection ends: a length below zero ends its thread by an exception that is
  no `NetException`, a large one keeps it collecting. `PacketsIntact` says what
  is left to rely on, that this never outlives the connection; no run finds the
  loss itself, as nothing in the repository promises otherwise.
- "Automatically recovers connection after one has been broken"
  (`NetTCPConnection.h:128`): not when `connect` fails at once. At the start that
  ends the proxy's thread; later it leaves a new socket on which nothing will
  happen. Nor when the thread was ended by an exception in the assembler.
  `ClientRecovers` excepts all three. A server that dies without a word is
  never noticed either, since the proxy only reads.
- The relative times of a restarted server begin anew, against the assertion in
  `DecompressFilter.cpp:74`.

## 7. Plan

Done: the message queue, the engine's threads with launch and destruction, the
activity record, the capture of a card, the archive with its writer and its
cleaner, the remote video, and the proofs of section 4. What is left, in this
order:

1. Two cleaners at once: on a relaunch the new backup starts before the old one
   is destroyed (`ServerImpl.cpp:238`), each with its own lists.
2. The remote archive (`ext/remote/archive`): requests and answers over the
   connections of `RemoteVideo`, with a client that waits and gives up.
3. A clock that is set back, in `ActivityRecord` and in the names of `Archive`,
   and the properties that survive it.

## 8. Not modelled, and abstractions

- The set of cameras is fixed for a behaviour. In the code each attempt reads
  the configuration anew (`GetCameras` clears the list first), and the
  configuration may change between attempts or name one id twice.
- No analysis (`bLaunchAlgo` false) is the same as an empty set of cameras.
- The analyzers (`DVRAlgo`) are choices of outcome: data or none, motion at any
  subset of the cameras seen, an exception at any point. Their numerics are not
  modelled.
- The video system is present by its outcomes: started or not, a camera's video
  or not, a frame with a signal, without, or none in time.
- In the engine's modules the backup is present by the failure of its
  construction only; what it does is `Archive`.
- `Capture`: the DirectShow graph is the card that takes a frame at one input and
  delivers it later, one at a time. What the filters behind `ServerStream` do
  with a frame is over before `PushImage` returns and leaves the count as it was:
  `USE_THREAD_FOR_COMPRESS` is not defined, so that compression runs on the
  capture thread. The picture's format does not change. Frames of a pin without
  a signal are the empty ones of `DeliverFrame`. `FlushFrames` of `LocalTier` at
  the end of the teardown finds nothing on the server's side.
- `Archive`: the clock goes forward, and a file is begun in the second of its
  frame. Sizes are in units of a frame. The trimming of the database each 100
  steps, cycles without parameters, files whose names are no dates, and two
  cleaners at once are left out. A listing that a vanishing file cuts short needs
  the second cleaner too.
- `RemoteVideo`: one client, whose proxy serves all cameras; a break loses what is
  under way. A frame's header is its first byte, whole or not there: frame data
  that `ValidatePacket` takes for a header by accident are not followed. Lengths
  so close to -2^31 that a subtraction wraps round are taken for any other
  negative one. After the frames that are followed, sends take nothing.
- The client-server tier is one slot of rectangles for each camera, under a lock,
  overwritten by the server and cleared by a client that polls. Any order of
  these is what it is for, so that there is nothing to state about it that its
  lock does not give at once.
- COM, the single-instance check, the log, the registry, serialisation and
  formatting are left out, as is dead code (`HallServer`, `SleepPause`,
  `ImageProcessPause`).
- The image formats, the AVI readers and the registry of devices are access to
  files and drivers; the client, the controls and the renderer are a user interface on one thread; the
  installer and the test programs are no part of the running system; `3rd_party`
  and `Shared` are vendored.
