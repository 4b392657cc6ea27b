# A TLA+ model of kinectalarm

kinectalarm is a Linux daemon that turns a Kinect into an alarm. It compares
depth images with a reference image, and while something moves it records video
frames; it also publishes a live view. A web server controls it through redis,
and it keeps its state in a SQLite database. The program is small, but nearly
all of it is concurrent: six kinds of threads work on objects that have few
locks, and the daemon has to come back after a power cut in the state it had.
These modules model that part of it.

Paths below are relative to the repository. TLC checks small instances; TLAPS
proves every safety property of the passing runs for all values of the constants.

## 1. The system

| part | state it keeps | operations | who calls it |
|---|---|---|---|
| **CyclicTask** (`src/cyclic_task.cpp`) | `m_running`, the thread handle, a condition variable | `Start`, `Stop`, `IsRunning`, the member thread `ThreadLoop` | base class of everything below that has a thread |
| **Detection** (`src/detection.cpp`) | `m_current_state`, the reference image, the cooldown time, two inner tasks | `Start`, `Stop`, `ExecutionCycle`; `TakeVideoFrames` and `RefreshReferenceFrame` with their own cycles | Alarm starts and stops it; its own thread starts and stops the inner tasks; calls the observer back |
| **Liveview** (`src/liveview.cpp`) | one frame | `Start`, `Stop`, a cycle that passes frames on | Alarm |
| **Alarm** (`src/alarm.cpp`) | configuration in memory, STATUS and DETECTIONS tables, redis variables, led, list of jpeg tasks | `Init`, `Term`, eleven commands, the observers' callbacks | Main (commands, on the redis event thread), the detection threads (callbacks) |
| **ThreadPool, Task** (`inc/threadpool.hpp`) | queue, four threads, per task `m_ended` | `QueueTask`, `ThreadLoop`, `Join`, destructor | the detection threads queue jpeg and package tasks; package tasks join jpeg tasks |
| **Kinect** (`src/kinect.cpp`) | device, two frames with time-stamps and condition variables | `Init`, `Term`, `Start`, `Stop`, `GetDepthFrame`, `GetVideoFrame`, callbacks of libfreenect | Alarm, Detection, Liveview |
| **KinectFrame** (`src/kinect_frame.cpp`) | pixels | `ComputeDifferences`, `Fill`, jpeg encoding | Kinect, Detection, the pool |
| **MessageBroker** (`src/message_broker.cpp`) | observers per channel, two redis connections | `Subscribe`, `Unsubscribe`, `Publish`, `Get/SetVariable` | Main, Alarm; calls the listener back on its event thread |
| **Main** (`src/main.cpp`) | the objects, the watchdog task | `Init`, `Term`, the command listener, the signal handler | the process |
| **DataTable** (`src/state_persistence.cpp`) | a SQLite table | `Insert/Get/Set/DeleteItem` | Alarm, from two threads |

How they interact: a command arrives on redis, the event thread of the
MessageBroker calls Main's listener, which calls one method of Alarm. Alarm
starts and stops the modules and writes the new configuration to memory, to
STATUS and to redis. The detection thread calls Alarm back when an intrusion
starts and ends; the thread of TakeVideoFrames calls it for each frame. These
callbacks change the same configuration object, the same tables and the same
led as the commands, without a lock, and queue work on the pool.

What makes each part correct:

* CyclicTask: Stop is synchronous, Start is effective, no handle is misused,
  Stop returns.
* Detection: while there is an intrusion both inner tasks run, afterwards
  neither; frames reach the observer between its start and its end and are
  counted; Stop leaves nothing behind; an intrusion ends.
* Kinect: streams and thread are on or off together; nobody sleeps over an
  image that he does not have, nor gets one twice.
* ThreadPool: a queued task is executed once; joining inside the pool does not
  stall it; a package is complete; the pool can be destroyed.
* Alarm: memory, modules, kinect, led, cache and database agree when no command
  is under way, and again after a restart; a detection number is used once.
* Image files: the archive of a recorded detection is complete, files show
  their own frame or a later one of their detection, and no files are left
  without a row.
* MessageBroker and Main: each thread gets the reply of its own command;
  commands are executed between Init and Term of Alarm; a signal ends the
  process whatever it is doing.

The hazards (races, lost notifications, lost updates, crashes between two
writes, ...) are listed with their lines in `PROJECT.json`.

## 2. The modules

| module | models | state ↔ code |
|---|---|---|
| `CyclicTask` | any number of cyclic tasks, any number of callers | `m_running`, `m_thread` (null, joinable, joined) and the program counters of callers (`pc`, `target`) and of member threads (`loop`). A step is the code between two accesses to shared state. `aborted` records a handle misuse that ends the process. |
| `Service` | nothing of the code: what the owner of a CyclicTask relies on | `call`, `state` (off, on, ending), `working`, `alive`; `CyclicTask` implements it for each object with one owner whose thread can be created: `call` from `pc`, `state` from `loop` and `m_running`, `working` while `ExecutionCycle` is executed |
| `Detection` | Detection with its three threads and the thread that stops it | one instance of `CyclicTask` for the three tasks; `cycle` and `op` say where `ExecutionCycle` and `Start`/`Stop` stand between their calls; images are scenes |
| `ThreadPool` | the pool and both kinds of task | `m_task_queue`, `m_ended`, per thread the task it holds, what it has still to join and what it waits for |
| `Executor` | nothing of the code: what Alarm relies on when it queues a task | `open`, `waiting`, `active`, `done`; `ThreadPool` implements it, with `m_running`, `m_task_queue`, the tasks that threads hold, and `m_ended` |
| `Alarm` | Alarm with its two threads, and crashes | `cfg` (memory), `status` and `detections` (database), `cache` (redis), `led` and tilt (device), `running`, `kin` and `handle` (`m_running` and `m_thread` of the modules and of the kinect), `snap` (the row a `WriteStatus` has copied and not yet written); any of the three threads may be refused |
| `Kinect` | Kinect and its frames, with any number of threads that get them, and a device that may refuse anything | `dev`, `on` (the streams), `m_running`, `m_thread` and `thread` (the cyclic task, whose thread may be refused), `pc` (Start and Stop), `frame[s]` (`m_depth_frame`, `m_video_frame`: time-stamp and image), `at` and `have` (where a caller of Get stands, the frame it holds) |
| `DataTable` | the statements of DataTable as operators on functions from keys to rows | used by `IntrusionFiles`; `Alarm` writes its two tables with the same effects in place |
| `IntrusionFiles` | what intrusions leave on disk: the observer's callbacks, the pool's tasks, deletion and reset, ends and crashes | `image` (the one frame that all jpeg tasks refer to), `queue` and `busy` (the pool), `files` and `zip` (the directory), `rows` and `status` (the tables), `num` (memory), `place` and `cmd` (where detection and commands stand) |
| `MessageBroker` | the shared connection, the subscription, the event loop, the loss of the server | `call`, `m_context_mutex`, `wire` (commands that are not answered), `inbox`, `m_observer_map`, `handing` (what OnMessage has still to call) |
| `Main` | the process from constructor to destructor: main thread, listener, watchdog, signals; EXTENDS `MessageBroker` | `place` (the main thread), `alarm` and `active` (the modules that run, whose threads use the broker too), `doing` and `todo` (the command that the event thread executes), `m_running` and `watchdog` |
| `CyclicTaskProofs`, `DetectionProofs`, `ThreadPoolProofs`, `AlarmProofs`, `KinectProofs`, `FilesProofs`, `MainProofs` | theorems of the modules | |
| `MC*` and `*.cfg` | instances for TLC | |

How the modules fit together: `Detection` runs on `CyclicTask` itself. The
others take what they stand on at its contract. `Kinect` has one cyclic task,
and `Alarm` three: Start gives a thread, or is refused one and leaves `m_running`
set; Stop ends when the thread that the handle names has ended, throws when that
was joined before, and ends the process when the handle is null. `Alarm` takes
from `Detection` that the joins of the inner tasks return, unless Stop has met a
detection thread that was starting or stopping them (*StopReturns*,
*StopLeavesNothing*). `IntrusionFiles` takes the pool as an `Executor` and the
detection threads at *FramesAccounted*. `Main` takes Alarm at *CommandReturns*
and *CommandsTakeEffect*, but without the exception of *CommandReturns*: in
`Main` every command returns. `Main` in turn says when the single thread of
commands that `Alarm` assumes is really single (*CommandsMeetLiveAlarm*).

`PROJECT.json` maps each definition to the lines it models. Each module also
holds a few operators marked "Mutant": changed forms of an action, to confirm
that each property notices a plausible mistake.

What is abstracted, and why this is harmless:

* A thread's code between two accesses to state that others see is one step.
  `m_mutex` of CyclicTask excludes nobody in a correct run (only the member
  thread takes it), so it has no variable.
* In `Detection`, two images differ by more than the threshold exactly when
  they are different scenes. A cycle reads the image once; tearing of the
  reference image while it is compared is not modelled.
* In `Alarm`, the two joins of inner tasks in `Detection::Stop` are one place
  (`inner`). Once Stop has met a detection thread in the start or at the end of
  an intrusion (`met`), they may return, throw (`InnerThrows`), or wait, perhaps
  for ever (`InnerHangs`). `Alarm` does not follow the handles of the inner
  tasks, so it allows this at every later Stop of that process; `Detection`
  says when it really happens. A throw in the detection thread, which ends the
  process, is a `Crash`.
* The inner tasks of `Detection` always get their threads. What a refused thread
  does to a task is in `CyclicTask`, to the modules and the kinect in `Alarm`
  and `Kinect`.
* `WriteStatus` copies the configuration field by field. The model copies it in
  one step; a copy that mixes fields can be no older than one taken at the
  beginning of the copying.
* In `Alarm` the kinect is a cyclic task that may refuse Init, Start and
  ChangeTilt; its streams are in `Kinect`. Writes to database, files, redis and
  the led succeed (the code logs the failure of a led write, alarm.cpp:402-405),
  but for a redis server that is gone (`MessageBroker`).
* In `Kinect` an image is its number, and in `IntrusionFiles` the run of the
  detection and the index of the frame for which GetVideoFrame returned it. A
  GetVideoFrame that times out leaves the image as it is.
* In `IntrusionFiles` no wait ends spuriously; `ThreadPool` shows what happens
  when one does. A file is written in one step.
* In `Main` a message is a sequence of words. The channel has one observer, as
  the program has.
* `ChangeContrast` is `ChangeBrightness` and `ChangeSensitivity` is
  `ChangeThreshold` with another field: `Setting` chooses which are present.

## 3. The runs

| run | instance | shows |
|---|---|---|
| `cyclic_task` | two objects of one owner, one object of another owner whose thread creation may fail | Start and Stop are effective and synchronous and misuse no handle |
| `detection` | two scenes, frames counted as none or some | the state machine, its inner tasks and Stop |
| `thread_pool` | two threads, two intrusions with two frames each; in one of them waits may end spuriously | no task is lost, no join waits for ever, packages are complete, and the pool is an `Executor` |
| `alarm` | tilt with two values, detection numbers 0 to 2, a kinect that may fail, threads of detection and kinect that may be refused | memory, modules, devices, cache and database agree; numbers are used once; commands return |
| `kinect` | two readers of depth and one of video images, three images | the exchange of frames, Start and Stop with failures |
| `intrusion_files` | two pool threads, two intrusions of two frames, in the second of which GetVideoFrame may time out | what is on disk after any deletions, resets, ends and crashes |
| `main` | five threads on the broker, one listener, two messages (start, stop or none) | replies, the life of Alarm, the end of the process |
| `cyclic_task_wake`, `detection_stop`, `detection_throw`, `alarm_status`, `alarm_apply` | as above, smaller where possible | one disagreement each, section 4 |

Properties of the passing runs (each also has one *TypeOK*):

* `CyclicTask`: *StoppedIsQuiet* (no thread after Stop), *RunningIsServed* (a
  thread after Start), *NoHandleMisuse*, and *ImplementsService*: an object works
  only between a Start and a Stop of its owner, again and again; once
  `m_running` is cleared the loop's test begins no cycle, and Stop returns when
  the last one has ended, although its notification can be lost. It holds of
  each object whatever becomes of the others, also when the thread of another
  one cannot be created.
* `Detection`: *IntrusionRecorded*, *FramesAccounted*, *StopLeavesNothing*,
  *StopReturns*, *IntrusionEnds*.
* `ThreadPool`: *OnePlace*, *DepsTaken* and *JoinWillBeNotified* (why joining
  inside the pool does not stall it: the queue is FIFO and frames are queued
  before their package), *PackageComplete*, *NoSleepOverWork* (why a wait
  without a predicate loses no task), *ShutdownEnds*, and *ImplementsExecutor*:
  tasks begin in the order in which they were queued, each once, end after those
  that they join, and do end unless the pool is destroyed before they begin.
* `Alarm`: *CommandsTakeEffect*, *KinectServes*, *LedTellsTruth*,
  *NumberIsFresh*, *RestartIsSafe*, *StatusIsCurrent*, *CommandReturns*.
* `Kinect`: *StreamsFollowTask* (after an operation that returned 0, streams
  and thread are all on or all off, whatever was refused before), *NoSleepOverImage* (the test of the time-stamp
  and the wait are under the mutex that the callback takes, and it notifies
  all), *FreshImage* (a step property: a Get that is not late brings a later
  image).
* `IntrusionFiles`: *ArchiveComplete*, *ImagesFit*, *NoOrphanFiles*,
  *RowGetsArchive*.
* `Main`: *OwnReply*, *CommandsMeetLiveAlarm*, *EndsWhenTold*.

Most of these modules have history variables that name the situation in which a
property is known to fail; the properties say that nothing goes wrong except
through these situations.

* `Detection`: `raced`, Detection::Stop meets a cycle that starts or stops the
  inner tasks.
* `Alarm`: `raced`, the last write of STATUS was of an outdated copy; `lapsed`,
  a restart has read a number that was already in use; `met`, in this process
  StopDetection met a detection thread that was starting or stopping the inner
  tasks; `unmade`, in this process an object got no thread.
* `Kinect`: `success`, the operation that returned 0 last, if no other has been
  refused anything or is under way since.
* `IntrusionFiles`: `slow`, GetVideoFrame timed out in a detection of that number; `spoilt`, files of a number were deleted or tasks lost;
  `excused`, a number was deleted before its tasks were done or its row was
  there, or a reset was cut off by a crash; `late`, an image of another
  detection was taken while tasks of a number were pending.
* `Main`: `overlap`, Unsubscribe came while a message was being handed out;
  `lost`, the event loop was broken before it was entered.

The violation runs show what goes wrong through the two that are called `raced`.
`Spurious` and `Flaky` play this part in `ThreadPool` and `CyclicTask`.

What the properties do not promise, because the code does not:

* After a thread was refused, `IsRunning` may claim a module or a kinect that
  does not run. *CommandsTakeEffect* then still says that configuration and cache
  tell which threads there are; *LedTellsTruth* and the second half of
  *KinectServes* except such a process (`unmade`).
* A liveview on a kinect that did not start (alarm.cpp:279) counts as on: no
  property says that the kinect runs for it.
* StopDetection may stay in the joins of the inner tasks (*CommandReturns*).
* A crash is an end for *EndsWhenTold*, that through the null handle of the
  watchdog or a null reply included.
* An image file may show an image of another detection of that time (`late`) or
  an earlier image (`slow`), and two detections may share a number.
* *FreshImage* excepts a Get that times out or follows a reset time-stamp, and
  `Detection` takes each reference image as current.

### Bounds

* Objects of CyclicTask do not influence each other except through a common
  caller. Two objects of one caller cover that, the third brings failure in.
* Two scenes suffice for movement to come and go. The frame counters saturate at
  one: a frame that is lost, counted twice or late shows in an intrusion of no
  frames or of the first frame. Two frames double the states and add nothing.
* With two threads and two packages every thread can be in a package at once,
  which is the case in which the pool could stall. The program has four
  threads; the theorems are for any number.
* `Alarm`: one setting, the tilt, which is the one that Init applies to the
  device; the others are written in the same way. `alarm_apply` has the
  threshold. Two values tell an old one from a new one. The liveview
  gets its thread in this run, its refused Start is the same action as that of the
  detection. With `"lvw"` in `Flaky` too the run also passes, with half as many
  states again. The theorems are for any `Flaky`.
* Three detection numbers allow a lost update to be followed by a restart and
  a new intrusion. No intrusion begins at number `MaxNum`.
* `Kinect`: with three images a reader can miss one, and an image can come on
  each side of a restart. Two readers of one stream show that all are woken.
* `IntrusionFiles`: two runs are needed for images of one to get into files of
  the other, and for a number to be used by two runs. Two frames have a first
  and a later one; two threads execute a package and an image at once. Commands
  name numbers below `MaxRun`, the last one has no files. GetVideoFrame may time
  out in detections of number 1 only (`MaySlow`), so that *ImagesFit* says
  something of the first detection in every behaviour.
* `Main`: two messages, so that one can arrive while the other is executed, or
  be handed out while the main thread unsubscribes. Start and stop are the two
  commands that change which modules run, and the third message is a command
  with a number that is none; what the others send to the broker is a part of
  these. The five clients are the main thread, the watchdog, the event thread,
  and the threads of detection and liveview. Nobody else uses the broker.

### Fairness

A thread that can run is eventually run (weak fairness of the steps of each
thread). `wait_until` has a deadline, `ExecutionCycle` returns, the clock
passes the end of the cooldown. Nothing else is assumed: commands need not
come, a dead process need not be restarted, no spurious wake-up is relied on,
and the notification of `Stop` may be lost. In `Alarm`, Init and Term need not go
on, and a wait for an inner task neither (`Unstuck`). Fairness of a thread's steps as a
whole is enough, because in each state a thread has at most one step that is
not a choice of its environment.

`IntrusionFiles` assumes only that the pool's threads run and that
`IntrusionStopped`, once it has inserted its row, goes on to queue the package.
`Main` assumes strong fairness of each thread's exchange with the server: a
thread that waits for `m_context_mutex` gets it in the end, although others take
it again and again. It holds for a short exchange between threads that sleep most
of the time, and the exchange ends because the server answers or the connection
is lost. Neither messages nor signals have to come. `Kinect` has no
liveness property: with a device that delivers nothing every Get times out.

## 4. Where code and comments disagree

1. **Lost notification** (`cyclic_task_wake`). `Stop` notifies without the
   mutex. If the notification comes between the loop's test and its wait, Stop
   takes up to a whole loop interval; a unit test claims less than 1 ms.
2. **Detection::Stop leaves tasks behind** (`detection_stop`). It stops the
   inner tasks first; a cycle that is under way starts them again.
3. **Two joins of one thread** (`detection_throw`). The end of a cooldown
   (detection.cpp:131) and Detection::Stop (61) both stop TakeVideoFrames. In the
   trace the command has cleared `m_running` and waits in its join when the
   detection thread, which had found the task running, joins the same handle:
   this throws in the detection thread, where nobody catches it, and the process
   ends. In other orders the second join is the command's: it leaves Stop
   half done, and the exception is caught in the message listener. At the start of an
   intrusion, Stop can also meet a handle that is still null, or one that is
   replaced while joinable; `raced` covers these too, but this run checks only
   that no thread throws.
4. **Lost update of STATUS** (`alarm_status`). A command and the detection
   thread both write the whole row; the command's older copy can win. After a
   restart the number of the last detection is used again.
5. **Settings not applied** (`alarm_apply`). After a restart the detection
   module uses the default threshold and sensitivity until one of them is
   changed, though redis and memory show the persisted ones.

## 5. The proofs

*CyclicTask* (`CyclicTaskProofs`). `TypeCorrect` holds for any use of the
objects. The other three theorems assume `SingleOwner`: one thread owns each
object. The invariant adds to `TypeOK` what holds of an object for each position
of the caller that is inside Start or Stop (`CallInv`), what holds of it when
nobody is (`RestInv`), that only owners are inside (`OwnedCalls`), and that a
thread function returns only after `m_running` was cleared (`ExitInv`). Neither
StoppedIsQuiet nor RunningIsServed is inductive, because they say nothing while
a call is under way. SingleOwner enters in two lemmas: who is about to call
finds the object at rest, and two calls are never inside one object.
`ObjectServes` is the refinement of `Service`, by step simulation: StartSpawn is
StartReturns, StopClear is StopBegins and JoinReturn is StopReturns, because
`CallInv` gives the handle at each of them, and LoopTest is WorkBegins exactly
when `m_running` is set. An object that is not reliable is seen only when it ends
the process. `Detection` is a use without SingleOwner, which is where its two
disagreements come from.

*Detection* (`DetectionProofs`). `TypeCorrect`, and all three safety properties, for
any scenes and any bound on the frames. The inner tasks have two users, the
detection thread and the thread that calls Start and Stop, so the contract of
`CyclicTask` does not come from SingleOwner here. It is restated for one object
at a time (`ObjectInv`) and holds as long as only one of the two is in a call on
it (`OneCaller`). For the detection task itself that is always so (`Always`): only
ctrl calls it. For the inner tasks it holds until `raced`, which is set when
Detection::Stop meets a cycle that starts or stops them (`Unraced`). The other
parts say which inner tasks run: while the detection thread starts or stops them
(`CycleInv`), while Detection::Stop does (`StopInv`), and otherwise both exactly
from one end of an intrusion to the other (`RestInv`); and that the frames counted
are those delivered (`FrameInv`). None of the properties is inductive, because
none says anything of the time in between.

*ThreadPool* (`ThreadPoolProofs`). `TypeCorrect`, and for any number of threads
and tasks `OnePlace`, `DepsTaken`, `JoinWillBeNotified` and `PackageComplete`, and for any
finite number of threads `NoSleepOverWork`. The first four are proved together: that a joined task is in another thread's hands
follows from its having left the queue (DepsTaken) and being in one place
(OnePlace); DepsTaken needs that every dependency in the queue is before its
package. `PoolExecutes` is the refinement, by step simulation: Take is Begin
because the head of the queue was nowhere else (OnePlace), End is End because of
what has been joined, QueueTask is Submit, Shutdown is Close, and all other steps
of threads stutter. The progress that `Executor` promises is model-checked.
`NoLostNotification` counts: while some thread sleeps, those between their
wake-up and the test of the queue are at least as many as the tasks in it. What
keeps it is that a notification is given for each task, under the mutex that a
thread holds from its test to its wait, and that nobody sleeps after the
destructor has notified all. The theorems assume `PoolAssumption`: tasks with
dependencies are not dependencies themselves, and no two packages share one. The
count needs `WorkerAssumption`, that there are finitely many threads.

*Alarm* (`AlarmProofs`). `TypeCorrect`, and all six safety invariants, for any
settings and values and any number of detections, deletions, crashes and
restarts. They assume `AlarmAssumption`, which only says what the constants are.
Most of the properties speak of the time between two commands; the inductive
invariant `IInv` says for each position of the two threads what holds there:

* `Control`: who runs. A module's thread outlives `m_running` only while it is
  joined, or in Term; `m_running` is set without a thread only where one was
  refused (`unmade`). The detection thread always has a kinect that runs, and the
  kinect serves nobody only during a command. `ModuleStart` finds no old thread
  because of this.
* `NumberIsFresh` is a part as it stands. `Numbers` and `Rows` say that a row of
  STATUS that was not outdated when it was written differs from memory only
  between a change of memory and the write that follows, by either thread.
  `RestartIsSafe` is `NumberIsFresh` and `Numbers` together.
* `Active`, `Cached`, `Led` and `Tilted`: which part of Init establishes the
  agreement, and where a command suspends it.

Each part is preserved by itself with `TypeOK` and `Control`, so that the proof
has one lemma for each.

*Kinect* (`KinectProofs`). `TypeCorrect` and all three properties, for any
threads, readers of either stream and number of images. The invariant says for
each position of Start and Stop which streams are on, that a thread without
`m_running` is being joined, and what the last success established (`Control`), and of frames
(`Frames`) that a time-stamp that is not reset is that of its image, that the
frame in hand is no later than the one of its stream, and that a reader who was
woken has an earlier one. `FreshImage` is an action property: it follows from
`Frames` and what the step does.

*IntrusionFiles* (`FilesProofs`). `TypeCorrect`, `NoOrphanFiles`, `ImagesFit` and
`ArchiveComplete`, for any number of runs, frames and pool threads. For `NoOrphanFiles` the
invariant speaks of the files that are there and of those that pending tasks
will write (`Orphans`): outside a reset each number among them has a row, is
excused, or is the number in STATUS; and while a deletion stands between files
and row, its number has neither files nor tasks, or is excused. That STATUS has
the number of memory while the process runs (`StatusRow`) carries this through a
crash. For `ImagesFit` it says that the shared image of now could be saved by
every task that waits (`TasksFit`), unless its number is slow, from which a save keeps `FilesFit` and a
package `ZipFits`. For `ArchiveComplete`, `Archives` follows the frames of a number
that is not spoilt: each frame taken so far is in a file or its task is pending,
from the first frame until the row is there; from then on the archive is complete,
or a package is pending (or about to be queued) of a run whose frames are kept in
this way. CreateTarbal then finds all files, because it waits for the jpeg tasks
of that run. That the queue is FIFO is not needed for it, nor that a number is
used by one run. The assumption is only that the constants are numbers.

*Main* (`MainProofs`). `TypeCorrect`, `OwnReply` and `CommandsMeetLiveAlarm`, for
any messages, and any threads and observers that include the program's. `Mutex`
says that the command on the wire is that of the thread that holds the mutex,
`Life` what holds of Alarm, the observer map, the watchdog and the listener at
each place of the main thread. TypeOK is not preserved without the two, because
it says which thread is inside the broker when.

Only model-checked: all liveness, which is out of reach of the prover. These are
*StopReturns*, *IntrusionEnds*,
*ShutdownEnds*, *CommandReturns*, *RowGetsArchive*, *EndsWhenTold*, and the part
`Progress` of `Service` and of `Executor`. The violation runs are TLC's as well.

## 6. Not modelled

* Races on data: an image that is overwritten while it is compared, encoded or
  copied (`ComputeDifferences` takes one of the two mutexes), and a
  configuration that is replaced while a cycle reads it. Values are taken whole.
* `ComputeDifferences` as arithmetic on pixels, and jpeg encoding.
* The characters of a message, an empty one included, and the conversion of
  numbers; redis variables as values outside `Alarm`. `GetVariable` and `Clear`
  of MessageBroker are not called by the program.
* SQL text, conversions, and failures of database and file system; `DeleteTable`
  and `RemoveDatabase` are called by tests only.
* The pattern `n*` of the zip command (alarm.cpp:66), which also fits the files
  of detection n0: with the numbers of the instances there is none. The rm
  command has `n_*` (458).
* The cycle of the liveview, except that its thread publishes (`Main`).
* Threads refused to the inner tasks of the detection.
* `video.cpp` and `video_stream.cpp` are excluded from the build. Factories and
  the base64 wrapper have no state.

## 7. Plan

What could come next, in this order:

1. `Kinect` and `Detection` over `Service`: each start and stop of a cyclic task as
   calls of it, where it has one owner.
2. The pool of `IntrusionFiles` as an instance of `Executor`. It needs an Executor
   that begins anew with each process, and packages whose dependencies are
   fixed when they are submitted.
3. Failures of the database in `Alarm` and `IntrusionFiles`.
4. `ComputeDifferences` and the parser as functions against a reference
   definition.

To check a module: `tlc -config Alarm.cfg MCAlarm`; to check its proofs:
`tlapm CyclicTaskProofs.tla`.
