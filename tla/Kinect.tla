-------------------------------- MODULE Kinect --------------------------------
(***************************************************************************)
(* The Kinect class (src/kinect.cpp) and the frames it exchanges           *)
(* (src/kinect_frame.cpp).  Its cyclic task runs libfreenect, whose        *)
(* callbacks fill one frame per stream.  Any number of threads wait for    *)
(* those frames in GetDepthFrame and GetVideoFrame: each brings the frame  *)
(* it got last, and is kept waiting while the time-stamps are equal.       *)
(*                                                                         *)
(* Init, Term, Start and Stop are called by one thread (Alarm's commands). *)
(* Each may find the device unwilling, and the system may refuse the       *)
(* thread.  The cyclic task is taken at what CyclicTask establishes: Stop  *)
(* joins the thread that its handle names.                                 *)
(*                                                                         *)
(* A frame is a time-stamp and an image.  Images are numbered as they are  *)
(* taken, 0 is the frame nobody has filled.                                *)
(***************************************************************************)
EXTENDS Naturals

CONSTANTS
    Consumer,   \* the threads that get frames
    Source,     \* Source[c]: the stream that consumer c reads
    MaxImage    \* no more images are taken

Stream == {"depth", "video"}

ASSUME KinectAssumption ==
    /\ Source \in [Consumer -> Stream]
    /\ MaxImage \in Nat

VARIABLES
    dev,      \* "none", "context" after freenect_init, "open" with a device
    m_is_kinect_initialized,
    on,       \* on[s]: libfreenect delivers stream s
    m_running,  \* of the cyclic task,
    m_thread,   \* its handle: "null", "joinable" or "joined",
    thread,     \* and whether its thread is there
    pc,       \* where Start or Stop stands
    frame,    \* frame[s]: m_depth_frame and m_video_frame
    taken,    \* the number of images taken
    at,       \* at[c]: where consumer c stands in its Get
    have,     \* have[c]: the frame it has
    success   \* the operation that returned 0 last, or may yet: "Start" or
              \* "Stop", or "none" after a refusal or an exception

device == <<dev, m_is_kinect_initialized>>
task   == <<m_running, m_thread, thread>>
users  == <<at, have>>
vars   == <<device, on, task, pc, frame, taken, users, success>>

Frame == [ts : 0 .. MaxImage, img : 0 .. MaxImage]
Empty == [ts |-> 0, img |-> 0]
Off   == [s \in Stream |-> FALSE]

Init ==
    /\ dev = "none" /\ m_is_kinect_initialized = FALSE
    /\ on = Off
    /\ m_running = FALSE /\ m_thread = "null" /\ thread = FALSE
    /\ pc = "none"
    /\ frame = [s \in Stream |-> Empty]
    /\ taken = 0
    /\ at = [c \in Consumer |-> "idle"]
    /\ have = [c \in Consumer |-> Empty]
    /\ success = "none"
-----------------------------------------------------------------------------
(* Kinect::Init and Kinect::Term                                             *)

\* A failure leaves open what was opened, and another Init begins anew.
InitKinect ==
    /\ pc = "none" /\ ~m_is_kinect_initialized
    /\ \/ dev' = "open" /\ m_is_kinect_initialized' = TRUE
       \/ dev' \in {dev, "context", "open"} /\ UNCHANGED m_is_kinect_initialized
    /\ UNCHANGED <<on, task, pc, frame, taken, users, success>>

\* Mutant: the task is not stopped before.
TermUnstopped ==
    /\ pc = "none" /\ m_is_kinect_initialized
    /\ dev' = "none" /\ m_is_kinect_initialized' = FALSE
    /\ on' = Off
    /\ UNCHANGED <<task, pc, frame, taken, users, success>>

\* Closing the device ends its streams.  Alarm has stopped the task before.
TermKinect ==
    /\ pc = "none" /\ ~m_running /\ m_is_kinect_initialized
    /\ dev' = "none" /\ m_is_kinect_initialized' = FALSE
    /\ on' = Off
    /\ UNCHANGED <<task, pc, frame, taken, users, success>>
-----------------------------------------------------------------------------
(* Kinect::Start.  Alarm calls it only when the task does not run.           *)

\* Both time-stamps are reset, without the frames' mutexes.
Start ==
    /\ pc = "none" /\ m_is_kinect_initialized /\ ~m_running
    /\ frame' = [s \in Stream |-> [frame[s] EXCEPT !.ts = 0]]
    /\ pc' = "start_video"
    /\ success' = "none"
    /\ UNCHANGED <<device, on, task, taken, users>>

\* freenect_start_video and freenect_start_depth: a stream that is on is
\* refused.  Then Start returns, and leaves on what it has started.
StartStream(s, next) ==
    /\ \/ ~on[s] /\ on' = [on EXCEPT ![s] = TRUE] /\ pc' = next
       \/ pc' = "none" /\ UNCHANGED on
    /\ UNCHANGED <<device, task, frame, taken, users, success>>

StartVideo == pc = "start_video" /\ StartStream("video", "start_depth")
StartDepth == pc = "start_depth" /\ StartStream("depth", "start_task")

\* CyclicTask::Start sets m_running first.  When it gets no thread, m_running
\* and both streams stay on, and the handle is what it was.
StartTask ==
    /\ pc = "start_task"
    /\ m_running' = TRUE
    /\ \/ m_thread' = "joinable" /\ thread' = TRUE /\ success' = "Start"
       \/ UNCHANGED <<m_thread, thread, success>>
    /\ pc' = "none"
    /\ UNCHANGED <<device, on, frame, taken, users>>
-----------------------------------------------------------------------------
(* Kinect::Stop.  Alarm calls it after the last module has stopped, also     *)
(* when the kinect had not started.  Every part is tried.                    *)

\* CyclicTask::Stop joins only when the task was running.
Stop ==
    /\ pc = "none" /\ m_is_kinect_initialized
    /\ m_running' = FALSE
    /\ success' = "Stop"
    /\ pc' = IF m_running THEN "join" ELSE "stop_depth"
    /\ UNCHANGED <<device, on, m_thread, thread, frame, taken, users>>

\* Mutant: Stop does not wait for the thread.
JoinForgotten ==
    /\ pc = "join"
    /\ pc' = "stop_depth"
    /\ UNCHANGED <<device, on, task, frame, taken, users, success>>

Join ==
    /\ pc = "join" /\ m_thread = "joinable" /\ ~thread
    /\ m_thread' = "joined"
    /\ pc' = "stop_depth"
    /\ UNCHANGED <<device, on, m_running, thread, frame, taken, users, success>>

\* There was no thread to join, and an older one has been joined: join throws,
\* Stop ends, and the streams stay on.
JoinThrows ==
    /\ pc = "join" /\ m_thread = "joined"
    /\ pc' = "none"
    /\ success' = "none"
    /\ UNCHANGED <<device, on, task, frame, taken, users>>

\* There never was a thread: the null handle ends the process, and another
\* one begins.
JoinNull ==
    /\ pc = "join" /\ m_thread = "null"
    /\ dev' = "none" /\ m_is_kinect_initialized' = FALSE
    /\ on' = Off
    /\ m_running' = FALSE /\ m_thread' = "null" /\ thread' = FALSE
    /\ pc' = "none"
    /\ frame' = [s \in Stream |-> Empty]
    /\ taken' = 0
    /\ at' = [c \in Consumer |-> "idle"]
    /\ have' = [c \in Consumer |-> Empty]
    /\ success' = "none"

StopStream(s, next) ==
    /\ \/ on' = [on EXCEPT ![s] = FALSE] /\ UNCHANGED success
       \/ success' = "none" /\ UNCHANGED on
    /\ pc' = next
    /\ UNCHANGED <<device, task, frame, taken, users>>

StopDepth == pc = "stop_depth" /\ StopStream("depth", "stop_video")
StopVideo == pc = "stop_video" /\ StopStream("video", "none")
-----------------------------------------------------------------------------
(* The kinect's thread.                                                      *)

\* Mutant: nobody is notified.
CallbackSilent(s) ==
    LET n == taken + 1 IN
    /\ thread /\ on[s] /\ taken < MaxImage
    /\ taken' = n
    /\ frame' = [frame EXCEPT ![s] = [ts |-> n, img |-> n]]
    /\ UNCHANGED <<device, on, task, pc, users, success>>

\* Mutant: both streams share a condition variable.
CallbackWakesAll(s) ==
    LET n == taken + 1 IN
    /\ thread /\ on[s] /\ taken < MaxImage
    /\ taken' = n
    /\ frame' = [frame EXCEPT ![s] = [ts |-> n, img |-> n]]
    /\ at' = [c \in Consumer |-> IF at[c] = "wait" THEN "woken" ELSE at[c]]
    /\ UNCHANGED <<device, on, task, pc, have, success>>

\* ExecutionCycle: freenect_process_events calls DepthCallback or
\* VideoCallback, which fills the frame and wakes all who wait for it.
Callback(s) ==
    LET n == taken + 1 IN
    /\ thread /\ on[s] /\ taken < MaxImage
    /\ taken' = n
    /\ frame' = [frame EXCEPT ![s] = [ts |-> n, img |-> n]]
    /\ at' = [c \in Consumer |->
                IF at[c] = "wait" /\ Source[c] = s THEN "woken" ELSE at[c]]
    /\ UNCHANGED <<device, on, task, pc, have, success>>

\* ThreadLoop finds m_running cleared.
ThreadEnds ==
    /\ thread /\ ~m_running
    /\ thread' = FALSE
    /\ UNCHANGED <<device, on, m_running, m_thread, pc, frame, taken, users,
                   success>>
-----------------------------------------------------------------------------
(* GetDepthFrame and GetVideoFrame, in thread c.                             *)

Current(c) == frame[Source[c]]

\* The caller's frame is the current one: wait, and release the mutex.
Wait(c) ==
    /\ at[c] = "idle" /\ have[c].ts = Current(c).ts
    /\ at' = [at EXCEPT ![c] = "wait"]
    /\ UNCHANGED <<device, on, task, pc, frame, taken, have, success>>

\* The current frame is another one: copy it.
Take(c) ==
    /\ at[c] = "idle" /\ have[c].ts # Current(c).ts
    /\ have' = [have EXCEPT ![c] = Current(c)]
    /\ UNCHANGED <<device, on, task, pc, frame, taken, at, success>>

\* wait_for ends without a notification: m_timeout_ms have passed, or the
\* wake-up is spurious.
GiveUp(c) ==
    /\ at[c] = "wait"
    /\ at' = [at EXCEPT ![c] = "late"]
    /\ UNCHANGED <<device, on, task, pc, frame, taken, have, success>>

\* With the mutex taken again, whatever is there is copied.
Copy(c) ==
    /\ at[c] \in {"woken", "late"}
    /\ have' = [have EXCEPT ![c] = Current(c)]
    /\ at' = [at EXCEPT ![c] = "idle"]
    /\ UNCHANGED <<device, on, task, pc, frame, taken, success>>

Get(c) == Wait(c) \/ Take(c) \/ GiveUp(c) \/ Copy(c)
-----------------------------------------------------------------------------
Next ==
    \/ InitKinect \/ TermKinect
    \/ Start \/ StartVideo \/ StartDepth \/ StartTask
    \/ Stop \/ Join \/ JoinThrows \/ JoinNull \/ StopDepth \/ StopVideo
    \/ ThreadEnds \/ \E s \in Stream : Callback(s)
    \/ \E c \in Consumer : Get(c)

Spec == Init /\ [][Next]_vars
-----------------------------------------------------------------------------
\* Types, and that the device is open whenever the thread or an operation
\* uses its handle.
TypeOK ==
    /\ dev \in {"none", "context", "open"}
    /\ on \in [Stream -> BOOLEAN]
    /\ m_is_kinect_initialized \in BOOLEAN /\ m_running \in BOOLEAN
    /\ m_thread \in {"null", "joinable", "joined"} /\ thread \in BOOLEAN
    /\ success \in {"none", "Start", "Stop"}
    /\ pc \in {"none", "start_video", "start_depth", "start_task",
               "join", "stop_depth", "stop_video"}
    /\ frame \in [Stream -> Frame]
    /\ taken \in 0 .. MaxImage
    /\ at \in [Consumer -> {"idle", "wait", "woken", "late"}]
    /\ have \in [Consumer -> Frame]
    /\ m_is_kinect_initialized => dev = "open"
    /\ m_running \/ thread \/ pc # "none" => m_is_kinect_initialized
    /\ thread => m_thread = "joinable"

\* kinect.cpp:165-221: after a Start that returned 0 both streams are on and
\* a thread serves them.  After a Stop that returned 0 nothing is left of
\* them, also when a Start before it was refused a stream or the thread, or
\* a Stop was refused or threw.  However an operation ends, a thread runs
\* only while m_running says so.
StreamsFollowTask ==
    pc = "none" =>
        /\ success = "Start" => m_running /\ thread /\ \A s \in Stream : on[s]
        /\ success = "Stop"  => ~m_running /\ on = Off
        /\ thread => m_running

\* kinect.cpp:233-277: nobody sleeps over an image that he does not
\* have: the test of the time-stamp and the wait are one step for the
\* callback, and all who wait are woken.
NoSleepOverImage ==
    \A c \in Consumer : at[c] = "wait" => Current(c).ts \in {0, have[c].ts}

\* kinect.cpp:233-263: a Get that did not time out returns an image that was
\* taken after the one its caller had, unless Start has reset the time-stamp
\* and no image has come since.  Then it returns the last image again, or
\* one from before the last Stop.
FreshImage ==
    [][ \A c \in Consumer :
          (Take(c) \/ Copy(c)) /\ at[c] # "late" /\ have'[c].ts # 0
            => have'[c].img > have[c].img ]_vars
=============================================================================
