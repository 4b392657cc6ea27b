------------------------------ MODULE Detection ------------------------------
(***************************************************************************)
(* The Detection module (src/detection.cpp): a cyclic task that compares   *)
(* the depth image with a reference image and drives the states Idle,      *)
(* Intrusion and Cooldown, together with the two cyclic tasks it starts    *)
(* for the duration of an intrusion: TakeVideoFrames, which hands frames   *)
(* to the observer, and RefreshReferenceFrame, which renews the reference. *)
(*                                                                         *)
(* Four threads meet here: the one that calls Detection::Start and Stop    *)
(* ("ctrl", the redis event thread, or main in Alarm::Term), and the three *)
(* task threads.  The detection thread ("det" as a caller) starts and      *)
(* stops the same two objects that Detection::Stop stops.                  *)
(*                                                                         *)
(* Depth images are members of Scene; two of them differ by more than the  *)
(* threshold exactly when they are different members.                      *)
(***************************************************************************)
EXTENDS Naturals

CONSTANTS
    Scene,      \* what the kinect can be looking at
    MaxFrames   \* frames are counted up to this bound, and then no further

ASSUME DetectionAssumption == Scene # {} /\ MaxFrames \in Nat \ {0}

Tasks   == {"detection", "take", "refresh"}
Threads == {"ctrl", "det"}

\* Detection::Stop and the detection thread both use the two inner tasks.
Uses == [t \in Tasks |-> IF t = "detection" THEN {"ctrl"} ELSE Threads]

VARIABLES
    m_running, m_thread, loop, pc, target, aborted,  \* of the three tasks
    m_current_state,    \* Idle, Intrusion or Cooldown
    expired,            \* in Cooldown: now() > m_cooldown_abs_time
    cycle,              \* where Detection::ExecutionCycle stands
    op,                 \* where ctrl stands in Detection::Start or Stop
    scene,              \* what the kinect sees
    m_depth_frame_ref,  \* the reference image
    m_frame_counter,    \* of TakeVideoFrames
    num_frames,         \* the local variable passed to IntrusionStopped, or 0
    open,               \* the observer's last call was IntrusionStarted
    delivered,          \* IntrusionFrame calls since then
    raced               \* once, Detection::Stop met a cycle that was starting
                        \* or stopping the inner tasks

CT == INSTANCE CyclicTask
        WITH Task <- Tasks, Caller <- Threads, Owner <- Uses, Flaky <- {}

tasks   == <<m_running, m_thread, loop, pc, target, aborted>>
frames  == <<m_frame_counter, num_frames, delivered>>
vars    == <<tasks, m_current_state, expired, cycle, op, scene,
             m_depth_frame_ref, frames, open, raced>>

Init ==
    /\ CT!Init
    /\ m_current_state = "Idle"
    /\ expired = FALSE
    /\ cycle = "frame"
    /\ op = "none"
    /\ scene \in Scene
    /\ m_depth_frame_ref = scene
    /\ m_frame_counter = 0
    /\ num_frames = 0
    /\ open = FALSE
    /\ delivered = 0
    /\ raced = FALSE
-----------------------------------------------------------------------------
(* Detection::Start and Detection::Stop, called by ctrl.  Alarm calls Start  *)
(* only when IsRunning() is false and Stop only when it is true.             *)

\* Mutant: the state of the last intrusion is kept.
StartResetForgotten ==
    /\ CT!Alive /\ op = "none" /\ ~m_running["detection"]
    /\ op' = "start_frame"
    /\ UNCHANGED <<tasks, m_current_state, expired, cycle, scene,
                   m_depth_frame_ref, frames, open, raced>>

StartReset ==
    /\ CT!Alive /\ op = "none" /\ ~m_running["detection"]
    /\ m_current_state' = "Idle"
    /\ expired' = FALSE
    /\ op' = "start_frame"
    /\ UNCHANGED <<tasks, cycle, scene, m_depth_frame_ref, frames,
                   open, raced>>

\* The reference image is taken, then CyclicTask::Start is entered.
StartFrame ==
    /\ op = "start_frame"
    /\ CT!StartTest("ctrl", "detection")
    /\ m_depth_frame_ref' = scene
    /\ op' = "start_return"
    /\ UNCHANGED <<m_current_state, expired, cycle, scene, frames, open, raced>>

\* Stop enters CyclicTask::Stop of the three tasks, one after the other.
StopCall(from, task, to) ==
    /\ op = from
    /\ CT!StopTest("ctrl", task)
    /\ op' = to
    /\ UNCHANGED <<m_current_state, expired, cycle, scene, m_depth_frame_ref,
                   frames, open>>

\* The cycle is starting or stopping the inner tasks.
Midway == cycle # "frame" /\ ~(cycle = "report" /\ pc["det"] = "returned")

StopTake ==
    /\ m_running["detection"]
    /\ StopCall("none", "take", "stop_refresh")
    /\ raced' = (raced \/ Midway)

\* Mutant: the refresh task is forgotten.
StopRefreshForgotten ==
    /\ CT!Alive /\ op = "stop_refresh" /\ pc["ctrl"] = "returned"
    /\ op' = "stop_detection"
    /\ UNCHANGED <<tasks, m_current_state, expired, cycle, scene,
                   m_depth_frame_ref, frames, open, raced>>

StopRefresh ==
    /\ pc["ctrl"] = "returned"
    /\ StopCall("stop_refresh", "refresh", "stop_detection")
    /\ UNCHANGED raced

StopDetection ==
    /\ pc["ctrl"] = "returned"
    /\ StopCall("stop_detection", "detection", "stop_return")
    /\ UNCHANGED raced

InStop == {"stop_refresh", "stop_detection", "stop_return"}

\* Start or Stop returns 0, or the exception of a join leaves Stop half done
\* and is swallowed by the message listener (main.cpp:364).
Return ==
    /\ CT!Alive
    /\ \/ op \in {"start_return", "stop_return"} /\ pc["ctrl"] = "returned"
       \/ op \in InStop /\ pc["ctrl"] = "threw"
    /\ op' = "none"
    /\ UNCHANGED <<tasks, m_current_state, expired, cycle, scene,
                   m_depth_frame_ref, frames, open, raced>>
-----------------------------------------------------------------------------
(* Detection::ExecutionCycle, run by the detection thread.                   *)

InCycle(l) == loop["detection"] = "cycle" /\ cycle = l

\* detected_movement: the difference to the reference exceeds the threshold.
Moved == scene # m_depth_frame_ref

\* The cycles that only change the state, or nothing.
NextState ==
    CASE m_current_state = "Intrusion" /\ ~Moved -> "Cooldown"
      [] m_current_state = "Cooldown" /\ Moved   -> "Intrusion"
      [] OTHER                                   -> m_current_state

Opens  == m_current_state = "Idle" /\ Moved
Closes == m_current_state = "Cooldown" /\ ~Moved /\ expired

PlainCycle ==
    /\ InCycle("frame") /\ ~Opens /\ ~Closes
    /\ CT!CycleEnd("detection")
    /\ m_current_state' = NextState
    /\ expired' = (expired /\ m_current_state' = "Cooldown")
    /\ UNCHANGED <<cycle, op, scene, m_depth_frame_ref, frames, open, raced>>

\* An intrusion begins: the observer is told before anything is started.
IntrusionStarted ==
    /\ CT!Alive /\ InCycle("frame") /\ Opens
    /\ open' = TRUE
    /\ delivered' = 0
    /\ raced' = (raced \/ op \in InStop)
    /\ cycle' = "start_take"
    /\ UNCHANGED <<tasks, m_current_state, expired, op, scene,
                   m_depth_frame_ref, m_frame_counter, num_frames>>

\* Mutant: the counter goes on from the last intrusion.
StartTakeNoReset ==
    /\ InCycle("start_take")
    /\ CT!StartTest("det", "take")
    /\ cycle' = "start_refresh"
    /\ UNCHANGED <<m_current_state, expired, op, scene, m_depth_frame_ref,
                   frames, open, raced>>

\* TakeVideoFrames::Start
StartTake ==
    /\ InCycle("start_take")
    /\ CT!StartTest("det", "take")
    /\ m_frame_counter' = 0
    /\ cycle' = "start_refresh"
    /\ UNCHANGED <<m_current_state, expired, op, scene, m_depth_frame_ref,
                   num_frames, delivered, open, raced>>

StartRefresh ==
    /\ InCycle("start_refresh") /\ pc["det"] = "returned"
    /\ CT!StartTest("det", "refresh")
    /\ cycle' = "intrusion"
    /\ UNCHANGED <<m_current_state, expired, op, scene, m_depth_frame_ref,
                   frames, open, raced>>

SetIntrusion ==
    /\ InCycle("intrusion") /\ pc["det"] = "returned"
    /\ CT!CycleEnd("detection")
    /\ m_current_state' = "Intrusion"
    /\ cycle' = "frame"
    /\ UNCHANGED <<expired, op, scene, m_depth_frame_ref, frames, open, raced>>

\* The cooldown is over: both inner tasks are stopped.
EndTake ==
    /\ InCycle("frame") /\ Closes
    /\ CT!StopTest("det", "take")
    /\ cycle' = "stop_refresh"
    /\ raced' = (raced \/ op \in InStop)
    /\ UNCHANGED <<m_current_state, expired, op, scene, m_depth_frame_ref,
                   frames, open>>

\* TakeVideoFrames::Stop returns the counter.
EndRefresh ==
    /\ InCycle("stop_refresh") /\ pc["det"] = "returned"
    /\ num_frames' = m_frame_counter
    /\ CT!StopTest("det", "refresh")
    /\ cycle' = "report"
    /\ UNCHANGED <<m_current_state, expired, op, scene, m_depth_frame_ref,
                   m_frame_counter, delivered, open, raced>>

IntrusionStopped ==
    /\ InCycle("report") /\ pc["det"] = "returned"
    /\ CT!CycleEnd("detection")
    /\ open' = FALSE
    /\ m_current_state' = "Idle"
    /\ expired' = FALSE
    /\ cycle' = "frame"
    /\ num_frames' = 0
    /\ UNCHANGED <<op, scene, m_depth_frame_ref, m_frame_counter, delivered,
                   raced>>

\* An exception of join leaves the thread function: std::terminate.
DetThrows ==
    /\ CT!Alive /\ pc["det"] = "threw"
    /\ aborted' = {"detection"}
    /\ UNCHANGED <<m_running, m_thread, loop, pc, target, m_current_state,
                   expired, cycle, op, scene, m_depth_frame_ref, frames, open,
                   raced>>
-----------------------------------------------------------------------------
(* The inner tasks' ExecutionCycle.                                          *)

Count(n) == IF n < MaxFrames THEN n + 1 ELSE n

\* GetVideoFrame, then IntrusionFrame(m_frame, m_frame_counter++).
IntrusionFrame ==
    /\ CT!CycleEnd("take")
    /\ m_frame_counter' = Count(m_frame_counter)
    /\ delivered' = Count(delivered)
    /\ UNCHANGED <<m_current_state, expired, cycle, op, scene,
                   m_depth_frame_ref, num_frames, open, raced>>

\* Mutant: the task renews a frame of its own.
RefreshPrivate ==
    /\ CT!CycleEnd("refresh")
    /\ UNCHANGED <<m_current_state, expired, cycle, op, scene,
                   m_depth_frame_ref, frames, open, raced>>

RefreshReference ==
    /\ CT!CycleEnd("refresh")
    /\ m_depth_frame_ref' = scene
    /\ UNCHANGED <<m_current_state, expired, cycle, op, scene, frames, open,
                   raced>>
-----------------------------------------------------------------------------
(* The inside of CyclicTask::Start, Stop and ThreadLoop.                     *)

Local == UNCHANGED <<m_current_state, expired, cycle, op, scene,
                     m_depth_frame_ref, frames, open, raced>>

Call(c) == CT!CallStep(c) /\ Local
Loop(t) == (CT!LoopTest(t) \/ CT!EnterWait(t) \/ CT!WaitEnd(t)) /\ Local

(* Time and the world.                                                       *)

CooldownExpires ==
    /\ CT!Alive /\ m_current_state = "Cooldown" /\ ~expired
    /\ expired' = TRUE
    /\ UNCHANGED <<tasks, m_current_state, cycle, op, scene,
                   m_depth_frame_ref, frames, open, raced>>

SceneChanges ==
    /\ CT!Alive
    /\ scene' \in Scene \ {scene}
    /\ UNCHANGED <<tasks, m_current_state, expired, cycle, op,
                   m_depth_frame_ref, frames, open, raced>>

Dead == CT!Dead /\ Local
-----------------------------------------------------------------------------
Control == StopRefresh \/ StopDetection \/ Return \/ StartFrame
Cycle   == \/ PlainCycle \/ IntrusionStarted \/ StartTake \/ StartRefresh
           \/ SetIntrusion \/ EndTake \/ EndRefresh \/ IntrusionStopped
           \/ DetThrows

Next ==
    \/ StartReset \/ StopTake \/ Control
    \/ Cycle \/ IntrusionFrame \/ RefreshReference
    \/ \E c \in Threads : Call(c)
    \/ \E t \in Tasks : Loop(t)
    \/ CooldownExpires \/ SceneChanges \/ Dead

\* Every thread that can run is run, the clock advances.  Commands need not
\* come, and the scene may change for ever.
Fairness ==
    /\ WF_vars(Control) /\ WF_vars(Cycle)
    /\ WF_vars(IntrusionFrame) /\ WF_vars(RefreshReference)
    /\ \A c \in Threads : WF_vars(Call(c))
    /\ \A t \in Tasks : WF_vars(Loop(t))
    /\ WF_vars(CooldownExpires)

Spec == Init /\ [][Next]_vars /\ Fairness
-----------------------------------------------------------------------------
TypeOK ==
    /\ CT!TypeOK
    /\ m_current_state \in {"Idle", "Intrusion", "Cooldown"}
    /\ cycle \in {"frame", "start_take", "start_refresh", "intrusion",
                  "stop_refresh", "report"}
    /\ op \in InStop \cup {"none", "start_frame", "start_return"}
    /\ {scene, m_depth_frame_ref} \subseteq Scene
    /\ {expired, open, raced} \subseteq BOOLEAN
    /\ {m_frame_counter, num_frames, delivered} \subseteq 0 .. MaxFrames
    /\ cycle # "frame" => loop["detection"] = "cycle"

\* detection.cpp:105-139: between two cycles of an intrusion (or its
\* cooldown) its frames are being taken and the reference is being renewed.
IntrusionRecorded ==
    /\ ~raced /\ op = "none" /\ m_running["detection"]
    /\ cycle = "frame" /\ m_current_state # "Idle"
    => \A t \in {"take", "refresh"} : m_running[t] /\ loop[t] \in CT!Live

\* detection.cpp:131-134, 169-187: the count given to IntrusionStopped is the
\* number of frames the observer got, and no frame comes after it: frames
\* reach the observer only between IntrusionStarted and IntrusionStopped.
FramesAccounted ==
    ~raced =>
        /\ cycle = "report" => num_frames = delivered
        /\ loop["take"] # "none" => open

\* detection.cpp:57-76: Stop of all three tasks is clean, also when it comes
\* in the middle of an intrusion: once it has returned, the detection thread is
\* gone and has left no call half done.  As long as the detection thread was
\* not starting or stopping the inner tasks meanwhile, there is no exception
\* and no termination, and none of the three threads is left.
StopLeavesNothing ==
    /\ CT!Alive /\ op = "none" /\ ~m_running["detection"] =>
        /\ loop["detection"] = "none"
        /\ cycle = "frame" /\ pc["det"] \in CT!Idle
    /\ ~raced =>
        /\ CT!NoHandleMisuse
        /\ op = "none" /\ ~m_running["detection"]
               => \A t \in Tasks : loop[t] = "none"

\* detection.cpp:57-76: Stop comes back.  After a race it may not: its join
\* can then wait for a thread the detection thread has just started.
StopReturns == op \in InStop ~> op = "none" \/ raced

\* detection.cpp:115-139, 153-156: once nothing moves, an intrusion comes to
\* its end, because the reference is renewed until it shows the new scene.
IntrusionEnds ==
    <>[][FALSE]_scene =>
        (m_current_state # "Idle"
            ~> m_current_state = "Idle" \/ ~m_running["detection"] \/ raced)
-----------------------------------------------------------------------------
(* What the interface says, and the code does not do.                        *)

\* alarm_module_interface.hpp:39-43: Stop stops the module.  Its three
\* threads should then be gone.
StopStopsModule ==
    CT!Alive /\ op = "none" /\ ~m_running["detection"] =>
        \A t \in Tasks : loop[t] = "none"

\* alarm_module_interface.hpp:39-43, detection_tests.cpp:118: Stop returns 0
\* after an intrusion.  Then no thread is joined twice, by Stop and by the
\* detection thread: the second join throws.
StopIsClean == CT!Alive => \A c \in Threads : pc[c] # "threw"
=============================================================================
