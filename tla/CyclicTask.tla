----------------------------- MODULE CyclicTask -----------------------------
(***************************************************************************)
(* CyclicTask (src/cyclic_task.cpp): a member thread that runs             *)
(* ExecutionCycle() every m_loop_interval_ms until it is stopped.          *)
(* Detection, TakeVideoFrames, RefreshReferenceFrame, Liveview, Kinect and *)
(* the watchdog are all such tasks, and any thread that holds the object   *)
(* may call Start and Stop on it.                                          *)
(*                                                                         *)
(* A step is the code between two accesses to state that another thread    *)
(* can see: the atomic m_running, the handle m_thread, and the condition   *)
(* variable.  m_mutex is not modelled as a variable: only ThreadLoop locks *)
(* it, and no state has two thread loops on one object.                    *)
(***************************************************************************)
CONSTANTS
    Task,    \* the CyclicTask objects
    Caller,  \* the threads that call Start and Stop on them
    Owner,   \* Owner[t]: the callers that use object t
    Flaky    \* the objects whose thread creation may fail (EAGAIN)

ASSUME ConstantAssumption ==
    /\ Owner \in [Task -> SUBSET Caller]
    /\ Flaky \subseteq Task

VARIABLES
    m_running,  \* m_running[t]: the atomic flag
    m_thread,   \* m_thread[t]: the handle, null until a first thread is made
    loop,       \* loop[t]: where ThreadLoop stands, "none" without a thread
    pc,         \* pc[c]: where caller c stands in Start or Stop
    target,     \* target[c]: the object of c's latest call
    aborted     \* the objects whose handle was misused: the process is dead

vars == <<m_running, m_thread, loop, pc, target, aborted>>

\* The outcomes of a call: it returned 0, returned -1, or threw.
Idle    == {"idle", "returned", "failed", "threw"}
InStart == {"start_set", "start_spawn"}
InStop  == {"stop_clear", "stop_notify", "stop_join", "joining"}
Live    == {"test", "cycle", "sleep", "wait"}

Alive == aborted = {}

\* The caller that is inside Start or Stop of t, if any.
Busy(t) == {c \in Caller : target[c] = t /\ pc[c] \notin Idle}

Init ==
    /\ m_running = [t \in Task |-> FALSE]
    /\ m_thread = [t \in Task |-> "null"]
    /\ loop = [t \in Task |-> "none"]
    /\ pc = [c \in Caller |-> "idle"]
    /\ target \in [Caller -> Task]
    /\ aborted = {}
-----------------------------------------------------------------------------
(* Start *)

Goto(c, l) == pc' = [pc EXCEPT ![c] = l]

\* Start: if(!m_running), else "already started" and 0 is returned.
StartTest(c, t) ==
    /\ Alive /\ pc[c] \in Idle
    /\ target' = [target EXCEPT ![c] = t]
    /\ Goto(c, IF m_running[t] THEN "returned" ELSE "start_set")
    /\ UNCHANGED <<m_running, m_thread, loop, aborted>>

StartSet(c) ==
    /\ Alive /\ pc[c] = "start_set"
    /\ m_running' = [m_running EXCEPT ![target[c]] = TRUE]
    /\ Goto(c, "start_spawn")
    /\ UNCHANGED <<m_thread, loop, target, aborted>>

\* Mutant: the thread is made only the first time.
StartSpawnOnce(c) ==
    LET t == target[c] IN
    /\ Alive /\ pc[c] = "start_spawn"
    /\ IF m_thread[t] = "null"
       THEN /\ m_thread' = [m_thread EXCEPT ![t] = "joinable"]
            /\ loop' = [loop EXCEPT ![t] = "test"]
       ELSE UNCHANGED <<m_thread, loop>>
    /\ Goto(c, "returned")
    /\ UNCHANGED <<m_running, target, aborted>>

\* m_thread = make_unique<thread>(...).  Replacing a handle that is still
\* joinable destroys it, which is std::terminate.
StartSpawn(c) ==
    LET t == target[c] IN
    /\ Alive /\ pc[c] = "start_spawn"
    /\ IF m_thread[t] = "joinable"
       THEN /\ aborted' = {t}
            /\ UNCHANGED <<m_thread, loop>>
       ELSE /\ m_thread' = [m_thread EXCEPT ![t] = "joinable"]
            /\ loop' = [loop EXCEPT ![t] = "test"]
            /\ UNCHANGED aborted
    /\ Goto(c, "returned")
    /\ UNCHANGED <<m_running, target>>

\* The catch block: the handle keeps its value and m_running stays true.
SpawnFails(c) ==
    /\ Alive /\ pc[c] = "start_spawn" /\ target[c] \in Flaky
    /\ Goto(c, "failed")
    /\ UNCHANGED <<m_running, m_thread, loop, target, aborted>>
-----------------------------------------------------------------------------
(* Stop *)

\* Mutant: Stop without its guard.
StopTestAlways(c, t) ==
    /\ Alive /\ pc[c] \in Idle
    /\ target' = [target EXCEPT ![c] = t]
    /\ Goto(c, "stop_clear")
    /\ UNCHANGED <<m_running, m_thread, loop, aborted>>

\* Stop: if(m_running), else "already stopped" and 0 is returned.
StopTest(c, t) ==
    /\ Alive /\ pc[c] \in Idle
    /\ target' = [target EXCEPT ![c] = t]
    /\ Goto(c, IF m_running[t] THEN "stop_clear" ELSE "returned")
    /\ UNCHANGED <<m_running, m_thread, loop, aborted>>

StopClear(c) ==
    /\ Alive /\ pc[c] = "stop_clear"
    /\ m_running' = [m_running EXCEPT ![target[c]] = FALSE]
    /\ Goto(c, "stop_notify")
    /\ UNCHANGED <<m_thread, loop, target, aborted>>

\* Mutant: Stop does not join.
StopNotifyOnly(c) ==
    LET t == target[c] IN
    /\ Alive /\ pc[c] = "stop_notify"
    /\ loop' = [loop EXCEPT ![t] = IF @ = "wait" THEN "test" ELSE @]
    /\ Goto(c, "returned")
    /\ UNCHANGED <<m_running, m_thread, target, aborted>>

\* notify_one, without the mutex: it wakes a thread that already waits and is
\* lost on a thread that is about to.
StopNotify(c) ==
    LET t == target[c] IN
    /\ Alive /\ pc[c] = "stop_notify"
    /\ loop' = [loop EXCEPT ![t] = IF @ = "wait" THEN "test" ELSE @]
    /\ Goto(c, "stop_join")
    /\ UNCHANGED <<m_running, m_thread, target, aborted>>

Joiner(t) == {d \in Caller : target[d] = t /\ pc[d] = "joining"}

\* m_thread->join(): a null handle is dereferenced, a handle that is joined
\* or being joined makes join throw, else the caller blocks.
StopJoin(c) ==
    LET t == target[c] IN
    /\ Alive /\ pc[c] = "stop_join"
    /\ aborted' = IF m_thread[t] = "null" THEN {t} ELSE aborted
    /\ Goto(c, IF m_thread[t] = "joinable" /\ Joiner(t) = {}
               THEN "joining" ELSE "threw")
    /\ UNCHANGED <<m_running, m_thread, loop, target>>

\* Mutant: the handle stays joinable.
JoinReturnUnmarked(c) ==
    LET t == target[c] IN
    /\ Alive /\ pc[c] = "joining" /\ loop[t] = "exit"
    /\ loop' = [loop EXCEPT ![t] = "none"]
    /\ Goto(c, "returned")
    /\ UNCHANGED <<m_running, m_thread, target, aborted>>

\* join returns once the thread has ended, and marks the handle.
JoinReturn(c) ==
    LET t == target[c] IN
    /\ Alive /\ pc[c] = "joining" /\ loop[t] = "exit"
    /\ m_thread' = [m_thread EXCEPT ![t] = "joined"]
    /\ loop' = [loop EXCEPT ![t] = "none"]
    /\ Goto(c, "returned")
    /\ UNCHANGED <<m_running, target, aborted>>
-----------------------------------------------------------------------------
(* ThreadLoop *)

LoopGoto(t, from, to) ==
    /\ Alive /\ loop[t] = from
    /\ loop' = [loop EXCEPT ![t] = to]
    /\ UNCHANGED <<m_running, m_thread, pc, target, aborted>>

\* Mutant: the loop does not look at m_running.
LoopTestAlways(t) == LoopGoto(t, "test", "cycle")

\* while(m_running)
LoopTest(t) == LoopGoto(t, "test", IF m_running[t] THEN "cycle" ELSE "exit")

\* ExecutionCycle() has returned.
CycleEnd(t) == LoopGoto(t, "cycle", "sleep")

\* wait_until blocks.  A notify_one issued before this step is lost.
EnterWait(t) == LoopGoto(t, "sleep", "wait")

\* wait_until returns: the deadline passed, or a spurious wake-up.
WaitEnd(t) == LoopGoto(t, "wait", "test")
-----------------------------------------------------------------------------
CallStep(c) ==
    \/ StartSet(c) \/ StartSpawn(c) \/ SpawnFails(c)
    \/ StopClear(c) \/ StopNotify(c) \/ StopJoin(c) \/ JoinReturn(c)

LoopStep(t) == LoopTest(t) \/ CycleEnd(t) \/ EnterWait(t) \/ WaitEnd(t)

\* The process is gone.
Dead == aborted # {} /\ UNCHANGED vars

Next ==
    \/ \E t \in Task : \E c \in Owner[t] : StartTest(c, t) \/ StopTest(c, t)
    \/ \E c \in Caller : CallStep(c)
    \/ \E t \in Task : LoopStep(t)
    \/ Dead

\* The scheduler runs every thread that can run, ExecutionCycle returns and
\* wait_until has a deadline.  Nobody has to call Start or Stop.
Fairness ==
    /\ \A c \in Caller : WF_vars(CallStep(c))
    /\ \A t \in Task : WF_vars(LoopStep(t))

Spec == Init /\ [][Next]_vars /\ Fairness
-----------------------------------------------------------------------------
(* How the objects are meant to be used: one thread owns each of them. *)
SingleOwner == \A t \in Task : \A c, d \in Owner[t] : c = d

\* Values, and what a std::thread handle means: it is joinable exactly while
\* there is a thread that nobody has joined.
TypeOK ==
    /\ m_running \in [Task -> BOOLEAN]
    /\ m_thread \in [Task -> {"null", "joinable", "joined"}]
    /\ loop \in [Task -> Live \cup {"none", "exit"}]
    /\ pc \in [Caller -> Idle \cup InStart \cup InStop]
    /\ target \in [Caller -> Task]
    /\ aborted \subseteq Task
    /\ \A t \in Task : m_thread[t] = "joinable" <=> loop[t] # "none"

\* Stop is synchronous (Stop, l.59-79): when no call on t is under way and
\* m_running is false, no ExecutionCycle of t runs and none ever will until
\* the next Start.  The destructors, and Detection::Stop, rely on it.
StoppedIsQuiet ==
    \A t \in Task : ~m_running[t] /\ Busy(t) = {} => loop[t] = "none"

\* IsRunning tells the truth (l.81-84) when thread creation cannot fail: when
\* no call on t is under way and m_running is true, a thread serves t.
RunningIsServed ==
    \A t \in Task \ Flaky : m_running[t] /\ Busy(t) = {} => loop[t] \in Live

\* No call joins a handle twice, dereferences a null one or destroys a thread
\* that still runs (l.39-43, l.69), except after a failed thread creation.
NoHandleMisuse ==
    /\ aborted \subseteq Flaky
    /\ \A c \in Caller : pc[c] = "threw" => target[c] \in Flaky
-----------------------------------------------------------------------------
(* The service that an object is for its owner. *)

Reliable == Task \ Flaky

Asked(t) ==
    IF \E c \in Busy(t) : pc[c] \in InStart THEN "start"
    ELSE IF \E c \in Busy(t) : pc[c] \in InStop THEN "stop" ELSE "none"

State(t) ==
    IF loop[t] = "none" THEN "off" ELSE IF m_running[t] THEN "on" ELSE "ending"

Svc == INSTANCE Service WITH
         Task <- Reliable,
         call <- [t \in Reliable |-> Asked(t)],
         state <- [t \in Reliable |-> State(t)],
         working <- [t \in Reliable |-> loop[t] = "cycle"],
         alive <- Alive

\* cyclic_task.cpp:31-102: an object whose thread can be created is a service,
\* whatever becomes of the others: it works, again and again, only between a
\* Start and a Stop of its owner; once m_running is cleared the loop's test
\* begins no cycle, and Stop returns when the last one has ended.  It does
\* return, even when its notify_one is lost, because the waiting thread has a
\* deadline and reads m_running again.
ImplementsService == Svc!Spec
-----------------------------------------------------------------------------
(* What the header and the tests say, and the code does not do. *)

\* cyclic_task_tests.cpp:92-105: Stop does not wait for the loop interval.
StopWakesThread ==
    \A c \in Caller : pc[c] = "joining" => loop[target[c]] # "wait"
=============================================================================
