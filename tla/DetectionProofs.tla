-------------------------- MODULE DetectionProofs --------------------------
(***************************************************************************)
(* Proofs about Detection, for any set of scenes and any number of frames. *)
(* Two threads use the inner tasks, so the contract of CyclicTask, which   *)
(* needs one owner, is not given: it is established here object by object, *)
(* for the detection task always and for the inner tasks until a race.     *)
(***************************************************************************)
EXTENDS Detection, TLAPS

Inner == {"take", "refresh"}

\* Nobody is inside Start or Stop of t; nobody but one thread at most is.
AtRest(t)    == \A c \in Threads : target[c] = t => pc[c] \in CT!Idle
OneCaller(t) == \A c, d \in Threads :
    /\ target[c] = t /\ pc[c] \notin CT!Idle
    /\ target[d] = t /\ pc[d] \notin CT!Idle
    => c = d

\* What holds of the object while a thread is inside Start or Stop of it.
CallInv(c) ==
    LET t == target[c] IN
    /\ pc[c] = "start_set"   => ~m_running[t] /\ m_thread[t] # "joinable"
    /\ pc[c] = "start_spawn" => m_running[t] /\ m_thread[t] # "joinable"
    /\ pc[c] = "stop_clear"  => m_running[t] /\ m_thread[t] = "joinable"
    /\ pc[c] \in {"stop_notify", "stop_join", "joining"}
                             => ~m_running[t] /\ m_thread[t] = "joinable"
    /\ pc[c] # "threw"

\* The contract of one object.
ObjectInv(t) ==
    /\ \A c \in Threads : target[c] = t => CallInv(c)
    /\ AtRest(t) => (m_running[t] <=> m_thread[t] = "joinable")
    /\ loop[t] = "exit" => ~m_running[t]

\* Where the detection thread stands in its cycle, and in the call it makes.
DetCalls ==
    /\ pc["det"] # "idle" => target["det"] # "detection"
    /\ cycle \in {"frame", "start_take"} => pc["det"] \in {"idle", "returned"}
    /\ cycle \in {"start_refresh", "intrusion"} =>
         pc["det"] \in CT!InStart \cup {"returned"}
    /\ cycle \in {"stop_refresh", "report"} =>
         pc["det"] \in CT!InStop \cup {"returned", "threw"}
    /\ cycle \in {"start_refresh", "stop_refresh"} => target["det"] = "take"
    /\ cycle \in {"intrusion", "report"} => target["det"] = "refresh"

\* Where ctrl stands in Detection::Start or Stop, and in the call it makes.
CtrlCalls ==
    /\ op \in {"none", "start_frame"} =>
         pc["ctrl"] \in {"idle", "returned", "threw"}
    /\ op = "start_return" =>
         target["ctrl"] = "detection" /\ pc["ctrl"] \in CT!InStart \cup {"returned"}
    /\ op \in InStop => pc["ctrl"] \in CT!InStop \cup {"returned", "threw"}
    /\ op = "stop_refresh"   => target["ctrl"] = "take"
    /\ op = "stop_detection" => target["ctrl"] = "refresh"
    /\ op = "stop_return"    => target["ctrl"] = "detection"
    /\ op \in {"stop_refresh", "stop_detection"} => m_running["detection"]
    /\ op = "stop_return" /\ pc["ctrl"] = "returned" => ~m_running["detection"]
    /\ op = "start_frame" => ~m_running["detection"]
    /\ op = "start_frame" \/ (op = "start_return" /\ pc["ctrl"] \in CT!InStart)
         => m_current_state = "Idle"

\* What holds whether or not Stop has met a cycle that uses the inner tasks.
Always == TypeOK /\ DetCalls /\ CtrlCalls /\ ObjectInv("detection")

\* Which inner tasks run, while the detection thread starts or stops them ...
CycleInv ==
    /\ cycle \in {"start_take", "start_refresh"} => ~m_running["refresh"]
    /\ cycle \in {"start_take", "report"} => ~m_running["take"]
    /\ cycle = "intrusion"    => m_running["take"]
    /\ cycle = "stop_refresh" => m_running["refresh"]
    /\ pc["det"] = "returned" =>
         /\ cycle = "start_refresh" => m_running["take"]
         /\ cycle = "intrusion"     => m_running["refresh"]
         /\ cycle = "stop_refresh"  => ~m_running["take"]
         /\ cycle = "report"        => ~m_running["refresh"]

\* ... while Detection::Stop stops them ...
StopInv ==
    /\ op \in InStop => ~Midway
    /\ op \in {"stop_refresh", "stop_detection"} /\ cycle = "report"
         => pc["ctrl"] = "returned"
    /\ op \in {"stop_detection", "stop_return"} => ~m_running["take"]
    /\ op = "stop_return" => ~m_running["refresh"]
    /\ pc["ctrl"] = "returned" =>
         /\ op = "stop_refresh"   => ~m_running["take"]
         /\ op = "stop_detection" => ~m_running["refresh"]

\* ... and otherwise: both, exactly from one end of an intrusion to the other.
RestInv ==
    op \notin InStop /\ cycle = "frame" =>
        \A t \in Inner :
            m_running[t] <=> m_running["detection"] /\ m_current_state # "Idle"

\* The frames counted are those delivered since IntrusionStarted.
FrameInv ==
    /\ cycle # "frame" => open
    /\ loop["take"] # "none" => open
    /\ open /\ cycle # "start_take" => m_frame_counter = delivered
    /\ cycle = "start_take" => delivered = 0
    /\ cycle = "report" => num_frames = delivered

\* What holds until such a race.
Unraced ==
    ~raced =>
        /\ aborted = {}
        /\ \A t \in Inner : ObjectInv(t)
        /\ CycleInv /\ StopInv /\ RestInv /\ FrameInv

IInv == Always /\ Unraced
-----------------------------------------------------------------------------
(* CyclicTask's part of a step: somebody enters a call, goes on with it, a   *)
(* thread loop goes on, or nothing happens to the objects.                   *)

Enters == \E c \in Threads, t \in Tasks : CT!StartTest(c, t) \/ CT!StopTest(c, t)
Calls  == \E c \in Threads : CT!CallStep(c)
Loops  == \E t \in Tasks : CT!LoopStep(t)
Stays  == /\ UNCHANGED <<m_running, m_thread, loop, pc, target>>
          /\ aborted' \in {aborted, {"detection"}}

LEMMA Effects == [Next]_vars => Enters \/ Calls \/ Loops \/ Stays
<1> SUFFICES ASSUME [Next]_vars PROVE Enters \/ Calls \/ Loops \/ Stays
  OBVIOUS
<1> USE DEF Threads, Tasks
<1>1. CASE \/ StartFrame \/ StopTake \/ StopRefresh \/ StopDetection
           \/ StartTake \/ StartRefresh \/ EndTake \/ EndRefresh
  BY <1>1 DEF StartFrame, StopTake, StopRefresh, StopDetection, StopCall,
              StartTake, StartRefresh, EndTake, EndRefresh, Enters
<1>2. CASE \/ PlainCycle \/ SetIntrusion \/ IntrusionStopped
           \/ IntrusionFrame \/ RefreshReference
  BY <1>2 DEF PlainCycle, SetIntrusion, IntrusionStopped, IntrusionFrame,
              RefreshReference, Loops, CT!LoopStep
<1>3. CASE \/ StartReset \/ Return \/ IntrusionStarted \/ DetThrows
           \/ CooldownExpires \/ SceneChanges \/ Dead \/ UNCHANGED vars
  BY <1>3 DEF StartReset, Return, IntrusionStarted, DetThrows, CooldownExpires,
              SceneChanges, Dead, CT!Dead, CT!vars, vars, tasks, Stays
<1>4. CASE \E c \in Threads : Call(c)
  BY <1>4 DEF Call, Calls
<1>5. CASE \E t \in Tasks : Loop(t)
  BY <1>5 DEF Loop, Loops, CT!LoopStep
<1> QED
  BY <1>1, <1>2, <1>3, <1>4, <1>5 DEF Next, Control, Cycle

LEMMA TasksTyped ==
    ASSUME CT!TypeOK, Enters \/ Calls \/ Loops \/ Stays PROVE CT!TypeOK'
<1> USE DEF CT!TypeOK, CT!Idle, CT!InStart, CT!InStop, CT!Live, CT!Goto
<1>1. ASSUME NEW t \in Tasks, NEW c \in Threads,
             CT!StartTest(c, t) \/ CT!StopTest(c, t)
      PROVE  CT!TypeOK'
  BY <1>1 DEF CT!StartTest, CT!StopTest
<1>2. ASSUME NEW c \in Threads, CT!CallStep(c) PROVE CT!TypeOK'
  <2>1. CASE CT!StartSet(c)
    BY <2>1 DEF CT!StartSet
  <2>2. CASE CT!StartSpawn(c)
    BY <2>2 DEF CT!StartSpawn
  <2>3. CASE CT!SpawnFails(c)
    BY <2>3 DEF CT!SpawnFails
  <2>4. CASE CT!StopClear(c)
    BY <2>4 DEF CT!StopClear
  <2>5. CASE CT!StopNotify(c)
    BY <2>5 DEF CT!StopNotify
  <2>6. CASE CT!StopJoin(c)
    BY <2>6 DEF CT!StopJoin
  <2>7. CASE CT!JoinReturn(c)
    BY <2>7 DEF CT!JoinReturn
  <2> QED
    BY <1>2, <2>1, <2>2, <2>3, <2>4, <2>5, <2>6, <2>7 DEF CT!CallStep
<1>3. ASSUME NEW t \in Tasks, CT!LoopStep(t) PROVE CT!TypeOK'
  BY <1>3 DEF CT!LoopStep, CT!LoopTest, CT!CycleEnd, CT!EnterWait, CT!WaitEnd,
              CT!LoopGoto
<1>4. CASE Stays
  BY <1>4 DEF Stays, Tasks
<1> QED
  BY <1>1, <1>2, <1>3, <1>4 DEF Enters, Calls, Loops
-----------------------------------------------------------------------------
(* The contract of one object, step by step.                                 *)

LEMMA EnterKeeps ==
    ASSUME CT!TypeOK, NEW u \in Tasks, ObjectInv(u),
           NEW t \in Tasks, NEW c \in Threads,
           CT!StartTest(c, t) \/ CT!StopTest(c, t), t = u => AtRest(u)
    PROVE  ObjectInv(u)'
<1> USE DEF CT!TypeOK, CT!Idle, CT!Goto
<1>0. /\ pc[c] \in CT!Idle /\ target' = [target EXCEPT ![c] = t]
      /\ UNCHANGED <<m_running, m_thread, loop>>
      /\ \A d \in Threads \ {c} : pc'[d] = pc[d] /\ target'[d] = target[d]
  BY DEF CT!StartTest, CT!StopTest
<1>1. ASSUME NEW d \in Threads, target'[d] = u PROVE CallInv(d)'
  <2>1. CASE d # c
    BY <1>0, <1>1, <2>1 DEF ObjectInv, CallInv
  <2>2. CASE d = c
    <3>1. t = u
      BY <1>0, <1>1, <2>2
    <3>2. m_running[t] <=> m_thread[t] = "joinable"
      BY <3>1 DEF ObjectInv
    <3>3. target'[c] = t
      BY <1>0
    <3>4. CASE CT!StartTest(c, t)
      BY <2>2, <3>2, <3>3, <3>4 DEF CallInv, CT!StartTest
    <3>5. CASE CT!StopTest(c, t)
      BY <2>2, <3>2, <3>3, <3>5 DEF CallInv, CT!StopTest
    <3> QED
      BY <3>4, <3>5
  <2> QED
    BY <2>1, <2>2
<1>2. AtRest(u)' => (m_running'[u] <=> m_thread'[u] = "joinable")
  <2>1. CASE t = u
    BY <1>0, <2>1 DEF ObjectInv
  <2>2. CASE t # u
    <3>1. AtRest(u)' => AtRest(u)
      BY <1>0, <2>2 DEF AtRest
    <3> QED
      BY <1>0, <3>1 DEF ObjectInv
  <2> QED
    BY <2>1, <2>2
<1>3. loop'[u] = "exit" => ~m_running'[u]
  BY <1>0 DEF ObjectInv
<1> QED
  BY <1>1, <1>2, <1>3 DEF ObjectInv

LEMMA CallKeeps ==
    ASSUME CT!TypeOK, NEW u \in Tasks, ObjectInv(u), OneCaller(u),
           NEW c \in Threads, CT!CallStep(c)
    PROVE  ObjectInv(u)' /\ (u \in aborted' => u \in aborted)
<1> DEFINE t == target[c]
<1> USE DEF CT!TypeOK, CT!Goto
<1>0. /\ pc[c] \notin CT!Idle /\ t \in Tasks /\ target' = target
      /\ \A d \in Threads \ {c} : pc'[d] = pc[d]
  BY DEF CT!Idle, CT!CallStep, CT!StartSet, CT!StartSpawn, CT!SpawnFails,
         CT!StopClear, CT!StopNotify, CT!StopJoin, CT!JoinReturn
<1>1. CASE t # u
  <2>1. /\ m_running'[u] = m_running[u] /\ m_thread'[u] = m_thread[u]
        /\ loop'[u] = loop[u] /\ (u \in aborted' => u \in aborted)
    BY <1>0, <1>1 DEF CT!CallStep, CT!StartSet, CT!StartSpawn, CT!SpawnFails,
         CT!StopClear, CT!StopNotify, CT!StopJoin, CT!JoinReturn
  <2>2. \A d \in Threads : target[d] = u => pc'[d] = pc[d]
    BY <1>0, <1>1
  <2> QED
    BY <1>0, <2>1, <2>2 DEF ObjectInv, AtRest, CallInv
<1>2. CASE t = u
  \* No other caller is busy with u, and c finds what its place promises.
  <2>1. \A d \in Threads \ {c} : target[d] = u => pc[d] \in CT!Idle
    BY <1>0, <1>2 DEF OneCaller
  <2>2. CallInv(c) /\ (loop[u] = "exit" => ~m_running[u])
    BY <1>2 DEF ObjectInv
  <2>3. /\ CallInv(c)'
        /\ loop'[u] = "exit" => ~m_running'[u]
        /\ pc'[c] \in CT!Idle => (m_running'[u] <=> m_thread'[u] = "joinable")
        /\ u \in aborted' => u \in aborted
    <3> USE <1>0, <1>2, <2>2 DEF CallInv, CT!Idle
    <3>1. CASE CT!StartSet(c)
      BY <3>1 DEF CT!StartSet
    <3>2. CASE CT!StartSpawn(c)
      BY <3>2 DEF CT!StartSpawn
    <3>3. CASE CT!SpawnFails(c)
      BY <3>3 DEF CT!SpawnFails
    <3>4. CASE CT!StopClear(c)
      BY <3>4 DEF CT!StopClear
    <3>5. CASE CT!StopNotify(c)
      BY <3>5 DEF CT!StopNotify
    <3>6. CASE CT!StopJoin(c)
      <4>1. CT!Joiner(u) = {}
        BY <2>1, <3>6 DEF CT!Joiner, CT!StopJoin
      <4> QED
        BY <3>6, <4>1 DEF CT!StopJoin
    <3>7. CASE CT!JoinReturn(c)
      BY <3>7 DEF CT!JoinReturn
    <3> QED
      BY <3>1, <3>2, <3>3, <3>4, <3>5, <3>6, <3>7 DEF CT!CallStep
  <2>4. ASSUME NEW d \in Threads, target'[d] = u PROVE CallInv(d)'
    <3>1. CASE d = c
      BY <2>3, <3>1
    <3>2. CASE d # c
      <4>1. pc'[d] \in CT!Idle /\ pc'[d] # "threw"
        BY <1>0, <2>1, <2>4, <3>2 DEF ObjectInv, CallInv
      <4> QED
        BY <4>1 DEF CallInv, CT!Idle
    <3> QED
      BY <3>1, <3>2
  <2>5. AtRest(u)' => pc'[c] \in CT!Idle
    BY <1>0, <1>2 DEF AtRest, CT!Idle
  <2> QED
    BY <2>3, <2>4, <2>5 DEF ObjectInv
<1> QED
  BY <1>1, <1>2

LEMMA LoopKeeps ==
    ASSUME CT!TypeOK, NEW u \in Tasks, ObjectInv(u),
           NEW t \in Tasks, CT!LoopStep(t)
    PROVE  ObjectInv(u)'
<1>1. /\ UNCHANGED <<m_running, m_thread, pc, target>>
      /\ loop'[u] = "exit" => loop[u] = "exit" \/ ~m_running[u]
  BY DEF CT!LoopStep, CT!LoopTest, CT!CycleEnd, CT!EnterWait, CT!WaitEnd,
         CT!LoopGoto, CT!TypeOK
<1> QED
  BY <1>1 DEF ObjectInv, AtRest, CallInv, CT!Idle

\* All steps but those that enter a call.
LEMMA ObjectKeeps ==
    ASSUME CT!TypeOK, NEW u \in Tasks, ObjectInv(u), OneCaller(u),
           Calls \/ Loops \/ Stays
    PROVE  ObjectInv(u)'
<1>1. CASE Stays
  BY <1>1 DEF Stays, ObjectInv, AtRest, CallInv, CT!Idle
<1> QED
  BY <1>1, CallKeeps, LoopKeeps DEF Calls, Loops
-----------------------------------------------------------------------------
(* What holds always.                                                        *)

\* Who else than the thread that makes the step is where it was.
LEMMA EnterAt ==
    ASSUME CT!TypeOK, NEW t \in Tasks, NEW c \in Threads,
           CT!StartTest(c, t) \/ CT!StopTest(c, t)
    PROVE  /\ pc[c] \in CT!Idle /\ target'[c] = t
           /\ CT!StartTest(c, t) =>
                pc'[c] = IF m_running[t] THEN "returned" ELSE "start_set"
           /\ CT!StopTest(c, t) =>
                pc'[c] = IF m_running[t] THEN "stop_clear" ELSE "returned"
           /\ \A d \in Threads \ {c} : pc'[d] = pc[d] /\ target'[d] = target[d]
           /\ UNCHANGED <<m_running, m_thread, loop, aborted>>
BY DEF CT!TypeOK, CT!StartTest, CT!StopTest, CT!Goto

LEMMA CallAt ==
    ASSUME CT!TypeOK, NEW c \in Threads, CT!CallStep(c)
    PROVE  /\ aborted = {} /\ pc[c] \notin CT!Idle /\ UNCHANGED target
           /\ pc[c] \in CT!InStart => pc'[c] \in CT!InStart \cup {"returned"}
           /\ pc[c] \in CT!InStop => pc'[c] \in CT!InStop \cup {"returned", "threw"}
           /\ pc'[c] = "returned" => pc[c] \in {"start_spawn", "joining"}
           /\ pc'[c] \in CT!InStart => pc[c] = "start_set"
           /\ \A d \in Threads \ {c} : pc'[d] = pc[d]
           /\ \A u \in Tasks \ {target[c]} : /\ m_running'[u] = m_running[u]
                                             /\ loop'[u] = loop[u]
<1> USE DEF CT!TypeOK, CT!Goto, CT!Idle, CT!InStart, CT!InStop, CT!Alive
<1>1. CASE CT!StartSet(c)
  BY <1>1 DEF CT!StartSet
<1>2. CASE CT!StartSpawn(c)
  BY <1>2 DEF CT!StartSpawn
<1>3. CASE CT!SpawnFails(c)
  BY <1>3 DEF CT!SpawnFails
<1>4. CASE CT!StopClear(c)
  BY <1>4 DEF CT!StopClear
<1>5. CASE CT!StopNotify(c)
  BY <1>5 DEF CT!StopNotify
<1>6. CASE CT!StopJoin(c)
  BY <1>6 DEF CT!StopJoin
<1>7. CASE CT!JoinReturn(c)
  BY <1>7 DEF CT!JoinReturn
<1> QED
  BY <1>1, <1>2, <1>3, <1>4, <1>5, <1>6, <1>7 DEF CT!CallStep

\* A step of a thread loop, and what it leaves alone.
LEMMA LoopAt ==
    ASSUME CT!TypeOK, NEW t \in Tasks,
           CT!LoopTest(t) \/ CT!CycleEnd(t) \/ CT!EnterWait(t) \/ CT!WaitEnd(t)
    PROVE  /\ aborted = {} /\ loop[t] # "none" /\ loop'[t] # "none"
           /\ UNCHANGED <<m_running, m_thread, pc, target, aborted>>
           /\ \A u \in Tasks \ {t} : loop'[u] = loop[u]
           /\ CT!CycleEnd(t) \/ loop[t] # "cycle"
BY DEF CT!TypeOK, CT!LoopTest, CT!CycleEnd, CT!EnterWait, CT!WaitEnd, CT!LoopGoto,
       CT!Alive

\* While a cycle runs, Detection::Start is not under way, and m_running is
\* true as long as Stop has not been called.
LEMMA CycleRuns ==
    ASSUME Always, loop["detection"] = "cycle"
    PROVE  /\ op # "start_frame"
           /\ op = "start_return" => pc["ctrl"] \notin CT!InStart
           /\ op \notin InStop => m_running["detection"]
<1>1. m_thread["detection"] = "joinable"
  BY DEF Always, TypeOK, CT!TypeOK, Tasks
<1>2. op = "start_return" => pc["ctrl"] \notin CT!InStart
  BY <1>1 DEF Always, CtrlCalls, ObjectInv, CallInv, CT!InStart, Threads
<1>3. op \notin InStop => AtRest("detection")
  BY <1>2 DEF Always, TypeOK, CT!TypeOK, CtrlCalls, DetCalls, AtRest, Threads,
              CT!Idle, CT!InStart, InStop
<1>4. op \notin InStop => m_running["detection"]
  BY <1>1, <1>3 DEF Always, ObjectInv
<1> QED
  BY <1>2, <1>4 DEF Always, CtrlCalls, InStop

\* The actions, sorted by who makes them and what they do to the objects.
CtrlEnters == StartFrame \/ StopTake \/ StopRefresh \/ StopDetection
DetEnters  == StartTake \/ StartRefresh \/ EndTake \/ EndRefresh
CycleEnds  == PlainCycle \/ SetIntrusion \/ IntrusionStopped
InnerEnds  == IntrusionFrame \/ RefreshReference
Outside    == StartReset \/ Return \/ CooldownExpires \/ SceneChanges \/ Dead
                \/ UNCHANGED vars

LEMMA Steps ==
    [Next]_vars =>
        \/ CtrlEnters \/ DetEnters \/ CycleEnds \/ InnerEnds \/ Outside
        \/ IntrusionStarted \/ DetThrows
        \/ \E c \in Threads : Call(c)
        \/ \E t \in Tasks : Loop(t)
BY DEF Next, Control, Cycle, CtrlEnters, DetEnters, CycleEnds, InnerEnds, Outside

LEMMA TypeStep == TypeOK /\ [Next]_vars => TypeOK'
<1> SUFFICES ASSUME TypeOK, [Next]_vars PROVE TypeOK'
  OBVIOUS
<1> DEFINE Values == /\ m_current_state \in {"Idle", "Intrusion", "Cooldown"}
                     /\ cycle \in {"frame", "start_take", "start_refresh",
                                   "intrusion", "stop_refresh", "report"}
                     /\ op \in InStop \cup {"none", "start_frame", "start_return"}
                     /\ {scene, m_depth_frame_ref} \subseteq Scene
                     /\ {expired, open, raced} \subseteq BOOLEAN
                     /\ {m_frame_counter, num_frames, delivered} \subseteq 0 .. MaxFrames
           InCall == cycle # "frame" => loop["detection"] = "cycle"
<1> USE DEF Threads, Tasks
<1>0. CT!TypeOK /\ CT!TypeOK' /\ Values /\ InCall
  BY TasksTyped, Effects DEF TypeOK
<1>1. CASE CtrlEnters
  <2>1. loop' = loop /\ cycle' = cycle
    BY <1>1 DEF CtrlEnters, StartFrame, StopTake, StopRefresh, StopDetection,
                StopCall, CT!StartTest, CT!StopTest
  <2>2. Values'
    BY <1>0, <1>1 DEF CtrlEnters, StartFrame, StopTake, StopRefresh,
                StopDetection, StopCall, InStop, frames
  <2> QED
    BY <1>0, <2>1, <2>2 DEF TypeOK
<1>2. CASE DetEnters
  <2>1. loop' = loop /\ loop["detection"] = "cycle"
    BY <1>2 DEF DetEnters, StartTake, StartRefresh, EndTake, EndRefresh, InCycle,
                CT!StartTest, CT!StopTest
  <2>2. Values'
    <3>1. CASE StartTake \/ StartRefresh \/ EndRefresh
      BY <1>0, <3>1, DetectionAssumption DEF StartTake, StartRefresh, EndRefresh,
                frames
    <3>2. CASE EndTake
      <4>1. raced' \in BOOLEAN
        BY <3>2 DEF EndTake
      <4> QED
        BY <1>0, <3>2, <4>1 DEF EndTake, frames
    <3> QED
      BY <1>2, <3>1, <3>2 DEF DetEnters
  <2> QED
    BY <1>0, <2>1, <2>2 DEF TypeOK
<1>3. CASE CycleEnds
  <2>1. cycle' = "frame"
    BY <1>3 DEF CycleEnds, PlainCycle, SetIntrusion, IntrusionStopped, InCycle
  <2>2. Values'
    <3>1. CASE PlainCycle
      <4>1. expired' \in BOOLEAN
        BY <3>1 DEF PlainCycle
      <4>2. m_current_state' \in {"Idle", "Intrusion", "Cooldown"}
        BY <1>0, <3>1 DEF PlainCycle, NextState
      <4>3. UNCHANGED <<cycle, op, scene, m_depth_frame_ref, frames, open, raced>>
        BY <3>1 DEF PlainCycle
      <4> QED
        BY <1>0, <4>1, <4>2, <4>3 DEF frames
    <3>2. CASE SetIntrusion
      BY <1>0, <3>2 DEF SetIntrusion, frames
    <3>3. CASE IntrusionStopped
      <4>1. /\ open' = FALSE /\ expired' = FALSE /\ num_frames' = 0
            /\ m_current_state' = "Idle" /\ cycle' = "frame"
            /\ UNCHANGED <<op, scene, m_depth_frame_ref, m_frame_counter,
                           delivered, raced>>
        BY <3>3 DEF IntrusionStopped
      <4>2. 0 \in 0 .. MaxFrames
        BY DetectionAssumption
      <4> QED
        BY <1>0, <4>1, <4>2
    <3> QED
      BY <1>3, <3>1, <3>2, <3>3 DEF CycleEnds
  <2> QED
    BY <1>0, <2>1, <2>2 DEF TypeOK
<1>4. CASE InnerEnds
  <2>1. cycle' = cycle /\ loop'["detection"] = loop["detection"]
    BY <1>0, <1>4, LoopAt DEF InnerEnds, IntrusionFrame, RefreshReference
  <2>2. Values'
    BY <1>0, <1>4, DetectionAssumption DEF InnerEnds, IntrusionFrame,
                RefreshReference, Count, frames
  <2> QED
    BY <1>0, <2>1, <2>2 DEF TypeOK
<1>5. CASE Outside \/ DetThrows
  <2>1. cycle' = cycle /\ loop' = loop
    BY <1>5 DEF Outside, StartReset, Return, CooldownExpires, SceneChanges, Dead,
                Local, CT!Dead, CT!vars, vars, tasks, DetThrows
  <2>2. Values'
    BY <1>0, <1>5 DEF Outside, StartReset, Return, CooldownExpires, SceneChanges,
                Dead, Local, vars, frames, DetThrows
  <2> QED
    BY <1>0, <2>1, <2>2 DEF TypeOK
<1>6. CASE IntrusionStarted
  BY <1>0, <1>6, DetectionAssumption DEF IntrusionStarted, InCycle, tasks, TypeOK
<1>7. ASSUME NEW c \in Threads, Call(c) PROVE TypeOK'
  <2>1. loop["detection"] = "cycle" => loop'["detection"] = "cycle"
    BY <1>0, <1>7 DEF Call, CT!TypeOK, CT!CallStep, CT!StartSet, CT!StartSpawn,
       CT!SpawnFails, CT!StopClear, CT!StopNotify, CT!StopJoin, CT!JoinReturn
  <2> QED
    BY <1>0, <1>7, <2>1 DEF Call, Local, frames, TypeOK
<1>8. ASSUME NEW t \in Tasks, Loop(t) PROVE TypeOK'
  <2>1. loop["detection"] = "cycle" => loop'["detection"] = "cycle"
    BY <1>0, <1>8 DEF Loop, CT!TypeOK, CT!LoopTest, CT!EnterWait, CT!WaitEnd,
                      CT!LoopGoto
  <2> QED
    BY <1>0, <1>8, <2>1 DEF Loop, Local, frames, TypeOK
<1> QED
  BY <1>1, <1>2, <1>3, <1>4, <1>5, <1>6, <1>7, <1>8, Steps

LEMMA DetCallsStep ==
    ASSUME TypeOK, DetCalls, [Next]_vars PROVE DetCalls'
<1> USE DEF Threads, Tasks
<1> DEFINE same == /\ pc'["det"] = pc["det"] /\ target'["det"] = target["det"]
                   /\ cycle' = cycle
<1>0. CT!TypeOK
  BY DEF TypeOK
<1>1. ASSUME same PROVE DetCalls'
  BY <1>1 DEF DetCalls
<1>2. CASE CtrlEnters
  <2>1. same
    BY <1>0, <1>2, EnterAt DEF CtrlEnters, StartFrame, StopTake, StopRefresh,
                               StopDetection, StopCall
  <2> QED
    BY <1>1, <2>1
<1>3. CASE DetEnters
  <2>1. CASE StartTake \/ StartRefresh
    <3>1. PICK t \in Inner : CT!StartTest("det", t) /\
                  \/ cycle' = "start_refresh" /\ t = "take"
                  \/ cycle' = "intrusion" /\ t = "refresh"
      BY <2>1 DEF StartTake, StartRefresh, Inner
    <3>2. target'["det"] = t /\ pc'["det"] \in {"returned", "start_set"}
      BY <1>0, <3>1, EnterAt DEF Inner
    <3> QED
      BY <3>1, <3>2 DEF DetCalls, Inner, CT!InStart
  <2>2. CASE EndTake \/ EndRefresh
    <3>1. PICK t \in Inner : CT!StopTest("det", t) /\
                  \/ cycle' = "stop_refresh" /\ t = "take"
                  \/ cycle' = "report" /\ t = "refresh"
      BY <2>2 DEF EndTake, EndRefresh, Inner
    <3>2. target'["det"] = t /\ pc'["det"] \in {"returned", "stop_clear"}
      BY <1>0, <3>1, EnterAt DEF Inner
    <3> QED
      BY <3>1, <3>2 DEF DetCalls, Inner, CT!InStop
  <2> QED
    BY <1>3, <2>1, <2>2 DEF DetEnters
<1>4. CASE CycleEnds
  <2>1. /\ UNCHANGED <<pc, target>> /\ cycle' = "frame"
        /\ pc["det"] = "returned" \/ cycle = "frame"
    BY <1>4 DEF CycleEnds, PlainCycle, SetIntrusion, IntrusionStopped, InCycle,
                CT!CycleEnd, CT!LoopGoto
  <2> QED
    BY <2>1 DEF DetCalls
<1>5. CASE InnerEnds
  <2>1. same
    BY <1>5 DEF InnerEnds, IntrusionFrame, RefreshReference, CT!CycleEnd, CT!LoopGoto
  <2> QED
    BY <1>1, <2>1
<1>6. CASE Outside \/ DetThrows
  <2>1. same
    BY <1>6 DEF Outside, StartReset, Return, CooldownExpires, SceneChanges, Dead,
                Local, CT!Dead, CT!vars, vars, tasks, DetThrows
  <2> QED
    BY <1>1, <2>1
<1>7. CASE IntrusionStarted
  BY <1>7 DEF IntrusionStarted, InCycle, tasks, DetCalls
<1>8. ASSUME NEW c \in Threads, Call(c) PROVE DetCalls'
  <2>1. CT!CallStep(c) /\ cycle' = cycle /\ target' = target
    BY <1>0, <1>8, CallAt DEF Call, Local
  <2>2. CASE c = "ctrl"
    <3>1. same
      BY <1>0, <2>1, <2>2, CallAt
    <3> QED
      BY <1>1, <3>1
  <2>3. CASE c = "det"
    <3>1. /\ pc["det"] \notin CT!Idle
          /\ pc["det"] \in CT!InStart => pc'["det"] \in CT!InStart \cup {"returned"}
          /\ pc["det"] \in CT!InStop =>
               pc'["det"] \in CT!InStop \cup {"returned", "threw"}
      BY <1>0, <2>1, <2>3, CallAt
    <3>2. cycle \in {"start_refresh", "intrusion", "stop_refresh", "report"}
      BY <3>1 DEF TypeOK, DetCalls, CT!Idle
    <3> QED
      BY <2>1, <3>1, <3>2 DEF DetCalls, CT!Idle, CT!InStart, CT!InStop
  <2> QED
    BY <2>2, <2>3
<1>9. ASSUME NEW t \in Tasks, Loop(t) PROVE DetCalls'
  <2>1. same
    BY <1>0, <1>9, LoopAt DEF Loop, Local
  <2> QED
    BY <1>1, <2>1
<1> QED
  BY <1>2, <1>3, <1>4, <1>5, <1>6, <1>7, <1>8, <1>9, Steps

LEMMA CtrlCallsStep ==
    ASSUME Always, TypeOK', [Next]_vars PROVE CtrlCalls'
<1> USE DEF Threads, Tasks
<1> DEFINE same == /\ pc'["ctrl"] = pc["ctrl"] /\ target'["ctrl"] = target["ctrl"]
                   /\ m_running'["detection"] = m_running["detection"]
                   /\ op' = op
           start == \/ op = "start_frame"
                    \/ op = "start_return" /\ pc["ctrl"] \in CT!InStart
<1>0. CT!TypeOK /\ TypeOK /\ CtrlCalls /\ DetCalls
  BY DEF TypeOK, Always
\* The state changes only in a cycle, and then Start is not under way.
<1>1. ASSUME same, m_current_state' = m_current_state \/ loop["detection"] = "cycle"
      PROVE  CtrlCalls'
  <2>1. start => m_current_state' = m_current_state
    BY <1>1, CycleRuns
  <2> QED
    BY <1>0, <1>1, <2>1 DEF CtrlCalls
<1>2. CASE CtrlEnters
  <2>0. m_current_state' = m_current_state
    BY <1>2 DEF CtrlEnters, StartFrame, StopTake, StopRefresh, StopDetection,
                StopCall
  <2>1. CASE StartFrame
    <3>1. /\ CT!StartTest("ctrl", "detection") /\ op = "start_frame"
          /\ op' = "start_return"
      BY <2>1 DEF StartFrame
    <3>2. target'["ctrl"] = "detection" /\ pc'["ctrl"] = "start_set"
      BY <1>0, <3>1, EnterAt DEF CtrlCalls
    <3> QED
      BY <1>0, <2>0, <3>1, <3>2 DEF CtrlCalls, InStop, CT!InStart
  <2>2. CASE StopTake \/ StopRefresh
    <3>1. PICK t \in Inner : CT!StopTest("ctrl", t) /\
                  \/ op' = "stop_refresh" /\ t = "take"
                  \/ op' = "stop_detection" /\ t = "refresh"
      BY <2>2 DEF StopTake, StopRefresh, StopCall, Inner
    <3>2. m_running["detection"]
      BY <1>0, <2>2 DEF StopTake, StopRefresh, StopCall, CtrlCalls
    <3>3. /\ target'["ctrl"] = t /\ pc'["ctrl"] \in {"returned", "stop_clear"}
          /\ m_running' = m_running
      BY <1>0, <3>1, EnterAt DEF Inner
    <3> QED
      BY <3>1, <3>2, <3>3 DEF CtrlCalls, InStop, CT!InStop
  <2>3. CASE StopDetection
    <3>1. /\ CT!StopTest("ctrl", "detection") /\ op = "stop_detection"
          /\ op' = "stop_return"
      BY <2>3 DEF StopDetection, StopCall
    <3>2. target'["ctrl"] = "detection" /\ pc'["ctrl"] = "stop_clear"
      BY <1>0, <3>1, EnterAt DEF CtrlCalls
    <3> QED
      BY <3>1, <3>2 DEF CtrlCalls, InStop, CT!InStop
  <2> QED
    BY <1>2, <2>1, <2>2, <2>3 DEF CtrlEnters
<1>3. CASE DetEnters
  <2>1. PICK t \in Tasks : CT!StartTest("det", t) \/ CT!StopTest("det", t)
    BY <1>3 DEF DetEnters, StartTake, StartRefresh, EndTake, EndRefresh
  <2>2. op' = op /\ m_current_state' = m_current_state
    BY <1>3 DEF DetEnters, StartTake, StartRefresh, EndTake, EndRefresh
  <2>3. same
    BY <1>0, <2>1, <2>2, EnterAt
  <2> QED
    BY <1>1, <2>2, <2>3
<1>4. CASE CycleEnds \/ InnerEnds
  <2>1. same
    BY <1>4 DEF CycleEnds, PlainCycle, SetIntrusion, IntrusionStopped, InnerEnds,
                IntrusionFrame, RefreshReference, CT!CycleEnd, CT!LoopGoto
  <2>2. m_current_state' = m_current_state \/ loop["detection"] = "cycle"
    BY <1>4 DEF CycleEnds, PlainCycle, SetIntrusion, IntrusionStopped, InnerEnds,
                IntrusionFrame, RefreshReference, InCycle
  <2> QED
    BY <1>1, <2>1, <2>2
<1>5. CASE StartReset
  BY <1>0, <1>5 DEF StartReset, tasks, CtrlCalls, InStop
<1>6. CASE Return
  BY <1>0, <1>6 DEF Return, tasks, CtrlCalls, InStop
<1>7. CASE \/ IntrusionStarted \/ DetThrows \/ CooldownExpires \/ SceneChanges
           \/ Dead \/ UNCHANGED vars
  <2>1. same /\ m_current_state' = m_current_state
    BY <1>7 DEF IntrusionStarted, DetThrows, CooldownExpires, SceneChanges, Dead,
                Local, CT!Dead, CT!vars, vars, tasks
  <2> QED
    BY <1>1, <2>1
<1>8. ASSUME NEW c \in Threads, Call(c) PROVE CtrlCalls'
  <2>1. /\ CT!CallStep(c) /\ op' = op /\ target' = target
        /\ m_current_state' = m_current_state
    BY <1>0, <1>8, CallAt DEF Call, Local
  <2>2. CASE c = "det"
    <3>1. target["det"] # "detection"
      BY <1>0, <2>1, <2>2, CallAt DEF DetCalls, CT!Idle
    <3>2. same
      BY <1>0, <2>1, <2>2, <3>1, CallAt
    <3> QED
      BY <1>1, <2>1, <3>2
  <2>3. CASE c = "ctrl"
    <3>1. /\ pc["ctrl"] \notin CT!Idle
          /\ pc["ctrl"] \in CT!InStart =>
               pc'["ctrl"] \in CT!InStart \cup {"returned"}
          /\ pc["ctrl"] \in CT!InStop =>
               pc'["ctrl"] \in CT!InStop \cup {"returned", "threw"}
          /\ pc'["ctrl"] = "returned" => pc["ctrl"] \in {"start_spawn", "joining"}
          /\ pc'["ctrl"] \in CT!InStart => pc["ctrl"] = "start_set"
          /\ target["ctrl"] # "detection" =>
               m_running'["detection"] = m_running["detection"]
      BY <1>0, <2>1, <2>3, CallAt
    <3>2. op \in InStop \cup {"start_return"}
      BY <1>0, <3>1 DEF TypeOK, CtrlCalls, CT!Idle
    <3>3. CASE op = "start_return"
      BY <1>0, <2>1, <3>1, <3>3 DEF CtrlCalls, InStop, CT!InStart, CT!Idle
    <3>4. CASE op \in {"stop_refresh", "stop_detection"}
      BY <1>0, <2>1, <3>1, <3>4 DEF CtrlCalls, InStop, CT!InStop, CT!Idle
    <3>5. CASE op = "stop_return"
      <4>1. pc'["ctrl"] = "returned" => ~m_running'["detection"]
        <5>1. CASE CT!JoinReturn("ctrl")
          <6>1. pc["ctrl"] = "joining" /\ target["ctrl"] = "detection"
                /\ m_running' = m_running
            BY <1>0, <3>5, <5>1 DEF CT!JoinReturn, CtrlCalls
          <6> QED
            BY <6>1 DEF Always, ObjectInv, CallInv
        <5>2. CASE pc'["ctrl"] = "returned" /\ ~CT!JoinReturn("ctrl")
          <6>1. pc["ctrl"] \in CT!InStop
            BY <1>0, <3>1, <3>5 DEF CtrlCalls, InStop, CT!Idle
          <6>2. pc["ctrl"] = "joining"
            BY <3>1, <5>2, <6>1 DEF CT!InStop
          <6> QED
            BY <2>1, <2>3, <5>2, <6>2 DEF CT!CallStep, CT!StartSet, CT!StartSpawn,
               CT!SpawnFails, CT!StopClear, CT!StopNotify, CT!StopJoin
        <5> QED
          BY <5>1, <5>2
      <4> QED
        BY <1>0, <2>1, <3>1, <3>5, <4>1 DEF CtrlCalls, InStop, CT!InStop, CT!Idle
    <3> QED
      BY <3>2, <3>3, <3>4, <3>5 DEF InStop
  <2> QED
    BY <2>2, <2>3
<1>9. ASSUME NEW t \in Tasks, Loop(t) PROVE CtrlCalls'
  <2>1. same /\ m_current_state' = m_current_state
    BY <1>0, <1>9, LoopAt DEF Loop, Local
  <2> QED
    BY <1>1, <2>1
<1> QED
  BY <1>2, <1>3, <1>4, <1>5, <1>6, <1>7, <1>8, <1>9, Steps DEF Outside

LEMMA AlwaysStep == Always /\ [Next]_vars => Always'
<1> SUFFICES ASSUME Always, [Next]_vars PROVE Always'
  OBVIOUS
<1>1. TypeOK' /\ DetCalls' /\ CtrlCalls'
  BY TypeStep, DetCallsStep, CtrlCallsStep DEF Always
<1>2. CT!TypeOK /\ ObjectInv("detection") /\ "detection" \in Tasks
  BY DEF Always, TypeOK, Tasks
\* The detection thread never calls Start or Stop of its own object.
<1>3. \A c \in Threads :
         target[c] = "detection" /\ pc[c] \notin CT!Idle => c = "ctrl"
  BY DEF Threads, Always, DetCalls, CT!Idle
<1>4. CASE Enters
  <2>1. PICK c \in Threads, t \in Tasks : CT!StartTest(c, t) \/ CT!StopTest(c, t)
    BY <1>4 DEF Enters
  <2>2. /\ pc[c] \in CT!Idle /\ target'[c] = t
        /\ pc'[c] \in {"start_set", "stop_clear", "returned"}
    BY <1>2, <2>1, EnterAt
  <2>3. t = "detection" => AtRest("detection")
    <3>1. t = "detection" => c = "ctrl"
      BY <1>1, <2>2 DEF DetCalls, Threads
    <3> QED
      BY <1>3, <2>2, <3>1 DEF AtRest
  <2> QED
    BY <1>1, <1>2, <2>1, <2>3, EnterKeeps DEF Always
<1>5. CASE Calls \/ Loops \/ Stays
  <2>1. OneCaller("detection")
    BY <1>3 DEF OneCaller
  <2> QED
    BY <1>1, <1>2, <1>5, <2>1, ObjectKeeps DEF Always
<1> QED
  BY <1>4, <1>5, Effects
-----------------------------------------------------------------------------
(* What holds until a race.                                                  *)

\* The inner tasks have one caller at a time, though two threads use them.
LEMMA InnerCallers ==
    ASSUME Always, Unraced, ~raced
    PROVE  /\ \A u \in Tasks : ObjectInv(u) /\ OneCaller(u)
           /\ \A c \in Threads : pc[c] # "threw"
           /\ op \notin InStop =>
                /\ \A t \in Inner : target["ctrl"] = t => pc["ctrl"] \in CT!Idle
                /\ pc["det"] \in CT!Idle => \A t \in Inner : AtRest(t)
                /\ cycle \in {"intrusion", "report"} => AtRest("take")
                /\ cycle \in {"start_refresh", "stop_refresh"} => AtRest("refresh")
           /\ cycle = "report" /\ pc["det"] = "returned" => AtRest("take")
           /\ op = "stop_refresh" /\ pc["ctrl"] = "returned" => AtRest("refresh")
<1> USE DEF Threads, Tasks, Inner, CT!Idle
<1>1. \A u \in Tasks : ObjectInv(u)
  BY DEF Always, Unraced
<1>2. op \in InStop => pc["det"] \in CT!Idle
  BY DEF Always, DetCalls, Unraced, StopInv, Midway
<1>3. op \notin InStop =>
        \A t \in Inner : target["ctrl"] = t => pc["ctrl"] \in CT!Idle
  <2>1. op \notin InStop => op \in {"none", "start_frame", "start_return"}
    BY DEF Always, TypeOK
  <2> QED
    BY <2>1 DEF Always, CtrlCalls
<1>4. \A u \in Tasks : OneCaller(u)
  BY <1>2, <1>3 DEF OneCaller, Always, DetCalls
<1>5. \A c \in Threads : pc[c] # "threw"
  BY <1>1 DEF ObjectInv, CallInv, Always, TypeOK, CT!TypeOK
<1>6. op \notin InStop =>
        /\ pc["det"] \in CT!Idle => \A t \in Inner : AtRest(t)
        /\ cycle \in {"intrusion", "report"} => AtRest("take")
        /\ cycle \in {"start_refresh", "stop_refresh"} => AtRest("refresh")
  BY <1>3 DEF AtRest, Always, DetCalls
<1>7. op = "stop_refresh" /\ pc["ctrl"] = "returned" => AtRest("refresh")
  BY <1>2 DEF AtRest, InStop
<1>8. ASSUME cycle = "report", pc["det"] = "returned"
      PROVE  AtRest("take")
  <2>1. op = "stop_refresh" => pc["ctrl"] = "returned"
    BY <1>8 DEF Unraced, StopInv
  <2>2. target["ctrl"] = "take" => pc["ctrl"] \in CT!Idle
    <3>1. CASE op \in {"none", "start_frame"}
      BY <3>1 DEF Always, CtrlCalls
    <3>2. CASE op \in {"start_return", "stop_detection", "stop_return"}
      BY <3>2 DEF Always, CtrlCalls
    <3> QED
      BY <2>1, <3>1, <3>2 DEF Always, TypeOK, InStop
  <2> QED
    BY <1>8, <2>2 DEF AtRest
<1> QED
  BY <1>1, <1>3, <1>4, <1>5, <1>6, <1>7, <1>8

\* At rest, a task has a thread exactly while m_running is true.
LEMMA ThreadAtRest ==
    ASSUME CT!TypeOK, NEW t \in Tasks, ObjectInv(t), AtRest(t)
    PROVE  /\ ~m_running[t] => loop[t] = "none"
           /\ m_running[t] => loop[t] \in CT!Live
BY DEF CT!TypeOK, ObjectInv

\* Where a call of Start or Stop leaves the object.
LEMMA CallLeaves ==
    ASSUME CT!TypeOK, NEW c \in Threads, CT!CallStep(c), ObjectInv(target[c])
    PROVE  LET t == target[c] IN
           /\ pc'[c] = "returned" => (m_running'[t] <=> pc[c] \in CT!InStart)
           /\ loop'[t] # "none" => loop[t] # "none" \/ pc[c] \in CT!InStart
           /\ m_running'[t] # m_running[t] => pc[c] \in {"start_set", "stop_clear"}
<1> USE DEF CT!TypeOK, CT!Goto, CT!InStart, ObjectInv, CallInv
<1>1. CASE CT!StartSet(c)
  BY <1>1 DEF CT!StartSet
<1>2. CASE CT!StartSpawn(c)
  BY <1>2 DEF CT!StartSpawn
<1>3. CASE CT!SpawnFails(c)
  BY <1>3 DEF CT!SpawnFails
<1>4. CASE CT!StopClear(c)
  BY <1>4 DEF CT!StopClear
<1>5. CASE CT!StopNotify(c)
  BY <1>5 DEF CT!StopNotify
<1>6. CASE CT!StopJoin(c)
  BY <1>6 DEF CT!StopJoin
<1>7. CASE CT!JoinReturn(c)
  BY <1>7 DEF CT!JoinReturn
<1> QED
  BY <1>1, <1>2, <1>3, <1>4, <1>5, <1>6, <1>7 DEF CT!CallStep

\* The objects keep their contract, and nobody misuses a handle.
LEMMA ObjectsStep ==
    ASSUME Always, Always', Unraced, ~raced', [Next]_vars
    PROVE  ~raced /\ aborted' = {} /\ \A t \in Inner : ObjectInv(t)'
<1> USE DEF Inner, Threads, Tasks
<1>1. ~raced
  BY Steps DEF CtrlEnters, StartFrame, StopTake, StopRefresh, StopDetection, StopCall,
     DetEnters, StartTake, StartRefresh, EndTake, EndRefresh, CycleEnds, PlainCycle,
     SetIntrusion, IntrusionStopped, InnerEnds, IntrusionFrame, RefreshReference,
     Outside, StartReset, Return, CooldownExpires, SceneChanges, Dead, Local, vars,
     IntrusionStarted, DetThrows, Call, Loop
<1>2. /\ CT!TypeOK /\ CT!TypeOK' /\ aborted = {}
      /\ \A u \in Tasks : ObjectInv(u) /\ OneCaller(u)
  BY <1>1, InnerCallers DEF Always, TypeOK, Unraced
<1>3. ASSUME NEW c \in Threads, NEW t \in Tasks,
             CT!StartTest(c, t) \/ CT!StopTest(c, t), AtRest(t)
      PROVE  aborted' = {} /\ \A u \in Inner : ObjectInv(u)'
  BY <1>2, <1>3, EnterAt, EnterKeeps
<1>4. ASSUME NEW c \in Threads, NEW t \in Inner,
             CT!StartTest(c, "detection") \/ CT!StopTest(c, "detection")
      PROVE  aborted' = {} /\ \A u \in Inner : ObjectInv(u)'
  BY <1>2, <1>4, EnterAt, EnterKeeps
<1>5. ASSUME Calls \/ Loops \/ Stays, aborted' = {}
      PROVE  aborted' = {} /\ \A u \in Inner : ObjectInv(u)'
  BY <1>2, <1>5, ObjectKeeps
<1>6. CASE CtrlEnters
  <2>1. CASE StartFrame \/ StopDetection
    BY <1>1, <1>4, <2>1 DEF StartFrame, StopDetection, StopCall
  <2>2. CASE StopTake
    <3>1. ~Midway /\ op = "none" /\ CT!StopTest("ctrl", "take")
      BY <2>2 DEF StopTake, StopCall
    <3>2. AtRest("take")
      BY <1>1, <3>1, InnerCallers DEF Always, DetCalls, InStop, Midway, CT!Idle
    <3> QED
      BY <1>1, <1>3, <3>1, <3>2
  <2>3. CASE StopRefresh
    <3>1. /\ op = "stop_refresh" /\ pc["ctrl"] = "returned"
          /\ CT!StopTest("ctrl", "refresh")
      BY <2>3 DEF StopRefresh, StopCall
    <3>2. AtRest("refresh")
      BY <1>1, <3>1, InnerCallers
    <3> QED
      BY <1>1, <1>3, <3>1, <3>2
  <2> QED
    BY <1>6, <2>1, <2>2, <2>3 DEF CtrlEnters
<1>7. CASE DetEnters
  <2>1. op \notin InStop
    BY <1>1, <1>7 DEF DetEnters, StartTake, StartRefresh, EndTake, EndRefresh,
                      InCycle, Unraced, StopInv, Midway
  <2>2. pc["det"] \in CT!Idle
    BY <1>7 DEF DetEnters, StartTake, StartRefresh, EndTake, EndRefresh,
                CT!StartTest, CT!StopTest
  <2>3. AtRest("take") /\ AtRest("refresh")
    BY <1>1, <2>1, <2>2, InnerCallers
  <2> QED
    BY <1>1, <1>3, <1>7, <2>3 DEF DetEnters, StartTake, StartRefresh, EndTake, EndRefresh
<1>8. CASE CycleEnds \/ InnerEnds
  <2>1. Loops /\ aborted' = aborted
    BY <1>8 DEF CycleEnds, PlainCycle, SetIntrusion, IntrusionStopped, InnerEnds,
       IntrusionFrame, RefreshReference, Loops, CT!LoopStep, CT!CycleEnd, CT!LoopGoto
  <2> QED
    BY <1>1, <1>2, <1>5, <2>1
<1>9. CASE Outside \/ IntrusionStarted
  <2>1. Stays /\ aborted' = aborted
    BY <1>9 DEF Outside, StartReset, Return, CooldownExpires, SceneChanges, Dead,
       Local, CT!Dead, CT!vars, vars, tasks, IntrusionStarted, Stays
  <2> QED
    BY <1>1, <1>2, <1>5, <2>1
<1>10. CASE DetThrows
  BY <1>1, <1>10, InnerCallers DEF DetThrows
<1>11. ASSUME NEW c \in Threads, Call(c)
       PROVE  aborted' = {} /\ \A u \in Inner : ObjectInv(u)'
  <2>1. CT!CallStep(c)
    BY <1>11 DEF Call
  <2>2. \A u \in Tasks : u \notin aborted'
    BY <1>2, <2>1, CallKeeps
  <2>3. aborted' = {}
    BY <1>2, <2>2 DEF CT!TypeOK
  <2> QED
    BY <1>5, <2>1, <2>3 DEF Calls
<1>12. ASSUME NEW t \in Tasks, Loop(t)
       PROVE  aborted' = {} /\ \A u \in Inner : ObjectInv(u)'
  <2>1. CT!LoopStep(t) /\ aborted' = aborted
    BY <1>12 DEF Loop, CT!LoopStep, CT!LoopTest, CT!EnterWait, CT!WaitEnd, CT!LoopGoto
  <2> QED
    BY <1>2, <1>5, <2>1 DEF Loops
<1> QED
  BY <1>1, <1>6, <1>7, <1>8, <1>9, <1>10, <1>11, <1>12, Steps

Links == CycleInv /\ StopInv /\ RestInv /\ FrameInv

\* Steps of ctrl that enter a call, and of the thread loops.
LEMMA CtrlLinks ==
    ASSUME Always, Unraced, ~raced, ~raced',
           CtrlEnters \/ Outside \/ InnerEnds \/ \E t \in Tasks : Loop(t)
    PROVE  Links'
<1> USE DEF Inner, Threads, Tasks, Links
<1>0. CT!TypeOK /\ Links
  BY DEF Always, TypeOK, Unraced
<1>1. CASE CtrlEnters
  <2>1. /\ UNCHANGED <<m_running, loop, cycle, m_current_state, frames, open>>
        /\ pc'["det"] = pc["det"]
    BY <1>0, <1>1, EnterAt DEF CtrlEnters, StartFrame, StopTake, StopRefresh,
                               StopDetection, StopCall
  <2>2. CycleInv' /\ FrameInv'
    BY <1>0, <2>1 DEF CycleInv, FrameInv, frames
  <2>3. CASE StartFrame
    <3>1. op = "start_frame" /\ op' = "start_return"
      BY <2>3 DEF StartFrame
    <3> QED
      BY <1>0, <2>1, <2>2, <3>1 DEF StopInv, Midway, RestInv, InStop
  <2>4. CASE StopTake
    <3>1. op' = "stop_refresh" /\ ~Midway /\ CT!StopTest("ctrl", "take")
      BY <2>4 DEF StopTake, StopCall
    <3>2. pc'["ctrl"] = "returned" <=> ~m_running["take"]
      BY <1>0, <3>1, EnterAt
    <3>3. cycle = "report" => ~m_running["take"]
      BY <1>0 DEF CycleInv
    <3> QED
      BY <2>1, <2>2, <3>1, <3>2, <3>3 DEF StopInv, Midway, RestInv, InStop
  <2>5. CASE StopRefresh
    <3>1. /\ op = "stop_refresh" /\ op' = "stop_detection" /\ pc["ctrl"] = "returned"
          /\ CT!StopTest("ctrl", "refresh")
      BY <2>5 DEF StopRefresh, StopCall
    <3>2. pc'["ctrl"] = "returned" <=> ~m_running["refresh"]
      BY <1>0, <3>1, EnterAt
    <3>3. cycle = "report" => ~m_running["refresh"]
      BY <1>0, <3>1 DEF StopInv, Midway, CycleInv, InStop
    <3> QED
      BY <1>0, <2>1, <2>2, <3>1, <3>2, <3>3 DEF StopInv, Midway, RestInv, InStop
  <2>6. CASE StopDetection
    <3>1. op = "stop_detection" /\ op' = "stop_return" /\ pc["ctrl"] = "returned"
      BY <2>6 DEF StopDetection, StopCall
    <3> QED
      BY <1>0, <2>1, <2>2, <3>1 DEF StopInv, Midway, RestInv, InStop
  <2> QED
    BY <1>1, <2>3, <2>4, <2>5, <2>6 DEF CtrlEnters
<1>2. ASSUME UNCHANGED <<m_running, pc, cycle, op, m_current_state, frames, open>>,
             (loop'["take"] # "none") = (loop["take"] # "none")
      PROVE  Links'
  BY <1>0, <1>2 DEF CycleInv, StopInv, Midway, RestInv, FrameInv, frames
<1>3. CASE CooldownExpires \/ SceneChanges \/ Dead \/ UNCHANGED vars
  BY <1>2, <1>3 DEF CooldownExpires, SceneChanges, Dead, Local, CT!Dead, CT!vars,
                    vars, tasks
<1>4. CASE StartReset
  <2>1. /\ op = "none" /\ op' = "start_frame" /\ ~m_running["detection"]
        /\ UNCHANGED <<m_running, loop, pc, cycle, frames, open>>
    BY <1>4 DEF StartReset, tasks
  <2> QED
    BY <1>0, <2>1 DEF CycleInv, StopInv, Midway, RestInv, FrameInv, InStop, frames
<1>5. CASE Return
  <2>1. /\ op' = "none" /\ op \in {"start_return", "stop_return"}
        /\ pc["ctrl"] = "returned"
        /\ UNCHANGED <<m_running, loop, pc, cycle, m_current_state, frames, open>>
    BY <1>5, InnerCallers DEF Return, tasks
  <2>2. CASE op = "start_return"
    BY <1>0, <2>1, <2>2 DEF CycleInv, StopInv, Midway, RestInv, FrameInv, InStop, frames
  <2>3. CASE op = "stop_return"
    <3>1. ~m_running["detection"] /\ ~m_running["take"] /\ ~m_running["refresh"]
      BY <1>0, <2>1, <2>3 DEF Always, CtrlCalls, StopInv, Midway, InStop
    <3> QED
      BY <1>0, <2>1, <3>1 DEF CycleInv, StopInv, Midway, RestInv, FrameInv, InStop, frames
  <2> QED
    BY <2>1, <2>2, <2>3
<1>6. CASE IntrusionFrame
  <2>1. /\ CT!CycleEnd("take")
        /\ m_frame_counter' = Count(m_frame_counter) /\ delivered' = Count(delivered)
        /\ UNCHANGED <<m_current_state, cycle, op, num_frames, open>>
    BY <1>6 DEF IntrusionFrame
  <2>2. loop["take"] # "none" /\ UNCHANGED <<m_running, pc>>
    BY <1>0, <2>1, LoopAt
  \* No frame is delivered while none may be: the task has no thread then.
  <2>3. cycle \notin {"start_take", "report"}
    <3>1. /\ cycle \in {"start_take", "report"} => ~m_running["take"]
          /\ cycle = "start_take" => op \notin InStop
          /\ cycle = "report" => op \notin InStop \/ pc["det"] = "returned"
      BY <1>0 DEF StopInv, Midway, CycleInv
    <3>2. cycle \in {"start_take", "report"} => AtRest("take")
      BY <3>1, InnerCallers DEF Always, DetCalls, CT!Idle
    <3> QED
      BY <1>0, <2>2, <3>1, <3>2, InnerCallers, ThreadAtRest
  <2> QED
    BY <1>0, <2>1, <2>2, <2>3 DEF CycleInv, StopInv, Midway, RestInv, FrameInv
<1>7. CASE RefreshReference
  <2>1. CT!CycleEnd("refresh")
        /\ UNCHANGED <<m_current_state, cycle, op, frames, open>>
    BY <1>7 DEF RefreshReference
  <2>2. UNCHANGED <<m_running, pc>> /\ loop'["take"] = loop["take"]
    BY <1>0, <2>1, LoopAt
  <2> QED
    BY <1>2, <2>1, <2>2
<1>8. ASSUME NEW t \in Tasks, Loop(t) PROVE Links'
  <2>1. /\ UNCHANGED <<m_running, pc, cycle, op, m_current_state, frames, open>>
        /\ loop[t] # "none" /\ loop'[t] # "none"
        /\ \A u \in Tasks \ {t} : loop'[u] = loop[u]
    BY <1>0, <1>8, LoopAt DEF Loop, Local
  <2> QED
    BY <1>2, <2>1
<1> QED
  BY <1>1, <1>3, <1>4, <1>5, <1>6, <1>7, <1>8 DEF Outside, InnerEnds

\* Steps of the detection thread's cycle.
LEMMA CycleLinks ==
    ASSUME Always, Unraced, ~raced, ~raced',
           DetEnters \/ CycleEnds \/ IntrusionStarted
    PROVE  Links'
<1> USE DEF Inner, Threads, Tasks, Links
<1>0. CT!TypeOK /\ Links
  BY DEF Always, TypeOK, Unraced
<1>1. loop["detection"] = "cycle"
  BY DEF DetEnters, StartTake, StartRefresh, EndTake, EndRefresh, CycleEnds,
         PlainCycle, SetIntrusion, IntrusionStopped, IntrusionStarted, InCycle
<1>2. op \notin InStop => m_running["detection"]
  BY <1>1, CycleRuns
\* While Stop is under way, the thread ends a plain cycle or an intrusion whose
\* inner tasks are stopped, and does nothing else.
<1>3. PlainCycle \/ IntrusionStopped \/ op \notin InStop
  BY <1>0 DEF DetEnters, StartTake, StartRefresh, EndTake, EndRefresh, CycleEnds,
         SetIntrusion, IntrusionStopped, IntrusionStarted, InCycle, StopInv, Midway
<1>4. ASSUME op \notin InStop, pc["det"] \in CT!Idle, NEW t \in Inner
      PROVE  /\ ~m_running[t] => loop[t] = "none"
             /\ m_running[t] => loop[t] # "none"
  BY <1>0, <1>4, InnerCallers, ThreadAtRest DEF CT!Live
<1>5. CASE StartTake
  <2>1. /\ cycle = "start_take" /\ cycle' = "start_refresh"
        /\ CT!StartTest("det", "take") /\ m_frame_counter' = 0
        /\ UNCHANGED <<m_current_state, op, num_frames, delivered, open>>
    BY <1>5 DEF StartTake, InCycle
  <2>2. /\ pc'["det"] = "start_set" /\ pc'["ctrl"] = pc["ctrl"]
        /\ UNCHANGED <<m_running, loop>>
    BY <1>0, <2>1, EnterAt DEF CycleInv
  <2> QED
    BY <1>0, <1>3, <1>5, <2>1, <2>2
       DEF CycleInv, StopInv, Midway, RestInv, FrameInv, InStop, StartTake,
           PlainCycle, IntrusionStopped, InCycle
<1>6. CASE StartRefresh
  <2>1. /\ cycle = "start_refresh" /\ cycle' = "intrusion" /\ pc["det"] = "returned"
        /\ CT!StartTest("det", "refresh")
        /\ UNCHANGED <<m_current_state, op, frames, open>>
    BY <1>6 DEF StartRefresh, InCycle
  <2>2. /\ pc'["det"] = "start_set" /\ pc'["ctrl"] = pc["ctrl"]
        /\ UNCHANGED <<m_running, loop>>
    BY <1>0, <2>1, EnterAt DEF CycleInv
  <2> QED
    BY <1>0, <2>1, <2>2 DEF CycleInv, StopInv, Midway, RestInv, FrameInv, InStop, frames
<1>7. CASE EndTake
  <2>1. /\ cycle = "frame" /\ cycle' = "stop_refresh" /\ Closes /\ op \notin InStop
        /\ CT!StopTest("det", "take")
        /\ UNCHANGED <<m_current_state, op, frames, open>>
    BY <1>7 DEF EndTake, InCycle
  <2>2. m_running["take"] /\ m_running["refresh"]
    BY <1>0, <1>2, <2>1 DEF RestInv, Closes
  <2>3. pc["det"] \in CT!Idle
    BY <1>0, <2>1, EnterAt
  <2>4. open
    BY <1>0, <1>4, <2>1, <2>2, <2>3 DEF FrameInv
  <2>5. /\ pc'["det"] = "stop_clear" /\ pc'["ctrl"] = pc["ctrl"]
        /\ UNCHANGED <<m_running, loop>>
    BY <1>0, <2>1, <2>2, EnterAt
  <2> QED
    BY <1>0, <2>1, <2>2, <2>4, <2>5
       DEF CycleInv, StopInv, Midway, RestInv, FrameInv, InStop, frames
<1>8. CASE EndRefresh
  <2>1. /\ cycle = "stop_refresh" /\ cycle' = "report" /\ pc["det"] = "returned"
        /\ num_frames' = m_frame_counter /\ CT!StopTest("det", "refresh")
        /\ UNCHANGED <<m_current_state, op, m_frame_counter, delivered, open>>
    BY <1>8 DEF EndRefresh, InCycle
  <2>2. /\ pc'["det"] = "stop_clear" /\ pc'["ctrl"] = pc["ctrl"]
        /\ UNCHANGED <<m_running, loop>>
    BY <1>0, <2>1, EnterAt DEF CycleInv
  <2> QED
    BY <1>0, <2>1, <2>2 DEF CycleInv, StopInv, Midway, RestInv, FrameInv, InStop
<1>9. CASE CycleEnds
  <2>1. /\ UNCHANGED <<m_running, pc, op>> /\ loop'["take"] = loop["take"]
        /\ cycle' = "frame"
    <3>1. CT!CycleEnd("detection") /\ op' = op /\ cycle' = "frame"
      BY <1>9 DEF CycleEnds, PlainCycle, SetIntrusion, IntrusionStopped, InCycle
    <3> QED
      BY <1>0, <3>1, LoopAt
  <2>2. CASE PlainCycle
    <3>1. /\ cycle = "frame" /\ UNCHANGED <<frames, open>>
          /\ (m_current_state' = "Idle") = (m_current_state = "Idle")
      BY <2>2 DEF PlainCycle, InCycle, NextState, Opens
    <3> QED
      BY <1>0, <2>1, <3>1 DEF CycleInv, StopInv, Midway, RestInv, FrameInv, frames
  <2>3. CASE SetIntrusion
    <3>1. /\ cycle = "intrusion" /\ pc["det"] = "returned"
          /\ m_current_state' = "Intrusion" /\ UNCHANGED <<frames, open>>
      BY <2>3 DEF SetIntrusion, InCycle
    <3>2. m_running["take"] /\ m_running["refresh"] /\ m_running["detection"]
      BY <1>0, <1>2, <1>3, <2>3, <3>1
         DEF CycleInv, SetIntrusion, PlainCycle, IntrusionStopped, InCycle
    <3> QED
      BY <1>0, <2>1, <3>1, <3>2 DEF CycleInv, StopInv, Midway, RestInv, FrameInv, frames
  <2>4. CASE IntrusionStopped
    <3>1. /\ cycle = "report" /\ pc["det"] = "returned" /\ open' = FALSE
          /\ m_current_state' = "Idle"
      BY <2>4 DEF IntrusionStopped, InCycle
    <3>2. ~m_running["take"] /\ ~m_running["refresh"]
      BY <1>0, <3>1 DEF CycleInv
    <3>3. loop["take"] = "none"
      BY <1>0, <3>1, <3>2, InnerCallers, ThreadAtRest
    <3> QED
      BY <1>0, <2>1, <3>1, <3>2, <3>3 DEF CycleInv, StopInv, Midway, RestInv, FrameInv
  <2> QED
    BY <1>9, <2>2, <2>3, <2>4 DEF CycleEnds
<1>10. CASE IntrusionStarted
  <2>1. /\ cycle = "frame" /\ cycle' = "start_take" /\ Opens /\ op \notin InStop
        /\ open' = TRUE /\ delivered' = 0
        /\ UNCHANGED <<tasks, m_current_state, op, m_frame_counter, num_frames>>
    BY <1>10 DEF IntrusionStarted, InCycle
  <2>2. ~m_running["take"] /\ ~m_running["refresh"]
    BY <1>0, <2>1 DEF RestInv, Opens
  <2>3. pc["det"] \in CT!Idle
    BY <2>1 DEF Always, DetCalls, CT!Idle
  <2>4. pc["det"] # "returned" \/ cycle' = "start_take"
    BY <2>1
  <2> QED
    BY <1>0, <2>1, <2>2, <2>4 DEF CycleInv, StopInv, Midway, RestInv, FrameInv, tasks
<1> QED
  BY <1>5, <1>6, <1>7, <1>8, <1>9, <1>10 DEF DetEnters

\* Steps inside Start and Stop of the objects.
LEMMA CallLinks ==
    ASSUME Always, Unraced, ~raced, NEW c \in Threads, Call(c)
    PROVE  Links'
<1> USE DEF Inner, Threads, Tasks, Links
<1> DEFINE t == target[c]
<1>0. /\ CT!TypeOK /\ Links /\ CT!CallStep(c) /\ ObjectInv(t) /\ CallInv(c)
      /\ UNCHANGED <<cycle, op, m_current_state, frames, open>>
  BY InnerCallers DEF Always, TypeOK, Unraced, Call, Local, CT!TypeOK, ObjectInv
<1>1. /\ pc[c] \notin CT!Idle
      /\ \A d \in Threads \ {c} : pc'[d] = pc[d]
      /\ \A u \in Tasks \ {t} : m_running'[u] = m_running[u] /\ loop'[u] = loop[u]
  BY <1>0, CallAt
<1>2. /\ pc'[c] = "returned" => (m_running'[t] <=> pc[c] \in CT!InStart)
      /\ loop'[t] # "none" => loop[t] # "none" \/ pc[c] \in CT!InStart
      /\ m_running'[t] # m_running[t] => pc[c] \in {"start_set", "stop_clear"}
  BY <1>0, CallLeaves
<1>3. CASE c = "ctrl"
  <2>1. op \in InStop \cup {"start_return"}
    BY <1>1, <1>3 DEF Always, TypeOK, CtrlCalls, CT!Idle
  <2>2. CASE op = "start_return"
    \* The detection task is started: the state is Idle.
    <3>1. t = "detection" /\ m_current_state = "Idle"
      BY <1>1, <1>3, <2>2 DEF Always, CtrlCalls, CT!Idle
    <3> QED
      BY <1>0, <1>1, <1>3, <2>2, <3>1
         DEF CycleInv, StopInv, Midway, RestInv, FrameInv, frames, InStop
  <2>3. CASE op \in InStop
    <3>0. pc[c] \in CT!InStop /\ pc[c] # "returned"
      BY <1>1, <1>3, <2>3 DEF Always, CtrlCalls, CT!Idle
    <3>1. /\ pc[c] \in CT!InStop
          /\ cycle = "frame" \/ (op = "stop_return" /\ cycle = "report")
      <4>1. cycle = "frame" \/ cycle = "report"
        BY <1>0, <2>3 DEF StopInv, Midway
      <4>2. cycle = "report" => op \notin {"stop_refresh", "stop_detection"}
        BY <1>0, <1>3, <3>0 DEF StopInv
      <4>3. cycle = "report" => op = "stop_return"
        BY <2>3, <4>2 DEF InStop
      <4> QED
        BY <3>0, <4>1, <4>3
    <3>2. pc[c] \notin CT!InStart
      BY <3>1 DEF CT!InStart, CT!InStop
    <3>3. FrameInv'
      BY <1>0, <1>1, <1>2, <3>1, <3>2 DEF FrameInv, frames
    <3>4. StopInv'
      <4>1. CASE op = "stop_refresh"
        BY <1>0, <1>1, <1>2, <1>3, <3>1, <3>2, <4>1
           DEF StopInv, Midway, Always, CtrlCalls
      <4>2. CASE op = "stop_detection"
        BY <1>0, <1>1, <1>2, <1>3, <3>1, <3>2, <4>2
           DEF StopInv, Midway, Always, CtrlCalls
      <4>3. CASE op = "stop_return"
        BY <1>0, <1>1, <1>3, <3>1, <4>3 DEF StopInv, Midway, Always, CtrlCalls
      <4> QED
        BY <2>3, <4>1, <4>2, <4>3 DEF InStop
    <3>5. CycleInv'
      <4>1. CASE cycle = "frame"
        BY <1>0, <4>1 DEF CycleInv
      <4>2. CASE op = "stop_return" /\ cycle = "report"
        <5>1. t = "detection"
          BY <1>3, <4>2 DEF Always, CtrlCalls
        <5> QED
          BY <1>0, <1>1, <1>3, <4>2, <5>1 DEF CycleInv
      <4> QED
        BY <3>1, <4>1, <4>2
    <3> QED
      BY <1>0, <2>3, <3>3, <3>4, <3>5 DEF RestInv
  <2> QED
    BY <2>1, <2>2, <2>3
<1>4. CASE c = "det"
  <2>1. /\ cycle \in {"start_refresh", "intrusion", "stop_refresh", "report"}
        /\ op \notin InStop
        /\ cycle \in {"start_refresh", "stop_refresh"} => t = "take"
        /\ cycle \in {"intrusion", "report"} => t = "refresh"
        /\ cycle \in {"start_refresh", "intrusion"} => pc[c] \in CT!InStart
        /\ cycle \in {"stop_refresh", "report"} => pc[c] \notin CT!InStart
    BY <1>0, <1>1, <1>4 DEF Always, TypeOK, DetCalls, StopInv, Midway, CT!Idle, CT!InStart,
                            CT!InStop
  <2>2. CycleInv'
    BY <1>0, <1>1, <1>2, <1>4, <2>1 DEF CycleInv
  <2>3. StopInv' /\ RestInv'
    BY <1>0, <2>1 DEF StopInv, Midway, RestInv, InStop
  <2>4. FrameInv'
    BY <1>0, <2>1 DEF FrameInv, frames
  <2> QED
    BY <2>2, <2>3, <2>4
<1> QED
  BY <1>3, <1>4

\* The invariant is inductive.
LEMMA Inductive == IInv /\ [Next]_vars => IInv'
<1> SUFFICES ASSUME IInv, [Next]_vars, ~raced' PROVE Unraced'
  BY AlwaysStep DEF IInv, Unraced
<1>1. Always /\ Always' /\ Unraced
  BY AlwaysStep DEF IInv
<1>2. ~raced /\ aborted' = {} /\ \A t \in Inner : ObjectInv(t)'
  BY <1>1, ObjectsStep
<1>3. Links'
  <2>1. CASE CtrlEnters \/ Outside \/ InnerEnds \/ \E t \in Tasks : Loop(t)
    BY <1>1, <1>2, <2>1, CtrlLinks
  <2>2. CASE DetEnters \/ CycleEnds \/ IntrusionStarted
    BY <1>1, <1>2, <2>2, CycleLinks
  <2>3. CASE \E c \in Threads : Call(c)
    BY <1>1, <1>2, <2>3, CallLinks
  <2>4. ~DetThrows
    BY <1>1, <1>2, InnerCallers DEF DetThrows, Threads
  <2> QED
    BY <2>1, <2>2, <2>3, <2>4, Steps
<1> QED
  BY <1>2, <1>3 DEF Links, Unraced

LEMMA InitInv == Init => IInv
<1> SUFFICES ASSUME Init PROVE IInv
  OBVIOUS
<1> USE DEF Init, CT!Init, Threads, Tasks, Inner, InStop
<1>1. TypeOK
  <2>1. CT!TypeOK
    BY DEF CT!TypeOK, CT!Idle, CT!Live
  <2>2. 0 \in 0 .. MaxFrames
    BY DetectionAssumption
  <2> QED
    BY <2>1, <2>2 DEF TypeOK
<1>2. \A t \in Tasks : ObjectInv(t)
  BY DEF ObjectInv, CallInv
<1>3. DetCalls /\ CtrlCalls
  BY DEF DetCalls, CtrlCalls, CT!InStart
<1>4. CycleInv /\ StopInv /\ RestInv /\ FrameInv
  BY DEF CycleInv, StopInv, Midway, RestInv, FrameInv
<1> QED
  BY <1>1, <1>2, <1>3, <1>4 DEF IInv, Always, Unraced

LEMMA Invariance == Spec => []IInv
  BY InitInv, Inductive, PTL DEF Spec
-----------------------------------------------------------------------------
\* Type correctness, with or without a race: handles mean what they say, and
\* the detection thread is in a call only while it is in a cycle
\* (detection.cpp:81-170, cyclic_task.cpp:31-79).
THEOREM TypeCorrect == Spec => []TypeOK
<1>1. IInv => TypeOK
  BY DEF IInv, Always
<1> QED
  BY <1>1, Invariance, PTL

\* From the end of the cycle that opens an intrusion to the one that closes it
\* (detection.cpp:105-139), threads serve both inner tasks, unless Stop has met
\* a cycle that was starting or stopping them.
THEOREM IntrusionsAreRecorded == Spec => []IntrusionRecorded
<1>1. IInv => IntrusionRecorded
  <2> SUFFICES ASSUME IInv, ~raced, op = "none", m_running["detection"],
                      cycle = "frame", m_current_state # "Idle", NEW t \in Inner
               PROVE  m_running[t] /\ loop[t] \in CT!Live
    BY DEF IntrusionRecorded, Inner
  <2>1. m_running[t]
    BY DEF IInv, Unraced, RestInv, InStop
  <2>2. AtRest(t) /\ ObjectInv(t) /\ CT!TypeOK
    BY InnerCallers DEF IInv, Always, DetCalls, TypeOK, InStop, CT!Idle, Inner, Tasks
  <2> QED
    BY <2>1, <2>2, ThreadAtRest DEF Inner, Tasks
<1> QED
  BY <1>1, Invariance, PTL

\* The count of an intrusion is the number of frames the observer got, and no
\* frame comes outside an intrusion (detection.cpp:131-134, 169-187), unless
\* Stop has met such a cycle.
THEOREM FramesAreAccounted == Spec => []FramesAccounted
<1>1. IInv => FramesAccounted
  BY DEF IInv, Unraced, FrameInv, FramesAccounted
<1> QED
  BY <1>1, Invariance, PTL

\* What Detection::Stop leaves behind (detection.cpp:57-76): never a detection
\* thread or one of its calls, and no thread at all, no exception and no
\* termination, unless it has met such a cycle.
THEOREM StopIsComplete == Spec => []StopLeavesNothing
<1>1. IInv => StopLeavesNothing
  <2> SUFFICES ASSUME IInv PROVE StopLeavesNothing
    OBVIOUS
  <2> USE DEF Threads, Tasks, Inner
  <2>0. CT!TypeOK /\ Always
    BY DEF IInv, Always, TypeOK
  <2>1. ASSUME op = "none", ~m_running["detection"]
        PROVE  /\ loop["detection"] = "none"
               /\ cycle = "frame" /\ pc["det"] \in CT!Idle
    <3>1. AtRest("detection") /\ ObjectInv("detection")
      BY <2>0, <2>1 DEF Always, CtrlCalls, DetCalls, AtRest, CT!Idle
    <3>2. loop["detection"] = "none"
      BY <2>0, <2>1, <3>1, ThreadAtRest
    <3> QED
      BY <2>0, <3>2 DEF Always, TypeOK, DetCalls, CT!Idle
  <2>2. ASSUME ~raced PROVE CT!NoHandleMisuse
    <3>1. aborted = {}
      BY <2>2 DEF IInv, Unraced
    <3>2. \A c \in Threads : pc[c] # "threw"
      BY <2>2, InnerCallers DEF IInv
    <3> QED
      BY <3>1, <3>2 DEF CT!NoHandleMisuse
  <2>3. ASSUME ~raced, op = "none", ~m_running["detection"], NEW t \in Tasks
        PROVE  loop[t] = "none"
    <3>1. CASE t = "detection"
      BY <2>1, <2>3, <3>1
    <3>2. CASE t \in Inner
      <4>1. AtRest(t) /\ ObjectInv(t)
        BY <2>1, <2>3, <3>2, InnerCallers DEF IInv, InStop
      <4>2. ~m_running[t]
        BY <2>1, <2>3, <3>2 DEF IInv, Unraced, RestInv, InStop
      <4> QED
        BY <2>0, <4>1, <4>2, ThreadAtRest
    <3> QED
      BY <3>1, <3>2
  <2> QED
    BY <2>1, <2>2, <2>3 DEF StopLeavesNothing
<1> QED
  BY <1>1, Invariance, PTL
=============================================================================
