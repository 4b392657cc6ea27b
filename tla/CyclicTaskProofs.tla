-------------------------- MODULE CyclicTaskProofs --------------------------
(***************************************************************************)
(* Proofs about CyclicTask for any number of objects, callers and flaky    *)
(* objects.  TypeOK needs nothing; the contract of Start and Stop needs    *)
(* SingleOwner, and Detection shows that it fails without it.              *)
(***************************************************************************)
EXTENDS CyclicTask, TLAPS

\* A caller inside Start or Stop is one of the object's owners.
OwnedCalls == \A c \in Caller : pc[c] \notin Idle => c \in Owner[target[c]]

\* A thread can be joined, or its creation may have failed.
HasThread(t) == m_thread[t] = "joinable" \/ t \in Flaky

\* What holds of the object while a caller is inside Start or Stop.
CallInv(c) ==
    LET t == target[c] IN
    /\ pc[c] = "start_set"   => ~m_running[t] /\ m_thread[t] # "joinable"
    /\ pc[c] = "start_spawn" => m_running[t] /\ m_thread[t] # "joinable"
    /\ pc[c] = "stop_clear"  => m_running[t] /\ HasThread(t)
    /\ pc[c] \in {"stop_notify", "stop_join"} => ~m_running[t] /\ HasThread(t)
    /\ pc[c] = "joining"     => ~m_running[t] /\ m_thread[t] = "joinable"
    /\ pc[c] = "threw"       => t \in Flaky

\* What holds of an object that nobody is starting or stopping.
RestInv(t) ==
    (\A c \in Caller : target[c] = t => pc[c] \in Idle) =>
        /\ m_running[t] => HasThread(t)
        /\ ~m_running[t] => m_thread[t] # "joinable"

\* The thread function returns only after m_running was cleared.
ExitInv == \A t \in Task : loop[t] = "exit" => ~m_running[t]

IInv ==
    /\ TypeOK
    /\ aborted \subseteq Flaky
    /\ OwnedCalls
    /\ \A c \in Caller : CallInv(c)
    /\ \A t \in Task : RestInv(t)
    /\ ExitInv

LEMMA TypeStep == TypeOK /\ [Next]_vars => TypeOK'
<1> SUFFICES ASSUME TypeOK, [Next]_vars PROVE TypeOK'
  OBVIOUS
<1> USE ConstantAssumption DEF TypeOK, Idle, InStart, InStop, Live
<1>1. ASSUME NEW t \in Task, NEW c \in Owner[t], StartTest(c, t) PROVE TypeOK'
  BY <1>1 DEF StartTest, Goto
<1>2. ASSUME NEW t \in Task, NEW c \in Owner[t], StopTest(c, t) PROVE TypeOK'
  BY <1>2 DEF StopTest, Goto
<1>3. ASSUME NEW c \in Caller, StartSet(c) PROVE TypeOK'
  BY <1>3 DEF StartSet, Goto
<1>4. ASSUME NEW c \in Caller, StartSpawn(c) PROVE TypeOK'
  BY <1>4 DEF StartSpawn, Goto
<1>5. ASSUME NEW c \in Caller, SpawnFails(c) PROVE TypeOK'
  BY <1>5 DEF SpawnFails, Goto
<1>6. ASSUME NEW c \in Caller, StopClear(c) PROVE TypeOK'
  BY <1>6 DEF StopClear, Goto
<1>7. ASSUME NEW c \in Caller, StopNotify(c) PROVE TypeOK'
  BY <1>7 DEF StopNotify, Goto
<1>8. ASSUME NEW c \in Caller, StopJoin(c) PROVE TypeOK'
  BY <1>8 DEF StopJoin, Goto
<1>9. ASSUME NEW c \in Caller, JoinReturn(c) PROVE TypeOK'
  BY <1>9 DEF JoinReturn, Goto
<1>10. ASSUME NEW t \in Task, LoopStep(t) PROVE TypeOK'
  BY <1>10 DEF LoopStep, LoopTest, CycleEnd, EnterWait, WaitEnd, LoopGoto
<1>11. CASE Dead \/ UNCHANGED vars
  BY <1>11 DEF Dead, vars
<1> QED
  BY <1>1, <1>2, <1>3, <1>4, <1>5, <1>6, <1>7, <1>8, <1>9, <1>10, <1>11
     DEF Next, CallStep

\* Type correctness, and the meaning of a thread handle (cyclic_task.cpp:39-43,
\* 69), need no assumption on who calls what.
THEOREM TypeCorrect == Spec => []TypeOK
<1>1. Init => TypeOK
  BY DEF Init, TypeOK, Idle, Live
<1> QED
  BY <1>1, TypeStep, PTL DEF Spec
-----------------------------------------------------------------------------
(* The contract, under SingleOwner.                                          *)

\* Whoever is about to call finds the object at rest.
LEMMA EntryAtRest ==
    ASSUME SingleOwner, OwnedCalls, NEW t \in Task, NEW c \in Owner[t],
           pc[c] \in Idle
    PROVE  \A d \in Caller : target[d] = t => pc[d] \in Idle
BY DEF SingleOwner, OwnedCalls

\* At most one caller is inside a call on an object.
LEMMA OneCall ==
    ASSUME SingleOwner, TypeOK, OwnedCalls, NEW c \in Caller, NEW d \in Caller,
           pc[c] \notin Idle, pc[d] \notin Idle, target[c] = target[d]
    PROVE  c = d
BY DEF SingleOwner, OwnedCalls, TypeOK

LEMMA EnterStep ==
    ASSUME SingleOwner, IInv, NEW t \in Task, NEW c \in Owner[t],
           StartTest(c, t) \/ StopTest(c, t)
    PROVE  OwnedCalls' /\ (\A d \in Caller : CallInv(d)') /\
           (\A u \in Task : RestInv(u)') /\ ExitInv'
<1> USE ConstantAssumption DEF Idle
<1>0. c \in Caller /\ pc[c] \in Idle /\ TypeOK /\ OwnedCalls
  BY DEF IInv, StartTest, StopTest
<1>1. \A d \in Caller : target[d] = t => pc[d] \in Idle
  BY <1>0, EntryAtRest
<1>2. /\ m_running[t] => HasThread(t)
      /\ ~m_running[t] => m_thread[t] # "joinable"
  BY <1>1 DEF IInv, RestInv
<1>3. OwnedCalls'
  BY <1>0 DEF IInv, OwnedCalls, StartTest, StopTest, Goto, TypeOK
<1>4. ASSUME NEW d \in Caller PROVE CallInv(d)'
  BY <1>0, <1>2 DEF IInv, CallInv, StartTest, StopTest, Goto, TypeOK, HasThread
<1>5. ASSUME NEW u \in Task PROVE RestInv(u)'
  <2>1. CASE u = t
    BY <1>0, <1>2, <2>1 DEF RestInv, StartTest, StopTest, Goto, TypeOK, HasThread
  <2>2. CASE u # t
    <3> SUFFICES ASSUME \A d \in Caller : target'[d] = u => pc'[d] \in Idle
                 PROVE  \A d \in Caller : target[d] = u => pc[d] \in Idle
      BY DEF IInv, RestInv, StartTest, StopTest, HasThread
    <3> QED
      BY <1>0, <2>2 DEF StartTest, StopTest, Goto, TypeOK
  <2> QED
    BY <2>1, <2>2
<1>6. ExitInv'
  BY DEF IInv, ExitInv, StartTest, StopTest
<1> QED
  BY <1>3, <1>4, <1>5, <1>6

LEMMA CallStepPreserves ==
    ASSUME SingleOwner, IInv, NEW c \in Caller, CallStep(c)
    PROVE  /\ aborted' \subseteq Flaky
           /\ OwnedCalls'
           /\ \A d \in Caller : CallInv(d)'
           /\ \A t \in Task : RestInv(t)'
           /\ ExitInv'
<1> DEFINE t == target[c]
           SameObject(u) == /\ m_running'[u] = m_running[u]
                            /\ m_thread'[u] = m_thread[u]
                            /\ loop'[u] = loop[u]
<1> USE ConstantAssumption
<1>0. /\ TypeOK /\ OwnedCalls /\ CallInv(c) /\ pc[c] \notin Idle
      /\ t \in Task /\ target' = target
      /\ \A d \in Caller \ {c} : pc'[d] = pc[d]
  BY DEF IInv, TypeOK, Idle, CallStep, StartSet, StartSpawn, SpawnFails,
         StopClear, StopNotify, StopJoin, JoinReturn, Goto
\* The step changes no other object, and no other caller is busy with t.
<1>1. /\ \A u \in Task \ {t} : SameObject(u)
      /\ \A d \in Caller \ {c} : target[d] = t => pc[d] \in Idle
  <2>1. \A u \in Task \ {t} : SameObject(u)
    BY <1>0 DEF TypeOK, CallStep, StartSet, StartSpawn, SpawnFails,
         StopClear, StopNotify, StopJoin, JoinReturn
  <2>2. \A d \in Caller \ {c} : target[d] = t => pc[d] \in Idle
    BY <1>0, OneCall
  <2> QED
    BY <2>1, <2>2
<1>2. OwnedCalls'
  BY <1>0 DEF OwnedCalls
\* What the step leaves of t, by where the caller stands afterwards.
<1>3. /\ CallInv(c)'
      /\ aborted' \subseteq Flaky
      /\ loop'[t] = "exit" => ~m_running'[t]
      /\ pc'[c] \in Idle =>
           /\ m_running'[t] => m_thread'[t] = "joinable" \/ t \in Flaky
           /\ ~m_running'[t] => m_thread'[t] # "joinable"
  <2> USE <1>0 DEF Idle, InStart, InStop, Live, TypeOK, CallInv, HasThread, Goto
  <2>0. aborted \subseteq Flaky /\ (loop[t] = "exit" => ~m_running[t])
    BY DEF IInv, ExitInv
  <2>1. CASE StartSet(c)
    BY <2>0, <2>1 DEF StartSet
  <2>2. CASE StartSpawn(c)
    BY <2>0, <2>2 DEF StartSpawn
  <2>3. CASE SpawnFails(c)
    BY <2>0, <2>3 DEF SpawnFails
  <2>4. CASE StopClear(c)
    BY <2>0, <2>4 DEF StopClear
  <2>5. CASE StopNotify(c)
    BY <2>0, <2>5 DEF StopNotify
  <2>6. CASE StopJoin(c)
    <3>1. Joiner(t) = {}
      BY <1>1, <2>6 DEF Joiner, StopJoin
    <3> QED
      BY <2>0, <2>6, <3>1 DEF StopJoin
  <2>7. CASE JoinReturn(c)
    BY <2>0, <2>7 DEF JoinReturn
  <2> QED
    BY <2>1, <2>2, <2>3, <2>4, <2>5, <2>6, <2>7 DEF CallStep
<1>4. ASSUME NEW d \in Caller PROVE CallInv(d)'
  <2>1. CASE d = c
    BY <1>3, <2>1
  <2>2. CASE d # c /\ target[d] = t
    BY <1>0, <1>1, <2>2 DEF IInv, CallInv, Idle
  <2>3. CASE d # c /\ target[d] # t
    BY <1>0, <1>1, <2>3 DEF IInv, CallInv, HasThread, TypeOK
  <2> QED
    BY <2>1, <2>2, <2>3
<1>5. ASSUME NEW u \in Task PROVE RestInv(u)'
  <2>1. CASE u = t
    <3> SUFFICES ASSUME pc'[c] \in Idle
                 PROVE  /\ m_running'[u] => HasThread(u)'
                        /\ ~m_running'[u] => m_thread'[u] # "joinable"
      BY <1>0, <2>1 DEF RestInv
    <3> QED
      BY <1>3, <2>1 DEF HasThread
  <2>2. CASE u # t
    BY <1>0, <1>1, <2>2 DEF IInv, RestInv, HasThread
  <2> QED
    BY <2>1, <2>2
<1>6. ExitInv'
  BY <1>1, <1>3 DEF IInv, ExitInv
<1> QED
  BY <1>2, <1>3, <1>4, <1>5, <1>6

\* The invariant is inductive.
LEMMA Inductive == ASSUME SingleOwner PROVE IInv /\ [Next]_vars => IInv'
<1> SUFFICES ASSUME IInv, [Next]_vars PROVE IInv'
  OBVIOUS
<1>0. TypeOK'
  BY TypeStep DEF IInv
<1>1. ASSUME NEW t \in Task, NEW c \in Owner[t],
             StartTest(c, t) \/ StopTest(c, t)
      PROVE  IInv'
  BY <1>0, <1>1, EnterStep DEF IInv, StartTest, StopTest
<1>2. ASSUME NEW c \in Caller, CallStep(c) PROVE IInv'
  BY <1>0, <1>2, CallStepPreserves DEF IInv
<1>3. ASSUME NEW t \in Task, LoopStep(t) PROVE IInv'
  <2>1. UNCHANGED <<m_running, m_thread, pc, target, aborted>>
    BY <1>3 DEF LoopStep, LoopTest, CycleEnd, EnterWait, WaitEnd, LoopGoto
  <2>2. ExitInv'
    BY <1>3 DEF IInv, ExitInv, TypeOK, LoopStep, LoopTest, CycleEnd,
                EnterWait, WaitEnd, LoopGoto
  <2> QED
    BY <1>0, <2>1, <2>2 DEF IInv, OwnedCalls, CallInv, RestInv, HasThread
<1>4. CASE Dead \/ UNCHANGED vars
  BY <1>4 DEF Dead, vars, IInv, TypeOK, OwnedCalls, CallInv, RestInv, HasThread,
              ExitInv
<1> QED
  BY <1>1, <1>2, <1>3, <1>4 DEF Next

LEMMA Invariance == ASSUME SingleOwner PROVE Spec => []IInv
<1>1. Init => IInv
  BY ConstantAssumption DEF Init, IInv, TypeOK, Idle, Live, OwnedCalls,
     CallInv, RestInv, HasThread, ExitInv
<1> QED
  BY <1>1, Inductive, PTL DEF Spec

\* Stop is synchronous (cyclic_task.cpp:59-79) when every object has one
\* owner: once it has returned, no thread of the object is left.
THEOREM StopIsSynchronous == ASSUME SingleOwner PROVE Spec => []StoppedIsQuiet
<1>1. IInv => StoppedIsQuiet
  BY DEF IInv, TypeOK, StoppedIsQuiet, Busy, RestInv
<1> QED
  BY <1>1, Invariance, PTL

\* Start is effective (cyclic_task.cpp:31-57) when every object has one owner
\* and its threads can be created: once it has returned, a thread serves it.
THEOREM StartIsEffective == ASSUME SingleOwner PROVE Spec => []RunningIsServed
<1>1. IInv => RunningIsServed
  BY DEF IInv, TypeOK, RunningIsServed, Busy, RestInv, HasThread, ExitInv
<1> QED
  BY <1>1, Invariance, PTL

\* No join throws and no handle is destroyed or dereferenced in error
\* (cyclic_task.cpp:39-43, 69) when every object has one owner and its threads
\* can be created.
THEOREM HandlesAreSafe == ASSUME SingleOwner PROVE Spec => []NoHandleMisuse
<1>1. IInv => NoHandleMisuse
  BY DEF IInv, NoHandleMisuse, CallInv
<1> QED
  BY <1>1, Invariance, PTL
-----------------------------------------------------------------------------
(* The object as a service.                                                  *)

\* A step leaves what the owner sees of object u.
Same(u) ==
    /\ Asked(u)' = Asked(u) /\ State(u)' = State(u)
    /\ loop'[u] = "cycle" <=> loop[u] = "cycle"

\* What is asked of t, before and after a step, when only c may be busy with it.
LEMMA AskedBefore ==
    ASSUME NEW c \in Caller, NEW t \in Task, target[c] = t,
           \A d \in Caller \ {c} : target[d] = t => pc[d] \in Idle
    PROVE  /\ pc[c] \in Idle => Asked(t) = "none"
           /\ pc[c] \in InStart => Asked(t) = "start"
           /\ pc[c] \in InStop => Asked(t) = "stop"
  BY DEF Asked, Busy, Idle, InStart, InStop

LEMMA AskedAfter ==
    ASSUME NEW c \in Caller, NEW t \in Task, target'[c] = t,
           \A d \in Caller \ {c} : target'[d] = t => pc'[d] \in Idle
    PROVE  /\ pc'[c] \in Idle => Asked(t)' = "none"
           /\ pc'[c] \in InStart => Asked(t)' = "start"
           /\ pc'[c] \in InStop => Asked(t)' = "stop"
  BY DEF Asked, Busy, Idle, InStart, InStop

\* A caller that is not busy with u, before or after, asks nothing of it.
LEMMA AskedElsewhere ==
    ASSUME NEW c \in Caller, NEW u \in Task,
           \A d \in Caller \ {c} : target'[d] = target[d] /\ pc'[d] = pc[d],
           target[c] = u => pc[c] \in Idle,
           target'[c] = u => pc'[c] \in Idle
    PROVE  Asked(u)' = Asked(u)
<1>1. Busy(u)' = Busy(u) /\ c \notin Busy(u)
  BY DEF Busy
<1>2. \A d \in Busy(u) : pc'[d] = pc[d]
  BY <1>1 DEF Busy
<1> QED
  BY <1>1, <1>2 DEF Asked

LEMMA NothingSeen ==
    ASSUME \A u \in Reliable : Same(u), UNCHANGED aborted
    PROVE  UNCHANGED Svc!vars
  BY DEF Same, Svc!vars, Alive

\* A call enters object t: it is at rest, and nothing else is asked.
LEMMA EnterIsCalled ==
    ASSUME SingleOwner, IInv, NEW t \in Task, NEW c \in Owner[t],
           StartTest(c, t) \/ StopTest(c, t)
    PROVE  [Svc!Next]_(Svc!vars)
<1> USE ConstantAssumption
<1>0. /\ c \in Caller /\ pc[c] \in Idle /\ TypeOK /\ OwnedCalls /\ Alive
      /\ target' = [target EXCEPT ![c] = t]
      /\ UNCHANGED <<m_running, m_thread, loop, aborted>>
      /\ \A d \in Caller \ {c} : target'[d] = target[d] /\ pc'[d] = pc[d]
  BY DEF IInv, TypeOK, StartTest, StopTest, Goto
<1>1. \A d \in Caller : target[d] = t => pc[d] \in Idle
  BY <1>0, EntryAtRest
<1>2. \A u \in Task \ {t} : Same(u)
  <2> SUFFICES ASSUME NEW u \in Task \ {t} PROVE Same(u)
    OBVIOUS
  <2>1. target'[c] # u
    BY <1>0 DEF TypeOK
  <2>2. Asked(u)' = Asked(u)
    BY <1>0, <2>1, AskedElsewhere
  <2> QED
    BY <1>0, <2>2 DEF Same, State
<1>3. Asked(t) = "none"
  BY <1>1 DEF Asked, Busy
<1>4. /\ pc'[c] \in Idle => Asked(t)' = "none"
      /\ pc'[c] \in InStart => Asked(t)' = "start"
      /\ pc'[c] \in InStop => Asked(t)' = "stop"
  <2>1. target'[c] = t
    BY <1>0 DEF TypeOK
  <2> QED
    BY <1>0, <1>1, <2>1, AskedAfter
<1>5. /\ m_running[t] => HasThread(t)
      /\ ~m_running[t] => m_thread[t] # "joinable"
  BY <1>1 DEF IInv, RestInv
<1>6. CASE pc'[c] \in Idle \/ t \in Flaky
  <2>1. \A u \in Reliable : Same(u)
    BY <1>0, <1>2, <1>3, <1>4, <1>6 DEF Reliable, Same, State
  <2> QED
    BY <1>0, <2>1, NothingSeen
<1>7. CASE StartTest(c, t) /\ pc'[c] \notin Idle /\ t \in Reliable
  <2>1. pc'[c] = "start_set" /\ ~m_running[t]
    BY <1>0, <1>7 DEF StartTest, Goto, TypeOK, Idle
  <2>2. loop[t] = "none"
    BY <1>0, <1>5, <2>1 DEF TypeOK
  <2>3. Asked(t)' = "start" /\ State(t) = "off"
    BY <1>4, <2>1, <2>2 DEF InStart, State
  <2>4. Svc!StartCalled(t)
    BY <1>0, <1>2, <1>3, <1>7, <2>3 DEF Svc!StartCalled, Same, State, Reliable, Alive
  <2> QED
    BY <1>7, <2>4 DEF Svc!Next
<1>8. CASE StopTest(c, t) /\ pc'[c] \notin Idle /\ t \in Reliable
  <2>1. pc'[c] = "stop_clear" /\ m_running[t]
    BY <1>0, <1>8 DEF StopTest, Goto, TypeOK, Idle
  <2>2. loop[t] # "none"
    BY <1>0, <1>5, <1>8, <2>1 DEF TypeOK, HasThread, Reliable
  <2>3. Asked(t)' = "stop" /\ State(t) = "on"
    BY <1>4, <2>1, <2>2 DEF InStop, State
  <2>4. Svc!StopCalled(t)
    BY <1>0, <1>2, <1>3, <1>8, <2>3 DEF Svc!StopCalled, Same, State, Reliable, Alive
  <2> QED
    BY <1>8, <2>4 DEF Svc!Next
<1> QED
  BY <1>6, <1>7, <1>8 DEF Reliable

\* What is seen of t when the rest stays, and which step of the service it is.
LEMMA SeenStep ==
    ASSUME NEW t \in Reliable, \A u \in Task \ {t} : Same(u), Alive,
           UNCHANGED aborted, loop'[t] = "cycle" <=> loop[t] = "cycle"
    PROVE  /\ /\ Asked(t) = "start" /\ Asked(t)' = "none"
              /\ State(t) = "off" /\ State(t)' = "on"
              => Svc!StartReturns(t)
           /\ /\ Asked(t) = "stop" /\ Asked(t)' = "stop"
              /\ State(t) = "on" /\ State(t)' = "ending"
              => Svc!StopBegins(t)
           /\ /\ Asked(t) = "stop" /\ Asked(t)' = "none" /\ loop[t] # "cycle"
              /\ State(t) = "ending" /\ State(t)' = "off"
              => Svc!StopReturns(t)
<1>1. /\ Alive' = Alive
      /\ [u \in Reliable |-> loop'[u] = "cycle"] =
            [u \in Reliable |-> loop[u] = "cycle"]
  BY DEF Same, Reliable, Alive
<1>2. \A v : Asked(t)' = v =>
        [u \in Reliable |-> Asked(u)'] = [[u \in Reliable |-> Asked(u)] EXCEPT ![t] = v]
  BY DEF Same, Reliable
<1>3. \A v : State(t)' = v =>
        [u \in Reliable |-> State(u)'] = [[u \in Reliable |-> State(u)] EXCEPT ![t] = v]
  BY DEF Same, Reliable
<1>4. Asked(t)' = Asked(t) =>
        [u \in Reliable |-> Asked(u)'] = [u \in Reliable |-> Asked(u)]
  BY DEF Same, Reliable
<1>5. /\ [u \in Reliable |-> Asked(u)][t] = Asked(t)
      /\ [u \in Reliable |-> State(u)][t] = State(t)
  OBVIOUS
<1>6. loop[t] # "cycle" => ~[u \in Reliable |-> loop[u] = "cycle"][t]
  OBVIOUS
<1>7. /\ Asked(t) = "start" /\ Asked(t)' = "none"
      /\ State(t) = "off" /\ State(t)' = "on"
      => Svc!StartReturns(t)
  BY <1>1, <1>2, <1>3, <1>5 DEF Svc!StartReturns
<1>8. /\ Asked(t) = "stop" /\ Asked(t)' = "stop"
      /\ State(t) = "on" /\ State(t)' = "ending"
      => Svc!StopBegins(t)
  BY <1>1, <1>3, <1>4, <1>5 DEF Svc!StopBegins
<1>9. /\ Asked(t) = "stop" /\ Asked(t)' = "none" /\ loop[t] # "cycle"
      /\ State(t) = "ending" /\ State(t)' = "off"
      => Svc!StopReturns(t)
  BY <1>1, <1>2, <1>3, <1>5, <1>6 DEF Svc!StopReturns
<1> QED
  BY <1>7, <1>8, <1>9

\* A step inside Start or Stop of t is the step of the service that has its
\* effect, or none; of an object that is not reliable only its end is seen.
LEMMA CallIsCall ==
    ASSUME SingleOwner, IInv, NEW c \in Caller, CallStep(c)
    PROVE  [Svc!Next]_(Svc!vars)
<1> DEFINE t == target[c]
<1> USE ConstantAssumption
<1>0. /\ TypeOK /\ OwnedCalls /\ CallInv(c) /\ pc[c] \notin Idle /\ Alive
      /\ t \in Task /\ target' = target
      /\ \A d \in Caller \ {c} : target'[d] = target[d] /\ pc'[d] = pc[d]
  BY DEF IInv, TypeOK, Idle, CallStep, StartSet, StartSpawn, SpawnFails,
         StopClear, StopNotify, StopJoin, JoinReturn, Goto
<1>1. \A d \in Caller \ {c} : target[d] = t => pc[d] \in Idle
  BY <1>0, OneCall
<1>2. \A u \in Task \ {t} : Same(u)
  <2> SUFFICES ASSUME NEW u \in Task \ {t} PROVE Same(u)
    OBVIOUS
  <2>1. Asked(u)' = Asked(u)
    BY <1>0, AskedElsewhere
  <2>2. m_running'[u] = m_running[u] /\ loop'[u] = loop[u]
    BY <1>0 DEF TypeOK, CallStep, StartSet, StartSpawn, SpawnFails,
         StopClear, StopNotify, StopJoin, JoinReturn
  <2> QED
    BY <2>1, <2>2 DEF Same, State
<1>3. /\ pc[c] \in InStart => Asked(t) = "start"
      /\ pc[c] \in InStop => Asked(t) = "stop"
  BY <1>0, <1>1, AskedBefore
<1>4. /\ pc'[c] \in Idle => Asked(t)' = "none"
      /\ pc'[c] \in InStart => Asked(t)' = "start"
      /\ pc'[c] \in InStop => Asked(t)' = "stop"
  <2>1. /\ target'[c] = t
        /\ \A d \in Caller \ {c} : target'[d] = t => pc'[d] \in Idle
    BY <1>0, <1>1
  <2> QED
    BY <1>0, <2>1, AskedAfter
\* It is enough to look at a reliable object.
<1>5. CASE t \in Flaky
  <2>1. \A u \in Reliable : Same(u)
    BY <1>2, <1>5 DEF Reliable
  <2>2. CASE aborted' = aborted
    BY <2>1, <2>2, NothingSeen
  <2>3. CASE aborted' # aborted
    <3>1. aborted' # {}
      BY <1>0, <2>3 DEF Alive
    <3> QED
      BY <1>0, <2>1, <3>1 DEF Same, Svc!Next, Svc!Die, Alive
  <2> QED
    BY <2>2, <2>3
<1>6. ASSUME Same(t), UNCHANGED aborted PROVE [Svc!Next]_(Svc!vars)
  <2>1. \A u \in Reliable : Same(u)
    BY <1>2, <1>6 DEF Reliable
  <2> QED
    BY <1>6, <2>1, NothingSeen
<1>7. CASE t \in Reliable
  <2> USE <1>0 DEF TypeOK, CallInv, Goto, InStart, InStop, Idle
  <2>1. CASE StartSet(c)
    <3>1. pc[c] = "start_set" /\ pc'[c] = "start_spawn" /\ UNCHANGED <<loop, aborted>>
      BY <2>1 DEF StartSet
    <3>2. loop[t] = "none"
      BY <3>1
    <3> QED
      BY <1>3, <1>4, <1>6, <3>1, <3>2 DEF Same, State
  <2>2. CASE StartSpawn(c)
    <3>1. /\ pc[c] = "start_spawn" /\ m_thread[t] # "joinable" /\ m_running[t]
          /\ loop[t] = "none"
      BY <2>2 DEF StartSpawn
    <3>2. /\ pc'[c] = "returned" /\ loop'[t] = "test" /\ m_running'[t]
          /\ UNCHANGED aborted
      BY <2>2, <3>1 DEF StartSpawn
    <3>3. /\ Asked(t) = "start" /\ Asked(t)' = "none"
          /\ State(t) = "off" /\ State(t)' = "on"
      BY <1>3, <1>4, <3>1, <3>2 DEF State
    <3>4. loop[t] # "cycle" /\ loop'[t] # "cycle"
      BY <3>1, <3>2
    <3>5. Svc!StartReturns(t)
      BY <1>2, <1>7, <3>2, <3>3, <3>4, SeenStep
    <3> QED
      BY <1>7, <3>5 DEF Svc!Next
  <2>3. CASE SpawnFails(c)
    BY <1>7, <2>3 DEF SpawnFails, Reliable
  <2>4. CASE StopClear(c)
    <3>1. /\ pc[c] = "stop_clear" /\ m_running[t] /\ loop[t] # "none"
      BY <1>7, <2>4 DEF StopClear, HasThread, Reliable
    <3>2. /\ pc'[c] = "stop_notify" /\ ~m_running'[t] /\ UNCHANGED <<loop, aborted>>
      BY <2>4 DEF StopClear
    <3>3. /\ Asked(t) = "stop" /\ Asked(t)' = "stop"
          /\ State(t) = "on" /\ State(t)' = "ending"
      BY <1>3, <1>4, <3>1, <3>2 DEF State
    <3>4. Svc!StopBegins(t)
      BY <1>2, <1>7, <3>2, <3>3, SeenStep
    <3> QED
      BY <1>7, <3>4 DEF Svc!Next
  <2>5. CASE StopNotify(c)
    <3>1. /\ pc[c] = "stop_notify" /\ pc'[c] = "stop_join"
          /\ UNCHANGED <<m_running, aborted>>
          /\ loop'[t] = loop[t] \/ (loop[t] = "wait" /\ loop'[t] = "test")
      BY <2>5 DEF StopNotify
    <3> QED
      BY <1>3, <1>4, <1>6, <3>1 DEF Same, State
  <2>6. CASE StopJoin(c)
    <3>1. Joiner(t) = {}
      BY <1>1, <2>6 DEF Joiner, StopJoin
    <3>2. m_thread[t] = "joinable"
      BY <1>7, <2>6 DEF StopJoin, HasThread, Reliable
    <3>3. /\ pc[c] = "stop_join" /\ pc'[c] = "joining"
          /\ UNCHANGED <<m_running, loop, aborted>>
      BY <2>6, <3>1, <3>2 DEF StopJoin
    <3> QED
      BY <1>3, <1>4, <1>6, <3>3 DEF Same, State
  <2>7. CASE JoinReturn(c)
    <3>1. /\ pc[c] = "joining" /\ ~m_running[t] /\ loop[t] = "exit"
      BY <2>7 DEF JoinReturn
    <3>2. pc'[c] = "returned" /\ loop'[t] = "none" /\ UNCHANGED aborted
      BY <2>7 DEF JoinReturn
    <3>3. /\ Asked(t) = "stop" /\ Asked(t)' = "none"
          /\ State(t) = "ending" /\ State(t)' = "off"
      BY <1>3, <1>4, <3>1, <3>2 DEF State
    <3>4. loop[t] # "cycle" /\ loop'[t] # "cycle"
      BY <3>1, <3>2
    <3>5. Svc!StopReturns(t)
      BY <1>2, <1>7, <3>2, <3>3, <3>4, SeenStep
    <3> QED
      BY <1>7, <3>5 DEF Svc!Next
  <2> QED
    BY <2>1, <2>2, <2>3, <2>4, <2>5, <2>6, <2>7 DEF CallStep
<1> QED
  BY <1>0, <1>5, <1>7 DEF Reliable

\* Of the thread the beginning and the end of a cycle are seen.
LEMMA LoopIsWork ==
    ASSUME IInv, NEW t \in Task, LoopStep(t) PROVE [Svc!Next]_(Svc!vars)
<1>0. /\ TypeOK /\ Alive /\ UNCHANGED <<m_running, m_thread, pc, target, aborted>>
      /\ loop[t] # "none" /\ loop'[t] # "none"
      /\ \A u \in Task \ {t} : loop'[u] = loop[u]
  BY DEF IInv, TypeOK, LoopStep, LoopTest, CycleEnd, EnterWait, WaitEnd, LoopGoto
<1>1. \A u \in Task : Asked(u)' = Asked(u)
  BY <1>0 DEF Asked, Busy
<1>2. \A u \in Task : State(u)' = State(u)
  BY <1>0 DEF State
<1>3. CASE t \in Flaky \/ (loop'[t] = "cycle" <=> loop[t] = "cycle")
  <2>1. \A u \in Reliable : Same(u)
    BY <1>0, <1>1, <1>2, <1>3 DEF Same, Reliable
  <2> QED
    BY <1>0, <2>1, NothingSeen
<1>4. CASE t \in Reliable /\ loop'[t] = "cycle" /\ loop[t] # "cycle"
  <2>1. m_running[t]
    BY <1>4, <1>0 DEF LoopStep, LoopTest, CycleEnd, EnterWait, WaitEnd, LoopGoto, TypeOK
  <2>2. State(t) = "on"
    BY <1>0, <2>1 DEF State
  <2>3. [u \in Reliable |-> loop'[u] = "cycle"] =
            [[u \in Reliable |-> loop[u] = "cycle"] EXCEPT ![t] = TRUE]
    BY <1>0, <1>4 DEF Reliable
  <2>4. Svc!WorkBegins(t)
    BY <1>0, <1>1, <1>2, <1>4, <2>2, <2>3 DEF Svc!WorkBegins, Reliable, Alive
  <2> QED
    BY <1>4, <2>4 DEF Svc!Next
<1>5. CASE t \in Reliable /\ loop'[t] # "cycle" /\ loop[t] = "cycle"
  <2>1. [u \in Reliable |-> loop'[u] = "cycle"] =
            [[u \in Reliable |-> loop[u] = "cycle"] EXCEPT ![t] = FALSE]
    BY <1>0, <1>5 DEF Reliable
  <2>2. Svc!WorkEnds(t)
    BY <1>0, <1>1, <1>2, <1>5, <2>1 DEF Svc!WorkEnds, Reliable, Alive
  <2> QED
    BY <1>5, <2>2 DEF Svc!Next
<1> QED
  BY <1>3, <1>4, <1>5 DEF Reliable

LEMMA ServiceStep ==
    ASSUME SingleOwner PROVE IInv /\ [Next]_vars => [Svc!Next]_(Svc!vars)
<1> SUFFICES ASSUME IInv, [Next]_vars PROVE [Svc!Next]_(Svc!vars)
  OBVIOUS
<1>1. CASE Dead \/ UNCHANGED vars
  <2>1. \A u \in Reliable : Same(u)
    BY <1>1 DEF Dead, vars, Same, Asked, Busy, State
  <2> QED
    BY <1>1, <2>1, NothingSeen DEF Dead, vars
<1> QED
  BY <1>1, EnterIsCalled, CallIsCall, LoopIsWork DEF Next

\* However many objects there are and whatever becomes of those whose threads
\* cannot be created: an object with one owner works only between a Start and
\* a Stop (cyclic_task.cpp:31-102), begins no cycle once Stop has cleared
\* m_running, and is off when Stop returns.
THEOREM ObjectServes == ASSUME SingleOwner PROVE Spec => Svc!Safety
<1>1. Init => Svc!Init
  BY DEF Init, Svc!Init, Asked, Busy, State, Alive, Idle, Reliable
<1>2. IInv /\ [Next]_vars => [Svc!Next]_(Svc!vars)
  BY ServiceStep
<1> QED
  BY <1>1, <1>2, Invariance, PTL DEF Spec, Svc!Safety
=============================================================================
