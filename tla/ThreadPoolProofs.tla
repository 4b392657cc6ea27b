-------------------------- MODULE ThreadPoolProofs --------------------------
(***************************************************************************)
(* Proofs about ThreadPool for any number of threads and tasks.            *)
(***************************************************************************)
EXTENDS ThreadPool, FiniteSetTheorems, TLAPS

\* The elements of a sequence, and how Append and Tail change them.
Elements(s) == {s[i] : i \in DOMAIN s}

LEMMA AppendElements ==
    ASSUME NEW S, NEW s \in Seq(S), NEW x \in S
    PROVE  /\ Append(s, x) \in Seq(S)
           /\ Elements(Append(s, x)) = Elements(s) \cup {x}
           /\ DOMAIN Append(s, x) = DOMAIN s \cup {Len(s) + 1}
           /\ \A i \in DOMAIN s : Append(s, x)[i] = s[i]
           /\ Append(s, x)[Len(s) + 1] = x
<1>1. /\ Append(s, x) \in Seq(S)
      /\ DOMAIN Append(s, x) = DOMAIN s \cup {Len(s) + 1}
      /\ \A i \in DOMAIN s : Append(s, x)[i] = s[i]
      /\ Append(s, x)[Len(s) + 1] = x
  OBVIOUS
<1> QED
  BY <1>1, Zenon DEF Elements

LEMMA TailElements ==
    ASSUME NEW S, NEW s \in Seq(S), s # <<>>
    PROVE  /\ Tail(s) \in Seq(S)
           /\ Head(s) \in S /\ Head(s) = s[1] /\ 1 \in DOMAIN s
           /\ \A i \in DOMAIN Tail(s) : i + 1 \in DOMAIN s /\ Tail(s)[i] = s[i + 1]
           /\ \A i \in DOMAIN s : i # 1 => i - 1 \in DOMAIN Tail(s)
                                            /\ Tail(s)[i - 1] = s[i]
           /\ Elements(s) = {Head(s)} \cup Elements(Tail(s))
<1>1. /\ Tail(s) \in Seq(S)
      /\ Head(s) \in S /\ Head(s) = s[1] /\ 1 \in DOMAIN s
      /\ DOMAIN s = 1 .. Len(s) /\ DOMAIN Tail(s) = 1 .. (Len(s) - 1)
      /\ Len(s) \in Nat
      /\ \A i \in 1 .. (Len(s) - 1) : Tail(s)[i] = s[i + 1]
  OBVIOUS
<1>2. \A i \in DOMAIN Tail(s) : i + 1 \in DOMAIN s /\ Tail(s)[i] = s[i + 1]
  BY <1>1
<1>3. \A i \in DOMAIN s : i # 1 => i - 1 \in DOMAIN Tail(s)
                                   /\ Tail(s)[i - 1] = s[i]
  BY <1>1
<1>4. Elements(s) = {Head(s)} \cup Elements(Tail(s))
  <2>1. ASSUME NEW x \in Elements(s) PROVE x = Head(s) \/ x \in Elements(Tail(s))
    <3>1. PICK i \in DOMAIN s : x = s[i]
      BY <2>1 DEF Elements
    <3>2. CASE i = 1
      BY <1>1, <3>1, <3>2
    <3>3. CASE i # 1
      BY <1>3, <3>1, <3>3, Zenon DEF Elements
    <3> QED
      BY <3>2, <3>3
  <2>2. Head(s) \in Elements(s)
    BY <1>1, Zenon DEF Elements
  <2>3. ASSUME NEW x \in Elements(Tail(s)) PROVE x \in Elements(s)
    <3>1. PICK i \in DOMAIN Tail(s) : x = Tail(s)[i]
      BY <2>3 DEF Elements
    <3> QED
      BY <1>2, <3>1, Zenon DEF Elements
  <2> QED
    BY <2>1, <2>2, <2>3
<1> QED
  BY <1>1, <1>2, <1>3, <1>4
-----------------------------------------------------------------------------
LEMMA TypeStep == TypeOK /\ [Next]_vars => TypeOK'
<1> SUFFICES ASSUME TypeOK, [Next]_vars PROVE TypeOK'
  OBVIOUS
<1> USE PoolAssumption DEF TypeOK, Place, Busy, At
<1>1. ASSUME NEW t \in Task, QueueTask(t) PROVE TypeOK'
  <2>1. m_task_queue' \in Seq(Task)
    BY <1>1, AppendElements DEF QueueTask
  <2>2. CASE UNCHANGED pc
    BY <1>1, <2>1, <2>2 DEF QueueTask
  <2>3. ASSUME NEW w \in At("waiting"), pc' = [pc EXCEPT ![w] = "loop"]
        PROVE  TypeOK'
    BY <1>1, <2>1, <2>3 DEF QueueTask
  <2> QED
    BY <1>1, <2>2, <2>3 DEF QueueTask, NotifyOne
<1>2. CASE Shutdown
  BY <1>2 DEF Shutdown
<1>3. ASSUME NEW w \in Worker, Take(w) PROVE TypeOK'
  BY <1>3, TailElements DEF Take
<1>4. ASSUME NEW w \in Worker, Leave(w) \/ Wait(w) \/ WakeUp(w) \/ Begin(w)
      PROVE  TypeOK'
  BY <1>4 DEF Leave, Wait, WakeUp, Begin
<1>5. ASSUME NEW w \in Worker, NEW d \in Task, JoinEnded(w, d) \/ JoinWait(w, d)
      PROVE  TypeOK'
  BY <1>5 DEF JoinEnded, JoinWait
<1>6. ASSUME NEW w \in Worker, JoinSpurious(w) PROVE TypeOK'
  BY <1>6 DEF JoinSpurious
<1>7. ASSUME NEW w \in Worker, End(w) PROVE TypeOK'
  BY <1>7 DEF End
<1>8. CASE Destroyed \/ UNCHANGED vars
  BY <1>8 DEF Destroyed, vars
<1> QED
  BY <1>1, <1>2, <1>3, <1>4, <1>5, <1>6, <1>7, <1>8 DEF Next, Step

\* Type correctness, and that a thread has a task exactly while it is between
\* Take and End, and a task to wait for exactly in Join (threadpool.hpp:43-164).
THEOREM TypeCorrect == Spec => []TypeOK
<1>1. Init => TypeOK
  BY PoolAssumption DEF Init, TypeOK, Place, Busy
<1> QED
  BY <1>1, TypeStep, PTL DEF Spec
-----------------------------------------------------------------------------
(* The inductive invariant.  None of its parts depends on pc: what counts is *)
(* where each task is, and what is left to join.                             *)

\* A task is queued after the tasks it joins ...
DepsQueued == \A t \in queued : Deps[t] \subseteq queued

\* ... and stands behind those of them that are still in the queue, ...
DepsAhead ==
    \A i \in DOMAIN m_task_queue : \A d \in Deps[m_task_queue[i]] :
        d \in InQueue => \E j \in DOMAIN m_task_queue : j < i /\ m_task_queue[j] = d

\* ... so that none of them is left there when it is taken.
HeldDepsTaken ==
    \A w \in Worker : task[w] # NoTask => Deps[task[w]] \cap InQueue = {}

\* The bookkeeping of operator(): what it has joined, joins and will join.
JoinInv ==
    \A w \in Worker : task[w] # NoTask =>
        /\ rest[w] \subseteq Deps[task[w]]
        /\ joining[w] # NoTask =>
             joining[w] \in Deps[task[w]] /\ joining[w] \notin m_ended
        /\ task[w] \notin Spurious =>
             Deps[task[w]] \subseteq m_ended \cup rest[w] \cup {joining[w]}

IInv == /\ TypeOK /\ OnePlace
        /\ DepsQueued /\ DepsAhead /\ HeldDepsTaken /\ JoinInv /\ PackageComplete

data == <<m_task_queue, m_ended, queued, task, rest, joining>>

LEMMA DataStep ==
    ASSUME IInv, TypeOK', UNCHANGED data PROVE IInv'
<1>1. InQueue' = InQueue
  BY DEF InQueue, data
<1> QED
  BY <1>1 DEF IInv, data, OnePlace, DepsQueued, DepsAhead, HeldDepsTaken,
              JoinInv, PackageComplete

LEMMA QueueStep ==
    ASSUME IInv, TypeOK', NEW t \in Task, QueueTask(t) PROVE IInv'
<1> DEFINE q == m_task_queue
<1> USE PoolAssumption
<1>0. /\ q \in Seq(Task) /\ Len(q) \in Nat /\ DOMAIN q = 1 .. Len(q)
      /\ t \notin queued /\ Deps[t] \subseteq queued
      /\ queued' = queued \cup {t} /\ q' = Append(q, t)
      /\ UNCHANGED <<m_ended, task, rest, joining>>
  BY DEF IInv, TypeOK, QueueTask
<1>1. /\ InQueue' = InQueue \cup {t}
      /\ DOMAIN q' = DOMAIN q \cup {Len(q) + 1}
      /\ \A i \in DOMAIN q : q'[i] = q[i]
      /\ q'[Len(q) + 1] = t
  BY <1>0, AppendElements DEF InQueue, Elements
\* The new task is nowhere yet, and nobody depends on it.
<1>2. /\ t \notin InQueue /\ t \notin m_ended
      /\ \A w \in Worker : task[w] # t
      /\ \A u \in queued : t \notin Deps[u]
      /\ t \notin Deps[t] /\ InQueue \subseteq queued
      /\ \A w \in Worker : task[w] # NoTask => task[w] \in queued
  BY <1>0 DEF IInv, OnePlace, DepsQueued, TypeOK
<1>3. \A i \in DOMAIN q : q[i] \in InQueue
  BY DEF InQueue
<1>4. OnePlace'
  <2>1. \A i, j \in DOMAIN q' : q'[i] = q'[j] => i = j
    BY <1>1, <1>2, <1>3 DEF IInv, OnePlace
  <2>2. t # NoTask
    OBVIOUS
  <2>3. /\ \A v, w \in Worker : task'[v] = task'[w] /\ task'[v] # NoTask => v = w
        /\ InQueue' \cap m_ended' = {}
        /\ \A w \in Worker : task'[w] \notin InQueue' \cup m_ended'
    BY <1>0, <1>1, <1>2 DEF IInv, OnePlace
  <2>4. queued' = InQueue' \cup m_ended' \cup
                    {u \in Task : \E w \in Worker : task'[w] = u}
    BY <1>0, <1>1 DEF IInv, OnePlace
  <2> QED
    BY <2>1, <2>3, <2>4 DEF OnePlace
<1>5. DepsQueued'
  BY <1>0 DEF IInv, DepsQueued
<1>6. DepsAhead'
  <2> SUFFICES ASSUME NEW i \in DOMAIN q', NEW d \in Deps[q'[i]], d \in InQueue'
               PROVE  \E j \in DOMAIN q' : j < i /\ q'[j] = d
    BY DEF DepsAhead
  <2>1. CASE i \in DOMAIN q
    <3>1. d \in Deps[q[i]] /\ d \in InQueue
      BY <1>1, <1>2, <1>3, <2>1
    <3>2. PICK j \in DOMAIN q : j < i /\ q[j] = d
      BY <2>1, <3>1 DEF IInv, DepsAhead
    <3> QED
      BY <1>1, <3>2
  <2>2. CASE i = Len(q) + 1
    <3>1. d \in InQueue
      BY <1>1, <1>2, <2>2
    <3>2. PICK j \in DOMAIN q : q[j] = d
      BY <3>1 DEF InQueue
    <3> QED
      BY <1>0, <1>1, <2>2, <3>2
  <2> QED
    BY <1>1, <2>1, <2>2
<1>7. HeldDepsTaken'
  BY <1>0, <1>1, <1>2 DEF IInv, HeldDepsTaken
<1>8. JoinInv' /\ PackageComplete'
  BY <1>0 DEF IInv, JoinInv, PackageComplete
<1> QED
  BY <1>4, <1>5, <1>6, <1>7, <1>8 DEF IInv

LEMMA TakeStep ==
    ASSUME IInv, TypeOK', NEW w \in Worker, Take(w) PROVE IInv'
<1> DEFINE q == m_task_queue
           t == Head(q)
<1> USE PoolAssumption
<1>0. /\ q \in Seq(Task) /\ q # <<>> /\ q' = Tail(q)
      /\ task[w] = NoTask /\ joining[w] = NoTask
      /\ task \in [Worker -> Task \cup {NoTask}] /\ rest \in [Worker -> SUBSET Task]
      /\ task' = [task EXCEPT ![w] = t] /\ rest' = [rest EXCEPT ![w] = Deps[t]]
      /\ UNCHANGED <<m_ended, queued, joining>>
  BY DEF IInv, TypeOK, Take, Busy
<1>1. /\ t \in Task /\ t = q[1] /\ 1 \in DOMAIN q
      /\ \A i \in DOMAIN q' : i + 1 \in DOMAIN q /\ q'[i] = q[i + 1]
      /\ \A i \in DOMAIN q : i # 1 => i - 1 \in DOMAIN q' /\ q'[i - 1] = q[i]
      /\ InQueue = {t} \cup InQueue'
  <2>1. InQueue = Elements(q) /\ InQueue' = Elements(q')
    BY DEF InQueue, Elements
  <2>2. /\ t \in Task /\ t = q[1] /\ 1 \in DOMAIN q
        /\ \A i \in DOMAIN q' : i + 1 \in DOMAIN q /\ q'[i] = q[i + 1]
        /\ \A i \in DOMAIN q : i # 1 => i - 1 \in DOMAIN q' /\ q'[i - 1] = q[i]
    BY <1>0, TailElements
  <2>3. Elements(q) = {t} \cup Elements(q')
    BY <1>0, TailElements
  <2> QED
    BY <2>1, <2>2, <2>3
<1>2. DOMAIN q \subseteq Nat /\ DOMAIN q' \subseteq Nat \ {0}
  BY <1>0, TailElements
<1>3. t \notin InQueue'
  <2>1. \A i \in DOMAIN q' : q'[i] # t
    BY <1>1, <1>2 DEF IInv, OnePlace
  <2> QED
    BY <2>1 DEF InQueue
<1>4. OnePlace'
  <2>1. \A i, j \in DOMAIN q' : q'[i] = q'[j] => i = j
    <3> SUFFICES ASSUME NEW i \in DOMAIN q', NEW j \in DOMAIN q', q'[i] = q'[j]
                 PROVE  i = j
      OBVIOUS
    <3>1. i + 1 = j + 1
      BY <1>1 DEF IInv, OnePlace
    <3> QED
      BY <1>2, <3>1
  <2>2. \A v \in Worker : task[v] # t /\ t \notin m_ended
    BY <1>1 DEF IInv, OnePlace
  <2>3. /\ \A v, u \in Worker : task'[v] = task'[u] /\ task'[v] # NoTask => v = u
        /\ InQueue' \cap m_ended' = {}
        /\ \A v \in Worker : task'[v] \notin InQueue' \cup m_ended'
    BY <1>0, <1>1, <1>3, <2>2 DEF IInv, OnePlace
  <2>4. {u \in Task : \E v \in Worker : task'[v] = u}
          = {t} \cup {u \in Task : \E v \in Worker : task[v] = u}
    BY <1>0, <1>1
  <2>5. queued' = InQueue' \cup m_ended' \cup
                    {u \in Task : \E v \in Worker : task'[v] = u}
    BY <1>0, <1>1, <2>4 DEF IInv, OnePlace
  <2> QED
    BY <2>1, <2>3, <2>5 DEF OnePlace
<1>5. DepsQueued'
  BY <1>0 DEF IInv, DepsQueued
<1>6. DepsAhead'
  <2> SUFFICES ASSUME NEW i \in DOMAIN q', NEW d \in Deps[q'[i]], d \in InQueue'
               PROVE  \E j \in DOMAIN q' : j < i /\ q'[j] = d
    BY DEF DepsAhead
  <2>1. PICK k \in DOMAIN q : k < i + 1 /\ q[k] = d
    BY <1>1 DEF IInv, DepsAhead
  <2>2. k # 1
    BY <1>1, <1>3, <2>1
  <2>3. k - 1 \in DOMAIN q' /\ q'[k - 1] = d /\ k - 1 < i
    BY <1>1, <1>2, <2>1, <2>2
  <2> QED
    BY <2>3
\* The head of the queue has no dependency in the queue.
<1>7. Deps[t] \cap InQueue = {}
  BY <1>1, <1>2 DEF IInv, DepsAhead
<1>8. HeldDepsTaken'
  BY <1>0, <1>1, <1>7 DEF IInv, HeldDepsTaken
<1>9. JoinInv'
  BY <1>0, <1>1 DEF IInv, JoinInv
<1>10. PackageComplete'
  BY <1>0 DEF IInv, PackageComplete
<1> QED
  BY <1>4, <1>5, <1>6, <1>8, <1>9, <1>10 DEF IInv

LEMMA JoinStep ==
    ASSUME IInv, TypeOK', NEW w \in Worker, NEW d \in Task,
           JoinEnded(w, d) \/ JoinWait(w, d) \/ JoinSpurious(w)
    PROVE  IInv'
<1> USE PoolAssumption
<1>0. UNCHANGED <<m_task_queue, m_ended, queued, task>> /\ InQueue' = InQueue
  BY DEF JoinEnded, JoinWait, JoinSpurious, InQueue
<1>1. JoinInv'
  <2>1. CASE JoinEnded(w, d)
    BY <2>1 DEF IInv, TypeOK, JoinInv, JoinEnded, Busy
  <2>2. CASE JoinWait(w, d)
    BY <2>2 DEF IInv, TypeOK, JoinInv, JoinWait, Busy
  <2>3. CASE JoinSpurious(w)
    BY <2>3 DEF IInv, TypeOK, JoinInv, JoinSpurious, Busy
  <2> QED
    BY <2>1, <2>2, <2>3
<1> QED
  BY <1>0, <1>1 DEF IInv, OnePlace, DepsQueued, DepsAhead, HeldDepsTaken,
                    PackageComplete

LEMMA EndStep ==
    ASSUME IInv, TypeOK', NEW w \in Worker, End(w) PROVE IInv'
<1> DEFINE t == task[w]
           joiners == {v \in Worker : pc[v] = "join" /\ joining[v] = t}
<1> USE PoolAssumption
<1>0. /\ TypeOK
      /\ t \in Task /\ rest[w] = {} /\ joining[w] = NoTask
      /\ m_ended' = m_ended \cup {t} /\ task' = [task EXCEPT ![w] = NoTask]
      /\ UNCHANGED <<m_task_queue, queued, rest>> /\ InQueue' = InQueue
  BY DEF IInv, TypeOK, End, Busy, InQueue
\* Nobody waits for t any longer: there was one joiner at most.
<1>1. \A v \in Worker : joining'[v] = IF joining[v] = t THEN NoTask ELSE joining[v]
  <2>1. \A u, v \in joiners : u = v
    <3> SUFFICES ASSUME NEW u \in joiners, NEW v \in joiners PROVE u = v
      OBVIOUS
    <3>1. /\ task[u] # NoTask /\ task[v] # NoTask
          /\ t \in Deps[task[u]] \cap Deps[task[v]]
      BY <1>0 DEF IInv, TypeOK, JoinInv, Busy
    <3> QED
      BY <1>0, <3>1 DEF IInv, OnePlace, TypeOK
  <2>2. \A v \in Worker : v \in joiners <=> joining[v] = t
    BY <1>0 DEF TypeOK
  <2>3. CASE joiners = {}
    BY <2>2, <2>3 DEF End
  <2>4. CASE joiners # {}
    <3>1. PICK v \in joiners : joining' = [joining EXCEPT ![v] = NoTask]
      BY <2>4 DEF End
    <3> QED
      BY <1>0, <2>1, <2>2, <3>1 DEF TypeOK
  <2> QED
    BY <2>3, <2>4
<1>2. OnePlace'
  <2>1. {u \in Task : \E v \in Worker : task[v] = u}
          = {t} \cup {u \in Task : \E v \in Worker : task'[v] = u}
    BY <1>0 DEF TypeOK, IInv, OnePlace
  <2>2. queued' = InQueue' \cup m_ended' \cup
                    {u \in Task : \E v \in Worker : task'[v] = u}
    BY <1>0, <2>1 DEF IInv, OnePlace
  <2>3. \A i, j \in DOMAIN m_task_queue' :
           m_task_queue'[i] = m_task_queue'[j] => i = j
    BY <1>0 DEF IInv, OnePlace
  <2>4. /\ \A v, u \in Worker : task'[v] = task'[u] /\ task'[v] # NoTask => v = u
        /\ InQueue' \cap m_ended' = {}
    BY <1>0 DEF IInv, OnePlace, TypeOK
  <2>5. NoTask \notin InQueue /\ NoTask \notin m_ended
    BY <1>0 DEF IInv, OnePlace, TypeOK, InQueue
  <2>6. \A v \in Worker : task'[v] \notin InQueue' \cup m_ended'
    BY <1>0, <2>5 DEF IInv, OnePlace, TypeOK
  <2> QED
    BY <2>2, <2>3, <2>4, <2>6 DEF OnePlace
<1>3. DepsQueued' /\ DepsAhead'
  BY <1>0 DEF IInv, DepsQueued, DepsAhead
<1>4. HeldDepsTaken'
  BY <1>0 DEF IInv, HeldDepsTaken, TypeOK
<1>5. JoinInv'
  <2> SUFFICES ASSUME NEW v \in Worker, task'[v] # NoTask
               PROVE  /\ rest'[v] \subseteq Deps[task'[v]]
                      /\ joining'[v] # NoTask =>
                           joining'[v] \in Deps[task'[v]] /\ joining'[v] \notin m_ended'
                      /\ task'[v] \notin Spurious =>
                           Deps[task'[v]] \subseteq m_ended' \cup rest'[v] \cup {joining'[v]}
    BY DEF JoinInv
  <2>1. v # w /\ task'[v] = task[v]
    BY <1>0 DEF TypeOK
  <2> QED
    BY <1>0, <1>1, <2>1 DEF IInv, JoinInv
<1>6. PackageComplete'
  <2>1. t \notin Spurious => Deps[t] \subseteq m_ended
    BY <1>0 DEF IInv, JoinInv
  <2> QED
    BY <1>0, <2>1 DEF IInv, PackageComplete
<1> QED
  BY <1>2, <1>3, <1>4, <1>5, <1>6 DEF IInv

LEMMA Invariance == Spec => []IInv
<1>1. Init => IInv
  BY PoolAssumption DEF Init, IInv, TypeOK, Place, Busy, OnePlace, InQueue, DepsQueued,
     DepsAhead, HeldDepsTaken, JoinInv, PackageComplete
<1>2. IInv /\ [Next]_vars => IInv'
  <2> SUFFICES ASSUME IInv, [Next]_vars PROVE IInv'
    OBVIOUS
  <2>0. TypeOK'
    BY TypeStep DEF IInv
  <2>1. ASSUME NEW t \in Task, QueueTask(t) PROVE IInv'
    BY <2>0, <2>1, QueueStep
  <2>2. CASE Shutdown
    BY <2>0, <2>2, DataStep DEF Shutdown, data
  <2>3. ASSUME NEW w \in Worker, Leave(w) \/ Wait(w) \/ WakeUp(w) \/ Begin(w)
        PROVE  IInv'
    BY <2>0, <2>3, DataStep DEF Leave, Wait, WakeUp, Begin, data
  <2>4. ASSUME NEW w \in Worker, Take(w) PROVE IInv'
    BY <2>0, <2>4, TakeStep
  <2>5. ASSUME NEW w \in Worker, NEW d \in Task, JoinEnded(w, d) \/ JoinWait(w, d)
        PROVE  IInv'
    BY <2>0, <2>5, JoinStep
  <2>6. ASSUME NEW w \in Worker, JoinSpurious(w) PROVE IInv'
    <3>1. task[w] \in Task
      BY <2>6, PoolAssumption DEF JoinSpurious
    <3> QED
      BY <2>0, <2>6, <3>1, JoinStep
  <2>7. ASSUME NEW w \in Worker, End(w) PROVE IInv'
    BY <2>0, <2>7, EndStep
  <2>8. CASE Destroyed \/ UNCHANGED vars
    BY <2>0, <2>8, DataStep DEF Destroyed, vars, data
  <2> QED
    BY <2>1, <2>2, <2>3, <2>4, <2>5, <2>6, <2>7, <2>8 DEF Next, Step
<1> QED
  BY <1>1, <1>2, PTL DEF Spec
-----------------------------------------------------------------------------
\* A queued task is in the queue, with one thread, or ended, and in no two of
\* these places (threadpool.hpp:117-156).
THEOREM TasksHaveOnePlace == Spec => []OnePlace
<1>1. IInv => OnePlace
  BY DEF IInv
<1> QED
  BY <1>1, Invariance, PTL

\* The threads never wait for a task that is still in the queue
\* (threadpool.hpp:149-150, alarm.cpp:59-64), however few threads there are.
THEOREM PoolDoesNotStarve == Spec => []DepsTaken
<1>1. IInv => DepsTaken
  BY DEF IInv, TypeOK, DepsTaken, HeldDepsTaken
<1> QED
  BY <1>1, Invariance, PTL

\* Every wait in Join is for the end of a task that another thread executes
\* or is about to (threadpool.hpp:43-65): its notification is still to come.
THEOREM JoinsAreNotified == Spec => []JoinWillBeNotified
<1>1. IInv => JoinWillBeNotified
  <2> SUFFICES ASSUME IInv, NEW w \in At("join")
               PROVE  /\ joining[w] \notin m_ended
                      /\ \E v \in Worker : /\ task[v] = joining[w]
                                          /\ pc[v] \in {"begin", "run"}
    BY DEF JoinWillBeNotified
  <2> USE PoolAssumption
  <2>1. /\ w \in Worker /\ task[w] \in Task /\ joining[w] \in Task
        /\ joining[w] \in Deps[task[w]] /\ joining[w] \notin m_ended
    BY DEF IInv, TypeOK, JoinInv, At, Busy
  <2>2. joining[w] \in queued /\ joining[w] \notin InQueue
    BY <2>1 DEF IInv, OnePlace, DepsQueued, HeldDepsTaken
  <2>3. PICK v \in Worker : task[v] = joining[w]
    BY <2>1, <2>2 DEF IInv, OnePlace
  <2>4. pc[v] # "join"
    BY <2>1, <2>3 DEF IInv, TypeOK, JoinInv
  <2>5. pc[v] \in {"begin", "run"}
    BY <2>1, <2>3, <2>4 DEF IInv, TypeOK, Busy
  <2> QED
    BY <2>1, <2>3, <2>5
<1> QED
  BY <1>1, Invariance, PTL

\* A package is made only when all frames of its intrusion have been saved
\* (alarm.cpp:59-67), if the waits of its joins do not end spuriously.
THEOREM PackagesAreComplete == Spec => []PackageComplete
<1>1. IInv => PackageComplete
  BY DEF IInv
<1> QED
  BY <1>1, Invariance, PTL
-----------------------------------------------------------------------------
(* No thread sleeps while there is work for it.  The wait of ThreadLoop has  *)
(* no predicate, so this rests on counting: what a step adds to the queue it *)
(* adds to the awake threads, as long as anybody sleeps.                     *)

\* The destructor leaves nobody asleep, and nobody falls asleep after it.
NobodySleepsAfterShutdown == ~m_running => At("waiting") = {}

AwakeInv == NoSleepOverWork /\ NobodySleepsAfterShutdown

\* What is needed of a step: its effect on the queue and on the two sets.
LEMMA AwakeByCount ==
    ASSUME AwakeInv, TypeOK, TypeOK',
           \/ /\ At("waiting")' \subseteq At("waiting")
              /\ At("loop") \subseteq At("loop")'
              /\ Len(m_task_queue') <= Len(m_task_queue)
           \/ m_task_queue' = <<>>
           \/ At("waiting")' = {}
           \/ \E w \in At("waiting") :
                 /\ w \notin At("loop") /\ At("loop")' = At("loop") \cup {w}
                 /\ Len(m_task_queue') = Len(m_task_queue) + 1
           \/ \E w \in At("loop")  :
                 /\ At("waiting")' = At("waiting")
                 /\ At("loop")' = At("loop") \ {w}
                 /\ Len(m_task_queue') = Len(m_task_queue) - 1
    PROVE  NoSleepOverWork'
<1>0. /\ IsFiniteSet(At("loop")) /\ IsFiniteSet(At("loop")')
      /\ Cardinality(At("loop")) \in Nat /\ Cardinality(At("loop")') \in Nat
      /\ Len(m_task_queue) \in Nat /\ Len(m_task_queue') \in Nat
  <2>1. At("loop") \in SUBSET Worker /\ At("loop")' \in SUBSET Worker
    BY DEF At
  <2>2. IsFiniteSet(At("loop")) /\ IsFiniteSet(At("loop")')
    BY <2>1, FS_Subset, WorkerAssumption
  <2> QED
    BY <2>2, FS_CardinalityType DEF TypeOK
<1>1. CASE /\ At("waiting")' \subseteq At("waiting")
           /\ At("loop") \subseteq At("loop")'
           /\ Len(m_task_queue') <= Len(m_task_queue)
  <2>1. Cardinality(At("loop")) <= Cardinality(At("loop")')
    BY <1>0, <1>1, FS_Subset
  <2> QED
    BY <1>0, <1>1, <2>1 DEF AwakeInv, NoSleepOverWork
<1>2. CASE m_task_queue' = <<>>
  BY <1>0, <1>2 DEF NoSleepOverWork
<1>3. CASE At("waiting")' = {}
  BY <1>3 DEF NoSleepOverWork
<1>4. ASSUME NEW w \in At("waiting"), w \notin At("loop"),
             At("loop")' = At("loop") \cup {w},
             Len(m_task_queue') = Len(m_task_queue) + 1
      PROVE  NoSleepOverWork'
  <2>1. Cardinality(At("loop")') = Cardinality(At("loop")) + 1
    BY <1>0, <1>4, FS_AddElement
  <2> QED
    BY <1>0, <1>4, <2>1 DEF AwakeInv, NoSleepOverWork
<1>5. ASSUME NEW w \in At("loop"), At("waiting")' = At("waiting"),
             At("loop")' = At("loop") \ {w},
             Len(m_task_queue') = Len(m_task_queue) - 1
      PROVE  NoSleepOverWork'
  <2>1. Cardinality(At("loop")') = Cardinality(At("loop")) - 1
    BY <1>0, <1>5, FS_RemoveElement
  <2> QED
    BY <1>0, <1>5, <2>1 DEF AwakeInv, NoSleepOverWork
<1> QED
  BY <1>1, <1>2, <1>3, <1>4, <1>5

LEMMA AwakeStep ==
    ASSUME AwakeInv, TypeOK, TypeOK', [Next]_vars PROVE AwakeInv'
<1> USE DEF At
<1>1. ASSUME NEW t \in Task, QueueTask(t) PROVE AwakeInv'
  <2>1. Len(m_task_queue') = Len(m_task_queue) + 1 /\ m_running' = m_running
        /\ m_running
    BY <1>1 DEF QueueTask, TypeOK
  <2>2. CASE At("waiting") = {} /\ UNCHANGED pc
    <3>1. At("waiting")' = {}
      BY <2>2
    <3> QED
      BY <2>1, <3>1, AwakeByCount DEF AwakeInv, NobodySleepsAfterShutdown
  <2>3. ASSUME NEW w \in At("waiting"), pc' = [pc EXCEPT ![w] = "loop"]
        PROVE  AwakeInv'
    <3>1. w \notin At("loop") /\ At("loop")' = At("loop") \cup {w}
      BY <2>3 DEF TypeOK
    <3>2. NoSleepOverWork'
      BY <2>1, <3>1, AwakeByCount
    <3> QED
      BY <2>1, <3>2 DEF AwakeInv, NobodySleepsAfterShutdown
  <2> QED
    BY <1>1, <2>2, <2>3 DEF QueueTask, NotifyOne
<1>2. CASE Shutdown
  <2>1. At("waiting")' = {}
    BY <1>2 DEF Shutdown, TypeOK
  <2> QED
    BY <2>1, AwakeByCount DEF AwakeInv, NobodySleepsAfterShutdown
<1>3. ASSUME NEW w \in Worker, Leave(w) PROVE AwakeInv'
  <2>1. At("waiting")' = {} /\ m_running' = m_running
    BY <1>3 DEF Leave, TypeOK, AwakeInv, NobodySleepsAfterShutdown
  <2> QED
    BY <2>1, AwakeByCount DEF AwakeInv, NobodySleepsAfterShutdown
<1>4. ASSUME NEW w \in Worker, Take(w) PROVE AwakeInv'
  <2>1. /\ At("waiting")' = At("waiting") /\ At("loop")' = At("loop") \ {w}
        /\ w \in At("loop") /\ m_running' = m_running
    BY <1>4 DEF Take, TypeOK
  <2>2. Len(m_task_queue') = Len(m_task_queue) - 1
    BY <1>4 DEF Take, TypeOK
  <2>3. NoSleepOverWork'
    BY <2>1, <2>2, AwakeByCount
  <2> QED
    BY <2>1, <2>3 DEF AwakeInv, NobodySleepsAfterShutdown
<1>5. ASSUME NEW w \in Worker, Wait(w) PROVE AwakeInv'
  <2>1. m_task_queue' = <<>> /\ m_running' = m_running /\ m_running
    BY <1>5 DEF Wait
  <2> QED
    BY <2>1, AwakeByCount DEF AwakeInv, NobodySleepsAfterShutdown
<1>6. ASSUME NEW w \in Worker,
             \/ WakeUp(w) \/ Begin(w) \/ JoinSpurious(w) \/ End(w)
             \/ \E d \in Task : JoinEnded(w, d) \/ JoinWait(w, d)
      PROVE  AwakeInv'
  <2>1. m_task_queue' = m_task_queue /\ m_running' = m_running
    BY <1>6 DEF WakeUp, Begin, JoinSpurious, End, JoinEnded, JoinWait
  <2>2. At("waiting")' \subseteq At("waiting") /\ At("loop") \subseteq At("loop")'
    <3>1. CASE WakeUp(w)
      BY <3>1 DEF WakeUp, TypeOK
    <3>2. CASE Begin(w) \/ JoinSpurious(w)
      BY <3>2 DEF Begin, JoinSpurious, TypeOK
    <3>3. CASE End(w)
      BY <3>3 DEF End, TypeOK
    <3>4. CASE \E d \in Task : JoinEnded(w, d) \/ JoinWait(w, d)
      BY <3>4 DEF JoinEnded, JoinWait, TypeOK
    <3> QED
      BY <1>6, <3>1, <3>2, <3>3, <3>4
  <2>3. Len(m_task_queue') <= Len(m_task_queue)
    BY <2>1 DEF TypeOK
  <2>4. NoSleepOverWork'
    BY <2>2, <2>3, AwakeByCount
  <2> QED
    BY <2>1, <2>2, <2>4 DEF AwakeInv, NobodySleepsAfterShutdown
<1>7. CASE Destroyed \/ UNCHANGED vars
  BY <1>7 DEF Destroyed, vars, AwakeInv, NoSleepOverWork,
              NobodySleepsAfterShutdown
<1> QED
  BY <1>1, <1>2, <1>3, <1>4, <1>5, <1>6, <1>7 DEF Next, Step

\* No notification is lost that somebody needs (threadpool.hpp:117-161): while
\* a thread sleeps, there is an awake one for every task in the queue.
THEOREM NoLostNotification == Spec => []NoSleepOverWork
<1>1. Init => AwakeInv
  <2> SUFFICES ASSUME Init PROVE AwakeInv
    OBVIOUS
  <2>1. At("waiting") = {}
    BY DEF Init, At
  <2> QED
    BY <2>1 DEF AwakeInv, NoSleepOverWork, NobodySleepsAfterShutdown
<1>2. AwakeInv /\ TypeOK /\ TypeOK' /\ [Next]_vars => AwakeInv'
  BY AwakeStep
<1>3. AwakeInv => NoSleepOverWork
  BY DEF AwakeInv
<1> QED
  BY <1>1, <1>2, <1>3, TypeCorrect, PTL DEF Spec
-----------------------------------------------------------------------------
(* The pool implements the executor.  Threads come and go between the steps  *)
(* that the executor knows: QueueTask, Take, End and Shutdown.               *)

LEMMA TakenEmpty == Init => Exec!Init
<1> SUFFICES ASSUME Init PROVE Exec!Init
  OBVIOUS
<1>1. Taken = {}
  BY PoolAssumption DEF Init, Taken
<1> QED
  BY <1>1 DEF Init, Exec!Init

\* A thread takes the head of the queue, and nobody has had it before.
LEMMA TakeIsBegin ==
    ASSUME IInv, NEW w \in Worker, Take(w) PROVE Exec!Begin
<1> DEFINE t == Head(m_task_queue)
<1>1. /\ m_task_queue \in Seq(Task) /\ m_task_queue # <<>> /\ m_running
      /\ task \in [Worker -> Task \cup {NoTask}] /\ task[w] = NoTask
      /\ task' = [task EXCEPT ![w] = t] /\ m_task_queue' = Tail(m_task_queue)
      /\ UNCHANGED <<m_running, m_ended>>
  BY DEF Take, IInv, TypeOK, Busy
<1>2. t \in Task /\ t \in InQueue
  <2>1. t \in Task /\ t = m_task_queue[1] /\ 1 \in DOMAIN m_task_queue
    BY <1>1, TailElements
  <2> QED
    BY <2>1 DEF InQueue
<1>3. t \notin Taken \cup m_ended
  BY <1>2 DEF IInv, OnePlace, Taken
<1>4. Taken' = Taken \cup {t}
  BY <1>1, <1>2, PoolAssumption DEF Taken
<1> QED
  BY <1>1, <1>3, <1>4 DEF Exec!Begin

\* A task ends after those that it joins, and no other thread has it.
LEMMA EndIsEnd ==
    ASSUME IInv, NEW w \in Worker, End(w) PROVE Exec!End(task[w])
<1> DEFINE t == task[w]
<1>1. /\ t \in Task /\ rest[w] = {} /\ joining[w] = NoTask
      /\ task \in [Worker -> Task \cup {NoTask}]
      /\ task' = [task EXCEPT ![w] = NoTask] /\ m_ended' = m_ended \cup {t}
      /\ UNCHANGED <<m_running, m_task_queue>>
  BY DEF End, IInv, TypeOK, Busy
<1>2. t \in Taken
  BY <1>1 DEF Taken
<1>3. Deps[t] \subseteq m_ended \/ t \in Spurious
  BY <1>1, PoolAssumption DEF IInv, JoinInv
<1>4. Taken' = Taken \ {t}
  BY <1>1, PoolAssumption DEF Taken, IInv, OnePlace
<1> QED
  BY <1>1, <1>2, <1>3, <1>4 DEF Exec!End

LEMMA QueueIsSubmit ==
    ASSUME IInv, NEW t \in Task, QueueTask(t) PROVE Exec!Submit(t)
<1>1. queued = Exec!Known
  BY DEF IInv, OnePlace, InQueue, Taken, Exec!Known
<1>2. Taken' = Taken
  BY DEF QueueTask, Taken
<1> QED
  BY <1>1, <1>2 DEF QueueTask, Exec!Submit

LEMMA PoolStep == IInv /\ [Next]_vars => [Exec!Next]_(Exec!vars)
<1> SUFFICES ASSUME IInv, [Next]_vars
             PROVE  Exec!Next \/ UNCHANGED Exec!vars
  BY DEF Exec!vars
<1>1. ASSUME UNCHANGED <<m_running, m_task_queue, m_ended, task>>
      PROVE  UNCHANGED Exec!vars
  BY <1>1 DEF Taken, Exec!vars
<1>2. ASSUME NEW t \in Task, QueueTask(t) PROVE Exec!Next
  BY <1>2, QueueIsSubmit DEF Exec!Next
<1>3. CASE Shutdown
  <2>1. Taken' = Taken
    BY <1>3 DEF Shutdown, Taken
  <2> QED
    BY <1>3, <2>1 DEF Shutdown, Exec!Next, Exec!Close
<1>4. ASSUME NEW w \in Worker, Take(w) PROVE Exec!Next
  BY <1>4, TakeIsBegin DEF Exec!Next
<1>5. ASSUME NEW w \in Worker, End(w) PROVE Exec!Next
  <2>1. task[w] \in Task
    BY <1>5 DEF End, IInv, TypeOK, Busy
  <2> QED
    BY <1>5, <2>1, EndIsEnd DEF Exec!Next
<1>6. ASSUME NEW w \in Worker,
             \/ Leave(w) \/ Wait(w) \/ WakeUp(w) \/ Begin(w) \/ JoinSpurious(w)
             \/ \E d \in Task : JoinEnded(w, d) \/ JoinWait(w, d)
      PROVE  UNCHANGED Exec!vars
  BY <1>1, <1>6 DEF Leave, Wait, WakeUp, Begin, JoinSpurious, JoinEnded, JoinWait
<1>7. CASE Destroyed \/ UNCHANGED vars
  BY <1>1, <1>7 DEF Destroyed, vars
<1> QED
  BY <1>2, <1>3, <1>4, <1>5, <1>6, <1>7 DEF Next, Step

\* However many threads there are, and however they wait and join: tasks begin
\* in the order in which they were queued, each once, and end after those that
\* they join (threadpool.hpp:43-164).
THEOREM PoolExecutes == Spec => Exec!Safety
<1>1. IInv /\ [Next]_vars => [Exec!Next]_(Exec!vars)
  BY PoolStep
<1> QED
  BY TakenEmpty, <1>1, Invariance, PTL DEF Spec, Exec!Safety
=============================================================================
