----------------------------- MODULE ThreadPool -----------------------------
(***************************************************************************)
(* ThreadPool and Task (inc/threadpool.hpp), with the operator() of the    *)
(* two kinds of task that Alarm queues (alarm.cpp:23-69): SaveToJpegTask   *)
(* has no dependencies, CreateDetectionTarbalTask runs on a pool thread    *)
(* and there joins every jpeg task of its intrusion before it packs them.  *)
(* A pool thread that joins a task is lost to the pool meanwhile, so the   *)
(* pool lives on the order in which tasks are queued and taken.            *)
(*                                                                         *)
(* The pool's m_mutex makes each step on the queue atomic.  The m_mutex of *)
(* a task is held from Begin to End by the thread that executes it, which  *)
(* is why Join is enabled only while nobody executes the task.             *)
(***************************************************************************)
EXTENDS Naturals, Sequences, FiniteSets

CONSTANTS
    Worker,    \* the pool's threads
    Task,      \* the tasks that are ever queued
    Deps,      \* Deps[t]: the tasks that operator() of t joins
    Spurious,  \* tasks in which a wait of Join may end without a notification
    NoTask

\* Alarm joins jpeg tasks from package tasks, and each from one package only:
\* m_jpeg_tasks is cleared when an intrusion begins (alarm.cpp:820).
ASSUME PoolAssumption ==
    /\ NoTask \notin Task
    /\ Deps \in [Task -> SUBSET Task]
    /\ Spurious \subseteq Task
    /\ \A t \in Task : \A d \in Deps[t] : Deps[d] = {}
    /\ \A t, u \in Task : Deps[t] \cap Deps[u] # {} => t = u

\* The constructor makes a fixed number of threads (threadpool.hpp:78, 90-94).
ASSUME WorkerAssumption == IsFiniteSet(Worker)

VARIABLES
    m_running,     \* cleared by the destructor
    m_task_queue,  \* the tasks nobody has taken
    m_ended,       \* the tasks whose flag m_ended is set
    queued,        \* the tasks that QueueTask has accepted
    pc,            \* pc[w]: where thread w stands
    task,          \* task[w]: the task it has taken
    rest,          \* rest[w]: the tasks that its task has still to join
    joining        \* joining[w]: the task whose end it waits for

vars == <<m_running, m_task_queue, m_ended, queued, pc, task, rest, joining>>

\* "loop": at the head of ThreadLoop.  "waiting": on the pool's condition
\* variable.  "begin": has taken a task.  "run": in its operator().
\* "join": in the wait of Join.  "exit": has left ThreadLoop.
Place == {"loop", "waiting", "begin", "run", "join", "exit"}
Busy  == {"begin", "run", "join"}

At(l) == {w \in Worker : pc[w] = l}

InQueue == {m_task_queue[i] : i \in DOMAIN m_task_queue}

\* Some thread is inside ExecuteTask of t, and holds its mutex.
Executing(t) == \E w \in Worker : task[w] = t /\ pc[w] \in {"run", "join"}

Init ==
    /\ m_running = TRUE
    /\ m_task_queue = <<>>
    /\ m_ended = {}
    /\ queued = {}
    /\ pc = [w \in Worker |-> "loop"]
    /\ task = [w \in Worker |-> NoTask]
    /\ rest = [w \in Worker |-> {}]
    /\ joining = [w \in Worker |-> NoTask]
-----------------------------------------------------------------------------
(* The client: Alarm's observer, and the destructor.                         *)

\* notify_one on the pool's condition variable.
NotifyOne ==
    IF At("waiting") = {} THEN UNCHANGED pc
    ELSE \E w \in At("waiting") : pc' = [pc EXCEPT ![w] = "loop"]

\* Mutant: the new task is not announced.
QueueSilently(t) ==
    /\ m_running /\ t \notin queued /\ Deps[t] \subseteq queued
    /\ m_task_queue' = Append(m_task_queue, t)
    /\ queued' = queued \cup {t}
    /\ UNCHANGED <<m_running, m_ended, pc, task, rest, joining>>

\* Mutant: the client does not remember what it has queued.
QueueTwice(t) ==
    /\ m_running /\ t \notin InQueue /\ t \notin m_ended
    /\ Deps[t] \subseteq queued
    /\ m_task_queue' = Append(m_task_queue, t)
    /\ queued' = queued \cup {t}
    /\ NotifyOne
    /\ UNCHANGED <<m_running, m_ended, task, rest, joining>>

\* QueueTask.  A task object is queued once, so its m_ended is not yet set;
\* a package is made of tasks that were queued before they were recorded in
\* m_jpeg_tasks (alarm.cpp:874-875, 859-860).
QueueTask(t) ==
    /\ m_running /\ t \notin queued /\ Deps[t] \subseteq queued
    /\ m_task_queue' = Append(m_task_queue, t)
    /\ queued' = queued \cup {t}
    /\ NotifyOne
    /\ UNCHANGED <<m_running, m_ended, task, rest, joining>>

\* Mutant: only one thread hears of the end.
ShutdownOne ==
    /\ m_running
    /\ m_running' = FALSE
    /\ NotifyOne
    /\ UNCHANGED <<m_task_queue, m_ended, queued, task, rest, joining>>

\* The destructor: m_running is cleared and notify_all wakes every thread.
\* Tasks that nobody has taken are dropped.
Shutdown ==
    /\ m_running
    /\ m_running' = FALSE
    /\ pc' = [w \in Worker |-> IF pc[w] = "waiting" THEN "loop" ELSE pc[w]]
    /\ UNCHANGED <<m_task_queue, m_ended, queued, task, rest, joining>>
-----------------------------------------------------------------------------
(* ThreadLoop, at while(m_running) with the mutex taken.                     *)

Leave(w) ==
    /\ pc[w] = "loop" /\ ~m_running
    /\ pc' = [pc EXCEPT ![w] = "exit"]
    /\ UNCHANGED <<m_running, m_task_queue, m_ended, queued, task, rest, joining>>

\* Mutant: the newest task first.
TakeNewest(w) ==
    LET n == Len(m_task_queue) IN
    /\ pc[w] = "loop" /\ m_running /\ m_task_queue # <<>>
    /\ task' = [task EXCEPT ![w] = m_task_queue[n]]
    /\ rest' = [rest EXCEPT ![w] = Deps[m_task_queue[n]]]
    /\ m_task_queue' = SubSeq(m_task_queue, 1, n - 1)
    /\ pc' = [pc EXCEPT ![w] = "begin"]
    /\ UNCHANGED <<m_running, m_ended, queued, joining>>

Take(w) ==
    LET t == Head(m_task_queue) IN
    /\ pc[w] = "loop" /\ m_running /\ m_task_queue # <<>>
    /\ task' = [task EXCEPT ![w] = t]
    /\ rest' = [rest EXCEPT ![w] = Deps[t]]
    /\ m_task_queue' = Tail(m_task_queue)
    /\ pc' = [pc EXCEPT ![w] = "begin"]
    /\ UNCHANGED <<m_running, m_ended, queued, joining>>

Wait(w) ==
    /\ pc[w] = "loop" /\ m_running /\ m_task_queue = <<>>
    /\ pc' = [pc EXCEPT ![w] = "waiting"]
    /\ UNCHANGED <<m_running, m_task_queue, m_ended, queued, task, rest, joining>>

\* A spurious wake-up: "awake but with no task".
WakeUp(w) ==
    /\ pc[w] = "waiting"
    /\ pc' = [pc EXCEPT ![w] = "loop"]
    /\ UNCHANGED <<m_running, m_task_queue, m_ended, queued, task, rest, joining>>
-----------------------------------------------------------------------------
(* ExecuteTask                                                               *)

Begin(w) ==
    /\ pc[w] = "begin" /\ ~Executing(task[w])
    /\ pc' = [pc EXCEPT ![w] = "run"]
    /\ UNCHANGED <<m_running, m_task_queue, m_ended, queued, task, rest, joining>>

\* Join of a task that has ended.
JoinEnded(w, d) ==
    /\ pc[w] = "run" /\ d \in rest[w] \cap m_ended
    /\ rest' = [rest EXCEPT ![w] = @ \ {d}]
    /\ UNCHANGED <<m_running, m_task_queue, m_ended, queued, pc, task, joining>>

\* Mutant: m_ended is not tested.
JoinWaitAlways(w, d) ==
    /\ pc[w] = "run" /\ d \in rest[w] /\ ~Executing(d)
    /\ rest' = [rest EXCEPT ![w] = @ \ {d}]
    /\ joining' = [joining EXCEPT ![w] = d]
    /\ pc' = [pc EXCEPT ![w] = "join"]
    /\ UNCHANGED <<m_running, m_task_queue, m_ended, queued, task>>

\* Join of a task that has not ended and that no thread executes: wait.
JoinWait(w, d) ==
    /\ pc[w] = "run" /\ d \in rest[w] \ m_ended /\ ~Executing(d)
    /\ rest' = [rest EXCEPT ![w] = @ \ {d}]
    /\ joining' = [joining EXCEPT ![w] = d]
    /\ pc' = [pc EXCEPT ![w] = "join"]
    /\ UNCHANGED <<m_running, m_task_queue, m_ended, queued, task>>

\* The wait of Join has no predicate: a spurious wake-up ends the Join, once
\* the mutex of the joined task is free.
JoinSpurious(w) ==
    /\ pc[w] = "join" /\ task[w] \in Spurious /\ ~Executing(joining[w])
    /\ joining' = [joining EXCEPT ![w] = NoTask]
    /\ pc' = [pc EXCEPT ![w] = "run"]
    /\ UNCHANGED <<m_running, m_task_queue, m_ended, queued, task, rest>>

\* Mutant: the package is made without waiting for the frames.
EndEarly(w) ==
    /\ pc[w] = "run"
    /\ m_ended' = m_ended \cup {task[w]}
    /\ task' = [task EXCEPT ![w] = NoTask]
    /\ rest' = [rest EXCEPT ![w] = {}]
    /\ pc' = [pc EXCEPT ![w] = "loop"]
    /\ UNCHANGED <<m_running, m_task_queue, queued, joining>>

\* Mutant: the idle thread keeps its task.
EndKeepsTask(w) ==
    LET joiners == {v \in Worker : pc[v] = "join" /\ joining[v] = task[w]} IN
    /\ pc[w] = "run" /\ rest[w] = {}
    /\ m_ended' = m_ended \cup {task[w]}
    /\ IF joiners = {}
       THEN pc' = [pc EXCEPT ![w] = "loop"] /\ UNCHANGED joining
       ELSE \E v \in joiners :
              /\ pc' = [pc EXCEPT ![w] = "loop", ![v] = "run"]
              /\ joining' = [joining EXCEPT ![v] = NoTask]
    /\ UNCHANGED <<m_running, m_task_queue, queued, task, rest>>

\* operator() returns, m_ended is set, notify_one wakes one thread that waits
\* in Join of this task, and the thread goes back to its loop.
End(w) ==
    LET joiners == {v \in Worker : pc[v] = "join" /\ joining[v] = task[w]} IN
    /\ pc[w] = "run" /\ rest[w] = {}
    /\ m_ended' = m_ended \cup {task[w]}
    /\ task' = [task EXCEPT ![w] = NoTask]
    /\ IF joiners = {}
       THEN pc' = [pc EXCEPT ![w] = "loop"] /\ UNCHANGED joining
       ELSE \E v \in joiners :
              /\ pc' = [pc EXCEPT ![w] = "loop", ![v] = "run"]
              /\ joining' = [joining EXCEPT ![v] = NoTask]
    /\ UNCHANGED <<m_running, m_task_queue, queued, rest>>
-----------------------------------------------------------------------------
Step(w) ==
    \/ Leave(w) \/ Take(w) \/ Wait(w) \/ Begin(w) \/ End(w)
    \/ \E d \in Task : JoinEnded(w, d) \/ JoinWait(w, d)

\* The destructor has joined every thread.
Destroyed == ~m_running /\ At("exit") = Worker /\ UNCHANGED vars

Next ==
    \/ \E t \in Task : QueueTask(t)
    \/ Shutdown
    \/ \E w \in Worker : Step(w) \/ WakeUp(w) \/ JoinSpurious(w)
    \/ Destroyed

\* Threads run.  Nobody has to queue tasks or to end the pool, and no
\* spurious wake-up is relied on.
Fairness == \A w \in Worker : WF_vars(Step(w))

Spec == Init /\ [][Next]_vars /\ Fairness
-----------------------------------------------------------------------------
TypeOK ==
    /\ m_running \in BOOLEAN
    /\ m_task_queue \in Seq(Task)
    /\ m_ended \subseteq Task
    /\ queued \subseteq Task
    /\ pc \in [Worker -> Place]
    /\ task \in [Worker -> Task \cup {NoTask}]
    /\ rest \in [Worker -> SUBSET Task]
    /\ joining \in [Worker -> Task \cup {NoTask}]
    /\ \A w \in Worker : pc[w] \in Busy <=> task[w] # NoTask
    /\ \A w \in Worker : pc[w] = "join" <=> joining[w] # NoTask

\* threadpool.hpp:117-156: a task that was queued is in one place: waiting in
\* the queue, with one thread, or ended.  So none is executed twice or lost.
OnePlace ==
    /\ \A i, j \in DOMAIN m_task_queue :
         m_task_queue[i] = m_task_queue[j] => i = j
    /\ \A v, w \in Worker : task[v] = task[w] /\ task[v] # NoTask => v = w
    /\ \A w \in Worker : task[w] \notin InQueue \cup m_ended
    /\ InQueue \cap m_ended = {}
    /\ queued = InQueue \cup m_ended \cup
                    {t \in Task : \E w \in Worker : task[w] = t}

\* threadpool.hpp:149-150, alarm.cpp:59-64: a thread that holds a package
\* joins only tasks that other threads have taken.  Without the FIFO order of
\* the queue all threads could end up joining tasks that nobody can take.
DepsTaken ==
    \A w \in Worker : pc[w] \in Busy => Deps[task[w]] \cap InQueue = {}

\* threadpool.hpp:43-65: a thread that waits in Join will be notified: the
\* task it waits for has not ended and another thread has it in its hands.
JoinWillBeNotified ==
    \A w \in At("join") :
        /\ joining[w] \notin m_ended
        /\ \E v \in Worker : task[v] = joining[w] /\ pc[v] \in {"begin", "run"}

\* alarm.cpp:59-67: a package is made after all its frames were saved, if no
\* wait of Join ends spuriously.
PackageComplete ==
    \A t \in m_ended \ Spurious : Deps[t] \subseteq m_ended

\* threadpool.hpp:117-161: while a thread sleeps, every task in the queue has
\* an awake thread that will look for it: no notification is lost, though the
\* wait of ThreadLoop has no predicate.
NoSleepOverWork ==
    At("waiting") # {} => Len(m_task_queue) <= Cardinality(At("loop"))

\* The tasks that threads have taken, and the executor seen through them.
Taken == {t \in Task : \E w \in Worker : task[w] = t}

Exec == INSTANCE Executor WITH
         open <- m_running, waiting <- m_task_queue, active <- Taken,
         done <- m_ended, Loose <- Spurious

\* threadpool.hpp:43-164: the pool is an executor, however its threads wait,
\* join and wake each other up: tasks begin in the order in which they were
\* queued, each once, end after those that they join, and do end.
ImplementsExecutor == Exec!Spec

\* threadpool.hpp:97-115: the destructor returns, also when it comes while a
\* package joins its frames.
ShutdownEnds == ~m_running ~> At("exit") = Worker
=============================================================================
