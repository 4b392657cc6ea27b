------------------------------ MODULE Executor ------------------------------
(***************************************************************************)
(* What Alarm relies on when it queues a task (inc/threadpool.hpp): every  *)
(* task is executed exactly once, in the order in which the tasks were     *)
(* queued, and ends after those that it joins, until the executor is       *)
(* closed.  Threads, locks and notifications are not part of the promise.  *)
(***************************************************************************)
EXTENDS Naturals, Sequences

CONSTANTS
    Task,  \* the tasks that are ever submitted
    Deps,  \* Deps[t]: the tasks after which t ends
    Loose  \* tasks that may end earlier

VARIABLES
    open,     \* Close has not come
    waiting,  \* the tasks that have not begun, the oldest first
    active,   \* the tasks that are executed
    done      \* the tasks that have ended

vars == <<open, waiting, active, done>>

Init == open = TRUE /\ waiting = <<>> /\ active = {} /\ done = {}

Known == {waiting[i] : i \in DOMAIN waiting} \cup active \cup done

Submit(t) ==
    /\ open /\ t \notin Known /\ Deps[t] \subseteq Known
    /\ waiting' = Append(waiting, t)
    /\ UNCHANGED <<open, active, done>>

Begin ==
    /\ open /\ waiting # <<>>
    /\ Head(waiting) \notin active \cup done
    /\ active' = active \cup {Head(waiting)}
    /\ waiting' = Tail(waiting)
    /\ UNCHANGED <<open, done>>

End(t) ==
    /\ t \in active
    /\ Deps[t] \subseteq done \/ t \in Loose
    /\ active' = active \ {t}
    /\ done' = done \cup {t}
    /\ UNCHANGED <<open, waiting>>

\* Nothing begins any longer, what is active ends.
Close == open /\ open' = FALSE /\ UNCHANGED <<waiting, active, done>>

Next == Begin \/ Close \/ \E t \in Task : Submit(t) \/ End(t)

Safety == Init /\ [][Next]_vars

\* A task that was submitted ends, unless the executor is closed before it
\* has begun.
Progress ==
    \A t \in Task :
        /\ t \in Known ~> t \in done \/ ~open
        /\ t \in active ~> t \in done

Spec == Safety /\ Progress
=============================================================================
