------------------------------ MODULE Service ------------------------------
(***************************************************************************)
(* What the users of CyclicTask rely on (inc/cyclic_task.hpp): an object   *)
(* that its owner starts and stops.  Work is done only between a Start and *)
(* the next Stop, a Stop that has begun lets at most the work under way    *)
(* end, and it returns when nothing is left.  Handles, notifications and   *)
(* the loop interval are not part of the promise.                          *)
(***************************************************************************)
CONSTANT Task  \* the objects

VARIABLES
    call,     \* call[t]: the call of the owner that is under way
    state,    \* state[t]: "off", "on", or "ending"
    working,  \* working[t]: ExecutionCycle is executed
    alive     \* the process has not ended

vars == <<call, state, working, alive>>

Init ==
    /\ call = [t \in Task |-> "none"]
    /\ state = [t \in Task |-> "off"]
    /\ working = [t \in Task |-> FALSE]
    /\ alive = TRUE

\* A call of what is already done returns at once, and is no step.
StartCalled(t) ==
    /\ alive /\ call[t] = "none" /\ state[t] = "off"
    /\ call' = [call EXCEPT ![t] = "start"]
    /\ UNCHANGED <<state, working, alive>>

StartReturns(t) ==
    /\ alive /\ call[t] = "start" /\ state[t] = "off"
    /\ call' = [call EXCEPT ![t] = "none"]
    /\ state' = [state EXCEPT ![t] = "on"]
    /\ UNCHANGED <<working, alive>>

StopCalled(t) ==
    /\ alive /\ call[t] = "none" /\ state[t] = "on"
    /\ call' = [call EXCEPT ![t] = "stop"]
    /\ UNCHANGED <<state, working, alive>>

\* From here on no work begins.
StopBegins(t) ==
    /\ alive /\ call[t] = "stop" /\ state[t] = "on"
    /\ state' = [state EXCEPT ![t] = "ending"]
    /\ UNCHANGED <<call, working, alive>>

StopReturns(t) ==
    /\ alive /\ call[t] = "stop" /\ state[t] = "ending" /\ ~working[t]
    /\ call' = [call EXCEPT ![t] = "none"]
    /\ state' = [state EXCEPT ![t] = "off"]
    /\ UNCHANGED <<working, alive>>

WorkBegins(t) ==
    /\ alive /\ state[t] = "on" /\ ~working[t]
    /\ working' = [working EXCEPT ![t] = TRUE]
    /\ UNCHANGED <<call, state, alive>>

WorkEnds(t) ==
    /\ alive /\ working[t]
    /\ working' = [working EXCEPT ![t] = FALSE]
    /\ UNCHANGED <<call, state, alive>>

\* Something else ends the process.
Die == alive /\ alive' = FALSE /\ UNCHANGED <<call, state, working>>

Next ==
    \/ \E t \in Task :
         \/ StartCalled(t) \/ StartReturns(t)
         \/ StopCalled(t) \/ StopBegins(t) \/ StopReturns(t)
         \/ WorkBegins(t) \/ WorkEnds(t)
    \/ Die

Safety == Init /\ [][Next]_vars

\* Calls return, work ends, and while the service is on it is done again and
\* again.
Progress ==
    \A t \in Task :
        /\ call[t] # "none" ~> call[t] = "none" \/ ~alive
        /\ working[t] ~> ~working[t] \/ ~alive
        /\ state[t] = "on" ~> working[t] \/ state[t] # "on" \/ ~alive

Spec == Safety /\ Progress
=============================================================================
