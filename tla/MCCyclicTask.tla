---------------------------- MODULE MCCyclicTask ----------------------------
(* CyclicTask for TLC: c1 owns two objects, c2 one whose threads may fail.  *)
EXTENDS CyclicTask

CONSTANTS t1, t2, t3, c1, c2

MCOwner == [t \in Task |-> IF t = t3 THEN {c2} ELSE {c1}]
=============================================================================
