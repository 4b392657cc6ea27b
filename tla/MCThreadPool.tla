---------------------------- MODULE MCThreadPool ----------------------------
(* ThreadPool for TLC: two intrusions of two frames each, and only as many  *)
(* threads as packages.  In the second package a wait may end spuriously.   *)
EXTENDS ThreadPool

CONSTANTS w1, w2, j1, j2, j3, j4, p1, p2

MCDeps == [t \in Task |-> CASE t = p1 -> {j1, j2}
                            [] t = p2 -> {j3, j4}
                            [] OTHER  -> {}]
=============================================================================
