---------------------------- MODULE MCDetection ----------------------------
(* Detection for TLC: two scenes, so that movement can come and go.         *)
EXTENDS Detection

CONSTANTS empty, intruder
=============================================================================
