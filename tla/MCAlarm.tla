------------------------------ MODULE MCAlarm ------------------------------
(* Alarm for TLC.                                                           *)
EXTENDS Alarm

CONSTANTS v0, v1
=============================================================================
