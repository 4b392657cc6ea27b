--------------------------- MODULE MCIntrusionFiles ---------------------------
(* IntrusionFiles for TLC: the bounds are given in the configuration.       *)
EXTENDS IntrusionFiles
=============================================================================
