-------------------------------- MODULE MCMain --------------------------------
(* Three messages: two commands, and words that are none.                   *)
EXTENDS Main

MCMessage == {<<"det", "start">>, <<"det", "stop">>, <<"det", "del", "x">>}
=============================================================================
