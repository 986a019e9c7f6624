--------------------------- MODULE MCEventFanout ---------------------------
(* Two tasks: one is watched from the start.                                  *)
EXTENDS EventFanout

CONSTANTS c1, c2

AllWatchFirst == [u \in Client |-> c1]
=============================================================================
