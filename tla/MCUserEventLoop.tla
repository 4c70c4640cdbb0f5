--------------------------- MODULE MCUserEventLoop ---------------------------
(* UserEventLoop for TLC: three tasks, two threads beside the loop.         *)
EXTENDS UserEventLoop
=============================================================================
