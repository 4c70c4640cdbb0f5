--------------------------- MODULE MCPipeEventLoop ---------------------------
(* PipeEventLoop for TLC: three tasks, two threads beside the loop and a    *)
(* pipe of two bytes, so that the pipe is full while a task is submitted.   *)
EXTENDS PipeEventLoop
=============================================================================
