--------------------------- MODULE MCExecutionLoop ---------------------------
(* ExecutionLoop on the instance of its configuration: three iterations, one *)
(* nudge of each kind, two errors, two signals.                              *)
EXTENDS ExecutionLoop

=============================================================================
