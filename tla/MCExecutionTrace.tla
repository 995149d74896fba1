-------------------------- MODULE MCExecutionTrace --------------------------
(* Instances of ExecutionTrace: batches of two events, so that a trace has *)
(* several, and a ticket that may or may not have room for what is kept.   *)
EXTENDS ExecutionTrace
=============================================================================
