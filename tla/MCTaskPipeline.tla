---------------------------- MODULE MCTaskPipeline ----------------------------
(* Model-checking instances of TaskPipeline.                               *)
EXTENDS TaskPipeline

CONSTANTS t1, t2

\* Each task under its own idempotency key.
OwnKeys == [t \in Tasks |-> t]

\* Two clients, in two projects, chose the same Idempotency-Key.
SharedKey == [t \in Tasks |-> t1]
=============================================================================
