-------------------------- MODULE MCWorkerSession --------------------------
(* Instances of WorkerSession for TLC. *)
EXTENDS WorkerSession

CONSTANTS web, a, b
=============================================================================
