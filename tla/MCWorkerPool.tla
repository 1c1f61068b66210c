---------------------------- MODULE MCWorkerPool ----------------------------
(* Instances of WorkerPool for TLC: see MCWorkerPool.cfg. *)
EXTENDS WorkerPool
=============================================================================
