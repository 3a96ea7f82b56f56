---------------------------- MODULE MCWorkerWake ----------------------------
(* WorkerWake on small instances: two pids, one request, the dispatch loop. *)
EXTENDS WorkerWake
=============================================================================
