---------------------------- MODULE MCWorkerPool ----------------------------
(* Two workers and up to three URLs, so that a worker is used twice.        *)
EXTENDS WorkerPool
=============================================================================
