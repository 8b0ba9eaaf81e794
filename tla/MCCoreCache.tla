---------------------------- MODULE MCCoreCache ----------------------------
(* A small instance of CoreCache: an API process and a worker.             *)
EXTENDS CoreCache
=============================================================================
