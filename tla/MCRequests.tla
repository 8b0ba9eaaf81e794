---------------------------- MODULE MCRequests ----------------------------
(* A small instance of Requests: a request and its repetitions. *)
EXTENDS Requests, TLC
CONSTANTS r1, r2
=============================================================================
