----------------------------- MODULE MCArchival -----------------------------
(* A small instance of Archival: orders with consecutive ids, of this year  *)
(* or the last.                                                             *)
EXTENDS Archival

CONSTANT OrderCount

MCOrders == 1..OrderCount
=============================================================================
