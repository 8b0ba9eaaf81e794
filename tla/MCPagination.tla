--------------------------- MODULE MCPagination ---------------------------
(* A small instance of Pagination: milliseconds of two ticks, the second   *)
(* of which opens the year.                                                *)
EXTENDS Pagination
=============================================================================
