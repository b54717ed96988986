--------------------------- MODULE MCQueryBugfix ----------------------------
(* Small instance of QueryBugfix: three sources for a table of two. *)
EXTENDS QueryBugfix

CONSTANTS a, b, c
=============================================================================
