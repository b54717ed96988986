--------------------------- MODULE MCServerQuery ----------------------------
(* Small instance of ServerQuery: two sources on a ring of two entries, more
   than one query a second is a flood, a minute of one second. *)
EXTENDS ServerQuery

CONSTANTS a, b
=============================================================================
