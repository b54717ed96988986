--------------------------- MODULE MCQueryBanlist ---------------------------
(* Small instance of QueryBanlist: two sources, a minute of two seconds, a
   second of two ticks, bans of one and two minutes; the last ban is over well
   before the last frame. *)
EXTENDS QueryBanlist

CONSTANTS a, b
=============================================================================
