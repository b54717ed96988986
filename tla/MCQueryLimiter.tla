--------------------------- MODULE MCQueryLimiter ---------------------------
(* Small instance of QueryLimiter: two ring entries, three sources, one of
   them whitelisted on one of its ports, thresholds in the order of the real
   ones (MaxLP < MinHP < MaxHP), one packet more per interval than the
   threshold of all queries. *)
EXTENDS QueryLimiter

CONSTANTS a, b, c

MCIPs == {a, b, c}
MCPorts == {1, 2}
MCExceptIPs == {<<c, 1>>}
MCDeltas == {3, 5}
=============================================================================
