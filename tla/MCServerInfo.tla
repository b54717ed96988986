---------------------------- MODULE MCServerInfo ----------------------------
(* Small instance of ServerAnswers: packets of 42 bytes of which a fragment's
   header takes 9; two worlds, whose rules need two fragments, both full, or
   more than the buffer holds, and the list of players one packet, full or
   not; a clock that passes the cache times of 1 and 2 ticks (of the players). *)
EXTENDS ServerAnswers, TLC

(* the default, old style without a limiter, and hybrid with everything on *)
MCConfigs == {
    [answerType |-> "source", fixBuggedQuery |-> TRUE, enableQueryLimiter |-> TRUE,
     allowSplitPackets |-> FALSE],
    [answerType |-> "goldsource", fixBuggedQuery |-> FALSE, enableQueryLimiter |-> FALSE,
     allowSplitPackets |-> TRUE],
    [answerType |-> "hybrid", fixBuggedQuery |-> TRUE, enableQueryLimiter |-> TRUE,
     allowSplitPackets |-> TRUE] }

MCIntervals == [r \in Responses |-> IF r = "players" THEN 2 ELSE 1]

S(len, val) == [len |-> len, val |-> val]

Client(connected, fake, name) == [connected |-> connected, fake |-> fake, name |-> name]
Edict(frags, fake, spectator) == [frags |-> frags, fake |-> fake, spectator |-> spectator]
Cvar(name, string, protected) ==
    [name |-> name, string |-> string, server |-> TRUE, protected |-> protected]
Hidden(name) == [name |-> name, string |-> S(1, "h"), server |-> FALSE, protected |-> FALSE]

World(tags, clients, edicts, cvars) ==
    [hostname |-> S(1, "h"), map |-> S(1, "m"), gameDir |-> S(1, "d"), game |-> S(1, "g"),
     address |-> S(1, "a"), version |-> S(1, "v"), visible |-> 3, tags |-> tags,
     clients |-> (0 :> clients[1] @@ 1 :> clients[2] @@ 2 :> clients[3]),
     edicts |-> (0 :> Edict(0, FALSE, FALSE) @@ 1 :> edicts[1] @@ 2 :> edicts[2]
                 @@ 3 :> edicts[3]),
     cvars |-> cvars]

Nobody == Client(FALSE, FALSE, S(0, ""))

MCWorlds == {
    \* a player and a bot around a free slot, with tags; rules of 66 bytes
    World(S(2, "t"), <<Client(TRUE, FALSE, S(1, "p")), Nobody, Client(TRUE, TRUE, S(1, "q"))>>,
          <<Edict(5, FALSE, FALSE), Edict(3, FALSE, FALSE), Edict(9, TRUE, FALSE)>>,
          <<Hidden(S(40, "x")), Cvar(S(22, "n"), S(22, "v"), FALSE),
            Cvar(S(5, "o"), S(0, ""), TRUE), Cvar(S(1, "w"), S(1, "u"), FALSE)>>),
    \* a full server; the value of the second rule does not fit, the third would
    World(S(0, ""), <<Client(TRUE, FALSE, S(2, "p")), Client(TRUE, FALSE, S(2, "r")), Client(TRUE, TRUE, S(2, "q"))>>,
          <<Edict(6, FALSE, FALSE), Edict(0, FALSE, TRUE), Edict(9, TRUE, TRUE)>>,
          <<Cvar(S(20, "n"), S(20, "v"), FALSE), Cvar(S(20, "o"), S(20, "u"), FALSE),
            Cvar(S(1, "w"), S(4, "secret"), TRUE)>>) }

=============================================================================
