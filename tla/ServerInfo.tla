----------------------------- MODULE ServerInfo -----------------------------
(***************************************************************************)
(* What the server answers to the queries it lets through: the switches of *)
(* CServerInfo::handleQuery and handleQueryGlobal, the cached responses of *)
(* sendResponse and their split into fragments.                            *)
(*                                                                         *)
(* The limiter is seen from outside: whether it is in global mode, whether *)
(* it is under flood, and what it grants (QueryLimiter has the inside); so *)
(* is the bugged-query fix: whether this client has just asked             *)
(* (QueryBugfix has the table), and what the answers hold                  *)
(* (ResponseWriters has the functions that write them).                    *)
(***************************************************************************)
EXTENDS Integers, Sequences

CONSTANTS
    Configs,            \* configurations of CReunionConfig, see Config
    Worlds,             \* what the engine shows of players, names and cvars
    Written(_, _, _, _),  \* WriteResponse: response, world, flood, capacity
    MaxPacket,          \* STEAM_MAX_PACKET_SIZE
    FragHeader,         \* header of a fragment
    UpdateInterval,     \* per response, in ticks
    FrameSteps,         \* lengths of a frame in ticks
    Word,               \* range of the sequence number of split packets
    EndOfTime           \* bound of the model: the last frame

Responses == {"source", "goldsource", "players", "rules"}
Limit == [r \in Responses |-> IF r = "rules" THEN 2 * MaxPacket ELSE MaxPacket]
FragSize == MaxPacket - FragHeader

Config == [answerType : {"source", "goldsource", "hybrid"},  \* ServerInfoAnswerType
           fixBuggedQuery : BOOLEAN, enableQueryLimiter : BOOLEAN,
           allowSplitPackets : BOOLEAN]

ASSUME ServerInfoAssumption ==
    /\ Configs \subseteq Config
    /\ MaxPacket \in Nat /\ FragHeader \in Nat /\ FragHeader < MaxPacket
    /\ \A r \in Responses, world \in Worlds, flood \in BOOLEAN :
          Written(r, world, flood, Limit[r]).size \in 1 .. Limit[r]
    /\ UpdateInterval \in [Responses -> Nat]
    /\ FrameSteps \subseteq Nat \ {0}
    /\ Word \in Nat \ {0, 1}
    /\ EndOfTime \in Nat

VARIABLES
    config,         \* g_ReunionConfig, read when the plugin starts
    realTime,       \* m_realTime, in ticks: read once per frame
    world,          \* what the engine shows at the moment
    resp,           \* m_resp*, see Cache
    multipacketId,  \* m_multipacketId
    global,         \* the limiter's getUseGlobalRateLimit
    underFlood,     \* the limiter's isUnderFlood
    sent            \* observer: what left for the asker in the last step

cacheVars == <<resp, multipacketId>>
limitVars == <<global, underFlood>>
vars == <<config, realTime, world, cacheVars, limitVars, sent>>

-----------------------------------------------------------------------------
(* sendResponse: a response is written anew when its cache is too old. *)

Stale(r) == realTime - resp[r].lastUpdate > UpdateInterval[r]

Content(r) == Written(r, world, underFlood, Limit[r])

Fresh(r) == [lastUpdate |-> realTime, size |-> Content(r).size, data |-> Content(r).data,
             written |-> realTime]

(* faulty variants: the time of the update is not kept; the old content is not
   cleared *)
UpdatedUndated(r) ==
    IF Stale(r) THEN [Fresh(r) EXCEPT !.lastUpdate = resp[r].lastUpdate] ELSE resp[r]

UpdatedAppended(r) ==
    IF Stale(r) THEN [Fresh(r) EXCEPT !.size = resp[r].size + @, !.data = resp[r].data \o @]
    ELSE resp[r]

Updated(r) == IF Stale(r) THEN Fresh(r) ELSE resp[r]

Split(cache) == cache.size > MaxPacket /\ config.allowSplitPackets

(* faulty variant: the rest after the last full fragment is lost *)
FragCountDown(size) == size \div FragSize

FragCount(size) == (size + FragSize - 1) \div FragSize

(* fragment n of a response; the last one takes what is left *)
Fragment(r, cache, n) ==
    [kind |-> "fragment", of |-> r, written |-> cache.written, id |-> multipacketId,
     number |-> n, count |-> FragCount(cache.size), offset |-> n * FragSize,
     size |-> IF n = FragCount(cache.size) - 1 THEN cache.size - n * FragSize ELSE FragSize]

Whole(r, cache) ==
    [kind |-> "packet", of |-> r, written |-> cache.written, size |-> cache.size]

Packets(r, cache) ==
    IF Split(cache)
    THEN [n \in 1 .. FragCount(cache.size) |-> Fragment(r, cache, n - 1)]
    ELSE <<Whole(r, cache)>>

EmptyPlayers == [kind |-> "empty_players"]
Challenge    == [kind |-> "challenge"]
ToEngine     == [kind |-> "to_engine"]

SendResponse(r) ==
    /\ resp' = [resp EXCEPT ![r] = Updated(r)]
    /\ multipacketId' = IF Split(Updated(r)) THEN (multipacketId + 1) % Word ELSE multipacketId
    /\ sent' = Packets(r, Updated(r))

(* sendServerInfo with sat_hybrid: both answers, between them an empty list
   for a client that has just asked. *)
SendHybrid(bugged) ==
    /\ resp' = [resp EXCEPT !["goldsource"] = Updated("goldsource"),
                            !["source"] = Updated("source")]
    /\ sent' = <<Whole("goldsource", Updated("goldsource"))>>
               \o (IF config.fixBuggedQuery /\ bugged THEN <<EmptyPlayers>> ELSE <<>>)
               \o <<Whole("source", Updated("source"))>>
    /\ UNCHANGED multipacketId

-----------------------------------------------------------------------------
Init ==
    /\ config \in Configs
    /\ realTime = 0
    /\ world \in Worlds
    /\ resp = [r \in Responses |-> [lastUpdate |-> 0, size |-> 0, data |-> <<>>, written |-> 0]]
    /\ multipacketId \in 0 .. Word - 1
    /\ global = FALSE /\ underFlood = FALSE
    /\ sent = <<>>

Answer(packets) == sent' = packets /\ UNCHANGED cacheVars

(* what allowQuery and allowGlobalQuery may say *)
Grants == IF config.enableQueryLimiter THEN BOOLEAN ELSE {TRUE}

(* the switch of handleQuery; granted is what allowQuery says *)
InfoQuery(granted, bugged) ==
    \/ ~granted /\ Answer(<<>>)
    \/ /\ granted
       /\ config.answerType = "hybrid" /\ ~underFlood
       /\ SendHybrid(bugged)
    \/ /\ granted
       /\ ~(config.answerType = "hybrid" /\ ~underFlood)
       /\ SendResponse(IF config.answerType = "goldsource" THEN "goldsource" ELSE "source")

(* A2S_PLAYER and A2S_RULES: whoever holds the challenge is answered, and
   the limiter is not asked *)
ListQuery(r, holdsChallenge) ==
    \/ ~holdsChallenge /\ Answer(<<Challenge>>)
    \/ holdsChallenge /\ SendResponse(r)

(* 'details' *)
DetailsQuery(granted) ==
    IF config.answerType # "source" /\ granted /\ ~underFlood
    THEN SendResponse("goldsource")
    ELSE Answer(<<>>)

(* 'players', which the engine gets as well *)
PlayersQuery(granted) ==
    \/ /\ config.answerType = "source"
       /\ Answer(<<ToEngine>>)
    \/ /\ config.answerType # "source" /\ granted /\ ~underFlood
       /\ resp' = [resp EXCEPT !["players"] = Updated("players")]
       /\ sent' = Append(Packets("players", Updated("players")), ToEngine)
       /\ UNCHANGED multipacketId
    \/ /\ config.answerType # "source" /\ ~(granted /\ ~underFlood)
       /\ Answer(<<EmptyPlayers, ToEngine>>)

(* connect, challenge and getchallenge, or nothing the plugin knows: for the
   engine, unless it is cut short or the limiter refuses it *)
EngineQuery == Answer(<<ToEngine>>) \/ Answer(<<>>)

Query ==
    /\ ~global
    /\ \/ \E granted \in Grants :
            \/ \E bugged \in BOOLEAN : InfoQuery(granted, bugged)
            \/ DetailsQuery(granted)
            \/ PlayersQuery(granted)
            \/ EngineQuery
       \/ \E r \in {"players", "rules"}, holdsChallenge \in BOOLEAN :
            ListQuery(r, holdsChallenge)
    /\ UNCHANGED <<config, realTime, world, limitVars>>

(* faulty variant: the answer to A2S_PLAYER goes out as it is, too *)
GlobalQueryCached ==
    /\ global
    /\ \/ Answer(<<>>)
       \/ Answer(<<Whole("source", resp["source"])>>)
       \/ Answer(<<Challenge>>)
       \/ Answer(<<Whole("players", resp["players"])>>)
       \/ Answer(<<ToEngine>>)
    /\ UNCHANGED <<config, realTime, world, limitVars>>

(* handleQueryGlobal, behind allowGlobalQuery: the cache of A2S_INFO goes out
   as it is; of the others only A2S_PLAYER gets an answer. *)
GlobalQuery ==
    /\ global
    /\ \/ Answer(<<Whole("source", resp["source"])>>)
       \/ \E holdsChallenge \in BOOLEAN : ListQuery("players", holdsChallenge)
       \/ EngineQuery
    /\ UNCHANGED <<config, realTime, world, limitVars>>

(* startFrame reads the clock. *)
Frame(step) ==
    /\ realTime + step <= EndOfTime
    /\ realTime' = realTime + step
    /\ sent' = <<>>
    /\ UNCHANGED <<config, world, cacheVars, limitVars>>

(* The limiter's modes change with the queries that it counts. *)
LimiterMoves ==
    /\ config.enableQueryLimiter
    /\ global' \in BOOLEAN /\ underFlood' \in BOOLEAN
    /\ sent' = <<>>
    /\ UNCHANGED <<config, realTime, world, cacheVars>>

(* Players come, leave and score, cvars change, in the engine. *)
WorldMoves ==
    /\ world' \in Worlds \ {world}
    /\ sent' = <<>>
    /\ UNCHANGED <<config, realTime, cacheVars, limitVars>>

Next ==
    \/ Query
    \/ GlobalQuery
    \/ \E step \in FrameSteps : Frame(step)
    \/ LimiterMoves
    \/ WorldMoves

Spec == Init /\ [][Next]_vars

-----------------------------------------------------------------------------
(* PROPERTIES *)

TypeOK ==
    /\ realTime \in 0 .. EndOfTime
    /\ world \in Worlds
    /\ DOMAIN resp = Responses
    /\ \A r \in Responses :
          /\ DOMAIN resp[r] = {"lastUpdate", "size", "data", "written"}
          /\ resp[r].size \in 0 .. Limit[r]
          /\ {resp[r].lastUpdate, resp[r].written} \subseteq 0 .. realTime
    /\ multipacketId \in 0 .. Word - 1
    /\ global \in BOOLEAN /\ underFlood \in BOOLEAN

OfResponse(r) == {n \in DOMAIN sent : sent[n].kind \in {"packet", "fragment"} /\ sent[n].of = r}

FreshAnswers(r) == \A n \in OfResponse(r) : realTime - sent[n].written <= UpdateInterval[r]

(* "A2S_INFO cache time", "A2S_PLAYERS cache time", "A2S_RULES cache time"
   (server_info.h:7): no answer is older than its cache time, in whatever mode
   it goes out, but for the answer to A2S_INFO in global mode.  An answer nobody
   has written yet counts as written when the clock stood at 0. *)
CacheTimeKept ==
    \A r \in Responses : (r = "source" => ~global) => FreshAnswers(r)

(* A response is refreshed no more often than its cache time allows, so that
   a thousand queries cost one walk over players or cvars. *)
WritesAreRare ==
    [][\A r \in Responses : resp'[r] # resp[r] =>
          resp'[r].written - resp[r].written > UpdateInterval[r]]_vars

(* The fragments of a response put together are the response: they follow one
   another without gap, each of them fits a packet and none is empty, they
   agree on number and sequence, and the sequence is not the one of the next
   response. *)
FragmentsRebuild ==
    \A n \in DOMAIN sent : sent[n].kind = "fragment" =>
        /\ Len(sent) = sent[n].count
        /\ sent[n].number = n - 1
        /\ sent[n].id = sent[1].id /\ sent[n].id # multipacketId
        /\ sent[n].size \in 1 .. FragSize
        /\ sent[n].offset + sent[n].size =
           IF n = Len(sent) THEN resp[sent[n].of].size ELSE sent[n + 1].offset

=============================================================================
