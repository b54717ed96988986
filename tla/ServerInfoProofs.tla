-------------------------- MODULE ServerInfoProofs --------------------------
(***************************************************************************)
(* Theorems about ServerInfo, for every configuration, every size of a     *)
(* packet, every cache time and whatever the responses hold; then what the *)
(* lists of players and of rules hold, whatever the engine shows.          *)
(*                                                                         *)
(* The inductive invariant adds to the types that a cache's content is as  *)
(* old as its time says.  The time alone decides whether it is written     *)
(* anew, the observer alone tells how old an answer is.                    *)
(*                                                                         *)
(* A list is written by a loop.  What its buffer holds after so many turns *)
(* (HoldsPlayers, HoldsRules) is carried from turn to turn; the first turn *)
(* after which it did not hold would contradict the one before.            *)
(***************************************************************************)
EXTENDS ServerAnswers, SublistProofs, SequenceTheorems, TLAPS

Dated ==
    \A r \in Responses :
        /\ resp[r] = [lastUpdate |-> resp[r].lastUpdate, size |-> resp[r].size,
                      data |-> resp[r].data, written |-> resp[r].written]
        /\ resp[r].written = resp[r].lastUpdate

IInv ==
    /\ TypeOK
    /\ config \in Configs
    /\ resp = [r \in Responses |-> resp[r]]
    /\ Dated

(* what every query does to the caches: each is left or brought up to date *)
Refreshed ==
    /\ resp' = [r \in Responses |-> resp'[r]]
    /\ \A r \in Responses : resp'[r] \in {resp[r], Updated(r)}

-----------------------------------------------------------------------------
(* What the assumptions say of the limits and intervals. *)
LEMMA LimitsAreNat ==
    ASSUME NEW r \in Responses
    PROVE  /\ Limit[r] \in Nat \ {0}
           /\ UpdateInterval[r] \in Nat
           /\ r # "rules" => Limit[r] = MaxPacket
  BY ServerInfoAssumption DEF Limit, Responses

(* A cache that is brought up to date is well-formed and recent enough. *)
LEMMA UpToDate ==
    ASSUME IInv, NEW r \in Responses
    PROVE  LET c == Updated(r) IN
           /\ c = [lastUpdate |-> c.lastUpdate, size |-> c.size, data |-> c.data,
                   written |-> c.written]
           /\ c.written = c.lastUpdate
           /\ c.written \in 0 .. realTime
           /\ c.size \in 0 .. Limit[r]
           /\ realTime - c.written <= UpdateInterval[r]
           /\ c # resp[r] => c.written - resp[r].written > UpdateInterval[r]
  <1>1. /\ resp[r].lastUpdate \in 0 .. realTime /\ realTime \in Nat
        /\ resp[r].size \in 0 .. Limit[r]
        /\ resp[r].written = resp[r].lastUpdate
        /\ world \in Worlds /\ underFlood \in BOOLEAN
    BY DEF IInv, TypeOK, Dated
  <1>2. Content(r).size \in 1 .. Limit[r]
    BY <1>1, ServerInfoAssumption DEF Content
  <1>3. UpdateInterval[r] \in Nat /\ Limit[r] \in Nat
    BY LimitsAreNat
  <1>4. CASE Stale(r)
    <2>1. /\ Updated(r) = Fresh(r)
          /\ Fresh(r) = [lastUpdate |-> realTime, size |-> Content(r).size,
                         data |-> Content(r).data, written |-> realTime]
      BY <1>4 DEF Updated, Fresh
    <2>2. realTime - resp[r].lastUpdate > UpdateInterval[r]
      BY <1>4 DEF Stale
    <2> QED BY <1>1, <1>2, <1>3, <2>1, <2>2
  <1>5. CASE ~Stale(r)
    <2>1. Updated(r) = resp[r]
      BY <1>5 DEF Updated
    <2>2. realTime - resp[r].lastUpdate <= UpdateInterval[r]
      BY <1>1, <1>3, <1>5 DEF Stale
    <2>3. resp[r] = [lastUpdate |-> resp[r].lastUpdate, size |-> resp[r].size,
                     data |-> resp[r].data, written |-> resp[r].written]
      BY DEF IInv, Dated
    <2> QED BY <1>1, <2>1, <2>2, <2>3
  <1> QED BY <1>4, <1>5

(* Queries bring caches up to date and touch nothing else of them. *)
LEMMA SendRefreshes ==
    ASSUME IInv, NEW r \in Responses, SendResponse(r)
    PROVE  Refreshed
  BY DEF IInv, SendResponse, Refreshed

LEMMA AnswerRefreshes ==
    ASSUME IInv, resp' = resp
    PROVE  Refreshed
  BY DEF IInv, Refreshed

LEMMA QueriesRefresh ==
    ASSUME IInv, Query \/ GlobalQuery
    PROVE  Refreshed
  <1>0. {"source", "goldsource", "players", "rules"} \subseteq Responses
    BY DEF Responses
  <1>1. ASSUME NEW packets, Answer(packets) PROVE Refreshed
    BY <1>1, AnswerRefreshes DEF Answer, cacheVars
  <1>2. ASSUME NEW b \in BOOLEAN, SendHybrid(b) PROVE Refreshed
    BY <1>2 DEF IInv, SendHybrid, Refreshed, Responses
  <1>3. ASSUME NEW g \in Grants, NEW b \in BOOLEAN, InfoQuery(g, b) PROVE Refreshed
    BY <1>0, <1>1, <1>2, <1>3, SendRefreshes DEF InfoQuery
  <1>4. ASSUME NEW r \in {"players", "rules"}, NEW h \in BOOLEAN, ListQuery(r, h)
        PROVE  Refreshed
    BY <1>0, <1>1, <1>4, SendRefreshes DEF ListQuery
  <1>5. ASSUME NEW g \in Grants, DetailsQuery(g) PROVE Refreshed
    BY <1>0, <1>1, <1>5, SendRefreshes DEF DetailsQuery
  <1>6. ASSUME NEW g \in Grants, PlayersQuery(g) PROVE Refreshed
    <2>1. CASE resp' = [resp EXCEPT !["players"] = Updated("players")]
      BY <1>0, <2>1 DEF IInv, Refreshed
    <2> QED BY <1>1, <1>6, <2>1 DEF PlayersQuery
  <1>7. CASE EngineQuery
    BY <1>1, <1>7 DEF EngineQuery
  <1> QED BY <1>1, <1>3, <1>4, <1>5, <1>6, <1>7 DEF Query, GlobalQuery

-----------------------------------------------------------------------------
(* The invariant *)

LEMMA InitInvariant == Init => IInv
  <1> SUFFICES ASSUME Init PROVE IInv
    OBVIOUS
  <1>1. \A r \in Responses : resp[r] = [lastUpdate |-> 0, size |-> 0, data |-> <<>>, written |-> 0]
    BY DEF Init
  <1>2. \A r \in Responses : Limit[r] \in Nat
    BY LimitsAreNat
  <1>3. resp = [r \in Responses |-> resp[r]] /\ Dated
    BY <1>1 DEF Init, Dated
  <1>4. \A r \in Responses : DOMAIN resp[r] = {"lastUpdate", "size", "data", "written"}
    BY <1>1
  <1>5. /\ realTime \in 0 .. EndOfTime /\ world \in Worlds
        /\ DOMAIN resp = Responses
        /\ multipacketId \in 0 .. Word - 1
        /\ config \in Configs
    BY ServerInfoAssumption DEF Init
  <1>6. global \in BOOLEAN /\ underFlood \in BOOLEAN
    BY Zenon DEF Init
  <1>7. \A r \in Responses : /\ resp[r].size \in 0 .. Limit[r]
                             /\ {resp[r].lastUpdate, resp[r].written} \subseteq 0 .. realTime
    BY <1>1, <1>2 DEF Init
  <1> QED BY <1>3, <1>4, <1>5, <1>6, <1>7 DEF IInv, TypeOK

LEMMA CachesKeep ==
    ASSUME IInv, Refreshed, realTime' = realTime
    PROVE  /\ resp' = [r \in Responses |-> resp'[r]]
           /\ Dated'
           /\ DOMAIN resp' = Responses
           /\ \A r \in Responses :
                /\ DOMAIN resp'[r] = {"lastUpdate", "size", "data", "written"}
                /\ resp'[r].size \in 0 .. Limit[r]
                /\ {resp'[r].lastUpdate, resp'[r].written} \subseteq 0 .. realTime'
  <1>1. ASSUME NEW r \in Responses
        PROVE  /\ resp'[r] = [lastUpdate |-> resp'[r].lastUpdate, size |-> resp'[r].size,
                              data |-> resp'[r].data, written |-> resp'[r].written]
               /\ resp'[r].written = resp'[r].lastUpdate
               /\ resp'[r].size \in 0 .. Limit[r]
               /\ resp'[r].written \in 0 .. realTime'
    <2>1. CASE resp'[r] = resp[r]
      BY <2>1 DEF IInv, Dated, TypeOK
    <2>2. CASE resp'[r] = Updated(r)
      BY <2>2, UpToDate
    <2> QED BY <2>1, <2>2 DEF Refreshed
  <1>2. Dated'
    BY <1>1 DEF Dated
  <1>3. resp' = [r \in Responses |-> resp'[r]] /\ DOMAIN resp' = Responses
    BY DEF Refreshed
  <1>4. ASSUME NEW r \in Responses
        PROVE  DOMAIN resp'[r] = {"lastUpdate", "size", "data", "written"}
    <2>1. \E t, z, d, w : resp'[r] = [lastUpdate |-> t, size |-> z, data |-> d, written |-> w]
      BY <1>1
    <2> QED BY <2>1
  <1> QED BY <1>1, <1>2, <1>3, <1>4

(* The sequence number stays a word. *)
LEMMA SequenceKeeps ==
    ASSUME IInv, Query \/ GlobalQuery
    PROVE  multipacketId' \in 0 .. Word - 1
  <1>1. multipacketId \in 0 .. Word - 1 /\ (multipacketId + 1) % Word \in 0 .. Word - 1
    BY ServerInfoAssumption DEF IInv, TypeOK
  <1>2. ASSUME NEW r, SendResponse(r) PROVE multipacketId' \in 0 .. Word - 1
    BY <1>1, <1>2 DEF SendResponse
  <1>3. CASE UNCHANGED multipacketId
    BY <1>1, <1>3
  <1> QED BY <1>2, <1>3 DEF Query, GlobalQuery, InfoQuery, ListQuery, DetailsQuery,
             PlayersQuery, EngineQuery, SendHybrid, Answer, cacheVars

THEOREM Invariant == Spec => []IInv
  <1>1. IInv /\ [Next]_vars => IInv'
    <2> SUFFICES ASSUME IInv, [Next]_vars PROVE IInv'
      OBVIOUS
    <2>1. CASE UNCHANGED vars
      BY <2>1 DEF vars, cacheVars, limitVars, IInv, TypeOK, Dated
    <2>2. CASE Query \/ GlobalQuery
      <3>1. UNCHANGED <<config, realTime, world, global, underFlood>>
        BY <2>2 DEF Query, GlobalQuery, limitVars
      <3>2. /\ resp' = [r \in Responses |-> resp'[r]]
            /\ Dated'
            /\ DOMAIN resp' = Responses
            /\ \A r \in Responses :
                /\ DOMAIN resp'[r] = {"lastUpdate", "size", "data", "written"}
                /\ resp'[r].size \in 0 .. Limit[r]
                /\ {resp'[r].lastUpdate, resp'[r].written} \subseteq 0 .. realTime'
        BY <2>2, <3>1, QueriesRefresh, CachesKeep
      <3>3. multipacketId' \in 0 .. Word - 1
        BY <2>2, SequenceKeeps
      <3>4. TypeOK'
        BY <3>1, <3>2, <3>3 DEF IInv, TypeOK
      <3> QED BY <3>1, <3>2, <3>4 DEF IInv
    <2>3. ASSUME NEW step \in FrameSteps, Frame(step) PROVE IInv'
      <3>1. step \in Nat /\ EndOfTime \in Nat
        BY ServerInfoAssumption
      <3>2. /\ realTime' = realTime + step /\ realTime' <= EndOfTime
            /\ UNCHANGED <<config, world, resp, multipacketId, global, underFlood>>
        BY <2>3 DEF Frame, cacheVars, limitVars
      <3>3. TypeOK'
        BY <3>1, <3>2 DEF IInv, TypeOK
      <3> QED BY <3>2, <3>3 DEF IInv, Dated
    <2>4. CASE LimiterMoves
      BY <2>4 DEF LimiterMoves, cacheVars, IInv, TypeOK, Dated
    <2>5. CASE WorldMoves
      BY <2>5 DEF WorldMoves, cacheVars, limitVars, IInv, TypeOK, Dated
    <2> QED BY <2>1, <2>2, <2>3, <2>4, <2>5 DEF Next
  <1> QED BY <1>1, InitInvariant, PTL DEF Spec

(* Caches, clock and sequence number have their types at any time, and no
   response is larger than its buffer. *)
THEOREM TypeCorrect == Spec => []TypeOK
  BY Invariant, PTL DEF IInv

(* A response is refreshed no more often than its cache time allows, for every
   cache time and in every mode. *)
THEOREM RefreshesAreRare == Spec => WritesAreRare
  <1> DEFINE Rare == \A r \in Responses : resp'[r] # resp[r] =>
                        resp'[r].written - resp[r].written > UpdateInterval[r]
  <1>1. IInv /\ [Next]_vars => Rare
    <2> SUFFICES ASSUME IInv, [Next]_vars PROVE Rare
      OBVIOUS
    <2>1. CASE Refreshed
      BY <2>1, UpToDate DEF Refreshed
    <2>2. CASE resp' = resp
      BY <2>2
    <2> QED BY <2>1, <2>2, QueriesRefresh
            DEF Next, vars, Frame, LimiterMoves, WorldMoves, cacheVars
  <1>2. Spec => [][Rare]_vars
    <2> HIDE DEF Rare
    <2> QED BY <1>1, Invariant, PTL DEF Spec
  <1> QED BY <1>2 DEF WritesAreRare

-----------------------------------------------------------------------------
(* What leaves for the asker *)

(* what holds of every packet or fragment of a response in a list of packets *)
AreDated(packets) ==
    \A n \in DOMAIN packets : packets[n].kind \in {"packet", "fragment"} =>
        /\ packets[n].of \in Responses
        /\ packets[n].written = Updated(packets[n].of).written

LEMMA PacketsDated ==
    ASSUME NEW r \in Responses
    PROVE  AreDated(Packets(r, Updated(r)))
  <1>1. CASE Split(Updated(r))
    <2>1. Packets(r, Updated(r)) =
          [n \in 1 .. FragCount(Updated(r).size) |-> Fragment(r, Updated(r), n - 1)]
      BY <1>1 DEF Packets
    <2> QED BY <2>1 DEF AreDated, Fragment
  <1>2. CASE ~Split(Updated(r))
    <2>1. Packets(r, Updated(r)) = <<Whole(r, Updated(r))>>
      BY <1>2 DEF Packets
    <2> QED BY <2>1 DEF AreDated, Whole
  <1> QED BY <1>1, <1>2

(* Two packets in a row, put together in either way. *)
LEMMA Pair ==
    ASSUME NEW a, NEW b
    PROVE  <<a>> \o <<b>> = <<a, b>> /\ Append(<<a>>, b) = <<a, b>>
  <1> DEFINE S == {a, b}
  <1>1. <<a>> \in Seq(S) /\ <<b>> \in Seq(S) /\ <<a, b>> \in Seq(S) /\ b \in S
    OBVIOUS
  <1> HIDE DEF S
  <1>2. /\ <<a>> \o <<b>> \in Seq(S)
        /\ Len(<<a>> \o <<b>>) = 2
        /\ \A i \in 1 .. 2 : (<<a>> \o <<b>>)[i] = IF i <= 1 THEN <<a>>[i] ELSE <<b>>[i - 1]
    BY <1>1, ConcatProperties
  <1>3. \A i \in 1 .. 2 : (<<a>> \o <<b>>)[i] = <<a, b>>[i]
    BY <1>2
  <1>4. <<a>> \o <<b>> = <<a, b>>
    BY <1>1, <1>2, <1>3, SeqEqual
  <1>5. Append(<<a>>, b) = <<a>> \o <<b>>
    BY <1>1, AppendIsConcat
  <1> QED BY <1>4, <1>5

(* Two or three packets in a row. *)
LEMMA InARow ==
    ASSUME NEW a, NEW b, NEW c
    PROVE  /\ <<a>> \o <<b>> \o <<c>> = <<a, b, c>>
           /\ <<a>> \o <<>> \o <<c>> = <<a, c>>
  <1> DEFINE S == {a, b, c}
  <1>1. <<a>> \in Seq(S) /\ <<b>> \in Seq(S) /\ <<c>> \in Seq(S) /\ <<>> \in Seq(S)
    OBVIOUS
  <1>2. <<a, b>> \in Seq(S) /\ <<a, c>> \in Seq(S) /\ <<a, b, c>> \in Seq(S)
    OBVIOUS
  <1> HIDE DEF S
  <1>3. <<a>> \o <<b>> = <<a, b>>
    BY Pair
  <1>4. <<a>> \o <<>> = <<a>>
    BY <1>1, ConcatEmptySeq
  <1>5. <<a>> \o <<c>> = <<a, c>>
    BY Pair
  <1>6. <<a, b>> \o <<c>> = <<a, b, c>>
    <2>1. /\ <<a, b>> \o <<c>> \in Seq(S)
          /\ Len(<<a, b>> \o <<c>>) = 3
          /\ \A i \in 1 .. 3 : (<<a, b>> \o <<c>>)[i] = IF i <= 2 THEN <<a, b>>[i] ELSE <<c>>[i - 2]
      BY <1>1, <1>2, ConcatProperties
    <2>2. \A i \in 1 .. 3 : (<<a, b>> \o <<c>>)[i] = <<a, b, c>>[i]
      BY <2>1
    <2> QED BY <1>2, <2>1, <2>2, SeqEqual
  <1> QED BY <1>3, <1>4, <1>5, <1>6

LEMMA HybridDated ==
    ASSUME NEW b \in BOOLEAN, SendHybrid(b)
    PROVE  AreDated(sent')
  <1> DEFINE G == Whole("goldsource", Updated("goldsource"))
             S == Whole("source", Updated("source"))
  <1>1. /\ G.of = "goldsource" /\ G.written = Updated("goldsource").written
        /\ S.of = "source" /\ S.written = Updated("source").written
        /\ EmptyPlayers.kind = "empty_players"
    BY DEF Whole, EmptyPlayers
  <1>2. sent' = <<G>> \o (IF config.fixBuggedQuery /\ b THEN <<EmptyPlayers>> ELSE <<>>) \o <<S>>
    BY DEF SendHybrid
  <1>3. {"goldsource", "source"} \subseteq Responses
    BY DEF Responses
  <1> HIDE DEF G, S
  <1>4. CASE config.fixBuggedQuery /\ b
    <2>1. sent' = <<G, EmptyPlayers, S>>
      BY <1>2, <1>4, InARow
    <2> QED BY <1>1, <1>3, <2>1 DEF AreDated
  <1>5. CASE ~(config.fixBuggedQuery /\ b)
    <2>1. sent' = <<G, S>>
      BY <1>2, <1>5, InARow
    <2> QED BY <1>1, <1>3, <2>1 DEF AreDated
  <1> QED BY <1>4, <1>5

(* The list of players fits one packet, and the engine's copy comes after it. *)
LEMMA PlayersWhole ==
    ASSUME IInv
    PROVE  /\ Packets("players", Updated("players")) =
                    <<Whole("players", Updated("players"))>>
           /\ Append(Packets("players", Updated("players")), ToEngine) =
                    <<Whole("players", Updated("players")), ToEngine>>
  <1>1. /\ Updated("players").size \in 0 .. Limit["players"]
        /\ Limit["players"] = MaxPacket
    BY UpToDate, LimitsAreNat DEF Responses
  <1>2. ~Split(Updated("players"))
    BY <1>1, ServerInfoAssumption DEF Split
  <1>3. Packets("players", Updated("players")) = <<Whole("players", Updated("players"))>>
    BY <1>2 DEF Packets
  <1>4. \A a, b : Append(<<a>>, b) = <<a, b>>
    BY Pair
  <1> QED BY <1>3, <1>4

LEMMA QueryDated ==
    ASSUME IInv, Query
    PROVE  AreDated(sent')
  <1>0. {"source", "goldsource", "players", "rules"} \subseteq Responses
    BY DEF Responses
  <1>1. ASSUME NEW r \in Responses, SendResponse(r) PROVE AreDated(sent')
    BY <1>1, PacketsDated DEF SendResponse
  <1>2. /\ Answer(<<>>) => AreDated(sent')
        /\ Answer(<<Challenge>>) => AreDated(sent')
        /\ Answer(<<ToEngine>>) => AreDated(sent')
        /\ Answer(<<EmptyPlayers, ToEngine>>) => AreDated(sent')
    BY DEF Answer, AreDated, Challenge, ToEngine, EmptyPlayers
  <1>3. ASSUME NEW g \in Grants, NEW b \in BOOLEAN, InfoQuery(g, b) PROVE AreDated(sent')
    BY <1>0, <1>1, <1>2, <1>3, HybridDated DEF InfoQuery
  <1>4. ASSUME NEW r \in {"players", "rules"}, NEW h \in BOOLEAN, ListQuery(r, h)
        PROVE  AreDated(sent')
    BY <1>0, <1>1, <1>2, <1>4 DEF ListQuery
  <1>5. ASSUME NEW g \in Grants, DetailsQuery(g) PROVE AreDated(sent')
    BY <1>0, <1>1, <1>2, <1>5 DEF DetailsQuery
  <1>6. ASSUME NEW g \in Grants, PlayersQuery(g) PROVE AreDated(sent')
    <2>1. CASE sent' = <<Whole("players", Updated("players")), ToEngine>>
      BY <1>0, <2>1 DEF AreDated, Whole, ToEngine
    <2> QED BY <1>2, <1>6, <2>1, PlayersWhole DEF PlayersQuery
  <1>7. EngineQuery => AreDated(sent')
    BY <1>2 DEF EngineQuery
  <1> QED BY <1>3, <1>4, <1>5, <1>6, <1>7 DEF Query

LEMMA GlobalQueryDated ==
    ASSUME IInv, GlobalQuery
    PROVE  AreDated(sent') \/ sent' = <<Whole("source", resp["source"])>>
  <1>1. ASSUME SendResponse("players") PROVE AreDated(sent')
    BY <1>1, PacketsDated DEF SendResponse, Responses
  <1>2. /\ Answer(<<>>) => AreDated(sent')
        /\ Answer(<<Challenge>>) => AreDated(sent')
        /\ Answer(<<ToEngine>>) => AreDated(sent')
    BY DEF Answer, AreDated, Challenge, ToEngine
  <1> QED BY <1>1, <1>2 DEF GlobalQuery, ListQuery, EngineQuery, Answer

(* No answer is older than its cache time, whatever the cache times are and in
   whatever mode, but for A2S_INFO in global mode. *)
THEOREM AnswersAreRecent == Spec => []CacheTimeKept
  <1>1. Init => CacheTimeKept
    BY DEF Init, CacheTimeKept, FreshAnswers, OfResponse
  <1>2. IInv /\ CacheTimeKept /\ [Next]_vars => CacheTimeKept'
    <2> SUFFICES ASSUME IInv, CacheTimeKept, [Next]_vars PROVE CacheTimeKept'
      OBVIOUS
    <2>1. CASE UNCHANGED vars
      BY <2>1 DEF vars, limitVars, CacheTimeKept, FreshAnswers, OfResponse
    <2>2. CASE AreDated(sent') /\ realTime' = realTime
      <3> SUFFICES ASSUME NEW r \in Responses, NEW n \in OfResponse(r)'
                   PROVE  realTime - sent'[n].written <= UpdateInterval[r]
        BY <2>2 DEF CacheTimeKept, FreshAnswers
      <3>1. sent'[n].written = Updated(r).written
        BY <2>2 DEF OfResponse, AreDated
      <3> QED BY <3>1, UpToDate
    <2>3. CASE sent' = <<Whole("source", resp["source"])>> /\ global'
      <3>1. \A r \in Responses : r # "source" => OfResponse(r)' = {}
        BY <2>3 DEF OfResponse, Whole
      <3> QED BY <2>3, <3>1 DEF CacheTimeKept, FreshAnswers
    <2>4. CASE sent' = <<>>
      BY <2>4 DEF CacheTimeKept, FreshAnswers, OfResponse
    <2>5. CASE Query
      BY <2>2, <2>5, QueryDated DEF Query
    <2>6. CASE GlobalQuery
      BY <2>2, <2>3, <2>6, GlobalQueryDated DEF GlobalQuery, limitVars
    <2> QED BY <2>1, <2>4, <2>5, <2>6 DEF Next, Frame, LimiterMoves, WorldMoves
  <1> QED BY <1>1, <1>2, Invariant, PTL DEF Spec

-----------------------------------------------------------------------------
(* Fragments *)

NoFragments(packets) == \A n \in DOMAIN packets : packets[n].kind # "fragment"

(* The last fragment is not empty and is no larger than the others. *)
LEMMA CountOfFragments ==
    ASSUME NEW size \in Nat \ {0}
    PROVE  /\ FragSize \in Nat \ {0}
           /\ FragCount(size) \in Nat \ {0}
           /\ (FragCount(size) - 1) * FragSize < size
           /\ size <= (FragCount(size) - 1) * FragSize + FragSize
  <1> DEFINE F == FragSize
             x == size + F - 1
             c == x \div F
             rest == x % F
  <1>1. F \in Nat \ {0}
    BY ServerInfoAssumption DEF FragSize
  <1>2. x \in Nat
    BY <1>1
  <1>3. c \in Int /\ rest \in 0 .. F - 1 /\ x = F * c + rest
    BY <1>1, <1>2
  <1>4. x = size + F - 1 /\ c = FragCount(size)
    BY DEF FragCount
  <1> HIDE DEF F, x, c, rest
  <1>5. F * c >= size /\ F * c - F < size
    BY <1>1, <1>3, <1>4
  <1>6. (c - 1) * F = F * c - F
    BY <1>1, <1>3
  <1>7. c >= 1
    <2>1. CASE c <= 0
      <3>1. F * c <= 0
        BY <1>1, <1>3, <2>1
      <3> QED BY <1>1, <1>3, <1>5, <3>1
    <2> QED BY <1>3, <2>1
  <1>8. (c - 1) * F < size /\ size <= (c - 1) * F + F
    BY <1>1, <1>3, <1>5, <1>6
  <1> QED BY <1>1, <1>3, <1>4, <1>7, <1>8 DEF F

LEMMA FragmentsFit ==
    ASSUME IInv, NEW r \in Responses, SendResponse(r)
    PROVE  FragmentsRebuild'
  <1> DEFINE u == Updated(r)
             c == FragCount(u.size)
             F == FragSize
  <1>1. CASE Split(u)
    <2>1. u.size \in Nat \ {0}
      BY <1>1, UpToDate, LimitsAreNat, ServerInfoAssumption DEF Split
    <2>2. /\ F \in Nat \ {0} /\ c \in Nat \ {0}
          /\ (c - 1) * F < u.size /\ u.size <= (c - 1) * F + F
      BY <2>1, CountOfFragments
    <2>3. sent' = [n \in 1 .. c |-> Fragment(r, u, n - 1)]
      BY <1>1 DEF SendResponse, Packets
    <2>4. multipacketId' # multipacketId
      <3>1. multipacketId \in 0 .. Word - 1 /\ Word \in Nat \ {0, 1}
        BY ServerInfoAssumption DEF IInv, TypeOK
      <3>2. multipacketId' = (multipacketId + 1) % Word
        BY <1>1 DEF SendResponse
      <3>3. CASE multipacketId = Word - 1
        <4>1. (multipacketId + 1) % Word = 0
          BY <3>1, <3>3
        <4> QED BY <3>1, <3>2, <3>3, <4>1
      <3>4. CASE multipacketId # Word - 1
        <4>1. (multipacketId + 1) % Word = multipacketId + 1
          BY <3>1, <3>4
        <4> QED BY <3>1, <3>2, <4>1
      <3> QED BY <3>3, <3>4
    <2>5. resp'[r].size = u.size
      BY DEF SendResponse, IInv
    <2>6. \A n \in 1 .. c :
            /\ sent'[n].count = c /\ sent'[n].number = n - 1
            /\ sent'[n].id = multipacketId /\ sent'[n].of = r
            /\ sent'[n].offset = (n - 1) * F
            /\ sent'[n].size = IF n - 1 = c - 1 THEN u.size - (n - 1) * F ELSE F
      BY <2>3 DEF Fragment
    <2>7. DOMAIN sent' = 1 .. c /\ Len(sent') = c
      BY <2>2, <2>3
    <2> HIDE DEF u, c, F
    <2> SUFFICES ASSUME NEW n \in 1 .. c
                 PROVE  /\ Len(sent') = sent'[n].count
                        /\ sent'[n].number = n - 1
                        /\ sent'[n].id = sent'[1].id /\ sent'[n].id # multipacketId'
                        /\ sent'[n].size \in 1 .. FragSize
                        /\ sent'[n].offset + sent'[n].size =
                           IF n = Len(sent') THEN resp'[sent'[n].of].size
                           ELSE sent'[n + 1].offset
      BY <2>7 DEF FragmentsRebuild
    <2>8. /\ Len(sent') = sent'[n].count
          /\ sent'[n].number = n - 1
          /\ sent'[n].id = sent'[1].id /\ sent'[n].id # multipacketId'
          /\ resp'[sent'[n].of].size = u.size
      <3>1. 1 \in 1 .. c
        BY <2>2
      <3> QED BY <2>4, <2>5, <2>6, <2>7, <3>1
    <2>9. CASE n = c
      <3>1. /\ sent'[n].size = u.size - (c - 1) * F
            /\ sent'[n].offset = (c - 1) * F
        BY <2>6, <2>9
      <3>2. (c - 1) * F \in Int
        BY <2>2
      <3>3. sent'[n].size \in 1 .. F /\ sent'[n].offset + sent'[n].size = u.size
        BY <2>1, <2>2, <3>1, <3>2
      <3> QED BY <2>7, <2>8, <2>9, <3>3 DEF F
    <2>10. CASE n # c
      <3>1. n + 1 \in 1 .. c /\ n - 1 # c - 1 /\ n \in Int
        BY <2>2, <2>10
      <3>2. (n - 1) * F + F = (n + 1 - 1) * F
        BY <2>2, <3>1
      <3>3. sent'[n].size = F /\ sent'[n].offset = (n - 1) * F
        BY <2>6, <3>1
      <3>4. sent'[n + 1].offset = (n + 1 - 1) * F
        BY <2>6, <3>1
      <3>5. sent'[n].size \in 1 .. F /\ sent'[n].offset + sent'[n].size = sent'[n + 1].offset
        BY <2>2, <3>2, <3>3, <3>4
      <3> QED BY <2>7, <2>8, <2>10, <3>5 DEF F
    <2> QED BY <2>9, <2>10
  <1>2. CASE ~Split(u)
    <2>1. sent' = <<Whole(r, u)>>
      BY <1>2 DEF SendResponse, Packets
    <2> QED BY <2>1 DEF FragmentsRebuild, Whole
  <1> QED BY <1>1, <1>2

LEMMA WithoutFragments ==
    ASSUME NoFragments(sent')
    PROVE  FragmentsRebuild'
  BY DEF NoFragments, FragmentsRebuild

LEMMA HybridWhole ==
    ASSUME NEW b \in BOOLEAN, SendHybrid(b)
    PROVE  NoFragments(sent')
  <1> DEFINE G == Whole("goldsource", Updated("goldsource"))
             S == Whole("source", Updated("source"))
  <1>1. G.kind # "fragment" /\ S.kind # "fragment" /\ EmptyPlayers.kind # "fragment"
    BY DEF Whole, EmptyPlayers
  <1>2. sent' = <<G>> \o (IF config.fixBuggedQuery /\ b THEN <<EmptyPlayers>> ELSE <<>>) \o <<S>>
    BY DEF SendHybrid
  <1> HIDE DEF G, S
  <1>3. sent' = <<G, EmptyPlayers, S>> \/ sent' = <<G, S>>
    BY <1>2, InARow
  <1> QED BY <1>1, <1>3 DEF NoFragments

LEMMA QueryFragments ==
    ASSUME IInv, Query \/ GlobalQuery
    PROVE  FragmentsRebuild'
  <1>0. {"source", "goldsource", "players", "rules"} \subseteq Responses
    BY DEF Responses
  <1>1. ASSUME NEW r \in Responses, SendResponse(r) PROVE FragmentsRebuild'
    BY <1>1, FragmentsFit
  <1>2. \/ sent' \in {<<>>, <<Challenge>>, <<ToEngine>>, <<EmptyPlayers, ToEngine>>}
        \/ \E r \in Responses : \E c : sent' \in {<<Whole(r, c)>>, <<Whole(r, c), ToEngine>>}
        => FragmentsRebuild'
    BY WithoutFragments DEF NoFragments, Challenge, ToEngine, EmptyPlayers, Whole
  <1>3. ASSUME NEW g \in Grants, NEW b \in BOOLEAN, InfoQuery(g, b) PROVE FragmentsRebuild'
    BY <1>0, <1>1, <1>2, <1>3, HybridWhole, WithoutFragments DEF InfoQuery, Answer
  <1>4. ASSUME NEW r \in {"players", "rules"}, NEW h \in BOOLEAN, ListQuery(r, h)
        PROVE  FragmentsRebuild'
    BY <1>0, <1>1, <1>2, <1>4 DEF ListQuery, Answer
  <1>5. ASSUME NEW g \in Grants, DetailsQuery(g) PROVE FragmentsRebuild'
    BY <1>0, <1>1, <1>2, <1>5 DEF DetailsQuery, Answer
  <1>6. ASSUME NEW g \in Grants, PlayersQuery(g) PROVE FragmentsRebuild'
    BY <1>0, <1>2, <1>6, PlayersWhole DEF PlayersQuery, Answer
  <1>7. EngineQuery => FragmentsRebuild'
    BY <1>2 DEF EngineQuery, Answer
  <1>8. GlobalQuery => FragmentsRebuild'
    BY <1>0, <1>2, <1>4, <1>7 DEF GlobalQuery, Answer
  <1> QED BY <1>3, <1>4, <1>5, <1>6, <1>7, <1>8 DEF Query

(* The fragments of a response are the response again, whatever its size and
   that of a packet. *)
THEOREM ResponsesAreRebuilt == Spec => []FragmentsRebuild
  <1>1. Init => FragmentsRebuild
    BY DEF Init, FragmentsRebuild
  <1>2. IInv /\ FragmentsRebuild /\ [Next]_vars => FragmentsRebuild'
    <2> SUFFICES ASSUME IInv, FragmentsRebuild, [Next]_vars PROVE FragmentsRebuild'
      OBVIOUS
    <2>1. CASE UNCHANGED vars
      BY <2>1 DEF vars, cacheVars, FragmentsRebuild
    <2>2. CASE sent' = <<>>
      BY <2>2, WithoutFragments DEF NoFragments
    <2> QED BY <2>1, <2>2, QueryFragments DEF Next, Frame, LimiterMoves, WorldMoves
  <1> QED BY <1>1, <1>2, Invariant, PTL DEF Spec

-----------------------------------------------------------------------------
(* The buffer. *)
Values == Int \cup STRING \cup {"", "0", "1"}
Buffers == [size : Nat, data : Seq(Values), capacity : Nat, overflowed : BOOLEAN]
Fields  == [len : Nat, val : Values]

(* What is written into is a buffer again. *)
LEMMA WriteType ==
    ASSUME NEW buf \in Buffers, NEW field \in Fields
    PROVE  Write(buf, field) \in Buffers
  <1>1. CASE buf.overflowed \/ buf.size + field.len > buf.capacity
    <2>1. Write(buf, field) = [buf EXCEPT !.overflowed = TRUE]
      BY <1>1 DEF Write
    <2> QED BY <2>1 DEF Buffers
  <1>2. CASE ~(buf.overflowed \/ buf.size + field.len > buf.capacity)
    <2>1. Write(buf, field) = [buf EXCEPT !.size = buf.size + field.len,
                                          !.data = Append(buf.data, field.val)]
      BY <1>2 DEF Write
    <2>2. buf.size + field.len \in Nat /\ Append(buf.data, field.val) \in Seq(Values)
      BY DEF Buffers, Fields
    <2> QED BY <2>1, <2>2 DEF Buffers
  <1> QED BY <1>1, <1>2

(* field by field *)
LEMMA FieldByField ==
    ASSUME NEW buf \in Buffers, NEW fields \in Seq(Fields)
    PROVE  \E after \in [0 .. Len(fields) -> Buffers] :
               /\ after[0] = buf
               /\ \A k \in 1 .. Len(fields) : after[k] = Write(after[k - 1], fields[k])
               /\ WriteAll(buf, fields) = after[Len(fields)]
  <1> DEFINE n == Len(fields)
             Turn == [x \in Buffers \X (1 .. n) |-> Write(x[1], fields[x[2]])]
             Is(f) == f = [k \in 0 .. n |-> IF k = 0 THEN buf ELSE Write(f[k - 1], fields[k])]
  <1>1. n \in Nat /\ \A k \in 1 .. n : fields[k] \in Fields
    OBVIOUS
  <1>2. Turn \in Turns(Buffers, n)
    BY <1>1, WriteType DEF Turns
  <1>3. PICK f \in [0 .. n -> Buffers] :
            f[0] = buf /\ \A k \in 1 .. n : f[k] = Turn[<<f[k - 1], k>>]
    <2>1. \E f : IsLoop(Buffers, buf, n, Turn, f)
      <3> HIDE DEF n, Turn
      <3> QED BY <1>1, <1>2, LoopExists
    <2> QED BY <2>1 DEF IsLoop
  <1>4. \A k \in 1 .. n : f[k] = Write(f[k - 1], fields[k])
    <2> SUFFICES ASSUME NEW k \in 1 .. n PROVE f[k] = Write(f[k - 1], fields[k])
      OBVIOUS
    <2>1. f[k - 1] \in Buffers
      BY <1>1
    <2> QED BY <1>3, <2>1
  <1>5. Is(f)
    <2> DEFINE h == [k \in 0 .. n |-> IF k = 0 THEN buf ELSE Write(f[k - 1], fields[k])]
    <2>1. \A k \in 0 .. n : f[k] = h[k]
      BY <1>1, <1>3, <1>4
    <2>2. f = [k \in 0 .. n |-> f[k]]
      OBVIOUS
    <2>3. h = [k \in 0 .. n |-> h[k]]
      OBVIOUS
    <2> QED BY <2>1, <2>2, <2>3, Zenon
  <1> DEFINE a == CHOOSE g : Is(g)
  <1>6. Is(a)
    BY <1>5, Zenon
  <1>7. WriteAll(buf, fields) = a[n]
    BY DEF WriteAll
  <1>8. /\ DOMAIN a = 0 .. n
        /\ a[0] = buf
        /\ \A k \in 1 .. n : a[k] = Write(a[k - 1], fields[k])
    <2> HIDE DEF a
    <2> QED BY <1>1, <1>6
  <1>9. \A k \in 0 .. n : a[k] \in Buffers
    <2> DEFINE Not == {k \in 0 .. n : a[k] \notin Buffers}
    <2> HIDE DEF a
    <2> SUFFICES ASSUME Not # {} PROVE FALSE
      OBVIOUS
    <2>1. PICK k \in Not : \A y \in Not : k <= y
      <3>1. Not \in SUBSET Nat
        BY <1>1
      <3> HIDE DEF Not
      <3> QED BY <3>1, SmallestNumber
    <2>2. k # 0
      BY <1>8
    <2>3. k - 1 \in 0 .. n /\ k - 1 \notin Not /\ k \in 1 .. n
      BY <1>1, <2>1, <2>2
    <2> QED BY <1>1, <1>8, <2>1, <2>3, WriteType
  <1>10. a \in [0 .. n -> Buffers]
    <2> HIDE DEF a
    <2>1. a = [k \in 0 .. n |-> a[k]]
      BY <1>6
    <2> QED BY <1>9, <2>1
  <1> QED
    BY <1>7, <1>8, <1>10

(* Two, three or four fields are written one after the other. *)
LEMMA TwoFields ==
    ASSUME NEW buf \in Buffers, NEW a \in Fields, NEW b \in Fields
    PROVE  WriteAll(buf, <<a, b>>) = Write(Write(buf, a), b)
  <1> DEFINE fields == <<a, b>>
  <1>1. fields \in Seq(Fields) /\ Len(fields) = 2 /\ fields[1] = a /\ fields[2] = b
    OBVIOUS
  <1> HIDE DEF fields
  <1>2. PICK after \in [0 .. 2 -> Buffers] :
                     /\ after[0] = buf
                     /\ \A k \in 1 .. 2 : after[k] = Write(after[k - 1], fields[k])
                     /\ WriteAll(buf, fields) = after[2]
    BY <1>1, FieldByField
  <1>3. after[1] = Write(after[0], a) /\ after[2] = Write(after[1], b)
    BY <1>1, <1>2
  <1> QED BY <1>2, <1>3 DEF fields

LEMMA ThreeFields ==
    ASSUME NEW buf \in Buffers, NEW a \in Fields, NEW b \in Fields, NEW c \in Fields
    PROVE  WriteAll(buf, <<a, b, c>>) = Write(Write(Write(buf, a), b), c)
  <1> DEFINE fields == <<a, b, c>>
  <1>1. /\ fields \in Seq(Fields) /\ Len(fields) = 3
        /\ fields[1] = a /\ fields[2] = b /\ fields[3] = c
    OBVIOUS
  <1> HIDE DEF fields
  <1>2. PICK after \in [0 .. 3 -> Buffers] :
                     /\ after[0] = buf
                     /\ \A k \in 1 .. 3 : after[k] = Write(after[k - 1], fields[k])
                     /\ WriteAll(buf, fields) = after[3]
    BY <1>1, FieldByField
  <1>3. /\ after[1] = Write(after[0], a) /\ after[2] = Write(after[1], b)
        /\ after[3] = Write(after[2], c)
    BY <1>1, <1>2
  <1> QED BY <1>2, <1>3 DEF fields

LEMMA FourFields ==
    ASSUME NEW buf \in Buffers,
           NEW a \in Fields, NEW b \in Fields, NEW c \in Fields, NEW d \in Fields
    PROVE  WriteAll(buf, <<a, b, c, d>>) = Write(Write(Write(Write(buf, a), b), c), d)
  <1> DEFINE fields == <<a, b, c, d>>
  <1>1. /\ fields \in Seq(Fields) /\ Len(fields) = 4
        /\ fields[1] = a /\ fields[2] = b /\ fields[3] = c /\ fields[4] = d
    OBVIOUS
  <1> HIDE DEF fields
  <1>2. PICK after \in [0 .. 4 -> Buffers] :
                     /\ after[0] = buf
                     /\ \A k \in 1 .. 4 : after[k] = Write(after[k - 1], fields[k])
                     /\ WriteAll(buf, fields) = after[4]
    BY <1>1, FieldByField
  <1>3. /\ after[1] = Write(after[0], a) /\ after[2] = Write(after[1], b)
        /\ after[3] = Write(after[2], c) /\ after[4] = Write(after[3], d)
    BY <1>1, <1>2
  <1> QED BY <1>2, <1>3 DEF fields

(* What is written while there is room for it ... *)
LEMMA WriteFits ==
    ASSUME NEW buf \in Buffers, NEW field \in Fields,
           ~buf.overflowed, buf.size + field.len <= buf.capacity
    PROVE  LET new == Write(buf, field) IN
           /\ new \in Buffers
           /\ ~new.overflowed /\ new.capacity = buf.capacity
           /\ new.size = buf.size + field.len
           /\ new.data = Append(buf.data, field.val)
           /\ Len(new.data) = Len(buf.data) + 1
           /\ \A i \in 1 .. Len(buf.data) : new.data[i] = buf.data[i]
           /\ new.data[Len(buf.data) + 1] = field.val
  <1>1. buf.size + field.len \in Nat /\ field.val \in Values /\ buf.data \in Seq(Values)
    BY DEF Buffers, Fields
  <1>2. Write(buf, field) = [buf EXCEPT !.size = buf.size + field.len,
                                        !.data = Append(buf.data, field.val)]
    BY <1>1 DEF Write, Buffers
  <1>3. Write(buf, field) \in Buffers
    BY WriteType
  <1>4. DOMAIN buf = {"size", "data", "capacity", "overflowed"}
    BY DEF Buffers
  <1>5. /\ Len(Append(buf.data, field.val)) = Len(buf.data) + 1
        /\ \A i \in 1 .. Len(buf.data) : Append(buf.data, field.val)[i] = buf.data[i]
        /\ Append(buf.data, field.val)[Len(buf.data) + 1] = field.val
    BY <1>1
  <1>6. /\ Write(buf, field).size = buf.size + field.len
        /\ Write(buf, field).data = Append(buf.data, field.val)
        /\ Write(buf, field).capacity = buf.capacity
        /\ Write(buf, field).overflowed = buf.overflowed
    BY <1>2, <1>4
  <1> QED BY <1>3, <1>5, <1>6

(* ... and when there is not, or was not before. *)
LEMMA WriteFails ==
    ASSUME NEW buf \in Buffers, NEW field \in Fields,
           buf.overflowed \/ buf.size + field.len > buf.capacity
    PROVE  LET new == Write(buf, field) IN
           /\ new \in Buffers
           /\ new.overflowed /\ new.capacity = buf.capacity
           /\ new.size = buf.size
           /\ new.data = buf.data
  <1>1. Write(buf, field) = [buf EXCEPT !.overflowed = TRUE]
    BY DEF Write
  <1>2. DOMAIN buf = {"size", "data", "capacity", "overflowed"}
    BY DEF Buffers
  <1> QED BY <1>1, <1>2, WriteType

(* A header of three fields fits into a buffer that is large enough. *)
LEMMA HeaderWritten ==
    ASSUME NEW capacity \in Nat, NEW a \in Fields, NEW b \in Fields, NEW c \in Fields,
           a.len + b.len + c.len <= capacity
    PROVE  LET header == WriteAll(Empty(capacity), <<a, b, c>>) IN
           /\ header \in Buffers /\ ~header.overflowed /\ header.capacity = capacity
           /\ header.size = a.len + b.len + c.len
           /\ Len(header.data) = 3
  <1>0. a.len \in Nat /\ b.len \in Nat /\ c.len \in Nat
    BY DEF Fields
  <1>1. PICK e : e = Empty(capacity)
    OBVIOUS
  <1>2. /\ e \in Buffers /\ ~e.overflowed /\ e.capacity = capacity
        /\ e.size = 0 /\ Len(e.data) = 0
    BY <1>1 DEF Empty, Buffers
  <1>3. WriteAll(e, <<a, b, c>>) = Write(Write(Write(e, a), b), c)
    BY <1>2, ThreeFields
  <1>4. PICK x : x = Write(e, a)
    OBVIOUS
  <1>5. /\ x \in Buffers /\ ~x.overflowed /\ x.capacity = capacity
        /\ x.size = a.len /\ Len(x.data) = 1
    <2>1. e.size + a.len <= e.capacity
      BY <1>0, <1>2, <1>4
    <2>2. /\ x \in Buffers /\ ~x.overflowed /\ x.capacity = e.capacity
          /\ x.size = e.size + a.len
          /\ Len(x.data) = Len(e.data) + 1
      BY <1>2, <1>4, <2>1, WriteFits
    <2> QED BY <1>0, <1>2, <1>4, <2>2
  <1>6. PICK y : y = Write(x, b)
    OBVIOUS
  <1>7. /\ y \in Buffers /\ ~y.overflowed /\ y.capacity = capacity
        /\ y.size = a.len + b.len /\ Len(y.data) = 2
    <2>1. x.size + b.len <= x.capacity
      BY <1>0, <1>5, <1>6
    <2>2. /\ y \in Buffers /\ ~y.overflowed /\ y.capacity = x.capacity
          /\ y.size = x.size + b.len
          /\ Len(y.data) = Len(x.data) + 1
      BY <1>5, <1>6, <2>1, WriteFits
    <2> QED BY <1>0, <1>5, <1>6, <2>2
  <1>8. PICK z : z = Write(y, c)
    OBVIOUS
  <1>9. /\ z \in Buffers /\ ~z.overflowed /\ z.capacity = capacity
        /\ z.size = a.len + b.len + c.len /\ Len(z.data) = 3
    <2>1. y.size + c.len <= y.capacity
      BY <1>0, <1>7, <1>8
    <2>2. /\ z \in Buffers /\ ~z.overflowed /\ z.capacity = y.capacity
          /\ z.size = y.size + c.len
          /\ Len(z.data) = Len(y.data) + 1
      BY <1>7, <1>8, <2>1, WriteFits
    <2> QED BY <1>0, <1>7, <1>8, <2>2
  <1> QED BY <1>1, <1>3, <1>4, <1>6, <1>8, <1>9

-----------------------------------------------------------------------------
(* The list of players. *)

Lists == [buf : Buffers, count : Nat]

(* what the engine shows of players, and the room there is for them *)
PlayersShown(w, slots, capacity) ==
    /\ slots \in 1 .. 128
    /\ w.clients \in [0 .. slots - 1 -> Clients]
    /\ w.edicts \in [0 .. slots -> Edicts]
    /\ capacity \in Nat
    /\ \E longest \in Nat :
          /\ \A i \in 0 .. slots - 1 : w.clients[i].name.len <= longest
          /\ 6 + slots * (10 + longest) <= capacity

(* A row is made of fields. *)
LEMMA RowType ==
    ASSUME NEW w, NEW slots, NEW capacity, PlayersShown(w, slots, capacity),
           NEW i \in 0 .. slots - 1, NEW count \in Nat
    PROVE  LET name == w.clients[i].name IN
           /\ w.clients[i].connected \in BOOLEAN /\ w.clients[i].fake \in BOOLEAN
           /\ name \in Texts /\ name.len \in Nat /\ name.val \in STRING
           /\ w.edicts[i + 1].frags \in Int
           /\ Byte(count + (IF w.clients[i].fake THEN 128 ELSE 0)) \in Fields
           /\ Str(name) \in Fields
           /\ Long(w.edicts[i + 1].frags) \in Fields
           /\ Other(4) \in Fields
  <1>1. w.clients[i] \in Clients /\ i + 1 \in 0 .. slots
    BY DEF PlayersShown
  <1>2. w.edicts[i + 1] \in Edicts
    BY <1>1 DEF PlayersShown
  <1>3. /\ w.clients[i].connected \in BOOLEAN /\ w.clients[i].fake \in BOOLEAN
        /\ w.clients[i].name \in Texts
    BY <1>1 DEF Clients
  <1>4. w.clients[i].name.len \in Nat /\ w.clients[i].name.val \in STRING
    BY <1>3 DEF Texts
  <1>5. w.edicts[i + 1].frags \in Int
    BY <1>2 DEF Edicts
  <1>6. Byte(count + (IF w.clients[i].fake THEN 128 ELSE 0)) \in Fields
    <2>1. \A n \in Nat : n % 256 \in Int
      OBVIOUS
    <2>2. count + (IF w.clients[i].fake THEN 128 ELSE 0) \in Nat
      OBVIOUS
    <2> QED BY <2>1, <2>2 DEF Byte, Field, Fields, Values
  <1>7. Str(w.clients[i].name) \in Fields
    <2>1. w.clients[i].name.len + 1 \in Nat
      BY <1>4
    <2>2. w.clients[i].name.val \in Values
      BY <1>4, Zenon DEF Values
    <2> QED BY <2>1, <2>2 DEF Str, Field, Fields
  <1>8. Long(w.edicts[i + 1].frags) \in Fields
    BY <1>5 DEF Long, Field, Fields, Values
  <1>9. Other(4) \in Fields
    BY DEF Other, Field, Fields, Values
  <1> QED BY <1>3, <1>4, <1>5, <1>6, <1>7, <1>8, <1>9

(* The loop over the slots: its states are lists, and PlayersList is its result. *)
LEMMA AddPlayerType ==
    ASSUME NEW w, NEW slots, NEW capacity, PlayersShown(w, slots, capacity),
           NEW i \in 0 .. slots - 1, NEW list \in Lists
    PROVE  AddPlayer(list, w, i) \in Lists
  <1>1. list.buf \in Buffers /\ list.count \in Nat
    BY DEF Lists
  <1>2. Row(w, i, list.count) \in Seq(Fields)
    BY <1>1, RowType DEF Row
  <1>3. WriteAll(list.buf, Row(w, i, list.count)) \in Buffers
    <2> DEFINE fields == Row(w, i, list.count)
    <2> HIDE DEF fields
    <2>1. fields \in Seq(Fields)
      BY <1>2 DEF fields
    <2>2. PICK after \in [0 .. Len(fields) -> Buffers] :
              WriteAll(list.buf, fields) = after[Len(fields)]
      BY <1>1, <2>1, FieldByField
    <2>3. Len(fields) \in 0 .. Len(fields)
      BY <2>1
    <2> QED BY <2>2, <2>3 DEF fields
  <1> QED BY <1>1, <1>3 DEF AddPlayer, Lists

LEMMA PlayersLoop ==
    ASSUME NEW w, NEW slots, NEW capacity, PlayersShown(w, slots, capacity)
    PROVE  LET header == WriteAll(Empty(capacity), <<Other(4), Byte(68), Byte(0)>>) IN
           \E after \in [0 .. slots -> Lists] :
              /\ after[0] = Counting(header)
              /\ \A k \in 1 .. slots : after[k] = AddPlayer(after[k - 1], w, k - 1)
              /\ PlayersList(w, capacity) = Counted(after[slots], 256)
              /\ header \in Buffers /\ ~header.overflowed
              /\ header.capacity = capacity /\ header.size = 6 /\ Len(header.data) = 3
  <1> DEFINE header == WriteAll(Empty(capacity), <<Other(4), Byte(68), Byte(0)>>)
             Turn == [x \in Lists \X (1 .. slots) |-> AddPlayer(x[1], w, x[2] - 1)]
             Is(f) == f = [n \in 0 .. slots |->
                             IF n = 0 THEN Counting(header) ELSE AddPlayer(f[n - 1], w, n - 1)]
  <1>0. slots \in Nat /\ slots >= 1 /\ capacity \in Nat /\ capacity >= 16
    <2>1. slots \in 1 .. 128 /\ capacity \in Nat
      BY DEF PlayersShown
    <2>2. PICK longest \in Nat : 6 + slots * (10 + longest) <= capacity
      BY DEF PlayersShown
    <2>3. slots * (10 + longest) >= 10 + longest
      <3>1. \A x \in Nat : slots * x >= x
        BY <2>1
      <3> QED BY <3>1
    <2>4. slots * (10 + longest) \in Nat
      BY <2>1
    <2> QED BY <2>1, <2>2, <2>3, <2>4
  <1>1. slots = Cardinality(DOMAIN w.clients)
    <2>1. DOMAIN w.clients = 0 .. slots - 1
      BY DEF PlayersShown
    <2>2. Cardinality(0 .. slots - 1) = slots
      BY <1>0, FS_Interval
    <2> QED BY <2>1, <2>2
  <1>2. /\ header \in Buffers /\ ~header.overflowed
        /\ header.capacity = capacity /\ header.size = 6 /\ Len(header.data) = 3
    <2>1. /\ Other(4) \in Fields /\ Byte(68) \in Fields /\ Byte(0) \in Fields
          /\ Other(4).len = 4 /\ Byte(68).len = 1 /\ Byte(0).len = 1
      BY DEF Other, Byte, Field, Fields, Values
    <2> QED BY <1>0, <2>1, HeaderWritten
  <1>3. PlayersList(w, capacity) = Counted((CHOOSE f : Is(f))[slots], 256)
    BY <1>1 DEF PlayersList
  <1> HIDE DEF header
  <1>4. Counting(header) \in Lists
    BY <1>2 DEF Counting, Lists
  <1>5. Turn \in Turns(Lists, slots)
    <2> SUFFICES ASSUME NEW x \in Lists \X (1 .. slots)
                 PROVE  AddPlayer(x[1], w, x[2] - 1) \in Lists
      BY DEF Turns
    <2>1. x[1] \in Lists /\ x[2] - 1 \in 0 .. slots - 1
      BY <1>0
    <2> QED BY <2>1, AddPlayerType
  <1>6. PICK f : IsLoop(Lists, Counting(header), slots, Turn, f)
    <2> HIDE DEF Turn
    <2> QED BY <1>0, <1>4, <1>5, LoopExists
  <1>7. f \in [0 .. slots -> Lists] /\ f[0] = Counting(header)
    BY <1>6 DEF IsLoop
  <1>8. \A k \in 1 .. slots : f[k] = AddPlayer(f[k - 1], w, k - 1)
    <2> SUFFICES ASSUME NEW k \in 1 .. slots PROVE f[k] = AddPlayer(f[k - 1], w, k - 1)
      OBVIOUS
    <2>1. f[k - 1] \in Lists
      BY <1>0, <1>7
    <2>2. f[k] = Turn[<<f[k - 1], k>>]
      BY <1>6 DEF IsLoop
    <2> QED BY <2>1, <2>2
  <1>9. Is(f)
    <2> DEFINE h == [n \in 0 .. slots |->
                       IF n = 0 THEN Counting(header) ELSE AddPlayer(f[n - 1], w, n - 1)]
    <2>1. \A k \in 0 .. slots : f[k] = h[k]
      BY <1>0, <1>7, <1>8
    <2>2. f = [k \in 0 .. slots |-> f[k]]
      BY <1>7
    <2>3. h = [k \in 0 .. slots |-> h[k]]
      OBVIOUS
    <2> QED BY <2>1, <2>2, <2>3, Zenon
  <1> DEFINE a == CHOOSE g : Is(g)
  <1>10. Is(a)
    BY <1>9, Zenon
  <1>11. PlayersList(w, capacity) = Counted(a[slots], 256)
    BY <1>3
  <1> HIDE DEF a
  <1>12. /\ a = [k \in 0 .. slots |-> a[k]]
         /\ a[0] = Counting(header)
         /\ \A k \in 1 .. slots : a[k] = AddPlayer(a[k - 1], w, k - 1)
    <2>1. a = [n \in 0 .. slots |->
                 IF n = 0 THEN Counting(header) ELSE AddPlayer(a[n - 1], w, n - 1)]
      BY <1>10
    <2>2. \A k \in 1 .. slots : k \in 0 .. slots /\ k # 0
      OBVIOUS
    <2>3. 0 \in 0 .. slots
      BY <1>0
    <2>4. a = [k \in 0 .. slots |-> a[k]]
      BY <2>1
    <2> QED BY <2>1, <2>2, <2>3, <2>4
  <1>13. \A k \in 0 .. slots : a[k] \in Lists
    <2> DEFINE Not == {k \in 0 .. slots : a[k] \notin Lists}
    <2> SUFFICES ASSUME Not # {} PROVE FALSE
      OBVIOUS
    <2>1. PICK k \in Not : \A y \in Not : k <= y
      <3>1. Not \in SUBSET Nat
        BY <1>0
      <3> HIDE DEF Not
      <3> QED BY <3>1, SmallestNumber
    <2>2. k # 0
      BY <1>4, <1>12
    <2>3. k - 1 \in 0 .. slots /\ k - 1 \notin Not /\ k \in 1 .. slots /\ k - 1 \in 0 .. slots - 1
      BY <1>0, <2>1, <2>2
    <2>4. a[k - 1] \in Lists /\ a[k] = AddPlayer(a[k - 1], w, k - 1)
      BY <1>12, <2>3
    <2>5. a[k] \in Lists
      BY <2>3, <2>4, AddPlayerType
    <2> QED BY <2>1, <2>5
  <1>14. a \in [0 .. slots -> Lists]
    BY <1>12, <1>13
  <1> QED
    BY <1>2, <1>11, <1>12, <1>14 DEF header

(* A row of four fields that fits. *)
RowAppended(buf, new, a, b, c, d) ==
    /\ new \in Buffers /\ ~new.overflowed /\ new.capacity = buf.capacity
    /\ new.size = buf.size + a.len + b.len + c.len + d.len
    /\ Len(new.data) = Len(buf.data) + 4
    /\ \A i \in 1 .. Len(buf.data) : new.data[i] = buf.data[i]
    /\ new.data[Len(buf.data) + 1] = a.val
    /\ new.data[Len(buf.data) + 2] = b.val
    /\ new.data[Len(buf.data) + 3] = c.val
    /\ new.data[Len(buf.data) + 4] = d.val

(* It does when there is room for the whole of it. *)
LEMMA RowWritten ==
    ASSUME NEW buf \in Buffers,
           NEW a \in Fields, NEW b \in Fields, NEW c \in Fields, NEW d \in Fields,
           ~buf.overflowed, buf.size + a.len + b.len + c.len + d.len <= buf.capacity
    PROVE  RowAppended(buf, WriteAll(buf, <<a, b, c, d>>), a, b, c, d)
  <1>0. a.len \in Nat /\ b.len \in Nat /\ c.len \in Nat /\ d.len \in Nat
    BY DEF Fields
  <1>1. buf.size \in Nat /\ buf.capacity \in Nat /\ Len(buf.data) \in Nat
    BY DEF Buffers
  <1>2. PICK n \in Nat : n = Len(buf.data)
    BY <1>1
  <1>3. PICK x : x = Write(buf, a)
    OBVIOUS
  <1>4. /\ x \in Buffers /\ ~x.overflowed /\ x.capacity = buf.capacity
        /\ x.size = buf.size + a.len
        /\ Len(x.data) = n + 1
        /\ \A i \in 1 .. n : x.data[i] = buf.data[i]
        /\ x.data[n + 1] = a.val
    <2>1. buf.size + a.len <= buf.capacity
      BY <1>0, <1>1
    <2>2. /\ x \in Buffers /\ ~x.overflowed /\ x.capacity = buf.capacity
          /\ x.size = buf.size + a.len
          /\ Len(x.data) = Len(buf.data) + 1
          /\ \A i \in 1 .. Len(buf.data) : x.data[i] = buf.data[i]
          /\ x.data[Len(buf.data) + 1] = a.val
      BY <1>3, <2>1, WriteFits
    <2> QED BY <1>2, <2>2
  <1>5. PICK y : y = Write(x, b)
    OBVIOUS
  <1>6. /\ y \in Buffers /\ ~y.overflowed /\ y.capacity = buf.capacity
        /\ y.size = buf.size + a.len + b.len
        /\ Len(y.data) = n + 2
        /\ \A i \in 1 .. n : y.data[i] = buf.data[i]
        /\ y.data[n + 1] = a.val /\ y.data[n + 2] = b.val
    <2>1. x.size + b.len <= x.capacity
      BY <1>0, <1>1, <1>4
    <2>2. /\ y \in Buffers /\ ~y.overflowed /\ y.capacity = x.capacity
          /\ y.size = x.size + b.len
          /\ Len(y.data) = Len(x.data) + 1
          /\ \A i \in 1 .. Len(x.data) : y.data[i] = x.data[i]
          /\ y.data[Len(x.data) + 1] = b.val
      BY <1>4, <1>5, <2>1, WriteFits
    <2>3. \A i \in 1 .. n + 1 : y.data[i] = x.data[i]
      BY <1>4, <2>2
    <2> QED BY <1>2, <1>4, <2>2, <2>3
  <1>7. PICK z : z = Write(y, c)
    OBVIOUS
  <1>8. /\ z \in Buffers /\ ~z.overflowed /\ z.capacity = buf.capacity
        /\ z.size = buf.size + a.len + b.len + c.len
        /\ Len(z.data) = n + 3
        /\ \A i \in 1 .. n : z.data[i] = buf.data[i]
        /\ z.data[n + 1] = a.val /\ z.data[n + 2] = b.val /\ z.data[n + 3] = c.val
    <2>1. y.size + c.len <= y.capacity
      <3>1. buf.size + a.len + b.len + c.len <= buf.capacity
        BY <1>0, <1>1
      <3> QED BY <1>6, <3>1
    <2>2. /\ z \in Buffers /\ ~z.overflowed /\ z.capacity = y.capacity
          /\ z.size = y.size + c.len
          /\ Len(z.data) = Len(y.data) + 1
          /\ \A i \in 1 .. Len(y.data) : z.data[i] = y.data[i]
          /\ z.data[Len(y.data) + 1] = c.val
      BY <1>6, <1>7, <2>1, WriteFits
    <2>3. \A i \in 1 .. n + 2 : z.data[i] = y.data[i]
      BY <1>6, <2>2
    <2>4. n + 1 \in 1 .. n + 2 /\ n + 2 \in 1 .. n + 2 /\ \A i \in 1 .. n : i \in 1 .. n + 2
      OBVIOUS
    <2>5. Len(z.data) = n + 3 /\ z.data[n + 3] = c.val
      <3>1. (n + 2) + 1 = n + 3
        OBVIOUS
      <3> QED BY <1>6, <2>2, <3>1
    <2>6. /\ \A i \in 1 .. n : z.data[i] = buf.data[i]
          /\ z.data[n + 1] = a.val /\ z.data[n + 2] = b.val
      BY <1>6, <2>3, <2>4
    <2> QED BY <1>6, <2>2, <2>5, <2>6
  <1>9. PICK v : v = Write(z, d)
    OBVIOUS
  <1>10. /\ v \in Buffers /\ ~v.overflowed /\ v.capacity = buf.capacity
         /\ v.size = buf.size + a.len + b.len + c.len + d.len
         /\ Len(v.data) = n + 4
         /\ \A i \in 1 .. n : v.data[i] = buf.data[i]
         /\ v.data[n + 1] = a.val /\ v.data[n + 2] = b.val
         /\ v.data[n + 3] = c.val /\ v.data[n + 4] = d.val
    <2>1. z.size + d.len <= z.capacity
      BY <1>0, <1>1, <1>8
    <2>2. /\ v \in Buffers /\ ~v.overflowed /\ v.capacity = z.capacity
          /\ v.size = z.size + d.len
          /\ Len(v.data) = Len(z.data) + 1
          /\ \A i \in 1 .. Len(z.data) : v.data[i] = z.data[i]
          /\ v.data[Len(z.data) + 1] = d.val
      BY <1>8, <1>9, <2>1, WriteFits
    <2>3. \A i \in 1 .. n + 3 : v.data[i] = z.data[i]
      BY <1>8, <2>2
    <2>4. v.data[n + 4] = d.val /\ Len(v.data) = n + 4
      BY <1>2, <1>8, <2>2
    <2>5. /\ v.size = buf.size + a.len + b.len + c.len + d.len
          /\ v.capacity = buf.capacity
      BY <1>8, <2>2
    <2>6. /\ v.data[n + 1] = a.val /\ v.data[n + 2] = b.val /\ v.data[n + 3] = c.val
          /\ \A i \in 1 .. n : v.data[i] = buf.data[i]
      BY <1>2, <1>8, <2>3
    <2> QED BY <2>2, <2>4, <2>5, <2>6
  <1>11. WriteAll(buf, <<a, b, c, d>>) = v
    BY <1>3, <1>5, <1>7, <1>9, FourFields
  <1> QED BY <1>2, <1>10, <1>11 DEF RowAppended

(* What the list holds when the slots below m have been looked at. *)
RowOf(data, w, k) ==
    LET i == Nth(Connected(w), k) IN
    /\ data[4 * k] = k - 1 + (IF w.clients[i].fake THEN 128 ELSE 0)
    /\ data[4 * k + 1] = w.clients[i].name.val
    /\ data[4 * k + 2] = w.edicts[i + 1].frags

Below(w, m) == {i \in Connected(w) : i < m}

HoldsPlayers(list, w, m, longest, capacity) ==
    /\ list \in Lists
    /\ list.count = Cardinality(Below(w, m))
    /\ ~list.buf.overflowed
    /\ list.buf.capacity = capacity
    /\ list.buf.size <= 6 + list.count * (10 + longest)
    /\ Len(list.buf.data) = 3 + 4 * list.count
    /\ \A k \in 1 .. list.count : RowOf(list.buf.data, w, k)

(* The next slot, if it has a client, is the next of those that have. *)
LEMMA NextClient ==
    ASSUME NEW w, NEW slots, NEW capacity, PlayersShown(w, slots, capacity),
           NEW m \in 0 .. slots - 1
    PROVE  /\ Cardinality(Below(w, m)) \in 0 .. m
           /\ m \notin Connected(w) => Below(w, m + 1) = Below(w, m)
           /\ m \in Connected(w) =>
                 /\ Cardinality(Below(w, m + 1)) = Cardinality(Below(w, m)) + 1
                 /\ Nth(Connected(w), Cardinality(Below(w, m)) + 1) = m
  <1>0. slots \in Nat /\ DOMAIN w.clients = 0 .. slots - 1
    BY DEF PlayersShown
  <1>1. Connected(w) \subseteq 0 .. slots - 1
    BY <1>0 DEF Connected
  <1>2. IsFiniteSet(Connected(w)) /\ Connected(w) \in SUBSET Int
    <2>1. IsFiniteSet(0 .. slots - 1)
      BY <1>0, FS_Interval
    <2>2. 0 .. slots - 1 \in SUBSET Int
      OBVIOUS
    <2> QED BY <1>1, <2>1, <2>2, FS_Subset
  <1>3. IsFiniteSet(Below(w, m))
    BY <1>2, FS_Subset DEF Below
  <1>4. Cardinality(Below(w, m)) \in 0 .. m
    <2>1. Below(w, m) \subseteq 0 .. m - 1
      BY <1>0, <1>1 DEF Below
    <2>2. IsFiniteSet(0 .. m - 1) /\ Cardinality(0 .. m - 1) = m
      <3>1. 0 \in Int /\ m - 1 \in Int /\ m \in Nat
        BY <1>0
      <3>2. /\ IsFiniteSet(0 .. m - 1)
            /\ Cardinality(0 .. m - 1) = IF 0 > m - 1 THEN 0 ELSE (m - 1) - 0 + 1
        BY <3>1, FS_Interval
      <3> QED BY <3>1, <3>2
    <2>3. Cardinality(Below(w, m)) <= m
      BY <2>1, <2>2, FS_Subset
    <2> QED BY <1>0, <1>3, <2>3, FS_CardinalityType
  <1>5. ASSUME m \notin Connected(w) PROVE Below(w, m + 1) = Below(w, m)
    <2>1. \A i \in Connected(w) : i < m + 1 <=> i < m
      BY <1>0, <1>1, <1>5
    <2> QED BY <2>1 DEF Below
  <1>6. ASSUME m \in Connected(w)
        PROVE  /\ Cardinality(Below(w, m + 1)) = Cardinality(Below(w, m)) + 1
               /\ Nth(Connected(w), Cardinality(Below(w, m)) + 1) = m
    <2>1. \A i \in Connected(w) : (i < m + 1 <=> i < m \/ i = m) /\ (i < m + 1 <=> i <= m)
      BY <1>0, <1>1
    <2>2. Below(w, m + 1) = Below(w, m) \cup {m}
      BY <1>6, <2>1 DEF Below
    <2>3. m \notin Below(w, m)
      BY <1>0 DEF Below
    <2>4. Cardinality(Below(w, m + 1)) = Cardinality(Below(w, m)) + 1
      BY <1>3, <2>2, <2>3, FS_AddElement
    <2>5. Rank(Connected(w), m) = Cardinality(Below(w, m + 1))
      <3>1. {j \in Connected(w) : j <= m} = Below(w, m + 1)
        BY <2>1 DEF Below
      <3> QED BY <3>1 DEF Rank
    <2>6. Nth(Connected(w), Rank(Connected(w), m)) = m
      BY <1>2, <1>6, NthOfRank
    <2> QED BY <2>4, <2>5, <2>6
  <1> QED BY <1>4, <1>5, <1>6

(* One turn of the loop. *)
LEMMA PlayerAdded ==
    ASSUME NEW w, NEW slots, NEW capacity, PlayersShown(w, slots, capacity),
           NEW longest \in Nat,
           \A i \in 0 .. slots - 1 : w.clients[i].name.len <= longest,
           6 + slots * (10 + longest) <= capacity,
           NEW m \in 0 .. slots - 1, NEW list,
           HoldsPlayers(list, w, m, longest, capacity)
    PROVE  HoldsPlayers(AddPlayer(list, w, m), w, m + 1, longest, capacity)
  <1>0. slots \in 1 .. 128 /\ m \in Nat /\ m < slots /\ capacity \in Nat
    BY DEF PlayersShown
  <1>1. /\ Cardinality(Below(w, m)) \in 0 .. m
        /\ m \notin Connected(w) => Below(w, m + 1) = Below(w, m)
        /\ m \in Connected(w) =>
              /\ Cardinality(Below(w, m + 1)) = Cardinality(Below(w, m)) + 1
              /\ Nth(Connected(w), Cardinality(Below(w, m)) + 1) = m
    BY NextClient
  <1>2. DOMAIN w.clients = 0 .. slots - 1
    BY DEF PlayersShown
  <1>3. m \in Connected(w) <=> w.clients[m].connected
    BY <1>2 DEF Connected
  <1>4. CASE m \notin Connected(w)
    <2>1. AddPlayer(list, w, m) = list
      BY <1>3, <1>4 DEF AddPlayer
    <2> QED BY <1>1, <1>4, <2>1 DEF HoldsPlayers
  <1>5. CASE m \in Connected(w)
    <2>1. PICK c \in 0 .. m : c = list.count /\ c = Cardinality(Below(w, m))
      BY <1>1 DEF HoldsPlayers
    <2>2. PICK buf \in Buffers : buf = list.buf
      BY DEF HoldsPlayers, Lists
    <2> DEFINE bot == IF w.clients[m].fake THEN 128 ELSE 0
               name == w.clients[m].name
               f1 == Byte(c + bot)  f2 == Str(name)
               f3 == Long(w.edicts[m + 1].frags)  f4 == Other(4)
    <2>3. /\ f1 \in Fields /\ f2 \in Fields /\ f3 \in Fields /\ f4 \in Fields
          /\ name.len \in Nat
      BY <1>0, <2>1, RowType
    <2>4. /\ f1.len = 1 /\ f2.len = name.len + 1 /\ f3.len = 4 /\ f4.len = 4
          /\ f1.val = (c + bot) % 256 /\ f2.val = name.val
          /\ f3.val = w.edicts[m + 1].frags
      BY DEF Byte, Str, Long, Other, Field
    <2>5. f1.val = c + bot
      <3>1. c + bot \in 0 .. 255
        <4>1. c \in 0 .. 127
          <5>1. c \in Nat /\ c <= m
            BY <1>0, <2>1
          <5>2. slots <= 128 /\ slots \in Nat
            BY <1>0
          <5> QED BY <1>0, <5>1, <5>2
        <4>2. bot = 0 \/ bot = 128
          OBVIOUS
        <4> HIDE DEF bot
        <4> QED BY <4>1, <4>2
      <3>2. \A x \in 0 .. 255 : x % 256 = x
        OBVIOUS
      <3> QED BY <2>4, <3>1, <3>2
    <2>6. PICK new : new = WriteAll(buf, <<f1, f2, f3, f4>>)
      OBVIOUS
    <2>7. AddPlayer(list, w, m) = [buf |-> new, count |-> c + 1]
      BY <1>3, <1>5, <2>1, <2>2, <2>6 DEF AddPlayer, Row
    <2> HIDE DEF f1, f2, f3, f4, name, bot
    <2>8. /\ buf.size + f1.len + f2.len + f3.len + f4.len <= 6 + (c + 1) * (10 + longest)
          /\ 6 + (c + 1) * (10 + longest) <= capacity
      <3>1. PICK row \in Nat : row = 10 + longest
        OBVIOUS
      <3>2. (c + 1) * row = c * row + row
        BY <2>1, <3>1
      <3>3. (c + 1) * row <= slots * row
        <4>1. \A x, y, r \in Nat : x <= y => x * r <= y * r
          OBVIOUS
        <4>2. c + 1 \in Nat /\ slots \in Nat /\ c + 1 <= slots
          BY <1>0, <2>1
        <4> QED BY <3>1, <4>1, <4>2
      <3>4. buf.size <= 6 + c * row
        BY <2>1, <2>2, <3>1 DEF HoldsPlayers
      <3>5. f1.len + f2.len + f3.len + f4.len <= row
        BY <2>3, <2>4, <3>1 DEF name
      <3>6. buf.size \in Nat /\ c * row \in Nat /\ slots * row \in Nat
        BY <1>0, <2>1, <2>2, <3>1 DEF Buffers
      <3>7. f1.len \in Nat /\ f2.len \in Nat /\ f3.len \in Nat /\ f4.len \in Nat
        BY <2>3, <2>4
      <3>8. (c + 1) * row \in Nat /\ 6 + slots * row <= capacity
        BY <2>1, <3>1
      <3>9. buf.size + f1.len + f2.len + f3.len + f4.len <= 6 + (c + 1) * row
        BY <3>2, <3>4, <3>5, <3>6, <3>7, <3>8
      <3>10. 6 + (c + 1) * row <= capacity
        BY <1>0, <3>3, <3>6, <3>8
      <3> QED BY <3>1, <3>9, <3>10
    <2>9. ~buf.overflowed /\ buf.capacity = capacity /\ Len(buf.data) = 3 + 4 * c
          /\ \A k \in 1 .. c : RowOf(buf.data, w, k)
      BY <2>1, <2>2 DEF HoldsPlayers
    <2>10. PICK n \in Nat : n = Len(buf.data) /\ n = 3 + 4 * c
      BY <2>1, <2>9
    <2>11. buf.size + f1.len + f2.len + f3.len + f4.len <= capacity
      <3>1. buf.size + f1.len + f2.len + f3.len + f4.len \in Int
        <4>1. /\ buf.size \in Int /\ f1.len \in Int /\ f2.len \in Int /\ f3.len \in Int
              /\ f4.len \in Int
          BY <2>2, <2>3 DEF Buffers, Fields
        <4> QED BY <4>1
      <3>2. 6 + (c + 1) * (10 + longest) \in Int
        BY <2>1
      <3> HIDE DEF HoldsPlayers
      <3> QED BY <1>0, <2>8, <3>1, <3>2
    <2>12. /\ new \in Buffers /\ ~new.overflowed /\ new.capacity = capacity
           /\ new.size = buf.size + f1.len + f2.len + f3.len + f4.len
           /\ Len(new.data) = n + 4
           /\ \A i \in 1 .. n : new.data[i] = buf.data[i]
           /\ new.data[n + 1] = f1.val /\ new.data[n + 2] = f2.val
           /\ new.data[n + 3] = f3.val
      <3>1. buf.size + f1.len + f2.len + f3.len + f4.len <= buf.capacity
        BY <2>9, <2>11
      <3>2. /\ new \in Buffers /\ ~new.overflowed /\ new.capacity = buf.capacity
            /\ new.size = buf.size + f1.len + f2.len + f3.len + f4.len
            /\ Len(new.data) = Len(buf.data) + 4
            /\ \A i \in 1 .. Len(buf.data) : new.data[i] = buf.data[i]
            /\ new.data[Len(buf.data) + 1] = f1.val
            /\ new.data[Len(buf.data) + 2] = f2.val
            /\ new.data[Len(buf.data) + 3] = f3.val
        <4>1. RowAppended(buf, WriteAll(buf, <<f1, f2, f3, f4>>), f1, f2, f3, f4)
          BY <2>3, <2>9, <3>1, RowWritten
        <4> QED BY <2>6, <4>1 DEF RowAppended
      <3> QED BY <2>9, <2>10, <3>2
    <2>13. \A k \in 1 .. c : RowOf(new.data, w, k)
      <3> SUFFICES ASSUME NEW k \in 1 .. c PROVE RowOf(new.data, w, k)
        OBVIOUS
      <3>1. 4 * k \in 1 .. n /\ 4 * k + 1 \in 1 .. n /\ 4 * k + 2 \in 1 .. n
        BY <2>1, <2>10
      <3>2. /\ new.data[4 * k] = buf.data[4 * k]
            /\ new.data[4 * k + 1] = buf.data[4 * k + 1]
            /\ new.data[4 * k + 2] = buf.data[4 * k + 2]
        BY <2>12, <3>1
      <3> QED BY <2>9, <3>2 DEF RowOf
    <2>14. RowOf(new.data, w, c + 1)
      <3>1. n + 1 = 4 * (c + 1) /\ n + 2 = 4 * (c + 1) + 1 /\ n + 3 = 4 * (c + 1) + 2
        BY <2>1, <2>10
      <3>2. Nth(Connected(w), c + 1) = m
        BY <1>1, <1>5, <2>1
      <3>3. (c + 1) - 1 = c
        BY <2>1
      <3>4. /\ new.data[4 * (c + 1)] = c + bot /\ new.data[4 * (c + 1) + 1] = name.val
            /\ new.data[4 * (c + 1) + 2] = w.edicts[m + 1].frags
        <4>1. new.data[n + 1] = c + bot /\ new.data[n + 2] = name.val
              /\ new.data[n + 3] = w.edicts[m + 1].frags
          BY <2>4, <2>5, <2>12
        <4> QED BY <3>1, <4>1
      <3> QED BY <3>2, <3>3, <3>4 DEF RowOf, bot, name
    <2>15. \A k \in 1 .. c + 1 : RowOf(new.data, w, k)
      <3>1. \A k \in 1 .. c + 1 : k \in 1 .. c \/ k = c + 1
        BY <2>1
      <3> QED BY <2>13, <2>14, <3>1
    <2>16. /\ new.size <= 6 + (c + 1) * (10 + longest)
           /\ Len(new.data) = 3 + 4 * (c + 1)
           /\ c + 1 \in Nat
      <3>1. new.size <= 6 + (c + 1) * (10 + longest)
        BY <2>8, <2>12
      <3>2. Len(new.data) = 3 + 4 * (c + 1)
        BY <2>1, <2>10, <2>12
      <3>3. c + 1 \in Nat
        BY <2>1
      <3> QED BY <3>1, <3>2, <3>3
    <2> QED
      BY <1>1, <1>5, <2>1, <2>7, <2>12, <2>15, <2>16 DEF HoldsPlayers, Lists
  <1> QED BY <1>4, <1>5

(* What a client reads of the list of players. *)
LEMMA PlayersAreRead ==
    ASSUME NEW w, NEW slots, NEW capacity, PlayersShown(w, slots, capacity)
    PROVE  PlayersRead(PlayersList(w, capacity).data) = PlayersInOrder(w)
  <1> DEFINE header == WriteAll(Empty(capacity), <<Other(4), Byte(68), Byte(0)>>)
  <1>0. slots \in 1 .. 128 /\ capacity \in Nat
    BY DEF PlayersShown
  <1>1. PICK longest \in Nat :
            /\ \A i \in 0 .. slots - 1 : w.clients[i].name.len <= longest
            /\ 6 + slots * (10 + longest) <= capacity
    BY DEF PlayersShown
  <1>2. PICK after \in [0 .. slots -> Lists] :
              /\ after[0] = Counting(header)
              /\ \A k \in 1 .. slots : after[k] = AddPlayer(after[k - 1], w, k - 1)
              /\ PlayersList(w, capacity) = Counted(after[slots], 256)
              /\ header \in Buffers /\ ~header.overflowed
              /\ header.capacity = capacity /\ header.size = 6 /\ Len(header.data) = 3
    BY PlayersLoop
  <1> HIDE DEF header
  <1>3. Connected(w) \subseteq 0 .. slots - 1
    BY DEF Connected, PlayersShown
  <1>4. HoldsPlayers(after[0], w, 0, longest, capacity)
    <2>1. Below(w, 0) = {}
      BY <1>0, <1>3 DEF Below
    <2>2. Cardinality(Below(w, 0)) = 0
      BY <2>1, FS_EmptySet
    <2>3. after[0].count = 0 /\ after[0].buf = header
      BY <1>2 DEF Counting
    <2>4. after[0] \in Lists
      BY <1>0, <1>2
    <2>5. header.size <= 6 + 0 * (10 + longest)
      BY <1>2
    <2> QED BY <1>2, <2>2, <2>3, <2>4, <2>5 DEF HoldsPlayers
  <1>5. \A m \in 0 .. slots : HoldsPlayers(after[m], w, m, longest, capacity)
    <2> DEFINE Not == {m \in 0 .. slots : ~HoldsPlayers(after[m], w, m, longest, capacity)}
    <2> SUFFICES ASSUME Not # {} PROVE FALSE
      OBVIOUS
    <2>1. PICK m \in Not : \A y \in Not : m <= y
      <3>1. Not \in SUBSET Nat
        BY <1>0
      <3> HIDE DEF Not
      <3> QED BY <3>1, SmallestNumber
    <2>2. m # 0
      BY <1>4
    <2>3. m \in 1 .. slots /\ m - 1 \in 0 .. slots - 1 /\ m - 1 \in 0 .. slots /\ m - 1 + 1 = m
      BY <1>0, <2>2
    <2>4. HoldsPlayers(after[m - 1], w, m - 1, longest, capacity)
      BY <2>1, <2>3
    <2>5. HoldsPlayers(AddPlayer(after[m - 1], w, m - 1), w, m - 1 + 1, longest, capacity)
      BY <1>1, <2>3, <2>4, PlayerAdded
    <2>6. HoldsPlayers(after[m], w, m, longest, capacity)
      BY <1>2, <2>3, <2>5
    <2> QED BY <2>6
  <1>6. PICK list : list = after[slots] /\ HoldsPlayers(list, w, slots, longest, capacity)
    BY <1>0, <1>5
  <1>7. Below(w, slots) = Connected(w)
    BY <1>0, <1>3 DEF Below
  <1>8. Cardinality(Connected(w)) \in 0 .. slots
    <2>1. IsFiniteSet(0 .. slots - 1) /\ Cardinality(0 .. slots - 1) = slots
      <3>1. 0 \in Int /\ slots - 1 \in Int /\ slots \in Nat /\ slots >= 1
        BY <1>0
      <3>2. /\ IsFiniteSet(0 .. slots - 1)
            /\ Cardinality(0 .. slots - 1) = IF 0 > slots - 1 THEN 0 ELSE (slots - 1) - 0 + 1
        BY <3>1, FS_Interval
      <3> QED BY <3>1, <3>2
    <2> QED BY <1>0, <1>3, <2>1, FS_Subset, FS_CardinalityType
  <1>9. PICK c \in Nat : c <= 128 /\ c = Cardinality(Connected(w)) /\ c = list.count
    <2>1. list.count = Cardinality(Connected(w))
      BY <1>6, <1>7 DEF HoldsPlayers
    <2>2. \A x \in 0 .. slots : x \in Nat /\ x <= 128
      BY <1>0
    <2> QED BY <1>8, <2>1, <2>2
  <1>10. PICK d : d = list.buf.data
    OBVIOUS
  <1>11. /\ d \in Seq(Values) /\ Len(d) = 3 + 4 * c
         /\ \A k \in 1 .. c : RowOf(d, w, k)
         /\ list.buf \in Buffers
    BY <1>6, <1>9, <1>10 DEF HoldsPlayers, Lists, Buffers
  <1>12. PICK e : e = PlayersList(w, capacity).data
    OBVIOUS
  <1>13. e = [d EXCEPT ![3] = c]
    <2>1. PlayersList(w, capacity) = [list.buf EXCEPT !.data[3] = list.count % 256]
      BY <1>2, <1>6 DEF Counted
    <2>2. list.count % 256 = c
      <3>1. \A x \in 0 .. 128 : x % 256 = x
        OBVIOUS
      <3> QED BY <1>9, <3>1
    <2>3. DOMAIN list.buf = {"size", "data", "capacity", "overflowed"}
      BY <1>11 DEF Buffers
    <2> QED BY <1>10, <1>12, <2>1, <2>2, <2>3
  <1>14. /\ e[3] = c
         /\ Len(e) = 3 + 4 * c
         /\ \A i \in 4 .. 3 + 4 * c : e[i] = d[i]
    BY <1>9, <1>11, <1>13
  <1>15. \A n \in 1 .. c :
            LET i == Nth(Connected(w), n)
                row == SubSeq(e, 4 * n, 4 * n + 3)
            IN  /\ row[1] % 128 = n - 1
                /\ (row[1] >= 128) = w.clients[i].fake
                /\ row[2] = w.clients[i].name.val
                /\ row[3] = w.edicts[i + 1].frags
    <2> SUFFICES ASSUME NEW n \in 1 .. c
                 PROVE  LET i == Nth(Connected(w), n)
                            row == SubSeq(e, 4 * n, 4 * n + 3)
                        IN  /\ row[1] % 128 = n - 1
                            /\ (row[1] >= 128) = w.clients[i].fake
                            /\ row[2] = w.clients[i].name.val
                            /\ row[3] = w.edicts[i + 1].frags
      OBVIOUS
    <2>1. PICK i \in Connected(w) : i = Nth(Connected(w), n)
      <3>1. IsFiniteSet(Connected(w)) /\ Connected(w) \in SUBSET Int
        <4>1. IsFiniteSet(0 .. slots - 1)
          BY <1>0, FS_Interval
        <4>2. 0 .. slots - 1 \in SUBSET Int
          OBVIOUS
        <4> QED BY <1>3, <4>1, <4>2, FS_Subset
      <3> QED BY <1>9, <3>1, NthRank
    <2>2. w.clients[i].fake \in BOOLEAN
      BY <1>3, <2>1 DEF PlayersShown, Clients
    <2>3. PICK row : row = SubSeq(e, 4 * n, 4 * n + 3)
      OBVIOUS
    <2>4. row[1] = e[4 * n] /\ row[2] = e[4 * n + 1] /\ row[3] = e[4 * n + 2]
      <3>1. row = [j \in 1 .. 4 |-> e[4 * n + j - 1]]
        BY <1>9, <2>3 DEF SubSeq
      <3>2. 4 * n + 1 - 1 = 4 * n /\ 4 * n + 2 - 1 = 4 * n + 1 /\ 4 * n + 3 - 1 = 4 * n + 2
        BY <1>9
      <3> QED BY <3>1, <3>2
    <2>5. /\ e[4 * n] = d[4 * n] /\ e[4 * n + 1] = d[4 * n + 1]
          /\ e[4 * n + 2] = d[4 * n + 2]
      <3>1. c \in Nat
        BY <1>9
      <3>2. /\ 4 * n \in 4 .. 3 + 4 * c /\ 4 * n + 1 \in 4 .. 3 + 4 * c
            /\ 4 * n + 2 \in 4 .. 3 + 4 * c
        BY <3>1
      <3> QED BY <1>14, <3>2
    <2>6. /\ row[1] = n - 1 + (IF w.clients[i].fake THEN 128 ELSE 0)
          /\ row[2] = w.clients[i].name.val
          /\ row[3] = w.edicts[i + 1].frags
      BY <1>11, <2>1, <2>4, <2>5 DEF RowOf
    <2>7. n - 1 \in 0 .. 127
      <3>1. c \in Nat /\ c <= 128
        BY <1>9
      <3> QED BY <3>1
    <2>8. row[1] % 128 = n - 1
      <3>1. \A x \in 0 .. 127 : x % 128 = x /\ (x + 128) % 128 = x
        OBVIOUS
      <3>2. CASE w.clients[i].fake
        BY <2>6, <2>7, <3>1, <3>2
      <3>3. CASE ~w.clients[i].fake
        BY <2>6, <2>7, <3>1, <3>3
      <3> QED BY <3>2, <3>3
    <2>9. row[1] >= 128 <=> w.clients[i].fake
      BY <2>6, <2>7
    <2>10. (row[1] >= 128) = w.clients[i].fake
      BY <2>2, <2>9
    <2> QED BY <2>1, <2>3, <2>6, <2>8, <2>10
  <1> DEFINE Read(n) ==
               LET row == SubSeq(e, 4 * n, 4 * n + 3) IN
               [index |-> row[1] % 128, bot |-> row[1] >= 128, name |-> row[2], frags |-> row[3]]
             InOrder(n) ==
               LET i == Nth(Connected(w), n) IN
               [index |-> n - 1, bot |-> w.clients[i].fake, name |-> w.clients[i].name.val,
                frags |-> w.edicts[i + 1].frags]
  <1>16. \A n \in 1 .. c : Read(n) = InOrder(n)
    BY <1>15
  <1>17. PlayersRead(e) = [n \in 1 .. c |-> Read(n)]
    BY <1>14 DEF PlayersRead
  <1>18. PlayersInOrder(w) = [n \in 1 .. c |-> InOrder(n)]
    BY <1>9 DEF PlayersInOrder
  <1> HIDE DEF Read, InOrder
  <1> QED
    BY <1>12, <1>16, <1>17, <1>18

-----------------------------------------------------------------------------
(* The list of rules. *)

(* What was in the buffer stays in it. *)
Extends(buf, new) ==
    /\ new \in Buffers
    /\ new.capacity = buf.capacity
    /\ Len(new.data) >= Len(buf.data)
    /\ \A i \in 1 .. Len(buf.data) : new.data[i] = buf.data[i]

(* The parts of a buffer. *)
LEMMA LenType ==
    ASSUME NEW buf \in Buffers
    PROVE  Len(buf.data) \in Nat /\ buf.size \in Nat /\ buf.capacity \in Nat
           /\ buf.data \in Seq(Values) /\ buf.overflowed \in BOOLEAN
  BY DEF Buffers

(* ... whatever is written ... *)
LEMMA WriteExtends ==
    ASSUME NEW buf \in Buffers, NEW field \in Fields
    PROVE  Extends(buf, Write(buf, field))
  <1>1. Len(buf.data) \in Nat
    BY LenType
  <1>2. CASE ~buf.overflowed /\ buf.size + field.len <= buf.capacity
    BY <1>1, <1>2, WriteFits DEF Extends
  <1>3. CASE buf.overflowed \/ ~(buf.size + field.len <= buf.capacity)
    <2>1. buf.overflowed \/ buf.size + field.len > buf.capacity
      BY <1>3, LenType DEF Fields
    <2>2. Write(buf, field) \in Buffers /\ Write(buf, field).capacity = buf.capacity
          /\ Write(buf, field).data = buf.data
      BY <2>1, WriteFails
    <2> QED BY <1>1, <2>2 DEF Extends
  <1> QED BY <1>2, <1>3

(* ... however often. *)
LEMMA ExtendsTwice ==
    ASSUME NEW a \in Buffers, NEW b, NEW c, Extends(a, b), Extends(b, c)
    PROVE  Extends(a, c)
  <1>1. Len(a.data) \in Nat /\ Len(b.data) \in Nat /\ Len(c.data) \in Nat
    BY LenType DEF Extends
  <1>2. \A i \in 1 .. Len(a.data) : c.data[i] = a.data[i]
    <2>1. \A i \in 1 .. Len(a.data) : i \in 1 .. Len(b.data)
      BY <1>1 DEF Extends
    <2> QED BY <2>1 DEF Extends
  <1>3. Len(c.data) >= Len(a.data)
    BY <1>1 DEF Extends
  <1> QED BY <1>2, <1>3 DEF Extends

(* What becomes of a buffer that has not overflowed when a field is written. *)
FieldTried(buf, new, field) ==
    /\ Extends(buf, new)
    /\ new.overflowed <=> buf.overflowed \/ buf.size + field.len > buf.capacity
    /\ ~new.overflowed =>
          /\ new.size = buf.size + field.len
          /\ Len(new.data) = Len(buf.data) + 1
          /\ new.data[Len(buf.data) + 1] = field.val

(* It holds of Write. *)
LEMMA TryField ==
    ASSUME NEW buf \in Buffers, NEW field \in Fields
    PROVE  FieldTried(buf, Write(buf, field), field)
  <1>1. buf.size + field.len \in Int /\ buf.capacity \in Int
    BY LenType DEF Fields
  <1>2. CASE ~buf.overflowed /\ buf.size + field.len <= buf.capacity
    <2>1. ~Write(buf, field).overflowed
          /\ Write(buf, field).size = buf.size + field.len
          /\ Len(Write(buf, field).data) = Len(buf.data) + 1
          /\ Write(buf, field).data[Len(buf.data) + 1] = field.val
      BY <1>2, WriteFits
    <2>2. ~(buf.overflowed \/ buf.size + field.len > buf.capacity)
      BY <1>1, <1>2
    <2> QED BY <2>1, <2>2, WriteExtends DEF FieldTried
  <1>3. CASE ~(~buf.overflowed /\ buf.size + field.len <= buf.capacity)
    <2>1. buf.overflowed \/ buf.size + field.len > buf.capacity
      BY <1>1, <1>3
    <2>2. Write(buf, field).overflowed
      BY <2>1, WriteFails
    <2> QED BY <2>1, <2>2, WriteExtends DEF FieldTried
  <1> QED BY <1>2, <1>3

(* The same for the fields of a rule: their number, their bytes, their values. *)
Width(cvar) == IF cvar.protected THEN 3 ELSE 2
Weight(cvar) == cvar.name.len + 1 + (IF cvar.protected THEN 2 ELSE cvar.string.len + 1)

RuleTried(buf, new, cvar) ==
    /\ Extends(buf, new)
    /\ new.overflowed <=> buf.size + Weight(cvar) > buf.capacity
    /\ ~new.overflowed =>
          /\ new.size = buf.size + Weight(cvar)
          /\ Len(new.data) = Len(buf.data) + Width(cvar)
          /\ IsRule(new.data, Len(buf.data) + 1, cvar)

(* A cvar makes a rule of fields. *)
LEMMA CvarType ==
    ASSUME NEW cvar \in Cvars
    PROVE  /\ cvar.name.len \in Nat /\ cvar.string.len \in Nat
           /\ cvar.name.val \in Values /\ cvar.string.val \in Values
           /\ cvar.protected \in BOOLEAN /\ cvar.server \in BOOLEAN
           /\ Weight(cvar) \in Nat /\ Weight(cvar) >= 2
           /\ Width(cvar) \in {2, 3}
           /\ Str(cvar.name) \in Fields /\ Str(cvar.string) \in Fields
  <1>1. /\ cvar.name \in Texts /\ cvar.string \in Texts
        /\ cvar.protected \in BOOLEAN /\ cvar.server \in BOOLEAN
    BY DEF Cvars
  <1>2. /\ cvar.name.len \in Nat /\ cvar.string.len \in Nat
        /\ cvar.name.val \in STRING /\ cvar.string.val \in STRING
    BY <1>1 DEF Texts
  <1>3. cvar.name.val \in Values /\ cvar.string.val \in Values
    BY <1>2, Zenon DEF Values
  <1>4. Weight(cvar) \in Nat /\ Weight(cvar) >= 2 /\ Width(cvar) \in {2, 3}
    BY <1>2 DEF Weight, Width
  <1>5. Str(cvar.name) \in Fields /\ Str(cvar.string) \in Fields
    <2>1. cvar.name.len + 1 \in Nat /\ cvar.string.len + 1 \in Nat
      BY <1>2
    <2> QED BY <1>3, <2>1 DEF Str, Field, Fields
  <1> QED BY <1>1, <1>2, <1>3, <1>4, <1>5

(* The two parts of a rule put together. *)
LEMMA Joined ==
    ASSUME NEW S, NEW a \in S, NEW b \in S, NEW c \in S
    PROVE  <<a>> \o <<b>> = <<a, b>> /\ <<a>> \o <<b, c>> = <<a, b, c>>
  <1>1. <<a>> \in Seq(S) /\ <<b>> \in Seq(S) /\ <<b, c>> \in Seq(S)
    OBVIOUS
  <1>2. <<a>> \o <<b>> = <<a, b>>
    <2> DEFINE s == <<a>> \o <<b>>
               t == <<a, b>>
    <2>1. s \in Seq(S) /\ Len(s) = 2 /\ s[1] = a /\ s[2] = b
      BY <1>1
    <2>2. t \in Seq(S) /\ Len(t) = 2 /\ t[1] = a /\ t[2] = b
      OBVIOUS
    <2> HIDE DEF s, t
    <2>3. \A i \in 1 .. 2 : i = 1 \/ i = 2
      OBVIOUS
    <2>4. s = t
      BY <2>1, <2>2, <2>3, SeqEqual
    <2> QED BY <2>4 DEF s, t
  <1>3. <<a>> \o <<b, c>> = <<a, b, c>>
    <2> DEFINE s == <<a>> \o <<b, c>>
               t == <<a, b, c>>
    <2>1. s \in Seq(S) /\ Len(s) = 3 /\ s[1] = a /\ s[2] = b /\ s[3] = c
      BY <1>1
    <2>2. t \in Seq(S) /\ Len(t) = 3 /\ t[1] = a /\ t[2] = b /\ t[3] = c
      OBVIOUS
    <2> HIDE DEF s, t
    <2>3. \A i \in 1 .. 3 : i = 1 \/ i = 2 \/ i = 3
      OBVIOUS
    <2>4. s = t
      BY <2>1, <2>2, <2>3, SeqEqual
    <2> QED BY <2>4 DEF s, t
  <1> QED BY <1>2, <1>3

(* A rule that shows its value is two fields ... *)
LEMMA TryOpenRule ==
    ASSUME NEW buf \in Buffers, ~buf.overflowed, NEW cvar \in Cvars, ~cvar.protected
    PROVE  RuleTried(buf, WriteAll(buf, Rule(cvar)), cvar)
  <1>1. PICK a \in Fields : a = Str(cvar.name)
    BY CvarType
  <1>2. PICK b \in Fields : b = Str(cvar.string)
    BY CvarType
  <1>3. Rule(cvar) = <<a, b>>
    <2>1. Rule(cvar) = <<a>> \o <<b>>
      BY <1>1, <1>2 DEF Rule
    <2>2. <<a>> \o <<b>> = <<a, b>>
      BY Joined
    <2> QED BY <2>1, <2>2
  <1>4. /\ a.len = cvar.name.len + 1 /\ a.val = cvar.name.val
        /\ b.len = cvar.string.len + 1 /\ b.val = cvar.string.val
    BY <1>1, <1>2 DEF Str, Field
  <1>5. /\ cvar.name.len \in Nat /\ cvar.string.len \in Nat
        /\ a.len \in Nat /\ b.len \in Nat
    BY <1>4, CvarType
  <1>6. Weight(cvar) = a.len + b.len /\ Width(cvar) = 2
    BY <1>4, <1>5 DEF Weight, Width
  <1>7. PICK x : x = Write(buf, a)
    OBVIOUS
  <1>8. FieldTried(buf, x, a)
    BY <1>7, TryField
  <1>9. x \in Buffers /\ x.capacity = buf.capacity
    BY <1>8 DEF FieldTried, Extends
  <1>10. PICK y : y = Write(x, b)
    OBVIOUS
  <1>11. FieldTried(x, y, b)
    BY <1>9, <1>10, TryField
  <1>12. WriteAll(buf, Rule(cvar)) = y
    BY <1>3, <1>7, <1>10, TwoFields
  <1>13. Extends(buf, y) /\ y \in Buffers
    BY <1>8, <1>11, ExtendsTwice DEF FieldTried, Extends
  <1>14. /\ buf.size \in Nat /\ buf.capacity \in Nat /\ Len(buf.data) \in Nat
         /\ x.size \in Nat /\ Len(x.data) \in Nat
         /\ y.size \in Nat /\ Len(y.data) \in Nat
    BY <1>9, <1>13, LenType
  <1>15. y.overflowed <=> buf.size + Weight(cvar) > buf.capacity
    <2>1. CASE buf.size + a.len > buf.capacity
      <3>1. x.overflowed /\ y.overflowed
        BY <1>8, <1>11, <2>1 DEF FieldTried
      <3>2. buf.size + Weight(cvar) > buf.capacity
        BY <1>5, <1>6, <1>14, <2>1
      <3> QED BY <3>1, <3>2
    <2>2. CASE ~(buf.size + a.len > buf.capacity)
      <3>1. ~x.overflowed /\ x.size = buf.size + a.len
        BY <1>8, <2>2 DEF FieldTried
      <3>2. y.overflowed <=> x.size + b.len > buf.capacity
        BY <1>9, <1>11, <3>1 DEF FieldTried
      <3>3. x.size + b.len = buf.size + Weight(cvar)
        <4>1. x.size + b.len = (buf.size + a.len) + b.len
          BY <3>1
        <4>2. (buf.size + a.len) + b.len = buf.size + (a.len + b.len)
          BY <1>5, <1>14
        <4> QED BY <1>6, <4>1, <4>2
      <3> QED BY <3>2, <3>3
    <2> QED BY <2>1, <2>2
  <1>16. ASSUME ~y.overflowed
         PROVE  /\ y.size = buf.size + Weight(cvar)
                /\ Len(y.data) = Len(buf.data) + Width(cvar)
                /\ IsRule(y.data, Len(buf.data) + 1, cvar)
    <2>1. ~x.overflowed
      BY <1>11, <1>16 DEF FieldTried
    <2>2. PICK n \in Nat : n = Len(buf.data)
      BY <1>14
    <2>3. x.size = buf.size + a.len /\ Len(x.data) = n + 1 /\ x.data[n + 1] = a.val
      BY <1>8, <2>1, <2>2 DEF FieldTried
    <2>4. y.size = x.size + b.len /\ Len(y.data) = Len(x.data) + 1
          /\ y.data[Len(x.data) + 1] = b.val
      BY <1>11, <1>16 DEF FieldTried
    <2>5. Len(x.data) + 1 = n + 2 /\ n + 1 \in 1 .. Len(x.data) /\ (n + 1) + 1 = n + 2
      BY <2>2, <2>3
    <2>6. y.data[n + 1] = a.val
      BY <1>11, <2>3, <2>5 DEF FieldTried, Extends
    <2>7. y.size = buf.size + Weight(cvar)
      BY <1>5, <1>6, <1>14, <2>3, <2>4
    <2>8. Len(y.data) = n + 2 /\ y.data[n + 2] = b.val
      BY <2>3, <2>4, <2>5
    <2>9. IsRule(y.data, n + 1, cvar)
      BY <1>4, <2>5, <2>6, <2>8 DEF IsRule
    <2> QED BY <1>6, <2>2, <2>7, <2>8, <2>9
  <1> QED BY <1>12, <1>13, <1>15, <1>16 DEF RuleTried

(* ... and one that does not is three. *)
LEMMA TryProtectedRule ==
    ASSUME NEW buf \in Buffers, ~buf.overflowed, NEW cvar \in Cvars, cvar.protected
    PROVE  RuleTried(buf, WriteAll(buf, Rule(cvar)), cvar)
  <1> DEFINE set == IF cvar.string.val \in {"", "none"} THEN "0" ELSE "1"
  <1>1. PICK a \in Fields : a = Str(cvar.name)
    BY CvarType
  <1>2. PICK b \in Fields : b = Field(1, set)
    <2>1. set \in Values
      BY DEF Values
    <2> HIDE DEF set
    <2> QED BY <2>1 DEF Field, Fields
  <1>3. PICK c \in Fields : c = Field(1, "")
    BY DEF Field, Fields, Values
  <1>4. Rule(cvar) = <<a, b, c>>
    <2>1. Rule(cvar) = <<a>> \o <<b, c>>
      BY <1>1, <1>2, <1>3 DEF Rule
    <2>2. <<a>> \o <<b, c>> = <<a, b, c>>
      BY Joined
    <2> QED BY <2>1, <2>2
  <1>5. /\ a.len = cvar.name.len + 1 /\ a.val = cvar.name.val
        /\ b.len = 1 /\ b.val = set /\ c.len = 1 /\ c.val = ""
    BY <1>1, <1>2, <1>3 DEF Str, Field
  <1> HIDE DEF set
  <1>6. cvar.name.len \in Nat /\ a.len \in Nat
    <2>1. cvar.name.len \in Nat
      BY CvarType
    <2> QED BY <2>1 DEF Fields
  <1>7. Weight(cvar) = a.len + 2 /\ Width(cvar) = 3
    BY <1>5, <1>6 DEF Weight, Width
  <1>8. PICK x : x = Write(buf, a)
    OBVIOUS
  <1>9. FieldTried(buf, x, a)
    BY <1>8, TryField
  <1>10. x \in Buffers /\ x.capacity = buf.capacity
    BY <1>9 DEF FieldTried, Extends
  <1>11. PICK y : y = Write(x, b)
    OBVIOUS
  <1>12. FieldTried(x, y, b)
    BY <1>10, <1>11, TryField
  <1>13. y \in Buffers /\ y.capacity = buf.capacity
    BY <1>10, <1>12 DEF FieldTried, Extends
  <1>14. PICK z : z = Write(y, c)
    OBVIOUS
  <1>15. FieldTried(y, z, c)
    BY <1>13, <1>14, TryField
  <1>16. WriteAll(buf, Rule(cvar)) = z
    BY <1>4, <1>8, <1>11, <1>14, ThreeFields
  <1>17. Extends(buf, z) /\ z \in Buffers
    <2>1. Extends(buf, y)
      BY <1>9, <1>12, ExtendsTwice DEF FieldTried
    <2> QED BY <1>15, <2>1, ExtendsTwice DEF FieldTried, Extends
  <1>18. /\ buf.size \in Nat /\ buf.capacity \in Nat /\ Len(buf.data) \in Nat
         /\ x.size \in Nat /\ Len(x.data) \in Nat
         /\ y.size \in Nat /\ Len(y.data) \in Nat
         /\ z.size \in Nat /\ Len(z.data) \in Nat
    BY <1>10, <1>13, <1>17, LenType
  <1>19. z.overflowed <=> buf.size + Weight(cvar) > buf.capacity
    <2>1. CASE buf.size + a.len > buf.capacity
      <3>1. x.overflowed
        BY <1>9, <2>1 DEF FieldTried
      <3>2. y.overflowed
        BY <1>12, <3>1 DEF FieldTried
      <3>3. z.overflowed
        BY <1>15, <3>2 DEF FieldTried
      <3>4. buf.size + Weight(cvar) > buf.capacity
        BY <1>6, <1>7, <1>18, <2>1
      <3> QED BY <3>3, <3>4
    <2>2. CASE ~(buf.size + a.len > buf.capacity)
      <3>1. ~x.overflowed /\ x.size = buf.size + a.len
        BY <1>9, <2>2 DEF FieldTried
      <3>2. y.overflowed <=> x.size + 1 > buf.capacity
        BY <1>5, <1>10, <1>12, <3>1 DEF FieldTried
      <3>3. x.size + 1 = buf.size + a.len + 1 /\ buf.size + Weight(cvar) = buf.size + a.len + 2
        <4>1. buf.size + (a.len + 2) = buf.size + a.len + 2
          BY <1>6, <1>18
        <4> QED BY <1>7, <3>1, <4>1
      <3>4. CASE y.overflowed
        <4>1. z.overflowed
          BY <1>15, <3>4 DEF FieldTried
        <4>2. buf.size + a.len + 2 > buf.capacity
          <5>1. buf.size + a.len + 1 > buf.capacity
            BY <3>2, <3>3, <3>4
          <5> QED BY <1>6, <1>18, <5>1
        <4> QED BY <3>3, <4>1, <4>2
      <3>5. CASE ~y.overflowed
        <4>1. y.size = x.size + 1
          BY <1>5, <1>12, <3>5 DEF FieldTried
        <4>2. z.overflowed <=> y.size + 1 > buf.capacity
          BY <1>5, <1>13, <1>15, <3>5 DEF FieldTried
        <4>3. y.size + 1 = buf.size + a.len + 2
          BY <1>6, <1>18, <3>3, <4>1
        <4> QED BY <3>3, <4>2, <4>3
      <3> QED BY <3>4, <3>5
    <2> QED BY <2>1, <2>2
  <1>20. ASSUME ~z.overflowed
         PROVE  /\ z.size = buf.size + Weight(cvar)
                /\ Len(z.data) = Len(buf.data) + Width(cvar)
                /\ IsRule(z.data, Len(buf.data) + 1, cvar)
    <2>1. ~y.overflowed
      BY <1>15, <1>20 DEF FieldTried
    <2>2. ~x.overflowed
      BY <1>12, <2>1 DEF FieldTried
    <2>3. PICK n \in Nat : n = Len(buf.data)
      BY <1>18
    <2>4. x.size = buf.size + a.len /\ Len(x.data) = n + 1 /\ x.data[n + 1] = a.val
      BY <1>9, <2>2, <2>3 DEF FieldTried
    <2>5. y.size = x.size + 1 /\ Len(y.data) = Len(x.data) + 1
          /\ y.data[Len(x.data) + 1] = b.val
      BY <1>5, <1>12, <2>1 DEF FieldTried
    <2>6. z.size = y.size + 1 /\ Len(z.data) = Len(y.data) + 1
          /\ z.data[Len(y.data) + 1] = c.val
      BY <1>5, <1>15, <1>20 DEF FieldTried
    <2>7. /\ Len(y.data) = n + 2 /\ Len(z.data) = n + 3 /\ (n + 1) + 1 = n + 2
          /\ n + 1 \in 1 .. Len(x.data)
          /\ n + 1 \in 1 .. Len(y.data) /\ n + 2 \in 1 .. Len(y.data)
          /\ Len(y.data) + 1 = n + 3 /\ (n + 1) + 2 = n + 3
      BY <2>3, <2>4, <2>5, <2>6
    <2>8. y.data[n + 1] = a.val /\ y.data[n + 2] = b.val
      <3>1. y.data[n + 1] = x.data[n + 1]
        BY <1>12, <2>7 DEF FieldTried, Extends
      <3>2. Len(x.data) + 1 = n + 2
        BY <2>4, <2>7
      <3> QED BY <2>4, <2>5, <3>1, <3>2
    <2>9. z.data[n + 1] = y.data[n + 1] /\ z.data[n + 2] = y.data[n + 2]
      BY <1>15, <2>7 DEF FieldTried, Extends
    <2>10. z.size = buf.size + Weight(cvar)
      <3>1. z.size = buf.size + a.len + 1 + 1
        BY <2>4, <2>5, <2>6
      <3>2. buf.size + a.len + 1 + 1 = buf.size + (a.len + 2)
        BY <1>6, <1>18
      <3> QED BY <1>7, <3>1, <3>2
    <2>11. IsRule(z.data, n + 1, cvar)
      <3>1. z.data[n + 1] = cvar.name.val /\ z.data[n + 2] = set /\ z.data[n + 3] = ""
        BY <1>5, <2>6, <2>7, <2>8, <2>9
      <3> QED BY <2>7, <3>1 DEF IsRule, set
    <2> QED BY <1>7, <2>3, <2>7, <2>10, <2>11
  <1> QED BY <1>16, <1>17, <1>19, <1>20 DEF RuleTried

(* Either fits as a whole or makes the buffer overflow. *)
LEMMA TryRule ==
    ASSUME NEW buf \in Buffers, ~buf.overflowed, NEW cvar \in Cvars
    PROVE  RuleTried(buf, WriteAll(buf, Rule(cvar)), cvar)
  BY TryOpenRule, TryProtectedRule

(* How many bytes the first rules take. *)
LEMMA BytesType ==
    ASSUME NEW cvars \in Seq(Cvars)
    PROVE  /\ Bytes(cvars) \in [0 .. Len(cvars) -> Nat]
           /\ Bytes(cvars)[0] = 7
           /\ \A n \in 1 .. Len(cvars) :
                 Bytes(cvars)[n] = Bytes(cvars)[n - 1] + Weight(cvars[n])
  <1> DEFINE L == Len(cvars)
             Turn == [x \in Nat \X (1 .. L) |-> x[1] + Weight(cvars[x[2]])]
             After(f, n) == f[n - 1] + cvars[n].name.len + 1
                            + (IF cvars[n].protected THEN 2 ELSE cvars[n].string.len + 1)
             Is(f) == f = [n \in 0 .. L |-> IF n = 0 THEN 7 ELSE After(f, n)]
  <1>1. L \in Nat /\ \A n \in 1 .. L : cvars[n] \in Cvars /\ Weight(cvars[n]) \in Nat
    BY CvarType
  <1>2. \A f, n : n \in 1 .. L /\ f[n - 1] \in Nat => After(f, n) = f[n - 1] + Weight(cvars[n])
    <2> SUFFICES ASSUME NEW f, NEW n \in 1 .. L, f[n - 1] \in Nat
                 PROVE  After(f, n) = f[n - 1] + Weight(cvars[n])
      OBVIOUS
    <2>1. PICK a \in Nat : a = f[n - 1]
      OBVIOUS
    <2>2. PICK b \in Nat : b = cvars[n].name.len
      BY <1>1, CvarType
    <2>3. PICK c \in Nat : c = IF cvars[n].protected THEN 2 ELSE cvars[n].string.len + 1
      BY <1>1, CvarType
    <2>4. a + b + 1 + c = a + (b + 1 + c)
      OBVIOUS
    <2> QED BY <2>1, <2>2, <2>3, <2>4 DEF Weight
  <1>3. Bytes(cvars) = CHOOSE f : Is(f)
    BY DEF Bytes
  <1> HIDE DEF After
  <1>4. Turn \in Turns(Nat, L)
    BY <1>1 DEF Turns
  <1>5. PICK f : IsLoop(Nat, 7, L, Turn, f)
    <2> HIDE DEF Turn, L
    <2> QED BY <1>1, <1>4, LoopExists
  <1>6. f \in [0 .. L -> Nat] /\ f[0] = 7
    BY <1>5 DEF IsLoop
  <1>7. \A k \in 1 .. L : f[k] = After(f, k)
    <2> SUFFICES ASSUME NEW k \in 1 .. L PROVE f[k] = After(f, k)
      OBVIOUS
    <2>1. f[k - 1] \in Nat
      <3>1. k - 1 \in 0 .. L
        BY <1>1
      <3> QED BY <1>6, <3>1
    <2>2. f[k] = Turn[<<f[k - 1], k>>]
      BY <1>5 DEF IsLoop
    <2> QED BY <1>2, <2>1, <2>2
  <1>8. Is(f)
    <2> DEFINE h == [n \in 0 .. L |-> IF n = 0 THEN 7 ELSE After(f, n)]
    <2>1. \A k \in 0 .. L : f[k] = h[k]
      BY <1>1, <1>6, <1>7
    <2>2. f = [k \in 0 .. L |-> f[k]]
      BY <1>6
    <2>3. h = [k \in 0 .. L |-> h[k]]
      OBVIOUS
    <2> QED BY <2>1, <2>2, <2>3, Zenon
  <1> DEFINE a == CHOOSE g : Is(g)
  <1>9. Is(a)
    BY <1>8, Zenon
  <1> HIDE DEF a
  <1>10. /\ a = [k \in 0 .. L |-> a[k]]
         /\ a[0] = 7
         /\ \A k \in 1 .. L : a[k] = After(a, k)
    <2> HIDE DEF L
    <2>1. a = [n \in 0 .. L |-> IF n = 0 THEN 7 ELSE After(a, n)]
      BY <1>9
    <2>2. 0 \in 0 .. L /\ \A k \in 1 .. L : k \in 0 .. L /\ k # 0
      BY <1>1
    <2>3. a = [k \in 0 .. L |-> a[k]]
      BY <2>1
    <2> QED BY <2>1, <2>2, <2>3
  <1>11. \A k \in 0 .. L : a[k] \in Nat
    <2> DEFINE Not == {k \in 0 .. L : a[k] \notin Nat}
    <2> SUFFICES ASSUME Not # {} PROVE FALSE
      OBVIOUS
    <2>1. PICK k \in Not : \A y \in Not : k <= y
      <3>1. Not \in SUBSET Nat
        BY <1>1
      <3> HIDE DEF Not
      <3> QED BY <3>1, SmallestNumber
    <2>2. k # 0
      BY <1>10
    <2>3. k - 1 \in 0 .. L /\ k - 1 \notin Not /\ k \in 1 .. L
      BY <1>1, <2>1, <2>2
    <2>4. a[k - 1] \in Nat /\ a[k] = a[k - 1] + Weight(cvars[k])
      BY <1>2, <1>10, <2>3
    <2> QED BY <1>1, <2>1, <2>3, <2>4
  <1>12. \A k \in 1 .. L : a[k] = a[k - 1] + Weight(cvars[k])
    <2>1. \A k \in 1 .. L : k - 1 \in 0 .. L
      BY <1>1
    <2> QED BY <1>2, <1>10, <1>11, <2>1
  <1>13. a \in [0 .. L -> Nat]
    BY <1>10, <1>11
  <1> QED BY <1>3, <1>10, <1>12, <1>13 DEF a

(* They grow with every rule. *)
LEMMA BytesGrow ==
    ASSUME NEW cvars \in Seq(Cvars), NEW m \in 0 .. Len(cvars), NEW n \in 0 .. Len(cvars), m <= n
    PROVE  Bytes(cvars)[n] >= Bytes(cvars)[m] + 2 * (n - m)
  <1> DEFINE b == Bytes(cvars)
             L == Len(cvars)
             Not == {k \in 0 .. L : m <= k /\ ~(b[k] >= b[m] + 2 * (k - m))}
  <1>1. L \in Nat
    OBVIOUS
  <1>2. /\ \A k \in 0 .. L : b[k] \in Nat
        /\ \A k \in 1 .. L : b[k] = b[k - 1] + Weight(cvars[k])
    BY BytesType
  <1>3. \A k \in 1 .. L : Weight(cvars[k]) \in Nat /\ Weight(cvars[k]) >= 2
    BY CvarType
  <1> HIDE DEF b
  <1> SUFFICES ASSUME Not # {} PROVE FALSE
    BY DEF b
  <1>4. PICK k \in Not : \A y \in Not : k <= y
    <2>1. Not \in SUBSET Nat
      BY <1>1
    <2> HIDE DEF Not
    <2> QED BY <2>1, SmallestNumber
  <1>5. k # m
    <2>1. b[m] \in Nat /\ m - m = 0
      BY <1>1, <1>2
    <2> QED BY <2>1
  <1>6. k \in 1 .. L /\ k - 1 \in 0 .. L /\ m <= k - 1 /\ k - 1 \notin Not
    BY <1>1, <1>4, <1>5
  <1>7. b[k - 1] >= b[m] + 2 * ((k - 1) - m)
    BY <1>6
  <1>8. /\ b[k] = b[k - 1] + Weight(cvars[k]) /\ Weight(cvars[k]) \in Nat /\ Weight(cvars[k]) >= 2
        /\ b[k] \in Nat /\ b[k - 1] \in Nat /\ b[m] \in Nat
    BY <1>1, <1>2, <1>3, <1>6
  <1>9. b[k] >= b[m] + 2 * (k - m)
    <2>1. PICK p \in Nat : p = b[k - 1]
      BY <1>8
    <2>2. PICK x \in Nat : x = Weight(cvars[k]) /\ x >= 2
      BY <1>8
    <2>3. PICK q \in Nat : q = b[m]
      BY <1>8
    <2>4. k \in Int /\ m \in Int
      BY <1>1
    <2>5. p >= q + 2 * ((k - 1) - m)
      BY <1>7, <2>1, <2>3
    <2>6. p + x >= q + 2 * (k - m)
      BY <2>2, <2>4, <2>5
    <2> QED BY <1>8, <2>1, <2>2, <2>3, <2>6
  <1> QED BY <1>9

-----------------------------------------------------------------------------
(* Where the rules begin: the first after the header, each after the one before it. *)
Protected(cvars, n) == {k \in 1 .. n - 1 : cvars[k].protected}

LEMMA PlaceIs ==
    ASSUME NEW cvars, NEW n
    PROVE  Place(cvars, n) = 2 * n + 2 + Cardinality(Protected(cvars, n))
  BY DEF Place, Protected

(* The rules before the n-th are so many, and the first has none. *)
LEMMA ProtectedFinite ==
    ASSUME NEW cvars, NEW n \in Nat, n >= 1
    PROVE  IsFiniteSet(Protected(cvars, n)) /\ Cardinality(Protected(cvars, n)) \in Nat
  <1>1. IsFiniteSet(1 .. n - 1)
    <2>1. 1 \in Int /\ n - 1 \in Int
      OBVIOUS
    <2> QED BY <2>1, FS_Interval
  <1> QED BY <1>1, FS_Subset, FS_CardinalityType DEF Protected

LEMMA PlaceType ==
    ASSUME NEW cvars, NEW n \in Nat, n >= 1
    PROVE  Place(cvars, n) \in Nat /\ Place(cvars, n) >= 2 * n + 2
  BY PlaceIs, ProtectedFinite

LEMMA PlaceFirst ==
    ASSUME NEW cvars
    PROVE  Place(cvars, 1) = 4
  <1>1. Protected(cvars, 1) = {}
    BY DEF Protected
  <1> QED BY <1>1, PlaceIs, FS_EmptySet

(* A rule takes as many fields as it is wide. *)
LEMMA PlaceNext ==
    ASSUME NEW cvars, NEW n \in Nat, n >= 1
    PROVE  Place(cvars, n + 1) = Place(cvars, n) + Width(cvars[n])
  <1>1. \A k \in 1 .. (n + 1) - 1 : k \in 1 .. n - 1 \/ k = n
    OBVIOUS
  <1>2. 1 .. n - 1 \subseteq 1 .. (n + 1) - 1 /\ n \in 1 .. (n + 1) - 1 /\ n \notin 1 .. n - 1
    OBVIOUS
  <1>3. CASE cvars[n].protected
    <2>1. Protected(cvars, n + 1) = Protected(cvars, n) \cup {n}
      BY <1>1, <1>2, <1>3 DEF Protected
    <2>2. n \notin Protected(cvars, n)
      BY <1>2 DEF Protected
    <2>3. Cardinality(Protected(cvars, n + 1)) = Cardinality(Protected(cvars, n)) + 1
      BY <2>1, <2>2, ProtectedFinite, FS_AddElement
    <2>4. Cardinality(Protected(cvars, n)) \in Nat /\ Width(cvars[n]) = 3
      BY <1>3, ProtectedFinite DEF Width
    <2> QED BY <2>3, <2>4, PlaceIs
  <1>4. CASE ~cvars[n].protected
    <2>1. Protected(cvars, n + 1) = Protected(cvars, n)
      BY <1>1, <1>2, <1>4 DEF Protected
    <2>2. Cardinality(Protected(cvars, n)) \in Nat /\ Width(cvars[n]) = 2
      BY <1>4, ProtectedFinite DEF Width
    <2> QED BY <2>1, <2>2, PlaceIs
  <1> QED BY <1>3, <1>4

(* A rule ends before the next begins, and so before all that follow. *)
LEMMA PlacesApart ==
    ASSUME NEW cvars, NEW k \in Nat, NEW n \in Nat, 1 <= k, k < n
    PROVE  Place(cvars, k) + Width(cvars[k]) <= Place(cvars, n)
  <1>1. Place(cvars, k + 1) = Place(cvars, k) + Width(cvars[k])
    BY PlaceNext
  <1>2. k + 1 \in Nat /\ k + 1 >= 1 /\ k + 1 <= n /\ n >= 1
    OBVIOUS
  <1>3. Protected(cvars, k + 1) \subseteq Protected(cvars, n)
    <2>1. 1 .. (k + 1) - 1 \subseteq 1 .. n - 1
      BY <1>2
    <2> QED BY <2>1 DEF Protected
  <1>4. /\ IsFiniteSet(Protected(cvars, n))
        /\ Cardinality(Protected(cvars, n)) \in Nat
        /\ Cardinality(Protected(cvars, k + 1)) \in Nat
    BY <1>2, ProtectedFinite
  <1>5. Cardinality(Protected(cvars, k + 1)) <= Cardinality(Protected(cvars, n))
    BY <1>3, <1>4, FS_Subset
  <1>6. Place(cvars, k + 1) <= Place(cvars, n)
    BY <1>2, <1>4, <1>5, PlaceIs
  <1> QED BY <1>1, <1>6

-----------------------------------------------------------------------------
(* what the engine shows of cvars, and the room there is for them: the header
   at least, and never so much that the number of rules would wrap *)
RulesShown(w, capacity) ==
    /\ w.cvars \in Seq(Cvars)
    /\ capacity \in Nat /\ 7 <= capacity /\ capacity < 131072

Server(w) == {n \in DOMAIN w.cvars : w.cvars[n].server}
ServerTo(w, m) == {n \in Server(w) : n <= m}

(* Those shown are a list, and all of them in the end. *)
LEMMA ShownType ==
    ASSUME NEW w, NEW capacity, RulesShown(w, capacity)
    PROVE  /\ Server(w) \in SUBSET Int /\ IsFiniteSet(Server(w))
           /\ Shown(w) \in Seq(Cvars)
           /\ Len(Shown(w)) = Cardinality(Server(w))
           /\ Cardinality(Server(w)) \in Nat
           /\ ServerTo(w, Len(w.cvars)) = Server(w)
           /\ ServerTo(w, 0) = {}
  <1>1. w.cvars \in Seq(Cvars) /\ Server(w) \in SUBSET DOMAIN w.cvars
    <2>1. w.cvars \in Seq(Cvars)
      BY DEF RulesShown
    <2>2. Server(w) \subseteq DOMAIN w.cvars
      BY DEF Server
    <2> QED BY <2>1, <2>2
  <1>2. Shown(w) = Sublist(w.cvars, Server(w))
    BY DEF Shown, Server
  <1>3. \A n \in Server(w) : n \in Int /\ 1 <= n /\ n <= Len(w.cvars)
    BY <1>1
  <1>4. ServerTo(w, Len(w.cvars)) = Server(w) /\ ServerTo(w, 0) = {}
    BY <1>3 DEF ServerTo
  <1> QED BY <1>1, <1>2, <1>4, PlacesFinite, SublistIsList

(* The next cvar, if the server shows it, is the next of those shown. *)
LEMMA NextRule ==
    ASSUME NEW w, NEW capacity, RulesShown(w, capacity), NEW m \in 1 .. Len(w.cvars)
    PROVE  /\ Cardinality(ServerTo(w, m - 1)) \in Nat
           /\ Cardinality(ServerTo(w, m)) <= Len(Shown(w))
           /\ m \notin Server(w) => ServerTo(w, m) = ServerTo(w, m - 1)
           /\ m \in Server(w) =>
                 /\ Cardinality(ServerTo(w, m)) = Cardinality(ServerTo(w, m - 1)) + 1
                 /\ Shown(w)[Cardinality(ServerTo(w, m - 1)) + 1] = w.cvars[m]
  <1>1. /\ Server(w) \in SUBSET Int /\ IsFiniteSet(Server(w))
        /\ Len(Shown(w)) = Cardinality(Server(w)) /\ Cardinality(Server(w)) \in Nat
    BY ShownType
  <1>2. m \in Int
    OBVIOUS
  <1>3. IsFiniteSet(ServerTo(w, m - 1)) /\ Cardinality(ServerTo(w, m - 1)) \in Nat
    BY <1>1, FS_Subset, FS_CardinalityType DEF ServerTo
  <1>4. Cardinality(ServerTo(w, m)) <= Len(Shown(w))
    BY <1>1, FS_Subset DEF ServerTo
  <1>5. \A n \in Server(w) : n <= m <=> n <= m - 1 \/ n = m
    BY <1>1, <1>2
  <1>6. ASSUME m \notin Server(w) PROVE ServerTo(w, m) = ServerTo(w, m - 1)
    BY <1>5, <1>6 DEF ServerTo
  <1>7. ASSUME m \in Server(w)
        PROVE  /\ Cardinality(ServerTo(w, m)) = Cardinality(ServerTo(w, m - 1)) + 1
               /\ Shown(w)[Cardinality(ServerTo(w, m - 1)) + 1] = w.cvars[m]
    <2>1. ServerTo(w, m) = ServerTo(w, m - 1) \cup {m}
      BY <1>5, <1>7 DEF ServerTo
    <2>2. m \notin ServerTo(w, m - 1)
      BY DEF ServerTo
    <2>3. Cardinality(ServerTo(w, m)) = Cardinality(ServerTo(w, m - 1)) + 1
      BY <1>3, <2>1, <2>2, FS_AddElement
    <2>4. Rank(Server(w), m) = Cardinality(ServerTo(w, m))
      BY DEF Rank, ServerTo
    <2>5. Nth(Server(w), Rank(Server(w), m)) = m
      BY <1>1, <1>7, NthOfRank
    <2>6. Rank(Server(w), m) \in 1 .. Cardinality(Server(w))
      BY <1>1, <1>7, RankType
    <2>7. Shown(w) = [k \in 1 .. Cardinality(Server(w)) |-> w.cvars[Nth(Server(w), k)]]
      BY DEF Shown, Server, Sublist
    <2> QED BY <2>3, <2>4, <2>5, <2>6, <2>7
  <1> QED BY <1>3, <1>4, <1>6, <1>7

RulesHeader(capacity) == WriteAll(Empty(capacity), <<Other(4), Byte(69), Field(2, 0)>>)

(* The loop over the cvars: its states are lists, and RulesList is its result. *)
LEMMA AddRuleType ==
    ASSUME NEW cvar \in Cvars, NEW list \in Lists
    PROVE  AddRule(list, cvar) \in Lists
  <1>1. list.buf \in Buffers /\ list.count \in Nat
    BY DEF Lists
  <1>2. CASE ~cvar.server \/ list.buf.overflowed
    BY <1>2 DEF AddRule
  <1>3. CASE ~(~cvar.server \/ list.buf.overflowed)
    <2>1. PICK buf : buf = WriteAll(list.buf, Rule(cvar))
      OBVIOUS
    <2>2. buf \in Buffers
      BY <1>1, <1>3, <2>1, TryRule DEF RuleTried, Extends
    <2>3. list.count + (IF buf.overflowed THEN 0 ELSE 1) \in Nat
      BY <1>1
    <2>4. AddRule(list, cvar)
          = [buf |-> buf, count |-> list.count + (IF buf.overflowed THEN 0 ELSE 1)]
      BY <1>3, <2>1 DEF AddRule
    <2> QED BY <2>2, <2>3, <2>4 DEF Lists
  <1> QED BY <1>2, <1>3

LEMMA RulesLoop ==
    ASSUME NEW w, NEW capacity, RulesShown(w, capacity)
    PROVE  \E after \in [0 .. Len(w.cvars) -> Lists] :
              /\ after[0] = Counting(RulesHeader(capacity))
              /\ \A k \in 1 .. Len(w.cvars) : after[k] = AddRule(after[k - 1], w.cvars[k])
              /\ RulesList(w, capacity) = Counted(after[Len(w.cvars)], 65536)
              /\ RulesHeader(capacity) \in Buffers /\ ~RulesHeader(capacity).overflowed
              /\ RulesHeader(capacity).capacity = capacity /\ RulesHeader(capacity).size = 7 /\ Len(RulesHeader(capacity).data) = 3
  <1>0. PICK L \in Nat : L = Len(w.cvars)
    BY DEF RulesShown
  <1> DEFINE Turn == [x \in Lists \X (1 .. L) |-> AddRule(x[1], w.cvars[x[2]])]
             Is(f) == f = [n \in 0 .. L |->
                             IF n = 0 THEN Counting(RulesHeader(capacity)) ELSE AddRule(f[n - 1], w.cvars[n])]
  <1>1. /\ capacity \in Nat /\ capacity >= 7
        /\ \A k \in 1 .. L : w.cvars[k] \in Cvars
    <2>1. w.cvars \in Seq(Cvars) /\ capacity \in Nat /\ 7 <= capacity
      BY DEF RulesShown
    <2>2. capacity \in Nat /\ capacity >= 7
      BY <2>1
    <2>3. \A k \in 1 .. L : w.cvars[k] \in Cvars
      BY <1>0, <2>1
    <2> QED BY <2>2, <2>3
  <1>2. /\ RulesHeader(capacity) \in Buffers /\ ~RulesHeader(capacity).overflowed
        /\ RulesHeader(capacity).capacity = capacity /\ RulesHeader(capacity).size = 7 /\ Len(RulesHeader(capacity).data) = 3
    <2>1. /\ Other(4) \in Fields /\ Byte(69) \in Fields /\ Field(2, 0) \in Fields
          /\ Other(4).len = 4 /\ Byte(69).len = 1 /\ Field(2, 0).len = 2
      BY DEF Other, Byte, Field, Fields, Values
    <2>2. 4 + 1 + 2 <= capacity
      BY <1>1
    <2> QED BY <1>1, <2>1, <2>2, HeaderWritten DEF RulesHeader
  <1>w. PICK width \in Nat : width = 65536
    OBVIOUS
  <1>3. RulesList(w, capacity) = Counted((CHOOSE f : Is(f))[L], width)
    <2>1. RulesList(w, capacity) =
            Counted((CHOOSE f : f = [n \in 0 .. Len(w.cvars) |->
                                      IF n = 0 THEN Counting(RulesHeader(capacity))
                                      ELSE AddRule(f[n - 1], w.cvars[n])])[Len(w.cvars)], width)
      BY <1>w, SMT DEF RulesList, RulesHeader
    <2> QED BY <1>0, <2>1, Zenon
  <1>4. Counting(RulesHeader(capacity)) \in Lists
    BY <1>2 DEF Counting, Lists
  <1>5. Turn \in Turns(Lists, L)
    <2> SUFFICES ASSUME NEW x \in Lists \X (1 .. L)
                 PROVE  AddRule(x[1], w.cvars[x[2]]) \in Lists
      BY DEF Turns
    <2>1. x[1] \in Lists /\ w.cvars[x[2]] \in Cvars
      BY <1>1
    <2> QED BY <2>1, AddRuleType
  <1>6. PICK f : IsLoop(Lists, Counting(RulesHeader(capacity)), L, Turn, f)
    <2> HIDE DEF Turn
    <2> QED BY <1>1, <1>4, <1>5, LoopExists
  <1>7. f \in [0 .. L -> Lists] /\ f[0] = Counting(RulesHeader(capacity))
    BY <1>6 DEF IsLoop
  <1>8. \A k \in 1 .. L : f[k] = AddRule(f[k - 1], w.cvars[k])
    <2> SUFFICES ASSUME NEW k \in 1 .. L PROVE f[k] = AddRule(f[k - 1], w.cvars[k])
      OBVIOUS
    <2>1. f[k - 1] \in Lists
      BY <1>1, <1>7
    <2>2. f[k] = Turn[<<f[k - 1], k>>]
      BY <1>6 DEF IsLoop
    <2> QED BY <2>1, <2>2
  <1>9. Is(f)
    <2> DEFINE h == [n \in 0 .. L |->
                       IF n = 0 THEN Counting(RulesHeader(capacity)) ELSE AddRule(f[n - 1], w.cvars[n])]
    <2>1. \A k \in 0 .. L : f[k] = h[k]
      BY <1>1, <1>7, <1>8
    <2>2. f = [k \in 0 .. L |-> f[k]]
      BY <1>7
    <2>3. h = [k \in 0 .. L |-> h[k]]
      OBVIOUS
    <2> QED BY <2>1, <2>2, <2>3, Zenon
  <1> DEFINE a == CHOOSE g : Is(g)
  <1>10. Is(a)
    BY <1>9, Zenon
  <1>11. RulesList(w, capacity) = Counted(a[L], width)
    BY <1>3
  <1> HIDE DEF a
  <1>12. /\ a = [k \in 0 .. L |-> a[k]]
         /\ a[0] = Counting(RulesHeader(capacity))
         /\ \A k \in 1 .. L : a[k] = AddRule(a[k - 1], w.cvars[k])
    <2>1. a = [n \in 0 .. L |-> IF n = 0 THEN Counting(RulesHeader(capacity)) ELSE AddRule(a[n - 1], w.cvars[n])]
      BY <1>10
    <2>2. \A k \in 1 .. L : k \in 0 .. L /\ k # 0
      OBVIOUS
    <2>3. 0 \in 0 .. L
      OBVIOUS
    <2>4. a = [k \in 0 .. L |-> a[k]]
      BY <2>1
    <2> QED BY <2>1, <2>2, <2>3, <2>4
  <1>13. \A k \in 0 .. L : a[k] \in Lists
    <2> DEFINE Not == {k \in 0 .. L : a[k] \notin Lists}
    <2> SUFFICES ASSUME Not # {} PROVE FALSE
      OBVIOUS
    <2>1. PICK k \in Not : \A y \in Not : k <= y
      <3>1. Not \in SUBSET Nat
        BY <1>1
      <3> HIDE DEF Not
      <3> QED BY <3>1, SmallestNumber
    <2>2. k # 0
      BY <1>4, <1>12
    <2>3. k - 1 \in 0 .. L /\ k - 1 \notin Not /\ k \in 1 .. L
      BY <1>1, <2>1, <2>2
    <2>4. a[k - 1] \in Lists /\ a[k] = AddRule(a[k - 1], w.cvars[k])
      BY <1>12, <2>3
    <2>5. a[k] \in Lists
      BY <1>1, <2>3, <2>4, AddRuleType
    <2> QED BY <2>1, <2>5
  <1>14. a \in [0 .. L -> Lists]
    BY <1>12, <1>13
  <1>15. \E after \in [0 .. L -> Lists] :
            /\ after[0] = Counting(RulesHeader(capacity))
            /\ \A k \in 1 .. L : after[k] = AddRule(after[k - 1], w.cvars[k])
            /\ RulesList(w, capacity) = Counted(after[L], width)
    BY <1>11, <1>12, <1>14
  <1> QED
    BY <1>0, <1>2, <1>15, <1>w, SMT

-----------------------------------------------------------------------------
(* A rule stays what it is when what follows the header stays. *)
LEMMA RuleKept ==
    ASSUME NEW d, NEW e, NEW n \in Nat, \A i \in 4 .. n : e[i] = d[i],
           NEW cvar \in Cvars, NEW at \in Nat, at >= 4, at + Width(cvar) <= n + 1,
           IsRule(d, at, cvar)
    PROVE  IsRule(e, at, cvar)
  <1>1. CASE cvar.protected
    <2>1. Width(cvar) = 3
      BY <1>1 DEF Width
    <2>2. at \in 4 .. n /\ at + 1 \in 4 .. n /\ at + 2 \in 4 .. n
      BY <2>1
    <2> QED BY <1>1, <2>2 DEF IsRule
  <1>2. CASE ~cvar.protected
    <2>1. Width(cvar) = 2
      BY <1>2 DEF Width
    <2>2. at \in 4 .. n /\ at + 1 \in 4 .. n
      BY <2>1
    <2> QED BY <1>2, <2>2 DEF IsRule
  <1> QED BY <1>1, <1>2

(* The first rules of those shown stand in their places. *)
FirstRules(data, cvars, count) ==
    \A k \in 1 .. count : IsRule(data, Place(cvars, k), cvars[k])

(* So do all the first rules when they end where the others begin. *)
LEMMA RulesKept ==
    ASSUME NEW d, NEW e, NEW n \in Nat, \A i \in 4 .. n : e[i] = d[i],
           NEW cvars \in Seq(Cvars), NEW count \in Nat, count <= Len(cvars),
           Place(cvars, count + 1) <= n + 1, FirstRules(d, cvars, count)
    PROVE  FirstRules(e, cvars, count)
  <1> SUFFICES ASSUME NEW k \in 1 .. count
               PROVE  IsRule(e, Place(cvars, k), cvars[k])
    BY DEF FirstRules
  <1>1. k \in Nat /\ k >= 1 /\ k < count + 1 /\ count + 1 \in Nat /\ k \in 1 .. Len(cvars)
    OBVIOUS
  <1>2. cvars[k] \in Cvars
    BY <1>1
  <1>3. Width(cvars[k]) \in Nat
    <2>1. Width(cvars[k]) \in {2, 3}
      BY <1>2, CvarType
    <2> QED BY <2>1
  <1>4. Place(cvars, k) \in Nat /\ Place(cvars, k) >= 4 /\ Place(cvars, count + 1) \in Nat
    BY <1>1, PlaceType
  <1>5. Place(cvars, k) + Width(cvars[k]) <= Place(cvars, count + 1)
    BY <1>1, PlacesApart
  <1>6. Place(cvars, k) + Width(cvars[k]) <= n + 1
    BY <1>3, <1>4, <1>5
  <1>7. IsRule(d, Place(cvars, k), cvars[k])
    BY DEF FirstRules
  <1> QED BY <1>2, <1>4, <1>6, <1>7, RuleKept

-----------------------------------------------------------------------------
(* What the list holds when the first m cvars have been looked at: as many of
   those shown as fit, one after the other. *)
HoldsRules(list, cvars, all, capacity) ==
    /\ list \in Lists
    /\ list.buf.capacity = capacity
    /\ list.count <= all
    /\ Bytes(cvars)[list.count] <= capacity
    /\ FirstRules(list.buf.data, cvars, list.count)
    /\ Place(cvars, list.count + 1) <= Len(list.buf.data) + 1
    /\ list.buf.overflowed =>
          list.count < all /\ Bytes(cvars)[list.count + 1] > capacity
    /\ ~list.buf.overflowed =>
          /\ list.count = all
          /\ list.buf.size = Bytes(cvars)[all]
          /\ Place(cvars, all + 1) = Len(list.buf.data) + 1

(* A cvar that the server shows ... *)
LEMMA RuleAdded ==
    ASSUME NEW cvars \in Seq(Cvars), NEW all \in Nat, all + 1 <= Len(cvars),
           NEW capacity \in Nat, NEW list, HoldsRules(list, cvars, all, capacity),
           cvars[all + 1].server
    PROVE  HoldsRules(AddRule(list, cvars[all + 1]), cvars, all + 1, capacity)
  <1>1. PICK cvar \in Cvars : cvar = cvars[all + 1]
    OBVIOUS
  <1>2. list \in Lists /\ list.buf \in Buffers /\ list.count \in Nat
    BY DEF HoldsRules, Lists
  <1>3. CASE list.buf.overflowed
    <2>1. AddRule(list, cvar) = list
      BY <1>3 DEF AddRule
    <2>2. list.count < all + 1 /\ list.count <= all + 1
      BY <1>2 DEF HoldsRules
    <2> QED BY <1>1, <1>3, <2>1, <2>2 DEF HoldsRules
  <1>4. CASE ~list.buf.overflowed
    <2>1. PICK buf \in Buffers : buf = list.buf
      BY <1>2
    <2>2. /\ list.count = all /\ buf.capacity = capacity /\ ~buf.overflowed
          /\ buf.size = Bytes(cvars)[all] /\ Place(cvars, all + 1) = Len(buf.data) + 1
          /\ FirstRules(buf.data, cvars, all) /\ Bytes(cvars)[all] <= capacity
      BY <1>4, <2>1 DEF HoldsRules
    <2>3. PICK new : new = WriteAll(buf, Rule(cvar))
      OBVIOUS
    <2>4. RuleTried(buf, new, cvar)
      BY <2>2, <2>3, TryRule
    <2>5. new \in Buffers /\ new.capacity = capacity /\ Extends(buf, new)
      BY <2>2, <2>4 DEF RuleTried, Extends
    <2>6. /\ Len(buf.data) \in Nat /\ Len(new.data) \in Nat /\ new.overflowed \in BOOLEAN
          /\ Len(new.data) >= Len(buf.data)
      BY <2>5, LenType DEF Extends
    <2>7. PICK n \in Nat : n = Len(buf.data) /\ Place(cvars, all + 1) = n + 1
      BY <2>2, <2>6
    <2>8. \A i \in 4 .. n : new.data[i] = buf.data[i]
      BY <2>5, <2>7 DEF Extends
    <2>9. FirstRules(new.data, cvars, all)
      <3>1. all <= Len(cvars) /\ Place(cvars, all + 1) <= n + 1
        BY <2>7
      <3> QED BY <2>2, <2>8, <3>1, RulesKept
    <2>10. /\ all + 1 \in 1 .. Len(cvars) /\ (all + 1) - 1 = all
           /\ Bytes(cvars)[all + 1] = Bytes(cvars)[(all + 1) - 1] + Weight(cvars[all + 1])
      <3>1. all + 1 \in 1 .. Len(cvars) /\ (all + 1) - 1 = all
        OBVIOUS
      <3> QED BY <3>1, BytesType
    <2>11. Bytes(cvars)[all + 1] = buf.size + Weight(cvar)
      BY <1>1, <2>2, <2>10
    <2>12. CASE new.overflowed
      <3>1. AddRule(list, cvar) = [buf |-> new, count |-> all + 0]
        BY <1>1, <1>4, <2>1, <2>2, <2>3, <2>12 DEF AddRule
      <3>2. AddRule(list, cvar) = [buf |-> new, count |-> all]
        BY <3>1
      <3>3. Bytes(cvars)[all + 1] > capacity
        BY <2>2, <2>4, <2>11, <2>12 DEF RuleTried
      <3>4. all < all + 1 /\ all <= all + 1 /\ n + 1 <= Len(new.data) + 1
        BY <2>6, <2>7
      <3> QED
        BY <1>1, <2>2, <2>5, <2>7, <2>9, <2>12, <3>2, <3>3, <3>4 DEF HoldsRules, Lists
    <2>13. CASE ~new.overflowed
      <3>1. AddRule(list, cvar) = [buf |-> new, count |-> all + 1]
        BY <1>1, <1>4, <2>1, <2>2, <2>3, <2>13 DEF AddRule
      <3>2. /\ new.size = buf.size + Weight(cvar) /\ Len(new.data) = n + Width(cvar)
            /\ IsRule(new.data, n + 1, cvar)
            /\ ~(buf.size + Weight(cvar) > capacity)
        BY <2>2, <2>4, <2>7, <2>13 DEF RuleTried
      <3>3. FirstRules(new.data, cvars, all + 1)
        <4>1. \A k \in 1 .. all + 1 : k \in 1 .. all \/ k = all + 1
          OBVIOUS
        <4>2. IsRule(new.data, Place(cvars, all + 1), cvars[all + 1])
          BY <1>1, <2>7, <3>2
        <4> QED BY <2>9, <4>1, <4>2 DEF FirstRules
      <3>4. Place(cvars, (all + 1) + 1) = Len(new.data) + 1
        <4>1. Place(cvars, (all + 1) + 1) = Place(cvars, all + 1) + Width(cvars[all + 1])
          <5>1. all + 1 \in Nat /\ all + 1 >= 1
            OBVIOUS
          <5> QED BY <5>1, PlaceNext
        <4>2. Width(cvar) \in Nat
          <5>1. Width(cvar) \in {2, 3}
            BY CvarType
          <5> QED BY <5>1
        <4> QED BY <1>1, <2>7, <3>2, <4>1, <4>2
      <3>5. Bytes(cvars)[all + 1] <= capacity
        <4>1. buf.size \in Nat /\ Weight(cvar) \in Nat
          BY CvarType, LenType
        <4> QED BY <2>11, <3>2, <4>1
      <3>6. all + 1 <= all + 1 /\ all + 1 \in Nat
        OBVIOUS
      <3>7. Len(new.data) + 1 <= Len(new.data) + 1
        BY <2>6
      <3> QED
        BY <1>1, <2>5, <2>11, <2>13, <3>1, <3>2, <3>3, <3>4, <3>5, <3>6, <3>7
        DEF HoldsRules, Lists
    <2> QED BY <2>6, <2>12, <2>13
  <1> QED BY <1>3, <1>4

(* ... and the loop over all cvars. *)
LEMMA RulesHeld ==
    ASSUME NEW w, NEW capacity, RulesShown(w, capacity)
    PROVE  \E list :
              /\ HoldsRules(list, Shown(w), Len(Shown(w)), capacity)
              /\ RulesList(w, capacity) = Counted(list, 65536)
  <1> DEFINE Held(list, m) == HoldsRules(list, Shown(w), Cardinality(ServerTo(w, m)), capacity)
  <1>0. capacity \in Nat /\ 7 <= capacity /\ w.cvars \in Seq(Cvars)
    BY DEF RulesShown
  <1>1. PICK L \in Nat : L = Len(w.cvars)
    BY <1>0
  <1>2. PICK after \in [0 .. L -> Lists] :
              /\ after[0] = Counting(RulesHeader(capacity))
              /\ \A k \in 1 .. L : after[k] = AddRule(after[k - 1], w.cvars[k])
              /\ RulesList(w, capacity) = Counted(after[L], 65536)
              /\ RulesHeader(capacity) \in Buffers /\ ~RulesHeader(capacity).overflowed
              /\ RulesHeader(capacity).capacity = capacity /\ RulesHeader(capacity).size = 7 /\ Len(RulesHeader(capacity).data) = 3
    BY <1>1, RulesLoop
  <1>3. PICK cvars \in Seq(Cvars) : cvars = Shown(w)
    BY ShownType
  <1>4. /\ ServerTo(w, 0) = {} /\ ServerTo(w, L) = Server(w)
        /\ Len(cvars) = Cardinality(Server(w))
    BY <1>1, <1>3, ShownType
  <1>5. Held(after[0], 0)
    <2>1. Cardinality(ServerTo(w, 0)) = 0
      BY <1>4, FS_EmptySet
    <2>2. after[0].count = 0 /\ after[0].buf = RulesHeader(capacity) /\ after[0] \in Lists
      BY <1>2 DEF Counting
    <2>3. Bytes(cvars)[0] = 7
      BY BytesType
    <2>4. FirstRules(RulesHeader(capacity).data, cvars, 0)
      BY DEF FirstRules
    <2>5. Place(cvars, 0 + 1) = Len(RulesHeader(capacity).data) + 1
      BY <1>2, PlaceFirst
    <2>6. 0 <= 0 /\ Len(RulesHeader(capacity).data) + 1 <= Len(RulesHeader(capacity).data) + 1
      BY <1>2
    <2>7. Len(RulesHeader(capacity).data) + 1 = 4 /\ Place(cvars, 0 + 1) <= 4
      BY <1>2, <2>5
    <2>8. HoldsRules(after[0], cvars, 0, capacity)
      <3>1. after[0].buf.capacity = capacity /\ after[0].count <= 0
        BY <1>2, <2>2
      <3>2. Bytes(cvars)[after[0].count] <= capacity
        BY <1>0, <2>2, <2>3
      <3>3. FirstRules(after[0].buf.data, cvars, after[0].count)
        BY <2>2, <2>4
      <3>4. Place(cvars, after[0].count + 1) <= Len(after[0].buf.data) + 1
        BY <2>2, <2>7
      <3>5. /\ ~after[0].buf.overflowed /\ after[0].count = 0
            /\ after[0].buf.size = Bytes(cvars)[0]
            /\ Place(cvars, 0 + 1) = Len(after[0].buf.data) + 1
        <4>1. ~after[0].buf.overflowed /\ after[0].count = 0
          BY <1>2, <2>2
        <4>2. after[0].buf.size = Bytes(cvars)[0]
          BY <1>2, <2>2, <2>3
        <4>3. Place(cvars, 0 + 1) = Len(after[0].buf.data) + 1
          BY <2>2, <2>5
        <4> QED BY <4>1, <4>2, <4>3
      <3> QED BY <2>2, <3>1, <3>2, <3>3, <3>4, <3>5 DEF HoldsRules
    <2> QED BY <1>3, <2>1, <2>8
  <1>6. \A m \in 1 .. L : Held(after[m - 1], m - 1) => Held(after[m], m)
    <2> SUFFICES ASSUME NEW m \in 1 .. L, Held(after[m - 1], m - 1)
                 PROVE  Held(after[m], m)
      OBVIOUS
    <2>1. PICK all \in Nat : all = Cardinality(ServerTo(w, m - 1))
      BY <1>1, NextRule
    <2>2. /\ Cardinality(ServerTo(w, m)) <= Len(cvars)
          /\ m \notin Server(w) => Cardinality(ServerTo(w, m)) = all
          /\ m \in Server(w) => /\ Cardinality(ServerTo(w, m)) = all + 1
                                /\ cvars[all + 1] = w.cvars[m]
      BY <1>1, <1>3, <2>1, NextRule
    <2>3. m \in Server(w) <=> w.cvars[m].server
      BY <1>0, <1>1 DEF Server
    <2>4. after[m] = AddRule(after[m - 1], w.cvars[m])
      BY <1>2
    <2>5. HoldsRules(after[m - 1], cvars, all, capacity)
      BY <1>3, <2>1
    <2>6. CASE m \in Server(w)
      <3>1. all + 1 <= Len(cvars) /\ cvars[all + 1].server
        BY <2>2, <2>3, <2>6
      <3>2. HoldsRules(AddRule(after[m - 1], cvars[all + 1]), cvars, all + 1, capacity)
        BY <1>0, <2>5, <3>1, RuleAdded
      <3> QED BY <1>3, <2>2, <2>4, <2>6, <3>2
    <2>7. CASE m \notin Server(w)
      <3>1. after[m] = after[m - 1]
        BY <2>3, <2>4, <2>7 DEF AddRule
      <3> QED BY <1>3, <2>2, <2>5, <2>7, <3>1
    <2> QED BY <2>6, <2>7
  <1>7. \A m \in 0 .. L : Held(after[m], m)
    <2> DEFINE Not == {m \in 0 .. L : ~Held(after[m], m)}
    <2> HIDE DEF Held
    <2> SUFFICES ASSUME Not # {} PROVE FALSE
      OBVIOUS
    <2>1. PICK m \in Not : \A y \in Not : m <= y
      <3>1. Not \in SUBSET Nat
        OBVIOUS
      <3> HIDE DEF Not
      <3> QED BY <3>1, SmallestNumber
    <2>2. m # 0
      BY <1>5
    <2>3. m - 1 \in 0 .. L /\ m - 1 \notin Not /\ m \in 1 .. L
      BY <2>1, <2>2
    <2> QED BY <1>6, <2>1, <2>3
  <1>8. Held(after[L], L)
    BY <1>7
  <1> QED BY <1>2, <1>3, <1>4, <1>8

(* What a client reads of the list of rules. *)
LEMMA RulesAreRead ==
    ASSUME NEW w, NEW capacity, RulesShown(w, capacity)
    PROVE  AreTheRules(RulesList(w, capacity).data, Shown(w), Fitting(w, capacity))
  <1>0. capacity \in Nat /\ 7 <= capacity /\ capacity < 131072
    BY DEF RulesShown
  <1>1. PICK cvars \in Seq(Cvars) : cvars = Shown(w)
    BY ShownType
  <1>2. PICK L \in Nat : L = Len(cvars)
    OBVIOUS
  <1>3. PICK list : /\ HoldsRules(list, cvars, L, capacity)
                    /\ RulesList(w, capacity) = Counted(list, 65536)
    BY <1>1, <1>2, RulesHeld
  <1>4. PICK c \in Nat : c = list.count
    BY <1>3 DEF HoldsRules, Lists
  <1>5. /\ list.buf \in Buffers /\ c <= L /\ Bytes(cvars)[c] <= capacity
        /\ c # L => Bytes(cvars)[c + 1] > capacity
        /\ FirstRules(list.buf.data, cvars, c)
        /\ Place(cvars, c + 1) <= Len(list.buf.data) + 1
    BY <1>3, <1>4 DEF HoldsRules, Lists
  <1> DEFINE Fits(n) == /\ Bytes(cvars)[n] <= capacity
                        /\ n # L => Bytes(cvars)[n + 1] > capacity
  <1>6. \A n \in 0 .. L : Fits(n) => n = c
    <2> SUFFICES ASSUME NEW n \in 0 .. L, Fits(n), n # c PROVE FALSE
      OBVIOUS
    <2>1. \A k \in 0 .. L : Bytes(cvars)[k] \in Nat
      BY <1>2, BytesType
    <2>2. CASE n < c
      <3>1. n + 1 \in 0 .. L /\ c \in 0 .. L /\ n + 1 <= c /\ n # L
        BY <1>5, <2>2
      <3>2. Bytes(cvars)[c] >= Bytes(cvars)[n + 1] + 2 * (c - (n + 1))
        BY <1>2, <3>1, BytesGrow
      <3>3. Bytes(cvars)[n + 1] > capacity /\ Bytes(cvars)[c] <= capacity
        BY <1>5, <3>1
      <3> QED BY <1>0, <2>1, <3>1, <3>2, <3>3
    <2>3. CASE c < n
      <3>1. c + 1 \in 0 .. L /\ n \in 0 .. L /\ c + 1 <= n /\ c # L
        BY <1>5, <2>3
      <3>2. Bytes(cvars)[n] >= Bytes(cvars)[c + 1] + 2 * (n - (c + 1))
        BY <1>2, <3>1, BytesGrow
      <3>3. Bytes(cvars)[c + 1] > capacity /\ Bytes(cvars)[n] <= capacity
        BY <1>5, <3>1
      <3> QED BY <1>0, <2>1, <3>1, <3>2, <3>3
    <2> QED BY <2>2, <2>3
  <1>7. Fitting(w, capacity) = c
    <2>1. c \in 0 .. L /\ Fits(c)
      BY <1>5
    <2>2. Fitting(w, capacity) = CHOOSE n \in 0 .. L : Fits(n)
      BY <1>1, <1>2 DEF Fitting
    <2> HIDE DEF Fits
    <2> QED BY <1>6, <2>1, <2>2
  <1>8. list.count % 65536 = c
    <2>1. Bytes(cvars)[c] >= Bytes(cvars)[0] + 2 * (c - 0)
      BY <1>2, <1>5, BytesGrow
    <2>2. Bytes(cvars)[0] = 7 /\ Bytes(cvars)[c] \in Nat
      BY <1>2, <1>5, BytesType
    <2>3. c < 65536
      BY <1>0, <1>5, <2>1, <2>2
    <2>4. \A n \in Nat : n < 65536 => n % 65536 = n
      OBVIOUS
    <2> QED BY <1>4, <2>3, <2>4
  <1>9. PICK d : d = list.buf.data
    OBVIOUS
  <1>10. PICK n \in Nat : n = Len(d)
    BY <1>5, <1>9, LenType
  <1>11. d \in Seq(Values) /\ n >= 3
    <2>1. Place(cvars, c + 1) \in Nat /\ Place(cvars, c + 1) >= 4
      BY PlaceType
    <2>2. d \in Seq(Values)
      BY <1>5, <1>9, LenType
    <2> QED BY <1>5, <1>9, <1>10, <2>1, <2>2
  <1>12. PICK e : e = RulesList(w, capacity).data
    OBVIOUS
  <1>13. e = [d EXCEPT ![3] = c]
    <2>1. RulesList(w, capacity) = [list.buf EXCEPT !.data[3] = list.count % 65536]
      BY <1>3 DEF Counted
    <2>2. DOMAIN list.buf = {"size", "data", "capacity", "overflowed"}
      BY <1>5 DEF Buffers
    <2> QED BY <1>8, <1>9, <1>12, <2>1, <2>2
  <1>14. e[3] = c /\ \A i \in 4 .. n : e[i] = d[i]
    BY <1>10, <1>11, <1>13
  <1>15. FirstRules(e, cvars, c)
    BY <1>2, <1>5, <1>9, <1>10, <1>14, RulesKept
  <1> QED BY <1>1, <1>7, <1>12, <1>14, <1>15 DEF AreTheRules, FirstRules

-----------------------------------------------------------------------------
(* What the assumptions say of every world. *)
LEMMA WorldsShown ==
    ASSUME NEW w \in Worlds
    PROVE  /\ PlayersShown(w, Cardinality(DOMAIN w.clients), Limit["players"])
           /\ RulesShown(w, Limit["rules"])
  <1> DEFINE slots == Cardinality(DOMAIN w.clients)
  <1>1. MaxPacket \in Nat /\ MaxPacket < 65536
    BY ServerInfoAssumption, AnswersAssumption
  <1>2. Limit["players"] = MaxPacket /\ Limit["rules"] = 2 * MaxPacket
    BY DEF Limit, Responses
  <1>3. /\ slots \in 1 .. 128
        /\ w.clients \in [0 .. slots - 1 -> Clients]
        /\ w.edicts \in [0 .. slots -> Edicts]
        /\ w.cvars \in Seq(Cvars)
        /\ \E longest \in 0 .. MaxPacket :
              /\ \A i \in 0 .. slots - 1 : w.clients[i].name.len <= longest
              /\ 6 + slots * (10 + longest) <= MaxPacket
    BY AnswersAssumption
  <1> HIDE DEF slots
  <1>4. PICK most \in Nat :
            /\ \A i \in 0 .. slots - 1 : w.clients[i].name.len <= most
            /\ 6 + slots * (10 + most) <= MaxPacket
    BY <1>1, <1>3
  <1>5. PlayersShown(w, slots, MaxPacket)
    <2>1. MaxPacket \in Nat
      BY <1>1
    <2>2. \E longest \in Nat :
             /\ \A i \in 0 .. slots - 1 : w.clients[i].name.len <= longest
             /\ 6 + slots * (10 + longest) <= MaxPacket
      BY <1>4
    <2> QED BY <1>3, <2>1, <2>2, Zenon DEF PlayersShown
  <1>6. MaxPacket >= 16
    <2>1. PICK row \in Nat : row = 10 + most
      OBVIOUS
    <2>2. slots \in Nat /\ slots >= 1
      BY <1>3
    <2>3. \A x \in Nat : slots * x >= x /\ slots * x \in Nat
      BY <2>2
    <2>4. slots * row >= row /\ slots * row \in Nat /\ row >= 10
      BY <2>1, <2>3
    <2> QED BY <1>1, <1>4, <2>1, <2>4
  <1>7. 2 * MaxPacket \in Nat /\ 7 <= 2 * MaxPacket /\ 2 * MaxPacket < 131072
    BY <1>1, <1>6
  <1>8. RulesShown(w, 2 * MaxPacket)
    BY <1>3, <1>7 DEF RulesShown
  <1> QED BY <1>2, <1>5, <1>8 DEF slots

(* Every list a client reads is true of the moment it was written at, whatever
   the players and cvars are and however many there are of them. *)
THEOREM ListsAreTrue == Spec => ListsAreWhole
  <1> DEFINE True == /\ resp'["players"] # resp["players"] =>
                           PlayersRead(resp'["players"].data) = PlayersInOrder(world)
                     /\ resp'["rules"] # resp["rules"] =>
                           AreTheRules(resp'["rules"].data, Shown(world),
                                       Fitting(world, Limit["rules"]))
  <1>1. IInv /\ [Next]_vars => True
    <2> SUFFICES ASSUME IInv, [Next]_vars PROVE True
      OBVIOUS
    <2>1. world \in Worlds /\ underFlood \in BOOLEAN
      BY DEF IInv, TypeOK
    <2>2. \A r \in Responses : resp'[r] # resp[r] => resp'[r].data = Content(r).data
      <3>1. CASE Refreshed
        BY <3>1 DEF Refreshed, Updated, Fresh
      <3>2. CASE resp' = resp
        BY <3>2
      <3> QED BY <3>1, <3>2, QueriesRefresh
              DEF Next, vars, Frame, LimiterMoves, WorldMoves, cacheVars
    <2>3. \A r \in Responses : Content(r) = WriteResponse(r, world, underFlood, Limit[r])
      BY <2>1, AnswersAssumption DEF Content
    <2>4. {"players", "rules"} \subseteq Responses
      BY DEF Responses
    <2>5. Content("players") = PlayersList(world, Limit["players"])
      BY <2>3, <2>4 DEF WriteResponse
    <2>6. Content("rules") = RulesList(world, Limit["rules"])
      BY <2>3, <2>4 DEF WriteResponse
    <2>7. PlayersRead(Content("players").data) = PlayersInOrder(world)
      BY <2>1, <2>5, WorldsShown, PlayersAreRead
    <2>8. AreTheRules(Content("rules").data, Shown(world), Fitting(world, Limit["rules"]))
      BY <2>1, <2>6, WorldsShown, RulesAreRead
    <2> QED BY <2>2, <2>4, <2>7, <2>8
  <1>2. Spec => [][True]_vars
    <2> HIDE DEF True
    <2> QED BY <1>1, Invariant, PTL DEF Spec
  <1> QED BY <1>2 DEF ListsAreWhole

=============================================================================
