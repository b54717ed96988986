---------------------------- MODULE QueryLimiter ----------------------------
(***************************************************************************)
(* The flood limiter of connectionless queries: class CQueryLimiter of     *)
(* query_limiter.h and query_limiter.cpp, driven the way its only caller,  *)
(* CServerInfo::handleQuery, drives it when EnableQueryLimiter is 1.       *)
(*                                                                         *)
(* Sources are told apart in a ring of MaxStored entries, each with the    *)
(* rate of one ip.  A source that is not in the ring takes the next entry, *)
(* whoever owns it.  Too many new sources, or too many queries, switch the *)
(* server to one limit for everybody ("global" mode).  Once per interval   *)
(* the rates are checked: flooders are banned, the others cool down.       *)
(*                                                                         *)
(* One action is one connectionless packet, from its count in              *)
(* incomingQuery to the verdict of allowQuery or allowGlobalQuery; or one  *)
(* call of checkRates.                                                     *)
(***************************************************************************)
EXTENDS Integers, FiniteSets

CONSTANTS
    IPs,            \* source ips
    Ports,          \* source ports
    NoIP,           \* the zero ip of an entry never used (memset in the constructor)
    AnyPort,        \* port 0 of a whitelist entry
    ExceptIPs,      \* the whitelist: pairs <<ip, port or AnyPort>>
    MaxStored,      \* MAX_STORED_QUERIES
    MaxLP,          \* MAX_LP_QUERIES_RATE
    MaxHP,          \* MAX_HP_QUERIES_RATE
    MinHP,          \* MIN_HP_QUERIES_RATE
    BanLevel,       \* QueryFloodBanLevel, queries per second
    BanTime,        \* QueryFloodBanTime, 0 when flooders are not banned
    TicksPerSecond, \* resolution of the model's time
    Deltas,         \* times between two rate checks, in ticks
    QueryBound      \* bound of the model: packets between two rate checks

ASSUME SourcesAssumption ==
    /\ NoIP \notin IPs
    /\ AnyPort \notin Ports
    /\ ExceptIPs \subseteq IPs \X (Ports \cup {AnyPort})

ASSUME LimitsAssumption ==
    /\ MaxStored \in Nat \ {0}
    /\ MaxLP \in Nat \ {0}
    /\ MinHP \in Nat /\ MaxHP \in Nat
    /\ MaxLP < MinHP /\ MinHP < MaxHP

ASSUME RatesAssumption ==
    /\ BanLevel \in Nat /\ BanTime \in Nat
    /\ TicksPerSecond \in Nat \ {0}
    /\ Deltas \subseteq Nat \ {0}
    /\ QueryBound \in Nat

VARIABLES
    lastQueries,    \* m_lastQueries: the ring, [ip, rate] per entry
    lastAdded,      \* m_lastAdded & (MaxStored - 1): the entry filled last
    uniqueQueries,  \* m_uniqueQueries
    totalQueries,   \* m_totalQueries
    useGlobal       \* m_useGlobalRateLimit

(***************************************************************************)
(* Observers: they record what the callers were told since the last rate   *)
(* check and no action reads them.                                         *)
(***************************************************************************)
VARIABLES
    asked,          \* queries of each ip that were put to allowQuery
    grantedLow,     \* low-priority queries of each ip that were let through
    grantedGlobal,  \* packets let through in global mode
    added           \* ring entries filled

limiterVars == <<lastQueries, lastAdded, uniqueQueries, totalQueries, useGlobal>>
observers   == <<asked, grantedLow, grantedGlobal, added>>
vars        == <<limiterVars, observers>>

Slots == 0 .. MaxStored - 1
Addresses == IPs \X Ports

MaxUniqueFilter == 3 * MaxStored            \* MAX_UNIQUE_QUERIES_FILTER
MaxTotalFilter  == MaxStored * MaxHP        \* MAX_TOTAL_QUERIES_FILTER
CalmLevel       == (MaxStored * 3) \div 4   \* unique queries forgotten at a check

Larger(a, b) == IF a > b THEN a ELSE b

-----------------------------------------------------------------------------
(* allowForExcept *)
Whitelisted(adr) ==
    \E e \in ExceptIPs : e[1] = adr[1] /\ e[2] \in {AnyPort, adr[2]}

(* faulty variant: the scan stops one entry short *)
TrackedShort(ip) == \E i \in Slots \ {MaxStored - 1} : lastQueries[i].ip = ip

Tracked(ip) == \E i \in Slots : lastQueries[i].ip = ip

(* the first entry the scan of allowQuery stops at *)
SlotOf(ip) ==
    CHOOSE i \in Slots :
        /\ lastQueries[i].ip = ip
        /\ \A j \in Slots : lastQueries[j].ip = ip => i <= j

(* faulty variant: the mask is forgotten *)
NextSlotUnmasked == lastAdded + 1

NextSlot == IF lastAdded = MaxStored - 1 THEN 0 ELSE lastAdded + 1

(* checkForGlobalRateLimit, with the counters it is called with *)
ExceedsFilter(unique, total) ==
    unique > MaxUniqueFilter \/ total > MaxTotalFilter

RateLimit(critical) == IF critical THEN MaxHP ELSE MaxLP

RateAfter(rate, critical) ==
    IF critical /\ rate < MinHP THEN MinHP ELSE rate + 1

(* What allowQuery returns in the present state. *)
AllowsKnown(ip, critical) ==
    RateAfter(lastQueries[SlotOf(ip)].rate, critical) <= RateLimit(critical)

Allows(adr, critical) ==
    \/ Whitelisted(adr)
    \/ IF Tracked(adr[1]) THEN AllowsKnown(adr[1], critical)
                          ELSE uniqueQueries < MaxStored

-----------------------------------------------------------------------------
Init ==
    /\ lastQueries = [i \in Slots |-> [ip |-> NoIP, rate |-> 0]]
    /\ lastAdded = MaxStored - 1
    /\ uniqueQueries = 0
    /\ totalQueries = 0
    /\ useGlobal = FALSE
    /\ asked = [ip \in IPs |-> 0]
    /\ grantedLow = [ip \in IPs |-> 0]
    /\ grantedGlobal = 0
    /\ added = 0

(* incomingQuery *)
CountQuery ==
    /\ totalQueries < QueryBound
    /\ totalQueries' = totalQueries + 1

(* faulty variant: the flag is not looked at *)
CountedAlways == CountQuery

(* handleQuery asks the limiter about single sources only while the flag
   of the global limit is down. *)
Counted == CountQuery /\ ~useGlobal

Observe(ip, critical, granted) ==
    /\ asked' = [asked EXCEPT ![ip] = @ + 1]
    /\ grantedLow' = IF granted /\ ~critical
                     THEN [grantedLow EXCEPT ![ip] = @ + 1]
                     ELSE grantedLow
    /\ UNCHANGED grantedGlobal

(* A packet that the handler answers, drops or passes on without asking. *)
UnlimitedQuery ==
    /\ Counted
    /\ UNCHANGED <<lastQueries, lastAdded, uniqueQueries, useGlobal, observers>>

WhitelistedQuery(adr) ==
    /\ Counted
    /\ Whitelisted(adr)
    /\ UNCHANGED <<lastQueries, lastAdded, uniqueQueries, useGlobal, observers>>

KnownSourceQuery(adr, critical) ==
    /\ Counted
    /\ ~Whitelisted(adr)
    /\ Tracked(adr[1])
    /\ lastQueries' = [lastQueries EXCEPT
           ![SlotOf(adr[1])].rate = RateAfter(@, critical)]
    /\ Observe(adr[1], critical, AllowsKnown(adr[1], critical))
    /\ UNCHANGED <<lastAdded, uniqueQueries, useGlobal, added>>

(* faulty variants: the entry starts uncounted; the threshold of new sources
   is not tested *)
NewSourceUncounted(adr, critical) ==
    /\ Counted
    /\ ~Whitelisted(adr)
    /\ ~Tracked(adr[1])
    /\ uniqueQueries < MaxStored
    /\ uniqueQueries' = uniqueQueries + 1
    /\ lastAdded' = NextSlot
    /\ lastQueries' = [lastQueries EXCEPT
           ![NextSlot] = [ip |-> adr[1], rate |-> 0]]
    /\ Observe(adr[1], critical, TRUE)
    /\ added' = added + 1
    /\ UNCHANGED useGlobal

NewSourceUnlimited(adr, critical) ==
    /\ Counted
    /\ ~Whitelisted(adr)
    /\ ~Tracked(adr[1])
    /\ uniqueQueries' = uniqueQueries + 1
    /\ lastAdded' = NextSlot
    /\ lastQueries' = [lastQueries EXCEPT
           ![NextSlot] = [ip |-> adr[1], rate |-> 1]]
    /\ Observe(adr[1], critical, TRUE)
    /\ added' = added + 1
    /\ UNCHANGED useGlobal

NewSourceQuery(adr, critical) ==
    /\ Counted
    /\ ~Whitelisted(adr)
    /\ ~Tracked(adr[1])
    /\ uniqueQueries < MaxStored
    /\ uniqueQueries' = uniqueQueries + 1
    /\ lastAdded' = NextSlot
    /\ lastQueries' = [lastQueries EXCEPT
           ![NextSlot] = [ip |-> adr[1], rate |-> 1]]
    /\ Observe(adr[1], critical, TRUE)
    /\ added' = added + 1
    /\ UNCHANGED useGlobal

(* faulty variant: nobody looks at the global threshold until checkRates *)
RefusedSourceUnchecked(adr, critical) ==
    /\ Counted
    /\ ~Whitelisted(adr)
    /\ ~Tracked(adr[1])
    /\ uniqueQueries >= MaxStored
    /\ uniqueQueries' = uniqueQueries + 1
    /\ Observe(adr[1], critical, FALSE)
    /\ UNCHANGED <<lastQueries, lastAdded, useGlobal, added>>

(* Flood from many new ips: the source is refused and stays unknown. *)
RefusedSourceQuery(adr, critical) ==
    /\ Counted
    /\ ~Whitelisted(adr)
    /\ ~Tracked(adr[1])
    /\ uniqueQueries >= MaxStored
    /\ uniqueQueries' = uniqueQueries + 1
    /\ useGlobal' = ExceedsFilter(uniqueQueries + 1, totalQueries + 1)
    /\ Observe(adr[1], critical, FALSE)
    /\ UNCHANGED <<lastQueries, lastAdded, added>>

AllowQuery(adr, critical) ==
    \/ WhitelistedQuery(adr)
    \/ KnownSourceQuery(adr, critical)
    \/ NewSourceQuery(adr, critical)
    \/ RefusedSourceQuery(adr, critical)

(* faulty variant: the limit is reached instead of kept below *)
AllowsGlobalInclusive == totalQueries + 1 <= MaxStored

(* allowGlobalQuery, after incomingQuery *)
AllowsGlobal == totalQueries + 1 < MaxStored

GlobalQuery ==
    /\ CountQuery
    /\ useGlobal
    /\ grantedGlobal' = IF AllowsGlobal THEN grantedGlobal + 1 ELSE grantedGlobal
    /\ UNCHANGED <<lastQueries, lastAdded, uniqueQueries, useGlobal,
                   asked, grantedLow, added>>

-----------------------------------------------------------------------------
(* checkRates, delta ticks after the last check *)

QueriesPerSecond(rate, delta) == (rate * TicksPerSecond) \div delta

Flooding(i, delta) ==
    /\ BanTime # 0
    /\ lastQueries[i].rate > 0
    /\ QueriesPerSecond(lastQueries[i].rate, delta) > BanLevel

(* the ips handed to CQueryBanlist::addBan *)
Flooders(delta) == {lastQueries[i].ip : i \in {j \in Slots : Flooding(j, delta)}}

(* faulty variant: rates never cool down *)
CooledRateNever(rate, delta) == rate

CooledRate(rate, delta) ==
    IF rate <= 2 * MaxLP
    THEN 0
    ELSE Larger(MaxLP \div 2, rate - (BanLevel * delta) \div TicksPerSecond)

(* faulty variant: the count of new sources is never reduced *)
CalmedUniqueNever(unique) == unique

CalmedUnique(unique) ==
    IF unique <= CalmLevel THEN 0 ELSE Larger(CalmLevel, unique - MaxStored)

CheckRates(delta) ==
    /\ lastQueries' = [i \in Slots |-> [lastQueries[i] EXCEPT
           !.rate = IF Flooding(i, delta) THEN 0 ELSE CooledRate(@, delta)]]
    /\ useGlobal' = ExceedsFilter(uniqueQueries, totalQueries)
    /\ totalQueries' = 0
    /\ uniqueQueries' = CalmedUnique(uniqueQueries)
    /\ asked' = [ip \in IPs |-> 0]
    /\ grantedLow' = [ip \in IPs |-> 0]
    /\ grantedGlobal' = 0
    /\ added' = 0
    /\ UNCHANGED lastAdded

-----------------------------------------------------------------------------
Query ==
    \/ UnlimitedQuery
    \/ GlobalQuery
    \/ \E adr \in Addresses, critical \in BOOLEAN : AllowQuery(adr, critical)

RatesChecked == \E delta \in Deltas : CheckRates(delta)

Next == Query \/ RatesChecked

Spec == Init /\ [][Next]_vars

(* Frames keep coming: SV_Frame_hook calls startFrame after every engine
   frame, and startFrame calls checkRates as soon as the interval has passed. *)
FairSpec == Spec /\ WF_vars(RatesChecked)

-----------------------------------------------------------------------------
(* PROPERTIES *)

TypeOK ==
    /\ lastQueries \in [Slots -> [ip : IPs \cup {NoIP}, rate : Nat]]
    /\ lastAdded \in Slots
    /\ uniqueQueries \in Nat
    /\ totalQueries \in Nat
    /\ useGlobal \in BOOLEAN
    /\ asked \in [IPs -> Nat]
    /\ grantedLow \in [IPs -> Nat]
    /\ grantedGlobal \in Nat
    /\ added \in Nat

(* A source never owns two entries of the ring, so its queries are counted
   in one place and it has one rate to be banned for. *)
NoDuplicateSources ==
    \A i, j \in Slots :
        lastQueries[i].ip = lastQueries[j].ip /\ lastQueries[i].ip # NoIP => i = j

(* The count of new sources passes its threshold by one at most, and only
   together with the global limit: the flood cannot run the counter up while
   sources are still told apart.  (allowQuery is not asked in global mode, and
   the decay of checkRates comes after the flag is computed.) *)
GlobalWhenSaturated ==
    /\ uniqueQueries <= MaxUniqueFilter + 1
    /\ uniqueQueries > MaxUniqueFilter => useGlobal

(* Between two rate checks a source gets at most twice the answers of its
   low-priority limit: new sources may push it out of the ring, which makes it
   a new source itself, but they can do so only once per interval. *)
LowPriorityBounded == \A ip \in IPs : grantedLow[ip] <= 2 * MaxLP

(* In global mode the whole server lets through fewer packets per interval
   than the ring has entries. *)
GlobalBudget == grantedGlobal < MaxStored

(* How many entries were filled after entry i, and the entries filled since
   the last rate check. *)
EntryAge(i) == IF i <= lastAdded THEN lastAdded - i ELSE lastAdded - i + MaxStored
Fresh == {i \in Slots : EntryAge(i) < added}

(* An entry filled since the last check keeps its owner until the next one:
   nobody can send many new sources to wipe the rate of a flooder that
   arrived in this interval before checkRates has seen it. *)
FreshEntriesStay ==
    [][\A i \in Fresh : lastQueries'[i].ip = lastQueries[i].ip]_vars

(* Nobody is banned for a rate he did not send: a source that checkRates bans
   has put enough queries to the limiter since the last check, give or take
   the MinHP - 1 that its first high-priority query is credited with. *)
BanIsEarned ==
    [][\A delta \in Deltas : CheckRates(delta) =>
          \A ip \in Flooders(delta) :
              (asked[ip] + MinHP - 1) * TicksPerSecond > BanLevel * delta]_vars

(* When the packets stop, the server leaves global mode for good. *)
FloodEnds == <>[][RatesChecked]_vars => <>[](~useGlobal)

(* The limiter keeps the promise of FloodBudget. *)
Budget == INSTANCE FloodBudget WITH
    SourceBudget <- 2 * MaxLP,
    ServerBudget <- MaxStored - 1,
    global       <- useGlobal

KeepsBudget == Budget!Spec

=============================================================================
