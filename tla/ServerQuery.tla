---------------------------- MODULE ServerQuery -----------------------------
(***************************************************************************)
(* How CServerInfo puts the limiter and the list of bans together:         *)
(* Reunion_PreprocessPacket drops what comes from a banned source before   *)
(* anything is counted, handleQuery asks the limiter, and startFrame lets  *)
(* bans expire and turns the flooders of checkRates into new bans.  The    *)
(* console works on the list behind the limiter's back.                    *)
(***************************************************************************)
EXTENDS Integers, Sequences, FiniteSets, Sublists

CONSTANTS
    IPs, Ports, NoIP, AnyPort, ExceptIPs,
    MaxStored, MaxLP, MaxHP, MinHP,
    BanLevel, BanTime,
    ConsoleTimes, TicksPerSecond, SecondsPerMinute, CheckInterval, FrameSteps, Word,
    QueryBound,     \* bound of the model: packets between two rate checks
    LastBan,        \* bound of the model: no console ban is issued later
    EndOfTime,      \* bound of the model: the last frame
    MaxBans         \* bound of the model: length of the list the console adds to

VARIABLES
    lastQueries, lastAdded, uniqueQueries, totalQueries, useGlobal,
    asked, grantedLow, grantedGlobal, added,
    bans, realTime, lastCheck

Limiter == INSTANCE QueryLimiter WITH Deltas <- 1 .. EndOfTime
Banlist == INSTANCE QueryBanlist WITH LimiterEnabled <- TRUE

ASSUME ServerQueryAssumption ==
    /\ Banlist!BanlistAssumption
    /\ Limiter!SourcesAssumption /\ Limiter!LimitsAssumption /\ Limiter!RatesAssumption

limiterVars == <<lastQueries, lastAdded, uniqueQueries, totalQueries, useGlobal,
                 asked, grantedLow, grantedGlobal, added>>
banlistVars == <<bans, realTime, lastCheck>>
vars == <<limiterVars, banlistVars>>

-----------------------------------------------------------------------------
Init == Limiter!Init /\ Banlist!Init

(* Reunion_PreprocessPacket: a packet of a banned source leaves no trace. *)
BannedPacket(adr) ==
    /\ Banlist!IsBanned(adr[1])
    /\ UNCHANGED vars

(* faulty variant: the packet is counted first *)
PacketBeforeBan(adr) ==
    /\ \/ Limiter!UnlimitedQuery
       \/ Limiter!GlobalQuery
       \/ \E critical \in BOOLEAN : Limiter!AllowQuery(adr, critical)
    /\ UNCHANGED banlistVars

Packet(adr) ==
    /\ ~Banlist!IsBanned(adr[1])
    /\ \/ Limiter!UnlimitedQuery
       \/ Limiter!GlobalQuery
       \/ \E critical \in BOOLEAN : Limiter!AllowQuery(adr, critical)
    /\ UNCHANGED banlistVars

(* The flooders in the order in which checkRates walks the ring. *)
FloodersInOrder(delta) ==
    LET slots == {i \in Limiter!Slots : Limiter!Flooding(i, delta)}
    IN  [n \in 1 .. Cardinality(slots) |-> lastQueries[Nth(slots, n)].ip]

(* faulty variant: the frame bans its flooders and forgets the rates *)
FrameWithoutRates(time) ==
    /\ Banlist!Frame(time, IF Banlist!CheckDue(time)
                           THEN FloodersInOrder(time - lastCheck) ELSE <<>>)
    /\ UNCHANGED limiterVars

(* startFrame *)
Frame(time) ==
    IF Banlist!CheckDue(time)
    THEN /\ Banlist!Frame(time, FloodersInOrder(time - lastCheck))
         /\ Limiter!CheckRates(time - lastCheck)
    ELSE /\ Banlist!Frame(time, <<>>)
         /\ UNCHANGED limiterVars

ConsoleBan(ip, minutes) ==
    /\ Banlist!ConsoleBan(ip, minutes)
    /\ UNCHANGED limiterVars

ConsoleUnban(ip) ==
    /\ Banlist!ConsoleUnban(ip)
    /\ UNCHANGED limiterVars

Next ==
    \/ \E adr \in Limiter!Addresses : BannedPacket(adr) \/ Packet(adr)
    \/ \E step \in FrameSteps : Frame(realTime + step)
    \/ \E ip \in IPs, minutes \in ConsoleTimes : ConsoleBan(ip, minutes)
    \/ \E ip \in IPs : ConsoleUnban(ip)

Spec == Init /\ [][Next]_vars

-----------------------------------------------------------------------------
(* PROPERTIES *)

TypeOK == Limiter!TypeOK /\ Banlist!TypeOK

(* What QueryBanlist says of the list: bans last as long as announced and not
   much longer, and lifting one touches no other source.  It is checked here,
   where the flooders come from the limiter and not from anywhere. *)
BanIsOver == Banlist!BanIsOver
BanLastsAsAnnounced == Banlist!BanLastsAsAnnounced
UnbanIsExact == Banlist!UnbanIsExact

FloodBans(ip) == {n \in DOMAIN bans : bans[n].ip = ip /\ bans[n].flood}

(* Flooding earns one ban at a time.  It takes three parts of the code to keep
   the list free of a second one: the ban check in front of the limiter, the
   rate that checkRates resets, and the single ring entry of each source. *)
OneFloodBan == \A ip \in IPs : Cardinality(FloodBans(ip)) <= 1

(* The rate of a source banned for flooding stays at zero in the ring, also
   when the console has banned it a second time or lifted one of two bans. *)
FloodBannedIsQuiet ==
    \A ip \in IPs : FloodBans(ip) # {} =>
        \A i \in Limiter!Slots : lastQueries[i].ip = ip => lastQueries[i].rate = 0

=============================================================================
