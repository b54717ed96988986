---------------------------- MODULE QueryBanlist ----------------------------
(***************************************************************************)
(* The list of banned sources: class CQueryBanlist of query_banlist.cpp,   *)
(* the console commands reu_ban and reu_unban that fill and empty it, and  *)
(* the frame of CServerInfo::startFrame that lets the bans expire.         *)
(*                                                                         *)
(* Time is counted in ticks; a ban's end is in whole seconds, as the code  *)
(* truncates the clock to uint32 both when it sets an end and when it      *)
(* compares one.                                                           *)
(***************************************************************************)
EXTENDS Integers, Sequences, Sublists

CONSTANTS
    IPs,              \* source ips
    ConsoleTimes,     \* minutes given to reu_ban
    BanTime,          \* QueryFloodBanTime, minutes; 0 when flooders are not banned
    LimiterEnabled,   \* EnableQueryLimiter
    TicksPerSecond,
    SecondsPerMinute,
    CheckInterval,    \* QUERY_CHECK_INTERVAL in ticks
    FrameSteps,       \* lengths of a frame in ticks
    Word,             \* 2^32, the range of uint32_t
    LastBan,          \* bound of the model: no ban is issued later
    EndOfTime,        \* bound of the model: the last frame
    MaxBans           \* bound of the model: length of the list

(* what the module takes for granted of its constants *)
BanlistAssumption ==
    /\ BanTime \in Nat /\ ConsoleTimes \subseteq Nat
    /\ LimiterEnabled \in BOOLEAN
    /\ TicksPerSecond \in Nat \ {0}
    /\ SecondsPerMinute \in Nat \ {0}
    /\ CheckInterval \in Nat
    /\ FrameSteps \subseteq Nat \ {0}
    /\ Word \in Nat \ {0}
    /\ LastBan \in Nat /\ EndOfTime \in Nat /\ MaxBans \in Nat

VARIABLES
    bans,       \* m_bans, see Ban
    realTime,   \* CServerInfo::m_realTime, in ticks
    lastCheck   \* CServerInfo::m_lastRatesCheck, in ticks

vars == <<bans, realTime, lastCheck>>

(* flood: checkRates issued the ban and gave its pps (a console ban has 0);
   until: observer, the tick at which the announced minutes are over. *)
Ban == [ip : IPs, end : 0 .. Word - 1, flood : BOOLEAN, until : Nat]

Seconds(ticks) == (ticks \div TicksPerSecond) % Word

-----------------------------------------------------------------------------
IsBanned(ip) == \E n \in DOMAIN bans : bans[n].ip = ip

BanOf(ip, minutes, time, flood) ==
    [ip    |-> ip,
     end   |-> (Seconds(time) + minutes * SecondsPerMinute) % Word,
     flood |-> flood,
     until |-> time + minutes * SecondsPerMinute * TicksPerSecond]

(* faulty variant: the first ban of the list goes, whoever it is for *)
WithoutFirstOfList(list, ip) == IF list = <<>> THEN list ELSE Tail(list)

(* removeBan: the first entry of the ip, and no other *)
WithoutFirst(list, ip) ==
    Sublist(list, {n \in DOMAIN list :
                       list[n].ip = ip => \E m \in 1 .. n - 1 : list[m].ip = ip})

(* faulty variants: the last second is cut off; ended bans are kept *)
Unexpired(list, time) ==
    Sublist(list, {n \in DOMAIN list : list[n].end > Seconds(time)})
UnexpiredNever(list, time) == list

(* removeExpired *)
StillBanned(list, time) ==
    Sublist(list, {n \in DOMAIN list : list[n].end >= Seconds(time)})

-----------------------------------------------------------------------------
Init ==
    /\ bans = <<>>
    /\ realTime = 0
    /\ lastCheck = 0

(* reu_ban <ip> <minutes> *)
ConsoleBan(ip, minutes) ==
    /\ realTime <= LastBan
    /\ Len(bans) < MaxBans
    /\ bans' = Append(bans, BanOf(ip, minutes, realTime, FALSE))
    /\ UNCHANGED <<realTime, lastCheck>>

(* reu_unban <ip> *)
ConsoleUnban(ip) ==
    /\ bans' = WithoutFirst(bans, ip)
    /\ UNCHANGED <<realTime, lastCheck>>

CheckDue(time) == LimiterEnabled /\ time - lastCheck > CheckInterval

(* faulty variant: the time of the next check is stored *)
FrameScheduled(time, flooders) ==
    /\ time <= EndOfTime
    /\ realTime' = time
    /\ IF CheckDue(time)
       THEN /\ lastCheck' = time + CheckInterval
            /\ bans' = StillBanned(bans, time) \o
                   [n \in DOMAIN flooders |-> BanOf(flooders[n], BanTime, time, TRUE)]
       ELSE UNCHANGED <<lastCheck, bans>>

(* startFrame: the clock is read, and when the interval is over the ended bans
   go before checkRates adds those of the flooders it finds, in the order of
   the ring. *)
Frame(time, flooders) ==
    /\ time <= EndOfTime
    /\ realTime' = time
    /\ IF CheckDue(time)
       THEN /\ lastCheck' = time
            /\ bans' = StillBanned(bans, time) \o
                   [n \in DOMAIN flooders |-> BanOf(flooders[n], BanTime, time, TRUE)]
       ELSE UNCHANGED <<lastCheck, bans>>

(* What checkRates may hand over here: one flooder or none, while bans are
   issued at all. *)
FloodersOf(time) ==
    IF CheckDue(time) /\ BanTime # 0 /\ time <= LastBan /\ Len(bans) < MaxBans
    THEN {<<>>} \cup {<<ip>> : ip \in IPs}
    ELSE {<<>>}

FrameStep == \E step \in FrameSteps :
    \E flooders \in FloodersOf(realTime + step) : Frame(realTime + step, flooders)

Next ==
    \/ \E ip \in IPs, minutes \in ConsoleTimes : ConsoleBan(ip, minutes)
    \/ \E ip \in IPs : ConsoleUnban(ip)
    \/ FrameStep

Spec == Init /\ [][Next]_vars

-----------------------------------------------------------------------------
(* PROPERTIES *)

TypeOK ==
    /\ bans \in Seq(Ban)
    /\ realTime \in Nat
    /\ lastCheck \in 0 .. realTime

(* Time alone lifts no ban before the minutes that addBan announced are over,
   although the clock is cut to seconds on both sides of the comparison. *)
BanLastsAsAnnounced ==
    [][realTime' # realTime =>
          \A n \in DOMAIN bans : bans[n].until > realTime' =>
              \E m \in DOMAIN bans' : bans'[m] = bans[n]]_vars

(* A ban outlives the announced minutes by the truncated second and one check
   interval at most.  "ip %s banned for %i minutes from console"
   (query_banlist.cpp:13) says so of the console's bans too. *)
BanIsOver ==
    \A n \in DOMAIN bans :
        realTime < bans[n].until + TicksPerSecond + CheckInterval

OfOthers(list, ip) == Sublist(list, {n \in DOMAIN list : list[n].ip # ip})

(* reu_unban of one source leaves the other sources' bans alone. *)
UnbanIsExact ==
    [][\A ip \in IPs : ConsoleUnban(ip) => OfOthers(bans', ip) = OfOthers(bans, ip)]_vars

(* "ReuBans: removed ban of %s" (query_banlist.cpp:20): the source whose
   ban the console removed is not banned any more. *)
UnbanAdmits ==
    [][\A ip \in IPs : ConsoleUnban(ip) => ~IsBanned(ip)']_vars

=============================================================================
