------------------------- MODULE ServerQueryProofs --------------------------
(***************************************************************************)
(* Theorems about ServerQuery, for every set of sources, every size of the *)
(* ring, every flood level and every length of bans and frames.            *)
(*                                                                         *)
(* What is known of the limiter alone holds in the composition, because    *)
(* each of its steps is a step of the limiter or none (QueryLimiterProofs  *)
(* is used as it stands).  To it the invariant adds what links the ring to *)
(* the list: a source banned for flooding has no rate left, and an entry   *)
(* nobody owns has none.                                                   *)
(***************************************************************************)
EXTENDS ServerQuery, SublistProofs, TLAPS

LP == INSTANCE QueryLimiterProofs WITH Deltas <- 1 .. EndOfTime

(* the clock and the last check, which is never further back than the interval *)
Clock ==
    /\ realTime \in 0 .. EndOfTime
    /\ lastCheck \in 0 .. realTime
    /\ realTime <= lastCheck + CheckInterval

FloodBansApart ==
    \A m, n \in DOMAIN bans :
        bans[m].flood /\ bans[n].flood /\ bans[m].ip = bans[n].ip => m = n

Inv ==
    /\ LP!IInv
    /\ Clock
    /\ bans \in Seq(Banlist!Ban)
    /\ LP!UnusedAreQuiet
    /\ FloodBannedIsQuiet
    /\ FloodBansApart

-----------------------------------------------------------------------------
(* What the assumption says, part by part. *)
LEMMA Limits ==
    /\ MaxStored \in Nat \ {0} /\ MaxLP \in Nat \ {0}
    /\ NoIP \notin IPs
    /\ BanTime \in Nat /\ ConsoleTimes \subseteq Nat
    /\ TicksPerSecond \in Nat \ {0} /\ SecondsPerMinute \in Nat \ {0}
    /\ CheckInterval \in Nat /\ FrameSteps \subseteq Nat \ {0}
    /\ Word \in Nat \ {0} /\ EndOfTime \in Nat
  BY ServerQueryAssumption
     DEF Banlist!BanlistAssumption, Limiter!SourcesAssumption, Limiter!LimitsAssumption

LEMMA LimiterAssumptions ==
    LP!SourcesAssumption /\ LP!LimitsAssumption /\ LP!RatesAssumption
  BY ServerQueryAssumption
     DEF Limiter!SourcesAssumption, Limiter!LimitsAssumption, Limiter!RatesAssumption,
         LP!SourcesAssumption, LP!LimitsAssumption, LP!RatesAssumption

(* The limiter of the model is the one that the proofs are about. *)
LEMMA SameInit == Limiter!Init => LP!Init
  BY DEF Limiter!Init, LP!Init, Limiter!Slots, LP!Slots

LEMMA SameNext == [Limiter!Next]_(Limiter!vars) => [LP!Next]_(LP!vars)
  BY DEF Limiter!Next, Limiter!Query, Limiter!RatesChecked, Limiter!UnlimitedQuery,
         Limiter!GlobalQuery, Limiter!AllowQuery, Limiter!WhitelistedQuery,
         Limiter!KnownSourceQuery, Limiter!NewSourceQuery, Limiter!RefusedSourceQuery,
         Limiter!CheckRates, Limiter!vars, Limiter!limiterVars, Limiter!observers,
         Limiter!Counted, Limiter!CountQuery, Limiter!Whitelisted, Limiter!Tracked,
         Limiter!SlotOf, Limiter!NextSlot, Limiter!ExceedsFilter, Limiter!RateAfter,
         Limiter!RateLimit, Limiter!AllowsKnown, Limiter!Observe, Limiter!AllowsGlobal,
         Limiter!Flooding, Limiter!QueriesPerSecond, Limiter!CooledRate,
         Limiter!CalmedUnique, Limiter!CalmLevel, Limiter!Larger, Limiter!Slots,
         Limiter!Addresses, Limiter!MaxUniqueFilter, Limiter!MaxTotalFilter,
         LP!Next, LP!Query, LP!RatesChecked, LP!UnlimitedQuery,
         LP!GlobalQuery, LP!AllowQuery, LP!WhitelistedQuery,
         LP!KnownSourceQuery, LP!NewSourceQuery, LP!RefusedSourceQuery,
         LP!CheckRates, LP!vars, LP!limiterVars, LP!observers,
         LP!Counted, LP!CountQuery, LP!Whitelisted, LP!Tracked,
         LP!SlotOf, LP!NextSlot, LP!ExceedsFilter, LP!RateAfter,
         LP!RateLimit, LP!AllowsKnown, LP!Observe, LP!AllowsGlobal,
         LP!Flooding, LP!QueriesPerSecond, LP!CooledRate,
         LP!CalmedUnique, LP!CalmLevel, LP!Larger, LP!Slots,
         LP!Addresses, LP!MaxUniqueFilter, LP!MaxTotalFilter

LEMMA LimiterTypes ==
    ASSUME LP!IInv
    PROVE  Limiter!TypeOK /\ Limiter!NoDuplicateSources
  BY DEF LP!IInv, LP!TypeOK, LP!NoDuplicateSources, LP!Slots,
         Limiter!TypeOK, Limiter!NoDuplicateSources, Limiter!Slots

(* Sublists mean the same inside the list's module and outside. *)
LEMMA SameSublist ==
    ASSUME NEW list, NEW places
    PROVE  Banlist!Sublist(list, places) = Sublist(list, places)
  BY DEF Banlist!Sublist, Sublist, Banlist!Nth, Nth, Banlist!Cardinality, Cardinality

-----------------------------------------------------------------------------
(* the bans of those that flooded until then *)
NewBans(time) ==
    LET flooders == FloodersInOrder(time - lastCheck)
    IN  [n \in DOMAIN flooders |-> Banlist!BanOf(flooders[n], BanTime, time, TRUE)]

(* What a frame does when a check is due ... *)
LEMMA FrameWithCheck ==
    ASSUME NEW step \in FrameSteps, Frame(realTime + step), Banlist!CheckDue(realTime + step)
    PROVE  /\ realTime + step <= EndOfTime
           /\ realTime' = realTime + step /\ lastCheck' = realTime + step
           /\ bans' = Banlist!StillBanned(bans, realTime + step) \o NewBans(realTime + step)
           /\ Limiter!CheckRates((realTime + step) - lastCheck)
  <1>1. Banlist!Frame(realTime + step, FloodersInOrder((realTime + step) - lastCheck))
        /\ Limiter!CheckRates((realTime + step) - lastCheck)
    BY DEF Frame
  <1>2. /\ realTime + step <= EndOfTime
        /\ realTime' = realTime + step /\ lastCheck' = realTime + step
    BY <1>1 DEF Banlist!Frame
  <1>3. bans' = Banlist!StillBanned(bans, realTime + step) \o NewBans(realTime + step)
    BY <1>1 DEF Banlist!Frame, NewBans, Banlist!BanOf, Banlist!StillBanned, FloodersInOrder
  <1> QED BY <1>1, <1>2, <1>3

(* ... and when none is. *)
LEMMA FrameWithoutCheck ==
    ASSUME NEW step \in FrameSteps, Frame(realTime + step), ~Banlist!CheckDue(realTime + step)
    PROVE  /\ realTime + step <= EndOfTime
           /\ realTime' = realTime + step
           /\ UNCHANGED <<bans, lastCheck, limiterVars>>
  BY DEF Frame, Banlist!Frame

-----------------------------------------------------------------------------
(* Every step is a step of the limiter, or none. *)
LEMMA StepOfLimiter ==
    ASSUME Clock, [Next]_vars
    PROVE  [Limiter!Next]_(Limiter!vars)
  <1>1. CASE UNCHANGED limiterVars
    BY <1>1 DEF limiterVars, Limiter!vars, Limiter!limiterVars, Limiter!observers
  <1>2. ASSUME NEW adr \in Limiter!Addresses, Packet(adr) PROVE Limiter!Next
    BY <1>2 DEF Packet, Limiter!Next, Limiter!Query
  <1>3. ASSUME NEW step \in FrameSteps, Frame(realTime + step),
               Banlist!CheckDue(realTime + step)
        PROVE  Limiter!Next
    <2>1. /\ Limiter!CheckRates((realTime + step) - lastCheck)
          /\ realTime + step <= EndOfTime
      BY <1>3, FrameWithCheck
    <2>2. (realTime + step) - lastCheck \in 1 .. EndOfTime
      BY <1>3, <2>1, Limits DEF Clock, Banlist!CheckDue
    <2> QED BY <2>1, <2>2 DEF Limiter!Next, Limiter!RatesChecked
  <1>4. ASSUME NEW step \in FrameSteps, Frame(realTime + step),
               ~Banlist!CheckDue(realTime + step)
        PROVE  UNCHANGED limiterVars
    BY <1>4, FrameWithoutCheck
  <1> QED
    BY <1>1, <1>2, <1>3, <1>4 DEF Next, vars, BannedPacket, ConsoleBan, ConsoleUnban

LEMMA LimiterKept ==
    ASSUME LP!IInv, LP!UnusedAreQuiet, Clock, [Next]_vars
    PROVE  LP!IInv' /\ LP!UnusedAreQuiet'
  BY StepOfLimiter, SameNext, LP!NextIInv, LP!RatesKept, LimiterAssumptions

-----------------------------------------------------------------------------
(* THE LIST *)

Ends(time) == {n \in DOMAIN bans : bans[n].end >= Banlist!Seconds(time)}

LEMMA SecondsType ==
    ASSUME NEW time \in Nat
    PROVE  Banlist!Seconds(time) \in 0 .. Word - 1
  <1>1. time \div TicksPerSecond \in Nat
    BY Limits
  <1> QED BY <1>1, Limits DEF Banlist!Seconds

LEMMA BanType ==
    ASSUME NEW ip \in IPs, NEW minutes \in Nat, NEW time \in Nat, NEW flood \in BOOLEAN
    PROVE  Banlist!BanOf(ip, minutes, time, flood) \in Banlist!Ban
  <1>1. minutes * SecondsPerMinute \in Nat
    BY Limits
  <1>2. (minutes * SecondsPerMinute) * TicksPerSecond \in Nat
    BY <1>1, Limits
  <1>3. Banlist!Seconds(time) + minutes * SecondsPerMinute \in Nat
    BY <1>1, SecondsType, Limits
  <1>4. (Banlist!Seconds(time) + minutes * SecondsPerMinute) % Word \in 0 .. Word - 1
    BY <1>3, Limits
  <1> QED BY <1>2, <1>4 DEF Banlist!BanOf, Banlist!Ban

LEMMA BansLeft ==
    ASSUME bans \in Seq(Banlist!Ban), NEW time
    PROVE  /\ Ends(time) \in SUBSET DOMAIN bans
           /\ Banlist!StillBanned(bans, time) = Sublist(bans, Ends(time))
           /\ Banlist!StillBanned(bans, time) \in Seq(Banlist!Ban)
  <1>1. Ends(time) \in SUBSET DOMAIN bans
    BY DEF Ends
  <1>2. Banlist!StillBanned(bans, time) = Sublist(bans, Ends(time))
    BY SameSublist DEF Banlist!StillBanned, Ends
  <1> QED BY <1>1, <1>2, SublistIsList

(* The slots of the flooders, and what a frame makes of them. *)
Over(time) == {i \in Limiter!Slots : Limiter!Flooding(i, time - lastCheck)}

LEMMA SlotsFinite ==
    /\ Limiter!Slots \in SUBSET Int
    /\ IsFiniteSet(Limiter!Slots)
  BY Limits, FS_Interval DEF Limiter!Slots

LEMMA FlooderKnown ==
    ASSUME LP!IInv, LP!UnusedAreQuiet, NEW time, NEW i \in Over(time)
    PROVE  /\ i \in Limiter!Slots
           /\ lastQueries[i].ip \in IPs
           /\ lastQueries[i].rate > 0
           /\ Limiter!Flooding(i, time - lastCheck)
  <1>1. i \in Limiter!Slots /\ lastQueries[i].rate > 0
        /\ Limiter!Flooding(i, time - lastCheck)
    BY DEF Over, Limiter!Flooding
  <1>2. lastQueries[i].ip # NoIP
    BY <1>1 DEF LP!UnusedAreQuiet, LP!Slots, Limiter!Slots
  <1>3. lastQueries[i].ip \in IPs \cup {NoIP}
    BY <1>1, LimiterTypes DEF Limiter!TypeOK
  <1> QED BY <1>1, <1>2, <1>3

LEMMA BansAdded ==
    ASSUME LP!IInv, LP!UnusedAreQuiet, NEW time \in Nat
    PROVE  /\ NewBans(time) \in Seq(Banlist!Ban)
           /\ Len(NewBans(time)) = Cardinality(Over(time))
           /\ \A n \in 1 .. Cardinality(Over(time)) :
                 /\ Nth(Over(time), n) \in Over(time)
                 /\ NewBans(time)[n] = Banlist!BanOf(
                        lastQueries[Nth(Over(time), n)].ip, BanTime, time, TRUE)
  <1> DEFINE S == Over(time)
             N == 1 .. Cardinality(S)
  <1>1. S \in SUBSET Int /\ IsFiniteSet(S) /\ Cardinality(S) \in Nat
    <2>1. S \in SUBSET Limiter!Slots
      BY DEF Over
    <2>2. IsFiniteSet(S)
      BY <2>1, SlotsFinite, FS_Subset
    <2> QED BY <2>1, <2>2, SlotsFinite, FS_CardinalityType
  <1>2. \A n \in N : Nth(S, n) \in S
    BY <1>1, NthRank
  <1>3. FloodersInOrder(time - lastCheck) = [n \in N |-> lastQueries[Nth(S, n)].ip]
    BY DEF FloodersInOrder, Over
  <1>4. NewBans(time) =
            [n \in N |-> Banlist!BanOf(lastQueries[Nth(S, n)].ip, BanTime, time, TRUE)]
    <2> HIDE DEF N, S
    <2> QED BY <1>3 DEF NewBans
  <1>5. \A n \in N :
            Banlist!BanOf(lastQueries[Nth(S, n)].ip, BanTime, time, TRUE) \in Banlist!Ban
    BY <1>2, FlooderKnown, BanType, Limits
  <1>6. NewBans(time) \in [N -> Banlist!Ban]
    <2> HIDE DEF N, S
    <2> QED BY <1>4, <1>5
  <1>7. Cardinality(S) \in Nat /\ N = 1 .. Cardinality(S)
    BY <1>1
  <1>8. NewBans(time) \in Seq(Banlist!Ban) /\ Len(NewBans(time)) = Cardinality(S)
    <2> HIDE DEF S, N
    <2> QED BY <1>6, <1>7
  <1>9. \A n \in 1 .. Cardinality(S) :
            /\ Nth(S, n) \in S
            /\ NewBans(time)[n] =
                   Banlist!BanOf(lastQueries[Nth(S, n)].ip, BanTime, time, TRUE)
    <2> HIDE DEF S
    <2> QED BY <1>2, <1>4
  <1> QED BY <1>8, <1>9

-----------------------------------------------------------------------------
(* THE RING *)

(* A packet that is let through to the limiter touches the entry of its own
   source, the counts of its own source and no ban. *)
LEMMA PacketIsLocal ==
    ASSUME LP!IInv, NEW adr \in Limiter!Addresses, Packet(adr)
    PROVE  /\ adr[1] \in IPs /\ ~Banlist!IsBanned(adr[1])
           /\ UNCHANGED banlistVars
           /\ \A i \in Limiter!Slots :
                 lastQueries'[i] = lastQueries[i] \/ lastQueries'[i].ip = adr[1]
           /\ \A ip \in IPs \ {adr[1]} :
                 asked'[ip] = asked[ip] /\ grantedLow'[ip] = grantedLow[ip]
  <1> USE LimiterTypes DEF Limiter!TypeOK
  <1>1. adr[1] \in IPs /\ ~Banlist!IsBanned(adr[1]) /\ UNCHANGED banlistVars
    BY DEF Packet, Limiter!Addresses
  <1>2. CASE Limiter!UnlimitedQuery \/ Limiter!GlobalQuery
             \/ Limiter!WhitelistedQuery(adr)
    <2>1. UNCHANGED <<lastQueries, asked, grantedLow>>
      BY <1>2 DEF Limiter!UnlimitedQuery, Limiter!GlobalQuery,
                  Limiter!WhitelistedQuery, Limiter!observers
    <2> QED BY <1>1, <2>1
  <1>3. ASSUME NEW critical \in BOOLEAN, NEW granted,
               Limiter!Observe(adr[1], critical, granted)
        PROVE  \A ip \in IPs \ {adr[1]} :
                   asked'[ip] = asked[ip] /\ grantedLow'[ip] = grantedLow[ip]
    BY <1>1, <1>3 DEF Limiter!Observe
  <1>4. ASSUME NEW critical \in BOOLEAN, Limiter!KnownSourceQuery(adr, critical)
        PROVE  /\ \A i \in Limiter!Slots :
                     lastQueries'[i] = lastQueries[i] \/ lastQueries'[i].ip = adr[1]
               /\ \A ip \in IPs \ {adr[1]} :
                     asked'[ip] = asked[ip] /\ grantedLow'[ip] = grantedLow[ip]
    <2>1. /\ Limiter!SlotOf(adr[1]) \in Limiter!Slots
          /\ lastQueries[Limiter!SlotOf(adr[1])].ip = adr[1]
      BY <1>1, <1>4, LimiterAssumptions, LP!SlotOfSource
         DEF Limiter!KnownSourceQuery, LP!IInv, LP!SlotOf, Limiter!SlotOf,
             LP!Slots, Limiter!Slots, LP!Tracked, Limiter!Tracked
    <2>2. PICK s \in Limiter!Slots : s = Limiter!SlotOf(adr[1])
      BY <2>1
    <2>3. lastQueries' = [lastQueries EXCEPT
              ![s].rate = Limiter!RateAfter(@, critical)]
      BY <1>4, <2>2 DEF Limiter!KnownSourceQuery
    <2>4. lastQueries'[s].ip = adr[1]
          /\ \A i \in Limiter!Slots \ {s} : lastQueries'[i] = lastQueries[i]
      BY <2>1, <2>2, <2>3
    <2> QED BY <1>3, <1>4, <2>4 DEF Limiter!KnownSourceQuery
  <1>5. ASSUME NEW critical \in BOOLEAN, Limiter!NewSourceQuery(adr, critical)
        PROVE  /\ \A i \in Limiter!Slots :
                     lastQueries'[i] = lastQueries[i] \/ lastQueries'[i].ip = adr[1]
               /\ \A ip \in IPs \ {adr[1]} :
                     asked'[ip] = asked[ip] /\ grantedLow'[ip] = grantedLow[ip]
    <2>1. lastQueries' = [lastQueries EXCEPT
              ![Limiter!NextSlot] = [ip |-> adr[1], rate |-> 1]]
      BY <1>5 DEF Limiter!NewSourceQuery
    <2>2. \A i \in Limiter!Slots :
              lastQueries'[i] = lastQueries[i] \/ lastQueries'[i].ip = adr[1]
      BY <2>1
    <2>3. \A ip \in IPs \ {adr[1]} :
              asked'[ip] = asked[ip] /\ grantedLow'[ip] = grantedLow[ip]
      BY <1>3, <1>5 DEF Limiter!NewSourceQuery
    <2> QED BY <2>2, <2>3
  <1>6. ASSUME NEW critical \in BOOLEAN, Limiter!RefusedSourceQuery(adr, critical)
        PROVE  /\ UNCHANGED lastQueries
               /\ \A ip \in IPs \ {adr[1]} :
                     asked'[ip] = asked[ip] /\ grantedLow'[ip] = grantedLow[ip]
    BY <1>3, <1>6 DEF Limiter!RefusedSourceQuery
  <1> QED
    BY <1>1, <1>2, <1>4, <1>5, <1>6 DEF Packet, Limiter!AllowQuery

(* A check of the rates changes no owner, resets the flooders and wakes up
   nobody who is quiet. *)
LEMMA CheckQuietens ==
    ASSUME LP!IInv, NEW time, Limiter!CheckRates(time - lastCheck)
    PROVE  /\ \A i \in Limiter!Slots : lastQueries'[i].ip = lastQueries[i].ip
           /\ \A i \in Over(time) : lastQueries'[i].rate = 0
           /\ \A i \in Limiter!Slots :
                 lastQueries[i].rate = 0 => lastQueries'[i].rate = 0
  <1> USE LimiterTypes DEF Limiter!TypeOK
  <1>1. \A i \in Limiter!Slots :
            /\ lastQueries'[i].ip = lastQueries[i].ip
            /\ lastQueries'[i].rate =
                   IF Limiter!Flooding(i, time - lastCheck) THEN 0
                   ELSE Limiter!CooledRate(lastQueries[i].rate, time - lastCheck)
    BY DEF Limiter!CheckRates
  <1>2. Limiter!CooledRate(0, time - lastCheck) = 0
    BY Limits DEF Limiter!CooledRate
  <1> QED BY <1>1, <1>2 DEF Over

-----------------------------------------------------------------------------
(* THE RING AND THE LIST *)

LEMMA PacketKeepsInv ==
    ASSUME Inv, NEW adr \in Limiter!Addresses, Packet(adr)
    PROVE  FloodBannedIsQuiet' /\ FloodBansApart'
  <1> USE DEF Inv
  <1>1. /\ adr[1] \in IPs /\ adr[1] # NoIP /\ bans' = bans
        /\ \A n \in DOMAIN bans : bans[n].ip # adr[1]
        /\ \A i \in Limiter!Slots :
              lastQueries'[i] = lastQueries[i] \/ lastQueries'[i].ip = adr[1]
    BY PacketIsLocal, Limits DEF banlistVars, Banlist!IsBanned
  <1>3. FloodBannedIsQuiet'
    BY <1>1 DEF FloodBannedIsQuiet, FloodBans
  <1>4. FloodBansApart'
    BY <1>1 DEF FloodBansApart
  <1> QED BY <1>3, <1>4

(* Where the bans of a list that a check leaves behind come from. *)
LEMMA CheckedBans ==
    ASSUME Inv, NEW time \in Nat,
           bans' = Banlist!StillBanned(bans, time) \o NewBans(time)
    PROVE  LET kept == Cardinality(Ends(time)) IN
           /\ bans' \in Seq(Banlist!Ban) /\ kept \in Nat
           /\ \A m \in DOMAIN bans' :
                 \/ /\ m \in 1 .. kept
                    /\ Nth(Ends(time), m) \in Ends(time)
                    /\ bans'[m] = bans[Nth(Ends(time), m)]
                 \/ /\ m - kept \in 1 .. Cardinality(Over(time))
                    /\ Nth(Over(time), m - kept) \in Over(time)
                    /\ bans'[m] = Banlist!BanOf(
                           lastQueries[Nth(Over(time), m - kept)].ip, BanTime, time, TRUE)
           /\ \A n \in Ends(time) : \E m \in DOMAIN bans' : bans'[m] = bans[n]
  <1> DEFINE A == Banlist!StillBanned(bans, time)
             B == NewBans(time)
             kept == Cardinality(Ends(time))
             new == Cardinality(Over(time))
  <1>1. /\ Ends(time) \in SUBSET DOMAIN bans
        /\ A = Sublist(bans, Ends(time)) /\ A \in Seq(Banlist!Ban)
    BY BansLeft DEF Inv
  <1>2. /\ Len(A) = kept /\ kept \in Nat
        /\ \A m \in 1 .. kept : Nth(Ends(time), m) \in Ends(time)
                                /\ A[m] = bans[Nth(Ends(time), m)]
    BY <1>1, SublistIsList DEF Inv
  <1>3. \A n \in Ends(time) : \E m \in 1 .. kept : A[m] = bans[n]
    BY <1>1, SublistHolds DEF Inv
  <1>4. /\ B \in Seq(Banlist!Ban) /\ Len(B) = new
        /\ \A n \in 1 .. new :
              /\ Nth(Over(time), n) \in Over(time)
              /\ B[n] = Banlist!BanOf(
                     lastQueries[Nth(Over(time), n)].ip, BanTime, time, TRUE)
    BY BansAdded DEF Inv
  <1> HIDE DEF A, B, kept, new
  <1>5. /\ bans' = A \o B /\ bans' \in Seq(Banlist!Ban)
        /\ DOMAIN bans' = 1 .. kept + new /\ new \in Nat
        /\ \A m \in 1 .. kept : bans'[m] = A[m]
        /\ \A m \in 1 .. kept + new :
              m > kept => m - kept \in 1 .. new /\ bans'[m] = B[m - kept]
    <2>1. bans' = A \o B
      BY DEF A, B
    <2> QED BY <1>1, <1>2, <1>4, <2>1
  <1>6. \A m \in DOMAIN bans' :
            \/ /\ m \in 1 .. kept
               /\ Nth(Ends(time), m) \in Ends(time)
               /\ bans'[m] = bans[Nth(Ends(time), m)]
            \/ /\ m - kept \in 1 .. new
               /\ Nth(Over(time), m - kept) \in Over(time)
               /\ bans'[m] = Banlist!BanOf(
                      lastQueries[Nth(Over(time), m - kept)].ip, BanTime, time, TRUE)
    <2> SUFFICES ASSUME NEW m \in 1 .. kept + new
                 PROVE  \/ /\ m \in 1 .. kept
                           /\ Nth(Ends(time), m) \in Ends(time)
                           /\ bans'[m] = bans[Nth(Ends(time), m)]
                        \/ /\ m - kept \in 1 .. new
                           /\ Nth(Over(time), m - kept) \in Over(time)
                           /\ bans'[m] = Banlist!BanOf(
                                  lastQueries[Nth(Over(time), m - kept)].ip,
                                  BanTime, time, TRUE)
      BY <1>5
    <2>1. CASE m \in 1 .. kept
      BY <1>2, <1>5, <2>1
    <2>2. CASE m > kept
      <3>1. m - kept \in 1 .. new /\ bans'[m] = B[m - kept]
        BY <1>5, <2>2
      <3> QED BY <1>4, <3>1
    <2>3. m \in 1 .. kept \/ m > kept
      BY <1>2, <1>5
    <2> QED BY <2>1, <2>2, <2>3
  <1>7. \A n \in Ends(time) : \E m \in DOMAIN bans' : bans'[m] = bans[n]
    <2>1. \A m \in 1 .. kept : m \in DOMAIN bans' /\ bans'[m] = A[m]
      BY <1>2, <1>5
    <2> QED BY <1>3, <2>1
  <1> QED BY <1>2, <1>5, <1>6, <1>7 DEF kept, new

LEMMA CheckKeepsInv ==
    ASSUME Inv, NEW time \in Nat, Limiter!CheckRates(time - lastCheck),
           bans' = Banlist!StillBanned(bans, time) \o NewBans(time)
    PROVE  FloodBannedIsQuiet' /\ FloodBansApart'
  <1> DEFINE kept == Cardinality(Ends(time))
             new == Cardinality(Over(time))
             E(m) == Nth(Ends(time), m)
             F(m) == Nth(Over(time), m - kept)
             Kept(m) == /\ m \in 1 .. kept /\ E(m) \in Ends(time)
                        /\ bans'[m] = bans[E(m)]
             New(m) == /\ m - kept \in 1 .. new /\ F(m) \in Over(time)
                       /\ bans'[m] = Banlist!BanOf(
                              lastQueries[F(m)].ip, BanTime, time, TRUE)
  <1>1. /\ DOMAIN bans' \subseteq Nat /\ kept \in Nat
        /\ \A m \in DOMAIN bans' : Kept(m) \/ New(m)
    <2>1. /\ bans' \in Seq(Banlist!Ban) /\ kept \in Nat
          /\ \A m \in DOMAIN bans' : Kept(m) \/ New(m)
      BY CheckedBans
    <2>2. DOMAIN bans' = 1 .. Len(bans')
      BY <2>1
    <2> HIDE DEF Kept, New, kept
    <2> QED BY <2>1, <2>2
  <1>2. /\ \A i \in Limiter!Slots : lastQueries'[i].ip = lastQueries[i].ip
        /\ \A i \in Over(time) : lastQueries'[i].rate = 0
        /\ \A i \in Limiter!Slots :
              lastQueries[i].rate = 0 => lastQueries'[i].rate = 0
    BY CheckQuietens DEF Inv
  (* a kept flood ban is one of a source that was quiet already ... *)
  <1>4. ASSUME NEW m \in DOMAIN bans', bans'[m].flood, Kept(m)
        PROVE  /\ E(m) \in DOMAIN bans /\ bans[E(m)].flood
               /\ bans[E(m)].ip = bans'[m].ip /\ bans'[m].ip \in IPs
               /\ \A i \in Limiter!Slots :
                     lastQueries[i].ip = bans'[m].ip => lastQueries[i].rate = 0
    <2>1. E(m) \in DOMAIN bans /\ bans[E(m)] = bans'[m]
      BY <1>4 DEF Ends
    <2>2. bans[E(m)] \in Banlist!Ban
      BY <2>1 DEF Inv
    <2>3. bans[E(m)].ip \in IPs
      BY <2>2 DEF Banlist!Ban
    <2> HIDE DEF E
    <2> QED BY <1>4, <2>1, <2>3 DEF Inv, FloodBannedIsQuiet, FloodBans
  (* ... and a new one of a source with one entry, which the check resets. *)
  <1>5. ASSUME NEW m \in DOMAIN bans', New(m)
        PROVE  /\ bans'[m].ip = lastQueries[F(m)].ip
               /\ F(m) \in Over(time) /\ lastQueries[F(m)].rate > 0
               /\ F(m) \in Limiter!Slots
               /\ \A i \in Limiter!Slots : lastQueries[i].ip = bans'[m].ip => i = F(m)
    <2>1. /\ F(m) \in Limiter!Slots /\ lastQueries[F(m)].ip \in IPs
          /\ lastQueries[F(m)].rate > 0
      BY <1>5, FlooderKnown DEF Inv
    <2>2. bans'[m].ip = lastQueries[F(m)].ip
      BY <1>5 DEF Banlist!BanOf
    <2>3. lastQueries[F(m)].ip # NoIP
      BY <2>1, Limits
    <2> HIDE DEF F
    <2>4. \A i \in Limiter!Slots : lastQueries[i].ip = bans'[m].ip => i = F(m)
      BY <2>1, <2>2, <2>3, LimiterTypes DEF Inv, Limiter!NoDuplicateSources
    <2>5. F(m) \in Over(time)
      BY <1>5 DEF F
    <2> QED BY <2>1, <2>2, <2>4, <2>5
  <1>6. FloodBannedIsQuiet'
    <2> SUFFICES ASSUME NEW m \in DOMAIN bans', bans'[m].flood,
                        NEW i \in Limiter!Slots, lastQueries'[i].ip = bans'[m].ip
                 PROVE  lastQueries'[i].rate = 0
      BY DEF FloodBannedIsQuiet, FloodBans
    <2> HIDE DEF Kept, New, E, F, kept, new
    <2>1. lastQueries[i].ip = bans'[m].ip
      BY <1>2
    <2>2. CASE Kept(m)
      BY <1>2, <1>4, <2>1, <2>2
    <2>3. CASE New(m)
      BY <1>2, <1>5, <2>1, <2>3
    <2> QED BY <1>1, <2>2, <2>3
  <1>7. FloodBansApart'
    <2> SUFFICES ASSUME NEW m \in DOMAIN bans', NEW n \in DOMAIN bans',
                        bans'[m].flood, bans'[n].flood, bans'[m].ip = bans'[n].ip
                 PROVE  m = n
      BY DEF FloodBansApart
    <2>1. CASE Kept(m) /\ Kept(n)
      <3>1. E(m) = E(n)
        <4> HIDE DEF E, Kept
        <4> QED BY <1>4, <2>1 DEF Inv, FloodBansApart
      <3>2. Ends(time) \in SUBSET DOMAIN bans
        BY DEF Ends
      <3> QED BY <2>1, <3>1, <3>2, SublistApart DEF Inv
    <2>2. CASE New(m) /\ New(n)
      <3>1. F(m) = F(n)
        <4> HIDE DEF F, New
        <4> QED BY <1>5, <2>2
      <3>2. Over(time) \in SUBSET Int /\ IsFiniteSet(Over(time))
        BY SlotsFinite, FS_Subset DEF Over
      <3>3. m - kept = n - kept
        BY <2>2, <3>1, <3>2, NthRank
      <3> HIDE DEF kept
      <3> QED BY <1>1, <3>3
    <2>3. ASSUME NEW a \in DOMAIN bans', NEW b \in DOMAIN bans',
                 bans'[a].flood, bans'[a].ip = bans'[b].ip, Kept(a), New(b)
          PROVE  FALSE
      <3> HIDE DEF E, F, Kept, New
      <3>1. lastQueries[F(b)].rate = 0 /\ lastQueries[F(b)].rate > 0
        BY <1>4, <1>5, <2>3
      <3> QED BY <3>1
    <2> HIDE DEF Kept, New
    <2> QED BY <1>1, <2>1, <2>2, <2>3
  <1> QED BY <1>6, <1>7

(* What the console does to the list. *)
Spared(ip) ==
    {n \in DOMAIN bans : bans[n].ip = ip => \E m \in 1 .. n - 1 : bans[m].ip = ip}

LEMMA UnbannedList ==
    ASSUME bans \in Seq(Banlist!Ban), NEW ip, bans' = Banlist!WithoutFirst(bans, ip)
    PROVE  /\ Spared(ip) \in SUBSET DOMAIN bans
           /\ bans' = Sublist(bans, Spared(ip))
           /\ bans' \in Seq(Banlist!Ban)
           /\ DOMAIN bans' = 1 .. Cardinality(Spared(ip))
           /\ \A k \in DOMAIN bans' : Nth(Spared(ip), k) \in Spared(ip)
                                      /\ bans'[k] = bans[Nth(Spared(ip), k)]
  <1>1. bans' = Sublist(bans, Spared(ip))
    BY SameSublist DEF Banlist!WithoutFirst, Spared
  <1>2. Spared(ip) \in SUBSET DOMAIN bans
    BY DEF Spared
  <1> QED BY <1>1, <1>2, SublistIsList

LEMMA UnbanKeepsInv ==
    ASSUME Inv, NEW ip, ConsoleUnban(ip)
    PROVE  /\ bans' \in Seq(Banlist!Ban)
           /\ FloodBannedIsQuiet' /\ FloodBansApart'
  <1> DEFINE places == Spared(ip)
  <1>1. /\ bans' \in Seq(Banlist!Ban)
        /\ DOMAIN bans' = 1 .. Cardinality(places)
        /\ \A k \in DOMAIN bans' : Nth(places, k) \in places
                                   /\ bans'[k] = bans[Nth(places, k)]
        /\ places \in SUBSET DOMAIN bans
    <2>1. bans \in Seq(Banlist!Ban) /\ bans' = Banlist!WithoutFirst(bans, ip)
      BY DEF Inv, ConsoleUnban, Banlist!ConsoleUnban
    <2> QED BY <2>1, UnbannedList
  <1>2. UNCHANGED lastQueries
    BY DEF ConsoleUnban, limiterVars
  <1> HIDE DEF places
  <1>4. FloodBannedIsQuiet'
    <2> SUFFICES ASSUME NEW k \in DOMAIN bans', bans'[k].flood,
                        bans'[k].ip \in IPs,
                        NEW i \in Limiter!Slots, lastQueries[i].ip = bans'[k].ip
                 PROVE  lastQueries[i].rate = 0
      BY <1>2 DEF FloodBannedIsQuiet, FloodBans
    <2>1. PICK n \in DOMAIN bans : bans[n] = bans'[k]
      BY <1>1
    <2> QED BY <2>1 DEF Inv, FloodBannedIsQuiet, FloodBans
  <1>5. FloodBansApart'
    <2> SUFFICES ASSUME NEW k \in DOMAIN bans', NEW m \in DOMAIN bans',
                        bans'[k].flood, bans'[m].flood, bans'[k].ip = bans'[m].ip
                 PROVE  k = m
      BY DEF FloodBansApart
    <2>1. Nth(places, k) = Nth(places, m)
      BY <1>1 DEF Inv, FloodBansApart
    <2> QED BY <1>1, <2>1, SublistApart DEF Inv
  <1> QED BY <1>1, <1>4, <1>5

LEMMA BanKeepsInv ==
    ASSUME Inv, NEW ip \in IPs, NEW minutes \in ConsoleTimes, ConsoleBan(ip, minutes)
    PROVE  /\ bans' \in Seq(Banlist!Ban)
           /\ FloodBannedIsQuiet' /\ FloodBansApart'
  <1> DEFINE new == Banlist!BanOf(ip, minutes, realTime, FALSE)
  <1>1. bans' = Append(bans, new) /\ UNCHANGED lastQueries
    BY DEF ConsoleBan, Banlist!ConsoleBan, limiterVars
  <1>2. new \in Banlist!Ban /\ ~new.flood
    <2>1. minutes \in Nat /\ realTime \in Nat
      BY Limits DEF Inv, Clock
    <2>2. new \in Banlist!Ban
      BY <2>1, BanType
    <2> QED BY <2>2 DEF Banlist!BanOf
  <1> HIDE DEF new
  <1>3. bans' \in Seq(Banlist!Ban)
    BY <1>1, <1>2 DEF Inv
  <1>4. \A n \in DOMAIN bans' : bans'[n].flood =>
            n \in DOMAIN bans /\ bans'[n] = bans[n]
    BY <1>1, <1>2 DEF Inv
  <1>6. FloodBannedIsQuiet'
    BY <1>1, <1>4 DEF Inv, FloodBannedIsQuiet, FloodBans
  <1>7. FloodBansApart'
    BY <1>4 DEF Inv, FloodBansApart
  <1> QED BY <1>3, <1>6, <1>7

-----------------------------------------------------------------------------
LEMMA InitInv == Init => Inv
  <1> SUFFICES ASSUME Init PROVE Inv
    OBVIOUS
  <1>1. LP!IInv
    BY SameInit, LimiterAssumptions, LP!InitIInv DEF Init
  <1>2. bans = <<>> /\ realTime = 0 /\ lastCheck = 0
    BY DEF Init, Banlist!Init
  <1>3. LP!UnusedAreQuiet
    BY SameInit DEF Init, LP!Init, LP!UnusedAreQuiet
  <1>4. Clock
    BY <1>2, Limits DEF Clock
  <1> QED
    BY <1>1, <1>2, <1>3, <1>4 DEF Inv, FloodBannedIsQuiet, FloodBans, FloodBansApart

LEMMA ClockKept ==
    ASSUME Inv, [Next]_vars
    PROVE  Clock'
  <1> USE DEF Inv, Clock
  <1>1. CASE UNCHANGED <<realTime, lastCheck>>
    BY <1>1
  <1>2. ASSUME NEW step \in FrameSteps, Frame(realTime + step)
        PROVE  Clock'
    <2>1. CASE Banlist!CheckDue(realTime + step)
      BY <1>2, <2>1, FrameWithCheck, Limits
    <2>2. CASE ~Banlist!CheckDue(realTime + step)
      <3>1. (realTime + step) - lastCheck <= CheckInterval
        BY <2>2, Limits DEF Banlist!CheckDue
      <3> QED BY <1>2, <2>2, <3>1, FrameWithoutCheck, Limits
    <2> QED BY <2>1, <2>2
  <1> QED
    BY <1>1, <1>2 DEF Next, vars, banlistVars, BannedPacket, Packet, ConsoleBan,
       ConsoleUnban, Banlist!ConsoleBan, Banlist!ConsoleUnban

LEMMA NextInv == Inv /\ [Next]_vars => Inv'
  <1> SUFFICES ASSUME Inv, [Next]_vars PROVE Inv'
    OBVIOUS
  <1>1. LP!IInv' /\ LP!UnusedAreQuiet' /\ Clock'
    BY LimiterKept, ClockKept DEF Inv
  <1> DEFINE Rest == /\ bans' \in Seq(Banlist!Ban)
                     /\ FloodBannedIsQuiet' /\ FloodBansApart'
  <1>2. ASSUME UNCHANGED <<bans, lastQueries>> PROVE Rest
    BY <1>2 DEF Inv, FloodBannedIsQuiet, FloodBans, FloodBansApart
  <1>3. ASSUME NEW adr \in Limiter!Addresses, Packet(adr) PROVE Rest
    BY <1>3, PacketKeepsInv DEF Inv, Packet, banlistVars
  <1>4. ASSUME NEW step \in FrameSteps, Frame(realTime + step) PROVE Rest
    <2>1. CASE Banlist!CheckDue(realTime + step)
      <3>1. realTime + step \in Nat
        BY Limits DEF Inv, Clock
      <3>2. /\ bans' = Banlist!StillBanned(bans, realTime + step)
                           \o NewBans(realTime + step)
            /\ Limiter!CheckRates((realTime + step) - lastCheck)
        BY <1>4, <2>1, FrameWithCheck
      <3> QED BY <3>1, <3>2, CheckedBans, CheckKeepsInv
    <2>2. CASE ~Banlist!CheckDue(realTime + step)
      <3>1. UNCHANGED <<bans, lastQueries>>
        BY <1>4, <2>2, FrameWithoutCheck DEF limiterVars
      <3> QED BY <1>2, <3>1
    <2> QED BY <2>1, <2>2
  <1>5. ASSUME NEW ip \in IPs, NEW minutes \in ConsoleTimes, ConsoleBan(ip, minutes)
        PROVE  Rest
    BY <1>5, BanKeepsInv
  <1>6. ASSUME NEW ip \in IPs, ConsoleUnban(ip) PROVE Rest
    BY <1>6, UnbanKeepsInv
  <1>7. ASSUME UNCHANGED vars PROVE Rest
    BY <1>2, <1>7 DEF vars, banlistVars, limiterVars
  <1> HIDE DEF Rest
  <1>8. Rest
    BY <1>3, <1>4, <1>5, <1>6, <1>7 DEF Next, BannedPacket
  <1> QED BY <1>1, <1>8 DEF Inv, Rest

-----------------------------------------------------------------------------
(* What the solvers do not know of quotients and remainders. *)
LEMMA QuotientOf ==
    ASSUME NEW a \in Nat, NEW t \in Nat \ {0},
           NEW q \in Nat, NEW r \in 0 .. t - 1, a = q * t + r
    PROVE  a \div t = q /\ a % t = r
  OBVIOUS

LEMMA QuotientParts ==
    ASSUME NEW a \in Nat, NEW t \in Nat \ {0}
    PROVE  \E q \in Nat, r \in 0 .. t - 1 :
               a = q * t + r /\ q = a \div t /\ r = a % t
  <1>1. a \div t \in Nat
    OBVIOUS
  <1>2. a % t \in 0 .. t - 1
    OBVIOUS
  <1>3. a = t * (a \div t) + (a % t)
    OBVIOUS
  <1>4. a = (a \div t) * t + (a % t)
    BY <1>1, <1>2, <1>3
  <1> QED BY <1>1, <1>2, <1>4

LEMMA Multiples ==
    ASSUME NEW q \in Nat, NEW k \in Nat, NEW t \in Nat
    PROVE  (q + k) * t = q * t + k * t /\ q * t \in Nat /\ k * t \in Nat
  OBVIOUS

LEMMA QuotientShifted ==
    ASSUME NEW a \in Nat, NEW k \in Nat, NEW t \in Nat \ {0}
    PROVE  (a + k * t) \div t = a \div t + k
  <1>1. PICK q \in Nat, r \in 0 .. t - 1 : a = q * t + r /\ q = a \div t
    BY QuotientParts
  <1>2. PICK m \in Nat, n \in Nat : (q + k) * t = m + n /\ q * t = m /\ k * t = n
    BY Multiples
  <1>3. PICK x \in Nat : x = a + n
    OBVIOUS
  <1>4. PICK y \in Nat : y = q + k
    OBVIOUS
  <1>5. x = y * t + r
    <2>1. a = m + r /\ y * t = m + n
      BY <1>1, <1>2, <1>4
    <2> QED BY <1>3, <2>1
  <1>6. x \div t = y
    BY <1>5, QuotientOf
  <1> QED BY <1>1, <1>2, <1>3, <1>4, <1>6

LEMMA RemainderTwice ==
    ASSUME NEW a \in Nat, NEW b \in Nat, NEW t \in Nat \ {0}
    PROVE  ((a % t) + b) % t = (a + b) % t
  <1>1. PICK q \in Nat, r \in 0 .. t - 1 : a = q * t + r /\ r = a % t
    BY QuotientParts
  <1>2. PICK u \in Nat, v \in 0 .. t - 1 : r + b = u * t + v /\ v = (r + b) % t
    <2>1. r + b \in Nat
      OBVIOUS
    <2> QED BY <2>1, QuotientParts
  <1>3. PICK m \in Nat, n \in Nat : (q + u) * t = m + n /\ q * t = m /\ u * t = n
    BY Multiples
  <1>4. PICK x \in Nat : x = a + b
    OBVIOUS
  <1>5. PICK y \in Nat : y = q + u
    OBVIOUS
  <1>6. x = y * t + v
    <2>1. a = m + r /\ r + b = n + v /\ y * t = m + n
      BY <1>1, <1>2, <1>3, <1>5
    <2> QED BY <2>1, <1>4
  <1>7. x % t = v
    BY <1>6, QuotientOf
  <1> QED BY <1>1, <1>2, <1>4, <1>7

LEMMA QuotientOrder ==
    ASSUME NEW a \in Nat, NEW b \in Nat, NEW t \in Nat \ {0}
    PROVE  /\ a <= b => a \div t <= b \div t
           /\ a \div t <= b \div t => a < b + t
  OBVIOUS

LEMMA RemainderBelow ==
    ASSUME NEW a \in Nat, NEW t \in Nat \ {0}
    PROVE  a % t <= a /\ (a < t => a % t = a)
  OBVIOUS

-----------------------------------------------------------------------------
(* THE END OF A BAN *)

(* The clock's seconds, and those of the end of every ban that is given, fit
   into the 32 bits that hold them. *)
ClockFits == EndOfTime \div TicksPerSecond < Word
EndsFit ==
    \A minutes \in ConsoleTimes \cup {BanTime} :
        EndOfTime \div TicksPerSecond + minutes * SecondsPerMinute < Word

(* the end of a ban is the second of the announced tick, as a uint32_t has it *)
EndsAsAnnounced ==
    \A n \in DOMAIN bans : bans[n].end = (bans[n].until \div TicksPerSecond) % Word

(* a ban on the list was not over at the last check, but for the second that
   the clock lost *)
OutlivedTheCheck == \A n \in DOMAIN bans : lastCheck < bans[n].until + TicksPerSecond

UntilFits == \A n \in DOMAIN bans : bans[n].until \div TicksPerSecond < Word

LEMMA BanEnds ==
    ASSUME NEW ip, NEW minutes \in Nat, NEW time \in Nat, NEW flood
    PROVE  LET ban == Banlist!BanOf(ip, minutes, time, flood) IN
           /\ ban.until \in Nat /\ ban.until >= time
           /\ ban.until \div TicksPerSecond =
                  time \div TicksPerSecond + minutes * SecondsPerMinute
           /\ ban.end = (ban.until \div TicksPerSecond) % Word
  <1> DEFINE seconds == minutes * SecondsPerMinute
             ban == Banlist!BanOf(ip, minutes, time, flood)
  <1>1. seconds \in Nat
    BY Limits
  <1>2. /\ ban.until = time + seconds * TicksPerSecond
        /\ ban.end = (Banlist!Seconds(time) + seconds) % Word
    BY DEF Banlist!BanOf
  <1> HIDE DEF seconds, ban
  <1>3. seconds * TicksPerSecond \in Nat
    BY <1>1, Limits
  <1>4. ban.until \in Nat /\ ban.until >= time
    BY <1>2, <1>3
  <1>5. ban.until \div TicksPerSecond = time \div TicksPerSecond + seconds
    <2>1. TicksPerSecond \in Nat \ {0}
      BY Limits
    <2>2. (time + seconds * TicksPerSecond) \div TicksPerSecond =
              time \div TicksPerSecond + seconds
      BY <1>1, <2>1, QuotientShifted
    <2> QED BY <1>2, <2>2
  <1>6. PICK now \in Nat : now = time \div TicksPerSecond
    BY Limits, QuotientParts
  <1>7. ban.end = (ban.until \div TicksPerSecond) % Word
    <2>1. Word \in Nat \ {0}
      BY Limits
    <2>2. ((now % Word) + seconds) % Word = (now + seconds) % Word
      BY <1>1, <2>1, RemainderTwice
    <2> QED BY <1>2, <1>5, <1>6, <2>2 DEF Banlist!Seconds
  <1> QED BY <1>4, <1>5, <1>7 DEF seconds, ban

(* The bans after a step: those that it left, which had not ended if it was a
   check, and those that it gave. *)
Left(ban) ==
    /\ \E n \in DOMAIN bans : bans[n] = ban
    /\ lastCheck' # lastCheck => ban.end >= Banlist!Seconds(lastCheck')

Given(ban) ==
    \E ip \in IPs, minutes \in ConsoleTimes \cup {BanTime}, flood \in BOOLEAN :
        ban = Banlist!BanOf(ip, minutes, realTime', flood)

LEMMA LeftOrGiven ==
    ASSUME Inv, [Next]_vars, NEW m \in DOMAIN bans'
    PROVE  Left(bans'[m]) \/ Given(bans'[m])
  <1>1. ASSUME UNCHANGED banlistVars
        PROVE  Left(bans'[m])
    BY <1>1 DEF banlistVars, Left
  <1>2. ASSUME NEW step \in FrameSteps, Frame(realTime + step)
        PROVE  Left(bans'[m]) \/ Given(bans'[m])
    <2>1. CASE Banlist!CheckDue(realTime + step)
      <3> DEFINE time == realTime + step
                 i == Nth(Over(time), m - Cardinality(Ends(time)))
                 n == Nth(Ends(time), m)
      <3>1. time \in Nat /\ realTime' = time /\ lastCheck' = time
            /\ bans' = Banlist!StillBanned(bans, time) \o NewBans(time)
        BY <1>2, <2>1, FrameWithCheck, Limits DEF Inv, Clock
      <3> HIDE DEF time
      <3>2. \/ n \in Ends(time) /\ bans'[m] = bans[n]
            \/ /\ i \in Over(time)
               /\ bans'[m] = Banlist!BanOf(lastQueries[i].ip, BanTime, time, TRUE)
        BY <3>1, CheckedBans
      <3> HIDE DEF i, n
      <3>3. CASE n \in Ends(time) /\ bans'[m] = bans[n]
        BY <3>1, <3>3 DEF Left, Ends
      <3>4. CASE /\ i \in Over(time)
                 /\ bans'[m] = Banlist!BanOf(lastQueries[i].ip, BanTime, time, TRUE)
        BY <3>1, <3>4, FlooderKnown DEF Given, Inv
      <3> QED BY <3>2, <3>3, <3>4
    <2>2. CASE ~Banlist!CheckDue(realTime + step)
      BY <1>2, <2>2, FrameWithoutCheck DEF Left
    <2> QED BY <2>1, <2>2
  <1>3. ASSUME NEW ip \in IPs, NEW minutes \in ConsoleTimes, ConsoleBan(ip, minutes)
        PROVE  Left(bans'[m]) \/ Given(bans'[m])
    <2> DEFINE ban == Banlist!BanOf(ip, minutes, realTime, FALSE)
    <2>1. bans' = Append(bans, ban) /\ realTime' = realTime /\ lastCheck' = lastCheck
      BY <1>3 DEF ConsoleBan, Banlist!ConsoleBan
    <2>2. Given(ban)
      BY <2>1 DEF Given
    <2> HIDE DEF ban
    <2>3. bans'[m] = ban \/ (m \in DOMAIN bans /\ bans'[m] = bans[m])
      BY <2>1 DEF Inv
    <2> QED BY <2>1, <2>2, <2>3 DEF Left
  <1>4. ASSUME NEW ip \in IPs, ConsoleUnban(ip)
        PROVE  Left(bans'[m])
    <2>1. /\ Spared(ip) \in SUBSET DOMAIN bans
          /\ Nth(Spared(ip), m) \in Spared(ip)
          /\ bans'[m] = bans[Nth(Spared(ip), m)]
          /\ lastCheck' = lastCheck
      BY <1>4, UnbannedList DEF Inv, ConsoleUnban, Banlist!ConsoleUnban
    <2> QED BY <2>1 DEF Left
  <1> QED
    BY <1>1, <1>2, <1>3, <1>4 DEF Next, BannedPacket, Packet, vars

LEMMA EndsKept ==
    ASSUME Inv, [Next]_vars, EndsAsAnnounced
    PROVE  EndsAsAnnounced'
  <1> SUFFICES ASSUME NEW m \in DOMAIN bans'
               PROVE  bans'[m].end = (bans'[m].until \div TicksPerSecond) % Word
    BY DEF EndsAsAnnounced
  <1>1. CASE Left(bans'[m])
    BY <1>1 DEF Left, EndsAsAnnounced
  <1>2. ASSUME NEW ip \in IPs, NEW minutes \in ConsoleTimes \cup {BanTime},
               NEW flood \in BOOLEAN,
               bans'[m] = Banlist!BanOf(ip, minutes, realTime', flood)
        PROVE  bans'[m].end = (bans'[m].until \div TicksPerSecond) % Word
    <2>1. minutes \in Nat /\ realTime' \in Nat
      BY ClockKept, Limits DEF Clock
    <2> QED BY <1>2, <2>1, BanEnds
  <1> QED BY <1>1, <1>2, LeftOrGiven DEF Given

(* A check at a time that fits leaves no ban that was over a second ago. *)
LEMMA OutlivedKept ==
    ASSUME ClockFits, Inv, [Next]_vars, EndsAsAnnounced, OutlivedTheCheck
    PROVE  OutlivedTheCheck'
  <1>1. Clock'
    BY ClockKept
  <1> SUFFICES ASSUME NEW m \in DOMAIN bans'
               PROVE  lastCheck' < bans'[m].until + TicksPerSecond
    BY DEF OutlivedTheCheck
  <1>2. CASE Left(bans'[m])
    <2>1. PICK n \in DOMAIN bans : bans'[m] = bans[n]
      BY <1>2 DEF Left
    <2>2. bans[n].until \in Nat
      <3>1. bans[n] \in Banlist!Ban
        BY DEF Inv
      <3> QED BY <3>1 DEF Banlist!Ban
    <2>3. PICK until \in Nat : until = bans[n].until
      BY <2>2
    <2>4. CASE lastCheck' = lastCheck
      BY <2>1, <2>4 DEF OutlivedTheCheck
    <2>5. CASE lastCheck' # lastCheck
      <3>1. (until \div TicksPerSecond) % Word >= Banlist!Seconds(lastCheck')
        BY <1>2, <2>1, <2>3, <2>5 DEF Left, EndsAsAnnounced
      <3>2. PICK last \in Nat : last = until \div TicksPerSecond
        BY Limits, QuotientParts
      <3>3. PICK time \in Nat : time = lastCheck' /\ time <= EndOfTime
        BY <1>1, Limits DEF Clock
      <3>4. time \div TicksPerSecond <= EndOfTime \div TicksPerSecond
        BY <3>3, QuotientOrder, Limits
      <3>5. PICK now \in Nat : now = time \div TicksPerSecond /\ now < Word
        <4>1. PICK q \in Nat : q = time \div TicksPerSecond
          BY Limits, QuotientParts
        <4>2. PICK e \in Nat : e = EndOfTime \div TicksPerSecond
          BY Limits, QuotientParts
        <4> QED BY <3>4, <4>1, <4>2, Limits DEF ClockFits
      <3>6. Banlist!Seconds(lastCheck') = now
        BY <3>3, <3>5, Limits, RemainderBelow DEF Banlist!Seconds
      <3>7. last % Word <= last /\ last % Word \in Int
        BY Limits, RemainderBelow
      <3>8. now <= last
        BY <3>1, <3>2, <3>6, <3>7
      <3> QED BY <2>1, <2>3, <3>2, <3>3, <3>5, <3>8, QuotientOrder, Limits
    <2> QED BY <2>4, <2>5
  <1>3. ASSUME NEW ip \in IPs, NEW minutes \in ConsoleTimes \cup {BanTime},
               NEW flood \in BOOLEAN,
               bans'[m] = Banlist!BanOf(ip, minutes, realTime', flood)
        PROVE  lastCheck' < bans'[m].until + TicksPerSecond
    <2>1. minutes \in Nat /\ realTime' \in Nat
      BY <1>1, Limits DEF Clock
    <2>2. bans'[m].until \in Nat /\ bans'[m].until >= realTime'
      BY <1>3, <2>1, BanEnds
    <2> QED BY <1>1, <2>1, <2>2, Limits DEF Clock
  <1> QED BY <1>2, <1>3, LeftOrGiven DEF Given

LEMMA UntilKept ==
    ASSUME EndsFit, Inv, [Next]_vars, UntilFits
    PROVE  UntilFits'
  <1> SUFFICES ASSUME NEW m \in DOMAIN bans'
               PROVE  bans'[m].until \div TicksPerSecond < Word
    BY DEF UntilFits
  <1>1. CASE Left(bans'[m])
    BY <1>1 DEF Left, UntilFits
  <1>2. ASSUME NEW ip \in IPs, NEW minutes \in ConsoleTimes \cup {BanTime},
               NEW flood \in BOOLEAN,
               bans'[m] = Banlist!BanOf(ip, minutes, realTime', flood)
        PROVE  bans'[m].until \div TicksPerSecond < Word
    <2>1. PICK time \in Nat : time = realTime' /\ time <= EndOfTime
      BY ClockKept, Limits DEF Clock
    <2>2. PICK e \in Nat : e = EndOfTime \div TicksPerSecond
      BY Limits, QuotientParts
    <2>3. PICK now \in Nat : now = time \div TicksPerSecond
      BY Limits, QuotientParts
    <2>4. now <= e
      BY <2>1, <2>2, <2>3, QuotientOrder, Limits
    <2>5. PICK seconds \in Nat : seconds = minutes * SecondsPerMinute
      BY Limits
    <2>6. e + seconds < Word
      BY <2>2, <2>5 DEF EndsFit
    <2>7. minutes \in Nat
      BY Limits
    <2>8. bans'[m].until \div TicksPerSecond = now + seconds
      BY <1>2, <2>1, <2>3, <2>5, <2>7, BanEnds
    <2> QED BY <2>4, <2>6, <2>8, Limits
  <1> QED BY <1>1, <1>2, LeftOrGiven DEF Given

(* A check does not take away a ban whose minutes are not over. *)
LEMMA NotYetOver ==
    ASSUME Inv, EndsAsAnnounced, UntilFits, [Next]_vars, realTime' # realTime,
           NEW n \in DOMAIN bans, bans[n].until > realTime'
    PROVE  \E m \in DOMAIN bans' : bans'[m] = bans[n]
  <1>1. PICK step \in FrameSteps : Frame(realTime + step)
    BY DEF Next, vars, BannedPacket, Packet, banlistVars, ConsoleBan, ConsoleUnban,
           Banlist!ConsoleBan, Banlist!ConsoleUnban
  <1>2. CASE ~Banlist!CheckDue(realTime + step)
    BY <1>1, <1>2, FrameWithoutCheck
  <1>3. CASE Banlist!CheckDue(realTime + step)
    <2>1. PICK time \in Nat : time = realTime + step
      BY Limits DEF Inv, Clock
    <2>2. /\ realTime' = time
          /\ bans' = Banlist!StillBanned(bans, time) \o NewBans(time)
      BY <1>1, <1>3, <2>1, FrameWithCheck
    <2>3. PICK until \in Nat : until = bans[n].until
      <3>1. bans[n] \in Banlist!Ban
        BY DEF Inv
      <3> QED BY <3>1 DEF Banlist!Ban
    <2>4. PICK last \in Nat : last = until \div TicksPerSecond
      BY Limits, QuotientParts
    <2>5. PICK now \in Nat : now = time \div TicksPerSecond
      BY Limits, QuotientParts
    <2>6. now <= last
      BY <2>2, <2>3, <2>4, <2>5, QuotientOrder, Limits
    <2>7. bans[n].end = last
      <3>1. bans[n].end = last % Word /\ last < Word
        BY <2>3, <2>4 DEF EndsAsAnnounced, UntilFits
      <3> QED BY <3>1, RemainderBelow, Limits
    <2>8. Banlist!Seconds(time) = now
      <3>1. last < Word
        BY <2>3, <2>4 DEF UntilFits
      <3>2. now < Word
        BY <2>6, <3>1, Limits
      <3> QED BY <2>5, <3>2, RemainderBelow, Limits DEF Banlist!Seconds
    <2>9. n \in Ends(time)
      BY <2>6, <2>7, <2>8 DEF Ends
    <2> QED BY <2>2, <2>9, CheckedBans
  <1> QED BY <1>2, <1>3

-----------------------------------------------------------------------------
(* RESULTS *)

THEOREM Inductive == Spec => []Inv
  BY InitInv, NextInv, PTL DEF Spec

(* The types of the limiter's fields and of the list of bans. *)
THEOREM TypeCorrect == Spec => []TypeOK
  <1>1. Inv => TypeOK
    BY LimiterTypes DEF Inv, Clock, TypeOK, Banlist!TypeOK
  <1> QED
    BY <1>1, Inductive, PTL

(* The rate of a source banned for flooding stays zero, whatever the console
   does to the list in the meantime. *)
THEOREM QuietWhileBanned == Spec => []FloodBannedIsQuiet
  <1>1. Inv => FloodBannedIsQuiet
    BY DEF Inv
  <1> QED
    BY <1>1, Inductive, PTL

(* checkRates never adds a second flood ban to a source's first. *)
THEOREM FloodingEarnsOneBan == Spec => []OneFloodBan
  <1>1. Inv => OneFloodBan
    <2> SUFFICES ASSUME Inv, NEW ip \in IPs
                 PROVE  Cardinality(FloodBans(ip)) <= 1
      BY DEF OneFloodBan
    <2>1. CASE FloodBans(ip) = {}
      BY <2>1, FS_EmptySet
    <2>2. ASSUME NEW n \in FloodBans(ip)
          PROVE  Cardinality(FloodBans(ip)) <= 1
      <3>1. FloodBans(ip) = {n}
        BY <2>2 DEF FloodBans, Inv, FloodBansApart
      <3> QED BY <3>1, FS_Singleton
    <2> QED BY <2>1, <2>2
  <1> QED
    BY <1>1, Inductive, PTL

(* Lifting a ban: the bans of the others are the same list before and after. *)
LEMMA OthersStay ==
    ASSUME bans \in Seq(Banlist!Ban), NEW ip, Banlist!ConsoleUnban(ip)
    PROVE  Banlist!OfOthers(bans', ip) = Banlist!OfOthers(bans, ip)
  <1> DEFINE places == Spared(ip)
             kept == {k \in DOMAIN bans' : bans'[k].ip # ip}
             others == {n \in DOMAIN bans : bans[n].ip # ip}
  <1>1. bans' = Banlist!WithoutFirst(bans, ip)
    BY DEF Banlist!ConsoleUnban
  <1>2. /\ bans' = Sublist(bans, places)
        /\ DOMAIN bans' = 1 .. Cardinality(places)
        /\ \A k \in DOMAIN bans' : Nth(places, k) \in places
                                   /\ bans'[k] = bans[Nth(places, k)]
    BY <1>1, UnbannedList
  <1>3. places \in SUBSET DOMAIN bans /\ others \subseteq places
    BY DEF Spared
  <1>4. kept \in SUBSET (1 .. Cardinality(places))
    <2> HIDE DEF places
    <2> QED BY <1>2
  <1>5. {Nth(places, k) : k \in kept} = others
    <2> HIDE DEF places
    <2>1. \A k \in kept : Nth(places, k) \in others
      BY <1>2, <1>3
    <2>2. \A n \in others : \E k \in 1 .. Cardinality(places) : Nth(places, k) = n
      BY <1>3, SublistHolds
    <2>3. \A n \in others : \E k \in kept : Nth(places, k) = n
      BY <1>2, <2>2
    <2> QED BY <2>1, <2>3
  <1>6. /\ Banlist!OfOthers(bans', ip) = Sublist(bans', kept)
        /\ Banlist!OfOthers(bans, ip) = Sublist(bans, others)
    BY SameSublist DEF Banlist!OfOthers
  <1> HIDE DEF places, kept, others
  <1> QED BY <1>2, <1>3, <1>4, <1>5, <1>6, SublistOfSublist

THEOREM UnbanTouchesNoOther == Spec => UnbanIsExact
  <1>1. Inv => [\A ip \in IPs : Banlist!ConsoleUnban(ip) =>
                   Banlist!OfOthers(bans', ip) = Banlist!OfOthers(bans, ip)]_(Banlist!vars)
    BY OthersStay DEF Inv
  <1> QED
    BY <1>1, Inductive, PTL DEF UnbanIsExact, Banlist!UnbanIsExact

(* The packets that the ban check lets through, and the checks that the frames
   make due, drive the limiter as its own module says they may: what is proved
   of the limiter alone holds behind the list of bans. *)
THEOREM DrivesTheLimiter == Spec => Limiter!Spec
  <1>1. Init => Limiter!Init
    BY DEF Init
  <1>2. Inv /\ [Next]_vars => [Limiter!Next]_(Limiter!vars)
    BY StepOfLimiter DEF Inv
  <1> QED
    BY <1>1, <1>2, Inductive, PTL DEF Spec, Limiter!Spec

(* So the server, as its frames and its list of bans drive it, keeps the promise
   of FloodBudget. *)
THEOREM KeepsTheBudget == Spec => LP!KeepsBudget
  <1>1. Init => LP!Init
    BY SameInit DEF Init
  <1>2. Inv /\ [Next]_vars => [LP!Next]_(LP!vars)
    BY StepOfLimiter, SameNext DEF Inv
  <1>3. Spec => LP!Spec
    BY <1>1, <1>2, Inductive, PTL DEF Spec, LP!Spec
  <1> QED
    BY <1>3, LP!LimiterKeepsBudget, LimiterAssumptions, PTL

-----------------------------------------------------------------------------
(* The end that the list stores is the announced one, cut to whole seconds and
   to 32 bits. *)
THEOREM StoredEnds == Spec => []EndsAsAnnounced
  <1>1. Init => EndsAsAnnounced
    BY DEF Init, Banlist!Init, EndsAsAnnounced
  <1>2. Inv /\ EndsAsAnnounced /\ [Next]_vars => EndsAsAnnounced'
    BY EndsKept
  <1> QED
    BY <1>1, <1>2, Inductive, PTL DEF Spec

(* While the clock fits into 32 bits, a ban outlives its minutes by less than
   a second and the interval of the checks, also a ban whose end did not fit. *)
THEOREM BansEnd ==
    ASSUME ClockFits
    PROVE  Spec => []BanIsOver
  <1>1. Init => OutlivedTheCheck
    BY DEF Init, Banlist!Init, OutlivedTheCheck
  <1>2. Inv /\ EndsAsAnnounced /\ OutlivedTheCheck /\ [Next]_vars => OutlivedTheCheck'
    BY OutlivedKept
  <1>3. Inv /\ OutlivedTheCheck => BanIsOver
    <2> SUFFICES ASSUME Inv, OutlivedTheCheck, NEW n \in DOMAIN bans
                 PROVE  realTime < bans[n].until + TicksPerSecond + CheckInterval
      BY DEF BanIsOver, Banlist!BanIsOver
    <2>1. PICK until \in Nat : until = bans[n].until
      <3>1. bans[n] \in Banlist!Ban
        BY DEF Inv
      <3> QED BY <3>1 DEF Banlist!Ban
    <2>2. lastCheck < until + TicksPerSecond
      BY <2>1 DEF OutlivedTheCheck
    <2> QED BY <2>1, <2>2, Limits DEF Inv, Clock
  <1> QED
    BY <1>1, <1>2, <1>3, StoredEnds, Inductive, PTL DEF Spec

(* While the ends fit into 32 bits, no ban goes by itself before its minutes
   are over. *)
THEOREM BansLast ==
    ASSUME EndsFit
    PROVE  Spec => BanLastsAsAnnounced
  <1>1. Init => UntilFits
    BY DEF Init, Banlist!Init, UntilFits
  <1>2. Inv /\ UntilFits /\ [Next]_vars => UntilFits'
    BY UntilKept
  <1>3. Inv /\ EndsAsAnnounced /\ UntilFits /\ [Next]_vars =>
            [realTime' # realTime =>
                \A n \in DOMAIN bans : bans[n].until > realTime' =>
                    \E m \in DOMAIN bans' : bans'[m] = bans[n]]_(Banlist!vars)
    BY NotYetOver
  <1> QED
    BY <1>1, <1>2, <1>3, StoredEnds, Inductive, PTL
       DEF Spec, BanLastsAsAnnounced, Banlist!BanLastsAsAnnounced

=============================================================================
