------------------------- MODULE QueryLimiterProofs -------------------------
(***************************************************************************)
(* Theorems about QueryLimiter, for every set of sources and every value   *)
(* of the thresholds.                                                      *)
(*                                                                         *)
(* The inductive invariant adds to the properties what links the budget    *)
(* of a source to the entry it owns: a source in the ring has been granted *)
(* no more than its rate shows, plus one full budget if its entry was      *)
(* filled in this interval (it may have been pushed out of an older one);  *)
(* a source outside the ring has used one budget at most.                  *)
(***************************************************************************)
EXTENDS QueryLimiter, TLAPS

Smaller(x, y) == IF x < y THEN x ELSE y

(* what the owner of entry i may have been granted *)
EntryBudget(i) ==
    (IF i \in Fresh THEN MaxLP ELSE 0) + Smaller(lastQueries[i].rate, MaxLP)

BudgetFollowsRing ==
    \A ip \in IPs :
        /\ \A i \in Slots : lastQueries[i].ip = ip => grantedLow[ip] <= EntryBudget(i)
        /\ ~Tracked(ip) => grantedLow[ip] <= MaxLP

OneRevolution ==
    /\ added <= MaxStored
    /\ added <= uniqueQueries
    
GlobalCounted ==
    /\ grantedGlobal <= totalQueries
    /\ GlobalBudget

IInv ==
    /\ TypeOK
    /\ NoDuplicateSources
    /\ GlobalWhenSaturated
    /\ OneRevolution
    /\ BudgetFollowsRing
    /\ GlobalCounted

-----------------------------------------------------------------------------
(* Quotients of naturals are naturals. *)
LEMMA QuotientNat ==
    ASSUME NEW x \in Nat, NEW y \in Nat \ {0}
    PROVE  x \div y \in Nat
  BY SMT

(* The scan of allowQuery finds the one entry of a known source. *)
LEMMA SlotOfSource ==
    ASSUME TypeOK, NoDuplicateSources, NEW ip \in IPs, Tracked(ip)
    PROVE  /\ SlotOf(ip) \in Slots
           /\ lastQueries[SlotOf(ip)].ip = ip
           /\ \A j \in Slots : lastQueries[j].ip = ip => j = SlotOf(ip)
  <1>1. PICK i \in Slots : lastQueries[i].ip = ip
    BY DEF Tracked
  <1>2. ip # NoIP
    BY SourcesAssumption
  <1>3. \A j \in Slots : lastQueries[j].ip = ip => j = i
    BY <1>1, <1>2 DEF NoDuplicateSources
  <1>4. i <= i
    BY <1>1, LimitsAssumption DEF Slots
  <1>5. \E k \in Slots : /\ lastQueries[k].ip = ip
                         /\ \A j \in Slots : lastQueries[j].ip = ip => k <= j
    BY <1>1, <1>3, <1>4
  <1>6. /\ SlotOf(ip) \in Slots
        /\ lastQueries[SlotOf(ip)].ip = ip
    BY <1>5 DEF SlotOf
  <1> QED
    BY <1>3, <1>6

(* The entry to be filled next is the oldest one of the ring. *)
LEMMA NextSlotOldest ==
    ASSUME lastAdded \in Slots
    PROVE  /\ NextSlot \in Slots
           /\ EntryAge(NextSlot) = MaxStored - 1
           /\ \A i \in Slots : EntryAge(i) \in 0 .. MaxStored - 1
  BY LimitsAssumption DEF Slots, NextSlot, EntryAge

(* Filling the next entry makes every other entry one step older. *)
LEMMA NextSlotAges ==
    ASSUME lastAdded \in Slots, lastAdded' = NextSlot
    PROVE  \A i \in Slots : EntryAge(i)' = IF i = NextSlot THEN 0 ELSE EntryAge(i) + 1
  BY LimitsAssumption DEF Slots, NextSlot, EntryAge

(* A rate of a checked entry is a natural number. *)
LEMMA CooledRateNat ==
    ASSUME NEW rate \in Nat, NEW delta \in Deltas
    PROVE  CooledRate(rate, delta) \in Nat
  <1>1. MaxLP \div 2 \in Nat
    BY QuotientNat, LimitsAssumption
  <1>2. BanLevel * delta \in Nat
    BY RatesAssumption
  <1>3. (BanLevel * delta) \div TicksPerSecond \in Nat
    BY <1>2, QuotientNat, RatesAssumption
  <1> QED
    BY <1>1, <1>3 DEF CooledRate, Larger

-----------------------------------------------------------------------------
LEMMA InitIInv == Init => IInv
  <1> SUFFICES ASSUME Init PROVE IInv
    OBVIOUS
  <1>1. TypeOK
    <2>1. MaxStored - 1 \in Slots
      BY LimitsAssumption DEF Slots
    <2>2. lastQueries \in [Slots -> [ip : IPs \cup {NoIP}, rate : Nat]]
      BY DEF Init
    <2> QED
      BY <2>1, <2>2 DEF Init, TypeOK
  <1>2. NoDuplicateSources
    BY DEF Init, NoDuplicateSources
  <1>3. GlobalWhenSaturated
    BY LimitsAssumption DEF Init, GlobalWhenSaturated, MaxUniqueFilter
  <1>4. OneRevolution
    BY LimitsAssumption DEF Init, OneRevolution
  <1>5. BudgetFollowsRing
    BY SourcesAssumption, LimitsAssumption
       DEF Init, BudgetFollowsRing, Tracked
  <1>6. GlobalCounted
    BY LimitsAssumption DEF Init, GlobalCounted, GlobalBudget
  <1> QED
    BY <1>1, <1>2, <1>3, <1>4, <1>5, <1>6 DEF IInv

(* A known source: its rate rises, and its grants rise with it as long as
   the rate stays within the limit. *)
LEMMA KnownSourceStep ==
    ASSUME IInv, NEW adr \in Addresses, NEW critical \in BOOLEAN,
           KnownSourceQuery(adr, critical)
    PROVE  IInv'
  <1> USE DEF IInv
  <1>1. PICK ip \in IPs : ip = adr[1]
    BY DEF Addresses
  <1>2. PICK s \in Slots : /\ s = SlotOf(ip)
                           /\ lastQueries[s].ip = ip
                           /\ \A j \in Slots : lastQueries[j].ip = ip => j = s
    BY <1>1, SlotOfSource DEF KnownSourceQuery
  <1>3. lastQueries' = [lastQueries EXCEPT ![s].rate = RateAfter(@, critical)]
    BY <1>1, <1>2 DEF KnownSourceQuery
  <1>4. /\ RateAfter(lastQueries[s].rate, critical) \in Nat
        /\ RateAfter(lastQueries[s].rate, critical) > lastQueries[s].rate
    BY <1>2, LimitsAssumption DEF TypeOK, RateAfter
  <1>5. /\ \A i \in Slots : lastQueries'[i].ip = lastQueries[i].ip
        /\ \A i \in Slots \ {s} : lastQueries'[i] = lastQueries[i]
        /\ lastQueries'[s].rate = RateAfter(lastQueries[s].rate, critical)
    BY <1>2, <1>3 DEF TypeOK
  <1>6. TypeOK'
    <2>1. lastQueries' \in [Slots -> [ip : IPs \cup {NoIP}, rate : Nat]]
      BY <1>2, <1>3, <1>4 DEF TypeOK
    <2>2. /\ asked' \in [IPs -> Nat]
          /\ grantedLow' \in [IPs -> Nat]
      BY <1>1 DEF TypeOK, KnownSourceQuery, Observe
    <2> QED
      BY <2>1, <2>2 DEF TypeOK, KnownSourceQuery, Counted, CountQuery, Observe
  <1>7. NoDuplicateSources'
    BY <1>5 DEF NoDuplicateSources
  <1>8. GlobalWhenSaturated' /\ OneRevolution' /\ GlobalCounted'
    BY DEF GlobalWhenSaturated, OneRevolution, GlobalCounted, GlobalBudget,
           KnownSourceQuery, Counted, CountQuery, Observe, TypeOK
  <1>9. BudgetFollowsRing'
    <2>1. Fresh' = Fresh
      BY DEF Fresh, EntryAge, KnownSourceQuery
    <2>2. \A jp \in IPs : Tracked(jp)' <=> Tracked(jp)
      BY <1>5 DEF Tracked
    <2>3. \A jp \in IPs \ {ip} : grantedLow'[jp] = grantedLow[jp]
      BY <1>1 DEF KnownSourceQuery, Observe, TypeOK
    <2>4. grantedLow'[ip] <= EntryBudget(s)'
      <3>1. grantedLow[ip] <= EntryBudget(s)
        BY <1>1, <1>2 DEF BudgetFollowsRing
      <3>2. CASE ~critical /\ AllowsKnown(ip, critical)
        <4>1. grantedLow'[ip] = grantedLow[ip] + 1
          BY <3>2, <1>1 DEF KnownSourceQuery, Observe, TypeOK
        <4>2. /\ lastQueries'[s].rate = lastQueries[s].rate + 1
              /\ lastQueries[s].rate + 1 <= MaxLP
          BY <3>2, <1>2, <1>5 DEF AllowsKnown, RateAfter, RateLimit
        <4> QED
          BY <3>1, <4>1, <4>2, <2>1, <1>1, <1>2, LimitsAssumption
             DEF EntryBudget, Smaller, TypeOK
      <3>3. CASE ~(~critical /\ AllowsKnown(ip, critical))
        <4>1. grantedLow'[ip] = grantedLow[ip]
          BY <3>3 DEF KnownSourceQuery, Observe
        <4> QED
          BY <3>1, <4>1, <1>1, <1>2, <1>4, <1>5, <2>1, LimitsAssumption
             DEF EntryBudget, Smaller, TypeOK
      <3> QED
        BY <3>2, <3>3
    <2>5. \A i \in Slots \ {s} : EntryBudget(i)' = EntryBudget(i)
      BY <1>5, <2>1 DEF EntryBudget
    <2> QED
      BY <1>1, <1>2, <1>5, <2>2, <2>3, <2>4, <2>5
         DEF BudgetFollowsRing, Tracked
  <1> QED
    BY <1>6, <1>7, <1>8, <1>9

(* A new source: it owned no entry, so it has used one budget at most; the
   entry it takes is not fresh, so its former owner has used one at most. *)
LEMMA NewSourceStep ==
    ASSUME IInv, NEW adr \in Addresses, NEW critical \in BOOLEAN,
           NewSourceQuery(adr, critical)
    PROVE  IInv'
  <1> USE DEF IInv
  <1>1. PICK ip \in IPs : ip = adr[1]
    BY DEF Addresses
  <1>2. PICK s \in Slots : s = NextSlot /\ EntryAge(s) = MaxStored - 1
    BY NextSlotOldest DEF TypeOK
  <1>3. lastQueries' = [lastQueries EXCEPT ![s] = [ip |-> ip, rate |-> 1]]
    BY <1>1, <1>2 DEF NewSourceQuery
  <1>4. /\ lastQueries'[s] = [ip |-> ip, rate |-> 1]
        /\ \A i \in Slots \ {s} : lastQueries'[i] = lastQueries[i]
    BY <1>2, <1>3 DEF TypeOK
  <1>5. /\ ip # NoIP
        /\ \A i \in Slots : lastQueries[i].ip # ip
    BY <1>1, SourcesAssumption DEF NewSourceQuery, Tracked
  <1>6. /\ uniqueQueries < MaxStored
        /\ uniqueQueries' = uniqueQueries + 1
        /\ added' = added + 1
        /\ lastAdded' = NextSlot
    BY DEF NewSourceQuery
  <1>7. s \notin Fresh
    BY <1>2, <1>6, LimitsAssumption DEF Fresh, OneRevolution, TypeOK
  <1>8. TypeOK'
    <2>1. lastQueries' \in [Slots -> [ip : IPs \cup {NoIP}, rate : Nat]]
      BY <1>2, <1>3 DEF TypeOK
    <2>2. /\ asked' \in [IPs -> Nat]
          /\ grantedLow' \in [IPs -> Nat]
      BY <1>1 DEF TypeOK, NewSourceQuery, Observe
    <2> QED
      BY <2>1, <2>2, <1>2, <1>6
         DEF TypeOK, NewSourceQuery, Counted, CountQuery, Observe
  <1>9. NoDuplicateSources'
    BY <1>4, <1>5 DEF NoDuplicateSources
  <1>10. GlobalWhenSaturated'
    BY <1>6, LimitsAssumption DEF GlobalWhenSaturated, MaxUniqueFilter, TypeOK
  <1>11. OneRevolution'
    BY <1>6, LimitsAssumption DEF OneRevolution, TypeOK
  <1>12. GlobalCounted'
    BY DEF GlobalCounted, GlobalBudget, NewSourceQuery, Counted, CountQuery,
           Observe, TypeOK
  <1>13. BudgetFollowsRing'
    <2>1. \A i \in Slots : EntryAge(i)' = IF i = s THEN 0 ELSE EntryAge(i) + 1
      BY <1>2, <1>6, NextSlotAges DEF TypeOK
    <2>2. s \in Fresh' /\ \A i \in Slots \ {s} : i \in Fresh' <=> i \in Fresh
      <3>1. \A i \in Slots : EntryAge(i) \in Int
        BY NextSlotOldest, LimitsAssumption DEF TypeOK
      <3> QED
        BY <2>1, <3>1, <1>2, <1>6 DEF Fresh, TypeOK
    <2>3. \A i \in Slots \ {s} : EntryBudget(i)' = EntryBudget(i)
      BY <1>4, <2>2 DEF EntryBudget
    <2>4. EntryBudget(s)' = MaxLP + 1
      BY <1>4, <2>2, LimitsAssumption DEF EntryBudget, Smaller
    <2>5. grantedLow[ip] <= MaxLP /\ grantedLow'[ip] <= grantedLow[ip] + 1
      BY <1>1, <1>5 DEF BudgetFollowsRing, Tracked, NewSourceQuery, Observe, TypeOK
    <2>6. \A jp \in IPs \ {ip} : grantedLow'[jp] = grantedLow[jp]
      BY <1>1 DEF NewSourceQuery, Observe, TypeOK
    <2>7. ASSUME NEW jp \in IPs, NEW i \in Slots, lastQueries'[i].ip = jp
          PROVE  grantedLow'[jp] <= EntryBudget(i)'
      <3>1. CASE i = s
        <4>1. jp = ip
          BY <1>4, <2>7, <3>1
        <4>2. grantedLow'[ip] <= MaxLP + 1
          BY <2>5, <1>8, LimitsAssumption DEF TypeOK
        <4> QED
          BY <4>1, <4>2, <2>4, <3>1
      <3>2. CASE i # s
        <4>1. lastQueries[i].ip = jp /\ jp # ip
          BY <1>4, <1>5, <2>7, <3>2
        <4> QED
          BY <4>1, <2>3, <2>6, <3>2 DEF BudgetFollowsRing
      <3> QED
        BY <3>1, <3>2
    <2>8. ASSUME NEW jp \in IPs, ~Tracked(jp)'
          PROVE  grantedLow'[jp] <= MaxLP
      <3>1. jp # ip
        BY <1>2, <1>4, <2>8 DEF Tracked
      <3>2. CASE Tracked(jp)
        <4>1. lastQueries[s].ip = jp
          BY <1>4, <2>8, <3>2 DEF Tracked
        <4>2. grantedLow[jp] <= EntryBudget(s)
          BY <4>1 DEF BudgetFollowsRing
        <4>3. EntryBudget(s) <= MaxLP
          BY <1>7, LimitsAssumption DEF EntryBudget, Smaller, TypeOK
        <4>4. EntryBudget(s) \in Int
          BY LimitsAssumption DEF EntryBudget, Smaller, TypeOK
        <4> QED
          BY <4>2, <4>3, <4>4, <3>1, <2>6, LimitsAssumption DEF TypeOK
      <3>3. CASE ~Tracked(jp)
        BY <3>1, <3>3, <2>6 DEF BudgetFollowsRing
      <3> QED
        BY <3>2, <3>3
    <2>9. \A jp \in IPs : ~Tracked(jp)' => grantedLow'[jp] <= MaxLP
      BY <2>8
    <2> QED
      BY <2>7, <2>9 DEF BudgetFollowsRing
  <1> QED
    BY <1>8, <1>9, <1>10, <1>11, <1>12, <1>13

(* Packets that leave the ring and the grants of every source alone. *)
LEMMA RingUntouched ==
    ASSUME IInv, UNCHANGED <<lastQueries, lastAdded, grantedLow, added>>
    PROVE  NoDuplicateSources' /\ BudgetFollowsRing'
  <1>1. NoDuplicateSources'
    BY DEF IInv, NoDuplicateSources
  <1>2. BudgetFollowsRing'
    BY DEF IInv, BudgetFollowsRing, EntryBudget, Fresh, EntryAge, Tracked
  <1> QED
    BY <1>1, <1>2

LEMMA RefusedSourceStep ==
    ASSUME IInv, NEW adr \in Addresses, NEW critical \in BOOLEAN,
           RefusedSourceQuery(adr, critical)
    PROVE  IInv'
  <1> USE DEF IInv
  <1>1. adr[1] \in IPs
    BY DEF Addresses
  <1>2. TypeOK'
    BY <1>1 DEF TypeOK, RefusedSourceQuery, Counted, CountQuery, Observe, ExceedsFilter
  <1>3. NoDuplicateSources' /\ BudgetFollowsRing'
    BY RingUntouched DEF RefusedSourceQuery, Observe
  <1>4. GlobalWhenSaturated'
    <2>1. uniqueQueries' = uniqueQueries + 1 /\ uniqueQueries <= MaxUniqueFilter
      BY LimitsAssumption
         DEF GlobalWhenSaturated, MaxUniqueFilter, RefusedSourceQuery, Counted, TypeOK
    <2>2. uniqueQueries' > MaxUniqueFilter => useGlobal'
      BY <2>1 DEF RefusedSourceQuery, ExceedsFilter
    <2>3. uniqueQueries' <= MaxUniqueFilter + 1
      BY <2>1, LimitsAssumption DEF MaxUniqueFilter, TypeOK
    <2> QED
      BY <2>2, <2>3 DEF GlobalWhenSaturated, MaxUniqueFilter
  <1>5. OneRevolution' /\ GlobalCounted'
    BY LimitsAssumption
       DEF OneRevolution, GlobalCounted, GlobalBudget, RefusedSourceQuery,
           Counted, CountQuery, Observe, TypeOK
  <1> QED
    BY <1>2, <1>3, <1>4, <1>5

(* Packets of which the limiter only counts the total. *)
LEMMA CountedOnlyStep ==
    ASSUME IInv, Counted,
           UNCHANGED <<lastQueries, lastAdded, uniqueQueries, useGlobal, observers>>
    PROVE  IInv'
  <1> USE DEF IInv, observers
  <1>1. TypeOK'
    BY DEF TypeOK, Counted, CountQuery
  <1>2. NoDuplicateSources' /\ BudgetFollowsRing'
    BY RingUntouched
  <1>3. GlobalWhenSaturated' /\ OneRevolution'
    BY DEF GlobalWhenSaturated, OneRevolution
  <1>4. GlobalCounted'
    BY DEF GlobalCounted, GlobalBudget, Counted, CountQuery, TypeOK
  <1> QED
    BY <1>1, <1>2, <1>3, <1>4

LEMMA GlobalStep ==
    ASSUME IInv, GlobalQuery
    PROVE  IInv'
  <1> USE DEF IInv, GlobalQuery
  <1>1. TypeOK'
    BY DEF TypeOK, CountQuery
  <1>2. NoDuplicateSources' /\ BudgetFollowsRing'
    BY RingUntouched
  <1>3. GlobalWhenSaturated' /\ OneRevolution'
    BY DEF GlobalWhenSaturated, OneRevolution
  <1>4. GlobalCounted'
    BY LimitsAssumption
       DEF GlobalCounted, GlobalBudget, AllowsGlobal, CountQuery, TypeOK
  <1> QED
    BY <1>1, <1>2, <1>3, <1>4

(* A rate check keeps the owners of the entries and forgets what was granted. *)
LEMMA CheckRatesStep ==
    ASSUME IInv, NEW delta \in Deltas, CheckRates(delta)
    PROVE  IInv'
  <1> USE DEF IInv
  <1>1. lastQueries' \in [Slots -> [ip : IPs \cup {NoIP}, rate : Nat]]
    BY CooledRateNat DEF CheckRates, TypeOK
  <1>2. \A i \in Slots : lastQueries'[i].ip = lastQueries[i].ip
    BY DEF CheckRates, TypeOK
  <1>3. CalmLevel \in Nat /\ CalmLevel <= 3 * MaxStored
    BY LimitsAssumption, SMT DEF CalmLevel
  <1>4. uniqueQueries' \in Nat /\ uniqueQueries' <= MaxUniqueFilter
    <2>1. /\ uniqueQueries \in Nat
          /\ uniqueQueries <= 3 * MaxStored + 1
          /\ uniqueQueries' = CalmedUnique(uniqueQueries)
      BY DEF CheckRates, GlobalWhenSaturated, MaxUniqueFilter, TypeOK
    <2>2. CASE uniqueQueries <= CalmLevel
      BY <2>1, <2>2, LimitsAssumption DEF CalmedUnique, MaxUniqueFilter
    <2>3. CASE uniqueQueries > CalmLevel
      <3>1. uniqueQueries' = Larger(CalmLevel, uniqueQueries - MaxStored)
        BY <1>3, <2>1, <2>3 DEF CalmedUnique
      <3>2. uniqueQueries - MaxStored <= 3 * MaxStored
        BY <2>1, LimitsAssumption
      <3> QED
        BY <1>3, <2>1, <3>1, <3>2, LimitsAssumption DEF Larger, MaxUniqueFilter
    <2> QED
      BY <1>3, <2>1, <2>2, <2>3
  <1>5. TypeOK'
    BY <1>1, <1>4 DEF CheckRates, TypeOK, ExceedsFilter
  <1>6. NoDuplicateSources'
    BY <1>2 DEF NoDuplicateSources
  <1>7. GlobalWhenSaturated'
    BY <1>4, LimitsAssumption DEF GlobalWhenSaturated, MaxUniqueFilter
  <1>8. OneRevolution' /\ GlobalCounted'
    BY <1>4, LimitsAssumption DEF OneRevolution, GlobalCounted, GlobalBudget, CheckRates
  <1>9. BudgetFollowsRing'
    <2>1. \A ip \in IPs : grantedLow'[ip] = 0
      BY DEF CheckRates
    <2>2. \A i \in Slots : EntryBudget(i)' >= 0
      BY <1>1, LimitsAssumption DEF EntryBudget, Smaller
    <2> QED
      BY <2>1, <2>2, LimitsAssumption DEF BudgetFollowsRing
  <1> QED
    BY <1>5, <1>6, <1>7, <1>8, <1>9

LEMMA StutterStep ==
    ASSUME IInv, UNCHANGED vars
    PROVE  IInv'
  BY RingUntouched
     DEF IInv, vars, limiterVars, observers, TypeOK, GlobalWhenSaturated,
         OneRevolution, GlobalCounted, GlobalBudget

LEMMA NextIInv == IInv /\ [Next]_vars => IInv'
  <1> SUFFICES ASSUME IInv, [Next]_vars PROVE IInv'
    OBVIOUS
  <1>1. CASE UnlimitedQuery
    BY <1>1, CountedOnlyStep DEF UnlimitedQuery
  <1>2. CASE GlobalQuery
    BY <1>2, GlobalStep
  <1>3. ASSUME NEW adr \in Addresses, NEW critical \in BOOLEAN,
               AllowQuery(adr, critical)
        PROVE  IInv'
    <2>1. CASE WhitelistedQuery(adr)
      BY <2>1, CountedOnlyStep DEF WhitelistedQuery
    <2>2. CASE KnownSourceQuery(adr, critical)
      BY <2>2, KnownSourceStep
    <2>3. CASE NewSourceQuery(adr, critical)
      BY <2>3, NewSourceStep
    <2>4. CASE RefusedSourceQuery(adr, critical)
      BY <2>4, RefusedSourceStep
    <2> QED
      BY <1>3, <2>1, <2>2, <2>3, <2>4 DEF AllowQuery
  <1>4. ASSUME NEW delta \in Deltas, CheckRates(delta) PROVE IInv'
    BY <1>4, CheckRatesStep
  <1>5. CASE UNCHANGED vars
    BY <1>5, StutterStep
  <1> QED
    BY <1>1, <1>2, <1>3, <1>4, <1>5 DEF Next, Query, RatesChecked

(* The link of grants and entries bounds the grants. *)
LEMMA IInvBudget == IInv => LowPriorityBounded
  <1> SUFFICES ASSUME IInv, NEW ip \in IPs PROVE grantedLow[ip] <= 2 * MaxLP
    BY DEF LowPriorityBounded
  <1>1. grantedLow[ip] \in Nat
    BY DEF IInv, TypeOK
  <1>2. CASE Tracked(ip)
    <2>1. PICK i \in Slots : lastQueries[i].ip = ip
      BY <1>2 DEF Tracked
    <2>2. grantedLow[ip] <= EntryBudget(i)
      BY <2>1 DEF IInv, BudgetFollowsRing
    <2> QED
      BY <1>1, <2>2, LimitsAssumption DEF EntryBudget, Smaller, IInv, TypeOK
  <1>3. CASE ~Tracked(ip)
    BY <1>1, <1>3, LimitsAssumption DEF IInv, BudgetFollowsRing
  <1> QED
    BY <1>2, <1>3

(* The inductive invariant holds in every reachable state. *)
THEOREM Inductive == Spec => []IInv
  BY InitIInv, NextIInv, PTL DEF Spec

(* The types of the limiter's fields and of the observers. *)
THEOREM TypeCorrect == Spec => []TypeOK
  <1>1. IInv => TypeOK
    BY DEF IInv
  <1> QED
    BY <1>1, Inductive, PTL

(* allowQuery never files one ip under two entries of the ring. *)
THEOREM OneEntryPerSource == Spec => []NoDuplicateSources
  <1>1. IInv => NoDuplicateSources
    BY DEF IInv
  <1> QED
    BY <1>1, Inductive, PTL

(* The count of new sources is bounded, and past its threshold the global
   limit rules. *)
THEOREM SaturationIsGlobal == Spec => []GlobalWhenSaturated
  <1>1. IInv => GlobalWhenSaturated
    BY DEF IInv
  <1> QED
    BY <1>1, Inductive, PTL

(* For every size of the ring and every number of sources, nobody is answered
   more than twice his low-priority limit between two rate checks. *)
THEOREM SourceBudgetHolds == Spec => []LowPriorityBounded
  BY IInvBudget, Inductive, PTL

(* In global mode fewer packets than the ring has entries get through. *)
THEOREM ServerBudgetHolds == Spec => []GlobalBudget
  <1>1. IInv => GlobalBudget
    BY DEF IInv, GlobalCounted
  <1> QED
    BY <1>1, Inductive, PTL

-----------------------------------------------------------------------------
(* What a step does to the owners of fresh entries. *)
LEMMA FreshKept ==
    ASSUME IInv, [Next]_vars, NEW i \in Fresh
    PROVE  lastQueries'[i].ip = lastQueries[i].ip
  <1> USE DEF IInv
  <1>1. i \in Slots
    BY DEF Fresh
  <1>2. ASSUME NEW adr \in Addresses, NEW critical \in BOOLEAN,
               KnownSourceQuery(adr, critical)
        PROVE  lastQueries'[i].ip = lastQueries[i].ip
    BY <1>1, <1>2 DEF KnownSourceQuery, TypeOK
  <1>3. ASSUME NEW adr \in Addresses, NEW critical \in BOOLEAN,
               NewSourceQuery(adr, critical)
        PROVE  lastQueries'[i].ip = lastQueries[i].ip
    <2>1. /\ EntryAge(NextSlot) = MaxStored - 1
          /\ NextSlot \in Slots
      BY NextSlotOldest DEF TypeOK
    <2>2. added < MaxStored
      BY <1>3, LimitsAssumption DEF NewSourceQuery, OneRevolution, TypeOK
    <2>3. i # NextSlot
      BY <2>1, <2>2, LimitsAssumption DEF Fresh, TypeOK
    <2> QED
      BY <1>1, <1>3, <2>1, <2>3 DEF NewSourceQuery, TypeOK
  <1>4. ASSUME NEW delta \in Deltas, CheckRates(delta)
        PROVE  lastQueries'[i].ip = lastQueries[i].ip
    BY <1>1, <1>4 DEF CheckRates, TypeOK
  <1>5. CASE UNCHANGED lastQueries
    BY <1>5
  <1> QED
    BY <1>2, <1>3, <1>4, <1>5
       DEF Next, Query, RatesChecked, AllowQuery, UnlimitedQuery, GlobalQuery,
           WhitelistedQuery, RefusedSourceQuery, vars, limiterVars

(* Nobody is pushed out of an entry that was filled since the last rate check. *)
THEOREM NoEvictionWithinInterval == Spec => FreshEntriesStay
  <1>1. IInv /\ [Next]_vars =>
            [\A i \in Fresh : lastQueries'[i].ip = lastQueries[i].ip]_vars
    BY FreshKept
  <1> QED
    BY <1>1, Inductive, PTL DEF Spec, FreshEntriesStay

-----------------------------------------------------------------------------
(* The limiter implements FloodBudget. *)

LEMMA BudgetInit == Init => Budget!Init
  BY DEF Init, Budget!Init

LEMMA BudgetUnchanged ==
    ASSUME UNCHANGED <<grantedLow, grantedGlobal, useGlobal>>
    PROVE  [Budget!Next]_(Budget!vars)
  BY DEF Budget!vars

LEMMA BudgetOfNextState == IInv' => LowPriorityBounded'
  BY IInvBudget, PTL

(* A query put to allowQuery is a grant of the abstract budget or no step of
   it: that the budget is not exhausted is the invariant after the step. *)
LEMMA BudgetObserve ==
    ASSUME IInv, IInv', Counted, NEW ip \in IPs, NEW critical \in BOOLEAN,
           NEW granted \in BOOLEAN, Observe(ip, critical, granted),
           UNCHANGED useGlobal
    PROVE  [Budget!Next]_(Budget!vars)
  <1>1. CASE granted /\ ~critical
    <2>1. grantedLow' = [grantedLow EXCEPT ![ip] = @ + 1]
      BY <1>1 DEF Observe
    <2>2. grantedLow'[ip] = grantedLow[ip] + 1 /\ grantedLow[ip] \in Nat
      BY <2>1 DEF IInv, TypeOK
    <2>3. grantedLow'[ip] <= 2 * MaxLP
      BY BudgetOfNextState DEF LowPriorityBounded
    <2>4. grantedLow[ip] < 2 * MaxLP
      BY <2>2, <2>3, LimitsAssumption
    <2>5. Budget!Grant(ip)
      BY <2>1, <2>4 DEF Budget!Grant, Observe, Counted
    <2> QED
      BY <2>5 DEF Budget!Next
  <1>2. CASE ~(granted /\ ~critical)
    BY <1>2, BudgetUnchanged DEF Observe
  <1> QED
    BY <1>1, <1>2

LEMMA BudgetStep ==
    ASSUME IInv, IInv', [Next]_vars
    PROVE  [Budget!Next]_(Budget!vars)
  <1>1. CASE UnlimitedQuery \/ UNCHANGED vars
    BY <1>1, BudgetUnchanged DEF UnlimitedQuery, vars, limiterVars, observers
  <1>2. CASE GlobalQuery
    <2>1. CASE AllowsGlobal
      <3>1. grantedGlobal < MaxStored - 1
        BY <1>2, <2>1, LimitsAssumption
           DEF AllowsGlobal, IInv, GlobalCounted, TypeOK
      <3>2. Budget!GrantGlobal
        BY <1>2, <2>1, <3>1 DEF GlobalQuery, Budget!GrantGlobal
      <3> QED
        BY <3>2 DEF Budget!Next
    <2>2. CASE ~AllowsGlobal
      BY <1>2, <2>2, BudgetUnchanged DEF GlobalQuery
    <2> QED
      BY <2>1, <2>2
  <1>3. ASSUME NEW adr \in Addresses, NEW critical \in BOOLEAN,
               AllowQuery(adr, critical)
        PROVE  [Budget!Next]_(Budget!vars)
    <2>1. adr[1] \in IPs
      BY DEF Addresses
    <2>2. CASE WhitelistedQuery(adr)
      BY <2>2, BudgetUnchanged DEF WhitelistedQuery, observers
    <2>3. CASE KnownSourceQuery(adr, critical)
      <3>1. AllowsKnown(adr[1], critical) \in BOOLEAN
        BY DEF AllowsKnown
      <3> QED
        BY <2>1, <2>3, <3>1, BudgetObserve DEF KnownSourceQuery
    <2>4. CASE NewSourceQuery(adr, critical)
      BY <2>1, <2>4, BudgetObserve DEF NewSourceQuery
    <2>5. CASE RefusedSourceQuery(adr, critical)
      <3>1. UNCHANGED <<grantedLow, grantedGlobal>>
        BY <2>5 DEF RefusedSourceQuery, Observe
      <3>2. CASE useGlobal'
        <4>1. Budget!Saturate
          BY <3>1, <3>2 DEF Budget!Saturate, IInv, TypeOK
        <4> QED
          BY <4>1 DEF Budget!Next
      <3>3. CASE ~useGlobal'
        <4>1. useGlobal' = useGlobal
          BY <2>5, <3>3 DEF RefusedSourceQuery, Counted, IInv, TypeOK
        <4> QED
          BY <3>1, <4>1, BudgetUnchanged
      <3> QED
        BY <3>2, <3>3
    <2> QED
      BY <1>3, <2>2, <2>3, <2>4, <2>5 DEF AllowQuery
  <1>4. ASSUME NEW delta \in Deltas, CheckRates(delta)
        PROVE  [Budget!Next]_(Budget!vars)
    <2>1. Budget!NewInterval
      BY <1>4 DEF CheckRates, Budget!NewInterval, IInv, TypeOK
    <2> QED
      BY <2>1 DEF Budget!Next
  <1> QED
    BY <1>1, <1>2, <1>3, <1>4 DEF Next, Query, RatesChecked

(* Every behaviour of the limiter is one that FloodBudget allows. *)
THEOREM LimiterKeepsBudget == Spec => KeepsBudget
  <1>1. IInv /\ IInv' /\ [Next]_vars => [Budget!Next]_(Budget!vars)
    BY BudgetStep
  <1> QED
    BY <1>1, BudgetInit, Inductive, PTL DEF Spec, KeepsBudget, Budget!Spec

-----------------------------------------------------------------------------
(***************************************************************************)
(* Bans are earned.  A rate may be higher than the number of queries since *)
(* the last check, by what the check before left over and by what the      *)
(* first high-priority query is credited with, but not by both: RateAfter  *)
(* raises a rate to MinHP and no further.  What a check leaves over is     *)
(* below MinHP as long as the intervals are not so long that rounding the  *)
(* queries per second down forgives more than that.                        *)
(***************************************************************************)
UnusedAreQuiet == \A i \in Slots : lastQueries[i].ip = NoIP => lastQueries[i].rate = 0

RatesWereAsked ==
    BanTime # 0 =>
        \A i \in Slots : lastQueries[i].ip \in IPs =>
            lastQueries[i].rate <= asked[lastQueries[i].ip] + (MinHP - 1)

(* an interval of MinHP - 1 seconds at most, when the check is due every 0.25 s *)
IntervalsShort == \A delta \in Deltas : delta <= (MinHP - 1) * TicksPerSecond

LEMMA QuotientBounds ==
    ASSUME NEW x \in Nat, NEW y \in Nat \ {0}
    PROVE  \E q \in Nat : q = x \div y /\ q * y <= x /\ x < q * y + y
  OBVIOUS

LEMMA OrderOfProducts ==
    ASSUME NEW x \in Nat, NEW y \in Nat, NEW t \in Nat \ {0}
    PROVE  /\ x * t \in Nat /\ y * t \in Nat
           /\ x <= y => x * t <= y * t
           /\ x * t < y * t => x < y
           /\ (x + y) * t = x * t + y * t
  OBVIOUS

(* What a check leaves to a source that it does not ban. *)
LEMMA LittleIsLeft ==
    ASSUME IntervalsShort, NEW delta \in Deltas, NEW rate \in Nat,
           QueriesPerSecond(rate, delta) <= BanLevel \/ rate = 0
    PROVE  CooledRate(rate, delta) <= MinHP - 1
  <1>1. PICK half \in Nat : half = MaxLP \div 2 /\ half <= MaxLP
    BY LimitsAssumption, QuotientBounds
  <1>2. MaxLP <= MinHP - 1 /\ MinHP \in Nat /\ MaxLP \in Nat
    BY LimitsAssumption
  <1>3. CASE rate <= 2 * MaxLP
    BY <1>2, <1>3 DEF CooledRate
  <1>4. CASE rate > 2 * MaxLP
    <2>1. delta \in Nat \ {0} /\ TicksPerSecond \in Nat \ {0} /\ BanLevel \in Nat
      BY RatesAssumption
    <2>2. PICK sent \in Nat : sent = rate * TicksPerSecond
      BY <2>1
    <2>3. PICK allowed \in Nat : allowed = BanLevel * delta
      BY <2>1
    <2>4. PICK q \in Nat : q = sent \div delta /\ sent < q * delta + delta
      BY <2>1, QuotientBounds
    <2>5. q <= BanLevel
      BY <1>2, <1>4, <2>2, <2>4 DEF QueriesPerSecond
    <2>6. q * delta <= allowed
      BY <2>1, <2>3, <2>5, OrderOfProducts
    <2>7. PICK cut \in Nat : /\ cut = allowed \div TicksPerSecond
                             /\ allowed < cut * TicksPerSecond + TicksPerSecond
      BY <2>1, QuotientBounds
    <2>8. rate < cut + MinHP
      <3>1. PICK m \in Nat : m = MinHP - 1
        BY <1>2
      <3>2. PICK c \in Nat, d \in Nat : c = cut * TicksPerSecond /\ d = m * TicksPerSecond
        BY <2>1
      <3>3. PICK e \in Nat : e = q * delta
        BY <2>1
      <3>4. sent < c + TicksPerSecond + d
        <4>1. delta <= d
          BY <3>1, <3>2 DEF IntervalsShort
        <4> QED BY <2>1, <2>4, <2>6, <2>7, <3>2, <3>3, <4>1
      <3>5. (cut + (m + 1)) * TicksPerSecond = c + (TicksPerSecond + d)
        <4>1. /\ (cut + (m + 1)) * TicksPerSecond = c + (m + 1) * TicksPerSecond
              /\ (m + 1) * TicksPerSecond = d + 1 * TicksPerSecond
          BY <2>1, <3>2, OrderOfProducts
        <4> QED BY <2>1, <4>1
      <3>6. PICK all \in Nat : all = cut + (m + 1)
        OBVIOUS
      <3>7. rate * TicksPerSecond < all * TicksPerSecond
        BY <2>1, <2>2, <3>4, <3>5, <3>6
      <3>8. rate < all
        BY <2>1, <3>7, OrderOfProducts
      <3> QED BY <1>2, <3>1, <3>6, <3>8
    <2>9. CooledRate(rate, delta) = Larger(half, rate - cut)
      BY <1>1, <1>2, <1>4, <2>3, <2>7 DEF CooledRate
    <2> QED BY <1>1, <1>2, <2>8, <2>9 DEF Larger
  <1> QED BY <1>2, <1>3, <1>4

LEMMA RatesKept ==
    ASSUME IInv, UnusedAreQuiet, [Next]_vars
    PROVE  UnusedAreQuiet' /\ (IntervalsShort /\ RatesWereAsked => RatesWereAsked')
  <1> USE DEF IInv, TypeOK
  <1>0. MinHP \in Nat /\ MinHP > 0
    BY LimitsAssumption
  <1>1. ASSUME UNCHANGED <<lastQueries, asked>>
        PROVE  UnusedAreQuiet' /\ (RatesWereAsked => RatesWereAsked')
    BY <1>1 DEF UnusedAreQuiet, RatesWereAsked
  <1>2. ASSUME NEW adr \in Addresses, NEW critical \in BOOLEAN,
               KnownSourceQuery(adr, critical)
        PROVE  UnusedAreQuiet' /\ (RatesWereAsked => RatesWereAsked')
    <2>1. adr[1] \in IPs /\ adr[1] # NoIP
      BY SourcesAssumption DEF Addresses
    <2>2. PICK s \in Slots : s = SlotOf(adr[1]) /\ lastQueries[s].ip = adr[1]
      BY <1>2, <2>1, SlotOfSource DEF KnownSourceQuery
    <2>3. /\ lastQueries' = [lastQueries EXCEPT ![s].rate = RateAfter(@, critical)]
          /\ asked' = [asked EXCEPT ![adr[1]] = @ + 1]
      BY <1>2, <2>2 DEF KnownSourceQuery, Observe
    <2>4. /\ lastQueries'[s].ip = adr[1]
          /\ lastQueries'[s].rate = RateAfter(lastQueries[s].rate, critical)
          /\ \A i \in Slots \ {s} : lastQueries'[i] = lastQueries[i]
      BY <2>2, <2>3
    <2>5. asked'[adr[1]] = asked[adr[1]] + 1
          /\ \A ip \in IPs \ {adr[1]} : asked'[ip] = asked[ip]
      BY <2>1, <2>3
    <2>6. \A i \in Slots \ {s} : lastQueries[i].ip # adr[1]
      BY <2>1, <2>2 DEF NoDuplicateSources
    <2>7. UnusedAreQuiet'
      BY <2>1, <2>4 DEF UnusedAreQuiet
    <2>8. RatesWereAsked => RatesWereAsked'
      <3> SUFFICES ASSUME RatesWereAsked, BanTime # 0,
                          NEW i \in Slots, lastQueries'[i].ip \in IPs
                   PROVE  lastQueries'[i].rate <= asked'[lastQueries'[i].ip] + (MinHP - 1)
        BY DEF RatesWereAsked
      <3>1. CASE i = s
        <4>1. lastQueries[s].rate <= asked[adr[1]] + (MinHP - 1)
          BY <2>1, <2>2 DEF RatesWereAsked
        <4>2. lastQueries[s].rate \in Nat /\ asked[adr[1]] \in Nat
          BY <2>1
        <4>3. RateAfter(lastQueries[s].rate, critical) <=
                  (asked[adr[1]] + 1) + (MinHP - 1)
          BY <1>0, <4>1, <4>2 DEF RateAfter
        <4> QED BY <2>4, <2>5, <3>1, <4>3
      <3>2. CASE i # s
        BY <2>4, <2>5, <2>6, <3>2 DEF RatesWereAsked
      <3> QED BY <3>1, <3>2
    <2> QED BY <2>7, <2>8
  <1>3. ASSUME NEW adr \in Addresses, NEW critical \in BOOLEAN,
               NewSourceQuery(adr, critical)
        PROVE  UnusedAreQuiet' /\ (RatesWereAsked => RatesWereAsked')
    <2>1. adr[1] \in IPs /\ adr[1] # NoIP
      BY SourcesAssumption DEF Addresses
    <2>2. PICK s \in Slots : s = NextSlot
      BY NextSlotOldest
    <2>3. /\ lastQueries' = [lastQueries EXCEPT ![s] = [ip |-> adr[1], rate |-> 1]]
          /\ asked' = [asked EXCEPT ![adr[1]] = @ + 1]
          /\ ~Tracked(adr[1])
      BY <1>3, <2>2 DEF NewSourceQuery, Observe
    <2>4. /\ lastQueries'[s] = [ip |-> adr[1], rate |-> 1]
          /\ \A i \in Slots \ {s} : lastQueries'[i] = lastQueries[i]
      BY <2>2, <2>3
    <2>5. asked'[adr[1]] = asked[adr[1]] + 1
          /\ \A ip \in IPs \ {adr[1]} : asked'[ip] = asked[ip]
      BY <2>1, <2>3
    <2>6. \A i \in Slots : lastQueries[i].ip # adr[1]
      BY <2>3 DEF Tracked
    <2>7. UnusedAreQuiet'
      BY <2>1, <2>4 DEF UnusedAreQuiet
    <2>8. RatesWereAsked => RatesWereAsked'
      <3> SUFFICES ASSUME RatesWereAsked, BanTime # 0,
                          NEW i \in Slots, lastQueries'[i].ip \in IPs
                   PROVE  lastQueries'[i].rate <= asked'[lastQueries'[i].ip] + (MinHP - 1)
        BY DEF RatesWereAsked
      <3>1. CASE i = s
        <4>1. asked[adr[1]] \in Nat
          BY <2>1
        <4>2. lastQueries'[i].rate = 1 /\ lastQueries'[i].ip = adr[1]
          BY <2>4, <3>1
        <4> QED BY <1>0, <2>5, <4>1, <4>2
      <3>2. CASE i # s
        BY <2>4, <2>5, <2>6, <3>2 DEF RatesWereAsked
      <3> QED BY <3>1, <3>2
    <2> QED BY <2>7, <2>8
  <1>4. ASSUME NEW adr \in Addresses, NEW critical \in BOOLEAN,
               RefusedSourceQuery(adr, critical)
        PROVE  UnusedAreQuiet' /\ (RatesWereAsked => RatesWereAsked')
    <2>1. adr[1] \in IPs
      BY DEF Addresses
    <2>2. UNCHANGED lastQueries /\ asked' = [asked EXCEPT ![adr[1]] = @ + 1]
      BY <1>4 DEF RefusedSourceQuery, Observe
    <2>3. \A ip \in IPs : asked[ip] \in Nat /\ asked'[ip] \in Nat /\ asked[ip] <= asked'[ip]
      BY <2>1, <2>2
    <2>4. RatesWereAsked => RatesWereAsked'
      <3> SUFFICES ASSUME RatesWereAsked, BanTime # 0,
                          NEW i \in Slots, lastQueries[i].ip \in IPs
                   PROVE  lastQueries[i].rate <= asked'[lastQueries[i].ip] + (MinHP - 1)
        BY <2>2 DEF RatesWereAsked
      <3>1. PICK ip \in IPs, rate \in Nat : ip = lastQueries[i].ip /\ rate = lastQueries[i].rate
        OBVIOUS
      <3>2. rate <= asked[ip] + (MinHP - 1)
        BY <3>1 DEF RatesWereAsked
      <3> QED BY <1>0, <2>3, <3>1, <3>2
    <2> QED BY <2>2, <2>4 DEF UnusedAreQuiet
  <1>5. ASSUME NEW delta \in Deltas, CheckRates(delta)
        PROVE  UnusedAreQuiet' /\ (IntervalsShort => RatesWereAsked')
    <2>1. \A i \in Slots :
              /\ lastQueries'[i].ip = lastQueries[i].ip
              /\ lastQueries'[i].rate = IF Flooding(i, delta) THEN 0
                                        ELSE CooledRate(lastQueries[i].rate, delta)
      BY <1>5 DEF CheckRates
    <2>2. \A ip \in IPs : asked'[ip] = 0
      BY <1>5 DEF CheckRates
    <2>3. CooledRate(0, delta) = 0
      BY LimitsAssumption DEF CooledRate
    <2>4. UnusedAreQuiet'
      BY <2>1, <2>3 DEF UnusedAreQuiet
    <2>5. ASSUME IntervalsShort, BanTime # 0, NEW i \in Slots
          PROVE  lastQueries'[i].rate <= MinHP - 1
      <3>1. PICK rate \in Nat : rate = lastQueries[i].rate
        OBVIOUS
      <3>2. QueriesPerSecond(rate, delta) \in Nat
        <4>1. rate * TicksPerSecond \in Nat /\ delta \in Nat \ {0}
          BY RatesAssumption
        <4> QED BY <4>1, QuotientNat DEF QueriesPerSecond
      <3>3. CASE Flooding(i, delta)
        BY <1>0, <2>1, <3>3
      <3>4. CASE ~Flooding(i, delta)
        <4>1. QueriesPerSecond(rate, delta) <= BanLevel \/ rate = 0
          BY <2>5, <3>1, <3>2, <3>4, RatesAssumption DEF Flooding
        <4>2. CooledRate(rate, delta) <= MinHP - 1
          BY <2>5, <4>1, LittleIsLeft
        <4> QED BY <2>1, <3>1, <3>4, <4>2
      <3> QED BY <3>3, <3>4
    <2>6. IntervalsShort => RatesWereAsked'
      BY <1>0, <2>1, <2>2, <2>5 DEF RatesWereAsked
    <2> QED BY <2>4, <2>6
  <1> QED
    BY <1>1, <1>2, <1>3, <1>4, <1>5
       DEF Next, Query, RatesChecked, AllowQuery, UnlimitedQuery, GlobalQuery,
           WhitelistedQuery, vars, limiterVars, observers

(* A flooder put his queries to the limiter since the last check, all but the
   MinHP - 1 of the credit. *)
LEMMA FloodersAsked ==
    ASSUME IInv, UnusedAreQuiet, RatesWereAsked, NEW delta \in Deltas,
           NEW ip \in Flooders(delta)
    PROVE  (asked[ip] + MinHP - 1) * TicksPerSecond > BanLevel * delta
  <1> USE DEF IInv, TypeOK
  <1>1. PICK i \in Slots : Flooding(i, delta) /\ ip = lastQueries[i].ip
    BY DEF Flooders
  <1>2. PICK rate \in Nat : rate = lastQueries[i].rate
    OBVIOUS
  <1>3. BanTime # 0 /\ rate > 0 /\ QueriesPerSecond(rate, delta) > BanLevel
    BY <1>1, <1>2 DEF Flooding
  <1>4. ip \in IPs
    BY <1>1, <1>2, <1>3 DEF UnusedAreQuiet
  <1>5. PICK all \in Nat : all = asked[ip] + MinHP - 1
    BY <1>4, LimitsAssumption
  <1>6. rate <= all
    BY <1>1, <1>2, <1>3, <1>4, <1>5, LimitsAssumption DEF RatesWereAsked
  <1>7. delta \in Nat \ {0} /\ TicksPerSecond \in Nat \ {0} /\ BanLevel \in Nat
    BY RatesAssumption
  <1>8. PICK sent \in Nat : sent = rate * TicksPerSecond
    BY <1>7
  <1>9. PICK q \in Nat : q = sent \div delta /\ q * delta <= sent
    BY <1>7, QuotientBounds
  <1>10. q > BanLevel
    BY <1>3, <1>8, <1>9 DEF QueriesPerSecond
  <1>11. q * delta > BanLevel * delta
    BY <1>7, <1>10
  <1>12. sent <= all * TicksPerSecond
    BY <1>6, <1>7, <1>8, OrderOfProducts
  <1>13. BanLevel * delta \in Nat /\ q * delta \in Nat /\ all * TicksPerSecond \in Nat
    BY <1>7
  <1> QED BY <1>5, <1>9, <1>11, <1>12, <1>13

(* checkRates bans for a rate that the source asked for since the last check. *)
THEOREM BansAreEarned ==
    ASSUME IntervalsShort
    PROVE  Spec => BanIsEarned
  <1>1. Init => UnusedAreQuiet /\ RatesWereAsked
    BY SourcesAssumption DEF Init, UnusedAreQuiet, RatesWereAsked
  <1>2. IInv /\ UnusedAreQuiet /\ RatesWereAsked /\ [Next]_vars =>
            UnusedAreQuiet' /\ RatesWereAsked'
    BY RatesKept
  <1>3. IInv /\ UnusedAreQuiet /\ RatesWereAsked /\ [Next]_vars =>
            [\A delta \in Deltas : CheckRates(delta) =>
                \A ip \in Flooders(delta) :
                    (asked[ip] + MinHP - 1) * TicksPerSecond > BanLevel * delta]_vars
    BY FloodersAsked
  <1> QED
    BY <1>1, <1>2, <1>3, Inductive, PTL DEF Spec, BanIsEarned

=============================================================================
