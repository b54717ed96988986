-------------------------- MODULE QueryBugfixProofs -------------------------
(***************************************************************************)
(* Theorems about QueryBugfix, for every set of sources and every size of  *)
(* the table.                                                              *)
(*                                                                         *)
(* The inductive invariant ties the table to the sources from both sides:  *)
(* an entry belongs to the source whose number of entry falls on its slot, *)
(* and a source that entered within the last MaxIPs is there.  What makes  *)
(* it hold is that numbers less than MaxIPs apart fall on different slots. *)
(***************************************************************************)
EXTENDS QueryBugfix, TLAPS

EntriesKnown ==
    \A i \in Slots : lastQueries[i].ip # NoIP =>
        /\ entered[lastQueries[i].ip] \in Nat
        /\ seq - entered[lastQueries[i].ip] <= MaxIPs
        /\ entered[lastQueries[i].ip] % MaxIPs = i
        /\ lastQueries[i].time = asked[lastQueries[i].ip]

SourcesFound ==
    \A ip \in IPs : entered[ip] >= 0 /\ seq - entered[ip] <= MaxIPs =>
        lastQueries[entered[ip] % MaxIPs].ip = ip

ObserversAgree ==
    \A ip \in IPs : entered[ip] < seq /\ (asked[ip] >= 0 <=> entered[ip] >= 0)

IInv == TypeOK /\ EntriesKnown /\ SourcesFound /\ ObserversAgree

-----------------------------------------------------------------------------
(* A number falls on a slot. *)
LEMMA SlotOfNumber ==
    ASSUME NEW n \in Nat
    PROVE  n % MaxIPs \in Slots
  BY BugfixAssumption DEF Slots

(* The slot is the rest of a division. *)
LEMMA Turns ==
    ASSUME NEW n \in Nat
    PROVE  /\ n \div MaxIPs \in Int
           /\ n % MaxIPs \in 0 .. MaxIPs - 1
           /\ n = MaxIPs * (n \div MaxIPs) + (n % MaxIPs)
  BY BugfixAssumption

(* Less than a whole turn is no turn. *)
LEMMA NoTurn ==
    ASSUME NEW k \in Int, MaxIPs * k < MaxIPs, MaxIPs * k > -MaxIPs
    PROVE  k = 0
  <1>1. CASE k >= 1
    <2>1. MaxIPs * k >= MaxIPs
      BY <1>1, BugfixAssumption
    <2> QED BY <2>1, BugfixAssumption
  <1>2. CASE k <= -1
    <2>1. MaxIPs * k <= -MaxIPs
      BY <1>2, BugfixAssumption
    <2> QED BY <2>1, BugfixAssumption
  <1> QED BY <1>1, <1>2

(* Two numbers fall on the same slot only if they are a whole number of turns
   apart. *)
LEMMA SameSlot ==
    ASSUME NEW x \in Nat, NEW y \in Nat, x < y, y - x < MaxIPs
    PROVE  x % MaxIPs # y % MaxIPs
  <1> SUFFICES ASSUME x % MaxIPs = y % MaxIPs PROVE FALSE
    OBVIOUS
  <1> DEFINE a == x \div MaxIPs
             b == y \div MaxIPs
  <1>1. /\ a \in Int /\ b \in Int
        /\ x % MaxIPs \in Int
        /\ x = MaxIPs * a + (x % MaxIPs)
        /\ y = MaxIPs * b + (x % MaxIPs)
    BY Turns
  <1> HIDE DEF a, b
  <1>2. y - x = MaxIPs * (b - a)
    BY <1>1, BugfixAssumption
  <1>3. b - a = 0
    BY <1>1, <1>2, NoTurn, BugfixAssumption
  <1> QED BY <1>2, <1>3, BugfixAssumption

(* One turn later is the same slot. *)
LEMMA NextTurn ==
    ASSUME NEW x \in Nat
    PROVE  (x + MaxIPs) % MaxIPs = x % MaxIPs
  <1> DEFINE y == x + MaxIPs
             a == x \div MaxIPs
             b == y \div MaxIPs
             r == x % MaxIPs
             t == y % MaxIPs
  <1>0. y \in Nat
    BY BugfixAssumption
  <1>1. /\ a \in Int /\ b \in Int
        /\ r \in 0 .. MaxIPs - 1 /\ t \in 0 .. MaxIPs - 1
        /\ x = MaxIPs * a + r
    BY Turns, <1>0
  <1>2. y = MaxIPs * b + t
    BY Turns, <1>0
  <1>3. x + MaxIPs = y
    OBVIOUS
  <1> HIDE DEF y, a, b, r, t
  <1>4. MaxIPs * (a + 1 - b) = t - r
    BY <1>0, <1>1, <1>2, <1>3, BugfixAssumption
  <1>5. a + 1 - b = 0
    BY <1>1, <1>4, NoTurn, BugfixAssumption
  <1>6. t = r
    BY <1>1, <1>4, <1>5, BugfixAssumption
  <1> QED BY <1>6 DEF y, r, t

(* The scan finds the one entry of a source, with the time it last asked. *)
LEMMA EntryOfSource ==
    ASSUME IInv, NEW ip \in IPs, Hits(ip) # {}
    PROVE  LET i == CHOOSE i \in Hits(ip) : \A j \in Hits(ip) : i <= j IN
           /\ i = entered[ip] % MaxIPs
           /\ i \in Slots
           /\ lastQueries[i].ip = ip
           /\ lastQueries[i].time = asked[ip]
           /\ Hits(ip) = {i}
  <1> DEFINE e == entered[ip] % MaxIPs
  <1>1. ip # NoIP
    BY BugfixAssumption
  <1>2. \A j \in Hits(ip) : j = e
    BY <1>1 DEF IInv, EntriesKnown, Hits
  <1>3. Hits(ip) = {e} /\ e \in Slots
    BY <1>2 DEF Hits
  <1>4. e <= e
    BY <1>3, BugfixAssumption DEF Slots
  <1>5. (CHOOSE i \in Hits(ip) : \A j \in Hits(ip) : i <= j) = e
    <2> HIDE DEF e
    <2> QED BY <1>3, <1>4
  <1>6. lastQueries[e].ip = ip
    BY <1>3 DEF Hits
  <1>7. lastQueries[e].time = asked[ip]
    BY <1>1, <1>3, <1>6 DEF IInv, EntriesKnown
  <1> QED BY <1>3, <1>5, <1>6, <1>7

-----------------------------------------------------------------------------
LEMMA InitInvariant == Init => IInv
  <1> SUFFICES ASSUME Init PROVE IInv
    OBVIOUS
  <1>1. TypeOK
    <2>1. [ip |-> NoIP, time |-> 0] \in [ip : IPs \cup {NoIP}, time : Nat]
      OBVIOUS
    <2>2. lastQueries \in [Slots -> [ip : IPs \cup {NoIP}, time : Nat]]
      BY <2>1 DEF Init
    <2>3. /\ \A i \in Slots : lastQueries[i].time <= realTime
          /\ seq \in Nat /\ realTime \in Nat
      BY DEF Init
    <2>5. bugged \in BOOLEAN
      BY Zenon DEF Init
    <2>4. asked \in [IPs -> {-1} \cup Nat] /\ entered \in [IPs -> {-1} \cup Nat]
      BY DEF Init
    <2> QED BY <2>2, <2>3, <2>4, <2>5 DEF TypeOK
  <1>2. EntriesKnown
    BY DEF Init, EntriesKnown
  <1>3. SourcesFound /\ ObserversAgree
    BY DEF Init, SourcesFound, ObserversAgree
  <1> QED BY <1>1, <1>2, <1>3 DEF IInv

LEMMA SeenAgainKeeps ==
    ASSUME IInv, NEW ip \in IPs, SeenAgain(ip)
    PROVE  IInv'
  <1> DEFINE i == CHOOSE i \in Hits(ip) : \A j \in Hits(ip) : i <= j
  <1>1. /\ i \in Slots
        /\ lastQueries[i].ip = ip
        /\ Hits(ip) = {i}
    BY EntryOfSource DEF SeenAgain
  <1>2. /\ lastQueries' = [lastQueries EXCEPT ![i].time = realTime]
        /\ bugged' \in BOOLEAN
        /\ asked' = [asked EXCEPT ![ip] = realTime]
        /\ UNCHANGED <<seq, realTime, entered>>
    BY DEF SeenAgain
  <1> HIDE DEF i
  <1>3. TypeOK'
    BY <1>1, <1>2 DEF IInv, TypeOK
  <1>4. \A j \in Slots : lastQueries'[j].ip = lastQueries[j].ip
    BY <1>1, <1>2 DEF IInv, TypeOK
  <1>5. EntriesKnown'
    <2> SUFFICES ASSUME NEW j \in Slots, lastQueries[j].ip # NoIP
                 PROVE  /\ entered[lastQueries[j].ip] \in Nat
                        /\ seq - entered[lastQueries[j].ip] <= MaxIPs
                        /\ entered[lastQueries[j].ip] % MaxIPs = j
                        /\ lastQueries'[j].time = asked'[lastQueries[j].ip]
      BY <1>2, <1>4 DEF EntriesKnown
    <2>1. lastQueries'[j].time = asked'[lastQueries[j].ip]
      <3>1. CASE j = i
        BY <1>1, <1>2, <3>1 DEF IInv, TypeOK
      <3>2. CASE j # i
        <4>1. lastQueries[j].ip # ip
          BY <1>1, <3>2 DEF Hits
        <4> QED BY <1>2, <3>2, <4>1 DEF IInv, TypeOK, EntriesKnown
      <3> QED BY <3>1, <3>2
    <2> QED BY <2>1 DEF IInv, EntriesKnown
  <1>6. SourcesFound'
    <2> SUFFICES ASSUME NEW q \in IPs, entered[q] >= 0, seq - entered[q] <= MaxIPs
                 PROVE  lastQueries'[entered[q] % MaxIPs].ip = q
      BY <1>2 DEF SourcesFound
    <2>1. entered[q] % MaxIPs \in Slots
      BY SlotOfNumber DEF IInv, TypeOK
    <2> QED BY <1>4, <2>1 DEF IInv, SourcesFound
  <1>7. ObserversAgree'
    <2>1. entered[ip] >= 0 /\ realTime >= 0
      <3>1. lastQueries[i].ip # NoIP
        BY <1>1, BugfixAssumption
      <3> QED BY <1>1, <3>1 DEF IInv, TypeOK, EntriesKnown
    <2> QED BY <1>2, <2>1 DEF IInv, TypeOK, ObserversAgree
  <1> QED BY <1>3, <1>5, <1>6, <1>7 DEF IInv

LEMMA SeenNewKeeps ==
    ASSUME IInv, NEW ip \in IPs, SeenNew(ip)
    PROVE  IInv'
  <1> DEFINE s == seq % MaxIPs
  <1>1. s \in Slots
    BY SlotOfNumber DEF IInv, TypeOK
  <1>2. /\ lastQueries' = [lastQueries EXCEPT ![s] = [ip |-> ip, time |-> realTime]]
        /\ bugged' = FALSE
        /\ seq' = seq + 1
        /\ asked' = [asked EXCEPT ![ip] = realTime]
        /\ entered' = [entered EXCEPT ![ip] = seq]
        /\ realTime' = realTime
        /\ Hits(ip) = {}
    BY DEF SeenNew
  <1>t. /\ seq \in Nat /\ realTime \in Nat /\ ip # NoIP
        /\ asked[ip] \in {-1} \cup Nat
        /\ entered[ip] \in {-1} \cup Nat
    BY BugfixAssumption DEF IInv, TypeOK
  <1> HIDE DEF s
  <1>3. TypeOK'
    <2>1. [ip |-> ip, time |-> realTime] \in [ip : IPs \cup {NoIP}, time : Nat]
      BY <1>t
    <2>2. lastQueries' \in [Slots -> [ip : IPs \cup {NoIP}, time : Nat]]
      BY <1>1, <1>2, <2>1 DEF IInv, TypeOK
    <2>3. \A j \in Slots : lastQueries'[j].time <= realTime'
      BY <1>1, <1>2, <1>t DEF IInv, TypeOK
    <2>4. seq' \in Nat /\ realTime' \in Nat
      BY <1>2, <1>t
    <2>6. bugged' \in BOOLEAN
      BY <1>2, Zenon
    <2>5. asked' \in [IPs -> {-1} \cup Nat] /\ entered' \in [IPs -> {-1} \cup Nat]
      BY <1>2, <1>t DEF IInv, TypeOK
    <2> QED BY <2>2, <2>3, <2>4, <2>5, <2>6 DEF TypeOK
  <1>4. lastQueries'[s] = [ip |-> ip, time |-> realTime]
    BY <1>1, <1>2 DEF IInv, TypeOK
  <1>5. \A j \in Slots \ {s} : lastQueries'[j] = lastQueries[j] /\ lastQueries[j].ip # ip
    BY <1>2 DEF IInv, TypeOK, Hits
  <1>6. /\ asked'[ip] = realTime /\ entered'[ip] = seq
        /\ \A q \in IPs \ {ip} : asked'[q] = asked[q] /\ entered'[q] = entered[q]
    BY <1>2 DEF IInv, TypeOK
  <1>7. EntriesKnown'
    <2> SUFFICES ASSUME NEW j \in Slots, lastQueries'[j].ip # NoIP
                 PROVE  /\ entered'[lastQueries'[j].ip] \in Nat
                        /\ seq' - entered'[lastQueries'[j].ip] <= MaxIPs
                        /\ entered'[lastQueries'[j].ip] % MaxIPs = j
                        /\ lastQueries'[j].time = asked'[lastQueries'[j].ip]
      BY DEF EntriesKnown
    <2>1. CASE j = s
      BY <2>1, <1>2, <1>4, <1>6, <1>t, BugfixAssumption DEF s
    <2>2. CASE j # s
      <3> DEFINE q == lastQueries[j].ip
      <3>1. q \in IPs \ {ip} /\ lastQueries'[j] = lastQueries[j]
        BY <1>5, <2>2 DEF IInv, TypeOK
      <3>2. /\ entered[q] \in Nat /\ seq - entered[q] <= MaxIPs
            /\ entered[q] % MaxIPs = j
            /\ lastQueries[j].time = asked[q]
        BY <3>1 DEF IInv, EntriesKnown
      <3> HIDE DEF q
      <3>3. seq - entered[q] # MaxIPs
        <4> SUFFICES ASSUME seq - entered[q] = MaxIPs PROVE FALSE
          OBVIOUS
        <4>1. seq = entered[q] + MaxIPs
          BY <3>2, <1>t, BugfixAssumption
        <4> QED BY <3>2, <2>2, <4>1, NextTurn DEF s
      <3>4. seq + 1 - entered[q] <= MaxIPs
        BY <3>2, <3>3, <1>t, BugfixAssumption
      <3>5. lastQueries'[j].ip = q /\ lastQueries'[j].time = lastQueries[j].time
        BY <3>1 DEF q
      <3>6. entered'[q] = entered[q] /\ asked'[q] = asked[q]
        BY <1>6, <3>1
      <3>7. /\ entered'[q] \in Nat
            /\ entered'[q] % MaxIPs = j
        BY <3>2, <3>6
      <3>8. seq' - entered'[q] <= MaxIPs
        BY <1>2, <1>t, <3>2, <3>4, <3>6, BugfixAssumption
      <3>9. lastQueries'[j].time = asked'[q]
        BY <3>2, <3>5, <3>6
      <3> QED BY <3>5, <3>7, <3>8, <3>9
    <2> QED BY <2>1, <2>2
  <1>8. SourcesFound'
    <2> SUFFICES ASSUME NEW q \in IPs, entered'[q] >= 0, seq' - entered'[q] <= MaxIPs
                 PROVE  lastQueries'[entered'[q] % MaxIPs].ip = q
      BY DEF SourcesFound
    <2>1. CASE q = ip
      BY <2>1, <1>4, <1>6 DEF s
    <2>2. CASE q # ip
      <3>1. entered'[q] = entered[q] /\ entered[q] \in Nat /\ entered[q] < seq
        BY <1>6, <2>2 DEF IInv, TypeOK, ObserversAgree
      <3>2. seq - entered[q] < MaxIPs
        BY <1>2, <1>t, <3>1, BugfixAssumption
      <3>3. lastQueries[entered[q] % MaxIPs].ip = q
        BY <3>1, <3>2, <1>t, BugfixAssumption DEF IInv, SourcesFound
      <3>4. entered[q] % MaxIPs # s
        BY SameSlot, <3>1, <3>2, <1>t DEF s
      <3>5. entered[q] % MaxIPs \in Slots
        BY SlotOfNumber, <3>1
      <3> QED BY <1>5, <3>1, <3>3, <3>4, <3>5
    <2> QED BY <2>1, <2>2
  <1>9. ObserversAgree'
    <2> SUFFICES ASSUME NEW q \in IPs
                 PROVE  entered'[q] < seq' /\ (asked'[q] >= 0 <=> entered'[q] >= 0)
      BY DEF ObserversAgree
    <2>1. entered[q] < seq /\ (asked[q] >= 0 <=> entered[q] >= 0) /\ entered[q] \in Int
      BY DEF IInv, ObserversAgree, TypeOK
    <2> QED BY <1>2, <1>6, <1>t, <2>1
  <1> QED BY <1>3, <1>7, <1>8, <1>9 DEF IInv

LEMMA FrameKeeps ==
    ASSUME IInv, NEW step \in FrameSteps, Frame(step)
    PROVE  IInv'
  <1>1. step \in Nat
    BY BugfixAssumption
  <1>2. TypeOK'
    BY <1>1 DEF IInv, TypeOK, Frame
  <1>3. EntriesKnown' /\ SourcesFound' /\ ObserversAgree'
    BY DEF IInv, EntriesKnown, SourcesFound, ObserversAgree, Frame
  <1> QED BY <1>2, <1>3 DEF IInv

THEOREM Invariant == Spec => []IInv
  <1>1. IInv /\ [Next]_vars => IInv'
    <2> SUFFICES ASSUME IInv, [Next]_vars PROVE IInv'
      OBVIOUS
    <2>1. CASE UNCHANGED vars
      BY <2>1 DEF vars, IInv, TypeOK, EntriesKnown, SourcesFound, ObserversAgree
    <2>2. CASE \E ip \in IPs : SeenAgain(ip) \/ SeenNew(ip)
      BY <2>2, SeenAgainKeeps, SeenNewKeeps
    <2>3. CASE \E step \in FrameSteps : Frame(step)
      BY <2>3, FrameKeeps
    <2> QED BY <2>1, <2>2, <2>3 DEF Next
  <1> QED BY <1>1, InitInvariant, PTL DEF Spec

(* The table, its counter and the observers have their types at any time. *)
THEOREM TypeCorrect == Spec => []TypeOK
  BY Invariant, PTL DEF IInv

(* The table holds each of the last MaxIPs sources once, with the time it last
   asked, for any number of sources and any size of the table. *)
THEOREM RemembersSources == Spec => []TableRemembers
  <1>1. IInv => TableRemembers
    <2> SUFFICES ASSUME IInv, NEW ip \in IPs, entered[ip] >= 0, seq - entered[ip] <= MaxIPs
                 PROVE  /\ lastQueries[entered[ip] % MaxIPs] = [ip |-> ip, time |-> asked[ip]]
                        /\ Hits(ip) = {entered[ip] % MaxIPs}
      BY DEF TableRemembers
    <2> DEFINE e == entered[ip] % MaxIPs
    <2>1. e \in Slots
      BY SlotOfNumber DEF IInv, TypeOK
    <2>2. lastQueries[e].ip = ip
      BY DEF IInv, SourcesFound
    <2>3. ip # NoIP
      BY BugfixAssumption
    <2>4. lastQueries[e].time = asked[ip]
      BY <2>1, <2>2, <2>3 DEF IInv, EntriesKnown
    <2>5. lastQueries[e] \in [ip : IPs \cup {NoIP}, time : Nat]
      BY <2>1 DEF IInv, TypeOK
    <2>6. \A j \in Hits(ip) : j = e
      BY <2>3 DEF IInv, EntriesKnown, Hits
    <2>7. Hits(ip) = {e}
      BY <2>1, <2>2, <2>6 DEF Hits
    <2> QED BY <2>2, <2>4, <2>5, <2>7
  <1> QED BY <1>1, Invariant, PTL

(* isBuggedQuery says yes exactly to those that asked a moment before, as long
   as their place has not changed hands. *)
THEOREM AnswersAreRight == Spec => RowsAreFound
  <1> DEFINE Right(ip) ==
        /\ bugged' => asked[ip] >= 0 /\ realTime - asked[ip] < MaxDelta
        /\ asked[ip] >= 0 /\ realTime - asked[ip] < MaxDelta
              /\ seq - entered[ip] <= MaxIPs => bugged'
  <1>1. IInv => \A ip \in IPs : SeenAgain(ip) \/ SeenNew(ip) => Right(ip)
    <2> SUFFICES ASSUME IInv, NEW ip \in IPs, SeenAgain(ip) \/ SeenNew(ip)
                 PROVE  Right(ip)
      OBVIOUS
    <2>1. CASE SeenAgain(ip)
      <3> DEFINE i == CHOOSE i \in Hits(ip) : \A j \in Hits(ip) : i <= j
      <3>1. i \in Slots /\ lastQueries[i].time = asked[ip]
        <4>1. Hits(ip) # {}
          BY <2>1 DEF SeenAgain
        <4> QED BY <4>1, EntryOfSource
      <3>2. bugged' = (realTime - lastQueries[i].time < MaxDelta)
        BY <2>1 DEF SeenAgain
      <3>3. lastQueries[i].time \in Nat
        BY <3>1 DEF IInv, TypeOK
      <3>4. realTime \in Nat
        BY DEF IInv, TypeOK
      <3> HIDE DEF i
      <3>5. asked[ip] >= 0
        BY <3>1, <3>3
      <3>6. bugged' <=> realTime - asked[ip] < MaxDelta
        BY <3>1, <3>2
      <3> QED BY <3>5, <3>6
    <2>2. CASE SeenNew(ip)
      <3>1. bugged' = FALSE /\ Hits(ip) = {}
        BY <2>2 DEF SeenNew
      <3>2. ~(asked[ip] >= 0 /\ seq - entered[ip] <= MaxIPs)
        <4> SUFFICES ASSUME asked[ip] >= 0, seq - entered[ip] <= MaxIPs PROVE FALSE
          OBVIOUS
        <4>1. entered[ip] >= 0 /\ entered[ip] \in Nat
          BY DEF IInv, TypeOK, ObserversAgree
        <4>2. lastQueries[entered[ip] % MaxIPs].ip = ip
          BY <4>1 DEF IInv, SourcesFound
        <4> QED BY <3>1, <4>1, <4>2, SlotOfNumber DEF Hits
      <3> QED BY <3>1, <3>2
    <2> QED BY <2>1, <2>2
  <1>2. Spec => [][\A ip \in IPs : SeenAgain(ip) \/ SeenNew(ip) => Right(ip)]_vars
    <2> HIDE DEF Right
    <2> QED BY <1>1, Invariant, PTL DEF Spec
  <1> QED BY <1>2 DEF RowsAreFound
=============================================================================
