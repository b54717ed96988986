---------------------------- MODULE SublistProofs ---------------------------
(***************************************************************************)
(* What the proofs about lists need: Nth enumerates a finite set of        *)
(* numbers in increasing order, it is the only way to do so, and therefore *)
(* a sublist of a sublist is a sublist; a loop of so many turns has a      *)
(* result.                                                                 *)
(***************************************************************************)
EXTENDS Sublists, Sequences, FiniteSetTheorems, FunctionTheorems, WellFoundedInduction, TLAPS

Rank(S, i) == Cardinality({j \in S : j <= i})

(* The rank of a member is a place in the order. *)
LEMMA RankType ==
    ASSUME NEW S \in SUBSET Int, IsFiniteSet(S), NEW i \in S
    PROVE  Rank(S, i) \in 1 .. Cardinality(S)
  <1> DEFINE T == {j \in S : j <= i}
  <1>1. /\ IsFiniteSet(T)
        /\ Cardinality(T) <= Cardinality(S)
    BY FS_Subset
  <1>2. Cardinality(T) \in Nat /\ Cardinality(S) \in Nat
    BY <1>1, FS_CardinalityType
  <1>3. i \in T
    OBVIOUS
  <1>4. Cardinality(T) # 0
    BY <1>1, <1>3, FS_EmptySet
  <1> QED
    BY <1>1, <1>2, <1>4 DEF Rank

(* Ranks are ordered as the members are. *)
LEMMA RankOrder ==
    ASSUME NEW S \in SUBSET Int, IsFiniteSet(S), NEW i \in S, NEW j \in S, i < j
    PROVE  Rank(S, i) < Rank(S, j)
  <1> DEFINE A == {k \in S : k <= i}
             B == {k \in S : k <= j}
  <1>1. IsFiniteSet(B) /\ IsFiniteSet(A)
    BY FS_Subset
  <1>2. A \subseteq B
    <2>1. \A k \in S : k \in Int
      OBVIOUS
    <2>2. \A k \in S : k <= i => k <= j
      BY <2>1
    <2> QED BY <2>2
  <1>3. j \in B /\ j \notin A
    OBVIOUS
  <1>4. Cardinality(A) <= Cardinality(B) /\ Cardinality(A) # Cardinality(B)
    <2> HIDE DEF A, B
    <2> QED BY <1>1, <1>2, <1>3, FS_Subset
  <1>5. Cardinality(A) \in Nat /\ Cardinality(B) \in Nat
    BY <1>1, FS_CardinalityType
  <1> QED
    BY <1>4, <1>5 DEF Rank

LEMMA RankUnique ==
    ASSUME NEW S \in SUBSET Int, IsFiniteSet(S), NEW i \in S, NEW j \in S,
           Rank(S, i) = Rank(S, j)
    PROVE  i = j
  <1>1. Rank(S, i) \in Int /\ Rank(S, j) \in Int
    BY RankType
  <1>2. ~(i < j) /\ ~(j < i)
    BY <1>1, RankOrder
  <1>3. i \in Int /\ j \in Int
    OBVIOUS
  <1> QED
    BY <1>2, <1>3

(* Every place in the order is some member's rank: ranks are an injection into
   a set of the same size. *)
LEMMA RankOnto ==
    ASSUME NEW S \in SUBSET Int, IsFiniteSet(S), NEW k \in 1 .. Cardinality(S)
    PROVE  \E i \in S : Rank(S, i) = k
  <1> DEFINE N == 1 .. Cardinality(S)
             r == [i \in S |-> Rank(S, i)]
  <1>1. Cardinality(S) \in Nat
    BY FS_CardinalityType
  <1>2. IsFiniteSet(N) /\ Cardinality(N) = Cardinality(S)
    BY <1>1, FS_Interval
  <1>3. r \in [S -> N]
    BY RankType
  <1>4. r \in Injection(S, N)
    BY <1>3, RankUnique DEF Injection, IsInjective
  <1>5. r \in Surjection(S, N)
    <2> HIDE DEF r, N
    <2> QED BY <1>2, <1>4, FS_Injection
  <1>6. \E i \in S : r[i] = k
    BY <1>5 DEF Surjection
  <1> QED
    BY <1>6

(* Nth finds the member of that rank ... *)
LEMMA NthRank ==
    ASSUME NEW S \in SUBSET Int, IsFiniteSet(S), NEW k \in 1 .. Cardinality(S)
    PROVE  Nth(S, k) \in S /\ Rank(S, Nth(S, k)) = k
  BY RankOnto DEF Nth, Rank

(* ... and there is no other. *)
LEMMA NthOfRank ==
    ASSUME NEW S \in SUBSET Int, IsFiniteSet(S), NEW i \in S
    PROVE  Nth(S, Rank(S, i)) = i
  <1>1. Rank(S, i) \in 1 .. Cardinality(S)
    BY RankType
  <1> DEFINE n == Nth(S, Rank(S, i))
  <1>2. n \in S /\ Rank(S, n) = Rank(S, i)
    BY <1>1, NthRank
  <1> HIDE DEF n
  <1>3. n = i
    BY <1>2, RankUnique
  <1> QED
    BY <1>3 DEF n

LEMMA NthOrder ==
    ASSUME NEW S \in SUBSET Int, IsFiniteSet(S),
           NEW k \in 1 .. Cardinality(S), NEW m \in 1 .. Cardinality(S), k < m
    PROVE  Nth(S, k) < Nth(S, m)
  <1>1. Nth(S, k) \in S /\ Nth(S, m) \in S
        /\ Rank(S, Nth(S, k)) = k /\ Rank(S, Nth(S, m)) = m
    BY NthRank
  <1>2. Nth(S, k) \in Int /\ Nth(S, m) \in Int
    BY <1>1
  <1>3. Nth(S, k) # Nth(S, m)
    BY <1>1
  <1>4. ~(Nth(S, m) < Nth(S, k))
    <2>1. SUFFICES ASSUME Nth(S, m) < Nth(S, k) PROVE FALSE
      OBVIOUS
    <2>2. Rank(S, Nth(S, m)) < Rank(S, Nth(S, k))
      BY <1>1, <2>1, RankOrder
    <2>3. k \in Int /\ m \in Int
      BY FS_CardinalityType
    <2> QED BY <1>1, <2>2, <2>3
  <1> QED
    BY <1>2, <1>3, <1>4

(* Whoever enumerates a set in increasing order enumerates it as Nth does. *)
LEMMA NthIsTheOrder ==
    ASSUME NEW S \in SUBSET Int, IsFiniteSet(S), NEW n \in Nat, NEW f \in [1 .. n -> S],
           \A a, b \in 1 .. n : a < b => f[a] < f[b],
           \A i \in S : \E a \in 1 .. n : f[a] = i
    PROVE  /\ n = Cardinality(S)
           /\ \A k \in 1 .. n : Nth(S, k) = f[k]
  <1>1. \A a \in 1 .. n : f[a] \in S /\ f[a] \in Int
    OBVIOUS
  <1>2. \A a, b \in 1 .. n : f[a] = f[b] => a = b
    <2> SUFFICES ASSUME NEW a \in 1 .. n, NEW b \in 1 .. n, f[a] = f[b], a # b
                 PROVE  FALSE
      OBVIOUS
    <2>1. a < b \/ b < a
      OBVIOUS
    <2> QED BY <1>1, <2>1
  <1>3. \A a, b \in 1 .. n : f[a] <= f[b] <=> a <= b
    <2> SUFFICES ASSUME NEW a \in 1 .. n, NEW b \in 1 .. n
                 PROVE  f[a] <= f[b] <=> a <= b
      OBVIOUS
    <2>1. a < b \/ a = b \/ b < a
      OBVIOUS
    <2>2. f[a] \in Int /\ f[b] \in Int
      BY <1>1
    <2> QED BY <2>1, <2>2
  <1>4. f \in Bijection(1 .. n, S)
    BY <1>2 DEF Bijection, Injection, IsInjective, Surjection
  <1>5. IsFiniteSet(1 .. n) /\ Cardinality(1 .. n) = n
    BY FS_Interval
  <1>6. n = Cardinality(S)
    <2>1. ExistsBijection(1 .. n, S)
      BY <1>4 DEF ExistsBijection
    <2> QED BY <1>5, <2>1, FS_Bijection
  <1>7. ASSUME NEW k \in 1 .. n PROVE Nth(S, k) = f[k]
    <2> DEFINE T == {j \in S : j <= f[k]}
               g == [a \in 1 .. k |-> f[a]]
    <2>1. \A a \in 1 .. k : a \in 1 .. n /\ a <= k
      OBVIOUS
    <2>2. g \in [1 .. k -> T]
      BY <1>1, <1>3, <2>1
    <2>3. \A a, b \in 1 .. k : g[a] = g[b] => a = b
      BY <1>2, <2>1
    <2>4. \A j \in T : \E a \in 1 .. k : g[a] = j
      <3> SUFFICES ASSUME NEW j \in T PROVE \E a \in 1 .. k : g[a] = j
        OBVIOUS
      <3>1. PICK a \in 1 .. n : f[a] = j
        OBVIOUS
      <3>2. a <= k
        BY <1>3, <3>1
      <3> QED BY <3>1, <3>2
    <2>5. g \in Bijection(1 .. k, T)
      <3> HIDE DEF g, T
      <3> QED BY <2>2, <2>3, <2>4 DEF Bijection, Injection, IsInjective, Surjection
    <2>6. IsFiniteSet(1 .. k) /\ Cardinality(1 .. k) = k
      BY FS_Interval
    <2>7. Cardinality(T) = k
      <3> HIDE DEF g, T
      <3>1. ExistsBijection(1 .. k, T)
        BY <2>5 DEF ExistsBijection
      <3> QED BY <2>6, <3>1, FS_Bijection
    <2>8. Rank(S, f[k]) = k
      BY <2>7 DEF Rank
    <2>9. Nth(S, Rank(S, f[k])) = f[k]
      BY <1>1, NthOfRank
    <2> QED BY <2>8, <2>9
  <1> QED BY <1>6, <1>7

(* The first is the smallest. *)
LEMMA NthFirst ==
    ASSUME NEW S \in SUBSET Int, IsFiniteSet(S), NEW i \in S, \A j \in S : i <= j
    PROVE  Nth(S, 1) = i
  <1>1. {j \in S : j <= i} = {i}
    <2>1. \A j \in S : j \in Int /\ i <= j
      OBVIOUS
    <2>2. \A j \in S : j <= i <=> j = i
      BY <2>1
    <2> QED
      BY <2>2
  <1>2. Rank(S, i) = 1
    BY <1>1, FS_Singleton DEF Rank
  <1> QED
    BY <1>2, NthOfRank

(* A larger number is the last, and the others keep their places. *)
LEMMA NthGrows ==
    ASSUME NEW S \in SUBSET Int, IsFiniteSet(S), NEW n \in Int, \A i \in S : i < n
    PROVE  /\ Cardinality(S) \in Nat
           /\ Cardinality(S \cup {n}) = Cardinality(S) + 1
           /\ Nth(S \cup {n}, Cardinality(S) + 1) = n
           /\ \A k \in 1 .. Cardinality(S) : Nth(S \cup {n}, k) = Nth(S, k)
  <1> DEFINE c == Cardinality(S)
             T == S \cup {n}
             f == [k \in 1 .. c + 1 |-> IF k = c + 1 THEN n ELSE Nth(S, k)]
  <1>1. c \in Nat
    BY FS_CardinalityType
  <1>2. T \in SUBSET Int /\ IsFiniteSet(T)
    BY FS_AddElement
  <1>3. \A k \in 1 .. c : Nth(S, k) \in S
    BY NthRank
  <1>4. \A k \in 1 .. c + 1 : f[k] = IF k = c + 1 THEN n ELSE Nth(S, k)
    OBVIOUS
  <1>5. \A k \in 1 .. c + 1 : k \in 1 .. c \/ k = c + 1
    BY <1>1
  <1>6. f \in [1 .. c + 1 -> T]
    <2>1. \A k \in 1 .. c + 1 : f[k] \in T
      BY <1>3, <1>4, <1>5
    <2> QED
      BY <2>1
  <1> HIDE DEF c, f
  <1>7. \A a, b \in 1 .. c + 1 : a < b => f[a] < f[b]
    <2> SUFFICES ASSUME NEW a \in 1 .. c + 1, NEW b \in 1 .. c + 1, a < b PROVE f[a] < f[b]
      OBVIOUS
    <2>1. a \in 1 .. c /\ a # c + 1 /\ f[a] = Nth(S, a) /\ Nth(S, a) \in S
      BY <1>1, <1>3, <1>4
    <2>2. CASE b = c + 1
      BY <1>4, <2>1, <2>2
    <2>3. CASE b # c + 1
      <3>1. b \in 1 .. c /\ f[b] = Nth(S, b)
        BY <1>4, <1>5, <2>3
      <3> QED
        BY <2>1, <3>1, NthOrder DEF c
    <2> QED
      BY <2>2, <2>3
  <1>8. \A i \in T : \E a \in 1 .. c + 1 : f[a] = i
    <2> SUFFICES ASSUME NEW i \in T PROVE \E a \in 1 .. c + 1 : f[a] = i
      OBVIOUS
    <2>1. CASE i = n
      BY <1>1, <1>4, <2>1
    <2>2. CASE i \in S
      <3>1. Rank(S, i) \in 1 .. c /\ Nth(S, Rank(S, i)) = i
        BY <2>2, RankType, NthOfRank DEF c
      <3>2. Rank(S, i) \in 1 .. c + 1 /\ Rank(S, i) # c + 1
        BY <1>1, <3>1
      <3> QED
        BY <1>4, <3>1, <3>2
    <2> QED
      BY <2>1, <2>2
  <1>9. c + 1 \in Nat
    BY <1>1
  <1>10. c + 1 = Cardinality(T) /\ \A k \in 1 .. c + 1 : Nth(T, k) = f[k]
    BY <1>2, <1>6, <1>7, <1>8, <1>9, NthIsTheOrder
  <1>11. Nth(T, c + 1) = n
    BY <1>1, <1>4, <1>10
  <1>12. \A k \in 1 .. c : Nth(T, k) = Nth(S, k)
    BY <1>1, <1>4, <1>10
  <1> QED
    BY <1>1, <1>10, <1>11, <1>12 DEF c

(* One more member at the end ... *)
LEMMA SublistGrows ==
    ASSUME NEW list, NEW S \in SUBSET Int, IsFiniteSet(S), NEW n \in Int, \A i \in S : i < n
    PROVE  Sublist(list, S \cup {n}) = Append(Sublist(list, S), list[n])
  <1> DEFINE c == Cardinality(S)
             s == Sublist(list, S)
             longer == Sublist(list, S \cup {n})
  <1>1. /\ c \in Nat /\ Cardinality(S \cup {n}) = c + 1
        /\ Nth(S \cup {n}, c + 1) = n
        /\ \A k \in 1 .. c : Nth(S \cup {n}, k) = Nth(S, k)
    BY NthGrows
  <1>2. s = [k \in 1 .. c |-> list[Nth(S, k)]]
    BY DEF Sublist
  <1>3. longer = [k \in 1 .. c + 1 |-> list[Nth(S \cup {n}, k)]]
    BY <1>1 DEF Sublist
  <1> HIDE DEF c
  <1>4. Len(s) = c /\ \A k \in 1 .. c : s[k] = list[Nth(S, k)]
    <2>1. DOMAIN s = 1 .. c /\ \A k \in 1 .. c : s[k] = list[Nth(S, k)]
      BY <1>2
    <2> QED
      BY <1>1, <2>1
  <1>5. Append(s, list[n]) = [k \in 1 .. c + 1 |-> IF k = c + 1 THEN list[n] ELSE s[k]]
    BY <1>1, <1>2, <1>4
  <1>6. \A k \in 1 .. c + 1 : list[Nth(S \cup {n}, k)] = IF k = c + 1 THEN list[n] ELSE s[k]
    <2>1. \A k \in 1 .. c + 1 : k = c + 1 \/ k \in 1 .. c
      BY <1>1
    <2> HIDE DEF s
    <2> QED
      BY <1>1, <1>4, <2>1
  <1> HIDE DEF s, longer
  <1> QED
    BY <1>3, <1>5, <1>6 DEF s, longer

(* ... and another list that has the same members at these places. *)
LEMMA SublistSame ==
    ASSUME NEW f, NEW g, NEW S \in SUBSET Int, IsFiniteSet(S), \A i \in S : f[i] = g[i]
    PROVE  Sublist(f, S) = Sublist(g, S)
  <1>1. \A k \in 1 .. Cardinality(S) : f[Nth(S, k)] = g[Nth(S, k)]
    BY NthRank
  <1> QED
    BY <1>1 DEF Sublist

-----------------------------------------------------------------------------
(* The places of a list are a finite set of numbers. *)
LEMMA PlacesFinite ==
    ASSUME NEW T, NEW list \in Seq(T), NEW places \in SUBSET DOMAIN list
    PROVE  /\ places \in SUBSET Int
           /\ IsFiniteSet(places)
           /\ Cardinality(places) \in Nat
  <1>1. DOMAIN list = 1 .. Len(list) /\ Len(list) \in Nat
    OBVIOUS
  <1>2. IsFiniteSet(DOMAIN list)
    BY <1>1, FS_Interval
  <1>3. IsFiniteSet(places)
    BY <1>2, FS_Subset
  <1> QED BY <1>1, <1>3, FS_CardinalityType

(* A sublist is a list of some of the members ... *)
LEMMA SublistIsList ==
    ASSUME NEW T, NEW list \in Seq(T), NEW places \in SUBSET DOMAIN list
    PROVE  /\ Sublist(list, places) \in Seq(T)
           /\ Len(Sublist(list, places)) = Cardinality(places)
           /\ DOMAIN Sublist(list, places) = 1 .. Cardinality(places)
           /\ \A k \in 1 .. Cardinality(places) :
                 /\ Nth(places, k) \in places
                 /\ Sublist(list, places)[k] = list[Nth(places, k)]
  <1>1. places \in SUBSET Int /\ IsFiniteSet(places) /\ Cardinality(places) \in Nat
    BY PlacesFinite
  <1>2. \A k \in 1 .. Cardinality(places) : Nth(places, k) \in places
    BY <1>1, NthRank
  <1>3. \A k \in 1 .. Cardinality(places) : list[Nth(places, k)] \in T
    BY <1>2
  <1>4. Sublist(list, places) \in [1 .. Cardinality(places) -> T]
    BY <1>3 DEF Sublist
  <1> QED BY <1>1, <1>2, <1>4 DEF Sublist

(* ... each of them from a place of its own ... *)
LEMMA SublistApart ==
    ASSUME NEW T, NEW list \in Seq(T), NEW places \in SUBSET DOMAIN list,
           NEW k \in 1 .. Cardinality(places), NEW m \in 1 .. Cardinality(places),
           Nth(places, k) = Nth(places, m)
    PROVE  k = m
  <1>1. places \in SUBSET Int /\ IsFiniteSet(places)
    BY PlacesFinite
  <1>2. Rank(places, Nth(places, k)) = k /\ Rank(places, Nth(places, m)) = m
    BY <1>1, NthRank
  <1> QED BY <1>2

(* ... and all of those that are wanted. *)
LEMMA SublistHolds ==
    ASSUME NEW T, NEW list \in Seq(T), NEW places \in SUBSET DOMAIN list,
           NEW n \in places
    PROVE  \E k \in 1 .. Cardinality(places) :
               Nth(places, k) = n /\ Sublist(list, places)[k] = list[n]
  <1>1. places \in SUBSET Int /\ IsFiniteSet(places)
    BY PlacesFinite
  <1>2. Rank(places, n) \in 1 .. Cardinality(places) /\ Nth(places, Rank(places, n)) = n
    BY <1>1, RankType, NthOfRank
  <1> QED BY <1>2, SublistIsList

(* Leaving out in two steps is leaving out in one. *)
LEMMA SublistOfSublist ==
    ASSUME NEW T, NEW list \in Seq(T), NEW places \in SUBSET DOMAIN list,
           NEW kept \in SUBSET (1 .. Cardinality(places))
    PROVE  Sublist(Sublist(list, places), kept) =
           Sublist(list, {Nth(places, k) : k \in kept})
  <1> DEFINE final == {Nth(places, k) : k \in kept}
             n == Cardinality(kept)
             f == [k \in 1 .. n |-> Nth(places, Nth(kept, k))]
  <1>1. places \in SUBSET Int /\ IsFiniteSet(places) /\ Cardinality(places) \in Nat
    BY PlacesFinite
  <1>2. kept \in SUBSET Int /\ IsFiniteSet(kept) /\ n \in Nat
    <2>1. IsFiniteSet(1 .. Cardinality(places))
      BY <1>1, FS_Interval
    <2>2. IsFiniteSet(kept)
      BY <2>1, FS_Subset
    <2> QED BY <2>2, FS_CardinalityType
  <1>3. \A k \in 1 .. Cardinality(places) : Nth(places, k) \in places
    BY <1>1, NthRank
  <1>4. final \in SUBSET places
    BY <1>3
  <1>5. IsFiniteSet(final) /\ final \in SUBSET Int
    <2>1. IsFiniteSet(final)
      <3> HIDE DEF final
      <3> QED BY <1>1, <1>4, FS_Subset
    <2> QED BY <1>1, <1>4, <2>1
  <1>6. \A k \in 1 .. n : Nth(kept, k) \in kept
    BY <1>2, NthRank
  <1>7. f \in [1 .. n -> final]
    BY <1>6
  <1>8. ASSUME NEW a \in 1 .. n, NEW b \in 1 .. n, a < b PROVE f[a] < f[b]
    <2>1. Nth(kept, a) < Nth(kept, b)
      BY <1>2, <1>8, NthOrder
    <2>2. /\ Nth(kept, a) \in 1 .. Cardinality(places)
          /\ Nth(kept, b) \in 1 .. Cardinality(places)
      BY <1>6
    <2>3. Nth(places, Nth(kept, a)) < Nth(places, Nth(kept, b))
      BY <1>1, <2>1, <2>2, NthOrder
    <2> QED BY <2>3
  <1>9. ASSUME NEW i \in final PROVE \E a \in 1 .. n : f[a] = i
    <2>1. PICK k \in kept : i = Nth(places, k)
      OBVIOUS
    <2>2. Rank(kept, k) \in 1 .. n /\ Nth(kept, Rank(kept, k)) = k
      BY <1>2, RankType, NthOfRank
    <2> QED BY <2>1, <2>2
  <1>10. n = Cardinality(final) /\ \A k \in 1 .. n : Nth(final, k) = f[k]
    <2> HIDE DEF f, final, n
    <2> QED BY <1>2, <1>5, <1>7, <1>8, <1>9, NthIsTheOrder
  <1>11. \A k \in 1 .. n :
            Sublist(list, places)[Nth(kept, k)] = list[Nth(places, Nth(kept, k))]
    BY <1>6, SublistIsList
  <1>12. \A k \in 1 .. n : Sublist(list, places)[Nth(kept, k)] = list[Nth(final, k)]
    BY <1>10, <1>11
  <1>13. Sublist(Sublist(list, places), kept) =
            [k \in 1 .. n |-> Sublist(list, places)[Nth(kept, k)]]
    BY DEF Sublist
  <1>14. Sublist(list, final) = [k \in 1 .. n |-> list[Nth(final, k)]]
    <2> HIDE DEF final, n
    <2> QED BY <1>10 DEF Sublist
  <1> QED
    <2> HIDE DEF final, n
    <2>1. Sublist(Sublist(list, places), kept) = Sublist(list, final)
      BY <1>12, <1>13, <1>14
    <2> QED BY <2>1 DEF final

-----------------------------------------------------------------------------
(* Any set of numbers has a first. *)
LEMMA SmallestNumber ==
    ASSUME NEW S \in SUBSET Nat, S # {}
    PROVE  \E x \in S : \A y \in S : x <= y
  <1>1. PICK x \in S : \A y \in S : ~(<<y, x>> \in OpToRel(<, Nat))
    BY NatLessThanWellFounded, WFMin
  <1>2. \A y \in S : ~(y < x)
    BY <1>1 DEF OpToRel
  <1> QED
    BY <1>2

(* A loop of n turns, from state to state: what each turn does is given. *)
Turns(States, n) == [States \X (1 .. n) -> States]
IsLoop(States, start, n, Turn, f) ==
    /\ f \in [0 .. n -> States]
    /\ f[0] = start
    /\ \A k \in 1 .. n : f[k] = Turn[<<f[k - 1], k>>]

(* There is such a loop. *)
LEMMA LoopExists ==
    ASSUME NEW States, NEW start \in States, NEW n \in Nat, NEW Turn \in Turns(States, n)
    PROVE  \E f : IsLoop(States, start, n, Turn, f)
  <1> USE DEF Turns
  <1> DEFINE Runs(m, f) == IsLoop(States, start, m, Turn, f)
             Lacking == {m \in 0 .. n : ~ \E f : Runs(m, f)}
  <1> SUFFICES ASSUME Lacking # {} PROVE FALSE
    <2>1. n \in 0 .. n
      OBVIOUS
    <2> QED BY <2>1
  <1>1. PICK m \in Lacking : \A y \in Lacking : m <= y
    <2>1. Lacking \in SUBSET Nat
      OBVIOUS
    <2> QED BY <2>1, SmallestNumber
  <1>2. m # 0
    <2>1. Runs(0, [i \in 0 .. 0 |-> start])
      BY DEF IsLoop
    <2> QED BY <2>1
  <1>3. m - 1 \in 0 .. n /\ m - 1 \notin Lacking /\ m \in 1 .. n
    <2>1. m \in 0 .. n
      OBVIOUS
    <2>2. m - 1 \in 0 .. n /\ m \in 1 .. n /\ ~(m <= m - 1)
      BY <1>2, <2>1
    <2> HIDE DEF Lacking
    <2> QED BY <1>1, <2>2
  <1>4. PICK f : Runs(m - 1, f)
    BY <1>3
  <1> USE DEF IsLoop
  <1> DEFINE g == [i \in 0 .. m |-> IF i = m THEN Turn[<<f[m - 1], m>>] ELSE f[i]]
  <1>5. f[m - 1] \in States /\ <<f[m - 1], m>> \in States \X (1 .. n)
    BY <1>3, <1>4
  <1>6. Turn[<<f[m - 1], m>>] \in States
    BY <1>5
  <1>7. g \in [0 .. m -> States]
    BY <1>3, <1>4, <1>6
  <1>8. g[0] = start
    BY <1>3, <1>4
  <1>9. \A k \in 1 .. m : g[k] = Turn[<<g[k - 1], k>>]
    <2> SUFFICES ASSUME NEW k \in 1 .. m PROVE g[k] = Turn[<<g[k - 1], k>>]
      OBVIOUS
    <2>1. g[k - 1] = f[k - 1]
      BY <1>3
    <2>2. CASE k = m
      <3>1. g[m] = Turn[<<f[m - 1], m>>]
        BY <1>3
      <3>2. g[m - 1] = f[m - 1]
        BY <2>1, <2>2
      <3> QED BY <2>2, <3>1, <3>2
    <2>3. CASE k # m
      <3>1. k \in 1 .. m - 1 /\ g[k] = f[k]
        BY <1>3, <2>3
      <3> QED BY <2>1, <3>1, <1>4
    <2> QED BY <2>2, <2>3
  <1> QED
    BY <1>7, <1>8, <1>9

=============================================================================
