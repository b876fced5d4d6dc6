-------------------------- MODULE TripSearchProofs --------------------------
(***************************************************************************)
(* Proofs about TripSearch, for every party, budget and answer of the      *)
(* search services, and however the LLM orders its calls: the verdict of   *)
(* the budget engine is right and no choice it passed over is better in    *)
(* price and utility.  The first half is about the operators of Budget,    *)
(* for any candidates, prices, utilities and budget: what sorting returns, *)
(* and what an upgrade preserves.                                          *)
(***************************************************************************)
EXTENDS TripSearch, FiniteSetTheorems, WellFoundedInduction, TLAPS

-----------------------------------------------------------------------------
(* Sorting *)

\* The ranks of n elements are 1 to n: one is before another just when its
\* rank is lower, and every rank is taken.
LEMMA RanksAreABijection ==
    ASSUME NEW n \in Nat, NEW kept \in SUBSET (1 .. n), NEW key,
           \A k \in kept : key[k] \in Int
    PROVE  /\ IsFiniteSet(kept) /\ Cardinality(kept) \in Nat
           /\ \A i, j \in kept : i # j /\ Precedes(key, i, j) => Rank(kept, key, i) < Rank(kept, key, j)
           /\ \A m \in 1 .. Cardinality(kept) : \E j \in kept : Rank(kept, key, j) = m
<1> DEFINE Upto(j) == {i \in kept : Precedes(key, i, j)}
           N == Cardinality(kept)
<1>1. IsFiniteSet(kept) /\ N \in Nat
  <2>1. IsFiniteSet(1 .. n)
    BY FS_Interval
  <2> QED
    BY <2>1, FS_Subset, FS_CardinalityType
<1>2. ASSUME NEW j \in kept
      PROVE  /\ IsFiniteSet(Upto(j)) /\ Upto(j) \subseteq kept /\ j \in Upto(j)
             /\ Cardinality(Upto(j)) \in 1 .. N
  <2>1. Upto(j) \subseteq kept
    OBVIOUS
  <2>2. j \in Upto(j)
    BY DEF Precedes
  <2>3. IsFiniteSet(Upto(j)) /\ Cardinality(Upto(j)) <= N
    BY <2>1, <1>1, FS_Subset
  <2>4. Cardinality(Upto(j)) \in Nat
    BY <2>3, FS_CardinalityType
  <2>5. Cardinality(Upto(j)) # 0
    BY <2>2, <2>3, FS_EmptySet
  <2> QED
    BY <2>1, <2>2, <2>3, <2>4, <2>5, <1>1
<1>3. ASSUME NEW i \in kept, NEW j \in kept, i # j, Precedes(key, i, j)
      PROVE  Cardinality(Upto(i)) < Cardinality(Upto(j))
  <2>1. Upto(i) \subseteq Upto(j)
    <3>1. SUFFICES ASSUME NEW k \in kept, Precedes(key, k, i)
                   PROVE  Precedes(key, k, j)
      OBVIOUS
    <3>2. key[i] \in Int /\ key[j] \in Int /\ key[k] \in Int /\ i \in Int /\ j \in Int /\ k \in Int
      OBVIOUS
    <3> QED
      BY <3>1, <3>2, <1>3 DEF Precedes
  <2>2. j \notin Upto(i)
    BY <1>3 DEF Precedes
  <2>3. Upto(i) # Upto(j)
    BY <2>2, <1>2
  <2>4. /\ Cardinality(Upto(i)) <= Cardinality(Upto(j))
        /\ Cardinality(Upto(j)) = Cardinality(Upto(i)) => Upto(j) = Upto(i)
    <3>1. IsFiniteSet(Upto(j))
      BY <1>2
    <3> QED
      BY <3>1, <2>1, FS_Subset
  <2>5. Cardinality(Upto(i)) \in 1 .. N /\ Cardinality(Upto(j)) \in 1 .. N
    BY <1>2
  <2> QED
    BY <2>3, <2>4, <2>5, <1>1
<1>4. \A m \in 1 .. N : \E j \in kept : Cardinality(Upto(j)) = m
  <2> DEFINE r == [j \in kept |-> Cardinality(Upto(j))]
  <2>1. r \in [kept -> 1 .. N]
    BY <1>2
  <2>2. ASSUME NEW i \in kept, NEW j \in kept, r[i] = r[j]
        PROVE  i = j
    <3>1. SUFFICES ASSUME i # j PROVE FALSE
      OBVIOUS
    <3>2. Precedes(key, i, j) \/ Precedes(key, j, i)
      BY DEF Precedes
    <3>3. r[i] \in 1 .. N /\ r[j] \in 1 .. N
      BY <2>1
    <3>4. r[i] < r[j] \/ r[j] < r[i]
      BY <3>1, <3>2, <1>3
    <3> QED
      BY <3>3, <3>4, <2>2, <1>1
  <2>3. r \in Injection(kept, 1 .. N)
    BY <2>1, <2>2 DEF Injection, IsInjective
  <2>4. IsFiniteSet(1 .. N) /\ Cardinality(1 .. N) = N
    BY <1>1, FS_Interval
  <2>5. r \in Surjection(kept, 1 .. N)
    <3> HIDE DEF r
    <3> QED
      BY <2>3, <2>4, FS_Injection
  <2> QED
    BY <2>5 DEF Surjection
<1> QED
  BY <1>1, <1>3, <1>4 DEF Rank

\* at says from where in s the elements of its sorting come.
ComesFrom(at, s, kept, key) ==
    LET n == Cardinality(kept)
    IN  /\ at \in [1 .. n -> kept]
        /\ \A i \in 1 .. n : SortedBy(s, kept, key)[i] = s[at[i]]
        /\ \A k \in kept : \E i \in 1 .. n : at[i] = k
        /\ \A i, j \in 1 .. n : i < j => at[i] # at[j] /\ Precedes(key, at[i], at[j])

\* Sorting returns the kept elements and no others, in the order of their
\* keys and, for equal keys, of their places.
LEMMA SortingSorts ==
    ASSUME NEW S, NEW s \in Seq(S), NEW kept \in SUBSET (DOMAIN s), NEW key,
           \A k \in kept : key[k] \in Int
    PROVE  LET n == Cardinality(kept)
               sorted == SortedBy(s, kept, key)
           IN  /\ n \in Nat
               /\ sorted \in Seq({s[k] : k \in kept}) /\ Len(sorted) = n
               /\ \E at : ComesFrom(at, s, kept, key)
<1> DEFINE n == Cardinality(kept)
           at == [m \in 1 .. n |-> CHOOSE j \in kept : Rank(kept, key, j) = m]
<1>1. Len(s) \in Nat /\ DOMAIN s = 1 .. Len(s)
  OBVIOUS
<1>2. /\ IsFiniteSet(kept) /\ n \in Nat
      /\ \A i, j \in kept : i # j /\ Precedes(key, i, j) => Rank(kept, key, i) < Rank(kept, key, j)
      /\ \A m \in 1 .. n : \E j \in kept : Rank(kept, key, j) = m
  BY <1>1, RanksAreABijection
<1>3. \A m \in 1 .. n : at[m] \in kept /\ Rank(kept, key, at[m]) = m
  BY <1>2
<1>4. at \in [1 .. n -> kept]
  BY <1>3
<1>5. ASSUME NEW k \in kept
      PROVE  Rank(kept, key, k) \in 1 .. n
  <2> DEFINE upto == {i \in kept : Precedes(key, i, k)}
  <2>1. upto \subseteq kept /\ k \in upto
    BY DEF Precedes
  <2>2. IsFiniteSet(upto) /\ Cardinality(upto) <= n
    BY <2>1, <1>2, FS_Subset
  <2>3. Cardinality(upto) \in Nat /\ Cardinality(upto) # 0
    BY <2>1, <2>2, FS_EmptySet, FS_CardinalityType
  <2> QED
    BY <2>2, <2>3, <1>2 DEF Rank
<1>6. ASSUME NEW i \in kept, NEW j \in kept, Rank(kept, key, i) = Rank(kept, key, j)
      PROVE  i = j
  <2>1. SUFFICES ASSUME i # j PROVE FALSE
    OBVIOUS
  <2>2. i \in Int /\ j \in Int
    BY <1>1
  <2>3. Precedes(key, i, j) \/ Precedes(key, j, i)
    BY <2>2 DEF Precedes
  <2>4. Rank(kept, key, i) < Rank(kept, key, j) \/ Rank(kept, key, j) < Rank(kept, key, i)
    BY <2>1, <2>3, <1>2
  <2> QED
    BY <2>4, <1>5, <1>6, <1>2
<1>7. \A k \in kept : \E i \in 1 .. n : at[i] = k
  BY <1>3, <1>5, <1>6
<1>8. ASSUME NEW i \in 1 .. n, NEW j \in 1 .. n, i < j
      PROVE  at[i] # at[j] /\ Precedes(key, at[i], at[j])
  <2>1. at[i] \in kept /\ at[j] \in kept /\ Rank(kept, key, at[i]) = i /\ Rank(kept, key, at[j]) = j
    BY <1>3
  <2>2. at[i] # at[j]
    BY <2>1, <1>8, <1>2
  <2>3. ~ Precedes(key, at[j], at[i])
    BY <2>1, <2>2, <1>8, <1>2
  <2>4. at[i] \in Int /\ at[j] \in Int
    BY <2>1, <1>1
  <2> QED
    BY <2>1, <2>2, <2>3, <2>4 DEF Precedes
<1>9. SortedBy(s, kept, key) = [m \in 1 .. n |-> s[at[m]]]
  BY <1>3 DEF SortedBy
<1>10. SortedBy(s, kept, key) \in Seq({s[k] : k \in kept}) /\ Len(SortedBy(s, kept, key)) = n
  <2> HIDE DEF at, n
  <2> QED
    BY <1>9, <1>4, <1>2
<1>11. \A i \in 1 .. n : SortedBy(s, kept, key)[i] = s[at[i]]
  BY <1>9
<1> HIDE DEF at
<1>12. ComesFrom(at, s, kept, key)
  BY <1>4, <1>7, <1>8, <1>11 DEF ComesFrom
<1> QED
  BY <1>2, <1>10, <1>12

-----------------------------------------------------------------------------
(* Candidates *)

BestFirst(options) ==
    \A i, j \in DOMAIN options : i < j => options[i].utility >= options[j].utility

\* What the first candidate of a sorted list is to the others.
FirstIsCheapest(options) == \A o \in Elements(options) : options[1].krw <= o.krw

FirstIsBestOfItsPrice(options) ==
    \A o \in Elements(options) : o.krw = options[1].krw => o.utility <= options[1].utility

\* The engine's lists start with a cheapest candidate, and with the best of
\* the cheapest when the list it was given had the best first.
LEMMA CheapestFirstSorts ==
    ASSUME NEW options \in Seq(Options)
    PROVE  LET c == CheapestFirst(options)
           IN  /\ c \in Seq(Options)
               /\ FirstIsCheapest(c)
               /\ BestFirst(options) => FirstIsBestOfItsPrice(c)
<1> DEFINE c == CheapestFirst(options)
           kept == {i \in DOMAIN options : options[i].krw > 0}
           key == [i \in DOMAIN options |-> options[i].krw]
<1>1. \A i \in DOMAIN options : options[i] \in Options /\ options[i].krw \in Nat /\ options[i].utility \in Nat
  <2>1. \A i \in DOMAIN options : options[i] \in Options
    OBVIOUS
  <2>2. \A o \in Options : o.krw \in Nat /\ o.utility \in Nat
    BY DEF Options
  <2> QED
    BY <2>1, <2>2
<1>2. kept \in SUBSET (DOMAIN options) /\ \A k \in kept : key[k] \in Int
  BY <1>1
<1>3. c = SortedBy(options, kept, key)
  BY DEF CheapestFirst
<1>4. PICK at \in [1 .. Cardinality(kept) -> kept] :
        /\ \A i \in 1 .. Cardinality(kept) : c[i] = options[at[i]]
        /\ \A i, j \in 1 .. Cardinality(kept) : i < j => at[i] # at[j] /\ Precedes(key, at[i], at[j])
  <2> HIDE DEF kept, key, c
  <2>1. \E at : ComesFrom(at, options, kept, key)
    BY <1>2, SortingSorts
  <2> QED
    BY <2>1, <1>3 DEF ComesFrom
<1>5. c \in Seq({options[k] : k \in kept}) /\ Len(c) = Cardinality(kept) /\ Cardinality(kept) \in Nat
  <2> HIDE DEF kept, key, c
  <2> QED
    BY <1>2, <1>3, SortingSorts
<1>6. c \in Seq(Options)
  <2>1. {options[k] : k \in kept} \subseteq Options
    BY <1>1
  <2> HIDE DEF c, kept
  <2> QED
    BY <2>1, <1>5
<1>7. ASSUME NEW o \in Elements(c)
      PROVE  /\ c[1].krw <= o.krw
             /\ BestFirst(options) /\ o.krw = c[1].krw => o.utility <= c[1].utility
  <2> HIDE DEF c
  <2>1. PICK i \in 1 .. Cardinality(kept) : o = c[i]
    <3>1. DOMAIN c = 1 .. Cardinality(kept)
      BY <1>5
    <3> QED
      BY <3>1 DEF Elements
  <2>2. 1 \in 1 .. Cardinality(kept) /\ i \in Int
    BY <2>1, <1>5
  <2>3. at[1] \in DOMAIN options /\ at[i] \in DOMAIN options
    BY <2>1, <2>2, <1>4
  <2>4. /\ c[1] = options[at[1]] /\ o = options[at[i]]
        /\ key[at[1]] = c[1].krw /\ key[at[i]] = o.krw
    BY <2>1, <2>2, <2>3, <1>4
  <2>5. /\ c[1].krw \in Nat /\ o.krw \in Nat /\ c[1].utility \in Nat /\ o.utility \in Nat
        /\ at[1] \in Int /\ at[i] \in Int
    BY <2>3, <2>4, <1>1
  <2>6. CASE i = 1
    BY <2>1, <2>5, <2>6
  <2>7. CASE i # 1
    <3>1. at[1] # at[i] /\ Precedes(key, at[1], at[i])
      <4>1. 1 < i
        BY <2>1, <2>7, <1>5
      <4> HIDE DEF kept, key
      <4> QED
        BY <2>1, <2>2, <4>1, <1>4
    <3>2. c[1].krw < o.krw \/ (c[1].krw = o.krw /\ at[1] < at[i])
      <4> HIDE DEF key
      <4> QED
        BY <3>1, <2>4, <2>5 DEF Precedes
    <3>3. BestFirst(options) /\ at[1] < at[i] => o.utility <= c[1].utility
      BY <2>3, <2>4, <2>5 DEF BestFirst
    <3> QED
      BY <3>2, <3>3, <2>5
  <2> QED
    BY <2>6, <2>7
<1> QED
  BY <1>6, <1>7 DEF FirstIsCheapest, FirstIsBestOfItsPrice

-----------------------------------------------------------------------------
(* Selections *)

TripOK == trip.budget \in Nat /\ trip.days \in Nat /\ trip.travelers \in Nat

Selections == [flight : Options, hotel : Options, tier : DOMAIN ACTIVITY_TIERS]

\* The costs and utilities of the activity tiers are numbers.
LEMMA TierTypes ==
    ASSUME TripOK, NEW t \in DOMAIN ACTIVITY_TIERS
    PROVE  t \in 1 .. 3 /\ ActivityCost(t) \in Nat /\ ACTIVITY_TIERS[t].utility \in Nat
<1>1. t \in 1 .. 3 /\ ACTIVITY_TIERS[t].krw \in Nat /\ ACTIVITY_TIERS[t].utility \in Nat
  BY DEF ACTIVITY_TIERS
<1>2. \A a, b, d \in Nat : a * b * d \in Nat
  OBVIOUS
<1> QED
  BY <1>1, <1>2 DEF ActivityCost, TripOK

\* Gaining at least as much for less, or more for as much, is more per won.
LEMMA BetterRatio ==
    ASSUME NEW g \in Int, NEW c \in Int, NEW gain \in Int, NEW cost \in Int,
           0 < gain, 0 < c, gain <= g, c <= cost, gain < g \/ c < cost
    PROVE  gain * c < g * cost
<1>1. gain * c <= gain * cost /\ (c < cost => gain * c < gain * cost)
  OBVIOUS
<1>2. gain * cost <= g * cost /\ (gain < g => gain * cost < g * cost)
  OBVIOUS
<1>3. gain * c \in Int /\ gain * cost \in Int /\ g * cost \in Int
  OBVIOUS
<1> QED
  BY <1>1, <1>2, <1>3

\* As much utility or more for as much money or less, one of them strictly, is more
\* utility per won: the products by which the rates are compared.
LEMMA BetterMove ==
    ASSUME NEW u0 \in Nat, NEW k0 \in Nat, NEW u1 \in Nat, NEW k1 \in Nat,
           NEW u2 \in Nat, NEW k2 \in Nat,
           u0 < u1, k0 < k1, k0 < k2, k2 <= k1, u1 <= u2, k2 < k1 \/ u1 < u2
    PROVE  /\ (u1 - u0) * (k2 - k0) \in Int /\ (u2 - u0) * (k1 - k0) \in Int
           /\ (u1 - u0) * (k2 - k0) < (u2 - u0) * (k1 - k0)
<1> DEFINE gain == u1 - u0
           g == u2 - u0
           cost == k1 - k0
           c == k2 - k0
<1>1. /\ gain \in Int /\ g \in Int /\ cost \in Int /\ c \in Int
      /\ 0 < gain /\ 0 < c /\ gain <= g /\ c <= cost /\ (gain < g \/ c < cost)
  OBVIOUS
<1>2. gain * c < g * cost /\ gain * c \in Int /\ g * cost \in Int
  <2> HIDE DEF gain, g, cost, c
  <2>1. gain * c < g * cost
    BY <1>1, BetterRatio
  <2> QED
    BY <2>1, <1>1
<1> QED
  BY <1>2

\* Total and utility of a selection, and how an upgrade of one part changes
\* them.
LEMMA SelectionTypes ==
    ASSUME TripOK, NEW s \in Selections
    PROVE  /\ s.flight \in Options /\ s.hotel \in Options /\ s.tier \in DOMAIN ACTIVITY_TIERS
           /\ s.flight.krw \in Nat /\ s.flight.utility \in Nat
           /\ s.hotel.krw \in Nat /\ s.hotel.utility \in Nat
           /\ Total(s) \in Nat /\ Utility(s) \in Nat
<1>1. s.flight \in Options /\ s.hotel \in Options /\ s.tier \in DOMAIN ACTIVITY_TIERS
  BY DEF Selections
<1>2. /\ s.flight.krw \in Nat /\ s.flight.utility \in Nat
      /\ s.hotel.krw \in Nat /\ s.hotel.utility \in Nat
  BY <1>1 DEF Options
<1>3. ActivityCost(s.tier) \in Nat /\ ACTIVITY_TIERS[s.tier].utility \in Nat
  BY <1>1, TierTypes
<1>4. \A a, b, d \in Nat : a + b + d \in Nat
  OBVIOUS
<1>5. Total(s) \in Nat
  BY <1>2, <1>3, <1>4 DEF Total
<1>6. Utility(s) \in Nat
  BY <1>2, <1>3, <1>4 DEF Utility
<1> QED
  BY <1>1, <1>2, <1>5, <1>6

\* Another flight changes the total by the difference of the prices.
LEMMA WithFlight ==
    ASSUME TripOK, NEW s \in Selections, NEW o \in Options
    PROVE  LET m == [s EXCEPT !.flight = o]
           IN  /\ m \in Selections
               /\ m.flight = o /\ m.hotel = s.hotel /\ m.tier = s.tier
               /\ Total(m) - Total(s) = o.krw - s.flight.krw
               /\ Utility(m) - Utility(s) = o.utility - s.flight.utility
<1> DEFINE m == [s EXCEPT !.flight = o]
<1>1. m \in Selections /\ m.flight = o /\ m.hotel = s.hotel /\ m.tier = s.tier
  BY DEF Selections
<1>2. o.krw \in Nat /\ o.utility \in Nat
  BY DEF Options
<1>3. /\ s.flight.krw \in Nat /\ s.flight.utility \in Nat
      /\ s.hotel.krw \in Nat /\ s.hotel.utility \in Nat
      /\ ActivityCost(s.tier) \in Nat /\ ACTIVITY_TIERS[s.tier].utility \in Nat
  BY SelectionTypes, TierTypes
<1>5. Total(m) = o.krw + s.hotel.krw + ActivityCost(s.tier)
  <2> HIDE DEF m
  <2> QED
    BY <1>1 DEF Total
<1>6. Utility(m) = o.utility + s.hotel.utility + ACTIVITY_TIERS[s.tier].utility
  <2> HIDE DEF m
  <2> QED
    BY <1>1 DEF Utility
<1>7. Total(m) - Total(s) = o.krw - s.flight.krw
  <2> DEFINE new == o.krw
             old == s.flight.krw
             kept == s.hotel.krw
             rest == ActivityCost(s.tier)
  <2>1. Total(m) = new + kept + rest /\ Total(s) = old + kept + rest
    BY <1>5 DEF Total
  <2>2. new \in Nat /\ old \in Nat /\ kept \in Nat /\ rest \in Nat
    BY <1>2, <1>3
  <2>3. Total(m) - Total(s) = new - old
    <3> HIDE DEF m, new, old, kept, rest
    <3> QED BY ONLY <2>1, <2>2
  <2> QED BY <2>3
<1>8. Utility(m) - Utility(s) = o.utility - s.flight.utility
  <2> DEFINE new == o.utility
             old == s.flight.utility
             kept == s.hotel.utility
             rest == ACTIVITY_TIERS[s.tier].utility
  <2>1. Utility(m) = new + kept + rest /\ Utility(s) = old + kept + rest
    BY <1>6 DEF Utility
  <2>2. new \in Nat /\ old \in Nat /\ kept \in Nat /\ rest \in Nat
    BY <1>2, <1>3
  <2>3. Utility(m) - Utility(s) = new - old
    <3> HIDE DEF m, new, old, kept, rest
    <3> QED BY ONLY <2>1, <2>2
  <2> QED BY <2>3
<1> QED
  BY ONLY <1>1, <1>7, <1>8

\* So does another hotel.
LEMMA WithHotel ==
    ASSUME TripOK, NEW s \in Selections, NEW o \in Options
    PROVE  LET m == [s EXCEPT !.hotel = o]
           IN  /\ m \in Selections
               /\ m.hotel = o /\ m.flight = s.flight /\ m.tier = s.tier
               /\ Total(m) - Total(s) = o.krw - s.hotel.krw
               /\ Utility(m) - Utility(s) = o.utility - s.hotel.utility
<1> DEFINE m == [s EXCEPT !.hotel = o]
<1>1. m \in Selections /\ m.hotel = o /\ m.flight = s.flight /\ m.tier = s.tier
  BY DEF Selections
<1>2. o.krw \in Nat /\ o.utility \in Nat
  BY DEF Options
<1>3. /\ s.flight.krw \in Nat /\ s.flight.utility \in Nat
      /\ s.hotel.krw \in Nat /\ s.hotel.utility \in Nat
      /\ ActivityCost(s.tier) \in Nat /\ ACTIVITY_TIERS[s.tier].utility \in Nat
  BY SelectionTypes, TierTypes
<1>5. Total(m) = s.flight.krw + o.krw + ActivityCost(s.tier)
  <2> HIDE DEF m
  <2> QED
    BY <1>1 DEF Total
<1>6. Utility(m) = s.flight.utility + o.utility + ACTIVITY_TIERS[s.tier].utility
  <2> HIDE DEF m
  <2> QED
    BY <1>1 DEF Utility
<1>7. Total(m) - Total(s) = o.krw - s.hotel.krw
  <2> DEFINE new == o.krw
             old == s.hotel.krw
             kept == s.flight.krw
             rest == ActivityCost(s.tier)
  <2>1. Total(m) = kept + new + rest /\ Total(s) = kept + old + rest
    BY <1>5 DEF Total
  <2>2. new \in Nat /\ old \in Nat /\ kept \in Nat /\ rest \in Nat
    BY <1>2, <1>3
  <2>3. Total(m) - Total(s) = new - old
    <3> HIDE DEF m, new, old, kept, rest
    <3> QED BY ONLY <2>1, <2>2
  <2> QED BY <2>3
<1>8. Utility(m) - Utility(s) = o.utility - s.hotel.utility
  <2> DEFINE new == o.utility
             old == s.hotel.utility
             kept == s.flight.utility
             rest == ACTIVITY_TIERS[s.tier].utility
  <2>1. Utility(m) = kept + new + rest /\ Utility(s) = kept + old + rest
    BY <1>6 DEF Utility
  <2>2. new \in Nat /\ old \in Nat /\ kept \in Nat /\ rest \in Nat
    BY <1>2, <1>3
  <2>3. Utility(m) - Utility(s) = new - old
    <3> HIDE DEF m, new, old, kept, rest
    <3> QED BY ONLY <2>1, <2>2
  <2> QED BY <2>3
<1> QED
  BY ONLY <1>1, <1>7, <1>8

\* The engine does not prefer m to n when the step to n costs no more, gains
\* no less and is better in one of the two.
LEMMA NotPreferred ==
    ASSUME TripOK, sel \in Selections, NEW m \in Selections, NEW n \in Selections,
           NEW u0 \in Nat, NEW k0 \in Nat, NEW u1 \in Nat, NEW k1 \in Nat, NEW u2 \in Nat, NEW k2 \in Nat,
           Total(m) - Total(sel) = k1 - k0, Utility(m) - Utility(sel) = u1 - u0,
           Total(n) - Total(sel) = k2 - k0, Utility(n) - Utility(sel) = u2 - u0,
           u0 < u1, k0 < k1, k0 < k2, k2 <= k1, u1 <= u2, k2 < k1 \/ u1 < u2
    PROVE  /\ ~ Preferred(m, n)
           /\ Total(n) <= Total(m)
<1>1. /\ (u1 - u0) * (k2 - k0) \in Int /\ (u2 - u0) * (k1 - k0) \in Int
      /\ (u1 - u0) * (k2 - k0) < (u2 - u0) * (k1 - k0)
  BY BetterMove
<1>2. \A a, b \in Int : a < b => ~ (a > b) /\ a # b
  OBVIOUS
<1>3. ~ Preferred(m, n)
  BY <1>1, <1>2 DEF Preferred
<1>4. Total(m) \in Nat /\ Total(n) \in Nat /\ Total(sel) \in Nat
  BY SelectionTypes
<1> QED
  BY <1>3, <1>4

\* A flight that dominates the one upgraded to dominated the one before: the
\* engine would have preferred it otherwise.
LEMMA UpgradedFlight ==
    ASSUME TripOK, flights \in Seq(Options), sel \in Selections,
           NEW o \in Elements(flights), Beats(o, sel.flight),
           Total([sel EXCEPT !.flight = o]) <= trip.budget,
           \A n \in Moves : Preferred([sel EXCEPT !.flight = o], n),
           NEW f \in Elements(flights), Dominates(f, o)
    PROVE  Dominates(f, sel.flight)
<1> DEFINE m == [sel EXCEPT !.flight = o]
           n == [sel EXCEPT !.flight = f]
<1>1. o \in Options /\ f \in Options
  BY DEF Elements
<1>2. /\ o.krw \in Nat /\ o.utility \in Nat /\ f.krw \in Nat /\ f.utility \in Nat
      /\ sel.flight.krw \in Nat /\ sel.flight.utility \in Nat
  BY <1>1, SelectionTypes DEF Options
<1>3. SUFFICES ASSUME f.krw > sel.flight.krw PROVE FALSE
  BY <1>2 DEF Dominates, Beats
<1>4. /\ sel.flight.utility < o.utility /\ sel.flight.krw < o.krw /\ sel.flight.krw < f.krw
      /\ f.krw <= o.krw /\ o.utility <= f.utility /\ (f.krw < o.krw \/ o.utility < f.utility)
  BY <1>2, <1>3 DEF Dominates, Beats
<1>5. /\ m \in Selections /\ n \in Selections
      /\ Total(m) - Total(sel) = o.krw - sel.flight.krw
      /\ Utility(m) - Utility(sel) = o.utility - sel.flight.utility
      /\ Total(n) - Total(sel) = f.krw - sel.flight.krw
      /\ Utility(n) - Utility(sel) = f.utility - sel.flight.utility
  BY <1>1, WithFlight
<1>6. ~ Preferred(m, n) /\ Total(n) <= Total(m)
  <2> HIDE DEF m, n
  <2> QED
    BY <1>2, <1>4, <1>5, NotPreferred
<1>7. Total(n) <= trip.budget
  <2>1. Total(m) \in Nat /\ Total(n) \in Nat /\ trip.budget \in Nat /\ Total(m) <= trip.budget
    <3>1. Total(m) <= trip.budget
      OBVIOUS
    <3> HIDE DEF m, n
    <3> QED
      BY <3>1, <1>5, SelectionTypes DEF TripOK
  <2> HIDE DEF m, n
  <2> QED
    BY <2>1, <1>6
<1>8. n \in Moves
  <2>1. Beats(f, sel.flight)
    BY <1>2, <1>4 DEF Beats
  <2> QED
    BY <2>1, <1>7 DEF Moves
<1> QED
  BY <1>6, <1>8

\* The same for hotels.
LEMMA UpgradedHotel ==
    ASSUME TripOK, hotels \in Seq(Options), sel \in Selections,
           NEW o \in Elements(hotels), Beats(o, sel.hotel),
           Total([sel EXCEPT !.hotel = o]) <= trip.budget,
           \A n \in Moves : Preferred([sel EXCEPT !.hotel = o], n),
           NEW h \in Elements(hotels), Dominates(h, o)
    PROVE  Dominates(h, sel.hotel)
<1> DEFINE m == [sel EXCEPT !.hotel = o]
           n == [sel EXCEPT !.hotel = h]
<1>1. o \in Options /\ h \in Options
  BY DEF Elements
<1>2. /\ o.krw \in Nat /\ o.utility \in Nat /\ h.krw \in Nat /\ h.utility \in Nat
      /\ sel.hotel.krw \in Nat /\ sel.hotel.utility \in Nat
  BY <1>1, SelectionTypes DEF Options
<1>3. SUFFICES ASSUME h.krw > sel.hotel.krw PROVE FALSE
  BY <1>2 DEF Dominates, Beats
<1>4. /\ sel.hotel.utility < o.utility /\ sel.hotel.krw < o.krw /\ sel.hotel.krw < h.krw
      /\ h.krw <= o.krw /\ o.utility <= h.utility /\ (h.krw < o.krw \/ o.utility < h.utility)
  BY <1>2, <1>3 DEF Dominates, Beats
<1>5. /\ m \in Selections /\ n \in Selections
      /\ Total(m) - Total(sel) = o.krw - sel.hotel.krw
      /\ Utility(m) - Utility(sel) = o.utility - sel.hotel.utility
      /\ Total(n) - Total(sel) = h.krw - sel.hotel.krw
      /\ Utility(n) - Utility(sel) = h.utility - sel.hotel.utility
  BY <1>1, WithHotel
<1>6. ~ Preferred(m, n) /\ Total(n) <= Total(m)
  <2> HIDE DEF m, n
  <2> QED
    BY <1>2, <1>4, <1>5, NotPreferred
<1>7. Total(n) <= trip.budget
  <2>1. Total(m) \in Nat /\ Total(n) \in Nat /\ trip.budget \in Nat /\ Total(m) <= trip.budget
    <3>1. Total(m) <= trip.budget
      OBVIOUS
    <3> HIDE DEF m, n
    <3> QED
      BY <3>1, <1>5, SelectionTypes DEF TripOK
  <2> HIDE DEF m, n
  <2> QED
    BY <2>1, <1>6
<1>8. n \in Moves
  <2>1. Beats(h, sel.hotel)
    BY <1>2, <1>4 DEF Beats
  <2> QED
    BY <2>1, <1>7 DEF Moves
<1> QED
  BY <1>6, <1>8

-----------------------------------------------------------------------------
(* Sums *)

\* A property of 0 that each number up to n passes on holds up to n: told of
\* the set of the numbers that have it.
LEMMA UpToInduction ==
    ASSUME NEW n \in Nat, NEW good \in SUBSET Nat, 0 \in good,
           \A m \in 1 .. n : m - 1 \in good => m \in good
    PROVE  0 .. n \subseteq good
<1> SUFFICES ASSUME ~ (0 .. n \subseteq good) PROVE FALSE
  OBVIOUS
<1> DEFINE bad == (0 .. n) \ good
<1>1. PICK m \in bad : \A k \in bad : <<k, m>> \notin OpToRel(<, Nat)
  <2>1. bad \in SUBSET Nat /\ bad # {}
    OBVIOUS
  <2> HIDE DEF bad
  <2> QED BY <2>1, WFMin, NatLessThanWellFounded
<1>2. m \in 1 .. n
  OBVIOUS
<1>3. m - 1 \notin bad
  <2> SUFFICES ASSUME m - 1 \in bad PROVE FALSE
    OBVIOUS
  <2>1. m - 1 \in Nat /\ m \in Nat /\ m - 1 < m
    BY <1>2
  <2> QED BY <1>1, <2>1 DEF OpToRel
<1> QED BY <1>2, <1>3

IsSums(sum, s, n) == sum = [i \in 0 .. n |-> IF i = 0 THEN 0 ELSE sum[i - 1] + s[i]]

\* The recursion that defines Sums has a solution.
LEMMA SumsExist ==
    ASSUME NEW n \in Nat, NEW s
    PROVE  \E sum : IsSums(sum, s, n)
<1> DEFINE good == {k \in Nat : \E sum : IsSums(sum, s, k)}
<1>1. 0 \in good
  <2>1. IsSums([i \in 0 .. 0 |-> 0], s, 0)
    BY DEF IsSums
  <2> QED BY <2>1
<1>2. ASSUME NEW m \in 1 .. n, m - 1 \in good
      PROVE  m \in good
  <2>1. PICK sum : IsSums(sum, s, m - 1)
    BY <1>2
  <2> DEFINE more == [i \in 0 .. m |-> IF i = m THEN sum[m - 1] + s[m] ELSE sum[i]]
  <2>2. IsSums(more, s, m)
    <3>1. \A i \in 0 .. m : more[i] = IF i = 0 THEN 0 ELSE more[i - 1] + s[i]
      <4> TAKE i \in 0 .. m
      <4>1. CASE i = m
        BY <4>1
      <4>2. CASE i # m
        <5>1. i \in 0 .. m - 1 /\ (i # 0 => i - 1 \in 0 .. m - 1)
          BY <4>2
        <5>2. sum[i] = IF i = 0 THEN 0 ELSE sum[i - 1] + s[i]
          BY <2>1, <5>1 DEF IsSums
        <5> QED BY <4>2, <5>1, <5>2
      <4> QED BY <4>1, <4>2
    <3> HIDE DEF more
    <3>2. more = [i \in 0 .. m |-> more[i]]
      BY DEF more
    <3> QED BY <3>1, <3>2 DEF IsSums
  <2> QED BY <2>2
<1>3. 0 .. n \subseteq good
  <2>1. good \in SUBSET Nat
    OBVIOUS
  <2> HIDE DEF good
  <2> QED BY <1>1, <1>2, <2>1, UpToInduction
<1> QED BY <1>3

\* The sums of the prefixes exist.
LEMMA SumsDef ==
    ASSUME NEW S, NEW s \in Seq(S)
    PROVE  IsSums(Sums(s), s, Len(s))
<1>1. PICK sum : IsSums(sum, s, Len(s))
  BY SumsExist
<1> QED BY <1>1 DEF Sums, IsSums

\* The sums of numbers are numbers, each the one before and its summand.
LEMMA SumsOfNumbers ==
    ASSUME NEW s \in Seq(Nat)
    PROVE  /\ Sums(s)[0] = 0
           /\ \A i \in 1 .. Len(s) : Sums(s)[i] = Sums(s)[i - 1] + s[i]
           /\ \A i \in 0 .. Len(s) : Sums(s)[i] \in Nat
<1>1. Len(s) \in Nat /\ \A i \in 1 .. Len(s) : s[i] \in Nat
  OBVIOUS
<1>2. /\ Sums(s)[0] = 0
      /\ \A i \in 1 .. Len(s) : Sums(s)[i] = Sums(s)[i - 1] + s[i]
  BY <1>1, SumsDef DEF IsSums
<1> DEFINE good == {k \in Nat : Sums(s)[k] \in Nat}
<1>3. 0 .. Len(s) \subseteq good
  <2>1. good \in SUBSET Nat /\ 0 \in good
    BY <1>2
  <2>2. \A m \in 1 .. Len(s) : m - 1 \in good => m \in good
    BY <1>1, <1>2
  <2> HIDE DEF good
  <2> QED BY <1>1, <2>1, <2>2, UpToInduction
<1> QED BY <1>2, <1>3

\* Sums of numbers do not decrease.
LEMMA SumsGrow ==
    ASSUME NEW s \in Seq(Nat), NEW i \in 0 .. Len(s), NEW j \in i .. Len(s)
    PROVE  Sums(s)[i] <= Sums(s)[j]
<1> DEFINE good == {k \in Nat : i + k <= Len(s) => Sums(s)[i] <= Sums(s)[i + k]}
           n == j - i
<1>1. Len(s) \in Nat /\ \A k \in 1 .. Len(s) : s[k] \in Nat
  OBVIOUS
<1>2. n \in Nat /\ good \in SUBSET Nat /\ 0 \in good
  BY <1>1, SumsOfNumbers
<1>3. \A m \in 1 .. n : m - 1 \in good => m \in good
  <2> SUFFICES ASSUME NEW m \in 1 .. n, m - 1 \in good, i + m <= Len(s)
               PROVE  Sums(s)[i] <= Sums(s)[i + m]
    OBVIOUS
  <2>1. i + (m - 1) = i + m - 1 /\ i + m \in 1 .. Len(s) /\ i + (m - 1) \in 0 .. Len(s)
    BY <1>1
  <2>2. Sums(s)[i] <= Sums(s)[i + (m - 1)]
    BY <2>1
  <2>3. ASSUME NEW k \in 1 .. Len(s) PROVE Sums(s)[k - 1] <= Sums(s)[k]
    <3>1. /\ Sums(s)[k] = Sums(s)[k - 1] + s[k]
          /\ s[k] \in Nat /\ Sums(s)[k - 1] \in Nat
      BY <1>1, SumsOfNumbers
    <3> QED BY <3>1
  <2>4. Sums(s)[i + (m - 1)] <= Sums(s)[i + m]
    <3>1. i + m - 1 = i + (m - 1) /\ Sums(s)[i + m - 1] <= Sums(s)[i + m]
      BY <2>1, <2>3
    <3> QED BY <3>1
  <2>5. /\ Sums(s)[i] \in Nat /\ Sums(s)[i + (m - 1)] \in Nat /\ Sums(s)[i + m] \in Nat
    BY <1>1, <2>1, SumsOfNumbers
  <2> QED BY <2>2, <2>4, <2>5
<1>4. n \in good
  <2> HIDE DEF good, n
  <2>1. 0 .. n \subseteq good
    BY <1>2, <1>3, UpToInduction
  <2> QED BY <1>2, <2>1
<1> QED BY <1>4

\* The numbers up to the sum of s are dealt out: each falls into the share of one.
LEMMA OneShare ==
    ASSUME NEW s \in Seq(Nat), NEW k \in 1 .. Sums(s)[Len(s)]
    PROVE  Cardinality({i \in 1 .. Len(s) : k \in Sums(s)[i - 1] + 1 .. Sums(s)[i]}) = 1
<1> DEFINE reached == {i \in Nat : i <= Len(s) => Sums(s)[i] < k}
<1>1. Len(s) \in Nat /\ Sums(s)[Len(s)] \in Nat
  BY SumsOfNumbers
<1>2. PICK i \in 1 .. Len(s) : i - 1 \in reached /\ i \notin reached
  <2> SUFFICES ASSUME \A i \in 1 .. Len(s) : i - 1 \in reached => i \in reached
               PROVE  FALSE
    OBVIOUS
  <2>1. 0 \in reached /\ reached \in SUBSET Nat
    BY SumsOfNumbers
  <2>2. Len(s) \notin reached
    BY <1>1
  <2> HIDE DEF reached
  <2>3. 0 .. Len(s) \subseteq reached
    BY <1>1, <2>1, UpToInduction
  <2> QED BY <1>1, <2>2, <2>3
<1>3. k \in Sums(s)[i - 1] + 1 .. Sums(s)[i]
  <2>1. Sums(s)[i - 1] < k /\ ~ (Sums(s)[i] < k)
    BY <1>1, <1>2
  <2>2. Sums(s)[i - 1] \in Nat /\ Sums(s)[i] \in Nat
    BY <1>1, SumsOfNumbers
  <2> QED BY <1>1, <2>1, <2>2
<1>4. ASSUME NEW j \in 1 .. Len(s), k \in Sums(s)[j - 1] + 1 .. Sums(s)[j]
      PROVE  j = i
  <2>0. /\ Sums(s)[i - 1] \in Nat /\ Sums(s)[i] \in Nat
        /\ Sums(s)[j - 1] \in Nat /\ Sums(s)[j] \in Nat
    BY <1>1, SumsOfNumbers
  <2>1. CASE j < i
    <3>1. Sums(s)[j] <= Sums(s)[i - 1]
      BY <1>1, <2>1, SumsGrow
    <3> QED BY <1>3, <1>4, <2>0, <3>1
  <2>2. CASE i < j
    <3>1. Sums(s)[i] <= Sums(s)[j - 1]
      BY <1>1, <2>2, SumsGrow
    <3> QED BY <1>3, <1>4, <2>0, <3>1
  <2> QED BY <2>1, <2>2
<1>5. {j \in 1 .. Len(s) : k \in Sums(s)[j - 1] + 1 .. Sums(s)[j]} = {i}
  BY <1>3, <1>4
<1> QED BY <1>5, FS_Singleton

-----------------------------------------------------------------------------
(* Rooms and stays *)

\* Every part gets the quotient, and the first parts one more.
LEMMA EvenSplitAddsUp ==
    ASSUME NEW total \in Nat, NEW n \in Nat, n > 0
    PROVE  LET parts == EvenSplit(total, n)
               share == total \div n
           IN  /\ parts \in Seq(Nat) /\ Len(parts) = n
               /\ share \in Nat /\ total = (n * share) + (total % n) /\ total % n \in 0 .. n - 1
               /\ \A i \in 1 .. n : parts[i] = share + (IF i <= total % n THEN 1 ELSE 0)
               /\ Sums(parts)[n] = total
<1> DEFINE parts == EvenSplit(total, n)
           share == total \div n
           rest == total % n
<1>1. share \in Nat /\ total = (n * share) + rest /\ rest \in 0 .. n - 1
  OBVIOUS
<1> HIDE DEF share, rest
<1>2. parts = [i \in 1 .. n |-> share + (IF i <= rest THEN 1 ELSE 0)]
  BY DEF EvenSplit, share, rest
<1> HIDE DEF parts
<1>3. parts \in Seq(Nat) /\ Len(parts) = n
  BY <1>1, <1>2
<1> DEFINE good == {k \in Nat : k <= n => Sums(parts)[k] = (k * share) + Smaller(k, rest)}
<1>4. n \in good
  <2>1. good \in SUBSET Nat /\ 0 \in good
    BY <1>1, <1>3, SumsOfNumbers DEF Smaller
  <2>2. \A m \in 1 .. n : m - 1 \in good => m \in good
    <3> SUFFICES ASSUME NEW m \in 1 .. n, m - 1 \in good
                 PROVE  Sums(parts)[m] = (m * share) + Smaller(m, rest)
      OBVIOUS
    <3>1. Sums(parts)[m - 1] = ((m - 1) * share) + Smaller(m - 1, rest)
      OBVIOUS
    <3>2. Sums(parts)[m] = Sums(parts)[m - 1] + parts[m]
      BY <1>3, SumsOfNumbers
    <3>3. Smaller(m, rest) = Smaller(m - 1, rest) + (IF m <= rest THEN 1 ELSE 0)
      BY <1>1 DEF Smaller
    <3>4. (m - 1) * share = (m * share) - share
      BY <1>1
    <3>5. /\ Smaller(m - 1, rest) \in Nat /\ m * share \in Nat
          /\ parts[m] = share + (IF m <= rest THEN 1 ELSE 0)
      BY <1>1, <1>2 DEF Smaller
    <3> HIDE DEF good
    <3> QED BY <1>1, <3>1, <3>2, <3>3, <3>4, <3>5
  <2> HIDE DEF good
  <2>3. 0 .. n \subseteq good
    BY <2>1, <2>2, UpToInduction
  <2> QED BY <2>3
<1>5. Sums(parts)[n] = total
  BY <1>1, <1>4 DEF Smaller
<1> QED BY <1>1, <1>2, <1>3, <1>5 DEF parts, share, rest

\* There is a room, with an adult in each and no more adults than fit.
LEMMA RoomCountFits ==
    ASSUME NEW adults \in Nat \ {0}, NEW children \in Nat
    PROVE  LET n == RoomCount(adults, children)
           IN  /\ n \in Nat /\ n > 0
               /\ n <= adults /\ adults <= MAX_ADULTS_PER_ROOM * n
               /\ n = adults \/ children <= MAX_CHILDREN_PER_ROOM * n
<1> DEFINE forAdults == Ceil(adults, MAX_ADULTS_PER_ROOM)
           forChildren == Ceil(children, MAX_CHILDREN_PER_ROOM)
           wanted == Larger(forAdults, forChildren)
           n == RoomCount(adults, children)
<1>1. /\ forAdults \in Nat /\ adults <= 2 * forAdults /\ 2 * forAdults <= adults + 1
      /\ forChildren \in Nat /\ children <= 2 * forChildren
  BY DEF Ceil, MAX_ADULTS_PER_ROOM, MAX_CHILDREN_PER_ROOM
<1> HIDE DEF forAdults, forChildren
<1>2. /\ wanted \in Nat /\ wanted > 0 /\ forAdults <= wanted
      /\ children <= 2 * wanted /\ adults <= 2 * wanted
  BY <1>1 DEF Larger
<1> HIDE DEF wanted
<1>3. n = IF 0 \in Elements(EvenSplit(adults, wanted)) THEN Smaller(wanted, adults) ELSE wanted
  BY DEF RoomCount, wanted, forAdults, forChildren
<1> HIDE DEF n
<1>4. ASSUME wanted > adults PROVE 0 \in Elements(EvenSplit(adults, wanted))
  <2> DEFINE parts == EvenSplit(adults, wanted)
             share == adults \div wanted
             rest == adults % wanted
  <2>1. /\ share \in Nat /\ adults = (wanted * share) + rest /\ rest \in 0 .. wanted - 1
        /\ parts \in Seq(Nat) /\ Len(parts) = wanted
        /\ \A i \in 1 .. wanted : parts[i] = share + (IF i <= rest THEN 1 ELSE 0)
    BY <1>2, EvenSplitAddsUp
  <2> HIDE DEF parts, share, rest
  <2>2. share = 0
    <3> SUFFICES ASSUME share # 0 PROVE FALSE
      OBVIOUS
    <3>1. wanted * share >= wanted
      BY <2>1, <1>2
    <3>2. wanted * share \in Nat
      BY <2>1, <1>2
    <3> QED BY <1>2, <1>4, <2>1, <3>1, <3>2
  <2>3. parts[wanted] = 0 /\ wanted \in DOMAIN parts
    BY <1>2, <2>1, <2>2
  <2> QED BY <2>3 DEF Elements, parts
<1> QED BY <1>1, <1>2, <1>3, <1>4 DEF Smaller, n, MAX_ADULTS_PER_ROOM, MAX_CHILDREN_PER_ROOM

\* What _even_split and _assign_children make of a party.
LEMMA RoomsAreRight ==
    ASSUME NEW adults \in Nat \ {0}, NEW children \in Nat
    PROVE  LET rs == AllocateRooms(adults, children)
           IN  /\ rs \in Seq([adults : Nat, children : SUBSET (1 .. children)])
               /\ rs # <<>> =>
                    /\ Sums([i \in DOMAIN rs |-> rs[i].adults])[Len(rs)] = adults
                    /\ \A child \in 1 .. children :
                          Cardinality({i \in DOMAIN rs : child \in rs[i].children}) = 1
                    /\ \A i \in DOMAIN rs :
                          /\ rs[i].adults \in 1 .. MAX_ADULTS_PER_ROOM
                          /\ Cardinality(rs[i].children) <= MAX_CHILDREN_PER_ROOM
               /\ rs = <<>> => children > MAX_CHILDREN_PER_ROOM * adults
<1> DEFINE rs == AllocateRooms(adults, children)
           n == RoomCount(adults, children)
           grown == EvenSplit(adults, n)
           kids == EvenSplit(children, n)
           full == \E i \in 1 .. n : kids[i] > MAX_CHILDREN_PER_ROOM
           room(i) == [adults |-> grown[i], children |-> Sums(kids)[i - 1] + 1 .. Sums(kids)[i]]
<1>1. /\ n \in Nat /\ n > 0 /\ n <= adults /\ adults <= 2 * n
      /\ n = adults \/ children <= 2 * n
  BY RoomCountFits DEF MAX_ADULTS_PER_ROOM, MAX_CHILDREN_PER_ROOM
<1>2. rs = IF full THEN <<>> ELSE [i \in 1 .. n |-> room(i)]
  BY DEF AllocateRooms
<1> HIDE DEF n
<1>3. /\ grown \in Seq(Nat) /\ Len(grown) = n /\ Sums(grown)[n] = adults
      /\ kids \in Seq(Nat) /\ Len(kids) = n /\ Sums(kids)[n] = children
  BY <1>1, EvenSplitAddsUp
<1>4. \A i \in 1 .. n : grown[i] \in 1 .. 2
  <2> DEFINE share == adults \div n
             rest == adults % n
  <2>1. /\ share \in Nat /\ adults = (n * share) + rest /\ rest \in 0 .. n - 1
        /\ \A i \in 1 .. n : grown[i] = share + (IF i <= rest THEN 1 ELSE 0)
    BY <1>1, EvenSplitAddsUp
  <2> HIDE DEF share, rest, grown
  <2>2. share # 0
    <3> SUFFICES ASSUME share = 0 PROVE FALSE
      OBVIOUS
    <3> QED BY <1>1, <2>1
  <2>3. share = 1 \/ (share = 2 /\ rest = 0)
    <3> SUFFICES ASSUME share >= 3 \/ (share = 2 /\ rest # 0) PROVE FALSE
      BY <2>1, <2>2
    <3>1. CASE share >= 3
      <4>1. n * share >= n * 3 /\ n * share \in Nat
        BY <1>1, <2>1, <3>1
      <4> QED BY <1>1, <2>1, <4>1
    <3>2. CASE share = 2 /\ rest # 0
      BY <1>1, <2>1, <3>2
    <3> QED BY <3>1, <3>2
  <2> QED BY <1>1, <2>1, <2>3
<1>5. full => children > 2 * n
  <2> DEFINE share == children \div n
             rest == children % n
  <2>1. /\ share \in Nat /\ children = (n * share) + rest /\ rest \in 0 .. n - 1
        /\ \A i \in 1 .. n : kids[i] = share + (IF i <= rest THEN 1 ELSE 0)
    BY <1>1, EvenSplitAddsUp
  <2> HIDE DEF share, rest, kids
  <2> SUFFICES ASSUME NEW i \in 1 .. n, kids[i] > 2 PROVE children > 2 * n
    BY DEF MAX_CHILDREN_PER_ROOM
  <2>2. CASE share >= 3
    <3>1. n * share >= n * 3 /\ n * share \in Nat
      BY <1>1, <2>1, <2>2
    <3> QED BY <1>1, <2>1, <3>1
  <2>3. CASE ~ (share >= 3)
    <3>1. share = 2 /\ rest >= 1
      BY <1>1, <2>1, <2>3
    <3> QED BY <1>1, <2>1, <3>1
  <2> QED BY <2>2, <2>3
<1> HIDE DEF grown, kids
<1>6. CASE full
  <2>1. rs = <<>> /\ children > 2 * adults
    BY <1>1, <1>2, <1>5, <1>6
  <2> QED BY <2>1 DEF MAX_CHILDREN_PER_ROOM
<1>7. CASE ~full
  <2>1. rs = [i \in 1 .. n |-> room(i)]
    BY <1>2, <1>7
  <2>2. ASSUME NEW i \in 1 .. n
        PROVE  /\ Sums(kids)[i - 1] \in Nat /\ Sums(kids)[i] \in Nat
               /\ Sums(kids)[i] = Sums(kids)[i - 1] + kids[i]
               /\ kids[i] \in Nat /\ kids[i] <= 2
               /\ Sums(kids)[i] <= children
    <3>1. Sums(kids)[i] <= Sums(kids)[n]
      BY <1>1, <1>3, SumsGrow
    <3>2. /\ Sums(kids)[i - 1] \in Nat /\ Sums(kids)[i] \in Nat
          /\ Sums(kids)[i] = Sums(kids)[i - 1] + kids[i] /\ kids[i] \in Nat
      <4>1. i \in 1 .. Len(kids) /\ i - 1 \in 0 .. Len(kids) /\ i \in 0 .. Len(kids)
        BY <1>1, <1>3
      <4>2. kids[i] \in Nat
        BY <1>3, <4>1
      <4> QED BY <1>3, <4>1, <4>2, SumsOfNumbers
    <3>3. ~ (kids[i] > 2)
      BY <1>7 DEF MAX_CHILDREN_PER_ROOM
    <3> QED BY <1>3, <3>1, <3>2, <3>3
  <2> HIDE DEF rs, full
  <2>3. ASSUME NEW i \in 1 .. n
        PROVE  /\ room(i) \in [adults : Nat, children : SUBSET (1 .. children)]
               /\ Cardinality(room(i).children) <= 2
    <3> DEFINE low == Sums(kids)[i - 1]
               high == Sums(kids)[i]
    <3>1. low \in Nat /\ high \in Nat /\ high = low + kids[i] /\ kids[i] \in Nat /\ kids[i] <= 2
          /\ high <= children
      BY <2>2
    <3> HIDE DEF low, high
    <3>2. low + 1 .. high \in SUBSET (1 .. children)
      BY <3>1
    <3>3. Cardinality(low + 1 .. high) <= 2
      <4>1. low + 1 \in Int /\ high \in Int
        BY <3>1
      <4>2. Cardinality(low + 1 .. high) = IF low + 1 > high THEN 0 ELSE high - (low + 1) + 1
        BY <4>1, FS_Interval
      <4> QED BY <3>1, <4>2
    <3>4. grown[i] \in Nat
      BY <1>4
    <3> QED BY <3>2, <3>3, <3>4 DEF low, high
  <2>4. rs \in Seq([adults : Nat, children : SUBSET (1 .. children)]) /\ Len(rs) = n
    <3> HIDE DEF room
    <3> QED BY <1>1, <2>1, <2>3
  <2>5. rs # <<>>
    BY <1>1, <2>4
  <2>6. DOMAIN rs = 1 .. n /\ \A i \in 1 .. n : rs[i] = room(i)
    BY <2>1
  <2>7. [i \in DOMAIN rs |-> rs[i].adults] = grown
    <3>1. grown = [i \in 1 .. n |-> grown[i]]
      BY <1>1, <1>3
    <3>2. \A i \in 1 .. n : rs[i].adults = grown[i]
      BY <2>6
    <3> QED BY <2>6, <3>1, <3>2
  <2>8. \A child \in 1 .. children :
           Cardinality({i \in DOMAIN rs : child \in rs[i].children}) = 1
    <3> TAKE child \in 1 .. children
    <3>1. {i \in DOMAIN rs : child \in rs[i].children} =
             {i \in 1 .. Len(kids) : child \in Sums(kids)[i - 1] + 1 .. Sums(kids)[i]}
      <4>1. \A i \in 1 .. n : rs[i].children = Sums(kids)[i - 1] + 1 .. Sums(kids)[i]
        BY <2>6
      <4> QED BY <1>3, <2>6, <4>1
    <3> QED BY <1>3, <3>1, OneShare
  <2>9. \A i \in DOMAIN rs : rs[i].adults \in 1 .. 2 /\ Cardinality(rs[i].children) <= 2
    <3>1. \A i \in 1 .. n : room(i).adults = grown[i]
      OBVIOUS
    <3> QED BY <1>4, <2>3, <2>6, <3>1
  <2> QED BY <1>3, <2>4, <2>5, <2>7, <2>8, <2>9
        DEF rs, MAX_ADULTS_PER_ROOM, MAX_CHILDREN_PER_ROOM
<1> QED BY <1>6, <1>7

\* The stays of a split follow each other from the first night to the last.
LEMMA StaysAreRight ==
    ASSUME NEW nights \in NightSplits, SplitCityDates(nights) # <<>>, NEW night \in 1 .. Nights
    PROVE  LET stay == SplitCityDates(nights)
           IN  Cardinality({c \in DOMAIN stay : night \in stay[c].checkin .. stay[c].checkout - 1}) = 1
<1> DEFINE stay == SplitCityDates(nights)
<1>1. Cities \in Nat /\ Nights \in Nat
  BY TripSearchAssumption DEF TripSearchAssumption
<1>2. nights \in Seq(Nat) /\ Len(nights) = Cities /\ Sums(nights)[Len(nights)] = Nights
  BY <1>1 DEF NightSplits
<1>3. stay = [i \in DOMAIN nights |-> [checkin  |-> Sums(nights)[i - 1] + 1,
                                       checkout |-> Sums(nights)[i] + 1]]
  BY DEF SplitCityDates
<1> HIDE DEF stay
<1>4. ASSUME NEW c \in 1 .. Len(nights)
      PROVE  stay[c].checkin .. stay[c].checkout - 1 = Sums(nights)[c - 1] + 1 .. Sums(nights)[c]
  <2>1. Sums(nights)[c] \in Nat /\ Sums(nights)[c] + 1 - 1 = Sums(nights)[c]
    BY <1>2, SumsOfNumbers
  <2> QED BY <1>2, <1>3, <2>1
<1>5. {c \in DOMAIN stay : night \in stay[c].checkin .. stay[c].checkout - 1} =
         {c \in 1 .. Len(nights) : night \in Sums(nights)[c - 1] + 1 .. Sums(nights)[c]}
  <2>1. DOMAIN stay = 1 .. Len(nights)
    BY <1>2, <1>3
  <2> QED BY <1>4, <2>1
<1> QED BY <1>2, <1>5, OneShare DEF stay

-----------------------------------------------------------------------------
(* Types of what the servers answer *)

Flight == [price : Nat, direct : BOOLEAN, departs : Nat, arrives : Nat]
Hotel == [rates : SUBSET Nat, stars : Nat, matches : Nat]
Rated == {h \in Hotel : h.rates # {}}

\* The first few elements are elements.
LEMMA FirstOfTypes ==
    ASSUME NEW S, NEW s \in Seq(S), NEW n \in Nat
    PROVE  FirstOf(s, n) \in Seq(S)
<1>1. Len(s) \in Nat /\ \A i \in 1 .. Len(s) : s[i] \in S
  OBVIOUS
<1> DEFINE k == Smaller(n, Len(s))
<1>2. k \in Nat /\ k <= Len(s)
  BY <1>1 DEF Smaller
<1>3. \A i \in 1 .. k : s[i] \in S
  BY <1>1, <1>2
<1>4. [i \in 1 .. k |-> s[i]] \in Seq(S)
  <2> HIDE DEF k
  <2> QED
    BY <1>2, <1>3
<1> QED
  BY <1>4 DEF FirstOf

\* A hotel that has rates has a lowest one.
LEMMA LowestRateIsPrice ==
    ASSUME NEW h \in Rated
    PROVE  LowestRate(h) \in Nat
<1>1. h.rates \subseteq Nat /\ h.rates # {}
  BY DEF Rated, Hotel
<1>2. PICK r \in h.rates : \A other \in h.rates : <<other, r>> \notin OpToRel(<, Nat)
  BY <1>1, WFMin, NatLessThanWellFounded
<1>3. \A other \in h.rates : r <= other
  <2> TAKE other \in h.rates
  <2>1. other \in Nat /\ r \in Nat
    BY <1>1
  <2>2. ~ (other < r)
    BY <1>2, <2>1 DEF OpToRel
  <2> QED
    BY <2>1, <2>2
<1>4. LowestRate(h) \in h.rates
  BY <1>3 DEF LowestRate
<1> QED
  BY <1>1, <1>4

\* A flight search yields options.
LEMMA FlightCandidatesTypes ==
    ASSUME NEW raw \in Seq(Flight)
    PROVE  FlightCandidates(raw) \in Seq(Options)
<1> DEFINE parsed == [i \in DOMAIN raw |-> [krw |-> raw[i].price, utility |-> FlightUtility(raw[i])]]
<1>1. parsed \in Seq(Options)
  <2>1. \A f \in Flight : f.price \in Nat /\ FlightUtility(f) \in Nat
    BY DEF Flight, FlightUtility
  <2>2. \A i \in 1 .. Len(raw) : raw[i] \in Flight
    OBVIOUS
  <2>3. \A i \in 1 .. Len(raw) : [krw |-> raw[i].price, utility |-> FlightUtility(raw[i])] \in Options
    BY <2>1, <2>2 DEF Options
  <2>4. Len(raw) \in Nat /\ DOMAIN raw = 1 .. Len(raw)
    OBVIOUS
  <2> QED
    BY <2>3, <2>4
<1>2. CheapestFirst(parsed) \in Seq(Options)
  <2> HIDE DEF parsed
  <2> QED
    BY <1>1, CheapestFirstSorts
<1>3. FirstOf(CheapestFirst(parsed), 5) \in Seq(Options)
  <2> HIDE DEF parsed
  <2> QED
    BY <1>2, FirstOfTypes
<1> QED
  BY <1>3 DEF FlightCandidates

\* A hotel search yields hotels that have a rate.
LEMMA HotelCandidatesTypes ==
    ASSUME NEW raw \in Seq(Hotel)
    PROVE  HotelCandidates(raw) \in Seq(Rated)
<1> DEFINE rated == {i \in DOMAIN raw : raw[i].rates # {}}
           key == [i \in rated |-> LowestRate(raw[i])]
<1>1. rated \in SUBSET (DOMAIN raw) /\ \A i \in rated : raw[i] \in Rated
  BY DEF Rated
<1>2. \A i \in rated : key[i] \in Int
  BY <1>1, LowestRateIsPrice
<1>3. SortedBy(raw, rated, key) \in Seq({raw[i] : i \in rated})
  <2> HIDE DEF rated, key
  <2> QED
    BY <1>1, <1>2, SortingSorts
<1>4. SortedBy(raw, rated, key) \in Seq(Rated)
  <2>1. {raw[i] : i \in rated} \subseteq Rated
    BY <1>1
  <2> HIDE DEF rated, key
  <2> QED
    BY <1>3, <2>1
<1>5. FirstOf(SortedBy(raw, rated, key), 20) \in Seq(Rated)
  <2> HIDE DEF rated, key
  <2> QED
    BY <1>4, FirstOfTypes
<1> QED
  BY <1>5 DEF HotelCandidates

\* Scored candidates come with the best first: candidate_scorer.py sorts them.
LEMMA ScoreCandidatesTypes ==
    ASSUME NEW hs \in Seq(Rated)
    PROVE  ScoreCandidates(hs) \in Seq(Options) /\ BestFirst(ScoreCandidates(hs))
<1> DEFINE scored == [i \in DOMAIN hs |-> [krw |-> LowestRate(hs[i]), utility |-> HotelUtility(hs[i])]]
           kept == DOMAIN hs
           key == [i \in DOMAIN hs |-> -HotelUtility(hs[i])]
           c == SortedBy(scored, kept, key)
<1>1. \A i \in kept : LowestRate(hs[i]) \in Nat /\ HotelUtility(hs[i]) \in Nat
  <2>1. \A h \in Rated : HotelUtility(h) \in Nat
    BY DEF Rated, Hotel, HotelUtility, Smaller
  <2>2. \A i \in kept : hs[i] \in Rated
    OBVIOUS
  <2> QED
    BY <2>1, <2>2, LowestRateIsPrice
<1>2. scored \in Seq(Options) /\ kept = DOMAIN scored
  <2>1. \A i \in kept : [krw |-> LowestRate(hs[i]), utility |-> HotelUtility(hs[i])] \in Options
    BY <1>1 DEF Options
  <2>2. Len(hs) \in Nat /\ kept = 1 .. Len(hs)
    OBVIOUS
  <2> QED
    BY <2>1, <2>2
<1>3. \A i \in kept : key[i] \in Int /\ key[i] = - scored[i].utility /\ scored[i].utility \in Nat
  BY <1>1
<1>4. c \in Seq({scored[i] : i \in kept}) /\ Len(c) = Cardinality(kept) /\ \E at : ComesFrom(at, scored, kept, key)
  <2> HIDE DEF scored, key
  <2> QED
    BY <1>2, <1>3, SortingSorts
<1>5. c \in Seq(Options)
  <2>1. {scored[i] : i \in kept} \subseteq Options
    BY <1>2
  <2> HIDE DEF scored, c
  <2> QED
    BY <1>4, <2>1
<1>6. ASSUME NEW i \in DOMAIN c, NEW j \in DOMAIN c, i < j
      PROVE  c[i].utility >= c[j].utility
  <2> HIDE DEF scored, key
  <2>1. PICK at : ComesFrom(at, scored, kept, key)
    BY <1>4
  <2>2. i \in 1 .. Cardinality(kept) /\ j \in 1 .. Cardinality(kept)
    BY <1>4, <1>6
  <2>3. /\ at[i] \in kept /\ at[j] \in kept
        /\ c[i] = scored[at[i]] /\ c[j] = scored[at[j]]
        /\ Precedes(key, at[i], at[j])
    BY <2>1, <2>2, <1>6 DEF ComesFrom
  <2>4. key[at[i]] = - c[i].utility /\ key[at[j]] = - c[j].utility /\ c[i].utility \in Nat /\ c[j].utility \in Nat
    BY <2>3, <1>3
  <2> QED
    BY <2>3, <2>4 DEF Precedes
<1>7. BestFirst(c)
  BY <1>6 DEF BestFirst
<1> QED
  BY <1>5, <1>7 DEF ScoreCandidates

-----------------------------------------------------------------------------
(* The inductive invariant *)

\* A hotel list to be scored is one that was searched for.
Calls == [tool : {"flights", "rooms"}] \cup [tool : {"split"}, nights : NightSplits]
           \cup [tool : {"search", "score"}, city : 1 .. Cities]

\* The candidates have prices and utilities, and the hotels kept for the
\* engine have the best first.
CandidatesOK ==
    /\ flights \in Seq(Options) /\ hotels \in Seq(Options)
    /\ collected.flights \in Seq(Options)
    /\ collected.hotels \in Seq(Options) /\ BestFirst(collected.hotels)
    /\ found \in [1 .. Cities -> Seq(Rated)]
    /\ calls \in Seq(Calls)

SelectionOK == Selected => sel \in Selections

Inv ==
    /\ TripOK
    /\ CandidatesOK
    /\ SelectionOK
    /\ VerdictIsRight
    /\ SelectionIsEfficient

\* Nothing has been asked or selected.
LEMMA InitInv == Init => Inv
<1> SUFFICES ASSUME Init PROVE Inv
  OBVIOUS
<1> USE TripSearchAssumption
<1>1. TripOK
  <2>1. PICK p \in Parties, b \in Budgets :
          trip = [budget |-> b, days |-> Nights + 1, travelers |-> p.adults + p.children,
                  adults |-> p.adults, children |-> p.children]
    BY DEF Init
  <2>2. p.adults \in Nat /\ p.children \in Nat /\ b \in Nat /\ Nights \in Nat
    BY DEF TripSearchAssumption
  <2> QED
    BY <2>1, <2>2 DEF TripOK
<1>2. CandidatesOK
  <2>1. <<>> \in Seq(Options) /\ <<>> \in Seq(Rated) /\ <<>> \in Seq(Calls) /\ BestFirst(<<>>)
    BY DEF BestFirst
  <2> QED
    BY <2>1 DEF Init, CandidatesOK
<1>3. SelectionOK /\ VerdictIsRight /\ SelectionIsEfficient
  BY DEF Init, SelectionOK, VerdictIsRight, SelectionIsEfficient, Selected
<1> QED
  BY <1>1, <1>2, <1>3 DEF Inv

\* The engine's variables unchanged, what was proved of them is unchanged.
LEMMA EngineUnchanged ==
    ASSUME Inv, UNCHANGED budgetVars, CandidatesOK'
    PROVE  Inv'
<1> USE DEF budgetVars, Inv
<1>1. TripOK'
  BY DEF TripOK
<1>2. SelectionOK'
  BY DEF SelectionOK, Selected, Selections
<1>3. VerdictIsRight'
  BY DEF VerdictIsRight, Total, ActivityCost
<1>4. SelectionIsEfficient'
  BY DEF SelectionIsEfficient, Selected
<1> QED
  BY <1>1, <1>2, <1>3, <1>4

\* The model asks for tools that it has.
LEMMA AskToolsInv ==
    ASSUME Inv, AskTools
    PROVE  Inv'
<1>1. Available \subseteq Calls
  BY DEF Available, Calls
<1>2. calls' \in Seq(Calls)
  <2>1. CASE calls' \in {<<c>> : c \in Available}
    <3>1. PICK c \in Available : calls' = <<c>>
      BY <2>1
    <3>2. c \in Calls
      BY <1>1
    <3> QED
      BY <3>1, <3>2
  <2>2. CASE calls' \in Available \X Available
    <3>1. PICK c \in Available, d \in Available : calls' = <<c, d>>
      BY <2>2
    <3>2. c \in Calls /\ d \in Calls
      BY <1>1
    <3> QED
      BY <3>1, <3>2
  <2> QED
    BY <2>1, <2>2 DEF AskTools, Batches
<1>3. CandidatesOK'
  BY <1>2 DEF AskTools, budgetVars, Inv, CandidatesOK
<1> QED
  BY <1>3, EngineUnchanged DEF AskTools

\* What every answer has in common.
LEMMA AnsweringKeeps ==
    ASSUME Inv, NEW tool, Answering(tool)
    PROVE  /\ calls' \in Seq(Calls) /\ Head(calls) \in Calls /\ Head(calls).tool = tool
           /\ UNCHANGED budgetVars
<1>1. calls \in Seq(Calls) /\ calls # <<>>
  BY DEF Inv, CandidatesOK, Answering
<1>2. Head(calls) \in Calls /\ Tail(calls) \in Seq(Calls)
  BY <1>1
<1> QED
  BY <1>2 DEF Answering

\* The answer of the flight search is collected.
LEMMA FlightsAnswerInv ==
    ASSUME Inv, FlightsAnswer
    PROVE  Inv'
<1>1. calls' \in Seq(Calls) /\ UNCHANGED budgetVars
  BY AnsweringKeeps DEF FlightsAnswer
<1>2. PICK raw \in FlightAnswers \cup {<<>>} : collected' = [collected EXCEPT !.flights = FlightCandidates(raw)]
  BY DEF FlightsAnswer
<1>3. FlightCandidates(raw) \in Seq(Options)
  <2>1. raw \in Seq(Flight)
    <3>1. FlightAnswers \subseteq Seq(Flight)
      BY TripSearchAssumption DEF TripSearchAssumption, Flight
    <3>2. <<>> \in Seq(Flight)
      OBVIOUS
    <3> QED
      BY <3>1, <3>2
  <2> QED
    BY <2>1, FlightCandidatesTypes
<1>4. /\ collected'.flights \in Seq(Options)
      /\ collected'.hotels \in Seq(Options) /\ BestFirst(collected'.hotels)
  BY <1>2, <1>3 DEF Inv, CandidatesOK
<1>5. CandidatesOK'
  BY <1>1, <1>4 DEF FlightsAnswer, Inv, CandidatesOK, budgetVars, BestFirst
<1> QED
  BY <1>1, <1>5, EngineUnchanged

\* The answer of a hotel search is kept by city.
LEMMA SearchAnswerInv ==
    ASSUME Inv, SearchAnswer
    PROVE  Inv'
<1>1. calls' \in Seq(Calls) /\ UNCHANGED budgetVars
  BY AnsweringKeeps DEF SearchAnswer
<1>2. PICK raw \in HotelAnswers \cup {<<>>} : found' = [found EXCEPT ![Head(calls).city] = HotelCandidates(raw)]
  BY DEF SearchAnswer
<1>3. HotelCandidates(raw) \in Seq(Rated)
  <2>1. HotelAnswers \subseteq Seq(Hotel)
    BY TripSearchAssumption DEF TripSearchAssumption, Hotel
  <2>2. <<>> \in Seq(Hotel)
    OBVIOUS
  <2>3. raw \in Seq(Hotel)
    BY <2>1, <2>2
  <2> QED
    BY <2>3, HotelCandidatesTypes
<1>4. found' \in [1 .. Cities -> Seq(Rated)]
  BY <1>2, <1>3 DEF Inv, CandidatesOK
<1>5. CandidatesOK'
  BY <1>1, <1>4 DEF SearchAnswer, Inv, CandidatesOK, budgetVars, BestFirst
<1> QED
  BY <1>1, <1>5, EngineUnchanged

\* The scored hotels of a city are collected.
LEMMA ScoreAnswerInv ==
    ASSUME Inv, ScoreAnswer
    PROVE  Inv'
<1>1. calls' \in Seq(Calls) /\ UNCHANGED budgetVars /\ Head(calls) \in Calls /\ Head(calls).tool = "score"
  BY AnsweringKeeps DEF ScoreAnswer
<1>2. Head(calls).city \in 1 .. Cities
  BY <1>1 DEF Calls
<1> DEFINE scored == ScoreCandidates(found[Head(calls).city])
<1>3. scored \in Seq(Options) /\ BestFirst(scored)
  <2>1. found[Head(calls).city] \in Seq(Rated)
    BY <1>2 DEF Inv, CandidatesOK
  <2> QED
    BY <2>1, ScoreCandidatesTypes
<1>4. collected' = [collected EXCEPT !.hotels = scored]
  BY DEF ScoreAnswer
<1>5. /\ collected'.flights \in Seq(Options)
      /\ collected'.hotels \in Seq(Options) /\ BestFirst(collected'.hotels)
  <2> HIDE DEF scored
  <2>1. collected'.hotels \in {scored, collected.hotels} /\ collected'.flights = collected.flights
    BY <1>4
  <2> QED
    BY <2>1, <1>3 DEF Inv, CandidatesOK
<1>6. CandidatesOK'
  BY <1>1, <1>5 DEF ScoreAnswer, Inv, CandidatesOK, budgetVars, BestFirst
<1> QED
  BY <1>1, <1>6, EngineUnchanged

\* The other answers touch neither flights nor hotels.
LEMMA OtherAnswersInv ==
    ASSUME Inv, RoomsAnswer \/ SplitAnswer \/ ScoreFails
    PROVE  Inv'
<1>1. calls' \in Seq(Calls) /\ UNCHANGED budgetVars
  BY AnsweringKeeps DEF RoomsAnswer, SplitAnswer, ScoreFails
<1>2. UNCHANGED <<found, collected>>
  BY DEF RoomsAnswer, SplitAnswer, ScoreFails
<1>3. CandidatesOK'
  BY <1>1, <1>2 DEF Inv, CandidatesOK, budgetVars, BestFirst
<1> QED
  BY <1>1, <1>3, EngineUnchanged

-----------------------------------------------------------------------------
(* The budget engine *)

\* The budget engine starts from the cheapest of each.
LEMMA StopSearchingInv ==
    ASSUME Inv, StopSearching
    PROVE  Inv'
<1> DEFINE fo == CheapestFirst(collected.flights)
           ho == CheapestFirst(collected.hotels)
<1>1. /\ fo \in Seq(Options) /\ FirstIsCheapest(fo)
      /\ ho \in Seq(Options) /\ FirstIsCheapest(ho) /\ FirstIsBestOfItsPrice(ho)
  BY CheapestFirstSorts DEF Inv, CandidatesOK
<1>2. flights' = fo /\ hotels' = ho /\ UNCHANGED <<trip, searchVars>>
  BY DEF StopSearching, Allocate
<1> HIDE DEF fo, ho
<1>3. TripOK'
  BY <1>2 DEF Inv, TripOK
<1>4. CandidatesOK'
  BY <1>1, <1>2 DEF Inv, CandidatesOK, searchVars, BestFirst
<1>5. SelectionOK' /\ VerdictIsRight' /\ SelectionIsEfficient'
  <2>1. CASE Selected'
    <3>1. /\ fo # <<>> /\ ho # <<>>
          /\ sel' = [flight |-> fo[1], hotel |-> ho[1], tier |-> 1]
          /\ status' = IF Total(sel') > trip.budget THEN "insufficient" ELSE "upgrading"
      BY <2>1 DEF StopSearching, Allocate, Selected, Verdict, fo, ho
    <3>2. fo[1] \in Options /\ ho[1] \in Options /\ 1 \in DOMAIN ACTIVITY_TIERS
      BY <3>1, <1>1 DEF ACTIVITY_TIERS
    <3>3. sel' \in Selections
      BY <3>1, <3>2 DEF Selections
    <3>4. SelectionOK'
      BY <3>3 DEF SelectionOK, Selections
    <3>5. Total(sel') = fo[1].krw + ho[1].krw + ActivityCost(1) /\ ActivityCost(1) \in Nat
      <4>1. sel'.flight = fo[1] /\ sel'.hotel = ho[1] /\ sel'.tier = 1
        BY <3>1
      <4> QED
        BY <4>1, <3>2, TierTypes DEF Inv, Total
    <3>6. \A o \in Options : o.krw \in Nat /\ o.utility \in Nat
      BY DEF Options
    <3>7. VerdictIsRight'
      <4>1. Total(sel)' = Total(sel') /\ ActivityCost(1)' = ActivityCost(1)
        BY <1>2 DEF Total, ActivityCost
      <4>2. trip.budget \in Nat /\ trip'.budget = trip.budget
        BY <1>2 DEF Inv, TripOK
      <4>3. Total(sel') \in Nat
        BY <3>2, <3>5, <3>6
      <4>4. ASSUME Total(sel') > trip.budget, NEW f \in Elements(fo), NEW h \in Elements(ho)
            PROVE  f.krw + h.krw + ActivityCost(1) > trip.budget
        <5>1. f \in Options /\ h \in Options
          BY <1>1 DEF Elements
        <5>2. fo[1].krw <= f.krw /\ ho[1].krw <= h.krw
          BY <1>1 DEF FirstIsCheapest
        <5> QED
          BY <5>1, <5>2, <4>2, <4>4, <3>2, <3>5, <3>6
      <4>5. status' \in {"upgrading", "fit"} => Total(sel)' <= trip'.budget
        BY <3>1, <4>1, <4>2, <4>3
      <4>6. status' = "insufficient" =>
              \A f \in Elements(flights'), h \in Elements(hotels') :
                 f.krw + h.krw + ActivityCost(1)' > trip'.budget
        BY <3>1, <1>2, <4>1, <4>2, <4>4
      <4> QED
        BY <4>5, <4>6 DEF VerdictIsRight, Elements
    <3>8. ASSUME NEW h \in Elements(ho)
          PROVE  ~ Dominates(h, ho[1])
      <4>1. ho[1].krw <= h.krw /\ (h.krw = ho[1].krw => h.utility <= ho[1].utility)
        BY <1>1 DEF FirstIsCheapest, FirstIsBestOfItsPrice
      <4>2. h \in Options
        BY <1>1 DEF Elements
      <4> QED
        BY <4>1, <4>2, <3>2, <3>6 DEF Dominates
    <3>9. ASSUME NEW f \in Elements(fo), Dominates(f, fo[1])
          PROVE  f.krw = fo[1].krw /\ f # fo[1]
      <4>1. fo[1].krw <= f.krw
        BY <1>1 DEF FirstIsCheapest
      <4>2. f \in Options
        BY <1>1 DEF Elements
      <4> QED
        BY <3>9, <4>1, <4>2, <3>2, <3>6 DEF Dominates
    <3>10. SelectionIsEfficient'
      <4>1. sel'.flight = fo[1] /\ sel'.hotel = ho[1]
        BY <3>1
      <4>2. /\ \A h \in Elements(hotels') : ~ Dominates(h, sel'.hotel)
            /\ \A f \in Elements(flights') :
                  Dominates(f, sel'.flight) => f.krw = flights'[1].krw /\ f # flights'[1]
        BY <4>1, <1>2, <3>8, <3>9
      <4> QED
        BY <4>2 DEF SelectionIsEfficient, Elements, Dominates
    <3> QED
      BY <3>4, <3>7, <3>10
  <2>2. CASE ~ Selected'
    BY <2>2 DEF SelectionOK, VerdictIsRight, SelectionIsEfficient, Selected
  <2> QED
    BY <2>1, <2>2
<1> QED
  BY <1>3, <1>4, <1>5 DEF Inv

\* A run that raises changes nothing but its status.
LEMMA CrashInv ==
    ASSUME Inv, Crash
    PROVE  Inv'
<1> USE DEF Inv, Crash, searchVars
<1>1. TripOK'
  BY DEF TripOK
<1>2. CandidatesOK'
  BY DEF CandidatesOK, BestFirst
<1>3. SelectionOK' /\ VerdictIsRight' /\ SelectionIsEfficient'
  BY DEF SelectionOK, VerdictIsRight, SelectionIsEfficient, Selected
<1> QED
  BY <1>1, <1>2, <1>3

\* The engine stops when no upgrade fits, or after its last step.
LEMMA FinishInv ==
    ASSUME Inv, Finish, UNCHANGED searchVars
    PROVE  Inv'
<1> USE DEF Inv, Finish, searchVars
<1>1. TripOK'
  BY DEF TripOK
<1>2. CandidatesOK'
  BY DEF CandidatesOK, BestFirst
<1>3. SelectionOK'
  BY DEF SelectionOK, Selected, Selections
<1>4. VerdictIsRight'
  BY DEF VerdictIsRight, Total, ActivityCost
<1>5. SelectionIsEfficient'
  BY DEF SelectionIsEfficient, Selected
<1> QED
  BY <1>1, <1>2, <1>3, <1>4, <1>5

\* What an upgrade changes: the flight, the hotel or the tier, for a selection
\* within the budget that the engine prefers to every other.
LEMMA UpgradeMoves ==
    ASSUME Inv, Upgrade
    PROVE  /\ sel \in Selections /\ sel' \in Selections
           /\ Total(sel') <= trip.budget
           /\ \A n \in Moves : Preferred(sel', n)
           /\ \/ \E o \in Elements(flights) : Beats(o, sel.flight) /\ sel' = [sel EXCEPT !.flight = o]
              \/ \E o \in Elements(hotels) : Beats(o, sel.hotel) /\ sel' = [sel EXCEPT !.hotel = o]
              \/ sel'.flight = sel.flight /\ sel'.hotel = sel.hotel
<1>1. sel \in Selections /\ TripOK /\ flights \in Seq(Options) /\ hotels \in Seq(Options)
  BY DEF Inv, Upgrade, SelectionOK, Selected, CandidatesOK
<1>2. PICK m \in Moves : (\A n \in Moves : Preferred(m, n)) /\ sel' = m
  BY DEF Upgrade
<1>3. Total(m) <= trip.budget
  BY DEF Moves
<1>4. \/ \E o \in Elements(flights) : Beats(o, sel.flight) /\ m = [sel EXCEPT !.flight = o]
      \/ \E o \in Elements(hotels) : Beats(o, sel.hotel) /\ m = [sel EXCEPT !.hotel = o]
      \/ \E t \in DOMAIN ACTIVITY_TIERS : m = [sel EXCEPT !.tier = t]
  BY DEF Moves
<1>5. CASE \E o \in Elements(flights) : Beats(o, sel.flight) /\ m = [sel EXCEPT !.flight = o]
  <2>1. PICK o \in Elements(flights) : Beats(o, sel.flight) /\ m = [sel EXCEPT !.flight = o]
    BY <1>5
  <2>2. o \in Options
    BY <1>1 DEF Elements
  <2>3. m \in Selections
    BY <1>1, <2>1, <2>2, WithFlight
  <2> QED
    BY <1>1, <1>2, <1>3, <2>1, <2>3
<1>6. CASE \E o \in Elements(hotels) : Beats(o, sel.hotel) /\ m = [sel EXCEPT !.hotel = o]
  <2>1. PICK o \in Elements(hotels) : Beats(o, sel.hotel) /\ m = [sel EXCEPT !.hotel = o]
    BY <1>6
  <2>2. o \in Options
    BY <1>1 DEF Elements
  <2>3. m \in Selections
    BY <1>1, <2>1, <2>2, WithHotel
  <2> QED
    BY <1>1, <1>2, <1>3, <2>1, <2>3
<1>7. CASE \E t \in DOMAIN ACTIVITY_TIERS : m = [sel EXCEPT !.tier = t]
  <2>1. m \in Selections /\ m.flight = sel.flight /\ m.hotel = sel.hotel
    BY <1>1, <1>7 DEF Selections
  <2> QED
    BY <1>1, <1>2, <1>3, <2>1
<1> QED
  BY <1>4, <1>5, <1>6, <1>7

\* An upgrade stays within the budget.
LEMMA UpgradeInv ==
    ASSUME Inv, Upgrade, UNCHANGED searchVars
    PROVE  Inv'
<1>1. /\ TripOK /\ flights \in Seq(Options) /\ hotels \in Seq(Options) /\ Selected
      /\ UNCHANGED <<trip, flights, hotels, status>>
  BY DEF Inv, CandidatesOK, Upgrade, Selected
<1>2. TripOK'
  BY <1>1 DEF TripOK
<1>3. CandidatesOK'
  BY <1>1 DEF Inv, CandidatesOK, searchVars, BestFirst
<1>4. SelectionOK'
  <2>1. sel' \in Selections
    BY UpgradeMoves
  <2> QED
    BY <2>1 DEF SelectionOK, Selections
<1>5. VerdictIsRight'
  <2>1. Total(sel') <= trip.budget
    BY UpgradeMoves
  <2>2. Total(sel)' = Total(sel')
    BY <1>1 DEF Total, ActivityCost
  <2>3. status' = "upgrading"
    BY DEF Upgrade
  <2> QED
    BY <1>1, <2>1, <2>2, <2>3 DEF VerdictIsRight
<1>6. ASSUME NEW f \in Elements(flights), Dominates(f, sel'.flight)
      PROVE  Dominates(f, sel.flight)
  <2>1. CASE \E o \in Elements(flights) : Beats(o, sel.flight) /\ sel' = [sel EXCEPT !.flight = o]
    <3>1. PICK o \in Elements(flights) : Beats(o, sel.flight) /\ sel' = [sel EXCEPT !.flight = o]
      BY <2>1
    <3>2. sel'.flight = o
      BY <3>1, UpgradeMoves DEF Selections
    <3>3. Dominates(f, o)
      BY <1>6, <3>2
    <3>4. /\ sel \in Selections
          /\ Total([sel EXCEPT !.flight = o]) <= trip.budget
          /\ \A n \in Moves : Preferred([sel EXCEPT !.flight = o], n)
      BY <3>1, UpgradeMoves
    <3> QED
      BY <1>1, <3>1, <3>3, <3>4, UpgradedFlight
  <2>2. CASE sel'.flight = sel.flight
    BY <1>6, <2>2
  <2>3. CASE \E o \in Elements(hotels) : sel' = [sel EXCEPT !.hotel = o]
    <3>1. sel'.flight = sel.flight
      BY <2>3, UpgradeMoves DEF Selections
    <3> QED
      BY <1>6, <3>1
  <2> QED
    BY <2>1, <2>2, <2>3, UpgradeMoves
<1>7. ASSUME NEW h \in Elements(hotels), Dominates(h, sel'.hotel)
      PROVE  Dominates(h, sel.hotel)
  <2>1. CASE \E o \in Elements(hotels) : Beats(o, sel.hotel) /\ sel' = [sel EXCEPT !.hotel = o]
    <3>1. PICK o \in Elements(hotels) : Beats(o, sel.hotel) /\ sel' = [sel EXCEPT !.hotel = o]
      BY <2>1
    <3>2. sel'.hotel = o
      BY <3>1, UpgradeMoves DEF Selections
    <3>3. Dominates(h, o)
      BY <1>7, <3>2
    <3>4. /\ sel \in Selections
          /\ Total([sel EXCEPT !.hotel = o]) <= trip.budget
          /\ \A n \in Moves : Preferred([sel EXCEPT !.hotel = o], n)
      BY <3>1, UpgradeMoves
    <3> QED
      BY <1>1, <3>1, <3>3, <3>4, UpgradedHotel
  <2>2. CASE sel'.hotel = sel.hotel
    BY <1>7, <2>2
  <2>3. CASE \E o \in Elements(flights) : sel' = [sel EXCEPT !.flight = o]
    <3>1. sel'.hotel = sel.hotel
      BY <2>3, UpgradeMoves DEF Selections
    <3> QED
      BY <1>7, <3>1
  <2> QED
    BY <2>1, <2>2, <2>3, UpgradeMoves
<1>8. SelectionIsEfficient'
  <2>1. /\ \A h \in Elements(hotels) : ~ Dominates(h, sel'.hotel)
        /\ \A f \in Elements(flights) :
              Dominates(f, sel'.flight) => f.krw = flights[1].krw /\ f # flights[1]
    BY <1>1, <1>6, <1>7 DEF Inv, SelectionIsEfficient
  <2> QED
    BY <1>1, <2>1 DEF SelectionIsEfficient, Elements, Dominates
<1> QED
  BY <1>2, <1>3, <1>4, <1>5, <1>8 DEF Inv

\* Every step keeps the invariant.
LEMMA NextInv == Inv /\ [Next]_vars => Inv'
<1> SUFFICES ASSUME Inv, [Next]_vars PROVE Inv'
  OBVIOUS
<1>1. CASE AskTools
  BY <1>1, AskToolsInv
<1>2. CASE FlightsAnswer
  BY <1>2, FlightsAnswerInv
<1>3. CASE RoomsAnswer \/ SplitAnswer \/ ScoreFails
  BY <1>3, OtherAnswersInv
<1>4. CASE SearchAnswer
  BY <1>4, SearchAnswerInv
<1>5. CASE ScoreAnswer
  BY <1>5, ScoreAnswerInv
<1>6. CASE StopSearching
  BY <1>6, StopSearchingInv
<1>7. CASE Crash
  BY <1>7, CrashInv
<1>8. CASE Upgrading
  BY <1>8, UpgradeInv, FinishInv DEF Upgrading
<1>9. CASE UNCHANGED vars
  <2>1. UNCHANGED budgetVars /\ UNCHANGED searchVars
    BY <1>9 DEF vars
  <2>2. CandidatesOK'
    BY <2>1 DEF budgetVars, searchVars, Inv, CandidatesOK, BestFirst
  <2> QED
    BY <2>1, <2>2, EngineUnchanged
<1> QED
  BY <1>1, <1>2, <1>3, <1>4, <1>5, <1>6, <1>7, <1>8, <1>9 DEF Next

-----------------------------------------------------------------------------
(* The search itself *)

PartyOK == trip.adults \in Nat \ {0} /\ trip.children \in Nat

\* The LLM knows no rooms and stays but those the tools made.
RoomsOK == rooms \in {<<>>, AllocateRooms(trip.adults, trip.children)}
StaysOK == stays = <<>> \/ \E nights \in NightSplits : stays = SplitCityDates(nights)

CountsOK ==
    /\ turn \in 0 .. MaxTurns
    /\ steps \in 0 .. MAX_GREEDY_STEPS
    /\ status \in {"waiting", "upgrading", "fit", "insufficient", "no_flights", "no_hotels", "failed"}

CollectedOK == collected \in [flights : Seq(Options), hotels : Seq(Options)]

SearchInv == PartyOK /\ RoomsOK /\ StaysOK /\ CountsOK /\ CollectedOK /\ sel \in Selections

\* Nothing has been found yet.
LEMMA InitSearchInv == Init => SearchInv
<1> SUFFICES ASSUME Init PROVE SearchInv
  OBVIOUS
<1>1. PartyOK
  <2>1. PICK p \in Parties, b \in Budgets :
          trip = [budget |-> b, days |-> Nights + 1, travelers |-> p.adults + p.children,
                  adults |-> p.adults, children |-> p.children]
    BY DEF Init
  <2> QED
    BY <2>1, TripSearchAssumption DEF TripSearchAssumption, PartyOK
<1>2. sel \in Selections
  BY DEF Init, Selections, Options, ACTIVITY_TIERS
<1>3. CollectedOK
  <2>1. <<>> \in Seq(Options)
    OBVIOUS
  <2> QED
    BY <2>1 DEF Init, CollectedOK
<1> QED
  BY <1>1, <1>2, <1>3, TripSearchAssumption
  DEF Init, SearchInv, RoomsOK, StaysOK, CountsOK, TripSearchAssumption, MAX_GREEDY_STEPS

\* A step leaves the party alone, and keeps the selection until the engine chooses.
LEMMA PartyAndSelectionKept ==
    ASSUME Inv, Inv', SearchInv, [Next]_vars
    PROVE  /\ UNCHANGED trip
           /\ sel' \in Selections
<1>1. UNCHANGED trip /\ (Selected' \/ UNCHANGED sel)
  BY DEF Next, vars, budgetVars, AskTools, FlightsAnswer, RoomsAnswer, SplitAnswer, SearchAnswer,
         ScoreAnswer, ScoreFails, Answering, StopSearching, Allocate, Verdict, Crash, Upgrading,
         Upgrade, Finish, Selected
<1>2. Selected' => sel' \in Selections
  BY DEF Inv, SelectionOK, Selections
<1> QED
  BY <1>1, <1>2 DEF SearchInv

\* Turns and upgrades stay within their limits.
LEMMA CountsKept ==
    ASSUME Inv, SearchInv, [Next]_vars
    PROVE  CountsOK'
<1> USE TripSearchAssumption DEF SearchInv, CountsOK
<1>1. CASE AskTools
  BY <1>1 DEF AskTools, budgetVars, TripSearchAssumption
<1>2. CASE FlightsAnswer \/ RoomsAnswer \/ SplitAnswer \/ SearchAnswer \/ ScoreAnswer \/ ScoreFails
  BY <1>2 DEF FlightsAnswer, RoomsAnswer, SplitAnswer, SearchAnswer, ScoreAnswer, ScoreFails,
              Answering, budgetVars
<1>3. CASE StopSearching
  BY <1>3 DEF StopSearching, Allocate, Verdict, searchVars
<1>4. CASE Crash
  BY <1>4 DEF Crash, searchVars
<1>5. CASE Upgrading
  BY <1>5 DEF Upgrading, Upgrade, Finish, searchVars, MAX_GREEDY_STEPS
<1>6. CASE UNCHANGED vars
  BY <1>6 DEF vars, budgetVars, searchVars
<1> QED
  BY <1>1, <1>2, <1>3, <1>4, <1>5, <1>6 DEF Next

\* Rooms and stays are what the tools compute for this trip.
LEMMA RoomsAndStaysKept ==
    ASSUME Inv, SearchInv, [Next]_vars, UNCHANGED trip
    PROVE  RoomsOK' /\ StaysOK'
<1> USE DEF SearchInv
<1>1. CASE RoomsAnswer
  <2>1. rooms' = AllocateRooms(trip'.adults, trip'.children) /\ UNCHANGED stays
    BY <1>1 DEF RoomsAnswer
  <2> QED
    BY <2>1 DEF RoomsOK, StaysOK
<1>2. CASE SplitAnswer
  <2>1. Head(calls) \in Calls /\ Head(calls).tool = "split"
    BY <1>2, AnsweringKeeps DEF SplitAnswer
  <2>2. Head(calls).nights \in NightSplits
    BY <2>1 DEF Calls
  <2>3. stays' = SplitCityDates(Head(calls).nights) /\ UNCHANGED rooms
    BY <1>2 DEF SplitAnswer
  <2>4. StaysOK'
    BY <2>2, <2>3 DEF StaysOK
  <2> QED
    BY <2>3, <2>4 DEF RoomsOK
<1>3. CASE UNCHANGED <<rooms, stays>>
  BY <1>3 DEF RoomsOK, StaysOK
<1> QED
  BY <1>1, <1>2, <1>3 DEF Next, vars, searchVars, AskTools, FlightsAnswer, SearchAnswer,
         ScoreAnswer, ScoreFails, StopSearching, Crash, Upgrading

\* What is collected are options.
LEMMA CollectedKept ==
    ASSUME Inv', SearchInv, [Next]_vars
    PROVE  CollectedOK'
<1>1. \/ \E x : collected' = [collected EXCEPT !.flights = x]
      \/ \E x : collected' = [collected EXCEPT !.hotels = x]
      \/ UNCHANGED collected
  BY DEF Next, vars, searchVars, AskTools, FlightsAnswer, RoomsAnswer, SplitAnswer, SearchAnswer,
         ScoreAnswer, ScoreFails, StopSearching, Crash, Upgrading
<1>2. collected'.flights \in Seq(Options) /\ collected'.hotels \in Seq(Options)
  BY DEF Inv, CandidatesOK
<1> QED
  BY <1>1, <1>2 DEF SearchInv, CollectedOK

\* Every step keeps the invariant of the search.
LEMMA SearchNext == Inv /\ Inv' /\ SearchInv /\ [Next]_vars => SearchInv'
<1> SUFFICES ASSUME Inv, Inv', SearchInv, [Next]_vars PROVE SearchInv'
  OBVIOUS
<1>1. UNCHANGED trip /\ sel' \in Selections
  BY PartyAndSelectionKept
<1>2. PartyOK'
  BY <1>1 DEF SearchInv, PartyOK
<1>3. CountsOK' /\ RoomsOK' /\ StaysOK' /\ CollectedOK'
  BY <1>1, CountsKept, RoomsAndStaysKept, CollectedKept
<1> QED
  BY <1>1, <1>2, <1>3 DEF SearchInv, Selections

-----------------------------------------------------------------------------
(* Theorems *)

\* The inductive invariant holds throughout.
THEOREM Invariance == Spec => []Inv
BY InitInv, NextInv, PTL DEF Spec

\* So does that of the search.
THEOREM SearchInvariance == Spec => []SearchInv
BY InitSearchInv, SearchNext, Invariance, PTL DEF Spec

\* The search and the engine keep their types for every number of turns; the
\* rooms have numbers of adults, and children of the party, in them.
THEOREM TypeCorrectness == Spec => []TypeOK
<1>1. Inv /\ SearchInv => TypeOK
  <2> SUFFICES ASSUME Inv, SearchInv PROVE TypeOK
    OBVIOUS
  <2>1. rooms \in Seq(Rooms)
    <3>1. AllocateRooms(trip.adults, trip.children) \in Seq(Rooms)
      BY RoomsAreRight DEF SearchInv, PartyOK, Rooms
    <3>2. <<>> \in Seq(Rooms)
      OBVIOUS
    <3>3. rooms = <<>> \/ rooms = AllocateRooms(trip.adults, trip.children)
      BY DEF SearchInv, RoomsOK
    <3> QED
      BY <3>1, <3>2, <3>3
  <2> QED
    BY <2>1 DEF TypeOK, Inv, CandidatesOK, SearchInv, CountsOK, CollectedOK, Selections
<1> QED
  BY <1>1, Invariance, SearchInvariance, PTL

\* allocate_rooms gives every hotel search rooms for the whole party, and turns
\* away no party that rooms could hold.
THEOREM PartiesFit == Spec => []RoomsHoldTheParty
<1>1. SearchInv => RoomsHoldTheParty
  <2> SUFFICES ASSUME SearchInv PROVE RoomsHoldTheParty
    OBVIOUS
  <2> DEFINE rs == AllocateRooms(trip.adults, trip.children)
  <2>1. /\ rs # <<>> =>
             /\ Sums([i \in DOMAIN rs |-> rs[i].adults])[Len(rs)] = trip.adults
             /\ \A child \in 1 .. trip.children :
                   Cardinality({i \in DOMAIN rs : child \in rs[i].children}) = 1
             /\ \A i \in DOMAIN rs :
                   /\ rs[i].adults \in 1 .. MAX_ADULTS_PER_ROOM
                   /\ Cardinality(rs[i].children) <= MAX_CHILDREN_PER_ROOM
        /\ rs = <<>> => trip.children > MAX_CHILDREN_PER_ROOM * trip.adults
    BY RoomsAreRight DEF SearchInv, PartyOK
  <2>2. rooms # <<>> => rooms = rs
    BY DEF SearchInv, RoomsOK
  <2> HIDE DEF rs
  <2> QED
    BY <2>1, <2>2 DEF RoomsHoldTheParty, rs
<1> QED
  BY <1>1, SearchInvariance, PTL

\* split_city_dates: for any number of cities, no night of the trip is without
\* a hotel and none has two.
THEOREM NightsAreDealtOut == Spec => []EveryNightHasOneCity
<1>1. SearchInv => EveryNightHasOneCity
  <2> SUFFICES ASSUME SearchInv, stays # <<>>, NEW night \in 1 .. Nights
               PROVE  Cardinality({c \in DOMAIN stays :
                                     night \in stays[c].checkin .. stays[c].checkout - 1}) = 1
    BY DEF EveryNightHasOneCity
  <2>1. PICK nights \in NightSplits : stays = SplitCityDates(nights)
    BY DEF SearchInv, StaysOK
  <2> QED
    BY <2>1, StaysAreRight
<1> QED
  BY <1>1, SearchInvariance, PTL

\* allocate_budget never reports a trip that costs more than the budget as
\* fitting, nor calls a budget insufficient that some flight and hotel fit.
THEOREM TheVerdictIsRight == Spec => []VerdictIsRight
<1>1. Inv => VerdictIsRight
  BY DEF Inv
<1> QED
  BY <1>1, Invariance, PTL

\* The greedy steps of allocate_budget never pass over a hotel, or a flight
\* above the lowest price, that costs no more and gives no less.
THEOREM TheSelectionIsEfficient == Spec => []SelectionIsEfficient
<1>1. Inv => SelectionIsEfficient
  BY DEF Inv
<1> QED
  BY <1>1, Invariance, PTL

=============================================================================
